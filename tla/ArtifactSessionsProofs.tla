------------------------ MODULE ArtifactSessionsProofs ------------------------
(* Proofs about ArtifactSessions, for every number of sessions, downloads and *)
(* threads, and every size of the pool.                                       *)
EXTENDS ArtifactSessions, SequenceTheorems, TLAPS

-----------------------------------------------------------------------------
(* The inductive invariant.                                                  *)

\* TypeOK, part by part.
PoolTypes ==
    /\ open \subseteq Sessions /\ orphans \subseteq open
    /\ kept \in Seq(Sessions) /\ Len(kept) <= PerKey
    /\ poolClosed \in BOOLEAN /\ warming \in BOOLEAN
DownloadTypes ==
    /\ dpc \in [Downloads -> {"idle", "running", "keep"}]
    /\ conn \in [Downloads -> Sessions \cup {None}]
    /\ generation \in [Downloads -> 0..MaxGeneration]
    /\ suspect \in [Downloads -> {NotSuspect, 0}]
    /\ replaced \in [Downloads -> SUBSET Sessions]
    /\ doubtful \in [Downloads -> BOOLEAN]
ThreadTypes ==
    /\ wpc \in [Workers -> {"ready", "running", "lost", "backoff", "again", "failed"}]
    /\ on \in [Workers -> Sessions \cup {None}]
    /\ onGen \in [Workers -> 0..MaxGeneration]
    /\ tries \in [Workers -> 1..Attempts]
    /\ lost \in [Workers -> {"none", "retry", "reconnect", "permanent", "timeout"}]

\* OpenWhileOwned, session by session.
OpenIsOwned ==
    /\ \A c \in open : c \in RangeOf(kept) \/ \E d \in Downloads : c \in Owned(d)
    /\ \A d \in Downloads : Owned(d) \subseteq open
    /\ RangeOf(kept) \subseteq open
    /\ poolClosed => kept = <<>>

\* A download has a session as long as it runs or gives it back; only while it runs it has had others.
Phases ==
    \A d \in Downloads :
        /\ dpc[d] = "idle" <=> conn[d] = None
        /\ dpc[d] # "running" => replaced[d] = {} /\ ~doubtful[d] /\ generation[d] = 0

\* A thread is in an attempt only while its download runs, and then on a session of the download's.
ThreadsInPhase ==
    \A w \in Workers :
        /\ wpc[w] # "ready" => dpc[w[1]] = "running"
        /\ wpc[w] = "running" => on[w] \in Owned(w[1])
        /\ wpc[w] # "running" => on[w] = None
        /\ wpc[w] = "backoff" => tries[w] < Attempts

\* Where all the threads are awaited, an operation was left running on a download's sessions only if
\* the download doubts them.
QuietUnlessDoubtful ==
    Checks = {} =>
        /\ KeptIsQuiet
        /\ \A d \in Downloads : ~doubtful[d] => Owned(d) \cap orphans = {}

SessionsInv ==
    /\ PoolTypes /\ DownloadTypes /\ ThreadTypes /\ OneOwner /\ OpenIsOwned
    /\ Phases /\ ThreadsInPhase /\ QuietUnlessDoubtful

-----------------------------------------------------------------------------
(* Lemmas.                                                                   *)

\* A login gives a session that is not open and that nothing runs on.
LEMMA NewIsUnused ==
    ASSUME Unused # {}
    PROVE  NewSession \in Sessions \ open /\ NewSession \notin orphans
  BY DEF NewSession, Unused

\* An empty pool.
LEMMA EmptyPool == <<>> \in Seq(Sessions) /\ Len(<<>>) = 0 /\ 0 <= PerKey /\ RangeOf(<<>>) = {}
  BY CountsAssumption DEF RangeOf

\* A part of a sequence.
LEMMA PartOfSeq ==
    ASSUME NEW S, NEW s \in Seq(S), NEW a \in Nat, NEW b \in Nat, 1 <= a, b <= Len(s)
    PROVE  /\ SubSeq(s, a, b) \in Seq(S)
           /\ Len(SubSeq(s, a, b)) = IF a <= b THEN b - a + 1 ELSE 0
           /\ \A i \in 1..Len(SubSeq(s, a, b)) : SubSeq(s, a, b)[i] = s[a + i - 1]
           /\ RangeOf(SubSeq(s, a, b)) = {s[i] : i \in a..b}
  <1> DEFINE t == SubSeq(s, a, b)
  <1>1. /\ t \in Seq(S) /\ Len(t) = IF a <= b THEN b - a + 1 ELSE 0
        /\ \A i \in 1..Len(t) : t[i] = s[a + i - 1]
    BY SubSeqProperties
  <1> HIDE DEF t
  <1>2. \A i \in 1..Len(t) : a + i - 1 \in a..b
    BY <1>1
  <1>3. \A k \in a..b : k - a + 1 \in 1..Len(t) /\ a + (k - a + 1) - 1 = k
    BY <1>1
  <1>4. RangeOf(t) = {s[i] : i \in a..b}
    <2>1. ASSUME NEW i \in 1..Len(t)
          PROVE  t[i] \in {s[k] : k \in a..b}
      BY <1>1, <1>2
    <2>2. ASSUME NEW k \in a..b
          PROVE  s[k] \in RangeOf(t)
      <3>1. t[k - a + 1] = s[k]
        BY <1>1, <1>3
      <3> QED
        BY <3>1, <1>3 DEF RangeOf
    <2> QED
      BY <2>1, <2>2 DEF RangeOf
  <1> QED
    BY <1>1, <1>4 DEF t

Distinct(s) == \A i, j \in 1..Len(s) : i # j => s[i] # s[j]

\* A part of the kept sessions is of different ones, and what is not in it is before or behind it.
LEMMA PartOfKept ==
    ASSUME SessionsInv, NEW a \in Nat, NEW b \in Nat, 1 <= a, b <= Len(kept)
    PROVE  /\ SubSeq(kept, a, b) \in Seq(Sessions) /\ Len(SubSeq(kept, a, b)) \in Nat
           /\ Len(SubSeq(kept, a, b)) <= Len(kept)
           /\ Distinct(SubSeq(kept, a, b))
           /\ RangeOf(SubSeq(kept, a, b)) = {kept[i] : i \in a..b}
           /\ RangeOf(SubSeq(kept, a, b)) \subseteq RangeOf(kept)
  <1>1. kept \in Seq(Sessions) /\ Distinct(kept) /\ Len(kept) \in Nat
    BY DEF SessionsInv, PoolTypes, DownloadTypes, ThreadTypes, OneOwner, Distinct
  <1> DEFINE t == SubSeq(kept, a, b)
  <1>2. /\ t \in Seq(Sessions) /\ Len(t) = IF a <= b THEN b - a + 1 ELSE 0
        /\ \A i \in 1..Len(t) : t[i] = kept[a + i - 1]
        /\ RangeOf(t) = {kept[i] : i \in a..b}
    BY <1>1, PartOfSeq
  <1> HIDE DEF t
  <1>3. \A i \in 1..Len(t) : a + i - 1 \in 1..Len(kept)
    BY <1>1, <1>2
  <1>4. Distinct(t)
    <2> SUFFICES ASSUME NEW i \in 1..Len(t), NEW j \in 1..Len(t), i # j
                 PROVE  t[i] # t[j]
      BY DEF Distinct
    <2>1. a + i - 1 # a + j - 1
      OBVIOUS
    <2> QED
      BY <2>1, <1>1, <1>2, <1>3 DEF Distinct
  <1>5. RangeOf(t) \subseteq RangeOf(kept)
    <2>1. \A k \in a..b : k \in 1..Len(kept)
      BY <1>1
    <2> QED
      BY <2>1, <1>2 DEF RangeOf
  <1>6. Len(t) \in Nat /\ Len(t) <= Len(kept)
    BY <1>1, <1>2
  <1> QED
    BY <1>2, <1>4, <1>5, <1>6 DEF t

\* What the pool holds is what has been idle for too long, and the rest.
LEMMA PoolIsSplit ==
    ASSUME SessionsInv, NEW n \in 0..Len(kept)
    PROVE  /\ Fresh(n) \in Seq(Sessions) /\ Distinct(Fresh(n)) /\ Len(Fresh(n)) = Len(kept) - n
           /\ RangeOf(Fresh(n)) \cup Idle(n) = RangeOf(kept)
           /\ RangeOf(Fresh(n)) \cap Idle(n) = {}
           /\ (kept = <<>> => Fresh(n) = <<>>)
  <1>1. kept \in Seq(Sessions) /\ Distinct(kept) /\ Len(kept) \in Nat /\ n \in Nat
    BY DEF SessionsInv, PoolTypes, DownloadTypes, ThreadTypes, OneOwner, Distinct
  <1>2. /\ Fresh(n) \in Seq(Sessions) /\ Distinct(Fresh(n))
        /\ RangeOf(Fresh(n)) = {kept[i] : i \in (n + 1)..Len(kept)}
    BY <1>1, PartOfKept DEF Fresh
  <1>3. Len(Fresh(n)) = Len(kept) - n
    BY <1>1, SubSeqProperties DEF Fresh
  <1>4. Idle(n) = {kept[i] : i \in 1..n}
    BY <1>1, PartOfKept DEF Idle
  <1>5. RangeOf(Fresh(n)) \cup Idle(n) = RangeOf(kept)
    <2>1. \A k : k \in 1..Len(kept) <=> k \in 1..n \/ k \in (n + 1)..Len(kept)
      BY <1>1
    <2> QED
      BY <2>1, <1>2, <1>4 DEF RangeOf
  <1>6. RangeOf(Fresh(n)) \cap Idle(n) = {}
    <2>1. \A i \in 1..n, j \in (n + 1)..Len(kept) : i \in 1..Len(kept) /\ j \in 1..Len(kept) /\ i # j
      BY <1>1
    <2> QED
      BY <2>1, <1>1, <1>2, <1>4 DEF Distinct
  <1>7. kept = <<>> => Fresh(n) = <<>>
    BY <1>1, <1>2, <1>3
  <1> QED
    BY <1>2, <1>3, <1>5, <1>6, <1>7

\* The pool takes a session, or closes it.
LEMMA GiveFacts ==
    ASSUME SessionsInv, NEW c \in Sessions, c \notin RangeOf(kept), NEW n \in 0..Len(kept), Give(c, n)
    PROVE  /\ kept' \in Seq(Sessions) /\ Len(kept') <= PerKey /\ (poolClosed => kept' = <<>>)
           /\ Distinct(kept)'
           /\ RangeOf(kept') \subseteq RangeOf(kept) \cup {c}
           /\ open' = (open \ (RangeOf(kept) \cup {c})) \cup RangeOf(kept')
           /\ orphans' = orphans \ ((RangeOf(kept) \cup {c}) \ RangeOf(kept'))
  <1>1. /\ Fresh(n) \in Seq(Sessions) /\ Distinct(Fresh(n)) /\ Len(Fresh(n)) = Len(kept) - n
        /\ RangeOf(Fresh(n)) \cup Idle(n) = RangeOf(kept)
        /\ RangeOf(Fresh(n)) \cap Idle(n) = {}
        /\ (kept = <<>> => Fresh(n) = <<>>)
    BY PoolIsSplit
  <1>2. /\ RangeOf(kept) \subseteq open /\ (poolClosed => kept = <<>>)
        /\ Len(kept) <= PerKey /\ PerKey \in Nat /\ Len(kept) \in Nat
    BY CountsAssumption DEF SessionsInv, OpenIsOwned, PoolTypes
  <1>3. CASE Room(n)
    <2>1. kept' = Append(Fresh(n), c) /\ open' = (open \ Idle(n)) \cup {c} /\ orphans' = orphans \ Idle(n)
      BY <1>3 DEF Give, Change
    <2>2. /\ kept' \in Seq(Sessions) /\ Len(kept') = Len(kept) - n + 1
          /\ \A i \in 1..Len(Fresh(n)) : kept'[i] = Fresh(n)[i]
          /\ kept'[Len(Fresh(n)) + 1] = c
      BY SMTT(20), <2>1, <1>1, AppendProperties
    <2>3. RangeOf(kept') = RangeOf(Fresh(n)) \cup {c}
      <3>1. \A k : k \in 1..Len(kept') <=> k \in 1..Len(Fresh(n)) \/ k = Len(Fresh(n)) + 1
        BY <2>2, <1>1, <1>2
      <3> QED
        BY <3>1, <2>2 DEF RangeOf
    <2>4. \A i, j \in 1..Len(kept') : i # j => kept'[i] # kept'[j]
      <3> TAKE i, j \in 1..Len(kept')
      <3>1. \A k \in 1..Len(kept') : k \in 1..Len(Fresh(n)) \/ k = Len(Fresh(n)) + 1
        BY <2>2, <1>1, <1>2
      <3>2. \A k \in 1..Len(Fresh(n)) : Fresh(n)[k] \in RangeOf(kept)
        BY <1>1 DEF RangeOf
      <3> QED
        BY <2>2, <3>1, <3>2, <1>1 DEF Distinct
    <2>5. Len(kept') <= PerKey /\ ~poolClosed
      BY <2>2, <1>2, <1>3 DEF Room
    <2> QED
      BY <2>1, <2>2, <2>3, <2>4, <2>5, <1>1, <1>2 DEF Distinct
  <1>4. CASE ~Room(n)
    <2>1. kept' = Fresh(n) /\ open' = open \ (Idle(n) \cup {c}) /\ orphans' = orphans \ (Idle(n) \cup {c})
      BY <1>4 DEF Give, Change
    <2>2. Distinct(kept)' /\ Len(kept') <= PerKey
      BY <2>1, <1>1, <1>2 DEF Distinct
    <2> QED
      BY <2>1, <2>2, <1>1, <1>2
  <1> QED
    BY <1>3, <1>4

\* A download takes a session from the pool.
LEMMA TakeFacts ==
    ASSUME SessionsInv, NEW d \in Downloads, NEW n \in 0..Len(kept), NEW m \in 0..Len(kept), StartKept(d, n, m)
    PROVE  /\ kept' \in Seq(Sessions) /\ Len(kept') <= PerKey /\ Len(kept') \in Nat
           /\ \A i, j \in 1..Len(kept') : i # j => kept'[i] # kept'[j]
           /\ kept[m] \in RangeOf(kept) /\ kept[m] \notin RangeOf(kept') /\ kept[m] \in Sessions
           /\ RangeOf(kept') \subseteq RangeOf(kept)
           /\ open' = (open \ RangeOf(kept)) \cup RangeOf(kept') \cup {kept[m]}
           /\ orphans' = orphans \ (RangeOf(kept) \ (RangeOf(kept') \cup {kept[m]}))
  <1>1. /\ kept \in Seq(Sessions) /\ Len(kept) <= PerKey /\ PerKey \in Nat /\ Distinct(kept) /\ Len(kept) \in Nat
        /\ RangeOf(kept) \subseteq open
    BY CountsAssumption DEF SessionsInv, PoolTypes, DownloadTypes, ThreadTypes, OneOwner, OpenIsOwned, Distinct
  <1>2. /\ n < m /\ m \in 1..Len(kept) /\ n + 1 \in Nat /\ m - 1 \in Nat /\ n + 1 <= m
        /\ kept' = SubSeq(kept, n + 1, m - 1)
        /\ open' = open \ (RangeOf(kept) \ RangeOf(SubSeq(kept, n + 1, m)))
        /\ orphans' = orphans \ (RangeOf(kept) \ RangeOf(SubSeq(kept, n + 1, m)))
    BY <1>1 DEF StartKept, Change
  <1>3. /\ kept' \in Seq(Sessions) /\ Len(kept') \in Nat /\ Len(kept') <= Len(kept)
        /\ Distinct(SubSeq(kept, n + 1, m - 1))
        /\ RangeOf(kept') = {kept[i] : i \in (n + 1)..(m - 1)} /\ RangeOf(kept') \subseteq RangeOf(kept)
    <2>1. 1 <= n + 1 /\ m - 1 <= Len(kept)
      BY <1>1, <1>2
    <2> QED
      BY <2>1, <1>1, <1>2, PartOfKept
  <1>4. RangeOf(SubSeq(kept, n + 1, m)) = {kept[i] : i \in (n + 1)..m}
    BY SMTT(20), <1>1, <1>2, PartOfKept
  <1>5. RangeOf(SubSeq(kept, n + 1, m)) = RangeOf(kept') \cup {kept[m]}
    BY SMTT(20), <1>1, <1>2, <1>3, <1>4
  <1>6. kept[m] \in RangeOf(kept) /\ kept[m] \in Sessions
    BY <1>1, <1>2 DEF RangeOf
  <1>7. kept[m] \notin RangeOf(kept')
    <2>1. \A k \in (n + 1)..(m - 1) : k \in 1..Len(kept) /\ k # m
      BY <1>1, <1>2
    <2> QED
      BY <2>1, <1>1, <1>2, <1>3 DEF Distinct
  <1>8. \A i, j \in 1..Len(kept') : i # j => kept'[i] # kept'[j]
    BY <1>2, <1>3 DEF Distinct
  <1>9. open' = (open \ RangeOf(kept)) \cup RangeOf(kept') \cup {kept[m]}
    BY <1>1, <1>2, <1>3, <1>5, <1>6
  <1>10. Len(kept') <= PerKey
    BY <1>1, <1>3
  <1> QED
    BY <1>2, <1>3, <1>5, <1>6, <1>7, <1>8, <1>9, <1>10

\* A download's sessions, the pool's and new ones are shared out anew between the download and the pool:
\* what neither of them has any more is closed.
LEMMA SharedOut ==
    ASSUME SessionsInv, NEW d \in Downloads, NEW new, new \cap open = {},
           \A e \in Downloads : e # d => Owned(e)' = Owned(e) /\ conn'[e] = conn[e] /\ replaced'[e] = replaced[e],
           conn'[d] \notin replaced'[d],
           Owned(d)' \cap RangeOf(kept') = {}, Distinct(kept'),
           Owned(d)' \cup RangeOf(kept') \subseteq Owned(d) \cup RangeOf(kept) \cup new,
           open' = (open \ (Owned(d) \cup RangeOf(kept))) \cup Owned(d)' \cup RangeOf(kept'),
           poolClosed' => kept' = <<>>
    PROVE  OneOwner' /\ OpenIsOwned'
  <1>1. \A e \in Downloads : e # d => Owned(e) \cap (Owned(d) \cup RangeOf(kept) \cup new) = {} /\ Owned(e) \subseteq open
    BY DEF SessionsInv, OneOwner, OpenIsOwned
  <1>2. OneOwner'
    <2>1. ASSUME NEW e \in Downloads, NEW f \in Downloads, e # f
          PROVE  Owned(e)' \cap Owned(f)' = {}
      <3>1. CASE e # d /\ f # d
        BY <2>1, <3>1 DEF SessionsInv, OneOwner
      <3>2. CASE e = d \/ f = d
        BY <2>1, <3>2, <1>1
      <3> QED
        BY <3>1, <3>2
    <2>2. ASSUME NEW e \in Downloads
          PROVE  Owned(e)' \cap RangeOf(kept') = {} /\ conn'[e] \notin replaced'[e]
      <3>1. CASE e # d
        BY <3>1, <1>1 DEF SessionsInv, OneOwner
      <3>2. CASE e = d
        BY <3>2
      <3> QED
        BY <3>1, <3>2
    <2> QED
      BY <2>1, <2>2 DEF OneOwner, Distinct, RangeOf
  <1>3. OpenIsOwned'
    <2>1. ASSUME NEW c \in open'
          PROVE  c \in RangeOf(kept') \/ \E e \in Downloads : c \in Owned(e)'
      <3>1. CASE c \in open \ (Owned(d) \cup RangeOf(kept))
        <4>1. PICK e \in Downloads : c \in Owned(e) /\ e # d
          BY <3>1 DEF SessionsInv, OpenIsOwned
        <4> QED
          BY <4>1
      <3> QED
        BY <2>1, <3>1
    <2>2. ASSUME NEW e \in Downloads
          PROVE  Owned(e)' \subseteq open'
      BY <1>1
    <2> QED
      BY <2>1, <2>2 DEF OpenIsOwned, RangeOf
  <1> QED
    BY <1>2, <1>3

LEMMA SessionsAtFirst ==
    ASSUME Init
    PROVE  SessionsInv
  <1>1. PoolTypes
    BY EmptyPool DEF Init, None, SessionsInv, PoolTypes
  <1>2. DownloadTypes
    BY EmptyPool, SessionsAssumption, CountsAssumption DEF Init, None, SessionsInv, PoolTypes,
         DownloadTypes, ThreadTypes
  <1>3. ThreadTypes
    BY EmptyPool, SessionsAssumption, CountsAssumption DEF Init, None, SessionsInv, PoolTypes,
         DownloadTypes, ThreadTypes
  <1>4. OneOwner
    BY EmptyPool DEF Init, None, NotSuspect, Workers, SessionsInv, OneOwner, Owned, RangeOf
  <1>5. OpenIsOwned
    BY EmptyPool DEF Init, None, NotSuspect, Workers, SessionsInv, OpenIsOwned, RangeOf, Owned
  <1>6. Phases
    BY EmptyPool DEF Init, None, NotSuspect, Workers, SessionsInv, Phases
  <1>7. ThreadsInPhase
    BY EmptyPool DEF Init, None, NotSuspect, Workers, SessionsInv, ThreadsInPhase, Owned
  <1>8. QuietUnlessDoubtful
    BY EmptyPool DEF Init, None, NotSuspect, Workers, SessionsInv, QuietUnlessDoubtful, KeptIsQuiet,
         Owned, RangeOf
  <1> QED
    BY <1>1, <1>2, <1>3, <1>4, <1>5, <1>6, <1>7, <1>8 DEF SessionsInv

LEMMA OrphanEndsKeeps ==
    ASSUME SessionsInv, NEW c \in Sessions, OrphanEnds(c)
    PROVE  SessionsInv'
  <1>1. PoolTypes'
    BY DEF OrphanEnds, poolVars, sharedVars, threadVars, SessionsInv, PoolTypes
  <1>2. DownloadTypes'
    BY DEF OrphanEnds, poolVars, sharedVars, threadVars, SessionsInv, DownloadTypes, None,
         NotSuspect
  <1>3. ThreadTypes'
    BY DEF OrphanEnds, poolVars, sharedVars, threadVars, SessionsInv, ThreadTypes, Workers, None
  <1>4. OneOwner'
    BY DEF OrphanEnds, poolVars, sharedVars, threadVars, SessionsInv, OneOwner, Owned, RangeOf, None
  <1>5. OpenIsOwned'
    BY DEF OrphanEnds, poolVars, sharedVars, threadVars, SessionsInv, OpenIsOwned, RangeOf, Owned,
         None
  <1>6. Phases'
    BY DEF OrphanEnds, poolVars, sharedVars, threadVars, SessionsInv, Phases, None
  <1>7. ThreadsInPhase'
    BY DEF OrphanEnds, poolVars, sharedVars, threadVars, SessionsInv, ThreadsInPhase, Workers,
         Owned, None
  <1>8. QuietUnlessDoubtful'
    BY DEF OrphanEnds, poolVars, sharedVars, threadVars, SessionsInv, QuietUnlessDoubtful,
         KeptIsQuiet, Owned, RangeOf, None
  <1> QED
    BY <1>1, <1>2, <1>3, <1>4, <1>5, <1>6, <1>7, <1>8 DEF SessionsInv

LEMMA WarmCheckKeeps ==
    ASSUME SessionsInv, WarmCheck
    PROVE  SessionsInv'
  <1>1. PoolTypes'
    BY DEF WarmCheck, sharedVars, threadVars, SessionsInv, PoolTypes
  <1>2. DownloadTypes'
    BY DEF WarmCheck, sharedVars, threadVars, SessionsInv, DownloadTypes, None, NotSuspect
  <1>3. ThreadTypes'
    BY DEF WarmCheck, sharedVars, threadVars, SessionsInv, ThreadTypes, Workers, None
  <1>4. OneOwner'
    BY DEF WarmCheck, sharedVars, threadVars, SessionsInv, OneOwner, Owned, RangeOf, None
  <1>5. OpenIsOwned'
    BY DEF WarmCheck, sharedVars, threadVars, SessionsInv, OpenIsOwned, RangeOf, Owned, None
  <1>6. Phases'
    BY DEF WarmCheck, sharedVars, threadVars, SessionsInv, Phases, None
  <1>7. ThreadsInPhase'
    BY DEF WarmCheck, sharedVars, threadVars, SessionsInv, ThreadsInPhase, Workers, Owned, None
  <1>8. QuietUnlessDoubtful'
    BY DEF WarmCheck, sharedVars, threadVars, SessionsInv, QuietUnlessDoubtful, KeptIsQuiet, Owned,
         RangeOf, None
  <1> QED
    BY <1>1, <1>2, <1>3, <1>4, <1>5, <1>6, <1>7, <1>8 DEF SessionsInv

LEMMA AttemptKeeps ==
    ASSUME SessionsInv, NEW w \in Workers, Attempt(w)
    PROVE  SessionsInv'
  <1>1. PoolTypes'
    BY DEF Attempt, poolVars, sharedVars, SessionsInv, PoolTypes
  <1>2. DownloadTypes'
    BY DEF Attempt, poolVars, sharedVars, SessionsInv, DownloadTypes, None, NotSuspect
  <1>3. ThreadTypes'
    BY DEF Attempt, poolVars, sharedVars, SessionsInv, PoolTypes, DownloadTypes, None, NotSuspect,
         ThreadTypes, Workers
  <1>4. OneOwner'
    BY DEF Attempt, poolVars, sharedVars, SessionsInv, OneOwner, Owned, RangeOf, None
  <1>5. OpenIsOwned'
    BY DEF Attempt, poolVars, sharedVars, SessionsInv, OpenIsOwned, RangeOf, Owned, None
  <1>6. Phases'
    BY DEF Attempt, poolVars, sharedVars, SessionsInv, Phases, None
  <1>7. ThreadsInPhase'
    BY SessionsAssumption, CountsAssumption DEF Attempt, poolVars, sharedVars, SessionsInv,
         PoolTypes, DownloadTypes, None, NotSuspect, ThreadTypes, Workers, OneOwner, Owned, RangeOf,
         OpenIsOwned, Phases, ThreadsInPhase, QuietUnlessDoubtful, KeptIsQuiet
  <1>8. QuietUnlessDoubtful'
    BY DEF Attempt, poolVars, sharedVars, SessionsInv, QuietUnlessDoubtful, KeptIsQuiet, Owned,
         RangeOf, None
  <1> QED
    BY <1>1, <1>2, <1>3, <1>4, <1>5, <1>6, <1>7, <1>8 DEF SessionsInv

LEMMA SucceedKeeps ==
    ASSUME SessionsInv, NEW w \in Workers, Succeed(w)
    PROVE  SessionsInv'
  <1>1. PoolTypes'
    BY DEF Succeed, None, NotSuspect, poolVars, SessionsInv, PoolTypes
  <1>2. DownloadTypes'
    BY DEF Succeed, None, NotSuspect, poolVars, SessionsInv, DownloadTypes
  <1>3. ThreadTypes'
    BY SessionsAssumption, CountsAssumption DEF Succeed, None, NotSuspect, poolVars, SessionsInv,
         PoolTypes, DownloadTypes, ThreadTypes, Workers
  <1>4. OneOwner'
    BY DEF Succeed, None, NotSuspect, poolVars, SessionsInv, OneOwner, Owned, RangeOf
  <1>5. OpenIsOwned'
    BY DEF Succeed, None, NotSuspect, poolVars, SessionsInv, OpenIsOwned, RangeOf, Owned
  <1>6. Phases'
    BY DEF Succeed, None, NotSuspect, poolVars, SessionsInv, Phases
  <1>7. ThreadsInPhase'
    BY DEF Succeed, None, NotSuspect, poolVars, SessionsInv, PoolTypes, DownloadTypes, ThreadTypes,
         Workers, ThreadsInPhase, Owned
  <1>8. QuietUnlessDoubtful'
    BY DEF Succeed, None, NotSuspect, poolVars, SessionsInv, QuietUnlessDoubtful, KeptIsQuiet,
         Owned, RangeOf
  <1> QED
    BY <1>1, <1>2, <1>3, <1>4, <1>5, <1>6, <1>7, <1>8 DEF SessionsInv

LEMMA LoseKeeps ==
    ASSUME SessionsInv, NEW w \in Workers, NEW how \in {"retry", "reconnect", "permanent", "timeout"}, Lose(w, how)
    PROVE  SessionsInv'
  <1>1. PoolTypes'
    <2>1. orphans' \subseteq open
      BY DEF Lose, Workers, SessionsInv, PoolTypes, OpenIsOwned, Phases, ThreadsInPhase, Owned
    <2> QED
      BY <2>1 DEF Lose, poolVars, SessionsInv, PoolTypes
  <1>2. DownloadTypes'
    <2>1. w[1] \in Downloads
      BY DEF Workers
    <2>2. doubtful' \in [Downloads -> BOOLEAN]
      BY <2>1 DEF Lose, SessionsInv, DownloadTypes
    <2> QED
      BY <2>2 DEF Lose, SessionsInv, DownloadTypes
  <1>3. ThreadTypes'
    BY DEF Lose, None, poolVars, SessionsInv, ThreadTypes, Workers
  <1>4. OneOwner'
    BY DEF Lose, None, poolVars, SessionsInv, OneOwner, Owned, RangeOf
  <1>5. OpenIsOwned'
    BY DEF Lose, None, poolVars, SessionsInv, OpenIsOwned, RangeOf, Owned
  <1>6. Phases'
    <2>1. dpc[w[1]] = "running" /\ w[1] \in Downloads
      BY DEF Lose, Workers, SessionsInv, ThreadsInPhase
    <2>2. \A d \in Downloads : d # w[1] => doubtful'[d] = doubtful[d]
      BY DEF Lose, SessionsInv, PoolTypes, DownloadTypes, ThreadTypes
    <2> QED
      BY <2>1, <2>2 DEF Lose, poolVars, SessionsInv, Phases
  <1>7. ThreadsInPhase'
    BY DEF Lose, None, poolVars, SessionsInv, PoolTypes, DownloadTypes, NotSuspect, ThreadTypes,
         Workers, ThreadsInPhase, Owned
  <1>8. QuietUnlessDoubtful'
    <2>1. w[1] \in Downloads /\ on[w] \in Owned(w[1])
      BY DEF Lose, Workers, SessionsInv, ThreadsInPhase
    <2>2. CASE how = "timeout"
      <3>1. doubtful' = [doubtful EXCEPT ![w[1]] = TRUE] /\ orphans' = orphans \cup {on[w]}
        BY <2>2 DEF Lose
      <3>2. doubtful'[w[1]] /\ \A d \in Downloads : d # w[1] => doubtful'[d] = doubtful[d] /\ on[w] \notin Owned(d)
        BY <2>1, <3>1 DEF SessionsInv, PoolTypes, DownloadTypes, ThreadTypes, OneOwner
      <3>3. on[w] \notin RangeOf(kept)
        BY <2>1 DEF SessionsInv, OneOwner
      <3> QED
        BY <3>1, <3>2, <3>3 DEF Lose, poolVars, SessionsInv, QuietUnlessDoubtful, KeptIsQuiet, RangeOf, Owned
    <2>3. CASE how # "timeout"
      <3>1. doubtful' = doubtful /\ orphans' = orphans
        BY <2>3, <2>1 DEF Lose, SessionsInv, PoolTypes, DownloadTypes, ThreadTypes
      <3> QED
        BY <3>1 DEF Lose, poolVars, SessionsInv, QuietUnlessDoubtful, KeptIsQuiet, RangeOf, Owned
    <2> QED
      BY <2>2, <2>3
  <1> QED
    BY <1>1, <1>2, <1>3, <1>4, <1>5, <1>6, <1>7, <1>8 DEF SessionsInv

LEMMA AbandonKeeps ==
    ASSUME SessionsInv, NEW w \in Workers, Abandon(w)
    PROVE  SessionsInv'
  <1>1. PoolTypes'
    <2>1. orphans' \subseteq open
      BY DEF Abandon, Workers, SessionsInv, PoolTypes, OpenIsOwned, Phases, ThreadsInPhase, Owned
    <2> QED
      BY <2>1 DEF Abandon, poolVars, SessionsInv, PoolTypes
  <1>2. DownloadTypes'
    <2>1. w[1] \in Downloads
      BY DEF Workers
    <2>2. doubtful' \in [Downloads -> BOOLEAN]
      BY <2>1 DEF Abandon, SessionsInv, DownloadTypes
    <2> QED
      BY <2>2 DEF Abandon, SessionsInv, DownloadTypes
  <1>3. ThreadTypes'
    BY DEF Abandon, poolVars, threadVars, SessionsInv, ThreadTypes, Workers, None
  <1>4. OneOwner'
    BY DEF Abandon, poolVars, threadVars, SessionsInv, OneOwner, Owned, RangeOf, None
  <1>5. OpenIsOwned'
    BY DEF Abandon, poolVars, threadVars, SessionsInv, OpenIsOwned, RangeOf, Owned, None
  <1>6. Phases'
    BY DEF Abandon, poolVars, threadVars, SessionsInv, Phases, None
  <1>7. ThreadsInPhase'
    BY DEF Abandon, poolVars, threadVars, SessionsInv, ThreadsInPhase, Workers, Owned, None
  <1>8. QuietUnlessDoubtful'
    BY DEF Abandon, poolVars, threadVars, SessionsInv, QuietUnlessDoubtful, KeptIsQuiet, Owned,
         RangeOf, None
  <1> QED
    BY <1>1, <1>2, <1>3, <1>4, <1>5, <1>6, <1>7, <1>8 DEF SessionsInv

LEMMA ClosePoolKeeps ==
    ASSUME SessionsInv, ClosePool
    PROVE  SessionsInv'
  <1>1. RangeOf(kept') = {} /\ kept' = <<>> /\ kept' \in Seq(Sessions) /\ Len(kept') = 0 /\ 0 <= PerKey
    BY EmptyPool DEF ClosePool
  <1>2. PoolTypes'
    BY <1>1 DEF ClosePool, Change, RangeOf, sharedVars, threadVars, SessionsInv, PoolTypes
  <1>3. DownloadTypes'
    BY <1>1 DEF ClosePool, Change, RangeOf, sharedVars, threadVars, SessionsInv, DownloadTypes,
         None, NotSuspect
  <1>4. ThreadTypes'
    BY <1>1 DEF ClosePool, Change, RangeOf, sharedVars, threadVars, SessionsInv, ThreadTypes,
         Workers, None
  <1>5. OneOwner'
    BY <1>1 DEF ClosePool, Change, RangeOf, sharedVars, threadVars, SessionsInv, OneOwner, Owned,
         None
  <1>6. OpenIsOwned'
    BY <1>1, SessionsAssumption, CountsAssumption DEF ClosePool, Change, sharedVars, threadVars,
         SessionsInv, PoolTypes, DownloadTypes, None, NotSuspect, ThreadTypes, Workers, OneOwner,
         Owned, OpenIsOwned, Phases, ThreadsInPhase, QuietUnlessDoubtful, KeptIsQuiet
  <1>7. Phases'
    BY <1>1 DEF ClosePool, Change, RangeOf, sharedVars, threadVars, SessionsInv, Phases, None
  <1>8. ThreadsInPhase'
    BY <1>1 DEF ClosePool, Change, RangeOf, sharedVars, threadVars, SessionsInv, ThreadsInPhase,
         Workers, Owned, None
  <1>9. QuietUnlessDoubtful'
    BY <1>1 DEF ClosePool, Change, sharedVars, threadVars, SessionsInv, QuietUnlessDoubtful,
         KeptIsQuiet, Owned, None
  <1> QED
    BY <1>2, <1>3, <1>4, <1>5, <1>6, <1>7, <1>8, <1>9 DEF SessionsInv

LEMMA StartKeptKeeps ==
    ASSUME SessionsInv, NEW d \in Downloads, NEW n \in 0..Len(kept), NEW m \in 0..Len(kept), StartKept(d, n, m)
    PROVE  SessionsInv'
  <1>1. /\ kept' \in Seq(Sessions) /\ Len(kept') <= PerKey /\ Len(kept') \in Nat
        /\ \A i, j \in 1..Len(kept') : i # j => kept'[i] # kept'[j]
        /\ kept[m] \in RangeOf(kept) /\ kept[m] \notin RangeOf(kept') /\ kept[m] \in Sessions
        /\ RangeOf(kept') \subseteq RangeOf(kept)
        /\ open' = (open \ RangeOf(kept)) \cup RangeOf(kept') \cup {kept[m]}
        /\ orphans' = orphans \ (RangeOf(kept) \ (RangeOf(kept') \cup {kept[m]}))
        /\ Owned(d) = {} /\ Owned(d)' = {kept[m]}
        /\ \A e \in Downloads : e # d => Owned(e)' = Owned(e)
    <2>1. kept[m] \in Sessions /\ kept[m] # None
      BY TakeFacts, SessionsAssumption DEF None
    <2>2. Owned(d) = {} /\ Owned(d)' = {kept[m]} /\ \A e \in Downloads : e # d => Owned(e)' = Owned(e)
      BY <2>1 DEF StartKept, Started, Owned, SessionsInv, PoolTypes, DownloadTypes, ThreadTypes, Phases
    <2> QED
      BY <2>2, TakeFacts
  <1>2. OneOwner' /\ OpenIsOwned'
    <2>1. \A e \in Downloads : e # d => conn'[e] = conn[e] /\ replaced'[e] = replaced[e]
      BY DEF StartKept, Started, SessionsInv, DownloadTypes
    <2>2. conn'[d] \notin replaced'[d] /\ (poolClosed' => kept' = <<>>)
      BY <1>1 DEF StartKept, Started, SessionsInv, DownloadTypes, OpenIsOwned, Phases, None, Owned
    <2>3. Distinct(kept')
      BY <1>1 DEF Distinct
    <2>4. {} \cap open = {}
      BY <1>1
    <2>5. Owned(d)' \cap RangeOf(kept') = {}
      BY <1>1
    <2>6. Owned(d)' \cup RangeOf(kept') \subseteq Owned(d) \cup RangeOf(kept) \cup {}
      BY <1>1
    <2>7. open' = (open \ (Owned(d) \cup RangeOf(kept))) \cup Owned(d)' \cup RangeOf(kept')
      BY <1>1 DEF StartKept, Started, Change
    <2> QED
      BY <2>1, <2>2, <2>3, <2>4, <2>5, <2>6, <2>7, <1>1, SharedOut
  <1>3. PoolTypes'
    BY <1>1 DEF StartKept, Started, Change, threadVars, SessionsInv, PoolTypes
  <1>4. DownloadTypes'
    BY <1>1 DEF StartKept, Started, Change, threadVars, SessionsInv, DownloadTypes, None
  <1>5. ThreadTypes'
    BY <1>1 DEF StartKept, Started, Change, threadVars, SessionsInv, ThreadTypes, None
  <1>6. OneOwner'
    BY <1>2
  <1>7. OpenIsOwned'
    BY <1>2
  <1>8. Phases'
    BY <1>1, SessionsAssumption, CountsAssumption DEF StartKept, Started, Change, RangeOf,
         threadVars, SessionsInv, PoolTypes, DownloadTypes, None, NotSuspect, ThreadTypes, Workers,
         Phases
  <1>9. ThreadsInPhase'
    BY <1>1 DEF StartKept, Started, Change, RangeOf, threadVars, SessionsInv, ThreadsInPhase,
         Workers, Owned, None
  <1>10. QuietUnlessDoubtful'
    BY <1>1 DEF StartKept, Started, Change, threadVars, SessionsInv, QuietUnlessDoubtful,
         KeptIsQuiet
  <1> QED
    BY <1>3, <1>4, <1>5, <1>6, <1>7, <1>8, <1>9, <1>10 DEF SessionsInv

LEMMA StartFreshKeeps ==
    ASSUME SessionsInv, NEW d \in Downloads, StartFresh(d)
    PROVE  SessionsInv'
  <1>1. NewSession \in Sessions \ open /\ NewSession \notin orphans 
        /\ RangeOf(kept') = {} /\ kept' = <<>> /\ kept' \in Seq(Sessions) /\ Len(kept') = 0 /\ 0 <= PerKey
        /\ Owned(d) = {} /\ Owned(d)' = {NewSession} /\ NewSession # None
        /\ \A e \in Downloads : e # d => Owned(e)' = Owned(e)
    <2>1. NewSession \in Sessions \ open /\ NewSession \notin orphans /\ NewSession # None
      BY NewIsUnused, SessionsAssumption DEF StartFresh, None
    <2>2. RangeOf(kept') = {} /\ kept' = <<>> /\ kept' \in Seq(Sessions) /\ Len(kept') = 0 /\ 0 <= PerKey
      BY EmptyPool DEF StartFresh
    <2>3. conn[d] = None /\ replaced[d] = {} /\ conn' = [conn EXCEPT ![d] = NewSession] /\ replaced' = replaced
      BY DEF StartFresh, Started, SessionsInv, Phases
    <2>4. Owned(d) = {} /\ Owned(d)' = {NewSession} /\ \A e \in Downloads : e # d => Owned(e)' = Owned(e)
      BY <2>1, <2>3 DEF Owned, SessionsInv, DownloadTypes
    <2> QED
      BY <2>1, <2>2, <2>4
  <1>2. OneOwner' /\ OpenIsOwned'
    <2>1. \A e \in Downloads : e # d => conn'[e] = conn[e] /\ replaced'[e] = replaced[e]
      BY DEF StartFresh, Started, SessionsInv, DownloadTypes
    <2>2. conn'[d] \notin replaced'[d] /\ (poolClosed' => kept' = <<>>)
      BY <1>1 DEF StartFresh, Started, SessionsInv, DownloadTypes, OpenIsOwned, Phases, None, Owned
    <2>3. Distinct(kept')
      BY <1>1 DEF Distinct
    <2>4. {NewSession} \cap open = {}
      BY <1>1
    <2>5. Owned(d)' \cap RangeOf(kept') = {}
      BY <1>1
    <2>6. Owned(d)' \cup RangeOf(kept') \subseteq Owned(d) \cup RangeOf(kept) \cup {NewSession}
      BY <1>1
    <2>7. open' = (open \ (Owned(d) \cup RangeOf(kept))) \cup Owned(d)' \cup RangeOf(kept')
      BY <1>1 DEF StartFresh, Started, Change
    <2> QED
      BY <2>1, <2>2, <2>3, <2>4, <2>5, <2>6, <2>7, <1>1, SharedOut
  <1>3. PoolTypes'
    BY <1>1 DEF StartFresh, Started, Change, threadVars, SessionsInv, PoolTypes
  <1>4. DownloadTypes'
    BY <1>1 DEF StartFresh, Started, Change, threadVars, SessionsInv, DownloadTypes, None
  <1>5. ThreadTypes'
    BY <1>1 DEF StartFresh, Started, Change, threadVars, SessionsInv, ThreadTypes, None
  <1>6. OneOwner'
    BY <1>2
  <1>7. OpenIsOwned'
    BY <1>2
  <1>8. Phases'
    BY <1>1 DEF StartFresh, Started, NotSuspect, Change, RangeOf, threadVars, SessionsInv,
         PoolTypes, DownloadTypes, None, ThreadTypes, Workers, Phases
  <1>9. ThreadsInPhase'
    BY <1>1 DEF StartFresh, Started, NotSuspect, Change, RangeOf, threadVars, SessionsInv,
         ThreadsInPhase, Workers, Owned, None
  <1>10. QuietUnlessDoubtful'
    BY <1>1 DEF StartFresh, Started, NotSuspect, Change, threadVars, SessionsInv,
         QuietUnlessDoubtful, KeptIsQuiet
  <1> QED
    BY <1>3, <1>4, <1>5, <1>6, <1>7, <1>8, <1>9, <1>10 DEF SessionsInv

LEMMA KeepKeeps ==
    ASSUME SessionsInv, NEW d \in Downloads, NEW n \in 0..Len(kept), Keep(d, n)
    PROVE  SessionsInv'
  <1>0. conn[d] \in Sessions /\ conn[d] \notin RangeOf(kept) /\ conn[d] \in open
    BY SessionsAssumption DEF Keep, SessionsInv, PoolTypes, DownloadTypes, ThreadTypes, OneOwner, OpenIsOwned, Phases, Owned, None
  <1>1. /\ conn[d] \in Sessions /\ conn[d] \notin RangeOf(kept)
        /\ kept' \in Seq(Sessions) /\ Len(kept') <= PerKey /\ (poolClosed => kept' = <<>>)
        /\ \A i, j \in 1..Len(kept') : i # j => kept'[i] # kept'[j]
        /\ RangeOf(kept') \subseteq RangeOf(kept) \cup {conn[d]}
        /\ open' = (open \ (RangeOf(kept) \cup {conn[d]})) \cup RangeOf(kept')
        /\ orphans' = orphans \ ((RangeOf(kept) \cup {conn[d]}) \ RangeOf(kept'))
        /\ Owned(d) = {conn[d]} /\ Owned(d)' = {}
        /\ \A e \in Downloads : e # d => Owned(e)' = Owned(e)
    <2>1. Owned(d) = {conn[d]} /\ Owned(d)' = {} /\ \A e \in Downloads : e # d => Owned(e)' = Owned(e)
      BY ZenonT(30), <1>0, SessionsAssumption DEF Keep, Owned, SessionsInv, PoolTypes, DownloadTypes, ThreadTypes, Phases, None
    <2> QED
      BY <2>1, <1>0, GiveFacts DEF Keep, Distinct
  <1>2. OneOwner' /\ OpenIsOwned'
    <2>1. \A e \in Downloads : e # d => conn'[e] = conn[e] /\ replaced'[e] = replaced[e]
      BY DEF Keep, SessionsInv, DownloadTypes
    <2>2. conn'[d] \notin replaced'[d] /\ (poolClosed' => kept' = <<>>)
      BY <1>1 DEF Keep, SessionsInv, DownloadTypes, OpenIsOwned, Phases, None, Owned
    <2>3. Distinct(kept')
      BY <1>1 DEF Distinct
    <2>4. {} \cap open = {}
      BY <1>1
    <2>5. Owned(d)' \cap RangeOf(kept') = {}
      BY <1>1
    <2>6. Owned(d)' \cup RangeOf(kept') \subseteq Owned(d) \cup RangeOf(kept) \cup {}
      BY <1>1
    <2>7. open' = (open \ (Owned(d) \cup RangeOf(kept))) \cup Owned(d)' \cup RangeOf(kept')
      BY <1>1 DEF Keep
    <2> QED
      BY ZenonT(30), <2>1, <2>2, <2>3, <2>4, <2>5, <2>6, <2>7, <1>1, SharedOut
  <1>3. PoolTypes'
    BY <1>1, SessionsAssumption, CountsAssumption DEF Keep, None, threadVars, SessionsInv,
         PoolTypes, DownloadTypes, ThreadTypes, OneOwner, OpenIsOwned, Phases, ThreadsInPhase,
         QuietUnlessDoubtful, KeptIsQuiet
  <1>4. DownloadTypes'
    BY <1>1 DEF Keep, None, threadVars, SessionsInv, DownloadTypes
  <1>5. ThreadTypes'
    BY <1>1 DEF Keep, None, threadVars, SessionsInv, ThreadTypes
  <1>6. OneOwner'
    BY <1>2
  <1>7. OpenIsOwned'
    BY <1>2
  <1>8. Phases'
    BY <1>1 DEF Keep, None, threadVars, SessionsInv, PoolTypes, DownloadTypes, NotSuspect,
         ThreadTypes, Workers, Phases
  <1>9. ThreadsInPhase'
    BY <1>1 DEF Keep, None, threadVars, SessionsInv, ThreadsInPhase, Workers, Owned
  <1>10. QuietUnlessDoubtful'
    <2>1. RangeOf(kept') \subseteq RangeOf(kept) \cup Owned(d) /\ orphans' \subseteq orphans
      BY <1>1
    <2>2. ~doubtful[d] /\ doubtful' = doubtful
      BY DEF Keep, SessionsInv, Phases
    <2>3. \A e \in Downloads : Owned(e)' \subseteq Owned(e)
      BY <1>1
    <2> QED
      BY <2>1, <2>2, <2>3 DEF SessionsInv, QuietUnlessDoubtful, KeptIsQuiet
  <1> QED
    BY <1>3, <1>4, <1>5, <1>6, <1>7, <1>8, <1>9, <1>10 DEF SessionsInv

LEMMA WarmKeepKeeps ==
    ASSUME SessionsInv, NEW n \in 0..Len(kept), WarmKeep(n)
    PROVE  SessionsInv'
  <1>1. CASE UNCHANGED <<open, orphans, kept>>
    <2>1. PoolTypes'
      BY <1>1 DEF WarmKeep, sharedVars, threadVars, SessionsInv, PoolTypes
    <2>2. DownloadTypes'
      BY <1>1 DEF WarmKeep, sharedVars, threadVars, SessionsInv, DownloadTypes, None, NotSuspect
    <2>3. ThreadTypes'
      BY <1>1 DEF WarmKeep, sharedVars, threadVars, SessionsInv, ThreadTypes, Workers, None
    <2>4. OneOwner'
      BY <1>1 DEF WarmKeep, sharedVars, threadVars, SessionsInv, OneOwner, Owned, RangeOf, None
    <2>5. OpenIsOwned'
      BY <1>1 DEF WarmKeep, sharedVars, threadVars, SessionsInv, OpenIsOwned, RangeOf, Owned, None
    <2>6. Phases'
      BY <1>1 DEF WarmKeep, sharedVars, threadVars, SessionsInv, Phases, None
    <2>7. ThreadsInPhase'
      BY <1>1 DEF WarmKeep, sharedVars, threadVars, SessionsInv, ThreadsInPhase, Workers, Owned,
           None
    <2>8. QuietUnlessDoubtful'
      BY <1>1 DEF WarmKeep, sharedVars, threadVars, SessionsInv, QuietUnlessDoubtful, KeptIsQuiet,
           Owned, RangeOf, None
    <2> QED
      BY <2>1, <2>2, <2>3, <2>4, <2>5, <2>6, <2>7, <2>8 DEF SessionsInv
  <1>2. CASE Unused # {} /\ Give(NewSession, n)
    <2>1. NewSession \in Sessions \ open /\ NewSession \notin orphans /\ NewSession \notin RangeOf(kept)
      BY <1>2, NewIsUnused DEF SessionsInv, OpenIsOwned
    <2>2. /\ kept' \in Seq(Sessions) /\ Len(kept') <= PerKey /\ (poolClosed => kept' = <<>>)
          /\ \A i, j \in 1..Len(kept') : i # j => kept'[i] # kept'[j]
          /\ RangeOf(kept') \subseteq RangeOf(kept) \cup {NewSession}
          /\ open' = (open \ (RangeOf(kept) \cup {NewSession})) \cup RangeOf(kept')
          /\ orphans' = orphans \ ((RangeOf(kept) \cup {NewSession}) \ RangeOf(kept'))
      BY <1>2, <2>1, GiveFacts DEF Distinct
    <2>3. PoolTypes'
      <3>1. open \subseteq Sessions /\ orphans \subseteq open /\ RangeOf(kept) \subseteq open
        BY DEF SessionsInv, PoolTypes, OpenIsOwned
      <3>2. open' \subseteq Sessions /\ orphans' \subseteq open'
        BY <2>1, <2>2, <3>1
      <3> QED
        BY <2>2, <3>2 DEF WarmKeep, SessionsInv, PoolTypes
    <2>4. DownloadTypes'
      BY <1>2, <2>1, <2>2 DEF WarmKeep, sharedVars, threadVars, SessionsInv, DownloadTypes, None,
           NotSuspect
    <2>5. ThreadTypes'
      BY <1>2, <2>1, <2>2 DEF WarmKeep, sharedVars, threadVars, SessionsInv, ThreadTypes, Workers,
           None
    <2>6. OneOwner'
      BY <1>2, <2>1, <2>2, SessionsAssumption, CountsAssumption DEF WarmKeep, sharedVars,
           threadVars, SessionsInv, PoolTypes, DownloadTypes, None, NotSuspect, ThreadTypes,
           Workers, OneOwner, Owned, OpenIsOwned, Phases, ThreadsInPhase, QuietUnlessDoubtful,
           KeptIsQuiet
    <2>7. OpenIsOwned'
      BY <1>2, <2>1, <2>2, SessionsAssumption, CountsAssumption DEF WarmKeep, sharedVars,
           threadVars, SessionsInv, PoolTypes, DownloadTypes, None, NotSuspect, ThreadTypes,
           Workers, OneOwner, Owned, OpenIsOwned, Phases, ThreadsInPhase, QuietUnlessDoubtful,
           KeptIsQuiet
    <2>8. Phases'
      BY <1>2, <2>1, <2>2 DEF WarmKeep, sharedVars, threadVars, SessionsInv, Phases, None
    <2>9. ThreadsInPhase'
      BY <1>2, <2>1, <2>2 DEF WarmKeep, sharedVars, threadVars, SessionsInv, ThreadsInPhase,
           Workers, Owned, None
    <2>10. QuietUnlessDoubtful'
      BY <1>2, <2>1, <2>2 DEF WarmKeep, sharedVars, threadVars, SessionsInv, QuietUnlessDoubtful,
           KeptIsQuiet, Owned, None
    <2> QED
      BY <2>3, <2>4, <2>5, <2>6, <2>7, <2>8, <2>9, <2>10 DEF SessionsInv
  <1> QED
    BY <1>1, <1>2 DEF WarmKeep

\* A failed thread may have the session replaced, or may go on as it is.
LEMMA ReplacedKeeps ==
    ASSUME SessionsInv, NEW w \in Workers, wpc[w] \in {"lost", "backoff"}, CanLogIn(w[1]), Replaced(w[1]), Again(w),
           tries' = tries \/ (wpc[w] = "backoff" /\ tries' = [tries EXCEPT ![w] = @ + 1]),
           UNCHANGED <<kept, poolClosed, warming, dpc, suspect, doubtful, on, orphans>>
    PROVE  SessionsInv'
  <1> DEFINE d == w[1]
  <1>1. /\ NewSession \in Sessions \ open /\ NewSession \notin orphans /\ NewSession # None /\ d \in Downloads
        /\ dpc[d] = "running" /\ conn[d] # None /\ conn[d] \in Sessions /\ generation[d] < MaxGeneration
    <2>1. d \in Downloads /\ dpc[d] = "running"
      BY DEF Workers, SessionsInv, ThreadsInPhase
    <2>2. conn[d] # None /\ conn[d] \in Sessions
      BY <2>1 DEF SessionsInv, PoolTypes, DownloadTypes, ThreadTypes, Phases
    <2>3. NewSession \in Sessions \ open /\ NewSession \notin orphans /\ NewSession # None /\ generation[d] < MaxGeneration
      BY NewIsUnused, SessionsAssumption DEF CanLogIn, None
    <2> QED
      BY <2>1, <2>2, <2>3
  <1>2. /\ replaced' = [replaced EXCEPT ![d] = @ \cup {conn[d]}] /\ conn' = [conn EXCEPT ![d] = NewSession]
        /\ open' = open \cup {NewSession} /\ generation' = [generation EXCEPT ![d] = @ + 1]
    BY DEF Replaced
  <1>3. /\ Owned(d)' = Owned(d) \cup {NewSession}
        /\ \A e \in Downloads : e # d => Owned(e)' = Owned(e)
    BY <1>1, <1>2 DEF Owned, SessionsInv, PoolTypes, DownloadTypes, ThreadTypes
  <1> HIDE DEF d
  <1>4. OneOwner' /\ OpenIsOwned'
    <2>1. \A e \in Downloads : e # d => conn'[e] = conn[e] /\ replaced'[e] = replaced[e]
      BY <1>1, <1>2 DEF SessionsInv, DownloadTypes
    <2>2. conn'[d] = NewSession /\ replaced'[d] = replaced[d] \cup {conn[d]} /\ Owned(d) \subseteq open
      BY <1>1, <1>2 DEF SessionsInv, DownloadTypes, OpenIsOwned
    <2>3. conn'[d] \notin replaced'[d]
      BY <1>1, <2>2 DEF Owned, None
    <2>4. Distinct(kept') /\ Owned(d) \cap RangeOf(kept) = {} /\ RangeOf(kept) \subseteq open /\ kept' = kept
      BY <1>1 DEF SessionsInv, OneOwner, Distinct, OpenIsOwned
    <2>5. Owned(d)' \cap RangeOf(kept') = {}
      BY <1>1, <1>3, <2>4
    <2>6. open' = (open \ (Owned(d) \cup RangeOf(kept))) \cup Owned(d)' \cup RangeOf(kept')
      BY <1>2, <1>3, <2>2, <2>4
    <2>7. {NewSession} \cap open = {}
      BY <1>1
    <2>8. poolClosed' => kept' = <<>>
      BY DEF SessionsInv, OpenIsOwned
    <2>9. Owned(d)' \cup RangeOf(kept') \subseteq Owned(d) \cup RangeOf(kept) \cup {NewSession}
      BY <1>3, <2>4
    <2> QED
      BY <1>1, <1>3, <2>1, <2>3, <2>4, <2>5, <2>6, <2>7, <2>8, <2>9, SharedOut
  <1>5. PoolTypes'
    BY <1>1, <1>2, <1>3 DEF Again, CanLogIn, Goto, SessionsInv, PoolTypes
  <1>6. DownloadTypes'
    BY <1>1, <1>2, <1>3, SessionsAssumption, CountsAssumption DEF Again, CanLogIn, Goto,
         SessionsInv, PoolTypes, DownloadTypes, None, ThreadTypes, OneOwner, OpenIsOwned, Phases,
         ThreadsInPhase, QuietUnlessDoubtful, KeptIsQuiet
  <1>7. ThreadTypes'
    <2>1. tries' \in [Workers -> 1..Attempts]
      <3>1. wpc[w] = "backoff" => tries[w] < Attempts /\ tries[w] \in Nat
        BY CountsAssumption DEF SessionsInv, ThreadTypes, ThreadsInPhase
      <3> QED
        BY <3>1, CountsAssumption DEF SessionsInv, ThreadTypes
    <2>2. onGen' \in [Workers -> 0..MaxGeneration]
      BY CountsAssumption DEF Again, Goto, SessionsInv, ThreadTypes
    <2> QED
      BY <2>1, <2>2 DEF Again, Goto, SessionsInv, ThreadTypes
  <1>8. OneOwner'
    BY <1>4
  <1>9. OpenIsOwned'
    BY <1>4
  <1>10. Phases'
    BY <1>1, <1>2, <1>3 DEF Again, CanLogIn, Workers, Goto, SessionsInv, Phases, None
  <1>11. ThreadsInPhase'
    BY <1>1, <1>2, <1>3 DEF Again, CanLogIn, Workers, Goto, SessionsInv, PoolTypes, DownloadTypes,
         None, NotSuspect, ThreadTypes, ThreadsInPhase, Owned
  <1>12. QuietUnlessDoubtful'
    BY <1>1, <1>2, <1>3 DEF Again, CanLogIn, Workers, Goto, SessionsInv, QuietUnlessDoubtful,
         KeptIsQuiet
  <1> QED
    BY <1>5, <1>6, <1>7, <1>8, <1>9, <1>10, <1>11, <1>12 DEF SessionsInv

\* The sessions stay as they are, and the thread pauses, goes on or has failed.
LEMMA GoesOnKeeps ==
    ASSUME SessionsInv, NEW w \in Workers, wpc[w] \in {"lost", "backoff"},
           \/ \E label \in {"again", "failed"} : Goto(w, label)
           \/ wpc[w] = "lost" /\ tries' = tries /\ BackOff(w),
           tries' = tries \/ (wpc[w] = "backoff" /\ tries' = [tries EXCEPT ![w] = @ + 1]),
           suspect' = suspect \/ suspect' = [suspect EXCEPT ![w[1]] = NotSuspect],
           UNCHANGED <<open, kept, poolClosed, warming, dpc, conn, generation, replaced, doubtful, on, orphans>>
    PROVE  SessionsInv'
  <1>1. /\ w \in Workers /\ w[1] \in Downloads
        /\ \E label \in {"again", "failed", "backoff"} :
               wpc' = [wpc EXCEPT ![w] = label] /\ (label = "backoff" => wpc[w] = "lost" /\ tries[w] < Attempts /\ tries' = tries)
        /\ onGen' = onGen \/ onGen' = [onGen EXCEPT ![w] = 0]
        /\ lost' = lost \/ lost' = [lost EXCEPT ![w] = "none"]
    <2>1. w[1] \in Downloads
      BY DEF Workers
    <2>2. tries[w] \in Nat /\ Attempts \in Nat
      BY CountsAssumption DEF SessionsInv, ThreadTypes
    <2> QED
      BY <2>1, <2>2 DEF BackOff, Goto
  <1>2. PICK label \in {"again", "failed", "backoff"} :
           wpc' = [wpc EXCEPT ![w] = label] /\ (label = "backoff" => wpc[w] = "lost" /\ tries[w] < Attempts /\ tries' = tries)
    BY <1>1

  <1>3. PoolTypes'
    BY <1>1, <1>2 DEF SessionsInv, PoolTypes
  <1>4. DownloadTypes'
    BY <1>1, <1>2 DEF SessionsInv, DownloadTypes, None
  <1>5. ThreadTypes'
    <2>1. tries' \in [Workers -> 1..Attempts]
      <3>1. wpc[w] = "backoff" => tries[w] < Attempts /\ tries[w] \in Nat
        BY CountsAssumption DEF SessionsInv, ThreadTypes, ThreadsInPhase
      <3> QED
        BY <3>1, CountsAssumption DEF SessionsInv, ThreadTypes
    <2>2. onGen' \in [Workers -> 0..MaxGeneration]
      BY <1>1, CountsAssumption DEF SessionsInv, ThreadTypes
    <2> QED
      BY <1>1, <1>2, <2>1, <2>2 DEF SessionsInv, ThreadTypes
  <1>6. OneOwner'
    BY <1>1, <1>2 DEF SessionsInv, OneOwner, Owned, RangeOf, None
  <1>7. OpenIsOwned'
    BY <1>1, <1>2 DEF SessionsInv, OpenIsOwned, RangeOf, Owned, None
  <1>8. Phases'
    BY <1>1, <1>2 DEF SessionsInv, Phases, None
  <1>9. ThreadsInPhase'
    BY <1>1, <1>2 DEF SessionsInv, PoolTypes, DownloadTypes, None, NotSuspect, ThreadTypes,
         ThreadsInPhase, Owned
  <1>10. QuietUnlessDoubtful'
    BY <1>1, <1>2 DEF SessionsInv, QuietUnlessDoubtful, KeptIsQuiet, Owned, RangeOf, None
  <1> QED
    BY <1>3, <1>4, <1>5, <1>6, <1>7, <1>8, <1>9, <1>10 DEF SessionsInv

LEMMA ReplaceStaleKeptKeeps ==
    ASSUME SessionsInv, NEW w \in Workers, ReplaceStaleKept(w)
    PROVE  SessionsInv'
  BY ReplacedKeeps, GoesOnKeeps DEF ReplaceStaleKept, Again, sharedVars, poolVars

LEMMA ReopenKeeps ==
    ASSUME SessionsInv, NEW w \in Workers, Reopen(w)
    PROVE  SessionsInv'
  BY ReplacedKeeps, GoesOnKeeps DEF Reopen, Again, poolVars

LEMMA FinishPreserves ==
    ASSUME SessionsInv, NEW d \in Downloads, NEW keep \in BOOLEAN, Finish(d, keep)
    PROVE  SessionsInv'
  <1>1. /\ conn[d] # None /\ conn[d] \in Sessions /\ dpc[d] = "running" /\ conn[d] \notin replaced[d]
        /\ \A w \in Of(d) : on[w] = None \/ on[w] \in Owned(d)
        /\ (keep /\ Checks = {} => ~doubtful[d] /\ \A w \in Of(d) : on[w] = None)
    <2>1. dpc[d] = "running" /\ conn[d] # None /\ conn[d] \in Sessions
      BY DEF Finish, SessionsInv, DownloadTypes, Phases
    <2>2. conn[d] \notin replaced[d]
      BY DEF SessionsInv, OneOwner
    <2>3. \A w \in Of(d) : w \in Workers /\ w[1] = d
      BY DEF Of
    <2>4. \A w \in Of(d) : on[w] = None \/ on[w] \in Owned(d)
      BY <2>3 DEF SessionsInv, ThreadsInPhase
    <2>5. ASSUME keep, Checks = {}
          PROVE  ~doubtful[d] /\ \A w \in Of(d) : on[w] = None
      <3>1. ~doubtful[d] /\ \A w \in Of(d) : wpc[w] = "ready"
        BY <2>5 DEF Finish, Succeeded, Awaited
      <3> QED
        BY <3>1, <2>3 DEF SessionsInv, ThreadsInPhase
    <2> QED
      BY <2>1, <2>2, <2>4, <2>5
  <1>2. /\ Owned(d)' = (IF keep THEN {conn[d]} ELSE {})
        /\ \A e \in Downloads : e # d => Owned(e)' = Owned(e)
        /\ open' = (open \ Owned(d)) \cup Owned(d)'
        /\ UNCHANGED kept
        /\ orphans' \subseteq open'
    <2>1. Owned(d) \subseteq open /\ orphans \subseteq open
      BY DEF SessionsInv, OpenIsOwned, PoolTypes
    <2>2. conn' = [conn EXCEPT ![d] = IF keep THEN @ ELSE None] /\ replaced' = [replaced EXCEPT ![d] = {}] /\ kept' = kept
      BY DEF Finish, poolVars
    <2>3. Owned(d) = replaced[d] \cup {conn[d]} /\ Owned(d)' = (IF keep THEN {conn[d]} ELSE {})
          /\ \A e \in Downloads : e # d => Owned(e)' = Owned(e)
      BY <1>1, <2>2 DEF Owned, SessionsInv, DownloadTypes
    <2>4. /\ open' = open \ (replaced[d] \cup (IF keep THEN {} ELSE {conn[d]}))
          /\ orphans' = (orphans \cup ({on[w] : w \in Of(d)} \ {None})) \ (replaced[d] \cup (IF keep THEN {} ELSE {conn[d]}))
      BY DEF Finish
    <2>5. {on[w] : w \in Of(d)} \ {None} \subseteq Owned(d)
      BY <1>1
    <2>6. orphans' \subseteq open'
      BY <2>1, <2>4, <2>5
    <2>7. open' = (open \ Owned(d)) \cup Owned(d)'
      BY <1>1, <2>1, <2>3, <2>4
    <2> QED
      BY <2>2, <2>3, <2>6, <2>7
  <1>3. OneOwner' /\ OpenIsOwned'
    <2>1. \A e \in Downloads : e # d => conn'[e] = conn[e] /\ replaced'[e] = replaced[e]
      BY DEF Finish, SessionsInv, DownloadTypes
    <2>2. conn'[d] \notin replaced'[d]
      BY DEF Finish, SessionsInv, DownloadTypes
    <2>3. /\ Distinct(kept') /\ Owned(d) \cap RangeOf(kept) = {} /\ RangeOf(kept) \subseteq open
          /\ (poolClosed' => kept' = <<>>) /\ conn[d] \in Owned(d)
      BY <1>1, <1>2 DEF Finish, poolVars, SessionsInv, OneOwner, OpenIsOwned, Distinct, Owned
    <2>4. Owned(d)' \subseteq Owned(d)
      BY <1>2, <2>3
    <2>5. Owned(d)' \cap RangeOf(kept') = {} /\ Owned(d)' \cup RangeOf(kept') \subseteq Owned(d) \cup RangeOf(kept) \cup {}
      BY <1>2, <2>3, <2>4
    <2>6. open' = (open \ (Owned(d) \cup RangeOf(kept))) \cup Owned(d)' \cup RangeOf(kept')
      BY <1>2, <2>3
    <2>7. {} \cap open = {}
      OBVIOUS
    <2> QED
      BY <1>2, <2>1, <2>2, <2>3, <2>5, <2>6, <2>7, SharedOut
  <1>4. PoolTypes'
    <2>1. open' \subseteq Sessions
      BY <1>1, <1>2 DEF SessionsInv, PoolTypes
    <2> QED
      BY <1>2, <2>1 DEF Finish, poolVars, SessionsInv, PoolTypes
  <1>5. DownloadTypes'
    BY <1>1, <1>2, SessionsAssumption, CountsAssumption DEF Finish, Succeeded, None, Of, Ended,
         poolVars, Awaited, SessionsInv, PoolTypes, DownloadTypes, ThreadTypes
  <1>6. ThreadTypes'
    BY <1>1, <1>2, SessionsAssumption, CountsAssumption DEF Finish, Succeeded, None, Of, Ended,
         poolVars, Awaited, SessionsInv, PoolTypes, DownloadTypes, ThreadTypes
  <1>7. OneOwner'
    BY <1>3
  <1>8. OpenIsOwned'
    BY <1>3
  <1>9. Phases'
    BY <1>1, <1>2 DEF Finish, Succeeded, None, Of, Ended, poolVars, Awaited, Workers, NotSuspect,
         SessionsInv, PoolTypes, DownloadTypes, ThreadTypes, Phases
  <1>10. ThreadsInPhase'
    BY <1>1, <1>2 DEF Finish, Succeeded, None, Of, Ended, poolVars, Awaited, Workers, NotSuspect,
         SessionsInv, ThreadsInPhase, Owned
  <1>11. QuietUnlessDoubtful'
    <2> SUFFICES ASSUME Checks = {}
                 PROVE  KeptIsQuiet' /\ \A e \in Downloads : ~doubtful'[e] => Owned(e)' \cap orphans' = {}
      BY DEF QuietUnlessDoubtful
    <2>1. /\ orphans' \subseteq orphans \cup Owned(d)
          /\ keep => orphans' \subseteq orphans
      <3>1. orphans' \subseteq orphans \cup ({on[w] : w \in Of(d)} \ {None})
        BY DEF Finish
      <3> QED
        BY <1>1, <3>1
    <2>2. KeptIsQuiet /\ \A e \in Downloads : ~doubtful[e] => Owned(e) \cap orphans = {}
      BY DEF SessionsInv, QuietUnlessDoubtful
    <2>3. KeptIsQuiet'
      BY <1>2, <2>1, <2>2 DEF SessionsInv, OneOwner, KeptIsQuiet
    <2>4. \A e \in Downloads : e # d => doubtful'[e] = doubtful[e] /\ Owned(e)' = Owned(e) /\ Owned(e) \cap Owned(d) = {}
      BY <1>2 DEF Finish, Ended, SessionsInv, DownloadTypes, OneOwner
    <2>5. Owned(d)' \cap orphans' = {}
      BY <1>1, <1>2, <2>1, <2>2 DEF Owned
    <2> QED
      BY <2>1, <2>2, <2>3, <2>4, <2>5
  <1> QED
    BY <1>4, <1>5, <1>6, <1>7, <1>8, <1>9, <1>10, <1>11 DEF SessionsInv

LEMMA SessionsStep ==
    ASSUME SessionsInv, [Next]_vars
    PROVE  SessionsInv'
  <1>1. CASE UNCHANGED vars
    BY <1>1 DEF vars, poolVars, sharedVars, threadVars, SessionsInv, PoolTypes, DownloadTypes, ThreadTypes, OneOwner, OpenIsOwned, Phases,
         ThreadsInPhase, QuietUnlessDoubtful, KeptIsQuiet, Owned
  <1>2. CASE \E w \in Workers : CallStep(w) \/ Abandon(w) \/ Attempt(w)
    BY <1>2, AttemptKeeps, SucceedKeeps, LoseKeeps, ReplaceStaleKeptKeeps, ReopenKeeps, AbandonKeeps DEF CallStep
  <1>3. CASE (\E c \in Sessions : OrphanEnds(c)) \/ (\E d \in Downloads : StartFresh(d)) \/ ClosePool \/ WarmCheck
    BY <1>3, OrphanEndsKeeps, StartFreshKeeps, ClosePoolKeeps, WarmCheckKeeps
  <1>4. CASE \E d \in Downloads, n, m \in 0..Len(kept) : StartKept(d, n, m)
    BY <1>4, StartKeptKeeps
  <1>5. CASE \E d \in Downloads, n \in 0..Len(kept) : Keep(d, n)
    BY <1>5, KeepKeeps
  <1>6. CASE \E n \in 0..Len(kept) : WarmKeep(n)
    BY <1>6, WarmKeepKeeps
  <1>7. CASE \E d \in Downloads, keep \in BOOLEAN : Finish(d, keep)
    BY <1>7, FinishPreserves
  <1> QED
    BY <1>1, <1>2, <1>3, <1>4, <1>5, <1>6, <1>7 DEF Next

-----------------------------------------------------------------------------
(* What follows from it.                                                     *)

LEMMA InvSuffices ==
    ASSUME SessionsInv
    PROVE  SessionsAreOwned
  <1>1. AttemptsRunOpen
    BY DEF SessionsInv, ThreadsInPhase, OpenIsOwned, AttemptsRunOpen, Workers
  <1>2. OpenWhileOwned
    <2> DEFINE owned == UNION {Owned(d) : d \in Downloads}
    <2>1. \A c : c \in owned <=> \E d \in Downloads : c \in Owned(d)
      OBVIOUS
    <2>2. \A c : c \in open <=> c \in RangeOf(kept) \/ \E d \in Downloads : c \in Owned(d)
      BY DEF SessionsInv, OpenIsOwned
    <2> HIDE DEF owned
    <2>3. open = owned \cup RangeOf(kept)
      BY <2>1, <2>2
    <2>4. poolClosed => kept = <<>>
      BY DEF SessionsInv, OpenIsOwned
    <2> QED
      BY <2>3, <2>4 DEF OpenWhileOwned, owned
  <1>3. TypeOK
    BY DEF SessionsInv, PoolTypes, DownloadTypes, ThreadTypes, TypeOK
  <1> QED
    BY <1>1, <1>2, <1>3 DEF SessionsInv, QuietUnlessDoubtful, SessionsAreOwned

\* KeptSessions, SharedConnection and call_with_retry: whatever fails or runs past its time, whenever the
\* pool is closed, and however many downloads and threads there are, a session has one owner, is open
\* exactly while it has, is not closed under another thread's attempt, and is kept for the next download
\* only when nothing runs on it, if no thread was left unawaited.
THEOREM SessionsStayOwned == Spec => []SessionsAreOwned
  <1>1. SessionsInv /\ [Next]_vars => SessionsInv'
    BY SessionsStep
  <1> QED
    BY <1>1, SessionsAtFirst, InvSuffices, PTL DEF Spec
=============================================================================
