--------------------------- MODULE ClientProofs ---------------------------
(* Proofs about the client: its sign-in (ClientAuth), for every number of     *)
(* threads, sign-ins, expiries and failures, the jobs that scripts hold       *)
(* (JobRuns), for every number of scripts, jobs, failures and interrupts, and *)
(* the counts it exports (Telemetry), for every number of calls and workers.  *)
EXTENDS ClientAuth, FiniteSetTheorems, SequenceTheorems, TLAPS

-----------------------------------------------------------------------------
(* The inductive invariant.                                                  *)

Count == Cardinality(DOMAIN sessions)
SessionFields == [by: Procs, own: BOOLEAN, state: {"live", "expired", "closed"}]
CallFields == [at: Places, op: Ops, seen: 0..MaxSessions, retried: BOOLEAN,
               back: {"token", "post"}, struck: BOOLEAN]

\* The parent's own sessions, the only ones its requests use.
Ours(s) == sessions[s].by = "parent" /\ sessions[s].own

\* A session whose replacement nothing a request did not notice would call for.
Sound(s) == sessions[s].state = "live" /\ \A p \in Procs : auth[p].invalid # s

\* Why a thread replaces its process's session: it ended or was marked.  The child may also
\* replace one that its other threads have just made.
Worn(p) ==
    LET s == auth[p].session
    IN  \/ sessions[s].state # "live"
        \/ auth[p].invalid = s
        \/ p = "child" /\ sessions[s].by = "child"

AuthTypes == auth \in [Procs -> AuthFields]
CallTypes == call \in [Threads -> CallFields]
SessionTypes ==
    /\ Count \in 1..MaxSessions
    /\ sessions \in [1..Count -> SessionFields]

\* What is stored is a session that was opened.
WereOpened ==
    /\ \A p \in Procs : auth[p].session \in 1..Count /\ auth[p].invalid \in 0..Count
    /\ \A t \in Threads : call[t].seen \in 0..Count
    /\ \A t \in Threads : call[t].at \in {"post", "refused", "closing"} => call[t].seen # NoToken

\* The parent knows its process, and marks only the session it has.
ParentIsHome ==
    /\ auth["parent"].known /\ auth["parent"].invalid \in {NoToken, auth["parent"].session}
    /\ Ours(auth["parent"].session)
    /\ \A t \in ParentThreads : call[t].seen # NoToken => Ours(call[t].seen)
    /\ \A t \in ParentThreads : call[t].at # "fork"

\* The child's threads start after the fork, and go on after one has set the pid.
ChildStarts ==
    /\ forked \in BOOLEAN
    /\ ~forked => ~auth["child"].known /\ \A t \in ChildThreads : call[t].at = "idle"
    /\ \A t \in ChildThreads : ~(call[t].at \in {"idle", "ensure"}) => auth["child"].known
    /\ auth["child"].known => ~auth["child"].closed
    /\ \A t \in ChildThreads : call[t].at # "closing"

\* The lock of a process is held by the thread that signs in anew, and by no other.
RenewersLock ==
    /\ \A t \in Threads : call[t].at = "renew" <=> auth[ProcOf(t)].lock = t
    /\ \A p \in Procs : auth[p].lock \in Threads => ProcOf(auth[p].lock) = p
    /\ \A t \in Threads : call[t].at = "renew" => ~auth[ProcOf(t)].closed /\ Worn(ProcOf(t))

\* A refused token's session has ended, and is refreshed once.
RefusalsAreTrue ==
    /\ \A t \in Threads : call[t].at = "refused" => sessions[call[t].seen].state # "live"
    /\ \A t \in Threads : call[t].at = "ensure" => ~call[t].retried
    /\ \A t \in Threads : call[t].at = "refused" => call[t].retried

\* While no session ended or was marked during a call, the session that replaced the one it
\* used is sound, and so is the one it has tried again with.
UnstruckGoOn ==
    \A t \in ParentThreads : ~call[t].struck =>
        /\ call[t].at \in {"post", "refused"} /\ call[t].seen # auth["parent"].session =>
              Sound(auth["parent"].session)
        /\ call[t].at = "post" /\ call[t].retried => Sound(call[t].seen)
        /\ call[t].at = "token" /\ call[t].retried => Sound(auth["parent"].session)

\* OneOpenSession, process by process: an open session of a process's own is its current one,
\* unless the process has closed it or is about to.
OpenIsCurrent ==
    \A s \in 1..Count :
        sessions[s].own /\ sessions[s].state # "closed" =>
            \/ /\ auth[sessions[s].by].session = s /\ ~auth[sessions[s].by].closed
               /\ sessions[s].by = "child" => forked
            \/ \E t \in ParentThreads : call[t].at = "closing" /\ call[t].seen = s

\* Until its first sign-in the child has no session of its own.
ForkSignsInFirst ==
    ~auth["child"].known \/ (\E t \in ChildThreads : call[t].at = "fork") =>
        \A s \in 1..Count : sessions[s].own => sessions[s].by = "parent"

AuthInv ==
    /\ AuthTypes /\ CallTypes /\ SessionTypes /\ WereOpened /\ ParentIsHome /\ ChildStarts
    /\ RenewersLock /\ RefusalsAreTrue /\ RefusedOnlyIfStruck /\ UnstruckGoOn

-----------------------------------------------------------------------------
(* What a step does to the sessions.                                         *)

LEMMA SessionsStay ==
    ASSUME AuthInv, UNCHANGED sessions
    PROVE  Count' = Count /\ SessionTypes'
  BY DEF AuthInv, SessionTypes, Count

\* A session ends: nothing else of it, and no other session, changes.
LEMMA SessionEnds ==
    ASSUME AuthInv, NEW s \in 1..Count, NEW x \in {"expired", "closed"},
           sessions' = [sessions EXCEPT ![s].state = x]
    PROVE  /\ Count' = Count /\ SessionTypes' /\ sessions'[s].state = x
           /\ \A q \in 1..Count : /\ sessions'[q].by = sessions[q].by /\ sessions'[q].own = sessions[q].own
                                  /\ q # s => sessions'[q] = sessions[q]
                                  /\ sessions'[q].state \in {sessions[q].state, x}
  <1>1. sessions \in [1..Count -> SessionFields] /\ Count \in 1..MaxSessions
    BY DEF AuthInv, SessionTypes
  <1>2. DOMAIN sessions' = DOMAIN sessions
    OBVIOUS
  <1>3. Count' = Count
    BY <1>2 DEF Count
  <1>4. sessions' \in [1..Count -> SessionFields]
    BY <1>1 DEF SessionFields
  <1> QED
    BY <1>1, <1>3, <1>4 DEF SessionTypes, SessionFields

\* A session is opened, and some are closed for it.
LEMMA SessionOpens ==
    ASSUME AuthInv, NEW p \in Procs, NEW own \in BOOLEAN, NEW closing, CanSignIn,
           sessions' = Opened(p, own, closing)
    PROVE  /\ NextSession = Count + 1 /\ Count' = Count + 1 /\ SessionTypes' /\ Count \in Nat /\ Count # 0
           /\ Count + 1 \in 1..MaxSessions
           /\ sessions'[Count + 1] = [by |-> p, own |-> own, state |-> "live"]
           /\ \A q \in 1..Count : /\ sessions'[q].by = sessions[q].by /\ sessions'[q].own = sessions[q].own
                                  /\ sessions'[q].state = IF q \in closing THEN "closed" ELSE sessions[q].state
  <1>1. sessions \in [1..Count -> SessionFields] /\ Count \in 1..MaxSessions /\ MaxSessions \in Nat
    BY AuthAssumption DEF AuthInv, SessionTypes
  <1>2. NextSession = Count + 1 /\ Count + 1 \in 1..MaxSessions
    BY <1>1 DEF NextSession, CanSignIn, Count
  <1>3. DOMAIN sessions' = 1..(Count + 1)
    BY <1>1, <1>2 DEF Opened
  <1>4. Count' = Count + 1
    <2>1. Cardinality(1..(Count + 1)) = Count + 1
      BY <1>1, FS_Interval
    <2> HIDE DEF Count
    <2> QED
      BY <1>3, <2>1 DEF Count
  <1>5. \A q \in 1..(Count + 1) :
            sessions'[q] = IF q = Count + 1 THEN [by |-> p, own |-> own, state |-> "live"]
                           ELSE IF q \in closing THEN [sessions[q] EXCEPT !.state = "closed"] ELSE sessions[q]
    BY <1>1, <1>2, <1>3 DEF Opened
  <1>6. \A q \in 1..Count : sessions[q] \in SessionFields /\ q \in 1..(Count + 1) /\ q # Count + 1
    BY <1>1
  <1>7. \A q \in 1..(Count + 1) : sessions'[q] \in SessionFields
    <2>1. [by |-> p, own |-> own, state |-> "live"] \in SessionFields
      BY DEF SessionFields
    <2>2. \A q \in 1..Count : [sessions[q] EXCEPT !.state = "closed"] \in SessionFields
      BY <1>6 DEF SessionFields
    <2>3. \A q \in 1..(Count + 1) : q = Count + 1 \/ q \in 1..Count
      BY <1>1
    <2> QED
      BY <1>5, <1>6, <2>1, <2>2, <2>3
  <1>8. sessions' \in [1..(Count + 1) -> SessionFields]
    <2>1. sessions' = [q \in 1..(Count + 1) |-> sessions'[q]]
      BY <1>2, <1>3 DEF Opened
    <2> QED
      BY <1>7, <2>1
  <1>9. \A q \in 1..Count : /\ sessions'[q].by = sessions[q].by /\ sessions'[q].own = sessions[q].own
                            /\ sessions'[q].state = IF q \in closing THEN "closed" ELSE sessions[q].state
    BY <1>5, <1>6 DEF SessionFields
  <1> QED
    BY <1>1, <1>2, <1>4, <1>5, <1>8, <1>9 DEF SessionTypes

\* The same, when none is closed.
LEMMA SessionJoins ==
    ASSUME AuthInv, NEW p \in Procs, NEW own \in BOOLEAN, CanSignIn, sessions' = Opened(p, own, {})
    PROVE  /\ NextSession = Count + 1 /\ Count' = Count + 1 /\ SessionTypes' /\ Count \in Nat /\ Count # 0
           /\ Count + 1 \in 1..MaxSessions
           /\ sessions'[Count + 1] = [by |-> p, own |-> own, state |-> "live"]
           /\ \A q \in 1..Count : sessions'[q].by = sessions[q].by /\ sessions'[q].own = sessions[q].own
                                  /\ sessions'[q].state = sessions[q].state
  <1> DEFINE closing == {}
  <1>1. \A q : q \notin closing
    OBVIOUS
  <1>2. sessions' = Opened(p, own, closing)
    OBVIOUS
  <1> HIDE DEF closing
  <1> QED
    BY <1>1, <1>2, SessionOpens

-----------------------------------------------------------------------------
(* What a step does to the calls.                                            *)

\* A call that returns or raises.
LEMMA CallReturns ==
    ASSUME AuthInv, NEW t \in Threads, call' = [call EXCEPT ![t] = Idle]
    PROVE  /\ CallTypes' /\ \A u \in Threads : u # t => call'[u] = call[u]
           /\ call'[t].at = "idle" /\ call'[t].seen = NoToken /\ ~call'[t].retried /\ ~call'[t].struck
  <1>1. Idle \in CallFields
    BY AuthAssumption DEF Idle, CallFields, Places, Ops, NoToken
  <1>2. call \in [Threads -> CallFields]
    BY DEF AuthInv, CallTypes
  <1>3. call'[t] = Idle
    BY <1>2
  <1> QED
    BY <1>1, <1>2, <1>3 DEF CallTypes, Idle

\* A call that goes on elsewhere, having seen a session or not.
LEMMA CallMoves ==
    ASSUME AuthInv, NEW t \in Threads, NEW at \in Places, NEW seen \in 0..MaxSessions,
           call' = [call EXCEPT ![t].at = at, ![t].seen = seen]
    PROVE  /\ CallTypes' /\ \A u \in Threads : u # t => call'[u] = call[u]
           /\ call'[t].at = at /\ call'[t].seen = seen
           /\ call'[t].retried = call[t].retried /\ call'[t].struck = call[t].struck
           /\ call'[t].back = call[t].back /\ call'[t].op = call[t].op
  BY DEF AuthInv, CallTypes, CallFields

\* A session ended: every call that runs is struck.
LEMMA CallsAreStruck ==
    ASSUME AuthInv, call' = Struck
    PROVE  /\ CallTypes'
           /\ \A t \in Threads :
                 /\ call'[t].at = call[t].at /\ call'[t].seen = call[t].seen
                 /\ call'[t].retried = call[t].retried
                 /\ call'[t].struck <=> call[t].at # "idle"
  <1>1. call \in [Threads -> CallFields]
    BY DEF AuthInv, CallTypes
  <1>2. \A t \in Threads : (~At(t, "idle")) \in BOOLEAN
    OBVIOUS
  <1>3. \A t \in Threads : [call[t] EXCEPT !.struck = ~At(t, "idle")] \in CallFields
    BY <1>1, <1>2 DEF CallFields
  <1>4. \A t \in Threads : call'[t] = [call[t] EXCEPT !.struck = ~At(t, "idle")]
    BY DEF Struck
  <1>5. CallTypes'
    BY <1>3 DEF CallTypes, Struck
  <1>6. \A t \in Threads : /\ call'[t].at = call[t].at /\ call'[t].seen = call[t].seen
                           /\ call'[t].retried = call[t].retried
                           /\ call'[t].struck = ~At(t, "idle")
    BY <1>1, <1>4 DEF CallFields
  <1> QED
    BY <1>5, <1>6 DEF At

\* A record of the sign-in's fields, field by field.
LEMMA AuthMoves ==
    ASSUME AuthInv, NEW p \in Procs, NEW r \in AuthFields, auth' = [auth EXCEPT ![p] = r]
    PROVE  AuthTypes' /\ auth'[p] = r /\ \A q \in Procs : q # p => auth'[q] = auth[q]
  BY DEF AuthInv, AuthTypes



-----------------------------------------------------------------------------
(* Every step keeps the invariant.                                           *)

LEMMA BeginKeeps ==
    ASSUME AuthInv, NEW t \in Threads, NEW op \in Ops, Begin(t, op)
    PROVE  AuthInv'
  <1>0. Count' = Count /\ SessionTypes'
    BY SessionsStay DEF Begin
  <1>a. [Idle EXCEPT !.at = "ensure", !.op = op] \in CallFields
    <2>1. Idle \in CallFields
      BY AuthAssumption DEF Idle, CallFields, Places, Ops, NoToken
    <2>2. "ensure" \in Places
      BY DEF Places
    <2> QED
      BY <2>1, <2>2 DEF CallFields
  <1>1. AuthTypes'
    BY <1>0 DEF Begin, Alive, At, Idle, NoToken, AuthInv, AuthTypes, Procs, AuthFields, Threads,
         Free, Orphan
  <1>2. CallTypes'
    BY <1>a DEF Begin, AuthInv, CallTypes
  <1>3. SessionTypes'
    BY <1>0
  <1>4. WereOpened'
    BY <1>0, AuthAssumption DEF Begin, Alive, At, Idle, NoToken, AuthInv, AuthTypes, Procs,
         AuthFields, Threads, Free, Orphan, CallTypes, CallFields, Places, Ops, SessionTypes,
         WereOpened, ParentIsHome, Ours, ChildStarts, RenewersLock, ProcOf, Worn, RefusalsAreTrue,
         RefusedOnlyIfStruck, UnstruckGoOn, Sound
  <1>5. ParentIsHome'
    BY <1>0 DEF Begin, Alive, At, Idle, NoToken, AuthInv, ParentIsHome, Ours
  <1>6. ChildStarts'
    BY <1>0, AuthAssumption DEF Begin, Alive, At, Idle, NoToken, AuthInv, AuthTypes, Procs,
         AuthFields, Threads, Free, Orphan, CallTypes, CallFields, Places, Ops, ChildStarts
  <1>7. RenewersLock'
    BY <1>0 DEF Begin, Alive, At, Idle, NoToken, AuthInv, RenewersLock, Threads, ProcOf, Procs, Worn
  <1>8. RefusalsAreTrue'
    BY <1>0 DEF Begin, Alive, At, Idle, NoToken, AuthInv, RefusalsAreTrue, Threads
  <1>9. RefusedOnlyIfStruck'
    BY <1>0 DEF Begin, Alive, At, Idle, NoToken, AuthInv, RefusedOnlyIfStruck
  <1>10. UnstruckGoOn'
    BY <1>0 DEF Begin, Alive, At, Idle, NoToken, AuthInv, UnstruckGoOn, Sound, Procs
  <1> QED
    BY <1>1, <1>2, <1>3, <1>4, <1>5, <1>6, <1>7, <1>8, <1>9, <1>10 DEF AuthInv

LEMMA EnsureKnownKeeps ==
    ASSUME AuthInv, NEW t \in Threads, EnsureKnown(t)
    PROVE  AuthInv'
  <1>0. Count' = Count /\ SessionTypes'
    BY SessionsStay DEF EnsureKnown
  <1>1. AuthTypes'
    BY <1>0 DEF EnsureKnown, At, Mine, FirstPlace, ProcOf, AuthInv, AuthTypes, Procs, AuthFields,
         Threads, Free, Orphan
  <1>2. CallTypes'
    BY <1>0 DEF EnsureKnown, At, Mine, FirstPlace, ProcOf, AuthInv, CallTypes, Threads, CallFields,
         Places, Ops
  <1>3. SessionTypes'
    BY <1>0
  <1>4. WereOpened'
    BY <1>0 DEF EnsureKnown, At, Mine, FirstPlace, ProcOf, AuthInv, AuthTypes, Procs, AuthFields,
         Threads, Free, Orphan, CallTypes, CallFields, Places, Ops, WereOpened, NoToken
  <1>5. ParentIsHome'
    BY SMTT(20), <1>0 DEF EnsureKnown, At, Mine, FirstPlace, ProcOf, AuthInv, AuthTypes, Procs, AuthFields,
         Threads, Free, Orphan, CallTypes, CallFields, Places, Ops, ParentIsHome, NoToken, Ours
  <1>6. ChildStarts'
    BY <1>0, AuthAssumption DEF EnsureKnown, At, Mine, FirstPlace, ProcOf, AuthInv, AuthTypes,
         Procs, AuthFields, Threads, Free, Orphan, CallTypes, CallFields, Places, Ops, ChildStarts
  <1>7. RenewersLock'
    BY <1>0 DEF EnsureKnown, At, Mine, FirstPlace, ProcOf, AuthInv, AuthTypes, Procs, AuthFields,
         Threads, Free, Orphan, CallTypes, CallFields, Places, Ops, RenewersLock, Worn
  <1>8. RefusalsAreTrue'
    BY <1>0 DEF EnsureKnown, At, Mine, FirstPlace, ProcOf, AuthInv, AuthTypes, Procs, AuthFields,
         Threads, Free, Orphan, CallTypes, CallFields, Places, Ops, RefusalsAreTrue
  <1>9. RefusedOnlyIfStruck'
    BY <1>0 DEF EnsureKnown, At, Mine, FirstPlace, ProcOf, AuthInv, AuthTypes, Procs, AuthFields,
         Threads, Free, Orphan, CallTypes, CallFields, Places, Ops, RefusedOnlyIfStruck
  <1>10. UnstruckGoOn'
    BY SMTT(60), <1>0, AuthAssumption DEF EnsureKnown, At, Mine, FirstPlace, ProcOf, AuthInv, AuthTypes,
         Procs, AuthFields, Threads, Free, Orphan, CallTypes, CallFields, Places, Ops, SessionTypes,
         WereOpened, NoToken, ParentIsHome, Ours, ChildStarts, RenewersLock, Worn, RefusalsAreTrue,
         RefusedOnlyIfStruck, UnstruckGoOn, Sound
  <1> QED
    BY <1>1, <1>2, <1>3, <1>4, <1>5, <1>6, <1>7, <1>8, <1>9, <1>10 DEF AuthInv

LEMMA EnsureForkedKeeps ==
    ASSUME AuthInv, NEW t \in Threads, EnsureForked(t)
    PROVE  AuthInv'
  <1>0. Count' = Count /\ SessionTypes'
    BY SessionsStay DEF EnsureForked
  <1> DEFINE r == [Mine(t) EXCEPT !.known = TRUE, !.closed = FALSE, !.invalid = NoToken]
  <1>a. ProcOf(t) \in Procs /\ Mine(t) \in AuthFields
    BY DEF ProcOf, Procs, Mine, AuthInv, AuthTypes
  <1>b. r \in AuthFields
    <2>1. NoToken \in 0..MaxSessions /\ TRUE \in BOOLEAN /\ FALSE \in BOOLEAN
      BY AuthAssumption DEF NoToken
    <2> QED
      BY <1>a, <2>1 DEF AuthFields
  <1>c. auth' = [auth EXCEPT ![ProcOf(t)] = r]
    BY <1>a DEF EnsureForked, Mine, AuthInv, AuthTypes
  <1> HIDE DEF r
  <1>d. AuthTypes'
    BY <1>a, <1>b, <1>c, AuthMoves
  <1> USE DEF r
  <1>1. AuthTypes'
    BY <1>d
  <1>2. CallTypes'
    BY <1>0 DEF EnsureForked, At, Mine, LockIsFree, ProcOf, NoToken, Go, Free, AuthInv, CallTypes,
         Threads, CallFields, Places, Ops
  <1>3. SessionTypes'
    BY <1>0
  <1>4. WereOpened'
    BY SMTT(60), <1>0, AuthAssumption DEF EnsureForked, At, Mine, LockIsFree, ProcOf, NoToken, Go, Free,
         AuthInv, AuthTypes, Procs, AuthFields, Threads, Orphan, CallTypes, CallFields, Places, Ops,
         SessionTypes, WereOpened, ParentIsHome, Ours, ChildStarts, RenewersLock, Worn,
         RefusalsAreTrue, RefusedOnlyIfStruck, UnstruckGoOn, Sound
  <1>5. ParentIsHome'
    BY <1>0 DEF EnsureForked, At, Mine, LockIsFree, ProcOf, NoToken, Go, Free, AuthInv, AuthTypes,
         Procs, AuthFields, Threads, Orphan, CallTypes, CallFields, Places, Ops, ParentIsHome, Ours
  <1>6. ChildStarts'
    BY <1>0, AuthAssumption DEF EnsureForked, At, Mine, LockIsFree, ProcOf, NoToken, Go, Free,
         AuthInv, AuthTypes, Procs, AuthFields, Threads, Orphan, CallTypes, CallFields, Places, Ops,
         ChildStarts
  <1>7. RenewersLock'
    BY SMTT(60), <1>0, AuthAssumption DEF EnsureForked, At, Mine, LockIsFree, ProcOf, NoToken, Go, Free,
         AuthInv, AuthTypes, Procs, AuthFields, Threads, Orphan, CallTypes, CallFields, Places, Ops,
         RenewersLock, Worn
  <1>8. RefusalsAreTrue'
    BY <1>0 DEF EnsureForked, At, Mine, LockIsFree, ProcOf, NoToken, Go, Free, AuthInv,
         RefusalsAreTrue, Threads
  <1>9. RefusedOnlyIfStruck'
    BY <1>0 DEF EnsureForked, At, Mine, LockIsFree, ProcOf, NoToken, Go, Free, AuthInv,
         RefusedOnlyIfStruck
  <1>10. UnstruckGoOn'
    BY SMTT(60), <1>0, AuthAssumption DEF EnsureForked, At, Mine, LockIsFree, ProcOf, NoToken, Go, Free,
         AuthInv, AuthTypes, Procs, AuthFields, Threads, Orphan, CallTypes, CallFields, Places, Ops,
         SessionTypes, WereOpened, ParentIsHome, Ours, ChildStarts, RenewersLock, Worn,
         RefusalsAreTrue, RefusedOnlyIfStruck, UnstruckGoOn, Sound
  <1> QED
    BY <1>1, <1>2, <1>3, <1>4, <1>5, <1>6, <1>7, <1>8, <1>9, <1>10 DEF AuthInv

LEMMA AnsweredKeeps ==
    ASSUME AuthInv, NEW t \in Threads, Answered(t)
    PROVE  AuthInv'
  <1>0. Count' = Count /\ SessionTypes'
    BY SessionsStay DEF Answered
  <1>1. AuthTypes'
    BY <1>0 DEF Answered, At, Back, Idle, NoToken, AuthInv, AuthTypes, Procs, AuthFields, Threads,
         Free, Orphan
  <1>2. CallTypes'
    BY <1>0, AuthAssumption DEF Answered, At, Back, Idle, NoToken, AuthInv, AuthTypes, Procs,
         AuthFields, Threads, Free, Orphan, CallTypes, CallFields, Places, Ops
  <1>3. SessionTypes'
    BY <1>0
  <1>4. WereOpened'
    BY <1>0, AuthAssumption DEF Answered, At, Back, Idle, NoToken, AuthInv, AuthTypes, Procs,
         AuthFields, Threads, Free, Orphan, CallTypes, CallFields, Places, Ops, SessionTypes,
         WereOpened, ParentIsHome, Ours, ChildStarts, RenewersLock, ProcOf, Worn, RefusalsAreTrue,
         RefusedOnlyIfStruck, UnstruckGoOn, Sound
  <1>5. ParentIsHome'
    BY <1>0 DEF Answered, At, Back, Idle, NoToken, AuthInv, ParentIsHome, Ours
  <1>6. ChildStarts'
    BY <1>0 DEF Answered, At, Back, Idle, NoToken, AuthInv, ChildStarts
  <1>7. RenewersLock'
    BY <1>0 DEF Answered, At, Back, Idle, NoToken, AuthInv, RenewersLock, Threads, ProcOf, Procs,
         Worn
  <1>8. RefusalsAreTrue'
    BY <1>0 DEF Answered, At, Back, Idle, NoToken, AuthInv, RefusalsAreTrue, Threads
  <1>9. RefusedOnlyIfStruck'
    BY <1>0 DEF Answered, At, Back, Idle, NoToken, AuthInv, RefusedOnlyIfStruck
  <1>10. UnstruckGoOn'
    BY <1>0 DEF Answered, At, Back, Idle, NoToken, AuthInv, UnstruckGoOn, Sound, Procs
  <1> QED
    BY <1>1, <1>2, <1>3, <1>4, <1>5, <1>6, <1>7, <1>8, <1>9, <1>10 DEF AuthInv

LEMMA RefusedKeeps ==
    ASSUME AuthInv, NEW t \in Threads, Refused(t)
    PROVE  AuthInv'
  <1>0. Count' = Count /\ SessionTypes'
    BY SessionsStay DEF Refused
  <1>1. AuthTypes'
    BY <1>0 DEF Refused, At, AuthInv, AuthTypes, Procs, AuthFields, Threads, Free, Orphan
  <1>2. CallTypes'
    BY <1>0 DEF Refused, At, AuthInv, CallTypes, Threads, CallFields, Places, Ops
  <1>3. SessionTypes'
    BY <1>0
  <1>4. WereOpened'
    BY <1>0 DEF Refused, At, AuthInv, AuthTypes, Procs, AuthFields, Threads, Free, Orphan,
         CallTypes, CallFields, Places, Ops, WereOpened, NoToken
  <1>5. ParentIsHome'
    BY <1>0 DEF Refused, At, AuthInv, AuthTypes, Procs, AuthFields, Threads, Free, Orphan,
         CallTypes, CallFields, Places, Ops, ParentIsHome, NoToken, Ours
  <1>6. ChildStarts'
    BY <1>0 DEF Refused, At, AuthInv, AuthTypes, Procs, AuthFields, Threads, Free, Orphan,
         CallTypes, CallFields, Places, Ops, ChildStarts
  <1>7. RenewersLock'
    BY <1>0 DEF Refused, At, AuthInv, AuthTypes, Procs, AuthFields, Threads, Free, Orphan,
         CallTypes, CallFields, Places, Ops, RenewersLock, ProcOf, Worn
  <1>8. RefusalsAreTrue'
    BY <1>0 DEF Refused, At, AuthInv, AuthTypes, Procs, AuthFields, Threads, Free, Orphan,
         CallTypes, CallFields, Places, Ops, RefusalsAreTrue
  <1>9. RefusedOnlyIfStruck'
    BY SMTT(20), <1>0, AuthAssumption DEF Refused, At, AuthInv, AuthTypes, Procs, AuthFields, Threads, Free,
         Orphan, CallTypes, CallFields, Places, Ops, SessionTypes, WereOpened, NoToken,
         ParentIsHome, Ours, ChildStarts, RenewersLock, ProcOf, Worn, RefusalsAreTrue,
         RefusedOnlyIfStruck, UnstruckGoOn, Sound
  <1>10. UnstruckGoOn'
    BY <1>0 DEF Refused, At, AuthInv, AuthTypes, Procs, AuthFields, Threads, Free, Orphan,
         CallTypes, CallFields, Places, Ops, UnstruckGoOn, Sound
  <1> QED
    BY <1>1, <1>2, <1>3, <1>4, <1>5, <1>6, <1>7, <1>8, <1>9, <1>10 DEF AuthInv

LEMMA PostFailsKeeps ==
    ASSUME AuthInv, NEW t \in Threads, PostFails(t)
    PROVE  AuthInv'
  <1>0. Count' = Count /\ SessionTypes'
    BY SessionsStay DEF PostFails
  <1>1. AuthTypes'
    BY <1>0 DEF PostFails, At, Go, AuthInv, AuthTypes, Procs, AuthFields, Threads, Free, Orphan
  <1>2. CallTypes'
    BY <1>0 DEF PostFails, At, Go, AuthInv, CallTypes, Threads, CallFields, Places, Ops
  <1>3. SessionTypes'
    BY <1>0
  <1>4. WereOpened'
    BY <1>0 DEF PostFails, At, Go, AuthInv, WereOpened, Procs, Threads, NoToken
  <1>5. ParentIsHome'
    BY <1>0 DEF PostFails, At, Go, AuthInv, ParentIsHome, NoToken, Ours
  <1>6. ChildStarts'
    BY <1>0 DEF PostFails, At, Go, AuthInv, ChildStarts
  <1>7. RenewersLock'
    BY <1>0 DEF PostFails, At, Go, AuthInv, RenewersLock, Threads, ProcOf, Procs, Worn
  <1>8. RefusalsAreTrue'
    BY <1>0 DEF PostFails, At, Go, AuthInv, RefusalsAreTrue, Threads
  <1>9. RefusedOnlyIfStruck'
    BY <1>0 DEF PostFails, At, Go, AuthInv, RefusedOnlyIfStruck
  <1>10. UnstruckGoOn'
    BY <1>0 DEF PostFails, At, Go, AuthInv, UnstruckGoOn, Sound, Procs
  <1> QED
    BY <1>1, <1>2, <1>3, <1>4, <1>5, <1>6, <1>7, <1>8, <1>9, <1>10 DEF AuthInv

LEMMA RaiseKeeps ==
    ASSUME AuthInv, NEW t \in Threads, Raise(t)
    PROVE  AuthInv'
  <1>0. Count' = Count /\ SessionTypes'
    BY SessionsStay DEF Raise
  <1>1. AuthTypes'
    BY <1>0 DEF Raise, At, Back, Idle, NoToken, AuthInv, AuthTypes, Procs, AuthFields, Threads,
         Free, Orphan
  <1>2. CallTypes'
    BY <1>0, AuthAssumption DEF Raise, At, Back, Idle, NoToken, AuthInv, AuthTypes, Procs,
         AuthFields, Threads, Free, Orphan, CallTypes, CallFields, Places, Ops
  <1>3. SessionTypes'
    BY <1>0
  <1>4. WereOpened'
    BY <1>0, AuthAssumption DEF Raise, At, Back, Idle, NoToken, AuthInv, AuthTypes, Procs,
         AuthFields, Threads, Free, Orphan, CallTypes, CallFields, Places, Ops, SessionTypes,
         WereOpened, ParentIsHome, Ours, ChildStarts, RenewersLock, ProcOf, Worn, RefusalsAreTrue,
         RefusedOnlyIfStruck, UnstruckGoOn, Sound
  <1>5. ParentIsHome'
    BY <1>0 DEF Raise, At, Back, Idle, NoToken, AuthInv, ParentIsHome, Ours
  <1>6. ChildStarts'
    BY <1>0 DEF Raise, At, Back, Idle, NoToken, AuthInv, ChildStarts
  <1>7. RenewersLock'
    BY <1>0 DEF Raise, At, Back, Idle, NoToken, AuthInv, RenewersLock, Threads, ProcOf, Procs, Worn
  <1>8. RefusalsAreTrue'
    BY <1>0 DEF Raise, At, Back, Idle, NoToken, AuthInv, RefusalsAreTrue, Threads
  <1>9. RefusedOnlyIfStruck'
    BY <1>0 DEF Raise, At, Back, Idle, NoToken, AuthInv, RefusedOnlyIfStruck
  <1>10. UnstruckGoOn'
    BY <1>0 DEF Raise, At, Back, Idle, NoToken, AuthInv, UnstruckGoOn, Sound, Procs
  <1> QED
    BY <1>1, <1>2, <1>3, <1>4, <1>5, <1>6, <1>7, <1>8, <1>9, <1>10 DEF AuthInv

LEMMA CloseKeeps ==
    ASSUME AuthInv, NEW t \in Threads, Close(t)
    PROVE  AuthInv'
  <1>0. Count' = Count /\ SessionTypes'
    BY SessionsStay DEF Close
  <1>a. "closing" \in Places /\ Mine(t).session \in 0..MaxSessions
    BY DEF Places, Mine, ProcOf, Procs, AuthInv, AuthTypes, AuthFields
  <1>b. call' = [call EXCEPT ![t].at = "closing", ![t].seen = Mine(t).session]
    BY DEF Close
  <1>c. CallTypes'
    BY <1>a, <1>b, CallMoves
  <1>1. AuthTypes'
    BY <1>0 DEF Close, At, LockIsFree, Mine, ProcOf, Free, AuthInv, AuthTypes, Procs, AuthFields,
         Threads, Orphan
  <1>2. CallTypes'
    BY <1>c
  <1>3. SessionTypes'
    BY <1>0
  <1>4. WereOpened'
    BY <1>0 DEF Close, At, LockIsFree, Mine, ProcOf, Free, AuthInv, AuthTypes, Procs, AuthFields,
         Threads, Orphan, CallTypes, CallFields, Places, Ops, WereOpened, NoToken
  <1>5. ParentIsHome'
    BY <1>0 DEF Close, At, LockIsFree, Mine, ProcOf, Free, AuthInv, AuthTypes, Procs, AuthFields,
         Threads, Orphan, CallTypes, CallFields, Places, Ops, ParentIsHome, NoToken, Ours
  <1>6. ChildStarts'
    BY <1>0, AuthAssumption DEF Close, At, LockIsFree, Mine, ProcOf, Free, AuthInv, AuthTypes,
         Procs, AuthFields, Threads, Orphan, CallTypes, CallFields, Places, Ops, ChildStarts
  <1>7. RenewersLock'
    BY <1>0, AuthAssumption DEF Close, At, LockIsFree, Mine, ProcOf, Free, AuthInv, AuthTypes,
         Procs, AuthFields, Threads, Orphan, CallTypes, CallFields, Places, Ops, RenewersLock, Worn
  <1>8. RefusalsAreTrue'
    BY <1>0 DEF Close, At, LockIsFree, Mine, ProcOf, Free, AuthInv, AuthTypes, Procs, AuthFields,
         Threads, Orphan, CallTypes, CallFields, Places, Ops, RefusalsAreTrue
  <1>9. RefusedOnlyIfStruck'
    BY <1>0 DEF Close, At, LockIsFree, Mine, ProcOf, Free, AuthInv, AuthTypes, Procs, AuthFields,
         Threads, Orphan, CallTypes, CallFields, Places, Ops, RefusedOnlyIfStruck
  <1>10. UnstruckGoOn'
    BY <1>0 DEF Close, At, LockIsFree, Mine, ProcOf, Free, AuthInv, AuthTypes, Procs, AuthFields,
         Threads, Orphan, CallTypes, CallFields, Places, Ops, UnstruckGoOn, Sound
  <1> QED
    BY <1>1, <1>2, <1>3, <1>4, <1>5, <1>6, <1>7, <1>8, <1>9, <1>10 DEF AuthInv

LEMMA ForkKeeps ==
    ASSUME AuthInv, NEW t \in Threads, Fork(t)
    PROVE  AuthInv'
  <1>0. Count' = Count /\ SessionTypes'
    BY SessionsStay DEF Fork
  <1>1. AuthTypes'
    BY <1>0 DEF Fork, At, Free, Orphan, AuthInv, AuthTypes, Procs, AuthFields, Threads
  <1>2. CallTypes'
    BY <1>0 DEF Fork, At, Free, Orphan, AuthInv, CallTypes, Threads, CallFields, Places, Ops
  <1>3. SessionTypes'
    BY <1>0
  <1>4. WereOpened'
    BY <1>0 DEF Fork, At, Free, Orphan, AuthInv, WereOpened, Procs, Threads, NoToken
  <1>5. ParentIsHome'
    BY <1>0 DEF Fork, At, Free, Orphan, AuthInv, ParentIsHome, NoToken, Ours
  <1>6. ChildStarts'
    BY <1>0 DEF Fork, At, Free, Orphan, AuthInv, ChildStarts
  <1>7. RenewersLock'
    BY <1>0, AuthAssumption DEF Fork, At, Free, Orphan, AuthInv, AuthTypes, Procs, AuthFields,
         Threads, CallTypes, CallFields, Places, Ops, SessionTypes, WereOpened, NoToken,
         ParentIsHome, Ours, ChildStarts, RenewersLock, ProcOf, Worn, RefusalsAreTrue,
         RefusedOnlyIfStruck, UnstruckGoOn, Sound
  <1>8. RefusalsAreTrue'
    BY <1>0 DEF Fork, At, Free, Orphan, AuthInv, RefusalsAreTrue, Threads
  <1>9. RefusedOnlyIfStruck'
    BY <1>0 DEF Fork, At, Free, Orphan, AuthInv, RefusedOnlyIfStruck
  <1>10. UnstruckGoOn'
    BY <1>0 DEF Fork, At, Free, Orphan, AuthInv, UnstruckGoOn, Sound, Procs
  <1> QED
    BY <1>1, <1>2, <1>3, <1>4, <1>5, <1>6, <1>7, <1>8, <1>9, <1>10 DEF AuthInv

LEMMA InvalidateKeeps ==
    ASSUME AuthInv, NEW p \in Procs, Invalidate(p)
    PROVE  AuthInv'
  <1>0. Count' = Count /\ SessionTypes'
    BY SessionsStay DEF Invalidate
  <1>1. AuthTypes'
    BY <1>0 DEF Invalidate, Free, Struck, Threads, At, AuthInv, AuthTypes, Procs, AuthFields, Orphan
  <1>2. CallTypes'
    BY <1>0 DEF Invalidate, Free, Struck, Threads, At, AuthInv, AuthTypes, Procs, AuthFields,
         Orphan, CallTypes, CallFields, Places, Ops
  <1>3. SessionTypes'
    BY <1>0
  <1>4. WereOpened'
    BY <1>0 DEF Invalidate, Free, Struck, Threads, At, AuthInv, WereOpened, Procs, NoToken
  <1>5. ParentIsHome'
    BY <1>0 DEF Invalidate, Free, Struck, Threads, At, AuthInv, AuthTypes, Procs, AuthFields,
         Orphan, CallTypes, CallFields, Places, Ops, ParentIsHome, NoToken, Ours
  <1>6. ChildStarts'
    BY <1>0 DEF Invalidate, Free, Struck, Threads, At, AuthInv, AuthTypes, Procs, AuthFields,
         Orphan, CallTypes, CallFields, Places, Ops, ChildStarts
  <1>7. RenewersLock'
    BY <1>0 DEF Invalidate, Free, Struck, Threads, At, AuthInv, RenewersLock, ProcOf, Procs, Worn
  <1>8. RefusalsAreTrue'
    BY <1>0 DEF Invalidate, Free, Struck, Threads, At, AuthInv, RefusalsAreTrue
  <1>9. RefusedOnlyIfStruck'
    BY <1>0 DEF Invalidate, Free, Struck, Threads, At, AuthInv, AuthTypes, Procs, AuthFields,
         Orphan, CallTypes, CallFields, Places, Ops, RefusedOnlyIfStruck
  <1>10. UnstruckGoOn'
    BY <1>0 DEF Invalidate, Free, Struck, Threads, At, AuthInv, AuthTypes, Procs, AuthFields,
         Orphan, CallTypes, CallFields, Places, Ops, UnstruckGoOn, Sound
  <1> QED
    BY <1>1, <1>2, <1>3, <1>4, <1>5, <1>6, <1>7, <1>8, <1>9, <1>10 DEF AuthInv

LEMMA SignInFailsKeeps ==
    ASSUME AuthInv, NEW t \in Threads, SignInFails(t)
    PROVE  AuthInv'
  <1>0. Count' = Count /\ SessionTypes'
    BY SessionsStay DEF SignInFails
  <1>1. AuthTypes'
    BY <1>0 DEF SignInFails, At, ProcOf, Free, Back, Idle, NoToken, AuthInv, AuthTypes, Procs,
         AuthFields, Threads, Orphan
  <1>2. CallTypes'
    BY <1>0, AuthAssumption DEF SignInFails, At, ProcOf, Free, Back, Idle, NoToken, AuthInv,
         AuthTypes, Procs, AuthFields, Threads, Orphan, CallTypes, CallFields, Places, Ops
  <1>3. SessionTypes'
    BY <1>0
  <1>4. WereOpened'
    BY <1>0, AuthAssumption DEF SignInFails, At, ProcOf, Free, Back, Idle, NoToken, AuthInv,
         AuthTypes, Procs, AuthFields, Threads, Orphan, CallTypes, CallFields, Places, Ops,
         SessionTypes, WereOpened, ParentIsHome, Ours, ChildStarts, RenewersLock, Worn,
         RefusalsAreTrue, RefusedOnlyIfStruck, UnstruckGoOn, Sound
  <1>5. ParentIsHome'
    BY <1>0 DEF SignInFails, At, ProcOf, Free, Back, Idle, NoToken, AuthInv, ParentIsHome, Ours
  <1>6. ChildStarts'
    BY <1>0 DEF SignInFails, At, ProcOf, Free, Back, Idle, NoToken, AuthInv, ChildStarts
  <1>7. RenewersLock'
    BY <1>0, AuthAssumption DEF SignInFails, At, ProcOf, Free, Back, Idle, NoToken, AuthInv,
         AuthTypes, Procs, AuthFields, Threads, Orphan, CallTypes, CallFields, Places, Ops,
         RenewersLock, Worn
  <1>8. RefusalsAreTrue'
    BY <1>0 DEF SignInFails, At, ProcOf, Free, Back, Idle, NoToken, AuthInv, RefusalsAreTrue,
         Threads
  <1>9. RefusedOnlyIfStruck'
    BY <1>0 DEF SignInFails, At, ProcOf, Free, Back, Idle, NoToken, AuthInv, RefusedOnlyIfStruck
  <1>10. UnstruckGoOn'
    BY <1>0 DEF SignInFails, At, ProcOf, Free, Back, Idle, NoToken, AuthInv, UnstruckGoOn, Sound,
         Procs
  <1> QED
    BY <1>1, <1>2, <1>3, <1>4, <1>5, <1>6, <1>7, <1>8, <1>9, <1>10 DEF AuthInv

\* A thread finds its process's session renewed by another.
LEMMA TakesRenewed ==
    ASSUME AuthInv, NEW t \in Threads, NEW back \in {"token", "post"}, NEW observed \in Nat,
           LockIsFree(t), ~Mine(t).closed, Renewed(t, observed), RefreshLocked(t, observed, back),
           At(t, IF back = "token" THEN "refused" ELSE "token"), observed # NoToken,
           observed = (IF back = "token" THEN call[t].seen ELSE Mine(t).invalid),
           UNCHANGED <<sessions, forked, deaths, faults>>
    PROVE  AuthInv'
  <1>0. Count' = Count /\ SessionTypes' /\ UNCHANGED <<sessions, forked>>
    BY SessionsStay
  <1> DEFINE r == [Mine(t) EXCEPT !.invalid = NoToken]
             seen == IF back = "post" THEN Mine(t).session ELSE call[t].seen
  <1>a. ProcOf(t) \in Procs /\ Mine(t) \in AuthFields /\ Mine(t).lock = Free /\ Mine(t).closed = FALSE
    BY DEF ProcOf, Procs, Mine, AuthInv, AuthTypes, AuthFields, LockIsFree
  <1>b. r \in AuthFields /\ r.known = Mine(t).known /\ r.lock = Free /\ r.closed = FALSE
        /\ r.invalid = NoToken /\ r.session = Mine(t).session
    BY <1>a, AuthAssumption DEF AuthFields, NoToken
  <1>c. auth' = [auth EXCEPT ![ProcOf(t)] = r]
    BY <1>a DEF RefreshLocked, Mine, AuthInv, AuthTypes
  <1>d. back \in Places /\ seen \in 0..MaxSessions
    BY <1>a DEF Places, AuthInv, CallTypes, CallFields, AuthFields
  <1>e. call' = [call EXCEPT ![t].at = back, ![t].seen = seen]
    BY DEF RefreshLocked
  <1> HIDE DEF r, seen
  <1>f. AuthTypes' /\ auth'[ProcOf(t)] = r /\ \A q \in Procs : q # ProcOf(t) => auth'[q] = auth[q]
    BY <1>a, <1>b, <1>c, AuthMoves
  <1>g. /\ CallTypes' /\ \A u \in Threads : u # t => call'[u] = call[u]
        /\ call'[t].at = back /\ call'[t].seen = seen
        /\ call'[t].retried = call[t].retried /\ call'[t].struck = call[t].struck
    BY <1>d, <1>e, CallMoves
  <1>h. /\ back = "post" => seen = Mine(t).session /\ call[t].at = "token"
        /\ back = "token" => seen = call[t].seen /\ call[t].at = "refused" /\ seen # Mine(t).session
    BY DEF seen, At, Renewed
  <1>1. AuthTypes'
    BY <1>f
  <1>2. CallTypes'
    BY <1>g
  <1>3. SessionTypes'
    BY <1>0
  <1>4. WereOpened'
    <2>1. seen \in 0..Count /\ (back = "post" => seen # NoToken) /\ Mine(t).session \in 1..Count
      BY <1>0, <1>a, <1>h DEF AuthInv, WereOpened, NoToken, Mine
    <2>2. \A p \in Procs : auth'[p].session \in 1..Count /\ auth'[p].invalid \in 0..Count
      <3>1. r.session \in 1..Count /\ r.invalid \in 0..Count
        BY <2>1, <1>b, AuthAssumption DEF NoToken, AuthInv, SessionTypes
      <3>2. \A p \in Procs : auth[p].session \in 1..Count /\ auth[p].invalid \in 0..Count
        BY DEF AuthInv, WereOpened
      <3>3. \A p \in Procs : p = ProcOf(t) \/ auth'[p] = auth[p]
        BY <1>f
      <3> QED
        BY <3>1, <3>2, <3>3, <1>f
    <2>3. \A u \in Threads : call'[u].seen \in 0..Count
      BY <2>1, <1>g DEF AuthInv, WereOpened
    <2>4. \A u \in Threads : call'[u].at \in {"post", "refused", "closing"} => call'[u].seen # NoToken
      BY <2>1, <1>g DEF AuthInv, WereOpened
    <2> QED
      BY <1>0, <2>2, <2>3, <2>4 DEF WereOpened
  <1>5. ParentIsHome'
    BY <1>0, <1>a, <1>b, <1>f, <1>g, <1>h DEF ProcOf, Procs, NoToken, Mine, Free, Orphan, AuthInv,
         AuthTypes, AuthFields, Threads, CallTypes, CallFields, Places, Ops, ParentIsHome, Ours
  <1>6. ChildStarts'
    BY <1>0, <1>a, <1>b, <1>f, <1>g, <1>h DEF ProcOf, Procs, NoToken, Mine, Free, Orphan, AuthInv,
         AuthTypes, AuthFields, Threads, CallTypes, CallFields, Places, Ops, ChildStarts
  <1>7. RenewersLock'
    BY <1>0, <1>a, <1>b, <1>f, <1>g, <1>h, AuthAssumption DEF ProcOf, Procs, NoToken, Mine, Free,
         Orphan, AuthInv, AuthTypes, AuthFields, Threads, CallTypes, CallFields, Places, Ops,
         RenewersLock, Worn
  <1>8. RefusalsAreTrue'
    BY <1>0, <1>a, <1>b, <1>f, <1>g, <1>h DEF ProcOf, Procs, NoToken, Mine, Free, Orphan, AuthInv,
         RefusalsAreTrue, Threads
  <1>9. RefusedOnlyIfStruck'
    BY <1>0, <1>a, <1>b, <1>f, <1>g, <1>h DEF ProcOf, Procs, NoToken, Mine, Free, Orphan, AuthInv,
         AuthTypes, AuthFields, Threads, CallTypes, CallFields, Places, Ops, RefusedOnlyIfStruck, At
  <1>10. UnstruckGoOn'
    <2> DEFINE Fit(q) == sessions'[q].state = "live" /\ \A p \in Procs : auth'[p].invalid # q
    <2>1. auth["parent"].session \in 1..Count /\ \A u \in Threads : call[u].at = "post" => call[u].seen \in 1..Count
      BY DEF AuthInv, WereOpened, Procs, NoToken
    <2>2. \A q \in 1..Count : Sound(q) => Fit(q)
      <3>1. \A p \in Procs : auth'[p].invalid = auth[p].invalid \/ auth'[p].invalid = NoToken
        BY <1>b, <1>f
      <3> QED
        BY <3>1, <1>0 DEF Sound, NoToken
    <2>3. auth'["parent"].session = auth["parent"].session
      BY <1>b, <1>f DEF Procs, Mine
    <2>4. t \in ParentThreads => Mine(t).session = auth["parent"].session
      BY DEF Mine, ProcOf
    <2>5. \A u \in ParentThreads : u \in Threads /\ (u # t => call'[u] = call[u])
      BY <1>g DEF Threads
    <2> HIDE DEF Fit
    <2>6. SUFFICES ASSUME NEW u \in ParentThreads, ~call'[u].struck
                   PROVE  /\ call'[u].at \in {"post", "refused"} /\ call'[u].seen # auth'["parent"].session =>
                                Fit(auth'["parent"].session)
                          /\ call'[u].at = "post" /\ call'[u].retried => Fit(call'[u].seen)
                          /\ call'[u].at = "token" /\ call'[u].retried => Fit(auth'["parent"].session)
      BY DEF UnstruckGoOn, Sound, Fit
    <2>7. CASE u # t
      BY <2>1, <2>2, <2>3, <2>5, <2>6, <2>7 DEF AuthInv, UnstruckGoOn
    <2>8. CASE u = t /\ back = "post"
      BY <1>g, <1>h, <2>1, <2>2, <2>3, <2>4, <2>6, <2>8 DEF AuthInv, UnstruckGoOn
    <2>9. CASE u = t /\ back = "token"
      <3>1. call[t].at = "refused" /\ ~call[t].struck /\ call[t].seen # auth["parent"].session
        BY <1>g, <1>h, <2>4, <2>6, <2>9
      <3>2. Fit(auth["parent"].session)
        BY <3>1, <2>1, <2>2, <2>6, <2>9 DEF AuthInv, UnstruckGoOn
      <3> QED
        BY <1>g, <2>3, <2>9, <3>2
    <2> QED
      BY <2>7, <2>8, <2>9
  <1> QED
    BY <1>1, <1>2, <1>3, <1>4, <1>5, <1>6, <1>7, <1>8, <1>9, <1>10 DEF AuthInv

\* A thread takes the lock to sign in anew.
LEMMA HoldsToRenew ==
    ASSUME AuthInv, NEW t \in Threads, NEW back \in {"token", "post"}, NEW observed \in Nat,
           LockIsFree(t), ~Mine(t).closed, ~Renewed(t, observed), RefreshLocked(t, observed, back),
           At(t, IF back = "token" THEN "refused" ELSE "token"), observed # NoToken,
           observed = (IF back = "token" THEN call[t].seen ELSE Mine(t).invalid),
           UNCHANGED <<sessions, forked, deaths, faults>>
    PROVE  AuthInv'
  <1>0. Count' = Count /\ SessionTypes' /\ UNCHANGED <<sessions, forked>>
    BY SessionsStay
  <1> DEFINE r == [Mine(t) EXCEPT !.lock = t]
             c == [call[t] EXCEPT !.at = "renew", !.back = back]
  <1>a. ProcOf(t) \in Procs /\ Mine(t) \in AuthFields /\ Mine(t).lock = Free /\ ~Mine(t).closed
    BY DEF ProcOf, Procs, Mine, AuthInv, AuthTypes, AuthFields, LockIsFree
  <1>b. r \in AuthFields /\ r.known = Mine(t).known /\ r.lock = t /\ ~r.closed
        /\ r.invalid = Mine(t).invalid /\ r.session = Mine(t).session
    BY <1>a DEF AuthFields
  <1>c. auth' = [auth EXCEPT ![ProcOf(t)] = r]
    BY <1>a DEF RefreshLocked, Mine, AuthInv, AuthTypes
  <1>d. c \in CallFields /\ c.at = "renew" /\ c.seen = call[t].seen /\ c.retried = call[t].retried
        /\ c.struck = call[t].struck
    BY DEF CallFields, Places, AuthInv, CallTypes
  <1>e. call' = [call EXCEPT ![t] = c]
    BY DEF RefreshLocked, AuthInv, CallTypes
  <1> HIDE DEF r, c
  <1>f. AuthTypes' /\ auth'[ProcOf(t)] = r /\ \A q \in Procs : q # ProcOf(t) => auth'[q] = auth[q]
    BY <1>a, <1>b, <1>c, AuthMoves
  <1>g. CallTypes' /\ call'[t] = c /\ \A u \in Threads : u # t => call'[u] = call[u]
    BY <1>d, <1>e DEF AuthInv, CallTypes
  <1>h. /\ call[t].at = IF back = "token" THEN "refused" ELSE "token"
        /\ Mine(t).session = IF back = "token" THEN call[t].seen ELSE Mine(t).invalid
    BY DEF At, Renewed
  <1>i. Worn(ProcOf(t))'
    <2>1. back = "token" => sessions[Mine(t).session].state # "live"
      BY <1>h DEF AuthInv, RefusalsAreTrue
    <2>2. back = "post" => Mine(t).invalid = Mine(t).session
      BY <1>h
    <2> QED
      BY <2>1, <2>2, <1>0, <1>a, <1>b, <1>f DEF Worn, Mine
  <1>j. \A q \in Procs : Worn(q) => Worn(q)'
    BY <1>0, <1>a, <1>b, <1>f DEF Worn, Mine
  <1>1. AuthTypes'
    BY <1>f
  <1>2. CallTypes'
    BY <1>g
  <1>3. SessionTypes'
    BY <1>0
  <1>4. WereOpened'
    BY <1>0, <1>a, <1>b, <1>d, <1>f, <1>g, <1>h, <1>i, <1>j DEF ProcOf, Procs, NoToken, Mine, Free,
         Orphan, AuthInv, WereOpened, Threads
  <1>5. ParentIsHome'
    BY <1>0, <1>a, <1>b, <1>d, <1>f, <1>g, <1>h, <1>i, <1>j DEF ProcOf, Procs, NoToken, Mine, Free,
         Orphan, AuthInv, AuthTypes, AuthFields, Threads, CallTypes, CallFields, Places, Ops,
         ParentIsHome, Ours
  <1>6. ChildStarts'
    BY <1>0, <1>a, <1>b, <1>d, <1>f, <1>g, <1>h, <1>i, <1>j DEF ProcOf, Procs, NoToken, Mine, Free,
         Orphan, AuthInv, AuthTypes, AuthFields, Threads, CallTypes, CallFields, Places, Ops,
         ChildStarts
  <1>7. RenewersLock'
    BY SMTT(60), <1>0, <1>a, <1>b, <1>d, <1>f, <1>g, <1>h, <1>i, <1>j, AuthAssumption DEF ProcOf, Procs,
         NoToken, Mine, Free, Orphan, AuthInv, AuthTypes, AuthFields, Threads, CallTypes,
         CallFields, Places, Ops, RenewersLock, Worn
  <1>8. RefusalsAreTrue'
    BY <1>0, <1>a, <1>b, <1>d, <1>f, <1>g, <1>h, <1>i, <1>j DEF ProcOf, Procs, NoToken, Mine, Free,
         Orphan, AuthInv, RefusalsAreTrue, Threads
  <1>9. RefusedOnlyIfStruck'
    BY <1>0, <1>a, <1>b, <1>d, <1>f, <1>g, <1>h, <1>i, <1>j DEF ProcOf, Procs, NoToken, Mine, Free,
         Orphan, AuthInv, AuthTypes, AuthFields, Threads, CallTypes, CallFields, Places, Ops,
         RefusedOnlyIfStruck, At
  <1>10. UnstruckGoOn'
    BY <1>0, <1>a, <1>b, <1>d, <1>f, <1>g, <1>h, <1>i, <1>j DEF ProcOf, Procs, NoToken, Mine, Free,
         Orphan, AuthInv, AuthTypes, AuthFields, Threads, CallTypes, CallFields, Places, Ops,
         UnstruckGoOn, Sound
  <1> QED
    BY <1>1, <1>2, <1>3, <1>4, <1>5, <1>6, <1>7, <1>8, <1>9, <1>10 DEF AuthInv

LEMMA GetTokenKeeps ==
    ASSUME AuthInv, NEW t \in Threads, GetToken(t)
    PROVE  AuthInv'
  <1>0. Count' = Count /\ SessionTypes' /\ UNCHANGED <<sessions, forked>>
    BY SessionsStay DEF GetToken
  <1>1. CASE ~Mine(t).closed /\ Mine(t).invalid # NoToken
    <2>1. Mine(t).invalid \in Nat /\ RefreshLocked(t, Mine(t).invalid, "post") /\ At(t, "token") /\ LockIsFree(t)
      BY <1>1 DEF GetToken, NoToken, Mine, ProcOf, Procs, AuthInv, AuthTypes, AuthFields
    <2> QED
      BY <1>1, <2>1, TakesRenewed, HoldsToRenew DEF GetToken
  <1>2. CASE Mine(t).closed
    <2>u. call' = [call EXCEPT ![t] = Idle] /\ UNCHANGED auth /\ At(t, "token")
      BY <1>2 DEF GetToken, Back
    <2>v. /\ CallTypes' /\ \A u \in Threads : u # t => call'[u] = call[u]
          /\ call'[t].at = "idle" /\ call'[t].seen = NoToken /\ ~call'[t].retried /\ ~call'[t].struck
      BY <2>u, CallReturns
    <2>1. AuthTypes'
      BY <1>0, <2>u, <2>v DEF At, NoToken, ProcOf, Procs, AuthInv, AuthTypes, AuthFields, Threads,
           Free, Orphan
    <2>2. CallTypes'
      BY <2>v
    <2>3. SessionTypes'
      BY <1>0
    <2>4. WereOpened'
      BY <1>0, <2>u, <2>v, AuthAssumption DEF At, NoToken, ProcOf, Procs, AuthInv, AuthTypes,
           AuthFields, Threads, Free, Orphan, CallTypes, CallFields, Places, Ops, SessionTypes,
           WereOpened, ParentIsHome, Ours, ChildStarts, RenewersLock, Worn, RefusalsAreTrue,
           RefusedOnlyIfStruck, UnstruckGoOn, Sound
    <2>5. ParentIsHome'
      BY <1>0, <2>u, <2>v DEF At, NoToken, ProcOf, Procs, AuthInv, ParentIsHome, Ours
    <2>6. ChildStarts'
      BY <1>0, <2>u, <2>v DEF At, NoToken, ProcOf, Procs, AuthInv, ChildStarts
    <2>7. RenewersLock'
      BY <1>0, <2>u, <2>v DEF At, NoToken, ProcOf, Procs, AuthInv, RenewersLock, Threads, Worn
    <2>8. RefusalsAreTrue'
      BY <1>0, <2>u, <2>v DEF At, NoToken, ProcOf, Procs, AuthInv, RefusalsAreTrue, Threads
    <2>9. RefusedOnlyIfStruck'
      BY <1>0, <2>u, <2>v DEF At, NoToken, ProcOf, Procs, AuthInv, RefusedOnlyIfStruck
    <2>10. UnstruckGoOn'
      BY <1>0, <2>u, <2>v DEF At, NoToken, ProcOf, Procs, AuthInv, UnstruckGoOn, Sound
    <2> QED
      BY <2>1, <2>2, <2>3, <2>4, <2>5, <2>6, <2>7, <2>8, <2>9, <2>10 DEF AuthInv
  <1>3. CASE ~Mine(t).closed /\ Mine(t).invalid = NoToken
    <2>s. "post" \in Places /\ Mine(t).session \in 0..MaxSessions
      BY DEF Places, Mine, ProcOf, Procs, AuthInv, AuthTypes, AuthFields
    <2>u. call' = [call EXCEPT ![t].at = "post", ![t].seen = Mine(t).session] /\ UNCHANGED auth /\ At(t, "token")
      BY <1>3 DEF GetToken
    <2>v. /\ CallTypes' /\ \A u \in Threads : u # t => call'[u] = call[u]
          /\ call'[t].at = "post" /\ call'[t].seen = Mine(t).session
          /\ call'[t].retried = call[t].retried /\ call'[t].struck = call[t].struck
      BY <2>s, <2>u, CallMoves
    <2>1. AuthTypes'
      BY <1>0, <2>u, <2>v DEF At, NoToken, ProcOf, Procs, Mine, AuthInv, AuthTypes, AuthFields,
           Threads, Free, Orphan
    <2>2. CallTypes'
      BY <2>v
    <2>3. SessionTypes'
      BY <1>0
    <2>4. WereOpened'
      BY <1>0, <2>u, <2>v DEF At, NoToken, ProcOf, Procs, Mine, AuthInv, AuthTypes, AuthFields,
           Threads, Free, Orphan, CallTypes, CallFields, Places, Ops, WereOpened
    <2>5. ParentIsHome'
      BY SMTT(60), <1>0, <2>u, <2>v DEF At, NoToken, ProcOf, Procs, Mine, AuthInv, AuthTypes, AuthFields,
           Threads, Free, Orphan, CallTypes, CallFields, Places, Ops, ParentIsHome, Ours
    <2>6. ChildStarts'
      BY SMTT(20), <1>0, <2>u, <2>v DEF At, NoToken, ProcOf, Procs, Mine, AuthInv, AuthTypes, AuthFields,
           Threads, Free, Orphan, CallTypes, CallFields, Places, Ops, ChildStarts
    <2>7. RenewersLock'
      BY SMTT(20), <1>0, <2>u, <2>v DEF At, NoToken, ProcOf, Procs, Mine, AuthInv, AuthTypes, AuthFields,
           Threads, Free, Orphan, CallTypes, CallFields, Places, Ops, RenewersLock, Worn
    <2>8. RefusalsAreTrue'
      BY ZenonT(30), <1>0, <2>u, <2>v DEF At, NoToken, ProcOf, Procs, Mine, AuthInv, RefusalsAreTrue, Threads
    <2>9. RefusedOnlyIfStruck'
      BY <1>0, <2>u, <2>v DEF At, NoToken, ProcOf, Procs, Mine, AuthInv, AuthTypes, AuthFields,
           Threads, Free, Orphan, CallTypes, CallFields, Places, Ops, RefusedOnlyIfStruck
    <2>10. UnstruckGoOn'
      BY <1>0, <2>u, <2>v DEF At, NoToken, ProcOf, Procs, Mine, AuthInv, AuthTypes, AuthFields,
           Threads, Free, Orphan, CallTypes, CallFields, Places, Ops, UnstruckGoOn, Sound
    <2> QED
      BY <2>1, <2>2, <2>3, <2>4, <2>5, <2>6, <2>7, <2>8, <2>9, <2>10 DEF AuthInv
  <1> QED
    BY <1>1, <1>2, <1>3

LEMMA RefreshKeeps ==
    ASSUME AuthInv, NEW t \in Threads, Refresh(t)
    PROVE  AuthInv'
  <1>0. Count' = Count /\ SessionTypes' /\ UNCHANGED <<sessions, forked>>
    BY SessionsStay DEF Refresh
  <1>1. CASE ~Mine(t).closed
    <2>1. call[t].seen \in Nat /\ call[t].seen # NoToken /\ At(t, "refused") /\ LockIsFree(t) /\ RefreshLocked(t, call[t].seen, "token")
      BY <1>1 DEF Refresh, NoToken, At, AuthInv, CallTypes, CallFields, WereOpened
    <2> QED
      BY <1>1, <2>1, TakesRenewed, HoldsToRenew DEF Refresh
  <1>2. CASE Mine(t).closed
    <2>u. call' = [call EXCEPT ![t] = Idle] /\ UNCHANGED auth /\ At(t, "refused")
      BY <1>2 DEF Refresh, Back
    <2>v. /\ CallTypes' /\ \A u \in Threads : u # t => call'[u] = call[u]
          /\ call'[t].at = "idle" /\ call'[t].seen = NoToken /\ ~call'[t].retried /\ ~call'[t].struck
      BY <2>u, CallReturns
    <2>1. AuthTypes'
      BY <1>0, <2>u, <2>v DEF At, NoToken, ProcOf, Procs, AuthInv, AuthTypes, AuthFields, Threads,
           Free, Orphan
    <2>2. CallTypes'
      BY <2>v
    <2>3. SessionTypes'
      BY <1>0
    <2>4. WereOpened'
      BY <1>0, <2>u, <2>v, AuthAssumption DEF At, NoToken, ProcOf, Procs, AuthInv, AuthTypes,
           AuthFields, Threads, Free, Orphan, CallTypes, CallFields, Places, Ops, SessionTypes,
           WereOpened, ParentIsHome, Ours, ChildStarts, RenewersLock, Worn, RefusalsAreTrue,
           RefusedOnlyIfStruck, UnstruckGoOn, Sound
    <2>5. ParentIsHome'
      BY <1>0, <2>u, <2>v DEF At, NoToken, ProcOf, Procs, AuthInv, ParentIsHome, Ours
    <2>6. ChildStarts'
      BY <1>0, <2>u, <2>v DEF At, NoToken, ProcOf, Procs, AuthInv, ChildStarts
    <2>7. RenewersLock'
      BY <1>0, <2>u, <2>v DEF At, NoToken, ProcOf, Procs, AuthInv, RenewersLock, Threads, Worn
    <2>8. RefusalsAreTrue'
      BY <1>0, <2>u, <2>v DEF At, NoToken, ProcOf, Procs, AuthInv, RefusalsAreTrue, Threads
    <2>9. RefusedOnlyIfStruck'
      BY <1>0, <2>u, <2>v DEF At, NoToken, ProcOf, Procs, AuthInv, RefusedOnlyIfStruck
    <2>10. UnstruckGoOn'
      BY <1>0, <2>u, <2>v DEF At, NoToken, ProcOf, Procs, AuthInv, UnstruckGoOn, Sound
    <2> QED
      BY <2>1, <2>2, <2>3, <2>4, <2>5, <2>6, <2>7, <2>8, <2>9, <2>10 DEF AuthInv
  <1> QED
    BY <1>1, <1>2

LEMMA ForkSignsInKeeps ==
    ASSUME AuthInv, NEW t \in Threads, ForkSignsIn(t)
    PROVE  AuthInv'
  <1>p. ProcOf(t) \in Procs /\ TRUE \in BOOLEAN
    BY DEF ProcOf, Procs
  <1>0. /\ NextSession = Count + 1 /\ Count' = Count + 1 /\ SessionTypes' /\ Count \in Nat /\ Count # 0
        /\ Count + 1 \in 1..MaxSessions
        /\ sessions'[Count + 1] = [by |-> ProcOf(t), own |-> TRUE, state |-> "live"]
        /\ \A q \in 1..Count : sessions'[q].by = sessions[q].by /\ sessions'[q].own = sessions[q].own
                               /\ sessions'[q].state = sessions[q].state
    BY <1>p, SessionJoins DEF ForkSignsIn
  <1> DEFINE r == [Mine(t) EXCEPT !.session = NextSession]
             c == [call[t] EXCEPT !.at = FirstPlace(t), !.op = "send"]
  <1>a. Mine(t) \in AuthFields
    BY <1>p DEF Mine, AuthInv, AuthTypes
  <1>b. r \in AuthFields /\ r.known = Mine(t).known /\ r.lock = Mine(t).lock /\ r.closed = Mine(t).closed
        /\ r.invalid = Mine(t).invalid /\ r.session = Count + 1
    BY <1>0, <1>a DEF AuthFields
  <1>c. auth' = [auth EXCEPT ![ProcOf(t)] = r]
    BY <1>a, <1>p DEF ForkSignsIn, Mine, AuthInv, AuthTypes
  <1>d. FirstPlace(t) \in {"token", "open"}
    BY DEF FirstPlace
  <1>e. c \in CallFields /\ c.at = FirstPlace(t) /\ c.seen = call[t].seen /\ c.retried = call[t].retried
        /\ c.struck = call[t].struck
    BY <1>d DEF CallFields, Places, Ops, AuthInv, CallTypes
  <1>f. call' = [call EXCEPT ![t] = c] /\ call[t].at = "fork" /\ UNCHANGED forked
    BY DEF ForkSignsIn, AuthInv, CallTypes, At
  <1> HIDE DEF r, c
  <1>g. AuthTypes' /\ auth'[ProcOf(t)] = r /\ \A q \in Procs : q # ProcOf(t) => auth'[q] = auth[q]
    BY <1>p, <1>b, <1>c, AuthMoves
  <1>h. CallTypes' /\ call'[t] = c /\ \A u \in Threads : u # t => call'[u] = call[u]
    BY <1>e, <1>f DEF AuthInv, CallTypes
  <1>i. t \in ChildThreads /\ t \notin ParentThreads /\ ProcOf(t) = "child" /\ auth'["parent"] = auth["parent"]
    BY <1>f, <1>g DEF AuthInv, ParentIsHome, ProcOf, Procs, Threads
  <1>j. auth'["child"] = r /\ Mine(t) = auth["child"] /\ Mine(t).known
    BY <1>f, <1>g, <1>i DEF Mine, AuthInv, ChildStarts
  <1>k. (Worn("parent") => Worn("parent")') /\ Worn("child")'
    <2>1. auth["parent"].session \in 1..Count
      BY DEF AuthInv, WereOpened, Procs
    <2> QED
      BY <2>1, <1>0, <1>b, <1>i, <1>j DEF Worn
  <1>l. \A q \in 1..Count : /\ Ours(q) => sessions'[q].by = "parent" /\ sessions'[q].own
                            /\ sessions[q].state # "live" => sessions'[q].state # "live"
    BY <1>0 DEF Ours
  <1>m. auth["parent"].session \in 1..Count /\ \A u \in Threads : call[u].seen \in 0..Count
    BY DEF AuthInv, WereOpened, Procs
  <1>n. \A u \in ParentThreads : u # t /\ call'[u] = call[u]
    BY <1>i, <1>h DEF Threads
  <1>1. AuthTypes'
    BY <1>g
  <1>2. CallTypes'
    BY <1>h
  <1>3. SessionTypes'
    BY <1>0
  <1>4. WereOpened'
    BY <1>0, <1>b, <1>d, <1>e, <1>f, <1>g, <1>h, <1>i, <1>j, <1>k DEF ProcOf, Procs, NoToken,
         AuthInv, WereOpened, Threads
  <1>5. ParentIsHome'
    <2> DEFINE N == 1..Count
               OursThen(q) == sessions'[q].by = "parent" /\ sessions'[q].own
    <2>1. \A q \in N : Ours(q) => OursThen(q)
      BY <1>l
    <2>2. auth["parent"].session \in N /\ \A u \in ParentThreads : call[u].seen # NoToken => call[u].seen \in N
      BY <1>m DEF NoToken, Threads
    <2> HIDE DEF N, OursThen
    <2>3. OursThen(auth["parent"].session) /\ \A u \in ParentThreads : call[u].seen # NoToken => OursThen(call[u].seen)
      BY <2>1, <2>2 DEF AuthInv, ParentIsHome
    <2> QED
      BY <2>3, <1>i, <1>n DEF AuthInv, ParentIsHome, Ours, OursThen
  <1>6. ChildStarts'
    <2>1. auth'["child"].known /\ auth'["child"].closed = auth["child"].closed /\ Mine(t).known /\ forked' = forked
      BY <1>b, <1>f, <1>j
    <2>2. forked
      BY <1>f, <1>i DEF AuthInv, ChildStarts
    <2>3. \A u \in ChildThreads : call'[u].at # "closing"
      BY <1>d, <1>e, <1>h DEF AuthInv, ChildStarts, Threads
    <2> QED
      BY <2>1, <2>2, <2>3, <1>j DEF AuthInv, ChildStarts
  <1>7. RenewersLock'
    BY <1>0, <1>b, <1>d, <1>e, <1>f, <1>g, <1>h, <1>i, <1>j, <1>k DEF ProcOf, Procs, NoToken,
         AuthInv, RenewersLock, Threads, Worn
  <1>8. RefusalsAreTrue'
    <2>1. \A u \in Threads : u # t /\ call[u].at = "refused" => sessions'[call[u].seen].state # "live"
      <3> DEFINE N == 1..Count
      <3>1. \A u \in Threads : call[u].at = "refused" => call[u].seen \in N
        BY <1>m DEF AuthInv, WereOpened, NoToken
      <3>2. \A q \in N : sessions[q].state # "live" => sessions'[q].state # "live"
        BY <1>l
      <3> HIDE DEF N
      <3> QED
        BY <3>1, <3>2 DEF AuthInv, RefusalsAreTrue
    <2>2. call'[t].at \in {"token", "open"}
      BY <1>d, <1>e, <1>h
    <2> QED
      BY <2>1, <2>2, <1>h DEF AuthInv, RefusalsAreTrue
  <1>9. RefusedOnlyIfStruck'
    BY <1>0, <1>b, <1>d, <1>e, <1>f, <1>g, <1>h, <1>i, <1>j, <1>k DEF ProcOf, Procs, NoToken,
         AuthInv, RefusedOnlyIfStruck, At
  <1>10. UnstruckGoOn'
    BY SMTT(20), <1>0, <1>b, <1>d, <1>e, <1>f, <1>g, <1>h, <1>i, <1>j, <1>k, AuthAssumption DEF ProcOf, Procs,
         NoToken, AuthInv, AuthTypes, AuthFields, Threads, Free, Orphan, CallTypes, CallFields,
         Places, Ops, SessionTypes, WereOpened, ParentIsHome, Ours, ChildStarts, RenewersLock, Worn,
         RefusalsAreTrue, RefusedOnlyIfStruck, At, UnstruckGoOn, Sound
  <1> QED
    BY <1>1, <1>2, <1>3, <1>4, <1>5, <1>6, <1>7, <1>8, <1>9, <1>10 DEF AuthInv

LEMMA RenewKeeps ==
    ASSUME AuthInv, NEW t \in Threads, Renew(t)
    PROVE  AuthInv'
  <1>p. ProcOf(t) \in Procs /\ TRUE \in BOOLEAN
    BY DEF ProcOf, Procs
  <1>0. /\ NextSession = Count + 1 /\ Count' = Count + 1 /\ SessionTypes' /\ Count \in Nat /\ Count # 0
        /\ Count + 1 \in 1..MaxSessions
        /\ sessions'[Count + 1] = [by |-> ProcOf(t), own |-> TRUE, state |-> "live"]
        /\ \A q \in 1..Count : /\ sessions'[q].by = sessions[q].by /\ sessions'[q].own = sessions[q].own
                               /\ sessions'[q].state = IF q \in {Mine(t).session} THEN "closed" ELSE sessions[q].state
    BY ZenonT(30), <1>p, SessionOpens DEF Renew
  <1> DEFINE r == [Mine(t) EXCEPT !.session = NextSession, !.invalid = NoToken, !.lock = Free]
  <1>a. Mine(t) \in AuthFields
    BY <1>p DEF Mine, AuthInv, AuthTypes
  <1>b. r \in AuthFields /\ r.known = Mine(t).known /\ r.lock = Free /\ r.closed = Mine(t).closed
        /\ r.invalid = NoToken /\ r.session = Count + 1
    <2>1. NoToken \in 0..MaxSessions /\ NextSession \in 0..MaxSessions /\ Free \in Threads \cup {Free, Orphan}
      BY <1>0, AuthAssumption DEF NoToken
    <2>2. /\ r \in AuthFields /\ r.known = Mine(t).known /\ r.lock = Free /\ r.closed = Mine(t).closed
          /\ r.invalid = NoToken /\ r.session = NextSession
      BY <1>a, <2>1 DEF AuthFields
    <2> QED
      BY <1>0, <2>2
  <1>c. auth' = [auth EXCEPT ![ProcOf(t)] = r]
    BY <1>a, <1>p DEF Renew, Mine, AuthInv, AuthTypes
  <1>d. call[t].back \in Places /\ call[t].back \in {"token", "post"} /\ NextSession \in 0..MaxSessions
    BY <1>0 DEF CallFields, Places, AuthInv, CallTypes
  <1>e. call' = [call EXCEPT ![t].at = call[t].back, ![t].seen = NextSession] /\ call[t].at = "renew" /\ UNCHANGED forked
    BY DEF Renew, At
  <1> HIDE DEF r
  <1>g. AuthTypes' /\ auth'[ProcOf(t)] = r /\ \A q \in Procs : q # ProcOf(t) => auth'[q] = auth[q]
    BY <1>p, <1>b, <1>c, AuthMoves
  <1>h. /\ CallTypes' /\ \A u \in Threads : u # t => call'[u] = call[u]
        /\ call'[t].at = call[t].back /\ call'[t].seen = Count + 1
        /\ call'[t].retried = call[t].retried /\ call'[t].struck = call[t].struck
    <2>1. /\ CallTypes' /\ \A u \in Threads : u # t => call'[u] = call[u]
          /\ call'[t].at = call[t].back /\ call'[t].seen = NextSession
          /\ call'[t].retried = call[t].retried /\ call'[t].struck = call[t].struck
      <3> DEFINE back == call[t].back
                 next == NextSession
      <3>1. back \in Places /\ next \in 0..MaxSessions /\ call' = [call EXCEPT ![t].at = back, ![t].seen = next]
        BY <1>d, <1>e
      <3> HIDE DEF back, next
      <3>2. call'[t].at = back /\ call'[t].seen = next /\ CallTypes'
            /\ (\A u \in Threads : u # t => call'[u] = call[u])
            /\ call'[t].retried = call[t].retried /\ call'[t].struck = call[t].struck
        BY <3>1, CallMoves
      <3> QED
        BY <3>2 DEF back, next
    <2> QED
      BY <1>0, <2>1
  <1>i. Mine(t).lock = t /\ ~Mine(t).closed /\ Worn(ProcOf(t))
    BY <1>e DEF AuthInv, RenewersLock, Mine
  <1>j. \A u \in Threads : ProcOf(u) = ProcOf(t) /\ u # t => call[u].at # "renew"
    BY <1>i DEF AuthInv, RenewersLock, Mine
  <1>k. \A u \in Threads : call'[u].at = "renew" => u # t /\ ProcOf(u) # ProcOf(t) /\ call[u].at = "renew"
    BY <1>h, <1>d, <1>j
  <1>l. \A q \in Procs : q # ProcOf(t) /\ Worn(q) => Worn(q)'
    <2>1. \A q \in Procs : auth[q].session \in 1..Count
      BY DEF AuthInv, WereOpened
    <2> QED
      BY <2>1, <1>0, <1>g DEF Worn
  <1>m. Mine(t).session \in 1..Count
    BY <1>p DEF AuthInv, WereOpened, Mine
  <1>n. \A q \in Procs : auth'[q].invalid \in 0..Count
    BY <1>b, <1>g, <1>0 DEF AuthInv, WereOpened, NoToken
  <1>o. \A q \in Procs : auth'[q].invalid # Count + 1
    BY <1>0, <1>n
  <1>q. ProcOf(t) = "parent" => ~Sound(Mine(t).session)
    BY <1>i, <1>p DEF Worn, Sound, Mine, Procs
  <1>r. t \in ParentThreads <=> ProcOf(t) = "parent"
    BY DEF ProcOf
  <1>s. \A q \in 1..Count : /\ Ours(q) => sessions'[q].by = "parent" /\ sessions'[q].own
                            /\ sessions[q].state # "live" => sessions'[q].state # "live"
    BY <1>0 DEF Ours
  <1>t. auth["parent"].session \in 1..Count /\ \A u \in Threads : call[u].seen \in 0..Count
    BY DEF AuthInv, WereOpened, Procs
  <1>u. /\ t \in ParentThreads => auth'["parent"] = r
        /\ t \notin ParentThreads => auth'["parent"] = auth["parent"]
    BY <1>g, <1>r DEF Procs, ProcOf
  <1>1. AuthTypes'
    BY <1>g
  <1>2. CallTypes'
    BY <1>h
  <1>3. SessionTypes'
    BY <1>0
  <1>4. WereOpened'
    BY SMTT(60), <1>0, <1>b, <1>d, <1>e, <1>g, <1>h, <1>i, <1>j, <1>k, <1>l, <1>m, <1>n, <1>o, <1>r DEF
         ProcOf, Procs, NoToken, Mine, AuthInv, AuthTypes, AuthFields, Threads, Free, Orphan,
         CallTypes, CallFields, Places, Ops, WereOpened
  <1>5. ParentIsHome'
    <2> DEFINE N == 1..Count
               OursThen(q) == sessions'[q].by = "parent" /\ sessions'[q].own
    <2>n. \A q \in N : Ours(q) => OursThen(q)
      BY <1>s
    <2> HIDE DEF N, OursThen
    <2>1. auth'["parent"].known /\ auth'["parent"].invalid \in {NoToken, auth'["parent"].session}
      BY <1>u, <1>b, <1>r DEF AuthInv, ParentIsHome, Mine
    <2>2. t \in ParentThreads => OursThen(auth'["parent"].session) /\ OursThen(call'[t].seen)
      BY <1>0, <1>u, <1>b, <1>h, <1>r DEF OursThen
    <2>3. t \notin ParentThreads => OursThen(auth'["parent"].session)
      <3>1. auth["parent"].session \in N
        BY <1>t DEF N
      <3> QED
        BY <3>1, <2>n, <1>u DEF AuthInv, ParentIsHome
    <2>4. \A u \in ParentThreads : u # t /\ call[u].seen # NoToken => OursThen(call'[u].seen)
      <3>1. \A u \in ParentThreads : call[u].seen # NoToken => call[u].seen \in N
        BY <1>t DEF NoToken, Threads, N
      <3> QED
        BY <3>1, <2>n, <1>h DEF AuthInv, ParentIsHome, Threads
    <2>5. \A u \in ParentThreads : call'[u].at # "fork"
      BY <1>h, <1>d DEF AuthInv, ParentIsHome, Threads
    <2>6. \A u \in ParentThreads : u # t => call'[u] = call[u]
      BY <1>h DEF Threads
    <2> QED
      BY <2>1, <2>2, <2>3, <2>4, <2>5, <2>6 DEF ParentIsHome, Ours, OursThen
  <1>6. ChildStarts'
    BY SMTT(60), <1>0, <1>b, <1>d, <1>e, <1>g, <1>h, <1>i, <1>j, <1>k, <1>l, <1>m, <1>n, <1>o, <1>r DEF
         ProcOf, Procs, NoToken, Mine, AuthInv, AuthTypes, AuthFields, Threads, Free, Orphan,
         CallTypes, CallFields, Places, Ops, ChildStarts
  <1>7. RenewersLock'
    <2>1. \A u \in Threads : u # t /\ ProcOf(u) = ProcOf(t) => call'[u].at # "renew" /\ auth'[ProcOf(u)].lock # u
      BY <1>b, <1>g, <1>h, <1>j, AuthAssumption
    <2>2. call'[t].at # "renew" /\ auth'[ProcOf(t)].lock # t
      BY <1>b, <1>d, <1>g, <1>h, AuthAssumption
    <2>3. \A u \in Threads : ProcOf(u) # ProcOf(t) =>
              call'[u] = call[u] /\ ProcOf(u) \in Procs /\ auth'[ProcOf(u)] = auth[ProcOf(u)]
              /\ (Worn(ProcOf(u)) => Worn(ProcOf(u))')
      BY <1>g, <1>h, <1>l DEF ProcOf, Procs
    <2>4. \A u \in Threads : call'[u].at = "renew" <=> auth'[ProcOf(u)].lock = u
      BY <2>1, <2>2, <2>3 DEF AuthInv, RenewersLock
    <2>5. \A p \in Procs : auth'[p].lock \in Threads => ProcOf(auth'[p].lock) = p
      BY <1>b, <1>g, AuthAssumption DEF AuthInv, RenewersLock
    <2>6. \A u \in Threads : call'[u].at = "renew" => ~auth'[ProcOf(u)].closed /\ Worn(ProcOf(u))'
      BY <2>3, <1>k DEF AuthInv, RenewersLock
    <2> QED
      BY <2>4, <2>5, <2>6 DEF RenewersLock
  <1>8. RefusalsAreTrue'
    <2>1. \A u \in Threads : u # t /\ call[u].at = "refused" => sessions'[call[u].seen].state # "live"
      <3> DEFINE N == 1..Count
      <3>1. \A u \in Threads : call[u].at = "refused" => call[u].seen \in N
        BY <1>t DEF AuthInv, WereOpened, NoToken
      <3>2. \A q \in N : sessions[q].state # "live" => sessions'[q].state # "live"
        BY <1>s
      <3> HIDE DEF N
      <3> QED
        BY <3>1, <3>2 DEF AuthInv, RefusalsAreTrue
    <2> QED
      BY <2>1, <1>h, <1>d DEF AuthInv, RefusalsAreTrue
  <1>9. RefusedOnlyIfStruck'
    BY <1>0, <1>b, <1>d, <1>e, <1>g, <1>h, <1>i, <1>j, <1>k, <1>l, <1>m, <1>n, <1>o, <1>r DEF
         ProcOf, Procs, NoToken, Mine, AuthInv, AuthTypes, AuthFields, Threads, Free, Orphan,
         CallTypes, CallFields, Places, Ops, RefusedOnlyIfStruck, At
  <1>10. UnstruckGoOn'
    <2> DEFINE Fit(q) == sessions'[q].state = "live" /\ \A p \in Procs : auth'[p].invalid # q
    <2>1. Fit(Count + 1)
      BY <1>0, <1>o
    <2>2. call'[t].seen = Count + 1 /\ call'[t].at \in {"token", "post"}
      BY <1>h, <1>d
    <2>3. \A q \in 1..Count : q # Mine(t).session /\ Sound(q) => Fit(q)
      <3>1. \A p \in Procs : auth'[p].invalid = auth[p].invalid \/ auth'[p].invalid = NoToken
        BY <1>b, <1>g
      <3> QED
        BY <3>1, <1>0 DEF Sound, NoToken
    <2>4. \A q \in 1..Count : Ours(q) /\ Sound(q) => q # Mine(t).session
      BY <1>i, <1>p DEF Worn, Sound, Mine, Ours
    <2>5. \A q \in 1..Count : Ours(q) /\ Sound(q) => Fit(q)
      BY <2>3, <2>4
    <2>6. Ours(auth["parent"].session) /\ \A u \in ParentThreads : call[u].seen # NoToken => Ours(call[u].seen)
      BY DEF AuthInv, ParentIsHome
    <2>7. \A u \in ParentThreads : call[u].at \in {"post", "refused"} => call[u].seen \in 1..Count /\ Ours(call[u].seen)
      BY <1>t, <2>6 DEF AuthInv, WereOpened, NoToken, Threads
    <2>8. t \in ParentThreads => auth'["parent"].session = Count + 1 /\ ~Sound(auth["parent"].session)
      BY <1>b, <1>r, <1>u, <1>t, <2>4, <2>6 DEF Mine
    <2>9. \A u \in ParentThreads : u # t => call'[u] = call[u]
      BY <1>h DEF Threads
    <2> HIDE DEF Fit
    <2>10. SUFFICES ASSUME NEW u \in ParentThreads, ~call'[u].struck
                    PROVE  /\ call'[u].at \in {"post", "refused"} /\ call'[u].seen # auth'["parent"].session =>
                                 Fit(auth'["parent"].session)
                           /\ call'[u].at = "post" /\ call'[u].retried => Fit(call'[u].seen)
                           /\ call'[u].at = "token" /\ call'[u].retried => Fit(auth'["parent"].session)
      BY DEF UnstruckGoOn, Sound, Fit
    <2>11. CASE u = t
      BY <2>1, <2>2, <2>8, <2>11
    <2>12. CASE u # t /\ t \in ParentThreads
      BY <2>1, <2>5, <2>7, <2>8, <2>9, <2>10, <2>12 DEF AuthInv, UnstruckGoOn
    <2>13. CASE u # t /\ t \notin ParentThreads
      BY <1>t, <1>u, <2>5, <2>6, <2>7, <2>9, <2>10, <2>13 DEF AuthInv, UnstruckGoOn
    <2> QED
      BY <2>11, <2>12, <2>13
  <1> QED
    BY <1>1, <1>2, <1>3, <1>4, <1>5, <1>6, <1>7, <1>8, <1>9, <1>10 DEF AuthInv

LEMMA OpenArtifactKeeps ==
    ASSUME AuthInv, NEW t \in Threads, OpenArtifact(t)
    PROVE  AuthInv'
  <1>0. call' = [call EXCEPT ![t] = Idle] /\ UNCHANGED <<auth, forked>> /\ call[t].at = "open" /\ Mine(t).lock = Free
    BY DEF OpenArtifact, Back, At, LockIsFree
  <1>c. /\ CallTypes' /\ \A u \in Threads : u # t => call'[u] = call[u]
        /\ call'[t].at = "idle" /\ call'[t].seen = NoToken /\ ~call'[t].retried /\ ~call'[t].struck
    BY <1>0, CallReturns
  <1>2. CASE Mine(t).closed
    <2>0. Count' = Count /\ SessionTypes' /\ UNCHANGED sessions
      BY <1>2, SessionsStay DEF OpenArtifact
    <2>1. AuthTypes'
      BY <1>0, <1>c, <2>0 DEF NoToken, ProcOf, Procs, AuthInv, AuthTypes, AuthFields, Threads, Free,
           Orphan
    <2>2. CallTypes'
      BY <1>c
    <2>3. SessionTypes'
      BY <2>0
    <2>4. WereOpened'
      BY <1>0, <1>c, <2>0, AuthAssumption DEF NoToken, ProcOf, Procs, AuthInv, AuthTypes,
           AuthFields, Threads, Free, Orphan, CallTypes, CallFields, Places, Ops, SessionTypes,
           WereOpened, ParentIsHome, Ours, ChildStarts, RenewersLock, Worn, RefusalsAreTrue,
           RefusedOnlyIfStruck, At, UnstruckGoOn, Sound
    <2>5. ParentIsHome'
      BY <1>0, <1>c, <2>0 DEF NoToken, ProcOf, Procs, AuthInv, ParentIsHome, Ours
    <2>6. ChildStarts'
      BY <1>0, <1>c, <2>0 DEF NoToken, ProcOf, Procs, AuthInv, ChildStarts
    <2>7. RenewersLock'
      BY <1>0, <1>c, <2>0 DEF NoToken, ProcOf, Procs, AuthInv, RenewersLock, Threads, Worn
    <2>8. RefusalsAreTrue'
      BY <1>0, <1>c, <2>0 DEF NoToken, ProcOf, Procs, AuthInv, RefusalsAreTrue, Threads
    <2>9. RefusedOnlyIfStruck'
      BY <1>0, <1>c, <2>0 DEF NoToken, ProcOf, Procs, AuthInv, RefusedOnlyIfStruck, At
    <2>10. UnstruckGoOn'
      BY <1>0, <1>c, <2>0 DEF NoToken, ProcOf, Procs, AuthInv, UnstruckGoOn, Sound
    <2> QED
      BY <2>1, <2>2, <2>3, <2>4, <2>5, <2>6, <2>7, <2>8, <2>9, <2>10 DEF AuthInv
  <1>3. CASE ~Mine(t).closed
    <2>p. ProcOf(t) \in Procs /\ FALSE \in BOOLEAN /\ CanSignIn /\ sessions' = Opened(ProcOf(t), FALSE, {})
      BY <1>3 DEF ProcOf, Procs, OpenArtifact
    <2>0. /\ NextSession = Count + 1 /\ Count' = Count + 1 /\ SessionTypes' /\ Count \in Nat /\ Count # 0
          /\ Count + 1 \in 1..MaxSessions
          /\ sessions'[Count + 1] = [by |-> ProcOf(t), own |-> FALSE, state |-> "live"]
          /\ \A q \in 1..Count : sessions'[q].by = sessions[q].by /\ sessions'[q].own = sessions[q].own
                                 /\ sessions'[q].state = sessions[q].state
      BY <2>p, SessionJoins
    <2>a. \A q \in Procs : auth[q].session \in 1..Count
      BY DEF AuthInv, WereOpened
    <2>b. \A q \in Procs : Worn(q) => Worn(q)'
      BY <2>a, <2>0, <1>0 DEF Worn
    <2>c. \A q \in 1..Count : Sound(q) => Sound(q)'
      BY <2>0, <1>0 DEF Sound
    <2>d. \A u \in Threads : call'[u].at \in {"post", "refused"} => call'[u].seen \in 1..Count
      BY <1>c, <2>0 DEF AuthInv, WereOpened, NoToken
    <2>e. \A q \in 1..Count : Ours(q) => sessions'[q].by = "parent" /\ sessions'[q].own
      BY <2>0 DEF Ours
    <2>f. \A u \in ParentThreads : call'[u].seen # NoToken =>
              call'[u].seen \in 1..Count /\ call[u].seen = call'[u].seen /\ u # t
      BY <1>c DEF AuthInv, WereOpened, NoToken, Threads
    <2>1. AuthTypes'
      BY <1>0, <1>c, <2>0, <2>a, <2>b, <2>c, <2>d DEF NoToken, ProcOf, Procs, AuthInv, AuthTypes,
           AuthFields, Threads, Free, Orphan
    <2>2. CallTypes'
      BY <1>c
    <2>3. SessionTypes'
      BY <2>0
    <2>4. WereOpened'
      BY <1>0, <1>c, <2>0, <2>a, <2>b, <2>c, <2>d DEF NoToken, ProcOf, Procs, AuthInv, WereOpened,
           Threads
    <2>5. ParentIsHome'
      <3> DEFINE OursThen(q) == sessions'[q].by = "parent" /\ sessions'[q].own
      <3>1. auth["parent"].session \in 1..Count
        BY <2>a DEF Procs
      <3>2. \A u \in ParentThreads : call'[u].seen # NoToken => OursThen(call'[u].seen)
        BY <2>e, <2>f DEF AuthInv, ParentIsHome, Ours
      <3>3. \A u \in ParentThreads : call'[u].at # "fork"
        BY <1>c DEF AuthInv, ParentIsHome, Threads
      <3>4. OursThen(auth'["parent"].session)
        BY <3>1, <2>e, <1>0 DEF AuthInv, ParentIsHome, Ours
      <3> QED
        BY <3>2, <3>3, <3>4, <1>0 DEF AuthInv, ParentIsHome, Ours
    <2>6. ChildStarts'
      BY <1>0, <1>c, <2>0, <2>a, <2>b, <2>c, <2>d DEF NoToken, ProcOf, Procs, AuthInv, ChildStarts
    <2>7. RenewersLock'
      BY <1>0, <1>c, <2>0, <2>a, <2>b, <2>c, <2>d DEF NoToken, ProcOf, Procs, AuthInv, RenewersLock,
           Threads, Worn
    <2>8. RefusalsAreTrue'
      BY <1>0, <1>c, <2>0, <2>a, <2>b, <2>c, <2>d DEF NoToken, ProcOf, Procs, AuthInv,
           RefusalsAreTrue, Threads
    <2>9. RefusedOnlyIfStruck'
      BY <1>0, <1>c, <2>0, <2>a, <2>b, <2>c, <2>d DEF NoToken, ProcOf, Procs, AuthInv,
           RefusedOnlyIfStruck, At
    <2>10. UnstruckGoOn'
      BY <1>0, <1>c, <2>0, <2>a, <2>b, <2>c, <2>d DEF NoToken, ProcOf, Procs, AuthInv, AuthTypes,
           AuthFields, Threads, Free, Orphan, CallTypes, CallFields, Places, Ops, UnstruckGoOn,
           Sound
    <2> QED
      BY <2>1, <2>2, <2>3, <2>4, <2>5, <2>6, <2>7, <2>8, <2>9, <2>10 DEF AuthInv
  <1> QED
    BY <1>2, <1>3

LEMMA ExpireKeeps ==
    ASSUME AuthInv, NEW s \in DOMAIN sessions, Expire(s)
    PROVE  AuthInv'
  <1>0. /\ s \in 1..Count /\ Count' = Count /\ SessionTypes' /\ sessions'[s].state = "expired"
        /\ \A q \in 1..Count : /\ sessions'[q].by = sessions[q].by /\ sessions'[q].own = sessions[q].own
                               /\ q # s => sessions'[q] = sessions[q]
                               /\ sessions'[q].state \in {sessions[q].state, "expired"}
    <2>1. s \in 1..Count
      BY DEF AuthInv, SessionTypes
    <2> QED
      BY <2>1, SessionEnds DEF Expire
  <1>c. /\ CallTypes'
        /\ \A t \in Threads : /\ call'[t].at = call[t].at /\ call'[t].seen = call[t].seen
                              /\ call'[t].retried = call[t].retried
                              /\ call'[t].struck <=> call[t].at # "idle"
    BY CallsAreStruck DEF Expire
  <1>d. \A t \in ParentThreads : call'[t].struck \/ call'[t].at = "idle"
    BY <1>c DEF Threads
  <1>1. AuthTypes'
    BY <1>0 DEF Expire, Struck, Threads, At, AuthInv, AuthTypes, Procs, AuthFields, Free, Orphan
  <1>2. CallTypes'
    BY <1>c
  <1>3. SessionTypes'
    BY <1>0
  <1>4. WereOpened'
    BY <1>0 DEF Expire, Struck, Threads, At, AuthInv, WereOpened, Procs, NoToken
  <1>5. ParentIsHome'
    BY <1>0 DEF Expire, Struck, Threads, At, AuthInv, AuthTypes, Procs, AuthFields, Free, Orphan,
         CallTypes, CallFields, Places, Ops, ParentIsHome, NoToken, Ours
  <1>6. ChildStarts'
    BY <1>0 DEF Expire, Struck, Threads, At, AuthInv, AuthTypes, Procs, AuthFields, Free, Orphan,
         CallTypes, CallFields, Places, Ops, ChildStarts
  <1>7. RenewersLock'
    BY <1>0 DEF Expire, Struck, Threads, At, AuthInv, RenewersLock, ProcOf, Procs, Worn
  <1>8. RefusalsAreTrue'
    BY <1>0 DEF Expire, Struck, Threads, At, AuthInv, RefusalsAreTrue
  <1>9. RefusedOnlyIfStruck'
    BY <1>0 DEF Expire, Struck, Threads, At, AuthInv, AuthTypes, Procs, AuthFields, Free, Orphan,
         CallTypes, CallFields, Places, Ops, RefusedOnlyIfStruck
  <1>10. UnstruckGoOn'
    BY <1>d DEF UnstruckGoOn
  <1> QED
    BY <1>1, <1>2, <1>3, <1>4, <1>5, <1>6, <1>7, <1>8, <1>9, <1>10 DEF AuthInv

LEMMA CloseSessionKeeps ==
    ASSUME AuthInv, NEW t \in Threads, CloseSession(t)
    PROVE  AuthInv'
  <1>0. /\ call[t].seen \in 1..Count /\ Count' = Count /\ SessionTypes' /\ sessions'[call[t].seen].state = "closed"
        /\ \A q \in 1..Count : /\ sessions'[q].by = sessions[q].by /\ sessions'[q].own = sessions[q].own
                               /\ q # call[t].seen => sessions'[q] = sessions[q]
                               /\ sessions'[q].state \in {sessions[q].state, "closed"}
    <2>1. call[t].seen \in 1..Count
      BY DEF CloseSession, At, AuthInv, WereOpened, NoToken
    <2> QED
      BY <2>1, SessionEnds DEF CloseSession
  <1>a. Idle \in CallFields /\ Idle.at = "idle" /\ ~Idle.struck
    BY AuthAssumption DEF Idle, CallFields, Places, Ops, NoToken
  <1>b. \A u \in Threads : [call[u] EXCEPT !.struck = ~At(u, "idle")] \in CallFields
                           /\ [call[u] EXCEPT !.struck = ~At(u, "idle")].at = call[u].at
    BY DEF AuthInv, CallTypes, CallFields
  <1>c. \A u \in Threads : call'[u] = IF u = t THEN Idle ELSE [call[u] EXCEPT !.struck = ~At(u, "idle")]
    BY DEF CloseSession, Struck
  <1>d. CallTypes'
    <2>1. \A u \in Threads : call'[u] \in CallFields
      BY <1>a, <1>b, <1>c
    <2>2. call' = [u \in Threads |-> call'[u]]
      BY DEF CloseSession, Struck
    <2> QED
      BY <2>1, <2>2 DEF CallTypes
  <1>e. \A u \in ParentThreads : call'[u].struck \/ call'[u].at = "idle"
    <2>1. \A u \in Threads : [call[u] EXCEPT !.struck = ~At(u, "idle")].struck = ~At(u, "idle")
      BY DEF AuthInv, CallTypes, CallFields
    <2> QED
      BY ZenonT(30), <2>1, <1>a, <1>b, <1>c DEF Threads, At
  <1>1. AuthTypes'
    BY <1>0 DEF CloseSession, At, Struck, Idle, Threads, NoToken, AuthInv, AuthTypes, Procs,
         AuthFields, Free, Orphan
  <1>2. CallTypes'
    BY <1>d
  <1>3. SessionTypes'
    BY <1>0
  <1>4. WereOpened'
    BY SMTT(60), <1>0, AuthAssumption DEF CloseSession, At, Struck, Idle, Threads, NoToken, AuthInv,
         AuthTypes, Procs, AuthFields, Free, Orphan, CallTypes, CallFields, Places, Ops,
         SessionTypes, WereOpened, ParentIsHome, Ours, ChildStarts, RenewersLock, ProcOf, Worn,
         RefusalsAreTrue, RefusedOnlyIfStruck, UnstruckGoOn, Sound
  <1>5. ParentIsHome'
    BY SMTT(60), <1>0 DEF CloseSession, At, Struck, Idle, Threads, NoToken, AuthInv, AuthTypes, Procs,
         AuthFields, Free, Orphan, CallTypes, CallFields, Places, Ops, ParentIsHome, Ours
  <1>6. ChildStarts'
    BY <1>0 DEF CloseSession, At, Struck, Idle, Threads, NoToken, AuthInv, AuthTypes, Procs,
         AuthFields, Free, Orphan, CallTypes, CallFields, Places, Ops, ChildStarts
  <1>7. RenewersLock'
    BY SMTT(20), <1>0 DEF CloseSession, At, Struck, Idle, Threads, NoToken, AuthInv, AuthTypes, Procs,
         AuthFields, Free, Orphan, CallTypes, CallFields, Places, Ops, RenewersLock, ProcOf, Worn
  <1>8. RefusalsAreTrue'
    BY SMTT(60), <1>0 DEF CloseSession, At, Struck, Idle, Threads, NoToken, AuthInv, AuthTypes, Procs,
         AuthFields, Free, Orphan, CallTypes, CallFields, Places, Ops, RefusalsAreTrue
  <1>9. RefusedOnlyIfStruck'
    BY <1>0 DEF CloseSession, At, Struck, Idle, Threads, NoToken, AuthInv, AuthTypes, Procs,
         AuthFields, Free, Orphan, CallTypes, CallFields, Places, Ops, RefusedOnlyIfStruck
  <1>10. UnstruckGoOn'
    BY <1>e DEF UnstruckGoOn
  <1> QED
    BY <1>1, <1>2, <1>3, <1>4, <1>5, <1>6, <1>7, <1>8, <1>9, <1>10 DEF AuthInv

-----------------------------------------------------------------------------
(* OneOpenSession.  A second thread of a forked child would pass             *)
(* _ensure_process as soon as the first has set the pid, before the first    *)
(* has signed in (client/auth.py:228-235), so this part needs the hypothesis *)
(* that the child runs one thread.                                           *)

OneChild == \A t, u \in ChildThreads : t = u
OpenInv == OpenIsCurrent /\ ForkSignsInFirst

\* What no step that leaves these things alone can break.
LEMMA OpenStays ==
    ASSUME AuthInv, OpenInv, Count' = Count, UNCHANGED forked,
           \A q \in 1..Count : /\ sessions'[q].by = sessions[q].by /\ sessions'[q].own = sessions[q].own
                               /\ sessions[q].state = "closed" => sessions'[q].state = "closed",
           \A p \in Procs : /\ auth'[p].session = auth[p].session /\ auth'[p].closed = auth[p].closed
                            /\ auth'[p].known = auth[p].known,
           \A u \in ParentThreads : call[u].at = "closing" =>
                                       call'[u].at = "closing" /\ call'[u].seen = call[u].seen,
           \A u \in ChildThreads : call'[u].at = "fork" => call[u].at = "fork"
    PROVE  OpenInv'
  <1> DEFINE N == 1..Count
  <1>1. \A q \in N : /\ sessions'[q].by = sessions[q].by /\ sessions'[q].own = sessions[q].own
                     /\ sessions[q].state = "closed" => sessions'[q].state = "closed"
    OBVIOUS
  <1>2. \A q \in N : sessions[q].by \in Procs
    BY DEF AuthInv, SessionTypes, SessionFields
  <1>3. N' = N
    OBVIOUS
  <1>4. /\ \A s \in N : sessions[s].own /\ sessions[s].state # "closed" =>
              \/ /\ auth[sessions[s].by].session = s /\ ~auth[sessions[s].by].closed
                 /\ sessions[s].by = "child" => forked
              \/ \E t \in ParentThreads : call[t].at = "closing" /\ call[t].seen = s
        /\ ~auth["child"].known \/ (\E t \in ChildThreads : call[t].at = "fork") =>
              \A s \in N : sessions[s].own => sessions[s].by = "parent"
    BY DEF OpenInv, OpenIsCurrent, ForkSignsInFirst
  <1> HIDE DEF N
  <1>5. \A s \in N : sessions'[s].own /\ sessions'[s].state # "closed" =>
            \/ /\ auth'[sessions'[s].by].session = s /\ ~auth'[sessions'[s].by].closed
               /\ sessions'[s].by = "child" => forked'
            \/ \E t \in ParentThreads : call'[t].at = "closing" /\ call'[t].seen = s
    <2>1. SUFFICES ASSUME NEW s \in N, sessions'[s].own, sessions'[s].state # "closed"
                   PROVE  \/ /\ auth'[sessions'[s].by].session = s /\ ~auth'[sessions'[s].by].closed
                             /\ sessions'[s].by = "child" => forked'
                          \/ \E t \in ParentThreads : call'[t].at = "closing" /\ call'[t].seen = s
      OBVIOUS
    <2>2. sessions[s].own /\ sessions[s].state # "closed" /\ sessions'[s].by = sessions[s].by
      BY <1>1, <2>1
    <2> QED
      BY <1>2, <1>4, <2>2
  <1>6. ~auth'["child"].known \/ (\E t \in ChildThreads : call'[t].at = "fork") =>
            \A s \in N : sessions'[s].own => sessions'[s].by = "parent"
    <2>1. ~auth'["child"].known => ~auth["child"].known
      BY DEF Procs
    <2> QED
      BY <1>1, <1>4, <2>1
  <1> USE DEF N
  <1>7. OpenIsCurrent'
    BY <1>3, <1>5 DEF OpenIsCurrent
  <1>8. ForkSignsInFirst'
    BY <1>3, <1>6 DEF ForkSignsInFirst
  <1> QED
    BY <1>7, <1>8 DEF OpenInv

LEMMA BeginOpen ==
    ASSUME AuthInv, OpenInv, NEW t \in Threads, NEW op \in Ops, Begin(t, op)
    PROVE  OpenInv'
  <1>1. Count' = Count /\ UNCHANGED <<sessions, forked>>
    BY SessionsStay DEF Begin
  <1>2. \A q \in Procs : /\ auth'[q].session = auth[q].session /\ auth'[q].closed = auth[q].closed
                         /\ auth'[q].known = auth[q].known
    BY DEF Begin, Idle, ProcOf, Procs, AuthInv, AuthTypes, AuthFields
  <1>3. \A u \in ParentThreads : call[u].at = "closing" =>
                                    call'[u].at = "closing" /\ call'[u].seen = call[u].seen
    BY DEF Begin, Idle, At, Threads, AuthInv, CallTypes, CallFields
  <1>4. \A u \in ChildThreads : call'[u].at = "fork" => call[u].at = "fork"
    BY DEF Begin, Idle, At, Threads, AuthInv, CallTypes, CallFields
  <1> QED
    BY <1>1, <1>2, <1>3, <1>4, OpenStays

LEMMA EnsureKnownOpen ==
    ASSUME AuthInv, OpenInv, NEW t \in Threads, EnsureKnown(t)
    PROVE  OpenInv'
  <1>1. Count' = Count /\ UNCHANGED <<sessions, forked>>
    BY SessionsStay DEF EnsureKnown
  <1>2. \A q \in Procs : /\ auth'[q].session = auth[q].session /\ auth'[q].closed = auth[q].closed
                         /\ auth'[q].known = auth[q].known
    BY DEF EnsureKnown, FirstPlace, ProcOf, Procs, AuthInv, AuthTypes, AuthFields
  <1>3. \A u \in ParentThreads : call[u].at = "closing" =>
                                    call'[u].at = "closing" /\ call'[u].seen = call[u].seen
    BY DEF EnsureKnown, FirstPlace, At, Threads, AuthInv, CallTypes, CallFields
  <1>4. \A u \in ChildThreads : call'[u].at = "fork" => call[u].at = "fork"
    BY DEF EnsureKnown, FirstPlace, At, Threads, AuthInv, CallTypes, CallFields
  <1> QED
    BY <1>1, <1>2, <1>3, <1>4, OpenStays

LEMMA AnsweredOpen ==
    ASSUME AuthInv, OpenInv, NEW t \in Threads, Answered(t)
    PROVE  OpenInv'
  <1>1. Count' = Count /\ UNCHANGED <<sessions, forked>>
    BY SessionsStay DEF Answered
  <1>2. \A q \in Procs : /\ auth'[q].session = auth[q].session /\ auth'[q].closed = auth[q].closed
                         /\ auth'[q].known = auth[q].known
    BY DEF Answered, Back, Idle, ProcOf, Procs, AuthInv, AuthTypes, AuthFields
  <1>3. \A u \in ParentThreads : call[u].at = "closing" =>
                                    call'[u].at = "closing" /\ call'[u].seen = call[u].seen
    BY DEF Answered, Back, Idle, At, Threads, AuthInv, CallTypes, CallFields
  <1>4. \A u \in ChildThreads : call'[u].at = "fork" => call[u].at = "fork"
    BY DEF Answered, Back, Idle, At, Threads, AuthInv, CallTypes, CallFields
  <1> QED
    BY <1>1, <1>2, <1>3, <1>4, OpenStays

LEMMA RefusedOpen ==
    ASSUME AuthInv, OpenInv, NEW t \in Threads, Refused(t)
    PROVE  OpenInv'
  <1>1. Count' = Count /\ UNCHANGED <<sessions, forked>>
    BY SessionsStay DEF Refused
  <1>2. \A q \in Procs : /\ auth'[q].session = auth[q].session /\ auth'[q].closed = auth[q].closed
                         /\ auth'[q].known = auth[q].known
    BY DEF Refused, ProcOf, Procs, AuthInv, AuthTypes, AuthFields
  <1>3. \A u \in ParentThreads : call[u].at = "closing" =>
                                    call'[u].at = "closing" /\ call'[u].seen = call[u].seen
    BY DEF Refused, At, Threads, AuthInv, CallTypes, CallFields
  <1>4. \A u \in ChildThreads : call'[u].at = "fork" => call[u].at = "fork"
    BY DEF Refused, At, Threads, AuthInv, CallTypes, CallFields
  <1> QED
    BY <1>1, <1>2, <1>3, <1>4, OpenStays

LEMMA PostFailsOpen ==
    ASSUME AuthInv, OpenInv, NEW t \in Threads, PostFails(t)
    PROVE  OpenInv'
  <1>1. Count' = Count /\ UNCHANGED <<sessions, forked>>
    BY SessionsStay DEF PostFails
  <1>2. \A q \in Procs : /\ auth'[q].session = auth[q].session /\ auth'[q].closed = auth[q].closed
                         /\ auth'[q].known = auth[q].known
    BY DEF PostFails, Go, ProcOf, Procs, AuthInv, AuthTypes, AuthFields
  <1>3. \A u \in ParentThreads : call[u].at = "closing" =>
                                    call'[u].at = "closing" /\ call'[u].seen = call[u].seen
    BY DEF PostFails, Go, At, Threads, AuthInv, CallTypes, CallFields
  <1>4. \A u \in ChildThreads : call'[u].at = "fork" => call[u].at = "fork"
    BY DEF PostFails, Go, At, Threads, AuthInv, CallTypes, CallFields
  <1> QED
    BY <1>1, <1>2, <1>3, <1>4, OpenStays

LEMMA RaiseOpen ==
    ASSUME AuthInv, OpenInv, NEW t \in Threads, Raise(t)
    PROVE  OpenInv'
  <1>1. Count' = Count /\ UNCHANGED <<sessions, forked>>
    BY SessionsStay DEF Raise
  <1>2. \A q \in Procs : /\ auth'[q].session = auth[q].session /\ auth'[q].closed = auth[q].closed
                         /\ auth'[q].known = auth[q].known
    BY DEF Raise, Back, Idle, ProcOf, Procs, AuthInv, AuthTypes, AuthFields
  <1>3. \A u \in ParentThreads : call[u].at = "closing" =>
                                    call'[u].at = "closing" /\ call'[u].seen = call[u].seen
    BY DEF Raise, Back, Idle, At, Threads, AuthInv, CallTypes, CallFields
  <1>4. \A u \in ChildThreads : call'[u].at = "fork" => call[u].at = "fork"
    BY DEF Raise, Back, Idle, At, Threads, AuthInv, CallTypes, CallFields
  <1> QED
    BY <1>1, <1>2, <1>3, <1>4, OpenStays

LEMMA SignInFailsOpen ==
    ASSUME AuthInv, OpenInv, NEW t \in Threads, SignInFails(t)
    PROVE  OpenInv'
  <1>1. Count' = Count /\ UNCHANGED <<sessions, forked>>
    BY SessionsStay DEF SignInFails
  <1>2. \A q \in Procs : /\ auth'[q].session = auth[q].session /\ auth'[q].closed = auth[q].closed
                         /\ auth'[q].known = auth[q].known
    BY DEF SignInFails, Back, Idle, ProcOf, Procs, AuthInv, AuthTypes, AuthFields
  <1>3. \A u \in ParentThreads : call[u].at = "closing" =>
                                    call'[u].at = "closing" /\ call'[u].seen = call[u].seen
    BY DEF SignInFails, Back, Idle, At, Threads, AuthInv, CallTypes, CallFields
  <1>4. \A u \in ChildThreads : call'[u].at = "fork" => call[u].at = "fork"
    BY DEF SignInFails, Back, Idle, At, Threads, AuthInv, CallTypes, CallFields
  <1> QED
    BY <1>1, <1>2, <1>3, <1>4, OpenStays

LEMMA GetTokenOpen ==
    ASSUME AuthInv, OpenInv, NEW t \in Threads, GetToken(t)
    PROVE  OpenInv'
  <1>1. Count' = Count /\ UNCHANGED <<sessions, forked>>
    BY SessionsStay DEF GetToken
  <1>2. \A q \in Procs : /\ auth'[q].session = auth[q].session /\ auth'[q].closed = auth[q].closed
                         /\ auth'[q].known = auth[q].known
    BY DEF GetToken, Back, Idle, RefreshLocked, ProcOf, Procs, AuthInv, AuthTypes, AuthFields
  <1>3. \A u \in ParentThreads : call[u].at = "closing" =>
                                    call'[u].at = "closing" /\ call'[u].seen = call[u].seen
    BY DEF GetToken, Back, Idle, RefreshLocked, At, Threads, AuthInv, CallTypes, CallFields
  <1>4. \A u \in ChildThreads : call'[u].at = "fork" => call[u].at = "fork"
    BY DEF GetToken, Back, Idle, RefreshLocked, At, Threads, AuthInv, CallTypes, CallFields
  <1> QED
    BY <1>1, <1>2, <1>3, <1>4, OpenStays

LEMMA RefreshOpen ==
    ASSUME AuthInv, OpenInv, NEW t \in Threads, Refresh(t)
    PROVE  OpenInv'
  <1>1. Count' = Count /\ UNCHANGED <<sessions, forked>>
    BY SessionsStay DEF Refresh
  <1>2. \A q \in Procs : /\ auth'[q].session = auth[q].session /\ auth'[q].closed = auth[q].closed
                         /\ auth'[q].known = auth[q].known
    BY DEF Refresh, Back, Idle, RefreshLocked, ProcOf, Procs, AuthInv, AuthTypes, AuthFields
  <1>3. \A u \in ParentThreads : call[u].at = "closing" =>
                                    call'[u].at = "closing" /\ call'[u].seen = call[u].seen
    BY DEF Refresh, Back, Idle, RefreshLocked, At, Threads, AuthInv, CallTypes, CallFields
  <1>4. \A u \in ChildThreads : call'[u].at = "fork" => call[u].at = "fork"
    BY DEF Refresh, Back, Idle, RefreshLocked, At, Threads, AuthInv, CallTypes, CallFields
  <1> QED
    BY <1>1, <1>2, <1>3, <1>4, OpenStays

LEMMA InvalidateOpen ==
    ASSUME AuthInv, OpenInv, NEW p \in Procs, Invalidate(p)
    PROVE  OpenInv'
  <1>1. Count' = Count /\ UNCHANGED <<sessions, forked>>
    BY SessionsStay DEF Invalidate
  <1>2. \A q \in Procs : /\ auth'[q].session = auth[q].session /\ auth'[q].closed = auth[q].closed
                         /\ auth'[q].known = auth[q].known
    BY DEF Invalidate, Struck, ProcOf, Procs, AuthInv, AuthTypes, AuthFields
  <1>3. \A u \in ParentThreads : call[u].at = "closing" =>
                                    call'[u].at = "closing" /\ call'[u].seen = call[u].seen
    BY DEF Invalidate, Struck, At, Threads, AuthInv, CallTypes, CallFields
  <1>4. \A u \in ChildThreads : call'[u].at = "fork" => call[u].at = "fork"
    BY DEF Invalidate, Struck, At, Threads, AuthInv, CallTypes, CallFields
  <1> QED
    BY <1>1, <1>2, <1>3, <1>4, OpenStays

LEMMA ExpireOpen ==
    ASSUME AuthInv, OpenInv, NEW s \in DOMAIN sessions, Expire(s)
    PROVE  OpenInv'
  <1>1. s \in 1..Count
    BY DEF AuthInv, SessionTypes
  <1>2. /\ Count' = Count /\ UNCHANGED <<auth, forked>> /\ sessions[s].state = "live"
        /\ \A q \in 1..Count : /\ sessions'[q].by = sessions[q].by /\ sessions'[q].own = sessions[q].own
                               /\ q # s => sessions'[q] = sessions[q]
    BY <1>1, SessionEnds DEF Expire
  <1>3. \A t \in Threads : call'[t].at = call[t].at /\ call'[t].seen = call[t].seen
    BY CallsAreStruck DEF Expire
  <1> QED
    BY <1>2, <1>3, OpenStays DEF Threads

LEMMA CloseSessionOpen ==
    ASSUME AuthInv, OpenInv, NEW t \in Threads, CloseSession(t)
    PROVE  OpenInv'
  <1>1. call[t].seen \in 1..Count /\ call[t].at = "closing"
    BY DEF CloseSession, At, AuthInv, WereOpened, NoToken
  <1>2. /\ Count' = Count /\ UNCHANGED <<auth, forked>>
        /\ sessions'[call[t].seen].state = "closed"
        /\ \A q \in 1..Count : /\ sessions'[q].by = sessions[q].by /\ sessions'[q].own = sessions[q].own
                               /\ q # call[t].seen => sessions'[q] = sessions[q]
    BY <1>1, SessionEnds DEF CloseSession
  <1>3. \A u \in Threads : u # t => call'[u].at = call[u].at /\ call'[u].seen = call[u].seen
    BY DEF CloseSession, Struck, AuthInv, CallTypes, CallFields
  <1>4. call'[t].at = "idle"
    BY DEF CloseSession, Struck, Idle
  <1> DEFINE N == 1..Count
             closed == call[t].seen
  <1>5. /\ \A s \in N : sessions[s].own /\ sessions[s].state # "closed" =>
              \/ /\ auth[sessions[s].by].session = s /\ ~auth[sessions[s].by].closed
                 /\ sessions[s].by = "child" => forked
              \/ \E u \in ParentThreads : call[u].at = "closing" /\ call[u].seen = s
        /\ ~auth["child"].known \/ (\E u \in ChildThreads : call[u].at = "fork") =>
              \A s \in N : sessions[s].own => sessions[s].by = "parent"
    BY DEF OpenInv, OpenIsCurrent, ForkSignsInFirst
  <1>6. /\ sessions'[closed].state = "closed"
        /\ \A q \in N : /\ sessions'[q].by = sessions[q].by /\ sessions'[q].own = sessions[q].own
                        /\ q # closed => sessions'[q] = sessions[q]
    BY <1>2
  <1>7. \A s \in N : sessions'[s].own /\ sessions'[s].state # "closed" =>
            \/ /\ auth'[sessions'[s].by].session = s /\ ~auth'[sessions'[s].by].closed
               /\ sessions'[s].by = "child" => forked'
            \/ \E u \in ParentThreads : call'[u].at = "closing" /\ call'[u].seen = s
    <2>1. SUFFICES ASSUME NEW s \in N, sessions'[s].own, sessions'[s].state # "closed"
                   PROVE  \/ /\ auth[sessions[s].by].session = s /\ ~auth[sessions[s].by].closed
                             /\ sessions[s].by = "child" => forked
                          \/ \E u \in ParentThreads : call'[u].at = "closing" /\ call'[u].seen = s
      BY <1>2, <1>6
    <2>2. s # closed /\ sessions'[s] = sessions[s]
      BY <1>6, <2>1
    <2>3. CASE \E u \in ParentThreads : call[u].at = "closing" /\ call[u].seen = s
      BY <1>3, <2>2, <2>3 DEF Threads
    <2> HIDE DEF N, closed
    <2> QED
      BY <1>5, <2>1, <2>2, <2>3
  <1>8. \A u \in ChildThreads : call'[u].at = "fork" => call[u].at = "fork"
    BY <1>3, <1>4 DEF Threads
  <1>9. ~auth'["child"].known \/ (\E u \in ChildThreads : call'[u].at = "fork") =>
            \A s \in N : sessions'[s].own => sessions'[s].by = "parent"
    <2> HIDE DEF N
    <2> QED
      BY <1>2, <1>5, <1>6, <1>8
  <1>10. N' = N
    BY <1>2
  <1> QED
    BY <1>7, <1>9, <1>10 DEF OpenInv, OpenIsCurrent, ForkSignsInFirst

LEMMA CloseOpen ==
    ASSUME AuthInv, OpenInv, NEW t \in Threads, Close(t)
    PROVE  OpenInv'
  <1>1. Count' = Count /\ UNCHANGED <<sessions, forked>> /\ t \in ParentThreads
    BY SessionsStay DEF Close
  <1>2. auth'["child"] = auth["child"]
    BY <1>1 DEF Close, ProcOf, Procs, AuthInv, AuthTypes
  <1>3. call'[t].at = "closing" /\ call'[t].seen = auth["parent"].session
    BY <1>1 DEF Close, Mine, ProcOf, AuthInv, CallTypes, CallFields
  <1>4. \A u \in Threads : u # t => call'[u] = call[u]
    BY DEF Close, AuthInv, CallTypes
  <1>5. call[t].at = "idle" /\ \A u \in ChildThreads : call'[u].at = "fork" => call[u].at = "fork"
    BY <1>3, <1>4 DEF Close, At, Threads
  <1> DEFINE N == 1..Count
  <1>6. /\ \A s \in N : sessions[s].own /\ sessions[s].state # "closed" =>
              \/ /\ auth[sessions[s].by].session = s /\ ~auth[sessions[s].by].closed
                 /\ sessions[s].by = "child" => forked
              \/ \E u \in ParentThreads : call[u].at = "closing" /\ call[u].seen = s
        /\ ~auth["child"].known \/ (\E u \in ChildThreads : call[u].at = "fork") =>
              \A s \in N : sessions[s].own => sessions[s].by = "parent"
    BY DEF OpenInv, OpenIsCurrent, ForkSignsInFirst
  <1>7. \A s \in N : sessions[s].by \in {"parent", "child"}
    BY DEF AuthInv, SessionTypes, SessionFields, Procs
  <1>8. N' = N
    BY <1>1
  <1> HIDE DEF N
  <1>9. \A s \in N : sessions[s].own /\ sessions[s].state # "closed" =>
              \/ /\ auth'[sessions[s].by].session = s /\ ~auth'[sessions[s].by].closed
                 /\ sessions[s].by = "child" => forked
              \/ \E u \in ParentThreads : call'[u].at = "closing" /\ call'[u].seen = s
    <2>1. SUFFICES ASSUME NEW s \in N, sessions[s].own, sessions[s].state # "closed"
                   PROVE  \/ /\ auth'[sessions[s].by].session = s /\ ~auth'[sessions[s].by].closed
                             /\ sessions[s].by = "child" => forked
                          \/ \E u \in ParentThreads : call'[u].at = "closing" /\ call'[u].seen = s
      OBVIOUS
    <2>2. CASE \E u \in ParentThreads : call[u].at = "closing" /\ call[u].seen = s
      BY <1>4, <1>5, <2>2 DEF Threads
    <2>3. CASE sessions[s].by = "parent" /\ auth["parent"].session = s
      BY <1>1, <1>3, <2>3
    <2>4. CASE sessions[s].by = "child" /\ auth["child"].session = s /\ ~auth["child"].closed /\ forked
      BY <1>2, <2>4
    <2> QED
      BY <1>6, <1>7, <2>1, <2>2, <2>3, <2>4
  <1> USE DEF N
  <1>10. OpenIsCurrent'
    BY <1>1, <1>8, <1>9 DEF OpenIsCurrent
  <1>11. ForkSignsInFirst'
    BY <1>1, <1>2, <1>5, <1>6, <1>8 DEF ForkSignsInFirst
  <1> QED
    BY <1>10, <1>11 DEF OpenInv

\* Before the child has signed in it has no session that could be left behind.
LEMMA ChildIsNew ==
    ASSUME AuthInv, OpenInv, ~auth["child"].known, Count' = Count, UNCHANGED sessions,
           auth'["parent"] = auth["parent"],
           forked => forked',
           \A u \in ParentThreads : call[u].at = "closing" =>
                                       call'[u].at = "closing" /\ call'[u].seen = call[u].seen
    PROVE  OpenInv'
  <1> DEFINE N == 1..Count
  <1>1. \A s \in N : sessions[s].own => sessions[s].by = "parent"
    BY DEF OpenInv, ForkSignsInFirst
  <1>2. \A s \in N : sessions[s].own /\ sessions[s].state # "closed" =>
            \/ auth[sessions[s].by].session = s /\ ~auth[sessions[s].by].closed
            \/ \E t \in ParentThreads : call[t].at = "closing" /\ call[t].seen = s
    BY DEF OpenInv, OpenIsCurrent
  <1>3. N' = N
    OBVIOUS
  <1> HIDE DEF N
  <1>4. \A s \in N : sessions[s].own /\ sessions[s].state # "closed" =>
            \/ /\ auth'[sessions[s].by].session = s /\ ~auth'[sessions[s].by].closed
               /\ sessions[s].by # "child"
            \/ \E t \in ParentThreads : call'[t].at = "closing" /\ call'[t].seen = s
    BY <1>1, <1>2
  <1> USE DEF N
  <1>5. OpenIsCurrent'
    BY <1>3, <1>4 DEF OpenIsCurrent
  <1>6. ForkSignsInFirst'
    BY <1>1, <1>3 DEF ForkSignsInFirst
  <1> QED
    BY <1>5, <1>6 DEF OpenInv

LEMMA EnsureForkedOpen ==
    ASSUME AuthInv, OpenInv, NEW t \in Threads, EnsureForked(t)
    PROVE  OpenInv'
  <1>1. Count' = Count /\ UNCHANGED <<sessions, forked>>
    BY SessionsStay DEF EnsureForked
  <1>2. ProcOf(t) = "child" /\ ~auth["child"].known
    BY DEF EnsureForked, Mine, ProcOf, AuthInv, ParentIsHome
  <1>3. auth'["parent"] = auth["parent"]
    BY <1>2 DEF EnsureForked, Procs, AuthInv, AuthTypes
  <1>4. \A u \in ParentThreads : call[u].at = "closing" => call'[u] = call[u]
    BY DEF EnsureForked, Go, At, Threads, AuthInv, CallTypes
  <1> QED
    BY <1>1, <1>2, <1>3, <1>4, ChildIsNew

LEMMA ForkOpen ==
    ASSUME AuthInv, OpenInv, NEW t \in Threads, Fork(t)
    PROVE  OpenInv'
  <1>1. Count' = Count /\ UNCHANGED <<sessions, call>> /\ forked'
    BY SessionsStay DEF Fork
  <1>2. ~auth["child"].known
    BY DEF Fork, AuthInv, ChildStarts
  <1>3. auth'["parent"] = auth["parent"]
    BY DEF Fork, Procs, AuthInv, AuthTypes
  <1> QED
    BY <1>1, <1>2, <1>3, ChildIsNew

\* A thread signs in: the session its process had of its own, if any, is closed.
LEMMA SignsIn ==
    ASSUME AuthInv, OpenInv, NEW p \in Procs, UNCHANGED forked, Count \in Nat, Count' = Count + 1,
           sessions'[Count + 1] = [by |-> p, own |-> TRUE, state |-> "live"],
           \A q \in 1..Count : /\ sessions'[q].by = sessions[q].by /\ sessions'[q].own = sessions[q].own
                               /\ sessions[q].state = "closed" => sessions'[q].state = "closed",
           \A q \in 1..Count : sessions[q].by = p /\ sessions[q].own /\ auth[p].session = q =>
                                   sessions'[q].state = "closed",
           \A q \in Procs : q # p => auth'[q] = auth[q],
           auth'[p].session = Count + 1, ~auth'[p].closed, p = "child" => forked,
           \A u \in ParentThreads : call[u].at = "closing" =>
                                       call'[u].at = "closing" /\ call'[u].seen = call[u].seen,
           p = "child" => auth'["child"].known /\ \A u \in ChildThreads : call'[u].at # "fork",
           p # "child" => \A u \in ChildThreads : call'[u].at = "fork" => call[u].at = "fork"
    PROVE  OpenInv'
  <1> DEFINE N == 1..Count
  <1>1. \A s \in 1..(Count + 1) : s = Count + 1 \/ s \in N
    OBVIOUS
  <1>2. /\ \A s \in N : sessions[s].own /\ sessions[s].state # "closed" =>
              \/ /\ auth[sessions[s].by].session = s /\ ~auth[sessions[s].by].closed
                 /\ sessions[s].by = "child" => forked
              \/ \E t \in ParentThreads : call[t].at = "closing" /\ call[t].seen = s
        /\ ~auth["child"].known \/ (\E t \in ChildThreads : call[t].at = "fork") =>
              \A s \in N : sessions[s].own => sessions[s].by = "parent"
    BY DEF OpenInv, OpenIsCurrent, ForkSignsInFirst
  <1>3. /\ \A q \in N : /\ sessions'[q].by = sessions[q].by /\ sessions'[q].own = sessions[q].own
                        /\ sessions[q].state = "closed" => sessions'[q].state = "closed"
        /\ \A q \in N : sessions[q].by = p /\ sessions[q].own /\ auth[p].session = q =>
                            sessions'[q].state = "closed"
    OBVIOUS
  <1>4. \A q \in N : sessions[q].by \in Procs
    BY DEF AuthInv, SessionTypes, SessionFields
  <1>5. p = "child" => auth'["child"].known
    OBVIOUS
  <1>6. sessions'[Count + 1].by = p /\ auth'[p].session = Count + 1 /\ (p = "child" => forked')
    OBVIOUS
  <1> HIDE DEF N
  <1>7. \A s \in N : sessions'[s].own /\ sessions'[s].state # "closed" =>
            \/ /\ auth'[sessions'[s].by].session = s /\ ~auth'[sessions'[s].by].closed
               /\ sessions'[s].by = "child" => forked'
            \/ \E t \in ParentThreads : call'[t].at = "closing" /\ call'[t].seen = s
    <2>1. SUFFICES ASSUME NEW s \in N, sessions'[s].own, sessions'[s].state # "closed"
                   PROVE  \/ /\ auth'[sessions[s].by].session = s /\ ~auth'[sessions[s].by].closed
                             /\ sessions[s].by = "child" => forked
                          \/ \E t \in ParentThreads : call'[t].at = "closing" /\ call'[t].seen = s
      BY <1>3
    <2>2. /\ sessions[s].own /\ sessions[s].state # "closed" /\ sessions[s].by \in Procs
          /\ sessions[s].by = p => auth[p].session # s
      BY <1>3, <1>4, <2>1
    <2>3. CASE \E t \in ParentThreads : call[t].at = "closing" /\ call[t].seen = s
      BY <2>3
    <2>4. CASE sessions[s].by # p /\ auth[sessions[s].by].session = s /\ ~auth[sessions[s].by].closed
               /\ (sessions[s].by = "child" => forked)
      BY <2>2, <2>4
    <2> QED
      BY <1>2, <2>1, <2>2, <2>3, <2>4
  <1>8. OpenIsCurrent'
    <2>1. SUFFICES ASSUME NEW s \in 1..(Count + 1), sessions'[s].own, sessions'[s].state # "closed"
                   PROVE  \/ /\ auth'[sessions'[s].by].session = s /\ ~auth'[sessions'[s].by].closed
                             /\ sessions'[s].by = "child" => forked'
                          \/ \E t \in ParentThreads : call'[t].at = "closing" /\ call'[t].seen = s
      BY DEF OpenIsCurrent
    <2>2. CASE s \in N
      BY <1>7, <2>1, <2>2
    <2>3. CASE s = Count + 1
      BY <1>6, <2>3
    <2> QED
      BY <1>1, <2>2, <2>3
  <1>9. ForkSignsInFirst'
    <2>1. CASE p = "child"
      BY <1>5, <2>1 DEF ForkSignsInFirst
    <2>2. CASE p # "child"
      <3>1. p = "parent" /\ auth'["child"] = auth["child"]
        BY <2>2 DEF Procs
      <3>2. ~auth'["child"].known \/ (\E t \in ChildThreads : call'[t].at = "fork") =>
                \A s \in N : sessions[s].own => sessions[s].by = "parent"
        BY <1>2, <2>2, <3>1
      <3>3. ~auth'["child"].known \/ (\E t \in ChildThreads : call'[t].at = "fork") =>
                \A s \in 1..(Count + 1) : sessions'[s].own => sessions'[s].by = "parent"
        BY <1>1, <1>3, <1>6, <3>1, <3>2
      <3> QED
        BY <3>3 DEF ForkSignsInFirst
    <2> QED
      BY <2>1, <2>2
  <1> QED
    BY <1>8, <1>9 DEF OpenInv

LEMMA ForkSignsInOpen ==
    ASSUME AuthInv, OpenInv, OneChild, NEW t \in Threads, ForkSignsIn(t)
    PROVE  OpenInv'
  <1>1. ProcOf(t) = "child" /\ t \in ChildThreads /\ call[t].at = "fork" /\ UNCHANGED forked
    BY DEF ForkSignsIn, At, ProcOf, Threads, AuthInv, ParentIsHome
  <1>2. ProcOf(t) \in Procs /\ TRUE \in BOOLEAN
    BY DEF ProcOf, Procs
  <1>3. /\ NextSession = Count + 1 /\ Count' = Count + 1 /\ Count \in Nat
        /\ sessions'[Count + 1] = [by |-> ProcOf(t), own |-> TRUE, state |-> "live"]
        /\ \A q \in 1..Count : /\ sessions'[q].by = sessions[q].by /\ sessions'[q].own = sessions[q].own
                               /\ sessions'[q].state = sessions[q].state
    BY <1>2, SessionJoins DEF ForkSignsIn
  <1>4. \A q \in 1..Count : ~(sessions[q].own /\ sessions[q].by = "child")
    BY <1>1 DEF OpenInv, ForkSignsInFirst
  <1>5. forked /\ auth["child"].known /\ ~auth["child"].closed
    BY <1>1 DEF AuthInv, ChildStarts
  <1>6. auth' = [auth EXCEPT !["child"].session = Count + 1]
    BY <1>1, <1>3 DEF ForkSignsIn
  <1>7. /\ auth'["child"].session = Count + 1 /\ auth'["child"].known /\ ~auth'["child"].closed
        /\ \A q \in Procs : q # "child" => auth'[q] = auth[q]
    BY <1>5, <1>6 DEF Procs, AuthInv, AuthTypes, AuthFields
  <1>8. \A u \in Threads : u # t => call'[u] = call[u]
    BY DEF ForkSignsIn, AuthInv, CallTypes
  <1>9. call'[t].at # "fork"
    BY DEF ForkSignsIn, FirstPlace, AuthInv, CallTypes, CallFields
  <1>10. \A u \in ChildThreads : u = t
    BY <1>1 DEF OneChild
  <1>11. \A u \in ParentThreads : call[u].at = "closing" => call'[u] = call[u]
    BY <1>1, <1>8 DEF Threads
  <1> QED
    BY <1>1, <1>2, <1>3, <1>4, <1>5, <1>7, <1>9, <1>10, <1>11, SignsIn

LEMMA RenewOpen ==
    ASSUME AuthInv, OpenInv, OneChild, NEW t \in Threads, Renew(t)
    PROVE  OpenInv'
  <1>1. call[t].at = "renew" /\ UNCHANGED forked /\ ~Mine(t).closed
    BY DEF Renew, At, Mine, AuthInv, RenewersLock
  <1>2. ProcOf(t) \in Procs /\ TRUE \in BOOLEAN /\ (ProcOf(t) = "child" <=> t \notin ParentThreads)
    BY DEF ProcOf, Procs
  <1>3. /\ NextSession = Count + 1 /\ Count' = Count + 1 /\ Count \in Nat
        /\ sessions'[Count + 1] = [by |-> ProcOf(t), own |-> TRUE, state |-> "live"]
        /\ \A q \in 1..Count : /\ sessions'[q].by = sessions[q].by /\ sessions'[q].own = sessions[q].own
                               /\ sessions'[q].state = IF q \in {Mine(t).session} THEN "closed" ELSE sessions[q].state
    BY ZenonT(30), <1>2, SessionOpens DEF Renew
  <1>4. ProcOf(t) = "child" => forked /\ auth["child"].known /\ t \in ChildThreads
    BY <1>1, <1>2 DEF AuthInv, ChildStarts, Threads
  <1>5. /\ auth'[ProcOf(t)].session = Count + 1 /\ auth'[ProcOf(t)].known = auth[ProcOf(t)].known
        /\ auth'[ProcOf(t)].closed = auth[ProcOf(t)].closed
        /\ \A q \in Procs : q # ProcOf(t) => auth'[q] = auth[q]
    BY <1>2, <1>3 DEF Renew, AuthInv, AuthTypes, AuthFields
  <1>6. \A u \in Threads : u # t => call'[u] = call[u]
    BY DEF Renew, AuthInv, CallTypes
  <1>7. call'[t].at # "fork" /\ call'[t].at # "closing"
    BY DEF Renew, AuthInv, CallTypes, CallFields
  <1>8. ProcOf(t) = "child" => \A u \in ChildThreads : u = t
    BY <1>4 DEF OneChild
  <1>9. \A u \in ParentThreads : call[u].at = "closing" => call'[u] = call[u]
    BY <1>1, <1>6 DEF Threads
  <1>10. \A u \in ChildThreads : call'[u].at = "fork" => call[u].at = "fork"
    BY <1>6, <1>7 DEF Threads
  <1>11. \A q \in 1..Count : auth[ProcOf(t)].session = q => sessions'[q].state = "closed"
    BY <1>3 DEF Mine
  <1>12. \A q \in 1..Count : sessions[q].state = "closed" => sessions'[q].state = "closed"
    BY <1>3
  <1>13. ~auth'[ProcOf(t)].closed /\ (ProcOf(t) = "child" => auth'["child"].known)
    BY <1>1, <1>4, <1>5 DEF Mine
  <1>14. ProcOf(t) = "child" => \A u \in ChildThreads : call'[u].at # "fork"
    BY <1>7, <1>8
  <1> QED
    BY <1>1, <1>2, <1>3, <1>4, <1>5, <1>9, <1>10, <1>11, <1>12, <1>13, <1>14, SignsIn

LEMMA OpenArtifactOpen ==
    ASSUME AuthInv, OpenInv, NEW t \in Threads, OpenArtifact(t)
    PROVE  OpenInv'
  <1>1. UNCHANGED <<auth, forked>> /\ call[t].at = "open" /\ call' = [call EXCEPT ![t] = Idle]
    BY DEF OpenArtifact, Back, At
  <1>2. call'[t].at = "idle" /\ \A u \in Threads : u # t => call'[u] = call[u]
    BY <1>1, CallReturns
  <1>3. /\ \A u \in ParentThreads : call[u].at = "closing" => call'[u] = call[u]
        /\ \A u \in ChildThreads : call'[u].at = "fork" => call[u].at = "fork"
    BY <1>1, <1>2 DEF Threads
  <1>4. CASE Mine(t).closed
    <2>1. Count' = Count /\ UNCHANGED sessions
      BY <1>4, SessionsStay DEF OpenArtifact
    <2> QED
      BY <1>1, <1>3, <2>1, OpenStays
  <1>5. CASE ~Mine(t).closed
    <2>1. ProcOf(t) \in Procs /\ FALSE \in BOOLEAN /\ CanSignIn /\ sessions' = Opened(ProcOf(t), FALSE, {})
      BY <1>5 DEF ProcOf, Procs, OpenArtifact
    <2>2. /\ Count' = Count + 1 /\ Count \in Nat
          /\ sessions'[Count + 1] = [by |-> ProcOf(t), own |-> FALSE, state |-> "live"]
          /\ \A q \in 1..Count : /\ sessions'[q].by = sessions[q].by /\ sessions'[q].own = sessions[q].own
                                 /\ sessions'[q].state = sessions[q].state
      BY <2>1, SessionJoins
    <2> DEFINE N == 1..Count
    <2>3. \A s \in 1..(Count + 1) : s = Count + 1 \/ s \in N
      BY <2>2
    <2>4. \A q \in N : /\ sessions'[q].by = sessions[q].by /\ sessions'[q].own = sessions[q].own
                       /\ sessions'[q].state = sessions[q].state
      BY <2>2
    <2>5. /\ \A s \in N : sessions[s].own /\ sessions[s].state # "closed" =>
                \/ /\ auth[sessions[s].by].session = s /\ ~auth[sessions[s].by].closed
                   /\ sessions[s].by = "child" => forked
                \/ \E u \in ParentThreads : call[u].at = "closing" /\ call[u].seen = s
          /\ ~auth["child"].known \/ (\E u \in ChildThreads : call[u].at = "fork") =>
                \A s \in N : sessions[s].own => sessions[s].by = "parent"
      BY DEF OpenInv, OpenIsCurrent, ForkSignsInFirst
    <2> HIDE DEF N
    <2>6. \A s \in 1..(Count + 1) : sessions'[s].own => s \in N
      BY <2>2, <2>3
    <2>7. \A s \in N : sessions'[s].own /\ sessions'[s].state # "closed" =>
              \/ /\ auth'[sessions'[s].by].session = s /\ ~auth'[sessions'[s].by].closed
                 /\ sessions'[s].by = "child" => forked'
              \/ \E u \in ParentThreads : call'[u].at = "closing" /\ call'[u].seen = s
      BY <1>1, <1>3, <2>4, <2>5
    <2>8. ~auth'["child"].known \/ (\E u \in ChildThreads : call'[u].at = "fork") =>
              \A s \in N : sessions'[s].own => sessions'[s].by = "parent"
      BY <1>1, <1>3, <2>4, <2>5
    <2>9. OpenIsCurrent'
      <3>1. \A s \in 1..(Count + 1) : sessions'[s].own /\ sessions'[s].state # "closed" =>
              \/ /\ auth'[sessions'[s].by].session = s /\ ~auth'[sessions'[s].by].closed
                 /\ sessions'[s].by = "child" => forked'
              \/ \E u \in ParentThreads : call'[u].at = "closing" /\ call'[u].seen = s
        BY <2>6, <2>7
      <3> QED
        BY <2>2, <3>1 DEF OpenIsCurrent
    <2>10. ForkSignsInFirst'
      <3>1. ~auth'["child"].known \/ (\E u \in ChildThreads : call'[u].at = "fork") =>
                \A s \in 1..(Count + 1) : sessions'[s].own => sessions'[s].by = "parent"
        BY <2>6, <2>8
      <3> QED
        BY <2>2, <3>1 DEF ForkSignsInFirst
    <2> QED
      BY <2>9, <2>10 DEF OpenInv
  <1> QED
    BY <1>4, <1>5

-----------------------------------------------------------------------------
(* The theorems.                                                             *)

LEMMA AuthStarts ==
    ASSUME Init
    PROVE  AuthInv /\ OpenInv
  <1>1. DOMAIN sessions = {1} /\ sessions[1] = [by |-> "parent", own |-> TRUE, state |-> "live"]
        /\ sessions = [s \in {1} |-> [by |-> "parent", own |-> TRUE, state |-> "live"]]
    BY DEF Init
  <1>2. Count = 1
    <2> HIDE DEF Count
    <2> QED
      BY <1>1, FS_Singleton DEF Count
  <1>3. 1..Count = {1} /\ 1 \in 0..MaxSessions /\ 0 \in 0..MaxSessions /\ Count \in 1..MaxSessions
    BY <1>2, AuthAssumption
  <1>4. SessionTypes
    <2>1. [by |-> "parent", own |-> TRUE, state |-> "live"] \in SessionFields
      BY DEF SessionFields, Procs
    <2> QED
      BY <1>1, <1>3, <2>1 DEF SessionTypes
  <1>5. AuthTypes
    <2>1. Free \in Threads \cup {Free, Orphan}
      OBVIOUS
    <2>2. \A p \in Procs : [known |-> p = "parent", lock |-> Free, closed |-> FALSE,
                            invalid |-> NoToken, session |-> 1] \in AuthFields
      BY <1>3, <2>1 DEF AuthFields, NoToken
    <2> QED
      BY <2>2 DEF Init, AuthTypes
  <1>6. CallTypes
    <2>1. Idle \in CallFields
      BY <1>3 DEF Idle, CallFields, Places, Ops, NoToken
    <2> QED
      BY <2>1 DEF Init, CallTypes
  <1>7. \A p \in Procs : /\ auth[p].known = (p = "parent") /\ auth[p].lock = Free /\ auth[p].closed = FALSE
                         /\ auth[p].invalid = NoToken /\ auth[p].session = 1
    BY DEF Init
  <1>8. /\ forked = FALSE
        /\ \A t \in Threads : /\ call[t].at = "idle" /\ call[t].seen = NoToken
                              /\ call[t].retried = FALSE /\ call[t].struck = FALSE
    BY DEF Init, Idle
  <1>9. WereOpened
    BY <1>3, <1>7, <1>8 DEF WereOpened, NoToken
  <1>10. ParentIsHome
    BY <1>1, <1>7, <1>8 DEF ParentIsHome, Ours, Procs, Threads
  <1>11. ChildStarts
    BY <1>7, <1>8 DEF ChildStarts, Procs, Threads
  <1>12. RenewersLock
    BY <1>7, <1>8, AuthAssumption DEF RenewersLock, ProcOf, Procs
  <1>13. RefusalsAreTrue /\ RefusedOnlyIfStruck /\ UnstruckGoOn
    BY <1>8 DEF RefusalsAreTrue, RefusedOnlyIfStruck, UnstruckGoOn, At, Threads
  <1>14. OpenInv
    BY <1>1, <1>3, <1>7 DEF OpenInv, OpenIsCurrent, ForkSignsInFirst, Procs
  <1> QED
    BY <1>4, <1>5, <1>6, <1>9, <1>10, <1>11, <1>12, <1>13, <1>14 DEF AuthInv

\* A step that changes nothing keeps everything.
LEMMA AuthRests ==
    ASSUME UNCHANGED authVars
    PROVE  (AuthInv => AuthInv') /\ (OpenInv => OpenInv')
  <1> USE DEF authVars
  <1>1. (AuthTypes => AuthTypes') /\ (CallTypes => CallTypes') /\ (SessionTypes => SessionTypes')
    BY DEF AuthTypes, CallTypes, SessionTypes, Count
  <1>2. (WereOpened => WereOpened') /\ (ParentIsHome => ParentIsHome') /\ (ChildStarts => ChildStarts')
    BY DEF WereOpened, ParentIsHome, ChildStarts, Count, Ours
  <1>3. (RenewersLock => RenewersLock') /\ (RefusalsAreTrue => RefusalsAreTrue')
    BY DEF RenewersLock, Worn, RefusalsAreTrue
  <1>4. (RefusedOnlyIfStruck => RefusedOnlyIfStruck') /\ (UnstruckGoOn => UnstruckGoOn')
    BY DEF RefusedOnlyIfStruck, At, UnstruckGoOn, Sound
  <1>5. OpenInv => OpenInv'
    BY DEF OpenInv, OpenIsCurrent, ForkSignsInFirst, Count
  <1> QED
    BY <1>1, <1>2, <1>3, <1>4, <1>5 DEF AuthInv

LEMMA AuthSteps ==
    ASSUME AuthInv, [Next]_authVars
    PROVE  AuthInv'
  <1>1. ASSUME NEW t \in Threads, NEW op \in Ops, Begin(t, op)
        PROVE  AuthInv'
    BY <1>1, BeginKeeps
  <1>2. ASSUME NEW t \in Threads, Call(t)
        PROVE  AuthInv'
    BY <1>2, EnsureKnownKeeps, EnsureForkedKeeps, ForkSignsInKeeps, GetTokenKeeps, RenewKeeps,
       OpenArtifactKeeps, SignInFailsKeeps, AnsweredKeeps, RefusedKeeps, PostFailsKeeps, RefreshKeeps,
       RaiseKeeps, CloseSessionKeeps DEF Call
  <1>3. ASSUME NEW t \in Threads, Close(t) \/ Fork(t)
        PROVE  AuthInv'
    BY <1>3, CloseKeeps, ForkKeeps
  <1>4. ASSUME NEW s \in DOMAIN sessions, Expire(s)
        PROVE  AuthInv'
    BY <1>4, ExpireKeeps
  <1>5. ASSUME NEW p \in Procs, Invalidate(p)
        PROVE  AuthInv'
    BY <1>5, InvalidateKeeps
  <1> QED
    BY <1>1, <1>2, <1>3, <1>4, <1>5, AuthRests DEF Next

LEMMA OpenSteps ==
    ASSUME AuthInv, OpenInv, OneChild, [Next]_authVars
    PROVE  OpenInv'
  <1>1. ASSUME NEW t \in Threads, NEW op \in Ops, Begin(t, op)
        PROVE  OpenInv'
    BY <1>1, BeginOpen
  <1>2. ASSUME NEW t \in Threads, Call(t)
        PROVE  OpenInv'
    BY <1>2, EnsureKnownOpen, EnsureForkedOpen, ForkSignsInOpen, GetTokenOpen, RenewOpen,
       OpenArtifactOpen, SignInFailsOpen, AnsweredOpen, RefusedOpen, PostFailsOpen, RefreshOpen,
       RaiseOpen, CloseSessionOpen DEF Call
  <1>3. ASSUME NEW t \in Threads, Close(t) \/ Fork(t)
        PROVE  OpenInv'
    BY <1>3, CloseOpen, ForkOpen
  <1>4. ASSUME NEW s \in DOMAIN sessions, Expire(s)
        PROVE  OpenInv'
    BY <1>4, ExpireOpen
  <1>5. ASSUME NEW p \in Procs, Invalidate(p)
        PROVE  OpenInv'
    BY <1>5, InvalidateOpen
  <1> QED
    BY <1>1, <1>2, <1>3, <1>4, <1>5, AuthRests DEF Next

\* The types of ClientAuth are among the invariant's parts.
LEMMA TypesFollow ==
    ASSUME AuthInv
    PROVE  AuthTypeOK
  <1>1. \A s \in DOMAIN sessions : sessions[s] \in SessionFields
    BY DEF AuthInv, SessionTypes
  <1> QED
    BY <1>1 DEF AuthInv, AuthTypes, CallTypes, CallFields, SessionFields, AuthTypeOK

LEMMA OpenFollows ==
    ASSUME AuthInv, OpenInv
    PROVE  OneOpenSession
  <1> SUFFICES ASSUME NEW s \in DOMAIN sessions, sessions[s].own, sessions[s].state # "closed"
               PROVE  \/ \E p \in Procs : auth[p].session = s /\ (forked \/ p = "parent") /\ ~auth[p].closed
                      \/ \E t \in Threads : At(t, "closing") /\ call[t].seen = s
    BY DEF OneOpenSession
  <1>1. s \in 1..Count /\ sessions[s].by \in Procs
    BY DEF AuthInv, SessionTypes, SessionFields
  <1>2. \/ /\ auth[sessions[s].by].session = s /\ ~auth[sessions[s].by].closed
           /\ sessions[s].by = "child" => forked
        \/ \E t \in ParentThreads : call[t].at = "closing" /\ call[t].seen = s
    BY <1>1 DEF OpenInv, OpenIsCurrent
  <1>3. sessions[s].by = "child" \/ sessions[s].by = "parent"
    BY <1>1 DEF Procs
  <1> QED
    BY <1>1, <1>2, <1>3 DEF At, Threads

\* A send is refused for its sign-in only if a session ended or was marked stale while it ran,
\* however many threads and processes renew the sign-in, fail to, fork and close it
\* (client/auth.py _refresh_locked: a token another thread has already rotated is not renewed again).
THEOREM RefusalsAreStruck == Spec => []RefusedOnlyIfStruck
  <1>1. Init => AuthInv
    BY AuthStarts
  <1>2. AuthInv /\ [Next]_authVars => AuthInv'
    BY AuthSteps
  <1>3. AuthInv => RefusedOnlyIfStruck
    BY DEF AuthInv
  <1> QED
    BY <1>1, <1>2, <1>3, PTL DEF Spec

\* A process that has closed its sign-in leaves no session of its own open, and one that has not
\* has no open session beside its current one, as long as a forked child signs in from one thread.
THEOREM SessionsStayRight == OneChild => (Spec => []AuthSafe)
  <1>1. SUFFICES ASSUME OneChild
                 PROVE  Spec => []AuthSafe
    OBVIOUS
  <1>2. Init => AuthInv /\ OpenInv
    BY AuthStarts
  <1>3. (AuthInv /\ OpenInv) /\ [Next]_authVars => (AuthInv /\ OpenInv)'
    BY <1>1, AuthSteps, OpenSteps
  <1>4. AuthInv /\ OpenInv => AuthSafe
    BY TypesFollow, OpenFollows DEF AuthSafe, AuthInv
  <1> QED
    BY <1>2, <1>3, <1>4, PTL DEF Spec

-----------------------------------------------------------------------------
(* Proofs about JobRuns, for every number of programs, jobs, retries, faults *)
(* and interrupts.  J stands for the service's jobs and r for the program a, *)
(* before or after a step.                                                   *)

CONSTANTS Ones, Sets, Deploys, Size, MaxJobs, Attempts, MaxStops
VARIABLES job, run, stops, lost

Runs == INSTANCE JobRuns

\* A program is of one kind, and is not the one whose job was there before.
RunsAssumption ==
  /\ Ones \cap Sets = {} /\ Ones \cap Deploys = {} /\ Sets \cap Deploys = {}
  /\ "another" \notin Runs!Programs

States == {"pending", "running", "failed", "cancelling", "cancelled"}
JobFields == [state : States, by : Runs!Programs \cup {"another"}, seen : BOOLEAN]
RunFields ==
  [at : {"create", "wait", "block", "cancel", "lookup", "drop", "done"},
   op : {"none", "create", "get", "cancel"}, on : Nat, tries : Nat, ids : Seq(Nat), own : Seq(Nat),
   calls : Nat, next : Nat, keep : BOOLEAN, up : BOOLEAN, told : SUBSET Nat, cut : BOOLEAN,
   said : {"nothing", "holds none", "dropped"}, looked : {"ok", "missing"}]

\* A job that is released, and one that is settled as far as the program can tell.
Over(J, j) == J[j].state \notin Runs!Live
Covered(J, r, j) == Over(J, j) \/ j \in r.told

\* Of the jobs a program waits for and created, those it releases are its own.
Knows(J, a, r) ==
  /\ r \in RunFields
  /\ \A i \in 1 .. Len(r.ids) : r.ids[i] \in 1 .. Len(J)
  /\ \A i \in 1 .. Len(r.own) : r.own[i] \in 1 .. Len(J) /\ J[r.own[i]].by = a
  /\ a \notin Sets /\ ~r.keep => r.ids = r.own

\* What a request is, by where the program is.
AsksRight(J, a, r) ==
  \/ r.op = "none" /\ r.on = Runs!None
  \/ r.at = "create" /\ r.op = "create" /\ r.on = Runs!None
  \/ r.at = "wait" /\ r.op = "get" /\ r.on \in 1 .. Len(J)
  \/ r.at = "cancel" /\ r.op = "cancel" /\ r.on = r.own[r.next]
  \/ r.at = "lookup" /\ r.op = "get" /\ r.on = r.own[1]
  \/ r.at = "drop" /\ r.op = "cancel" /\ r.on = r.own[1]

\* Before the block a program has one job at most, but for a set.
Enters(a, r) ==
  /\ r.at = "create" => r.next = 1 /\ (a \notin Sets => r.ids = << >> /\ r.own = << >>)
  /\ r.at = "wait" => r.next \in 1 .. Len(r.ids)
  /\ r.at \in {"wait", "block"} /\ a \in Deploys => Len(r.ids) = 1
  /\ r.at \in {"create", "wait"} => ~r.up

\* On its way out it has settled the jobs it has left behind it.
Leaves(J, a, r) ==
  /\ r.at = "cancel" =>
       /\ a \notin Deploys /\ (a \in Sets \/ ~r.keep) /\ r.next \in 1 .. Len(r.own)
       /\ \A k \in 1 .. Len(r.own) : k > r.next => Covered(J, r, r.own[k])
  /\ r.at \in {"lookup", "drop"} => a \in Deploys /\ ~r.keep /\ Len(r.own) = 1
  /\ r.at = "done" /\ ~r.cut =>
       \A k \in 1 .. Len(r.own) : \/ Covered(J, r, r.own[k]) \/ r.keep
                                  \/ a \in Ones /\ ~r.up
                                  \/ a \in Deploys /\ r.looked = "missing"

\* What the invariant says of a program, by the jobs that there are.
Fits(J, a, r) == Knows(J, a, r) /\ AsksRight(J, a, r) /\ Enters(a, r) /\ Leaves(J, a, r)

\* Jobs are added, keep their program, and once released stay so.
Grown(J, K) ==
  /\ Len(J) \in Nat /\ Len(K) \in Nat /\ Len(K) >= Len(J)
  /\ \A j \in 1 .. Len(J) : K[j].by = J[j].by /\ (Over(J, j) => Over(K, j))

\* What was settled stays settled, whatever the service or another program does.
LEMMA FitsGrown ==
  ASSUME NEW J, NEW K, NEW a, NEW r, Grown(J, K), Fits(J, a, r)
  PROVE  Fits(K, a, r)
  <1>1. Knows(K, a, r)
    BY DEF Fits, Knows, Grown
  <1>2. AsksRight(K, a, r)
    BY DEF Fits, AsksRight, Grown
  <1>3. \A k \in 1 .. Len(r.own) : Covered(J, r, r.own[k]) => Covered(K, r, r.own[k])
    BY DEF Fits, Knows, Covered, Grown
  <1>4. Leaves(K, a, r)
    BY <1>3 DEF Fits, Leaves
  <1> QED
    BY <1>1, <1>2, <1>4 DEF Fits

\* Leaving the block.
LEMMA LeaveFits ==
  ASSUME RunsAssumption, NEW J, NEW a \in Runs!Programs, NEW r, Knows(J, a, r),
         a \in Deploys /\ ~r.keep => Len(r.ids) \in {0, 1}
  PROVE  Fits(J, a, Runs!Leave(a, r)) /\ Runs!Leave(a, r).op = "none" /\ Runs!Leave(a, r).calls = r.calls
  <1> DEFINE out == Runs!Leave(a, r)
  <1>1. CASE Runs!Left(a, r) = << >>
    <2>1. out = [r EXCEPT !.op = "none", !.on = Runs!None, !.tries = 0, !.at = "done"]
      BY <1>1 DEF Runs!Leave, Runs!Quiet, Knows, RunFields
    <2>2. a \in Sets \/ ~r.keep => r.own = << >>
      BY <1>1 DEF Runs!Left, Knows
    <2> HIDE DEF out
    <2>3. r \in RunFields
      BY DEF Knows
    <2>4. /\ out \in RunFields /\ out.at = "done" /\ out.op = "none" /\ out.on = Runs!None
          /\ out.own = r.own /\ out.ids = r.ids /\ out.keep = r.keep /\ out.calls = r.calls
          /\ out.up = r.up
      BY <2>1, <2>3 DEF RunFields, Runs!None
    <2>5. Knows(J, a, out)
      BY <2>4 DEF Knows
    <2>6. AsksRight(J, a, out) /\ Enters(a, out)
      BY <2>4 DEF AsksRight, Enters
    <2>7. Leaves(J, a, out)
      <3>1. CASE r.keep
        BY <3>1, <2>4 DEF Leaves, RunFields
      <3>2. CASE ~r.keep
        <4>1. Len(out.own) = 0
          BY <3>2, <2>2, <2>4
        <4> QED
          BY <4>1, <2>4 DEF Leaves
      <3> QED
        BY <3>1, <3>2
    <2> QED
      BY <2>4, <2>5, <2>6, <2>7 DEF Fits, out
  <1>2. CASE Runs!Left(a, r) # << >>
    <2>1. Runs!Left(a, r) = r.own /\ (a \in Sets \/ ~r.keep)
      BY <1>2 DEF Runs!Left, Knows
    <2>2. out = [r EXCEPT !.op = "none", !.on = Runs!None, !.tries = 0,
                          !.at = IF a \in Deploys THEN "lookup" ELSE "cancel", !.next = Len(r.own)]
      BY <1>2, <2>1 DEF Runs!Leave, Runs!Quiet, Knows, RunFields
    <2> HIDE DEF out
    <2>3. r \in RunFields /\ r.own \in Seq(Nat) /\ Len(r.own) \in Nat \ {0}
      BY <1>2, <2>1, EmptySeq DEF Knows, RunFields
    <2>4. /\ out \in RunFields /\ out.at = (IF a \in Deploys THEN "lookup" ELSE "cancel")
          /\ out.op = "none" /\ out.on = Runs!None /\ out.next = Len(r.own)
          /\ out.own = r.own /\ out.ids = r.ids /\ out.keep = r.keep /\ out.calls = r.calls
          /\ out.up = r.up
      BY <2>2, <2>3 DEF RunFields, Runs!None
    <2>5. Knows(J, a, out)
      BY <2>4 DEF Knows
    <2>6. AsksRight(J, a, out) /\ Enters(a, out)
      BY <2>4 DEF AsksRight, Enters
    <2>7. a \in Deploys => ~r.keep /\ Len(r.own) = 1
      BY <2>1, <2>3 DEF RunsAssumption, Knows
    <2>8. Leaves(J, a, out)
      BY <2>1, <2>3, <2>4, <2>7 DEF Leaves
    <2> QED
      BY <2>4, <2>5, <2>6, <2>8 DEF Fits, out
  <1> QED
    BY <1>1, <1>2

\* An error before the block.
LEMMA FailsFits ==
  ASSUME RunsAssumption, NEW J, NEW a \in Runs!Programs, NEW r, Fits(J, a, r), r.at \in {"create", "wait"}
  PROVE  Fits(J, a, Runs!Fails(a, r)) /\ Runs!Fails(a, r).op = "none" /\ Runs!Fails(a, r).calls = r.calls
  <1>1. CASE a \in Sets \/ (a \in Deploys /\ r.at = "wait")
    <2>1. a \in Deploys /\ ~r.keep => Len(r.ids) \in {0, 1}
      BY <1>1 DEF Fits, Enters, RunsAssumption
    <2> QED
      BY <1>1, <2>1, LeaveFits DEF Fits, Runs!Fails
  <1>2. CASE ~(a \in Sets \/ (a \in Deploys /\ r.at = "wait"))
    <2> DEFINE out == Runs!Fails(a, r)
    <2>1. r \in RunFields
      BY DEF Fits, Knows
    <2>2. out = [r EXCEPT !.op = "none", !.on = Runs!None, !.tries = 0, !.at = "done"]
      BY <1>2, <2>1 DEF Runs!Fails, Runs!Quiet, RunFields
    <2> HIDE DEF out
    <2>3. /\ out \in RunFields /\ out.at = "done" /\ out.op = "none" /\ out.on = Runs!None
          /\ out.own = r.own /\ out.ids = r.ids /\ out.keep = r.keep /\ out.calls = r.calls
          /\ out.up = r.up
      BY <2>1, <2>2 DEF RunFields, Runs!None
    <2>4. Knows(J, a, out) /\ AsksRight(J, a, out) /\ Enters(a, out)
      BY <2>3 DEF Fits, Knows, AsksRight, Enters
    <2>5. ~r.up
      BY DEF Fits, Enters
    <2>6. CASE a \in Ones
      BY <2>3, <2>4, <2>5, <2>6 DEF Fits, Leaves, out
    <2>7. CASE a \in Deploys
      <3>1. Len(r.own) = 0
        BY <1>2, <2>7 DEF Fits, Enters
      <3> QED
        BY <2>3, <2>4, <3>1 DEF Fits, Leaves, out
    <2> QED
      BY <1>2, <2>6, <2>7 DEF Runs!Programs
  <1> QED
    BY <1>1, <1>2

\* The next job to cancel, once the last one is settled.
LEMMA NextFits ==
  ASSUME RunsAssumption, NEW J, NEW a \in Runs!Programs, NEW r,
         Knows(J, a, r), Leaves(J, a, r), r.at \in {"cancel", "lookup", "drop"},
         Covered(J, r, r.own[IF r.at = "cancel" THEN r.next ELSE 1])
  PROVE  /\ Fits(J, a, Runs!NextCancel(a, r)) /\ Runs!NextCancel(a, r).op = "none"
         /\ Runs!NextCancel(a, r).calls = r.calls
  <1> DEFINE out == Runs!NextCancel(a, r)
  <1>1. r \in RunFields
    BY DEF Knows
  <1>2. CASE a \in Deploys \/ r.next = 1
    <2>1. out = [r EXCEPT !.op = "none", !.on = Runs!None, !.tries = 0, !.at = "done"]
      BY <1>1, <1>2 DEF Runs!NextCancel, Runs!Quiet, RunFields
    <2> HIDE DEF out
    <2>2. /\ out \in RunFields /\ out.at = "done" /\ out.op = "none" /\ out.on = Runs!None
          /\ out.own = r.own /\ out.ids = r.ids /\ out.keep = r.keep /\ out.calls = r.calls
          /\ out.told = r.told
      BY <1>1, <2>1 DEF RunFields, Runs!None
    <2>3. Knows(J, a, out) /\ AsksRight(J, a, out) /\ Enters(a, out)
      BY <2>2 DEF Knows, AsksRight, Enters
    <2>4. \A k \in 1 .. Len(r.own) : Covered(J, r, r.own[k])
      <3>1. CASE r.at = "cancel"
        <4>1. r.next = 1
          BY <1>2, <3>1 DEF Leaves
        <4>2. \A k \in 1 .. Len(r.own) : k = 1 \/ k > 1
          OBVIOUS
        <4> QED
          BY <3>1, <4>1, <4>2 DEF Leaves
      <3>2. CASE r.at # "cancel"
        BY <3>2 DEF Leaves
      <3> QED
        BY <3>1, <3>2
    <2>5. Leaves(J, a, out)
      BY <2>2, <2>4 DEF Leaves, Covered
    <2> QED
      BY <2>2, <2>3, <2>5 DEF Fits, out
  <1>3. CASE ~(a \in Deploys \/ r.next = 1)
    <2>0. r.at = "cancel"
      BY <1>3 DEF Leaves
    <2>1. out = [r EXCEPT !.op = "none", !.on = Runs!None, !.tries = 0, !.next = r.next - 1]
      BY <1>1, <1>3 DEF Runs!NextCancel, Runs!Quiet, RunFields
    <2> HIDE DEF out
    <2>a. r.own \in Seq(Nat) /\ r.next \in Nat
      BY <1>1 DEF RunFields
    <2>b. Len(r.own) \in Nat
      BY <2>a
    <2>2. r.next \in 1 .. Len(r.own) /\ r.next # 1 /\ r.next \in Nat /\ Len(r.own) \in Nat
      BY <1>3, <2>0, <2>a, <2>b DEF Leaves
    <2>c. r.next - 1 \in Nat
      BY <2>2
    <2>3. /\ out \in RunFields /\ out.at = "cancel" /\ out.op = "none" /\ out.on = Runs!None
          /\ out.own = r.own /\ out.ids = r.ids /\ out.keep = r.keep /\ out.calls = r.calls
          /\ out.told = r.told /\ out.next = r.next - 1
      BY <1>1, <2>0, <2>1, <2>c DEF RunFields, Runs!None
    <2>4. Knows(J, a, out) /\ AsksRight(J, a, out) /\ Enters(a, out)
      BY <2>3 DEF Knows, AsksRight, Enters
    <2>5. \A k \in 1 .. Len(r.own) : k > r.next - 1 => k = r.next \/ k > r.next
      BY <2>2
    <2>6. Leaves(J, a, out)
      BY <2>0, <2>2, <2>3, <2>5 DEF Leaves, Covered
    <2> QED
      BY <2>3, <2>4, <2>6 DEF Fits, out
  <1> QED
    BY <1>2, <1>3

\* A request that failed for good, and one that may be sent again.
LEMMA RaisedFits ==
  ASSUME RunsAssumption, NEW J, NEW a \in Runs!Programs, NEW r, Fits(J, a, r), r.op # "none"
  PROVE  Fits(J, a, Runs!Raised(a, r)) /\ Runs!Raised(a, r).op = "none" /\ Runs!Raised(a, r).calls = r.calls
  <1>1. CASE r.at \in {"create", "wait"}
    BY <1>1, FailsFits DEF Runs!Raised
  <1>2. CASE r.at \in {"cancel", "lookup", "drop"}
    <2> DEFINE s == [r EXCEPT !.told = @ \cup {r.on}]
    <2>1. r \in RunFields
      BY DEF Fits, Knows
    <2>2. s = [r EXCEPT !.told = r.told \cup {r.on}]
      OBVIOUS
    <2>3. Runs!Raised(a, r) = Runs!NextCancel(a, s)
      BY <1>2 DEF Runs!Raised
    <2> HIDE DEF s
    <2>4. /\ s \in RunFields /\ s.at = r.at /\ s.op = r.op /\ s.on = r.on /\ s.next = r.next
          /\ s.own = r.own /\ s.ids = r.ids /\ s.keep = r.keep /\ s.calls = r.calls
          /\ s.up = r.up /\ s.cut = r.cut /\ s.told = r.told \cup {r.on} /\ s.looked = r.looked
      BY <2>1, <2>2 DEF RunFields
    <2>5. Knows(J, a, s)
      BY <2>4 DEF Fits, Knows
    <2>6. Leaves(J, a, s)
      BY <1>2, <2>4 DEF Fits, Leaves, Covered
    <2>7. r.on = r.own[IF r.at = "cancel" THEN r.next ELSE 1]
      BY <1>2 DEF Fits, AsksRight
    <2>8. Covered(J, s, s.own[IF s.at = "cancel" THEN s.next ELSE 1])
      BY <2>4, <2>7 DEF Covered
    <2> QED
      BY <1>2, <2>3, <2>4, <2>5, <2>6, <2>8, NextFits
  <1> QED
    BY <1>1, <1>2 DEF Fits, AsksRight

\* A failure leaves a request to be sent again, or a program that goes on without it.
LEMMA FailureFits ==
  ASSUME RunsAssumption, NEW J, NEW a \in Runs!Programs, NEW r, NEW b, Fits(J, a, r), r.op # "none"
  PROVE  /\ Fits(J, a, Runs!Failure(a, r, b))
         /\ Runs!Failure(a, r, b).calls = r.calls
         /\ Runs!Failure(a, r, b).op \in {"none", r.op} /\ (~b => Runs!Failure(a, r, b).op = "none")
  <1>1. CASE ~(b /\ r.tries + 1 < Attempts)
    BY <1>1, RaisedFits DEF Runs!Failure
  <1>2. CASE b /\ r.tries + 1 < Attempts
    <2> DEFINE out == Runs!Failure(a, r, b)
    <2>1. out = [r EXCEPT !.tries = r.tries + 1] /\ r \in RunFields
      BY <1>2 DEF Runs!Failure, Runs!Again, Fits, Knows
    <2> HIDE DEF out
    <2>a. r.tries \in Nat
      BY <2>1 DEF RunFields
    <2>b. r.tries + 1 \in Nat
      BY <2>a
    <2>2. /\ out \in RunFields /\ out.at = r.at /\ out.op = r.op /\ out.on = r.on /\ out.next = r.next
          /\ out.own = r.own /\ out.ids = r.ids /\ out.keep = r.keep /\ out.calls = r.calls
          /\ out.up = r.up /\ out.cut = r.cut /\ out.told = r.told /\ out.looked = r.looked
      BY <2>1, <2>b DEF RunFields
    <2>3. Fits(J, a, out)
      BY <2>2 DEF Fits, Knows, AsksRight, Enters, Leaves, Covered
    <2> QED
      BY <1>2, <2>2, <2>3 DEF out
  <1> QED
    BY <1>1, <1>2

-----------------------------------------------------------------------------
(* How the service's jobs change.                                            *)

\* The job that was there before is another's, and nobody cancels it.
Jobs(J) ==
  /\ J \in Seq(JobFields) /\ Len(J) \in Nat \ {0}
  /\ J[Runs!Theirs].by = "another" /\ J[Runs!Theirs].state \notin {"cancelling", "cancelled"}
\* A program's jobs are no more than its calls to create, one of which may be under way.
JobsOf(J, a) == {j \in 1 .. Len(J) : J[j].by = a}
OneMore(J, K, a) == Cardinality(JobsOf(K, a)) = Cardinality(JobsOf(J, a)) + 1
SameJobs(J, K, b) == JobsOf(K, b) = JobsOf(J, b)
IsNew(J, K, a, x) == x \in JobFields /\ x.by = a /\ K = Append(J, x)
IsPut(J, K, a) == K[Len(J) + 1].by = a /\ Len(K) = Len(J) + 1
IsChange(J, K, j, x) == K = [J EXCEPT ![j] = x]
Is(J, j, x) == J[j] = x
Counts(J, a, r) == Cardinality(JobsOf(J, a)) + (IF r.op = "create" THEN 1 ELSE 0) <= r.calls

\* The jobs of a program are finitely many.
LEMMA ByFinite ==
  ASSUME NEW J, Len(J) \in Nat, NEW a
  PROVE  IsFiniteSet(JobsOf(J, a)) /\ Cardinality(JobsOf(J, a)) \in Nat
  <1>1. IsFiniteSet(1 .. Len(J)) /\ JobsOf(J, a) \subseteq 1 .. Len(J)
    BY FS_Interval DEF JobsOf
  <1>2. IsFiniteSet(JobsOf(J, a))
    BY <1>1, FS_Subset
  <1> QED
    BY <1>2, FS_CardinalityType

\* A new job counts for the program that made it, and for no other.
LEMMA Appended ==
  ASSUME RunsAssumption, NEW J, Jobs(J), NEW a \in Runs!Programs, NEW x, NEW K, IsNew(J, K, a, x)
  PROVE  /\ Jobs(K) /\ Grown(J, K) /\ IsPut(J, K, a)
         /\ OneMore(J, K, a) /\ \A b \in Runs!Programs : b # a => SameJobs(J, K, b)
  <1>3. J \in Seq(JobFields) /\ Len(J) \in Nat \ {0} /\ K = Append(J, x) /\ x \in JobFields /\ x.by = a
    BY DEF Jobs, IsNew
  <1>4. /\ K \in Seq(JobFields) /\ Len(K) = Len(J) + 1
        /\ K[Len(J) + 1] = x /\ \A j \in 1 .. Len(J) : K[j] = J[j]
    BY <1>3
  <1>5. Jobs(K)
    BY <1>3, <1>4 DEF Jobs, Runs!Theirs
  <1>6. Grown(J, K)
    BY <1>3, <1>4 DEF Grown, Over
  <1>7. JobsOf(K, a) = JobsOf(J, a) \cup {Len(J) + 1} /\ Len(J) + 1 \notin JobsOf(J, a)
    BY <1>3, <1>4 DEF JobsOf
  <1>8. Cardinality(JobsOf(K, a)) = Cardinality(JobsOf(J, a)) + 1
    BY <1>3, <1>7, ByFinite, FS_AddElement, ZenonT(40)
  <1>9. \A b \in Runs!Programs : b # a => JobsOf(K, b) = JobsOf(J, b)
    BY <1>3, <1>4 DEF JobsOf
  <1> QED
    BY <1>3, <1>4, <1>5, <1>6, <1>8, <1>9 DEF OneMore, SameJobs, IsPut

\* What a create appends is a job of its caller.
LEMMA MadeFields ==
  ASSUME NEW a \in Runs!Programs, NEW K \in Runs!Made(a)
  PROVE  \E x \in JobFields : x.by = a /\ K = Append(job, x)
  <1>1. PICK s \in BOOLEAN : K = Append(job, [state |-> "pending", by |-> a, seen |-> s])
    BY DEF Runs!Made
  <1>2. [state |-> "pending", by |-> a, seen |-> s] \in JobFields
    BY DEF JobFields, States
  <1> QED
    BY <1>1, <1>2

\* A job changes, its program does not.
LEMMA Changed ==
  ASSUME NEW J, Jobs(J), NEW j \in 1 .. Len(J), NEW x \in JobFields, x.by = J[j].by,
         NEW K, IsChange(J, K, j, x), Over(J, j) => x.state \notin Runs!Live,
         j = Runs!Theirs => x.state \notin {"cancelling", "cancelled"}
  PROVE  Jobs(K) /\ Grown(J, K) /\ (\A b : SameJobs(J, K, b)) /\ Is(K, j, x)
  <1>1. J \in Seq(JobFields) /\ Len(J) \in Nat \ {0} /\ j \in 1 .. Len(J)
    BY DEF Jobs
  <1>2. /\ K \in Seq(JobFields) /\ Len(K) = Len(J)
        /\ \A i \in 1 .. Len(J) : K[i] = IF i = j THEN x ELSE J[i]
    BY <1>1, ExceptSeq DEF IsChange
  <1>3. Jobs(K)
    BY <1>1, <1>2 DEF Jobs, Runs!Theirs
  <1>4. Grown(J, K)
    BY <1>1, <1>2 DEF Grown, Over
  <1>5. ASSUME NEW b PROVE SameJobs(J, K, b)
    BY <1>1, <1>2 DEF JobsOf, SameJobs
  <1> QED
    BY <1>1, <1>2, <1>3, <1>4, <1>5 DEF Is

-----------------------------------------------------------------------------
(* The inductive invariant, and the steps of a program.                      *)

\* Needed beside what is claimed: a program's request is for the job that its place calls for, its
\* jobs are its own, and those behind it on its way out are settled.
RunsInv ==
  /\ Jobs(job)
  /\ run \in [Runs!Programs -> RunFields]
  /\ \A a \in Runs!Programs : Fits(job, a, run[a]) /\ Counts(job, a, run[a])

\* A step of a program leaves the others what they were.
LEMMA ProgramSteps ==
  ASSUME RunsInv, NEW a \in Runs!Programs, NEW x, run' = [run EXCEPT ![a] = x],
         Jobs(job'), Grown(job, job'), Fits(job', a, x), Counts(job', a, x),
         \A b \in Runs!Programs : b # a => SameJobs(job, job', b)
  PROVE  RunsInv'
  <1>1. x \in RunFields
    BY DEF Fits, Knows
  <1>2. run' \in [Runs!Programs -> RunFields] /\ \A b \in Runs!Programs : run'[b] = IF b = a THEN x ELSE run[b]
    BY <1>1 DEF RunsInv
  <1>3. ASSUME NEW b \in Runs!Programs PROVE Fits(job', b, run'[b]) /\ Counts(job', b, run'[b])
    <2>1. CASE b = a
      BY <1>2, <2>1
    <2>2. CASE b # a
      BY <1>2, <2>2, FitsGrown DEF RunsInv, Counts, SameJobs
    <2> QED
      BY <2>1, <2>2
  <1> QED
    BY <1>2, <1>3 DEF RunsInv

\* What there is to know of a program before its step.
LEMMA Before ==
  ASSUME RunsInv, NEW a \in Runs!Programs
  PROVE  /\ Fits(job, a, run[a]) /\ Counts(job, a, run[a]) /\ run[a] \in RunFields
         /\ Jobs(job) /\ Grown(job, job) /\ Cardinality(JobsOf(job, a)) \in Nat /\ run[a].calls \in Nat
         /\ Len(job) \in Nat
  <1>1. Len(job) \in Nat /\ Jobs(job)
    BY DEF RunsInv, Jobs
  <1>2. Fits(job, a, run[a]) /\ Counts(job, a, run[a]) /\ run[a] \in RunFields
    BY DEF RunsInv
  <1>3. Grown(job, job)
    BY <1>1 DEF Grown
  <1>4. Cardinality(JobsOf(job, a)) \in Nat
    BY <1>1, ByFinite
  <1>5. run[a].calls \in Nat
    BY <1>2 DEF RunFields
  <1> QED
    BY <1>1, <1>2, <1>3, <1>4, <1>5

\* A step that changes no job, and only adds a call to its program.
LEMMA QuietSteps ==
  ASSUME RunsInv, NEW a \in Runs!Programs, NEW x, run' = [run EXCEPT ![a] = x], job' = job,
         Fits(job, a, x), x.calls = run[a].calls, x.op = "create" => run[a].op = "create"
  PROVE  RunsInv'
  <1>1. Counts(job, a, x)
    BY Before DEF Counts
  <1> QED
    BY <1>1, ProgramSteps, Before DEF SameJobs

\* A request is for the job that the place calls for.
LEMMA BeginStep ==
  ASSUME RunsAssumption, RunsInv, NEW a \in Runs!Programs, Runs!Begin(a)
  PROVE  RunsInv'
  <1> DEFINE r == run[a]
  <1>1. Fits(job, a, r) /\ r \in RunFields /\ r.op = "none" /\ job' = job
    BY Before DEF Runs!Begin
  <1>2. \/ r.at = "create" /\ run' = [run EXCEPT ![a] = [Runs!Asks(r, "create", Runs!None) EXCEPT !.calls = @ + 1]]
        \/ r.at = "wait" /\ run' = [run EXCEPT ![a] = Runs!Asks(r, "get", r.ids[r.next])]
        \/ /\ r.at = "cancel"
           /\ run' = [run EXCEPT ![a] = Runs!Asks(r, "cancel", (IF a \in Sets THEN r.own ELSE r.ids)[r.next])]
        \/ r.at = "lookup" /\ run' = [run EXCEPT ![a] = Runs!Asks(r, "get", r.ids[1])]
        \/ r.at = "drop" /\ run' = [run EXCEPT ![a] = Runs!Asks(r, "cancel", r.ids[1])]
    BY DEF Runs!Begin
  <1>3. r.ids \in Seq(Nat) /\ r.own \in Seq(Nat) /\ r.calls \in Nat
    BY <1>1 DEF RunFields
  <1>4. Jobs(job) /\ Grown(job, job) /\ Counts(job, a, r) /\ Cardinality(JobsOf(job, a)) \in Nat
    BY Before
  <1> HIDE DEF r
  <1>5. CASE r.at = "create" /\ run' = [run EXCEPT ![a] = [Runs!Asks(r, "create", Runs!None) EXCEPT !.calls = @ + 1]]
    <2> DEFINE x == [Runs!Asks(r, "create", Runs!None) EXCEPT !.calls = @ + 1]
    <2>1. x = [r EXCEPT !.op = "create", !.on = Runs!None, !.tries = 0, !.calls = r.calls + 1]
      BY <1>1 DEF Runs!Asks, RunFields
    <2> HIDE DEF x
    <2>a. r.calls + 1 \in Nat
      BY <1>3
    <2>2. /\ x \in RunFields /\ x.at = r.at /\ x.op = "create" /\ x.on = Runs!None /\ x.next = r.next
          /\ x.own = r.own /\ x.ids = r.ids /\ x.keep = r.keep /\ x.calls = r.calls + 1
          /\ x.up = r.up /\ x.cut = r.cut /\ x.told = r.told /\ x.looked = r.looked
      BY <1>1, <2>a, <2>1 DEF RunFields, Runs!None
    <2>3. Fits(job, a, x)
      BY <1>1, <1>5, <2>2 DEF Fits, Knows, AsksRight, Enters, Leaves, Covered
    <2>4. Counts(job, a, x)
      BY <1>1, <1>3, <1>4, <2>2 DEF Counts
    <2> QED
      BY <1>1, <1>4, <1>5, <2>3, <2>4, ProgramSteps DEF x, SameJobs
  <1>6. ASSUME NEW op \in {"get", "cancel"}, NEW j \in 1 .. Len(job), run' = [run EXCEPT ![a] = Runs!Asks(r, op, j)],
               \/ r.at = "wait" /\ op = "get"
               \/ r.at = "cancel" /\ op = "cancel" /\ j = r.own[r.next]
               \/ r.at = "lookup" /\ op = "get" /\ j = r.own[1]
               \/ r.at = "drop" /\ op = "cancel" /\ j = r.own[1]
        PROVE  RunsInv'
    <2> DEFINE x == Runs!Asks(r, op, j)
    <2>1. x = [r EXCEPT !.op = op, !.on = j, !.tries = 0]
      BY DEF Runs!Asks
    <2> HIDE DEF x
    <2>a. j \in Nat
      BY Before
    <2>2. /\ x \in RunFields /\ x.at = r.at /\ x.op = op /\ x.on = j /\ x.next = r.next
          /\ x.own = r.own /\ x.ids = r.ids /\ x.keep = r.keep /\ x.calls = r.calls
          /\ x.up = r.up /\ x.cut = r.cut /\ x.told = r.told /\ x.looked = r.looked
      BY <1>1, <2>a, <2>1 DEF RunFields
    <2>3. Knows(job, a, x) /\ Enters(a, x) /\ Leaves(job, a, x)
      BY <1>1, <2>2 DEF Fits, Knows, Enters, Leaves, Covered
    <2>4. AsksRight(job, a, x)
      BY <1>6, <2>2 DEF AsksRight
    <2>5. Fits(job, a, x)
      BY <2>3, <2>4 DEF Fits
    <2>6. x.calls = run[a].calls /\ x.op # "create"
      BY <2>2 DEF r
    <2> QED
      BY <1>1, <1>6, <2>5, <2>6, QuietSteps DEF x
  <1>7. CASE r.at = "wait" /\ run' = [run EXCEPT ![a] = Runs!Asks(r, "get", r.ids[r.next])]
    <2>1. r.ids[r.next] \in 1 .. Len(job)
      BY <1>1, <1>7 DEF Fits, Knows, Enters
    <2> QED
      BY <1>6, <1>7, <2>1
  <1>8. CASE /\ r.at = "cancel"
             /\ run' = [run EXCEPT ![a] = Runs!Asks(r, "cancel", (IF a \in Sets THEN r.own ELSE r.ids)[r.next])]
    <2>1. (IF a \in Sets THEN r.own ELSE r.ids) = r.own
      BY <1>1, <1>8 DEF Fits, Knows, Leaves
    <2>2. r.own[r.next] \in 1 .. Len(job)
      BY <1>1, <1>8 DEF Fits, Knows, Leaves
    <2> QED
      BY <1>6, <1>8, <2>1, <2>2
  <1>9. CASE r.at \in {"lookup", "drop"}
    <2>1. r.ids = r.own /\ Len(r.own) = 1
      BY <1>1, <1>9 DEF Fits, Knows, Leaves, RunsAssumption
    <2>2. r.own[1] \in 1 .. Len(job)
      BY <1>1, <2>1 DEF Fits, Knows
    <2>3. \/ r.at = "lookup" /\ run' = [run EXCEPT ![a] = Runs!Asks(r, "get", r.own[1])]
          \/ r.at = "drop" /\ run' = [run EXCEPT ![a] = Runs!Asks(r, "cancel", r.own[1])]
      BY <1>2, <1>9, <2>1
    <2> QED
      BY <1>6, <2>2, <2>3
  <1> QED
    BY <1>2, <1>5, <1>7, <1>8, <1>9

\* Every job is created before any is waited for.
LEMMA CreatedStep ==
  ASSUME RunsAssumption, RunsInv, NEW a \in Runs!Programs, Runs!Created(a)
  PROVE  RunsInv'
  <1> DEFINE r == run[a]
             now == [Runs!Quiet(r) EXCEPT !.ids = Append(@, Len(job) + 1), !.own = Append(@, Len(job) + 1)]
             x == IF Len(now.own) = Runs!Wanted(a) THEN [now EXCEPT !.at = "wait"] ELSE now
  <1>1. Fits(job, a, r) /\ r \in RunFields /\ r.op = "create"
    BY Before DEF Runs!Created
  <1>2. PICK new \in JobFields : new.by = a /\ job' = Append(job, new)
    BY MadeFields DEF Runs!Created
  <1>3. run' = [run EXCEPT ![a] = x]
    BY DEF Runs!Created
  <1>a. IsNew(job, job', a, new)
    BY <1>2 DEF IsNew
  <1>b. /\ Jobs(job') /\ Grown(job, job') /\ IsPut(job, job', a)
        /\ OneMore(job, job', a) /\ \A b \in Runs!Programs : b # a => SameJobs(job, job', b)
    BY <1>a, Before, Appended
  <1>4. Len(job') = Len(job) + 1 /\ job'[Len(job) + 1].by = a
    BY <1>b DEF IsPut
  <1> DEFINE n == Len(job) + 1
  <1>5. n \in Nat /\ n \in 1 .. Len(job')
    BY <1>4, Before
  <1>6. r.ids \in Seq(Nat) /\ r.own \in Seq(Nat) /\ r.calls \in Nat /\ r.at = "create"
    BY <1>1 DEF RunFields, Fits, AsksRight
  <1>7. now = [r EXCEPT !.op = "none", !.on = Runs!None, !.tries = 0, !.ids = Append(r.ids, n), !.own = Append(r.own, n)]
    BY <1>1 DEF Runs!Quiet, RunFields
  <1> HIDE DEF r, now, n
  <1>8. Append(r.ids, n) \in Seq(Nat) /\ Append(r.own, n) \in Seq(Nat)
    BY <1>5, <1>6
  <1>9. /\ now \in RunFields /\ now.at = "create" /\ now.op = "none" /\ now.on = Runs!None /\ now.next = r.next
        /\ now.own = Append(r.own, n) /\ now.ids = Append(r.ids, n) /\ now.keep = r.keep
        /\ now.calls = r.calls /\ now.up = r.up
    BY <1>1, <1>6, <1>7, <1>8 DEF RunFields, Runs!None
  <1>10. /\ x \in RunFields /\ x.at \in {"create", "wait"} /\ x.op = "none" /\ x.on = Runs!None /\ x.next = r.next
         /\ x.own = Append(r.own, n) /\ x.ids = Append(r.ids, n) /\ x.keep = r.keep
         /\ x.calls = r.calls /\ x.up = r.up
         /\ (x.at = "create" => Len(x.own) # Runs!Wanted(a))
    <2>1. CASE Len(now.own) = Runs!Wanted(a)
      <3>1. x = [now EXCEPT !.at = "wait"]
        BY <2>1
      <3> HIDE DEF x
      <3> QED
        BY <1>9, <3>1 DEF RunFields
    <2>2. CASE Len(now.own) # Runs!Wanted(a)
      <3>1. x = now
        BY <2>2
      <3> HIDE DEF x
      <3> QED
        BY <1>9, <2>2, <3>1
    <2> QED
      BY <2>1, <2>2
  <1> HIDE DEF x
  <1>11. Knows(job', a, x)
    <2>1. Knows(job', a, r)
      BY <1>1, <1>b, FitsGrown DEF Fits
    <2>2. job'[n].by = a
      BY <1>4 DEF n
    <2>3. \A i \in 1 .. Len(x.ids) : x.ids[i] \in 1 .. Len(job')
      BY <1>5, <1>6, <1>10, <2>1 DEF Knows
    <2>4. \A i \in 1 .. Len(x.own) : x.own[i] \in 1 .. Len(job') /\ job'[x.own[i]].by = a
      BY <1>5, <1>6, <1>10, <2>1, <2>2 DEF Knows
    <2> QED
      BY <1>10, <2>1, <2>3, <2>4 DEF Knows
  <1>12. r.next = 1 /\ ~r.up /\ (a \notin Sets => r.ids = << >> /\ r.own = << >>)
    BY <1>1, <1>6 DEF Fits, Enters
  <1>13. a \notin Sets => Len(x.ids) = 1 /\ Len(x.own) = 1 /\ x.at = "wait"
    BY <1>6, <1>10, <1>12 DEF Runs!Wanted
  <1>14. Len(x.ids) \in Nat /\ Len(x.ids) >= 1
    BY <1>5, <1>6, <1>10
  <1>15. AsksRight(job', a, x) /\ Enters(a, x) /\ Leaves(job', a, x)
    BY <1>10, <1>12, <1>13, <1>14 DEF AsksRight, Enters, Leaves, RunsAssumption
  <1>16. Counts(job', a, x)
    BY <1>1, <1>b, <1>10, Before DEF Counts, r, OneMore
  <1> QED
    BY <1>3, <1>b, <1>11, <1>15, <1>16, ProgramSteps DEF Fits

\* A request is dropped; the rest is what it was.
LEMMA QuietFits ==
  ASSUME NEW J, NEW a, NEW r, Fits(J, a, r)
  PROVE  /\ Fits(J, a, Runs!Quiet(r)) /\ Runs!Quiet(r) \in RunFields /\ Runs!Quiet(r).op = "none" /\ Runs!Quiet(r).on = Runs!None
         /\ Runs!Quiet(r).at = r.at /\ Runs!Quiet(r).next = r.next /\ Runs!Quiet(r).own = r.own /\ Runs!Quiet(r).ids = r.ids
         /\ Runs!Quiet(r).keep = r.keep /\ Runs!Quiet(r).calls = r.calls /\ Runs!Quiet(r).up = r.up
         /\ Runs!Quiet(r).cut = r.cut /\ Runs!Quiet(r).told = r.told /\ Runs!Quiet(r).looked = r.looked
  <1> DEFINE x == Runs!Quiet(r)
  <1>1. r \in RunFields /\ x = [r EXCEPT !.op = "none", !.on = Runs!None, !.tries = 0]
    BY DEF Fits, Knows, Runs!Quiet
  <1> HIDE DEF x
  <1>2. /\ x \in RunFields /\ x.op = "none" /\ x.on = Runs!None /\ x.at = r.at /\ x.next = r.next
        /\ x.own = r.own /\ x.ids = r.ids /\ x.keep = r.keep /\ x.calls = r.calls /\ x.up = r.up
        /\ x.cut = r.cut /\ x.told = r.told /\ x.looked = r.looked
    BY <1>1 DEF RunFields, Runs!None
  <1>3. Fits(J, a, x)
    BY <1>2 DEF Fits, Knows, AsksRight, Enters, Leaves, Covered
  <1> QED
    BY <1>2, <1>3 DEF x

\* A program that is done, having settled what it created.
LEMMA DoneFits ==
  ASSUME NEW J, NEW a, NEW r, Knows(J, a, r), r.at = "done", r.op = "none", r.on = Runs!None,
         \/ r.cut
         \/ \A k \in 1 .. Len(r.own) : \/ Covered(J, r, r.own[k]) \/ r.keep
                                       \/ a \in Ones /\ ~r.up
                                       \/ a \in Deploys /\ r.looked = "missing"
  PROVE  Fits(J, a, r)
  BY DEF Fits, AsksRight, Enters, Leaves

\* The same of a deployment, which has one job.
LEMMA OneSettled ==
  ASSUME NEW J, NEW a, NEW r, Knows(J, a, r), r.at = "done", r.op = "none", r.on = Runs!None,
         Len(r.own) = 1, NEW j, r.own[1] = j, Over(J, j)
  PROVE  Fits(J, a, r)
  <1>1. \A k \in 1 .. Len(r.own) : k = 1
    OBVIOUS
  <1>2. \A k \in 1 .. Len(r.own) : Covered(J, r, r.own[k])
    BY <1>1 DEF Covered
  <1> QED
    BY <1>2 DEF Fits, AsksRight, Enters, Leaves

\* A poll goes on to the next job, enters the block, gives up or waits on.
LEMMA PolledStep ==
  ASSUME RunsAssumption, RunsInv, NEW a \in Runs!Programs, Runs!Polled(a)
  PROVE  RunsInv'
  <1> DEFINE r == run[a]
             state == job[r.on].state
             x == CASE state = "running" /\ r.next < Len(r.ids) -> [Runs!Quiet(r) EXCEPT !.next = @ + 1]
                    [] state = "running" /\ r.next = Len(r.ids) -> [Runs!Quiet(r) EXCEPT !.at = "block", !.up = TRUE]
                    [] state \in {"failed", "cancelled"} -> Runs!Fails(a, r)
                    [] OTHER -> Runs!Quiet(r)
             q == Runs!Quiet(r)
  <1>1. Fits(job, a, r) /\ r \in RunFields /\ r.at = "wait" /\ r.op = "get" /\ job' = job
    BY Before DEF Runs!Polled
  <1>2. run' = [run EXCEPT ![a] = x]
    BY DEF Runs!Polled
  <1>3. /\ Fits(job, a, q) /\ q \in RunFields /\ q.op = "none" /\ q.on = Runs!None
        /\ q.at = "wait" /\ q.next = r.next /\ q.own = r.own /\ q.ids = r.ids
        /\ q.keep = r.keep /\ q.calls = r.calls /\ q.up = r.up
    BY <1>1, QuietFits
  <1>4. r.ids \in Seq(Nat) /\ r.next \in Nat
    BY <1>1 DEF RunFields
  <1>5. Len(r.ids) \in Nat /\ r.next \in 1 .. Len(r.ids) /\ (a \in Deploys => Len(r.ids) = 1)
    BY <1>1, <1>4 DEF Fits, Enters
  <1>6. CASE state = "running" /\ r.next < Len(r.ids)
    <2>1. x = [q EXCEPT !.next = r.next + 1]
      BY <1>3, <1>6
    <2> HIDE DEF x, q, r
    <2>2. r.next + 1 \in Nat
      BY <1>4
    <2>3. /\ x \in RunFields /\ x.op = "none" /\ x.on = Runs!None /\ x.at = "wait" /\ x.next = r.next + 1
          /\ x.own = q.own /\ x.ids = q.ids /\ x.keep = q.keep /\ x.calls = q.calls /\ x.up = q.up
      BY <1>3, <2>1, <2>2 DEF RunFields
    <2>4. Fits(job, a, x)
      BY <1>3, <1>5, <1>6, <2>3 DEF Fits, Knows, AsksRight, Enters, Leaves
    <2> QED
      BY <1>1, <1>2, <1>3, <2>3, <2>4, QuietSteps DEF r
  <1>7. CASE state = "running" /\ r.next = Len(r.ids)
    <2>1. x = [q EXCEPT !.at = "block", !.up = TRUE]
      BY <1>3, <1>5, <1>7
    <2> HIDE DEF x, q, r
    <2>3. /\ x \in RunFields /\ x.op = "none" /\ x.on = Runs!None /\ x.at = "block"
          /\ x.own = q.own /\ x.ids = q.ids /\ x.keep = q.keep /\ x.calls = q.calls
      BY <1>3, <2>1 DEF RunFields
    <2>4. Fits(job, a, x)
      BY <1>3, <1>5, <2>3 DEF Fits, Knows, AsksRight, Enters, Leaves
    <2> QED
      BY <1>1, <1>2, <1>3, <2>3, <2>4, QuietSteps DEF r
  <1>8. CASE state \in {"failed", "cancelled"}
    <2>1. x = Runs!Fails(a, r)
      BY <1>8
    <2> HIDE DEF x, q, r
    <2>2. Fits(job, a, Runs!Fails(a, r)) /\ Runs!Fails(a, r).op = "none" /\ Runs!Fails(a, r).calls = r.calls
      BY <1>1, FailsFits
    <2> QED
      BY <1>1, <1>2, <2>1, <2>2, QuietSteps DEF r
  <1>9. CASE state # "running" /\ state \notin {"failed", "cancelled"}
    <2>1. x = q
      BY <1>9
    <2> HIDE DEF x, q, state
    <2> QED
      BY <1>1, <1>2, <1>3, <2>1, QuietSteps
  <1> QED
    BY <1>5, <1>6, <1>7, <1>8, <1>9

\* A wait that runs out of time.
LEMMA TimesOutStep ==
  ASSUME RunsAssumption, RunsInv, NEW a \in Runs!Programs, Runs!TimesOut(a)
  PROVE  RunsInv'
  <1>1. Fits(job, a, Runs!Fails(a, run[a])) /\ Runs!Fails(a, run[a]).op = "none" /\ Runs!Fails(a, run[a]).calls = run[a].calls
    BY Before, FailsFits DEF Runs!TimesOut
  <1> QED
    BY <1>1, QuietSteps DEF Runs!TimesOut

\* A deployment that is found failed or cancelled is settled; another is dropped.
LEMMA LookedUpStep ==
  ASSUME RunsAssumption, RunsInv, NEW a \in Runs!Programs, Runs!LookedUp(a)
  PROVE  RunsInv'
  <1> DEFINE r == run[a]
             q == Runs!Quiet(r)
             state == job[r.on].state
             x == CASE state = "failed" -> [Runs!Quiet(r) EXCEPT !.at = "done", !.said = "holds none"]
                    [] state \in {"cancelling", "cancelled"} -> [Runs!Quiet(r) EXCEPT !.at = "done", !.said = "dropped"]
                    [] OTHER -> [Runs!Quiet(r) EXCEPT !.at = "drop"]
  <1>1. Fits(job, a, r) /\ r \in RunFields /\ r.at = "lookup" /\ r.op = "get" /\ job' = job
    BY Before DEF Runs!LookedUp
  <1>2. run' = [run EXCEPT ![a] = x]
    BY DEF Runs!LookedUp
  <1>3. /\ Fits(job, a, q) /\ q \in RunFields /\ q.op = "none" /\ q.on = Runs!None
        /\ q.at = "lookup" /\ q.own = r.own /\ q.ids = r.ids
        /\ q.keep = r.keep /\ q.calls = r.calls /\ q.told = r.told
    BY <1>1, QuietFits
  <1>4. a \in Deploys /\ ~r.keep /\ Len(r.own) = 1 /\ r.on = r.own[1]
    BY <1>1 DEF Fits, Leaves, AsksRight
  <1> HIDE DEF q, r
  <1>5. CASE state \in {"failed", "cancelling", "cancelled"}
    <2>1. PICK said \in {"holds none", "dropped"} : x = [q EXCEPT !.at = "done", !.said = said]
      BY <1>5 DEF q
    <2> HIDE DEF x
    <2>2. /\ x \in RunFields /\ x.op = "none" /\ x.on = Runs!None /\ x.at = "done"
          /\ x.own = q.own /\ x.ids = q.ids /\ x.keep = q.keep /\ x.calls = q.calls /\ x.told = q.told
      BY <1>3, <2>1 DEF RunFields
    <2>3. Knows(job, a, x)
      BY <1>3, <2>2 DEF Fits, Knows
    <2>5. Over(job, r.on)
      BY <1>5 DEF Over, Runs!Live
    <2>4. x.own[1] = r.on /\ Len(x.own) = 1
      BY <1>3, <1>4, <2>2
    <2>6. Fits(job, a, x)
      BY <2>2, <2>3, <2>4, <2>5, OneSettled
    <2> QED
      BY <1>1, <1>2, <1>3, <2>2, <2>6, QuietSteps DEF r
  <1>6. CASE state \notin {"failed", "cancelling", "cancelled"}
    <2>1. x = [q EXCEPT !.at = "drop"]
      BY <1>6 DEF q
    <2> HIDE DEF x
    <2>2. /\ x \in RunFields /\ x.op = "none" /\ x.on = Runs!None /\ x.at = "drop"
          /\ x.own = q.own /\ x.ids = q.ids /\ x.keep = q.keep /\ x.calls = q.calls
      BY <1>3, <2>1 DEF RunFields
    <2>3. Fits(job, a, x)
      BY <1>3, <1>4, <2>2 DEF Fits, Knows, AsksRight, Enters, Leaves
    <2> QED
      BY <1>1, <1>2, <1>3, <2>2, <2>3, QuietSteps DEF r
  <1> QED
    BY <1>5, <1>6

\* What a cancellation does to the jobs: it takes one of the program's own.
LEMMA CancelChanges ==
  ASSUME RunsAssumption, RunsInv, NEW a \in Runs!Programs, run[a].op = "cancel", job' = Runs!CancelTaken(run[a].on)
  PROVE  /\ Jobs(job') /\ Grown(job, job') /\ Over(job', run[a].on)
         /\ \A b : SameJobs(job, job', b)
  <1> DEFINE r == run[a]
             j == r.on
             x == [job[j] EXCEPT !.state = IF @ \in Runs!Live THEN "cancelling" ELSE @]
  <1>1. Fits(job, a, r) /\ Jobs(job)
    BY Before
  <1>2. j \in 1 .. Len(job) /\ job[j].by = a
    BY <1>1 DEF Fits, AsksRight, Leaves, Knows
  <1>3. job[j] \in JobFields
    BY <1>1, <1>2 DEF Jobs
  <1>4. x \in JobFields /\ x.by = job[j].by /\ x.state \notin Runs!Live /\ (Over(job, j) => x.state \notin Runs!Live)
    BY <1>3 DEF JobFields, States, Over, Runs!Live
  <1>5. j # Runs!Theirs
    BY <1>1, <1>2 DEF Jobs, RunsAssumption
  <1>6. IsChange(job, job', j, x)
    BY DEF Runs!CancelTaken, IsChange
  <1> HIDE DEF x, j
  <1>7. Jobs(job') /\ Grown(job, job') /\ (\A b : SameJobs(job, job', b)) /\ Is(job', j, x)
    BY <1>1, <1>2, <1>4, <1>5, <1>6, Changed
  <1> QED
    BY <1>4, <1>7 DEF Over, Is, j

\* A cancellation settles the job it was for.
LEMMA CancelledStep ==
  ASSUME RunsAssumption, RunsInv, NEW a \in Runs!Programs, Runs!Cancelled(a)
  PROVE  RunsInv'
  <1> DEFINE r == run[a]
             s == IF a \in Deploys THEN [r EXCEPT !.said = "dropped"] ELSE r
             x == Runs!NextCancel(a, s)
  <1>1. /\ Fits(job, a, r) /\ r \in RunFields /\ r.op = "cancel" /\ Counts(job, a, r) /\ Len(job) \in Nat
        /\ Cardinality(JobsOf(job, a)) \in Nat /\ r.calls \in Nat
    BY Before DEF Runs!Cancelled
  <1>2. run' = [run EXCEPT ![a] = x]
    BY DEF Runs!Cancelled
  <1>3. Jobs(job') /\ Grown(job, job') /\ Over(job', r.on) /\ \A b : SameJobs(job, job', b)
    BY CancelChanges DEF Runs!Cancelled
  <1>4. /\ s \in RunFields /\ s.at = r.at /\ s.op = r.op /\ s.on = r.on /\ s.next = r.next
        /\ s.own = r.own /\ s.ids = r.ids /\ s.keep = r.keep /\ s.calls = r.calls
        /\ s.up = r.up /\ s.cut = r.cut /\ s.told = r.told /\ s.looked = r.looked
    BY <1>1 DEF RunFields
  <1>5. Fits(job', a, r)
    BY <1>1, <1>3, FitsGrown
  <1> HIDE DEF s, r
  <1>6. Knows(job', a, s) /\ Leaves(job', a, s)
    BY <1>4, <1>5 DEF Fits, Knows, Leaves, Covered
  <1>7. r.at \in {"cancel", "drop"} /\ r.on = r.own[IF r.at = "cancel" THEN r.next ELSE 1]
    BY <1>1 DEF Fits, AsksRight
  <1>8. Covered(job', s, s.own[IF s.at = "cancel" THEN s.next ELSE 1])
    BY <1>3, <1>4, <1>7 DEF Covered
  <1>9. Fits(job', a, x) /\ x.op = "none" /\ x.calls = s.calls
    BY <1>4, <1>6, <1>7, <1>8, NextFits
  <1> HIDE DEF x
  <1>10. Counts(job', a, x)
    BY <1>1, <1>3, <1>4, <1>9 DEF Counts, SameJobs
  <1> QED
    BY <1>2, <1>3, <1>9, <1>10, ProgramSteps

\* A request that came to nothing, of which the service may have done what it asked all the same.
LEMMA LostStep ==
  ASSUME RunsAssumption, RunsInv, NEW a \in Runs!Programs, NEW x, run' = [run EXCEPT ![a] = x],
         Fits(job, a, x), x.calls = run[a].calls,
         x.op = "create" => run[a].op = "create" /\ job' = job,
         \/ job' = job
         \/ run[a].op = "create" /\ job' \in Runs!Made(a)
         \/ run[a].op = "cancel" /\ job' = Runs!CancelTaken(run[a].on)
  PROVE  RunsInv'
  <1> DEFINE r == run[a]
  <1>1. /\ Counts(job, a, r) /\ Len(job) \in Nat /\ Jobs(job)
        /\ Cardinality(JobsOf(job, a)) \in Nat /\ r.calls \in Nat
    BY Before
  <1>2. CASE job' = job
    BY <1>2, QuietSteps
  <1>3. CASE r.op = "create" /\ job' \in Runs!Made(a) /\ job' # job
    <2>1. PICK new \in JobFields : new.by = a /\ job' = Append(job, new)
      BY <1>3, MadeFields
    <2>2. IsNew(job, job', a, new)
      BY <2>1 DEF IsNew
    <2>3. /\ Jobs(job') /\ Grown(job, job')
          /\ OneMore(job, job', a) /\ \A b \in Runs!Programs : b # a => SameJobs(job, job', b)
      BY <1>1, <2>2, Appended
    <2>4. Fits(job', a, x)
      BY <2>3, FitsGrown
    <2>5. Counts(job', a, x)
      BY <1>1, <1>3, <2>3 DEF Counts, OneMore
    <2> QED
      BY <2>3, <2>4, <2>5, ProgramSteps
  <1>4. CASE r.op = "cancel" /\ job' = Runs!CancelTaken(r.on)
    <2>1. Jobs(job') /\ Grown(job, job') /\ \A b : SameJobs(job, job', b)
      BY <1>4, CancelChanges
    <2>2. Fits(job', a, x)
      BY <2>1, FitsGrown
    <2>3. Counts(job', a, x)
      BY <1>1, <1>4, <2>1 DEF Counts, SameJobs
    <2> QED
      BY <2>1, <2>2, <2>3, ProgramSteps
  <1> QED
    BY <1>2, <1>3, <1>4

\* A request that fails is sent again or given up.
LEMMA FailureStep ==
  ASSUME RunsAssumption, RunsInv, NEW a \in Runs!Programs, NEW b, run[a].op # "none",
         run' = [run EXCEPT ![a] = Runs!Failure(a, run[a], b)],
         run[a].op = "create" /\ b => job' = job,
         \/ job' = job
         \/ run[a].op = "create" /\ job' \in Runs!Made(a)
         \/ run[a].op = "cancel" /\ job' = Runs!CancelTaken(run[a].on)
  PROVE  RunsInv'
  <1> DEFINE x == Runs!Failure(a, run[a], b)
  <1>1. /\ Fits(job, a, x) /\ x.calls = run[a].calls
        /\ x.op \in {"none", run[a].op} /\ (~b => x.op = "none")
    <2>1. Fits(job, a, run[a])
      BY Before
    <2> QED
      BY <2>1, FailureFits
  <1> HIDE DEF x
  <1> QED
    BY <1>1, LostStep DEF x

\* A job that the service does not show.
LEMMA MissingStep ==
  ASSUME RunsAssumption, RunsInv, NEW a \in Runs!Programs, Runs!Missing(a)
  PROVE  RunsInv'
  <1> DEFINE r == run[a]
             q == Runs!Quiet(r)
  <1>1. Fits(job, a, r) /\ r \in RunFields /\ r.op \in {"get", "cancel"} /\ job' = job
    BY Before DEF Runs!Missing
  <1>2. CASE ~(a \in Deploys /\ r.at = "lookup")
    <2>1. run' = [run EXCEPT ![a] = Runs!Failure(a, r, ~Runs!Final(a, r))]
      BY <1>2 DEF Runs!Missing
    <2> QED
      BY <1>1, <2>1, FailureStep
  <1>3. CASE a \in Deploys /\ r.at = "lookup"
    <2> DEFINE x == [Runs!Quiet(r) EXCEPT !.at = "done", !.said = "dropped", !.looked = "missing"]
    <2>1. run' = [run EXCEPT ![a] = x]
      BY <1>3 DEF Runs!Missing
    <2>2. /\ Fits(job, a, q) /\ q \in RunFields /\ q.op = "none" /\ q.on = Runs!None
          /\ q.calls = r.calls
      BY <1>1, QuietFits
    <2>3. x = [q EXCEPT !.at = "done", !.said = "dropped", !.looked = "missing"]
      OBVIOUS
    <2> HIDE DEF x, q, r
    <2>4. /\ x \in RunFields /\ x.op = "none" /\ x.on = Runs!None /\ x.at = "done" /\ x.looked = "missing"
          /\ x.own = q.own /\ x.ids = q.ids /\ x.keep = q.keep /\ x.calls = q.calls
      BY <2>2, <2>3 DEF RunFields
    <2>5. Knows(job, a, x)
      BY <2>2, <2>4 DEF Fits, Knows
    <2>6. Fits(job, a, x)
      BY <1>3, <2>4, <2>5 DEF Fits, AsksRight, Enters, Leaves
    <2> QED
      BY <1>1, <2>1, <2>2, <2>4, <2>6, QuietSteps DEF r
  <1> QED
    BY <1>2, <1>3

\* The end of the block.
LEMMA EndBlockStep ==
  ASSUME RunsAssumption, RunsInv, NEW a \in Runs!Programs, Runs!EndBlock(a)
  PROVE  RunsInv'
  <1>1. Fits(job, a, run[a]) /\ run[a].at = "block"
    BY Before DEF Runs!EndBlock
  <1>2. Knows(job, a, run[a]) /\ (a \in Deploys => Len(run[a].ids) = 1)
    BY <1>1 DEF Fits, Enters
  <1>3. Fits(job, a, Runs!Leave(a, run[a])) /\ Runs!Leave(a, run[a]).op = "none" /\ Runs!Leave(a, run[a]).calls = run[a].calls
    BY <1>2, LeaveFits
  <1>4. run' = [run EXCEPT ![a] = Runs!Leave(a, run[a])] /\ job' = job
    BY DEF Runs!EndBlock
  <1> QED
    BY <1>3, <1>4, QuietSteps

\* An interrupt leaves the block, gives up, or cuts the way out short.
LEMMA InterruptStep ==
  ASSUME RunsAssumption, RunsInv, NEW a \in Runs!Programs, Runs!Interrupt(a)
  PROVE  RunsInv'
  <1> DEFINE r == run[a]
             q == Runs!Quiet(r)
             x == CASE r.at = "block" -> Runs!Leave(a, r)
                    [] r.at \in {"create", "wait"} -> Runs!Fails(a, r)
                    [] OTHER -> [Runs!Quiet(r) EXCEPT !.at = "done", !.cut = TRUE]
  <1>1. Fits(job, a, r) /\ r \in RunFields
    BY Before
  <1>2. run' = [run EXCEPT ![a] = x] /\ (job' = job \/ (r.op = "create" /\ job' \in Runs!Made(a)))
    BY DEF Runs!Interrupt
  <1>3. CASE r.at = "block"
    <2>1. x = Runs!Leave(a, r)
      BY <1>3
    <2> HIDE DEF x, q, r
    <2>2. Knows(job, a, r) /\ (a \in Deploys => Len(r.ids) = 1)
      BY <1>1, <1>3 DEF Fits, Enters
    <2>3. Fits(job, a, Runs!Leave(a, r)) /\ Runs!Leave(a, r).op = "none" /\ Runs!Leave(a, r).calls = r.calls
      BY <2>2, LeaveFits
    <2> QED
      BY <1>2, <2>1, <2>3, LostStep DEF r
  <1>4. CASE r.at \in {"create", "wait"}
    <2>1. x = Runs!Fails(a, r)
      BY <1>4
    <2> HIDE DEF x, q, r
    <2>2. Fits(job, a, Runs!Fails(a, r)) /\ Runs!Fails(a, r).op = "none" /\ Runs!Fails(a, r).calls = r.calls
      BY <1>1, <1>4, FailsFits
    <2> QED
      BY <1>2, <2>1, <2>2, LostStep DEF r
  <1>5. CASE r.at \notin {"block", "create", "wait"}
    <2>1. x = [q EXCEPT !.at = "done", !.cut = TRUE]
      BY <1>5
    <2>2. /\ Fits(job, a, q) /\ q \in RunFields /\ q.op = "none" /\ q.on = Runs!None
          /\ q.calls = r.calls
      BY <1>1, QuietFits
    <2> HIDE DEF x, q, r
    <2>3. /\ x \in RunFields /\ x.op = "none" /\ x.on = Runs!None /\ x.at = "done" /\ x.cut
          /\ x.own = q.own /\ x.ids = q.ids /\ x.keep = q.keep /\ x.calls = q.calls
      BY <2>1, <2>2 DEF RunFields
    <2>4. Knows(job, a, x)
      BY <2>2, <2>3 DEF Fits, Knows
    <2>5. Fits(job, a, x)
      BY <2>3, <2>4 DEF Fits, AsksRight, Enters, Leaves
    <2> QED
      BY <1>2, <2>2, <2>3, <2>5, LostStep DEF r
  <1> QED
    BY <1>3, <1>4, <1>5

MayBecome(J, K, j, x) ==
  /\ x \in JobFields /\ IsChange(J, K, j, x) /\ x.by = J[j].by
  /\ Over(J, j) => x.state \notin Runs!Live
  /\ j = Runs!Theirs => x.state \notin {"cancelling", "cancelled"}

\* The service's own steps.
LEMMA JobMovesStep ==
  ASSUME RunsAssumption, RunsInv, NEW j \in 1 .. Len(job), Runs!JobMoves(j)
  PROVE  RunsInv'
  <1>1. Jobs(job) /\ Len(job) \in Nat /\ run' = run /\ job[j] \in JobFields
    BY DEF RunsInv, Jobs, Runs!JobMoves
  <1>a. j = Runs!Theirs => job[j].state \notin {"cancelling", "cancelled"}
    BY <1>1 DEF Jobs
  <1>b. ASSUME NEW state \in States, job' = [job EXCEPT ![j].state = state],
               job[j].state \in Runs!Live \/ state \notin Runs!Live, j = Runs!Theirs => state \notin {"cancelling", "cancelled"}
        PROVE  \E x : MayBecome(job, job', j, x)
    <2> DEFINE x == [job[j] EXCEPT !.state = state]
    <2>1. x \in JobFields /\ x.by = job[j].by /\ x.state = state
      BY <1>1 DEF JobFields
    <2>2. IsChange(job, job', j, x)
      BY <1>b DEF IsChange
    <2> HIDE DEF x
    <2> QED
      BY <1>b, <2>1, <2>2 DEF Over, MayBecome
  <1>c. ASSUME job' = [job EXCEPT ![j].seen = TRUE]
        PROVE  \E x : MayBecome(job, job', j, x)
    <2> DEFINE x == [job[j] EXCEPT !.seen = TRUE]
    <2>1. x \in JobFields /\ x.by = job[j].by /\ x.state = job[j].state
      BY <1>1 DEF JobFields
    <2>2. IsChange(job, job', j, x)
      BY <1>c DEF IsChange
    <2> HIDE DEF x
    <2> QED
      BY <1>a, <2>1, <2>2 DEF Over, MayBecome
  <1>2. PICK x : MayBecome(job, job', j, x)
    <2>1. CASE job[j].state = "pending" /\ job' = [job EXCEPT ![j].state = "running"]
      <3>1. "running" \in States /\ "running" \notin {"cancelling", "cancelled"} /\ job[j].state \in Runs!Live
        BY <2>1 DEF States, Runs!Live
      <3> QED
        BY <1>b, <2>1, <3>1
    <2>2. CASE job[j].state = "cancelling" /\ job' = [job EXCEPT ![j].state = "cancelled"]
      <3>1. "cancelled" \in States /\ "cancelled" \notin Runs!Live /\ j # Runs!Theirs
        BY <1>a, <2>2 DEF States, Runs!Live
      <3> QED
        BY <1>b, <2>2, <3>1
    <2>3. CASE job[j].state \in Runs!Live /\ job' = [job EXCEPT ![j].state = "failed"]
      <3>1. "failed" \in States /\ "failed" \notin {"cancelling", "cancelled"}
        BY DEF States
      <3> QED
        BY <1>b, <2>3, <3>1
    <2>4. CASE job' = [job EXCEPT ![j].seen = TRUE]
      BY <1>c, <2>4
    <2> QED
      BY <2>1, <2>2, <2>3, <2>4 DEF Runs!JobMoves
  <1>3. Jobs(job') /\ Grown(job, job') /\ \A b : SameJobs(job, job', b)
    BY <1>1, <1>2, Changed DEF MayBecome
  <1>4. ASSUME NEW a \in Runs!Programs PROVE Fits(job', a, run[a]) /\ Counts(job', a, run[a])
    BY <1>3, Before, FitsGrown DEF Counts, SameJobs
  <1> QED
    BY <1>1, <1>3, <1>4 DEF RunsInv

\* At first nobody has a job but the one that was there before.
LEMMA StartsRight ==
  ASSUME RunsAssumption, Runs!Init
  PROVE  RunsInv
  <1> DEFINE one == [state |-> "pending", by |-> "another", seen |-> TRUE]
  <1>1. job = <<one>> /\ one \in JobFields
    BY DEF Runs!Init, JobFields, States
  <1> HIDE DEF one
  <1>2. job \in Seq(JobFields) /\ Len(job) = 1 /\ job[1] = one
    BY <1>1
  <1>3. Jobs(job)
    BY <1>2 DEF Jobs, Runs!Theirs, one
  <1>4. PICK attached \in SUBSET Runs!Programs, keeping \in SUBSET Runs!Programs :
          /\ attached \ Sets \subseteq keeping
          /\ run = [a \in Runs!Programs |-> Runs!Started(a, a \in attached, a \in keeping)]
    BY DEF Runs!Init
  <1>5. ASSUME NEW a \in Runs!Programs PROVE Fits(job, a, run[a]) /\ Counts(job, a, run[a]) /\ run[a] \in RunFields
    <2> DEFINE r == run[a]
    <2>1. r = Runs!Started(a, a \in attached, a \in keeping)
      BY <1>4
    <2>2. /\ r.at = IF a \in attached /\ a \notin Sets THEN "wait" ELSE "create"
          /\ r.op = "none" /\ r.on = Runs!None /\ r.ids = (IF a \in attached THEN <<Runs!Theirs>> ELSE << >>)
          /\ r.own = << >> /\ r.calls = 0 /\ r.next = 1 /\ r.keep = (a \in keeping) /\ ~r.up
      BY <2>1 DEF Runs!Started
    <2>3. r \in RunFields
      BY <2>1 DEF Runs!Started, RunFields, Runs!None, Runs!Theirs
    <2> HIDE DEF r
    <2>4. (\A i \in 1 .. Len(r.ids) : r.ids[i] \in 1 .. Len(job)) /\ Len(r.own) = 0
      BY <1>2, <2>2 DEF Runs!Theirs
    <2>5. a \notin Sets /\ ~r.keep => r.ids = r.own
      BY <1>4, <2>2
    <2>6. Knows(job, a, r)
      BY <2>3, <2>4, <2>5 DEF Knows
    <2>7. AsksRight(job, a, r) /\ Enters(a, r) /\ Leaves(job, a, r)
      BY <2>2 DEF AsksRight, Enters, Leaves, RunsAssumption
    <2>8. JobsOf(job, a) = {}
      BY <1>2 DEF JobsOf, one, RunsAssumption
    <2>9. Counts(job, a, r)
      BY <2>2, <2>8, FS_EmptySet DEF Counts
    <2> QED
      BY <2>3, <2>6, <2>7, <2>9 DEF Fits, r
  <1>6. run \in [Runs!Programs -> RunFields]
    BY <1>4, <1>5
  <1> QED
    BY <1>3, <1>5, <1>6 DEF RunsInv

\* Each step of a script or of the service keeps what the invariant says of every script.
LEMMA RunsHold == RunsAssumption => (Runs!Spec => []RunsInv)
  <1> SUFFICES ASSUME RunsAssumption PROVE Runs!Spec => []RunsInv
    OBVIOUS
  <1>1. Runs!Init => RunsInv
    BY StartsRight
  <1>2. RunsInv /\ [Runs!Next]_(Runs!vars) => RunsInv'
    <2> SUFFICES ASSUME RunsInv, [Runs!Next]_(Runs!vars) PROVE RunsInv'
      OBVIOUS
    <2>1. CASE UNCHANGED Runs!vars
      BY <2>1 DEF Runs!vars, RunsInv
    <2>2. ASSUME NEW a \in Runs!Programs, Runs!Program(a) PROVE RunsInv'
      <3>1. CASE Runs!Conflict(a)
        BY <3>1, FailureStep DEF Runs!Conflict
      <3>2. CASE Runs!Refused(a)
        BY <3>2, FailureStep DEF Runs!Refused
      <3>3. CASE Runs!Unanswered(a)
        BY <3>3, FailureStep DEF Runs!Unanswered, Runs!Retries
      <3> QED
        BY <2>2, <3>1, <3>2, <3>3, BeginStep, CreatedStep, PolledStep, TimesOutStep, LookedUpStep,
           CancelledStep, MissingStep, EndBlockStep, InterruptStep DEF Runs!Program
    <2> QED
      BY <2>1, <2>2, JobMovesStep DEF Runs!Next
  <1> QED
    BY <1>1, <1>2, PTL DEF Runs!Spec

-----------------------------------------------------------------------------
(* The jobs that a program never heard of.                                   *)

OwnOf(r) == {r.own[i] : i \in 1 .. Len(r.own)}
UnheardOf(J, a, r) == JobsOf(J, a) \ OwnOf(r)

\* A job that its program has not got is of its last create, whose answer was lost or interrupted.
Heard(J, a, r, gone) ==
  /\ a \in gone => r.at # "create"
  /\ a \notin gone => UnheardOf(J, a, r) = {}
  /\ \A j, k \in UnheardOf(J, a, r) : j = k
HeardInv == \A a \in Runs!Programs : Heard(job, a, run[a], lost)

\* A program goes on with the jobs it had, and does not come back to creating.
Keeps(r, x) == x.own = r.own /\ (x.at = "create" => r.at = "create")

LEMMA QuietKeeps ==
  ASSUME NEW r \in RunFields
  PROVE  Keeps(r, Runs!Quiet(r)) /\ Runs!Quiet(r) \in RunFields
  BY DEF Keeps, Runs!Quiet, Runs!None, RunFields

LEMMA LeaveKeeps ==
  ASSUME NEW a, NEW r \in RunFields
  PROVE  Keeps(r, Runs!Leave(a, r)) /\ Runs!Leave(a, r).at # "create"
  BY DEF Keeps, Runs!Leave, Runs!Quiet, Runs!None, RunFields

LEMMA FailsKeeps ==
  ASSUME NEW a, NEW r \in RunFields
  PROVE  Keeps(r, Runs!Fails(a, r)) /\ Runs!Fails(a, r).at # "create"
  <1>1. CASE a \in Sets \/ (a \in Deploys /\ r.at = "wait")
    BY <1>1, LeaveKeeps DEF Runs!Fails
  <1>2. CASE ~(a \in Sets \/ (a \in Deploys /\ r.at = "wait"))
    BY <1>2 DEF Keeps, Runs!Fails, Runs!Quiet, Runs!None, RunFields
  <1> QED
    BY <1>1, <1>2

LEMMA NextKeeps ==
  ASSUME NEW a, NEW r \in RunFields
  PROVE  Keeps(r, Runs!NextCancel(a, r))
  BY DEF Keeps, Runs!NextCancel, Runs!Quiet, Runs!None, RunFields

LEMMA FailureKeeps ==
  ASSUME NEW a, NEW r \in RunFields, r.at \in {"create", "wait", "cancel", "lookup", "drop"}, NEW b
  PROVE  Keeps(r, Runs!Failure(a, r, b)) /\ (~b /\ r.at = "create" => Runs!Failure(a, r, b).at # "create")
  <1>1. CASE b /\ r.tries + 1 < Attempts
    BY <1>1 DEF Runs!Failure, Runs!Again, Keeps, RunFields
  <1>2. CASE ~(b /\ r.tries + 1 < Attempts)
    <2>1. Runs!Failure(a, r, b) = Runs!Raised(a, r)
      BY <1>2 DEF Runs!Failure
    <2>2. CASE r.at \in {"create", "wait"}
      BY <2>1, <2>2, FailsKeeps DEF Runs!Raised
    <2>3. CASE r.at \in {"cancel", "lookup", "drop"}
      <3> DEFINE s == [r EXCEPT !.told = @ \cup {r.on}]
      <3>1. s \in RunFields /\ Keeps(r, s) /\ s.at = r.at
        BY DEF RunFields, Keeps
      <3>2. Runs!Raised(a, r) = Runs!NextCancel(a, s)
        BY <2>3 DEF Runs!Raised
      <3> HIDE DEF s
      <3>3. Keeps(s, Runs!NextCancel(a, s))
        BY <3>1, NextKeeps
      <3> QED
        BY <2>1, <2>3, <3>1, <3>2, <3>3 DEF Keeps
    <2> QED
      BY <2>2, <2>3
  <1> QED
    BY <1>1, <1>2

\* A step in which nobody's jobs change, and its program keeps those it knows.
LEMMA HeardSteps ==
  ASSUME RunsInv, HeardInv, NEW a \in Runs!Programs, NEW x, run' = [run EXCEPT ![a] = x], lost' = lost,
         Keeps(run[a], x), \A b \in Runs!Programs : SameJobs(job, job', b)
  PROVE  HeardInv'
  <1>1. ASSUME NEW b \in Runs!Programs PROVE Heard(job', b, run'[b], lost')
    <2>1. JobsOf(job', b) = JobsOf(job, b)
      BY DEF SameJobs
    <2>2. run'[b].own = run[b].own /\ (run'[b].at = "create" => run[b].at = "create")
      BY DEF RunsInv, Keeps
    <2>3. UnheardOf(job', b, run'[b]) = UnheardOf(job, b, run[b])
      BY <2>1, <2>2 DEF UnheardOf, OwnOf
    <2> QED
      BY <2>2, <2>3 DEF HeardInv, Heard
  <1> QED
    BY <1>1 DEF HeardInv

\* A create that may have been handled, and of which the program does not hear.
LEMMA LosingSteps ==
  ASSUME RunsAssumption, RunsInv, HeardInv, NEW a \in Runs!Programs, NEW x, run' = [run EXCEPT ![a] = x],
         Keeps(run[a], x), lost' = Runs!Losing(a),
         run[a].op = "create" => x.at # "create",
         \/ job' = job
         \/ run[a].op = "create" /\ job' \in Runs!Made(a)
         \/ run[a].op = "cancel" /\ job' = Runs!CancelTaken(run[a].on)
  PROVE  HeardInv'
  <1>1. CASE run[a].op # "create"
    <2>1. lost' = lost
      BY <1>1 DEF Runs!Losing
    <2>2. \A b \in Runs!Programs : SameJobs(job, job', b)
      BY <1>1, CancelChanges DEF SameJobs
    <2> QED
      BY <2>1, <2>2, HeardSteps
  <1>2. CASE run[a].op = "create"
    <2>1. run[a].at = "create" /\ lost' = lost \cup {a} /\ Jobs(job) /\ Len(job) \in Nat
      BY <1>2, Before DEF Fits, AsksRight, Runs!Losing
    <2>2. JobsOf(job, a) \subseteq OwnOf(run[a])
      BY <2>1 DEF HeardInv, Heard, UnheardOf
    <2>3. run' \in [Runs!Programs -> RunFields \cup {x}] /\ run'[a] = x /\ \A b \in Runs!Programs : b # a => run'[b] = run[b]
      BY DEF RunsInv
    <2>4. OwnOf(x) = OwnOf(run[a])
      BY DEF Keeps, OwnOf
    <2>5. /\ JobsOf(job', a) \subseteq JobsOf(job, a) \cup {Len(job) + 1}
          /\ \A b \in Runs!Programs : b # a => JobsOf(job', b) = JobsOf(job, b)
      <3>1. CASE job' = job
        BY <3>1
      <3>2. CASE job' \in Runs!Made(a)
        <4>1. PICK new \in JobFields : new.by = a /\ job' = Append(job, new)
          BY <3>2, MadeFields
        <4>2. job \in Seq(JobFields)
          BY <2>1 DEF Jobs
        <4>3. Len(job') = Len(job) + 1 /\ job'[Len(job) + 1] = new /\ \A j \in 1 .. Len(job) : job'[j] = job[j]
          BY <4>1, <4>2
        <4> QED
          BY <2>1, <4>1, <4>3 DEF JobsOf
      <3> QED
        BY <1>2, <3>1, <3>2
    <2>6. Heard(job', a, run'[a], lost')
      <3>1. UnheardOf(job', a, x) \subseteq {Len(job) + 1}
        BY <2>2, <2>4, <2>5 DEF UnheardOf
      <3> QED
        BY <1>2, <2>1, <2>3, <3>1 DEF Heard
    <2>7. ASSUME NEW b \in Runs!Programs, b # a PROVE Heard(job', b, run'[b], lost')
      <3>1. UnheardOf(job', b, run'[b]) = UnheardOf(job, b, run[b]) /\ run'[b] = run[b]
        BY <2>3, <2>5, <2>7 DEF UnheardOf
      <3>2. b \in lost' <=> b \in lost
        BY <2>1, <2>7
      <3> QED
        BY <3>1, <3>2 DEF HeardInv, Heard
    <2> QED
      BY <2>6, <2>7 DEF HeardInv
  <1> QED
    BY <1>1, <1>2

\* The answer to a create names its job.
LEMMA CreatedHeard ==
  ASSUME RunsAssumption, RunsInv, HeardInv, NEW a \in Runs!Programs, Runs!Created(a)
  PROVE  HeardInv'
  <1> DEFINE r == run[a]
             n == Len(job) + 1
             now == [Runs!Quiet(r) EXCEPT !.ids = Append(@, n), !.own = Append(@, n)]
             x == IF Len(now.own) = Runs!Wanted(a) THEN [now EXCEPT !.at = "wait"] ELSE now
  <1>1. Fits(job, a, r) /\ r \in RunFields /\ r.op = "create" /\ r.at = "create" /\ Jobs(job) /\ Len(job) \in Nat
    BY Before DEF Runs!Created, Fits, AsksRight
  <1>2. run' = [run EXCEPT ![a] = x] /\ lost' = lost
    BY DEF Runs!Created
  <1>3. PICK new \in JobFields : new.by = a /\ job' = Append(job, new)
    BY MadeFields DEF Runs!Created
  <1>4. job \in Seq(JobFields)
    BY <1>1 DEF Jobs
  <1>5. Len(job') = n /\ job'[n] = new /\ \A j \in 1 .. Len(job) : job'[j] = job[j]
    BY <1>3, <1>4
  <1>6. JobsOf(job', a) \subseteq JobsOf(job, a) \cup {n} /\ \A b \in Runs!Programs : b # a => JobsOf(job', b) = JobsOf(job, b)
    BY <1>1, <1>3, <1>5 DEF JobsOf
  <1>7. r.own \in Seq(Nat) /\ n \in Nat
    <2>1. r.own \in Seq(Nat)
      BY <1>1 DEF RunFields
    <2> QED
      BY <1>1, <2>1
  <1>8. x.own = Append(r.own, n)
    <2>1. now.own = Append(r.own, n) /\ [now EXCEPT !.at = "wait"].own = now.own
      BY <1>1 DEF Runs!Quiet, Runs!None, RunFields
    <2> QED
      BY <2>1
  <1>9. /\ run'[a] = x /\ \A b \in Runs!Programs : b # a => run'[b] = run[b]
    BY <1>2 DEF RunsInv
  <1> HIDE DEF x, now, n, r
  <1>10. OwnOf(r) \cup {n} \subseteq OwnOf(x)
    BY <1>7, <1>8 DEF OwnOf
  <1>11. a \notin lost /\ JobsOf(job, a) \subseteq OwnOf(r)
    BY <1>1 DEF HeardInv, Heard, UnheardOf, r
  <1>12. Heard(job', a, run'[a], lost')
    BY <1>2, <1>6, <1>9, <1>10, <1>11 DEF Heard, UnheardOf
  <1>13. ASSUME NEW b \in Runs!Programs, b # a PROVE Heard(job', b, run'[b], lost')
    BY <1>2, <1>6, <1>9, <1>13 DEF HeardInv, Heard, UnheardOf
  <1> QED
    BY <1>12, <1>13 DEF HeardInv

\* The steps by which a program goes on with the jobs it knows.
LEMMA PlainHeard ==
  ASSUME RunsAssumption, RunsInv, HeardInv, NEW a \in Runs!Programs,
         \/ Runs!Begin(a) \/ Runs!Polled(a) \/ Runs!TimesOut(a) \/ Runs!LookedUp(a) \/ Runs!Cancelled(a)
         \/ Runs!Conflict(a) \/ Runs!Missing(a) \/ Runs!Refused(a) \/ Runs!EndBlock(a)
  PROVE  HeardInv'
  <1> DEFINE r == run[a]
  <1>1. r \in RunFields /\ (r.op # "none" => r.at \in {"create", "wait", "cancel", "lookup", "drop"})
    BY Before DEF Fits, AsksRight
  <1>2. lost' = lost /\ \A b \in Runs!Programs : SameJobs(job, job', b)
    <2>1. CASE Runs!Cancelled(a)
      BY <2>1, CancelChanges DEF Runs!Cancelled
    <2> QED
      BY <2>1 DEF SameJobs, Runs!Begin, Runs!Polled, Runs!TimesOut, Runs!LookedUp, Runs!Conflict, Runs!Missing,
                  Runs!Refused, Runs!EndBlock
  <1>3. \E x : run' = [run EXCEPT ![a] = x] /\ Keeps(r, x)
    <2>1. CASE Runs!Begin(a)
      <3>1. ASSUME NEW op, NEW j PROVE Keeps(r, Runs!Asks(r, op, j)) /\ Keeps(r, [Runs!Asks(r, op, j) EXCEPT !.calls = @ + 1])
        BY <1>1 DEF Keeps, Runs!Asks, RunFields
      <3>2. \/ run' = [run EXCEPT ![a] = [Runs!Asks(r, "create", Runs!None) EXCEPT !.calls = @ + 1]]
            \/ \E op, j : run' = [run EXCEPT ![a] = Runs!Asks(r, op, j)]
        <4>1. CASE r.at = "create"
          BY <2>1, <4>1 DEF Runs!Begin
        <4>2. CASE r.at # "create"
          BY <2>1, <4>2 DEF Runs!Begin
        <4> QED
          BY <4>1, <4>2
      <3> QED
        BY <3>1, <3>2
    <2>2. CASE Runs!Polled(a)
      <3> DEFINE q == Runs!Quiet(r)
      <3>1. Keeps(r, q) /\ q \in RunFields
        BY <1>1, QuietKeeps
      <3>2. Keeps(r, [q EXCEPT !.next = @ + 1]) /\ Keeps(r, [q EXCEPT !.at = "block", !.up = TRUE])
        BY <3>1 DEF Keeps, RunFields
      <3>3. Keeps(r, Runs!Fails(a, r))
        BY <1>1, FailsKeeps
      <3> DEFINE state == job[r.on].state
                 x == CASE state = "running" /\ r.next < Len(r.ids) -> [q EXCEPT !.next = @ + 1]
                        [] state = "running" /\ r.next = Len(r.ids) -> [q EXCEPT !.at = "block", !.up = TRUE]
                        [] state \in {"failed", "cancelled"} -> Runs!Fails(a, r)
                        [] OTHER -> q
      <3>4. run' = [run EXCEPT ![a] = x]
        BY <2>2 DEF Runs!Polled
      <3> HIDE DEF q, state
      <3>5. Keeps(r, x)
        BY <3>1, <3>2, <3>3
      <3> QED
        BY <3>4, <3>5
    <2>3. CASE Runs!LookedUp(a)
      <3> DEFINE q == Runs!Quiet(r)
      <3>1. Keeps(r, q) /\ q \in RunFields
        BY <1>1, QuietKeeps
      <3>2. /\ \A said : Keeps(r, [q EXCEPT !.at = "done", !.said = said])
            /\ Keeps(r, [q EXCEPT !.at = "drop"])
        BY <3>1 DEF Keeps, RunFields
      <3> QED
        BY <2>3, <3>2 DEF Runs!LookedUp
    <2>4. CASE Runs!Cancelled(a)
      <3> DEFINE s == IF a \in Deploys THEN [r EXCEPT !.said = "dropped"] ELSE r
      <3>1. s \in RunFields /\ s.own = r.own /\ s.at = r.at
        BY <1>1, ZenonT(40) DEF RunFields
      <3>2. Keeps(s, Runs!NextCancel(a, s))
        BY <3>1, NextKeeps
      <3>3. Keeps(r, Runs!NextCancel(a, s))
        BY <3>1, <3>2 DEF Keeps
      <3> QED
        BY <2>4, <3>3 DEF Runs!Cancelled
    <2>5. CASE Runs!Missing(a)
      <3> DEFINE q == Runs!Quiet(r)
      <3>1. Keeps(r, q) /\ q \in RunFields
        BY <1>1, QuietKeeps
      <3>2. Keeps(r, [q EXCEPT !.at = "done", !.said = "dropped", !.looked = "missing"])
        BY <3>1 DEF Keeps, RunFields
      <3> QED
        BY <1>1, <2>5, <3>2, FailureKeeps DEF Runs!Missing
    <2>6. CASE Runs!TimesOut(a) \/ Runs!Conflict(a) \/ Runs!Refused(a) \/ Runs!EndBlock(a)
      BY <1>1, <2>6, FailsKeeps, FailureKeeps, LeaveKeeps
         DEF Runs!TimesOut, Runs!Conflict, Runs!Refused, Runs!EndBlock
    <2> QED
      BY <2>1, <2>2, <2>3, <2>4, <2>5, <2>6
  <1> QED
    BY <1>2, <1>3, HeardSteps

\* The steps that may lose the answer to a create.
LEMMA LosingHeard ==
  ASSUME RunsAssumption, RunsInv, HeardInv, NEW a \in Runs!Programs, Runs!Unanswered(a) \/ Runs!Interrupt(a)
  PROVE  HeardInv'
  <1> DEFINE r == run[a]
  <1>1. /\ r \in RunFields /\ (r.op = "create" => r.at = "create")
        /\ r.op # "none" => r.at \in {"create", "wait", "cancel", "lookup", "drop"}
    BY Before DEF Fits, AsksRight
  <1>2. CASE Runs!Unanswered(a)
    <2> DEFINE x == Runs!Failure(a, r, Runs!Retries(r))
    <2>1. Keeps(r, x) /\ (r.op = "create" => x.at # "create")
      BY <1>1, <1>2, FailureKeeps DEF Runs!Retries, Runs!Unanswered
    <2>2. run' = [run EXCEPT ![a] = x] /\ lost' = Runs!Losing(a)
      BY <1>2 DEF Runs!Unanswered
    <2>3. \/ job' = job
          \/ r.op = "create" /\ job' \in Runs!Made(a)
          \/ r.op = "cancel" /\ job' = Runs!CancelTaken(r.on)
      BY <1>2 DEF Runs!Unanswered
    <2> HIDE DEF x
    <2> QED
      BY <2>1, <2>2, <2>3, LosingSteps
  <1>3. CASE Runs!Interrupt(a)
    <2> DEFINE q == Runs!Quiet(r)
               x == CASE r.at = "block" -> Runs!Leave(a, r)
                      [] r.at \in {"create", "wait"} -> Runs!Fails(a, r)
                      [] OTHER -> [q EXCEPT !.at = "done", !.cut = TRUE]
    <2>1. Keeps(r, Runs!Leave(a, r)) /\ Keeps(r, Runs!Fails(a, r)) /\ Runs!Fails(a, r).at # "create"
      BY <1>1, LeaveKeeps, FailsKeeps
    <2>2. Keeps(r, q) /\ q \in RunFields
      BY <1>1, QuietKeeps
    <2>3. Keeps(r, [q EXCEPT !.at = "done", !.cut = TRUE])
      BY <2>2 DEF Keeps, RunFields
    <2>4. Keeps(r, x) /\ (r.op = "create" => x.at # "create")
      BY <1>1, <2>1, <2>3
    <2>5. run' = [run EXCEPT ![a] = x] /\ lost' = Runs!Losing(a)
      BY <1>3 DEF Runs!Interrupt
    <2>6. job' = job \/ (r.op = "create" /\ job' \in Runs!Made(a))
      BY <1>3 DEF Runs!Interrupt
    <2> HIDE DEF x
    <2> QED
      BY <2>4, <2>5, <2>6, LosingSteps
  <1> QED
    BY <1>2, <1>3

\* Whom the service's jobs are of does not change.
LEMMA MovesKeepPrograms ==
  ASSUME NEW j \in 1 .. Len(job), Runs!JobMoves(j), Jobs(job)
  PROVE  \A b : SameJobs(job, job', b)
  <1>1. job \in Seq(JobFields) /\ job[j] \in JobFields /\ Len(job) \in Nat
    BY DEF Jobs
  <1>2. PICK x : job' = [job EXCEPT ![j] = x] /\ x.by = job[j].by
    BY <1>1 DEF Runs!JobMoves, JobFields
  <1>3. Len(job') = Len(job) /\ \A i \in 1 .. Len(job) : job'[i] = IF i = j THEN x ELSE job[i]
    BY <1>1, <1>2
  <1> QED
    BY <1>2, <1>3 DEF SameJobs, JobsOf

LEMMA HeardHolds == RunsAssumption => (Runs!Spec => []HeardInv)
  <1> SUFFICES ASSUME RunsAssumption PROVE Runs!Spec => []HeardInv
    OBVIOUS
  <1>1. Runs!Init => HeardInv
    <2> SUFFICES ASSUME Runs!Init PROVE HeardInv
      OBVIOUS
    <2>1. job = <<[state |-> "pending", by |-> "another", seen |-> TRUE]>> /\ lost = {}
      BY DEF Runs!Init
    <2>2. \A a \in Runs!Programs : JobsOf(job, a) = {}
      BY <2>1 DEF JobsOf, RunsAssumption
    <2> QED
      BY <2>1, <2>2 DEF HeardInv, Heard, UnheardOf
  <1>2. RunsInv /\ HeardInv /\ [Runs!Next]_(Runs!vars) => HeardInv'
    <2> SUFFICES ASSUME RunsInv, HeardInv, [Runs!Next]_(Runs!vars) PROVE HeardInv'
      OBVIOUS
    <2>1. CASE UNCHANGED Runs!vars
      BY <2>1 DEF Runs!vars, HeardInv
    <2>2. ASSUME NEW a \in Runs!Programs, Runs!Program(a) PROVE HeardInv'
      BY <2>2, CreatedHeard, PlainHeard, LosingHeard DEF Runs!Program
    <2>3. ASSUME NEW j \in 1 .. Len(job), Runs!JobMoves(j) PROVE HeardInv'
      <3>1. run' = run /\ lost' = lost
        BY <2>3 DEF Runs!JobMoves
      <3>2. \A b : SameJobs(job, job', b)
        BY <2>3, MovesKeepPrograms DEF RunsInv
      <3> QED
        BY <3>1, <3>2 DEF HeardInv, Heard, UnheardOf, SameJobs
    <2> QED
      BY <2>1, <2>2, <2>3 DEF Runs!Next
  <1> QED
    BY <1>1, <1>2, RunsHold, PTL DEF Runs!Spec

\* A script that came to its end released every job that was made for it, or told which it could
\* not, but for those it was to keep, a running_job whose wait failed, a deployment the service did
\* not show, and one job at most that the script never heard of since the answer to its create was
\* lost or interrupted, whatever else was refused, lost, failed or interrupted and whatever other
\* scripts did (running_job, running_jobs, the deployment's script).
THEOREM ProgramsLeaveNothing == RunsAssumption => (Runs!Spec => []Runs!NothingLeftBehind)
  <1>1. ASSUME RunsInv, HeardInv PROVE Runs!NothingLeftBehind
    <2> SUFFICES ASSUME NEW a \in Runs!Programs
                 PROVE  /\ Runs!Ends(a) =>
                             \A j \in Runs!JobsOf(a) :
                               \/ Runs!Released(j) \/ j \in run[a].told \/ run[a].keep
                               \/ a \in Ones /\ ~run[a].up
                               \/ a \in Deploys /\ run[a].looked = "missing"
                               \/ j \in Runs!Unheard(a) /\ a \in lost
                        /\ \A j, k \in Runs!Unheard(a) : j = k
      BY DEF Runs!NothingLeftBehind
    <2>1. Runs!JobsOf(a) = JobsOf(job, a) /\ Runs!Own(a) = OwnOf(run[a]) /\ Runs!Unheard(a) = UnheardOf(job, a, run[a])
      BY DEF Runs!JobsOf, JobsOf, Runs!Own, OwnOf, Runs!Unheard, UnheardOf
    <2>2. Heard(job, a, run[a], lost)
      BY <1>1 DEF HeardInv
    <2>3. ASSUME Runs!Ends(a), NEW j \in OwnOf(run[a])
          PROVE  \/ Runs!Released(j) \/ j \in run[a].told \/ run[a].keep
                 \/ a \in Ones /\ ~run[a].up
                 \/ a \in Deploys /\ run[a].looked = "missing"
      BY <1>1, <2>3 DEF RunsInv, Fits, Leaves, Runs!Ends, OwnOf, Runs!Released, Covered, Over
    <2> QED
      BY <2>1, <2>2, <2>3 DEF Heard, UnheardOf
  <1> QED
    BY <1>1, RunsHold, HeardHolds, PTL

\* The instance counts as the theorems on finite sets do.
LEMMA SameCount ==
  ASSUME NEW S
  PROVE  Runs!Cardinality(S) = Cardinality(S)
  BY DEF Runs!Cardinality, Cardinality

\* No script cancels the job it attached to, and no call to create makes two jobs: a lost answer to
\* a create is not asked for again (_send).
THEOREM ProgramsCancelTheirOwn == RunsAssumption => (Runs!Spec => []Runs!OnlyItsOwn)
  <1>1. ASSUME RunsInv PROVE Runs!OnlyItsOwn
    <2>1. job[Runs!Theirs].state \notin {"cancelling", "cancelled"}
      BY <1>1 DEF RunsInv, Jobs
    <2>2. ASSUME NEW a \in Runs!Programs PROVE Cardinality(JobsOf(job, a)) <= run[a].calls
      BY <1>1, <2>2, Before DEF Counts
    <2>3. ASSUME NEW a \in Runs!Programs
          PROVE  Runs!Cardinality(Runs!JobsOf(a)) <= run[a].calls
      BY <2>2, SameCount DEF JobsOf, Runs!JobsOf
    <2> QED
      BY <2>1, <2>3 DEF Runs!OnlyItsOwn
  <1> QED
    BY <1>1, RunsHold, PTL

-----------------------------------------------------------------------------
(* Proofs about Telemetry, for every number of calls, events and workers and *)
(* every size of the queue.                                                  *)

CONSTANTS Calls, Events, Workers, QueueSize
VARIABLES aggregate, queue, pending, worker, exporting, closed, released, at, idle, batch, caller,
  accepted, repeats

Emitter == INSTANCE Telemetry

\* Workers that are finitely many, and names that do not clash.
EmitterAssumption ==
  /\ IsFiniteSet(Workers) /\ Emitter!Closer \notin Workers
  /\ Calls \cap Events = {} /\ Emitter!Stop \notin Events /\ QueueSize \in Nat

Whereabouts == {"none", "wait", "event", "took", "post", "ending", "last", "flush", "check", "drain", "join", "done"}

\* The events of the queue, by their positions, and the workers that have one in hand.
Queued(q) == {i \in 1 .. Len(q) : q[i] # Emitter!Stop}
InHand(place) == {w \in Workers : place[w] = "event"}
PendingCounts(q, place, n) == n = Cardinality(Queued(q)) + Cardinality(InHand(place))

\* Only a thread between taking the aggregates out and settling them has any.
BatchesInFlush == \A a \in Emitter!Actors : at[a] \notin {"took", "post"} => batch[a] = {}

\* A call is in no two places, and once it is recorded it is in one.
InBatch(c) == \E a \in Emitter!Actors : c \in batch[a]
OnePlace(c) ==
  /\ \A a, b \in Emitter!Actors : c \in batch[a] /\ c \in batch[b] => a = b
  /\ ~(c \in aggregate /\ InBatch(c))
  /\ accepted[c] > 0 /\ c \notin repeats => accepted[c] = 1 /\ c \notin aggregate /\ ~InBatch(c)
  /\ caller[c] \in {"wake", "done"} => c \in repeats \/ c \in aggregate \/ InBatch(c) \/ accepted[c] > 0
  /\ caller[c] \in {"idle", "in"} => c \notin repeats /\ c \notin aggregate /\ ~InBatch(c) /\ accepted[c] = 0

EmitterInv ==
  /\ Emitter!TmTypeOK /\ BatchesInFlush /\ PendingCounts(queue, at, pending)
  /\ \A c \in Calls : OnePlace(c)

\* The events of a queue that loses its first item.
LEMMA QueuedTail ==
  ASSUME NEW S, NEW q \in Seq(S), q # << >>
  PROVE  /\ IsFiniteSet(Queued(q)) /\ Cardinality(Queued(q)) \in Nat
         /\ Cardinality(Queued(q)) = Cardinality(Queued(Tail(q))) + (IF Head(q) # Emitter!Stop THEN 1 ELSE 0)
  <1>1. /\ Len(q) \in Nat \ {0} /\ Tail(q) \in Seq(S) /\ Len(Tail(q)) = Len(q) - 1 /\ Head(q) = q[1]
        /\ \A i \in 1 .. Len(q) - 1 : Tail(q)[i] = q[i + 1]
    BY EmptySeq
  <1> DEFINE old == Queued(q)
             new == Queued(Tail(q))
             later == old \ {1}
             shift == [i \in new |-> i + 1]
  <1>2. IsFiniteSet(1 .. Len(q)) /\ old \subseteq 1 .. Len(q)
    BY <1>1, FS_Interval DEF Queued
  <1>3. IsFiniteSet(old)
    BY <1>2, FS_Subset
  <1>4. IsFiniteSet(later)
    BY <1>3, FS_Subset
  <1>5. new = {i \in 1 .. Len(q) - 1 : q[i + 1] # Emitter!Stop}
    BY <1>1 DEF Queued
  <1>6. shift \in Bijection(new, later)
    <2>1. shift \in [new -> later]
      BY <1>1, <1>5 DEF Queued
    <2>2. \A i, j \in new : shift[i] = shift[j] => i = j
      BY <1>1, <1>5
    <2>3. ASSUME NEW k \in later PROVE \E i \in new : shift[i] = k
      <3>1. k - 1 \in new /\ (k - 1) + 1 = k
        BY <1>1, <1>5 DEF Queued
      <3> QED
        BY <3>1
    <2> HIDE DEF shift, new, later
    <2> QED
      BY <2>1, <2>2, <2>3 DEF Bijection, Injection, Surjection, IsInjective
  <1>7. Cardinality(new) = Cardinality(later)
    <2>0. new \subseteq 1 .. Len(q) - 1 /\ IsFiniteSet(1 .. Len(q) - 1)
      BY <1>1, <1>5, FS_Interval
    <2> HIDE DEF new, later, shift
    <2>1. IsFiniteSet(new)
      BY <2>0, FS_Subset
    <2> QED
      BY <1>6, <2>1, FS_Bijection DEF ExistsBijection
  <1>8. 1 \in old <=> Head(q) # Emitter!Stop
    BY <1>1 DEF Queued
  <1>a. later = old \ {1} /\ old = Queued(q) /\ new = Queued(Tail(q))
    OBVIOUS
  <1> HIDE DEF old, new, later, shift
  <1>9. Cardinality(old) \in Nat /\ Cardinality(later) \in Nat
    BY <1>3, <1>4, FS_CardinalityType
  <1>10. Cardinality(later) = IF 1 \in old THEN Cardinality(old) - 1 ELSE Cardinality(old)
    BY <1>3, <1>a, FS_RemoveElement
  <1>11. Cardinality(old) = Cardinality(new) + (IF Head(q) # Emitter!Stop THEN 1 ELSE 0)
    BY <1>7, <1>8, <1>9, <1>10
  <1> QED
    BY <1>3, <1>9, <1>11, <1>a

\* A queue that gains an item.
LEMMA QueuedAppend ==
  ASSUME NEW S, NEW q \in Seq(S), NEW e
  PROVE  /\ Cardinality(Queued(q)) \in Nat
         /\ Cardinality(Queued(Append(q, e))) = Cardinality(Queued(q)) + (IF e # Emitter!Stop THEN 1 ELSE 0)
  <1>1. /\ Len(q) \in Nat /\ Len(Append(q, e)) = Len(q) + 1 /\ Append(q, e)[Len(q) + 1] = e
        /\ \A i \in 1 .. Len(q) : Append(q, e)[i] = q[i]
    OBVIOUS
  <1>2. IsFiniteSet(1 .. Len(q)) /\ Queued(q) \subseteq 1 .. Len(q)
    BY <1>1, FS_Interval DEF Queued
  <1>3. IsFiniteSet(Queued(q)) /\ Cardinality(Queued(q)) \in Nat
    BY <1>2, FS_Subset, FS_CardinalityType
  <1>4. CASE e # Emitter!Stop
    <2>1. Queued(Append(q, e)) = Queued(q) \cup {Len(q) + 1} /\ Len(q) + 1 \notin Queued(q)
      BY <1>1, <1>4 DEF Queued
    <2> QED
      BY <1>3, <1>4, <2>1, FS_AddElement
  <1>5. CASE e = Emitter!Stop
    <2>1. Queued(Append(q, e)) = Queued(q)
      BY <1>1, <1>5 DEF Queued
    <2> QED
      BY <1>3, <1>5, <2>1
  <1> QED
    BY <1>3, <1>4, <1>5

\* The workers with an event in hand are finitely many.
LEMMA HandCount ==
  ASSUME EmitterAssumption, NEW place
  PROVE  IsFiniteSet(InHand(place)) /\ Cardinality(InHand(place)) \in Nat
  <1>1. IsFiniteSet(InHand(place))
    BY FS_Subset DEF InHand, EmitterAssumption
  <1> QED
    BY <1>1, FS_CardinalityType

\* What there is to know before a step.
LEMMA EmitterBefore ==
  ASSUME EmitterAssumption, EmitterInv
  PROVE  /\ Emitter!TmTypeOK /\ at \in [Emitter!Actors -> Whereabouts] /\ batch \in [Emitter!Actors -> SUBSET Calls]
         /\ Cardinality(Queued(queue)) \in Nat /\ Cardinality(InHand(at)) \in Nat
         /\ Workers \subseteq Emitter!Actors /\ Emitter!Closer \in Emitter!Actors
  <1>1. queue \in Seq(Events \cup {Emitter!Stop})
    BY DEF EmitterInv, Emitter!TmTypeOK
  <1>2. Cardinality(Queued(queue)) \in Nat
    BY <1>1, QueuedAppend
  <1> QED
    BY <1>2, HandCount DEF EmitterInv, Emitter!TmTypeOK, Whereabouts, Emitter!Actors

\* A thread that moves on, with no event in hand before or after.
LEMMA MovesOn ==
  ASSUME EmitterAssumption, EmitterInv, NEW a \in Emitter!Actors, NEW p \in Whereabouts, Emitter!Go(a, p),
         at[a] # "event", p # "event"
  PROVE  at' \in [Emitter!Actors -> Whereabouts] /\ InHand(at') = InHand(at)
  BY EmitterBefore DEF Emitter!Go, InHand

\* A worker is alive after it is ensured, and only one that was not running starts.
LEMMA Ensures ==
  ASSUME EmitterAssumption, EmitterInv, NEW place \in [Emitter!Actors -> Whereabouts], Emitter!EnsureWorker(place)
  PROVE  /\ worker' \in Workers \cup {Emitter!None} /\ at' \in [Emitter!Actors -> Whereabouts] /\ InHand(at') = InHand(place)
         /\ \A a \in Emitter!Actors : at'[a] = place[a] \/ (place[a] = "none" /\ at'[a] = "wait")
  <1>1. worker \in Workers \cup {Emitter!None} /\ Workers \subseteq Emitter!Actors
    BY EmitterBefore DEF Emitter!TmTypeOK
  <1>2. CASE worker' = worker /\ at' = place
    BY <1>1, <1>2
  <1>3. CASE Emitter!NewWorker(place)
    <2>1. PICK w \in Workers : place[w] = "none" /\ worker' = w /\ at' = [place EXCEPT ![w] = "wait"]
      BY <1>3 DEF Emitter!NewWorker
    <2>2. at' \in [Emitter!Actors -> Whereabouts] /\ \A a \in Emitter!Actors : at'[a] = IF a = w THEN "wait" ELSE place[a]
      BY <1>1, <2>1 DEF Whereabouts
    <2> QED
      BY <1>1, <2>1, <2>2 DEF InHand
  <1> QED
    BY <1>2, <1>3 DEF Emitter!EnsureWorker

\* A step that moves threads, and neither calls nor callers.
LEMMA ThreadsStep ==
  ASSUME EmitterAssumption, EmitterInv, UNCHANGED <<aggregate, batch, caller, accepted, repeats>>,
         at' \in [Emitter!Actors -> Whereabouts], PendingCounts(queue', at', pending'), pending' \in Nat,
         queue' \in Seq(Events \cup {Emitter!Stop}), Len(queue') <= QueueSize,
         worker' \in Workers \cup {Emitter!None}, exporting' \in Emitter!Actors \cup {Emitter!None},
         closed' \in BOOLEAN, released' \in BOOLEAN, idle' \subseteq Workers,
         \A a \in Emitter!Actors : at'[a] \in {"took", "post"} \/ batch[a] = {}
  PROVE  EmitterInv'
  <1>1. Emitter!TmTypeOK'
    BY EmitterBefore DEF Emitter!TmTypeOK, Whereabouts
  <1>2. \A c \in Calls : OnePlace(c)'
    BY DEF EmitterInv, OnePlace, InBatch
  <1> QED
    BY <1>1, <1>2 DEF EmitterInv, BatchesInFlush

\* A worker takes an item off the queue; if it is an event, it has it in hand.
LEMMA GetItemStep ==
  ASSUME EmitterAssumption, EmitterInv, NEW w \in Workers, Emitter!GetItem(w)
  PROVE  EmitterInv'
  <1>1. /\ Emitter!TmTypeOK /\ at \in [Emitter!Actors -> Whereabouts] /\ w \in Emitter!Actors /\ at[w] = "wait" /\ queue # << >>
        /\ Cardinality(InHand(at)) \in Nat /\ PendingCounts(queue, at, pending)
    BY EmitterBefore DEF Emitter!GetItem, EmitterInv
  <1>2. /\ queue \in Seq(Events \cup {Emitter!Stop}) /\ queue' = Tail(queue) /\ queue' \in Seq(Events \cup {Emitter!Stop})
        /\ Len(queue) \in Nat /\ Len(queue') = Len(queue) - 1 /\ QueueSize \in Nat /\ Len(queue) <= QueueSize
    BY <1>1 DEF Emitter!TmTypeOK, Emitter!GetItem, EmitterAssumption
  <1>3. /\ Cardinality(Queued(queue)) \in Nat
        /\ Cardinality(Queued(queue)) = Cardinality(Queued(queue')) + (IF Head(queue) # Emitter!Stop THEN 1 ELSE 0)
    BY <1>1, <1>2, QueuedTail
  <1>a. Cardinality(Queued(queue')) \in Nat
    BY <1>2, QueuedAppend
  <1>4. at' = [at EXCEPT ![w] = IF Head(queue) = Emitter!Stop THEN "ending" ELSE "event"]
    BY DEF Emitter!GetItem, Emitter!Go
  <1>5. at' \in [Emitter!Actors -> Whereabouts]
    BY <1>1, <1>4 DEF Whereabouts
  <1>6. Cardinality(InHand(at')) = Cardinality(InHand(at)) + (IF Head(queue) # Emitter!Stop THEN 1 ELSE 0)
    <2>1. CASE Head(queue) = Emitter!Stop
      <3>1. InHand(at') = InHand(at)
        BY <1>1, <1>4, <2>1 DEF InHand
      <3> QED
        BY <1>1, <2>1, <3>1
    <2>2. CASE Head(queue) # Emitter!Stop
      <3>1. InHand(at') = InHand(at) \cup {w} /\ w \notin InHand(at)
        BY <1>1, <1>4, <2>2 DEF InHand
      <3> QED
        BY <2>2, <3>1, HandCount, FS_AddElement
    <2> QED
      BY <2>1, <2>2
  <1>7. PendingCounts(queue', at', pending')
    BY <1>1, <1>3, <1>a, <1>6 DEF PendingCounts, Emitter!GetItem
  <1>8. \A a \in Emitter!Actors : at'[a] \in {"took", "post"} \/ batch[a] = {}
    BY <1>1, <1>4 DEF EmitterInv, BatchesInFlush
  <1> QED
    BY <1>1, <1>2, <1>5, <1>7, <1>8, ThreadsStep DEF Emitter!GetItem, Emitter!TmTypeOK

\* The event in hand is accounted for.
LEMMA ExportEventStep ==
  ASSUME EmitterAssumption, EmitterInv, NEW w \in Workers, Emitter!ExportEvent(w)
  PROVE  EmitterInv'
  <1>1. /\ Emitter!TmTypeOK /\ at \in [Emitter!Actors -> Whereabouts] /\ w \in Emitter!Actors /\ at[w] = "event"
        /\ Cardinality(Queued(queue)) \in Nat /\ PendingCounts(queue, at, pending)
    BY EmitterBefore DEF Emitter!ExportEvent, EmitterInv
  <1>2. PICK p \in {"wait", "flush"} : at' = [at EXCEPT ![w] = p]
    BY DEF Emitter!ExportEvent, Emitter!Go
  <1>3. at' \in [Emitter!Actors -> Whereabouts]
    BY <1>1, <1>2 DEF Whereabouts
  <1>4. InHand(at') = InHand(at) \ {w} /\ w \in InHand(at)
    BY <1>1, <1>2 DEF InHand
  <1>5. Cardinality(InHand(at')) = Cardinality(InHand(at)) - 1 /\ Cardinality(InHand(at')) \in Nat
        /\ Cardinality(InHand(at)) \in Nat
    BY <1>4, HandCount, FS_RemoveElement
  <1>6. PendingCounts(queue', at', pending') /\ pending' \in Nat
    BY <1>1, <1>5 DEF PendingCounts, Emitter!ExportEvent
  <1>7. \A a \in Emitter!Actors : at'[a] \in {"took", "post"} \/ batch[a] = {}
    BY <1>1, <1>2 DEF EmitterInv, BatchesInFlush
  <1> QED
    BY <1>1, <1>3, <1>6, <1>7, ThreadsStep DEF Emitter!ExportEvent, Emitter!TmTypeOK

\* The steps of a thread between its flushes and at its end, and of close().
LEMMA OtherThreadSteps ==
  ASSUME EmitterAssumption, EmitterInv, NEW a \in Emitter!Actors,
         \/ a \in Workers /\ (Emitter!IdleTimeout(a) \/ Emitter!CheckLeft(a) \/ Emitter!GiveUpPlace(a) \/ Emitter!EndOfRun(a))
         \/ Emitter!LockExport(a)
         \/ a = Emitter!Closer /\ (Emitter!Close \/ Emitter!Drained \/ Emitter!Joined)
  PROVE  EmitterInv'
  <1>1. /\ Emitter!TmTypeOK /\ at \in [Emitter!Actors -> Whereabouts] /\ batch \in [Emitter!Actors -> SUBSET Calls]
        /\ Cardinality(Queued(queue)) \in Nat /\ PendingCounts(queue, at, pending)
        /\ Workers \subseteq Emitter!Actors /\ \A b \in Emitter!Actors : at[b] \in {"took", "post"} \/ batch[b] = {}
    BY EmitterBefore DEF EmitterInv, BatchesInFlush
  <1>2. /\ worker \in Workers \cup {Emitter!None} /\ exporting \in Emitter!Actors \cup {Emitter!None} /\ pending \in Nat
        /\ closed \in BOOLEAN /\ released \in BOOLEAN /\ idle \subseteq Workers
        /\ queue \in Seq(Events \cup {Emitter!Stop}) /\ Len(queue) <= QueueSize /\ Len(queue) \in Nat
    BY <1>1 DEF Emitter!TmTypeOK
  <1>3. ASSUME NEW p \in Whereabouts, Emitter!Go(a, p), at[a] # "event", p # "event",
               at[a] \in {"took", "post"} => p = "post"
        PROVE  /\ at' \in [Emitter!Actors -> Whereabouts] /\ InHand(at') = InHand(at)
               /\ \A b \in Emitter!Actors : at'[b] \in {"took", "post"} \/ batch[b] = {}
    BY <1>1, <1>3, MovesOn DEF Emitter!Go
  <1>4. CASE a \in Workers /\ Emitter!IdleTimeout(a)
    <2>1. /\ at' \in [Emitter!Actors -> Whereabouts] /\ InHand(at') = InHand(at)
          /\ \A b \in Emitter!Actors : at'[b] \in {"took", "post"} \/ batch[b] = {}
      BY <1>3, <1>4 DEF Emitter!IdleTimeout, Whereabouts
    <2> QED
      BY <1>1, <1>2, <1>4, <2>1, ThreadsStep DEF Emitter!IdleTimeout, PendingCounts
  <1>5. CASE a \in Workers /\ Emitter!CheckLeft(a)
    <2>1. /\ at' \in [Emitter!Actors -> Whereabouts] /\ InHand(at') = InHand(at)
          /\ \A b \in Emitter!Actors : at'[b] \in {"took", "post"} \/ batch[b] = {}
      BY <1>3, <1>5 DEF Emitter!CheckLeft, Whereabouts
    <2> QED
      BY <1>1, <1>2, <1>5, <2>1, ThreadsStep DEF Emitter!CheckLeft, PendingCounts
  <1>6. CASE a \in Workers /\ Emitter!GiveUpPlace(a)
    <2>1. /\ at' \in [Emitter!Actors -> Whereabouts] /\ InHand(at') = InHand(at)
          /\ \A b \in Emitter!Actors : at'[b] \in {"took", "post"} \/ batch[b] = {}
      BY <1>3, <1>6 DEF Emitter!GiveUpPlace, Whereabouts
    <2>2. worker' \in Workers \cup {Emitter!None}
      BY <1>2, <1>6 DEF Emitter!GiveUpPlace
    <2> QED
      BY <1>1, <1>2, <1>6, <2>1, <2>2, ThreadsStep DEF Emitter!GiveUpPlace, PendingCounts
  <1>7. CASE a \in Workers /\ Emitter!EndOfRun(a)
    <2> DEFINE place == [at EXCEPT ![a] = "none"]
    <2>0. at[a] = "last"
      BY <1>7 DEF Emitter!EndOfRun
    <2>1. place \in [Emitter!Actors -> Whereabouts] /\ InHand(place) = InHand(at)
          /\ \A b \in Emitter!Actors : place[b] = IF b = a THEN "none" ELSE at[b]
      BY <1>1, <2>0 DEF InHand, Whereabouts
    <2>2. Emitter!EnsureWorker(place) \/ (at' = place /\ worker' = worker)
      BY <1>7 DEF Emitter!EndOfRun, Emitter!Go
    <2> HIDE DEF place
    <2>3. /\ worker' \in Workers \cup {Emitter!None} /\ at' \in [Emitter!Actors -> Whereabouts] /\ InHand(at') = InHand(at)
          /\ \A b \in Emitter!Actors : at'[b] = place[b] \/ (place[b] = "none" /\ at'[b] = "wait")
      BY <1>2, <2>1, <2>2, Ensures
    <2>4. \A b \in Emitter!Actors : at'[b] \in {"took", "post"} \/ batch[b] = {}
      <3> SUFFICES ASSUME NEW b \in Emitter!Actors, batch[b] # {} PROVE at'[b] \in {"took", "post"}
        OBVIOUS
      <3>1. at[b] \in {"took", "post"} /\ b # a
        BY <1>1, <2>0
      <3>2. place[b] = at[b] /\ place[b] # "none"
        BY <2>1, <3>1
      <3> QED
        BY <2>3, <3>1, <3>2
    <2> QED
      BY <1>1, <1>2, <1>7, <2>3, <2>4, ThreadsStep DEF Emitter!EndOfRun, PendingCounts
  <1>8. CASE Emitter!LockExport(a)
    <2>1. /\ at' \in [Emitter!Actors -> Whereabouts] /\ InHand(at') = InHand(at)
          /\ \A b \in Emitter!Actors : at'[b] \in {"took", "post"} \/ batch[b] = {}
      BY <1>3, <1>8 DEF Emitter!LockExport, Whereabouts
    <2> QED
      BY <1>1, <1>2, <1>8, <2>1, ThreadsStep DEF Emitter!LockExport, PendingCounts
  <1>9. CASE a = Emitter!Closer /\ Emitter!Close
    <2>1. /\ at' \in [Emitter!Actors -> Whereabouts] /\ InHand(at') = InHand(at)
          /\ \A b \in Emitter!Actors : at'[b] \in {"took", "post"} \/ batch[b] = {}
      BY <1>3, <1>9 DEF Emitter!Close, Whereabouts
    <2> QED
      BY <1>1, <1>2, <1>9, <2>1, ThreadsStep DEF Emitter!Close, PendingCounts
  <1>10. CASE a = Emitter!Closer /\ Emitter!Drained
    <2>1. /\ at' \in [Emitter!Actors -> Whereabouts] /\ InHand(at') = InHand(at)
          /\ \A b \in Emitter!Actors : at'[b] \in {"took", "post"} \/ batch[b] = {}
      BY <1>3, <1>10 DEF Emitter!Drained, Whereabouts
    <2>2. queue' \in Seq(Events \cup {Emitter!Stop}) /\ Len(queue') <= QueueSize
      BY <1>2, <1>10 DEF Emitter!Drained, EmitterAssumption
    <2>3. Cardinality(Queued(queue')) = Cardinality(Queued(queue))
      BY <1>1, <1>2, <1>10, QueuedAppend DEF Emitter!Drained
    <2> QED
      BY <1>1, <1>2, <1>10, <2>1, <2>2, <2>3, ThreadsStep DEF Emitter!Drained, PendingCounts
  <1>11. CASE a = Emitter!Closer /\ Emitter!Joined
    <2>1. /\ at' \in [Emitter!Actors -> Whereabouts] /\ InHand(at') = InHand(at)
          /\ \A b \in Emitter!Actors : at'[b] \in {"took", "post"} \/ batch[b] = {}
      BY <1>3, <1>11 DEF Emitter!Joined, Whereabouts
    <2>2. released' \in BOOLEAN
      BY <1>11 DEF Emitter!Joined, Emitter!NoneAlive
    <2> QED
      BY <1>1, <1>2, <1>11, <2>1, <2>2, ThreadsStep DEF Emitter!Joined, PendingCounts
  <1> QED
    BY <1>4, <1>5, <1>6, <1>7, <1>8, <1>9, <1>10, <1>11

\* The steps of a caller: it finds the emitter open, counts its call or queues its event, and
\* ensures a worker.
LEMMA CallerSteps ==
  ASSUME EmitterAssumption, EmitterInv, NEW c \in Calls \cup Events,
         \/ Emitter!Enter(c) \/ Emitter!Wake(c) \/ (c \in Calls /\ Emitter!Record(c)) \/ (c \in Events /\ Emitter!Emit(c))
  PROVE  EmitterInv'
  <1>1. /\ Emitter!TmTypeOK /\ at \in [Emitter!Actors -> Whereabouts] /\ BatchesInFlush /\ \A d \in Calls : OnePlace(d)
        /\ Cardinality(Queued(queue)) \in Nat /\ Cardinality(InHand(at)) \in Nat /\ PendingCounts(queue, at, pending)
        /\ Calls \cap Events = {} /\ Emitter!Stop \notin Events /\ QueueSize \in Nat
    BY EmitterBefore DEF EmitterInv, EmitterAssumption
  <1>2. caller \in [Calls \cup Events -> {"idle", "in", "wake", "done"}]
    BY <1>1 DEF Emitter!TmTypeOK
  <1>3. CASE Emitter!Enter(c)
    <2>1. caller' = [caller EXCEPT ![c] = "in"] /\ caller[c] = "idle"
      BY <1>3 DEF Emitter!Enter
    <2>2. Emitter!TmTypeOK'
      BY <1>1, <1>2, <1>3, <2>1 DEF Emitter!Enter, Emitter!TmTypeOK
    <2>3. ASSUME NEW d \in Calls PROVE OnePlace(d)'
      BY <1>1, <1>2, <1>3, <2>1 DEF Emitter!Enter, OnePlace, InBatch
    <2> QED
      BY <1>1, <1>3, <2>2, <2>3 DEF EmitterInv, BatchesInFlush, PendingCounts, Emitter!Enter
  <1>4. CASE Emitter!Wake(c)
    <2>1. caller' = [caller EXCEPT ![c] = "done"] /\ caller[c] = "wake"
      BY <1>4 DEF Emitter!Wake
    <2>2. /\ worker' \in Workers \cup {Emitter!None} /\ at' \in [Emitter!Actors -> Whereabouts] /\ InHand(at') = InHand(at)
          /\ \A b \in Emitter!Actors : at'[b] = at[b] \/ (at[b] = "none" /\ at'[b] = "wait")
      BY <1>1, <1>4, Ensures DEF Emitter!Wake
    <2>3. Emitter!TmTypeOK'
      BY <1>1, <1>2, <1>4, <2>1, <2>2 DEF Emitter!Wake, Emitter!TmTypeOK, Whereabouts
    <2>4. ASSUME NEW d \in Calls PROVE OnePlace(d)'
      BY <1>1, <1>2, <1>4, <2>1 DEF Emitter!Wake, OnePlace, InBatch
    <2>5. BatchesInFlush'
      BY <1>1, <1>4, <2>2 DEF BatchesInFlush, Emitter!Wake
    <2> QED
      BY <1>1, <1>4, <2>2, <2>3, <2>4, <2>5 DEF EmitterInv, PendingCounts, Emitter!Wake
  <1>5. CASE c \in Calls /\ Emitter!Record(c)
    <2>1. caller' = [caller EXCEPT ![c] = "wake"] /\ caller[c] = "in" /\ aggregate' = aggregate \cup {c}
      BY <1>5 DEF Emitter!Record
    <2>2. Emitter!TmTypeOK'
      BY <1>1, <1>2, <1>5, <2>1 DEF Emitter!Record, Emitter!TmTypeOK
    <2>3. ASSUME NEW d \in Calls PROVE OnePlace(d)'
      <3>1. CASE d = c
        BY <1>1, <1>2, <1>5, <2>1, <3>1 DEF Emitter!Record, OnePlace, InBatch
      <3>2. CASE d # c
        BY <1>1, <1>2, <1>5, <2>1, <3>2 DEF Emitter!Record, OnePlace, InBatch
      <3> QED
        BY <3>1, <3>2
    <2> QED
      BY <1>1, <1>5, <2>2, <2>3 DEF EmitterInv, BatchesInFlush, PendingCounts, Emitter!Record
  <1>6. CASE c \in Events /\ Emitter!Emit(c)
    <2>1. PICK p \in {"wake", "done"} : caller' = [caller EXCEPT ![c] = p]
      BY <1>6 DEF Emitter!Emit
    <2>2. /\ queue \in Seq(Events \cup {Emitter!Stop}) /\ Len(queue) \in Nat /\ Len(queue) <= QueueSize /\ pending \in Nat
      BY <1>1 DEF Emitter!TmTypeOK
    <2>3. /\ queue' \in Seq(Events \cup {Emitter!Stop}) /\ Len(queue') <= QueueSize /\ pending' \in Nat
          /\ PendingCounts(queue', at, pending')
      <3>1. CASE Len(queue) < QueueSize
        <4>1. queue' = Append(queue, c) /\ pending' = pending + 1 /\ c # Emitter!Stop
          BY <1>1, <1>6, <3>1 DEF Emitter!Emit
        <4>2. Cardinality(Queued(queue')) = Cardinality(Queued(queue)) + 1
          BY <2>2, <4>1, QueuedAppend
        <4>3. queue' \in Seq(Events \cup {Emitter!Stop}) /\ Len(queue') = Len(queue) + 1
          BY <1>6, <2>2, <4>1
        <4> QED
          BY <1>1, <2>2, <3>1, <4>1, <4>2, <4>3 DEF PendingCounts
      <3>2. CASE ~(Len(queue) < QueueSize)
        BY <1>1, <1>6, <2>2, <3>2 DEF Emitter!Emit
      <3> QED
        BY <3>1, <3>2
    <2>4. Emitter!TmTypeOK'
      BY <1>1, <1>2, <1>6, <2>1, <2>3 DEF Emitter!Emit, Emitter!TmTypeOK
    <2>5. ASSUME NEW d \in Calls PROVE OnePlace(d)'
      <3>1. d # c
        BY <1>1, <1>6
      <3> QED
        BY <1>1, <1>2, <1>6, <2>1, <3>1 DEF Emitter!Emit, OnePlace, InBatch
    <2> QED
      BY <1>1, <1>6, <2>3, <2>4, <2>5 DEF EmitterInv, BatchesInFlush, Emitter!Emit
  <1> QED
    BY <1>3, <1>4, <1>5, <1>6

\* The aggregates are taken out whole, into a batch that was empty.
LEMMA TakeStep ==
  ASSUME EmitterAssumption, EmitterInv, NEW a \in Emitter!Actors, Emitter!TakeAggregates(a)
  PROVE  EmitterInv'
  <1>1. /\ Emitter!TmTypeOK /\ at \in [Emitter!Actors -> Whereabouts] /\ batch \in [Emitter!Actors -> SUBSET Calls]
        /\ BatchesInFlush /\ \A d \in Calls : OnePlace(d)
        /\ aggregate \subseteq Calls /\ at[a] = "flush" /\ batch[a] = {}
    BY EmitterBefore DEF EmitterInv, Emitter!TmTypeOK, BatchesInFlush, Emitter!TakeAggregates
  <1>2. PICK p \in {"drain", "check", "wait", "took"} :
          Emitter!Go(a, p) /\ (aggregate # {} => p = "took")
    BY DEF Emitter!TakeAggregates, Emitter!AfterFlush
  <1>3. at' \in [Emitter!Actors -> Whereabouts] /\ InHand(at') = InHand(at)
    BY <1>1, <1>2, MovesOn DEF Whereabouts
  <1>4. /\ batch' \in [Emitter!Actors -> SUBSET Calls] /\ aggregate' = {}
        /\ \A b \in Emitter!Actors : batch'[b] = IF b = a THEN aggregate ELSE batch[b]
    BY <1>1 DEF Emitter!TakeAggregates
  <1>5. Emitter!TmTypeOK'
    BY <1>1, <1>3, <1>4 DEF Emitter!TmTypeOK, Emitter!TakeAggregates, Whereabouts
  <1>6. BatchesInFlush'
    BY <1>1, <1>2, <1>4 DEF BatchesInFlush, Emitter!Go
  <1>7. ASSUME NEW c \in Calls PROVE OnePlace(c)'
    <2>1. InBatch(c)' <=> InBatch(c) \/ c \in aggregate
      BY <1>1, <1>4 DEF InBatch
    <2>2. \A b, d \in Emitter!Actors : c \in batch'[b] /\ c \in batch'[d] => b = d
      BY <1>1, <1>4 DEF OnePlace, InBatch
    <2>3. OnePlace(c)
      BY <1>1
    <2> QED
      BY <1>4, <2>1, <2>2, <2>3 DEF OnePlace, Emitter!TakeAggregates
  <1>8. PendingCounts(queue, at, pending)'
    BY <1>3 DEF PendingCounts, EmitterInv, Emitter!TakeAggregates
  <1> QED
    BY <1>5, <1>6, <1>7, <1>8 DEF EmitterInv

\* A batch is settled: accepted, merged back, or both if the answer was lost.
LEMMA SettleStep ==
  ASSUME EmitterAssumption, EmitterInv, NEW a \in Emitter!Actors,
         Emitter!ExportMetrics(a) \/ \E delivered \in BOOLEAN : Emitter!ExportFails(a, delivered)
  PROVE  EmitterInv'
  <1>1. /\ Emitter!TmTypeOK /\ at \in [Emitter!Actors -> Whereabouts] /\ batch \in [Emitter!Actors -> SUBSET Calls]
        /\ BatchesInFlush /\ \A d \in Calls : OnePlace(d)
        /\ aggregate \subseteq Calls /\ repeats \subseteq Calls /\ accepted \in [Calls -> Nat]
        /\ exporting \in Emitter!Actors \cup {Emitter!None} /\ at[a] \in {"took", "post"}
    BY EmitterBefore DEF EmitterInv, Emitter!TmTypeOK, Emitter!ExportMetrics, Emitter!ExportFails
  <1>2. PICK p \in {"drain", "check", "wait"} : Emitter!Go(a, p)
    BY DEF Emitter!ExportMetrics, Emitter!ExportFails, Emitter!AfterFlush
  <1>3. at' \in [Emitter!Actors -> Whereabouts] /\ InHand(at') = InHand(at)
    BY <1>1, <1>2, MovesOn DEF Whereabouts
  <1>4. batch' = [batch EXCEPT ![a] = {}]
    BY DEF Emitter!ExportMetrics, Emitter!ExportFails
  <1>5. /\ batch' \in [Emitter!Actors -> SUBSET Calls]
        /\ \A b \in Emitter!Actors : batch'[b] = IF b = a THEN {} ELSE batch[b]
    BY <1>1, <1>4
  <1>6. exporting' \in Emitter!Actors \cup {Emitter!None}
    BY <1>1 DEF Emitter!ExportMetrics, Emitter!ExportFails, Emitter!Release
  <1>7. /\ Emitter!Accepted(a) \in [Calls -> Nat]
        /\ \A c \in Calls : Emitter!Accepted(a)[c] = IF c \in batch[a] THEN accepted[c] + 1 ELSE accepted[c]
    BY <1>1 DEF Emitter!Accepted
  <1>8. /\ UNCHANGED <<queue, pending, worker, closed, released, idle, caller>>
        /\ \/ accepted' = Emitter!Accepted(a) /\ aggregate' = aggregate /\ repeats' = repeats
           \/ accepted' = Emitter!Accepted(a) /\ aggregate' = aggregate \cup batch[a] /\ repeats' = repeats \cup batch[a]
           \/ accepted' = accepted /\ aggregate' = aggregate \cup batch[a] /\ repeats' = repeats
    BY DEF Emitter!ExportMetrics, Emitter!ExportFails, Emitter!MergeBack
  <1>9. aggregate' \subseteq Calls /\ repeats' \subseteq Calls /\ accepted' \in [Calls -> Nat]
    BY <1>1, <1>7, <1>8
  <1>10. Emitter!TmTypeOK'
    BY <1>1, <1>3, <1>5, <1>6, <1>8, <1>9 DEF Emitter!TmTypeOK, Whereabouts
  <1>11. BatchesInFlush'
    BY <1>1, <1>2, <1>5 DEF BatchesInFlush, Emitter!Go
  <1>12. ASSUME NEW c \in Calls PROVE OnePlace(c)'
    <2>1. OnePlace(c) /\ accepted[c] \in Nat
      BY <1>1
    <2>2. \A b, d \in Emitter!Actors : c \in batch'[b] /\ c \in batch'[d] => b = d
      BY <1>5, <2>1 DEF OnePlace
    <2>3. CASE c \in batch[a]
      <3>1. InBatch(c) /\ ~InBatch(c)'
        BY <1>5, <2>1, <2>3 DEF InBatch, OnePlace
      <3>2. c \notin aggregate /\ (c \notin repeats => accepted[c] = 0) /\ caller[c] \notin {"idle", "in"}
        BY <2>1, <3>1 DEF OnePlace
      <3>3. Emitter!Accepted(a)[c] = accepted[c] + 1
        BY <1>7, <2>3
      <3> HIDE DEF InBatch
      <3>4. CASE accepted' = Emitter!Accepted(a) /\ aggregate' = aggregate /\ repeats' = repeats
        BY <1>8, <2>1, <2>2, <3>1, <3>2, <3>3, <3>4 DEF OnePlace
      <3>5. CASE accepted' = Emitter!Accepted(a) /\ aggregate' = aggregate \cup batch[a] /\ repeats' = repeats \cup batch[a]
        BY <1>8, <2>1, <2>2, <2>3, <3>1, <3>2, <3>5 DEF OnePlace
      <3>6. CASE accepted' = accepted /\ aggregate' = aggregate \cup batch[a] /\ repeats' = repeats
        BY <1>8, <2>1, <2>2, <2>3, <3>1, <3>2, <3>6 DEF OnePlace
      <3> QED
        BY <1>8, <3>4, <3>5, <3>6
    <2>4. CASE c \notin batch[a]
      <3>1. InBatch(c)' <=> InBatch(c)
        BY <1>1, <1>5, <2>4 DEF InBatch
      <3>2. /\ c \in aggregate' <=> c \in aggregate
            /\ c \in repeats' <=> c \in repeats
            /\ accepted'[c] = accepted[c]
        BY <1>7, <1>8, <2>4
      <3> QED
        BY <1>8, <2>1, <2>2, <3>1, <3>2 DEF OnePlace
    <2> QED
      BY <2>3, <2>4
  <1>13. PendingCounts(queue, at, pending)'
    BY <1>3, <1>8 DEF PendingCounts, EmitterInv
  <1> QED
    BY <1>10, <1>11, <1>12, <1>13 DEF EmitterInv

\* At first nothing is recorded, queued or running.
LEMMA EmitterStarts ==
  ASSUME EmitterAssumption, Emitter!Init
  PROVE  EmitterInv
  <1>1. Emitter!Actors = Workers \cup {Emitter!Closer} /\ QueueSize \in Nat
    BY DEF Emitter!Actors, EmitterAssumption
  <1>a. queue \in Seq(Events \cup {Emitter!Stop}) /\ Len(queue) = 0
    BY DEF Emitter!Init
  <1>b. /\ at \in [Emitter!Actors -> {"none"}] /\ batch \in [Emitter!Actors -> SUBSET Calls]
        /\ caller \in [Calls \cup Events -> {"idle"}] /\ accepted \in [Calls -> Nat]
    BY DEF Emitter!Init
  <1>c. /\ aggregate = {} /\ pending = 0 /\ worker = Emitter!None /\ exporting = Emitter!None
        /\ closed \in BOOLEAN /\ released \in BOOLEAN /\ idle = {} /\ repeats = {}
    BY DEF Emitter!Init
  <1>d. at \in [Emitter!Actors -> Whereabouts]
    BY <1>b DEF Whereabouts
  <1>e. caller \in [Calls \cup Events -> {"idle", "in", "wake", "done"}]
    BY <1>b
  <1>2. Emitter!TmTypeOK
    BY <1>1, <1>a, <1>b, <1>c, <1>d, <1>e DEF Emitter!TmTypeOK, Whereabouts
  <1>3. BatchesInFlush /\ \A c \in Calls : OnePlace(c)
    BY DEF Emitter!Init, BatchesInFlush, OnePlace, InBatch
  <1>4. Queued(queue) = {} /\ InHand(at) = {}
    <2>1. Queued(queue) = {}
      BY <1>a DEF Queued
    <2> QED
      BY <1>1, <1>b, <2>1 DEF InHand, Emitter!Actors
  <1>5. PendingCounts(queue, at, pending)
    <2>1. Cardinality(Queued(queue)) = 0 /\ Cardinality(InHand(at)) = 0
      BY <1>4, FS_EmptySet
    <2> QED
      BY <2>1 DEF PendingCounts, Emitter!Init
  <1> QED
    BY <1>2, <1>3, <1>5 DEF EmitterInv

\* Each step of a caller, a worker or close() keeps every call in its one place.
LEMMA EmitterHolds == EmitterAssumption => (Emitter!Spec => []EmitterInv)
  <1> SUFFICES ASSUME EmitterAssumption PROVE Emitter!Spec => []EmitterInv
    OBVIOUS
  <1>1. Emitter!Init => EmitterInv
    BY EmitterStarts
  <1>2. EmitterInv /\ [Emitter!Next]_(Emitter!tmVars) => EmitterInv'
    <2> SUFFICES ASSUME EmitterInv, [Emitter!Next]_(Emitter!tmVars) PROVE EmitterInv'
      OBVIOUS
    <2>1. CASE UNCHANGED Emitter!tmVars
      BY <2>1 DEF Emitter!tmVars, EmitterInv, Emitter!TmTypeOK, BatchesInFlush, PendingCounts, OnePlace, InBatch
    <2>2. ASSUME NEW a \in Emitter!Actors, Emitter!Flush(a) PROVE EmitterInv'
      BY <2>2, TakeStep, SettleStep, OtherThreadSteps DEF Emitter!Flush
    <2>3. ASSUME NEW w \in Workers, Emitter!Work(w) PROVE EmitterInv'
      BY <2>2, <2>3, EmitterBefore, GetItemStep, ExportEventStep, OtherThreadSteps DEF Emitter!Work
    <2>4. CASE Emitter!Close \/ Emitter!Drained \/ Emitter!Joined
      BY <2>4, EmitterBefore, OtherThreadSteps
    <2>5. CASE \/ \E c \in Calls \cup Events : Emitter!Enter(c) \/ Emitter!Wake(c)
               \/ \E c \in Calls : Emitter!Record(c)
               \/ \E e \in Events : Emitter!Emit(e)
      BY <2>5, CallerSteps
    <2> QED
      BY <2>1, <2>2, <2>3, <2>4, <2>5, EmitterBefore DEF Emitter!Next
  <1> QED
    BY <1>1, <1>2, PTL DEF Emitter!Spec

\* The instance counts as the theorems on finite sets do.
LEMMA SameSize ==
  ASSUME NEW S
  PROVE  Emitter!Cardinality(S) = Cardinality(S)
  BY DEF Emitter!Cardinality, Cardinality

\* A call that was recorded is counted once: it is in the aggregate, in one batch or accepted, and
\* is accepted again only if an answer was lost, for any number of workers and however flushes of
\* theirs and of close() overlap (record_operation, _flush_metric_aggregates).
THEOREM CallsAreCountedOnce == EmitterAssumption => (Emitter!Spec => []Emitter!CountedOnce)
  <1> SUFFICES ASSUME EmitterAssumption PROVE Emitter!Spec => []Emitter!CountedOnce
    OBVIOUS
  <1>1. ASSUME EmitterInv PROVE Emitter!CountedOnce
    <2> DEFINE holding(c) == {a \in Emitter!Actors : c \in batch[a]}
    <2>1. Emitter!TmTypeOK
      BY <1>1 DEF EmitterInv
    <2>2. ASSUME NEW c \in Calls, caller[c] \in {"wake", "done"}
          PROVE  IF c \in repeats THEN Emitter!Holders(c) <= 1 ELSE Emitter!Holders(c) = 1 /\ accepted[c] <= 1
      <3>1. OnePlace(c) /\ accepted[c] \in Nat
        BY <1>1, <2>1 DEF EmitterInv, Emitter!TmTypeOK
      <3>2. CASE InBatch(c)
        <4>1. PICK a \in Emitter!Actors : c \in batch[a]
          BY <3>2 DEF InBatch
        <4>2. holding(c) = {a}
          BY <3>1, <4>1 DEF OnePlace
        <4>3. Emitter!Cardinality(holding(c)) = 1
          BY <4>2, FS_Singleton, SameSize
        <4> QED
          BY <2>2, <3>1, <3>2, <4>3 DEF OnePlace, Emitter!Holders
      <3>3. CASE ~InBatch(c)
        <4>1. holding(c) = {}
          BY <3>3 DEF InBatch
        <4>2. Emitter!Cardinality(holding(c)) = 0
          BY <4>1, FS_EmptySet, SameSize
        <4> QED
          BY <2>2, <3>1, <3>3, <4>2 DEF OnePlace, Emitter!Holders
      <3> QED
        BY <3>2, <3>3
    <2> QED
      BY <2>1, <2>2 DEF Emitter!CountedOnce
  <1> QED
    BY <1>1, EmitterHolds, PTL

\* What a flush waits on is counted exactly, whatever is dropped, stopped or handed over.
THEOREM PendingStaysExact == EmitterAssumption => (Emitter!Spec => []Emitter!PendingIsExact)
  <1> SUFFICES ASSUME EmitterAssumption PROVE Emitter!Spec => []Emitter!PendingIsExact
    OBVIOUS
  <1>1. EmitterInv => Emitter!PendingIsExact
    BY SameSize DEF EmitterInv, PendingCounts, Queued, InHand, Emitter!PendingIsExact
  <1> QED
    BY <1>1, EmitterHolds, PTL

-----------------------------------------------------------------------------
(* The conversion of an old config (Convert), for any profiles that were     *)
(* there before, any names and any number of failures and interrupts.        *)

CONSTANTS Originals, Fresh
VARIABLES profiles, named, there, conv, another

Legacy == INSTANCE Convert WITH file <- profiles, config <- named, c <- conv, other <- another

\* Where a conversion may be, with what of the user's questions behind it.
Asking == {"database", "ask create", "create", "plan", "confirm"}
Unstarted == {"read", "check", "database", "ask create", "create", "plan", "confirm"}
Writing == {"write profile", "write config", "sign in", "done"}
Restoring == {"restore profiles", "restore config"}
ConversionPlaces == Unstarted \cup Writing \cup Restoring \cup {"snapshot", "exit"}
ProfileFiles == [Legacy!Names -> {Legacy!Absent, "original", "convert", "other"}]

NoSnapshot == <<>>

Conversions ==
  [at : ConversionPlaces, name : Legacy!Names \cup {Legacy!None}, agreed : SUBSET {"check", "create", "change"},
   found : SUBSET Legacy!Objects, created : BOOLEAN, profiles : ProfileFiles \cup {NoSnapshot},
   saved : Legacy!Names \cup {Legacy!None}, code : 0..130, broken : BOOLEAN, alone : BOOLEAN]

ConvertTypes ==
  /\ profiles \in ProfileFiles /\ named \in Legacy!Names \cup {Legacy!None} /\ there \subseteq Legacy!Objects
  /\ conv \in Conversions /\ another \in BOOLEAN

\* A conversion has a name of its own and a snapshot exactly once it may have written.
SnapshotFirst ==
  /\ conv.at \in {"confirm", "snapshot"} \/ conv.at \in Writing => conv.name \in Fresh
  /\ conv.at \in Writing \/ conv.at \in Restoring => conv.profiles # NoSnapshot
  /\ conv.at = "snapshot" \/ conv.at \in Unstarted => conv.profiles = NoSnapshot
  /\ conv.profiles = NoSnapshot => \A n \in Legacy!Names : profiles[n] # "convert"
  /\ conv.profiles # NoSnapshot => \A n \in Legacy!Names : conv.profiles[n] # "convert"

\* The profiles of before are what they were, in the file and in the snapshot.
OriginalsStay ==
  \A n \in Originals : profiles[n] = "original" /\ (conv.profiles # NoSnapshot => conv.profiles[n] = "original")

\* With no other writer, the files are the snapshot's but for the changes made so far.
ChangesSoFar ==
  conv.alone /\ ~conv.broken =>
    /\ conv.at = "write profile" => profiles = conv.profiles /\ named = conv.saved
    /\ conv.at \in {"write config", "sign in", "done"} => profiles[conv.name] = "convert"
    /\ conv.at \in {"sign in", "done"} => named = conv.name
    /\ conv.at = "restore config" => profiles = conv.profiles
    /\ conv.at = "exit" /\ conv.code = 0 => profiles[conv.name] = "convert" /\ named = conv.name
    /\ conv.at = "exit" /\ conv.code # 0 /\ conv.profiles # NoSnapshot => profiles = conv.profiles
        /\ named = conv.saved

\* A conversion that restores, or ends before its snapshot, does not say that it is done.
CodesTell == conv.at \in Restoring \/ (conv.at = "exit" /\ conv.profiles = NoSnapshot) => conv.code # 0

\* What was agreed to on the way, and which objects there are or were found to be missing.
Agreed ==
  /\ conv.at \in Asking => "check" \in conv.agreed
  /\ conv.at = "snapshot" \/ conv.at \in Writing \/ conv.at \in Restoring
      => {"check", "change"} \subseteq conv.agreed
  /\ conv.at = "create" => "create" \in conv.agreed
  /\ conv.at \in {"ask create", "create"} => Legacy!Objects \ there \subseteq conv.found
  /\ conv.created => there = Legacy!Objects

ConvertInv ==
  /\ ConvertTypes /\ SnapshotFirst /\ OriginalsStay /\ ChangesSoFar /\ CodesTell /\ Agreed

\* What a step may change, as NothingUnasked says.
Unasked ==
  /\ \A n \in Originals : profiles'[n] = profiles[n]
  /\ Legacy!Files' # Legacy!Files /\ another' = another => {"check", "change"} \subseteq conv.agreed
  /\ there' # there => "create" \in conv.agreed
  /\ conv'.created => there' = Legacy!Objects

\* The conversion is at p now, with these agreed to, this code, and its restore broken or not.
NowAt(p, agreed, code, broken) ==
  /\ conv' \in Conversions /\ conv'.at = p /\ conv'.agreed = agreed /\ conv'.code = code
      /\ conv'.broken = broken
  /\ conv'.name = conv.name /\ conv'.found = conv.found /\ conv'.created = conv.created
  /\ conv'.profiles = conv.profiles /\ conv'.saved = conv.saved /\ conv'.alone = conv.alone

\* A step that leaves the files and the objects.
Quiet == UNCHANGED <<profiles, named, there, another>>

\* At first nothing was asked or written.
LEMMA ConvertStarts ==
  ASSUME Legacy!ConvertAssumption, Legacy!Init
  PROVE  ConvertInv
  <1>1. profiles \in ProfileFiles /\ named \in Legacy!Names \cup {Legacy!None}
        /\ there \subseteq Legacy!Objects /\ another \in BOOLEAN
    BY DEF Legacy!Init, ProfileFiles, Legacy!Names
  <1>2. conv \in Conversions
    <2>1. 99 \in 0 .. 130 /\ "read" \in ConversionPlaces
      BY DEF ConversionPlaces, Unstarted
    <2> QED
      BY <2>1 DEF Legacy!Init, Conversions, NoSnapshot
  <1>3. SnapshotFirst /\ CodesTell /\ Agreed
    BY DEF Legacy!Init, SnapshotFirst, CodesTell, Agreed, Asking, Unstarted, Writing, Restoring,
        Legacy!Names, Legacy!Absent, Legacy!None, NoSnapshot
  <1>4. OriginalsStay /\ ChangesSoFar
    BY DEF Legacy!Init, OriginalsStay, ChangesSoFar, Legacy!Names, NoSnapshot
  <1> QED
    BY <1>1, <1>2, <1>3, <1>4 DEF ConvertInv, ConvertTypes

\* What there is to know before a step.
LEMMA ConvertBefore ==
  ASSUME Legacy!ConvertAssumption, ConvertInv
  PROVE  /\ SnapshotFirst /\ OriginalsStay /\ ChangesSoFar /\ CodesTell /\ Agreed
         /\ conv \in Conversions /\ conv.name \in Legacy!Names \cup {Legacy!None}
             /\ conv.saved \in Legacy!Names \cup {Legacy!None}
         /\ conv.profiles \in ProfileFiles \cup {NoSnapshot} /\ conv.created \in BOOLEAN
         /\ conv.agreed \subseteq {"check", "create", "change"} /\ conv.code \in 0 .. 130
         /\ profiles \in ProfileFiles /\ named \in Legacy!Names \cup {Legacy!None}
             /\ there \subseteq Legacy!Objects /\ another \in BOOLEAN
         /\ \A n \in Originals : n \in Legacy!Names /\ n \notin Fresh
         /\ \A n \in Fresh : n \in Legacy!Names /\ n \notin Originals
  <1>1. /\ SnapshotFirst /\ OriginalsStay /\ ChangesSoFar /\ CodesTell /\ Agreed
        /\ conv \in Conversions /\ profiles \in ProfileFiles /\ named \in Legacy!Names \cup {Legacy!None}
        /\ there \subseteq Legacy!Objects /\ another \in BOOLEAN
    BY DEF ConvertInv, ConvertTypes
  <1>2. /\ conv.name \in Legacy!Names \cup {Legacy!None} /\ conv.saved \in Legacy!Names \cup {Legacy!None}
        /\ conv.profiles \in ProfileFiles \cup {NoSnapshot} /\ conv.created \in BOOLEAN
        /\ conv.agreed \subseteq {"check", "create", "change"} /\ conv.code \in 0 .. 130
    BY <1>1 DEF Conversions
  <1>3. /\ \A n \in Originals : n \in Legacy!Names /\ n \notin Fresh
        /\ \A n \in Fresh : n \in Legacy!Names /\ n \notin Originals
    BY DEF Legacy!ConvertAssumption, Legacy!Names
  <1> QED
    BY <1>1, <1>2, <1>3

\* A code of a failure is not that of success.
LEMMA FailureCodes == \A k \in {1, 130} : k # 0
  OBVIOUS

\* The moves of a conversion.
LEMMA ConversionMoves ==
  ASSUME conv \in Conversions, NEW p \in ConversionPlaces, NEW k \in 0 .. 130,
         NEW yes \in {"check", "create", "change"}
  PROVE  /\ conv' = [conv EXCEPT !.at = p] => NowAt(p, conv.agreed, conv.code, conv.broken)
         /\ conv' = [conv EXCEPT !.at = p, !.code = k] => NowAt(p, conv.agreed, k, conv.broken)
         /\ conv' = [conv EXCEPT !.at = p, !.agreed = @ \cup {yes}]
             => NowAt(p, conv.agreed \cup {yes}, conv.code, conv.broken)
         /\ conv' = [conv EXCEPT !.at = p, !.broken = TRUE] => NowAt(p, conv.agreed, conv.code, TRUE)
         /\ conv' = [conv EXCEPT !.at = p, !.code = k, !.broken = TRUE] => NowAt(p, conv.agreed, k, TRUE)
  <1> USE DEF Conversions, NowAt
  <1>1. conv' = [conv EXCEPT !.at = p] => NowAt(p, conv.agreed, conv.code, conv.broken)
    OBVIOUS
  <1>2. conv' = [conv EXCEPT !.at = p, !.code = k] => NowAt(p, conv.agreed, k, conv.broken)
    OBVIOUS
  <1>3. conv' = [conv EXCEPT !.at = p, !.agreed = @ \cup {yes}]
        => NowAt(p, conv.agreed \cup {yes}, conv.code, conv.broken)
    <2> DEFINE all == conv.agreed \cup {yes}
    <2>1. all \in SUBSET {"check", "create", "change"}
      OBVIOUS
    <2>2. conv' = [conv EXCEPT !.at = p, !.agreed = @ \cup {yes}]
          => conv' = [conv EXCEPT !.at = p, !.agreed = all]
      OBVIOUS
    <2> HIDE DEF all
    <2>3. conv' = [conv EXCEPT !.at = p, !.agreed = all] => NowAt(p, all, conv.code, conv.broken)
      BY <2>1
    <2> QED
      BY <2>2, <2>3 DEF all
  <1>4. conv' = [conv EXCEPT !.at = p, !.broken = TRUE] => NowAt(p, conv.agreed, conv.code, TRUE)
    OBVIOUS
  <1>5. conv' = [conv EXCEPT !.at = p, !.code = k, !.broken = TRUE] => NowAt(p, conv.agreed, k, TRUE)
    OBVIOUS
  <1> QED
    BY <1>1, <1>2, <1>3, <1>4, <1>5

\* A conversion that ends before it has written anything.
LEMMA EndsEarly ==
  ASSUME Legacy!ConvertAssumption, ConvertInv, NEW k \in {1, 130}, conv.at \in Unstarted,
         conv' = [conv EXCEPT !.at = "exit", !.code = k], Quiet
  PROVE  ConvertInv' /\ Unasked
  <1>1. NowAt("exit", conv.agreed, k, conv.broken)
    <2>1. "exit" \in ConversionPlaces /\ k \in 0 .. 130 /\ conv \in Conversions
      BY ConvertBefore DEF ConversionPlaces
    <2> QED
      BY <2>1, ConversionMoves, Zenon
  <1>0. conv'.at = "exit" /\ conv'.code = k /\ k # 0 /\ conv'.profiles = NoSnapshot
    BY <1>1, ConvertBefore DEF NowAt, SnapshotFirst
  <1>t. ConvertTypes'
    BY ConvertBefore, <1>1 DEF ConvertTypes, NowAt, Quiet
  <1>a. SnapshotFirst'
    BY ConvertBefore, <1>1 DEF SnapshotFirst, NowAt, Quiet, Unstarted, Writing, Restoring
  <1>f. CodesTell'
    BY <1>0 DEF CodesTell
  <1>b. OriginalsStay'
    BY ConvertBefore, <1>1 DEF OriginalsStay, SnapshotFirst, NowAt, Quiet
  <1>conv. ChangesSoFar'
    BY <1>0 DEF ChangesSoFar
  <1>d. Agreed'
    BY ConvertBefore, <1>1 DEF Agreed, NowAt, Quiet, Asking, Unstarted, Writing, Restoring
  <1>e. Unasked
    BY ConvertBefore, <1>d, <1>1 DEF Agreed, Unasked, Legacy!Files, NowAt, Quiet
  <1> QED
    BY <1>t, <1>a, <1>b, <1>conv, <1>d, <1>e, <1>f DEF ConvertInv

\* A question is answered, or a check goes on.
LEMMA Asks ==
  ASSUME Legacy!ConvertAssumption, ConvertInv, NEW p \in ConversionPlaces, NEW a, conv.agreed \subseteq a,
         NowAt(p, a, conv.code, conv.broken), Quiet,
         \/ conv.at = "read" /\ p = "check"
         \/ conv.at = "check" /\ p = "database" /\ "check" \in a
         \/ conv.at = "database" /\ p = "plan"
         \/ conv.at = "ask create" /\ p = "create" /\ "create" \in a
         \/ conv.at = "confirm" /\ p = "snapshot" /\ "change" \in a
  PROVE  ConvertInv' /\ Unasked
  <1>t. ConvertTypes'
    BY ConvertBefore DEF ConvertTypes, NowAt, Quiet
  <1>a. SnapshotFirst'
    BY ConvertBefore DEF SnapshotFirst, NowAt, Quiet, Unstarted, Writing, Restoring
  <1>f. CodesTell'
    BY ConvertBefore DEF SnapshotFirst, CodesTell, NowAt, Unstarted, Writing, Restoring
  <1>b. OriginalsStay'
    BY ConvertBefore DEF OriginalsStay, SnapshotFirst, NowAt, Quiet
  <1>conv. ChangesSoFar'
    BY ConvertBefore DEF ChangesSoFar, SnapshotFirst, CodesTell, NowAt, Quiet, Asking, Unstarted,
        Writing, Restoring
  <1>d. Agreed'
    BY ConvertBefore DEF Agreed, NowAt, Quiet, Asking, Unstarted, Writing, Restoring
  <1>e. Unasked
    BY ConvertBefore, <1>d DEF Agreed, Unasked, Legacy!Files, NowAt, Quiet
  <1> QED
    BY <1>t, <1>a, <1>b, <1>conv, <1>d, <1>e, <1>f DEF ConvertInv

\* A step of the writing that raises, or is interrupted, once it has or has not done its work.
LEMMA Falls ==
  ASSUME Legacy!ConvertAssumption, ConvertInv, NEW k \in {1, 130}, conv.at \in Writing,
         NowAt("restore profiles", conv.agreed, k, conv.broken), UNCHANGED <<there, another>>,
         named' \in {named, conv.name}, profiles' \in {profiles, [profiles EXCEPT ![conv.name] = "convert"]}
  PROVE  ConvertInv' /\ Unasked
  <1>0. /\ conv.name \in Fresh /\ conv.name \in Legacy!Names /\ {"check", "change"} \subseteq conv.agreed
        /\ conv.profiles # NoSnapshot
    BY ConvertBefore, ZenonT(40) DEF SnapshotFirst, Agreed
  <1>1. /\ profiles' \in ProfileFiles /\ \A n \in Legacy!Names : n # conv.name => profiles'[n] = profiles[n]
        /\ named' \in Legacy!Names \cup {Legacy!None}
    <2>1. /\ profiles' \in ProfileFiles /\ \A n \in Legacy!Names : n # conv.name => profiles'[n] = profiles[n]
      <3>1. CASE profiles' = profiles
        BY <3>1, ConvertBefore
      <3>2. CASE profiles' = [profiles EXCEPT ![conv.name] = "convert"]
        BY <1>0, <3>2, ConvertBefore, ZenonT(40) DEF ProfileFiles
      <3> QED
        BY <3>1, <3>2
    <2>2. named' \in Legacy!Names \cup {Legacy!None}
      <3>1. named \in Legacy!Names \cup {Legacy!None}
        BY ConvertBefore
      <3>2. CASE named' = named
        BY <3>1, <3>2
      <3>3. CASE named' = conv.name
        BY <1>0, <3>3
      <3> QED
        BY <3>2, <3>3
    <2> QED
      BY <2>1, <2>2
  <1>2. /\ conv'.at = "restore profiles" /\ conv'.code = k /\ k # 0 /\ conv'.profiles = conv.profiles
        /\ \A n \in Originals : n \in Legacy!Names /\ n # conv.name
    <2>1. \A n \in Originals : n \in Legacy!Names /\ n \notin Fresh
      BY ConvertBefore
    <2>2. conv'.at = "restore profiles" /\ conv'.code = k /\ conv'.profiles = conv.profiles
      BY DEF NowAt
    <2>3. k # 0
      BY FailureCodes, Zenon
    <2> QED
      BY <1>0, <2>1, <2>2, <2>3, ZenonT(30)
  <1>t. ConvertTypes'
    BY ConvertBefore, <1>0, <1>1 DEF ConvertTypes, NowAt, Quiet
  <1>a. SnapshotFirst'
    <2>1. \A n \in Legacy!Names : conv.profiles[n] # "convert"
      BY <1>0, ConvertBefore DEF SnapshotFirst
    <2>2. "restore profiles" \notin Unstarted /\ "restore profiles" \notin Writing
      BY DEF Unstarted, Writing
    <2> QED
      <3>1. conv'.profiles # NoSnapshot /\ \A n \in Legacy!Names : conv'.profiles[n] # "convert"
        <4>1. conv'.profiles = conv.profiles
          BY <1>2
        <4> QED
          BY <1>0, <2>1, <4>1, ZenonT(30)
      <3>2. conv'.at \notin Unstarted /\ conv'.at \notin Writing /\ conv'.at # "snapshot"
            /\ conv'.at # "confirm"
        BY <1>2, <2>2, ZenonT(30)
      <3> QED
        BY <3>1, <3>2, Zenon DEF SnapshotFirst
  <1>f. CodesTell'
    BY <1>2 DEF CodesTell
  <1>b. OriginalsStay'
    <2>1. OriginalsStay
      BY ConvertBefore
    <2> QED
      <3> SUFFICES ASSUME NEW n \in Originals
                   PROVE  profiles'[n] = "original"
                          /\ (conv'.profiles # NoSnapshot => conv'.profiles[n] = "original")
        BY DEF OriginalsStay
      <3>1. profiles'[n] = profiles[n] /\ conv'.profiles = conv.profiles
        BY <1>1, <1>2, ZenonT(40)
      <3> QED
        BY <2>1, <3>1, ZenonT(40) DEF OriginalsStay
  <1>conv. ChangesSoFar'
    BY ConvertBefore, <1>0, <1>1 DEF ChangesSoFar, SnapshotFirst, CodesTell, NowAt, Quiet, Asking,
        Unstarted, Writing, Restoring
  <1>d. Agreed'
    BY ConvertBefore, <1>0, <1>1 DEF Agreed, NowAt, Quiet, Asking, Unstarted, Writing, Restoring
  <1>e. Unasked
    <2>1. \A n \in Originals : profiles'[n] = profiles[n]
      BY <1>1, <1>2
    <2>2. {"check", "change"} \subseteq conv.agreed /\ there' = there
      BY <1>0, ConvertBefore DEF Agreed
    <2>3. conv'.created => there' = Legacy!Objects
      BY <1>d, Zenon DEF Agreed
    <2> QED
      BY <2>1, <2>2, <2>3, Zenon DEF Unasked
  <1> QED
    BY <1>t, <1>a, <1>b, <1>conv, <1>d, <1>e, <1>f DEF ConvertInv

\* A step of the writing that is done.
LEMMA GoesOn ==
  ASSUME Legacy!ConvertAssumption, ConvertInv, NEW p \in ConversionPlaces, NEW k,
         NowAt(p, conv.agreed, k, conv.broken), UNCHANGED <<there, another>>,
         \/ conv.at = "write profile" /\ p = "write config"
             /\ profiles' = [profiles EXCEPT ![conv.name] = "convert"] /\ named' = named
         \/ conv.at = "write config" /\ p = "sign in" /\ profiles' = profiles /\ named' = conv.name
         \/ conv.at = "sign in" /\ p = "done" /\ profiles' = profiles /\ named' = named
         \/ conv.at = "done" /\ p = "exit" /\ k = 0 /\ profiles' = profiles /\ named' = named
  PROVE  ConvertInv' /\ Unasked
  <1>0. /\ conv.name \in Fresh /\ conv.name \in Legacy!Names /\ {"check", "change"} \subseteq conv.agreed
        /\ conv.profiles # NoSnapshot
    BY ConvertBefore DEF SnapshotFirst, Agreed, Writing
  <1>1. /\ profiles' \in ProfileFiles /\ \A n \in Legacy!Names : n # conv.name => profiles'[n] = profiles[n]
        /\ named' \in Legacy!Names \cup {Legacy!None}
            /\ (conv.at = "write profile" => profiles'[conv.name] = "convert")
    BY <1>0, ConvertBefore, ZenonT(30) DEF ProfileFiles
  <1>t. ConvertTypes'
    BY ConvertBefore, <1>0, <1>1 DEF ConvertTypes, NowAt, Quiet
  <1>a. SnapshotFirst'
    BY ConvertBefore, <1>0, <1>1 DEF SnapshotFirst, NowAt, Quiet, Unstarted, Writing, Restoring
  <1>f. CodesTell'
    BY ConvertBefore, <1>0, <1>1 DEF SnapshotFirst, CodesTell, NowAt, Unstarted, Writing, Restoring
  <1>b. OriginalsStay'
    BY ConvertBefore, <1>0, <1>1, ZenonT(40) DEF OriginalsStay, SnapshotFirst, NowAt, Quiet
  <1>conv. ChangesSoFar'
    BY ConvertBefore, <1>0, <1>1 DEF ChangesSoFar, SnapshotFirst, CodesTell, NowAt, Quiet, Asking,
        Unstarted, Writing, Restoring
  <1>d. Agreed'
    BY ConvertBefore, <1>0, <1>1 DEF Agreed, NowAt, Quiet, Asking, Unstarted, Writing, Restoring
  <1>e. Unasked
    BY ConvertBefore, <1>d, <1>0, <1>1 DEF Agreed, Unasked, Legacy!Files, NowAt, Quiet
  <1> QED
    BY <1>t, <1>a, <1>b, <1>conv, <1>d, <1>e, <1>f DEF ConvertInv

\* The files are put back, or a restore fails.
LEMMA PutsBack ==
  ASSUME Legacy!ConvertAssumption, ConvertInv, NEW p \in ConversionPlaces, NEW k, NEW b,
         NowAt(p, conv.agreed, k, b), UNCHANGED <<there, another>>,
         k \in {conv.code, 130},
         \/ conv.at = "restore profiles" /\ p = "restore config" /\ b = conv.broken
             /\ profiles' = conv.profiles /\ named' = named
         \/ conv.at = "restore config" /\ p = "exit" /\ b = conv.broken /\ profiles' = profiles
             /\ named' = conv.saved
         \/ conv.at \in Restoring /\ p \in {"restore config", "exit"} /\ b = TRUE
             /\ profiles' = profiles /\ named' = named
  PROVE  ConvertInv' /\ Unasked
  <1>0. {"check", "change"} \subseteq conv.agreed /\ conv.profiles # NoSnapshot /\ conv.at \in Restoring
    BY ConvertBefore DEF SnapshotFirst, Agreed, Restoring
  <1>1. /\ conv.profiles \in ProfileFiles /\ conv.saved \in Legacy!Names \cup {Legacy!None}
           /\ profiles \in ProfileFiles
        /\ \A n \in Legacy!Names : conv.profiles[n] # "convert"
        /\ \A n \in Originals : conv.profiles[n] = "original"
        /\ \A n \in Originals : n \in Legacy!Names /\ profiles[n] = "original"
    BY <1>0, ConvertBefore DEF SnapshotFirst, OriginalsStay
  <1>2. profiles' \in {profiles, conv.profiles} /\ named' \in {named, conv.saved}
        /\ p \in {"restore config", "exit"}
    BY DEF Restoring
  <1>3. conv.code # 0 /\ k # 0
    <2>1. conv.code # 0
      BY <1>0, ConvertBefore DEF CodesTell
    <2>2. CASE k = conv.code
      BY <2>1, <2>2
    <2>3. CASE k = 130
      BY <2>1, <2>3, FailureCodes, Zenon
    <2> QED
      BY <2>2, <2>3
  <1>4. /\ conv'.at = p /\ conv'.code = k /\ conv'.broken = b /\ conv'.profiles = conv.profiles
           /\ conv'.saved = conv.saved
        /\ conv'.alone = conv.alone /\ conv'.agreed = conv.agreed /\ conv'.created = conv.created
            /\ conv' \in Conversions
    BY DEF NowAt
  <1>t. ConvertTypes'
    <2>1. named \in Legacy!Names \cup {Legacy!None} /\ there \subseteq Legacy!Objects /\ another \in BOOLEAN
      BY ConvertBefore
    <2>2. profiles' \in ProfileFiles /\ named' \in Legacy!Names \cup {Legacy!None}
      <3>1. profiles' = profiles \/ profiles' = conv.profiles
        BY <1>2
      <3>2. named' = named \/ named' = conv.saved
        BY <1>2
      <3>3. profiles' \in ProfileFiles
        BY <1>1, <3>1
      <3>4. named' \in Legacy!Names \cup {Legacy!None}
        BY <1>1, <2>1, <3>2, ZenonT(30)
      <3> QED
        BY <3>3, <3>4
    <2> QED
      BY <1>4, <2>1, <2>2 DEF ConvertTypes
  <1>a. SnapshotFirst'
    <2>1. p \notin Unstarted /\ p \notin Writing /\ p \notin {"confirm", "snapshot"}
      BY <1>2 DEF Unstarted, Writing
    <2> QED
      <3>1. conv'.profiles # NoSnapshot /\ \A n \in Legacy!Names : conv'.profiles[n] # "convert"
        <4>1. conv'.profiles = conv.profiles
          BY <1>4
        <4> QED
          BY <1>0, <1>1, <4>1, ZenonT(30)
      <3>2. conv'.at \notin Unstarted /\ conv'.at \notin Writing /\ conv'.at # "snapshot"
            /\ conv'.at # "confirm"
        BY <1>4, <2>1
      <3> QED
        BY <3>1, <3>2, Zenon DEF SnapshotFirst
  <1>b. OriginalsStay'
    <2> SUFFICES ASSUME NEW n \in Originals
                 PROVE  profiles'[n] = "original"
                        /\ (conv'.profiles # NoSnapshot => conv'.profiles[n] = "original")
      BY DEF OriginalsStay
    <2>1. CASE profiles' = profiles
      BY <1>1, <1>4, <2>1, ZenonT(30)
    <2>2. CASE profiles' = conv.profiles
      BY <1>1, <1>4, <2>2, ZenonT(40)
    <2> QED
      BY <1>2, <2>1, <2>2
  <1>conv. ChangesSoFar'
    <2>1. CASE b = TRUE
      BY <1>4, <2>1 DEF ChangesSoFar
    <2>2. CASE conv.at = "restore profiles" /\ p = "restore config" /\ profiles' = conv.profiles
      BY <1>4, <2>2 DEF ChangesSoFar
    <2>3. CASE conv.at = "restore config" /\ p = "exit" /\ b = conv.broken /\ profiles' = profiles
               /\ named' = conv.saved
      <3>1. conv.alone /\ ~conv.broken => profiles = conv.profiles
        BY <2>3, ConvertBefore DEF ChangesSoFar
      <3> QED
        BY <1>3, <1>4, <2>3, <3>1 DEF ChangesSoFar
    <2> QED
      BY <2>1, <2>2, <2>3
  <1>f. CodesTell'
    BY <1>3, <1>4 DEF CodesTell
  <1>d. Agreed'
    BY <1>0, <1>2, <1>4, ConvertBefore DEF Agreed, Asking, Writing
  <1>e. Unasked
    <2>1. \A n \in Originals : profiles'[n] = profiles[n]
      <3>1. CASE profiles' = profiles
        BY <3>1
      <3>2. CASE profiles' = conv.profiles
        BY <1>1, <3>2, ZenonT(40)
      <3> QED
        BY <1>2, <3>1, <3>2
    <2> QED
      BY <1>0, <1>d, <2>1 DEF Agreed, Unasked
  <1> QED
    BY <1>t, <1>a, <1>b, <1>conv, <1>d, <1>e, <1>f DEF ConvertInv

\* What the role cannot see is found.
LEMMA FindsMissing ==
  ASSUME Legacy!ConvertAssumption, ConvertInv, NEW p \in {"plan", "ask create"}, conv.at = "database", Quiet,
         conv' = [conv EXCEPT !.found = Legacy!Objects \ there, !.at = p]
  PROVE  ConvertInv' /\ Unasked
  <1>1. /\ conv' \in Conversions
        /\ conv'.at = p /\ conv'.name = conv.name /\ conv'.agreed = conv.agreed
            /\ conv'.found = Legacy!Objects \ there
        /\ conv'.created = conv.created /\ conv'.profiles = conv.profiles /\ conv'.saved = conv.saved
        /\ conv'.code = conv.code /\ conv'.broken = conv.broken /\ conv'.alone = conv.alone
    BY ConvertBefore DEF Conversions, ConversionPlaces, Unstarted
  <1>2. conv.at = "database" /\ Quiet
    OBVIOUS
  <1>t. ConvertTypes'
    BY ConvertBefore, <1>1, <1>2 DEF ConvertTypes, NowAt, Quiet
  <1>a. SnapshotFirst'
    BY ConvertBefore, <1>1, <1>2 DEF SnapshotFirst, NowAt, Quiet, Unstarted, Writing, Restoring
  <1>f. CodesTell'
    BY ConvertBefore, <1>1, <1>2 DEF SnapshotFirst, CodesTell, NowAt, Unstarted, Writing, Restoring
  <1>b. OriginalsStay'
    BY ConvertBefore, <1>1, <1>2 DEF OriginalsStay, SnapshotFirst, NowAt, Quiet
  <1>conv. ChangesSoFar'
    BY ConvertBefore, <1>1, <1>2 DEF ChangesSoFar, SnapshotFirst, CodesTell, NowAt, Quiet, Asking,
        Unstarted, Writing, Restoring
  <1>d. Agreed'
    BY ConvertBefore, <1>1, <1>2 DEF Agreed, NowAt, Quiet, Asking, Unstarted, Writing, Restoring
  <1>e. Unasked
    BY ConvertBefore, <1>d, <1>1, <1>2 DEF Agreed, Unasked, Legacy!Files, NowAt, Quiet
  <1> QED
    BY <1>t, <1>a, <1>b, <1>conv, <1>d, <1>e, <1>f DEF ConvertInv

\* Both objects are there.
LEMMA IsComplete ==
  ASSUME Legacy!ConvertAssumption, ConvertInv, conv.at = "create", Quiet, conv.found \subseteq there,
         conv' = [conv EXCEPT !.created = TRUE, !.at = "plan"]
  PROVE  ConvertInv' /\ Unasked
  <1>1. /\ conv' \in Conversions
        /\ conv'.at = "plan" /\ conv'.name = conv.name /\ conv'.agreed = conv.agreed /\ conv'.found = conv.found
        /\ conv'.created = TRUE /\ conv'.profiles = conv.profiles /\ conv'.saved = conv.saved
        /\ conv'.code = conv.code /\ conv'.broken = conv.broken /\ conv'.alone = conv.alone
    BY ConvertBefore DEF Conversions, ConversionPlaces, Unstarted
  <1>2. conv.at = "create" /\ Quiet /\ there = Legacy!Objects
    BY ConvertBefore DEF Agreed
  <1>t. ConvertTypes'
    BY ConvertBefore, <1>1, <1>2 DEF ConvertTypes, NowAt, Quiet
  <1>a. SnapshotFirst'
    BY ConvertBefore, <1>1, <1>2 DEF SnapshotFirst, NowAt, Quiet, Unstarted, Writing, Restoring
  <1>f. CodesTell'
    BY ConvertBefore, <1>1, <1>2 DEF SnapshotFirst, CodesTell, NowAt, Unstarted, Writing, Restoring
  <1>b. OriginalsStay'
    BY ConvertBefore, <1>1, <1>2 DEF OriginalsStay, SnapshotFirst, NowAt, Quiet
  <1>conv. ChangesSoFar'
    BY ConvertBefore, <1>1, <1>2 DEF ChangesSoFar, SnapshotFirst, CodesTell, NowAt, Quiet, Asking,
        Unstarted, Writing, Restoring
  <1>d. Agreed'
    BY ConvertBefore, <1>1, <1>2 DEF Agreed, NowAt, Quiet, Asking, Unstarted, Writing, Restoring
  <1>e. Unasked
    BY ConvertBefore, <1>d, <1>1, <1>2 DEF Agreed, Unasked, Legacy!Files, NowAt, Quiet
  <1> QED
    BY <1>t, <1>a, <1>b, <1>conv, <1>d, <1>e, <1>f DEF ConvertInv

\* A name is chosen that no profile has.
LEMMA ChoosesName ==
  ASSUME Legacy!ConvertAssumption, ConvertInv, NEW n \in Fresh, Quiet, conv.at = "plan",
         conv' = [conv EXCEPT !.at = "confirm", !.name = n]
  PROVE  ConvertInv' /\ Unasked
  <1>1. /\ conv' \in Conversions
        /\ conv'.at = "confirm" /\ conv'.name = n /\ conv'.agreed = conv.agreed /\ conv'.found = conv.found
        /\ conv'.created = conv.created /\ conv'.profiles = conv.profiles /\ conv'.saved = conv.saved
        /\ conv'.code = conv.code /\ conv'.broken = conv.broken /\ conv'.alone = conv.alone
    BY ConvertBefore DEF Conversions, ConversionPlaces, Unstarted
  <1>2. conv.at = "plan" /\ Quiet /\ n \in Fresh
    OBVIOUS
  <1>t. ConvertTypes'
    BY ConvertBefore, <1>1, <1>2 DEF ConvertTypes, NowAt, Quiet
  <1>a. SnapshotFirst'
    BY ConvertBefore, <1>1, <1>2 DEF SnapshotFirst, NowAt, Quiet, Unstarted, Writing, Restoring
  <1>f. CodesTell'
    BY ConvertBefore, <1>1, <1>2 DEF SnapshotFirst, CodesTell, NowAt, Unstarted, Writing, Restoring
  <1>b. OriginalsStay'
    BY ConvertBefore, <1>1, <1>2 DEF OriginalsStay, SnapshotFirst, NowAt, Quiet
  <1>conv. ChangesSoFar'
    BY ConvertBefore, <1>1, <1>2 DEF ChangesSoFar, SnapshotFirst, CodesTell, NowAt, Quiet, Asking,
        Unstarted, Writing, Restoring
  <1>d. Agreed'
    BY ConvertBefore, <1>1, <1>2 DEF Agreed, NowAt, Quiet, Asking, Unstarted, Writing, Restoring
  <1>e. Unasked
    BY ConvertBefore, <1>d, <1>1, <1>2 DEF Agreed, Unasked, Legacy!Files, NowAt, Quiet
  <1> QED
    BY <1>t, <1>a, <1>b, <1>conv, <1>d, <1>e, <1>f DEF ConvertInv

\* The snapshots are taken.
LEMMA TakesSnapshots ==
  ASSUME Legacy!ConvertAssumption, ConvertInv, Quiet, conv.at = "snapshot",
         conv' = [conv EXCEPT !.at = "write profile", !.profiles = profiles, !.saved = named, !.alone = TRUE]
  PROVE  ConvertInv' /\ Unasked
  <1>1. /\ conv' \in Conversions
        /\ conv'.at = "write profile" /\ conv'.name = conv.name /\ conv'.agreed = conv.agreed
            /\ conv'.found = conv.found
        /\ conv'.created = conv.created /\ conv'.profiles = profiles /\ conv'.saved = named
        /\ conv'.code = conv.code /\ conv'.broken = conv.broken /\ conv'.alone = TRUE
    BY ConvertBefore DEF Conversions, ConversionPlaces, Writing
  <1>2. /\ conv.at = "snapshot" /\ Quiet /\ profiles # NoSnapshot
           /\ \A n \in Legacy!Names : profiles[n] # "convert"
    <2>1. conv.name \in DOMAIN profiles
      BY ConvertBefore DEF SnapshotFirst, ProfileFiles
    <2>2. profiles # NoSnapshot
      BY <2>1 DEF NoSnapshot
    <2> QED
      BY <2>2, ConvertBefore DEF SnapshotFirst
  <1>t. ConvertTypes'
    BY ConvertBefore, <1>1, <1>2 DEF ConvertTypes, NowAt, Quiet
  <1>a. SnapshotFirst'
    BY ConvertBefore, <1>1, <1>2 DEF SnapshotFirst, NowAt, Quiet, Unstarted, Writing, Restoring
  <1>f. CodesTell'
    BY ConvertBefore, <1>1, <1>2 DEF SnapshotFirst, CodesTell, NowAt, Unstarted, Writing, Restoring
  <1>b. OriginalsStay'
    BY ConvertBefore, <1>1, <1>2 DEF OriginalsStay, SnapshotFirst, NowAt, Quiet
  <1>conv. ChangesSoFar'
    BY ConvertBefore, <1>1, <1>2 DEF ChangesSoFar, SnapshotFirst, CodesTell, NowAt, Quiet, Asking,
        Unstarted, Writing, Restoring
  <1>d. Agreed'
    BY ConvertBefore, <1>1, <1>2 DEF Agreed, NowAt, Quiet, Asking, Unstarted, Writing, Restoring
  <1>e. Unasked
    BY ConvertBefore, <1>d, <1>1, <1>2 DEF Agreed, Unasked, Legacy!Files, NowAt, Quiet
  <1> QED
    BY <1>t, <1>a, <1>b, <1>conv, <1>d, <1>e, <1>f DEF ConvertInv

\* Another login writes its profile.
LEMMA OtherLogs ==
  ASSUME Legacy!ConvertAssumption, ConvertInv, NEW n \in Fresh, NEW saves \in BOOLEAN,
         Legacy!OtherWrites(n, saves)
  PROVE  ConvertInv' /\ Unasked
  <1>1. /\ conv' \in Conversions
        /\ conv'.at = conv.at /\ conv'.name = conv.name /\ conv'.agreed = conv.agreed
            /\ conv'.found = conv.found
        /\ conv'.created = conv.created /\ conv'.profiles = conv.profiles /\ conv'.saved = conv.saved
        /\ conv'.code = conv.code /\ conv'.broken = conv.broken /\ conv'.alone = FALSE
    BY ConvertBefore DEF Conversions, Legacy!OtherWrites
  <1>2. /\ profiles' \in ProfileFiles /\ profiles'[n] = "other" /\ \A m \in Legacy!Names : m # n
           => profiles'[m] = profiles[m]
        /\ named' \in Legacy!Names \cup {Legacy!None} /\ n \notin Originals /\ another' = TRUE
            /\ another' # another /\ there' = there
    BY ConvertBefore DEF Legacy!OtherWrites, ProfileFiles
  <1>t. ConvertTypes'
    BY ConvertBefore, <1>1, <1>2 DEF ConvertTypes, NowAt, Quiet
  <1>a. SnapshotFirst'
    BY ConvertBefore, <1>1, <1>2 DEF SnapshotFirst, NowAt, Quiet, Unstarted, Writing, Restoring
  <1>f. CodesTell'
    BY ConvertBefore, <1>1, <1>2 DEF SnapshotFirst, CodesTell, NowAt, Unstarted, Writing, Restoring
  <1>b. OriginalsStay'
    BY ConvertBefore, <1>1, <1>2 DEF OriginalsStay, SnapshotFirst, NowAt, Quiet
  <1>conv. ChangesSoFar'
    BY ConvertBefore, <1>1, <1>2 DEF ChangesSoFar, SnapshotFirst, CodesTell, NowAt, Quiet, Asking,
        Unstarted, Writing, Restoring
  <1>d. Agreed'
    BY ConvertBefore, <1>1, <1>2 DEF Agreed, NowAt, Quiet, Asking, Unstarted, Writing, Restoring
  <1>e. Unasked
    BY ConvertBefore, <1>d, <1>1, <1>2 DEF Agreed, Unasked, Legacy!Files, NowAt, Quiet
  <1> QED
    BY <1>t, <1>a, <1>b, <1>conv, <1>d, <1>e, <1>f DEF ConvertInv

\* An object is created.
LEMMA Creates ==
  ASSUME Legacy!ConvertAssumption, ConvertInv, conv.at = "create", conv' = conv, UNCHANGED <<profiles,
         named, another>>,
         there \subseteq there', there' \subseteq Legacy!Objects
  PROVE  ConvertInv' /\ Unasked
  <1>1. ConvertTypes' /\ SnapshotFirst' /\ OriginalsStay' /\ ChangesSoFar' /\ CodesTell'
    BY ConvertBefore DEF ConvertTypes, SnapshotFirst, OriginalsStay, ChangesSoFar, CodesTell
  <1>2. Agreed' /\ Unasked
    BY ConvertBefore DEF Agreed, Unasked, Legacy!Files
  <1> QED
    BY <1>1, <1>2 DEF ConvertInv

\* Every step keeps the invariant and does nothing unasked.
LEMMA ConvertSteps ==
  ASSUME Legacy!ConvertAssumption, ConvertInv, [Legacy!Next]_(Legacy!vars)
  PROVE  ConvertInv' /\ Unasked
  <1> USE DEF Legacy!Go, Legacy!Exit, Quiet
  <1>p. /\ {"check", "database", "create", "plan", "snapshot", "write config", "sign in", "done",
           "exit"} \subseteq ConversionPlaces
        /\ Restoring \subseteq ConversionPlaces /\ {0, 1, 130} \subseteq 0 .. 130
    BY DEF ConversionPlaces, Unstarted, Unstarted, Writing, Restoring
  <1>1. CASE UNCHANGED Legacy!vars
    <2>1. ConvertInv'
      <3>1. conv' = conv /\ UNCHANGED <<profiles, named, there, another>>
        BY <1>1 DEF Legacy!vars
      <3>2. ConvertTypes' /\ SnapshotFirst' /\ OriginalsStay'
        BY <3>1, ConvertBefore DEF ConvertTypes, SnapshotFirst, OriginalsStay
      <3>3. ChangesSoFar' /\ CodesTell' /\ Agreed'
        BY <3>1, ConvertBefore DEF ChangesSoFar, CodesTell, Agreed
      <3> QED
        BY <3>2, <3>3 DEF ConvertInv
    <2> QED
      BY <1>1, <2>1, ConvertBefore DEF Unasked, Agreed, Legacy!Files, Legacy!vars
  <1>2. CASE Legacy!Read \/ Legacy!Check \/ Legacy!AskCreate \/ Legacy!Confirm \/ Legacy!Cancel
    <2>1. ASSUME NEW k \in {1, 130}, Legacy!Exit(k) PROVE ConvertInv' /\ Unasked
      BY <1>2, <2>1, EndsEarly DEF Legacy!Read, Legacy!Check, Legacy!AskCreate, Legacy!Confirm,
          Legacy!Cancel, Unstarted
    <2>2. CASE Legacy!Read
      BY <1>p, <2>1, <2>2, ConvertBefore, ConversionMoves, Asks, Zenon DEF Legacy!Read
    <2>3. CASE Legacy!Check
      <3>1. CASE conv' = [conv EXCEPT !.at = "database", !.agreed = @ \cup {"check"}]
        <4>1. NowAt("database", conv.agreed \cup {"check"}, conv.code, conv.broken)
          BY <1>p, <3>1, ConvertBefore, ConversionMoves, Zenon
        <4> QED
          <5> DEFINE all == conv.agreed \cup {"check"}
          <5>1. conv.agreed \subseteq all /\ "check" \in all /\ NowAt("database", all, conv.code, conv.broken)
            BY <4>1
          <5>2. UNCHANGED <<profiles, named, there, another>> /\ conv.at = "check"
                /\ "database" \in ConversionPlaces
            BY <1>p, <2>3 DEF Legacy!Check
          <5> HIDE DEF all
          <5> QED
            BY <5>1, <5>2, Asks
      <3> QED
        BY <2>1, <2>3, <3>1 DEF Legacy!Check
    <2>4. CASE Legacy!AskCreate
      <3>1. CASE conv' = [conv EXCEPT !.at = "create", !.agreed = @ \cup {"create"}]
        <4>1. NowAt("create", conv.agreed \cup {"create"}, conv.code, conv.broken)
          BY <1>p, <3>1, ConvertBefore, ConversionMoves, Zenon
        <4> QED
          <5> DEFINE all == conv.agreed \cup {"create"}
          <5>1. conv.agreed \subseteq all /\ "create" \in all /\ NowAt("create", all, conv.code, conv.broken)
            BY <4>1
          <5>2. UNCHANGED <<profiles, named, there, another>> /\ conv.at = "ask create"
                /\ "create" \in ConversionPlaces
            BY <1>p, <2>4 DEF Legacy!AskCreate
          <5> HIDE DEF all
          <5> QED
            BY <5>1, <5>2, Asks
      <3> QED
        BY <2>1, <2>4, <3>1 DEF Legacy!AskCreate
    <2>5. CASE Legacy!Confirm
      <3>1. CASE conv' = [conv EXCEPT !.at = "snapshot", !.agreed = @ \cup {"change"}]
        <4>1. NowAt("snapshot", conv.agreed \cup {"change"}, conv.code, conv.broken)
          BY <1>p, <3>1, ConvertBefore, ConversionMoves, Zenon
        <4> QED
          <5> DEFINE all == conv.agreed \cup {"change"}
          <5>1. conv.agreed \subseteq all /\ "change" \in all /\ NowAt("snapshot", all, conv.code, conv.broken)
            BY <4>1
          <5>2. UNCHANGED <<profiles, named, there, another>> /\ conv.at = "confirm"
                /\ "snapshot" \in ConversionPlaces
            BY <1>p, <2>5 DEF Legacy!Confirm
          <5> HIDE DEF all
          <5> QED
            BY <5>1, <5>2, Asks
      <3> QED
        BY <2>1, <2>5, <3>1 DEF Legacy!Confirm
    <2> QED
      BY <1>2, <2>1, <2>2, <2>3, <2>4, <2>5 DEF Legacy!Cancel
  <1>3. CASE Legacy!CheckDatabase
    BY <1>p, <1>3, ConvertBefore, ConversionMoves, Asks, FindsMissing, Zenon DEF Legacy!CheckDatabase
  <1>4. CASE Legacy!Create
    <2>1. CASE Legacy!Exit(1) /\ UNCHANGED there
      BY <1>4, <2>1, EndsEarly DEF Legacy!Create, Unstarted
    <2>2. CASE conv.found \subseteq there /\ UNCHANGED there
               /\ conv' = [conv EXCEPT !.created = TRUE, !.at = "plan"]
      BY <1>4, <2>2, IsComplete DEF Legacy!Create
    <2>3. CASE UNCHANGED conv /\ there' = there \cup (IF "database" \in there THEN {"schema"} ELSE {"database"})
      <3>1. there \subseteq there' /\ there' \subseteq Legacy!Objects
        BY <2>3, ConvertBefore DEF Legacy!Objects
      <3> QED
        BY <1>4, <2>3, <3>1, Creates DEF Legacy!Create
    <2> QED
      BY <1>4, <2>1, <2>2, <2>3 DEF Legacy!Create
  <1>5. CASE \E n \in Fresh : Legacy!PlanName(n)
    BY <1>5, ChoosesName DEF Legacy!PlanName
  <1>6. CASE Legacy!Snapshot
    BY <1>6, TakesSnapshots DEF Legacy!Snapshot
  <1>7. CASE Legacy!WriteProfile \/ Legacy!WriteConfig \/ Legacy!SignIn \/ Legacy!Raise
    <2>1. ASSUME NEW k \in {1, 130}, conv' = [conv EXCEPT !.at = "restore profiles", !.code = k]
                 PROVE ConvertInv' /\ Unasked
      <3>1. NowAt("restore profiles", conv.agreed, k, conv.broken)
        <4>1. "restore profiles" \in ConversionPlaces /\ k \in 0 .. 130
          BY <1>p DEF Restoring
        <4> QED
          BY <2>1, <4>1, ConvertBefore, ConversionMoves, Zenon
      <3> QED
        BY <1>7, <3>1, Falls DEF Legacy!WriteProfile, Legacy!WriteConfig, Legacy!SignIn, Legacy!Raise, Writing
    <2>2. CASE Legacy!WriteProfile /\ Legacy!Go("write config")
      BY <1>p, <2>2, ConvertBefore, ConversionMoves, GoesOn, Zenon DEF Legacy!WriteProfile
    <2>3. CASE Legacy!WriteConfig /\ Legacy!Go("sign in")
      BY <1>p, <2>3, ConvertBefore, ConversionMoves, GoesOn, Zenon DEF Legacy!WriteConfig
    <2>4. CASE Legacy!SignIn /\ Legacy!Go("done")
      BY <1>p, <2>4, ConvertBefore, ConversionMoves, GoesOn, Zenon DEF Legacy!SignIn
    <2> QED
      BY <1>7, <2>1, <2>2, <2>3, <2>4 DEF Legacy!WriteProfile, Legacy!WriteConfig, Legacy!SignIn,
          Legacy!Raise, Legacy!Then
  <1>8. CASE Legacy!Done
    BY <1>p, <1>8, ConvertBefore, ConversionMoves, GoesOn, Zenon DEF Legacy!Done
  <1>9. CASE Legacy!RestoreProfiles
    BY <1>p, <1>9, ConvertBefore, ConversionMoves, PutsBack, Zenon DEF Legacy!RestoreProfiles, Restoring
  <1>10. CASE Legacy!RestoreConfig
    BY <1>p, <1>10, ConvertBefore, ConversionMoves, PutsBack, Zenon DEF Legacy!RestoreConfig
  <1>11. CASE Legacy!RestoreFails
    <2>1. PICK p \in {"restore config", "exit"}, k \in {conv.code, 130} : NowAt(p, conv.agreed, k, TRUE)
      <3>1. CASE conv' = [conv EXCEPT !.at = "exit", !.code = 130, !.broken = TRUE]
        BY <1>p, <3>1, ConvertBefore, ConversionMoves, Zenon
      <3>2. CASE conv' = [conv EXCEPT !.at = IF @ = "restore profiles" THEN "restore config" ELSE "exit", !.broken = TRUE]
        <4> DEFINE q == IF conv.at = "restore profiles" THEN "restore config" ELSE "exit"
        <4>1. q \in {"restore config", "exit"} /\ q \in ConversionPlaces
          BY <1>p DEF Restoring
        <4>2. conv' = [conv EXCEPT !.at = q, !.broken = TRUE]
          BY <3>2
        <4> HIDE DEF q
        <4> QED
          BY <4>1, <4>2, ConvertBefore, ConversionMoves, Zenon
      <3> QED
        BY <1>11, <3>1, <3>2 DEF Legacy!RestoreFails
    <2> QED
      <3>1. /\ conv.at \in Restoring /\ p \in ConversionPlaces /\ profiles' = profiles /\ named' = named
            /\ UNCHANGED <<there, another>>
        <4>1. {"restore config", "exit"} \subseteq ConversionPlaces
          BY <1>p DEF Restoring
        <4> QED
          BY <1>11, <4>1 DEF Legacy!RestoreFails, Restoring
      <3> QED
        BY <2>1, <3>1, PutsBack
  <1>12. CASE \E n \in Fresh, saves \in BOOLEAN : Legacy!OtherWrites(n, saves)
    BY <1>12, OtherLogs
  <1> QED
    BY <1>1, <1>2, <1>3, <1>4, <1>5, <1>6, <1>7, <1>8, <1>9, <1>10, <1>11, <1>12 DEF Legacy!Next

\* "If anything fails, every file is put back as it was" (_convert.py): a conversion that ends,
\* with no other writer since its snapshots and no failure of the restore, made both changes or none.
THEOREM ConversionsAreWhole ==
  ASSUME Legacy!ConvertAssumption
  PROVE  Legacy!Spec => []Legacy!AllOrNothing
  <1>1. Legacy!Init => ConvertInv
    BY ConvertStarts
  <1>2. ConvertInv /\ [Legacy!Next]_(Legacy!vars) => ConvertInv'
    BY ConvertSteps
  <1>3. ConvertInv => Legacy!AllOrNothing
    <2> SUFFICES ASSUME ConvertInv, conv.at = "exit", conv.alone, ~conv.broken PROVE Legacy!AllOrNothing
      BY DEF Legacy!AllOrNothing
    <2>1. SnapshotFirst /\ ChangesSoFar /\ CodesTell
      BY DEF ConvertInv
    <2>2. CASE conv.code = 0
      BY <2>1, <2>2 DEF ChangesSoFar, Legacy!AllOrNothing
    <2>3. CASE conv.code # 0
      <3>1. conv.profiles # NoSnapshot => profiles = conv.profiles /\ named = conv.saved
        BY <2>1, <2>3 DEF ChangesSoFar
      <3>2. \A n \in Legacy!Names : profiles[n] # "convert"
        BY <2>1, <3>1 DEF SnapshotFirst
      <3> QED
        BY <2>3, <3>1, <3>2 DEF Legacy!AllOrNothing, NoSnapshot
    <2> QED
      BY <2>2, <2>3
  <1> QED
    BY <1>1, <1>2, <1>3, PTL DEF Legacy!Spec

\* No step changes what was there before, writes before the questions are answered, or makes an
\* object without a yes.
THEOREM ConversionsAskFirst ==
  ASSUME Legacy!ConvertAssumption
  PROVE  Legacy!Spec => Legacy!NothingUnasked
  <1>1. Legacy!Init => ConvertInv
    BY ConvertStarts
  <1>2. ConvertInv /\ [Legacy!Next]_(Legacy!vars) => ConvertInv'
    BY ConvertSteps
  <1>3. ConvertInv /\ [Legacy!Next]_(Legacy!vars) => [Unasked]_(Legacy!vars)
    BY ConvertSteps
  <1>4. [Unasked]_(Legacy!vars) =>
          [/\ \A n \in Originals : profiles'[n] = profiles[n]
           /\ Legacy!Files' # Legacy!Files /\ another' = another => {"check", "change"} \subseteq conv.agreed
           /\ there' # there => "create" \in conv.agreed
           /\ conv'.created => there' = Legacy!Objects]_(Legacy!vars)
    BY DEF Unasked
  <1> QED
    BY <1>1, <1>2, <1>3, <1>4, PTL DEF Legacy!Spec, Legacy!NothingUnasked

=============================================================================
