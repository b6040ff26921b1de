------------------------ MODULE TrainingRequestsProofs ------------------------
(* Proofs about TrainingRequests, for every number of calls, chunks, pages,   *)
(* attempts and POSTs on their way, and for every order in which the requests *)
(* are polled.                                                                *)
EXTENDS TrainingRequests, FiniteSetTheorems, SequenceTheorems, WellFoundedInduction, TLAPS

-----------------------------------------------------------------------------
(* The tags, counted up to a run of a sequence of results.                   *)

OkIn(r, i) == {j \in 1..i : r[j].ok}
MovedIn(r, i) == {j \in OkIn(r, i) : r[j].op # "fwd_bwd"}

\* After run i the calls count toward step s, and k of them have.
Tags(r, i, s, k) ==
    /\ MovedIn(r, i) = {} => s = NoStep /\ k = 0
    /\ \A x \in MovedIn(r, i) : (\A y \in MovedIn(r, i) : y <= x) =>
          IF r[x].op = "load" THEN s = NoStep /\ k = 0
          ELSE s = r[x].step + 1 /\ k = Cardinality({j \in OkIn(r, i) : j > x})

Increasing(s) == \A k, m \in 1..Len(s) : k < m => s[k] < s[m]
LogOf(s) == {s[n] : n \in 1..Len(s)}

-----------------------------------------------------------------------------
(* The inductive invariant.                                                  *)

\* TypeOK, part by part.
CallTypes ==
    /\ op \in [Calls -> Ops] /\ size \in [Calls -> 1..MaxChunks]
    /\ pc \in [Calls -> {"idle", "submitting", "unsent", "accepted", "logging", "returned",
                         "undecodable"}]
SubmitTypes ==
    /\ cur \in 0..NumCalls
    /\ sub \in [idx: 0..MaxChunks - 1, tries: 0..Attempts - 1, restarts: 0..1,
                renewed: BOOLEAN]
PollTypes ==
    /\ poll \in [Calls -> [got: Seq(1..Pages), cursor: 0..Pages]]
    /\ ops \subseteq Calls /\ Cardinality(ops) <= MaxOps
LogTypes ==
    /\ next \in Nat /\ calls \in Nat
    /\ rows \in Seq([run: DOMAIN results, step: Nat, call: Nat])
    /\ logged \in Seq(DOMAIN results)
ServiceTypes ==
    /\ request \in [Calls -> Nat] /\ \A c \in Calls : request[c] <= Len(scheduled)
    /\ globalSteps \in Nat
    /\ groups \in [Calls -> SUBSET (0..MaxChunks - 1)]
    /\ scheduled \in Seq(Calls) /\ results \in Seq([op: Ops, ok: BOOLEAN, step: Nat])
    /\ Len(results) <= Len(scheduled)
    /\ late \subseteq Calls \X (0..MaxChunks - 1)

\* One call is submitted at a time, and only a forward-backward has more than one chunk.
OneAtATime ==
    /\ \A c \in Calls : (c > cur <=> pc[c] = "idle") /\ (pc[c] = "submitting" => c = cur)
    /\ Submitting => sub.idx < size[cur]
    /\ \A c \in Calls : op[c] # "fwd_bwd" => size[c] = 1

\* The service knows only of calls that were begun.
CallsWereBegun ==
    /\ \A i \in 1..Len(scheduled) : scheduled[i] <= cur
    /\ \A x \in late : x[1] <= cur

\* A request id resolves to a run of its own call, whose result is of that call's operation.
RunsAreOwn ==
    /\ \A c \in Calls : pc[c] \in {"accepted", "logging", "returned"} =>
          request[c] \in 1..Len(scheduled) /\ scheduled[request[c]] = c
    /\ \A i \in 1..Len(results) : results[i].op = op[scheduled[i]]

\* What a poll has received is the first pages up to its cursor.
PagesSoFar == \A c \in Calls : poll[c].got = [i \in 1..poll[c].cursor |-> i]

\* A call is to be logged, or is being logged with a result that is there, or its run was logged.
LogsItsOwn ==
    /\ \A c \in ops : pc[c] = "accepted"
    /\ \A c \in Calls : pc[c] = "logging" => request[c] \in 1..Len(results) /\ results[request[c]].ok
    /\ \A n \in 1..Len(logged) :
          /\ pc[scheduled[logged[n]]] = "returned"
          /\ request[scheduled[logged[n]]] = logged[n]
    /\ \A m \in 1..Len(rows) : rows[m].run \in LogOf(logged)
    /\ next = NoStep => calls = 0

\* Once the log has exactly the results up to a run, in order, it knows what the next call counts
\* toward.
LogFollows ==
    \A i \in 0..Len(results) :
        Increasing(logged) /\ LogOf(logged) = OkIn(results, i) => Tags(results, i, next, calls)

\* The row of a call that was logged in order has its tags.
RowsFollow ==
    \A m \in 1..Len(rows) :
        results[rows[m].run].op = "fwd_bwd" /\ InOrderUpTo(rows[m].run) =>
            \E k \in Nat : /\ Tags(results, rows[m].run - 1, rows[m].step, k)
                           /\ rows[m].call = IF rows[m].step = NoStep THEN 0 ELSE k + 1

RequestsInv ==
    /\ CallTypes /\ SubmitTypes /\ PollTypes /\ LogTypes /\ ServiceTypes
    /\ OneAtATime /\ CallsWereBegun /\ FwdBwdRunsOnce /\ RunsAreOwn /\ PagesSoFar /\ ResultsAreWhole
    /\ LogsItsOwn /\ LoggedOnce /\ LogFollows /\ RowsFollow

-----------------------------------------------------------------------------
(* Sequences and tags.                                                       *)

\* What appending does to a sequence and to its elements.
LEMMA Appended ==
    ASSUME NEW S, NEW s \in Seq(S), NEW x
    PROVE  /\ Len(Append(s, x)) = Len(s) + 1 /\ Len(s) \in Nat
           /\ \A i \in 1..Len(s) : Append(s, x)[i] = s[i]
           /\ Append(s, x)[Len(s) + 1] = x
           /\ LogOf(Append(s, x)) = LogOf(s) \cup {x}
           /\ x \in S => Append(s, x) \in Seq(S)
  <1>1. /\ Len(Append(s, x)) = Len(s) + 1 /\ Len(s) \in Nat
        /\ \A i \in 1..Len(s) : Append(s, x)[i] = s[i]
        /\ Append(s, x)[Len(s) + 1] = x
    OBVIOUS
  <1>2. LogOf(Append(s, x)) = LogOf(s) \cup {x}
    BY <1>1 DEF LogOf
  <1> QED
    BY <1>1, <1>2

\* The tags after a run depend only on the results that are good, up to it.
LEMMA SameTags ==
    ASSUME NEW r, NEW q, NEW i \in Nat, NEW j \in Nat, OkIn(r, i) = OkIn(q, j),
           \A x \in OkIn(r, i) : r[x] = q[x], NEW s, NEW k, Tags(r, i, s, k)
    PROVE  Tags(q, j, s, k)
  <1>1. MovedIn(r, i) = MovedIn(q, j)
    BY DEF MovedIn
  <1>2. MovedIn(r, i) \subseteq OkIn(r, i)
    BY DEF MovedIn
  <1> QED
    BY <1>1, <1>2 DEF Tags

LEMMA CallCounts ==
    ASSUME NEW r, NEW i \in Nat \ {0}, r[i].ok, r[i].op = "fwd_bwd", NEW s \in Nat, NEW k \in Nat,
           \A x \in 1..i : r[x].step \in Nat,
           Tags(r, i - 1, s, k)
    PROVE  Tags(r, i, s, IF s = NoStep THEN k ELSE k + 1)
  <1>1. OkIn(r, i) = OkIn(r, i - 1) \cup {i} /\ i \notin OkIn(r, i - 1)
    BY DEF OkIn
  <1>2. MovedIn(r, i) = MovedIn(r, i - 1) /\ MovedIn(r, i) \subseteq 1..(i - 1)
    BY <1>1 DEF MovedIn, OkIn
  <1>3. ASSUME MovedIn(r, i) = {}
        PROVE  s = NoStep /\ k = 0
    BY <1>2, <1>3 DEF Tags
  <1>4. ASSUME NEW x \in MovedIn(r, i), \A y \in MovedIn(r, i) : y <= x, r[x].op = "load"
        PROVE  s = NoStep /\ k = 0
    BY <1>2, <1>4 DEF Tags
  <1>5. ASSUME NEW x \in MovedIn(r, i), \A y \in MovedIn(r, i) : y <= x, r[x].op # "load"
        PROVE  s = r[x].step + 1 /\ s # NoStep /\ k + 1 = Cardinality({j \in OkIn(r, i) : j > x})
    <2> DEFINE before == {j \in OkIn(r, i - 1) : j > x}
    <2>1. s = r[x].step + 1 /\ k = Cardinality(before)
      BY <1>2, <1>5 DEF Tags
    <2>2. r[x].step \in Nat /\ x < i
      BY <1>2, <1>5
    <2>3. {j \in OkIn(r, i) : j > x} = before \cup {i} /\ i \notin before
      BY <1>1, <2>2
    <2>4. IsFiniteSet(before)
      <3>1. IsFiniteSet(1..i) /\ before \in SUBSET (1..i)
        BY FS_Interval DEF OkIn
      <3> QED
        BY <3>1, FS_Subset
    <2>5. Cardinality(before \cup {i}) = Cardinality(before) + 1
      BY <2>3, <2>4, FS_AddElement
    <2> HIDE DEF before
    <2> QED
      <3>1. Cardinality({j \in OkIn(r, i) : j > x}) = Cardinality(before \cup {i})
        BY <2>3
      <3>2. k + 1 = Cardinality({j \in OkIn(r, i) : j > x})
        BY <2>1, <2>5, <3>1
      <3> QED
        BY <2>1, <2>2, <3>2 DEF NoStep
  <1> QED
    BY <1>3, <1>4, <1>5 DEF Tags

LEMMA StepStarts ==
    ASSUME NEW r, NEW i \in Nat \ {0}, r[i].ok, r[i].op \in {"step", "load"}
    PROVE  Tags(r, i, IF r[i].op = "load" THEN NoStep ELSE r[i].step + 1, 0)
  <1>1. i \in MovedIn(r, i) /\ MovedIn(r, i) \subseteq 1..i
    BY DEF MovedIn, OkIn
  <1>2. ASSUME NEW x \in MovedIn(r, i), \A y \in MovedIn(r, i) : y <= x
        PROVE  x = i /\ Cardinality({j \in OkIn(r, i) : j > x}) = 0
    <2>1. x = i
      BY <1>1, <1>2
    <2>2. {j \in OkIn(r, i) : j > x} = {}
      BY <2>1 DEF OkIn
    <2> QED
      BY <2>1, <2>2, FS_EmptySet
  <1> QED
    BY <1>1, <1>2 DEF Tags

\* A set of numbers up to a bound that is not empty has a greatest one.
LEMMA HasLatest ==
    ASSUME NEW n \in Nat, NEW S, S \subseteq 1..n, S # {}
    PROVE  Latest(S) \in S /\ \A y \in S : y <= Latest(S)
  <1> DEFINE Less == {ss \in Nat \X Nat : ss[1] < ss[2]}
             below == {n - y : y \in S}
  <1>1. IsWellFoundedOn(Less, Nat)
    BY NatLessThanWellFounded DEF OpToRel
  <1>2. below \subseteq Nat /\ below # {}
    <2>1. \A y \in S : n - y \in Nat
      OBVIOUS
    <2> QED
      BY <2>1
  <1> HIDE DEF Less, below
  <1>3. PICK z \in below : \A y \in below : ~(<<y, z>> \in Less)
    BY <1>1, <1>2, WFMin
  <1>4. \A y \in below : z <= y
    <2>1. \A y \in below : y \in Nat /\ z \in Nat /\ ~(y < z)
      BY <1>2, <1>3 DEF Less
    <2> QED
      BY <2>1
  <1>5. PICK x \in S : z = n - x
    BY DEF below
  <1>6. \A y \in S : y <= x
    <2>1. ASSUME NEW y \in S
          PROVE  y <= x
      <3>1. n - x <= n - y
        BY <1>4, <1>5 DEF below
      <3>2. x \in Nat /\ y \in Nat
        OBVIOUS
      <3> QED
        BY <3>1, <3>2
    <2> QED
      BY <2>1
  <1> QED
    BY <1>6 DEF Latest

-----------------------------------------------------------------------------
(* What handling a POST, and remembering a call, do.                         *)

\* The service may have scheduled a call that was begun, a forward-backward if it had not.
ScheduleGrows ==
    /\ groups' \in [Calls -> SUBSET (0..MaxChunks - 1)]
    /\ scheduled' \in Seq(Calls) /\ Len(scheduled) \in Nat /\ Len(scheduled') \in Nat
    /\ Len(scheduled) <= Len(scheduled')
    /\ \A i \in 1..Len(scheduled) : scheduled'[i] = scheduled[i]
    /\ \A i \in 1..Len(scheduled') : scheduled'[i] <= cur
    /\ \A i, j \in 1..Len(scheduled') :
          op[scheduled'[i]] = "fwd_bwd" /\ scheduled'[i] = scheduled'[j] => i = j
    /\ results' = results /\ globalSteps' = globalSteps

LEMMA HandleFacts ==
    ASSUME RequestsInv, NEW c \in Calls, c <= cur, NEW k \in 0..MaxChunks - 1, Handle(c, k)
    PROVE  ScheduleGrows
  <1>1. scheduled \in Seq(Calls) /\ Len(scheduled) \in Nat /\ groups \in [Calls -> SUBSET (0..MaxChunks - 1)]
    BY DEF RequestsInv, ServiceTypes
  <1>2. /\ \A i \in 1..Len(scheduled) : scheduled[i] <= cur
        /\ \A i, j \in 1..Len(scheduled) :
              op[scheduled[i]] = "fwd_bwd" /\ scheduled[i] = scheduled[j] => i = j
    BY <1>1 DEF RequestsInv, CallsWereBegun, FwdBwdRunsOnce
  <1>3. groups' \in [Calls -> SUBSET (0..MaxChunks - 1)]
    BY <1>1 DEF Handle
  <1>4. CASE scheduled' = scheduled
    BY <1>1, <1>2, <1>3, <1>4 DEF Handle, ScheduleGrows
  <1>5. CASE scheduled' = Append(scheduled, c) /\ ~(op[c] = "fwd_bwd" /\ Ran(c))
    <2>1. /\ scheduled' \in Seq(Calls) /\ Len(scheduled') = Len(scheduled) + 1
          /\ \A i \in 1..Len(scheduled) : scheduled'[i] = scheduled[i]
          /\ scheduled'[Len(scheduled) + 1] = c
      BY <1>1, <1>5
    <2>2. op[c] = "fwd_bwd" => \A i \in 1..Len(scheduled) : scheduled[i] # c
      BY <1>1, <1>5 DEF Ran, RangeOf
    <2>3. \A i \in 1..Len(scheduled') : scheduled'[i] <= cur
      BY <1>1, <1>2, <2>1
    <2>4. ASSUME NEW i \in 1..Len(scheduled'), NEW j \in 1..Len(scheduled'),
                 op[scheduled'[i]] = "fwd_bwd", scheduled'[i] = scheduled'[j]
          PROVE  i = j
      <3>1. CASE i = Len(scheduled) + 1 \/ j = Len(scheduled) + 1
        BY <1>1, <2>1, <2>2, <2>4, <3>1
      <3>2. CASE i \in 1..Len(scheduled) /\ j \in 1..Len(scheduled)
        BY <1>2, <2>1, <2>4, <3>2
      <3> QED
        BY <1>1, <2>1, <3>1, <3>2
    <2> QED
      BY <1>1, <1>3, <2>1, <2>3, <2>4 DEF Handle, ScheduleGrows
  <1> QED
    BY <1>4, <1>5 DEF Handle, Identified

LEMMA ScheduleStays ==
    ASSUME RequestsInv, groups' \in [Calls -> SUBSET (0..MaxChunks - 1)],
           UNCHANGED <<scheduled, results, globalSteps>>
    PROVE  ScheduleGrows
  BY DEF ScheduleGrows, RequestsInv, ServiceTypes, CallsWereBegun, FwdBwdRunsOnce

\* The request id of an accepted POST resolves to a run of its call.
LEMMA AcceptedRuns ==
    ASSUME RequestsInv, NEW c \in Calls, NEW k, Handle(c, k), Answer(c, k) = "accepted"
    PROVE  RunOf(c) \in 1..Len(scheduled') /\ scheduled'[RunOf(c)] = c
  <1>1. scheduled \in Seq(Calls) /\ Len(scheduled) \in Nat
    BY DEF RequestsInv, ServiceTypes
  <1>2. CASE Identified(c) /\ Ran(c)
    <2>1. scheduled' = scheduled /\ DOMAIN scheduled = 1..Len(scheduled)
      BY <1>1, <1>2 DEF Handle
    <2>2. \E i \in DOMAIN scheduled' : scheduled'[i] = c
      BY <1>2, <2>1 DEF Ran, RangeOf
    <2> QED
      BY <1>2, <2>1, <2>2 DEF RunOf
  <1>3. CASE ~(Identified(c) /\ Ran(c))
    <2>1. scheduled' = Append(scheduled, c)
      BY <1>3 DEF Handle
    <2>2. /\ Len(scheduled') = Len(scheduled) + 1 /\ DOMAIN scheduled' = 1..Len(scheduled')
          /\ scheduled'[Len(scheduled) + 1] = c /\ Len(scheduled) + 1 \in 1..Len(scheduled')
      BY <1>1, <2>1
    <2>3. \E i \in DOMAIN scheduled' : scheduled'[i] = c
      BY <2>2
    <2> QED
      BY <2>2, <2>3 DEF RunOf
  <1> QED
    BY <1>2, <1>3

LEMMA RememberFacts ==
    ASSUME RequestsInv, NEW c \in Calls, Remember(c)
    PROVE  ops' \subseteq ops \cup {c} /\ Cardinality(ops') <= MaxOps
  <1> DEFINE all == ops \cup {c}
  <1>1. IsFiniteSet(all) /\ Cardinality(ops) \in Nat /\ Cardinality(all) \in Nat
        /\ Cardinality(all) <= Cardinality(ops) + 1
    <2>1. IsFiniteSet(Calls) /\ ops \in SUBSET Calls
      BY FS_Interval, CountsAssumption DEF Calls, RequestsInv, PollTypes
    <2>2. IsFiniteSet(ops)
      BY <2>1, FS_Subset
    <2>3. IsFiniteSet(all) /\ Cardinality(all) = IF c \in ops THEN Cardinality(ops) ELSE Cardinality(ops) + 1
      BY <2>2, FS_AddElement
    <2>4. Cardinality(ops) \in Nat
      BY <2>2, FS_CardinalityType
    <2> HIDE DEF all
    <2> QED
      BY <2>3, <2>4
  <1>2. Cardinality(ops) <= MaxOps /\ MaxOps \in Nat
    BY CountsAssumption DEF RequestsInv, PollTypes
  <1>3. CASE Cardinality(all) <= MaxOps
    BY <1>3 DEF Remember
  <1>4. CASE ~(Cardinality(all) <= MaxOps)
    <2>1. PICK oldest \in all : ops' = all \ {oldest}
      BY <1>4 DEF Remember
    <2>2. Cardinality(all \ {oldest}) = Cardinality(all) - 1
      BY <1>1, <2>1, FS_RemoveElement
    <2> HIDE DEF all
    <2>3. Cardinality(ops') <= MaxOps
      BY <1>1, <1>2, <2>1, <2>2
    <2> QED
      BY <2>1, <2>3 DEF all
  <1> QED
    BY <1>3, <1>4

-----------------------------------------------------------------------------
(* Every step keeps the invariant.                                           *)

LEMMA RequestsAtFirst ==
    ASSUME Init
    PROVE  RequestsInv
  <1>1. CallTypes /\ OneAtATime
    BY CountsAssumption DEF Init, CallTypes, OneAtATime, Submitting, Ops, Calls
  <1>2. SubmitTypes
    BY CountsAssumption DEF Init, SubmitTypes, Fresh
  <1>3. PollTypes
    <2>1. Cardinality({}) = 0
      BY FS_EmptySet
    <2>2. NoPoll \in [got: Seq(1..Pages), cursor: 0..Pages]
      BY CountsAssumption DEF NoPoll
    <2> QED
      BY <2>1, <2>2, CountsAssumption DEF Init, PollTypes
  <1>4. LogTypes /\ ServiceTypes
    BY CountsAssumption DEF Init, LogTypes, ServiceTypes, NoStep
  <1>5. CallsWereBegun /\ FwdBwdRunsOnce /\ ResultsAreWhole /\ LoggedOnce
    BY DEF Init, CallsWereBegun, FwdBwdRunsOnce, ResultsAreWhole, LoggedOnce
  <1>6. RunsAreOwn /\ LogsItsOwn
    BY DEF Init, RunsAreOwn, LogsItsOwn
  <1>7. PagesSoFar
    BY DEF Init, PagesSoFar, NoPoll
  <1>8. LogFollows
    <2>1. results = <<>> /\ next = NoStep /\ calls = 0 /\ OkIn(results, 0) = {}
      BY DEF Init, OkIn
    <2>2. Tags(results, 0, next, calls)
      BY <2>1 DEF Tags, MovedIn
    <2> QED
      BY <2>1, <2>2 DEF LogFollows
  <1>9. RowsFollow
    BY DEF Init, RowsFollow
  <1> QED
    BY <1>1, <1>2, <1>3, <1>4, <1>5, <1>6, <1>7, <1>8, <1>9 DEF RequestsInv

\* The results are those of the first runs, and have their type.
LEMMA ResultRuns ==
    ASSUME RequestsInv
    PROVE  /\ Len(results) \in Nat /\ DOMAIN results = 1..Len(results)
           /\ \A i \in 1..Len(results) : results[i] \in [op: Ops, ok: BOOLEAN, step: Nat]
  <1>1. results \in Seq([op: Ops, ok: BOOLEAN, step: Nat])
    BY DEF RequestsInv, ServiceTypes
  <1>2. \A i \in 1..Len(results) : results[i] \in [op: Ops, ok: BOOLEAN, step: Nat]
    BY <1>1, ElementOfSeq
  <1> QED
    BY <1>1, <1>2

\* Every row is of a run that has a result.
LEMMA RowRuns ==
    ASSUME RequestsInv
    PROVE  /\ rows \in Seq([run: 1..Len(results), step: Nat, call: Nat])
           /\ Len(rows) \in Nat /\ Len(results) \in Nat
           /\ \A m \in 1..Len(rows) : rows[m] \in [run: 1..Len(results), step: Nat, call: Nat]
  <1>1. rows \in Seq([run: 1..Len(results), step: Nat, call: Nat]) /\ Len(results) \in Nat
    BY ResultRuns DEF RequestsInv, LogTypes
  <1>2. \A m \in 1..Len(rows) : rows[m] \in [run: 1..Len(results), step: Nat, call: Nat]
    BY <1>1, ElementOfSeq
  <1> QED
    BY <1>1, <1>2

\* Every run is of a call, and every result is of a run.
LEMMA ScheduledCalls ==
    ASSUME RequestsInv
    PROVE  /\ scheduled \in Seq(Calls) /\ Len(scheduled) \in Nat
           /\ 1..Len(results) \subseteq 1..Len(scheduled)
           /\ \A i \in 1..Len(scheduled) : scheduled[i] \in Calls
  <1>1. scheduled \in Seq(Calls) /\ Len(results) <= Len(scheduled)
    BY DEF RequestsInv, ServiceTypes
  <1>2. \A i \in 1..Len(scheduled) : scheduled[i] \in Calls
    BY <1>1, ElementOfSeq
  <1>3. Len(scheduled) \in Nat /\ Len(results) \in Nat
    BY <1>1, ResultRuns
  <1> QED
    BY <1>1, <1>2, <1>3

\* The runs that were logged have results.
LEMMA LoggedRuns ==
    ASSUME RequestsInv
    PROVE  /\ logged \in Seq(1..Len(results)) /\ Len(logged) \in Nat /\ Len(results) \in Nat
           /\ DOMAIN logged = 1..Len(logged)
           /\ \A n \in 1..Len(logged) : logged[n] \in 1..Len(results)
           /\ LogOf(logged) \subseteq 1..Len(results)
  <1>1. logged \in Seq(1..Len(results)) /\ Len(results) \in Nat
    BY ResultRuns DEF RequestsInv, LogTypes
  <1>2. \A n \in 1..Len(logged) : logged[n] \in 1..Len(results)
    BY <1>1, ElementOfSeq
  <1>3. Len(logged) \in Nat /\ DOMAIN logged = 1..Len(logged)
    BY <1>1
  <1>4. LogOf(logged) \subseteq 1..Len(results)
    BY <1>2 DEF LogOf
  <1> QED
    BY <1>1, <1>2, <1>3, <1>4

\* The runs that were logged are of calls.
LEMMA LoggedCalls ==
    ASSUME RequestsInv
    PROVE  \A n \in 1..Len(logged) : logged[n] \in 1..Len(scheduled) /\ scheduled[logged[n]] \in Calls
  <1> SUFFICES ASSUME NEW n \in 1..Len(logged)
               PROVE  logged[n] \in 1..Len(scheduled) /\ scheduled[logged[n]] \in Calls
    OBVIOUS
  <1>1. logged[n] \in 1..Len(results)
    BY LoggedRuns
  <1>2. logged[n] \in 1..Len(scheduled)
    BY <1>1, ScheduledCalls
  <1> QED
    BY <1>2, ScheduledCalls

\* A step that leaves the log and the results alone leaves the tags alone.
LEMMA TagsStay ==
    ASSUME RequestsInv, UNCHANGED <<next, calls, rows, logged, results>>
    PROVE  LogFollows' /\ RowsFollow' /\ LoggedOnce' /\ LogTypes'
  <1>1. LogTypes' /\ LoggedOnce'
    BY DEF RequestsInv, LoggedOnce, LogTypes
  <1>2. LogFollows'
    BY DEF RequestsInv, LogFollows
  <1>3. RowsFollow'
    BY DEF RequestsInv, RowsFollow, InOrderUpTo, OkUpTo
  <1> QED
    BY <1>1, <1>2, <1>3

\* A call that is being sent goes on, or is given up; others, and what was remembered, stay.
LEMMA SendingKeeps ==
    ASSUME RequestsInv, ScheduleGrows,
           pc' = pc \/ (cur \in Calls /\ pc[cur] = "submitting" /\ pc' = [pc EXCEPT ![cur] = "unsent"]),
           sub' \in [idx: 0..MaxChunks - 1, tries: 0..Attempts - 1, restarts: 0..1, renewed: BOOLEAN],
           cur # 0 /\ pc'[cur] = "submitting" => sub'.idx < size[cur],
           late' \subseteq Calls \X (0..MaxChunks - 1), \A x \in late' : x[1] <= cur,
           UNCHANGED <<op, size, cur, request, poll, ops, next, calls, rows, logged>>
    PROVE  RequestsInv'
  <1>0. \A c \in Calls : pc'[c] = pc[c] \/ (pc[c] = "submitting" /\ pc'[c] = "unsent")
    BY DEF RequestsInv, CallTypes
  <1>1. LogFollows' /\ RowsFollow' /\ LoggedOnce' /\ LogTypes'
    BY TagsStay DEF ScheduleGrows
  <1>2. CallTypes' /\ SubmitTypes' /\ PollTypes'
    BY DEF RequestsInv, CallTypes, SubmitTypes, PollTypes
  <1>3. ServiceTypes'
    BY DEF RequestsInv, ServiceTypes, ScheduleGrows
  <1>4. OneAtATime'
    BY DEF RequestsInv, CallTypes, OneAtATime, Submitting
  <1>5. CallsWereBegun' /\ FwdBwdRunsOnce'
    BY SMTT(20) DEF RequestsInv, CallsWereBegun, FwdBwdRunsOnce, ScheduleGrows
  <1>6. RunsAreOwn'
    <2>1. \A c \in Calls : pc'[c] \in {"accepted", "logging", "returned"} =>
             request'[c] \in 1..Len(scheduled') /\ scheduled'[request'[c]] = c
      <3>1. \A c \in Calls : pc[c] \in {"accepted", "logging", "returned"} =>
               request[c] \in 1..Len(scheduled) /\ scheduled[request[c]] = c
        BY DEF RequestsInv, RunsAreOwn
      <3>2. \A i \in 1..Len(scheduled) : i \in 1..Len(scheduled') /\ scheduled'[i] = scheduled[i]
        BY DEF ScheduleGrows
      <3> QED
        BY <1>0, <3>1, <3>2
    <2>2. \A i \in 1..Len(results) : scheduled'[i] = scheduled[i] /\ results[i].op = op[scheduled[i]]
      BY DEF RequestsInv, RunsAreOwn, ServiceTypes, ScheduleGrows
    <2> QED
      BY <2>1, <2>2 DEF RunsAreOwn, ScheduleGrows
  <1>7. PagesSoFar' /\ ResultsAreWhole'
    BY DEF RequestsInv, PagesSoFar, ResultsAreWhole, CallTypes
  <1>8. LogsItsOwn'
    <2>1. \A n \in 1..Len(logged) : scheduled[logged[n]] \in Calls /\ scheduled'[logged[n]] = scheduled[logged[n]]
      <3>1. \A k \in 1..Len(scheduled) : scheduled'[k] = scheduled[k]
        BY DEF ScheduleGrows
      <3> QED
        BY <3>1, LoggedCalls
    <2>2. /\ \A c \in ops : c \in Calls /\ pc[c] = "accepted"
          /\ \A c \in Calls : pc[c] = "logging" => request[c] \in 1..Len(results) /\ results[request[c]].ok
          /\ \A n \in 1..Len(logged) :
                pc[scheduled[logged[n]]] = "returned" /\ request[scheduled[logged[n]]] = logged[n]
          /\ \A m \in 1..Len(rows) : rows[m].run \in LogOf(logged)
          /\ next = NoStep => calls = 0
      BY DEF RequestsInv, LogsItsOwn, PollTypes
    <2>3. results' = results
      BY DEF ScheduleGrows
    <2>4. \A n \in 1..Len(logged) :
             pc'[scheduled'[logged[n]]] = "returned" /\ request[scheduled'[logged[n]]] = logged[n]
      BY <1>0, <2>1, <2>2
    <2> QED
      BY <1>0, <2>2, <2>3, <2>4 DEF LogsItsOwn
  <1> QED
    BY <1>1, <1>2, <1>3, <1>4, <1>5, <1>6, <1>7, <1>8 DEF RequestsInv

LEMMA SubmitsNow ==
    ASSUME RequestsInv, Submitting
    PROVE  /\ cur \in Calls /\ cur # 0 /\ pc[cur] = "submitting" /\ cur <= cur
           /\ sub.idx \in 0..MaxChunks - 1 /\ sub.idx < size[cur] /\ size[cur] \in 1..MaxChunks
           /\ sub.tries \in 0..Attempts - 1 /\ sub.restarts \in 0..1 /\ sub.renewed \in BOOLEAN
           /\ sub = [idx |-> sub.idx, tries |-> sub.tries, restarts |-> sub.restarts, renewed |-> sub.renewed]
  <1>1. cur \in Calls /\ cur # 0 /\ pc[cur] = "submitting" /\ cur <= cur
    BY CountsAssumption DEF RequestsInv, SubmitTypes, Submitting, Calls
  <1> QED
    BY <1>1 DEF RequestsInv, CallTypes, SubmitTypes, OneAtATime, Submitting

\* Retry and GiveUp, whatever the service did.
LEMMA RetryKeeps ==
    ASSUME RequestsInv, Submitting, ScheduleGrows, Retry \/ (GiveUp /\ UNCHANGED <<op, size, cur, request, poll, ops>>),
           UNCHANGED log, late' \subseteq late \cup {<<cur, sub.idx>>}
    PROVE  RequestsInv'
  <1>1. /\ cur \in Calls /\ pc[cur] = "submitting" /\ sub.idx \in 0..MaxChunks - 1 /\ sub.idx < size[cur]
        /\ sub \in [idx: 0..MaxChunks - 1, tries: 0..Attempts - 1, restarts: 0..1, renewed: BOOLEAN]
        /\ size[cur] \in 1..MaxChunks /\ cur \in Nat
    BY SubmitsNow DEF RequestsInv, SubmitTypes, Calls
  <1>2. late' \subseteq Calls \X (0..MaxChunks - 1) /\ \A x \in late' : x[1] <= cur
    BY <1>1 DEF RequestsInv, ServiceTypes, CallsWereBegun
  <1>3. /\ pc' = pc \/ pc' = [pc EXCEPT ![cur] = "unsent"]
        /\ UNCHANGED <<op, size, cur, request, poll, ops, next, calls, rows, logged>>
    BY DEF Retry, GiveUp, log
  <1>4. /\ sub' \in [idx: 0..MaxChunks - 1, tries: 0..Attempts - 1, restarts: 0..1, renewed: BOOLEAN]
        /\ sub'.idx < size[cur]
    <2>1. Fresh \in [idx: 0..MaxChunks - 1, tries: 0..Attempts - 1, restarts: 0..1, renewed: BOOLEAN]
          /\ Fresh.idx < size[cur]
      BY <1>1, CountsAssumption DEF Fresh
    <2>2. CASE sub' = Fresh
      BY <2>1, <2>2
    <2>3. CASE sub.tries + 1 < Attempts /\ sub' = [sub EXCEPT !.tries = @ + 1]
      BY <1>1, <2>3, CountsAssumption
    <2> QED
      BY <2>2, <2>3 DEF Retry, GiveUp
  <1> QED
    BY <1>1, <1>2, <1>3, <1>4, SendingKeeps

LEMMA LoseAnswerKeeps ==
    ASSUME RequestsInv, LoseAnswer
    PROVE  RequestsInv'
  BY SubmitsNow, HandleFacts, RetryKeeps DEF LoseAnswer

LEMMA QuietService ==
    ASSUME RequestsInv, UNCHANGED service
    PROVE  ScheduleGrows
  BY ScheduleStays DEF service, RequestsInv, ServiceTypes

LEMMA DelayKeeps ==
    ASSUME RequestsInv, Delay
    PROVE  RequestsInv'
  BY QuietService, RetryKeeps DEF Delay

LEMMA GiveUpKeeps ==
    ASSUME RequestsInv, PostConflict \/ Reject
    PROVE  RequestsInv'
  BY QuietService, RetryKeeps DEF PostConflict, Reject

\* The steps that set the progress of the call being sent.
LEMMA ProgressKeeps ==
    ASSUME RequestsInv, Submitting, ScheduleGrows, NEW idx \in 0..MaxChunks - 1, idx < size[cur],
           NEW tries \in 0..Attempts - 1, NEW restarts \in 0..1, NEW renewed \in BOOLEAN,
           sub' = [idx |-> idx, tries |-> tries, restarts |-> restarts, renewed |-> renewed],
           UNCHANGED <<op, size, pc, cur, request, poll, ops, log, late>>
    PROVE  RequestsInv'
  <1>1. late' \subseteq Calls \X (0..MaxChunks - 1) /\ \A x \in late' : x[1] <= cur
    BY DEF RequestsInv, ServiceTypes, CallsWereBegun
  <1> QED
    BY <1>1, SendingKeeps DEF log

LEMMA PostCachedKeeps ==
    ASSUME RequestsInv, PostCached
    PROVE  RequestsInv'
  <1>1. Submitting /\ Handle(cur, sub.idx) /\ Answer(cur, sub.idx) = "cached"
    BY DEF PostCached
  <1>2. ScheduleGrows
    BY <1>1, SubmitsNow, HandleFacts
  <1>3. sub.idx + 1 \in 0..MaxChunks - 1 /\ sub.idx + 1 < size[cur]
    BY <1>1, SubmitsNow, CountsAssumption DEF Answer, LastChunk
  <1>4. sub' = [idx |-> sub.idx + 1, tries |-> 0, restarts |-> sub.restarts, renewed |-> FALSE]
    BY DEF PostCached, Fresh
  <1>5. sub.restarts \in 0..1 /\ 0 \in 0..Attempts - 1 /\ FALSE \in BOOLEAN
    BY <1>1, SubmitsNow, CountsAssumption
  <1>6. UNCHANGED <<op, size, pc, cur, request, poll, ops, log, late>>
    BY DEF PostCached
  <1> QED
    BY <1>1, <1>2, <1>3, <1>4, <1>5, <1>6, ProgressKeeps

LEMMA PostRestartKeeps ==
    ASSUME RequestsInv, PostRestart
    PROVE  RequestsInv'
  <1>1. Submitting /\ ScheduleGrows
    BY QuietService DEF PostRestart
  <1>2. CASE sub.restarts < 1
    <2>1. sub' = [idx |-> 0, tries |-> 0, restarts |-> sub.restarts + 1, renewed |-> FALSE]
      BY <1>2 DEF PostRestart, Fresh
    <2>2. sub.restarts + 1 \in 0..1 /\ 0 < size[cur] /\ 0 \in 0..MaxChunks - 1 /\ 0 \in 0..Attempts - 1
      BY <1>1, <1>2, SubmitsNow, CountsAssumption
    <2> QED
      BY <1>1, <1>2, <2>1, <2>2, ProgressKeeps DEF PostRestart
  <1>3. CASE ~(sub.restarts < 1)
    BY <1>1, <1>3, RetryKeeps DEF PostRestart
  <1> QED
    BY <1>2, <1>3

LEMMA ExpiredKeeps ==
    ASSUME RequestsInv, Expired
    PROVE  RequestsInv'
  <1>1. Submitting /\ ScheduleGrows
    BY QuietService DEF Expired
  <1>2. sub' = [idx |-> sub.idx, tries |-> sub.tries, restarts |-> sub.restarts, renewed |-> TRUE]
    BY <1>1, SubmitsNow DEF Expired
  <1> QED
    BY <1>1, <1>2, SubmitsNow, ProgressKeeps DEF Expired

\* What the service does by itself.
LEMMA ServiceKeeps ==
    ASSUME RequestsInv, ScheduleGrows, late' \subseteq late, UNCHANGED <<client, log>>
    PROVE  RequestsInv'
  <1>1. late' \subseteq Calls \X (0..MaxChunks - 1) /\ \A x \in late' : x[1] <= cur
    BY DEF RequestsInv, ServiceTypes, CallsWereBegun
  <1>2. sub' \in [idx: 0..MaxChunks - 1, tries: 0..Attempts - 1, restarts: 0..1, renewed: BOOLEAN]
    BY DEF RequestsInv, SubmitTypes, client
  <1>3. cur # 0 /\ pc'[cur] = "submitting" => sub'.idx < size[cur]
    BY DEF RequestsInv, OneAtATime, Submitting, client
  <1> QED
    BY <1>1, <1>2, <1>3, SendingKeeps DEF client, log

LEMMA ArriveKeeps ==
    ASSUME RequestsInv, NEW c \in Calls, NEW k \in 0..MaxChunks - 1, Arrive(c, k)
    PROVE  RequestsInv'
  <1>1. c <= cur
    BY DEF Arrive, RequestsInv, CallsWereBegun
  <1> QED
    BY <1>1, HandleFacts, ServiceKeeps DEF Arrive

LEMMA ForgetKeeps ==
    ASSUME RequestsInv, NEW c \in Calls, Forget(c)
    PROVE  RequestsInv'
  <1>1. groups' \in [Calls -> SUBSET (0..MaxChunks - 1)]
    BY DEF Forget, RequestsInv, ServiceTypes
  <1> QED
    BY <1>1, ScheduleStays, ServiceKeeps DEF Forget

LEMMA BeginKeeps ==
    ASSUME RequestsInv, NEW o \in Ops, NEW n \in 1..MaxChunks, Begin(o, n)
    PROVE  RequestsInv'
  <1>1. /\ cur' = cur + 1 /\ cur' \in Calls /\ cur' \in 1..NumCalls /\ cur \in Nat /\ pc[cur'] = "idle"
        /\ op' = [op EXCEPT ![cur'] = o] /\ size' = [size EXCEPT ![cur'] = n]
        /\ pc' = [pc EXCEPT ![cur'] = "submitting"] /\ sub' = Fresh
        /\ o # "fwd_bwd" => n = 1
        /\ UNCHANGED <<request, poll, ops, next, calls, rows, logged, groups, scheduled, results, globalSteps, late>>
    BY CountsAssumption DEF Begin, RequestsInv, SubmitTypes, OneAtATime, Calls, log, service
  <1>2. \A c \in Calls : pc[c] # "submitting"
    BY <1>1 DEF Begin, Submitting, RequestsInv, OneAtATime, Calls
  <1>3. LogFollows' /\ RowsFollow' /\ LoggedOnce' /\ LogTypes'
    BY <1>1, TagsStay
  <1>4. CallTypes' /\ PollTypes'
    BY <1>1 DEF RequestsInv, CallTypes, PollTypes
  <1>5. SubmitTypes'
    BY <1>1, CountsAssumption DEF SubmitTypes, Fresh
  <1>6. ServiceTypes'
    BY <1>1 DEF RequestsInv, ServiceTypes
  <1>7. OneAtATime'
    <2>1. sub'.idx = 0 /\ size'[cur'] = n /\ 0 < n
      BY <1>1 DEF Fresh, RequestsInv, CallTypes
    <2>2. \A c \in Calls : (c > cur' <=> pc'[c] = "idle") /\ (pc'[c] = "submitting" => c = cur')
      BY <1>1, <1>2 DEF RequestsInv, CallTypes, OneAtATime, Calls
    <2>3. \A c \in Calls : op'[c] # "fwd_bwd" => size'[c] = 1
      BY <1>1 DEF RequestsInv, CallTypes, OneAtATime
    <2> QED
      BY <2>1, <2>2, <2>3 DEF OneAtATime
  <1>8. /\ scheduled \in Seq(Calls)
        /\ \A i \in 1..Len(scheduled) : scheduled[i] \in Calls /\ scheduled[i] < cur' /\ op'[scheduled[i]] = op[scheduled[i]]
    <2>1. scheduled \in Seq(Calls) /\ \A i \in 1..Len(scheduled) : scheduled[i] \in Calls /\ scheduled[i] \in Nat
      BY ScheduledCalls DEF Calls
    <2> QED
      BY <1>1, <2>1 DEF RequestsInv, CallsWereBegun, CallTypes
  <1>9. CallsWereBegun' /\ FwdBwdRunsOnce'
    <2>1. \A i \in 1..Len(scheduled) : scheduled[i] <= cur + 1
      BY <1>1, <1>8 DEF Calls
    <2>2. \A x \in late : x[1] <= cur + 1
      BY <1>1 DEF RequestsInv, CallsWereBegun, ServiceTypes, Calls
    <2>3. DOMAIN scheduled = 1..Len(scheduled)
      BY <1>8
    <2> QED
      BY <1>1, <1>8, <2>1, <2>2, <2>3 DEF RequestsInv, CallsWereBegun, FwdBwdRunsOnce
  <1>10. RunsAreOwn'
    <2>1. \A c \in Calls : pc'[c] \in {"accepted", "logging", "returned"} => pc'[c] = pc[c]
      BY <1>1 DEF RequestsInv, CallTypes
    <2>2. \A i \in 1..Len(results) : i \in 1..Len(scheduled)
      BY DEF RequestsInv, ServiceTypes
    <2> QED
      BY <1>1, <1>8, <2>1, <2>2 DEF RequestsInv, RunsAreOwn
  <1>11. PagesSoFar' /\ ResultsAreWhole'
    BY <1>1 DEF RequestsInv, PagesSoFar, ResultsAreWhole, CallTypes
  <1>12. LogsItsOwn'
    <2>1. \A c \in Calls : pc[c] \in {"accepted", "logging", "returned"} => pc'[c] = pc[c]
      BY <1>1 DEF RequestsInv, CallTypes
    <2>2. \A c \in Calls : pc'[c] = "logging" => pc[c] = "logging"
      BY <1>1 DEF RequestsInv, CallTypes
    <2>3. \A k \in 1..Len(logged) : scheduled[logged[k]] \in Calls
      BY LoggedCalls
    <2>4. \A c \in ops : c \in Calls
      BY DEF RequestsInv, PollTypes
    <2> QED
      BY <1>1, <2>1, <2>2, <2>3, <2>4 DEF RequestsInv, LogsItsOwn
  <1> QED
    BY <1>3, <1>4, <1>5, <1>6, <1>7, <1>9, <1>10, <1>11, <1>12 DEF RequestsInv

LEMMA PostAcceptedKeeps ==
    ASSUME RequestsInv, PostAccepted
    PROVE  RequestsInv'
  <1>1. /\ cur \in Calls /\ pc[cur] = "submitting" /\ sub.idx \in 0..MaxChunks - 1
        /\ pc' = [pc EXCEPT ![cur] = "accepted"] /\ sub' = Fresh
        /\ UNCHANGED <<op, size, cur, poll, next, calls, rows, logged, late>>
    BY SubmitsNow DEF PostAccepted, log
  <1>2. ScheduleGrows
    BY SubmitsNow, HandleFacts DEF PostAccepted
  <1>3. request' = [request EXCEPT ![cur] = RunOf(cur)] /\ RunOf(cur) \in 1..Len(scheduled') /\ scheduled'[RunOf(cur)] = cur
    BY <1>1, AcceptedRuns DEF PostAccepted
  <1>4. ops' \subseteq ops \cup {cur} /\ Cardinality(ops') <= MaxOps
    BY <1>1, RememberFacts DEF PostAccepted
  <1>5. LogFollows' /\ RowsFollow' /\ LoggedOnce' /\ LogTypes'
    BY <1>1, <1>2, TagsStay DEF ScheduleGrows
  <1>6. CallTypes' /\ PollTypes'
    BY <1>1, <1>4 DEF RequestsInv, CallTypes, PollTypes
  <1>7. SubmitTypes'
    BY <1>1, CountsAssumption DEF RequestsInv, SubmitTypes, Fresh
  <1>8. ServiceTypes'
    <2>1. request' \in [Calls -> Nat] /\ \A c \in Calls : request'[c] <= Len(scheduled')
      BY <1>1, <1>2, <1>3 DEF RequestsInv, ServiceTypes, ScheduleGrows
    <2> QED
      BY <1>1, <1>2, <2>1 DEF RequestsInv, ServiceTypes, ScheduleGrows
  <1>9. OneAtATime'
    BY <1>1 DEF RequestsInv, CallTypes, OneAtATime, Submitting
  <1>10. CallsWereBegun' /\ FwdBwdRunsOnce'
    BY <1>1, <1>2 DEF RequestsInv, CallsWereBegun, FwdBwdRunsOnce, ScheduleGrows
  <1>11. RunsAreOwn'
    <2>1. ASSUME NEW c \in Calls, pc'[c] \in {"accepted", "logging", "returned"}
          PROVE  request'[c] \in 1..Len(scheduled') /\ scheduled'[request'[c]] = c
      <3>1. CASE c = cur
        BY <1>1, <1>3, <3>1 DEF RequestsInv, ServiceTypes
      <3>2. CASE c # cur
        <4>1. pc'[c] = pc[c] /\ request'[c] = request[c]
          BY <1>1, <1>3, <3>2 DEF RequestsInv, CallTypes, ServiceTypes
        <4>2. request[c] \in 1..Len(scheduled) /\ scheduled[request[c]] = c
          BY <2>1, <4>1 DEF RequestsInv, RunsAreOwn
        <4> QED
          BY <1>2, <4>1, <4>2 DEF ScheduleGrows
      <3> QED
        BY <3>1, <3>2
    <2>2. \A i \in 1..Len(results) : scheduled'[i] = scheduled[i] /\ results[i].op = op[scheduled[i]]
      BY <1>2 DEF RequestsInv, RunsAreOwn, ServiceTypes, ScheduleGrows
    <2> QED
      BY <1>1, <1>2, <2>1, <2>2 DEF RunsAreOwn, ScheduleGrows
  <1>12. PagesSoFar' /\ ResultsAreWhole'
    BY <1>1 DEF RequestsInv, PagesSoFar, ResultsAreWhole, CallTypes
  <1>13. LogsItsOwn'
    <2>1. \A c \in Calls : c # cur => pc'[c] = pc[c] /\ request'[c] = request[c]
      BY <1>1, <1>3 DEF RequestsInv, CallTypes, ServiceTypes
    <2>2. pc'[cur] = "accepted"
      BY <1>1 DEF RequestsInv, CallTypes
    <2>3. \A n \in 1..Len(logged) : /\ scheduled'[logged[n]] = scheduled[logged[n]] /\ scheduled[logged[n]] \in Calls
                                    /\ scheduled[logged[n]] # cur
      <3>1. \A n \in 1..Len(logged) : logged[n] \in 1..Len(scheduled) /\ pc[scheduled[logged[n]]] = "returned"
        BY LoggedCalls DEF RequestsInv, ServiceTypes, LogsItsOwn
      <3>2. \A i \in 1..Len(scheduled) : scheduled'[i] = scheduled[i] /\ scheduled[i] \in Calls
        BY <1>2 DEF RequestsInv, ServiceTypes, ScheduleGrows
      <3> QED
        BY <1>1, <3>1, <3>2
    <2>4. \A c \in ops' : pc'[c] = "accepted"
      BY <1>4, <2>1, <2>2 DEF RequestsInv, LogsItsOwn, PollTypes
    <2>5. results' = results
      BY <1>2 DEF ScheduleGrows
    <2>6. \A n \in 1..Len(logged) :
             pc'[scheduled'[logged[n]]] = "returned" /\ request'[scheduled'[logged[n]]] = logged[n]
      BY <2>1, <2>3 DEF RequestsInv, LogsItsOwn
    <2>7. \A c \in Calls : pc'[c] = "logging" => request'[c] \in 1..Len(results) /\ results[request'[c]].ok
      BY <2>1, <2>2 DEF RequestsInv, LogsItsOwn
    <2> QED
      BY <1>1, <2>4, <2>5, <2>6, <2>7 DEF RequestsInv, LogsItsOwn
  <1> QED
    BY <1>5, <1>6, <1>7, <1>8, <1>9, <1>10, <1>11, <1>12, <1>13 DEF RequestsInv

LEMMA PollFailsKeeps ==
    ASSUME RequestsInv, NEW c \in Calls, PollFails(c)
    PROVE  RequestsInv'
  <1>1. /\ poll' = [poll EXCEPT ![c] = NoPoll]
        /\ UNCHANGED <<op, size, pc, cur, sub, request, ops, next, calls, rows, logged,
                       groups, scheduled, results, globalSteps, late>>
    BY DEF PollFails, log, service
  <1>2. LogFollows' /\ RowsFollow' /\ LoggedOnce' /\ LogTypes'
    BY <1>1, TagsStay
  <1>3. CallTypes' /\ SubmitTypes' /\ ServiceTypes'
    BY <1>1 DEF RequestsInv, CallTypes, SubmitTypes, ServiceTypes
  <1>4. PollTypes' /\ PagesSoFar'
    <2>1. NoPoll \in [got: Seq(1..Pages), cursor: 0..Pages] /\ NoPoll.got = [i \in 1..NoPoll.cursor |-> i]
      BY CountsAssumption DEF NoPoll
    <2> QED
      BY <1>1, <2>1 DEF RequestsInv, PollTypes, PagesSoFar
  <1>5. OneAtATime' /\ CallsWereBegun' /\ FwdBwdRunsOnce' /\ ResultsAreWhole'
    BY <1>1 DEF RequestsInv, OneAtATime, Submitting, CallsWereBegun, FwdBwdRunsOnce, ResultsAreWhole
  <1>6. RunsAreOwn' /\ LogsItsOwn'
    BY <1>1 DEF RequestsInv, RunsAreOwn, LogsItsOwn
  <1> QED
    BY <1>2, <1>3, <1>4, <1>5, <1>6 DEF RequestsInv

\* The pages received so far, and the next n after them.
LEMMA MorePages ==
    ASSUME NEW cursor \in Nat, NEW n \in Nat, NEW got, got = [i \in 1..cursor |-> i],
           NEW P \in Nat, cursor + n <= P
    PROVE  /\ got \o [i \in 1..n |-> cursor + i] = [i \in 1..(cursor + n) |-> i]
           /\ [i \in 1..(cursor + n) |-> i] \in Seq(1..P)
  <1> DEFINE more == [i \in 1..n |-> cursor + i]
             all == [i \in 1..(cursor + n) |-> i]
  <1>1. got \in Seq(Nat) /\ Len(got) = cursor /\ more \in Seq(Nat) /\ Len(more) = n
    OBVIOUS
  <1>2. all \in Seq(1..P) /\ all \in Seq(Nat) /\ Len(all) = cursor + n
    OBVIOUS
  <1>3. got \o more \in Seq(Nat) /\ Len(got \o more) = cursor + n
    BY <1>1, ConcatProperties
  <1>4. \A i \in 1..(cursor + n) : (got \o more)[i] = i
    <2>1. ASSUME NEW i \in 1..(cursor + n)
          PROVE  (got \o more)[i] = i
      <3>1. (got \o more)[i] = IF i <= Len(got) THEN got[i] ELSE more[i - Len(got)]
        BY <1>1, <2>1, ConcatProperties
      <3>2. CASE i <= cursor
        BY <1>1, <3>1, <3>2
      <3>3. CASE i > cursor
        <4>1. i - cursor \in 1..n /\ cursor + (i - cursor) = i
          BY <3>3
        <4>2. (got \o more)[i] = more[i - cursor]
          BY <1>1, <3>1, <3>3
        <4> QED
          BY <4>1, <4>2
      <3> QED
        BY <3>2, <3>3
    <2> QED
      BY <2>1
  <1>5. \A i \in 1..(cursor + n) : all[i] = i
    OBVIOUS
  <1> HIDE DEF more, all
  <1>6. got \o more = all
    BY <1>2, <1>3, <1>4, <1>5, SeqEqual
  <1> QED
    BY <1>2, <1>6 DEF more, all

LEMMA PageKeeps ==
    ASSUME RequestsInv, NEW c \in Calls, NEW n \in 0..Pages, NEW terminal \in BOOLEAN, Page(c, n, terminal)
    PROVE  RequestsInv'
  <1> DEFINE upto == poll[c].cursor + n
             got == poll[c].got \o [i \in 1..n |-> poll[c].cursor + i]
  <1>1. /\ pc[c] \in {"accepted", "returned"} /\ request[c] <= Len(results) /\ results[request[c]].ok
        /\ upto <= PagesOf(c) /\ PagesOf(c) \in 0..Pages /\ poll[c].cursor \in Nat /\ upto \in 0..Pages
        /\ UNCHANGED <<op, size, cur, sub, request, next, calls, rows, logged, groups, scheduled, results, globalSteps, late>>
    BY CountsAssumption DEF Page, Polled, Done, PagesOf, log, service, RequestsInv, PollTypes
  <1>2. got = [i \in 1..upto |-> i] /\ got \in Seq(1..Pages)
    <2>1. poll[c].got = [i \in 1..poll[c].cursor |-> i] /\ n \in Nat /\ Pages \in Nat
      BY CountsAssumption DEF RequestsInv, PagesSoFar
    <2>2. poll[c].cursor \in Nat /\ poll[c].cursor + n <= Pages
      BY <1>1
    <2>3. /\ poll[c].got \o [i \in 1..n |-> poll[c].cursor + i] = [i \in 1..(poll[c].cursor + n) |-> i]
          /\ [i \in 1..(poll[c].cursor + n) |-> i] \in Seq(1..Pages)
      BY <2>1, <2>2, MorePages
    <2> QED
      BY <2>3
  <1> HIDE DEF upto, got
  <1>3. \/ upto < PagesOf(c) /\ poll' = [poll EXCEPT ![c] = [got |-> got, cursor |-> upto]] /\ pc' = pc /\ ops' = ops
        \/ upto = PagesOf(c) /\ Complete(c, got) /\ poll' = [poll EXCEPT ![c] = NoPoll]
    BY <1>1 DEF Page, upto, got
  <1>4. \/ pc' = pc /\ ops' = ops
        \/ c \in ops /\ pc' = [pc EXCEPT ![c] = "logging"] /\ ops' = ops \ {c}
        \/ c \notin ops /\ pc' = [pc EXCEPT ![c] = "returned"] /\ ops' = ops \ {c}
    BY <1>2, <1>3 DEF Complete
  <1>5. pc' \in [Calls -> {"idle", "submitting", "unsent", "accepted", "logging", "returned", "undecodable"}]
        /\ \A d \in Calls : d # c => pc'[d] = pc[d]
    BY <1>4 DEF RequestsInv, CallTypes
  <1>6. LogFollows' /\ RowsFollow' /\ LoggedOnce' /\ LogTypes'
    BY <1>1, TagsStay
  <1>7. CallTypes' /\ SubmitTypes' /\ ServiceTypes'
    BY <1>1, <1>5 DEF RequestsInv, CallTypes, SubmitTypes, ServiceTypes
  <1>8. PollTypes' /\ PagesSoFar'
    <2>1. NoPoll \in [got: Seq(1..Pages), cursor: 0..Pages] /\ NoPoll.got = [i \in 1..NoPoll.cursor |-> i]
      BY CountsAssumption DEF NoPoll
    <2>2. poll' \in [Calls -> [got: Seq(1..Pages), cursor: 0..Pages]] /\ PagesSoFar'
      <3>1. PICK p \in [got: Seq(1..Pages), cursor: 0..Pages] :
                poll' = [poll EXCEPT ![c] = p] /\ p.got = [i \in 1..p.cursor |-> i]
        <4>1. CASE poll' = [poll EXCEPT ![c] = NoPoll]
          BY <2>1, <4>1
        <4>2. CASE poll' = [poll EXCEPT ![c] = [got |-> got, cursor |-> upto]]
          <5> DEFINE p == [got |-> got, cursor |-> upto]
          <5>1. p \in [got: Seq(1..Pages), cursor: 0..Pages] /\ p.got = got /\ p.cursor = upto
            BY <1>1, <1>2
          <5> HIDE DEF p
          <5>2. poll' = [poll EXCEPT ![c] = p]
            BY <4>2 DEF p
          <5> QED
            BY <1>2, <5>1, <5>2
        <4> QED
          BY <1>3, <4>1, <4>2
      <3>2. poll \in [Calls -> [got: Seq(1..Pages), cursor: 0..Pages]]
        BY DEF RequestsInv, PollTypes
      <3>3. poll' \in [Calls -> [got: Seq(1..Pages), cursor: 0..Pages]]
        BY <3>1, <3>2
      <3>4. \A d \in Calls : poll'[d] = IF d = c THEN p ELSE poll[d]
        BY <3>1, <3>2
      <3>5. \A d \in Calls : poll[d].got = [i \in 1..poll[d].cursor |-> i]
        BY DEF RequestsInv, PagesSoFar
      <3>6. PagesSoFar'
        BY <3>1, <3>4, <3>5 DEF PagesSoFar
      <3> QED
        BY <3>3, <3>6
    <2>3. ops' \subseteq Calls /\ Cardinality(ops') <= MaxOps
      <3>1. IsFiniteSet(Calls) /\ ops \in SUBSET Calls /\ Cardinality(ops) <= MaxOps /\ MaxOps \in Nat
        BY FS_Interval, CountsAssumption DEF Calls, RequestsInv, PollTypes
      <3>2. IsFiniteSet(ops) /\ ops' \in SUBSET ops
        BY <1>4, <3>1, FS_Subset
      <3>3. Cardinality(ops) \in Nat /\ IsFiniteSet(ops') /\ Cardinality(ops') \in Nat /\ Cardinality(ops') <= Cardinality(ops)
        BY <3>2, FS_Subset, FS_CardinalityType
      <3> QED
        BY <3>1, <3>2, <3>3
    <2> QED
      BY <2>2, <2>3 DEF PollTypes
  <1>9. OneAtATime'
    <2>1. \A d \in Calls : (pc'[d] = "idle" <=> pc[d] = "idle") /\ (pc'[d] = "submitting" <=> pc[d] = "submitting")
      BY <1>1, <1>4, <1>5 DEF RequestsInv, CallTypes
    <2>2. cur # 0 => cur \in Calls
      BY DEF RequestsInv, SubmitTypes, Calls
    <2> QED
      BY <1>1, <2>1, <2>2 DEF RequestsInv, OneAtATime, Submitting
  <1>10. CallsWereBegun' /\ FwdBwdRunsOnce'
    BY <1>1 DEF RequestsInv, CallsWereBegun, FwdBwdRunsOnce
  <1>11. RunsAreOwn'
    <2>1. \A d \in Calls : pc'[d] \in {"accepted", "logging", "returned"} => pc[d] \in {"accepted", "logging", "returned"}
      BY <1>1, <1>5
    <2> QED
      BY <1>1, <2>1 DEF RequestsInv, RunsAreOwn
  <1>12. ResultsAreWhole'
    BY <1>4 DEF RequestsInv, ResultsAreWhole, CallTypes
  <1>13. LogsItsOwn'
    <2>1. request[c] \in 1..Len(results)
      BY <1>1, ResultRuns DEF RequestsInv, RunsAreOwn
    <2>2. \A d \in ops' : pc'[d] = "accepted"
      BY <1>4, <1>5 DEF RequestsInv, LogsItsOwn, PollTypes
    <2>3. \A d \in Calls : pc'[d] = "logging" => request[d] \in 1..Len(results) /\ results[request[d]].ok
      BY <1>1, <1>5, <2>1 DEF RequestsInv, LogsItsOwn
    <2>4. \A d \in Calls : pc[d] = "returned" => pc'[d] = "returned"
      BY <1>4, <1>5 DEF RequestsInv, LogsItsOwn, CallTypes
    <2>5. \A k \in 1..Len(logged) : pc'[scheduled[logged[k]]] = "returned"
      BY <2>4, LoggedCalls DEF RequestsInv, LogsItsOwn
    <2> QED
      BY <1>1, <2>2, <2>3, <2>5 DEF RequestsInv, LogsItsOwn
  <1> QED
    BY <1>6, <1>7, <1>8, <1>9, <1>10, <1>11, <1>12, <1>13 DEF RequestsInv

\* A sequence over a set is a sequence over a larger one.
LEMMA SeqGrows ==
    ASSUME NEW S, NEW T, S \subseteq T, NEW s \in Seq(S)
    PROVE  s \in Seq(T)
  OBVIOUS

LEMMA ExecuteKeeps ==
    ASSUME RequestsInv, Execute
    PROVE  RequestsInv'
  <1> DEFINE N == Len(results)
  <1>0. /\ N \in Nat /\ results \in Seq([op: Ops, ok: BOOLEAN, step: Nat]) /\ globalSteps \in Nat
        /\ scheduled \in Seq(Calls) /\ Len(scheduled) \in Nat /\ N < Len(scheduled)
        /\ op \in [Calls -> Ops] /\ N + 1 \in 1..Len(scheduled) /\ scheduled[N + 1] \in Calls
    BY SMTT(20), ResultRuns, ScheduledCalls DEF Execute, RequestsInv, ServiceTypes, CallTypes
  <1>1. /\ UNCHANGED <<op, size, pc, cur, sub, request, poll, ops, next, calls, rows, logged, groups, scheduled, late>>
        /\ \E x \in [op: Ops, ok: BOOLEAN, step: Nat] :
              results' = Append(results, x) /\ x.op = op[scheduled[N + 1]] /\ globalSteps' \in Nat
    <2>1. UNCHANGED <<op, size, pc, cur, sub, request, poll, ops, next, calls, rows, logged, groups, scheduled, late>>
      BY DEF Execute, client, log
    <2>2. PICK ok \in BOOLEAN :
            LET o    == op[scheduled[N + 1]]
                step == IF o = "load" THEN 0 ELSE globalSteps + 1
            IN  /\ results' = Append(results, [op |-> o, ok |-> ok, step |-> step])
                /\ globalSteps' = IF ok /\ o # "fwd_bwd" THEN step ELSE globalSteps
      BY DEF Execute
    <2> DEFINE o == op[scheduled[N + 1]]
               step == IF o = "load" THEN 0 ELSE globalSteps + 1
               x == [op |-> o, ok |-> ok, step |-> step]
    <2>3. o \in Ops /\ step \in Nat
      BY <1>0
    <2> HIDE DEF o, step
    <2>4. x \in [op: Ops, ok: BOOLEAN, step: Nat] /\ x.op = o
      BY <2>3
    <2>5. results' = Append(results, x) /\ globalSteps' \in Nat
      BY <1>0, <2>2, <2>3 DEF o, step
    <2> HIDE DEF x
    <2> QED
      BY <2>1, <2>4, <2>5 DEF o
  <1>2. PICK x \in [op: Ops, ok: BOOLEAN, step: Nat] :
              results' = Append(results, x) /\ x.op = op[scheduled[N + 1]] /\ globalSteps' \in Nat
    BY <1>1
  <1>3. /\ Len(results') = N + 1 /\ results'[N + 1] = x /\ results' \in Seq([op: Ops, ok: BOOLEAN, step: Nat])
        /\ \A i \in 1..N : results'[i] = results[i]
    BY <1>0, <1>2
  <1>4. /\ DOMAIN results = 1..N /\ DOMAIN results' = 1..(N + 1) /\ 1..N \subseteq 1..(N + 1)
    BY <1>0, <1>3
  <1>5. LogTypes' /\ LoggedOnce'
    <2>1. [run: 1..N, step: Nat, call: Nat] \subseteq [run: 1..(N + 1), step: Nat, call: Nat]
      BY <1>4
    <2>2. logged \in Seq(1..(N + 1)) /\ rows \in Seq([run: 1..(N + 1), step: Nat, call: Nat])
      BY <1>4, <2>1, LoggedRuns, RowRuns, SeqGrows
    <2> QED
      BY <1>1, <1>4, <2>2 DEF RequestsInv, LogTypes, LoggedOnce
  <1>6. CallTypes' /\ SubmitTypes' /\ PollTypes'
    BY <1>1 DEF RequestsInv, CallTypes, SubmitTypes, PollTypes
  <1>7. ServiceTypes'
    BY <1>0, <1>1, <1>2, <1>3 DEF RequestsInv, ServiceTypes
  <1>8. OneAtATime' /\ CallsWereBegun' /\ FwdBwdRunsOnce' /\ PagesSoFar' /\ ResultsAreWhole'
    BY <1>1 DEF RequestsInv, OneAtATime, Submitting, CallsWereBegun, FwdBwdRunsOnce, PagesSoFar, ResultsAreWhole
  <1>9. RunsAreOwn'
    <2>1. \A i \in 1..N : results[i].op = op[scheduled[i]]
      BY DEF RequestsInv, RunsAreOwn
    <2>2. \A i \in 1..(N + 1) : results'[i].op = op[scheduled[i]]
      BY <1>0, <1>2, <1>3, <2>1
    <2> QED
      BY <1>1, <1>3, <2>2 DEF RequestsInv, RunsAreOwn
  <1>10. LogsItsOwn'
    <2>1. \A d \in Calls : pc[d] = "logging" => request[d] \in 1..(N + 1) /\ results'[request[d]].ok
      <3>1. \A d \in Calls : pc[d] = "logging" => request[d] \in 1..N /\ results[request[d]].ok
        BY DEF RequestsInv, LogsItsOwn
      <3> QED
        BY <1>3, <1>4, <3>1
    <2> QED
      BY <1>1, <1>3, <2>1 DEF RequestsInv, LogsItsOwn
  <1>11. \A i \in 0..N : OkIn(results', i) = OkIn(results, i)
    <2>1. ASSUME NEW i \in 0..N
          PROVE  OkIn(results', i) = OkIn(results, i)
      <3>1. \A y \in 1..i : y \in 1..N /\ results'[y] = results[y]
        BY SMTT(20), <1>0, <1>3
      <3> QED
        BY <3>1 DEF OkIn
    <2> QED
      BY <2>1
  <1>12. \A i \in 0..N : \A y \in OkIn(results, i) : results[y] = results'[y]
    <2>1. ASSUME NEW i \in 0..N, NEW y \in OkIn(results, i)
          PROVE  results[y] = results'[y]
      <3>1. y \in 1..i
        BY <2>1 DEF OkIn
      <3>2. y \in 1..N
        BY <1>0, <2>1, <3>1
      <3> QED
        BY <1>3, <3>2
    <2> QED
      BY <2>1
  <1>13. LogFollows'
    <2>1. ASSUME NEW i \in 0..(N + 1), Increasing(logged), LogOf(logged) = OkIn(results', i)
          PROVE  Tags(results', i, next, calls)
      <3>1. PICK j \in 0..N : OkIn(results', i) = OkIn(results, j)
        <4>1. CASE i \in 0..N
          BY <1>11, <4>1
        <4>2. CASE i = N + 1
          <5>1. N + 1 \notin OkIn(results', i)
            BY <1>0, <2>1, LoggedRuns
          <5>2. OkIn(results', i) = OkIn(results', N)
            BY <1>0, <4>2, <5>1 DEF OkIn
          <5> QED
            BY <1>0, <1>11, <5>2
        <4> QED
          BY <1>0, <4>1, <4>2
      <3>2. Tags(results, j, next, calls)
        BY <2>1, <3>1 DEF RequestsInv, LogFollows
      <3>3. i \in Nat /\ j \in Nat /\ \A y \in OkIn(results, j) : results[y] = results'[y]
        BY <1>0, <1>12
      <3> HIDE DEF N
      <3> QED
        BY <3>1, <3>2, <3>3, SameTags
    <2> QED
      BY <1>1, <1>3, <2>1 DEF LogFollows
  <1>14. RowsFollow'
    <2>1. ASSUME NEW m \in 1..Len(rows), results'[rows[m].run].op = "fwd_bwd", InOrderUpTo(rows[m].run)'
          PROVE  \E k \in Nat : /\ Tags(results', rows[m].run - 1, rows[m].step, k)
                                /\ rows[m].call = IF rows[m].step = NoStep THEN 0 ELSE k + 1
      <3> DEFINE i == rows[m].run
      <3>1. i \in 1..N /\ i - 1 \in 0..N
        <4>1. rows[m] \in [run: 1..N, step: Nat, call: Nat]
          BY RowRuns
        <4> QED
          BY SMTT(20), <1>0, <4>1
      <3>2. OkUpTo(i)' = OkUpTo(i)
        BY SMTT(20), <1>0, <1>1, <1>3, <3>1 DEF OkUpTo
      <3>3. InOrderUpTo(i)
        BY SMTT(20), <1>1, <2>1, <3>2 DEF InOrderUpTo
      <3>4. results[i].op = "fwd_bwd"
        BY <1>3, <2>1, <3>1
      <3>5. PICK k \in Nat : /\ Tags(results, i - 1, rows[m].step, k)
                             /\ rows[m].call = IF rows[m].step = NoStep THEN 0 ELSE k + 1
        BY <3>3, <3>4 DEF RequestsInv, RowsFollow
      <3>6. Tags(results', i - 1, rows[m].step, k)
        <4>1. /\ i - 1 \in Nat /\ OkIn(results, i - 1) = OkIn(results', i - 1)
              /\ \A y \in OkIn(results, i - 1) : results[y] = results'[y]
          BY <1>0, <1>11, <1>12, <3>1
        <4>2. Tags(results, i - 1, rows[m].step, k)
          BY <3>5
        <4> HIDE DEF N, i
        <4> QED
          BY <4>1, <4>2, SameTags
      <3> QED
        BY <3>5, <3>6
    <2> QED
      BY <1>1, <2>1 DEF RowsFollow
  <1> QED
    BY <1>5, <1>6, <1>7, <1>8, <1>9, <1>10, <1>13, <1>14 DEF RequestsInv

\* A run logged next in order finds the tags of the runs before it.
LEMMA InOrderSoFar ==
    ASSUME RequestsInv, NEW i \in 1..Len(results), results[i].ok, i \notin LogOf(logged),
           Increasing(Append(logged, i)), NEW j \in 0..Len(results),
           LogOf(Append(logged, i)) = OkIn(results, j)
    PROVE  Tags(results, i - 1, next, calls) /\ OkIn(results, j) = OkIn(results, i)
  <1>1. /\ logged \in Seq(1..Len(results)) /\ Len(logged) \in Nat /\ Len(results) \in Nat
        /\ LogOf(logged) \subseteq 1..Len(results)
    BY LoggedRuns
  <1>2. /\ Len(Append(logged, i)) = Len(logged) + 1 /\ Append(logged, i)[Len(logged) + 1] = i
        /\ \A n \in 1..Len(logged) : Append(logged, i)[n] = logged[n]
        /\ LogOf(logged) \cup {i} = OkIn(results, j)
    BY <1>1, Appended
  <1>3. Increasing(logged)
    <2>1. ASSUME NEW k \in 1..Len(logged), NEW m \in 1..Len(logged), k < m
          PROVE  logged[k] < logged[m]
      <3>1. Append(logged, i)[k] < Append(logged, i)[m]
        BY <1>1, <1>2, <2>1 DEF Increasing
      <3> QED
        BY <1>2, <3>1
    <2> QED
      BY <2>1 DEF Increasing
  <1>4. \A n \in 1..Len(logged) : logged[n] < i
    <2>1. ASSUME NEW n \in 1..Len(logged)
          PROVE  logged[n] < i
      <3>1. /\ n \in 1..Len(Append(logged, i)) /\ Len(logged) + 1 \in 1..Len(Append(logged, i))
            /\ n < Len(logged) + 1
        BY <1>1, <1>2
      <3>2. Append(logged, i)[n] < Append(logged, i)[Len(logged) + 1]
        BY <3>1 DEF Increasing
      <3> QED
        BY <1>2, <3>2
    <2> QED
      BY <2>1
  <1>5. \A y \in LogOf(logged) : y < i
    BY <1>4 DEF LogOf
  <1>6. i <= j /\ i - 1 \in 0..Len(results)
    BY <1>1, <1>2 DEF OkIn
  <1>7. LogOf(logged) = OkIn(results, i - 1)
    <2>1. \A y \in LogOf(logged) : y \in OkIn(results, j) /\ y < i /\ y \in Nat
      BY <1>1, <1>2, <1>5
    <2>2. \A y \in OkIn(results, i - 1) : y \in OkIn(results, j) /\ y # i
      BY <1>1, <1>6 DEF OkIn
    <2>3. OkIn(results, i - 1) \subseteq LogOf(logged)
      BY <1>2, <2>2
    <2>4. LogOf(logged) \subseteq OkIn(results, i - 1)
      BY <2>1 DEF OkIn
    <2> QED
      BY <2>3, <2>4
  <1>8. Tags(results, i - 1, next, calls)
    BY <1>3, <1>6, <1>7 DEF RequestsInv, LogFollows
  <1>9. OkIn(results, i) = OkIn(results, i - 1) \cup {i}
    BY <1>1 DEF OkIn
  <1> QED
    BY <1>2, <1>7, <1>8, <1>9

LEMMA RecordKeeps ==
    ASSUME RequestsInv, NEW c \in Calls, Record(c)
    PROVE  RequestsInv'
  <1> DEFINE i == request[c]
             L == Len(logged)
             R == Len(rows)
             N == Len(results)
  <1>1. /\ pc[c] = "logging" /\ pc' = [pc EXCEPT ![c] = "returned"] /\ logged' = Append(logged, i)
        /\ UNCHANGED <<op, size, cur, sub, request, poll, ops, groups, scheduled, results, globalSteps, late>>
    BY DEF Record, service
  <1>2. /\ i \in 1..N /\ results[i].ok /\ scheduled[i] = c /\ results[i].op = op[c] /\ N \in Nat
        /\ results[i] \in [op: Ops, ok: BOOLEAN, step: Nat] /\ op[c] \in Ops
    BY <1>1, ResultRuns DEF RequestsInv, LogsItsOwn, RunsAreOwn, CallTypes
  <1>3. i \notin LogOf(logged)
    BY <1>1, <1>2 DEF RequestsInv, LogsItsOwn, LogOf
  <1>4. /\ L \in Nat /\ Len(logged') = L + 1 /\ logged'[L + 1] = i /\ \A n \in 1..L : logged'[n] = logged[n]
        /\ LogOf(logged') = LogOf(logged) \cup {i} /\ logged' \in Seq(1..N)
    BY <1>1, <1>2, LoggedRuns, Appended
  <1>5. next \in Nat /\ calls \in Nat /\ (next = NoStep => calls = 0)
    BY DEF RequestsInv, LogTypes, LogsItsOwn
  <1>6. /\ next' \in Nat /\ calls' \in Nat /\ (next' = NoStep => calls' = 0)
        /\ \/ /\ op[c] = "fwd_bwd" /\ next' = next /\ calls' = (IF next = NoStep THEN calls ELSE calls + 1)
              /\ rows' = Append(rows, [run |-> i, step |-> next, call |-> IF next = NoStep THEN 0 ELSE calls + 1])
           \/ /\ op[c] = "step" /\ next' = results[i].step + 1 /\ calls' = 0
              /\ rows' = Append(rows, [run |-> i, step |-> results[i].step, call |-> 0])
           \/ op[c] = "load" /\ next' = NoStep /\ calls' = 0 /\ rows' = rows
    <2>1. results[i].step \in Nat
      BY <1>2
    <2>2. CASE op[c] = "fwd_bwd"
      BY <1>5, <2>2 DEF Record, RecordCall, NoStep
    <2>3. CASE op[c] = "step"
      BY <1>5, <2>1, <2>3 DEF Record, RecordStep, NoStep
    <2>4. CASE op[c] = "load"
      BY <1>5, <2>4 DEF Record, ForgetStep, NoStep
    <2> QED
      BY <1>2, <2>2, <2>3, <2>4 DEF Ops
  <1>7. \/ rows' = rows
        \/ \E w \in [run: 1..N, step: Nat, call: Nat] : rows' = Append(rows, w) /\ w.run = i
                /\ (op[c] = "fwd_bwd" => w.step = next /\ w.call = IF next = NoStep THEN 0 ELSE calls + 1)
    <2>1. results[i].step \in Nat
      BY <1>2
    <2>2. CASE op[c] = "fwd_bwd"
      <3> DEFINE w == [run |-> i, step |-> next, call |-> IF next = NoStep THEN 0 ELSE calls + 1]
      <3>1. /\ w \in [run: 1..N, step: Nat, call: Nat] /\ w.run = i /\ w.step = next
            /\ w.call = IF next = NoStep THEN 0 ELSE calls + 1
        BY <1>2, <1>5
      <3>2. rows' = Append(rows, w)
        BY <1>6, <2>2
      <3> HIDE DEF w
      <3> QED
        BY <3>1, <3>2
    <2>3. CASE op[c] = "step"
      <3> DEFINE w == [run |-> i, step |-> results[i].step, call |-> 0]
      <3>1. w \in [run: 1..N, step: Nat, call: Nat] /\ w.run = i
        BY <1>2, <2>1
      <3>2. rows' = Append(rows, w)
        BY <1>6, <2>3
      <3> HIDE DEF w
      <3> QED
        BY <2>3, <3>1, <3>2
    <2>4. CASE op[c] = "load"
      BY <1>6, <2>4
    <2> QED
      BY <1>2, <2>2, <2>3, <2>4 DEF Ops
  <1>8. R \in Nat /\ rows \in Seq([run: 1..N, step: Nat, call: Nat])
    BY RowRuns
  <1>9. /\ rows' \in Seq([run: 1..N, step: Nat, call: Nat])
        /\ \A m \in 1..Len(rows') :
              \/ m \in 1..R /\ rows'[m] = rows[m]
              \/ /\ rows'[m].run = i
                 /\ op[c] = "fwd_bwd" => rows'[m].step = next /\ rows'[m].call = IF next = NoStep THEN 0 ELSE calls + 1
    <2>1. CASE rows' = rows
      BY <1>8, <2>1
    <2>2. CASE rows' # rows
      <3>1. PICK w \in [run: 1..N, step: Nat, call: Nat] : rows' = Append(rows, w) /\ w.run = i
                /\ (op[c] = "fwd_bwd" => w.step = next /\ w.call = IF next = NoStep THEN 0 ELSE calls + 1)
        BY <1>7, <2>2
      <3>2. /\ rows' \in Seq([run: 1..N, step: Nat, call: Nat]) /\ Len(rows') = R + 1 /\ rows'[R + 1] = w
            /\ \A m \in 1..R : rows'[m] = rows[m]
        BY <1>8, <3>1, Appended
      <3> QED
        BY <1>8, <3>1, <3>2
    <2> QED
      BY <2>1, <2>2
  <1> HIDE DEF i, L, R, N
  <1>10. LogTypes' /\ LoggedOnce'
    <2>1. DOMAIN results' = 1..N /\ DOMAIN logged' = 1..(L + 1) /\ DOMAIN logged = 1..L
      BY <1>1, <1>4, LoggedRuns DEF RequestsInv, ServiceTypes, N, L
    <2>2. LogTypes'
      BY <1>4, <1>6, <1>9, <2>1 DEF LogTypes
    <2>3. \A n \in 1..L : logged[n] # i
      BY <1>3 DEF LogOf, L
    <2>4. \A m, n \in 1..L : logged[m] = logged[n] => m = n
      BY <2>1 DEF RequestsInv, LoggedOnce
    <2>5. \A m, n \in 1..(L + 1) : logged'[m] = logged'[n] => m = n
      <3>1. ASSUME NEW m \in 1..(L + 1), NEW n \in 1..(L + 1), logged'[m] = logged'[n]
            PROVE  m = n
        <4>1. (m = L + 1 \/ m \in 1..L) /\ (n = L + 1 \/ n \in 1..L)
          BY <1>4
        <4> QED
          BY <1>4, <2>3, <2>4, <3>1, <4>1
      <3> QED
        BY <3>1
    <2> QED
      BY <2>1, <2>2, <2>5 DEF LoggedOnce
  <1>11. pc' \in [Calls -> {"idle", "submitting", "unsent", "accepted", "logging", "returned", "undecodable"}]
         /\ pc'[c] = "returned" /\ \A d \in Calls : d # c => pc'[d] = pc[d]
    BY <1>1 DEF RequestsInv, CallTypes
  <1>12. CallTypes' /\ SubmitTypes' /\ PollTypes' /\ ServiceTypes'
    BY <1>1, <1>11 DEF RequestsInv, CallTypes, SubmitTypes, PollTypes, ServiceTypes
  <1>13. OneAtATime'
    <2>1. \A d \in Calls : (pc'[d] = "idle" <=> pc[d] = "idle") /\ (pc'[d] = "submitting" <=> pc[d] = "submitting")
      BY <1>1, <1>11
    <2>2. cur # 0 => cur \in Calls
      BY DEF RequestsInv, SubmitTypes, Calls
    <2> QED
      BY <1>1, <2>1, <2>2 DEF RequestsInv, OneAtATime, Submitting
  <1>14. CallsWereBegun' /\ FwdBwdRunsOnce' /\ PagesSoFar' /\ ResultsAreWhole'
    BY <1>1, <1>11 DEF RequestsInv, CallsWereBegun, FwdBwdRunsOnce, PagesSoFar, ResultsAreWhole
  <1>15. RunsAreOwn'
    BY <1>1, <1>11 DEF RequestsInv, RunsAreOwn
  <1>16. LogsItsOwn'
    <2>1. \A d \in ops : pc'[d] = "accepted"
      BY <1>1, <1>11 DEF RequestsInv, LogsItsOwn, PollTypes
    <2>2. \A d \in Calls : pc'[d] = "logging" => request[d] \in 1..N /\ results[request[d]].ok
      BY <1>11 DEF RequestsInv, LogsItsOwn, N
    <2>3. \A n \in 1..(L + 1) : pc'[scheduled[logged'[n]]] = "returned" /\ request[scheduled[logged'[n]]] = logged'[n]
      <3>1. CASE TRUE
        <4>1. ASSUME NEW n \in 1..L
              PROVE  pc'[scheduled[logged[n]]] = "returned" /\ request[scheduled[logged[n]]] = logged[n]
          <5>1. /\ pc[scheduled[logged[n]]] = "returned" /\ request[scheduled[logged[n]]] = logged[n]
                /\ scheduled[logged[n]] \in Calls
            BY LoggedCalls DEF RequestsInv, LogsItsOwn, L
          <5> QED
            BY <1>11, <5>1
        <4>2. pc'[scheduled[i]] = "returned" /\ request[scheduled[i]] = i
          BY <1>2, <1>11 DEF i
        <4> QED
          BY <1>4, <4>1, <4>2
      <3> QED
        BY <3>1
    <2>4. \A m \in 1..Len(rows') : rows'[m].run \in LogOf(logged')
      BY <1>4, <1>9 DEF RequestsInv, LogsItsOwn, R
    <2> QED
      BY <1>1, <1>4, <1>6, <2>1, <2>2, <2>3, <2>4 DEF LogsItsOwn, N
  <1>17. ASSUME NEW j \in 0..N, Increasing(logged'), LogOf(logged') = OkIn(results, j)
         PROVE  Tags(results, i - 1, next, calls) /\ OkIn(results, j) = OkIn(results, i)
    BY <1>1, <1>2, <1>3, <1>17, InOrderSoFar DEF N
  <1>18. \A x \in 1..i : results[x].step \in Nat
    <2>1. \A x \in 1..i : x \in 1..N
      BY <1>2
    <2> QED
      BY <2>1, ResultRuns DEF N
  <1>19. LogFollows'
    <2>1. ASSUME NEW j \in 0..N, Increasing(logged'), LogOf(logged') = OkIn(results, j)
          PROVE  Tags(results, j, next', calls')
      <3>1. Tags(results, i - 1, next, calls) /\ OkIn(results, j) = OkIn(results, i)
        BY <1>17, <2>1
      <3>2. i \in Nat \ {0} /\ j \in Nat
        BY <1>2
      <3>3. CASE op[c] = "fwd_bwd"
        <4>1. Tags(results, i, next, IF next = NoStep THEN calls ELSE calls + 1)
          BY <1>2, <1>5, <1>18, <3>1, <3>2, <3>3, CallCounts
        <4> QED
          BY <1>6, <3>1, <3>2, <3>3, <4>1, SameTags
      <3>4. CASE op[c] \in {"step", "load"}
        <4>1. Tags(results, i, IF results[i].op = "load" THEN NoStep ELSE results[i].step + 1, 0)
          BY <1>2, <3>2, <3>4, StepStarts
        <4>2. Tags(results, i, next', calls')
          BY <1>2, <1>6, <3>4, <4>1
        <4> QED
          BY <3>1, <3>2, <4>2, SameTags
      <3> QED
        BY <1>2, <3>3, <3>4 DEF Ops
    <2> QED
      BY <1>1, <2>1 DEF LogFollows, N
  <1>20. RowsFollow'
    <2>1. ASSUME NEW m \in 1..Len(rows'), results'[rows'[m].run].op = "fwd_bwd",
                 \E n \in DOMAIN logged' :
                    /\ logged'[n] = rows'[m].run
                    /\ {logged'[k] : k \in 1..n} = {x \in 1..rows'[m].run : results'[x].ok}
                    /\ \A k, q \in 1..n : k < q => logged'[k] < logged'[q]
          PROVE  \E k \in Nat : /\ Tags(results', rows'[m].run - 1, rows'[m].step, k)
                                /\ rows'[m].call = IF rows'[m].step = NoStep THEN 0 ELSE k + 1
      <3> DEFINE r == rows'[m].run
      <3>1. results' = results /\ DOMAIN logged' = 1..(L + 1) /\ OkUpTo(r) = OkIn(results, r)
        BY <1>1, <1>4 DEF OkUpTo, OkIn
      <3>2. PICK n \in 1..(L + 1) : /\ logged'[n] = r /\ {logged'[k] : k \in 1..n} = OkIn(results, r)
                                    /\ \A k, q \in 1..n : k < q => logged'[k] < logged'[q]
        BY <2>1, <3>1 DEF OkIn
      <3>3. CASE m \in 1..R /\ rows'[m] = rows[m]
        <4>1. r \in LogOf(logged)
          BY <3>3 DEF RequestsInv, LogsItsOwn, R
        <4>2. n \in 1..L
          BY <1>3, <1>4, <3>2, <4>1
        <4>3. {logged'[k] : k \in 1..n} = {logged[k] : k \in 1..n} /\ logged[n] = r
              /\ \A k, q \in 1..n : k < q => logged[k] < logged[q]
          BY <1>4, <3>2, <4>2
        <4>4. DOMAIN logged = 1..L
          BY LoggedRuns DEF L
        <4>5. InOrderUpTo(r)
          BY <3>1, <3>2, <4>2, <4>3, <4>4 DEF InOrderUpTo
        <4>6. \E k \in Nat : /\ Tags(results, rows[m].run - 1, rows[m].step, k)
                              /\ rows[m].call = IF rows[m].step = NoStep THEN 0 ELSE k + 1
          BY <2>1, <3>1, <3>3, <4>5 DEF RequestsInv, RowsFollow, R
        <4> QED
          BY <3>1, <3>3, <4>6
      <3>4. CASE r = i /\ (op[c] = "fwd_bwd" => rows'[m].step = next /\ rows'[m].call = IF next = NoStep THEN 0 ELSE calls + 1)
        <4>1. n = L + 1
          <5>1. \A k \in 1..L : logged[k] # i
            BY <1>3 DEF LogOf, L
          <5> QED
            BY <1>4, <3>2, <3>4, <5>1
        <4>2. Increasing(logged') /\ LogOf(logged') = OkIn(results, i)
          BY <1>4, <3>2, <3>4, <4>1 DEF Increasing, LogOf
        <4>3. Tags(results, i - 1, next, calls)
          BY <1>2, <1>17, <4>2
        <4>4. op[c] = "fwd_bwd"
          BY <1>2, <2>1, <3>1, <3>4
        <4> QED
          BY <1>5, <3>1, <3>4, <4>3, <4>4
      <3> QED
        BY <1>9, <3>3, <3>4
    <2> QED
      BY <2>1 DEF RowsFollow, InOrderUpTo, OkUpTo
  <1> QED
    BY <1>10, <1>12, <1>13, <1>14, <1>15, <1>16, <1>19, <1>20 DEF RequestsInv

LEMMA StepKeeps ==
    ASSUME RequestsInv, [Next]_vars
    PROVE  RequestsInv'
  <1>1. CASE Next
    <2>1. CASE \E o \in Ops, n \in 1..MaxChunks : Begin(o, n)
      BY <2>1, BeginKeeps
    <2>2. CASE Submit
      BY <2>2, PostAcceptedKeeps, PostCachedKeeps, PostRestartKeeps, GiveUpKeeps, LoseAnswerKeeps,
         DelayKeeps, ExpiredKeeps DEF Submit
    <2>3. CASE Execute
      BY <2>3, ExecuteKeeps
    <2>4. CASE \E c \in Calls : Forget(c) \/ PollFails(c) \/ Record(c)
      BY <2>4, ForgetKeeps, PollFailsKeeps, RecordKeeps
    <2>5. CASE \E c \in Calls, k \in 0..MaxChunks - 1 : Arrive(c, k)
      BY <2>5, ArriveKeeps
    <2>6. CASE \E c \in Calls, n \in 0..Pages, terminal \in BOOLEAN : Page(c, n, terminal)
      BY <2>6, PageKeeps
    <2> QED
      BY <1>1, <2>1, <2>2, <2>3, <2>4, <2>5, <2>6 DEF Next
  <1>2. CASE UNCHANGED vars
    <2>1. UNCHANGED <<client, log>> /\ UNCHANGED service /\ late' \subseteq late
      BY <1>2 DEF vars, client, log, service
    <2> QED
      BY <2>1, QuietService, ServiceKeeps
  <1> QED
    BY <1>1, <1>2

-----------------------------------------------------------------------------
(* What the invariant says.                                                  *)

LEMMA InvIsExact ==
    ASSUME RequestsInv
    PROVE  RequestsAreExact
  <1>1. TypeOK
    BY DEF RequestsInv, CallTypes, SubmitTypes, PollTypes, LogTypes, ServiceTypes, TypeOK
  <1> QED
    BY <1>1 DEF RequestsInv, RequestsAreExact

LEMMA InvTags ==
    ASSUME RequestsInv
    PROVE  TagsMatchInOrder
  <1> SUFFICES ASSUME NEW m \in DOMAIN rows, results[rows[m].run].op = "fwd_bwd", InOrderUpTo(rows[m].run)
               PROVE  rows[m].step = ServiceStep(rows[m].run) /\ rows[m].call = ServiceCall(rows[m].run)
    BY DEF TagsMatchInOrder
  <1> DEFINE i == rows[m].run
             s == rows[m].step
  <1>1. m \in 1..Len(rows) /\ i \in 1..Len(results) /\ Len(results) \in Nat /\ i - 1 \in Nat /\ i \in Nat
    <2>1. m \in 1..Len(rows)
      BY RowRuns
    <2>2. rows[m] \in [run: 1..Len(results), step: Nat, call: Nat] /\ Len(results) \in Nat
      BY <2>1, RowRuns
    <2> QED
      BY <2>1, <2>2
  <1>2. PICK k \in Nat : Tags(results, i - 1, s, k) /\ rows[m].call = IF s = NoStep THEN 0 ELSE k + 1
    BY <1>1 DEF RequestsInv, RowsFollow
  <1>3. results[i].ok
    <2>1. PICK n \in DOMAIN logged : logged[n] = i /\ {logged[q] : q \in 1..n} = OkUpTo(i)
      BY DEF InOrderUpTo
    <2>2. n \in 1..n
      BY <2>1, LoggedRuns
    <2>3. i \in OkUpTo(i)
      BY <2>1, <2>2
    <2> QED
      BY <2>3 DEF OkUpTo
  <1> HIDE DEF i, s
  <1>4. Moved(i) = MovedIn(results, i - 1) /\ Moved(i) \subseteq 1..(i - 1)
    BY DEF Moved, MovedIn, OkIn
  <1>5. CASE Moved(i) = {}
    BY <1>2, <1>4, <1>5 DEF Tags, ServiceStep, ServiceCall, s, i
  <1>6. CASE Moved(i) # {}
    <2> DEFINE x == Latest(Moved(i))
    <2>1. x \in Moved(i) /\ \A y \in Moved(i) : y <= x
      BY <1>1, <1>4, <1>6, HasLatest
    <2> HIDE DEF x
    <2>2. x \in MovedIn(results, i - 1) /\ \A y \in MovedIn(results, i - 1) : y <= x
      BY <1>4, <2>1
    <2>3. x \in 1..(i - 1) /\ x < i /\ x \in 1..Len(results)
      BY <1>1, <1>4, <2>1
    <2>4. CASE results[x].op = "load"
      <3>1. s = NoStep
        BY <1>2, <2>2, <2>4 DEF Tags
      <3>2. ServiceStep(i) = NoStep
        BY <2>4 DEF ServiceStep, x
      <3> QED
        BY <1>2, <3>1, <3>2 DEF ServiceCall, s, i
    <2>5. CASE results[x].op # "load"
      <3> DEFINE before == {j \in OkIn(results, i - 1) : j > x}
      <3>1. s = results[x].step + 1 /\ k = Cardinality(before)
        BY <1>2, <2>2, <2>5 DEF Tags
      <3>2. results[x].step \in Nat
        BY <2>3, ResultRuns
      <3>3. ServiceStep(i) = s /\ s # NoStep
        BY <1>6, <2>5, <3>1, <3>2 DEF ServiceStep, NoStep, x
      <3>4. {j \in OkUpTo(i) : j > x} = before \cup {i} /\ i \notin before
        BY <1>1, <1>3, <2>3 DEF OkUpTo, OkIn
      <3>5. IsFiniteSet(before)
        <4>1. 1 \in Int /\ i - 1 \in Int
          BY <1>1
        <4>2. IsFiniteSet(1..(i - 1))
          BY <4>1, FS_Interval
        <4>3. before \in SUBSET (1..(i - 1))
          BY DEF OkIn
        <4> QED
          BY <4>2, <4>3, FS_Subset
      <3>6. Cardinality(before \cup {i}) = Cardinality(before) + 1
        BY <3>4, <3>5, FS_AddElement
      <3> HIDE DEF before
      <3>7. Cardinality({j \in OkUpTo(i) : j > x}) = k + 1
        BY <3>1, <3>4, <3>6
      <3>8. ServiceCall(i) = k + 1
        BY <3>3, <3>7 DEF ServiceCall, x
      <3> QED
        BY <1>2, <3>3, <3>8 DEF s, i
    <2> QED
      BY <2>4, <2>5
  <1> QED
    BY <1>5, <1>6

\* The inductive invariant holds of every behaviour: the requests, their polls and the log keep
\* in step with what the service ran.
THEOREM RequestsInvHolds == Spec => []RequestsInv
  <1>1. Init => RequestsInv
    BY RequestsAtFirst
  <1>2. RequestsInv /\ [Next]_vars => RequestsInv'
    BY StepKeeps
  <1> QED
    BY <1>1, <1>2, PTL DEF Spec

\* A forward-backward runs at most once on the service whatever is lost, delayed or replayed,
\* a poll never decodes a partial result, a result is logged at most once, and the memory of
\* submitted calls stays within its cap.
THEOREM RequestsStayExact == Spec => []RequestsAreExact
  BY RequestsInvHolds, InvIsExact, PTL

\* A client that records every result in the order the runs happened tags each call as the
\* service does, whatever was resubmitted, forgotten or failed in between.
THEOREM TagsFollowInOrder == Spec => []TagsMatchInOrder
  BY RequestsInvHolds, InvTags, PTL
=============================================================================
