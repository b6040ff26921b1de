-------------------------- MODULE TrainingRequests --------------------------
(***************************************************************************)
(* A training loop's requests: submitting forward-backward, step and load  *)
(* calls to one training sub-job with `_send`'s retries and the one replay *)
(* of a chunk group, polling each request to its result in any order and   *)
(* as often as the caller likes, and the local training log that tags each *)
(* result with its step and call (client/core.py, _training_log.py).       *)
(*                                                                         *)
(* The service is external: it keeps the chunks of a group it accepted,    *)
(* may lose an incomplete group, runs what was scheduled in order, and     *)
(* answers a repeated group from the first run.  A POST may be handled     *)
(* with its answer lost, or be handled only after the client gave up on it.*)
(***************************************************************************)
EXTENDS Naturals, Sequences, FiniteSets

CONSTANTS
    NumCalls,   \* how many calls the loop submits, one after another
    MaxChunks,  \* a fwd-bwd frame is split into at most this many chunks
    Pages,      \* result chunks of a fwd-bwd's result
    Attempts,   \* 1 + max_retries: attempts of one _send
    MaxOps,     \* _MAX_TRAINING_LOG_OPS
    MaxLate     \* bound: POSTs on their way that the client gave up on

ASSUME CountsAssumption ==
    /\ NumCalls \in Nat \ {0} /\ MaxChunks \in Nat \ {0} /\ Pages \in Nat \ {0}
    /\ Attempts \in Nat \ {0} /\ MaxOps \in Nat \ {0} /\ MaxLate \in Nat

VARIABLES
    op, size,   \* per call: the operation, and the chunks of its frame
    pc,         \* per call: where it stands
    cur, sub,   \* the call being submitted (0: none yet), and how far its POSTs are
    request,    \* per call: the run its request id resolves to (0: no id)
    poll,       \* per call: result chunks received, and the cursor to echo
    ops,        \* _training_log_ops: the calls whose result is to be logged
    next, calls, rows,      \* TrainingLog: _next_step, _calls and the file's rows
    logged,     \* history: the runs recorded, in that order
    groups, scheduled, results, globalSteps, late   \* the service and the network

client  == <<op, size, pc, cur, sub, request, poll, ops>>
log     == <<next, calls, rows, logged>>
service == <<groups, scheduled, results, globalSteps>>
vars    == <<client, log, service, late>>

Calls  == 1..NumCalls
Ops    == {"fwd_bwd", "step", "load"}
NoStep == 0         \* null: the step the next calls count toward is not known
NoPoll == [got |-> <<>>, cursor |-> 0]
Fresh  == [idx |-> 0, tries |-> 0, restarts |-> 0, renewed |-> FALSE]
RangeOf(s) == {s[i] : i \in DOMAIN s}

IdentifiedIfSplit(c) == op[c] = "fwd_bwd" /\ size[c] > 1              \* a mutant

\* encode_byte_chunks(force_chunk=True): a fwd-bwd always carries a group id
Identified(c) == op[c] = "fwd_bwd"

LastChunk(c)  == size[c] - 1
PagesOf(c)    == IF op[c] = "fwd_bwd" THEN Pages ELSE 0

Init ==
    /\ op = [c \in Calls |-> "step"] /\ size = [c \in Calls |-> 1]
    /\ pc = [c \in Calls |-> "idle"] /\ cur = 0 /\ sub = Fresh
    /\ request = [c \in Calls |-> 0] /\ poll = [c \in Calls |-> NoPoll] /\ ops = {}
    /\ next = NoStep /\ calls = 0 /\ rows = <<>> /\ logged = <<>>
    /\ groups = [c \in Calls |-> {}] /\ scheduled = <<>> /\ results = <<>>
    /\ globalSteps = 0 /\ late = {}

-----------------------------------------------------------------------------
\* The service: chunk groups, the queue of runs, and their results

Ran(c) == c \in RangeOf(scheduled)

\* How it answers chunk k of call c
Answer(c, k) ==
    CASE ~Identified(c) -> "accepted"
      [] Identified(c) /\ Ran(c) -> IF k = LastChunk(c) THEN "accepted" ELSE "cached"
      [] Identified(c) /\ ~Ran(c) /\ k > 0 /\ groups[c] = {} -> "restart"
      [] OTHER -> IF k < LastChunk(c) THEN "cached"
                  ELSE IF groups[c] \cup {k} = 0..k THEN "accepted" ELSE "missing"

Handle(c, k) ==
    /\ groups' = CASE Answer(c, k) = "accepted" -> [groups EXCEPT ![c] = {}]
                  [] Answer(c, k) = "cached" /\ ~Ran(c) -> [groups EXCEPT ![c] = @ \cup {k}]
                  [] OTHER -> groups
    /\ scheduled' = IF Answer(c, k) = "accepted" /\ ~(Identified(c) /\ Ran(c))
                    THEN Append(scheduled, c) ELSE scheduled
    /\ UNCHANGED <<results, globalSteps>>

\* The run an accepted last chunk's request id resolves to
RunOf(c) == IF Identified(c)
            THEN CHOOSE i \in DOMAIN scheduled' : scheduled'[i] = c
            ELSE Len(scheduled')

\* A POST the client gave up on is handled after all
Arrive(c, k) ==
    /\ <<c, k>> \in late
    /\ late' = late \ {<<c, k>>}
    /\ Handle(c, k)
    /\ UNCHANGED <<client, log>>

\* It loses a group that never became complete
Forget(c) ==
    /\ groups[c] # {}
    /\ groups' = [groups EXCEPT ![c] = {}]
    /\ UNCHANGED <<client, log, scheduled, results, globalSteps, late>>

\* It runs the next scheduled call, which may fail
Execute ==
    /\ Len(results) < Len(scheduled)
    /\ \E ok \in BOOLEAN :
        LET o    == op[scheduled[Len(results) + 1]]
            step == IF o = "load" THEN 0 ELSE globalSteps + 1
        IN  /\ results' = Append(results, [op |-> o, ok |-> ok, step |-> step])
            /\ globalSteps' = IF ok /\ o # "fwd_bwd" THEN step ELSE globalSteps
    /\ UNCHANGED <<client, log, groups, scheduled, late>>

-----------------------------------------------------------------------------
\* Submitting: _post_octet_request_chunks over _send

Submitting == cur # 0 /\ pc[cur] = "submitting"

Begin(o, n) ==
    /\ cur < NumCalls /\ ~Submitting
    /\ o # "fwd_bwd" => n = 1
    /\ cur' = cur + 1 /\ sub' = Fresh
    /\ op' = [op EXCEPT ![cur'] = o] /\ size' = [size EXCEPT ![cur'] = n]
    /\ pc' = [pc EXCEPT ![cur'] = "submitting"]
    /\ UNCHANGED <<request, poll, ops, log, service, late>>

GiveUp == pc' = [pc EXCEPT ![cur] = "unsent"] /\ sub' = Fresh

\* An attempt failed with a transient error: another one, or the error is raised
Retry ==
    /\ UNCHANGED <<op, size, cur, request, poll, ops>>
    /\ IF sub.tries + 1 < Attempts
       THEN sub' = [sub EXCEPT !.tries = @ + 1] /\ UNCHANGED pc
       ELSE GiveUp

\* _remember_training_log_op drops the oldest past its limit, which is the first
\* that was submitted
Remember(c) ==
    LET all == ops \cup {c}
    IN  IF Cardinality(all) <= MaxOps THEN ops' = all
        ELSE \E oldest \in all : (\A d \in all : oldest <= d) /\ ops' = all \ {oldest}

PostAccepted ==
    /\ Submitting /\ Answer(cur, sub.idx) = "accepted"
    /\ Handle(cur, sub.idx)
    /\ request' = [request EXCEPT ![cur] = RunOf(cur)]
    /\ pc' = [pc EXCEPT ![cur] = "accepted"] /\ sub' = Fresh
    /\ Remember(cur)
    /\ UNCHANGED <<op, size, cur, poll, log, late>>

PostCached ==
    /\ Submitting /\ Answer(cur, sub.idx) = "cached"
    /\ Handle(cur, sub.idx)
    /\ sub' = [Fresh EXCEPT !.idx = sub.idx + 1, !.restarts = sub.restarts]
    /\ UNCHANGED <<op, size, pc, cur, request, poll, ops, log, late>>

PostRestartAlways ==                                                  \* a mutant
    /\ Submitting /\ Answer(cur, sub.idx) = "restart"
    /\ sub' = Fresh
    /\ UNCHANGED <<op, size, pc, cur, request, poll, ops, log, service, late>>

\* A structured 409 is never retried: one replay from chunk 0, else it is raised
PostRestart ==
    /\ Submitting /\ Answer(cur, sub.idx) = "restart"
    /\ IF sub.restarts < 1
       THEN sub' = [Fresh EXCEPT !.restarts = sub.restarts + 1] /\ UNCHANGED pc
       ELSE GiveUp
    /\ UNCHANGED <<op, size, cur, request, poll, ops, log, service, late>>

PostConflict ==
    /\ Submitting /\ Answer(cur, sub.idx) = "missing"
    /\ GiveUp
    /\ UNCHANGED <<op, size, cur, request, poll, ops, log, service, late>>

\* Handled, but the answer is lost
LoseAnswer == Submitting /\ Handle(cur, sub.idx) /\ Retry /\ UNCHANGED <<log, late>>

\* Not handled yet: the POST may arrive later, or never
Delay ==
    /\ Submitting /\ Cardinality(late) < MaxLate /\ Retry
    /\ late' = late \cup {<<cur, sub.idx>>}
    /\ UNCHANGED <<log, service>>

\* The session token expired: refreshed once per _send, which is no attempt
Expired ==
    /\ Submitting /\ ~sub.renewed
    /\ sub' = [sub EXCEPT !.renewed = TRUE]
    /\ UNCHANGED <<op, size, pc, cur, request, poll, ops, log, service, late>>

\* An error no retry fixes
Reject ==
    /\ Submitting /\ GiveUp
    /\ UNCHANGED <<op, size, cur, request, poll, ops, log, service, late>>

-----------------------------------------------------------------------------
\* Polling: poll_request, whose GETs repeat the same cursor until answered.  A
\* request may be polled again after its poll raised or returned; a poll that has
\* received no chunk, or was told that the run failed, leaves no trace.

Polled(c) == pc[c] \in {"accepted", "returned"}

Done(c) == request[c] <= Len(results)

\* The chunks received are decoded: an incomplete or repeated list raises.  Then
\* _log_training_result takes the remembered call, and records it.
Complete(c, got) ==
    IF got = [i \in 1..PagesOf(c) |-> i]
    THEN /\ pc' = [pc EXCEPT ![c] = IF c \in ops THEN "logging" ELSE "returned"]
         /\ ops' = ops \ {c}
    ELSE pc' = [pc EXCEPT ![c] = "undecodable"] /\ UNCHANGED ops

\* One answer: the next n chunks after the cursor, the status terminal or not yet
Page(c, n, terminal) ==
    /\ Polled(c) /\ Done(c) /\ results[request[c]].ok
    /\ LET upto == poll[c].cursor + n
           got  == poll[c].got \o [i \in 1..n |-> poll[c].cursor + i]
       IN  /\ upto <= PagesOf(c) /\ (upto < PagesOf(c) => n > 0)
           /\ upto = PagesOf(c) => terminal
           /\ IF upto < PagesOf(c)
              THEN /\ poll' = [poll EXCEPT ![c] = [got |-> got, cursor |-> upto]]
                   /\ UNCHANGED <<pc, ops>>
              ELSE Complete(c, got) /\ poll' = [poll EXCEPT ![c] = NoPoll]
    /\ UNCHANGED <<op, size, cur, sub, request, log, service, late>>

\* The deadline passed, or a GET's retries are used up: the chunks are dropped
PollFails(c) ==
    /\ poll[c] # NoPoll
    /\ poll' = [poll EXCEPT ![c] = NoPoll]
    /\ UNCHANGED <<op, size, pc, cur, sub, request, ops, log, service, late>>

-----------------------------------------------------------------------------
\* TrainingLog.record and forget_step

RecordCall(run) ==
    /\ calls' = IF next = NoStep THEN calls ELSE calls + 1
    /\ rows' = Append(rows, [run |-> run, step |-> next,
                             call |-> IF next = NoStep THEN 0 ELSE calls + 1])
    /\ UNCHANGED next

RecordStep(run) ==
    /\ calls' = 0 /\ next' = results[run].step + 1
    /\ rows' = Append(rows, [run |-> run, step |-> results[run].step, call |-> 0])

ForgetNothing == UNCHANGED <<next, calls, rows>>                      \* a mutant

ForgetStep == next' = NoStep /\ calls' = 0 /\ UNCHANGED rows

Record(c) ==
    /\ pc[c] = "logging" /\ pc' = [pc EXCEPT ![c] = "returned"]
    /\ \/ op[c] = "fwd_bwd" /\ RecordCall(request[c])
       \/ op[c] = "step" /\ RecordStep(request[c])
       \/ op[c] = "load" /\ ForgetStep
    /\ logged' = Append(logged, request[c])
    /\ UNCHANGED <<op, size, cur, sub, request, poll, ops, service, late>>

-----------------------------------------------------------------------------
Submit == \/ PostAccepted \/ PostCached \/ PostRestart \/ PostConflict
          \/ LoseAnswer \/ Delay \/ Expired \/ Reject

Next ==
    \/ \E o \in Ops, n \in 1..MaxChunks : Begin(o, n)
    \/ Submit
    \/ Execute
    \/ \E c \in Calls : Forget(c) \/ PollFails(c) \/ Record(c)
    \/ \E c \in Calls, k \in 0..MaxChunks - 1 : Arrive(c, k)
    \/ \E c \in Calls, n \in 0..Pages, terminal \in BOOLEAN : Page(c, n, terminal)

Spec == Init /\ [][Next]_vars

\* The thread that submits runs on: each attempt ends in an answer or an error
FairSpec == Spec /\ WF_vars(Submit)

-----------------------------------------------------------------------------
\* The type of every variable: the log of submitted calls stays within its cap, and
\* a chunk group only holds chunks its call has.
TypeOK ==
    /\ op \in [Calls -> Ops] /\ size \in [Calls -> 1..MaxChunks]
    /\ pc \in [Calls -> {"idle", "submitting", "unsent", "accepted", "logging", "returned",
                         "undecodable"}]
    /\ cur \in 0..NumCalls
    /\ sub \in [idx: 0..MaxChunks - 1, tries: 0..Attempts - 1, restarts: 0..1,
                renewed: BOOLEAN]
    /\ request \in [Calls -> Nat] /\ \A c \in Calls : request[c] <= Len(scheduled)
    /\ poll \in [Calls -> [got: Seq(1..Pages), cursor: 0..Pages]]
    /\ ops \subseteq Calls /\ Cardinality(ops) <= MaxOps
    /\ next \in Nat /\ calls \in Nat /\ globalSteps \in Nat
    /\ rows \in Seq([run: DOMAIN results, step: Nat, call: Nat])
    /\ logged \in Seq(DOMAIN results)
    /\ groups \in [Calls -> SUBSET (0..MaxChunks - 1)]
    /\ scheduled \in Seq(Calls) /\ results \in Seq([op: Ops, ok: BOOLEAN, step: Nat])
    /\ Len(results) <= Len(scheduled)
    /\ late \subseteq Calls \X (0..MaxChunks - 1)

\* A forward_backward call runs at most once on the service, whatever answers
\* were lost, POSTs handled late and groups replayed: every POST of the call
\* carries the one group id it made, a frame that fits in one chunk included.
FwdBwdRunsOnce ==
    \A i, j \in DOMAIN scheduled :
        op[scheduled[i]] = "fwd_bwd" /\ scheduled[i] = scheduled[j] => i = j

\* poll_request never decodes a partial result: it drains every page the
\* service announces with next_cursor, even when the status is already
\* terminal, and starts from the first page each time it is called.
ResultsAreWhole == \A c \in Calls : pc[c] # "undecodable"

\* A result is written to the local log at most once, however often and from
\* whatever poll its request is polled again.
LoggedOnce == \A i, j \in DOMAIN logged : logged[i] = logged[j] => i = j

\* A forward-backward runs at most once, its result is read whole and logged once,
\* and a log of calls that are never polled does not outgrow its cap.
RequestsAreExact == TypeOK /\ FwdBwdRunsOnce /\ ResultsAreWhole /\ LoggedOnce

\* The tags the service gives run i: the previous step's number plus one, and
\* the call's place among its step's calls
OkUpTo(i) == {j \in 1..i : results[j].ok}
Moved(i) == {j \in 1..i - 1 : results[j].ok /\ results[j].op # "fwd_bwd"}
Latest(S) == CHOOSE x \in S : \A y \in S : y <= x
ServiceStep(i) ==
    IF Moved(i) = {} \/ results[Latest(Moved(i))].op = "load" THEN NoStep
    ELSE results[Latest(Moved(i))].step + 1
ServiceCall(i) ==
    IF ServiceStep(i) = NoStep THEN 0
    ELSE Cardinality({j \in OkUpTo(i) : j > Latest(Moved(i))})

\* The results recorded up to run i are those of the runs up to it, in order
InOrderUpTo(i) == \E n \in DOMAIN logged :
    /\ logged[n] = i /\ {logged[k] : k \in 1..n} = OkUpTo(i)
    /\ \A k, m \in 1..n : k < m => logged[k] < logged[m]

\* A client that records every result in the order the runs happened tags each
\* call as the service does: with the step it counts toward and its number
\* among that step's calls, or with neither before a step and after a load.
TagsMatchInOrder ==
    \A m \in DOMAIN rows :
        results[rows[m].run].op = "fwd_bwd" /\ InOrderUpTo(rows[m].run)
        => /\ rows[m].step = ServiceStep(rows[m].run)
           /\ rows[m].call = ServiceCall(rows[m].run)

\* What the log's docstring says of every row: a call it gives a step has the
\* step the service gives it.
TagsMatch ==
    \A m \in DOMAIN rows :
        results[rows[m].run].op = "fwd_bwd" /\ rows[m].step # NoStep
        => rows[m].step = ServiceStep(rows[m].run)

\* Every submit returns a request id or raises, even when the service loses the
\* group's state each time it is sent: attempts and group replays are bounded.
SubmitsEnd == []<>(~Submitting)
=============================================================================
