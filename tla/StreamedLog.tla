------------------------------ MODULE StreamedLog ------------------------------
(***************************************************************************)
(* A program that follows a sub-job's log or its events (stream_logs,      *)
(* stream_events), or waits for its job (wait_for_job), and the outcome    *)
(* that the client records of each call it makes for that                  *)
(* (_track_operation).  A line is a number, what was yielded a count.      *)
(***************************************************************************)
EXTENDS Naturals, Sequences

CONSTANTS
  MaxTries,   \* attempts of a request
  MaxLines,   \* bound: lines of the log
  MaxCalls,   \* bound: calls of the program
  MaxFaults   \* bound: attempts that fail on their own, and interrupts

VARIABLES
  job,     \* at the service: status, whether its pods answer, whether the sub-job is one of it, lines
  stream,  \* the program's iteration
  call,    \* its call: what it did, as it was
  state,   \* _operation_metric_state of the program's thread
  told,    \* the outcomes recorded of the call
  calls, faults

vars == <<job, stream, call, state, told, calls, faults>>

Cleared == [active |-> FALSE, requests |-> 0, attempts |-> 0, connects |-> 0, status |-> "none", ended |-> FALSE]
NoCall ==
  [op |-> "none", at |-> "over", result |-> "ok", tries |-> 0, renewed |-> FALSE, checked |-> "no",
   requests |-> 0, attempts |-> 0, connects |-> 0, late |-> FALSE]
NoStream == [at |-> "off", kind |-> "logs", follow |-> FALSE, read |-> FALSE, got |-> 0, from |-> 0]

Init ==
  /\ job \in [status : {"starting", "running"}, pods : {FALSE}, known : BOOLEAN, lines : {0}]
  /\ stream = NoStream /\ call = NoCall /\ state = Cleared /\ told = <<>> /\ calls = 0 /\ faults = 0

Tracked == call.op \in {"tail_logs", "wait_for_job"}

--------------------------------------------------------------------------------
(* The service.                                                            *)

JobMoves ==
  /\ UNCHANGED <<stream, call, state, told, calls, faults>>
  /\ \/ job.status = "starting" /\ job' = [job EXCEPT !.status = "running"]
     \/ job.status # "ended" /\ job' = [job EXCEPT !.status = "ended"]
     \/ job.status = "running" /\ ~job.pods /\ job' = [job EXCEPT !.pods = TRUE]
     \/ job.pods /\ job' = [job EXCEPT !.pods = FALSE]   \* it ended, or its zone is restarting
     \/ job.status = "running" /\ job.pods /\ job.lines < MaxLines /\ job' = [job EXCEPT !.lines = @ + 1]
Answers == job.pods /\ job.known

--------------------------------------------------------------------------------
(* A call of the client.                                                   *)

\* Mutant: a call made by another is tracked like the program's own.
EntersAnew(s) == [Cleared EXCEPT !.active = TRUE]

\* The wrapper of a tracked method: within another it only calls.
Enters(s) == IF s.active THEN s ELSE [Cleared EXCEPT !.active = TRUE]

\* A request is begun, which is an attempt or more, and one more if the session has expired.
Began(c) == [c EXCEPT !.at = "try", !.requests = @ + 1, !.tries = 0, !.renewed = FALSE]
Counts(s) == IF s.active THEN [s EXCEPT !.requests = @ + 1] ELSE s
Tried(c) == [c EXCEPT !.attempts = @ + 1]
CountsTry(s) == IF s.active THEN [s EXCEPT !.attempts = @ + 1] ELSE s

Call(op) ==
  /\ calls < MaxCalls /\ calls' = calls + 1 /\ told' = <<>>
  /\ call' = Began([NoCall EXCEPT !.op = op, !.result = "none", !.late = job.status = "ended"])
  /\ state' = IF op = "tail_events" THEN state ELSE Counts(Enters(state))

\* The log of a job that has ended or does not run yet is not there; a sub-job that the job does not
\* have is the caller's mistake, which is looked at only in a job that has not ended.
Expected(result, s) ==
  result = "gone" /\ (s.ended \/ (job.known /\ s.status \notin {"none", "running"}))
Outcome(result, s) ==
  [operation |-> call.op, attempts |-> s.attempts, requests |-> s.requests, connects |-> s.connects,
   outcome |-> CASE result = "ok" -> "success" [] result = "cancelled" -> "cancelled"
                 [] Expected(result, s) /\ call.op = "tail_logs" -> "expected_failure"
                 [] OTHER -> "failure"]
\* The call returns or raises; its outcome is recorded, and the thread's state cleared.
Ends(c, s, result) ==
  /\ call' = [c EXCEPT !.at = "over", !.result = result]
  /\ told' = IF s.active THEN Append(told, Outcome(result, s)) ELSE told
  /\ state' = IF s.active THEN Cleared ELSE s

\* A status that a lookup of this call found is told of a failed tail.
Looked(s, c) ==
  IF c.op # "tail_logs" \/ c.checked \in {"no", "unreadable"} THEN s
  ELSE [s EXCEPT !.status = c.checked, !.ended = c.checked = "ended"]
StreamRaises == stream' = IF stream.at = "on" THEN [stream EXCEPT !.at = "raised"] ELSE stream
Fails(c, s) == Ends(c, Looked(s, c), "failed") /\ StreamRaises

\* An attempt that fails in passing is made again, as long as there is one left.
FailsInPassing ==
  /\ call.at = "try" /\ faults < MaxFaults /\ faults' = faults + 1 /\ UNCHANGED <<job, calls>>
  /\ LET c == [Tried(call) EXCEPT !.tries = @ + 1]  s == CountsTry(state)
     IN  IF c.tries < MaxTries THEN call' = c /\ state' = s /\ UNCHANGED <<stream, told>> ELSE Fails(c, s)
\* The session has expired: one login within the call, which is not an attempt of the retries.
Relogin ==
  /\ call.at = "try" /\ ~call.renewed /\ faults < MaxFaults /\ faults' = faults + 1 /\ UNCHANGED <<job, calls>>
  /\ LET c == [Tried(call) EXCEPT !.renewed = TRUE, !.connects = @ + 1]
         s == [CountsTry(state) EXCEPT !.connects = IF state.active THEN @ + 1 ELSE @]
     IN  (call' = c /\ state' = s /\ UNCHANGED <<stream, told>>) \/ Fails(c, s)
Interrupt ==
  /\ call.at = "try" /\ faults < MaxFaults /\ faults' = faults + 1 /\ UNCHANGED <<job, calls>>
  /\ Ends(call, state, "cancelled") /\ StreamRaises

\* wait_for_job: each poll is a call of get_job.
Polled ==
  /\ call.at = "try" /\ call.op = "wait_for_job" /\ UNCHANGED <<job, stream, faults>>
  /\ LET c == Tried(call)  s == CountsTry(state)
     IN  CASE job.status = "running" -> Ends(c, s, "ok") /\ UNCHANGED calls
           [] job.status = "ended" -> Ends(c, s, "failed") /\ UNCHANGED calls
           [] OTHER -> \/ Ends(c, s, "failed") /\ UNCHANGED calls   \* the time to wait is over
                       \/ /\ calls < MaxCalls /\ calls' = calls + 1
                          /\ call' = Began(c) /\ state' = Counts(Enters(s)) /\ UNCHANGED told

\* The log is not there.  The job is looked up, once in a call and with one attempt; a job that has
\* ended, and a sub-job that is not its own, are not asked again.
Gone ==
  /\ call.at = "try" /\ call.op # "wait_for_job" /\ ~Answers /\ UNCHANGED <<job, calls>>
  /\ \E found \in {job.status, "unreadable"}, again \in BOOLEAN :
       LET tried == [Tried(call) EXCEPT !.tries = @ + 1]
           looks == call.op = "tail_logs" /\ call.checked = "no"
           c == IF looks THEN Tried([tried EXCEPT !.checked = found, !.requests = @ + 1]) ELSE tried
           s == IF looks THEN CountsTry(Counts(CountsTry(state))) ELSE CountsTry(state)
           hint == c.checked = "ended" \/ (c.checked \notin {"no", "unreadable"} /\ ~job.known)
       IN  /\ looks => (found = "unreadable" => faults < MaxFaults)
           /\ faults' = IF looks /\ found = "unreadable" THEN faults + 1 ELSE faults
           /\ IF again /\ c.tries < MaxTries /\ ~hint
              THEN call' = c /\ state' = s /\ UNCHANGED <<stream, told>>
              ELSE /\ Ends(c, Looked(s, c), "gone")
                   /\ stream' = [stream EXCEPT !.at =
                        IF stream.kind = "logs" /\ stream.read /\ c.checked = "ended" THEN "over" ELSE "raised"]

--------------------------------------------------------------------------------
(* The iteration.                                                          *)

Open(kind, follow) ==
  /\ stream.at # "on" /\ call.at = "over" /\ UNCHANGED <<job, call, state, told, calls, faults>>
  /\ stream' = [NoStream EXCEPT !.at = "on", !.kind = kind, !.follow = follow, !.from = job.lines]
Fetch ==
  /\ stream.at = "on" /\ call.at = "over" /\ UNCHANGED <<job, stream, faults>>
  /\ Call(IF stream.kind = "logs" THEN "tail_logs" ELSE "tail_events")
WaitForJob ==
  /\ stream.at # "on" /\ call.at = "over" /\ UNCHANGED <<job, stream, faults>> /\ Call("wait_for_job")
\* A page is empty when the reader has caught up; some services then say that there will be no more.
Page ==
  /\ call.at = "try" /\ call.op # "wait_for_job" /\ Answers /\ UNCHANGED <<job, calls, faults>>
  /\ Ends(Tried(call), CountsTry(state), "ok")
  /\ \E n \in 0 .. job.lines - stream.got, eof \in BOOLEAN :
       /\ n = 0 => stream.got = job.lines
       /\ eof => n = 0 /\ job.status = "ended"
       /\ stream' = [stream EXCEPT !.read = TRUE, !.got = @ + n,
                       !.at = IF n = 0 /\ (~stream.follow \/ (stream.kind = "logs" /\ eof)) THEN "over" ELSE "on"]

Next ==
  \/ JobMoves \/ FailsInPassing \/ Relogin \/ Interrupt \/ Polled \/ Gone
  \/ \E kind \in {"logs", "events"}, follow \in BOOLEAN : Open(kind, follow)
  \/ Fetch \/ WaitForJob \/ Page
Spec == Init /\ [][Next]_vars

--------------------------------------------------------------------------------
\* Each call that a program made is recorded once when it ends, with the requests, attempts and
\* logins of its own and of the calls it made in turn, and of no earlier one; a failure is an expected
\* one only if this very call found that the job is not running.
OutcomesAreExact ==
  call.at = "over" =>
    /\ state = Cleared
    /\ Tracked =>
         /\ Len(told) = 1
         /\ told[1].requests = call.requests /\ told[1].attempts = call.attempts
         /\ told[1].connects = call.connects /\ told[1].operation = call.op
         /\ (told[1].outcome = "success" <=> call.result = "ok")
         /\ (told[1].outcome = "expected_failure" => call.checked = "ended" \/ (call.checked = "starting" /\ job.known))
    /\ ~Tracked => told = <<>>
\* A followed log ends only with its job, and one that is read once only when it has caught up.  A
\* program that has read from it gets an error for a job that had ended before the call only if
\* something failed, or the job could not be looked up; a job that ends during the call, after it was
\* looked up, raises too.
StreamsEndRight ==
  /\ stream.at = "over" =>
       /\ stream.read
       /\ IF stream.follow THEN stream.kind = "logs" /\ job.status = "ended" ELSE
            stream.got >= stream.from \/ job.status = "ended"
  /\ stream.at = "raised" /\ stream.kind = "logs" /\ stream.read /\ call.late /\ call.result = "gone"
       /\ call.op = "tail_logs" => call.checked = "unreadable"
================================================================================
