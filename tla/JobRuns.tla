------------------------------- MODULE JobRuns -------------------------------
(***************************************************************************)
(* Programs that hold GPUs for as long as they run: running_job and        *)
(* running_jobs (recipes/utils.py) create jobs, wait for them, use them    *)
(* and cancel them; recipes/model_deployment does the same with a          *)
(* deployment.  The service may refuse a request, or handle it and lose    *)
(* the answer; it may not show a job at first; a job may fail; the user    *)
(* may interrupt the program at any point.  _send says what is retried.    *)
(***************************************************************************)
EXTENDS Naturals, FiniteSets, Sequences

CONSTANTS
  Ones,       \* programs that run running_job
  Sets,       \* programs that run running_jobs, with Size jobs each
  Deploys,    \* programs that deploy a model, use it and drop it
  Size,
  MaxJobs,    \* bound: jobs at the service; job 1 is another program's
  Attempts,   \* 1 + max_retries
  MaxFaults,  \* bound: requests that fail, and jobs that fail
  MaxStops    \* bound: interrupts

Programs == Ones \cup Sets \cup Deploys
Theirs == 1
None == 0

VARIABLES
  job,        \* the service's jobs: [state, by, seen], in the order they were created
  run,        \* [Programs -> a program: where it is, its request, what it knows]
  faults, stops,
  lost        \* history: the programs that had a create whose answer was lost or interrupted

vars == <<job, run, faults, stops, lost>>

Live == {"pending", "running"}
Released(j) == job[j].state \notin Live

\* ids: the jobs it waits for; own: those it created; told: those it said it could not release.
Started(a, attach, keep) ==
  [at |-> IF attach /\ a \notin Sets THEN "wait" ELSE "create", op |-> "none", on |-> None, tries |-> 0,
   ids |-> IF attach THEN <<Theirs>> ELSE << >>, own |-> << >>, calls |-> 0, next |-> 1,
   keep |-> keep, up |-> FALSE, told |-> {}, cut |-> FALSE, said |-> "nothing", looked |-> "ok"]

\* keep_job defaults to: keep what was attached to, cancel what was created.
Init ==
  /\ job = <<[state |-> "pending", by |-> "another", seen |-> TRUE]>>
  /\ \E attached, keeping \in SUBSET Programs :
       /\ attached \ Sets \subseteq keeping /\ Sets \cap keeping = {}
       /\ run = [a \in Programs |-> Started(a, a \in attached, a \in keeping)]
  /\ faults = 0 /\ stops = 0 /\ lost = {}

--------------------------------------------------------------------------------
(* Where a program goes from an answer, and from an error.                 *)

Asks(r, op, j) == [r EXCEPT !.op = op, !.on = j, !.tries = 0]
Quiet(r) == [r EXCEPT !.op = "none", !.on = None, !.tries = 0]
Wanted(a) == IF a \in Sets THEN Size ELSE 1

\* What is cancelled on the way out: a set cancels what it created, the others what they do not keep.
Left(a, r) == IF a \in Sets THEN r.own ELSE IF r.keep THEN << >> ELSE r.ids

\* Leaving the block, in reverse of the order in which the jobs were created.
Leave(a, r) ==
  IF Left(a, r) = << >> THEN [Quiet(r) EXCEPT !.at = "done"]
  ELSE [Quiet(r) EXCEPT !.at = IF a \in Deploys THEN "lookup" ELSE "cancel", !.next = Len(Left(a, r))]

\* An error before the block is entered.  running_job waits outside its try.
Fails(a, r) ==
  IF a \in Sets \/ (a \in Deploys /\ r.at = "wait")
  THEN Leave(a, r) ELSE [Quiet(r) EXCEPT !.at = "done"]

\* The next job to cancel, or the end.
NextCancel(a, r) ==
  IF a \in Deploys \/ r.next = 1 THEN [Quiet(r) EXCEPT !.at = "done"] ELSE [Quiet(r) EXCEPT !.next = r.next - 1]

\* _cancel_job and the drop of a failed run say what they could not release and go on; the drop
\* of a run that succeeded raises its error.
Raised(a, r) ==
  CASE r.at \in {"create", "wait"} -> Fails(a, r)
    [] r.at \in {"cancel", "lookup", "drop"} -> NextCancel(a, [r EXCEPT !.told = @ \cup {r.on}])

--------------------------------------------------------------------------------
(* _send.                                                                  *)

Mine(a, j) == job[j].by = a
\* The service does not know the job.  The answer is final, except for a job this client created
\* lately; a deployment's lookup makes no exception.
Final(a, r) == (r.op = "get" /\ a \in Deploys) \/ ~Mine(a, r.on)
Again(r) == [r EXCEPT !.tries = @ + 1]
\* What is retried when the request may have been handled: not a create.
Retries(r) == r.op # "create"

Failure(a, r, retried) == IF retried /\ r.tries + 1 < Attempts THEN Again(r) ELSE Raised(a, r)

Begin(a) ==
  /\ run[a].op = "none"
  /\ LET r == run[a]
     IN  \/ /\ r.at = "create" /\ run' = [run EXCEPT ![a] = [Asks(r, "create", None) EXCEPT !.calls = @ + 1]]
         \/ /\ r.at = "wait" /\ run' = [run EXCEPT ![a] = Asks(r, "get", r.ids[r.next])]
         \/ /\ r.at = "cancel"
            /\ run' = [run EXCEPT ![a] = Asks(r, "cancel", (IF a \in Sets THEN r.own ELSE r.ids)[r.next])]
         \/ /\ r.at = "lookup" /\ run' = [run EXCEPT ![a] = Asks(r, "get", r.ids[1])]
         \/ /\ r.at = "drop" /\ run' = [run EXCEPT ![a] = Asks(r, "cancel", r.ids[1])]
  /\ UNCHANGED <<job, faults, stops, lost>>

\* create_job_from_body, and running_jobs' next job; every job is created before any is waited for.
Made(a) ==
  IF Len(job) = MaxJobs THEN {} ELSE {Append(job, [state |-> "pending", by |-> a, seen |-> s]) : s \in BOOLEAN}
Created(a) ==
  /\ run[a].op = "create" /\ job' \in Made(a)
  /\ LET r == run[a]
         now == [Quiet(r) EXCEPT !.ids = Append(@, Len(job) + 1), !.own = Append(@, Len(job) + 1)]
     IN  run' = [run EXCEPT ![a] = IF Len(now.own) = Wanted(a) THEN [now EXCEPT !.at = "wait"] ELSE now]
  /\ UNCHANGED <<faults, stops, lost>>

\* wait_for_job and wait_for_model_deployment: one poll.
Polled(a) ==
  /\ run[a].op = "get" /\ run[a].at = "wait" /\ job[run[a].on].seen
  /\ LET r == run[a]
         state == job[r.on].state
     IN  run' = [run EXCEPT ![a] =
           CASE state = "running" /\ r.next < Len(r.ids) -> [Quiet(r) EXCEPT !.next = @ + 1]
             [] state = "running" /\ r.next = Len(r.ids) -> [Quiet(r) EXCEPT !.at = "block", !.up = TRUE]
             [] state \in {"failed", "cancelled"} -> Fails(a, r)
             [] OTHER -> Quiet(r)]
  /\ UNCHANGED <<job, faults, stops, lost>>

\* The poll timeout passed.
TimesOut(a) ==
  /\ run[a].at = "wait" /\ run[a].op = "none"
  /\ run' = [run EXCEPT ![a] = Fails(a, run[a])] /\ UNCHANGED <<job, faults, stops, lost>>

\* drop_model_deployment: what it does depends on the deployment's status.
LookedUp(a) ==
  /\ run[a].op = "get" /\ run[a].at = "lookup" /\ job[run[a].on].seen
  /\ LET r == run[a]
         state == job[r.on].state
     IN  run' = [run EXCEPT ![a] =
           CASE state = "failed" -> [Quiet(r) EXCEPT !.at = "done", !.said = "holds none"]
             [] state \in {"cancelling", "cancelled"} -> [Quiet(r) EXCEPT !.at = "done", !.said = "dropped"]
             [] OTHER -> [Quiet(r) EXCEPT !.at = "drop"]]
  /\ UNCHANGED <<job, faults, stops, lost>>

\* cancel_job.  A live job is cancelled, and cancelling one again is no error.
CancelTaken(j) == [job EXCEPT ![j].state = IF @ \in Live THEN "cancelling" ELSE @]
Cancelled(a) ==
  /\ run[a].op = "cancel" /\ job[run[a].on].seen /\ job[run[a].on].state # "failed"
  /\ job' = CancelTaken(run[a].on)
  /\ LET r == run[a]
     IN  run' = [run EXCEPT ![a] = NextCancel(a, IF a \in Deploys THEN [r EXCEPT !.said = "dropped"] ELSE r)]
  /\ UNCHANGED <<faults, stops, lost>>

\* The service refuses to cancel a failed job, as a conflict, which is retried.
Conflict(a) ==
  /\ run[a].op = "cancel" /\ job[run[a].on].seen /\ job[run[a].on].state = "failed"
  /\ run' = [run EXCEPT ![a] = Failure(a, @, TRUE)] /\ UNCHANGED <<job, faults, stops, lost>>

\* The service does not show the job: a drop takes that for a deployment that is gone.
Missing(a) ==
  /\ run[a].op \in {"get", "cancel"} /\ ~job[run[a].on].seen
  /\ run' = [run EXCEPT ![a] =
       IF a \in Deploys /\ @.at = "lookup"
       THEN [Quiet(@) EXCEPT !.at = "done", !.said = "dropped", !.looked = "missing"]
       ELSE Failure(a, @, ~Final(a, @))]
  /\ UNCHANGED <<job, faults, stops, lost>>

\* A program never hears of the job of a create that it gets no answer to, which is not sent again.
Losing(a) == IF run[a].op = "create" THEN lost \cup {a} ELSE lost

\* No connection: the request did not arrive.  Every request is sent again.
Refused(a) ==
  /\ run[a].op # "none" /\ faults < MaxFaults /\ faults' = faults + 1
  /\ run' = [run EXCEPT ![a] = Failure(a, @, TRUE)] /\ UNCHANGED <<job, stops, lost>>

\* The answer is lost, or says no more than that something went wrong; the request may have been
\* handled.
Unanswered(a) ==
  /\ run[a].op # "none" /\ faults < MaxFaults /\ faults' = faults + 1
  /\ job' \in {job} \cup (IF run[a].op = "create" THEN Made(a) ELSE {})
                    \cup (IF run[a].op = "cancel" /\ job[run[a].on].seen THEN {CancelTaken(run[a].on)} ELSE {})
  /\ run' = [run EXCEPT ![a] = Failure(a, @, Retries(@))] /\ lost' = Losing(a) /\ UNCHANGED stops

--------------------------------------------------------------------------------
\* The program's own work ends, well or with an error.
EndBlock(a) ==
  /\ run[a].at = "block" /\ run' = [run EXCEPT ![a] = Leave(a, @)] /\ UNCHANGED <<job, faults, stops, lost>>

\* A KeyboardInterrupt.  A create that is under way may still be handled; while the program
\* cancels, it leaves the rest as it is.
Interrupt(a) ==
  /\ run[a].at # "done" /\ stops < MaxStops /\ stops' = stops + 1
  /\ LET r == run[a]
     IN  run' = [run EXCEPT ![a] =
           CASE r.at = "block" -> Leave(a, r)
             [] r.at \in {"create", "wait"} -> Fails(a, r)
             [] OTHER -> [Quiet(r) EXCEPT !.at = "done", !.cut = TRUE]]
  /\ job' \in {job} \cup (IF run[a].op = "create" THEN Made(a) ELSE {})
  /\ lost' = Losing(a) /\ UNCHANGED faults

\* The service: a job moves on, fails, or comes to be seen.
JobMoves(j) ==
  /\ \/ job[j].state = "pending" /\ job' = [job EXCEPT ![j].state = "running"] /\ UNCHANGED faults
     \/ job[j].state = "cancelling" /\ job' = [job EXCEPT ![j].state = "cancelled"] /\ UNCHANGED faults
     \/ ~job[j].seen /\ job' = [job EXCEPT ![j].seen = TRUE] /\ UNCHANGED faults
     \/ /\ job[j].state \in Live /\ faults < MaxFaults /\ faults' = faults + 1
        /\ job' = [job EXCEPT ![j].state = "failed"]
  /\ UNCHANGED <<run, stops, lost>>

Program(a) ==
  \/ Begin(a) \/ Created(a) \/ Polled(a) \/ TimesOut(a) \/ LookedUp(a) \/ Cancelled(a) \/ Conflict(a)
  \/ Missing(a) \/ Refused(a) \/ Unanswered(a) \/ EndBlock(a) \/ Interrupt(a)

Next == (\E a \in Programs : Program(a)) \/ (\E j \in 1 .. Len(job) : JobMoves(j))

Spec == Init /\ [][Next]_vars

--------------------------------------------------------------------------------
Ends(a) == run[a].at = "done" /\ ~run[a].cut
Own(a) == {run[a].own[i] : i \in 1 .. Len(run[a].own)}

\* A program that came to its end has released every job that was made for it, or told which ones
\* it could not release; the exceptions are those it was to keep, a running_job whose wait failed,
\* a deployment that the service did not show, and a job that it never heard of: there is one only
\* where a create's answer was lost or interrupted, and never more than one.
JobsOf(a) == {j \in 1 .. Len(job) : job[j].by = a}
Unheard(a) == JobsOf(a) \ Own(a)
NothingLeftBehind ==
  \A a \in Programs :
    /\ Ends(a) =>
         \A j \in JobsOf(a) :
           \/ Released(j) \/ j \in run[a].told \/ run[a].keep
           \/ a \in Ones /\ ~run[a].up
           \/ a \in Deploys /\ run[a].looked = "missing"
           \/ j \in Unheard(a) /\ a \in lost
    /\ \A j, k \in Unheard(a) : j = k

\* Nobody's job is cancelled by a program that attached to it, and no create makes two jobs.
OnlyItsOwn ==
  /\ job[Theirs].state \notin {"cancelling", "cancelled"}
  /\ \A a \in Programs : Cardinality(JobsOf(a)) <= run[a].calls

\* running_job: "Yield the id of a running job, releasing its GPUs on the way out."
GPUsAreReleased ==
  \A a \in Ones : Ends(a) => \A j \in Own(a) : Released(j) \/ j \in run[a].told \/ run[a].keep

\* drop_model_deployment says "dropped" of a deployment only once it is cancelled or gone.
DropTellsTruth ==
  \A a \in Deploys : /\ run[a].said = "dropped" => Released(run[a].ids[1])
                     /\ run[a].said = "holds none" => job[run[a].ids[1]].state = "failed"
================================================================================
