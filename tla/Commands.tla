------------------------------- MODULE Commands -------------------------------
(***************************************************************************)
(* What a command of the command line does and says (main, _run and the    *)
(* _cmd_ functions of cli/commands.py): it connects, asks the service for  *)
(* something and may wait for it, or downloads, or lists the schema's      *)
(* jobs; it prints one answer, sends its telemetry and ends with a code.   *)
(* Ctrl-C can come in any of these calls.  What is printed on stdout is    *)
(* the set of its kinds; on stderr the last thing said counts.             *)
(***************************************************************************)
EXTENDS Naturals, Sequences, FiniteSets

CONSTANT Jobs

\* The statuses that a job moves through, and its end.
Stages == 1 .. 5   \* pending, placing, initializing, running, and over
Active == 1 .. 4
Resumable == {"log", "metrics"}
Deploys == {"deploy", "deploy-wait"}
Orders == {"submit", "request", "deploy"}
Plain == {"read", "wait", "deploy-wait", "log", "execution", "checkpoint", "metrics"}
Cmds ==
  [kind : Orders, waits : BOOLEAN, keeps : {{}}] \cup [kind : Plain, waits : {FALSE}, keeps : {{}}]
  \cup [kind : {"dry"}, waits : {FALSE}, keeps : {{}}]
  \cup [kind : {"list"}, waits : {FALSE}, keeps : SUBSET Stages \ {{}}]

VARIABLES
  cmd,       \* the command and its options; of list, the statuses it keeps
  run,       \* where it is, what it has got, and what it has said
  asked,     \* what it has asked of the service: nothing, something that is live, or over
  jobs,      \* the status of the schema's jobs
  steady     \* the jobs that were in a status it keeps all the while that it lists

vars == <<cmd, run, asked, jobs, steady>>

Started ==
  [at |-> "args", known |-> FALSE, entries |-> "none", saved |-> FALSE, files |-> {}, next |-> 1,
   rows |-> [j \in Jobs |-> 0], out |-> {}, said |-> "nothing", code |-> 0, late |-> FALSE]

Init ==
  /\ cmd \in Cmds /\ run = Started
  /\ asked = IF cmd.kind \in {"wait", "deploy-wait"} THEN "live" ELSE "nothing"
  /\ jobs \in IF cmd.kind = "list" THEN [Jobs -> Stages] ELSE {[j \in Jobs |-> 1]}
  /\ steady = {j \in Jobs : jobs[j] \in cmd.keeps}

--------------------------------------------------------------------------------
(* How a command ends.                                                     *)

\* What main says of Ctrl-C; a traceback is all there is for most commands.
SaidOfInterrupt(saved) ==
  CASE cmd.kind = "checkpoint" -> "rerun"
    [] cmd.kind \in Resumable /\ saved -> "chunks saved"
    [] cmd.kind \in Resumable /\ ~saved -> "none saved"
    [] cmd.kind = "execution" -> "interrupted"
    [] OTHER -> "traceback"
SaidOfError(saved) == IF cmd.kind \in Resumable /\ saved THEN "chunks saved" ELSE "error"

Quiet == UNCHANGED <<cmd, jobs, steady>>
\* The client's telemetry is closed on the way out, whatever happened.
Leave(r, code, said) == run' = [r EXCEPT !.at = "close", !.code = code, !.said = said]
Raise(r) == Leave(r, 1, SaidOfError(r.saved))
Interrupt(r) == Leave(r, 130, SaidOfInterrupt(r.saved))

Begins ==
  CASE cmd.kind \in Orders -> "order"
    [] cmd.kind \in {"wait", "deploy-wait"} -> "await"
    [] cmd.kind \in Resumable -> "lock"
    [] cmd.kind \in {"execution", "checkpoint", "list"} -> cmd.kind
    [] OTHER -> "print"
Parse ==
  /\ run.at = "args" /\ Quiet /\ UNCHANGED asked
  /\ \/ \E code \in {1, 2} : run' = [run EXCEPT !.at = "ended", !.code = code, !.said = "error"]
     \/ run' = [run EXCEPT !.at = IF cmd.kind = "dry" THEN "print" ELSE "connect"]
\* No client, no telemetry.
Connect ==
  /\ run.at = "connect" /\ Quiet /\ UNCHANGED asked
  /\ \/ run' = [run EXCEPT !.at = Begins]
     \/ run' = [run EXCEPT !.at = "ended", !.code = 1, !.said = "error"]
     \/ run' = [run EXCEPT !.at = "ended", !.code = 130, !.said = SaidOfInterrupt(FALSE)]
Printed ==
  /\ run.at = "print" /\ Quiet /\ UNCHANGED asked
  /\ \/ run' = [run EXCEPT !.at = IF cmd.kind = "dry" THEN "ended" ELSE "close", !.out = @ \cup {"answer"}]
     \/ Interrupt([run EXCEPT !.saved = FALSE, !.late = TRUE])
\* Ctrl-C while telemetry is sent is a new exception, which knows of nothing saved.
Close ==
  /\ run.at = "close" /\ Quiet /\ UNCHANGED asked
  /\ \/ run' = [run EXCEPT !.at = "ended"]
     \/ run' = [run EXCEPT !.at = "ended", !.code = 130, !.said = SaidOfInterrupt(FALSE), !.late = TRUE]

--------------------------------------------------------------------------------
(* Commands that ask for something and may wait for it.                    *)

\* A specification that is wrong, or a refusal.
OrderRefused == run.at = "order" /\ Raise(run) /\ Quiet /\ UNCHANGED asked
OrderAnswered ==
  /\ run.at = "order" /\ asked' = "live" /\ Quiet
  /\ run' = [run EXCEPT !.at = IF cmd.waits THEN "await" ELSE "print", !.known = TRUE]
\* It was taken, or not; its answer does not come.
OrderUnanswered ==
  /\ run.at = "order" /\ asked' \in {"nothing", "live"} /\ Quiet
  /\ (Raise(run) \/ Interrupt(run))

\* create keeps the deployment's id visible.
Show(r) == IF cmd.kind = "deploy" THEN [r EXCEPT !.out = @ \cup {"summary"}] ELSE r
AwaitDone == run.at = "await" /\ run' = [run EXCEPT !.at = "print"] /\ Quiet /\ UNCHANGED asked
\* It ended otherwise, the wait took too long, or a read of it failed.
AwaitFails == run.at = "await" /\ asked' \in {"live", "over"} /\ Raise(Show(run)) /\ Quiet
AwaitInterrupted ==
  /\ run.at = "await" /\ Quiet /\ UNCHANGED asked
  /\ IF cmd.kind \in Deploys THEN Leave(Show(run), 130, "still running") ELSE Interrupt(run)

--------------------------------------------------------------------------------
(* Downloads.  What a stream's download raises is marked if output is on   *)
(* disk that a resumed one would keep.                                     *)

FirstStream == IF cmd.kind = "metrics" THEN "gpu" ELSE "stdout"
\* The directory's lock file, if there is one, is free, or a TUI's download has it.
Lock ==
  /\ run.at = "lock" /\ Quiet /\ UNCHANGED asked
  /\ (run' = [run EXCEPT !.at = FirstStream] \/ Raise(run))
With(files) == [run EXCEPT !.files = @ \cup files]

\* A stream returns with files, with notices of sub-jobs that have none, or with nothing.
FirstReturns ==
  /\ run.at \in {"gpu", "stdout"} /\ Quiet /\ UNCHANGED asked
  /\ \E entries \in {"none", "notices", "files"} :
       run' = [With(IF entries = "files" THEN {run.at} ELSE {}) EXCEPT
                 !.at = IF run.at = "gpu" THEN "training" ELSE "print", !.entries = entries]
FirstStops ==
  /\ run.at \in {"gpu", "stdout"} /\ Quiet /\ UNCHANGED asked
  /\ \E saved \in BOOLEAN :
       LET r == [With(IF saved THEN {run.at} ELSE {}) EXCEPT !.saved = saved]
       IN  Raise(r) \/ Interrupt(r)
TrainingReturns ==
  /\ run.at = "training" /\ Quiet /\ UNCHANGED asked
  /\ \E files \in SUBSET {"training"} : run' = [With(files) EXCEPT !.at = "print"]

\* Mutant: only the second stream's own output is told.
MarkedOwn(saved) == saved

\* The GPU stream has ended by then, with entries or without.
Marked(saved) == saved \/ run.entries # "none"
\* An error prints what the first stream returned; Ctrl-C does not.
TrainingStops ==
  /\ run.at = "training" /\ Quiet /\ UNCHANGED asked
  /\ \E saved \in BOOLEAN :
       LET r == [With(IF saved THEN {"training"} ELSE {}) EXCEPT !.saved = Marked(saved)]
       IN  Raise([r EXCEPT !.out = @ \cup {"answer"}]) \/ Interrupt(r)
\* Whole files, each with its name when it is complete.
FilesReturn ==
  /\ run.at \in {"execution", "checkpoint"} /\ Quiet /\ UNCHANGED asked
  /\ (run' = [run EXCEPT !.at = "print"] \/ Raise(run) \/ Interrupt(run))

--------------------------------------------------------------------------------
(* list --status of active statuses: one request for each.                 *)

\* What the route answers to a status: its pending takes in placing.
Answers(status) == IF status = 1 THEN {1, 2} ELSE {status}

\* In the order in which a job moves through them.
Routes == <<1, 3, 4>>
Moves(j) ==
  /\ run.at = "list" /\ jobs[j] < 5 /\ \E to \in jobs[j] + 1 .. 5 : jobs' = [jobs EXCEPT ![j] = to]
  /\ steady' = {k \in steady : jobs'[k] \in cmd.keeps} /\ UNCHANGED <<cmd, run, asked>>
\* A job in two answers keeps the later.
Took(stages) == [j \in Jobs |-> IF jobs[j] \in stages THEN jobs[j] ELSE run.rows[j]]
AskStatus ==
  /\ run.at = "list" /\ cmd.keeps \subseteq Active /\ Quiet /\ UNCHANGED asked
  /\ LET stages == Answers(Routes[run.next])
     IN  run' = [run EXCEPT !.at = IF run.next = Len(Routes) THEN "print" ELSE "list",
                            !.next = IF run.next = Len(Routes) THEN @ ELSE @ + 1,
                            !.rows = IF stages \cap cmd.keeps = {} THEN @ ELSE Took(stages)]
AskAll ==
  /\ run.at = "list" /\ ~(cmd.keeps \subseteq Active) /\ Quiet /\ UNCHANGED asked
  /\ run' = [run EXCEPT !.at = "print", !.rows = jobs]
ListStops == run.at = "list" /\ (Raise(run) \/ Interrupt(run)) /\ Quiet /\ UNCHANGED asked
Listed == {j \in Jobs : run.rows[j] \in cmd.keeps}

AtRest == run.at = "ended" /\ UNCHANGED vars
Next ==
  \/ Parse \/ Connect \/ Printed \/ Close \/ AtRest
  \/ OrderRefused \/ OrderAnswered \/ OrderUnanswered \/ AwaitDone \/ AwaitFails \/ AwaitInterrupted
  \/ Lock \/ FirstReturns \/ FirstStops \/ TrainingReturns \/ TrainingStops \/ FilesReturn
  \/ \E j \in Jobs : Moves(j)
  \/ AskStatus \/ AskAll \/ ListStops
Spec == Init /\ [][Next]_vars

--------------------------------------------------------------------------------
Ended == run.at = "ended"
\* A command that says that chunks were saved left files that a resumed download keeps, and one that
\* says none was has left none.  It does not hold of Ctrl-C after the download, nor if the GPU
\* stream returned nothing but notices of sub-jobs without files.
HintsAreTrue ==
  (Ended /\ ~run.late) =>
    /\ (run.said = "chunks saved" => run.files # {} \/ run.entries = "notices")
    /\ (run.said = "none saved" => run.files = {})
\* A command that created or waits for a deployment never ends without a word of one that may go
\* on and hold its GPUs, whatever ends the wait; and code 0 comes with one whole answer.
OrdersAreShown ==
  Ended =>
    /\ (cmd.kind = "deploy" /\ run.known /\ asked = "live" /\ ~run.late
          => run.out # {} \/ run.said = "still running")
    /\ (run.code = 0 <=> run.said = "nothing" /\ run.out = {"answer"})
\* list --status shows every job that was in one of the statuses all the while, although it asks for
\* each on its own and jobs move on between; and none in a status that was not asked for.
ListsMissNone ==
  (Ended /\ run.code = 0 /\ cmd.kind = "list") =>
    /\ steady \subseteq Listed
    /\ \A j \in Listed : run.rows[j] <= jobs[j]
================================================================================
