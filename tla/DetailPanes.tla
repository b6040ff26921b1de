------------------------------ MODULE DetailPanes ------------------------------
(* The Training metrics and Serving tabs of a job's screen (tui/detail_tabs.py, *)
(* tui/serving_view.py) with what the screen does for them (tui/logs.py): one    *)
(* load at a time, a load that is asked for while one runs, the end of a worker   *)
(* whose successor has started, and for training the local log read beside them. *)
EXTENDS Naturals, FiniteSets, FiniteSetsExt

CONSTANTS Own,        \* the job's training sub-jobs, or its deployment
          Other,      \* sub-jobs that the tab learns of by their rows
          MaxRows,    \* bound: uploads of a sub-job, and rows of the local log
          MaxKeys,    \* bound: r pressed, and the tab left
          MaxFaults   \* bound: downloads that fail

Subs == Own \cup Other
Whole == "every sub-job"

VARIABLES kind,     \* which tab: "training" or "serving"
          staged,   \* rows on the stage
          local,    \* rows in this machine's local log (training)
          cached,   \* rows downloaded
          job,      \* "live", "dropping" or "ended": as it is, and as the screen knows it
          recent,   \* the job ended too recently for its last rows to be uploaded for sure
          tab,      \* whether the tab is on screen
          pane, worker, reader,
          due,      \* the rows a load that was promised will show
          keys, faults
vars == <<kind, staged, local, cached, job, recent, tab, pane, worker, reader, due, keys, faults>>

Idle == [pc |-> "none", scope |-> Whole, target |-> [s \in Subs |-> 0], status |-> "live",
         cancelled |-> FALSE, finished |-> FALSE]
Zero == [s \in Subs |-> 0]
Init ==
  /\ kind \in {"training", "serving"}
  /\ staged = Zero /\ local = Zero /\ cached = Zero
  /\ job = [is |-> "live", known |-> "live"] /\ recent = TRUE /\ tab = FALSE
  /\ pane = [opened |-> FALSE, loading |-> FALSE, scope |-> Whole, pending |-> FALSE, read |-> FALSE, error |-> FALSE,
             status |-> "live", data |-> Zero]
  /\ worker = [i \in 1 .. 2 |-> Idle] /\ reader = [pc |-> "none", out |-> Zero]
  /\ due = Zero /\ keys = 0 /\ faults = 0

\* What the loader finds: the stage's rows, and the local log's newest where it has one.
Load == [s \in Subs |-> Max({cached[s], local[s]})]
Ids(p) == Own \cup {s \in Subs : p.data[s] > 0}
Live == job.known = "live"
MayChange == job.known # "ended" \/ recent
StatusChanged == pane.read /\ pane.status # job.known

\* A mutant's: a load that is asked for while one runs is that one.
QueuesNone(p, live) == FALSE
Queues(p, live) == kind = "serving" \/ (~live /\ p.scope # Whole)
\* Reads the tab again: a live refresh of a tab with one sub-job, once everything was downloaded, reads
\* that one alone; asked for while one runs, another follows if the one that runs may not be enough.
Reload(p, live) ==
  IF p.loading THEN [p EXCEPT !.pending = @ \/ Queues(p, live)]
  ELSE [p EXCEPT !.loading = TRUE,
                 !.scope = IF kind = "training" /\ live /\ p.read /\ Cardinality(Ids(p)) = 1
                           THEN CHOOSE s \in Ids(p) : TRUE ELSE Whole]
\* The exclusive worker of a load that this step starts: one that is still ending is cancelled.
Working(was, p, q) ==
  IF ~q.loading \/ p.loading THEN was
  ELSE LET i == CHOOSE j \in 1 .. 2 : was[j].pc = "none"
       IN [j \in 1 .. 2 |-> IF j = i THEN [Idle EXCEPT !.pc = "show", !.scope = q.scope, !.status = job.known]
                            ELSE [was[j] EXCEPT !.cancelled = TRUE]]
Room == \E j \in 1 .. 2 : worker[j].pc = "none"
Promised == kind = "serving" \/ ~(pane.loading /\ pane.scope = Whole)
World == <<kind, staged, local, cached, faults>>

\* ---- the UI thread ----
\* The tab is shown: the first time it loads; Serving again if rows, or the job's end, may have come meanwhile.
Show ==
  /\ ~tab /\ tab' = TRUE /\ Room /\ UNCHANGED <<World, job, recent, reader, due, keys>>
  /\ pane' = IF ~pane.opened THEN Reload([pane EXCEPT !.opened = TRUE], FALSE)
             ELSE IF kind = "serving" /\ (MayChange \/ StatusChanged) THEN Reload(pane, FALSE) ELSE pane
  /\ worker' = Working(worker, pane, pane')
Hide ==
  /\ tab /\ keys < MaxKeys /\ keys' = keys + 1 /\ tab' = FALSE
  /\ UNCHANGED <<World, job, recent, pane, worker, reader, due>>
Tick ==
  /\ tab /\ pane.opened /\ Room /\ (Live \/ (kind = "serving" /\ MayChange))
  /\ pane' = Reload(pane, Live) /\ pane' # pane /\ worker' = Working(worker, pane, pane')
  /\ UNCHANGED <<World, job, recent, tab, reader, due, keys>>
Press ==
  /\ tab /\ keys < MaxKeys /\ keys' = keys + 1 /\ Room
  /\ pane' = Reload(pane, FALSE) /\ worker' = Working(worker, pane, pane')
  /\ due' = IF Promised THEN staged ELSE due
  /\ UNCHANGED <<World, job, recent, tab, reader>>
\* The screen learns the job's status; a Serving tab on screen reads again once the job is no longer live.
StatusSeen ==
  /\ job.known # job.is /\ Room /\ job' = [job EXCEPT !.known = job.is]
  /\ pane' = IF kind = "serving" /\ tab /\ pane.opened THEN Reload(pane, FALSE) ELSE pane
  /\ worker' = Working(worker, pane, pane')
  /\ due' = IF kind = "serving" THEN staged ELSE due
  /\ UNCHANGED <<World, recent, tab, reader, keys>>

\* ---- the load's worker ----
Step(i, pc) == worker' = [worker EXCEPT ![i].pc = pc]
Screen == <<job, recent, tab, reader, keys>>
\* What is cached is shown while the download runs.
ShowCached(i) ==
  /\ worker[i].pc = "show" /\ pane' = [pane EXCEPT !.data = Load] /\ Step(i, "list")
  /\ UNCHANGED <<World, Screen, due>>
List(i) ==
  /\ worker[i].pc = "list"
  /\ worker' = [worker EXCEPT ![i].pc = "fetch", ![i].target = [s \in Subs |->
                  IF worker[i].scope \in {Whole, s} THEN staged[s] ELSE cached[s]]]
  /\ UNCHANGED <<World, Screen, pane, due>>
Fetch(i) ==
  /\ worker[i].pc = "fetch" /\ Step(i, "finish")
  /\ cached' = [s \in Subs |-> Max({cached[s], worker[i].target[s]})]
  /\ UNCHANGED <<kind, staged, local, faults, Screen, pane, due>>
Fail(i) ==
  /\ worker[i].pc \in {"list", "fetch"} /\ faults < MaxFaults /\ faults' = faults + 1 /\ Step(i, "fail")
  /\ UNCHANGED <<kind, staged, local, cached, Screen, pane, due>>
\* Once it has reported its end, a cancel is its successor starting: that load is not its to end.
Reported(w) == w.finished
Over(p) == [p EXCEPT !.loading = FALSE, !.scope = Whole]
\* The load is over; the one that was asked for meanwhile starts from here.
Finish(i) ==
  /\ worker[i].pc \in {"finish", "fail"}
  /\ LET failed == worker[i].pc = "fail"
         p == [Over(pane) EXCEPT !.data = IF failed THEN @ ELSE Load, !.error = failed,
                 !.read = @ \/ kind = "serving" \/ ~failed, !.status = worker[i].status]
         q == IF p.pending THEN Reload([p EXCEPT !.pending = FALSE], FALSE) ELSE p
     IN /\ pane' = q
        /\ worker' = Working([worker EXCEPT ![i].pc = "ending", ![i].finished = TRUE], p, q)
        /\ due' = IF failed /\ ~p.pending /\ worker[i].scope = Whole THEN Zero ELSE due  \* its error is shown
  /\ pane.pending => Room
  /\ UNCHANGED <<World, Screen>>
Leave(i) ==
  /\ worker[i].pc = "ending" /\ worker' = [worker EXCEPT ![i] = Idle]
  /\ pane' = IF worker[i].cancelled /\ ~Reported(worker[i]) THEN [Over(pane) EXCEPT !.pending = (kind = "training" /\ @)]
             ELSE pane
  /\ UNCHANGED <<World, Screen, due>>
WorkerStep(i) == ShowCached(i) \/ List(i) \/ Fetch(i) \/ Finish(i) \/ Leave(i)

\* ---- the local log, read every few seconds while no load runs ----
Poll ==
  /\ kind = "training" /\ tab /\ pane.opened /\ ~pane.loading /\ reader.pc = "none" /\ \E s \in Subs : local[s] > 0
  /\ reader' = [pc |-> "post", out |-> Load] /\ UNCHANGED <<World, job, recent, tab, pane, worker, due, keys>>
PollShown ==
  /\ reader.pc = "post" /\ pane' = [pane EXCEPT !.data = reader.out] /\ reader' = [reader EXCEPT !.pc = "none"]
  /\ UNCHANGED <<World, job, recent, tab, worker, due, keys>>

\* ---- the job ----
Upload(s) ==
  /\ (job.is # "ended" \/ recent) /\ (kind = "serving" => s \in Own)
  /\ staged[s] < MaxRows /\ staged' = [staged EXCEPT ![s] = @ + 1]
  /\ UNCHANGED <<kind, local, cached, faults, Screen, pane, worker, due>>
\* A call this machine polled, before its row reaches the stage.
Write(s) ==
  /\ kind = "training" /\ job.is = "live" /\ s \in Own /\ local[s] < MaxRows
  /\ local' = [local EXCEPT ![s] = @ + 1]
  /\ UNCHANGED <<kind, staged, cached, faults, Screen, pane, worker, due>>
Turn ==
  /\ \/ job.is = "live" /\ job' = [job EXCEPT !.is = "ended"]
     \/ job.is = "live" /\ kind = "serving" /\ job' = [job EXCEPT !.is = "dropping"]
     \/ job.is = "dropping" /\ job' = [job EXCEPT !.is = "ended"]
  /\ UNCHANGED <<World, recent, tab, pane, worker, reader, due, keys>>
\* The minutes after its end pass; a first load is assumed to take less.
Forget ==
  /\ kind = "serving" /\ job.known = "ended" /\ recent /\ recent' = FALSE
  /\ \A i \in 1 .. 2 : worker[i].pc \notin {"none", "ending"} => pane.read \/ worker[i].status = "ended"
  /\ UNCHANGED <<World, job, tab, pane, worker, reader, due, keys>>

Next ==
  \/ Show \/ Hide \/ Tick \/ Press \/ StatusSeen
  \/ \E i \in 1 .. 2 : WorkerStep(i) \/ Fail(i)
  \/ Poll \/ PollShown \/ \E s \in Subs : Upload(s) \/ Write(s)
  \/ Turn \/ Forget
\* The screen of a job that ended, with nothing to load, may stay as it is.
AtRest == job.known = "ended" /\ (\A i \in 1 .. 2 : worker[i].pc = "none") /\ UNCHANGED vars
Spec == Init /\ [][Next]_vars /\ \A i \in 1 .. 2 : WF_vars(WorkerStep(i)) /\ WF_vars(Poll) /\ WF_vars(PollShown)

TypeOK == /\ pane.data \in [Subs -> 0 .. MaxRows] /\ pane.scope \in Subs \cup {Whole} /\ job.is \in {"live", "dropping", "ended"}
\* The tab says that it loads exactly while a load runs.
LoadingIsTrue == pane.loading <=> \E i \in 1 .. 2 : worker[i].pc \notin {"none", "ending"}
\* One load at a time.
OneLoad == \A i, j \in 1 .. 2 : {worker[i].pc, worker[j].pc} \cap {"none", "ending"} = {} => i = j
\* A tab on screen that does not load, and shows no failure, has all that it was to read: what was on the stage when r
\* asked for it, and for Serving when the screen learned that the job stopped.  (A read of the local log that began
\* before the load may be shown after it; the next one, seconds later, brings the rows back.)
UpToDate == tab /\ pane.opened /\ ~pane.loading /\ ~pane.error => \A s \in Subs : pane.data[s] >= due[s]
PromiseIsKept == local = Zero => UpToDate
\* In the end a Training tab on screen also shows each row this machine has logged.
LocalRowsAreShown == kind = "training" /\ tab /\ pane.opened => \A s \in Subs : pane.data[s] >= local[s]
================================================================================
