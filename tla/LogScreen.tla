------------------------------ MODULE LogScreen ------------------------------
(***************************************************************************)
(* The Logs tab of one job (tui/logs.py).  The UI thread starts a tail for *)
(* the sub-job on screen, in a worker thread; other workers read the job,  *)
(* download the saved consoles of a job that ended, and prepare one for    *)
(* the pane.  Workers cannot be stopped in a request, so what they bring   *)
(* may be late: tails and paints carry a generation, reads of the job the  *)
(* order they were sent in.  A tail that cannot run yet leaves a wait,     *)
(* which the status checks resolve.  What a tail reads is in LogTail.      *)
(***************************************************************************)
EXTENDS Integers, FiniteSets, SequencesExt

CONSTANTS
  Sources,    \* the job's sub-jobs
  MaxReads,   \* bound: reads of the job in flight
  MaxLate,    \* bound: late pages and paints of older tails that are followed
  MaxKeys,    \* bound: what the viewer does
  MaxFaults   \* bound: reads, tails and downloads that fail by themselves

None == "none"

VARIABLES
  job,        \* the job's status, at the service
  routed,     \* the service routes the sub-jobs' logs
  fresh,      \* the job has just ended: its consoles may still grow
  kept,       \* the job's cache holds its whole console (_kept_console)
  ui,         \* the screen, as the UI thread has it
  reads,      \* get_job calls in flight, in the order they were sent
  late,       \* what older tails and paints may still bring
  keys, faults

vars == <<job, routed, fresh, kept, ui, reads, late, keys, faults>>

Screen == [open |-> TRUE, status |-> None, source |-> None, tail |-> None, waiting |-> None,
           words |-> None, error |-> FALSE, idle |-> FALSE, watched |-> TRUE,
           ready |-> FALSE, have |-> {}, preview |-> {}, recent |-> FALSE, again |-> FALSE,
           inflight |-> FALSE, failed |-> FALSE, stage |-> FALSE,
           dl |-> None, first |-> None,                    \* the download's step, and its first sub-job
           paint |-> None,                                 \* the paint under way
           pane |-> [source |-> None, shows |-> "blank"]]

Live(u) == u.status # "ended"
NotRunning == {"pending", "starting"}
SavedShown(u, s) == u.ready \/ s \in u.have
ConsoleShown(u, s) == SavedShown(u, s) \/ s \in u.preview
CanClaim(u) == u.open /\ ~u.ready /\ ~u.inflight /\ ~u.failed

\* A get_job: what it is for, why the tail failed that asks, the answer, whether a later one was
\* taken, and whether the tail that asks is still the newest.
Read(for, why) == [for |-> for, why |-> why, answer |-> None, stale |-> FALSE, mine |-> TRUE]

Init ==
  /\ job = "pending" /\ routed = FALSE /\ fresh = FALSE /\ kept = FALSE
  /\ ui \in {[Screen EXCEPT !.status = st, !.source = s, !.pane.source = s] :
               st \in {"pending", "unknown"}, s \in Sources}
  /\ reads = <<Read("sources", None)>> /\ late = {} /\ keys = 0 /\ faults = 0

--------------------------------------------------------------------------------
(* What the handlers do to the screen.                                     *)

\* A tail thread that runs still, or a paint under way, becomes a late one.
Leave(u) ==
  LET left == late \cup (IF u.tail = None THEN {} ELSE {<<"page", u.source>>})
                   \cup (IF u.paint = None THEN {} ELSE {<<"paint", u.paint>>})
  IN late' = IF Cardinality(left) <= MaxLate THEN left ELSE late

PaintOf(u) == [Screen EXCEPT !.paint = u.paint]

\* _claim_stdout: one download of the consoles, into a directory of this view.
Claim(u) == [u EXCEPT !.inflight = TRUE, !.stage = TRUE, !.dl = "claimed", !.first = u.source]

PaintSaved(u) == [u EXCEPT !.waiting = None, !.paint = u.source]

Wait(u) == IF u.status = "running" THEN None ELSE u.status

\* _start_tail: the saved console, the wait before the sub-job starts, or its tail.
StartTail(u, s) ==
  LET v == [u EXCEPT !.source = s, !.tail = None, !.waiting = None, !.words = None, !.error = FALSE,
                     !.paint = None, !.pane = [source |-> s, shows |-> "blank"],
                     !.ready = @ \/ (~Live(u) /\ kept)]
      w == IF ~Live(v) /\ CanClaim(v) THEN Claim(v) ELSE v
  IN IF ConsoleShown(v, s) THEN PaintSaved(w)
     ELSE IF ~Live(v) THEN [w EXCEPT !.tail = "replay"]
     ELSE [v EXCEPT !.waiting = Wait(v), !.tail = IF Wait(v) = "pending" THEN "replay" ELSE "live"]

\* A user's action resumes a tail paused for lack of input; so does a job that ended.
ByUser(u) == [u EXCEPT !.idle = FALSE]

\* A mutant of Takes: the order of the answers is the order they come in.
TakesAny(u, r) == TRUE

\* _take_job: an answer to a read sent before the one shown is dropped, and one that has the job
\* live after the view saw it end.
Takes(u, r) == ~r.stale /\ (r.answer # "ended" => Live(u))
Taken(u, r) == [u EXCEPT !.status = r.answer]

\* _resume_waiting_tail: whether a fresh status starts the tail a wait (or an error) was for.
Words(u) == u.status

Resumes(u) ==
  \/ u.error /\ u.tail = None /\ (u.status \in NotRunning \/ u.watched)
  \/ /\ ~u.error
     /\ \/ u.waiting = "unknown" /\ u.tail = None /\ (u.status # "unknown" \/ u.watched)
        \/ u.waiting = "starting" /\ u.tail = None
        \/ /\ u.waiting \in {"pending", "stopped"} /\ u.status # "pending"
           /\ u.waiting = "stopped" => u.status = "running"
           /\ u.words = Words(u) => u.status = "running" /\ u.watched
\* ... or only ends the wait of a tail that polls by now.
EndsWait(u) == u.tail = "live" /\ \/ u.waiting = "unknown" /\ u.status # "unknown"
                                  \/ u.waiting = "starting" /\ u.status # "starting"

StartsWaiting(u) == Live(u) /\ ~SavedShown(u, u.source) /\ Resumes(u)

--------------------------------------------------------------------------------
(* The service, and the reads of the job.                                  *)

Unchanged == UNCHANGED <<job, routed, fresh, kept>>

JobMoves ==
  /\ \/ job = "pending" /\ job' \in {"starting", "ended"}
     \/ job = "starting" /\ job' \in {"running", "ended"}
     \/ job = "running" /\ job' = "ended"
  /\ fresh' = (job' = "ended")
  /\ UNCHANGED <<routed, kept, ui, reads, late, keys, faults>>

\* The service routes a sub-job's log a while after it runs; a console is whole a while after the end.
Settle == /\ \/ job = "running" /\ ~routed /\ routed' = TRUE /\ UNCHANGED fresh
             \/ fresh /\ fresh' = FALSE /\ UNCHANGED routed
          /\ UNCHANGED <<job, kept, ui, reads, late, keys, faults>>

\* _refresh_status: a check of a live job.  A read in flight does not hold it back.
StatusTick ==
  /\ ui.open /\ Live(ui) /\ Len(reads) < MaxReads
  /\ ~ \E i \in DOMAIN reads : reads[i].for = "status" /\ reads[i].answer = None
  /\ reads' = Append(reads, Read("status", None))
  /\ Unchanged /\ UNCHANGED <<ui, late, keys, faults>>

\* r, and opening the screen: the job is read for its sub-jobs.
Refresh ==
  LET v == IF ui.ready /\ ui.recent
           THEN [ui EXCEPT !.failed = FALSE, !.ready = FALSE, !.have = {}, !.again = TRUE]
           ELSE [ui EXCEPT !.failed = FALSE]
  IN /\ ui.open /\ keys < MaxKeys /\ keys' = keys + 1 /\ Len(reads) < MaxReads
     /\ ~ \E i \in DOMAIN reads : reads[i].for = "sources"
     /\ ui' = v
     /\ reads' = Append(reads, Read("sources", None))
     /\ Unchanged /\ UNCHANGED <<late, faults>>

\* The service answers, in any order; while it cannot read the job's state it says UNKNOWN.
Answer(i) ==
  /\ reads[i].answer = None
  /\ \E a \in {job, "unknown"} :
       /\ a = "unknown" => faults < MaxFaults
       /\ faults' = IF a = "unknown" THEN faults + 1 ELSE faults
       /\ reads' = [reads EXCEPT ![i].answer = a]
  /\ Unchanged /\ UNCHANGED <<ui, late, keys>>

\* Reads without the i-th.  Once it is taken those sent before it are stale, and once a tail
\* starts the older tails' lookups are nobody's.
Without(i, taken, starts) ==
  LET rest == RemoveAt(reads, i)
  IN [k \in DOMAIN rest |-> [rest[k] EXCEPT !.stale = @ \/ (taken /\ k < i),
                                            !.mine = @ /\ ~(starts /\ rest[k].for = "tail")]]
Drop(i) == Without(i, FALSE, FALSE)

\* _fetch_status, _apply_status: an end seen here shows the saved console at once.
StatusAnswered(i) ==
  LET r == reads[i] IN
  /\ r.for = "status" /\ r.answer # None
  /\ IF Takes(ui, r)
     THEN LET v == Taken(ui, r)
              starts == (Live(ui) /\ ~Live(v)) \/ StartsWaiting(v) IN
          /\ reads' = Without(i, TRUE, starts)
          /\ IF starts THEN ui' = StartTail(v, v.source) /\ Leave(ui)
             ELSE /\ ui' = IF Live(v) /\ EndsWait(v) THEN [v EXCEPT !.waiting = None] ELSE v
                  /\ UNCHANGED late
     ELSE reads' = Drop(i) /\ UNCHANGED <<ui, late>>
  /\ Unchanged /\ UNCHANGED <<keys, faults>>

\* _read_sources, _populate_sources: the source on screen stays, and its tail starts anew.
SourcesAnswered(i) ==
  LET r == reads[i] IN
  /\ r.for = "sources" /\ r.answer # None
  /\ LET takes == Takes(ui, r)
         v == IF takes THEN Taken(ui, r) ELSE ui
     IN /\ reads' = Without(i, takes, TRUE)
        /\ ui' = ByUser(StartTail(v, v.source)) /\ Leave(ui)
  /\ Unchanged /\ UNCHANGED <<keys, faults>>

--------------------------------------------------------------------------------
(* The tail's thread.                                                      *)

Serves == job = "running" /\ routed

Shows(u, what) == IF ConsoleShown(u, u.source) THEN u ELSE [u EXCEPT !.pane.shows = what]

\* A page of the tail of this generation, or its cache replay, which then ends.
Page == /\ ui.tail = "live" /\ Serves /\ ~ui.idle
        /\ ui' = LET v == Shows(ui, "lines")
                 IN IF v.waiting \in {"starting", "unknown"} THEN [v EXCEPT !.waiting = None] ELSE v
        /\ Unchanged /\ UNCHANGED <<reads, late, keys, faults>>

Replay == /\ ui.tail = "replay" /\ ui' = [Shows(ui, "lines") EXCEPT !.tail = None]
          /\ Unchanged /\ UNCHANGED <<reads, late, keys, faults>>

\* A read fails: the tail ends, and one get_job decides what that means.
TailFails ==
  /\ ui.tail = "live" /\ ~ui.idle /\ Len(reads) < MaxReads
  /\ \E why \in {"placement", "gone", "unrouted", "other"} :
       /\ why = "placement" => job = "pending"
       /\ why = "gone" => job = "ended"
       /\ why = "unrouted" => job \in {"starting", "running"} /\ ~routed
       /\ why = "other" => faults < MaxFaults
       /\ faults' = IF why = "other" THEN faults + 1 ELSE faults
       /\ reads' = Append(reads, Read("tail", why))
  /\ ui' = [ui EXCEPT !.tail = None]
  /\ Unchanged /\ UNCHANGED <<late, keys>>

\* _show_tail_error: one note, in place of any wait.
TailError(u) == [u EXCEPT !.waiting = None, !.error = TRUE]

\* _tail_failed and _wait_after_error, once the job is taken.  ``same``: no tail started meanwhile.
AfterFailure(u, why, same) ==
  IF ~Live(u)
  THEN IF CanClaim(u) THEN Claim(u)
       ELSE IF ConsoleShown(u, u.source) THEN PaintSaved(u) ELSE u
  ELSE IF ~same THEN u
  ELSE IF why = "unrouted" THEN [u EXCEPT !.waiting = "stopped", !.words = Words(u)]
  ELSE IF u.status \in NotRunning
       THEN [u EXCEPT !.waiting = IF u.status = "pending" THEN "pending" ELSE "stopped"]
  ELSE IF why = "placement" THEN [u EXCEPT !.waiting = "pending", !.words = Words(u)]
  ELSE TailError(u)

\* A tail's worker that was replaced may see so before it reports, or just after.
LookupAnswered(i) ==
  LET r == reads[i] IN
  /\ r.for = "tail" /\ r.answer # None
  /\ \/ LET takes == Takes(ui, r)
            v == IF takes THEN Taken(ui, r) ELSE ui IN
        /\ reads' = Without(i, takes, FALSE)
        /\ ui' = AfterFailure(v, r.why, r.mine)
        /\ IF ui'.paint # ui.paint THEN Leave(PaintOf(ui)) ELSE UNCHANGED late
     \/ ~r.mine /\ reads' = Drop(i) /\ UNCHANGED <<ui, late>>
  /\ Unchanged /\ UNCHANGED <<keys, faults>>

\* A read of the job fails: the next tick asks again, a tail shows its error, r its cached sub-jobs.
ReadFails(i) ==
  LET r == reads[i] IN
  /\ r.answer = None /\ faults < MaxFaults /\ faults' = faults + 1
  /\ reads' = Without(i, FALSE, r.for = "sources")
  /\ CASE r.for = "tail" /\ r.mine -> ui' = TailError(ui) /\ UNCHANGED late
       [] r.for = "sources" -> ui' = ByUser(StartTail(ui, ui.source)) /\ Leave(ui)
       [] OTHER -> UNCHANGED <<ui, late>>
  /\ Unchanged /\ UNCHANGED keys

\* Mutants of LatePage and LatePaint: the generation is not looked at.
LatePageShown(u, s) == Shows([u EXCEPT !.pane.source = s], "lines")

\* What an older tail or paint brings is dropped, for its generation is gone.
LatePage(u, s) == u
LatePaint(u, s) == u
Lates(l) == /\ late' = late \ {l}
            /\ ui' = IF l[1] = "page" THEN LatePage(ui, l[2]) ELSE LatePaint(ui, l[2])
            /\ Unchanged /\ UNCHANGED <<reads, keys, faults>>

--------------------------------------------------------------------------------
(* The saved consoles.                                                     *)

\* _run_download: the sub-job on screen first, once Logs is shown.
DownloadStarts ==
  /\ ui.dl = "claimed" /\ ui.open
  /\ ui' = [ui EXCEPT !.dl = "first", !.first = ui.source]
  /\ Unchanged /\ UNCHANGED <<reads, late, keys, faults>>

\* The newest chunks, shown until the whole console is in.
Preview ==
  /\ ui.dl = "first" /\ ui.open /\ ~SavedShown(ui, ui.first) /\ ui.first \notin ui.preview
  /\ LET v == [ui EXCEPT !.preview = @ \cup {ui.first}]
     IN IF ui.first = ui.source THEN ui' = PaintSaved(v) /\ Leave(PaintOf(ui))
        ELSE ui' = v /\ UNCHANGED late
  /\ Unchanged /\ UNCHANGED <<reads, keys, faults>>

FirstConsoleIn ==
  /\ ui.dl = "first" /\ ui.open
  /\ LET v == [ui EXCEPT !.have = @ \cup {ui.first}, !.preview = @ \ {ui.first}, !.recent = fresh,
                         !.dl = "rest"]
     IN IF ui.first = ui.source THEN ui' = PaintSaved(v) /\ Leave(PaintOf(ui))
        ELSE ui' = v /\ UNCHANGED late
  /\ Unchanged /\ UNCHANGED <<reads, keys, faults>>

Given(u) == [u EXCEPT !.inflight = FALSE, !.dl = None, !.first = None]

\* _finish_download: the claim is given back whatever happened.
Downloaded ==
  /\ ui.dl = "rest" /\ ui.open
  /\ kept' = (kept \/ ~fresh)
  /\ LET painted == ui.source \in ui.have /\ ui.recent = fresh
         v == [Given(ui) EXCEPT !.ready = TRUE, !.recent = fresh, !.again = FALSE,
                                !.have = {}, !.preview = {}]
     IN IF painted THEN ui' = v /\ UNCHANGED late
        ELSE ui' = PaintSaved(v) /\ Leave(PaintOf(ui))
  /\ UNCHANGED <<job, routed, fresh, reads, keys, faults>>

\* A mutant of DownloadFails: the claim is kept.
DownloadFailsClaimed ==
  /\ ui.dl \in {"first", "rest"} /\ ui.open /\ faults < MaxFaults /\ faults' = faults + 1
  /\ ui' = [ui EXCEPT !.dl = None]
  /\ Unchanged /\ UNCHANGED <<reads, late, keys>>

DownloadFails ==
  /\ ui.dl \in {"first", "rest"} /\ ui.open /\ faults < MaxFaults /\ faults' = faults + 1
  /\ ui' = LET v == [Given(ui) EXCEPT !.failed = TRUE]
           IN IF ui.source \in ui.have THEN v ELSE Shows(v, "note")
  /\ Unchanged /\ UNCHANGED <<reads, late, keys>>

\* The view has closed: the download stops, and its directory goes with it.
DownloadStops ==
  /\ ui.dl # None /\ ~ui.open
  /\ ui' = [Given(ui) EXCEPT !.stage = FALSE]
  /\ Unchanged /\ UNCHANGED <<reads, late, keys, faults>>

\* _prepare_saved, _apply_saved.
Painted ==
  /\ ui.paint # None
  /\ ui' = LET s == ui.paint
               shows == IF SavedShown(ui, s) THEN "console" ELSE "preview"
           IN IF ConsoleShown(ui, s) /\ s = ui.source
              THEN [ui EXCEPT !.paint = None, !.pane.shows = shows]
              ELSE [ui EXCEPT !.paint = None]
  /\ Unchanged /\ UNCHANGED <<reads, late, keys, faults>>

--------------------------------------------------------------------------------
(* The viewer.                                                             *)

Select(s) ==
  /\ ui.open /\ s # ui.source /\ keys < MaxKeys /\ keys' = keys + 1
  /\ ui' = ByUser(StartTail(ui, s)) /\ Leave(ui)
  /\ reads' = [i \in DOMAIN reads |-> [reads[i] EXCEPT !.mine = reads[i].for # "tail"]]
  /\ Unchanged /\ UNCHANGED faults

\* Nobody is there, and after a while _check_idle pauses the tail of a job that runs.
LooksAway == /\ ui.open /\ ui.watched /\ ui' = [ui EXCEPT !.watched = FALSE]
             /\ Unchanged /\ UNCHANGED <<reads, late, keys, faults>>

IdlePause == /\ ui.open /\ ui.tail = "live" /\ ~ui.idle /\ ~ui.watched /\ ui.status \notin NotRunning
             /\ ui' = [ui EXCEPT !.idle = TRUE]
             /\ Unchanged /\ UNCHANGED <<reads, late, keys, faults>>

\* Input, p among it (action_toggle_pause).
Returns == /\ ui.open /\ ~ui.watched /\ keys < MaxKeys /\ keys' = keys + 1
           /\ ui' = [ui EXCEPT !.watched = TRUE, !.idle = FALSE]
           /\ Unchanged /\ UNCHANGED <<reads, late, faults>>

\* on_unmount: a download under way owns its directory until it returns; other answers reach nobody.
Closed(stage) == [Screen EXCEPT !.open = FALSE, !.status = ui.status, !.source = ui.source,
                                !.inflight = ui.inflight, !.dl = ui.dl, !.stage = stage]

Close == /\ ui.open /\ ui' = Closed(ui.inflight) /\ reads' = << >> /\ late' = {}
         /\ Unchanged /\ UNCHANGED <<keys, faults>>

Workers ==
  \/ Page \/ Replay \/ TailFails \/ DownloadStarts \/ Preview \/ FirstConsoleIn \/ Downloaded
  \/ DownloadStops \/ Painted
  \/ \E i \in DOMAIN reads : StatusAnswered(i) \/ SourcesAnswered(i) \/ LookupAnswered(i)

Next ==
  \/ JobMoves \/ Settle \/ StatusTick \/ Refresh \/ Workers \/ DownloadFails
  \/ \E i \in DOMAIN reads : Answer(i) \/ ReadFails(i)
  \/ \E l \in late : Lates(l)
  \/ \E s \in Sources : Select(s)
  \/ LooksAway \/ IdlePause \/ Returns \/ Close

Spec == Init /\ [][Next]_vars

\* The service answers, the status timer ticks, and the threads run: one per read of the job, one
\* that tails, one that downloads, one that prepares the pane.  The job itself, the viewer and the
\* failures owe nothing.
ReadStep(i) == /\ i \in DOMAIN reads
               /\ \/ Answer(i) \/ ReadFails(i)
                  \/ StatusAnswered(i) \/ SourcesAnswered(i) \/ LookupAnswered(i)
TailThread == Page \/ TailFails \/ Replay
DownloadThread == DownloadStarts \/ FirstConsoleIn \/ Downloaded \/ DownloadStops
Fairness ==
  /\ WF_vars(StatusTick) /\ WF_vars(Settle)
  /\ \A i \in 1 .. MaxReads : WF_vars(ReadStep(i))
  /\ WF_vars(TailThread) /\ WF_vars(DownloadThread) /\ WF_vars(Painted)
FairSpec == Spec /\ Fairness

--------------------------------------------------------------------------------
TypeOK ==
  /\ job \in {"pending", "starting", "running", "ended"}
  /\ ui.status \in {"pending", "starting", "running", "ended", "unknown"}
  /\ ui.source \in Sources /\ ui.have \subseteq Sources /\ ui.preview \subseteq Sources
  /\ ui.dl \in {None, "claimed", "first", "rest"} /\ ui.inflight = (ui.dl # None)

\* The pane shows the sub-job that is selected, and what it shows of a console is there to show.
PaneIsCurrent ==
  ui.open => /\ ui.pane.source = ui.source
             /\ ui.pane.shows = "console" => ~Live(ui)

\* A download has its directory for as long as it runs, and a closed screen leaves none behind.
StageOutlivesDownload == /\ ui.inflight => ui.stage
                         /\ ~ui.open /\ ~ui.inflight => ~ui.stage

\* A job that the view saw end is never shown live again, whatever late answers come.
EndedStays == [][ui.status = "ended" => ui'.status = "ended"]_vars

\* On a screen that stays open, a job that has ended shows its saved console in the end, or says
\* that it could not be downloaded: no order of reads, tails, downloads and paints loses it.
ConsoleIfEnded == job = "ended" /\ ui.open => ui.pane.shows = "console" \/ ui.failed

\* While a routed job runs and someone watches, its tail comes to run by itself, whatever wait or
\* error it went through.
TailIfRunning == Serves /\ ui.open /\ ui.watched => ui.tail = "live" /\ ~ui.error
================================================================================
