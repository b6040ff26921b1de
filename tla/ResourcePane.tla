----------------------------- MODULE ResourcePane -----------------------------
(* The Resources tab of a job's screen (tui/resource_view.py) and the loader  *)
(* it shares with other screens of the process (tui/resource.py).  A refresh  *)
(* downloads the whole job, or the sub-job shown alone; each load builds the   *)
(* window on screen and carries the others, stale, from the load before; a     *)
(* window picked later is rebuilt from the rows at hand.  Both workers load    *)
(* under the directory's lock, and hand what they loaded to the UI thread.     *)
EXTENDS Naturals, FiniteSets

CONSTANTS Subs,       \* the job's sub-jobs that send samples
          Windows,    \* the windows beside the whole job's, which every load builds
          Left,       \* those an earlier screen of the process may have left as of an earlier load
          MaxRows,    \* bound: uploads of a sub-job
          MaxKeys,    \* bound: keys pressed
          MaxFaults,  \* bound: downloads and loads that fail
          MaxAside    \* bound: downloads by another program into the same cache

VARIABLES staged,   \* rows on the stage
          cached,   \* rows committed to the cache
          built,    \* what the loader read last (ResourceLoader.last)
          pane,     \* the tab, as the UI thread has it
          refresh,  \* the refresh worker
          rebuilds, \* the rebuild workers: the newest, and one that was cancelled too late
          lock,     \* whether a refresh holds the directory's lock
          asked,    \* rows on the stage when a whole refresh was last asked for; none once it failed
          keys, faults, aside
vars == <<staged, cached, built, pane, refresh, rebuilds, lock, asked, keys, faults, aside>>

Whole == "whole job"
Nothing == [rows |-> 0, stale |-> {}, partial |-> FALSE]
Views == [rows : 0 .. MaxRows, stale : SUBSET Windows, partial : BOOLEAN]
Resting == [pc |-> "none", scope |-> Whole, first |-> FALSE, src |-> "", seen |-> {}, out |-> [s \in Subs |-> Nothing],
            todo |-> {}, found |-> {}, target |-> [s \in Subs |-> 0]]
Unbuilt == [pc |-> "none", window |-> "", out |-> [s \in Subs |-> Nothing], last |-> FALSE]

\* A new snapshot of a sub-job: the first builds every window; new rows build the window shown
\* alone, and the same rows add it to those that are fresh.
Snapshot(was, rows, shown) ==
  CASE was.rows = 0 -> [Nothing EXCEPT !.rows = rows]
    [] rows = was.rows -> [was EXCEPT !.stale = @ \ {shown}]
    [] OTHER -> [rows |-> rows, stale |-> Windows \ {shown}, partial |-> FALSE]
Load(shown) == [s \in Subs |-> Snapshot(built[s], cached[s], shown)]
HasRows(data) == \E s \in Subs : data[s].rows > 0
Shown == pane.data[pane.pick]
Fresh(view, window) == window \notin view.stale

\* How old a copy is: a download of another sub-job alone leaves it behind.
Behind(s) == pane.age[s] # "newest"
Due(s, old) == Behind(s) /\ (pane.age[s] = "never" \/ ~pane.live \/ old)
Scope(p) == IF p.full /\ p.live /\ p.pick \in p.chunks THEN p.pick ELSE Whole

Init ==
  /\ staged \in [Subs -> 0 .. 1] /\ cached \in [Subs -> 0 .. 1] /\ \A s \in Subs : cached[s] <= staged[s]
  /\ \/ built = [s \in Subs |-> Nothing]
     \/ \E stale \in SUBSET Left :  \* an earlier screen has read the cache
          stale # Windows /\ built = [s \in Subs |-> IF cached[s] = 0 THEN Nothing
                                    ELSE [rows |-> cached[s], stale |-> stale, partial |-> FALSE]]
  /\ pane \in [data : {[s \in Subs |-> Nothing]}, window : Windows, pick : Subs, live : {TRUE}, loading : {FALSE},
               scope : {Whole}, pending : {FALSE}, ok : {FALSE}, full : {FALSE}, age : {[s \in Subs |-> "never"]},
               chunks : {{}}, error : {FALSE}, windowError : {"none"}, loaded : {FALSE}]
  /\ refresh = Resting /\ rebuilds = [i \in 1 .. 2 |-> Unbuilt] /\ lock = FALSE
  /\ asked = [s \in Subs |-> 0] /\ keys = 0 /\ faults = 0 /\ aside = 0

\* A mutant's: an r pressed while a sub-job downloads alone is that download.
StartRefreshTakesIt(p, old, force, whole) ==
  IF p.loading \/ (p.ok /\ ~force /\ ~Due(p.pick, old)) THEN p
  ELSE [p EXCEPT !.loading = TRUE, !.scope = IF whole THEN Whole ELSE Scope(p)]

\* Starts a refresh, unless one runs; a whole one asked for meanwhile follows one of a sub-job alone.
StartRefresh(p, old, force, whole) ==
  CASE p.loading -> [p EXCEPT !.pending = @ \/ (whole /\ p.scope # Whole)]
    [] p.ok /\ ~force /\ ~Due(p.pick, old) -> p
    [] OTHER -> [p EXCEPT !.loading = TRUE, !.scope = IF whole THEN Whole ELSE Scope(p)]

\* The worker of a refresh that was started by a step of the UI thread, from state p to state q.
Working(was, p, q) ==
  IF q.loading /\ ~p.loading THEN [Resting EXCEPT !.pc = "open", !.scope = q.scope] ELSE was

\* A rebuild for the window on screen: one that waits for the lock gives way to it.
StartRebuild(w) ==
  \E i \in {j \in 1 .. 2 : rebuilds[j].pc \notin {"post", "fail"}} :
     rebuilds' = [j \in 1 .. 2 |-> IF j = i THEN [Unbuilt EXCEPT !.pc = "lock", !.window = w]
                                   ELSE IF rebuilds[j].pc = "lock" THEN Unbuilt ELSE rebuilds[j]]
\* What a load has read is newer than what a rebuild read before it.
Outdate(r) == [i \in 1 .. 2 |-> [r[i] EXCEPT !.last = FALSE]]

Pressed == keys < MaxKeys /\ keys' = keys + 1
Still == UNCHANGED <<staged, cached, built, lock, faults, aside>>

PickWindow(w) ==
  /\ Pressed /\ Still /\ UNCHANGED <<refresh, asked>>
  /\ IF Shown.rows > 0 /\ ~Fresh(Shown, w)
     THEN pane' = [pane EXCEPT !.window = w, !.windowError = "none"] /\ StartRebuild(w)
     ELSE pane' = [pane EXCEPT !.window = w] /\ UNCHANGED rebuilds
SwitchSub(old) ==
  /\ Pressed /\ Still /\ UNCHANGED <<rebuilds, asked>>
  /\ \E s \in Subs \ {pane.pick} :
       LET p == [pane EXCEPT !.pick = s]
       IN pane' = IF pane.data[s].rows = 0 \/ Due(s, old) THEN StartRefresh(p, old, TRUE, FALSE) ELSE p
  /\ refresh' = Working(refresh, pane, pane')
\* r: the whole job; while the whole job downloads, it is that download.
Again ==
  /\ Pressed /\ Still /\ UNCHANGED rebuilds
  /\ pane' = StartRefresh(pane, FALSE, TRUE, TRUE) /\ refresh' = Working(refresh, pane, pane')
  /\ asked' = IF pane.loading /\ pane.scope = Whole THEN asked ELSE staged
ShowTab(old) ==
  /\ Pressed /\ Still /\ UNCHANGED <<rebuilds, asked>>
  /\ pane' = StartRefresh(pane, old, FALSE, FALSE) /\ refresh' = Working(refresh, pane, pane')
Tick ==
  /\ pane.live /\ ~pane.loading /\ Still /\ UNCHANGED <<rebuilds, asked, keys>>
  /\ pane' = StartRefresh(pane, FALSE, TRUE, FALSE) /\ refresh' = Working(refresh, pane, pane')
JobEnds ==
  /\ pane.live /\ pane' = [pane EXCEPT !.live = FALSE]
  /\ Still /\ UNCHANGED <<refresh, rebuilds, asked, keys>>
Upload(s) ==
  /\ pane.live /\ staged[s] < MaxRows /\ staged' = [staged EXCEPT ![s] = @ + 1]
  /\ UNCHANGED <<cached, built, pane, refresh, rebuilds, lock, asked, keys, faults, aside>>
\* Another program's download into the cache, while the lock is free.
Aside(s) ==
  /\ aside < MaxAside /\ ~lock /\ aside' = aside + 1 /\ cached' = [cached EXCEPT ![s] = staged[s]]
  /\ UNCHANGED <<staged, built, pane, refresh, rebuilds, lock, asked, keys, faults>>

\* ---- the refresh worker ----
Go(pc) == refresh' = [refresh EXCEPT !.pc = pc]
Accept(p, data) == [p EXCEPT !.data = data, !.loaded = TRUE, !.error = FALSE]
With(data) == {s \in Subs : data[s].rows > 0}

\* A screen reopened paints what the loader read last, before it has the lock.
PaintLast ==
  /\ refresh.pc = "open" /\ Still /\ UNCHANGED <<rebuilds, asked, keys>>
  /\ IF ~pane.loaded /\ HasRows(built)
     THEN pane' = Accept(pane, built) /\ refresh' = [refresh EXCEPT !.pc = "lock", !.seen = With(built)]
     ELSE Go("lock") /\ UNCHANGED pane
\* What a load has changed is handed over before the worker goes on.
Loaded(next) ==
  /\ built' = Load(pane.window) /\ rebuilds' = Outdate(rebuilds)
  /\ refresh' = [refresh EXCEPT !.pc = IF HasRows(built') /\ built' # pane.data THEN "paint" ELSE next,
                                !.first = next = "list", !.out = built']
TakeLock ==
  /\ refresh.pc = "lock" /\ ~lock /\ lock' = TRUE /\ Loaded("list")
  /\ UNCHANGED <<staged, cached, pane, asked, keys, faults, aside>>
Paint ==
  /\ refresh.pc = "paint" /\ pane' = Accept(pane, refresh.out)
  /\ refresh' = [refresh EXCEPT !.pc = IF refresh.first THEN "list" ELSE "fetch", !.seen = @ \cup With(refresh.out)]
  /\ Still /\ UNCHANGED <<rebuilds, asked, keys>>
Blank(s) == s \notin refresh.seen /\ pane.data[s].rows = 0
\* The download's listing; none for a sub-job alone is no failure, none for the job is one.
List ==
  /\ refresh.pc = "list" /\ Still /\ UNCHANGED <<pane, rebuilds, asked, keys>>
  /\ LET found == {s \in Subs : staged[s] > 0 /\ refresh.scope \in {Whole, s}}
     IN IF found = {} /\ refresh.scope = Whole THEN Go("failed")
        ELSE refresh' = [refresh EXCEPT !.pc = "fetch", !.src = pane.pick, !.todo = found, !.found = found,
                                        !.target = staged]
\* The shown sub-job's newest chunks, while the screen has nothing of it; the loader is untouched.
ShowPreview ==
  /\ refresh.pc = "fetch" /\ refresh.src \in refresh.todo /\ Blank(refresh.src)
  /\ pane' = Accept(pane, [built EXCEPT ![refresh.src] =
                             [rows |-> refresh.target[refresh.src], stale |-> {}, partial |-> TRUE]])
  /\ refresh' = [refresh EXCEPT !.seen = @ \cup With(pane'.data)]
  /\ Still /\ UNCHANGED <<rebuilds, asked, keys>>
\* A sub-job's file is committed, the shown one's first, and read.
Commit(s) ==
  /\ refresh.pc = "fetch" /\ s \in refresh.todo /\ (refresh.src \in refresh.todo => s = refresh.src)
  /\ cached' = [cached EXCEPT ![s] = refresh.target[s]]
  /\ built' = [t \in Subs |-> Snapshot(built[t], cached'[t], pane.window)] /\ rebuilds' = Outdate(rebuilds)
  /\ refresh' = [refresh EXCEPT !.pc = IF built' # pane.data THEN "paint" ELSE "fetch", !.first = FALSE,
                                !.out = built', !.todo = @ \ {s}]
  /\ UNCHANGED <<staged, pane, lock, asked, keys, faults, aside>>
Fetched ==
  /\ refresh.pc = "fetch" /\ refresh.todo = {}
  /\ built' = Load(pane.window) /\ rebuilds' = Outdate(rebuilds)
  /\ refresh' = [refresh EXCEPT !.pc = "done", !.out = built']
  /\ UNCHANGED <<staged, cached, pane, lock, asked, keys, faults, aside>>
Breaks ==
  /\ refresh.pc \in {"list", "fetch"} /\ faults < MaxFaults /\ faults' = faults + 1 /\ Go("failed")
  /\ UNCHANGED <<staged, cached, built, pane, rebuilds, lock, asked, keys, aside>>
Salvage ==
  /\ refresh.pc = "failed" /\ built' = Load(pane.window) /\ rebuilds' = Outdate(rebuilds)
  /\ refresh' = [refresh EXCEPT !.pc = "sorry", !.out = built']
  /\ UNCHANGED <<staged, cached, pane, lock, asked, keys, faults, aside>>

\* What a download of the scope has brought up to date, and left behind.
Aged(p, scope) ==
  [s \in Subs |-> IF scope \in {Whole, s} THEN "newest" ELSE IF p.age[s] = "newest" THEN "behind" ELSE p.age[s]]
Ended(p) == [p EXCEPT !.loading = FALSE, !.scope = Whole]
\* A refresh is over: its rows are shown, the window picked meanwhile is rebuilt, and the refresh
\* that was asked for meanwhile, or is due for the sub-job shown by now, starts.
Follow(p, old, error) ==
  IF p.pending THEN StartRefresh([p EXCEPT !.pending = FALSE], old, TRUE, TRUE)
  ELSE IF ~error /\ refresh.scope \notin {Whole, p.pick} /\ p.age[p.pick] # "newest"
          /\ (p.age[p.pick] = "never" \/ ~p.live \/ old)
       THEN StartRefresh(p, old, TRUE, FALSE) ELSE p
LeftStale(p) == p.data[p.pick].rows > 0 /\ ~Fresh(p.data[p.pick], p.window)
FinishWith(p, old, error) ==
  LET q == Follow(Ended(p), old, error)
  IN /\ lock' = FALSE /\ refresh' = Working(Resting, Ended(p), q)
     /\ IF HasRows(refresh.out) /\ LeftStale(p)
        THEN pane' = [q EXCEPT !.windowError = "none"] /\ StartRebuild(p.window)
        ELSE pane' = q /\ UNCHANGED rebuilds
Finish(old) ==
  /\ refresh.pc = "done"
  /\ LET chunks == IF refresh.scope = Whole THEN refresh.found
                   ELSE IF refresh.found = {} THEN pane.chunks \ {refresh.scope} ELSE pane.chunks
     IN FinishWith([pane EXCEPT !.data = refresh.out, !.loaded = TRUE, !.error = FALSE, !.ok = TRUE,
                      !.windowError = "none", !.full = @ \/ refresh.scope = Whole, !.chunks = chunks,
                      !.age = Aged(pane, refresh.scope)], old, FALSE)
  /\ UNCHANGED <<staged, cached, built, asked, keys, faults, aside>>
Sorry(old) ==
  /\ refresh.pc = "sorry"
  /\ FinishWith(IF HasRows(refresh.out) THEN [pane EXCEPT !.data = refresh.out, !.loaded = TRUE, !.error = TRUE, !.ok = FALSE]
                ELSE [pane EXCEPT !.error = TRUE, !.ok = FALSE, !.loaded = HasRows(pane.data)], old, TRUE)
  /\ asked' = IF refresh.scope = Whole THEN [s \in Subs |-> 0] ELSE asked  \* its error is shown
  /\ UNCHANGED <<staged, cached, built, keys, faults, aside>>

\* ---- a rebuild ----
RebuildLoad(i) ==
  /\ rebuilds[i].pc = "lock" /\ ~lock /\ built' = Load(rebuilds[i].window)
  /\ rebuilds' = [Outdate(rebuilds) EXCEPT ![i] = [@ EXCEPT !.pc = "post", !.out = built', !.last = TRUE]]
  /\ UNCHANGED <<staged, cached, pane, refresh, lock, asked, keys, faults, aside>>
\* Assumed: no other rebuild's answer is on its way then.  One that is would take the failure off the header, which
\* then says for good that the window is being refreshed.
RebuildBreaks(i) ==
  /\ rebuilds[i].pc = "lock" /\ ~lock /\ faults < MaxFaults /\ faults' = faults + 1
  /\ \A j \in 1 .. 2 : rebuilds[j].pc # "post"
  /\ rebuilds' = [rebuilds EXCEPT ![i].pc = "fail"]
  /\ UNCHANGED <<staged, cached, built, pane, refresh, lock, asked, keys, aside>>
\* Only what is the loader's newest is shown.
TakeNewest(r) == r.last
RebuildAccept(i) ==
  /\ rebuilds[i].pc = "post" /\ rebuilds' = [rebuilds EXCEPT ![i] = Unbuilt]
  /\ pane' = IF TakeNewest(rebuilds[i]) THEN [pane EXCEPT !.data = rebuilds[i].out, !.windowError = "none"] ELSE pane
  /\ Still /\ UNCHANGED <<refresh, asked, keys>>
RebuildFailed(i) ==
  /\ rebuilds[i].pc = "fail" /\ rebuilds' = [rebuilds EXCEPT ![i] = Unbuilt]
  /\ pane' = [pane EXCEPT !.windowError = rebuilds[i].window]
  /\ Still /\ UNCHANGED <<refresh, asked, keys>>

RefreshStep ==
  \/ PaintLast \/ TakeLock \/ Paint \/ List \/ ShowPreview \/ (\E s \in Subs : Commit(s)) \/ Fetched \/ Salvage
  \/ \E old \in BOOLEAN : Finish(old) \/ Sorry(old)
RebuildStep(i) == RebuildLoad(i) \/ RebuildAccept(i) \/ RebuildFailed(i)
Next ==
  \/ \E w \in Windows : PickWindow(w)
  \/ \E old \in BOOLEAN : SwitchSub(old) \/ ShowTab(old)
  \/ Again \/ Tick \/ JobEnds \/ \E s \in Subs : Upload(s) \/ Aside(s)
  \/ RefreshStep \/ Breaks
  \/ \E i \in 1 .. 2 : RebuildStep(i) \/ RebuildBreaks(i)
Spec == Init /\ [][Next]_vars /\ WF_vars(RefreshStep) /\ \A i \in 1 .. 2 : WF_vars(RebuildStep(i))

TypeOK ==
  /\ cached \in [Subs -> 0 .. MaxRows] /\ built \in [Subs -> Views] /\ pane.data \in [Subs -> Views]
  /\ refresh.todo \subseteq Subs /\ lock \in BOOLEAN

\* While the header says the window on screen is being refreshed, something refreshes it.
Refreshing == pane.loading /\ pane.scope \in {Whole, pane.pick}
HeaderIsHonest ==
  Shown.rows > 0 /\ ~Fresh(Shown, pane.window) /\ pane.windowError # pane.window =>
    Refreshing \/ \E i \in 1 .. 2 : rebuilds[i].pc # "none" /\ rebuilds[i].window = pane.window
\* A refresh of the whole job that was asked for is done by the time none runs, unless it failed.
AskedIsDone == ~pane.loading => \A s \in Subs : pane.data[s].rows >= asked[s]
\* A whole view of a sub-job never goes back: to fewer rows, to its newest alone, or to none.
NeverShrinks ==
  \A s \in Subs : pane.data[s].rows > 0 /\ ~pane.data[s].partial =>
    pane'.data[s].rows >= pane.data[s].rows /\ ~pane'.data[s].partial
\* In the end the window on screen is as of the newest rows read, or its header says why not.
WindowSettles == Shown.rows = 0 \/ Fresh(Shown, pane.window) \/ pane.windowError = pane.window
================================================================================
