------------------------------- MODULE JobList -------------------------------
(***************************************************************************)
(* The TUI's job list (tui/job_list.py, and JobLister of tui/account.py).  *)
(* A load reads the account-wide list or the configured schema's in a      *)
(* worker thread.  The first list of its kind shows its pages as they      *)
(* come.  `a' switches lists, a search may narrow the account-wide one; a  *)
(* load they supersede stops at its next page, and a page or an answer it  *)
(* has posted already is told by its number.  When the service does not    *)
(* have the account-wide list, the lister falls back to the schema's.      *)
(***************************************************************************)
EXTENDS Integers, FiniteSets

CONSTANTS
  Pins,       \* the locations a search may narrow the account-wide list to
  MaxKeys,    \* bound: what the viewer does
  MaxFaults   \* bound: requests that fail, and changes of what the service offers

None == "none"

VARIABLES
  u,          \* the screen: what its fields hold, and its loads
  fallback,   \* JobLister._fallback: the account-wide list was not there
  route,      \* the account-wide list, at the service: "up", "absent" or "refused"
  keys, faults

vars == <<u, fallback, route, keys, faults>>

NoList == [kind |-> None, loading |-> FALSE, pin |-> None, cut |-> FALSE, old |-> FALSE]

Init ==
  /\ u = [list |-> NoList, wanted |-> FALSE, asked |-> FALSE, pin |-> None, typed |-> FALSE,
          refreshing |-> FALSE, progressive |-> FALSE, partial |-> FALSE, loadPin |-> None,
          pushdown |-> None, switching |-> FALSE, narrowing |-> FALSE, error |-> FALSE,
          full |-> FALSE, draws |-> {}, loads |-> {}]
  /\ fallback = FALSE /\ route \in {"up", "absent", "refused"} /\ keys = 0 /\ faults = 0

--------------------------------------------------------------------------------
(* What the screen does.                                                   *)

\* A load: for the account-wide list, as `a' asked or not, showing its pages, narrowed to a pin.
\* It is current until it has answered or was superseded, which also cancels its worker.
NewLoad(v) == [account |-> v.wanted, asked |-> v.wanted /\ v.asked, progressive |-> v.progressive,
               pin |-> v.loadPin, current |-> TRUE, at |-> "start", probing |-> FALSE,
               post |-> None, kind |-> None, long |-> FALSE]

PushdownFor(v) == IF v.wanted THEN v.pin ELSE None

\* _refresh_jobs: one load at a time.
Refresh(v) ==
  IF v.refreshing THEN v
  ELSE LET w == [v EXCEPT !.refreshing = TRUE, !.loadPin = PushdownFor(v), !.partial = FALSE,
                          !.progressive = v.list.kind = None \/ v.switching \/ (v.wanted /\ v.narrowing)]
       IN [w EXCEPT !.loads = @ \cup {NewLoad(w)}]

\* A mutant of Supersede: the mark stays.
SupersedeQuietly(v) == [v EXCEPT !.loads = {[l EXCEPT !.current = FALSE] : l \in @},
                                 !.refreshing = FALSE, !.partial = FALSE]

\* _supersede: its pages stay, no longer marked as loading.
Supersede(v) == [v EXCEPT !.loads = {[l EXCEPT !.current = FALSE] : l \in @}, !.refreshing = FALSE,
                          !.partial = FALSE, !.list.loading = FALSE]

\* _show_listing: another list, which a draw of every job that is under way is not of.
Show(v, kind, loading, cut) ==
  [v EXCEPT !.list = [kind |-> kind, loading |-> loading, cut |-> cut, old |-> FALSE,
                      pin |-> IF kind = "account" THEN v.loadPin ELSE None],
            !.full = @ /\ cut, !.draws = {"old" : d \in @},
            !.pushdown = IF kind = "account" THEN v.loadPin ELSE None]

\* _on_partial: the first pages of the list a load reads.
OnPartial(v, l) ==
  IF ~l.current \/ ~v.refreshing \/ l.account # v.wanted THEN v
  ELSE [Show(v, IF l.account THEN "account" ELSE "schema", TRUE, FALSE)
          EXCEPT !.partial = TRUE, !.switching = FALSE, !.narrowing = FALSE, !.asked = FALSE,
                 !.error = FALSE]

\* _stay_on_schema: the account-wide list `a' asked for is not to be had; with no list at all yet
\* the configured schema's is read.
StayOnSchema(v, l) ==
  LET w == [v EXCEPT !.wanted = FALSE]
  IN IF l.post = "error"
     THEN IF w.list.kind = None THEN Refresh(w) ELSE w
     ELSE Show([w EXCEPT !.error = FALSE], "schema", FALSE, l.long)

Answered(v) == [v EXCEPT !.refreshing = FALSE, !.partial = FALSE]

\* _on_jobs: a load's answer.
OnJobs(v, l) ==
  LET w == Answered(v)
      settled == [w EXCEPT !.switching = FALSE, !.narrowing = FALSE, !.asked = @ /\ ~l.account]
      ofA == l.account /\ (w.asked \/ v.partial)
  IN CASE ~l.current -> v
       [] l.current /\ v.partial /\ l.post = "error" ->
            [w EXCEPT !.list.loading = FALSE, !.error = TRUE]
       [] l.current /\ ~(v.partial /\ l.post = "error") ->
            IF l.account # w.wanted \/ (l.account /\ w.loadPin # PushdownFor(w)) THEN Refresh(w)
            ELSE IF ofA /\ l.kind # "account" THEN StayOnSchema(settled, l)
            ELSE IF l.post = "error" THEN [settled EXCEPT !.error = TRUE]
            ELSE Show([settled EXCEPT !.error = FALSE], l.kind, FALSE, l.long)

\* _renarrow: a search pins another location than the account-wide list was read under.
Renarrow(v) ==
  IF ~v.wanted \/ PushdownFor(v) = v.pushdown \/ v.list.kind # "account" THEN v
  ELSE Refresh(Supersede([v EXCEPT !.narrowing = TRUE]))

--------------------------------------------------------------------------------
(* The viewer, and the screen's timers.                                    *)

Service == <<fallback, route, faults>>
Key == keys < MaxKeys /\ keys' = keys + 1

Tick == ~u.refreshing /\ u' = Refresh(u) /\ UNCHANGED <<Service, keys>>

\* a (action_show_list).
ShowList ==
  /\ Key
  /\ LET v == [u EXCEPT !.wanted = ~@, !.asked = ~u.wanted, !.switching = TRUE]
     IN u' = Refresh(IF v.refreshing /\ v.progressive THEN Supersede(v) ELSE v)
  /\ UNCHANGED Service

\* A search is typed, and applied once typing pauses (on_input_changed, _search_now).
Type(p) == Key /\ p # u.pin /\ u' = [u EXCEPT !.pin = p, !.typed = TRUE] /\ UNCHANGED Service
SearchNow == u.typed /\ u' = Renarrow([u EXCEPT !.typed = FALSE]) /\ UNCHANGED <<Service, keys>>

\* f (action_full_list): every job of a list cut short is drawn once a note about it shows.
FullList ==
  /\ Key /\ u.list.cut
  /\ u' = IF u.full THEN Show([u EXCEPT !.full = FALSE], u.list.kind, FALSE, TRUE)
          ELSE [u EXCEPT !.full = TRUE, !.draws = @ \cup {"now"}]
  /\ UNCHANGED Service

DrawFullList(d) ==
  /\ d \in u.draws
  /\ LET v == [u EXCEPT !.draws = @ \ {d}]
     IN u' = IF d = "now" /\ v.full THEN Show(v, v.list.kind, FALSE, TRUE) ELSE v
  /\ UNCHANGED <<Service, keys>>

--------------------------------------------------------------------------------
(* A load's worker (_load_jobs, JobLister.load).                           *)

Becomes(l, m) == u' = [u EXCEPT !.loads = (@ \ {l}) \cup {m}]

\* In fallback the schema's list is read; it is time to ask again for the other one, or not yet.
LoadStarts(l) ==
  /\ l.at = "start"
  /\ \/ l.account /\ fallback /\ Becomes(l, [l EXCEPT !.at = "list", !.kind = "fallback"])
        /\ UNCHANGED fallback
     \/ /\ fallback' = (fallback /\ ~(l.account /\ l.asked))
        /\ Becomes(l, [l EXCEPT !.at = "walk", !.probing = l.account /\ fallback'])
  /\ UNCHANGED <<route, keys, faults>>

\* The first pages, shown only by a load that is current; later ones only grow that list.
LoadShowsPage(l) ==
  /\ l.at = "walk" /\ l.current /\ l.progressive /\ ~l.probing /\ l.post = None /\ route = "up"
  /\ Becomes(l, [l EXCEPT !.post = "page", !.progressive = FALSE])
  /\ UNCHANGED <<fallback, route, keys, faults>>

\* The walk is done, whole or stopped at its cap; what the service refuses or fails is judged by
\* what was asked (_unavailable, _schema_listing).
LoadWalks(l) ==
  /\ l.at = "walk" /\ l.current /\ l.post = None
  /\ \/ /\ route = "up"
        /\ fallback' = (fallback /\ ~l.account)
        /\ Becomes(l, [l EXCEPT !.at = "posted", !.post = "list",
                                !.kind = IF l.account THEN "account" ELSE "schema"])
        /\ UNCHANGED faults
     \/ /\ route = "absent" \/ (route = "refused" /\ (l.probing \/ ~l.account))
        /\ fallback' = (fallback \/ l.account)
        /\ Becomes(l, [l EXCEPT !.at = "list", !.kind = IF l.account THEN "fallback" ELSE "schema"])
        /\ UNCHANGED faults
     \/ /\ route = "refused" /\ l.account /\ ~l.probing
        /\ Becomes(l, [l EXCEPT !.at = "posted", !.post = "error"])
        /\ UNCHANGED <<fallback, faults>>
     \/ /\ faults < MaxFaults /\ faults' = faults + 1
        /\ IF l.account /\ ~l.probing
           THEN Becomes(l, [l EXCEPT !.at = "posted", !.post = "error"])
           ELSE Becomes(l, [l EXCEPT !.at = "list", !.kind = IF l.account THEN "fallback" ELSE "schema"])
        /\ UNCHANGED fallback
  /\ UNCHANGED <<route, keys>>

\* list_jobs answers the schema whole: many jobs are cut to the newest (cut_whole_listing).
LoadLists(l) ==
  /\ l.at = "list" /\ l.current
  /\ \/ /\ \E long \in BOOLEAN : Becomes(l, [l EXCEPT !.at = "posted", !.post = "list", !.long = long])
        /\ UNCHANGED faults
     \/ /\ faults < MaxFaults /\ faults' = faults + 1
        /\ Becomes(l, [l EXCEPT !.at = "posted", !.post = "error"])
  /\ UNCHANGED <<fallback, route, keys>>

\* A worker that was cancelled answers nothing.
LoadStops(l) == /\ ~l.current /\ l.post = None
                /\ u' = [u EXCEPT !.loads = @ \ {l}]
                /\ UNCHANGED <<Service, keys>>

\* The screen handles what a worker has posted; the worker goes on after a page.
Posted(l) ==
  /\ l.post # None
  /\ IF l.post = "page"
     THEN u' = [OnPartial(u, l) EXCEPT !.loads = (@ \ {l}) \cup {[l EXCEPT !.post = None]}]
     ELSE u' = OnJobs([u EXCEPT !.loads = @ \ {l}], l)
  /\ UNCHANGED <<Service, keys>>

RouteMoves ==
  /\ faults < MaxFaults /\ faults' = faults + 1
  /\ route' \in {"up", "absent", "refused"} \ {route}
  /\ UNCHANGED <<u, fallback, keys>>

Loading == \E l \in u.loads : LoadStarts(l) \/ LoadWalks(l) \/ LoadLists(l) \/ LoadStops(l) \/ Posted(l)

Next == \/ Tick \/ ShowList \/ SearchNow \/ FullList \/ RouteMoves
        \/ \E p \in Pins \cup {None} : Type(p)
        \/ \E d \in {"now", "old"} : DrawFullList(d)
        \/ \E l \in u.loads : \/ LoadStarts(l) \/ LoadShowsPage(l) \/ LoadWalks(l) \/ LoadLists(l)
                              \/ LoadStops(l) \/ Posted(l)

Spec == Init /\ [][Next]_vars
\* The refresh timer ticks, typing pauses, requests end, and the screen handles its messages.
FairSpec == Spec /\ WF_vars(Tick) /\ WF_vars(SearchNow) /\ WF_vars(Loading)

--------------------------------------------------------------------------------
\* What the list on screen says of itself is so: while it is marked as loading, a load
\* that will replace it is under way or has failed; it was read under the location the next search compares
\* with, only one load is current, and no list comes back over a later one.
ListIsHonest ==
  /\ u.list.loading => u.refreshing \/ u.error
  /\ u.list.kind = "account" => u.list.pin = u.pushdown
  /\ Cardinality({l \in u.loads : l.current}) = (IF u.refreshing THEN 1 ELSE 0)
  /\ ~u.list.old

\* Once the viewer is done, the list on screen comes to be the one that was asked for, read under
\* the location that the search pins, and no header waits for another one: whichever loads were
\* superseded, fell back or failed.  Only a list the service refuses leaves an error.
ListMatches ==
  /\ ~u.switching /\ ~u.narrowing
  /\ \/ ~u.error /\ IF u.wanted THEN u.list.kind \in {"account", "fallback"} ELSE u.list.kind = "schema"
     \/ u.error /\ u.wanted /\ route = "refused"
  /\ u.list.kind = "account" /\ u.wanted /\ ~u.error => u.list.pin = u.pin

Matches(v) == v.list.kind \in IF v.wanted THEN {"account", "fallback"} ELSE {"schema"}
StaysOnSchema == u.wanted /\ ~u'.wanted /\ keys' = keys

\* A switch of lists ends with the list `a' asked for on screen, or with an error, never with the
\* answer to a load that began before `a' was pressed.
SwitchEndsOnItsList ==
  [][u.switching /\ ~u'.switching => Matches(u') \/ u'.error \/ StaysOnSchema]_vars

\* _stay_on_schema: an account-wide list that is not to be had is handled "by retaining the
\* configured schema".
SchemaIsRetained == [][StaysOnSchema => u'.list.kind # "account"]_vars
================================================================================
