------------------------------- MODULE JobWalk -------------------------------
(***************************************************************************)
(* How the job list is read (tui/account.py, _Walk and _Beside): the       *)
(* newest jobs a page at a time, up to a cap, and, as more may exist, the  *)
(* active jobs in a walk of their own, beside the first one's later pages  *)
(* or after it.  Jobs are created and end while they are read, a page may  *)
(* be short or empty, and the service may refuse a token it gave.  Each    *)
(* list that is shown says how much it holds.                              *)
(***************************************************************************)
EXTENDS Integers, FiniteSets, Sequences

CONSTANTS
  MaxJobs,    \* bound: jobs of the account; a later job has a larger number
  Cap,        \* ACCOUNT_LIST_CAP
  PageSize,   \* ACCOUNT_PAGE_SIZE
  MaxPages,   \* ACCOUNT_LIST_MAX_PAGES
  MaxFaults   \* bound: requests that fail, and tokens that are refused

Top == MaxJobs + 1        \* the token of the first page; 0 is no token
Walks == {"newest", "active"}
NoneRead == [jobs |-> {}, stopped |-> "unread"]

VARIABLES
  jobs,       \* how many jobs there are
  active,     \* those of them that are active
  steady,     \* the jobs that have been active since the load began
  still,      \* no job was created or ended since then, and no request failed
  walk,       \* walk[w]: a _Walk
  mode,       \* the active jobs are read "later" or, once a reader thread has started, "beside"
  activeRead, \* _Beside._active: what the active jobs' walk read, once done
  shown,      \* the newest jobs last shown
  said,       \* the last list given to the screen, and what it said of itself
  pc,         \* the load's thread: "read", "report", "wait", "ended"
  apc,        \* the active jobs' walk: "none", "read", "report", "ended"
  faults

vars == <<jobs, active, steady, still, walk, mode, activeRead, shown, said, pc, apc, faults>>
account == <<jobs, active, steady, still>>

NewWalk == [jobs |-> {}, token |-> Top, pages |-> 0, done |-> FALSE, stopped |-> "whole", again |-> FALSE]
Nothing == [jobs |-> {}, loading |-> "older", newest |-> 0, stopped |-> "whole", active |-> "unread"]

Init ==
  /\ jobs \in 0 .. MaxJobs /\ active \in SUBSET (1 .. jobs) /\ steady = active /\ still = TRUE
  /\ walk = [w \in Walks |-> NewWalk] /\ mode \in {"later", "beside"} /\ activeRead = NoneRead
  /\ shown = {} /\ said = Nothing /\ pc = "read" /\ apc = "none" /\ faults = 0

Largest(S, n) == {j \in S : Cardinality({k \in S : k >= j}) <= n}

Create == /\ jobs < MaxJobs /\ jobs' = jobs + 1 /\ active' = active \cup {jobs'} /\ still' = FALSE
          /\ UNCHANGED <<steady, walk, mode, activeRead, shown, said, pc, apc, faults>>
End(j) == /\ j \in active /\ active' = active \ {j} /\ steady' = steady \ {j} /\ still' = FALSE
          /\ UNCHANGED <<jobs, walk, mode, activeRead, shown, said, pc, apc, faults>>

\* A page: the next jobs the walk's filter keeps, newest first, maybe fewer than asked for, and a
\* token unless none are left.
Listed(w) == IF w = "active" THEN active ELSE 1 .. jobs

\* The walk after a page (_Walk.step): it stops at the cap, or at the page limit with pages left.
Stepped(w, v, rows, token) ==
  LET read == v.jobs \cup rows
      n == v.pages + 1
  IN IF Cardinality(read) >= Cap
     THEN [v EXCEPT !.jobs = Largest(read, Cap), !.pages = n, !.token = token, !.done = TRUE,
                    !.stopped = IF token # 0 \/ Cardinality(read) > Cap THEN "cap" ELSE "whole"]
     ELSE [v EXCEPT !.jobs = read, !.pages = n, !.token = token, !.done = token = 0 \/ n >= MaxPages,
                    !.stopped = IF token # 0 /\ n >= MaxPages THEN "pages" ELSE "whole"]

Reads(w) ==
  LET v == walk[w]
      left == {j \in Listed(w) : j < v.token}
  IN \/ \E n \in 0 .. PageSize :
          LET rows == Largest(left, n)
              token == IF left = rows THEN 0
                       ELSE IF rows = {} THEN v.token ELSE CHOOSE j \in rows : \A k \in rows : j <= k
          IN walk' = [walk EXCEPT ![w] = Stepped(w, v, rows, token)] /\ UNCHANGED <<still, faults>>
     \* InvalidPageToken: the walk starts again from the first page, once.
     \/ /\ v.token # Top /\ ~v.again /\ faults < MaxFaults /\ faults' = faults + 1
        /\ walk' = [walk EXCEPT ![w] = [NewWalk EXCEPT !.again = TRUE]] /\ UNCHANGED still

Fails == faults < MaxFaults /\ faults' = faults + 1 /\ still' = FALSE

--------------------------------------------------------------------------------
(* The load's own thread: the newest jobs.                                 *)

\* A failed page of the newest jobs is the load's error.
ReadNewest ==
  /\ pc = "read" /\ ~walk["newest"].done
  /\ \/ Reads("newest") /\ pc' = IF walk'["newest"].token = Top /\ walk'["newest"].pages = 0
                                 THEN "read" ELSE "report"
     \/ Fails /\ pc' = "ended" /\ UNCHANGED walk
  /\ UNCHANGED <<jobs, active, steady, mode, activeRead, shown, said, apc>>

Scope(loading) ==
  [jobs |-> shown' \cup activeRead.jobs, loading |-> loading, newest |-> Cardinality(shown'),
   stopped |-> walk["newest"].stopped, active |-> activeRead.stopped]
Whole == [jobs |-> walk["newest"].jobs, loading |-> "", newest |-> Cardinality(walk["newest"].jobs),
          stopped |-> "whole", active |-> activeRead.stopped]

Shown(v) == IF Cardinality(v.jobs) >= Cardinality(shown) THEN v.jobs ELSE shown

\* Under the lock: the list so far is shown, unless a walk that was started again has read fewer;
\* from the second page on the active jobs are read beside, if no earlier reader still runs.
Report ==
  /\ pc = "report"
  /\ LET v == walk["newest"] IN
     /\ apc' = IF apc = "none" /\ mode = "beside" /\ ~v.done THEN "read" ELSE apc
     /\ IF v.done /\ v.stopped = "whole"
        THEN shown' = v.jobs /\ said' = Whole /\ pc' = "ended"
        ELSE /\ shown' = Shown(v)
             /\ said' = IF shown' = v.jobs /\ mode = "beside" /\ ~(v.done /\ activeRead # NoneRead)
                        THEN Scope(IF v.done THEN "active" ELSE "older") ELSE said
             /\ pc' = IF v.done THEN "wait" ELSE "read"
  /\ UNCHANGED <<account, walk, mode, activeRead, faults>>

\* A walk that stopped short answers with the active jobs; without a reader beside it reads them now.
ReadAfter == /\ pc = "wait" /\ apc = "none" /\ apc' = "read"
             /\ UNCHANGED <<account, walk, mode, activeRead, shown, said, pc, faults>>

Answer ==
  /\ pc = "wait" /\ apc = "ended"
  /\ LET v == walk["newest"] IN
     said' = [jobs |-> v.jobs \cup activeRead.jobs, loading |-> "", newest |-> Cardinality(v.jobs),
              stopped |-> v.stopped, active |-> activeRead.stopped]
  /\ pc' = "ended"
  /\ UNCHANGED <<account, walk, mode, activeRead, shown, apc, faults>>

--------------------------------------------------------------------------------
(* The active jobs' walk.                                                  *)

ActiveFails == [jobs |-> {}, stopped |-> "failed"]

\* A failure is no error of the load: the newest jobs stand.
ReadActive ==
  /\ apc = "read" /\ pc # "ended"
  /\ \/ /\ Reads("active") /\ UNCHANGED activeRead
        /\ apc' = IF walk'["active"].done THEN "report" ELSE "read"
     \/ Fails /\ apc' = "report" /\ UNCHANGED <<walk, activeRead>>
  /\ UNCHANGED <<jobs, active, steady, mode, shown, said, pc>>

\* Shown with the newest jobs at once, or with their next list; _stop ends a reader that the load
\* no longer needs.
ReportActive ==
  /\ apc = "report" /\ pc # "ended" /\ apc' = "ended"
  /\ activeRead' = IF walk["active"].done
                   THEN [jobs |-> walk["active"].jobs, stopped |-> walk["active"].stopped]
                   ELSE ActiveFails
  /\ said' = IF mode = "beside" /\ pc # "wait" /\ said # Nothing
             THEN [said EXCEPT !.jobs = shown \cup activeRead'.jobs, !.active = activeRead'.stopped]
             ELSE said
  /\ UNCHANGED <<account, walk, mode, shown, pc, faults>>

Next == \/ Create \/ (\E j \in 1 .. MaxJobs : End(j))
        \/ ReadNewest \/ Report \/ ReadAfter \/ Answer \/ ReadActive \/ ReportActive

Spec == Init /\ [][Next]_vars

--------------------------------------------------------------------------------
\* ListScope.active_whole: the list says that every active job is in it.
SaysActive == (said.loading = "" /\ said.stopped = "whole") \/ said.active = "whole"

\* However jobs come and end while they are read, a list that says it holds every active job holds
\* each job that was active all along; one that says it is whole holds every job there was; and a
\* list that is cut short counts the newest jobs it holds.
HeaderTellsTruth ==
  /\ said # Nothing /\ SaysActive => steady \subseteq said.jobs
  /\ said.loading = "" /\ said.stopped = "whole" /\ still => said.jobs = 1 .. jobs
  /\ Cardinality(said.jobs) >= said.newest

\* A list that is still being read never takes back what it showed: no fewer of the newest jobs,
\* and the active jobs stay once they are in.
ListsGrow ==
  [][said'.loading # "" => said'.newest >= said.newest
                           /\ (said.active # "unread" => said'.active = said.active)]_said
================================================================================
