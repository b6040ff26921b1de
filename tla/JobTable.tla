------------------------------- MODULE JobTable -------------------------------
(***************************************************************************)
(* The table of the TUI's job list (tui/job_list.py, _render_jobs): which  *)
(* rows it has for the list that is loaded, the jobs that are unfolded and *)
(* the one that is highlighted, while lists replace each other or grow by  *)
(* pages, a detail screen brings a job's fresh record, and the reader      *)
(* sorts, searches, folds and moves.  A draw keeps the rows it can: it     *)
(* sorts or patches the table from what it drew last.  Where the lists     *)
(* come from is JobList's.  Cells are what they are made of; columns,      *)
(* scrolling, retention and the deployments' view are left out.            *)
(***************************************************************************)
EXTENDS Integers, SequencesExt

CONSTANTS
  Jobs, Born, SubJobs,  \* the jobs, when each was created, and how many sub-jobs it has
  Lists,                \* bound: the lists a load may answer, a record of each job in it
  Orders, Searches,     \* bound: the sorts, and the jobs that a search matches
  MaxRemovals,          \* _PATCH_REMOVALS
  MaxLists, MaxKeys     \* bounds: what loads and detail screens bring; what the reader does

TableAssumption ==
  /\ Born \in [Jobs -> Nat \ {0}] /\ SubJobs \in [Jobs -> Nat]
  /\ \A i, j \in Jobs : Born[i] = Born[j] => i = j
  /\ \A l \in Lists : DOMAIN l \subseteq Jobs
  /\ Orders \subseteq {"newest", "oldest", "status", "ended first"} /\ Searches \subseteq SUBSET Jobs
  /\ MaxRemovals \in Nat /\ MaxLists \in Nat /\ MaxKeys \in Nat

None == "none"

VARIABLES
  v,        \* what is drawn: the jobs loaded, the folds, the sort and the search
  t,        \* the table: its rows and cursor, and what the last draw made of it
  covered,  \* a detail screen is on top
  changes, keys

vars == <<v, t, covered, changes, keys>>

Init ==
  /\ v = [jobs |-> [j \in {} |-> None], expanded |-> {}, collapsed |-> {}, all |-> None,
          order |-> "newest", search |-> Jobs, growing |-> FALSE]
  /\ t = [rows |-> <<>>, shown |-> <<>>, cursor |-> 0, display |-> FALSE, laid |-> FALSE, late |-> {}]
  /\ covered = FALSE /\ changes = 0 /\ keys = 0

-----------------------------------------------------------------------------
(* The folds.                                                              *)

\* is_live: an UNKNOWN job counts as one.  An UNKNOWN answer leaves its sub-jobs and times out.
IsLive(job) == job.status # "ended"
IsUnknown(job) == job.status = "unknown"
Entries(w, j) == IF IsUnknown(w.jobs[j]) THEN 0 ELSE SubJobs[j]
Expandable(w, j) == Entries(w, j) > 0 \/ IsUnknown(w.jobs[j])

IsExpanded(w, j) ==
  /\ j \notin w.collapsed
  /\ \/ j \in w.expanded
     \/ IF w.all = None THEN IsLive(w.jobs[j]) ELSE w.all = "unfolded"

\* _unfold: the job's own fold, over what e chose.
Unfold(w, j, unfolded) ==
  IF unfolded THEN [w EXCEPT !.collapsed = @ \ {j}, !.expanded = @ \cup {j}]
  ELSE [w EXCEPT !.expanded = @ \ {j}, !.collapsed = @ \cup {j}]

\* e (action_expand_all).
ExpandAll(w) ==
  LET with == {j \in DOMAIN w.jobs : Expandable(w, j)}
  IN [w EXCEPT !.all = IF with # {} /\ \A j \in with : IsExpanded(w, j) THEN "folded" ELSE "unfolded",
               !.expanded = @ \ DOMAIN w.jobs, !.collapsed = @ \ DOMAIN w.jobs]

\* _settle_folds: e's choice stays with the jobs that it covered.
SettleFolds(w) ==
  LET covers == {j \in DOMAIN w.jobs : w.all # None /\ j \notin w.expanded \cup w.collapsed /\ Expandable(w, j)}
  IN [w EXCEPT !.all = None,
               !.collapsed = IF w.all = "folded" THEN @ \cup covers ELSE @,
               !.expanded = IF w.all = "unfolded" THEN @ \cup covers ELSE @]

-----------------------------------------------------------------------------
(* The rows.                                                               *)

\* sort_job_list: jobs without a time come last, and jobs of one status are newest first.
Newer(w, i, j) ==
  IF w.jobs[i].created = w.jobs[j].created THEN Born[i] > Born[j] ELSE w.jobs[i].created > w.jobs[j].created
Rank(job) == CASE job.status = "live" -> 1 [] job.status = "unknown" -> 2 [] job.status = "ended" -> 3
Before(w, i, j) ==
  LET a == w.jobs[i]
      b == w.jobs[j]
  IN CASE w.order = "newest" -> Newer(w, i, j)
       [] w.order = "oldest" -> IF a.created = 0 \/ b.created = 0 THEN Newer(w, i, j) ELSE Newer(w, j, i)
       [] w.order = "status" -> Rank(a) < Rank(b) \/ (Rank(a) = Rank(b) /\ Newer(w, i, j))
       [] w.order = "ended first" -> Rank(a) > Rank(b) \/ (Rank(a) = Rank(b) /\ Newer(w, i, j))

VisibleJobs(w) == DOMAIN w.jobs \cap w.search
Group(w, live) ==
  SetToSortSeq({j \in VisibleJobs(w) : IsLive(w.jobs[j]) = live}, LAMBDA i, j : Before(w, i, j))

Row(kind, of, k, cells) == [key |-> <<kind, of, k>>, cells |-> cells]

\* A LIVE or HISTORY row counts its jobs, of those read so far.
Header(w, live, count) ==
  Row("header", IF live THEN "live" ELSE "history", 0, [count |-> count, soFar |-> w.growing])

SubRows(w, j) ==
  (IF IsUnknown(w.jobs[j]) THEN <<Row("note", j, 0, [job |-> w.jobs[j]])>> ELSE <<>>)
  \o [k \in 1 .. Entries(w, j) |-> Row("sub", j, k, [job |-> w.jobs[j]])]

JobRows(w, j) ==
  <<Row("job", j, 0, [job |-> w.jobs[j], unfolded |-> IsExpanded(w, j) /\ Expandable(w, j)])>>
  \o (IF IsExpanded(w, j) THEN SubRows(w, j) ELSE <<>>)

GroupRows(w, live) ==
  LET js == Group(w, live)
  IN IF js = <<>> THEN <<>>
     ELSE <<Header(w, live, Len(js))>> \o FlattenSeq([i \in DOMAIN js |-> JobRows(w, js[i])])

Plan(w) ==
  IF w.order = "ended first" THEN GroupRows(w, FALSE) \o GroupRows(w, TRUE)
  ELSE GroupRows(w, TRUE) \o GroupRows(w, FALSE)

-----------------------------------------------------------------------------
(* A draw (_render_jobs).                                                  *)

KeysOf(rows) == {rows[i].key : i \in DOMAIN rows}
CellsOf(rows, key) == rows[CHOOSE i \in DOMAIN rows : rows[i].key = key].cells
HasRow(rows, key) == key \in KeysOf(rows)
IndexOf(rows, key) == CHOOSE i \in DOMAIN rows : rows[i].key = key

NoRow == <<None, None, 0>>
Highlighted(x) == IF x.cursor \in DOMAIN x.rows THEN x.rows[x.cursor].key ELSE NoRow
JobOf(key) == IF key[1] \in {"job", "note", "sub"} THEN key[2] ELSE None

InOrder(rows, plan) == SortSeq(rows, LAMBDA a, b : IndexOf(plan, a.key) < IndexOf(plan, b.key))

\* patch_rows: from the rows drawn last, which the table is taken to have.
Patched(rows, plan, drawn) ==
  LET gone == KeysOf(drawn) \ KeysOf(plan)
      stay == SelectSeq(rows, LAMBDA r : r.key \notin gone)
      updated == [i \in DOMAIN stay |->
        IF HasRow(drawn, stay[i].key) /\ CellsOf(drawn, stay[i].key) # CellsOf(plan, stay[i].key)
        THEN [stay[i] EXCEPT !.cells = CellsOf(plan, stay[i].key)] ELSE stay[i]]
      all == updated \o SelectSeq(plan, LAMBDA r : ~HasRow(drawn, r.key))
  IN IF [i \in DOMAIN all |-> all[i].key] = [i \in DOMAIN plan |-> plan[i].key] THEN all ELSE InOrder(all, plan)

Redrawn(x, plan, steady) ==
  LET same == x.shown = plan /\ Len(x.rows) = Len(plan)
      reordered == Len(x.shown) = Len(plan) /\ Len(x.rows) = Len(plan)
                   /\ {x.shown[i] : i \in DOMAIN x.shown} = {plan[i] : i \in DOMAIN plan}
      grown == steady /\ x.shown # <<>> /\ Len(x.rows) = Len(x.shown)
               /\ Cardinality(KeysOf(x.shown) \ KeysOf(plan)) <= MaxRemovals
  IN CASE same -> x.rows
       [] ~same /\ reordered -> InOrder(x.rows, plan)
       [] ~same /\ ~reordered /\ grown -> Patched(x.rows, plan, x.shown)
       [] ~same /\ ~reordered /\ ~grown -> plan

\* The row a draw puts the cursor on: the one that was highlighted, a header only in a list that
\* grows; its job's, where that row is gone; else the first job's.
Target(x, plan, how, keep) ==
  LET key == Highlighted(x)
      job == IF how = "keep" THEN keep ELSE IF how = "top" THEN None ELSE JobOf(key)
  IN CASE how = "steady" /\ key[1] = "header" /\ HasRow(plan, key) -> IndexOf(plan, key)
       [] how \notin {"keep", "top"} /\ key[1] = "sub" /\ HasRow(plan, key) -> IndexOf(plan, key)
       [] OTHER -> IF HasRow(plan, <<"job", job, 0>>) THEN IndexOf(plan, <<"job", job, 0>>) ELSE 2

\* _hide_table.
Hidden(x) == [x EXCEPT !.rows = <<>>, !.shown = <<>>, !.cursor = 0, !.display = FALSE, !.laid = FALSE]

\* A table that was hidden has its cursor placed once more when it is laid out; so has, only then,
\* one that is drawn again before that.
Render(x, w, how, keep) ==
  LET plan == Plan(w)
      row == Target(x, plan, how, keep)
      placedNow == ~x.display \/ x.laid \/ (how = "steady" /\ Highlighted(x) # NoRow)
  IN IF plan = <<>> THEN Hidden(x)
     ELSE [x EXCEPT !.rows = Redrawn(x, plan, how = "steady"), !.shown = plan, !.display = TRUE,
                    !.cursor = IF placedNow THEN row ELSE 1,
                    !.late = IF ~x.display \/ ~placedNow THEN @ \cup {row} ELSE @]

Draw(w, how) == v' = w /\ t' = Render(t, w, how, None)

-----------------------------------------------------------------------------
(* What loads and detail screens bring.                                    *)

\* _merged: an UNKNOWN answer has no time; the row keeps the one it had.
Merged(w, list) ==
  [j \in DOMAIN list |->
     IF j \in DOMAIN w.jobs /\ list[j].created = 0 THEN [list[j] EXCEPT !.created = w.jobs[j].created]
     ELSE list[j]]

Change == changes < MaxLists /\ changes' = changes + 1

\* _on_partial: the first pages of a list, and more of them.
Partial(list) ==
  /\ Change
  /\ Draw([v EXCEPT !.jobs = Merged(v, list), !.growing = TRUE], IF v.growing THEN "steady" ELSE "fresh")
  /\ UNCHANGED <<covered, keys>>

\* _on_jobs: the whole list; one that did not show its pages is another list, for which the folds settle.
Answer(list) ==
  /\ Change
  /\ LET w == IF v.growing THEN v ELSE SettleFolds(v)
     IN Draw([w EXCEPT !.jobs = Merged(w, list), !.growing = FALSE], IF v.growing THEN "steady" ELSE "fresh")
  /\ UNCHANGED <<covered, keys>>

\* A later page failed (_on_jobs), or the list is superseded (_supersede): its pages stay.
Stops == /\ v.growing /\ Draw([v EXCEPT !.growing = FALSE], "steady") /\ UNCHANGED <<covered, changes, keys>>

\* job_fetched: the table has the record at the next draw.
JobFetched(j, job) ==
  /\ covered /\ j \in DOMAIN v.jobs /\ Change
  /\ v' = [v EXCEPT !.jobs[j] = IF job.created = 0 THEN [job EXCEPT !.created = v.jobs[j].created] ELSE job]
  /\ UNCHANGED <<t, covered, keys>>

Resume == covered /\ covered' = FALSE /\ Draw(v, "plain") /\ UNCHANGED <<changes, keys>>

-----------------------------------------------------------------------------
(* The reader, and the layout.                                             *)

Key == ~covered /\ keys < MaxKeys /\ keys' = keys + 1 /\ UNCHANGED <<covered, changes>>

Moves(row) == Key /\ t.laid /\ row \in DOMAIN t.rows /\ t' = [t EXCEPT !.cursor = row] /\ UNCHANGED v

\* Enter on a job, its note or its sub-job (on_data_table_row_selected).
Opens == /\ ~covered /\ keys < MaxKeys /\ keys' = keys + 1 /\ JobOf(Highlighted(t)) # None
         /\ covered' = TRUE /\ UNCHANGED <<v, t, changes>>

\* _toggle: a click on a job's marker, or an arrow on one of its rows.
Toggle(j) ==
  /\ Key /\ HasRow(t.rows, <<"job", j, 0>>) /\ Expandable(v, j)
  /\ LET w == Unfold(v, j, ~IsExpanded(v, j)) IN v' = w /\ t' = Render(t, w, "keep", j)

ExpandsAll == Key /\ Draw(ExpandAll(v), "plain")
Sorts(order) == Key /\ order # v.order /\ Draw([v EXCEPT !.order = order], "top")
Search(found) == Key /\ found # v.search /\ Draw([v EXCEPT !.search = found], "plain")

\* a: e's choice was for the list on screen; its pages are no longer marked as loading.
Switches ==
  /\ Key
  /\ LET w == SettleFolds([v EXCEPT !.growing = FALSE])
     IN IF v.growing THEN Draw(w, "steady") ELSE v' = w /\ UNCHANGED t

LaysOut == t.display /\ ~t.laid /\ t' = [t EXCEPT !.laid = TRUE] /\ UNCHANGED <<v, covered, changes, keys>>

\* _place_cursor, after the refresh: the row it was made for, whatever has been drawn meanwhile.
PlaceCursor(row) ==
  /\ row \in t.late /\ (t.laid \/ ~t.display)
  /\ t' = [t EXCEPT !.late = @ \ {row},
                    !.cursor = IF t.display THEN IF row <= Len(t.rows) THEN row ELSE Len(t.rows) ELSE @]
  /\ UNCHANGED <<v, covered, changes, keys>>

Next ==
  \/ \E list \in Lists : Partial(list) \/ Answer(list) \/ \E j \in DOMAIN list : JobFetched(j, list[j])
  \/ Stops \/ Resume \/ Opens \/ ExpandsAll \/ Switches \/ LaysOut
  \/ \E row \in DOMAIN t.rows : Moves(row)
  \/ \E j \in Jobs : Toggle(j)
  \/ \E order \in Orders : Sorts(order)
  \/ \E found \in Searches : Search(found)
  \/ \E row \in t.late : PlaceCursor(row)

Spec == Init /\ [][Next]_vars

-----------------------------------------------------------------------------
TypeOK ==
  /\ v.expanded \cup v.collapsed \subseteq Jobs /\ v.all \in {None, "folded", "unfolded"}
  /\ DOMAIN v.jobs \subseteq Jobs /\ t.cursor \in 0 .. Len(t.rows)

RowsOf(kind) == {i \in DOMAIN t.rows : t.rows[i].key[1] = kind}
BlockOf(i) == {k \in DOMAIN t.rows : k > i /\ t.rows[k].key[1] \notin {"job", "header"}
                                     /\ \A m \in i + 1 .. k : t.rows[m].key[1] \notin {"job", "header"}}

\* However a draw made them, by a sort, a patch or anew, the rows on screen are those of the list:
\* one for each job that the search finds, in the order chosen, under a heading that counts them,
\* followed by its own sub-jobs or note if it is unfolded, all of its newest record but for one that a
\* detail screen on top has read since.
TableShowsList ==
  /\ t.display <=> t.rows # <<>>
  /\ t.shown = t.rows
  /\ \A a, b \in DOMAIN t.rows : t.rows[a].key = t.rows[b].key => a = b
  /\ ~covered /\ t.display =>
       /\ {t.rows[i].key[2] : i \in RowsOf("job")} = VisibleJobs(v)
       /\ \A i \in RowsOf("job") :
            LET j == t.rows[i].key[2]
            IN /\ t.rows[i].cells.job = v.jobs[j]
               /\ {t.rows[k].key : k \in BlockOf(i)} =
                    IF ~IsExpanded(v, j) THEN {}
                    ELSE {<<"sub", j, k>> : k \in 1 .. Entries(v, j)}
                         \cup {n \in {<<"note", j, 0>>} : IsUnknown(v.jobs[j])}
               /\ \A k \in RowsOf("job") :
                    k > i /\ IsLive(v.jobs[j]) = IsLive(v.jobs[t.rows[k].key[2]]) => Before(v, j, t.rows[k].key[2])
       /\ \A h \in RowsOf("header") :
            t.rows[h].cells.count =
              Cardinality({i \in RowsOf("job") : IsLive(t.rows[i].cells.job) = (t.rows[h].key[2] = "live")})

\* A job's creation time is not forgotten while it is listed, though UNKNOWN answers have none.
TimesStay == \A j \in DOMAIN v.jobs : j \in DOMAIN v'.jobs /\ v.jobs[j].created # 0 => v'.jobs[j].created # 0

\* Lists, pages, failures, searches, e and a return from a detail screen.
KeepsPlace == \/ \E list \in Lists : Partial(list) \/ Answer(list)
              \/ Stops \/ Resume \/ ExpandsAll \/ Switches
              \/ \E found \in Searches : Search(found)

\* They leave the cursor of a table that is laid out on the job it was on while that is listed, and on its sub-job
\* while that is in view.
CursorStays ==
  KeepsPlace /\ t.laid =>
    LET key == Highlighted(t)
        j == JobOf(key)
    IN j # None /\ j \in VisibleJobs(v') =>
         /\ JobOf(Highlighted(t')) = j
         /\ key[1] = "sub" /\ HasRow(t'.rows, key) => Highlighted(t') = key

\* Nothing but the reader folds or unfolds a job while it is as live as it was: neither another
\* list nor a page, nor e's choice when it ends.
FoldsStay ==
  ~(\E j \in Jobs : Toggle(j)) /\ ~ExpandsAll =>
    \A j \in DOMAIN v.jobs \cap DOMAIN v'.jobs :
      Expandable(v, j) /\ Expandable(v', j) /\ IsLive(v.jobs[j]) = IsLive(v'.jobs[j]) =>
        IsExpanded(v', j) = IsExpanded(v, j)

ReadersPlaceIsKept == [][TimesStay /\ CursorStays /\ FoldsStay]_vars
===============================================================================
