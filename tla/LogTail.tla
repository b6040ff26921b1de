------------------------------- MODULE LogTail -------------------------------
(***************************************************************************)
(* The TUI's live tail of one sub-job's log, and the cache on disk that    *)
(* lets it be opened again (tui/log_cache.py, and tail_logs in             *)
(* client/core.py).  A tail replays what the cache holds, then polls the   *)
(* service from the saved cursor; each page is appended to the cache       *)
(* before its cursor is saved, and a write of the cache that fails is      *)
(* passed over.  The service may refuse an old cursor, or                  *)
(* answer one with nothing while the log goes on; the tail then jumps to   *)
(* the log's end and says so.  Several TUIs may share one cache.           *)
(* A line is its number in the log, a cursor the number of lines before    *)
(* it.  What the pane shows is a sequence of lines and of Gap marks.       *)
(***************************************************************************)
EXTENDS Integers, FiniteSets, SequencesExt

CONSTANTS
  Tails,         \* TUIs that may tail the source, one tail each
  MaxLines,      \* bound: lines the log grows to
  Window,        \* tail_lines: a read without a cursor starts this far back
  PageLines,     \* lines of a full page
  RestartLines,  \* RESTART_LINES, the windows of a restart, largest first
  StallPolls,    \* STALL_POLLS: empty polls in a row before a restart is tried
  FileLines,     \* lines the cache file holds before it is trimmed ...
  KeepLines,     \* ... to this many
  MaxOpens,      \* bound: tails opened, and tails held
  MaxTorn,       \* bound: appends cut in the middle of a line
  MaxErrors,     \* bound: writes of the cache that raise an OSError
  Breaks         \* what the service may do once: a subset of {"stick", "refuse"}

ASSUME TailAssumption ==
  /\ MaxLines \in Nat /\ Window \in Nat \ {0} /\ PageLines \in Nat \ {0}
  /\ RestartLines \in Seq(1 .. Window) /\ RestartLines # << >>
  /\ StallPolls \in Nat \ {0} /\ FileLines \in Nat /\ KeepLines \in Window .. FileLines
  /\ MaxOpens \in Nat /\ MaxTorn \in Nat /\ MaxErrors \in Nat /\ Breaks \subseteq {"stick", "refuse"}

Reasons == {"window", "jump", "trim", "failed"}
Gap == 0         \* a note in the pane that lines are missing here
Torn == -1       \* a line of the file cut short, without its newline
NoCursor == -1

VARIABLES
  log,           \* the lines the service holds
  stuck,         \* a cursor whose reads bring nothing, or NoCursor
  refused,       \* the cursors it refuses
  breaks,        \* what the service has yet to do
  file,          \* the cache's lines of the source
  saved,         \* the source's cursor in cursors.json
  headMissing,   \* ... and its head_missing field
  tail,          \* the tail of each TUI
  skipped,       \* history: lines left out of the file, each with what left it out: Reasons
  opens, torn, errors    \* counters of the bounds

service == <<log, stuck, refused, breaks>>
disk == <<file, saved, headMissing>>
vars == <<service, disk, tail, skipped, opens, torn, errors>>

NoPage == [from |-> 0, to |-> 0]
Closed == [pc |-> "closed", cur |-> NoCursor, shown |-> << >>, fresh |-> << >>,
           page |-> NoPage, counted |-> NoCursor, partial |-> FALSE, polls |-> 0,
           window |-> 1, reset |-> NoCursor, old |-> << >>]

Becomes(t, next) == tail' = [tail EXCEPT ![t] = next]
Close(t) == Becomes(t, Closed)

LinesOf(p) == [i \in 1 .. p.to - p.from |-> p.from + i]
Least(a, b) == IF a < b THEN a ELSE b
CatchingUp(p) == p.to - p.from >= PageLines

\* A read of the log's last n lines, and the reads from a cursor.
EndPage(n) == LET from == IF log > n THEN log - n ELSE 0
              IN [from |-> from, to |-> Least(log, from + PageLines)]
Pages(c) == IF c = NoCursor THEN {EndPage(Window)}
            ELSE IF c = stuck \/ c = log THEN {[from |-> c, to |-> c]}
            ELSE {[from |-> c, to |-> k] : k \in c + 1 .. Least(log, c + PageLines)}
RefusesCursor(c) == c \in refused

\* Lines before a page that starts without the ones before it.
LeftOut(t, why) == ((1 .. tail[t].page.from) \ ToSet(tail[t].shown)) \X {why}

\* The entries the pane has not shown yet, in the log's order.
InOrder(S) == CHOOSE s \in [1 .. Cardinality(S) -> S] :
                ToSet(s) = S /\ \A i, j \in DOMAIN s : i < j => s[i] < s[j]
Unseen(t, p) == InOrder((p.from + 1 .. p.to) \ ToSet(tail[t].shown))

\* A torn line is the file's last: of lines written after it the first joins it, and both are
\* lost to a load.
EndsTorn(f) == f # << >> /\ Last(f) = Torn
AppendTo(f, lines) == IF EndsTorn(f) /\ lines # << >> THEN Front(f) \o Tail(lines) ELSE f \o lines
WholeLines(f) == IF EndsTorn(f) THEN Front(f) ELSE f

\* An OSError of a write of the cache is swallowed, and the tail goes on (_safe_append, _safe_set_cursor).
Erring == errors < MaxErrors /\ errors' = errors + 1
WritesCursor(c) == \/ saved' = c /\ UNCHANGED errors
                   \/ Erring /\ UNCHANGED saved
WritesHead == \/ headMissing' = TRUE /\ UNCHANGED errors
              \/ Erring /\ UNCHANGED headMissing

\* An append of lines cut short after the first n, which may leave the next one torn.
CutShort(lines, n) ==
  LET written == AppendTo(file, SubSeq(lines, 1, n))
  IN \/ file' = written /\ UNCHANGED torn
     \/ /\ torn < MaxTorn /\ torn' = torn + 1
        /\ file' = IF EndsTorn(written) THEN written ELSE Append(written, Torn)

Init ==
  /\ log = 0 /\ stuck = NoCursor /\ refused = {} /\ breaks = Breaks
  /\ file = << >> /\ saved = NoCursor /\ headMissing = FALSE
  /\ tail = [t \in Tails |-> Closed]
  /\ skipped = {} /\ opens = 0 /\ torn = 0 /\ errors = 0

--------------------------------------------------------------------------------
(* The service.                                                            *)

Grow == /\ log < MaxLines /\ log' = log + 1
        /\ UNCHANGED <<stuck, refused, breaks, disk, tail, skipped, opens, torn, errors>>

Stick(c) == /\ "stick" \in breaks /\ breaks' = breaks \ {"stick"}
            /\ c < log /\ stuck' = c
            /\ UNCHANGED <<log, refused, disk, tail, skipped, opens, torn, errors>>

Refuse == /\ "refuse" \in breaks /\ breaks' = breaks \ {"refuse"}
          /\ refused' = 0 .. log
          /\ UNCHANGED <<log, stuck, disk, tail, skipped, opens, torn, errors>>

--------------------------------------------------------------------------------
(* A tail opens: the newest cached lines, then the cursor.                 *)

Open(t) ==
  /\ tail[t].pc = "closed" /\ opens < MaxOpens /\ opens' = opens + 1
  /\ Becomes(t, [tail[t] EXCEPT !.pc = "loaded", !.old = WholeLines(file)])
  /\ UNCHANGED <<service, disk, skipped, torn, errors>>

TakeCursor(t) ==
  LET cached == tail[t].old
      partial == cached # << >> /\ headMissing
  IN /\ tail[t].pc = "loaded"
     /\ Becomes(t, [tail[t] EXCEPT !.pc = "poll", !.cur = saved, !.partial = partial, !.old = << >>,
                                   !.shown = (IF partial THEN <<Gap>> ELSE << >>) \o cached])
     /\ UNCHANGED <<service, disk, skipped, opens, torn, errors>>

--------------------------------------------------------------------------------
(* The polls.                                                              *)

Polling(t) == tail[t].pc = "poll"
Stalled(t) == tail[t].cur # NoCursor /\ tail[t].polls >= StallPolls

\* A hold (the pane is hidden or paused) starts the stall count again.
Held(t) == /\ Polling(t) /\ tail[t].polls > 0 /\ opens < MaxOpens /\ opens' = opens + 1
           /\ Becomes(t, [tail[t] EXCEPT !.polls = 0])
           /\ UNCHANGED <<service, disk, skipped, torn, errors>>

\* The end of a stalled log: lines not shown yet mean that the cursor may be stuck.
ReadEnd(t) ==
  LET end == EndPage(RestartLines[tail[t].window])
  IN /\ Polling(t) /\ Stalled(t)
     /\ IF Unseen(t, end) = << >>
        THEN Becomes(t, [tail[t] EXCEPT !.polls = 0,
                                        !.window = Least(tail[t].window + 1, Len(RestartLines))])
        ELSE Becomes(t, [tail[t] EXCEPT !.polls = 0, !.pc = "confirm", !.page = end, !.fresh = Unseen(t, end)])
     /\ UNCHANGED <<service, disk, skipped, opens, torn, errors>>

\* The cursor is read once more.  Nothing again: go on from the end.  A page: use it.
Confirm(t) ==
  /\ tail[t].pc = "confirm" /\ ~RefusesCursor(tail[t].cur)
  /\ \E p \in Pages(tail[t].cur) :
       IF p.to = p.from
       THEN Becomes(t, [tail[t] EXCEPT !.pc = "jump", !.cur = tail[t].page.to, !.window = 1])
       ELSE Becomes(t, [tail[t] EXCEPT !.pc = "got", !.page = p, !.fresh = << >>])
  /\ UNCHANGED <<service, disk, skipped, opens, torn, errors>>

Fetch(t) ==
  /\ Polling(t) /\ ~Stalled(t) /\ ~RefusesCursor(tail[t].cur)
  /\ \E p \in Pages(tail[t].cur) :
       /\ Becomes(t, [tail[t] EXCEPT !.pc = "got", !.page = p,
                                     !.counted = IF tail[t].cur = NoCursor /\ @ = NoCursor THEN 0 ELSE @])
       /\ refused' = refused \ {p.to}
  /\ UNCHANGED <<log, stuck, breaks, disk, skipped, opens, torn, errors>>

\* A refused cursor is dropped from the cache first, then the log's end is read.
DropCursor(t) ==
  /\ Polling(t) /\ ~Stalled(t) /\ RefusesCursor(tail[t].cur) /\ tail[t].cur # tail[t].reset
  /\ WritesCursor(NoCursor) /\ Becomes(t, [tail[t] EXCEPT !.pc = "reset"])
  /\ UNCHANGED <<service, file, headMissing, skipped, opens, torn>>

ResetToEnd(t) ==
  LET end == EndPage(Window)
  IN /\ tail[t].pc = "reset"
     /\ Becomes(t, [tail[t] EXCEPT !.pc = "jump", !.page = end, !.fresh = Unseen(t, end),
                                   !.cur = end.to, !.reset = end.to, !.window = 1, !.polls = 0])
     /\ refused' = refused \ {end.to}     \* a cursor just given is taken
     /\ UNCHANGED <<log, stuck, breaks, disk, skipped, opens, torn, errors>>

\* A cursor refused in a restart, or right after a reset, is not dropped again: the tail ends.
GiveUp(t) ==
  /\ RefusesCursor(tail[t].cur)
  /\ \/ tail[t].pc = "confirm"
     \/ Polling(t) /\ ~Stalled(t) /\ tail[t].cur = tail[t].reset
  /\ Close(t)
  /\ UNCHANGED <<service, disk, skipped, opens, torn, errors>>

\* Any other failed read ends the tail too; the view opens it again.
Fails(t) == /\ tail[t].pc \in {"poll", "confirm", "reset"} /\ Close(t)
            /\ UNCHANGED <<service, disk, skipped, opens, torn, errors>>

--------------------------------------------------------------------------------
(* A page: the notice of a cut head, the entries, then the cursor.         *)

\* Entries since the first read without a cursor: at the window, older lines were left out.
Count(t) == tail[t].counted + (tail[t].page.to - tail[t].page.from)
CutHead(t) == tail[t].counted # NoCursor /\ Count(t) >= Window

NoteHead(t) ==
  /\ tail[t].pc = "got" /\ CutHead(t) /\ ~tail[t].partial
  /\ WritesHead
  /\ Becomes(t, [tail[t] EXCEPT !.partial = TRUE, !.shown = <<Gap>> \o @])
  /\ UNCHANGED <<service, file, saved, skipped, opens, torn>>

Counted(t) == IF tail[t].counted = NoCursor \/ Count(t) >= Window \/ ~CatchingUp(tail[t].page)
              THEN NoCursor ELSE Count(t)

\* A page that is ready to be appended, and what it leaves out before it.
HasPage(t) == /\ tail[t].pc = "got" /\ (CutHead(t) => tail[t].partial)
              /\ tail[t].page.to > tail[t].page.from
BeforePage(t) == IF tail[t].cur = NoCursor THEN LeftOut(t, "window") ELSE {}

AppendPage(t) ==
  /\ HasPage(t)
  /\ file' = AppendTo(file, LinesOf(tail[t].page))
  /\ skipped' = skipped \cup BeforePage(t)
  /\ Becomes(t, [tail[t] EXCEPT !.pc = "appended", !.counted = Counted(t), !.fresh = LinesOf(tail[t].page)])
  /\ UNCHANGED <<service, saved, headMissing, opens, torn, errors>>

\* An append that fails (a full disk) is passed over: the cursor is saved and the page shown all
\* the same, and the tail never appends the lines that were not written again.
Unwritten(lines, n) == ToSet(SubSeq(lines, n + 1, Len(lines))) \X {"failed"}

PageFails(t) ==
  LET lines == LinesOf(tail[t].page)
  IN /\ HasPage(t) /\ Erring
     /\ \E n \in 0 .. Len(lines) - 1 :
          CutShort(lines, n) /\ skipped' = skipped \cup BeforePage(t) \cup Unwritten(lines, n)
     /\ Becomes(t, [tail[t] EXCEPT !.pc = "save", !.counted = Counted(t), !.fresh = lines])
     /\ UNCHANGED <<service, saved, headMissing, opens>>

\* An empty page may still bring a new cursor (a first read of an empty log).
EmptyPage(t) ==
  /\ tail[t].pc = "got" /\ tail[t].page.to = tail[t].page.from
  /\ IF tail[t].cur = tail[t].page.to
     THEN /\ Becomes(t, [tail[t] EXCEPT !.pc = "poll", !.counted = Counted(t), !.page = NoPage,
                                        !.polls = Least(tail[t].polls + 1, StallPolls)])
          /\ UNCHANGED <<saved, errors>>
     ELSE /\ Becomes(t, [tail[t] EXCEPT !.pc = "poll", !.counted = Counted(t), !.page = NoPage,
                                        !.polls = 0, !.window = 1, !.cur = tail[t].page.to])
          /\ WritesCursor(tail[t].page.to)
  /\ UNCHANGED <<service, file, headMissing, skipped, opens, torn>>

\* A restart or a reset: the fresh lines, after a note that lines are missing.
AppendJump(t) ==
  /\ tail[t].pc = "jump"
  /\ file' = AppendTo(file, tail[t].fresh)
  /\ skipped' = skipped \cup LeftOut(t, "jump")
  /\ Becomes(t, [tail[t] EXCEPT !.pc = "appended", !.shown = Append(@, Gap)])
  /\ UNCHANGED <<service, saved, headMissing, opens, torn, errors>>

JumpFails(t) ==
  LET lines == tail[t].fresh
  IN /\ tail[t].pc = "jump" /\ Erring
     /\ \E n \in 0 .. Len(lines) - 1 :
          CutShort(lines, n) /\ skipped' = skipped \cup LeftOut(t, "jump") \cup Unwritten(lines, n)
     /\ Becomes(t, [tail[t] EXCEPT !.pc = "save", !.shown = Append(@, Gap)])
     /\ UNCHANGED <<service, saved, headMissing, opens>>

\* A file past its size is read, cut to its newest lines and replaced.
TooLong(t) == tail[t].pc = "appended" /\ tail[t].fresh # << >> /\ Len(file) > FileLines

ReadToTrim(t) == /\ TooLong(t)
                 /\ Becomes(t, [tail[t] EXCEPT !.pc = "trim", !.old = file])
                 /\ UNCHANGED <<service, disk, skipped, opens, torn, errors>>

\* A mutant of Trim: the newest lines go, not the oldest.
TrimNewest(t) ==
  LET old == tail[t].old
      cut == Len(old) - KeepLines
  IN /\ tail[t].pc = "trim"
     /\ file' = SubSeq(old, 1, KeepLines)
     /\ skipped' = skipped \cup (ToSet(SubSeq(old, 1, cut)) \ {Torn}) \X {"trim"}
     /\ Becomes(t, [tail[t] EXCEPT !.pc = "note", !.old = << >>])
     /\ UNCHANGED <<service, saved, headMissing, opens, torn, errors>>

Trim(t) ==
  LET old == tail[t].old
      cut == Len(old) - KeepLines
  IN /\ tail[t].pc = "trim"
     /\ file' = SubSeq(old, cut + 1, Len(old))
     /\ skipped' = skipped \cup (ToSet(SubSeq(old, 1, cut)) \ {Torn}) \X {"trim"}
     /\ Becomes(t, [tail[t] EXCEPT !.pc = "note", !.old = << >>])
     /\ UNCHANGED <<service, saved, headMissing, opens, torn, errors>>

\* ... and only then noted to have lost its head.
NoteTrim(t) ==
  /\ tail[t].pc = "note" /\ WritesHead /\ Becomes(t, [tail[t] EXCEPT !.pc = "save"])
  /\ UNCHANGED <<service, file, saved, skipped, opens, torn>>

\* A file that cannot be read or replaced stays as long as it is.
TrimFails(t) ==
  /\ tail[t].pc = "trim" /\ Erring /\ Becomes(t, [tail[t] EXCEPT !.pc = "save", !.old = << >>])
  /\ UNCHANGED <<service, disk, skipped, opens, torn>>

SaveCursor(t) ==
  /\ ~TooLong(t) /\ tail[t].pc \in {"appended", "save"}
  /\ WritesCursor(tail[t].page.to)
  /\ Becomes(t, [tail[t] EXCEPT !.pc = "poll", !.cur = tail[t].page.to, !.shown = @ \o tail[t].fresh,
                                !.fresh = << >>, !.page = NoPage, !.polls = 0, !.window = 1])
  /\ UNCHANGED <<service, file, headMissing, skipped, opens, torn>>

--------------------------------------------------------------------------------
(* The pane is left, or the TUI is killed, between any two steps.          *)

Stop(t) == /\ tail[t].pc # "closed" /\ Close(t)
           /\ UNCHANGED <<service, disk, skipped, opens, torn, errors>>

\* ... or killed in the middle of an append.
StopInAppend(t) ==
  /\ \/ HasPage(t) /\ \E n \in 0 .. Len(LinesOf(tail[t].page)) - 1 : CutShort(LinesOf(tail[t].page), n)
     \/ tail[t].pc = "jump" /\ \E n \in 0 .. Len(tail[t].fresh) - 1 : CutShort(tail[t].fresh, n)
  /\ Close(t)
  /\ UNCHANGED <<service, saved, headMissing, skipped, opens, errors>>

TailStep(t) ==
  \/ TakeCursor(t) \/ ReadEnd(t) \/ Confirm(t) \/ Fetch(t) \/ DropCursor(t) \/ ResetToEnd(t)
  \/ GiveUp(t) \/ NoteHead(t) \/ AppendPage(t) \/ PageFails(t) \/ EmptyPage(t) \/ AppendJump(t) \/ JumpFails(t)
  \/ ReadToTrim(t) \/ Trim(t) \/ NoteTrim(t) \/ TrimFails(t) \/ SaveCursor(t)

Next == \/ Grow \/ Refuse
        \/ \E c \in 0 .. MaxLines : Stick(c)
        \/ \E t \in Tails : Open(t) \/ TailStep(t) \/ Held(t) \/ Fails(t) \/ Stop(t) \/ StopInAppend(t)

Spec == Init /\ [][Next]_vars

\* A tail that is not held keeps polling (the loop of cached_pages).
Fairness == \A t \in Tails : WF_vars(TailStep(t))
FairSpec == Spec /\ Fairness

--------------------------------------------------------------------------------
Lines == 1 .. MaxLines
Cursors == {NoCursor} \cup 0 .. MaxLines
PageSet == {p \in [from : 0 .. MaxLines, to : 0 .. MaxLines] : p.from <= p.to}
FileSet == {f \in Seq({Torn} \cup Lines) : WholeLines(f) \in Seq(Lines)}
TailSet ==
  [pc : {"closed", "loaded", "poll", "confirm", "reset", "got", "jump", "appended", "trim", "note",
         "save"},
   cur : Cursors, shown : Seq({Gap} \cup Lines), fresh : Seq(Lines), page : PageSet,
   counted : {NoCursor} \cup Nat, partial : BOOLEAN, polls : 0 .. StallPolls,
   window : DOMAIN RestartLines, reset : Cursors, old : FileSet]

\* What a tail opens with are whole lines, and what it trims was too long.
OldFits(r) == /\ r.pc = "loaded" => r.old \in Seq(Lines)
              /\ r.pc = "trim" => Len(r.old) > FileLines

\* Besides the types: a torn line is the last of the file.
TypeOK ==
  /\ log \in 0 .. MaxLines /\ stuck \in Cursors /\ refused \subseteq 0 .. MaxLines /\ breaks \subseteq Breaks
  /\ file \in FileSet /\ saved \in Cursors /\ headMissing \in BOOLEAN
  /\ tail \in [Tails -> TailSet] /\ \A t \in Tails : OldFits(tail[t])
  /\ skipped \subseteq Lines \X Reasons /\ opens \in 0 .. MaxOpens /\ torn \in 0 .. MaxTorn
  /\ errors \in 0 .. MaxErrors

\* The saved cursor never runs ahead of the cache (cached_pages: "Entries are persisted before
\* their cursor, so a crash may repeat but never skips them"): a line before it is in the file,
\* or a read of the log's end left it out, or the file was trimmed of it, or its append failed
\* and was passed over (_safe_append), which no crash does.
RecordedLines == {l \in Lines : l \in ToSet(file) \/ \E why \in Reasons : <<l, why>> \in skipped}
CursorNotAhead == 1 .. saved \subseteq RecordedLines

\* What that takes of tails that share a cache: none appends while another trims the file.
TrimsAlone == [][\A t \in Tails : Trim(t) => file = tail[t].old]_vars

\* Lines that follow each other in a pane's live part follow each other in the log, or a note
\* stands between them: a restart or a reset never hides that it jumped.
FollowsOrNotes(t) ==
  tail[t].pc \in {"appended", "save"} /\ tail'[t].pc = "poll" /\ tail[t].fresh # << >>
    => \/ tail[t].cur = NoCursor
       \/ tail[t].shown # << >> /\ Last(tail[t].shown) = Gap
       \/ Head(tail[t].fresh) = tail[t].cur + 1
LiveLinesFollow == [][\A t \in Tails : FollowsOrNotes(t)]_vars

\* A log that is only quiet is never cut: the tail jumps only past a cursor that the service
\* refused or stopped serving, or back to lines that a failed append kept from the cache (a tail
\* opened on it later takes them for new ones).
Left(why) == \E s \in skipped : s[2] = why
QuietLogIsWhole == Left("jump") => stuck # NoCursor \/ refused # {} \/ Left("failed")

\* A tail that stays open and is not held shows the log's newest line in the end, also
\* when its cursor is stuck.  (Tails are opened and held a bounded number of times.)
NewestIsShown(t) == tail[t].pc # "closed" /\ log > 0 => log \in ToSet(tail[t].shown)
================================================================================
