-------------------------------- MODULE MCTui --------------------------------
(* The TUI's log and job views for TLC, in settings that are explored side   *)
(* by side: a tail alone with its cache, two TUIs that share a cache, the    *)
(* Logs tab, the job list, its table, the walks it is read by, and the       *)
(* checkpoints of a job.                                                     *)
EXTENDS LogTail, TLC
VARIABLES setting,
  job, routed, fresh, kept, ui, reads, late,                               \* LogScreen
  u, fallback, route,                                                      \* JobList
  jobs, active, steady, still, walk, mode, activeRead, shown, said, pc, apc,  \* JobWalk
  stored, kindOf, stepOf, told, live, rows, loaded, loading, lister, files, reading, asks, highlight,
  download, stopping, loaders,                                             \* CheckpointTab
  drawn, table, covered, changes,                                          \* JobTable
  keys, faults                                                             \* several

MCTails == {"first"}
MCRestartLines == <<2, 1>>
MCBreaks == {"stick", "refuse"}

\* Two tails of one cache; the file is large enough that none trims it.
Shared == INSTANCE LogTail WITH
  Tails <- {"first", "second"}, MaxLines <- 3, RestartLines <- <<1>>, FileLines <- 20, Breaks <- {}
\* A screen of one sub-job whose reads overtake each other and fail, and a viewer's moves between two.
Screen == INSTANCE LogScreen WITH
  Sources <- {"train"}, MaxReads <- 2, MaxLate <- 0, MaxKeys <- 0, MaxFaults <- 1
Moved == INSTANCE LogScreen WITH
  Sources <- {"train", "sample"}, MaxReads <- 1, MaxLate <- 1, MaxKeys <- 1, MaxFaults <- 1
List == INSTANCE JobList WITH Pins <- {"there"}, MaxKeys <- 2, MaxFaults <- 1
Walk == INSTANCE JobWalk WITH MaxJobs <- 3, Cap <- 2, PageSize <- 2, MaxPages <- 2, MaxFaults <- 1

\* Two checkpoints, the files of one read per refresh, and a call that fails.
Exports == INSTANCE CheckpointTab WITH MaxSaved <- 2, PerRefresh <- 1, MaxFaults <- 1, saved <- stored

Rec(status, created) == [status |-> status, created |-> created]
\* The newest jobs alone, as a first page; with an older one that has ended, or runs while the
\* service does not know how another one does.
TableLists ==
  {("b" :> Rec("live", 2)) @@ ("c" :> Rec("live", 3)),
   ("a" :> Rec("ended", 1)) @@ ("b" :> Rec("live", 2)) @@ ("c" :> Rec("live", 3)),
   ("a" :> Rec("live", 1)) @@ ("b" :> Rec("unknown", 0))}
Table == INSTANCE JobTable WITH
  Jobs <- {"a", "b", "c"}, Born <- ("a" :> 1) @@ ("b" :> 2) @@ ("c" :> 3),
  SubJobs <- ("a" :> 2) @@ ("b" :> 1) @@ ("c" :> 0), Lists <- TableLists,
  Orders <- {"newest", "ended first"}, Searches <- {{"a", "b", "c"}, {"a"}}, MaxRemovals <- 1,
  MaxLists <- 2, MaxKeys <- 2, v <- drawn, t <- table

ASSUME TableAssumption == Table!TableAssumption

screenVars == <<job, routed, fresh, kept, ui, reads, late>>
listVars == <<u, fallback, route>>
walkVars == <<jobs, active, steady, still, walk, mode, activeRead, shown, said, pc, apc>>
exportVars == <<stored, kindOf, stepOf, told, live, rows, loaded, loading, lister, files, reading, asks, highlight,
                download, stopping, loaders>>
tableVars == <<drawn, table, covered, changes>>
allvars == <<vars, setting, screenVars, listVars, walkVars, exportVars, tableVars, keys, faults>>

\* One step of a setting; the variables of the others keep their first values.
Alone(A) == setting = "alone" /\ A /\ UNCHANGED <<setting, screenVars, listVars, walkVars, exportVars, tableVars, keys, faults>>
Screened(A) == setting = "screen" /\ A /\ UNCHANGED <<setting, vars, listVars, walkVars, exportVars, tableVars>>
Listed(A) == setting = "list" /\ A /\ UNCHANGED <<setting, vars, screenVars, walkVars, exportVars, tableVars>>
Exported(A) == setting = "checkpoints" /\ A /\ UNCHANGED <<setting, vars, screenVars, listVars, walkVars, tableVars, keys>>

AtRest == /\ setting # "walk" => jobs = 0 /\ mode = "later"
          /\ stepOf[1] = 1   \* the tab only looks whether two steps are equal
          /\ setting # "list" => route = "up"
          /\ setting \notin {"screen", "moved"} => ui.status = "pending"
          /\ setting # "checkpoints" => told /\ stepOf[2] = 1 /\ \A c \in 1 .. 2 : kindOf[c] = "resumable"
MCInit == /\ setting \in {"alone", "shared", "screen", "moved", "list", "table", "walk", "checkpoints"}
          /\ IF setting = "shared" THEN Shared!Init ELSE Init
          /\ IF setting = "moved" THEN Moved!Init ELSE Screen!Init
          /\ List!Init /\ Table!Init /\ Walk!Init /\ Exports!Init /\ AtRest
MCNext ==
  \/ Alone(Next)
  \/ setting = "shared" /\ Shared!Next
     /\ UNCHANGED <<setting, screenVars, listVars, walkVars, exportVars, tableVars, keys, faults>>
  \/ Screened(Screen!Next)
  \/ setting = "moved" /\ Moved!Next /\ UNCHANGED <<setting, vars, listVars, walkVars, exportVars, tableVars>>
  \/ Listed(List!Next)
  \/ setting = "walk" /\ Walk!Next /\ UNCHANGED <<setting, vars, screenVars, listVars, exportVars, tableVars, keys>>
  \/ setting = "table" /\ Table!Next
     /\ UNCHANGED <<setting, vars, screenVars, listVars, walkVars, exportVars, faults>>
  \/ Exported(Exports!Next)

\* A setting never changes, so that one condition of fairness can stand for one step of each.
MCSpec ==
  /\ MCInit /\ [][MCNext]_allvars
  /\ WF_allvars(Alone(TailStep("first")) \/ Screened(Screen!StatusTick) \/ Listed(List!Tick) \/ Exported(Exports!Tick))
  /\ WF_allvars(Screened(Screen!Settle) \/ Listed(List!SearchNow) \/ Exported(Exports!ListStep))
  /\ WF_allvars(Screened(Screen!ReadStep(1)) \/ Listed(List!Loading) \/ Exported(Exports!FilesRead(1)))
  /\ WF_allvars(Screened(Screen!ReadStep(2)) \/ Exported(Exports!FilesRead(2)))
  /\ WF_allvars(Screened(Screen!TailThread)) /\ WF_allvars(Screened(Screen!DownloadThread))
  /\ WF_allvars(Screened(Screen!Painted))

\* A quiet log is never cut by the tail that reads it; the pane is the selected sub-job's, and a
\* download has its directory while it runs, no longer.
ScreenIsTrue ==
  /\ setting = "alone" => TypeOK /\ QuietLogIsWhole
  /\ setting = "shared" => Shared!TypeOK
  /\ setting = "screen" => Screen!TypeOK /\ Screen!PaneIsCurrent /\ Screen!StageOutlivesDownload
  /\ setting = "moved" => Moved!TypeOK /\ Moved!PaneIsCurrent /\ Moved!StageOutlivesDownload
\* A new job from a checkpoint starts from what its engine loads, the files of a checkpoint are asked for once, and what
\* the tab says of a download is so of the one that runs.
CheckpointsAreTrue ==
  setting = "checkpoints" => Exports!TypeOK /\ Exports!NewJobLoads /\ Exports!FilesAreReadOnce /\ Exports!DownloadIsTrue
\* What the list says of itself is so, on screen and for each walk that read it, and its table has
\* the rows of what is loaded.
ListsAreHonest ==
  /\ setting = "list" => List!ListIsHonest
  /\ setting = "table" => Table!TypeOK /\ Table!TableShowsList
  /\ setting = "walk" => Walk!HeaderTellsTruth
\* What the pane shows never goes back: its live lines follow each other or a note stands between
\* them, and a job seen to end stays ended; a switch of lists ends on its list, and a list
\* that is still being read takes nothing back; nor does a draw of the list move the reader off a
\* job, or fold what they unfolded.
NothingGoesBack ==
  /\ [][setting = "alone" => \A t \in Tails : FollowsOrNotes(t)]_allvars
  /\ Screen!EndedStays /\ Moved!EndedStays
  /\ List!SwitchEndsOnItsList /\ Table!ReadersPlaceIsKept /\ Walk!ListsGrow
\* In the end, and for good: a lone tail that is open shows the newest line; a job that ended shows
\* its saved console, or why it has none; one that runs, is routed and is watched is tailed; the
\* list is the one that was asked for last; and while a job is live each checkpoint listed shows its files.
ViewsSettle ==
  setting \in {"alone", "screen", "list", "checkpoints"} =>
    <>[](/\ setting = "alone" => \A t \in Tails : NewestIsShown(t)
         /\ setting = "screen" => Screen!ConsoleIfEnded /\ Screen!TailIfRunning
         /\ setting = "list" => List!ListMatches
         /\ setting = "checkpoints" => Exports!FilesCatchUp)
================================================================================
