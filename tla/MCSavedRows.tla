----------------------------- MODULE MCSavedRows -----------------------------
(* How the rows of a job's files travel, for TLC: the pipeline that writes   *)
(* them, the readers of the file it leaves, the series a reader builds, and   *)
(* the tab that draws it, in settings that are explored side by side.        *)
EXTENDS ChunkPipeline
VARIABLES setting,
    rows, manifest, coming, staged, gone, kind, ino, seen, load, quiet,  \* SavedReaders
    file, read, series, span,                                           \* SeriesBins
    stage, cached, built, pane, refresh, rebuilds, lock, asked, keys, faults, aside  \* ResourcePane

\* Three chunks, one of two rows, so that a compaction may cut inside it; four inodes: live,
\* held and opened at once, and one more.
Readers == INSTANCE SavedReaders WITH
    Chunks <- 1..3, Rows <- << <<1>>, <<2, 3>>, <<4>> >>, Lossy <- {},
    Kinds <- {"training", "resource"}, Inodes <- 1..4
Consoles == INSTANCE SavedReaders WITH
    Chunks <- 1..2, Rows <- << <<1>>, <<2, 3>> >>, Lossy <- {},
    Kinds <- {"console"}, Inodes <- 1..4
\* Two GPUs, rows up to five bins apart, and a job that must fit in two bins.
Bins == INSTANCE SeriesBins WITH
    Units <- {1, 2}, MaxTime <- 5, MaxRows <- 3, Retention <- 2, Context <- 1, Margin <- 1,
    MaxBins <- 2, Peek <- 1, Hold <- 1, Bridge <- 2, MaxBuckets <- 3
\* More rows that come in order, so that one fold follows another, and are read at once.
Folds == INSTANCE SeriesBins WITH
    Units <- {1, 2}, MaxTime <- 3, MaxRows <- 4, Retention <- 1, Context <- 1, Margin <- 0,
    MaxBins <- 4, Peek <- 1, Hold <- 1, Bridge <- 2, MaxBuckets <- 3
InOrder == \A i \in 2 .. Len(file') : file'[i].time >= file'[i - 1].time

\* The Resources tab: one sub-job with two uploads more, or two sub-jobs to switch between.
Chart == INSTANCE ResourcePane WITH
    Subs <- {"a"}, Windows <- {"w1", "w2"}, Left <- {"w1"}, MaxRows <- 2, MaxKeys <- 2, MaxFaults <- 1,
    MaxAside <- 0, staged <- stage
Switch == INSTANCE ResourcePane WITH
    Subs <- {"a", "b"}, Windows <- {"w1", "w2"}, Left <- {}, MaxRows <- 1, MaxKeys <- 2, MaxFaults <- 1,
    MaxAside <- 0, staged <- stage

ASSUME InstancesAssumption == Readers!ReadersAssumption /\ Consoles!ReadersAssumption

readersVars == <<rows, manifest, coming, staged, gone, kind, ino, seen, load, quiet>>
binsVars == <<file, read, series, span>>
chartVars == <<stage, cached, built, pane, refresh, rebuilds, lock, asked, keys, faults, aside>>
rowsVars == <<vars, readersVars, binsVars>>
allvars == <<rowsVars, setting, chartVars>>

\* The variables of the settings that are not explored keep their first values.
MCInit ==
  /\ setting \in {"pipeline", "readers", "consoles", "bins", "folds", "chart", "switch"}
  /\ Init /\ (setting = "pipeline" \/ strict)
  /\ IF setting = "readers" THEN Readers!ReadersInit ELSE Consoles!ReadersInit
  /\ Bins!Init
  /\ IF setting = "switch" THEN Switch!Init ELSE Chart!Init
  /\ setting \notin {"chart", "switch"} => pane.window = "w1" /\ \A s \in DOMAIN stage : stage[s] = 0
Pipeline(A) == setting = "pipeline" /\ A /\ UNCHANGED <<setting, readersVars, binsVars, chartVars>>
Charted(A) == setting = "chart" /\ A /\ UNCHANGED <<setting, rowsVars>>
MCNext ==
  \/ Pipeline(Next)
  \/ setting = "readers" /\ Readers!ReadersNext /\ UNCHANGED <<setting, vars, binsVars, chartVars>>
  \/ setting = "consoles" /\ Consoles!ReadersNext /\ UNCHANGED <<setting, vars, binsVars, chartVars>>
  \/ setting = "bins" /\ Bins!Next /\ UNCHANGED <<setting, vars, readersVars, chartVars>>
  \/ /\ setting = "folds" /\ Folds!Next /\ InOrder /\ span'.at # "newest"
     /\ UNCHANGED <<setting, vars, readersVars, chartVars>>
  \/ Charted(Chart!Next)
  \/ setting = "switch" /\ Switch!Next /\ UNCHANGED <<setting, rowsVars>>
\* A setting never changes, so that one condition of fairness can stand for one step of each.
MCSpec == /\ MCInit /\ [][MCNext]_allvars
          /\ WF_allvars(Pipeline(Work) \/ Charted(Chart!RefreshStep))
          /\ WF_allvars(Pipeline(StartFetch) \/ Charted(Chart!RebuildStep(1)))
          /\ WF_allvars(Pipeline(EndOf(<<"turn", 1>>)) \/ Charted(Chart!RebuildStep(2)))
          /\ \A c \in 2 .. Total : WF_allvars(Pipeline(EndOf(<<"turn", c>>)))
          /\ \A c \in Preview : WF_allvars(Pipeline(EndOf(<<"preview", c>>)))

\* In the end, and for good: a download has ended with its Spool removed; and the window on screen is
\* fresh or its header says why not.
RowsArrive ==
  setting \in {"pipeline", "chart"} =>
    <>[](/\ setting = "pipeline" => pc = "ended" /\ spool = "removed"
         /\ setting = "chart" => Chart!WindowSettles)
\* A refresh of the chart that was asked for is made, and a window that says it is being refreshed is;
\* a chart that was whole is never replaced by an older one, by its newest rows alone, or by none.
ChartIsHonest ==
  /\ [](/\ setting = "chart" => Chart!TypeOK /\ Chart!HeaderIsHonest /\ Chart!AskedIsDone
        /\ setting = "switch" => Switch!TypeOK /\ Switch!HeaderIsHonest /\ Switch!AskedIsDone)
  /\ [][/\ setting = "chart" => Chart!NeverShrinks
        /\ setting = "switch" => Switch!NeverShrinks]_allvars
\* What a reader holds are whole rows, none of them twice; after a load that no writer raced, exactly
\* the committed ones.
ReadersCatchUp ==
  /\ setting = "readers" => Readers!ReadersTypeOK /\ Readers!NoRowTwice /\ Readers!QuietLoadIsExact
  /\ setting = "consoles" => Consoles!ReadersTypeOK /\ Consoles!NoRowTwice /\ Consoles!QuietLoadIsExact
\* However its reads were split, a series counted each row once, holds the raw rows of the
\* retention, has the width that one read would have reached, and counted the rows that came in
\* order, but for the margin; and its charts and extremes miss no sample that has left the raw rows.
SeriesIsExact ==
  /\ setting = "bins" =>
       /\ Bins!RowsCountOnce /\ Bins!RawIsWhole /\ Bins!WidthIsLeast /\ Bins!OrderedIsExact
       /\ Bins!WindowsAreWhole
  /\ setting = "folds" => Folds!RowsCountOnce /\ Folds!RawIsWhole /\ Folds!FoldsAreWhole
================================================================================
