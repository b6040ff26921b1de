----------------------------- MODULE CheckpointTab -----------------------------
(* The Checkpoints tab of a job's screen (tui/checkpoint_view.py) and the rules *)
(* for a new job from a checkpoint (tui/checkpoints.py): the list is read again  *)
(* while the job is live, the files of each checkpoint listed are read once, a   *)
(* few per refresh, by workers of their own, and one checkpoint is downloaded at  *)
(* a time.  A checkpoint's number is its place in the order of creation.          *)
EXTENDS Naturals, FiniteSets, FiniteSetsExt

CONSTANTS MaxSaved,    \* bound: checkpoints the job saves
          PerRefresh,  \* _CHECKPOINT_FILES_PER_REFRESH
          MaxFaults    \* bound: calls that fail

Ids == 1 .. MaxSaved
Kinds == {"resumable", "weights-only"}
Uses == {"training", "sampling", "both"}
None == 0

VARIABLES saved,      \* checkpoints the service has
          kindOf, stepOf, told,  \* what each is, and whether the service says so
          live, rows, loaded, loading, lister,
          files,      \* what the export of each said: "none" yet, its "kind" or a "failure"
          reading,    \* exports that workers have still to read
          asks,       \* exports asked for, over the screen's life
          highlight, download, stopping, loaders, faults
world == <<saved, kindOf, stepOf, told, live>>
list == <<rows, loaded, loading, lister>>
export == <<files, reading, asks>>
saving == <<download, stopping, loaders>>
vars == <<world, list, export, highlight, saving, faults>>

NoPlan == [training |-> None, sampling |-> None]
NoDownload == [id |-> None, running |-> FALSE, outcome |-> "none"]
Init ==
  /\ saved = {} /\ kindOf \in [Ids -> Kinds] /\ stepOf \in [Ids -> 1 .. 2] /\ told \in BOOLEAN
  /\ live = TRUE /\ rows = {} /\ loaded = FALSE /\ loading = FALSE /\ lister = [pc |-> "none", out |-> {}]
  /\ files = [c \in Ids |-> "none"] /\ reading = {} /\ asks = [c \in Ids |-> 0]
  /\ highlight = None
  /\ download = NoDownload /\ stopping = FALSE /\ loaders = {}
  /\ faults = 0

Save ==
  /\ live /\ Cardinality(saved) < MaxSaved /\ saved' = saved \cup {Cardinality(saved) + 1}
  /\ UNCHANGED <<kindOf, stepOf, told, live, list, export, highlight, saving, faults>>
End == live /\ live' = FALSE /\ UNCHANGED <<saved, kindOf, stepOf, told, list, export, highlight, saving, faults>>

\* ---- the list ----
StartList(force) == ~loading /\ (force \/ ~loaded) /\ loading' = TRUE /\ lister' = [pc |-> "asked", out |-> {}]
Open == StartList(FALSE) /\ UNCHANGED <<world, rows, loaded, export, highlight, saving, faults>>
Again == loaded /\ StartList(TRUE) /\ UNCHANGED <<world, rows, loaded, export, highlight, saving, faults>>
Tick == loaded /\ live /\ StartList(TRUE) /\ UNCHANGED <<world, rows, loaded, export, highlight, saving, faults>>
ListAnswered ==
  /\ lister.pc = "asked" /\ lister' = [pc |-> "answered", out |-> saved]
  /\ UNCHANGED <<world, rows, loaded, loading, export, highlight, saving, faults>>
\* A mutant's: the files that a worker is reading are asked for again.
WantedAgain(l) == {c \in l : files[c] = "none"}
Wanted(l) == {c \in l : files[c] = "none" /\ c \notin reading}
\* The newest few checkpoints of a list whose files were not read yet, nor are being read.
Newest(s) == {c \in s : Cardinality({d \in s : d > c}) < PerRefresh}
Listed ==
  /\ \/ lister.pc = "answered" /\ rows' = lister.out /\ loaded' = TRUE /\ UNCHANGED faults
     \/ lister.pc = "asked" /\ faults < MaxFaults /\ faults' = faults + 1 /\ UNCHANGED <<rows, loaded>>
  /\ loading' = FALSE /\ lister' = [pc |-> "none", out |-> {}]
  /\ highlight' = IF highlight \in rows' THEN highlight ELSE IF rows' = {} THEN None ELSE Max(rows')
  /\ LET wanted == Newest(Wanted(rows'))
     IN /\ reading' = reading \cup wanted
        /\ asks' = [c \in Ids |-> IF c \in wanted THEN asks[c] + 1 ELSE asks[c]]
  /\ UNCHANGED <<world, files, saving>>
FilesRead(c) ==
  /\ c \in reading /\ reading' = reading \ {c}
  /\ \/ files' = [files EXCEPT ![c] = "kind"] /\ UNCHANGED faults
     \/ faults < MaxFaults /\ faults' = faults + 1 /\ files' = [files EXCEPT ![c] = "failure"]
  /\ UNCHANGED <<world, list, asks, highlight, saving>>

\* ---- a new job ----
\* What the tab takes a checkpoint for: the service's word, else what its files show.
KindShown(c) == IF told \/ files[c] = "kind" THEN kindOf[c] ELSE "unknown"
Partners(c) == {d \in rows : d # c /\ stepOf[d] = stepOf[c] /\ KindShown(d) \in Kinds \ {KindShown(c)}}
\* The checkpoints a new job of a use starts from: both pairs one with the newest of the other type, of the same step.
UsePlan(c, use) ==
  LET unknown == KindShown(c) = "unknown"
      trains == unknown \/ KindShown(c) = "resumable"
      samples == unknown \/ KindShown(c) = "weights-only"
      mate == IF unknown THEN c ELSE IF Partners(c) = {} THEN None ELSE Max(Partners(c))
  IN CASE use = "training" -> IF trains THEN [NoPlan EXCEPT !.training = c] ELSE NoPlan
       [] use = "sampling" -> IF samples THEN [NoPlan EXCEPT !.sampling = c] ELSE NoPlan
       [] OTHER -> IF mate = None THEN NoPlan
                   ELSE [training |-> IF trains THEN c ELSE mate, sampling |-> IF samples THEN c ELSE mate]
Highlight(c) ==
  /\ c \in rows \ {highlight} /\ highlight' = c
  /\ UNCHANGED <<world, list, export, saving, faults>>

\* ---- the download ----
MayStart == ~download.running
\* d: starts the highlighted one's download; of the one that downloads, stops it.
Download ==
  /\ highlight # None
  /\ IF MayStart
     THEN /\ download' = [id |-> highlight, running |-> TRUE, outcome |-> "none"] /\ stopping' = FALSE
          /\ loaders' = loaders \cup {[pc |-> "run", id |-> highlight]}
     ELSE download.id = highlight /\ stopping' = TRUE /\ UNCHANGED <<download, loaders>>
  /\ UNCHANGED <<world, list, export, highlight, faults>>
Downloaded(l) ==
  /\ l.pc = "run"
  /\ \/ UNCHANGED faults /\ loaders' = (loaders \ {l}) \cup {[l EXCEPT !.pc = IF stopping THEN "stopped" ELSE "saved"]}
     \/ faults < MaxFaults /\ faults' = faults + 1 /\ loaders' = (loaders \ {l}) \cup {[l EXCEPT !.pc = "failed"]}
  /\ UNCHANGED <<world, list, export, highlight, download, stopping>>
DownloadSaid(l) ==
  /\ l.pc # "run" /\ loaders' = loaders \ {l}
  /\ download' = IF download.id = l.id THEN [download EXCEPT !.running = FALSE, !.outcome = l.pc] ELSE download
  /\ UNCHANGED <<world, list, export, highlight, stopping, faults>>

ListStep == ListAnswered \/ Listed
Next ==
  \/ Save \/ End \/ Open \/ Again \/ Tick \/ ListStep \/ \E c \in Ids : FilesRead(c) \/ Highlight(c)
  \/ Download \/ \E l \in loaders : Downloaded(l) \/ DownloadSaid(l)
Spec == Init /\ [][Next]_vars /\ WF_vars(Tick) /\ WF_vars(ListStep) /\ \A c \in Ids : WF_vars(FilesRead(c))

TypeOK == /\ rows \subseteq Ids /\ reading \subseteq Ids /\ highlight \in Ids \cup {None}
\* A new job the tab offers trains from a resumable checkpoint and samples from weights of the same step, unless the
\* type of the one it starts from is not known.
NewJobLoads ==
  \A c \in rows, use \in Uses :
    LET plan == UsePlan(c, use)
    IN plan # NoPlan /\ KindShown(c) # "unknown" =>
         /\ plan.training # None => kindOf[plan.training] = "resumable"
         /\ plan.sampling # None => kindOf[plan.sampling] = "weights-only"
         /\ use = "both" => stepOf[plan.training] = stepOf[plan.sampling]
\* The files of a checkpoint are asked for once in a screen's life, however often the list is read.
FilesAreReadOnce == \A c \in Ids : asks[c] <= 1
\* What the tab says of a download is so of the one that runs.
DownloadIsTrue ==
  /\ download.running <=> loaders # {}
  /\ \A l \in loaders : l.id = download.id
\* While the job is live each checkpoint that is listed has its files read, or its failure said, in the end.
FilesCatchUp == live => \A c \in rows : files[c] # "none"
================================================================================
