----------------------------- MODULE MCDownloads -----------------------------
(* Downloads that one process at a time writes to a directory, or that no     *)
(* lock guards, for TLC, in settings that are explored side by side: the       *)
(* resumed stream (ArtifactResume), an execution log (LogFiles), a file of a   *)
(* checkpoint's export (ExportFiles), and the notices of a stream's download   *)
(* (StallNotices).                                                             *)
EXTENDS ArtifactResume
VARIABLES setting,
  logs, newest, saved, identity, spools, d, restarts, overlapped,   \* LogFiles
  target, part, who, at, offset, faults,                            \* ExportFiles
  clock, job, sub, listed, console, healthy, ask, notified, check   \* StallNotices

\* Two chunks; one of two rows, so that a compaction may cut inside a chunk.
MCChunks == 1..2
MCRows == << <<1, 2>>, <<3>> >>

Log == INSTANCE LogFiles WITH
  Downloads <- {"p", "q"}, MaxVersions <- 3, MaxRestarts <- 1, MaxErrors <- 1, Size <- <<1, 1, 2>>,
  staged <- logs, manifest <- identity
Export == INSTANCE ExportFiles WITH
  Blocks <- 3, SilentCuts <- {"cli"}, MaxFaults <- 3, partial <- part
Notices == INSTANCE StallNotices WITH
  SubJobs <- {"a"}, Listing <- 4, MaxTime <- 5, Drifts <- {-1, 1}, Stale <- 3, Skew <- 1, Recent <- 1,
  Grace <- 3, Period <- 1, Delay <- 1, d <- notified

ASSUME InstancesAssumption == Log!LogFilesAssumption /\ Export!ExportAssumption /\ Notices!NoticesAssumption

resumeVars == vars
logVars == <<logs, newest, saved, identity, spools, d, restarts, overlapped>>
exportVars == <<target, part, who, at, offset, faults>>
noticesVars == <<clock, job, sub, listed, console, healthy, ask, notified, check>>
allvars == <<resumeVars, logVars, exportVars, noticesVars, setting>>

Resumed(A) == setting = "resume" /\ A /\ UNCHANGED <<setting, logVars, exportVars, noticesVars>>
Exported(A) == setting = "export" /\ A /\ UNCHANGED <<setting, resumeVars, logVars, noticesVars>>

MCInit ==
  /\ setting \in {"resume", "log", "export", "notices"}
  /\ Init /\ Export!Init
  /\ Log!Init /\ (setting = "log" \/ \A p \in {"p", "q"} : d[p].resume)
  /\ IF setting = "notices" THEN Notices!Init
     ELSE /\ clock = 0 /\ job = 0 /\ sub = 0 /\ listed = 0 /\ console = 0 /\ healthy = {}
          /\ ask = 0 /\ notified = 0 /\ check = 0
MCNext ==
  \/ Resumed(Next) \/ Exported(Export!Next)
  \/ setting = "log" /\ Log!Next /\ UNCHANGED <<setting, resumeVars, exportVars, noticesVars>>
  \/ setting = "notices" /\ Notices!Next /\ UNCHANGED <<setting, resumeVars, logVars, exportVars>>
MCSpec ==
  /\ MCInit /\ [][MCNext]_allvars
  /\ WF_allvars(Resumed(Work))
  /\ WF_allvars(Resumed(\E resume, strict \in BOOLEAN : Start(resume, strict)))
  /\ WF_allvars(Exported(Export!Work))
  /\ WF_allvars(Exported(Export!Start("cli") \/ Export!Start("tui")))

\* A log that a download keeps or saves is the one it listed or newer, unless two ran over each
\* other; a file of an export has its name only while it has all of its bytes.
FilesAreWhole ==
  /\ [](setting = "export" => Export!NamedIsWhole)
  /\ Export!WholeStays /\ Log!SavedIsListed
\* What a download says beside its files: each named sub-job is answered for, nothing is said of
\* uploads that work, and a stall that lasts is told.
NoticesAreTrue ==
  /\ [](setting = "notices" => Notices!EntriesAnswer /\ Notices!WarningsAreTrue)
  /\ [][setting = "notices" => Notices!StallIsTold]_allvars
\* Once faults stop, the stream's destination is brought up to date again and again, and a file
\* of an export, begun again and again, gets its name.
DownloadsComplete ==
  /\ Completes
  /\ <>(setting = "export" => target = 3)
================================================================================
