------------------------------ MODULE LogFiles -------------------------------
(***************************************************************************)
(* Downloads of one execution log to a directory (download_execution_logs  *)
(* and _save_execution_log of client/core.py), which no lock guards: the   *)
(* file may be staged under "_logs/" and under "checkpoints/_logs/", is    *)
(* replaced there as a whole while downloads run, and a process may be     *)
(* killed between any two steps.  A version of the log stands for its      *)
(* content, its checksum and its time; versions may have the same size.    *)
(***************************************************************************)
EXTENDS Integers, FiniteSets

CONSTANTS Downloads,   \* the processes
          MaxVersions, \* bound: versions of the log
          MaxRestarts, \* bound: downloads begun again
          MaxErrors,   \* bound: failed GETs of a download, as call_with_retry allows
          Size         \* [1..MaxVersions -> Nat]

LogFilesAssumption ==
    {MaxVersions, MaxRestarts, MaxErrors} \subseteq Nat /\ Size \in [1..MaxVersions -> Nat]

Roots == {"_logs", "checkpoints/_logs"}
None == 0

VARIABLES staged,    \* root -> the version there, or None
          newest,    \* the newest version
          saved,     \* the version at the destination, or None
          manifest,  \* the identity beside it: [root, version], or NoIdentity
          spools,    \* the download directories there, by process
          d,         \* per process: where it is, what it listed, and what it fetched
          restarts,
          overlapped \* history: two downloads were under way at once

vars == <<staged, newest, saved, manifest, spools, d, restarts, overlapped>>

NoIdentity == [root |-> "", version |-> None]
Fresh == [at |-> "list", resume |-> TRUE, listed |-> NoIdentity, fetched |-> None, errors |-> 0]

Init ==
    /\ staged = [r \in Roots |-> IF r = "_logs" THEN 1 ELSE None] /\ newest = 1
    /\ saved = None /\ manifest = NoIdentity /\ spools = {}
    /\ d \in [Downloads -> {[Fresh EXCEPT !.resume = r] : r \in BOOLEAN}]
    /\ restarts = 0 /\ overlapped = FALSE

Goes(p, to) == d' = [d EXCEPT ![p].at = to]

(* The job writes on, and its log is staged anew in one of the two places. *)
Stage ==
    /\ newest < MaxVersions
    /\ newest' = newest + 1
    /\ \E r \in Roots : staged' = [staged EXCEPT ![r] = newest + 1]
    /\ UNCHANGED <<saved, manifest, spools, d, restarts, overlapped>>

Alive == {p \in Downloads : d[p].at \notin {"list", "killed", "failed", "unchanged", "saved"}}

(* LIST checkpoints/_logs, and then LIST _logs, whose copy wins.           *)
List(p) ==
    /\ d[p].at = "list"
    /\ d' = [d EXCEPT ![p].listed =
                IF staged["checkpoints/_logs"] = None THEN NoIdentity
                ELSE [root |-> "checkpoints/_logs", version |-> staged["checkpoints/_logs"]],
                      ![p].at = "list logs"]
    /\ overlapped' = (overlapped \/ Alive # {})
    /\ UNCHANGED <<staged, newest, saved, manifest, spools, restarts>>
ListLogs(p) ==
    /\ d[p].at = "list logs"
    /\ d' = [d EXCEPT ![p].listed =
                IF staged["_logs"] = None THEN @ ELSE [root |-> "_logs", version |-> staged["_logs"]],
                      ![p].at = IF d[p].resume THEN "compare" ELSE "fetch"]
    /\ UNCHANGED <<staged, newest, saved, manifest, spools, restarts, overlapped>>

SizeOf(v) == IF v = None THEN -1 ELSE Size[v]

(* Mutant: the sizes alone are compared. *)

(* A saved copy is kept if its manifest is what LIST told, and its size.   *)
Unchanged(p) == manifest = d[p].listed /\ SizeOf(saved) = Size[d[p].listed.version]
Compare(p) ==
    /\ d[p].at = "compare"
    /\ Goes(p, IF Unchanged(p) THEN "unchanged" ELSE "fetch")
    /\ UNCHANGED <<staged, newest, saved, manifest, spools, restarts, overlapped>>

(* The orphans of killed downloads go first; a GET brings the version that *)
(* is staged by now, or fails, at last for good.                           *)
Fetch(p) ==
    /\ d[p].at = "fetch"
    /\ spools' = (spools \cap Alive) \cup {p}
    /\ Goes(p, "get")
    /\ UNCHANGED <<staged, newest, saved, manifest, restarts, overlapped>>
Get(p) ==
    /\ d[p].at = "get"
    /\ \/ d' = [d EXCEPT ![p].fetched = staged[d[p].listed.root], ![p].at = "unlink"] /\ UNCHANGED spools
       \/ d[p].errors < MaxErrors /\ d' = [d EXCEPT ![p].errors = @ + 1] /\ UNCHANGED spools
       \/ d[p].errors = MaxErrors /\ Goes(p, "failed") /\ spools' = spools \ {p}
    /\ UNCHANGED <<staged, newest, saved, manifest, restarts, overlapped>>

(* The manifest goes before the copy it is of; a new one is written only   *)
(* if the file has the size that LIST told.                                *)
Unlink(p) ==
    /\ d[p].at = "unlink"
    /\ manifest' = NoIdentity /\ Goes(p, "replace")
    /\ UNCHANGED <<staged, newest, saved, spools, restarts, overlapped>>
Replace(p) ==
    /\ d[p].at = "replace"
    /\ saved' = d[p].fetched /\ spools' = spools \ {p} /\ Goes(p, "manifest")
    /\ UNCHANGED <<staged, newest, manifest, restarts, overlapped>>
WriteManifest(p) ==
    /\ d[p].at = "manifest"
    /\ manifest' = IF SizeOf(saved) = Size[d[p].listed.version] THEN d[p].listed ELSE manifest
    /\ Goes(p, "saved")
    /\ UNCHANGED <<staged, newest, saved, spools, restarts, overlapped>>

Kill(p) ==
    /\ p \in Alive
    /\ Goes(p, "killed")
    /\ UNCHANGED <<staged, newest, saved, manifest, spools, restarts, overlapped>>
Again(p) ==
    /\ p \notin Alive /\ restarts < MaxRestarts
    /\ d' = [d EXCEPT ![p] = Fresh] /\ restarts' = restarts + 1
    /\ UNCHANGED <<staged, newest, saved, manifest, spools, overlapped>>

Next ==
    \/ Stage
    \/ \E p \in Downloads :
          \/ List(p) \/ ListLogs(p) \/ Compare(p) \/ Fetch(p) \/ Get(p)
          \/ Unlink(p) \/ Replace(p) \/ WriteManifest(p) \/ Kill(p) \/ Again(p)
Spec == Init /\ [][Next]_vars

(* As long as downloads of a directory do not overlap, whatever of them    *)
(* was killed and however the staged file changed under them, one that     *)
(* keeps the saved copy keeps what it listed, and one that saves leaves    *)
(* nothing older than what it listed.                                      *)
SavedIsListed ==
    [][\A p \in Downloads : d'[p].at # d[p].at /\ ~overlapped =>
          /\ d'[p].at = "unchanged" => saved = d[p].listed.version
          /\ d'[p].at = "saved" => saved >= d[p].listed.version]_vars
=============================================================================
