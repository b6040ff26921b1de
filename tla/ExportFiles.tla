----------------------------- MODULE ExportFiles -----------------------------
(***************************************************************************)
(* Downloads of one file of a checkpoint's export to a directory, by the   *)
(* command line (_download_file of _checkpoint_download.py), which picks   *)
(* up a ".partial" file with a Range request, and by the TUI               *)
(* (download_export of tui/checkpoints.py), which writes it anew.  They    *)
(* run one after the other; each may be stopped or killed, its link may    *)
(* expire and an answer may be cut short.  A file is the number of blocks  *)
(* it has of the checkpoint's, whose bytes do not change.                  *)
(***************************************************************************)
EXTENDS Integers

CONSTANTS Blocks,      \* size_bytes
          SilentCuts,  \* those of {"cli", "tui"} that a short answer tells as its end
          MaxFaults    \* bound: cut answers, refused links and kills

ExportAssumption == Blocks \in Nat /\ SilentCuts \subseteq {"cli", "tui"} /\ MaxFaults \in Nat

VARIABLES target, partial,  \* the files: Absent, or their blocks
          who, at,          \* the download, and where it is
          offset,           \* where it writes
          faults

vars == <<target, partial, who, at, offset, faults>>

Absent == -1
Init ==
    /\ target = Absent /\ partial = Absent
    /\ who = "cli" /\ at = "ended" /\ offset = 0 /\ faults = 0

Fault == faults < MaxFaults /\ faults' = faults + 1

(* A download begins; a file of the export's size is kept.  The command    *)
(* line refuses a file or a partial file that cannot be this one.          *)
Start(w) ==
    /\ at = "ended" /\ target # Blocks
    /\ who' = w /\ at' = "open"
    /\ UNCHANGED <<target, partial, offset, faults>>
OpenCli ==
    /\ at = "open" /\ who = "cli"
    /\ IF target # Absent \/ partial > Blocks THEN at' = "ended" /\ UNCHANGED <<partial, offset>>
       ELSE /\ offset' = IF partial = Absent THEN 0 ELSE partial
            /\ partial' = IF Blocks = 0 /\ partial = Absent THEN 0 ELSE partial
            /\ at' = IF offset' < Blocks THEN "get" ELSE "verify"
    /\ UNCHANGED <<target, who, faults>>
OpenTui ==
    /\ at = "open" /\ who = "tui"
    /\ offset' = 0 /\ at' = "get"
    /\ UNCHANGED <<target, partial, who, faults>>

(* The answer begins, at the offset that the Range header asked for; the   *)
(* file is opened only then.  An expired link, a status or a Content-Range *)
(* that is not the asked one ends the download.                            *)
Get ==
    /\ at = "get"
    /\ \/ /\ at' = "copy" /\ UNCHANGED faults
          /\ partial' = IF who = "cli" /\ partial # Absent THEN partial ELSE 0
       \/ Fault /\ at' = "ended" /\ UNCHANGED partial
    /\ UNCHANGED <<target, who, offset>>

(* A chunk of the answer is written; the TUI may be stopped before it.     *)
Copy ==
    /\ at = "copy" /\ offset < Blocks
    /\ \/ partial' = partial + 1 /\ offset' = offset + 1 /\ UNCHANGED <<at, faults>>
       \/ Fault /\ at' = "ended" /\ UNCHANGED <<partial, offset>>
       \/ Fault /\ who \in SilentCuts /\ at' = "verify" /\ UNCHANGED <<partial, offset>>
    /\ UNCHANGED <<target, who>>
Copied ==
    /\ at = "copy" /\ offset = Blocks
    /\ at' = "verify"
    /\ UNCHANGED <<target, partial, who, offset, faults>>

(* Mutant: the size of what was received is not looked at. *)
PromoteAny ==
    /\ at = "verify"
    /\ at' = "ended" /\ target' = partial /\ partial' = Absent
    /\ UNCHANGED <<who, offset, faults>>

(* The file gets its name; the command line looks at its size before.      *)
Promote ==
    /\ at = "verify"
    /\ at' = "ended"
    /\ IF who = "tui" \/ partial = Blocks THEN target' = partial /\ partial' = Absent
       ELSE UNCHANGED <<target, partial>>
    /\ UNCHANGED <<who, offset, faults>>

(* The process is killed; what it wrote last may be lost. *)
Kill ==
    /\ at # "ended" /\ Fault
    /\ at' = "ended"
    /\ partial' = IF at = "copy" /\ partial > 0 THEN partial - 1 ELSE partial
    /\ UNCHANGED <<target, who, offset>>

Work == OpenCli \/ OpenTui \/ Get \/ Copy \/ Copied \/ Promote
Next == (\E w \in {"cli", "tui"} : Start(w)) \/ Work \/ Kill
FairSpec == Init /\ [][Next]_vars /\ WF_vars(Work) /\ WF_vars(Start("cli") \/ Start("tui"))

(* Whatever ran before and was broken off, a file that has its name has    *)
(* all of its bytes, and keeps them.                                       *)
NamedIsWhole == target \in {Absent, Blocks} /\ partial <= Blocks
WholeStays == [][target = Blocks => target' = Blocks]_vars
=============================================================================
