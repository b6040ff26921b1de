---------------------------- MODULE SavedReaders ----------------------------
(***************************************************************************)
(* The TUI's incremental readers of a saved file: each load reads only     *)
(* what was added since the last one, and starts over when the file is no  *)
(* longer the one it read.  The training and console readers take no lock: *)
(* a download of another program may append to the file, cut it, or put    *)
(* another in its place between any two of their system calls.  The        *)
(* resource reader loads under the download lock, and its file may be      *)
(* compacted; another file may then have the inode number of the one read. *)
(*                                                                         *)
(* A row is read once it is whole: a torn one is always the last, without  *)
(* its newline.  What a reader derives from its rows (series, bins,        *)
(* windows, rates) is left out.                                            *)
(***************************************************************************)
EXTENDS SavedFile

CONSTANTS
    Kinds,   \* the readers considered
    Inodes   \* the inode numbers there are

ReadersAssumption ==
    /\ LossyAssumption
    /\ Kinds \subseteq {"training", "console", "resource"}
    /\ Inodes \subseteq Nat \ {0}

VARIABLES
    kind,    \* which reader this is
    staged, gone,  \* the chunks on the stage, and those removed from it
    ino,     \* the inode number of the file, 0 if there is none
    seen,    \* what the reader keeps from load to load
    load,    \* the locals of the load in progress
    quiet    \* history: nothing was written since the last load began

vars == <<saved, staged, gone, kind, ino, seen, load, quiet>>

\* tail: the row that ends at offset, by which the resource reader knows its file.
NoSeen == [ino |-> 0, names |-> {}, offset |-> 0, held |-> <<>>, tail |-> {}]

\* live: the descriptor's file is still the one at the path; else old is its rows.
NoLoad == [pc |-> "idle", manifest |-> None, size |-> 0, ino |-> 0, live |-> TRUE,
           old |-> <<>>]

ReadersInit ==
    /\ Init
    /\ staged = {} /\ gone = {}
    /\ kind \in Kinds /\ ino = 0 /\ seen = NoSeen /\ load = NoLoad /\ quiet = FALSE

-----------------------------------------------------------------------------
(* What the holder of the download lock does, as the reader can tell.  The  *)
(* chunks are named in the order they are written, and may arrive late.     *)

Upload(c) == c \notin staged \cup gone /\ staged' = staged \cup {c} /\ UNCHANGED gone
Retire(c) == c \in staged /\ staged' = staged \ {c} /\ gone' = gone \cup {c}

Stage ==
    /\ \E c \in Chunks : Upload(c) \/ Retire(c)
    /\ UNCHANGED <<saved, kind, ino, seen, load, quiet>>

Extends(names, others) == names \subseteq others /\ \A c \in others \ names, d \in names : d < c

\* The chunks a download may have appended so far: it takes a listing in order.
Upto(c) == {d \in staged \ manifest.names : d <= c}

Download ==
    /\ Extends(manifest.names, staged)
    /\ \E c \in Chunks :
           \/ \E tail \in {<<>>, <<Torn>>} : Write(Upto(c), tail)
           \/ Upto(c) # {} /\ Commit(Upto(c), {})

\* Inode numbers are unique among the files that exist.  That a number is not given
\* to a new file between two loads either is assumed of the readers that do not
\* compare contents.
NewInodes ==
    IF kind = "resource" THEN Inodes \ {ino}
    ELSE {CHOOSE i \in Inodes : i \notin {ino, seen.ino, load.ino}}

InPlace == Download \/ Hide \/ Describe \/ Stop

Replaced == (staged # {} /\ Promote(staged, {})) \/ (kind = "resource" /\ Compact)

Writer ==
    /\ \/ InPlace /\ UNCHANGED <<ino, load>>
       \/ /\ Replaced
          /\ ino' \in NewInodes
          /\ load' = IF load.pc \in {"manifest", "body"} /\ load.live
                     THEN [load EXCEPT !.live = FALSE, !.old = rows] ELSE load
    /\ quiet' = FALSE
    /\ UNCHANGED <<kind, seen, staged, gone>>

-----------------------------------------------------------------------------
(* Shared by the readers.                                                   *)

\* The whole rows from offset "from" to "to", or to the end of the file.
WholeRows(s, from, to) ==
    SelectSeq(SubSeq(s, from + 1, IF to < Len(s) THEN to ELSE Len(s)),
              LAMBDA r : r # Torn)

Begin(k) == kind = k /\ load.pc = "idle" /\ quiet' = TRUE /\ UNCHANGED <<saved, staged, gone, kind, ino>>
Continue(pc) == load.pc = pc /\ UNCHANGED <<saved, staged, gone, kind, ino, quiet>>
End == load' = NoLoad

\* _SubJobState.ingest: a row read twice counts once.
AddNew(held, new) == held \o SelectSeq(new, LAMBDA r : r \notin RangeOf(held))

-----------------------------------------------------------------------------
(* TrainingLoader._read: the manifest, the file's size, its identity and    *)
(* its rows are read by path, one after another.                            *)

TrainingManifest ==
    /\ Begin("training")
    /\ UNCHANGED seen
    /\ IF manifest.names = {} THEN End
       ELSE load' = [NoLoad EXCEPT !.pc = "size", !.manifest = manifest]

TrainingSize ==
    /\ Continue("size")
    /\ UNCHANGED seen
    /\ IF Len(rows) < load.manifest.nbytes THEN End ELSE load' = [load EXCEPT !.pc = "stat"]

RebuiltIfShorter ==                                                           \* a mutant
    load.manifest.nbytes < seen.offset

Rebuilt ==
    \/ seen.ino # ino
    \/ ~Extends(seen.names, load.manifest.names)
    \/ load.manifest.nbytes < seen.offset

TrainingStat ==
    /\ Continue("stat")
    /\ LET known == IF Rebuilt
                    THEN [NoSeen EXCEPT !.ino = ino, !.names = load.manifest.names] ELSE seen
       IN  IF load.manifest.nbytes > known.offset
           THEN seen' = known /\ load' = [load EXCEPT !.pc = "rows"]
           ELSE seen' = [known EXCEPT !.names = load.manifest.names] /\ End

TrainingRows ==
    /\ Continue("rows")
    /\ LET new == WholeRows(rows, seen.offset, load.manifest.nbytes)
       IN  seen' = [seen EXCEPT !.names = load.manifest.names,
                                !.offset = @ + Len(new),
                                !.held = AddNew(@, new)]
    /\ End

-----------------------------------------------------------------------------
(* ConsoleReader._read: one descriptor, and the manifest beside its path.   *)

ConsoleOpen ==
    /\ Begin("console")
    /\ ino # 0
    /\ load' = [NoLoad EXCEPT !.pc = "manifest", !.ino = ino, !.size = Len(rows)]
    /\ UNCHANGED seen

\* committed_size: without a manifest that fits, the whole file.
ConsoleManifest ==
    /\ Continue("manifest")
    /\ LET size == IF manifest.names # {} /\ manifest.nbytes <= load.size
                   THEN manifest.nbytes ELSE load.size
       IN  /\ load' = [load EXCEPT !.pc = "body", !.size = size]
           /\ seen' = IF size < seen.offset \/ load.ino # seen.ino
                      THEN [NoSeen EXCEPT !.ino = load.ino] ELSE seen

ConsoleRows ==
    /\ Continue("body")
    /\ LET new == WholeRows(IF load.live THEN rows ELSE load.old, seen.offset, load.size)
       IN  seen' = [seen EXCEPT !.offset = @ + Len(new), !.held = @ \o new]
    /\ End

-----------------------------------------------------------------------------
(* ResourceLoader.load, under the download lock: one step.                  *)

TailAt(n) == IF n = 0 THEN {} ELSE {rows[n]}

\* _extends: the file read before, with rows only appended.
SameFile ==
    /\ seen.ino = ino /\ manifest.nbytes >= seen.offset
    /\ Extends(seen.names, manifest.names)
    /\ TailAt(seen.offset) = seen.tail

ResourceLoad ==
    /\ Begin("resource")
    /\ coming = None
    /\ UNCHANGED load
    /\ IF ~Readable THEN seen' = NoSeen
       ELSE LET known == IF SameFile THEN seen ELSE NoSeen
                new   == WholeRows(rows, known.offset, manifest.nbytes)
                end   == known.offset + Len(new)
            IN  seen' = [ino |-> ino, names |-> manifest.names, offset |-> end,
                         held |-> known.held \o new, tail |-> TailAt(end)]

-----------------------------------------------------------------------------
Reader ==
    \/ TrainingManifest \/ TrainingSize \/ TrainingStat \/ TrainingRows
    \/ ConsoleOpen \/ ConsoleManifest \/ ConsoleRows
    \/ ResourceLoad

ReadersNext == Stage \/ Writer \/ Reader

-----------------------------------------------------------------------------
\* The type of every variable: no reader ever holds a torn row.
ReadersTypeOK ==
    /\ rows \in Seq(Nat) /\ staged \subseteq Chunks /\ gone \subseteq Chunks
    /\ {manifest, coming} \subseteq [names: SUBSET Chunks, nbytes: Nat, skipped: SUBSET Chunks]
    /\ kind \in Kinds /\ ino \in Inodes \cup {0}
    /\ seen \in [ino: Inodes \cup {0}, names: SUBSET Chunks, offset: Nat,
                 held: Seq(Nat \ {Torn}), tail: SUBSET (Nat \ {Torn})]
    /\ load \in [pc: {"idle", "size", "stat", "rows", "manifest", "body"},
                 manifest: [names: SUBSET Chunks, nbytes: Nat, skipped: SUBSET Chunks],
                 size: Nat, ino: Inodes \cup {0}, live: BOOLEAN, old: Seq(Nat)]
    /\ quiet \in BOOLEAN

\* A load that nothing was written beside leaves the reader with exactly the
\* committed rows, whatever appends, cuts, promotions and compactions raced the
\* loads before it: the tab never stays wrong once the download is done.
QuietLoadIsExact == load.pc = "idle" /\ quiet /\ Readable => seen.held = Committed

\* No reader counts a row twice, not even in a load that raced a promotion and
\* read the new file at the old one's offset.
NoRowTwice == \A i, j \in DOMAIN seen.held : seen.held[i] = seen.held[j] => i = j
=============================================================================
