--------------------------- MODULE ArtifactResume ---------------------------
(***************************************************************************)
(* How one sub-job's output file is rebuilt from staged gzip chunks, and    *)
(* resumed after an interruption.                                           *)
(*                                                                          *)
(* A download plans under one listing of the stage, writes the chunks in    *)
(* name order either to the destination itself (append) or to a hidden      *)
(* ".partial" file that replaces the destination once it is whole, and      *)
(* checkpoints a manifest beside the file it writes.  Between downloads a    *)
(* compaction may drop the oldest rows.  Every file system call is a step,  *)
(* and the machine may stop between any two of them.                        *)
(*                                                                          *)
(* Abstractions.  A chunk is a number, ordered as its name sorts; a row is  *)
(* a number, and a byte count is a count of rows.  A manifest's name list   *)
(* is sorted and has no duplicates, so it is the set of its names; a        *)
(* manifest that read_manifest rejects, and none at all, are the one with   *)
(* no names.  Renames and unlinks survive a power loss in the order they    *)
(* were made; file contents survive only as far as they were fsynced.  One  *)
(* actor at a time works on the directory (see DownloadLock).               *)
(***************************************************************************)
EXTENDS Integers, Sequences, FiniteSets

CONSTANTS
    Chunks,            \* the chunks the job may ever upload for this sub-job
    Rows,              \* Rows[c]: the rows chunk c decompresses to
    CheckpointChunks   \* _DOWNLOAD_CHECKPOINT_CHUNKS

ASSUME ChunksAssumption == Chunks \subseteq Nat /\ IsFiniteSet(Chunks)

ASSUME RowsAssumption ==
    /\ Rows \in [Chunks -> Seq(Nat \ {0})]
    /\ \A c \in Chunks : \A i, j \in 1..Len(Rows[c]) :
           i < j => Rows[c][i] < Rows[c][j]
    /\ \A c, d \in Chunks : c < d =>
           \A i \in 1..Len(Rows[c]), j \in 1..Len(Rows[d]) :
               Rows[c][i] < Rows[d][j]

ASSUME CheckpointAssumption == CheckpointChunks \in Nat

VARIABLES
    staged,    \* the chunks on the stage now
    present,   \* the data files that exist
    data,      \* data[f]: the rows of data file f, empty if it does not exist
    synced,    \* synced[f]: how many of them would survive a power loss
    manifest,  \* manifest[f]: the manifest beside f
    pc,        \* what the actor holding the directory does next
    plan,      \* the GzipPlan being carried out
    writer     \* the ChunkWriter, from the plan's resume state on

disk == <<present, data, synced, manifest>>
vars == <<staged, present, data, synced, manifest, pc, plan, writer>>

Files == {"dest", "partial"}
Torn == 0        \* a row cut short by an interrupted or damaged write

Manifests ==
    {m \in [names : SUBSET Chunks, nbytes : Nat, skipped : SUBSET Chunks] :
         m.skipped \subseteq m.names}
NoManifest == [names |-> {}, nbytes |-> 0, skipped |-> {}]

Plans == [listing : SUBSET Chunks, file : Files, promote : BOOLEAN, strict : BOOLEAN]
NoPlan == [listing |-> {}, file |-> "dest", promote |-> FALSE, strict |-> FALSE]

\* "after" is where the checkpoint in progress returns to.
Writers ==
    {w \in [names : SUBSET Chunks, skipped : SUBSET Chunks, offset : Nat,
            recorded : SUBSET Chunks, refetched : BOOLEAN,
            after : {"next", "finish", "abort"}] :
         w.skipped \subseteq w.names}
NoWriter == [names |-> {}, skipped |-> {}, offset |-> 0, recorded |-> {},
             refetched |-> FALSE, after |-> "next"]

\* The program counter: idle, the steps of a download, the steps of a compaction.
Preparing == {"clearManifest", "clearPartial"}
Writing == {"open", "next", "writing", "advance", "abort", "sync", "record", "drop"}
Promoting == {"unlinkDest", "replaceDest", "replaceManifest"}
PCs == {"idle", "compacted"} \cup Preparing \cup Writing \cup Promoting

RangeOf(s) == {s[i] : i \in 1..Len(s)}
Take(s, n) == SubSeq(s, 1, n)
RowsOf(S) == UNION {RangeOf(Rows[c]) : c \in S}

\* The names a resume may extend: the listing only adds chunks after them.
IsPrefixOf(names, listing) ==
    /\ names \subseteq listing
    /\ \A c \in listing \ names, d \in names : d < c

-----------------------------------------------------------------------------
(* Reading the directory.                                                   *)

HasManifest(f) == manifest[f].names # {}

\* Mutant: the saved names are not compared with the listing.
AnyNamesResumable(f, listing) ==
    HasManifest(f) /\ f \in present /\ Len(data[f]) >= manifest[f].nbytes

\* _resume_state: the manifest of f, if f can be extended in place.
Resumable(f, listing) ==
    /\ HasManifest(f)
    /\ IsPrefixOf(manifest[f].names, listing)
    /\ f \in present
    /\ Len(data[f]) >= manifest[f].nbytes

\* The committed rows a reader that respects the manifest sees.
Readable(f) == HasManifest(f) /\ f \in present /\ Len(data[f]) >= manifest[f].nbytes
Committed(f) == Take(data[f], manifest[f].nbytes)

Init ==
    /\ staged = {}
    /\ present = {}
    /\ data = [f \in Files |-> <<>>]
    /\ synced = [f \in Files |-> 0]
    /\ manifest = [f \in Files |-> NoManifest]
    /\ pc = "idle"
    /\ plan = NoPlan
    /\ writer = NoWriter

-----------------------------------------------------------------------------
(* The stage: chunks are uploaded, in any order, and removed.               *)

Upload(c) ==
    /\ c \notin staged
    /\ staged' = staged \cup {c}
    /\ UNCHANGED <<disk, pc, plan, writer>>

Remove(c) ==
    /\ c \in staged
    /\ staged' = staged \ {c}
    /\ UNCHANGED <<disk, pc, plan, writer>>

-----------------------------------------------------------------------------
(* Planning and preparing.                                                  *)

Resume(f) ==
    [names |-> manifest[f].names, skipped |-> manifest[f].skipped,
     offset |-> manifest[f].nbytes, recorded |-> manifest[f].names,
     refetched |-> FALSE, after |-> "next"]

Begin(f, promote, strict, first, w) ==
    /\ pc' = first
    /\ plan' = [listing |-> staged, file |-> f, promote |-> promote, strict |-> strict]
    /\ writer' = w

\* _plan_gzip_download, with the branch of _prepare_gzip_plan it leads to.
Start(resume, strict) ==
    /\ pc = "idle"
    /\ staged # {}
    /\ \/ /\ resume /\ Resumable("dest", staged)
          /\ Begin("dest", FALSE, strict, "clearManifest", Resume("dest"))
       \/ /\ resume /\ ~Resumable("dest", staged) /\ Resumable("partial", staged)
          /\ Begin("partial", TRUE, strict, "open", Resume("partial"))
       \/ /\ ~(resume /\ (Resumable("dest", staged) \/ Resumable("partial", staged)))
          /\ Begin("partial", TRUE, strict, "clearManifest", NoWriter)
    /\ UNCHANGED <<staged, disk>>

ClearManifest ==
    /\ pc = "clearManifest"
    /\ manifest' = [manifest EXCEPT !["partial"] = NoManifest]
    /\ pc' = IF plan.promote THEN "open" ELSE "clearPartial"
    /\ UNCHANGED <<staged, present, data, synced, plan, writer>>

\* _already_committed: nothing to write, the file is left alone.
AlreadyCommitted ==
    /\ writer.names = plan.listing
    /\ ~plan.promote
    /\ Len(data["dest"]) = writer.offset

Stop == pc' = "idle" /\ plan' = NoPlan /\ writer' = NoWriter

ClearPartial ==
    /\ pc = "clearPartial"
    /\ present' = present \ {"partial"}
    /\ data' = [data EXCEPT !["partial"] = <<>>]
    /\ synced' = [synced EXCEPT !["partial"] = 0]
    /\ \/ AlreadyCommitted /\ Stop
       \/ ~AlreadyCommitted /\ pc' = "open" /\ UNCHANGED <<plan, writer>>
    /\ UNCHANGED <<staged, manifest>>

-----------------------------------------------------------------------------
(* The writer.                                                              *)

\* truncate(offset): whatever follows the chunks fully appended is dropped.
Cut(f, n) ==
    /\ data' = [data EXCEPT ![f] = Take(data[f], n)]
    /\ synced' = [synced EXCEPT ![f] = IF synced[f] > n THEN n ELSE synced[f]]

Open ==
    /\ pc = "open"
    /\ present' = present \cup {plan.file}
    /\ Cut(plan.file, writer.offset)
    /\ pc' = "next"
    /\ UNCHANGED <<staged, manifest, plan, writer>>

Pending == plan.listing \ writer.names
NextChunk == CHOOSE c \in Pending : \A d \in Pending : c <= d

\* _advance, first half: the chunk is accounted for.
Account(skip) ==
    writer' = [writer EXCEPT
        !.names = writer.names \cup {NextChunk},
        !.skipped = IF skip THEN writer.skipped \cup {NextChunk} ELSE writer.skipped,
        !.offset = Len(data'[plan.file]),
        !.refetched = FALSE]

\* The chunk was removed after it was listed.
Gone ==
    /\ pc = "next"
    /\ Pending # {}
    /\ NextChunk \notin staged
    /\ \/ plan.strict /\ pc' = "abort" /\ UNCHANGED <<data, writer>>
       \/ ~plan.strict /\ pc' = "advance" /\ UNCHANGED data /\ Account(TRUE)
    /\ UNCHANGED <<staged, present, synced, manifest, plan>>

\* ChunkWriter.append: decompression writes a row at a time.
StartAppend ==
    /\ pc = "next"
    /\ Pending # {}
    /\ data' = [data EXCEPT ![plan.file] = Append(@, Torn)]
    /\ pc' = "writing"
    /\ UNCHANGED <<staged, present, synced, manifest, plan, writer>>

EndAppend ==
    /\ pc = "writing"
    /\ data' = [data EXCEPT ![plan.file] = Take(@, writer.offset) \o Rows[NextChunk]]
    /\ Account(FALSE)
    /\ pc' = "advance"
    /\ UNCHANGED <<staged, present, synced, manifest, plan>>

\* The member would not decompress: roll back, fetch once more, then skip.
Damaged ==
    /\ pc = "writing"
    /\ Cut(plan.file, writer.offset)
    /\ \/ plan.strict /\ pc' = "abort" /\ UNCHANGED writer
       \/ /\ ~plan.strict /\ ~writer.refetched
          /\ pc' = "next" /\ writer' = [writer EXCEPT !.refetched = TRUE]
       \/ ~plan.strict /\ writer.refetched /\ pc' = "advance" /\ Account(TRUE)
    /\ UNCHANGED <<staged, present, manifest, plan>>

\* Any other failure of the fetch, the write or a checkpoint, and a cancellation.
\* (One in finish(), abort() or the promotion just ends the download: a Crash that
\* loses nothing.)
Fail ==
    /\ \/ pc \in {"next", "writing", "advance"}
       \/ pc \in {"sync", "record"} /\ writer.after = "next"
    /\ pc' = "abort"
    /\ UNCHANGED <<staged, disk, plan, writer>>

\* _advance, second half: a checkpoint is due, or (on the clock) taken early.
CheckpointDue ==
    LET pending == Cardinality(writer.names) - Cardinality(writer.recorded)
    IN  pending >= CheckpointChunks /\ pending >= Cardinality(writer.names) \div 10

Checkpoint(after) ==
    /\ pc' = "sync"
    /\ writer' = [writer EXCEPT !.after = after]

Advance ==
    /\ pc = "advance"
    /\ \/ Checkpoint("next")
       \/ ~CheckpointDue /\ pc' = "next" /\ UNCHANGED writer
    /\ UNCHANGED <<staged, disk, plan>>

\* Mutant: the file is finished while chunks are missing.
FinishEarly ==
    /\ pc = "next"
    /\ Cut(plan.file, writer.offset)
    /\ Checkpoint("finish")
    /\ UNCHANGED <<staged, present, manifest, plan>>

Finish ==
    /\ pc = "next"
    /\ Pending = {}
    /\ Cut(plan.file, writer.offset)
    /\ Checkpoint("finish")
    /\ UNCHANGED <<staged, present, manifest, plan>>

Abort ==
    /\ pc = "abort"
    /\ Cut(plan.file, writer.offset)
    /\ Checkpoint("abort")
    /\ UNCHANGED <<staged, present, manifest, plan>>

\* Mutant: the manifest is written without waiting for the data.
SyncNothing ==
    /\ pc = "sync"
    /\ pc' = "record"
    /\ UNCHANGED <<staged, disk, plan, writer>>

\* checkpoint(): fsync the data, then replace the manifest.
Sync ==
    /\ pc = "sync"
    /\ synced' = [synced EXCEPT ![plan.file] = Len(data[plan.file])]
    /\ pc' = "record"
    /\ UNCHANGED <<staged, present, data, manifest, plan, writer>>

Record ==
    /\ pc = "record"
    /\ manifest' =
           IF writer.names = writer.recorded THEN manifest
           ELSE [manifest EXCEPT ![plan.file] =
                     [names |-> writer.names, nbytes |-> writer.offset,
                      skipped |-> writer.skipped]]
    /\ \/ /\ writer.after = "next"
          /\ pc' = "next"
          /\ writer' = [writer EXCEPT !.recorded = writer.names]
          /\ UNCHANGED plan
       \/ /\ writer.after = "finish" /\ plan.promote
          /\ pc' = "unlinkDest"
          /\ writer' = [writer EXCEPT !.recorded = writer.names]
          /\ UNCHANGED plan
       \/ writer.after = "finish" /\ ~plan.promote /\ Stop
       \/ writer.after = "abort" /\ pc' = "drop" /\ UNCHANGED <<plan, writer>>
    /\ UNCHANGED <<staged, present, data, synced>>

\* The end of abort(): an empty first attempt leaves no file.
Drop ==
    /\ pc = "drop"
    /\ \/ /\ writer.names = {} /\ writer.offset = 0
          /\ present' = present \ {plan.file}
          /\ data' = [data EXCEPT ![plan.file] = <<>>]
          /\ synced' = [synced EXCEPT ![plan.file] = 0]
       \/ ~(writer.names = {} /\ writer.offset = 0) /\ UNCHANGED <<present, data, synced>>
    /\ Stop
    /\ UNCHANGED <<staged, manifest>>

-----------------------------------------------------------------------------
(* _promote_partial: three renames, and a crash may fall between any two.   *)

\* Mutant: the old manifest stays while the data is replaced.
KeepDestManifest ==
    /\ pc = "unlinkDest"
    /\ pc' = "replaceDest"
    /\ UNCHANGED <<staged, disk, plan, writer>>

UnlinkDest ==
    /\ pc = "unlinkDest"
    /\ manifest' = [manifest EXCEPT !["dest"] = NoManifest]
    /\ pc' = "replaceDest"
    /\ UNCHANGED <<staged, present, data, synced, plan, writer>>

ReplaceDest ==
    /\ pc = "replaceDest"
    /\ present' = {"dest"}
    /\ data' = [data EXCEPT !["dest"] = data["partial"], !["partial"] = <<>>]
    /\ synced' = [synced EXCEPT !["dest"] = synced["partial"], !["partial"] = 0]
    /\ pc' = "replaceManifest"
    /\ UNCHANGED <<staged, manifest, plan, writer>>

ReplaceManifest ==
    /\ pc = "replaceManifest"
    /\ manifest' = [manifest EXCEPT !["dest"] = manifest["partial"],
                                    !["partial"] = NoManifest]
    /\ Stop
    /\ UNCHANGED <<staged, present, data, synced>>

-----------------------------------------------------------------------------
(* compact_window: committed rows before the cut are dropped, the data file *)
(* first and the manifest after it.                                         *)

\* Mutant: the uncommitted tail is copied too.
CompactWithTail(cut) ==
    /\ pc = "idle"
    /\ Readable("dest")
    /\ cut > 0 /\ cut < manifest["dest"].nbytes
    /\ data' = [data EXCEPT !["dest"] = SubSeq(@, cut + 1, Len(@))]
    /\ synced' = [synced EXCEPT !["dest"] = Len(data["dest"]) - cut]
    /\ writer' = [Resume("dest") EXCEPT !.offset = manifest["dest"].nbytes - cut]
    /\ pc' = "compacted"
    /\ UNCHANGED <<staged, present, manifest, plan>>

\* Mutant: rows past the committed length place the cut.
CompactPastCommitted(cut) ==
    /\ pc = "idle"
    /\ Readable("dest")
    /\ cut > 0 /\ cut <= Len(data["dest"])
    /\ data' = [data EXCEPT !["dest"] = SubSeq(@, cut + 1, Len(@))]
    /\ synced' = [synced EXCEPT !["dest"] = Len(data["dest"]) - cut]
    /\ writer' = [Resume("dest") EXCEPT !.offset = manifest["dest"].nbytes - cut]
    /\ pc' = "compacted"
    /\ UNCHANGED <<staged, present, manifest, plan>>

Compact(cut) ==
    /\ pc = "idle"
    /\ Readable("dest")
    /\ cut > 0 /\ cut < manifest["dest"].nbytes
    /\ data' = [data EXCEPT !["dest"] = SubSeq(@, cut + 1, manifest["dest"].nbytes)]
    /\ synced' = [synced EXCEPT !["dest"] = manifest["dest"].nbytes - cut]
    /\ writer' = [Resume("dest") EXCEPT !.offset = manifest["dest"].nbytes - cut]
    /\ pc' = "compacted"
    /\ UNCHANGED <<staged, present, manifest, plan>>

RecordCompacted ==
    /\ pc = "compacted"
    /\ manifest' = [manifest EXCEPT !["dest"].nbytes = writer.offset]
    /\ Stop
    /\ UNCHANGED <<staged, present, data, synced>>

-----------------------------------------------------------------------------
(* The process is killed or the machine loses power: each file keeps the    *)
(* rows that were fsynced and any number of those that were not.            *)

Crash ==
    /\ \E kept \in [Files -> 0..Len(data["dest"]) + Len(data["partial"])] :
           /\ \A f \in Files : synced[f] <= kept[f] /\ kept[f] <= Len(data[f])
           /\ data' = [f \in Files |-> Take(data[f], kept[f])]
           /\ synced' = kept
    /\ Stop
    /\ UNCHANGED <<staged, present, manifest>>

-----------------------------------------------------------------------------
\* The steps the code takes on its own once a download or compaction began.
Work ==
    \/ ClearManifest \/ ClearPartial \/ Open
    \/ StartAppend \/ EndAppend \/ Gone
    \/ Advance \/ Finish \/ Abort \/ Sync \/ Record \/ Drop
    \/ UnlinkDest \/ ReplaceDest \/ ReplaceManifest
    \/ RecordCompacted

Faults ==
    \/ Damaged \/ Fail \/ Crash
    \/ \E c \in Chunks : Upload(c) \/ Remove(c)

Next ==
    \/ \E resume, strict \in BOOLEAN : Start(resume, strict)
    \/ \E cut \in 1..Len(data["dest"]) : Compact(cut)
    \/ Work
    \/ Faults

Spec == Init /\ [][Next]_vars

\* A download that began runs on, and someone (a refresh of the tab, the command
\* run again) starts the next one.
FairSpec ==
    /\ Spec
    /\ WF_vars(Work)
    /\ WF_vars(\E resume, strict \in BOOLEAN : Start(resume, strict))

-----------------------------------------------------------------------------
(* Correctness.                                                             *)

\* The type of every variable: a manifest never counts a chunk as skipped without
\* naming it, and no file, compacted or not, is cut below zero rows.
TypeOK ==
    /\ staged \subseteq Chunks
    /\ present \subseteq Files
    /\ data \in [Files -> Seq(Nat)]
    /\ synced \in [Files -> Nat]
    /\ manifest \in [Files -> Manifests]
    /\ pc \in PCs
    /\ plan \in Plans
    /\ writer \in Writers

Increasing(rows) == \A i, j \in 1..Len(rows) : i < j => rows[i] < rows[j]

\* rows are the rows of S in stage order, without the ones before some point.
SuffixOf(rows, S) ==
    /\ Increasing(rows)
    /\ RangeOf(rows) \subseteq RowsOf(S)
    /\ rows = <<>> => RowsOf(S) = {}
    /\ \A r \in RowsOf(S) : (rows # <<>> /\ rows[1] <= r) => r \in RangeOf(rows)

\* What a manifest claims is what its file holds: the rows of every chunk it
\* names and did not skip, each once and in order, with at most the oldest rows
\* compacted away.  It holds for every reader at every instant, so no crash,
\* failed write, changed listing or compaction leaves a file that a resume would
\* extend in the wrong place (docstrings of ChunkWriter and compact_window).
CommittedIsStream ==
    \A f \in Files : Readable(f) =>
        SuffixOf(Committed(f), manifest[f].names \ manifest[f].skipped)

\* A manifest is replaced only after the rows it counts are fsynced, so a power
\* loss never takes back progress that was saved (docstring of ChunkWriter: "the
\* file may be longer than the manifest says but never shorter").
CrashKeepsProgress ==
    [][Crash => \A f \in Files : Readable(f) => Readable(f)']_vars

\* Until the three renames of a promotion the destination a reader had stays
\* readable, and the file that replaces it accounts for every chunk of the
\* listing it was planned under, its rows uncompacted (docstring of _download_gzip_artifacts: "replaced
\* only when every chunk is written").
ReplacedWhole ==
    [][(pc # "compacted" /\ ~Readable("dest") /\ Readable("dest")') =>
           /\ manifest'["dest"].names = plan.listing
           /\ RangeOf(Committed("dest")') =
                  RowsOf(manifest'["dest"].names \ manifest'["dest"].skipped)]_vars

\* The promise to whoever reads the destination by its manifest: CommittedRows.
\* A compaction cuts the data file first and its manifest a step later; the view is
\* the cut one from the first of them on, unless a crash leaves it without.
View ==
    IF Readable("dest") \/ pc = "compacted"
    THEN [names |-> manifest["dest"].names, skipped |-> manifest["dest"].skipped,
          rows |-> IF pc = "compacted" THEN data["dest"] ELSE Committed("dest")]
    ELSE [names |-> {}, skipped |-> {}, rows |-> <<>>]

Reader == INSTANCE CommittedRows WITH view <- View

\* Every step is one the reader was promised, or changes nothing for it.
ImplementsCommittedRows == Reader!Spec

\* What another program sees of the destination besides its rows and its manifest: the manifest
\* that will follow them, between the renames of a promotion and the two writes of a compaction.
Coming ==
    CASE pc = "replaceManifest" -> manifest["partial"]
      [] pc = "compacted" -> [manifest["dest"] EXCEPT !.nbytes = writer.offset]
      [] OTHER -> NoManifest

Visible == INSTANCE SavedFile WITH
    Lossy <- Chunks, rows <- data["dest"], manifest <- manifest["dest"], coming <- Coming

\* Whatever a download or a compaction does, and wherever it is stopped, another
\* program that opens the destination and its manifest sees no other changes than
\* those of SavedFile, on which the readers without a lock are judged.
ImplementsSavedFile == Visible!Spec

\* Once uploads, damage and crashes stop, downloads bring the destination up to
\* date with the stage again and again, whatever they left behind before.  (A crash
\* that ends a download just as its last step would is that step.)
Completes ==
    (<>[][Faults => Work]_vars) =>
        []<>(staged = {} \/ (Readable("dest") /\ manifest["dest"].names = staged))
=============================================================================
