----------------------------- MODULE SavedFile -----------------------------
(***************************************************************************)
(* The part of one sub-job's saved file that another program can see: its  *)
(* rows and its manifest, as the one download or compaction that holds the *)
(* directory changes them.  ArtifactResume implements this module; readers *)
(* that take no lock are composed with it in SavedReaders.                 *)
(***************************************************************************)
EXTENDS Naturals, Sequences, FiniteSets

CONSTANTS
    Chunks,   \* the chunks the job may ever upload for this sub-job
    Rows,     \* Rows[c]: the rows chunk c decompresses to
    Lossy     \* the chunks a download may skip as damaged or gone

LossyAssumption == Lossy \subseteq Chunks

VARIABLES
    rows,      \* the rows in the file, empty if there is none
    manifest,  \* the manifest beside it
    coming     \* the manifest about to be written for rows put in place, or None

saved == <<rows, manifest, coming>>

Torn == 0
None == [names |-> {}, nbytes |-> 0, skipped |-> {}]

RangeOf(s) == {s[i] : i \in DOMAIN s}
Take(s, n) == SubSeq(s, 1, n)

\* The rows of the chunks in S, in stage order.
RowsOf(S) ==
    LET all == UNION {RangeOf(Rows[c]) : c \in S}
    IN  CHOOSE s \in [1..Cardinality(all) -> all] :
            \A i, j \in DOMAIN s : i < j => s[i] < s[j]

After(names) == {c \in Chunks : \A d \in names : d < c}

\* _read_manifest: the manifest describes a complete file.
Readable == manifest.names # {} /\ Len(rows) >= manifest.nbytes
Committed == Take(rows, manifest.nbytes)

Init == rows = <<>> /\ manifest = None /\ coming = None

\* ChunkWriter appends the chunks in S after the committed rows, or cuts back to them.
Write(S, tail) ==
    /\ Readable /\ coming = None
    /\ rows' = Committed \o RowsOf(S) \o tail
    /\ UNCHANGED <<manifest, coming>>

\* checkpoint: the manifest counts the chunks in S, those in K as skipped.
Commit(S, K) ==
    /\ Readable /\ coming = None
    /\ LET now == Committed \o RowsOf(S \ K)
       IN  /\ Len(rows) >= Len(now) /\ Take(rows, Len(now)) = now
           /\ manifest' = [names |-> manifest.names \cup S, nbytes |-> Len(now),
                           skipped |-> manifest.skipped \cup K]
    /\ UNCHANGED <<rows, coming>>

\* _promote_partial: the old manifest goes, a complete file takes the place of the
\* old one, and its manifest follows.
Hide == manifest' = None /\ coming = None /\ UNCHANGED <<rows, coming>>

Promote(names, K) ==
    /\ manifest = None /\ coming = None
    /\ rows' = RowsOf(names \ K)
    /\ coming' = [names |-> names, nbytes |-> Len(rows'), skipped |-> K]
    /\ UNCHANGED manifest

\* compact_window: the rows before the cut go, then the manifest follows.
Compact ==
    /\ Readable /\ coming = None
    /\ \E cut \in 1..manifest.nbytes - 1 :
           /\ rows' = SubSeq(rows, cut + 1, manifest.nbytes)
           /\ coming' = [manifest EXCEPT !.nbytes = @ - cut]
    /\ UNCHANGED manifest

Describe == coming # None /\ manifest' = coming /\ coming' = None /\ UNCHANGED rows

\* The process is killed before it writes that manifest.
Stop == coming # None /\ coming' = None /\ UNCHANGED <<rows, manifest>>

\* A power loss takes rows that were not fsynced: never committed ones.
PowerLoss ==
    /\ \E n \in 0..Len(rows) :
           /\ Readable => n >= manifest.nbytes
           /\ rows' = Take(rows, n)
    /\ coming' = None
    /\ UNCHANGED manifest

Next ==
    \/ \E S \in SUBSET After(manifest.names) :
           \/ \E tail \in {<<>>, <<Torn>>} : Write(S, tail)
           \/ \E K \in SUBSET (S \cap Lossy) : S # {} /\ Commit(S, K)
    \/ \E names \in (SUBSET Chunks) \ {{}} :
           \E K \in SUBSET (names \cap Lossy) : Promote(names, K)
    \/ Hide \/ Compact \/ Describe \/ Stop \/ PowerLoss

Spec == Init /\ [][Next]_saved
=============================================================================
