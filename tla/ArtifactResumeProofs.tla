------------------------ MODULE ArtifactResumeProofs ------------------------
(* Proofs about ArtifactResume, for every set of chunks and every contents,  *)
(* and about the downloads that no lock guards, LogFiles and ExportFiles.    *)
EXTENDS ArtifactResume, SequenceTheorems, FiniteSetTheorems, WellFoundedInduction, TLAPS

(* Sequences of rows.                                                       *)

\* A prefix of a sequence has the length asked for and the same rows.
LEMMA TakeIs ==
    ASSUME NEW d \in Seq(Nat), NEW n \in 0..Len(d)
    PROVE  /\ Take(d, n) \in Seq(Nat)
           /\ Len(Take(d, n)) = n
           /\ \A i \in 1..n : Take(d, n)[i] = d[i]
  BY DEF Take

\* Two sequences of one length with the same rows are the same.
LEMMA SameRows ==
    ASSUME NEW s \in Seq(Nat), NEW t \in Seq(Nat), Len(s) = Len(t),
           \A i \in 1..Len(s) : s[i] = t[i]
    PROVE  s = t
  BY SeqEqual

\* Cutting a sequence at or after n keeps its first n rows.
LEMMA TakeOfTake ==
    ASSUME NEW d \in Seq(Nat), NEW k \in 0..Len(d), NEW n \in 0..k
    PROVE  Take(Take(d, k), n) = Take(d, n)
  <1> DEFINE s == Take(Take(d, k), n)
             t == Take(d, n)
  <1>1. s \in Seq(Nat) /\ t \in Seq(Nat) /\ Len(s) = n /\ Len(t) = n
    BY DEF Take
  <1>2. \A i \in 1..n : s[i] = t[i]
    BY DEF Take
  <1> HIDE DEF s, t
  <1>3. s = t
    BY <1>1, <1>2, SameRows
  <1> QED
    BY <1>3 DEF s, t

\* Adding rows at the end keeps the first n.
LEMMA TakeOfConcat ==
    ASSUME NEW d \in Seq(Nat), NEW e \in Seq(Nat), NEW n \in 0..Len(d)
    PROVE  Take(d \o e, n) = Take(d, n)
  <1> DEFINE s == Take(d \o e, n)
             t == Take(d, n)
  <1>1. s \in Seq(Nat) /\ t \in Seq(Nat) /\ Len(s) = n /\ Len(t) = n
    BY DEF Take
  <1>2. \A i \in 1..n : s[i] = t[i]
    BY DEF Take
  <1> HIDE DEF s, t
  <1>3. s = t
    BY <1>1, <1>2, SameRows
  <1> QED
    BY <1>3 DEF s, t

\* Adding one row at the end keeps the first n.
LEMMA TakeOfAppend ==
    ASSUME NEW d \in Seq(Nat), NEW x \in Nat, NEW n \in 0..Len(d)
    PROVE  Take(Append(d, x), n) = Take(d, n)
  <1> DEFINE s == Take(Append(d, x), n)
             t == Take(d, n)
  <1>1. s \in Seq(Nat) /\ t \in Seq(Nat) /\ Len(s) = n /\ Len(t) = n
    BY DEF Take
  <1>2. \A i \in 1..n : s[i] = t[i]
    BY DEF Take
  <1> HIDE DEF s, t
  <1>3. s = t
    BY <1>1, <1>2, SameRows
  <1> QED
    BY <1>3 DEF s, t

\* The first rows, all of them, are the sequence.
LEMMA TakeAll ==
    ASSUME NEW d \in Seq(Nat)
    PROVE  Take(d, Len(d)) = d
  BY SubSeqFull DEF Take

\* The rows from one place to the end of a prefix.
LEMMA SubSeqOfTake ==
    ASSUME NEW d \in Seq(Nat), NEW n \in 0..Len(d), NEW cut \in 1..(n - 1)
    PROVE  /\ SubSeq(d, cut + 1, n) \in Seq(Nat)
           /\ Len(SubSeq(d, cut + 1, n)) = n - cut
           /\ SubSeq(d, cut + 1, n) = SubSeq(Take(d, n), cut + 1, n)
  <1> DEFINE s == SubSeq(d, cut + 1, n)
             t == SubSeq(Take(d, n), cut + 1, n)
  <1>1. s \in Seq(Nat) /\ Len(s) = n - cut
    BY SubSeqProperties
  <1>2. Take(d, n) \in Seq(Nat) /\ Len(Take(d, n)) = n /\ \A i \in 1..n : Take(d, n)[i] = d[i]
    BY TakeIs
  <1>3. t \in Seq(Nat) /\ Len(t) = n - cut
    BY <1>2, SubSeqProperties
  <1>4. ASSUME NEW i \in 1..(n - cut)
        PROVE  s[i] = t[i]
    <2>1. cut + i \in 1..n /\ cut + i = cut + 1 + i - 1
      OBVIOUS
    <2>2. s[i] = d[cut + i]
      BY <2>1
    <2>3. t[i] = Take(d, n)[cut + i]
      BY <1>2, <2>1
    <2> QED
      BY <1>2, <2>1, <2>2, <2>3
  <1> HIDE DEF s, t
  <1>5. s = t
    BY <1>1, <1>3, <1>4, SameRows
  <1> QED
    BY <1>1, <1>5 DEF s, t

(* Runs of rows that are the end of the stage's.                            *)

\* The empty file is the rows of no chunk.
LEMMA SuffixOfNothing == SuffixOf(<<>>, {})
  BY DEF SuffixOf, Increasing, RangeOf, RowsOf

\* Appending the chunk after those of S makes a file of S and that chunk.
LEMMA SuffixAppend ==
    ASSUME NEW S \in SUBSET Chunks, NEW c \in Chunks, \A d \in S : d < c,
           NEW rows \in Seq(Nat), SuffixOf(rows, S)
    PROVE  SuffixOf(rows \o Rows[c], S \cup {c})
  <1> DEFINE new == rows \o Rows[c]
  <1>1. Rows[c] \in Seq(Nat \ {0})
    BY RowsAssumption
  <1>2. /\ Len(new) = Len(rows) + Len(Rows[c])
        /\ \A i \in 1..Len(rows) : new[i] = rows[i]
        /\ \A i \in 1..Len(Rows[c]) : new[Len(rows) + i] = Rows[c][i]
        /\ \A i \in 1..Len(new) : i > Len(rows) =>
               i - Len(rows) \in 1..Len(Rows[c]) /\ new[i] = Rows[c][i - Len(rows)]
    BY <1>1
  <1>3. RangeOf(new) = RangeOf(rows) \cup RangeOf(Rows[c])
    <2>1. RangeOf(new) \subseteq RangeOf(rows) \cup RangeOf(Rows[c])
      BY <1>2 DEF RangeOf
    <2>2. RangeOf(rows) \subseteq RangeOf(new)
      BY <1>1, <1>2 DEF RangeOf
    <2>3. RangeOf(Rows[c]) \subseteq RangeOf(new)
      <3>1. SUFFICES ASSUME NEW i \in 1..Len(Rows[c])
                     PROVE  Rows[c][i] \in RangeOf(new)
        BY DEF RangeOf
      <3>2. Len(rows) + i \in 1..Len(new) /\ new[Len(rows) + i] = Rows[c][i]
        BY <1>1, <1>2
      <3> QED
        BY <3>2 DEF RangeOf
    <2> QED
      BY <2>1, <2>2, <2>3
  <1>4. RowsOf(S \cup {c}) = RowsOf(S) \cup RangeOf(Rows[c])
    BY DEF RowsOf
  <1>5. \A r \in RowsOf(S), q \in RangeOf(Rows[c]) : r < q
    BY RowsAssumption DEF RowsOf, RangeOf
  <1>6. RowsOf(S) \subseteq Nat /\ RangeOf(Rows[c]) \subseteq Nat
    BY RowsAssumption DEF RowsOf, RangeOf
  <1>7. Increasing(new)
    <2>1. SUFFICES ASSUME NEW i \in 1..Len(new), NEW j \in 1..Len(new), i < j
                   PROVE  new[i] < new[j]
      BY DEF Increasing
    <2>2. CASE j <= Len(rows)
      BY <1>2, <2>1, <2>2 DEF SuffixOf, Increasing
    <2>3. CASE i > Len(rows)
      <3>1. /\ i - Len(rows) \in 1..Len(Rows[c]) /\ new[i] = Rows[c][i - Len(rows)]
            /\ j - Len(rows) \in 1..Len(Rows[c]) /\ new[j] = Rows[c][j - Len(rows)]
        BY <1>2, <2>1, <2>3
      <3>2. i - Len(rows) < j - Len(rows)
        BY <2>1
      <3>3. \A k, l \in 1..Len(Rows[c]) : k < l => Rows[c][k] < Rows[c][l]
        BY RowsAssumption
      <3> QED
        BY <3>1, <3>2, <3>3
    <2>4. CASE i <= Len(rows) /\ j > Len(rows)
      <3>1. new[i] \in RowsOf(S)
        BY <1>2, <2>4 DEF SuffixOf, RangeOf
      <3>2. new[j] \in RangeOf(Rows[c])
        BY <1>2, <2>4 DEF RangeOf
      <3> QED
        BY <3>1, <3>2, <1>5
    <2> QED
      BY SMTT(20), <2>2, <2>3, <2>4, <1>1, <1>2
  <1>8. RangeOf(new) \subseteq RowsOf(S \cup {c})
    BY <1>3, <1>4 DEF SuffixOf
  <1>9. new = <<>> => RowsOf(S \cup {c}) = {}
    <2>1. SUFFICES ASSUME new = <<>>
                   PROVE  RowsOf(S \cup {c}) = {}
      OBVIOUS
    <2>2. Len(rows) = 0 /\ Len(Rows[c]) = 0
      BY <2>1, <1>1, <1>2
    <2>3. rows = <<>> /\ RangeOf(Rows[c]) = {}
      BY <2>2 DEF RangeOf
    <2> QED
      BY <2>3, <1>4 DEF SuffixOf
  <1>10. ASSUME NEW r \in RowsOf(S \cup {c}), new # <<>>, new[1] <= r
         PROVE  r \in RangeOf(new)
    <2>1. CASE r \in RangeOf(Rows[c])
      BY <2>1, <1>3
    <2>2. CASE r \in RowsOf(S)
      <3>1. rows # <<>> /\ rows[1] = new[1]
        BY <2>2, <1>1, <1>2 DEF SuffixOf
      <3> QED
        BY <3>1, <2>2, <1>3, <1>10 DEF SuffixOf
    <2> QED
      BY <2>1, <2>2, <1>4
  <1> QED
    BY <1>7, <1>8, <1>9, <1>10 DEF SuffixOf

\* Dropping oldest rows, but not the newest, leaves the end of the stage's rows.
LEMMA SuffixTrim ==
    ASSUME NEW S \in SUBSET Chunks, NEW rows \in Seq(Nat), SuffixOf(rows, S),
           NEW cut \in 1..(Len(rows) - 1)
    PROVE  SuffixOf(SubSeq(rows, cut + 1, Len(rows)), S)
  <1> DEFINE new == SubSeq(rows, cut + 1, Len(rows))
  <1>1. /\ new \in Seq(Nat)
        /\ Len(new) = Len(rows) - cut
        /\ \A i \in 1..Len(new) : new[i] = rows[cut + i] /\ cut + i \in 1..Len(rows)
    BY SubSeqProperties
  <1>2. Increasing(new)
    BY <1>1 DEF SuffixOf, Increasing
  <1>3. RangeOf(new) \subseteq RangeOf(rows)
    BY <1>1 DEF RangeOf
  <1>4. new # <<>>
    <2>1. Len(new) # 0
      BY <1>1
    <2> HIDE DEF new
    <2> QED
      BY <2>1, <1>1
  <1>5. ASSUME NEW r \in RowsOf(S), new[1] <= r
        PROVE  r \in RangeOf(new)
    <2>1. new[1] = rows[cut + 1] /\ cut + 1 \in 1..Len(rows)
      BY <1>1
    <2>2. rows[1] < rows[cut + 1]
      BY <2>1 DEF SuffixOf, Increasing
    <2>3. r \in Nat
      BY RowsAssumption DEF RowsOf, RangeOf
    <2>4. r \in RangeOf(rows)
      BY <2>1, <2>2, <2>3, <1>5, <1>4 DEF SuffixOf
    <2>5. PICK j \in 1..Len(rows) : r = rows[j]
      BY <2>4 DEF RangeOf
    <2>6. j >= cut + 1
      BY <2>5, <2>1, <1>5 DEF SuffixOf, Increasing
    <2>7. j - cut \in 1..Len(new) /\ new[j - cut] = rows[j]
      BY <2>6, <1>1
    <2> QED
      BY <2>5, <2>7 DEF RangeOf
  <1> QED
    BY <1>2, <1>3, <1>4, <1>5 DEF SuffixOf

(* The order of chunks.                                                     *)

\* A non-empty set of chunks has a first one, and CHOOSE finds it.
LEMMA FirstChunk ==
    ASSUME NEW T \in SUBSET Chunks, T # {}
    PROVE  LET c == CHOOSE c \in T : \A d \in T : c <= d
           IN  c \in T /\ \A d \in T : c <= d
  <1>1. T \subseteq Nat
    BY ChunksAssumption
  <1>2. \E c \in T : \A d \in T : ~(<<d, c>> \in OpToRel(<, Nat))
    BY <1>1, NatLessThanWellFounded, WFMin
  <1>3. \E c \in T : \A d \in T : c <= d
    <2>1. PICK c \in T : \A d \in T : ~(<<d, c>> \in OpToRel(<, Nat))
      BY <1>2
    <2>2. ASSUME NEW d \in T
          PROVE  c <= d
      <3>1. <<d, c>> \in Nat \X Nat
        BY <1>1
      <3>2. ~(d < c)
        BY <2>1, <3>1 DEF OpToRel
      <3> QED
        BY <1>1, <3>2
    <2> QED
      BY <2>2
  <1> QED
    BY <1>3

(* One manifest and one file.                                               *)

\* If the file is as long as the manifest says, its committed rows are those of the
\* chunks accounted for, and they are on the disk.
Holds(m, d, s) ==
    m.names # {} /\ m.nbytes <= Len(d) =>
        /\ SuffixOf(Take(d, m.nbytes), m.names \ m.skipped)
        /\ m.nbytes <= s

\* Cutting a file, by a truncation or a power loss, keeps what its manifest claims or
\* leaves the file shorter than that.
LEMMA HoldsCut ==
    ASSUME NEW m \in Manifests, NEW d \in Seq(Nat), NEW s \in Nat, Holds(m, d, s),
           NEW n \in 0..Len(d), NEW t \in Nat, n <= t \/ s <= t
    PROVE  Holds(m, Take(d, n), t)
  <1>1. SUFFICES ASSUME m.names # {}, m.nbytes <= Len(Take(d, n))
                 PROVE  /\ SuffixOf(Take(Take(d, n), m.nbytes), m.names \ m.skipped)
                        /\ m.nbytes <= t
    BY DEF Holds
  <1>2. m.nbytes \in Nat /\ m.nbytes <= n
    BY <1>1, TakeIs DEF Manifests
  <1>3. Take(Take(d, n), m.nbytes) = Take(d, m.nbytes)
    BY <1>2, TakeOfTake
  <1> QED
    BY <1>1, <1>2, <1>3 DEF Holds

\* Writing after the committed rows keeps them.
LEMMA HoldsGrow ==
    ASSUME NEW m \in Manifests, NEW d \in Seq(Nat), NEW s \in Nat, Holds(m, d, s),
           NEW e \in Seq(Nat), NEW n \in 0..Len(d), n <= Len(e), Take(e, n) = Take(d, n),
           m.names # {} => m.nbytes <= n
    PROVE  Holds(m, e, s)
  <1>1. SUFFICES ASSUME m.names # {}
                 PROVE  /\ SuffixOf(Take(e, m.nbytes), m.names \ m.skipped)
                        /\ m.nbytes <= s
    BY DEF Holds
  <1>2. m.nbytes \in 0..n
    BY <1>1 DEF Manifests
  <1>3. Take(e, m.nbytes) = Take(Take(e, n), m.nbytes)
    BY <1>2, TakeOfTake
  <1>4. Take(d, m.nbytes) = Take(Take(d, n), m.nbytes)
    BY <1>2, TakeOfTake
  <1> QED
    BY <1>1, <1>2, <1>3, <1>4 DEF Holds

(* The inductive invariant.                                                 *)

Sound == \A f \in Files : Holds(manifest[f], data[f], synced[f])

\* The download under way would continue its file in the right place.
Planned ==
    pc \in Preparing \cup Writing =>
        /\ plan.promote <=> plan.file = "partial"
        /\ IsPrefixOf(writer.names, plan.listing)
        /\ writer.offset <= Len(data[plan.file])
        /\ SuffixOf(Take(data[plan.file], writer.offset), writer.names \ writer.skipped)
        /\ pc = "clearPartial" => plan.file = "dest"
        /\ pc = "writing" => Pending # {}

\* It never truncates below what the manifest beside its file claims.
Extends ==
    /\ pc \in Writing \cup {"clearPartial"} \/ (pc = "clearManifest" /\ ~plan.promote)
    /\ HasManifest(plan.file)
    => /\ manifest[plan.file].nbytes <= writer.offset
       /\ manifest[plan.file].nbytes <= synced[plan.file]

AtEnd ==
    /\ pc \in {"next", "advance", "sync", "record", "drop"} =>
           Len(data[plan.file]) = writer.offset
    /\ pc = "record" => synced[plan.file] = writer.offset

\* Between the renames of a promotion, and between the two writes of a compaction.
Moved ==
    /\ pc \in {"replaceDest", "replaceManifest"} => ~HasManifest("dest")
    /\ pc = "replaceManifest" =>
           Holds(manifest["partial"], data["dest"], synced["dest"])

Compacted ==
    pc = "compacted" =>
        /\ writer.offset = Len(data["dest"])
        /\ writer.offset = synced["dest"]
        /\ writer.offset < manifest["dest"].nbytes
        /\ SuffixOf(data["dest"], manifest["dest"].names \ manifest["dest"].skipped)

IInv ==
    /\ TypeOK
    /\ Sound
    /\ Planned
    /\ Extends
    /\ AtEnd
    /\ Moved
    /\ Compacted

\* With nothing on disk, there is nothing to be wrong about.
LEMMA InitIInv == Init => IInv
  <1> SUFFICES ASSUME Init PROVE IInv
    OBVIOUS
  <1>1. TypeOK
    BY DEF Init, TypeOK, Files, Manifests, NoManifest, PCs, Plans, NoPlan, Writers, NoWriter
  <1>2. Sound
    BY DEF Init, Sound, Holds, Files, NoManifest
  <1> QED
    BY <1>1, <1>2 DEF Init, IInv, Planned, Extends, AtEnd, Moved, Compacted, Preparing, Writing

\* The next chunk comes after every chunk accounted for.
LEMMA NextChunkIs ==
    ASSUME TypeOK, IsPrefixOf(writer.names, plan.listing), Pending # {}
    PROVE  /\ NextChunk \in Chunks
           /\ NextChunk \in Pending
           /\ \A c \in writer.names : c < NextChunk
           /\ IsPrefixOf(writer.names \cup {NextChunk}, plan.listing)
  <1>1. plan.listing \in SUBSET Chunks /\ writer.names \in SUBSET Chunks
    BY DEF TypeOK, Plans, Writers
  <1>2. Pending \in SUBSET Chunks
    BY <1>1 DEF Pending
  <1>3. NextChunk \in Pending /\ \A d \in Pending : NextChunk <= d
    BY <1>2, FirstChunk DEF NextChunk
  <1>4. \A c \in writer.names : c < NextChunk
    BY <1>3 DEF IsPrefixOf, Pending
  <1>5. ASSUME NEW c \in plan.listing \ (writer.names \cup {NextChunk}),
               NEW d \in writer.names \cup {NextChunk}
        PROVE  d < c
    <2>1. c \in Pending /\ c \in Nat /\ NextChunk \in Nat
      BY <1>2, <1>3, <1>1, ChunksAssumption DEF Pending
    <2>2. NextChunk <= c /\ c # NextChunk
      BY <1>3, <2>1
    <2>3. CASE d = NextChunk
      BY <2>1, <2>2, <2>3
    <2>4. CASE d \in writer.names
      BY <2>4 DEF IsPrefixOf
    <2> QED
      BY <2>3, <2>4
  <1> QED
    BY <1>2, <1>3, <1>4, <1>5 DEF IsPrefixOf, Pending

\* A file that can be resumed holds what its manifest claims.
LEMMA ResumableHolds ==
    ASSUME Sound, NEW f \in Files, Resumable(f, staged)
    PROVE  /\ IsPrefixOf(Resume(f).names, staged)
           /\ Resume(f).offset = manifest[f].nbytes
           /\ Resume(f).offset <= Len(data[f])
           /\ SuffixOf(Take(data[f], Resume(f).offset), Resume(f).names \ Resume(f).skipped)
           /\ manifest[f].nbytes <= synced[f]
  BY DEF Sound, Holds, Resumable, HasManifest, Resume

\* A plan continues a file at its committed length, or a new one at none.
LEMMA StartIInv ==
    ASSUME IInv, NEW resume \in BOOLEAN, NEW strict \in BOOLEAN, Start(resume, strict)
    PROVE  IInv'
  <1> USE DEF IInv
  <1>0. pc = "idle" /\ UNCHANGED <<staged, present, data, synced, manifest>>
    BY DEF Start, disk
  <1>1. CASE resume /\ Resumable("dest", staged)
             /\ Begin("dest", FALSE, strict, "clearManifest", Resume("dest"))
    <2>1. TypeOK'
      BY <1>0, <1>1 DEF TypeOK, Begin, Resume, Plans, Writers, Manifests, Files, PCs, Preparing
    <2>2. Sound'
      BY <1>0 DEF Sound, Holds
    <2>3. /\ plan'.file = "dest" /\ plan'.promote = FALSE /\ plan'.listing = staged
          /\ pc' = "clearManifest" /\ writer' = Resume("dest")
      BY <1>1 DEF Begin
    <2>4. /\ IsPrefixOf(writer'.names, staged)
          /\ writer'.offset = manifest["dest"].nbytes
          /\ writer'.offset <= Len(data["dest"])
          /\ SuffixOf(Take(data["dest"], writer'.offset), writer'.names \ writer'.skipped)
          /\ manifest["dest"].nbytes <= synced["dest"]
      BY <2>3, <1>1, ResumableHolds DEF Files
    <2>5. Planned'
      BY <1>0, <2>3, <2>4 DEF Planned
    <2>6. Extends'
      <3>1. manifest["dest"].nbytes \in Nat
        BY DEF TypeOK, Manifests, Files
      <3> QED
        BY <1>0, <2>3, <2>4, <3>1 DEF Extends
    <2> QED
      BY <1>0, <1>1, <2>1, <2>2, <2>3, <2>5, <2>6 DEF AtEnd, Moved, Compacted, Begin
  <1>2. CASE Resumable("partial", staged)
             /\ Begin("partial", TRUE, strict, "open", Resume("partial"))
    <2>1. TypeOK'
      BY <1>0, <1>2 DEF TypeOK, Begin, Resume, Plans, Writers, Manifests, Files, PCs, Writing
    <2>2. Sound'
      BY <1>0 DEF Sound, Holds
    <2>3. /\ plan'.file = "partial" /\ plan'.promote = TRUE /\ plan'.listing = staged
          /\ pc' = "open" /\ writer' = Resume("partial")
      BY <1>2 DEF Begin
    <2>4. /\ IsPrefixOf(writer'.names, staged)
          /\ writer'.offset = manifest["partial"].nbytes
          /\ writer'.offset <= Len(data["partial"])
          /\ SuffixOf(Take(data["partial"], writer'.offset), writer'.names \ writer'.skipped)
          /\ manifest["partial"].nbytes <= synced["partial"]
      BY <2>3, <1>2, ResumableHolds DEF Files
    <2>5. Planned'
      BY <1>0, <2>3, <2>4 DEF Planned
    <2>6. Extends'
      <3>1. manifest["partial"].nbytes \in Nat
        BY DEF TypeOK, Manifests, Files
      <3> QED
        BY <1>0, <2>3, <2>4, <3>1 DEF Extends
    <2> QED
      BY <1>0, <1>2, <2>1, <2>2, <2>3, <2>5, <2>6 DEF AtEnd, Moved, Compacted, Begin
  <1>3. CASE Begin("partial", TRUE, strict, "clearManifest", NoWriter)
    <2>1. TypeOK'
      BY <1>0, <1>3 DEF TypeOK, Begin, NoWriter, Plans, Writers, Files, PCs, Preparing
    <2>2. Sound'
      BY <1>0 DEF Sound, Holds
    <2>3. Planned'
      <3>1. data["partial"] \in Seq(Nat)
        BY DEF TypeOK, Files
      <3>2. Take(data["partial"], 0) = <<>> /\ 0 <= Len(data["partial"])
        BY <3>1 DEF Take
      <3>3. IsPrefixOf({}, staged)
        BY DEF IsPrefixOf
      <3> QED
        BY <1>0, <1>3, <3>2, <3>3, SuffixOfNothing DEF Planned, Begin, NoWriter
    <2> QED
      BY <1>0, <1>3, <2>1, <2>2, <2>3 DEF Extends, AtEnd, Moved, Compacted, Begin, Writing
  <1> QED
    BY <1>1, <1>2, <1>3 DEF Start

\* A manifest that is removed claims nothing.
LEMMA ClearManifestIInv ==
    ASSUME IInv, ClearManifest
    PROVE  IInv'
  <1> USE DEF IInv
  <1>1. /\ pc = "clearManifest" /\ pc' \in {"open", "clearPartial"}
        /\ manifest' = [manifest EXCEPT !["partial"] = NoManifest]
        /\ UNCHANGED <<staged, present, data, synced, plan, writer>>
        /\ pc' = "open" => plan.promote
        /\ pc' = "clearPartial" => ~plan.promote
    BY DEF ClearManifest
  <1>2. TypeOK'
    BY <1>1 DEF TypeOK, Manifests, NoManifest, Files, PCs, Preparing, Writing
  <1>3. manifest'["partial"].names = {} /\ manifest'["dest"] = manifest["dest"]
    BY <1>1 DEF TypeOK, NoManifest, Files
  <1>4. Sound'
    BY <1>1, <1>3 DEF Sound, Holds, Files
  <1>5. Planned'
    <2>1. pc' = "clearPartial" => plan.file = "dest"
      BY <1>1 DEF Planned, Preparing, Files, TypeOK, Plans
    <2> QED
      BY <1>1, <2>1 DEF Planned, Preparing, Writing
  <1>6. Extends'
    <2>1. CASE plan.promote
      BY <1>1, <1>3, <2>1 DEF Extends, HasManifest, Planned, Preparing
    <2>2. CASE ~plan.promote
      <3>1. plan.file = "dest"
        BY <1>1, <2>2 DEF Planned, Preparing, Files, TypeOK, Plans
      <3> QED
        BY <1>1, <1>3, <2>2, <3>1 DEF Extends, HasManifest
    <2> QED
      BY <2>1, <2>2
  <1> QED
    BY <1>1, <1>2, <1>4, <1>5, <1>6 DEF AtEnd, Moved, Compacted

\* Dropping a file whole is cutting it to nothing.
LEMMA EmptyHolds ==
    ASSUME NEW m \in Manifests, NEW d \in Seq(Nat), NEW s \in Nat, Holds(m, d, s)
    PROVE  Holds(m, <<>>, 0)
  <1>1. Take(d, 0) = <<>>
    BY DEF Take
  <1> QED
    BY <1>1, HoldsCut

\* With nothing under way, only Sound is left to show.
LEMMA IdleIInv ==
    ASSUME TypeOK', Sound', Stop
    PROVE  IInv'
  BY DEF IInv, Stop, Planned, Extends, AtEnd, Moved, Compacted, Preparing, Writing

\* An actor that stops leaves the types of its variables.
LEMMA StopType ==
    ASSUME Stop
    PROVE  pc' \in PCs /\ plan' \in Plans /\ writer' \in Writers
  BY DEF Stop, PCs, NoPlan, NoWriter, Plans, Writers, Files

\* The stale partial file goes after its manifest, and the plan is for the other.
LEMMA ClearPartialIInv ==
    ASSUME IInv, ClearPartial
    PROVE  IInv'
  <1> USE DEF IInv
  <1>1. /\ pc = "clearPartial"
        /\ present' = present \ {"partial"}
        /\ data' = [data EXCEPT !["partial"] = <<>>]
        /\ synced' = [synced EXCEPT !["partial"] = 0]
        /\ UNCHANGED <<staged, manifest>>
    BY DEF ClearPartial
  <1>2. /\ data'["partial"] = <<>> /\ data'["dest"] = data["dest"]
        /\ synced'["partial"] = 0 /\ synced'["dest"] = synced["dest"]
    BY <1>1 DEF TypeOK, Files
  <1>3. /\ data' \in [Files -> Seq(Nat)] /\ synced' \in [Files -> Nat]
        /\ present' \subseteq Files /\ manifest' \in [Files -> Manifests]
        /\ staged' \subseteq Chunks
    BY <1>1 DEF TypeOK, Files
  <1>4. Sound'
    <2>1. Holds(manifest["partial"], <<>>, 0)
      BY EmptyHolds DEF Sound, TypeOK, Files
    <2> QED
      BY <1>1, <1>2, <2>1 DEF Sound, Files
  <1>5. CASE Stop
    BY <1>3, <1>4, <1>5, StopType, IdleIInv DEF TypeOK
  <1>6. CASE pc' = "open" /\ UNCHANGED <<plan, writer>>
    <2>1. plan.file = "dest"
      BY <1>1 DEF Planned, Preparing
    <2>2. TypeOK'
      BY <1>3, <1>6 DEF TypeOK, PCs, Writing
    <2>3. Planned'
      BY <1>1, <1>2, <1>6, <2>1 DEF Planned, Preparing
    <2>4. Extends'
      BY <1>1, <1>2, <1>6, <2>1 DEF Extends, HasManifest
    <2> QED
      BY <1>6, <1>4, <2>2, <2>3, <2>4 DEF AtEnd, Moved, Compacted
  <1> QED
    BY <1>5, <1>6 DEF ClearPartial

\* What a truncation to the writer's offset leaves.
LEMMA CutKeeps ==
    ASSUME IInv, pc \in Writing, Cut(plan.file, writer.offset), manifest' = manifest
    PROVE  /\ data' \in [Files -> Seq(Nat)] /\ synced' \in [Files -> Nat]
           /\ Sound'
           /\ Len(data'[plan.file]) = writer.offset
           /\ SuffixOf(Take(data'[plan.file], writer.offset), writer.names \ writer.skipped)
           /\ HasManifest(plan.file) =>
                  /\ manifest[plan.file].nbytes <= writer.offset
                  /\ manifest[plan.file].nbytes <= synced'[plan.file]
  <1> USE DEF IInv
  <1> DEFINE f == plan.file
             n == writer.offset
  <1>1. /\ f \in Files /\ n \in Nat /\ n <= Len(data[f])
        /\ SuffixOf(Take(data[f], n), writer.names \ writer.skipped)
        /\ data \in [Files -> Seq(Nat)] /\ synced \in [Files -> Nat]
        /\ manifest \in [Files -> Manifests]
    BY DEF TypeOK, Plans, Writers, Planned
  <1>2. data[f] \in Seq(Nat) /\ synced[f] \in Nat /\ n \in 0..Len(data[f])
    BY <1>1
  <1>3. /\ data' = [data EXCEPT ![f] = Take(data[f], n)]
        /\ synced' = [synced EXCEPT ![f] = IF synced[f] > n THEN n ELSE synced[f]]
    BY DEF Cut
  <1>4. Take(data[f], n) \in Seq(Nat) /\ Len(Take(data[f], n)) = n
    BY <1>2, TakeIs
  <1>5. data' \in [Files -> Seq(Nat)] /\ synced' \in [Files -> Nat]
    BY <1>1, <1>2, <1>3, <1>4
  <1>6. /\ data'[f] = Take(data[f], n)
        /\ synced'[f] = IF synced[f] > n THEN n ELSE synced[f]
        /\ \A g \in Files : g # f => data'[g] = data[g] /\ synced'[g] = synced[g]
    BY <1>1, <1>3
  <1>7. synced'[f] \in Nat /\ (n <= synced'[f] \/ synced[f] <= synced'[f])
    BY <1>1, <1>2, <1>6
  <1>8. Holds(manifest[f], data'[f], synced'[f])
    <2>1. manifest[f] \in Manifests /\ Holds(manifest[f], data[f], synced[f])
      BY <1>1 DEF Sound
    <2>2. Holds(manifest[f], Take(data[f], n), synced'[f])
      BY <1>2, <1>7, <2>1, HoldsCut
    <2> QED
      BY <2>2, <1>6
  <1>9. Sound'
    BY <1>6, <1>8 DEF Sound
  <1>10. Take(data'[f], n) = Take(data[f], n)
    BY <1>2, <1>6, TakeOfTake
  <1>11. HasManifest(f) => manifest[f].nbytes <= n /\ manifest[f].nbytes <= synced[f]
    BY DEF Extends
  <1>12. manifest[f].nbytes \in Nat
    BY <1>1 DEF Manifests
  <1>13. HasManifest(f) => manifest[f].nbytes <= synced'[f]
    BY <1>1, <1>2, <1>6, <1>11, <1>12
  <1> QED
    BY <1>1, <1>4, <1>5, <1>6, <1>9, <1>10, <1>11, <1>13

\* The file is cut at the committed length, not before it.
LEMMA OpenIInv ==
    ASSUME IInv, Open
    PROVE  IInv'
  <1> USE DEF IInv
  <1>1. /\ pc = "open" /\ pc' = "next" /\ Cut(plan.file, writer.offset)
        /\ present' = present \cup {plan.file}
        /\ UNCHANGED <<staged, manifest, plan, writer>>
    BY DEF Open
  <1>2. /\ data' \in [Files -> Seq(Nat)] /\ synced' \in [Files -> Nat]
        /\ Sound'
        /\ Len(data'[plan.file]) = writer.offset
        /\ SuffixOf(Take(data'[plan.file], writer.offset), writer.names \ writer.skipped)
        /\ HasManifest(plan.file) =>
               /\ manifest[plan.file].nbytes <= writer.offset
               /\ manifest[plan.file].nbytes <= synced'[plan.file]
    BY <1>1, CutKeeps DEF Writing
  <1>3. TypeOK'
    BY <1>1, <1>2 DEF TypeOK, PCs, Writing, Plans
  <1>4. Planned'
    BY <1>1, <1>2, <1>3 DEF Planned, Writing, TypeOK, Writers
  <1>5. Extends'
    BY <1>1, <1>2 DEF Extends, HasManifest
  <1> QED
    BY <1>1, <1>2, <1>3, <1>4, <1>5 DEF AtEnd, Moved, Compacted

\* Taking the next chunk into account, its rows written or left out.
LEMMA AccountKeeps ==
    ASSUME IInv, pc \in {"next", "writing"}, Pending # {}, NEW skip \in BOOLEAN,
           Account(skip), plan' = plan, data' \in [Files -> Seq(Nat)],
           Take(data'[plan.file], writer.offset) = Take(data[plan.file], writer.offset),
           skip => Len(data'[plan.file]) = writer.offset,
           ~skip => data'[plan.file] = Take(data[plan.file], writer.offset) \o Rows[NextChunk]
    PROVE  /\ writer' \in Writers
           /\ writer'.offset = Len(data'[plan.file])
           /\ writer.offset <= writer'.offset
           /\ IsPrefixOf(writer'.names, plan.listing)
           /\ SuffixOf(Take(data'[plan.file], writer'.offset), writer'.names \ writer'.skipped)
  <1> USE DEF IInv
  <1> DEFINE f == plan.file
             c == NextChunk
             kept == Take(data[f], writer.offset)
  <1>1. /\ f \in Files /\ writer \in Writers /\ writer.offset \in Nat
        /\ writer.names \in SUBSET Chunks /\ writer.skipped \subseteq writer.names
        /\ data[f] \in Seq(Nat) /\ data'[f] \in Seq(Nat)
    BY DEF TypeOK, Plans, Writers
  <1>2. /\ IsPrefixOf(writer.names, plan.listing)
        /\ writer.offset <= Len(data[f])
        /\ SuffixOf(kept, writer.names \ writer.skipped)
    BY DEF Planned, Writing
  <1>3. /\ c \in Chunks /\ c \in Pending
        /\ \A d \in writer.names : d < c
        /\ IsPrefixOf(writer.names \cup {c}, plan.listing)
    BY <1>2, NextChunkIs
  <1>4. c \notin writer.names /\ c \notin writer.skipped
    BY <1>1, <1>3 DEF Pending
  <1>5. /\ writer'.names = writer.names \cup {c}
        /\ writer'.skipped = IF skip THEN writer.skipped \cup {c} ELSE writer.skipped
        /\ writer'.offset = Len(data'[f])
    BY <1>1 DEF Account, Writers
  <1>6. writer' \in Writers
    <2>1. Len(data'[f]) \in Nat
      BY <1>1
    <2> QED
      BY <1>1, <1>3, <2>1 DEF Account, Writers
  <1>7. kept \in Seq(Nat) /\ Len(kept) = writer.offset
    BY <1>1, <1>2, TakeIs
  <1>8. Take(data'[f], writer'.offset) = data'[f]
    BY <1>1, <1>5, TakeAll
  <1>9. CASE skip
    <2>1. data'[f] = kept
      BY <1>5, <1>8, <1>9
    <2>2. writer'.names \ writer'.skipped = writer.names \ writer.skipped
      BY <1>4, <1>5, <1>9
    <2>3. SuffixOf(Take(data'[f], writer'.offset), writer'.names \ writer'.skipped)
      BY <1>2, <1>8, <2>1, <2>2
    <2>4. IsPrefixOf(writer'.names, plan.listing)
      BY <1>3, <1>5
    <2>5. writer.offset <= writer'.offset
      BY <1>1, <1>5, <1>9
    <2> QED
      BY <1>5, <1>6, <2>3, <2>4, <2>5
  <1>10. CASE ~skip
    <2>1. writer'.names \ writer'.skipped = (writer.names \ writer.skipped) \cup {c}
      BY <1>4, <1>5, <1>10
    <2>2. SuffixOf(kept \o Rows[c], (writer.names \ writer.skipped) \cup {c})
      BY <1>1, <1>2, <1>3, <1>7, SuffixAppend
    <2>3. Len(kept \o Rows[c]) >= Len(kept)
      <3>1. Rows[c] \in Seq(Nat)
        BY <1>3, RowsAssumption
      <3>2. Len(kept \o Rows[c]) = Len(kept) + Len(Rows[c])
        BY <1>7, <3>1, ConcatProperties
      <3> QED
        BY <1>7, <3>1, <3>2
    <2>4. SuffixOf(Take(data'[f], writer'.offset), writer'.names \ writer'.skipped)
      BY <1>8, <1>10, <2>1, <2>2
    <2>5. IsPrefixOf(writer'.names, plan.listing)
      BY <1>3, <1>5
    <2>6. writer.offset <= writer'.offset
      BY <1>5, <1>7, <1>10, <2>3
    <2> QED
      BY <1>5, <1>6, <2>4, <2>5, <2>6
  <1> QED
    BY <1>9, <1>10

\* A chunk that is skipped adds its name, and no rows.
LEMMA GoneIInv ==
    ASSUME IInv, Gone
    PROVE  IInv'
  <1> USE DEF IInv
  <1>1. /\ pc = "next" /\ Pending # {} /\ data' = data
        /\ UNCHANGED <<staged, present, synced, manifest, plan>>
        /\ Len(data[plan.file]) = writer.offset
    BY DEF Gone, AtEnd
  <1>2. Sound'
    BY <1>1 DEF Sound, Holds
  <1>3. CASE pc' = "abort" /\ UNCHANGED writer
    <2>1. TypeOK'
      BY <1>1, <1>3 DEF TypeOK, PCs, Writing
    <2>2. Planned' /\ Extends'
      BY <1>1, <1>3 DEF Planned, Extends, HasManifest, Writing
    <2> QED
      BY <1>2, <1>3, <2>1, <2>2 DEF AtEnd, Moved, Compacted
  <1>4. CASE pc' = "advance" /\ Account(TRUE)
    <2>1. /\ writer' \in Writers
          /\ writer'.offset = Len(data'[plan.file])
          /\ writer.offset <= writer'.offset
          /\ IsPrefixOf(writer'.names, plan.listing)
          /\ SuffixOf(Take(data'[plan.file], writer'.offset), writer'.names \ writer'.skipped)
      <3>1. data' \in [Files -> Seq(Nat)]
        BY <1>1 DEF TypeOK
      <3> QED
        BY <1>1, <1>4, <3>1, AccountKeeps
    <2>2. TypeOK'
      BY <1>1, <1>4, <2>1 DEF TypeOK, PCs, Writing
    <2>3. Planned'
      <3>1. writer'.offset <= Len(data'[plan.file])
        BY <2>1, <2>2 DEF TypeOK, Writers
      <3> QED
        BY <1>1, <1>4, <2>1, <3>1 DEF Planned, Writing
    <2>4. Extends'
      BY <1>1, <1>4, <2>1 DEF Extends, HasManifest, Writing
    <2> QED
      BY <1>1, <1>2, <1>4, <2>1, <2>2, <2>3, <2>4 DEF AtEnd, Moved, Compacted
  <1> QED
    BY <1>3, <1>4 DEF Gone

\* Writing rows of the next chunk leaves every committed row in place.
LEMMA WriteKeepsSound ==
    ASSUME IInv, pc \in {"next", "writing"}, data' \in [Files -> Seq(Nat)],
           \A g \in Files : g # plan.file => data'[g] = data[g],
           Take(data'[plan.file], writer.offset) = Take(data[plan.file], writer.offset),
           writer.offset <= Len(data'[plan.file]),
           UNCHANGED <<synced, manifest>>
    PROVE  Sound'
  <1> USE DEF IInv
  <1>1. /\ plan.file \in Files /\ writer.offset \in Nat
        /\ writer.offset <= Len(data[plan.file])
        /\ HasManifest(plan.file) => manifest[plan.file].nbytes <= writer.offset
    BY DEF TypeOK, Plans, Writers, Planned, Extends, Writing
  <1>2. /\ data[plan.file] \in Seq(Nat) /\ data'[plan.file] \in Seq(Nat)
        /\ synced[plan.file] \in Nat /\ manifest[plan.file] \in Manifests
        /\ Holds(manifest[plan.file], data[plan.file], synced[plan.file])
    BY <1>1 DEF TypeOK, Sound
  <1>3. writer.offset \in 0..Len(data[plan.file])
    BY <1>1, <1>2
  <1>4. Holds(manifest[plan.file], data'[plan.file], synced[plan.file])
    BY <1>1, <1>2, <1>3, HoldsGrow DEF HasManifest
  <1> QED
    BY <1>4 DEF Sound

\* A torn row is written after the rows accounted for.
LEMMA StartAppendIInv ==
    ASSUME IInv, StartAppend
    PROVE  IInv'
  <1> USE DEF IInv
  <1>1. /\ pc = "next" /\ pc' = "writing" /\ Pending # {}
        /\ data' = [data EXCEPT ![plan.file] = Append(@, Torn)]
        /\ UNCHANGED <<staged, present, synced, manifest, plan, writer>>
    BY DEF StartAppend
  <1>2. /\ plan.file \in Files /\ data \in [Files -> Seq(Nat)] /\ data[plan.file] \in Seq(Nat)
        /\ writer.offset \in Nat /\ writer.offset = Len(data[plan.file])
    BY <1>1 DEF TypeOK, Plans, Writers, AtEnd
  <1>3. /\ data' \in [Files -> Seq(Nat)]
        /\ data'[plan.file] = Append(data[plan.file], 0)
        /\ \A g \in Files : g # plan.file => data'[g] = data[g]
    BY <1>1, <1>2 DEF Torn
  <1>4. Take(data'[plan.file], writer.offset) = Take(data[plan.file], writer.offset)
    BY <1>2, <1>3, TakeOfAppend
  <1>5. writer.offset <= Len(data'[plan.file])
    BY <1>2, <1>3
  <1>6. TypeOK'
    BY <1>1, <1>3 DEF TypeOK, PCs, Writing
  <1>7. Sound'
    BY <1>1, <1>3, <1>4, <1>5, WriteKeepsSound
  <1>8. Planned'
    BY <1>1, <1>4, <1>5 DEF Planned, Writing, Pending
  <1>9. Extends'
    BY <1>1 DEF Extends, HasManifest, Writing
  <1> QED
    BY <1>1, <1>6, <1>7, <1>8, <1>9 DEF AtEnd, Moved, Compacted

\* The rows of the next chunk follow those accounted for.
LEMMA EndAppendIInv ==
    ASSUME IInv, EndAppend
    PROVE  IInv'
  <1> USE DEF IInv
  <1>1. /\ pc = "writing" /\ pc' = "advance" /\ Account(FALSE)
        /\ data' = [data EXCEPT ![plan.file] = Take(@, writer.offset) \o Rows[NextChunk]]
        /\ UNCHANGED <<staged, present, synced, manifest, plan>>
    BY DEF EndAppend
  <1>2. /\ plan.file \in Files /\ data \in [Files -> Seq(Nat)] /\ data[plan.file] \in Seq(Nat)
        /\ writer.offset \in Nat /\ writer.offset <= Len(data[plan.file])
        /\ IsPrefixOf(writer.names, plan.listing) /\ Pending # {}
    BY <1>1 DEF TypeOK, Plans, Writers, Planned, Writing
  <1>3. NextChunk \in Chunks
    BY <1>2, NextChunkIs
  <1>4. Rows[NextChunk] \in Seq(Nat) /\ Len(Rows[NextChunk]) \in Nat
    BY <1>3, RowsAssumption
  <1> DEFINE kept == Take(data[plan.file], writer.offset)
             rows == Rows[NextChunk]
  <1>5. kept \in Seq(Nat) /\ Len(kept) = writer.offset
    BY <1>2, TakeIs
  <1>6. kept \o rows \in Seq(Nat) /\ Len(kept \o rows) = Len(kept) + Len(rows)
    BY <1>4, <1>5, ConcatProperties
  <1>7. /\ data' \in [Files -> Seq(Nat)]
        /\ data'[plan.file] = kept \o rows
        /\ \A g \in Files : g # plan.file => data'[g] = data[g]
    BY <1>1, <1>2, <1>6
  <1>8. Take(data'[plan.file], writer.offset) = kept
    <2>1. Take(kept \o rows, writer.offset) = Take(kept, writer.offset)
      BY <1>2, <1>4, <1>5, TakeOfConcat
    <2>2. Take(kept, writer.offset) = kept
      BY <1>5, TakeAll
    <2> QED
      BY <1>7, <2>1, <2>2
  <1>9. writer.offset <= Len(data'[plan.file])
    <2>1. Len(data'[plan.file]) = writer.offset + Len(Rows[NextChunk])
      BY <1>5, <1>6, <1>7
    <2> QED
      BY <1>2, <1>4, <2>1
  <1>10. /\ writer' \in Writers
         /\ writer'.offset = Len(data'[plan.file])
         /\ writer.offset <= writer'.offset
         /\ IsPrefixOf(writer'.names, plan.listing)
         /\ SuffixOf(Take(data'[plan.file], writer'.offset), writer'.names \ writer'.skipped)
    <2>1. plan' = plan /\ pc \in {"next", "writing"}
      BY <1>1
    <2> QED
      BY <1>1, <1>2, <1>7, <1>8, <2>1, AccountKeeps
  <1>11. TypeOK'
    BY <1>1, <1>7, <1>10 DEF TypeOK, PCs, Writing
  <1>12. Sound'
    BY <1>1, <1>7, <1>8, <1>9, WriteKeepsSound
  <1>13. Planned'
    <2>1. writer'.offset <= Len(data'[plan.file])
      BY <1>10, <1>11 DEF TypeOK, Writers
    <2> QED
      BY <1>1, <1>10, <2>1 DEF Planned, Writing
  <1>14. Extends'
    <2>1. HasManifest(plan.file) =>
              /\ manifest[plan.file].nbytes <= writer.offset
              /\ manifest[plan.file].nbytes <= synced[plan.file]
      BY <1>1 DEF Extends, Writing
    <2>2. manifest[plan.file].nbytes \in Nat /\ writer.offset \in Nat /\ writer'.offset \in Nat
      BY <1>2, <1>10 DEF TypeOK, Manifests, Writers
    <2>3. HasManifest(plan.file) => manifest[plan.file].nbytes <= writer'.offset
      BY <1>10, <2>1, <2>2
    <2> QED
      BY <1>1, <2>1, <2>3 DEF Extends, HasManifest
  <1> QED
    BY <1>1, <1>10, <1>11, <1>12, <1>13, <1>14 DEF AtEnd, Moved, Compacted

\* A damaged chunk is cut off again, and skipped the second time.
LEMMA DamagedIInv ==
    ASSUME IInv, Damaged
    PROVE  IInv'
  <1> USE DEF IInv
  <1>1. /\ pc = "writing" /\ Cut(plan.file, writer.offset)
        /\ UNCHANGED <<staged, present, manifest, plan>>
    BY DEF Damaged
  <1>2. /\ data' \in [Files -> Seq(Nat)] /\ synced' \in [Files -> Nat]
        /\ Sound'
        /\ Len(data'[plan.file]) = writer.offset
        /\ SuffixOf(Take(data'[plan.file], writer.offset), writer.names \ writer.skipped)
        /\ HasManifest(plan.file) =>
               /\ manifest[plan.file].nbytes <= writer.offset
               /\ manifest[plan.file].nbytes <= synced'[plan.file]
    BY <1>1, CutKeeps DEF Writing
  <1>3. /\ writer \in Writers /\ writer.offset \in Nat /\ plan.file \in Files
    BY DEF TypeOK, Writers, Plans
  <1>4. CASE /\ pc' \in {"abort", "next"}
             /\ writer' \in Writers
             /\ writer'.names = writer.names /\ writer'.skipped = writer.skipped
             /\ writer'.offset = writer.offset
    <2>1. TypeOK'
      BY <1>1, <1>2, <1>4 DEF TypeOK, PCs, Writing
    <2>2. Planned'
      BY <1>1, <1>2, <1>3, <1>4 DEF Planned, Writing
    <2>3. Extends'
      BY <1>1, <1>2, <1>4 DEF Extends, HasManifest
    <2> QED
      BY <1>1, <1>2, <1>4, <2>1, <2>2, <2>3 DEF AtEnd, Moved, Compacted
  <1>5. CASE pc' = "advance" /\ Account(TRUE)
    <2>1. Take(data'[plan.file], writer.offset) = Take(data[plan.file], writer.offset)
      <3>1. data[plan.file] \in Seq(Nat) /\ writer.offset \in 0..Len(data[plan.file])
        BY <1>1, <1>3 DEF TypeOK, Planned, Writing
      <3>2. data'[plan.file] = Take(data[plan.file], writer.offset)
        BY <1>1, <1>3 DEF Cut, TypeOK
      <3> QED
        BY <3>1, <3>2, TakeOfTake
    <2>2. Pending # {} /\ plan' = plan /\ pc \in {"next", "writing"}
      BY <1>1 DEF Planned, Writing
    <2>3. /\ writer' \in Writers
          /\ writer'.offset = Len(data'[plan.file])
          /\ writer.offset <= writer'.offset
          /\ IsPrefixOf(writer'.names, plan.listing)
          /\ SuffixOf(Take(data'[plan.file], writer'.offset), writer'.names \ writer'.skipped)
      BY <1>2, <1>5, <2>1, <2>2, AccountKeeps
    <2>4. TypeOK'
      BY <1>1, <1>2, <1>5, <2>3 DEF TypeOK, PCs, Writing
    <2>5. Planned'
      <3>1. writer'.offset <= Len(data'[plan.file])
        BY <2>3, <1>2, <1>3
      <3> QED
        BY <1>1, <1>5, <2>3, <3>1 DEF Planned, Writing
    <2>6. Extends'
      BY <1>1, <1>2, <1>5, <2>3 DEF Extends, HasManifest
    <2> QED
      BY <1>1, <1>2, <1>5, <2>3, <2>4, <2>5, <2>6 DEF AtEnd, Moved, Compacted
  <1>6. \/ pc' = "abort" /\ writer' = writer
        \/ pc' = "next" /\ writer' = [writer EXCEPT !.refetched = TRUE]
        \/ pc' = "advance" /\ Account(TRUE)
    BY DEF Damaged
  <1>7. /\ [writer EXCEPT !.refetched = TRUE] \in Writers
        /\ [writer EXCEPT !.refetched = TRUE].names = writer.names
        /\ [writer EXCEPT !.refetched = TRUE].skipped = writer.skipped
        /\ [writer EXCEPT !.refetched = TRUE].offset = writer.offset
    BY <1>3 DEF Writers
  <1> QED
    BY <1>3, <1>4, <1>5, <1>6, <1>7

\* A failure changes nothing on disk.
LEMMA FailIInv ==
    ASSUME IInv, Fail
    PROVE  IInv'
  <1> USE DEF IInv
  <1>1. /\ pc \in Writing /\ pc' = "abort"
        /\ UNCHANGED <<staged, present, data, synced, manifest, plan, writer>>
    BY DEF Fail, Writing, disk
  <1>2. TypeOK'
    BY <1>1 DEF TypeOK, PCs, Writing
  <1>3. Sound' /\ Planned' /\ Extends'
    BY <1>1 DEF Sound, Holds, Planned, Extends, HasManifest, Writing
  <1> QED
    BY <1>1, <1>2, <1>3 DEF AtEnd, Moved, Compacted

\* A checkpoint begins, or not, with the file as long as the writer counts.
LEMMA AdvanceIInv ==
    ASSUME IInv, Advance
    PROVE  IInv'
  <1> USE DEF IInv
  <1>1. /\ pc = "advance" /\ pc' \in {"sync", "next"}
        /\ UNCHANGED <<staged, present, data, synced, manifest, plan>>
        /\ \/ writer' = [writer EXCEPT !.after = "next"]
           \/ writer' = writer
    BY DEF Advance, Checkpoint, disk
  <1>2. /\ writer' \in Writers
        /\ writer'.names = writer.names /\ writer'.skipped = writer.skipped
        /\ writer'.offset = writer.offset
    BY <1>1 DEF TypeOK, Writers
  <1>3. TypeOK'
    BY <1>1, <1>2 DEF TypeOK, PCs, Writing
  <1>4. Sound' /\ Planned'
    BY <1>1, <1>2 DEF Sound, Holds, Planned, Writing
  <1>5. Extends'
    BY <1>1, <1>2 DEF Extends, HasManifest, Writing
  <1> QED
    BY <1>1, <1>2, <1>3, <1>4, <1>5 DEF AtEnd, Moved, Compacted

\* finish() and abort() truncate the file and checkpoint it.
LEMMA EndIInv ==
    ASSUME IInv, Finish \/ Abort
    PROVE  IInv'
  <1> USE DEF IInv
  <1>1. /\ pc \in Writing /\ pc' = "sync" /\ Cut(plan.file, writer.offset)
        /\ UNCHANGED <<staged, present, manifest, plan>>
        /\ \E after \in {"finish", "abort"} : writer' = [writer EXCEPT !.after = after]
    BY DEF Finish, Abort, Checkpoint, Writing
  <1>2. /\ data' \in [Files -> Seq(Nat)] /\ synced' \in [Files -> Nat]
        /\ Sound'
        /\ Len(data'[plan.file]) = writer.offset
        /\ SuffixOf(Take(data'[plan.file], writer.offset), writer.names \ writer.skipped)
        /\ HasManifest(plan.file) =>
               /\ manifest[plan.file].nbytes <= writer.offset
               /\ manifest[plan.file].nbytes <= synced'[plan.file]
    BY <1>1, CutKeeps
  <1>3. /\ writer' \in Writers /\ writer.offset \in Nat
        /\ writer'.names = writer.names /\ writer'.skipped = writer.skipped
        /\ writer'.offset = writer.offset
    BY <1>1 DEF TypeOK, Writers
  <1>4. TypeOK'
    BY <1>1, <1>2, <1>3 DEF TypeOK, PCs, Writing
  <1>5. Planned'
    BY <1>1, <1>2, <1>3 DEF Planned, Writing
  <1>6. Extends'
    BY <1>1, <1>2, <1>3 DEF Extends, HasManifest
  <1> QED
    BY <1>1, <1>2, <1>3, <1>4, <1>5, <1>6 DEF AtEnd, Moved, Compacted

\* After the fsync all the rows that are accounted for are on the disk.
LEMMA SyncIInv ==
    ASSUME IInv, Sync
    PROVE  IInv'
  <1> USE DEF IInv
  <1>1. /\ pc = "sync" /\ pc' = "record"
        /\ synced' = [synced EXCEPT ![plan.file] = Len(data[plan.file])]
        /\ UNCHANGED <<staged, present, data, manifest, plan, writer>>
        /\ Len(data[plan.file]) = writer.offset
    BY DEF Sync, AtEnd
  <1>2. /\ plan.file \in Files /\ writer.offset \in Nat /\ synced \in [Files -> Nat]
        /\ manifest \in [Files -> Manifests]
    BY DEF TypeOK, Plans, Writers
  <1>3. /\ synced' \in [Files -> Nat] /\ synced'[plan.file] = writer.offset
        /\ \A g \in Files : g # plan.file => synced'[g] = synced[g]
    BY <1>1, <1>2
  <1>4. HasManifest(plan.file) => manifest[plan.file].nbytes <= writer.offset
    BY <1>1 DEF Extends, Writing
  <1>5. TypeOK'
    BY <1>1, <1>3 DEF TypeOK, PCs, Writing
  <1>6. Sound'
    BY <1>1, <1>2, <1>3, <1>4 DEF Sound, Holds, HasManifest
  <1>7. Planned' /\ Extends'
    BY <1>1, <1>3, <1>4 DEF Planned, Extends, HasManifest, Writing
  <1> QED
    BY <1>1, <1>3, <1>5, <1>6, <1>7 DEF AtEnd, Moved, Compacted

\* The manifest then claims rows that are there, in order and fsynced.
LEMMA RecordIInv ==
    ASSUME IInv, Record
    PROVE  IInv'
  <1> USE DEF IInv
  <1> DEFINE f == plan.file
             new == [names |-> writer.names, nbytes |-> writer.offset,
                     skipped |-> writer.skipped]
  <1>1. /\ pc = "record"
        /\ manifest' = manifest \/ manifest' = [manifest EXCEPT ![f] = new]
        /\ UNCHANGED <<staged, present, data, synced>>
    BY DEF Record
  <1>2. /\ f \in Files /\ writer \in Writers /\ writer.offset \in Nat
        /\ manifest \in [Files -> Manifests]
        /\ Len(data[f]) = writer.offset /\ synced[f] = writer.offset
        /\ IsPrefixOf(writer.names, plan.listing)
        /\ SuffixOf(Take(data[f], writer.offset), writer.names \ writer.skipped)
    BY <1>1 DEF TypeOK, Plans, Writers, AtEnd, Planned, Writing
  <1>3. new \in Manifests
    BY <1>2 DEF Manifests, Writers
  <1>4. /\ manifest' \in [Files -> Manifests]
        /\ \A g \in Files : g # f => manifest'[g] = manifest[g]
        /\ manifest'[f] = manifest[f] \/ manifest'[f] = new
    BY <1>1, <1>2, <1>3
  <1>5. Sound'
    <2>1. Holds(new, data[f], synced[f])
      BY <1>2 DEF Holds
    <2> QED
      BY <1>1, <1>4, <2>1 DEF Sound
  <1>6. manifest'[f].names # {} => manifest'[f].nbytes <= writer.offset
    <2>1. HasManifest(f) => manifest[f].nbytes <= writer.offset
      BY <1>1 DEF Extends, Writing
    <2>2. CASE manifest'[f] = manifest[f]
      BY <2>1, <2>2 DEF HasManifest
    <2>3. CASE manifest'[f] = new
      BY <1>2, <2>3
    <2> QED
      BY <1>4, <2>2, <2>3
  <1>7. \/ /\ pc' \in {"next", "drop", "unlinkDest"}
           /\ writer' = [writer EXCEPT !.recorded = writer.names] \/ writer' = writer
           /\ plan' = plan
        \/ Stop
    BY DEF Record
  <1>8. CASE Stop
    <2>1. TypeOK'
      BY <1>1, <1>4, <1>8, StopType DEF TypeOK
    <2> QED
      BY <1>5, <1>8, <2>1, IdleIInv
  <1>9. CASE /\ pc' \in {"next", "drop", "unlinkDest"}
             /\ writer' = [writer EXCEPT !.recorded = writer.names] \/ writer' = writer
             /\ plan' = plan
    <2>1. /\ writer' \in Writers
          /\ writer'.names = writer.names /\ writer'.skipped = writer.skipped
          /\ writer'.offset = writer.offset
      BY <1>2, <1>9 DEF Writers
    <2>2. TypeOK'
      BY <1>1, <1>4, <1>9, <2>1 DEF TypeOK, PCs, Writing, Promoting
    <2>3. Planned'
      BY <1>1, <1>2, <1>9, <2>1 DEF Planned, Writing, Preparing
    <2>4. Extends'
      BY <1>1, <1>2, <1>6, <1>9, <2>1 DEF Extends, HasManifest
    <2> QED
      BY <1>1, <1>2, <1>5, <1>9, <2>1, <2>2, <2>3, <2>4 DEF AtEnd, Moved, Compacted
  <1> QED
    BY <1>7, <1>8, <1>9

\* Only an empty file without a manifest is removed.
LEMMA DropIInv ==
    ASSUME IInv, Drop
    PROVE  IInv'
  <1> USE DEF IInv
  <1> DEFINE f == plan.file
  <1>1. /\ Stop /\ UNCHANGED <<staged, manifest>>
        /\ \/ /\ present' = present \ {f}
              /\ data' = [data EXCEPT ![f] = <<>>]
              /\ synced' = [synced EXCEPT ![f] = 0]
           \/ UNCHANGED <<present, data, synced>>
    BY DEF Drop
  <1>2. f \in Files
    BY DEF TypeOK, Plans
  <1>3. TypeOK'
    <2>1. data \in [Files -> Seq(Nat)] /\ synced \in [Files -> Nat] /\ present \subseteq Files
      BY DEF TypeOK
    <2>2. [data EXCEPT ![f] = <<>>] \in [Files -> Seq(Nat)]
      BY <1>2, <2>1
    <2>3. [synced EXCEPT ![f] = 0] \in [Files -> Nat]
      BY <1>2, <2>1
    <2> QED
      BY <1>1, <2>1, <2>2, <2>3, StopType DEF TypeOK
  <1>4. Sound'
    <2>1. CASE UNCHANGED <<present, data, synced>>
      BY <1>1, <2>1 DEF Sound, Holds
    <2>2. CASE data' = [data EXCEPT ![f] = <<>>] /\ synced' = [synced EXCEPT ![f] = 0]
      <3>1. Holds(manifest[f], <<>>, 0)
        BY <1>2, EmptyHolds DEF Sound, TypeOK
      <3>2. /\ data'[f] = <<>> /\ synced'[f] = 0
            /\ \A g \in Files : g # f => data'[g] = data[g] /\ synced'[g] = synced[g]
        BY <1>2, <2>2 DEF TypeOK
      <3> QED
        BY <1>1, <3>1, <3>2 DEF Sound
    <2> QED
      BY <1>1, <2>1, <2>2
  <1> QED
    BY <1>1, <1>3, <1>4, IdleIInv

\* The old manifest goes before the file it describes.
LEMMA UnlinkDestIInv ==
    ASSUME IInv, UnlinkDest
    PROVE  IInv'
  <1> USE DEF IInv
  <1>1. /\ pc = "unlinkDest" /\ pc' = "replaceDest"
        /\ manifest' = [manifest EXCEPT !["dest"] = NoManifest]
        /\ UNCHANGED <<staged, present, data, synced, plan, writer>>
    BY DEF UnlinkDest
  <1>2. TypeOK'
    BY <1>1 DEF TypeOK, Manifests, NoManifest, Files, PCs, Promoting
  <1>3. manifest'["dest"].names = {} /\ manifest'["partial"] = manifest["partial"]
    BY <1>1 DEF TypeOK, NoManifest, Files
  <1>4. Sound'
    BY <1>1, <1>3 DEF Sound, Holds, Files
  <1> QED
    BY <1>1, <1>2, <1>3, <1>4 DEF Planned, Extends, AtEnd, Moved, Compacted, HasManifest,
       Preparing, Writing

\* The data moves; its manifest still lies beside the old name.
LEMMA ReplaceDestIInv ==
    ASSUME IInv, ReplaceDest
    PROVE  IInv'
  <1> USE DEF IInv
  <1>1. /\ pc = "replaceDest" /\ pc' = "replaceManifest" /\ present' = {"dest"}
        /\ data' = [data EXCEPT !["dest"] = data["partial"], !["partial"] = <<>>]
        /\ synced' = [synced EXCEPT !["dest"] = synced["partial"], !["partial"] = 0]
        /\ UNCHANGED <<staged, manifest, plan, writer>>
        /\ ~HasManifest("dest")
    BY DEF ReplaceDest, Moved
  <1>2. /\ data'["dest"] = data["partial"] /\ data'["partial"] = <<>>
        /\ synced'["dest"] = synced["partial"] /\ synced'["partial"] = 0
        /\ data' \in [Files -> Seq(Nat)] /\ synced' \in [Files -> Nat]
    <2>1. /\ data \in [Files -> Seq(Nat)] /\ synced \in [Files -> Nat]
          /\ data["partial"] \in Seq(Nat) /\ synced["partial"] \in Nat
      BY DEF TypeOK, Files
    <2>2. /\ data'["dest"] = data["partial"] /\ data'["partial"] = <<>>
          /\ synced'["dest"] = synced["partial"] /\ synced'["partial"] = 0
      BY <1>1, <2>1 DEF Files
    <2>3. data' \in [Files -> Seq(Nat)]
      <3>1. DOMAIN data' = Files /\ data' = [f \in Files |-> data'[f]]
        BY <1>1, <2>1
      <3>2. \A f \in Files : data'[f] \in Seq(Nat)
        <4>1. data'["dest"] \in Seq(Nat)
          BY <2>1, <2>2
        <4>2. data'["partial"] \in Seq(Nat)
          BY <2>2
        <4> QED
          BY <4>1, <4>2 DEF Files
      <3> QED
        BY <3>1, <3>2
    <2>4. synced' \in [Files -> Nat]
      BY <1>1, <2>1
    <2> QED
      BY <1>1, <2>1, <2>2, <2>3, <2>4
  <1>3. TypeOK'
    BY <1>1, <1>2 DEF TypeOK, PCs, Promoting, Files
  <1>4. Holds(manifest["partial"], data["partial"], synced["partial"])
    BY DEF Sound, Files
  <1>5. Holds(manifest["partial"], <<>>, 0)
    BY <1>4, EmptyHolds DEF TypeOK, Files
  <1>6. Sound'
    BY <1>1, <1>2, <1>5 DEF Sound, Holds, HasManifest, Files
  <1>7. Moved'
    BY <1>1, <1>2, <1>4 DEF Moved, HasManifest
  <1> QED
    BY <1>1, <1>3, <1>6, <1>7 DEF Planned, Extends, AtEnd, Compacted, Preparing, Writing

\* The manifest follows the data it describes.
LEMMA ReplaceManifestIInv ==
    ASSUME IInv, ReplaceManifest
    PROVE  IInv'
  <1> USE DEF IInv
  <1>1. /\ pc = "replaceManifest" /\ Stop
        /\ manifest' = [manifest EXCEPT !["dest"] = manifest["partial"],
                                        !["partial"] = NoManifest]
        /\ UNCHANGED <<staged, present, data, synced>>
        /\ Holds(manifest["partial"], data["dest"], synced["dest"])
    BY DEF ReplaceManifest, Moved
  <1>2. /\ manifest'["dest"] = manifest["partial"] /\ manifest'["partial"].names = {}
        /\ manifest' \in [Files -> Manifests]
    BY <1>1 DEF TypeOK, Files, NoManifest, Manifests
  <1>3. TypeOK'
    BY <1>1, <1>2, StopType DEF TypeOK
  <1>4. Sound'
    BY <1>1, <1>2 DEF Sound, Holds, Files
  <1> QED
    BY <1>1, <1>3, <1>4, IdleIInv

\* The cut file is shorter than its manifest claims, so that nobody reads it.
LEMMA CompactIInv ==
    ASSUME IInv, NEW cut \in 1..Len(data["dest"]), Compact(cut)
    PROVE  IInv'
  <1> USE DEF IInv
  <1> DEFINE m == manifest["dest"]
             d == data["dest"]
             new == SubSeq(d, cut + 1, m.nbytes)
  <1>1. /\ pc = "idle" /\ pc' = "compacted" /\ Readable("dest") /\ cut < m.nbytes
        /\ data' = [data EXCEPT !["dest"] = new]
        /\ synced' = [synced EXCEPT !["dest"] = m.nbytes - cut]
        /\ writer' = [Resume("dest") EXCEPT !.offset = m.nbytes - cut]
        /\ UNCHANGED <<staged, present, manifest, plan>>
    BY DEF Compact
  <1>2. /\ m \in Manifests /\ m.nbytes \in Nat /\ d \in Seq(Nat)
        /\ m.names # {} /\ m.nbytes <= Len(d)
        /\ SuffixOf(Take(d, m.nbytes), m.names \ m.skipped)
    BY <1>1 DEF TypeOK, Files, Manifests, Readable, HasManifest, Sound, Holds
  <1>3. /\ new \in Seq(Nat) /\ Len(new) = m.nbytes - cut
        /\ new = SubSeq(Take(d, m.nbytes), cut + 1, m.nbytes)
    <2>1. m.nbytes \in 0..Len(d) /\ cut \in 1..(m.nbytes - 1)
      BY <1>1, <1>2
    <2> QED
      BY <1>2, <2>1, SubSeqOfTake
  <1>4. SuffixOf(new, m.names \ m.skipped)
    <2> DEFINE rows == Take(d, m.nbytes)
    <2>1. rows \in Seq(Nat) /\ Len(rows) = m.nbytes
      BY <1>2, TakeIs
    <2>2. cut \in 1..(Len(rows) - 1)
      BY <1>1, <1>2, <2>1
    <2>3. (m.names \ m.skipped) \in SUBSET Chunks
      BY <1>2 DEF Manifests
    <2>4. SuffixOf(SubSeq(rows, cut + 1, Len(rows)), m.names \ m.skipped)
      BY <1>2, <2>1, <2>2, <2>3, SuffixTrim
    <2>5. SubSeq(rows, cut + 1, Len(rows)) = new
      BY <1>3, <2>1
    <2> QED
      BY <2>4, <2>5
  <1>5. /\ data'["dest"] = new /\ data'["partial"] = data["partial"]
        /\ synced'["dest"] = m.nbytes - cut /\ synced'["partial"] = synced["partial"]
        /\ data' \in [Files -> Seq(Nat)] /\ synced' \in [Files -> Nat]
    <2>1. m.nbytes - cut \in Nat
      BY SMTT(20), <1>1, <1>2
    <2> HIDE DEF new
    <2> QED
      BY <1>1, <1>3, <2>1 DEF TypeOK, Files
  <1>6. writer' \in Writers /\ writer'.offset = m.nbytes - cut
    <2>1. m.nbytes - cut \in Nat
      BY SMTT(20), <1>1, <1>2
    <2> QED
      BY <1>1, <1>2, <2>1 DEF Resume, Writers, Manifests
  <1> HIDE DEF new
  <1>7. TypeOK'
    BY <1>1, <1>5, <1>6 DEF TypeOK, PCs
  <1>8. m.nbytes - cut < m.nbytes
    BY <1>2
  <1>9. Sound'
    <2>1. ~(m.nbytes <= Len(data'["dest"]))
      BY <1>2, <1>3, <1>5, <1>8
    <2> QED
      BY <1>1, <1>5, <2>1 DEF Sound, Holds, Files
  <1>10. Compacted'
    BY <1>1, <1>3, <1>4, <1>5, <1>6, <1>8 DEF Compacted
  <1> QED
    BY <1>1, <1>7, <1>9, <1>10 DEF Planned, Extends, AtEnd, Moved, Preparing, Writing

\* The manifest then counts the rows that were kept.
LEMMA RecordCompactedIInv ==
    ASSUME IInv, RecordCompacted
    PROVE  IInv'
  <1> USE DEF IInv
  <1>1. /\ pc = "compacted" /\ Stop
        /\ manifest' = [manifest EXCEPT !["dest"].nbytes = writer.offset]
        /\ UNCHANGED <<staged, present, data, synced>>
        /\ writer.offset = Len(data["dest"]) /\ writer.offset = synced["dest"]
        /\ SuffixOf(data["dest"], manifest["dest"].names \ manifest["dest"].skipped)
    BY DEF RecordCompacted, Compacted
  <1>2. /\ writer.offset \in Nat /\ data["dest"] \in Seq(Nat)
        /\ manifest \in [Files -> Manifests] /\ "dest" \in Files
    BY DEF TypeOK, Writers, Files
  <1>3. /\ manifest' \in [Files -> Manifests]
        /\ manifest'["dest"].names = manifest["dest"].names
        /\ manifest'["dest"].skipped = manifest["dest"].skipped
        /\ manifest'["dest"].nbytes = writer.offset
        /\ manifest'["partial"] = manifest["partial"]
    BY <1>1, <1>2 DEF Manifests, Files
  <1>4. TypeOK'
    BY <1>1, <1>3, StopType DEF TypeOK
  <1>5. Take(data["dest"], writer.offset) = data["dest"]
    BY <1>1, <1>2, TakeAll
  <1>6. Sound'
    BY ZenonT(30), <1>1, <1>2, <1>3, <1>5 DEF Sound, Holds, Files
  <1> QED
    BY <1>1, <1>4, <1>6, IdleIInv

\* What is lost of each file was not claimed, or leaves it too short to be read.
LEMMA CrashIInv ==
    ASSUME IInv, Crash
    PROVE  IInv'
  <1> USE DEF IInv
  <1>1. Stop /\ UNCHANGED <<staged, present, manifest>>
    BY DEF Crash
  <1>2. PICK kept \in [Files -> 0..Len(data["dest"]) + Len(data["partial"])] :
            /\ \A f \in Files : synced[f] <= kept[f] /\ kept[f] <= Len(data[f])
            /\ data' = [f \in Files |-> Take(data[f], kept[f])]
            /\ synced' = kept
    BY DEF Crash
  <1>3. data["dest"] \in Seq(Nat) /\ data["partial"] \in Seq(Nat)
    BY DEF TypeOK, Files
  <1>4. ASSUME NEW f \in Files
        PROVE  kept[f] \in Nat
    <2>1. kept[f] \in 0..(Len(data["dest"]) + Len(data["partial"]))
      BY <1>2
    <2> QED
      BY <2>1
  <1>5. ASSUME NEW f \in Files
        PROVE  /\ data'[f] \in Seq(Nat)
               /\ Holds(manifest[f], data'[f], kept[f])
    <2>1. /\ data[f] \in Seq(Nat) /\ kept[f] \in 0..Len(data[f]) /\ synced[f] \in Nat
          /\ manifest[f] \in Manifests /\ Holds(manifest[f], data[f], synced[f])
      BY <1>2, <1>4 DEF TypeOK, Sound
    <2>2. data'[f] = Take(data[f], kept[f])
      BY <1>2
    <2> QED
      BY <1>2, <1>4, <2>1, <2>2, TakeIs, HoldsCut
  <1>6. TypeOK'
    <2>1. data' \in [Files -> Seq(Nat)]
      BY <1>2, <1>5
    <2>2. synced' \in [Files -> Nat]
      BY <1>2, <1>4
    <2> QED
      BY <1>1, <2>1, <2>2, StopType DEF TypeOK
  <1>7. Sound'
    BY <1>1, <1>2, <1>5 DEF Sound
  <1> QED
    BY <1>1, <1>6, <1>7, IdleIInv

\* Steps that leave the directory and the download alone.
LEMMA ElsewhereIInv ==
    ASSUME IInv, staged' \subseteq Chunks,
           UNCHANGED <<present, data, synced, manifest, pc, plan, writer>>
    PROVE  IInv'
  BY ZenonT(30) DEF IInv, TypeOK, Sound, Holds, Planned, Extends, AtEnd, Moved, Compacted, HasManifest, Pending

\* IInv is inductive.
LEMMA StepIInv == IInv /\ [Next]_vars => IInv'
  <1> SUFFICES ASSUME IInv, [Next]_vars PROVE IInv'
    OBVIOUS
  <1>1. CASE \E resume, strict \in BOOLEAN : Start(resume, strict)
    BY <1>1, StartIInv
  <1>2. CASE \E cut \in 1..Len(data["dest"]) : Compact(cut)
    BY <1>2, CompactIInv
  <1>3. CASE Work
    BY <1>3, ClearManifestIInv, ClearPartialIInv, OpenIInv, StartAppendIInv, EndAppendIInv,
       GoneIInv, AdvanceIInv, EndIInv, SyncIInv, RecordIInv, DropIInv, UnlinkDestIInv,
       ReplaceDestIInv, ReplaceManifestIInv, RecordCompactedIInv DEF Work
  <1>4. CASE Damaged \/ Fail \/ Crash
    BY <1>4, DamagedIInv, FailIInv, CrashIInv
  <1>5. CASE \E c \in Chunks : Upload(c) \/ Remove(c)
    BY <1>5, ElsewhereIInv DEF Upload, Remove, disk, IInv, TypeOK
  <1>6. CASE UNCHANGED vars
    BY <1>6, ElsewhereIInv DEF vars, IInv, TypeOK
  <1> QED
    BY <1>1, <1>2, <1>3, <1>4, <1>5, <1>6 DEF Next, Faults

\* Every reachable state satisfies the inductive invariant.
LEMMA Invariance == Spec => []IInv
  BY InitIInv, StepIInv, PTL DEF Spec

\* Every value keeps its type, for every set of chunks and whatever they hold.
THEOREM TypeCorrect == Spec => []TypeOK
  <1>1. IInv => TypeOK
    BY DEF IInv
  <1> QED
    BY Invariance, <1>1, PTL

\* What a manifest claims is always what its file holds: no interleaving of
\* downloads, failures, compactions and crashes leaves rows lost, repeated or out
\* of order before the committed length.
THEOREM CommittedRowsAreTheStream == Spec => []CommittedIsStream
  <1>1. IInv => CommittedIsStream
    BY DEF IInv, Sound, Holds, CommittedIsStream, Readable, HasManifest, Committed
  <1> QED
    BY Invariance, <1>1, PTL

\* A crash, even one that loses every row not fsynced, leaves each file that could be
\* resumed resumable.
THEOREM CrashesKeepProgress == Spec => CrashKeepsProgress
  <1>1. IInv /\ Crash => \A f \in Files : Readable(f) => Readable(f)'
    <2> SUFFICES ASSUME IInv, Crash, NEW f \in Files, Readable(f)
                 PROVE  Readable(f)'
      OBVIOUS
    <2>1. manifest[f].nbytes <= synced[f]
      BY DEF IInv, Sound, Holds, Readable, HasManifest
    <2>2. PICK kept \in [Files -> 0..Len(data["dest"]) + Len(data["partial"])] :
              /\ \A g \in Files : synced[g] <= kept[g] /\ kept[g] <= Len(data[g])
              /\ data' = [g \in Files |-> Take(data[g], kept[g])]
              /\ UNCHANGED <<present, manifest>>
      BY DEF Crash
    <2>3. data["dest"] \in Seq(Nat) /\ data["partial"] \in Seq(Nat) /\ data[f] \in Seq(Nat)
          /\ synced[f] \in Nat /\ manifest[f].nbytes \in Nat
      BY DEF IInv, TypeOK, Files, Manifests
    <2>4. kept[f] \in 0..Len(data[f])
      <3>1. kept[f] \in 0..(Len(data["dest"]) + Len(data["partial"])) /\ kept[f] <= Len(data[f])
        BY <2>2
      <3> QED
        BY <3>1, <2>3
    <2>5. data'[f] = Take(data[f], kept[f]) /\ Len(data'[f]) = kept[f]
      BY <2>2, <2>3, <2>4, TakeIs
    <2>6. Len(data'[f]) >= manifest[f].nbytes
      BY <2>1, <2>2, <2>3, <2>4, <2>5
    <2> QED
      BY <2>2, <2>6 DEF Readable, HasManifest
  <1>2. IInv /\ [Next]_vars => [Crash => \A f \in Files : Readable(f) => Readable(f)']_vars
    BY <1>1
  <1> QED
    BY Invariance, <1>2, PTL DEF Spec, CrashKeepsProgress

-----------------------------------------------------------------------------
(* What the steps of a download, of a compaction and of a crash are to others:  *)
(* to a reader of the destination those that CommittedRows promises, with every *)
(* replacement whole, and to a program that looks at its files without a lock   *)
(* the changes that SavedFile names.                                            *)

\* The rows after the first n, up to the k-th.
RowsBetween(d, n, k) == {d[i] : i \in (n + 1)..k}

\* Unlike a file that was compacted, d begins with every row of the chunks m accounts for.
Uncut(m, d) ==
    m.names # {} /\ m.nbytes <= Len(d) => RowsBetween(d, 0, m.nbytes) = RowsOf(m.names \ m.skipped)

-----------------------------------------------------------------------------
(* The inductive invariant, on top of IInv.                                  *)

\* Nothing compacts a partial file, so neither its manifest nor its writer misses a row.
PartialIsWhole ==
    /\ Uncut(manifest["partial"], data["partial"])
    /\ pc \in Preparing \cup Writing /\ plan.file = "partial" =>
           RowsBetween(data["partial"], 0, writer.offset) = RowsOf(writer.names \ writer.skipped)
    /\ pc = "replaceManifest" => Uncut(manifest["partial"], data["dest"])

\* What is promoted is the listing, because only that is finished.
ListingIsPromoted ==
    /\ pc \in {"sync", "record"} /\ writer.after = "finish" => writer.names = plan.listing
    /\ pc \in Promoting => manifest["partial"].names = plan.listing

\* The writer knows which names the manifest beside its file has.
RecordedIsSaved ==
    /\ pc \in (Writing \ {"drop"}) \cup {"clearPartial"} \/ (pc = "clearManifest" /\ ~plan.promote) =>
           manifest[plan.file].names = writer.recorded
    /\ pc = "clearManifest" /\ plan.promote => writer.recorded = {}

\* What the writer adds to what m claims: later chunks, and the rows of those it did not skip.
Continues(m, d, w) ==
    /\ m.names \subseteq w.names
    /\ \A c \in w.names \ m.names, e \in m.names : e < c
    /\ w.skipped \cap m.names = m.skipped
    /\ RowsBetween(d, m.nbytes, w.offset) = RowsOf((w.names \ m.names) \ w.skipped)

\* A destination that is extended stays readable all along.
DestIsExtended ==
    pc \in Preparing \cup Writing /\ plan.file = "dest" =>
        Readable("dest") /\ Continues(manifest["dest"], data["dest"], writer)

\* So does one that is compacted, once its manifest follows.
DestIsCut == pc = "compacted" => HasManifest("dest") /\ "dest" \in present

ReaderInv ==
    /\ PartialIsWhole
    /\ ListingIsPromoted
    /\ RecordedIsSaved
    /\ DestIsExtended
    /\ DestIsCut

-----------------------------------------------------------------------------
(* Rows between two places.                                                  *)

\* The rows of a prefix are those up to its length.
LEMMA TakeBetween ==
    ASSUME NEW d \in Seq(Nat), NEW k \in 0..Len(d)
    PROVE  RangeOf(Take(d, k)) = RowsBetween(d, 0, k)
  <1> DEFINE t == Take(d, k)
  <1>1. Len(t) = k /\ \A i \in 1..k : t[i] = d[i]
    BY TakeIs
  <1> HIDE DEF t
  <1>2. RangeOf(t) = {d[i] : i \in 1..k}
    BY <1>1 DEF RangeOf
  <1> QED
    BY <1>2 DEF RowsBetween, t

\* Files that begin alike have the same rows there.
LEMMA BetweenSame ==
    ASSUME NEW d \in Seq(Nat), NEW e \in Seq(Nat), NEW k \in 0..Len(d), k <= Len(e),
           Take(d, k) = Take(e, k), NEW n \in Nat, NEW j \in 0..k
    PROVE  RowsBetween(d, n, j) = RowsBetween(e, n, j)
  <1>1. k \in 0..Len(e)
    OBVIOUS
  <1>2. /\ \A i \in 1..k : Take(d, k)[i] = d[i]
        /\ \A i \in 1..k : Take(e, k)[i] = e[i]
    BY <1>1, TakeIs
  <1>3. \A i \in (n + 1)..j : i \in 1..k
    OBVIOUS
  <1>4. \A i \in (n + 1)..j : d[i] = e[i]
    BY <1>2, <1>3
  <1> QED
    BY <1>4 DEF RowsBetween

\* A chunk appended adds its rows.
LEMMA BetweenGrow ==
    ASSUME NEW d \in Seq(Nat), NEW k \in 0..Len(d), NEW rows \in Seq(Nat), NEW n \in 0..k
    PROVE  RowsBetween(Take(d, k) \o rows, n, k + Len(rows)) = RowsBetween(d, n, k) \cup RangeOf(rows)
  <1> DEFINE t == Take(d, k)
             new == t \o rows
  <1>1. t \in Seq(Nat) /\ Len(t) = k /\ \A i \in 1..k : t[i] = d[i]
    BY TakeIs
  <1> HIDE DEF t
  <1>2. /\ \A i \in 1..k : new[i] = d[i]
        /\ \A i \in 1..Len(rows) : new[k + i] = rows[i]
    BY SMTT(20), <1>1
  <1> HIDE DEF new
  <1>3. ASSUME NEW r \in RowsBetween(new, n, k + Len(rows))
        PROVE  r \in RowsBetween(d, n, k) \cup RangeOf(rows)
    <2>1. PICK i \in (n + 1)..(k + Len(rows)) : r = new[i]
      BY <1>3 DEF RowsBetween
    <2>2. CASE i <= k
      <3>1. i \in 1..k /\ i \in (n + 1)..k
        BY <2>1, <2>2
      <3> QED
        BY <1>2, <2>1, <3>1 DEF RowsBetween
    <2>3. CASE i > k
      <3>1. i - k \in 1..Len(rows) /\ k + (i - k) = i
        BY <2>1, <2>3
      <3> QED
        BY <1>2, <2>1, <3>1 DEF RangeOf
    <2> QED
      BY <2>1, <2>2, <2>3
  <1>4. ASSUME NEW i \in (n + 1)..k
        PROVE  d[i] \in RowsBetween(new, n, k + Len(rows))
    <2>1. i \in 1..k /\ i \in (n + 1)..(k + Len(rows))
      BY <1>4
    <2> QED
      BY <1>2, <2>1 DEF RowsBetween
  <1>5. ASSUME NEW i \in 1..Len(rows)
        PROVE  rows[i] \in RowsBetween(new, n, k + Len(rows))
    <2>1. k + i \in (n + 1)..(k + Len(rows))
      BY <1>5
    <2> QED
      BY <1>2, <2>1 DEF RowsBetween
  <1>6. RowsBetween(new, n, k + Len(rows)) = RowsBetween(d, n, k) \cup RangeOf(rows)
    BY <1>3, <1>4, <1>5 DEF RowsBetween, RangeOf
  <1> QED
    BY <1>6 DEF new, t

\* A file cut short has lost none of what is still readable.
LEMMA UncutCut ==
    ASSUME NEW m \in Manifests, NEW d \in Seq(Nat), Uncut(m, d), NEW k \in 0..Len(d)
    PROVE  Uncut(m, Take(d, k))
  <1> SUFFICES ASSUME m.names # {}, m.nbytes <= Len(Take(d, k))
               PROVE  RowsBetween(Take(d, k), 0, m.nbytes) = RowsOf(m.names \ m.skipped)
    BY DEF Uncut
  <1>1. m.nbytes \in 0..k /\ Take(d, k) \in Seq(Nat) /\ Len(Take(d, k)) = k
    BY TakeIs DEF Manifests
  <1>2. Take(Take(d, k), m.nbytes) = Take(d, m.nbytes)
    BY <1>1, TakeOfTake
  <1>3. RowsBetween(Take(d, k), 0, m.nbytes) = RowsBetween(d, 0, m.nbytes)
    BY SMTT(20), <1>1, <1>2, BetweenSame
  <1> QED
    BY <1>1, <1>3 DEF Uncut

\* Nothing written after what the manifest counts changes it.
LEMMA UncutGrow ==
    ASSUME NEW m \in Manifests, NEW d \in Seq(Nat), Uncut(m, d),
           NEW e \in Seq(Nat), NEW k \in 0..Len(d), k <= Len(e), Take(e, k) = Take(d, k),
           m.names # {} => m.nbytes <= k
    PROVE  Uncut(m, e)
  <1> SUFFICES ASSUME m.names # {}
               PROVE  RowsBetween(e, 0, m.nbytes) = RowsOf(m.names \ m.skipped)
    BY DEF Uncut
  <1>1. m.nbytes \in 0..k
    BY DEF Manifests
  <1>2. RowsBetween(d, 0, m.nbytes) = RowsBetween(e, 0, m.nbytes)
    BY <1>1, BetweenSame
  <1> QED
    BY <1>1, <1>2 DEF Uncut

\* No manifest claims nothing.
LEMMA UncutNothing ==
    ASSUME NEW m, NEW d, m.names = {}
    PROVE  Uncut(m, d)
  BY DEF Uncut

-----------------------------------------------------------------------------
(* The invariant is kept, step by step.                                      *)

\* With nothing on disk, there is nothing to be missing.
LEMMA InitReader == Init => ReaderInv
  <1> SUFFICES ASSUME Init PROVE ReaderInv
    OBVIOUS
  <1>1. manifest["partial"].names = {} /\ pc = "idle"
    BY DEF Init, NoManifest, Files
  <1> QED
    BY <1>1 DEF ReaderInv, PartialIsWhole, Uncut, ListingIsPromoted, RecordedIsSaved, DestIsExtended,
       DestIsCut, Preparing, Writing, Promoting

\* With nothing under way, only the partial file is left to look at.
LEMMA IdleReader ==
    ASSUME Stop, Uncut(manifest["partial"], data["partial"])'
    PROVE  ReaderInv'
  BY DEF Stop, ReaderInv, PartialIsWhole, Uncut, ListingIsPromoted, RecordedIsSaved, DestIsExtended,
     DestIsCut, Preparing, Writing, Promoting

\* What is known of the file being written.
LEMMA WriterFacts ==
    ASSUME IInv, pc \in Writing
    PROVE  /\ plan.file \in Files /\ writer.offset \in Nat /\ data \in [Files -> Seq(Nat)]
           /\ data[plan.file] \in Seq(Nat) /\ writer.offset \in 0..Len(data[plan.file])
           /\ manifest \in [Files -> Manifests] /\ writer \in Writers
           /\ HasManifest(plan.file) => manifest[plan.file].nbytes \in 0..writer.offset
  <1>1. /\ plan.file \in Files /\ writer.offset \in Nat /\ data \in [Files -> Seq(Nat)]
        /\ manifest \in [Files -> Manifests] /\ writer.offset <= Len(data[plan.file]) /\ writer \in Writers
        /\ HasManifest(plan.file) => manifest[plan.file].nbytes <= writer.offset
    BY DEF IInv, TypeOK, Plans, Writers, Planned, Extends
  <1>2. data[plan.file] \in Seq(Nat) /\ manifest[plan.file].nbytes \in Nat
    BY <1>1 DEF Manifests
  <1> QED
    BY <1>1, <1>2

\* Steps that write after what is accounted for, or nothing.
LEMMA WritesAfter ==
    ASSUME IInv, ReaderInv, pc \in Writing \ {"drop"}, pc' \in Writing \ {"drop"},
           data' \in [Files -> Seq(Nat)],
           \A g \in Files : g # plan.file => data'[g] = data[g],
           Take(data'[plan.file], writer.offset) = Take(data[plan.file], writer.offset),
           writer.offset <= Len(data'[plan.file]),
           UNCHANGED <<manifest, plan>>, present \subseteq present',
           writer'.names = writer.names, writer'.skipped = writer.skipped,
           writer'.offset = writer.offset, writer'.recorded = writer.recorded,
           pc' \in {"sync", "record"} /\ writer'.after = "finish" => writer.names = plan.listing
    PROVE  ReaderInv'
  <1> DEFINE f == plan.file
             n == writer.offset
  <1>1. /\ f \in Files /\ n \in Nat /\ data[f] \in Seq(Nat) /\ n \in 0..Len(data[f])
        /\ manifest[f] \in Manifests /\ (HasManifest(f) => manifest[f].nbytes \in 0..n)
    BY WriterFacts
  <1>2. data'[f] \in Seq(Nat)
    BY <1>1
  <1>3. \A k \in Nat : RowsBetween(data'[f], k, n) = RowsBetween(data[f], k, n)
    BY <1>1, <1>2, BetweenSame
  <1>4. PartialIsWhole'
    <2>1. CASE f = "partial"
      <3>0. Uncut(manifest[f], data[f]) /\ (manifest[f].names # {} => manifest[f].nbytes <= n)
        BY <1>1, <2>1 DEF ReaderInv, PartialIsWhole, HasManifest
      <3>1. Uncut(manifest[f], data'[f])
        BY <1>1, <1>2, <3>0, UncutGrow
      <3>2. RowsBetween(data'[f], 0, n) = RowsOf(writer.names \ writer.skipped)
        BY <1>3, <2>1 DEF ReaderInv, PartialIsWhole
      <3> QED
        BY <2>1, <3>1, <3>2 DEF PartialIsWhole, Uncut, Writing, Preparing
    <2>2. CASE f # "partial"
      <3>1. data'["partial"] = data["partial"]
        BY <2>2 DEF Files
      <3> QED
        BY <2>2, <3>1 DEF ReaderInv, PartialIsWhole, Uncut, Writing, Preparing
    <2> QED
      BY <2>1, <2>2
  <1>5. ListingIsPromoted' /\ DestIsCut'
    BY DEF ListingIsPromoted, DestIsCut, Writing, Promoting
  <1>6. RecordedIsSaved'
    BY DEF ReaderInv, RecordedIsSaved, Writing
  <1>7. DestIsExtended'
    <2>1. SUFFICES ASSUME f = "dest"
                   PROVE  Readable("dest")' /\ Continues(manifest["dest"], data'["dest"], writer')
      BY DEF DestIsExtended
    <2>2. Readable("dest") /\ Continues(manifest["dest"], data["dest"], writer)
      BY <2>1 DEF ReaderInv, DestIsExtended
    <2>3. Readable("dest")'
      BY <1>1, <1>2, <2>1, <2>2 DEF Readable, HasManifest
    <2> QED
      BY <1>1, <1>3, <2>1, <2>2, <2>3 DEF Continues, Readable
  <1> QED
    BY <1>4, <1>5, <1>6, <1>7 DEF ReaderInv

\* Steps that account for the next chunk.
LEMMA AccountsFor ==
    ASSUME IInv, ReaderInv, pc \in {"next", "writing"}, pc' = "advance", Pending # {},
           NEW skip \in BOOLEAN, Account(skip), UNCHANGED <<manifest, plan, present>>,
           data' \in [Files -> Seq(Nat)], \A g \in Files : g # plan.file => data'[g] = data[g],
           Take(data'[plan.file], writer.offset) = Take(data[plan.file], writer.offset),
           writer.offset <= Len(data'[plan.file]),
           skip => Len(data'[plan.file]) = writer.offset,
           ~skip => data'[plan.file] = Take(data[plan.file], writer.offset) \o Rows[NextChunk]
    PROVE  ReaderInv'
  <1> DEFINE f == plan.file
             n == writer.offset
             c == NextChunk
             more == IF skip THEN {} ELSE RangeOf(Rows[c])
  <1>1. /\ f \in Files /\ n \in Nat /\ data[f] \in Seq(Nat) /\ n \in 0..Len(data[f])
        /\ manifest[f] \in Manifests /\ (HasManifest(f) => manifest[f].nbytes \in 0..n)
        /\ writer \in Writers
    BY WriterFacts DEF Writing
  <1>2. data'[f] \in Seq(Nat)
    BY <1>1
  <1>3. c \in Chunks /\ c \in Pending /\ \A d \in writer.names : d < c
    BY NextChunkIs DEF IInv, Planned, Writing
  <1>4. c \notin writer.names /\ c \notin writer.skipped /\ writer.skipped \subseteq writer.names
    BY <1>1, <1>3 DEF Pending, Writers
  <1>5. /\ writer'.names = writer.names \cup {c} /\ writer'.recorded = writer.recorded
        /\ writer'.skipped = IF skip THEN writer.skipped \cup {c} ELSE writer.skipped
        /\ writer'.offset = Len(data'[f])
    BY <1>1 DEF Account, Writers
  <1>6. Rows[c] \in Seq(Nat)
    BY <1>3, RowsAssumption
  <1>7. ASSUME NEW k \in 0..n
        PROVE  RowsBetween(data'[f], k, writer'.offset) = RowsBetween(data[f], k, n) \cup more
    <2>1. CASE skip
      <3>1. writer'.offset = n
        BY <1>5, <2>1
      <3>2. RowsBetween(data'[f], k, n) = RowsBetween(data[f], k, n)
        BY <1>1, <1>2, BetweenSame
      <3> QED
        BY <2>1, <3>1, <3>2
    <2>2. CASE ~skip
      <3>1. Len(Take(data[f], n)) = n /\ Take(data[f], n) \in Seq(Nat)
        BY <1>1, TakeIs
      <3>2. writer'.offset = n + Len(Rows[c])
        <4> DEFINE t == Take(data[f], n)
                   rows == Rows[c]
        <4>1. data'[f] = t \o rows
          BY <2>2
        <4>2. t \in Seq(Nat) /\ Len(t) = n /\ rows \in Seq(Nat)
          BY <1>6, <3>1
        <4> HIDE DEF t, rows
        <4>3. Len(t \o rows) = Len(t) + Len(rows)
          BY ZenonT(30), <4>2, ConcatProperties
        <4> QED
          BY <1>5, <4>1, <4>2, <4>3 DEF rows
      <3>3. RowsBetween(Take(data[f], n) \o Rows[c], k, n + Len(Rows[c])) = RowsBetween(data[f], k, n) \cup RangeOf(Rows[c])
        BY <1>1, <1>6, BetweenGrow
      <3> QED
        BY <2>2, <3>2, <3>3
    <2> QED
      BY <2>1, <2>2
  <1>8. ASSUME NEW S, c \notin S
        PROVE  RowsOf((writer'.names \ S) \ writer'.skipped) = RowsOf((writer.names \ S) \ writer.skipped) \cup more
    <2>1. CASE skip
      <3>1. (writer'.names \ S) \ writer'.skipped = (writer.names \ S) \ writer.skipped
        BY <1>4, <1>5, <2>1
      <3> QED
        BY <2>1, <3>1
    <2>2. CASE ~skip
      <3>1. (writer'.names \ S) \ writer'.skipped = ((writer.names \ S) \ writer.skipped) \cup {c}
        BY <1>4, <1>5, <1>8, <2>2
      <3>2. \A T : RowsOf(T \cup {c}) = RowsOf(T) \cup RangeOf(Rows[c])
        BY DEF RowsOf
      <3> QED
        BY <2>2, <3>1, <3>2
    <2> QED
      BY <2>1, <2>2
  <1> HIDE DEF more
  <1>9. PartialIsWhole'
    <2>1. CASE f = "partial"
      <3>0. Uncut(manifest[f], data[f]) /\ (manifest[f].names # {} => manifest[f].nbytes <= n)
        BY <1>1, <2>1 DEF ReaderInv, PartialIsWhole, HasManifest
      <3>1. Uncut(manifest[f], data'[f])
        BY <1>1, <1>2, <3>0, UncutGrow
      <3>2. RowsBetween(data[f], 0, n) = RowsOf(writer.names \ writer.skipped)
        BY <2>1 DEF ReaderInv, PartialIsWhole, Writing
      <3>3. RowsBetween(data'[f], 0, writer'.offset) = RowsBetween(data[f], 0, n) \cup more
        BY <1>1, <1>7
      <3>4. RowsOf(writer'.names \ writer'.skipped) = RowsOf(writer.names \ writer.skipped) \cup more
        <4>1. \A T : T \ {} = T
          OBVIOUS
        <4> QED
          BY <1>8, <4>1
      <3> QED
        BY <2>1, <3>1, <3>2, <3>3, <3>4 DEF PartialIsWhole, Uncut
    <2>2. CASE f # "partial"
      <3>1. data'["partial"] = data["partial"]
        BY <2>2 DEF Files
      <3> QED
        BY <2>2, <3>1 DEF ReaderInv, PartialIsWhole, Uncut
    <2> QED
      BY <2>1, <2>2
  <1>10. ListingIsPromoted' /\ DestIsCut'
    BY DEF ListingIsPromoted, DestIsCut, Promoting
  <1>11. RecordedIsSaved'
    BY <1>5 DEF ReaderInv, RecordedIsSaved, Writing
  <1>12. DestIsExtended'
    <2> DEFINE m == manifest["dest"]
    <2>1. SUFFICES ASSUME f = "dest"
                   PROVE  Readable("dest")' /\ Continues(m, data'["dest"], writer')
      BY DEF DestIsExtended
    <2>2. Readable("dest") /\ Continues(m, data["dest"], writer)
      BY <2>1 DEF ReaderInv, DestIsExtended, Writing
    <2>3. Readable("dest")' /\ m.nbytes \in 0..n
      BY <1>1, <1>2, <2>1, <2>2 DEF Readable, HasManifest
    <2>4. c \notin m.names /\ \A e \in m.names : e < c
      BY <1>3, <1>4, <2>2 DEF Continues
    <2>5. /\ m.names \subseteq writer'.names
          /\ \A x \in writer'.names \ m.names, e \in m.names : e < x
          /\ writer'.skipped \cap m.names = m.skipped
      BY <1>5, <2>2, <2>4 DEF Continues
    <2>6. RowsBetween(data'["dest"], m.nbytes, writer'.offset) = RowsOf((writer'.names \ m.names) \ writer'.skipped)
      <3>1. RowsBetween(data'["dest"], m.nbytes, writer'.offset) = RowsBetween(data["dest"], m.nbytes, n) \cup more
        BY <1>7, <2>1, <2>3
      <3>2. RowsOf((writer'.names \ m.names) \ writer'.skipped) = RowsOf((writer.names \ m.names) \ writer.skipped) \cup more
        BY <1>8, <2>4
      <3> QED
        BY <2>2, <3>1, <3>2 DEF Continues
    <2> QED
      BY <2>3, <2>5, <2>6 DEF Continues
  <1> QED
    BY <1>9, <1>10, <1>11, <1>12 DEF ReaderInv

\* A plan to continue takes what the manifest beside its file says.
LEMMA StartReader ==
    ASSUME IInv, ReaderInv, NEW resume \in BOOLEAN, NEW strict \in BOOLEAN, Start(resume, strict)
    PROVE  ReaderInv'
  <1>0. pc = "idle" /\ UNCHANGED <<staged, present, data, synced, manifest>>
    BY DEF Start, disk
  <1>1. Uncut(manifest["partial"], data["partial"])' /\ DestIsCut'
    <2>1. pc' # "compacted"
      BY DEF Start, Begin
    <2> QED
      BY <1>0, <2>1 DEF ReaderInv, PartialIsWhole, Uncut, DestIsCut
  <1>2. /\ data["partial"] \in Seq(Nat) /\ data["dest"] \in Seq(Nat)
        /\ manifest["dest"] \in Manifests /\ manifest["partial"] \in Manifests
    BY DEF IInv, TypeOK, Files
  <1>3. CASE Resumable("dest", staged) /\ Begin("dest", FALSE, strict, "clearManifest", Resume("dest"))
    <2>1. /\ plan'.file = "dest" /\ plan'.promote = FALSE /\ pc' = "clearManifest"
          /\ writer' = Resume("dest")
      BY <1>3 DEF Begin
    <2>2. PartialIsWhole' /\ ListingIsPromoted'
      BY <1>1, <2>1 DEF PartialIsWhole, ListingIsPromoted, Promoting
    <2>3. RecordedIsSaved'
      BY <1>0, <2>1 DEF RecordedIsSaved, Resume, Writing
    <2>4. Readable("dest")'
      BY <1>0, <1>3 DEF Resumable, Readable, HasManifest
    <2>5. Continues(manifest["dest"], data["dest"], Resume("dest"))
      <3>1. RowsBetween(data["dest"], manifest["dest"].nbytes, manifest["dest"].nbytes) = {}
        BY <1>2 DEF RowsBetween, Manifests
      <3>2. RowsOf({}) = {}
        BY DEF RowsOf
      <3> DEFINE m == manifest["dest"]
      <3>3. m.skipped \subseteq m.names /\ (m.names \ m.names) \ m.skipped = {}
        BY <1>2 DEF Manifests
      <3>4. /\ Resume("dest").names = m.names /\ Resume("dest").skipped = m.skipped
            /\ Resume("dest").offset = m.nbytes
        BY DEF Resume
      <3> QED
        BY <3>1, <3>2, <3>3, <3>4 DEF Continues
    <2>6. DestIsExtended'
      BY <1>0, <2>1, <2>4, <2>5 DEF DestIsExtended, Continues
    <2> QED
      BY <1>1, <2>2, <2>3, <2>6 DEF ReaderInv
  <1>4. CASE Resumable("partial", staged) /\ Begin("partial", TRUE, strict, "open", Resume("partial"))
    <2>1. /\ plan'.file = "partial" /\ plan'.promote = TRUE /\ pc' = "open"
          /\ writer' = Resume("partial")
      BY <1>4 DEF Begin
    <2>2. /\ writer'.names = manifest["partial"].names /\ writer'.skipped = manifest["partial"].skipped
          /\ writer'.offset = manifest["partial"].nbytes /\ writer'.recorded = manifest["partial"].names
      BY <2>1 DEF Resume
    <2>3. manifest["partial"].names # {} /\ manifest["partial"].nbytes <= Len(data["partial"])
      BY <1>4 DEF Resumable, HasManifest
    <2>4. PartialIsWhole'
      BY <1>0, <1>1, <2>1, <2>2, <2>3 DEF ReaderInv, PartialIsWhole, Uncut
    <2>5. ListingIsPromoted' /\ RecordedIsSaved' /\ DestIsExtended'
      BY <1>0, <2>1, <2>2 DEF ListingIsPromoted, RecordedIsSaved, DestIsExtended, Promoting
    <2> QED
      BY <1>1, <2>4, <2>5 DEF ReaderInv
  <1>5. CASE Begin("partial", TRUE, strict, "clearManifest", NoWriter)
    <2>1. /\ plan'.file = "partial" /\ plan'.promote = TRUE /\ pc' = "clearManifest"
          /\ writer' = NoWriter
      BY <1>5 DEF Begin
    <2>2. RowsBetween(data["partial"], 0, 0) = RowsOf({} \ {})
      BY DEF RowsBetween, RowsOf
    <2>3. PartialIsWhole'
      BY <1>0, <1>1, <2>1, <2>2 DEF PartialIsWhole, Uncut, NoWriter
    <2>4. ListingIsPromoted' /\ RecordedIsSaved' /\ DestIsExtended'
      BY <2>1 DEF ListingIsPromoted, RecordedIsSaved, DestIsExtended, Promoting, Writing, NoWriter
    <2> QED
      BY <1>1, <2>3, <2>4 DEF ReaderInv
  <1> QED
    BY <1>3, <1>4, <1>5 DEF Start

\* The partial file's manifest goes; the writer's rows stay.
LEMMA ClearManifestReader ==
    ASSUME IInv, ReaderInv, ClearManifest
    PROVE  ReaderInv'
  <1>1. /\ pc = "clearManifest" /\ pc' \in {"open", "clearPartial"}
        /\ manifest' = [manifest EXCEPT !["partial"] = NoManifest]
        /\ UNCHANGED <<present, data, plan, writer>>
        /\ (pc' = "open" <=> plan.promote) /\ (plan.promote <=> plan.file = "partial")
        /\ plan.file \in Files
    BY DEF ClearManifest, IInv, Planned, Preparing, TypeOK, Plans
  <1>2. manifest'["partial"].names = {} /\ manifest'["dest"] = manifest["dest"]
    BY <1>1 DEF IInv, TypeOK, NoManifest, Files
  <1>3. PartialIsWhole'
    <2>1. Uncut(manifest["partial"], data["partial"])'
      BY <1>2 DEF Uncut
    <2> QED
      BY <1>1, <2>1 DEF ReaderInv, PartialIsWhole, Preparing
  <1>4. ListingIsPromoted' /\ DestIsCut'
    BY <1>1 DEF ListingIsPromoted, DestIsCut, Promoting
  <1>5. RecordedIsSaved'
    BY <1>1, <1>2 DEF ReaderInv, RecordedIsSaved, Files
  <1>6. DestIsExtended'
    BY <1>1, <1>2 DEF ReaderInv, DestIsExtended, Preparing, Readable, HasManifest, Continues
  <1> QED
    BY <1>3, <1>4, <1>5, <1>6 DEF ReaderInv

\* The partial file goes; the plan is for the other.
LEMMA ClearPartialReader ==
    ASSUME IInv, ReaderInv, ClearPartial
    PROVE  ReaderInv'
  <1>1. /\ pc = "clearPartial" /\ present' = present \ {"partial"} /\ UNCHANGED manifest
        /\ data' = [data EXCEPT !["partial"] = <<>>] /\ plan.file = "dest" /\ ~plan.promote
    BY DEF ClearPartial, IInv, Planned, Preparing
  <1>2. data'["partial"] = <<>> /\ data'["dest"] = data["dest"]
    BY <1>1 DEF IInv, TypeOK, Files
  <1>3. Uncut(manifest["partial"], <<>>)
    <2>1. /\ manifest["partial"] \in Manifests /\ data["partial"] \in Seq(Nat)
          /\ Uncut(manifest["partial"], data["partial"])
      BY DEF IInv, TypeOK, Files, ReaderInv, PartialIsWhole
    <2>2. 0 \in 0..Len(data["partial"]) /\ Take(data["partial"], 0) = <<>>
      BY <2>1 DEF Take
    <2> QED
      BY <2>1, <2>2, UncutCut
  <1>4. CASE Stop
    BY <1>1, <1>2, <1>3, <1>4, IdleReader DEF Uncut
  <1>5. CASE pc' = "open" /\ UNCHANGED <<plan, writer>>
    <2>1. PartialIsWhole'
      BY <1>1, <1>2, <1>3, <1>5 DEF PartialIsWhole, Uncut
    <2>2. ListingIsPromoted' /\ DestIsCut'
      BY <1>5 DEF ListingIsPromoted, DestIsCut, Promoting
    <2>3. RecordedIsSaved'
      BY <1>1, <1>5 DEF ReaderInv, RecordedIsSaved
    <2>4. Readable("dest") /\ Continues(manifest["dest"], data["dest"], writer)
      BY <1>1 DEF ReaderInv, DestIsExtended, Preparing
    <2>5. DestIsExtended'
      BY <1>1, <1>2, <1>5, <2>4 DEF DestIsExtended, Readable, HasManifest, Continues
    <2> QED
      BY <2>1, <2>2, <2>3, <2>5 DEF ReaderInv
  <1> QED
    BY <1>4, <1>5 DEF ClearPartial

\* A truncation at the writer's offset leaves the rows it counts.
LEMMA CutView ==
    ASSUME IInv, pc \in Writing, Cut(plan.file, writer.offset)
    PROVE  /\ data' \in [Files -> Seq(Nat)]
           /\ \A g \in Files : g # plan.file => data'[g] = data[g]
           /\ Take(data'[plan.file], writer.offset) = Take(data[plan.file], writer.offset)
           /\ Len(data'[plan.file]) = writer.offset
  <1> DEFINE f == plan.file
             n == writer.offset
  <1>1. /\ f \in Files /\ n \in Nat /\ data \in [Files -> Seq(Nat)] /\ data[f] \in Seq(Nat)
        /\ n \in 0..Len(data[f])
    BY WriterFacts
  <1>2. Take(data[f], n) \in Seq(Nat) /\ Len(Take(data[f], n)) = n
    BY <1>1, TakeIs
  <1>3. /\ data' \in [Files -> Seq(Nat)] /\ data'[f] = Take(data[f], n)
        /\ \A g \in Files : g # f => data'[g] = data[g]
    BY <1>1, <1>2 DEF Cut
  <1>4. Take(Take(data[f], n), n) = Take(data[f], n)
    BY <1>1, TakeOfTake
  <1> QED
    BY <1>2, <1>3, <1>4

\* The file is opened and cut where its manifest, or nothing, ends.
LEMMA OpenReader ==
    ASSUME IInv, ReaderInv, Open
    PROVE  ReaderInv'
  <1>1. /\ pc = "open" /\ pc' = "next" /\ Cut(plan.file, writer.offset)
        /\ present \subseteq present' /\ UNCHANGED <<manifest, plan, writer>>
    BY DEF Open
  <1>2. /\ pc \in Writing \ {"drop"} /\ pc' \in Writing \ {"drop"} /\ pc \in Writing
        /\ writer.offset \in Nat
    BY <1>1, WriterFacts DEF Writing
  <1> QED
    BY <1>1, <1>2, CutView, WritesAfter

\* A torn row follows those accounted for.
LEMMA StartAppendReader ==
    ASSUME IInv, ReaderInv, StartAppend
    PROVE  ReaderInv'
  <1> DEFINE f == plan.file
  <1>1. /\ pc = "next" /\ pc' = "writing" /\ data' = [data EXCEPT ![f] = Append(@, 0)]
        /\ UNCHANGED <<present, manifest, plan, writer>> /\ Len(data[f]) = writer.offset
    BY DEF StartAppend, Torn, IInv, AtEnd
  <1>2. /\ f \in Files /\ writer.offset \in Nat /\ data \in [Files -> Seq(Nat)] /\ data[f] \in Seq(Nat)
        /\ writer.offset \in 0..Len(data[f])
    BY <1>1, WriterFacts DEF Writing
  <1>3. /\ data' \in [Files -> Seq(Nat)] /\ data'[f] = Append(data[f], 0)
        /\ \A g \in Files : g # f => data'[g] = data[g]
    BY <1>1, <1>2
  <1>4. Take(data'[f], writer.offset) = Take(data[f], writer.offset) /\ writer.offset <= Len(data'[f])
    BY <1>1, <1>2, <1>3, TakeOfAppend
  <1>5. pc \in Writing \ {"drop"} /\ pc' \in Writing \ {"drop"} /\ present \subseteq present'
    BY <1>1 DEF Writing
  <1> QED
    BY <1>1, <1>3, <1>4, <1>5, WritesAfter

\* The next chunk's rows follow those accounted for.
LEMMA EndAppendReader ==
    ASSUME IInv, ReaderInv, EndAppend
    PROVE  ReaderInv'
  <1> DEFINE f == plan.file
             n == writer.offset
             kept == Take(data[f], n)
             rows == Rows[NextChunk]
  <1>1. /\ pc = "writing" /\ pc' = "advance" /\ Account(FALSE)
        /\ data' = [data EXCEPT ![f] = kept \o rows]
        /\ UNCHANGED <<present, manifest, plan>>
        /\ Pending # {} /\ IsPrefixOf(writer.names, plan.listing)
    BY DEF EndAppend, IInv, Planned, Writing
  <1>2. /\ f \in Files /\ n \in Nat /\ data \in [Files -> Seq(Nat)] /\ data[f] \in Seq(Nat)
        /\ n \in 0..Len(data[f])
    BY <1>1, WriterFacts DEF Writing
  <1>3. NextChunk \in Chunks
    BY <1>1, NextChunkIs DEF IInv
  <1>4. rows \in Seq(Nat)
    BY <1>3, RowsAssumption
  <1>5. kept \in Seq(Nat) /\ Len(kept) = n
    BY <1>2, TakeIs
  <1>6. kept \o rows \in Seq(Nat) /\ Len(kept \o rows) = Len(kept) + Len(rows) /\ Len(rows) \in Nat
    <2> HIDE DEF kept, rows
    <2>1. kept \o rows \in Seq(Nat) /\ Len(kept \o rows) = Len(kept) + Len(rows)
      BY ZenonT(30), <1>4, <1>5, ConcatProperties
    <2>2. Len(rows) \in Nat
      BY <1>4
    <2> QED
      BY <2>1, <2>2
  <1>7. /\ data' \in [Files -> Seq(Nat)] /\ data'[f] = kept \o rows
        /\ \A g \in Files : g # f => data'[g] = data[g]
    <2> HIDE DEF kept, rows
    <2> QED
      BY <1>1, <1>2, <1>6
  <1>8. Take(data'[f], n) = kept
    <2>1. Take(kept \o rows, n) = Take(kept, n) /\ Take(kept, n) = kept
      BY <1>2, <1>4, <1>5, TakeOfConcat, TakeAll
    <2> QED
      BY <1>7, <2>1
  <1>9. n <= Len(data'[f])
    <2> HIDE DEF kept, rows
    <2> QED
      BY <1>2, <1>5, <1>6, <1>7
  <1> QED
    BY <1>1, <1>7, <1>8, <1>9, AccountsFor

\* A vanished chunk is left out, or ends the download.
LEMMA GoneReader ==
    ASSUME IInv, ReaderInv, Gone
    PROVE  ReaderInv'
  <1>1. /\ pc = "next" /\ Pending # {} /\ data' = data
        /\ UNCHANGED <<present, manifest, plan>> /\ Len(data[plan.file]) = writer.offset
    BY DEF Gone, IInv, AtEnd
  <1>2. /\ data' \in [Files -> Seq(Nat)] /\ writer.offset <= Len(data'[plan.file])
        /\ \A g \in Files : g # plan.file => data'[g] = data[g]
        /\ Take(data'[plan.file], writer.offset) = Take(data[plan.file], writer.offset)
    BY <1>1, WriterFacts DEF Writing
  <1>3. CASE pc' = "abort" /\ UNCHANGED writer
    <2>1. pc \in Writing \ {"drop"} /\ pc' \in Writing \ {"drop"} /\ present \subseteq present'
      BY <1>1, <1>3 DEF Writing
    <2> QED
      BY <1>1, <1>2, <1>3, <2>1, WritesAfter
  <1>4. CASE pc' = "advance" /\ Account(TRUE)
    BY <1>1, <1>2, <1>4, AccountsFor
  <1> QED
    BY <1>3, <1>4 DEF Gone

\* A damaged chunk is cut off, and left out the second time.
LEMMA DamagedReader ==
    ASSUME IInv, ReaderInv, Damaged
    PROVE  ReaderInv'
  <1>1. /\ pc = "writing" /\ Cut(plan.file, writer.offset) /\ Pending # {}
        /\ UNCHANGED <<present, manifest, plan>>
    BY DEF Damaged, IInv, Planned, Writing
  <1>2. pc \in Writing /\ writer.offset \in Nat /\ writer \in Writers
    BY <1>1, WriterFacts DEF Writing
  <1>3. /\ data' \in [Files -> Seq(Nat)] /\ \A g \in Files : g # plan.file => data'[g] = data[g]
        /\ Take(data'[plan.file], writer.offset) = Take(data[plan.file], writer.offset)
        /\ Len(data'[plan.file]) = writer.offset /\ writer.offset <= Len(data'[plan.file])
    BY <1>1, <1>2, CutView
  <1>4. CASE \/ pc' = "abort" /\ writer' = writer
             \/ pc' = "next" /\ writer' = [writer EXCEPT !.refetched = TRUE]
    <2>1. /\ writer'.names = writer.names /\ writer'.skipped = writer.skipped
          /\ writer'.offset = writer.offset /\ writer'.recorded = writer.recorded
      BY <1>2, <1>4 DEF Writers
    <2>2. /\ pc \in Writing \ {"drop"} /\ pc' \in Writing \ {"drop"} /\ present \subseteq present'
          /\ pc' \notin {"sync", "record"}
      BY <1>1, <1>4 DEF Writing
    <2> QED
      BY <1>1, <1>3, <2>1, <2>2, WritesAfter
  <1>5. CASE pc' = "advance" /\ Account(TRUE)
    BY <1>1, <1>3, <1>5, AccountsFor
  <1> QED
    BY <1>4, <1>5 DEF Damaged

\* Steps that change nothing on disk but what is fsynced.
LEMMA PausesReader ==
    ASSUME IInv, ReaderInv, Fail \/ Advance \/ Sync
    PROVE  ReaderInv'
  <1>1. /\ pc \in Writing \ {"drop"} /\ pc' \in Writing \ {"drop"} /\ pc \in Writing
        /\ UNCHANGED <<present, data, manifest, plan>>
    BY DEF Fail, Advance, Sync, Checkpoint, Writing, disk
  <1>2. /\ data' \in [Files -> Seq(Nat)] /\ \A g \in Files : g # plan.file => data'[g] = data[g]
        /\ Take(data'[plan.file], writer.offset) = Take(data[plan.file], writer.offset)
        /\ writer.offset <= Len(data'[plan.file]) /\ writer \in Writers
    BY <1>1, WriterFacts
  <1>3. /\ writer'.names = writer.names /\ writer'.skipped = writer.skipped
        /\ writer'.offset = writer.offset /\ writer'.recorded = writer.recorded
    BY <1>2 DEF Fail, Advance, Sync, Checkpoint, Writers
  <1>4. pc' \in {"sync", "record"} /\ writer'.after = "finish" => writer.names = plan.listing
    <2>1. CASE Fail
      BY <2>1 DEF Fail
    <2>2. CASE Advance
      BY <1>2, <2>2 DEF Advance, Checkpoint, Writers
    <2>3. CASE Sync
      BY <2>3 DEF Sync, ReaderInv, ListingIsPromoted
    <2> QED
      BY <2>1, <2>2, <2>3
  <1> QED
    BY <1>1, <1>2, <1>3, <1>4, WritesAfter

\* The last checkpoint begins: of all the listing, or of what there is.
LEMMA EndReader ==
    ASSUME IInv, ReaderInv, Finish \/ Abort
    PROVE  ReaderInv'
  <1>1. /\ pc \in Writing \ {"drop"} /\ pc' = "sync" /\ Cut(plan.file, writer.offset) /\ pc \in Writing
        /\ UNCHANGED <<present, manifest, plan>> /\ pc' \in Writing \ {"drop"}
    BY DEF Finish, Abort, Checkpoint, Writing
  <1>2. writer.offset \in Nat /\ writer \in Writers
    BY <1>1, WriterFacts
  <1>3. /\ data' \in [Files -> Seq(Nat)] /\ \A g \in Files : g # plan.file => data'[g] = data[g]
        /\ Take(data'[plan.file], writer.offset) = Take(data[plan.file], writer.offset)
        /\ writer.offset <= Len(data'[plan.file])
    BY <1>1, <1>2, CutView
  <1>4. /\ writer'.names = writer.names /\ writer'.skipped = writer.skipped
        /\ writer'.offset = writer.offset /\ writer'.recorded = writer.recorded
    BY <1>2 DEF Finish, Abort, Checkpoint, Writers
  <1>5. writer'.after = "finish" => writer.names = plan.listing
    <2>1. CASE Finish
      <3>1. writer.names \subseteq plan.listing
        BY <1>1 DEF IInv, Planned, IsPrefixOf
      <3> QED
        BY <2>1, <3>1 DEF Finish, Pending
    <2>2. CASE Abort
      BY <1>2, <2>2 DEF Abort, Checkpoint, Writers
    <2> QED
      BY <2>1, <2>2
  <1> QED
    BY <1>1, <1>3, <1>4, <1>5, WritesAfter

\* The manifest takes over what the writer accounts for.
LEMMA RecordReader ==
    ASSUME IInv, ReaderInv, Record
    PROVE  ReaderInv'
  <1> DEFINE f == plan.file
             new == [names |-> writer.names, nbytes |-> writer.offset, skipped |-> writer.skipped]
  <1>1. /\ pc = "record" /\ UNCHANGED <<present, data>>
        /\ manifest' = IF writer.names = writer.recorded THEN manifest ELSE [manifest EXCEPT ![f] = new]
        /\ manifest[f].names = writer.recorded /\ (plan.promote <=> f = "partial")
    BY DEF Record, ReaderInv, RecordedIsSaved, Writing, IInv, Planned
  <1>2. /\ f \in Files /\ writer.offset \in Nat /\ data[f] \in Seq(Nat) /\ writer.offset \in 0..Len(data[f])
        /\ manifest \in [Files -> Manifests] /\ writer \in Writers
    BY <1>1, WriterFacts DEF Writing
  <1>3. /\ \A g \in Files : g # f => manifest'[g] = manifest[g]
        /\ \/ manifest'[f] = manifest[f] /\ writer.names = writer.recorded
           \/ manifest'[f] = new
        /\ manifest'[f].names = writer.names
    BY <1>1, <1>2
  <1>4. Uncut(manifest["partial"], data["partial"])'
    <2>1. Uncut(manifest["partial"], data["partial"])
      BY DEF ReaderInv, PartialIsWhole
    <2>2. CASE f = "partial"
      <3>1. RowsBetween(data["partial"], 0, writer.offset) = RowsOf(writer.names \ writer.skipped)
        BY <1>1, <2>2 DEF ReaderInv, PartialIsWhole, Writing
      <3>2. Uncut(new, data["partial"])
        BY <3>1 DEF Uncut
      <3> QED
        BY <1>1, <1>3, <2>1, <2>2, <3>2
    <2>3. CASE f # "partial"
      BY <1>1, <1>3, <2>1, <2>3 DEF Files
    <2> QED
      BY <2>2, <2>3
  <1>5. CASE Stop
    BY <1>4, <1>5, IdleReader
  <1>6. CASE ~Stop
    <2>1. \/ pc' = "next" /\ writer' = [writer EXCEPT !.recorded = writer.names]
          \/ /\ pc' = "unlinkDest" /\ plan.promote /\ writer.after = "finish"
             /\ writer' = [writer EXCEPT !.recorded = writer.names]
          \/ pc' = "drop" /\ writer' = writer
      BY <1>6 DEF Record
    <2>2. /\ plan' = plan /\ writer'.names = writer.names /\ writer'.skipped = writer.skipped
          /\ writer'.offset = writer.offset
      BY <1>2, <1>6, <2>1 DEF Record, Writers
    <2>3. pc' = "next" => writer'.recorded = writer.names
      BY <1>2, <2>1 DEF Writers
    <2>4. PartialIsWhole'
      <3>1. f = "partial" => RowsBetween(data["partial"], 0, writer.offset) = RowsOf(writer.names \ writer.skipped)
        BY <1>1 DEF ReaderInv, PartialIsWhole, Writing
      <3> QED
        BY <1>1, <1>4, <2>1, <2>2, <3>1 DEF PartialIsWhole
    <2>5. ListingIsPromoted'
      <3>1. writer.after = "finish" => writer.names = plan.listing
        BY <1>1 DEF ReaderInv, ListingIsPromoted
      <3> QED
        BY <1>1, <1>3, <2>1, <2>2, <3>1 DEF ListingIsPromoted, Promoting
    <2>6. RecordedIsSaved' /\ DestIsCut'
      BY <1>3, <2>1, <2>2, <2>3 DEF RecordedIsSaved, DestIsCut, Writing
    <2>7. DestIsExtended'
      <3>1. SUFFICES ASSUME f = "dest"
                     PROVE  Readable("dest")' /\ Continues(manifest'["dest"], data["dest"], writer')
        BY <1>1, <2>2 DEF DestIsExtended
      <3>2. Readable("dest") /\ Continues(manifest["dest"], data["dest"], writer)
        BY <1>1, <3>1 DEF ReaderInv, DestIsExtended, Writing
      <3>3. CASE manifest'[f] = manifest[f]
        BY <1>1, <2>2, <3>1, <3>2, <3>3 DEF Readable, HasManifest, Continues
      <3>4. CASE manifest'[f] = new
        <4>1. writer.names # {}
          BY <3>2 DEF Continues, Readable, HasManifest
        <4>2. Readable("dest")'
          BY <1>1, <1>2, <3>1, <3>2, <3>4, <4>1 DEF Readable, HasManifest
        <4>3. RowsBetween(data["dest"], writer.offset, writer.offset) = {}
          BY <1>2 DEF RowsBetween
        <4>4. /\ writer.skipped \subseteq writer.names /\ RowsOf({}) = {}
              /\ (writer.names \ writer.names) \ writer.skipped = {}
          BY <1>2 DEF RowsOf, Writers
        <4>5. Continues(new, data["dest"], writer')
          BY <2>2, <4>3, <4>4 DEF Continues
        <4> QED
          BY <3>1, <3>4, <4>2, <4>5
      <3> QED
        BY <1>3, <3>3, <3>4
    <2> QED
      BY <2>4, <2>5, <2>6, <2>7 DEF ReaderInv
  <1> QED
    BY <1>5, <1>6

\* Only a partial file without chunks is removed.
LEMMA DropReader ==
    ASSUME IInv, ReaderInv, Drop
    PROVE  ReaderInv'
  <1>1. Stop /\ UNCHANGED manifest
    BY DEF Drop
  <1>2. /\ manifest["partial"] \in Manifests /\ data["partial"] \in Seq(Nat)
        /\ data \in [Files -> Seq(Nat)] /\ Uncut(manifest["partial"], data["partial"])
    BY DEF IInv, TypeOK, Files, ReaderInv, PartialIsWhole
  <1>3. Uncut(manifest["partial"], <<>>)
    <2>1. 0 \in 0..Len(data["partial"]) /\ Take(data["partial"], 0) = <<>>
      BY <1>2 DEF Take
    <2> QED
      BY <1>2, <2>1, UncutCut
  <1>4. data'["partial"] = data["partial"] \/ data'["partial"] = <<>>
    BY <1>2 DEF Drop, Files
  <1> QED
    BY <1>1, <1>2, <1>3, <1>4, IdleReader

\* The old destination's manifest goes, with all of the new one's rows beside it.
LEMMA UnlinkDestReader ==
    ASSUME IInv, ReaderInv, UnlinkDest
    PROVE  ReaderInv'
  <1>1. /\ pc = "unlinkDest" /\ pc' = "replaceDest" /\ UNCHANGED <<data, plan>>
        /\ manifest'["partial"] = manifest["partial"]
    BY DEF UnlinkDest, IInv, TypeOK, Files
  <1> QED
    BY <1>1 DEF ReaderInv, PartialIsWhole, Uncut, ListingIsPromoted, RecordedIsSaved, DestIsExtended,
       DestIsCut, Preparing, Writing, Promoting

\* The data moves, and its manifest still describes it.
LEMMA ReplaceDestReader ==
    ASSUME IInv, ReaderInv, ReplaceDest
    PROVE  ReaderInv'
  <1>1. /\ pc = "replaceDest" /\ pc' = "replaceManifest" /\ UNCHANGED <<manifest, plan>>
        /\ data' = [data EXCEPT !["dest"] = data["partial"], !["partial"] = <<>>]
    BY DEF ReplaceDest
  <1>2. data'["dest"] = data["partial"] /\ data'["partial"] = <<>>
    BY <1>1 DEF IInv, TypeOK, Files
  <1>3. Uncut(manifest["partial"], data["partial"]) /\ Uncut(manifest["partial"], <<>>)
    <2>1. /\ manifest["partial"] \in Manifests /\ data["partial"] \in Seq(Nat)
          /\ Uncut(manifest["partial"], data["partial"])
      BY DEF IInv, TypeOK, Files, ReaderInv, PartialIsWhole
    <2>2. 0 \in 0..Len(data["partial"]) /\ Take(data["partial"], 0) = <<>>
      BY <2>1 DEF Take
    <2> QED
      BY <2>1, <2>2, UncutCut
  <1>4. PartialIsWhole'
    BY <1>1, <1>2, <1>3 DEF PartialIsWhole, Uncut, Preparing, Writing
  <1> QED
    BY <1>1, <1>4 DEF ReaderInv, ListingIsPromoted, RecordedIsSaved, DestIsExtended, DestIsCut,
       Preparing, Writing, Promoting

\* Steps that end what was under way and leave the partial file, or cut it short.
LEMMA EndsReader ==
    ASSUME IInv, ReaderInv, ReplaceManifest \/ RecordCompacted \/ Crash
    PROVE  ReaderInv'
  <1>1. Stop
    BY DEF ReplaceManifest, RecordCompacted, Crash
  <1>2. /\ manifest["partial"] \in Manifests /\ data["partial"] \in Seq(Nat) /\ data["dest"] \in Seq(Nat)
        /\ manifest \in [Files -> Manifests] /\ data \in [Files -> Seq(Nat)]
        /\ Uncut(manifest["partial"], data["partial"])
    BY DEF IInv, TypeOK, Files, ReaderInv, PartialIsWhole
  <1>3. CASE ReplaceManifest
    <2>1. manifest'["partial"].names = {}
      BY <1>2, <1>3 DEF ReplaceManifest, NoManifest, Files
    <2> QED
      BY <1>1, <2>1, IdleReader DEF Uncut
  <1>4. CASE RecordCompacted
    <2>1. manifest'["partial"] = manifest["partial"] /\ data' = data
      BY <1>2, <1>4 DEF RecordCompacted, Files
    <2> QED
      BY <1>1, <1>2, <2>1, IdleReader DEF Uncut
  <1>5. CASE Crash
    <2>1. PICK kept \in [Files -> 0..Len(data["dest"]) + Len(data["partial"])] :
              /\ \A f \in Files : synced[f] <= kept[f] /\ kept[f] <= Len(data[f])
              /\ data' = [f \in Files |-> Take(data[f], kept[f])]
              /\ UNCHANGED manifest
      BY <1>5 DEF Crash
    <2>2. kept["partial"] \in 0..(Len(data["dest"]) + Len(data["partial"]))
      BY <2>1 DEF Files
    <2>3. kept["partial"] \in 0..Len(data["partial"]) /\ data'["partial"] = Take(data["partial"], kept["partial"])
      BY <1>2, <2>1, <2>2 DEF Files
    <2>4. Uncut(manifest["partial"], data'["partial"])
      BY <1>2, <2>3, UncutCut
    <2> QED
      BY <1>1, <2>1, <2>4, IdleReader DEF Uncut
  <1> QED
    BY <1>3, <1>4, <1>5

\* A compaction leaves the partial file alone.
LEMMA CompactReader ==
    ASSUME IInv, ReaderInv, NEW cut \in 1..Len(data["dest"]), Compact(cut)
    PROVE  ReaderInv'
  <1>1. /\ pc = "idle" /\ pc' = "compacted" /\ UNCHANGED <<present, manifest>>
        /\ HasManifest("dest") /\ "dest" \in present
        /\ data'["partial"] = data["partial"]
    BY DEF Compact, Readable, IInv, TypeOK, Files
  <1> QED
    BY <1>1 DEF ReaderInv, PartialIsWhole, Uncut, ListingIsPromoted, RecordedIsSaved, DestIsExtended,
       DestIsCut, HasManifest, Preparing, Writing, Promoting

\* Steps that leave the directory and the download alone.
LEMMA ElsewhereReader ==
    ASSUME ReaderInv, UNCHANGED <<present, data, manifest, pc, plan, writer>>
    PROVE  ReaderInv'
  BY DEF ReaderInv, PartialIsWhole, Uncut, ListingIsPromoted, RecordedIsSaved, DestIsExtended,
     DestIsCut, HasManifest, Readable, Continues

\* ReaderInv is inductive, given IInv.
LEMMA StepReader == (IInv /\ ReaderInv /\ [Next]_vars) => ReaderInv'
  <1> SUFFICES ASSUME IInv, ReaderInv, [Next]_vars PROVE ReaderInv'
    OBVIOUS
  <1>1. CASE \E resume, strict \in BOOLEAN : Start(resume, strict)
    BY <1>1, StartReader
  <1>2. CASE \E cut \in 1..Len(data["dest"]) : Compact(cut)
    BY <1>2, CompactReader
  <1>3. CASE Work
    BY <1>3, ClearManifestReader, ClearPartialReader, OpenReader, StartAppendReader, EndAppendReader,
       GoneReader, PausesReader, EndReader, RecordReader, DropReader, UnlinkDestReader,
       ReplaceDestReader, EndsReader DEF Work
  <1>4. CASE Damaged \/ Fail \/ Crash
    BY <1>4, DamagedReader, PausesReader, EndsReader
  <1>5. CASE \E c \in Chunks : Upload(c) \/ Remove(c)
    BY <1>5, ElsewhereReader DEF Upload, Remove, disk
  <1>6. CASE UNCHANGED vars
    BY <1>6, ElsewhereReader DEF vars
  <1> QED
    BY <1>1, <1>2, <1>3, <1>4, <1>5, <1>6 DEF Next, Faults

\* Every reachable state satisfies both invariants.
LEMMA ReaderInvariance == Spec => [](IInv /\ ReaderInv)
  <1>1. Init => IInv /\ ReaderInv
    BY InitIInv, InitReader
  <1>2. (IInv /\ ReaderInv /\ [Next]_vars) => (IInv /\ ReaderInv)'
    BY StepIInv, StepReader
  <1> QED
    BY <1>1, <1>2, PTL DEF Spec

-----------------------------------------------------------------------------
(* What a reader sees of each step.                                          *)

\* Nothing.
Unseen == View' = View /\ (Readable("dest")' <=> Readable("dest"))

\* A reader of the destination looks at its manifest and at as many rows as that counts.
LEMMA SameForReader ==
    ASSUME pc # "compacted", pc' # "compacted", manifest'["dest"] = manifest["dest"],
           ("dest" \in present') <=> ("dest" \in present),
           HasManifest("dest") /\ "dest" \in present =>
               /\ manifest["dest"].nbytes <= Len(data'["dest"]) <=> manifest["dest"].nbytes <= Len(data["dest"])
               /\ Readable("dest") =>
                      Take(data'["dest"], manifest["dest"].nbytes) = Take(data["dest"], manifest["dest"].nbytes)
    PROVE  Unseen
  <1>1. Readable("dest")' <=> Readable("dest")
    BY DEF Readable, HasManifest
  <1>2. Readable("dest") => Committed("dest")' = Committed("dest")
    BY DEF Readable, Committed
  <1> QED
    BY <1>1, <1>2 DEF Unseen, View

\* Writing, into either file, after what is accounted for.
LEMMA UnseenWrite ==
    ASSUME IInv, ReaderInv, pc \in Writing, pc' # "compacted", manifest' = manifest,
           data' \in [Files -> Seq(Nat)], \A g \in Files : g # plan.file => data'[g] = data[g],
           Take(data'[plan.file], writer.offset) = Take(data[plan.file], writer.offset),
           writer.offset <= Len(data'[plan.file]),
           present' = present \/ present' = present \cup {plan.file}
    PROVE  Unseen
  <1> DEFINE d == data["dest"]
             e == data'["dest"]
             n == writer.offset
             k == manifest["dest"].nbytes
  <1>1. /\ plan.file \in Files /\ n \in Nat /\ data[plan.file] \in Seq(Nat) /\ n \in 0..Len(data[plan.file])
        /\ HasManifest(plan.file) => manifest[plan.file].nbytes \in 0..n
        /\ pc # "compacted"
    BY WriterFacts DEF Writing
  <1>2. CASE plan.file # "dest"
    <2>1. e = d /\ (("dest" \in present') <=> ("dest" \in present))
      BY <1>2 DEF Files
    <2> QED
      BY <1>1, <2>1, SameForReader
  <1>3. CASE plan.file = "dest"
    <2>1. Readable("dest")
      BY <1>3 DEF ReaderInv, DestIsExtended
    <2>2. /\ k \in 0..n /\ "dest" \in present /\ d \in Seq(Nat) /\ e \in Seq(Nat)
          /\ n \in 0..Len(d) /\ n \in 0..Len(e) /\ Take(e, n) = Take(d, n)
      BY <1>1, <1>3, <2>1 DEF Readable, Files
    <2>3. Take(Take(d, n), k) = Take(d, k) /\ Take(Take(e, n), k) = Take(e, k)
      BY <2>2, TakeOfTake
    <2>4. Take(e, k) = Take(d, k) /\ k <= Len(e) /\ k <= Len(d) /\ (("dest" \in present') <=> ("dest" \in present))
      BY <2>2, <2>3
    <2> QED
      BY <1>1, <2>4, SameForReader
  <1> QED
    BY <1>2, <1>3

\* Planning, writing and fsyncing show a reader nothing.
LEMMA WorkUnseen ==
    ASSUME IInv, ReaderInv,
           Open \/ StartAppend \/ EndAppend \/ Gone \/ Damaged \/ Fail \/ Advance \/ Sync \/ Finish \/ Abort
    PROVE  Unseen
  <1> DEFINE f == plan.file
             n == writer.offset
  <1>1. /\ pc \in Writing /\ pc' \in Writing /\ pc' # "compacted" /\ manifest' = manifest
        /\ present' = present \/ present' = present \cup {f}
    BY DEF Open, StartAppend, EndAppend, Gone, Damaged, Fail, Advance, Sync, Finish, Abort, Checkpoint, Writing, disk
  <1>2. /\ f \in Files /\ n \in Nat /\ data \in [Files -> Seq(Nat)] /\ data[f] \in Seq(Nat)
        /\ n \in 0..Len(data[f])
    BY <1>1, WriterFacts
  <1>3. CASE data' = data
    BY <1>1, <1>2, <1>3, UnseenWrite
  <1>4. CASE Cut(f, n)
    BY <1>1, <1>2, <1>4, CutView, UnseenWrite
  <1>5. CASE StartAppend
    <2>1. data' = [data EXCEPT ![f] = Append(@, 0)]
      BY <1>5 DEF StartAppend, Torn
    <2>2. /\ data' \in [Files -> Seq(Nat)] /\ data'[f] = Append(data[f], 0)
          /\ \A g \in Files : g # f => data'[g] = data[g]
      BY <1>2, <2>1
    <2>3. Take(data'[f], n) = Take(data[f], n) /\ n <= Len(data'[f])
      BY <1>2, <2>2, TakeOfAppend
    <2> QED
      BY <1>1, <2>2, <2>3, UnseenWrite
  <1>6. CASE EndAppend
    <2> DEFINE kept == Take(data[f], n)
               rows == Rows[NextChunk]
    <2>1. /\ data' = [data EXCEPT ![f] = kept \o rows]
          /\ pc = "writing" /\ Pending # {} /\ IsPrefixOf(writer.names, plan.listing)
      BY <1>6 DEF EndAppend, IInv, Planned, Writing
    <2>2. rows \in Seq(Nat)
      BY <2>1, NextChunkIs, RowsAssumption DEF IInv
    <2>3. kept \in Seq(Nat) /\ Len(kept) = n
      BY <1>2, TakeIs
    <2>4. Take(kept \o rows, n) = Take(kept, n) /\ Take(kept, n) = kept
      BY <1>2, <2>2, <2>3, TakeOfConcat, TakeAll
    <2> HIDE DEF kept, rows
    <2>5. kept \o rows \in Seq(Nat) /\ Len(kept \o rows) = Len(kept) + Len(rows) /\ Len(rows) \in Nat
      BY <2>2, <2>3, ConcatProperties
    <2>6. /\ data' \in [Files -> Seq(Nat)] /\ data'[f] = kept \o rows
          /\ \A g \in Files : g # f => data'[g] = data[g]
      BY <1>2, <2>1, <2>5
    <2>7. Take(data'[f], n) = Take(data[f], n) /\ n <= Len(data'[f])
      BY <1>2, <2>3, <2>4, <2>5, <2>6 DEF kept
    <2> QED
      BY <1>1, <2>6, <2>7, UnseenWrite
  <1>7. data' = data \/ Cut(f, n) \/ StartAppend \/ EndAppend
    BY DEF Open, Gone, Damaged, Fail, Advance, Sync, Finish, Abort, disk
  <1> QED
    BY <1>3, <1>4, <1>5, <1>6, <1>7

\* So do the steps around them that leave the destination.
LEMMA AsideUnseen ==
    ASSUME IInv, ReaderInv,
           \/ \E resume, strict \in BOOLEAN : Start(resume, strict)
           \/ ClearManifest \/ ClearPartial \/ Drop \/ ReplaceDest
    PROVE  Unseen
  <1>1. /\ data \in [Files -> Seq(Nat)] /\ manifest \in [Files -> Manifests] /\ plan.file \in Files
        /\ "dest" \in Files /\ "partial" \in Files
    BY DEF IInv, TypeOK, Plans, Files
  <1>2. pc # "compacted" /\ pc' # "compacted"
    BY DEF Start, Begin, ClearManifest, ClearPartial, Drop, ReplaceDest, Stop
  <1>3. CASE \/ \E resume, strict \in BOOLEAN : Start(resume, strict)
             \/ ClearManifest \/ ClearPartial
    <2>1. /\ manifest'["dest"] = manifest["dest"] /\ data'["dest"] = data["dest"]
          /\ ("dest" \in present') <=> ("dest" \in present)
      BY <1>1, <1>3 DEF Start, ClearManifest, ClearPartial, disk
    <2> QED
      BY <1>2, <2>1, SameForReader
  <1>4. CASE Drop
    <2>1. plan.file = "dest" => writer.names # {}
      BY <1>4 DEF Drop, ReaderInv, DestIsExtended, Continues, Readable, HasManifest, Writing
    <2>2. /\ manifest'["dest"] = manifest["dest"] /\ data'["dest"] = data["dest"]
          /\ ("dest" \in present') <=> ("dest" \in present)
      BY <1>1, <1>4, <2>1 DEF Drop
    <2> QED
      BY <1>2, <2>2, SameForReader
  <1>5. CASE ReplaceDest
    <2>1. manifest' = manifest /\ ~HasManifest("dest")
      BY <1>5 DEF ReplaceDest, IInv, Moved
    <2>2. ~Readable("dest") /\ ~Readable("dest")'
      BY <2>1 DEF Readable, HasManifest
    <2> QED
      BY <1>2, <2>2 DEF Unseen, View
  <1> QED
    BY <1>3, <1>4, <1>5

\* A crash takes nothing a reader sees, except in the middle of a compaction.
LEMMA CrashUnseen ==
    ASSUME IInv, Crash
    PROVE  /\ pc # "compacted" => Unseen
           /\ pc = "compacted" => ~Readable("dest")'
  <1> DEFINE d == data["dest"]
             k == manifest["dest"].nbytes
  <1>1. /\ d \in Seq(Nat) /\ synced["dest"] \in Nat /\ k \in Nat /\ "dest" \in Files
        /\ manifest["dest"].names # {} /\ k <= Len(d) => k <= synced["dest"]
    BY DEF IInv, TypeOK, Files, Manifests, Sound, Holds
  <1>2. PICK kept \in [Files -> 0..Len(data["dest"]) + Len(data["partial"])] :
            /\ \A f \in Files : synced[f] <= kept[f] /\ kept[f] <= Len(data[f])
            /\ data' = [f \in Files |-> Take(data[f], kept[f])]
            /\ UNCHANGED <<present, manifest>> /\ pc' = "idle"
    BY DEF Crash, Stop
  <1>3. kept["dest"] \in Nat
    <2>1. kept["dest"] \in 0..(Len(data["dest"]) + Len(data["partial"]))
      BY <1>1, <1>2
    <2> QED
      BY <2>1
  <1>4. /\ kept["dest"] \in 0..Len(d) /\ synced["dest"] <= kept["dest"]
        /\ data'["dest"] = Take(d, kept["dest"])
    BY <1>1, <1>2, <1>3
  <1>5. Len(data'["dest"]) = kept["dest"]
    BY <1>1, <1>4, TakeIs
  <1>6. ASSUME pc # "compacted"
        PROVE  Unseen
    <2>1. HasManifest("dest") => (k <= Len(data'["dest"]) <=> k <= Len(d))
      BY <1>1, <1>3, <1>4, <1>5 DEF HasManifest
    <2>2. HasManifest("dest") /\ k <= Len(d) => Take(data'["dest"], k) = Take(d, k)
      <3>1. HasManifest("dest") /\ k <= Len(d) => k \in 0..kept["dest"]
        BY <1>1, <1>3, <1>4 DEF HasManifest
      <3> QED
        BY <1>1, <1>4, <3>1, TakeOfTake
    <2> QED
      BY <1>2, <1>6, <2>1, <2>2, SameForReader DEF Readable
  <1>7. ASSUME pc = "compacted"
        PROVE  ~Readable("dest")'
    <2>1. Len(d) < k
      BY <1>7 DEF IInv, Compacted
    <2>2. ~(k <= Len(data'["dest"]))
      BY <1>1, <1>3, <1>4, <1>5, <2>1
    <2> QED
      BY <1>2, <2>2 DEF Readable
  <1> QED
    BY <1>6, <1>7

\* A destination that becomes readable, other than after a compaction, is the partial file
\* that a download completed.
LEMMA OnlyReplaced ==
    ASSUME IInv, ReaderInv, [Next]_vars, pc # "compacted", ~Readable("dest"), Readable("dest")'
    PROVE  ReplaceManifest
  <1>1. CASE \E resume, strict \in BOOLEAN : Start(resume, strict)
    BY <1>1, AsideUnseen DEF Unseen
  <1>2. CASE \E cut \in 1..Len(data["dest"]) : Compact(cut)
    BY <1>2 DEF Compact
  <1>3. CASE Work
    <2>1. CASE Record
      <3>1. CASE plan.file = "dest"
        BY <2>1, <3>1 DEF Record, ReaderInv, DestIsExtended, Writing
      <3>2. CASE plan.file # "dest"
        <4>1. manifest'["dest"] = manifest["dest"] /\ UNCHANGED <<present, data>>
          BY <2>1, <3>2 DEF Record, IInv, TypeOK, Files
        <4> QED
          BY <4>1 DEF Readable, HasManifest
      <3> QED
        BY <3>1, <3>2
    <2>2. CASE UnlinkDest
      <3>1. manifest'["dest"].names = {}
        BY <2>2 DEF UnlinkDest, IInv, TypeOK, Files, NoManifest
      <3> QED
        BY <3>1 DEF Readable, HasManifest
    <2>3. CASE RecordCompacted
      BY <2>3 DEF RecordCompacted
    <2> QED
      BY <1>3, <2>1, <2>2, <2>3, WorkUnseen, AsideUnseen DEF Work, Unseen
  <1>4. CASE Damaged \/ Fail \/ Crash
    BY <1>4, WorkUnseen, CrashUnseen DEF Unseen
  <1>5. CASE (\E c \in Chunks : Upload(c) \/ Remove(c)) \/ UNCHANGED vars
    <2>1. UNCHANGED <<present, data, manifest>>
      BY <1>5 DEF Upload, Remove, vars, disk
    <2> QED
      BY <2>1 DEF Readable, HasManifest
  <1> QED
    BY <1>1, <1>2, <1>3, <1>4, <1>5 DEF Next, Faults

\* A file that takes the destination's place accounts for every chunk of the listing its
\* download was planned under, and holds all rows of those that could be read.
THEOREM ReplacementsAreWhole == Spec => ReplacedWhole
  <1>1. ASSUME IInv, ReaderInv, [Next]_vars, pc # "compacted", ~Readable("dest"), Readable("dest")'
        PROVE  /\ manifest'["dest"].names = plan.listing
               /\ RangeOf(Committed("dest")') = RowsOf(manifest'["dest"].names \ manifest'["dest"].skipped)
    <2> DEFINE m == manifest["partial"]
               d == data["dest"]
    <2>1. ReplaceManifest
      BY <1>1, OnlyReplaced
    <2>2. /\ pc = "replaceManifest" /\ data' = data /\ manifest'["dest"] = m
          /\ m \in Manifests /\ d \in Seq(Nat)
      BY <1>1, <2>1 DEF ReplaceManifest, IInv, TypeOK, Files
    <2>3. m.names = plan.listing /\ Uncut(m, d)
      BY <1>1, <2>2 DEF ReaderInv, ListingIsPromoted, PartialIsWhole, Promoting
    <2>4. m.names # {} /\ m.nbytes \in 0..Len(d)
      BY <1>1, <2>2 DEF Readable, HasManifest, Manifests
    <2>5. RangeOf(Take(d, m.nbytes)) = RowsOf(m.names \ m.skipped)
      BY <2>2, <2>3, <2>4, TakeBetween DEF Uncut
    <2> QED
      BY <2>2, <2>3, <2>5 DEF Committed
  <1>2. (IInv /\ ReaderInv /\ [Next]_vars) =>
            [(pc # "compacted" /\ ~Readable("dest") /\ Readable("dest")') =>
                /\ manifest'["dest"].names = plan.listing
                /\ RangeOf(Committed("dest")') = RowsOf(manifest'["dest"].names \ manifest'["dest"].skipped)]_vars
    BY <1>1
  <1> QED
    BY ReaderInvariance, <1>2, PTL DEF Spec, ReplacedWhole

-----------------------------------------------------------------------------
(* The refinement.                                                           *)

\* The rows after the first k of the first n, in a sequence of their own.
LEMMA TailBetween ==
    ASSUME NEW d \in Seq(Nat), NEW n \in 0..Len(d), NEW k \in 0..n, Increasing(Take(d, n))
    PROVE  /\ Increasing(SubSeq(Take(d, n), k + 1, n))
           /\ RangeOf(SubSeq(Take(d, n), k + 1, n)) = RowsBetween(d, k, n)
  <1> DEFINE t == Take(d, n)
             u == SubSeq(t, k + 1, n)
  <1>1. t \in Seq(Nat) /\ Len(t) = n /\ \A i \in 1..n : t[i] = d[i]
    BY TakeIs
  <1> HIDE DEF t
  <1>2. /\ u \in Seq(Nat) /\ Len(u) = n - k
        /\ \A i \in 1..(n - k) : u[i] = t[k + i] /\ k + i \in 1..n
    BY <1>1, SubSeqProperties
  <1> HIDE DEF u
  <1>3. Increasing(u)
    <2>1. SUFFICES ASSUME NEW i \in 1..(n - k), NEW j \in 1..(n - k), i < j
                   PROVE  u[i] < u[j]
      BY <1>2 DEF Increasing
    <2>2. /\ u[i] = t[k + i] /\ k + i \in 1..n
          /\ u[j] = t[k + j] /\ k + j \in 1..n /\ k + i < k + j
      BY <1>2, <2>1
    <2>3. \A x, y \in 1..n : x < y => t[x] < t[y]
      BY <1>1 DEF Increasing, t
    <2> QED
      BY <2>2, <2>3
  <1>4. RangeOf(u) = RowsBetween(d, k, n)
    <2>1. ASSUME NEW r \in RangeOf(u)
          PROVE  r \in RowsBetween(d, k, n)
      <3>1. PICK i \in 1..(n - k) : r = u[i]
        BY <1>2, <2>1 DEF RangeOf
      <3>2. r = t[k + i] /\ k + i \in 1..n
        BY <1>2, <3>1
      <3>3. r = d[k + i]
        BY <1>1, <3>2
      <3>4. k + i \in (k + 1)..n
        BY <3>1
      <3> QED
        BY <3>3, <3>4 DEF RowsBetween
    <2>2. ASSUME NEW i \in (k + 1)..n
          PROVE  d[i] \in RangeOf(u)
      <3>1. i - k \in 1..(n - k) /\ k + (i - k) = i /\ i \in 1..n
        BY <2>2
      <3>2. u[i - k] = d[i]
        BY <1>1, <1>2, <3>1
      <3> QED
        BY <1>2, <3>1, <3>2 DEF RangeOf
    <2> QED
      BY <2>1, <2>2 DEF RowsBetween
  <1> QED
    BY <1>3, <1>4 DEF u, t

\* The rows of a whole file, in order.
LEMMA ShownInOrder ==
    ASSUME NEW rows, NEW S, Increasing(rows), RangeOf(rows) = RowsOf(S)
    PROVE  Reader!RowsInOrder(rows, S)
  BY DEF Reader!RowsInOrder, Reader!RangeOf, Increasing, RangeOf, RowsOf

\* What a reader sees of a destination it can read.
LEMMA ReadableView ==
    ASSUME pc # "compacted", Readable("dest")
    PROVE  View = [names |-> manifest["dest"].names, skipped |-> manifest["dest"].skipped,
                   rows |-> Committed("dest")]
  BY DEF View

\* A checkpoint shows a reader the chunks written since the last one.
LEMMA RecordExtends ==
    ASSUME IInv, ReaderInv, Record
    PROVE  Unseen \/ Reader!Extend
  <1> DEFINE f == plan.file
             d == data["dest"]
             m == manifest["dest"]
             n == writer.offset
             new == [names |-> writer.names, nbytes |-> n, skipped |-> writer.skipped]
  <1>1. /\ pc = "record" /\ UNCHANGED <<present, data>> /\ pc' # "compacted" /\ pc # "compacted"
        /\ manifest' = IF writer.names = writer.recorded THEN manifest ELSE [manifest EXCEPT ![f] = new]
    BY DEF Record, Stop
  <1>2. /\ f \in Files /\ n \in Nat /\ data[f] \in Seq(Nat) /\ n \in 0..Len(data[f])
        /\ manifest \in [Files -> Manifests] /\ (HasManifest(f) => manifest[f].nbytes \in 0..n)
        /\ SuffixOf(Take(data[f], n), writer.names \ writer.skipped)
    BY <1>1, WriterFacts DEF Writing, IInv, Planned
  <1>3. CASE manifest'["dest"] = m
    BY <1>1, <1>3, SameForReader
  <1>4. CASE manifest'["dest"] # m
    <2>1. f = "dest" /\ manifest'["dest"] = new
      BY <1>1, <1>2, <1>4 DEF Files
    <2>2. Readable("dest") /\ Continues(m, d, writer)
      BY <1>1, <2>1 DEF ReaderInv, DestIsExtended, Writing
    <2>3. m.nbytes \in 0..n /\ d \in Seq(Nat) /\ n \in 0..Len(d) /\ m.names # {} /\ "dest" \in present
      <3>1. m.names # {} /\ "dest" \in present /\ HasManifest(f)
        BY <2>1, <2>2 DEF Readable, HasManifest
      <3>2. m.nbytes \in 0..n
        BY <1>2, <2>1, <3>1
      <3>3. d \in Seq(Nat) /\ n \in 0..Len(d)
        BY <1>2, <2>1
      <3> QED
        BY <3>1, <3>2, <3>3
    <2>4. Readable("dest")'
      BY <1>1, <2>1, <2>2, <2>3 DEF Readable, HasManifest, Continues
    <2>5. View.names = m.names /\ View.skipped = m.skipped /\ View.rows = Take(d, m.nbytes)
      BY <1>1, <2>2 DEF View, Committed
    <2>6. View'.names = writer.names /\ View'.skipped = writer.skipped /\ View'.rows = Take(d, n)
      BY <1>1, <2>1, <2>4 DEF View, Committed
    <2>7. /\ Len(Take(d, n)) = n /\ Len(Take(d, m.nbytes)) = m.nbytes
          /\ Take(Take(d, n), m.nbytes) = Take(d, m.nbytes)
      BY <2>3, TakeIs, TakeOfTake
    <2>8. SubSeq(View'.rows, 1, Len(View.rows)) = View.rows /\ Len(View'.rows) >= Len(View.rows)
      BY <2>3, <2>5, <2>6, <2>7 DEF Take
    <2>9. Reader!RowsInOrder(SubSeq(View'.rows, Len(View.rows) + 1, Len(View'.rows)),
                             (View'.names \ View.names) \ View'.skipped)
      <3>1. Increasing(Take(d, n))
        BY <1>2, <2>1 DEF SuffixOf
      <3>2. /\ Increasing(SubSeq(Take(d, n), m.nbytes + 1, n))
            /\ RangeOf(SubSeq(Take(d, n), m.nbytes + 1, n)) = RowsOf((writer.names \ m.names) \ writer.skipped)
        BY <2>2, <2>3, <3>1, TailBetween DEF Continues
      <3> QED
        BY <2>5, <2>6, <2>7, <3>2, ShownInOrder
    <2>10. View # Reader!Hidden
      <3>1. Reader!Hidden.names = {}
        BY DEF Reader!Hidden
      <3> QED
        BY <2>3, <2>5, <3>1
    <2> QED
      BY <2>2, <2>5, <2>6, <2>8, <2>9, <2>10 DEF Reader!Extend, Continues
  <1> QED
    BY <1>3, <1>4

\* A promotion hides the old destination and then shows a complete one.
LEMMA PromotionShows ==
    ASSUME IInv, ReaderInv
    PROVE  /\ UnlinkDest => Reader!Hide
           /\ ReplaceManifest => Unseen \/ Reader!Show
  <1>1. ASSUME UnlinkDest
        PROVE  Reader!Hide
    <2>1. manifest'["dest"].names = {} /\ pc' # "compacted"
      BY <1>1 DEF UnlinkDest, IInv, TypeOK, Files, NoManifest
    <2> QED
      BY <2>1 DEF Reader!Hide, Reader!Hidden, View, Readable, HasManifest
  <1>2. ASSUME ReplaceManifest
        PROVE  Unseen \/ Reader!Show
    <2> DEFINE m == manifest["partial"]
               d == data["dest"]
    <2>1. /\ pc = "replaceManifest" /\ UNCHANGED <<present, data>> /\ manifest'["dest"] = m
          /\ pc' # "compacted" /\ pc # "compacted" /\ ~HasManifest("dest")
          /\ m \in Manifests /\ d \in Seq(Nat)
      BY <1>2 DEF ReplaceManifest, Stop, IInv, TypeOK, Files, Moved
    <2>2. ~Readable("dest") /\ View = Reader!Hidden
      BY <2>1 DEF Readable, View, Reader!Hidden
    <2>3. CASE ~Readable("dest")'
      BY <2>1, <2>2, <2>3 DEF Unseen, View
    <2>4. CASE Readable("dest")'
      <3>1. m.names # {} /\ m.nbytes \in 0..Len(d) /\ m.names \subseteq Chunks /\ m.skipped \subseteq m.names
        BY <2>1, <2>4 DEF Readable, HasManifest, Manifests
      <3>2. View'.names = m.names /\ View'.skipped = m.skipped /\ View'.rows = Take(d, m.nbytes)
        BY <2>1, <2>4 DEF View, Committed
      <3>3. RangeOf(Take(d, m.nbytes)) = RowsOf(m.names \ m.skipped)
        BY <2>1, <3>1, TakeBetween DEF ReaderInv, PartialIsWhole, Uncut
      <3>4. Increasing(Take(d, m.nbytes))
        BY <2>1, <3>1 DEF IInv, Moved, Holds, SuffixOf
      <3>5. Reader!RowsInOrder(View'.rows, View'.names \ View'.skipped)
        BY <3>2, <3>3, <3>4, ShownInOrder
      <3> QED
        BY <2>2, <3>1, <3>2, <3>5 DEF Reader!Show
    <2> QED
      BY <2>3, <2>4
  <1> QED
    BY <1>1, <1>2

\* A compaction drops oldest rows for a reader as soon as the data file is cut.
LEMMA CompactionTrims ==
    ASSUME IInv, ReaderInv
    PROVE  /\ \A cut \in 1..Len(data["dest"]) : Compact(cut) => Reader!Trim
           /\ RecordCompacted => View' = View
  <1> DEFINE d == data["dest"]
             m == manifest["dest"]
  <1>1. ASSUME NEW cut \in 1..Len(data["dest"]), Compact(cut)
        PROVE  Reader!Trim
    <2>1. /\ pc # "compacted" /\ pc' = "compacted" /\ Readable("dest") /\ cut < m.nbytes
          /\ manifest' = manifest /\ data' = [data EXCEPT !["dest"] = SubSeq(d, cut + 1, m.nbytes)]
      BY <1>1 DEF Compact
    <2>2. d \in Seq(Nat) /\ m.nbytes \in 0..Len(d)
      BY <2>1 DEF IInv, TypeOK, Files, Manifests, Readable
    <2>3. data'["dest"] = SubSeq(d, cut + 1, m.nbytes)
      BY <2>1 DEF IInv, TypeOK, Files
    <2>4. View.names = m.names /\ View.skipped = m.skipped /\ View.rows = Take(d, m.nbytes)
      BY <2>1 DEF View, Committed
    <2>5. View'.names = m.names /\ View'.skipped = m.skipped /\ View'.rows = SubSeq(d, cut + 1, m.nbytes)
      BY <2>1, <2>3 DEF View
    <2>6. Len(Take(d, m.nbytes)) = m.nbytes /\ cut \in 1..(m.nbytes - 1)
      <3>1. m.nbytes \in Nat /\ cut \in Nat \ {0} /\ cut < m.nbytes
        BY <2>1, <2>2
      <3>2. Len(Take(d, m.nbytes)) = m.nbytes
        BY <2>2, TakeIs
      <3> QED
        BY <3>1, <3>2
    <2>7. SubSeq(d, cut + 1, m.nbytes) = SubSeq(Take(d, m.nbytes), cut + 1, m.nbytes)
      BY <2>2, <2>6, SubSeqOfTake
    <2> QED
      BY <2>4, <2>5, <2>6, <2>7 DEF Reader!Trim
  <1>2. ASSUME RecordCompacted
        PROVE  View' = View
    <2>1. /\ pc = "compacted" /\ pc' # "compacted" /\ UNCHANGED <<present, data>>
          /\ manifest' = [manifest EXCEPT !["dest"].nbytes = writer.offset]
          /\ writer.offset = Len(d) /\ HasManifest("dest") /\ "dest" \in present
      BY <1>2 DEF RecordCompacted, Stop, IInv, Compacted, ReaderInv, DestIsCut
    <2>2. /\ manifest'["dest"].names = m.names /\ manifest'["dest"].skipped = m.skipped
          /\ manifest'["dest"].nbytes = Len(d) /\ d \in Seq(Nat)
      BY <2>1 DEF IInv, TypeOK, Files, Manifests
    <2>3. Readable("dest")' /\ Committed("dest")' = d
      BY <2>1, <2>2, TakeAll DEF Readable, HasManifest, Committed
    <2> QED
      BY <2>1, <2>2, <2>3 DEF View
  <1> QED
    BY <1>1, <1>2

\* Whatever a step of the downloads, compactions and crashes is, to a reader of the destination it
\* is one that CommittedRows promises, or none.
THEOREM ReadersArePromised == Spec => ImplementsCommittedRows
  <1>1. Init => Reader!Init
    BY DEF Init, Reader!Init, Reader!Hidden, View, Readable, HasManifest, NoManifest, Files
  <1>2. ASSUME IInv, ReaderInv, [Next]_vars
        PROVE  [Reader!Next]_View
    <2>1. CASE \E resume, strict \in BOOLEAN : Start(resume, strict)
      BY <1>2, <2>1, AsideUnseen DEF Unseen
    <2>2. CASE \E cut \in 1..Len(data["dest"]) : Compact(cut)
      BY <1>2, <2>2, CompactionTrims DEF Reader!Next
    <2>3. CASE Work
      <3>1. CASE Record
        BY <1>2, <3>1, RecordExtends DEF Unseen, Reader!Next
      <3>2. CASE UnlinkDest \/ ReplaceManifest
        BY <1>2, <3>2, PromotionShows DEF Unseen, Reader!Next
      <3>3. CASE RecordCompacted
        BY <1>2, <3>3, CompactionTrims
      <3> QED
        BY <1>2, <2>3, <3>1, <3>2, <3>3, WorkUnseen, AsideUnseen DEF Work, Unseen
    <2>4. CASE Damaged \/ Fail
      BY <1>2, <2>4, WorkUnseen DEF Unseen
    <2>5. CASE Crash
      <3>1. CASE pc # "compacted"
        BY <1>2, <2>5, <3>1, CrashUnseen DEF Unseen
      <3>2. CASE pc = "compacted"
        <4>1. ~Readable("dest")' /\ pc' # "compacted"
          BY <1>2, <2>5, <3>2, CrashUnseen DEF Crash, Stop
        <4> QED
          BY <4>1 DEF View, Reader!Next, Reader!Hide, Reader!Hidden
      <3> QED
        BY <3>1, <3>2
    <2>6. CASE (\E c \in Chunks : Upload(c) \/ Remove(c)) \/ UNCHANGED vars
      <3>1. UNCHANGED <<present, data, manifest, pc>>
        BY <2>6 DEF Upload, Remove, vars, disk
      <3> QED
        BY <3>1 DEF View, Readable, HasManifest, Committed
    <2> QED
      BY <1>2, <2>1, <2>2, <2>3, <2>4, <2>5, <2>6 DEF Next, Faults
  <1>3. (IInv /\ ReaderInv /\ [Next]_vars) => [Reader!Next]_View
    BY <1>2
  <1> QED
    BY ReaderInvariance, <1>1, <1>3, PTL DEF Spec, ImplementsCommittedRows, Reader!Spec

-----------------------------------------------------------------------------
(* Rows in order are told by their set.                                      *)

\* A set of numbers that is not empty has a least one.
LEMMA LeastOf ==
    ASSUME NEW T \in SUBSET Nat, T # {}
    PROVE  \E c \in T : \A d \in T : c <= d
  <1>1. PICK c \in T : \A d \in T : ~(<<d, c>> \in OpToRel(<, Nat))
    BY NatLessThanWellFounded, WFMin
  <1>2. ASSUME NEW d \in T
        PROVE  c <= d
    <2>1. <<d, c>> \in Nat \X Nat
      OBVIOUS
    <2>2. ~(d < c)
      BY <1>1, <2>1 DEF OpToRel
    <2> QED
      BY <2>2
  <1> QED
    BY <1>2

\* Two increasing sequences of one length with the same elements are the same.
LEMMA SameOrder ==
    ASSUME NEW n \in Nat, NEW s \in [1..n -> Nat], NEW t \in [1..n -> Nat],
           \A i, j \in 1..n : i < j => s[i] < s[j],
           \A i, j \in 1..n : i < j => t[i] < t[j],
           \A i \in 1..n : \E j \in 1..n : s[i] = t[j],
           \A i \in 1..n : \E j \in 1..n : t[i] = s[j]
    PROVE  s = t
  <1> DEFINE T == {i \in 1..n : s[i] # t[i]}
  <1>1. CASE T = {}
    <2>1. \A i \in 1..n : s[i] = t[i]
      BY <1>1
    <2> QED
      BY <2>1
  <1>2. CASE T # {}
    <2>0. T \in SUBSET Nat
      OBVIOUS
    <2>1. PICK i \in T : \A j \in T : i <= j
      <3> HIDE DEF T
      <3> QED
        BY <1>2, <2>0, LeastOf
    <2>2. i \in 1..n /\ s[i] # t[i] /\ s[i] \in Nat /\ t[i] \in Nat
      BY <2>1
    <2>3. \A j \in 1..n : j < i => s[j] = t[j]
      BY <2>1
    <2>4. PICK j \in 1..n : s[i] = t[j]
      BY <2>2
    <2>5. PICK k \in 1..n : t[i] = s[k]
      BY <2>2
    <2> HIDE DEF T
    <2>6. i < j
      <3>1. j # i
        BY <2>2, <2>4
      <3>2. ~(j < i)
        <4> SUFFICES ASSUME j < i PROVE FALSE
          OBVIOUS
        <4>1. s[j] = t[j] /\ s[j] < s[i] /\ s[j] \in Nat
          BY <2>2, <2>3
        <4> QED
          BY <2>2, <2>4, <4>1
      <3> QED
        BY <2>2, <3>1, <3>2
    <2>7. i < k
      <3>1. k # i
        BY <2>2, <2>5
      <3>2. ~(k < i)
        <4> SUFFICES ASSUME k < i PROVE FALSE
          OBVIOUS
        <4>1. s[k] = t[k] /\ t[k] < t[i] /\ t[k] \in Nat
          BY <2>2, <2>3
        <4> QED
          BY <2>2, <2>5, <4>1
      <3> QED
        BY <2>2, <3>1, <3>2
    <2>8. t[i] < t[j] /\ s[i] < s[k]
      BY <2>2, <2>6, <2>7
    <2>9. t[i] < s[i] /\ s[i] < t[i]
      BY <2>4, <2>5, <2>8
    <2> QED
      BY <2>2, <2>9
  <1> QED
    BY <1>1, <1>2

\* An instance counts as the module does that it instantiates.
LEMMA SameCount ==
    ASSUME NEW T
    PROVE  Visible!Cardinality(T) = Cardinality(T)
  BY DEF Visible!Cardinality, Cardinality

\* So the rows that SavedFile chooses are these.
LEMMA RowsAre ==
    ASSUME NEW S \in SUBSET Chunks, NEW s \in Seq(Nat), Increasing(s), RangeOf(s) = RowsOf(S)
    PROVE  Visible!RowsOf(S) = s
  <1> DEFINE n == Len(s)
             all == RowsOf(S)
             Goes(t) == \A i, j \in DOMAIN t : i < j => t[i] < t[j]
  <1>1. UNION {Visible!RangeOf(Rows[c]) : c \in S} = all
    <2>1. \A c \in S : Visible!RangeOf(Rows[c]) = RangeOf(Rows[c])
      <3> TAKE c \in S
      <3>1. Rows[c] \in Seq(Nat \ {0})
        BY RowsAssumption
      <3>2. DOMAIN Rows[c] = 1..Len(Rows[c])
        BY <3>1
      <3> QED
        BY <3>2 DEF Visible!RangeOf, RangeOf
    <2>2. {Visible!RangeOf(Rows[c]) : c \in S} = {RangeOf(Rows[c]) : c \in S}
      BY <2>1
    <2> QED
      BY <2>2 DEF RowsOf
  <1>2. /\ n \in Nat /\ DOMAIN s = 1..n /\ all \subseteq Nat
        /\ \A i \in 1..n : s[i] \in all
        /\ \A r \in all : \E i \in 1..n : r = s[i]
        /\ \A i, j \in 1..n : i < j => s[i] < s[j]
    BY DEF RangeOf, Increasing
  <1>3. s \in [1..n -> all] /\ Goes(s)
    BY <1>2
  <1>4a. IsFiniteSet(1..n) /\ Cardinality(1..n) = n
    <2>1. n \in Int /\ 1 \in Int /\ (1 > n => n = 0)
      BY <1>2
    <2> HIDE DEF n
    <2>2. /\ IsFiniteSet(1..n)
          /\ Cardinality(1..n) = IF 1 > n THEN 0 ELSE n - 1 + 1
      BY <2>1, FS_Interval
    <2> QED
      BY <2>1, <2>2
  <1> HIDE DEF all
  <1>4. IsFiniteSet(all) /\ Cardinality(all) = n
    <2>1. s \in Bijection(1..n, all)
      BY <1>2, <1>3 DEF Bijection, Injection, Surjection, IsInjective
    <2> QED
      BY <1>4a, <2>1, FS_Bijection DEF ExistsBijection
  <1>5. ASSUME NEW t \in [1..n -> all], Goes(t)
        PROVE  t = s
    <2>1. \A i, j \in 1..n : i < j => t[i] < t[j]
      BY <1>5
    <2>2. t \in Injection(1..n, all)
      <3>1. \A i \in 1..n : t[i] \in Nat
        BY <1>2
      <3>2. \A i, j \in 1..n : t[i] = t[j] => i = j
        <4> SUFFICES ASSUME NEW i \in 1..n, NEW j \in 1..n, t[i] = t[j], i # j PROVE FALSE
          OBVIOUS
        <4>1. i < j \/ j < i
          OBVIOUS
        <4> QED
          BY <2>1, <3>1, <4>1
      <3> QED
        BY <3>2 DEF Injection, IsInjective
    <2>3. IsFiniteSet(1..n) /\ Cardinality(1..n) = n
      BY <1>4a
    <2>4. t \in Surjection(1..n, all)
      BY <1>4, <2>2, <2>3, FS_Injection
    <2>5. \A r \in all : \E i \in 1..n : r = t[i]
      BY <2>4 DEF Surjection
    <2>6. s \in [1..n -> Nat] /\ t \in [1..n -> Nat]
      BY <1>2, <1>3
    <2>7. /\ \A i \in 1..n : \E j \in 1..n : t[i] = s[j]
          /\ \A i \in 1..n : \E j \in 1..n : s[i] = t[j]
      BY <1>2, <2>5
    <2> HIDE DEF n
    <2> QED
      BY <1>2, <2>1, <2>6, <2>7, SameOrder
  <1>6. Visible!RowsOf(S) = CHOOSE t \in [1..n -> all] : Goes(t)
    <2> DEFINE them == UNION {Visible!RangeOf(Rows[c]) : c \in S}
    <2>1. Visible!RowsOf(S) = CHOOSE t \in [1..Visible!Cardinality(them) -> them] : Goes(t)
      BY Zenon DEF Visible!RowsOf
    <2> HIDE DEF them
    <2>2. them = all
      BY <1>1 DEF them
    <2> QED
      BY <1>4, <2>1, <2>2, SameCount
  <1> HIDE DEF Goes, n
  <1> QED
    BY <1>3, <1>5, <1>6

\* What a writer has put after the rows that m counts.
LEMMA WrittenRows ==
    ASSUME NEW d \in Seq(Nat), NEW m \in Manifests, NEW w \in Writers,
           w.offset <= Len(d), m.nbytes <= w.offset, Continues(m, d, w),
           SuffixOf(Take(d, w.offset), w.names \ w.skipped)
    PROVE  Take(d, w.offset) = Take(d, m.nbytes) \o Visible!RowsOf((w.names \ m.names) \ w.skipped)
  <1> DEFINE n == w.offset
             k == m.nbytes
             t == Take(d, n)
             u == SubSeq(t, k + 1, n)
  <1>1. n \in 0..Len(d) /\ k \in 0..n
    BY DEF Manifests, Writers
  <1>2. t \in Seq(Nat) /\ Len(t) = n /\ Take(t, k) = Take(d, k)
    BY <1>1, TakeIs, TakeOfTake
  <1>3. Increasing(u) /\ RangeOf(u) = RowsOf((w.names \ m.names) \ w.skipped)
    BY <1>1, TailBetween DEF Continues, SuffixOf
  <1> HIDE DEF t
  <1>4. u \in Seq(Nat)
    <2> HIDE DEF n, k
    <2> QED
      BY <1>1, <1>2, SubSeqProperties
  <1>5. (w.names \ m.names) \ w.skipped \in SUBSET Chunks
    BY DEF Writers
  <1> HIDE DEF u
  <1>6. Visible!RowsOf((w.names \ m.names) \ w.skipped) = u
    BY <1>3, <1>4, <1>5, RowsAre
  <1>7. SubSeq(t, 1, k) \o SubSeq(t, k + 1, n) = SubSeq(t, 1, n)
    <2>1. 1 \in 1..(Len(t) + 1) /\ k \in (1 - 1)..Len(t) /\ n \in k..Len(t)
      BY <1>1, <1>2
    <2> QED
      BY <1>2, <2>1, ConcatAdjacentSubSeq
  <1>8. SubSeq(t, 1, n) = t
    BY <1>2, TakeAll DEF Take
  <1> QED
    BY <1>2, <1>6, <1>7, <1>8 DEF Take, t, u

-----------------------------------------------------------------------------
(* What the steps of a promotion rest on, besides: the inductive invariant   *)
(* of the manifests' counts, on top of IInv and ReaderInv.                    *)

\* No download is planned for an empty stage.
SomethingListed == pc \in Preparing \cup Writing \cup Promoting => plan.listing # {}

\* The writer has the chunks that the manifest has, and if it has no other, then as many rows.
RecordedIsCounted ==
    /\ pc \in Preparing \cup Writing => writer.recorded \subseteq writer.names
    /\ pc \in Preparing \cup (Writing \ {"drop"}) /\ writer.recorded # {} /\ writer.names = writer.recorded =>
           manifest[plan.file].nbytes = writer.offset

\* What is promoted is the whole of the partial file, to where no manifest is.
AllIsPromoted ==
    /\ pc \in {"unlinkDest", "replaceDest"} => manifest["partial"].nbytes = Len(data["partial"])
    /\ pc = "replaceManifest" => manifest["partial"].nbytes = Len(data["dest"])
    /\ pc \in {"replaceDest", "replaceManifest"} => manifest["dest"] = NoManifest

CountInv ==
    /\ SomethingListed
    /\ RecordedIsCounted
    /\ AllIsPromoted

\* With nothing under way, nothing is counted.
LEMMA IdleCount ==
    ASSUME pc' \in {"idle", "compacted"}
    PROVE  CountInv'
  BY DEF CountInv, SomethingListed, RecordedIsCounted, AllIsPromoted, Preparing, Writing, Promoting

\* Steps that write rows without accounting for them.
LEMMA WritesCount ==
    ASSUME CountInv, pc \in Writing \ {"drop"}, pc' \in Writing \ {"drop"}, UNCHANGED <<manifest, plan>>,
           writer'.names = writer.names, writer'.offset = writer.offset, writer'.recorded = writer.recorded
    PROVE  CountInv'
  BY DEF CountInv, SomethingListed, RecordedIsCounted, AllIsPromoted, Writing, Promoting

\* A chunk accounted for is not in the manifest yet.
LEMMA AccountsCount ==
    ASSUME IInv, CountInv, pc \in {"next", "writing"}, Pending # {}, pc' = "advance",
           UNCHANGED <<manifest, plan>>, NEW skip \in BOOLEAN, Account(skip)
    PROVE  CountInv'
  <1>1. NextChunk \in Pending
    BY NextChunkIs DEF IInv, Planned, Writing
  <1>2. /\ writer'.names = writer.names \cup {NextChunk} /\ writer'.recorded = writer.recorded
        /\ NextChunk \notin writer.names
    BY <1>1 DEF Account, Pending, IInv, TypeOK, Writers
  <1> QED
    BY <1>2 DEF CountInv, SomethingListed, RecordedIsCounted, AllIsPromoted, Writing, Promoting

\* CountInv is inductive, given the others.
LEMMA StepCount == (IInv /\ ReaderInv /\ CountInv /\ [Next]_vars) => CountInv'
  <1> SUFFICES ASSUME IInv, ReaderInv, CountInv, [Next]_vars PROVE CountInv'
    OBVIOUS
  <1>0. writer \in Writers /\ manifest \in [Files -> Manifests] /\ data \in [Files -> Seq(Nat)]
    BY DEF IInv, TypeOK
  <1>1. CASE \E resume, strict \in BOOLEAN : Start(resume, strict)
    <2>1. /\ pc' \in {"clearManifest", "open"} /\ manifest' = manifest /\ plan'.listing # {}
          /\ \/ writer' = NoWriter
             \/ writer' = Resume(plan'.file)
      BY <1>1 DEF Start, Begin, disk
    <2>2. writer'.recorded = writer'.names /\ (writer'.recorded # {} => manifest[plan'.file].nbytes = writer'.offset)
      BY <2>1 DEF NoWriter, Resume
    <2> QED
      BY <2>1, <2>2 DEF CountInv, SomethingListed, RecordedIsCounted, AllIsPromoted, Promoting
  <1>2. CASE \E cut \in 1..Len(data["dest"]) : Compact(cut)
    BY <1>2, IdleCount DEF Compact
  <1>3. CASE ClearManifest
    <2>1. /\ pc = "clearManifest" /\ pc' \in {"open", "clearPartial"} /\ UNCHANGED <<plan, writer>>
          /\ manifest' = [manifest EXCEPT !["partial"] = NoManifest]
          /\ (plan.promote <=> plan.file = "partial")
      BY <1>3 DEF ClearManifest, IInv, Planned, Preparing
    <2>2. plan.promote => writer.recorded = {}
      BY <2>1 DEF ReaderInv, RecordedIsSaved
    <2>3. ~plan.promote => manifest'[plan.file] = manifest[plan.file]
      BY <1>0, <2>1 DEF IInv, TypeOK, Plans, Files
    <2> QED
      BY <2>1, <2>2, <2>3 DEF CountInv, SomethingListed, RecordedIsCounted, AllIsPromoted, Preparing, Writing, Promoting
  <1>4. CASE ClearPartial
    <2>1. Stop \/ (/\ pc = "clearPartial" /\ pc' = "open" /\ UNCHANGED <<manifest, plan, writer>>)
      BY <1>4 DEF ClearPartial
    <2> QED
      BY <2>1, IdleCount DEF Stop, CountInv, SomethingListed, RecordedIsCounted, AllIsPromoted, Preparing,
         Writing, Promoting
  <1>5. CASE Open \/ StartAppend \/ Fail \/ Advance \/ Sync \/ Finish \/ Abort
    <2>1. /\ pc \in Writing \ {"drop"} /\ pc' \in Writing \ {"drop"} /\ UNCHANGED <<manifest, plan>>
          /\ writer'.names = writer.names /\ writer'.offset = writer.offset /\ writer'.recorded = writer.recorded
      BY <1>0, <1>5 DEF Open, StartAppend, Fail, Advance, Sync, Finish, Abort, Checkpoint, Writing, Writers, disk
    <2> QED
      BY <2>1, WritesCount
  <1>6. CASE EndAppend \/ Gone \/ Damaged
    <2>1. /\ pc \in {"next", "writing"} /\ UNCHANGED <<manifest, plan>>
          /\ Pending # {}
          /\ \/ /\ pc' \in {"next", "abort"}
                /\ writer'.names = writer.names /\ writer'.offset = writer.offset
                /\ writer'.recorded = writer.recorded
             \/ pc' = "advance" /\ \E skip \in BOOLEAN : Account(skip)
      BY <1>0, <1>6 DEF EndAppend, Gone, Damaged, Writers, IInv, Planned, Writing
    <2>2. pc \in Writing \ {"drop"}
      BY <2>1 DEF Writing
    <2>3. CASE /\ pc' \in {"next", "abort"}
               /\ writer'.names = writer.names /\ writer'.offset = writer.offset
               /\ writer'.recorded = writer.recorded
      <3>1. pc' \in Writing \ {"drop"}
        BY <2>3 DEF Writing
      <3> QED
        BY <2>1, <2>2, <2>3, <3>1, WritesCount
    <2>4. CASE pc' = "advance" /\ \E skip \in BOOLEAN : Account(skip)
      BY <2>1, <2>4, AccountsCount
    <2> QED
      BY <2>1, <2>3, <2>4
  <1>7. CASE Record
    <2> DEFINE f == plan.file
               new == [names |-> writer.names, nbytes |-> writer.offset, skipped |-> writer.skipped]
    <2>1. /\ pc = "record" /\ data' = data
          /\ manifest' = IF writer.names = writer.recorded THEN manifest ELSE [manifest EXCEPT ![f] = new]
          /\ f \in Files /\ (plan.promote <=> f = "partial") /\ Len(data[f]) = writer.offset
          /\ writer.recorded \subseteq writer.names /\ plan.listing # {}
          /\ writer.after = "finish" => writer.names = plan.listing
          /\ writer.recorded # {} /\ writer.names = writer.recorded => manifest[f].nbytes = writer.offset
      BY <1>7 DEF Record, IInv, TypeOK, Plans, Planned, AtEnd, ReaderInv, ListingIsPromoted, CountInv, SomethingListed,
         RecordedIsCounted, Writing
    <2>2. writer.names # {} => manifest'[f].nbytes = writer.offset
      BY <1>0, <2>1
    <2>3. CASE Stop
      BY <2>3, IdleCount DEF Stop
    <2>4. CASE ~Stop
      <3>1. /\ plan' = plan /\ writer'.names = writer.names /\ writer'.offset = writer.offset
            /\ \/ pc' = "next" /\ writer'.recorded = writer.names
               \/ pc' = "unlinkDest" /\ plan.promote /\ writer.after = "finish"
               \/ pc' = "drop" /\ writer'.recorded = writer.recorded
        BY <1>0, <1>7, <2>4 DEF Record, Writers
      <3>2. pc' = "unlinkDest" => manifest'["partial"].nbytes = Len(data'["partial"])
        BY <2>1, <2>2, <3>1
      <3> QED
        BY <2>1, <2>2, <3>1, <3>2 DEF CountInv, SomethingListed, RecordedIsCounted, AllIsPromoted, Preparing, Writing
    <2> QED
      BY <2>3, <2>4
  <1>8. CASE Drop \/ ReplaceManifest \/ RecordCompacted \/ Crash
    BY <1>8, IdleCount DEF Drop, ReplaceManifest, RecordCompacted, Crash, Stop
  <1>9. CASE UnlinkDest
    <2>1. /\ pc = "unlinkDest" /\ pc' = "replaceDest" /\ UNCHANGED <<data, plan, writer>>
          /\ manifest'["partial"] = manifest["partial"] /\ manifest'["dest"] = NoManifest
      BY <1>0, <1>9 DEF UnlinkDest, Files
    <2> QED
      BY <2>1 DEF CountInv, SomethingListed, RecordedIsCounted, AllIsPromoted, Preparing, Writing, Promoting
  <1>10. CASE ReplaceDest
    <2>1. /\ pc = "replaceDest" /\ pc' = "replaceManifest" /\ UNCHANGED <<manifest, plan, writer>>
          /\ data'["dest"] = data["partial"]
      BY <1>0, <1>10 DEF ReplaceDest, Files
    <2> QED
      BY <2>1 DEF CountInv, SomethingListed, RecordedIsCounted, AllIsPromoted, Preparing, Writing, Promoting
  <1>11. CASE (\E c \in Chunks : Upload(c) \/ Remove(c)) \/ UNCHANGED vars
    <2>1. UNCHANGED <<data, manifest, pc, plan, writer>>
      BY <1>11 DEF Upload, Remove, vars, disk
    <2> QED
      BY <2>1 DEF CountInv, SomethingListed, RecordedIsCounted, AllIsPromoted
  <1> QED
    BY <1>1, <1>2, <1>3, <1>4, <1>5, <1>6, <1>7, <1>8, <1>9, <1>10, <1>11 DEF Next, Work, Faults

\* Every reachable state satisfies all three.
LEMMA CountInvariance == Spec => [](IInv /\ ReaderInv /\ CountInv)
  <1>1. Init => CountInv
    <2>1. Init => pc = "idle"
      BY DEF Init
    <2> QED
      BY <2>1 DEF CountInv, SomethingListed, RecordedIsCounted, AllIsPromoted, Preparing, Writing, Promoting
  <1> QED
    BY ReaderInvariance, StepCount, <1>1, PTL DEF Spec

-----------------------------------------------------------------------------
(* What a program that takes no lock sees of each step.                      *)

\* Nothing.
SavedStays == UNCHANGED Visible!saved

\* A manifest is on its way only after the second rename, or the first write of a compaction.
LEMMA NothingComing ==
    /\ pc \notin {"replaceManifest", "compacted"} => Coming = NoManifest
    /\ pc' \notin {"replaceManifest", "compacted"} => Coming' = NoManifest
    /\ Visible!None = NoManifest
  BY DEF Coming, Visible!None, NoManifest

\* Steps that leave the destination and its manifest.
LEMMA StaysOnDisk ==
    ASSUME data'["dest"] = data["dest"], manifest'["dest"] = manifest["dest"],
           pc \notin {"replaceManifest", "compacted"}, pc' \notin {"replaceManifest", "compacted"}
    PROVE  SavedStays
  BY NothingComing DEF SavedStays, Visible!saved

\* Steps after which the file being written ends where the writer is.
LEMMA WritesSeen ==
    ASSUME IInv, ReaderInv, IInv', ReaderInv', pc \in Writing, pc' \in Writing, UNCHANGED <<manifest, plan>>,
           plan.file = "dest", Unseen, Len(data'["dest"]) = writer'.offset
    PROVE  \E S \in SUBSET Visible!After(manifest["dest"].names) : Visible!Write(S, <<>>)
  <1> DEFINE d == data'["dest"]
             m == manifest["dest"]
             w == writer'
             S == (w.names \ m.names) \ w.skipped
  <1>1. Readable("dest") /\ Readable("dest")' /\ Continues(m, d, w)
    BY DEF ReaderInv, DestIsExtended
  <1>2. pc # "compacted" /\ pc' # "compacted" /\ pc # "replaceManifest" /\ pc' # "replaceManifest"
    BY DEF Writing
  <1>3. Take(d, m.nbytes) = Take(data["dest"], m.nbytes)
    BY <1>1, <1>2 DEF Unseen, View, Committed
  <1>4. /\ d \in Seq(Nat) /\ m \in Manifests /\ w \in Writers /\ w.offset <= Len(d)
        /\ SuffixOf(Take(d, w.offset), w.names \ w.skipped)
    BY DEF IInv, TypeOK, Files, Planned
  <1>5. m.nbytes <= w.offset
    BY <1>1 DEF Readable
  <1>6. d = Take(d, m.nbytes) \o Visible!RowsOf(S)
    <2>1. Take(d, w.offset) = d
      BY <1>4, TakeAll
    <2> HIDE DEF d, m, w
    <2>2. Take(d, w.offset) = Take(d, m.nbytes) \o Visible!RowsOf((w.names \ m.names) \ w.skipped)
      BY <1>1, <1>4, <1>5, WrittenRows
    <2> QED
      BY <2>1, <2>2
  <1>7. S \in SUBSET Visible!After(m.names)
    <2>1. w.names \subseteq Chunks /\ \A c \in w.names \ m.names, e \in m.names : e < c
      BY <1>1, <1>4 DEF Continues, Writers
    <2> HIDE DEF m, w
    <2> QED
      BY <2>1 DEF Visible!After
  <1>8. Visible!Write(S, <<>>)
    <2>1. Visible!Readable
      BY <1>1 DEF Readable, HasManifest, Visible!Readable
    <2>2. d \o <<>> = d
      BY <1>4, ConcatEmptySeq
    <2>3. Visible!Committed = Take(d, m.nbytes)
      BY <1>3 DEF Visible!Committed, Visible!Take, Take
    <2>4. Coming = Visible!None /\ Coming' = Coming
      BY <1>2, NothingComing
    <2>5. data'["dest"] = (Visible!Committed \o Visible!RowsOf(S)) \o <<>>
      BY <1>6, <2>2, <2>3
    <2> HIDE DEF S
    <2> QED
      BY <2>1, <2>4, <2>5 DEF Visible!Write
  <1> QED
    BY <1>7, <1>8

\* A row that is not whole follows those of the chunks written.
LEMMA StartAppendSeen ==
    ASSUME IInv, ReaderInv, StartAppend, plan.file = "dest"
    PROVE  \E S \in SUBSET Visible!After(manifest["dest"].names) : Visible!Write(S, <<Visible!Torn>>)
  <1> DEFINE d == data["dest"]
             m == manifest["dest"]
             w == writer
             S == (w.names \ m.names) \ w.skipped
  <1>1. /\ pc = "next" /\ pc' = "writing" /\ data' = [data EXCEPT !["dest"] = Append(@, 0)]
        /\ manifest' = manifest /\ Len(d) = w.offset
    BY DEF StartAppend, Torn, IInv, AtEnd
  <1>2. Readable("dest") /\ Continues(m, d, w)
    BY <1>1 DEF ReaderInv, DestIsExtended, Writing
  <1>4. /\ d \in Seq(Nat) /\ m \in Manifests /\ w \in Writers /\ w.offset <= Len(d)
        /\ SuffixOf(Take(d, w.offset), w.names \ w.skipped) /\ data \in [Files -> Seq(Nat)]
    BY <1>1 DEF IInv, TypeOK, Files, Planned, Writing
  <1>5. m.nbytes <= w.offset
    BY <1>1, <1>2 DEF Readable
  <1>6. d = Take(d, m.nbytes) \o Visible!RowsOf(S)
    <2>1. Take(d, w.offset) = d
      BY <1>1, <1>4, TakeAll
    <2> HIDE DEF d, m, w
    <2>2. Take(d, w.offset) = Take(d, m.nbytes) \o Visible!RowsOf((w.names \ m.names) \ w.skipped)
      BY <1>2, <1>4, <1>5, WrittenRows
    <2> QED
      BY <2>1, <2>2
  <1>7. S \in SUBSET Visible!After(m.names)
    <2>1. w.names \subseteq Chunks /\ \A c \in w.names \ m.names, e \in m.names : e < c
      BY <1>2, <1>4 DEF Continues, Writers
    <2> HIDE DEF m, w
    <2> QED
      BY <2>1 DEF Visible!After
  <1>8. Visible!Write(S, <<Visible!Torn>>)
    <2>1. Visible!Readable
      BY <1>2 DEF Readable, HasManifest, Visible!Readable
    <2>2. data'["dest"] = d \o <<0>>
      <3>1. data'["dest"] = Append(d, 0)
        BY <1>1, <1>4 DEF Files
      <3>2. Append(d, 0) = d \o <<0>>
        BY <1>4, AppendIsConcat
      <3> QED
        BY <3>1, <3>2
    <2>3. Visible!Committed = Take(d, m.nbytes) /\ Visible!Torn = 0
      BY DEF Visible!Committed, Visible!Take, Take, Visible!Torn
    <2>4. Coming = Visible!None /\ Coming' = Coming
      BY <1>1, NothingComing
    <2>5. data'["dest"] = (Visible!Committed \o Visible!RowsOf(S)) \o <<Visible!Torn>>
      BY <1>6, <2>2, <2>3
    <2> HIDE DEF S
    <2> QED
      BY <1>1, <2>1, <2>4, <2>5 DEF Visible!Write
  <1> QED
    BY <1>7, <1>8

\* The steps of a writer.
LEMMA WriterSeen ==
    ASSUME IInv, ReaderInv, IInv', ReaderInv',
           Open \/ StartAppend \/ EndAppend \/ Gone \/ Damaged \/ Fail \/ Advance \/ Sync \/ Finish \/ Abort
    PROVE  [Visible!Next]_(Visible!saved)
  <1>1. /\ pc \in Writing /\ pc' \in Writing /\ UNCHANGED <<manifest, plan>>
        /\ pc \notin {"replaceManifest", "compacted"} /\ pc' \notin {"replaceManifest", "compacted"}
    BY DEF Open, StartAppend, EndAppend, Gone, Damaged, Fail, Advance, Sync, Finish, Abort, Checkpoint, Writing, disk
  <1>2. plan.file \in Files /\ data \in [Files -> Seq(Nat)] /\ writer \in Writers
    BY <1>1, WriterFacts
  <1>3. CASE data'["dest"] = data["dest"]
    BY <1>1, <1>3, StaysOnDisk DEF SavedStays
  <1>4. CASE data'["dest"] # data["dest"]
    <2>1. plan.file = "dest"
      BY <1>2, <1>4 DEF Open, StartAppend, EndAppend, Gone, Damaged, Fail, Advance, Sync, Finish, Abort, Cut, Files, disk
    <2>2. CASE StartAppend
      <3>1. \E S \in SUBSET Visible!After(manifest["dest"].names) : Visible!Write(S, <<Visible!Torn>>)
        BY <2>1, <2>2, StartAppendSeen
      <3> QED
        BY <3>1 DEF Visible!Next
    <2>3. CASE ~StartAppend
      <3>1. Open \/ EndAppend \/ Damaged \/ Finish \/ Abort
        BY <1>4, <2>3 DEF Gone, Fail, Advance, Sync, disk
      <3>2. Len(data'["dest"]) = writer'.offset
        <4>1. CASE EndAppend
          BY <2>1, <4>1 DEF EndAppend, IInv, AtEnd
        <4>2. CASE Open \/ Damaged \/ Finish \/ Abort
          <5>1. Len(data'["dest"]) = writer.offset
            BY <1>1, <2>1, <4>2, CutView DEF Open, Damaged, Finish, Abort
          <5>2. writer'.offset = writer.offset \/ writer'.offset = Len(data'[plan.file])
            BY <1>2, <4>2 DEF Open, Damaged, Finish, Abort, Checkpoint, Account, Writers
          <5> QED
            BY <2>1, <5>1, <5>2
        <4> QED
          BY <3>1, <4>1, <4>2
      <3>3. \E S \in SUBSET Visible!After(manifest["dest"].names) : Visible!Write(S, <<>>)
        BY <1>1, <2>1, <3>1, <3>2, WorkUnseen, WritesSeen
      <3> QED
        BY <3>3 DEF Visible!Next
    <2> QED
      BY <2>2, <2>3
  <1> QED
    BY <1>3, <1>4

\* A checkpoint of the destination counts the chunks written since the last one.
LEMMA RecordSeen ==
    ASSUME IInv, ReaderInv, Record
    PROVE  [Visible!Next]_(Visible!saved)
  <1> DEFINE f == plan.file
             d == data["dest"]
             m == manifest["dest"]
             w == writer
             S == w.names \ m.names
             K == S \cap w.skipped
             new == [names |-> w.names, nbytes |-> w.offset, skipped |-> w.skipped]
  <1>1. /\ pc = "record" /\ data' = data /\ pc' \notin {"replaceManifest", "compacted"}
        /\ manifest' = IF w.names = w.recorded THEN manifest ELSE [manifest EXCEPT ![f] = new]
        /\ manifest[f].names = w.recorded /\ f \in Files
    BY DEF Record, Stop, ReaderInv, RecordedIsSaved, Writing, IInv, TypeOK, Plans
  <1>2. manifest \in [Files -> Manifests]
    BY DEF IInv, TypeOK
  <1>3. CASE manifest'["dest"] = m
    BY <1>1, <1>3, StaysOnDisk DEF SavedStays
  <1>4. CASE manifest'["dest"] # m
    <2>1. f = "dest" /\ manifest'["dest"] = new /\ w.names # m.names
      BY <1>1, <1>2, <1>4 DEF Files
    <2>2. Readable("dest") /\ Continues(m, d, w)
      BY <1>1, <2>1 DEF ReaderInv, DestIsExtended, Writing
    <2>3. /\ d \in Seq(Nat) /\ m \in Manifests /\ w \in Writers /\ w.offset = Len(d)
          /\ SuffixOf(Take(d, w.offset), w.names \ w.skipped)
      BY <1>1, <2>1 DEF IInv, TypeOK, Files, Planned, Writing, AtEnd
    <2>4. m.nbytes <= w.offset
      BY <2>2, <2>3 DEF Readable
    <2>5. d = Take(d, m.nbytes) \o Visible!RowsOf(S \ w.skipped)
      <3>1. Take(d, w.offset) = d /\ w.offset <= Len(d)
        BY <2>3, TakeAll DEF Writers
      <3> HIDE DEF d, m, w
      <3>2. Take(d, w.offset) = Take(d, m.nbytes) \o Visible!RowsOf((w.names \ m.names) \ w.skipped)
        BY <2>2, <2>3, <2>4, <3>1, WrittenRows
      <3> QED
        BY <3>1, <3>2
    <2>6. /\ S \in SUBSET Visible!After(m.names) /\ S # {} /\ K \in SUBSET (S \cap Chunks)
          /\ S \ K = S \ w.skipped
          /\ m.names \cup S = w.names /\ m.skipped \cup K = w.skipped
      <3>1. /\ w.names \subseteq Chunks /\ \A c \in w.names \ m.names, e \in m.names : e < c
            /\ m.names \subseteq w.names /\ w.skipped \cap m.names = m.skipped /\ w.skipped \subseteq w.names
        BY <2>2, <2>3 DEF Continues, Writers
      <3>2. w.names # m.names
        BY <2>1
      <3> HIDE DEF m, w
      <3>3. S \in SUBSET Visible!After(m.names) /\ S # {}
        BY <3>1, <3>2 DEF Visible!After
      <3> QED
        BY <3>1, <3>3
    <2>7. Visible!Commit(S, K)
      <3>1. Visible!Readable
        BY <2>2 DEF Readable, HasManifest, Visible!Readable
      <3>2. Visible!Committed = Take(d, m.nbytes)
        BY DEF Visible!Committed, Visible!Take, Take
      <3>3. Visible!Committed \o Visible!RowsOf(S \ K) = d
        BY <2>5, <2>6, <3>2
      <3>4. Visible!Take(d, Len(d)) = d /\ Len(d) >= Len(d)
        BY <2>3, TakeAll DEF Take, Visible!Take
      <3>5. manifest'["dest"] = [names |-> m.names \cup S, nbytes |-> Len(d), skipped |-> m.skipped \cup K]
        BY <2>1, <2>3, <2>6
      <3>6. Coming = Visible!None /\ Coming' = Coming
        BY <1>1, NothingComing
      <3> HIDE DEF S, K
      <3> QED
        BY <1>1, <3>1, <3>3, <3>4, <3>5, <3>6 DEF Visible!Commit
    <2> QED
      BY <2>6, <2>7 DEF Visible!Next
  <1> QED
    BY <1>3, <1>4

\* The three renames of a promotion.
LEMMA PromotionSeen ==
    ASSUME IInv, ReaderInv, CountInv, UnlinkDest \/ ReplaceDest \/ ReplaceManifest
    PROVE  [Visible!Next]_(Visible!saved)
  <1> DEFINE m == manifest["partial"]
  <1>0. /\ data \in [Files -> Seq(Nat)] /\ manifest \in [Files -> Manifests]
        /\ m \in Manifests /\ data["partial"] \in Seq(Nat)
    BY DEF IInv, TypeOK, Files
  <1>1. CASE UnlinkDest
    <2>1. /\ manifest'["dest"] = NoManifest /\ data' = data
          /\ pc \notin {"replaceManifest", "compacted"} /\ pc' \notin {"replaceManifest", "compacted"}
      BY <1>0, <1>1 DEF UnlinkDest, Files
    <2> QED
      BY <2>1, NothingComing DEF Visible!Next, Visible!Hide
  <1>2. CASE ReplaceDest
    <2> DEFINE d == data["partial"]
               K == m.skipped
    <2>1. /\ manifest["dest"] = NoManifest /\ manifest' = manifest /\ data'["dest"] = d
          /\ pc = "replaceDest" /\ pc' = "replaceManifest"
          /\ m.nbytes = Len(d) /\ m.names = plan.listing /\ plan.listing # {}
          /\ Uncut(m, d) /\ Holds(m, d, synced["partial"])
      BY <1>0, <1>2 DEF ReplaceDest, CountInv, AllIsPromoted, SomethingListed, Promoting, ReaderInv, ListingIsPromoted,
         PartialIsWhole, IInv, Sound, Files
    <2>2. m.names \in (SUBSET Chunks) \ {{}} /\ K \in SUBSET (m.names \cap Chunks)
      <3>1. m.names \in SUBSET Chunks /\ m.skipped \subseteq m.names
        BY <1>0 DEF Manifests
      <3>2. m.names # {}
        BY <2>1
      <3> QED
        BY <3>1, <3>2
    <2>3. d = Visible!RowsOf(m.names \ K)
      <3>1. Take(d, Len(d)) = d
        BY <1>0, TakeAll
      <3>2. Len(d) \in 0..Len(d)
        BY <1>0
      <3>3. RowsBetween(d, 0, Len(d)) = RowsOf(m.names \ K)
        BY <1>0, <2>1, <2>2 DEF Uncut
      <3>4. RangeOf(d) = RowsOf(m.names \ K)
        BY <1>0, <3>1, <3>2, <3>3, TakeBetween
      <3>5. Increasing(d)
        BY <1>0, <2>1, <2>2, <3>1 DEF Holds, SuffixOf
      <3>6. m.names \ K \in SUBSET Chunks
        BY <2>2
      <3> HIDE DEF m, d, K
      <3> QED
        BY <1>0, <3>4, <3>5, <3>6, RowsAre DEF d
    <2>4. Coming = Visible!None /\ manifest["dest"] = Visible!None
      BY <2>1, NothingComing
    <2>5. Coming' = [names |-> m.names, nbytes |-> Len(data'["dest"]), skipped |-> K]
      <3>1. Coming' = manifest'["partial"]
        BY Zenon, <2>1 DEF Coming
      <3>2. m = [names |-> m.names, nbytes |-> m.nbytes, skipped |-> m.skipped]
        BY <1>0 DEF Manifests
      <3> QED
        BY <2>1, <3>1, <3>2
    <2>6. Visible!Promote(m.names, K)
      BY <2>1, <2>3, <2>4, <2>5 DEF Visible!Promote
    <2> QED
      BY <2>2, <2>6 DEF Visible!Next
  <1>3. CASE ReplaceManifest
    <2>1. /\ manifest'["dest"] = m /\ data' = data /\ pc = "replaceManifest" /\ pc' = "idle"
          /\ m.names # {}
      BY <1>0, <1>3 DEF ReplaceManifest, Stop, Files, CountInv, SomethingListed, Promoting, ReaderInv, ListingIsPromoted
    <2>2. Coming = m
      BY Zenon, <2>1 DEF Coming
    <2>3. m # Visible!None
      BY <2>1 DEF Visible!None
    <2> QED
      BY <2>1, <2>2, <2>3, NothingComing DEF Visible!Next, Visible!Describe
  <1> QED
    BY <1>1, <1>2, <1>3

\* The two writes of a compaction.
LEMMA CompactionSeen ==
    ASSUME IInv, ReaderInv,
           (\E cut \in 1..Len(data["dest"]) : Compact(cut)) \/ RecordCompacted
    PROVE  [Visible!Next]_(Visible!saved)
  <1> DEFINE m == manifest["dest"]
             d == data["dest"]
  <1>0. /\ data \in [Files -> Seq(Nat)] /\ manifest \in [Files -> Manifests]
        /\ m \in Manifests /\ d \in Seq(Nat) /\ m.nbytes \in Nat
    BY DEF IInv, TypeOK, Files, Manifests
  <1>1. CASE \E cut \in 1..Len(data["dest"]) : Compact(cut)
    <2>1. PICK cut \in 1..Len(data["dest"]) : Compact(cut)
      BY <1>1
    <2>2. /\ pc = "idle" /\ pc' = "compacted" /\ Readable("dest") /\ cut < m.nbytes /\ manifest' = manifest
          /\ data'["dest"] = SubSeq(d, cut + 1, m.nbytes)
          /\ writer' = [Resume("dest") EXCEPT !.offset = m.nbytes - cut]
      BY <1>0, <2>1 DEF Compact, Files
    <2>3. Coming = Visible!None
      BY <2>2, NothingComing
    <2>4. Coming' = [m EXCEPT !.nbytes = @ - cut]
      <3>1. writer'.offset = m.nbytes - cut
        BY <2>2 DEF Resume
      <3>2. Coming' = [manifest'["dest"] EXCEPT !.nbytes = writer'.offset]
        BY Zenon, <2>2 DEF Coming
      <3> QED
        BY <2>2, <3>1, <3>2
    <2>5. Visible!Readable
      BY <2>2 DEF Readable, HasManifest, Visible!Readable
    <2>6. cut \in 1..(m.nbytes - 1)
      BY <1>0, <2>2
    <2> HIDE DEF m, d
    <2>7. Visible!Compact
      BY <2>2, <2>3, <2>4, <2>5, <2>6 DEF Visible!Compact, m, d
    <2> QED
      BY <2>7 DEF Visible!Next
  <1>2. CASE RecordCompacted
    <2>1. /\ pc = "compacted" /\ pc' = "idle" /\ data' = data
          /\ manifest'["dest"] = [m EXCEPT !.nbytes = writer.offset] /\ m.names # {}
      BY <1>0, <1>2 DEF RecordCompacted, Stop, ReaderInv, DestIsCut, HasManifest, Files
    <2>2. Coming = [m EXCEPT !.nbytes = writer.offset]
      BY Zenon, <2>1 DEF Coming
    <2>3. Coming # Visible!None
      <3>1. Coming.names = m.names
        BY <1>0, <2>2 DEF Manifests
      <3> QED
        BY <2>1, <3>1 DEF Visible!None
    <2> QED
      BY <2>1, <2>2, <2>3, NothingComing DEF Visible!Next, Visible!Describe
  <1> QED
    BY <1>1, <1>2

\* A crash takes rows, but none that the manifest counts.
LEMMA CrashSeen ==
    ASSUME IInv, Crash
    PROVE  Visible!PowerLoss
  <1> DEFINE d == data["dest"]
             m == manifest["dest"]
  <1>1. PICK kept \in [Files -> 0..Len(data["dest"]) + Len(data["partial"])] :
            /\ \A f \in Files : synced[f] <= kept[f] /\ kept[f] <= Len(data[f])
            /\ data' = [f \in Files |-> Take(data[f], kept[f])]
            /\ UNCHANGED manifest /\ pc' = "idle"
    BY DEF Crash, Stop
  <1>2. /\ d \in Seq(Nat) /\ data["partial"] \in Seq(Nat) /\ synced["dest"] \in Nat /\ m.nbytes \in Nat /\ "dest" \in Files
        /\ Holds(m, d, synced["dest"])
    BY DEF IInv, TypeOK, Files, Manifests, Sound
  <1>3. kept["dest"] \in 0..Len(d) /\ synced["dest"] <= kept["dest"]
    <2>1. kept["dest"] \in 0..(Len(d) + Len(data["partial"]))
      BY <1>1, <1>2
    <2> QED
      BY <1>1, <1>2, <2>1
  <1>4. data'["dest"] = Visible!Take(d, kept["dest"])
    BY <1>1, <1>2 DEF Visible!Take, Take
  <1>5. Visible!Readable => kept["dest"] >= m.nbytes
    BY <1>2, <1>3 DEF Visible!Readable, Holds
  <1>6. Coming' = Visible!None
    BY <1>1, NothingComing
  <1> QED
    BY <1>1, <1>3, <1>4, <1>5, <1>6 DEF Visible!PowerLoss

\* The other steps leave the destination alone.
LEMMA ElsewhereSeen ==
    ASSUME IInv, ReaderInv,
           \/ \E resume, strict \in BOOLEAN : Start(resume, strict)
           \/ ClearManifest \/ ClearPartial \/ Drop
           \/ \E c \in Chunks : Upload(c) \/ Remove(c)
           \/ UNCHANGED vars
    PROVE  SavedStays
  <1>1. /\ data \in [Files -> Seq(Nat)] /\ manifest \in [Files -> Manifests] /\ plan.file \in Files
    BY DEF IInv, TypeOK, Plans
  <1>2. CASE \/ \E resume, strict \in BOOLEAN : Start(resume, strict)
             \/ ClearManifest \/ ClearPartial
    <2>1. /\ manifest'["dest"] = manifest["dest"] /\ data'["dest"] = data["dest"]
          /\ pc \notin {"replaceManifest", "compacted"} /\ pc' \notin {"replaceManifest", "compacted"}
      BY <1>1, <1>2 DEF Start, Begin, ClearManifest, ClearPartial, Stop, disk, Files
    <2> QED
      BY <2>1, StaysOnDisk
  <1>3. CASE Drop
    <2>1. plan.file = "dest" => writer.names # {}
      BY <1>3 DEF Drop, ReaderInv, DestIsExtended, Continues, Readable, HasManifest, Writing
    <2>2. /\ manifest'["dest"] = manifest["dest"] /\ data'["dest"] = data["dest"]
          /\ pc \notin {"replaceManifest", "compacted"} /\ pc' \notin {"replaceManifest", "compacted"}
      BY <1>1, <1>3, <2>1 DEF Drop, Stop, Files
    <2> QED
      BY <2>2, StaysOnDisk
  <1>4. CASE (\E c \in Chunks : Upload(c) \/ Remove(c)) \/ UNCHANGED vars
    <2>1. UNCHANGED <<data, manifest, pc, writer>>
      BY <1>4 DEF Upload, Remove, vars, disk
    <2> QED
      BY <2>1 DEF SavedStays, Visible!saved, Coming
  <1> QED
    BY <1>2, <1>3, <1>4

\* To a program that takes no lock, whatever a download, a compaction or a crash does is one of the
\* changes that SavedFile names, or none.
THEOREM OthersSeeSavedFile == Spec => ImplementsSavedFile
  <1>1. Init => Visible!Init
    <2> SUFFICES ASSUME Init PROVE Visible!Init
      OBVIOUS
    <2>1. pc = "idle" /\ data["dest"] = <<>> /\ manifest["dest"] = NoManifest
      BY DEF Init, Files
    <2>2. Coming = NoManifest /\ Visible!None = NoManifest
      BY <2>1, NothingComing
    <2> QED
      BY <2>1, <2>2 DEF Visible!Init
  <1>2. ASSUME IInv, ReaderInv, CountInv, IInv', ReaderInv', [Next]_vars
        PROVE  [Visible!Next]_(Visible!saved)
    <2>1. CASE Record
      BY <1>2, <2>1, RecordSeen
    <2>2. CASE UnlinkDest \/ ReplaceDest \/ ReplaceManifest
      BY <1>2, <2>2, PromotionSeen
    <2>3. CASE (\E cut \in 1..Len(data["dest"]) : Compact(cut)) \/ RecordCompacted
      BY <1>2, <2>3, CompactionSeen
    <2>4. CASE Crash
      BY <1>2, <2>4, CrashSeen DEF Visible!Next
    <2>5. CASE Open \/ StartAppend \/ EndAppend \/ Gone \/ Damaged \/ Fail \/ Advance \/ Sync \/ Finish \/ Abort
      BY <1>2, <2>5, WriterSeen
    <2>6. CASE \/ \E resume, strict \in BOOLEAN : Start(resume, strict)
               \/ ClearManifest \/ ClearPartial \/ Drop
               \/ \E c \in Chunks : Upload(c) \/ Remove(c)
               \/ UNCHANGED vars
      BY <1>2, <2>6, ElsewhereSeen DEF SavedStays
    <2> QED
      BY <1>2, <2>1, <2>2, <2>3, <2>4, <2>5, <2>6 DEF Next, Work, Faults
  <1>3. (IInv /\ ReaderInv /\ CountInv /\ IInv' /\ ReaderInv' /\ [Next]_vars) => [Visible!Next]_(Visible!saved)
    BY <1>2
  <1> QED
    BY CountInvariance, <1>1, <1>3, PTL DEF Spec, ImplementsSavedFile, Visible!Spec

-----------------------------------------------------------------------------
(* Downloads of one execution log (LogFiles), for every number of downloads, *)
(* versions of the log and their sizes, restarts and failures.               *)

CONSTANTS Downloads, MaxVersions, MaxRestarts, MaxErrors, Size
VARIABLES logs, newest, saved, identity, spools, d, restarts, overlapped

Log == INSTANCE LogFiles WITH staged <- logs, manifest <- identity

\* Where a download may be, what a manifest may name, and what is kept of a download.
LogPlaces == {"list", "list logs", "compare", "fetch", "get", "unlink", "replace", "manifest",
          "killed", "failed", "unchanged", "saved"}
Identities == [root : Log!Roots \cup {""}, version : 0 .. MaxVersions]
LogStates == [at : LogPlaces, resume : BOOLEAN, listed : Identities, fetched : 0 .. MaxVersions, errors : Nat]

LogTypes ==
  /\ logs \in [Log!Roots -> 0 .. MaxVersions] /\ newest \in 1 .. MaxVersions
  /\ saved \in 0 .. MaxVersions /\ identity \in Identities
  /\ d \in [Downloads -> LogStates] /\ overlapped \in BOOLEAN

\* What is staged becomes newer only, and a file is staged under "_logs/" at all times.
StagedIsNewest == logs["_logs"] >= 1 /\ \A r \in Log!Roots : logs[r] <= newest

\* What a download listed was staged, and what it fetched was staged later.
ListedWas(p) ==
  /\ d[p].at \in {"compare", "fetch", "get", "unlink", "replace", "manifest"} =>
        /\ d[p].listed.root = "_logs"
        /\ 1 <= d[p].listed.version /\ d[p].listed.version <= logs["_logs"]
  /\ d[p].at \in {"unlink", "replace", "manifest"} =>
        d[p].listed.version <= d[p].fetched /\ d[p].fetched <= logs["_logs"]

\* While they do not overlap, the one under way finds what it, or the one before it, left.
Apart(p) ==
  /\ \A q \in Log!Alive : p \in Log!Alive => q = p
  /\ d[p].at = "compare" => saved <= d[p].listed.version
  /\ d[p].at = "replace" => identity = Log!NoIdentity
  /\ d[p].at = "manifest" => identity = Log!NoIdentity /\ saved = d[p].fetched
ManifestIsNotAhead == identity # Log!NoIdentity => identity.version <= saved

LogInv ==
  /\ LogTypes /\ StagedIsNewest /\ saved <= logs["_logs"]
  /\ \A p \in Downloads : ListedWas(p)
  /\ ~overlapped => ManifestIsNotAhead /\ \A p \in Downloads : Apart(p)

\* What a download is, field by field.
LEMMA StateIs ==
  ASSUME LogTypes, NEW p \in Downloads
  PROVE  /\ d[p] \in LogStates /\ d[p].at \in LogPlaces /\ d[p].listed \in Identities
            /\ d[p].fetched \in 0 .. MaxVersions
         /\ d[p].listed.version \in 0 .. MaxVersions /\ identity.version \in 0 .. MaxVersions
  <1>1. d[p] \in LogStates /\ identity \in Identities
    BY DEF LogTypes
  <1>2. d[p].at \in LogPlaces /\ d[p].listed \in Identities /\ d[p].fetched \in 0 .. MaxVersions
    BY <1>1 DEF LogStates
  <1> QED
    BY <1>1, <1>2 DEF Identities

\* A download that moves on, lists or fetches.
LEMMA StateBecomes ==
  ASSUME LogTypes, NEW p \in Downloads, NEW to \in LogPlaces, NEW f \in Identities, NEW v \in 0 .. MaxVersions
  PROVE  /\ [d EXCEPT ![p].at = to] \in [Downloads -> LogStates]
         /\ [d EXCEPT ![p].listed = f, ![p].at = to] \in [Downloads -> LogStates]
         /\ [d EXCEPT ![p].fetched = v, ![p].at = to] \in [Downloads -> LogStates]
  <1>1. d \in [Downloads -> LogStates]
    BY DEF LogTypes
  <1> QED
    BY <1>1 DEF LogStates

\* The bound is a number.
LEMMA SomeVersions == Log!LogFilesAssumption => MaxVersions \in Nat /\ 0 \in 0 .. MaxVersions
  BY DEF Log!LogFilesAssumption

\* What names no file is an identity too.
LEMMA NoneListed == Log!LogFilesAssumption => Log!NoIdentity \in Identities /\ Log!NoIdentity.version = Log!None
  BY SomeVersions DEF Log!NoIdentity, Identities, Log!None

\* No download has begun.
LEMMA FreshState ==
  ASSUME Log!LogFilesAssumption, NEW r \in BOOLEAN
  PROVE  [Log!Fresh EXCEPT !.resume = r] \in LogStates /\ [Log!Fresh EXCEPT !.resume = r].at = "list"
         /\ Log!Fresh \in LogStates
  <1>1. Log!NoIdentity \in Identities /\ 0 \in 0 .. MaxVersions
    BY NoneListed, SomeVersions
  <1> QED
    BY <1>1 DEF Log!Fresh, LogStates, LogPlaces, Log!None

\* At first nothing is saved, and one version is staged.
LEMMA LogStart ==
  ASSUME Log!LogFilesAssumption, MaxVersions >= 1, Log!Init
  PROVE  LogInv
  <1>1. LogTypes
    <2>1. d \in [Downloads -> LogStates]
      BY FreshState DEF Log!Init
    <2>2. 1 \in 1 .. MaxVersions
          /\ [r \in Log!Roots |-> IF r = "_logs" THEN 1 ELSE Log!None] \in [Log!Roots -> 0 .. MaxVersions]
      BY SomeVersions DEF Log!None
    <2> QED
      BY <2>1, NoneListed, SomeVersions, <2>2 DEF Log!Init, LogTypes, Log!None
  <1>2. StagedIsNewest /\ saved <= logs["_logs"] /\ ManifestIsNotAhead
    BY DEF Log!Init, StagedIsNewest, ManifestIsNotAhead, Log!None, Log!Roots
  <1>3. \A p \in Downloads : d[p].at = "list"
    <2> SUFFICES ASSUME NEW p \in Downloads PROVE d[p].at = "list"
      OBVIOUS
    <2>1. PICK r \in BOOLEAN : d[p] = [Log!Fresh EXCEPT !.resume = r]
      BY DEF Log!Init
    <2> QED
      BY <2>1, FreshState
  <1> QED
    BY <1>1, <1>2, <1>3 DEF LogInv, ListedWas, Apart, Log!Alive

\* A step of one download leaves what the others listed and fetched.
LEMMA OthersKeep ==
  ASSUME LogInv, NEW p \in Downloads, UNCHANGED logs,
         \A q \in Downloads \ {p} : d'[q] = d[q], ListedWas(p)'
  PROVE  \A q \in Downloads : ListedWas(q)'
  BY DEF LogInv, ListedWas

\* A download that is under way alone goes on, or stops.
LEMMA AloneGoesOn ==
  ASSUME LogInv, NEW p \in Downloads, p \in Log!Alive, UNCHANGED overlapped,
         \A q \in Downloads \ {p} : d'[q] = d[q], ~overlapped' => Apart(p)'
  PROVE  ~overlapped' => \A q \in Downloads : Apart(q)'
  <1> SUFFICES ASSUME ~overlapped', NEW q \in Downloads, q # p PROVE Apart(q)'
    OBVIOUS
  <1>1. q \notin Log!Alive /\ q \notin Log!Alive'
    BY DEF LogInv, Apart, Log!Alive
  <1>2. d'[q].at \notin {"compare", "replace", "manifest"}
    BY <1>1 DEF Log!Alive
  <1> QED
    BY <1>1, <1>2 DEF Apart

\* What is staged anew is newer.
LEMMA StageStep ==
  ASSUME Log!LogFilesAssumption, LogInv, Log!Stage
  PROVE  LogInv'
  <1>1. LogTypes'
    BY DEF LogInv, LogTypes, Log!Stage, Log!LogFilesAssumption
  <1>2. \A r \in Log!Roots : logs'[r] \in {logs[r], newest + 1}
    BY DEF LogInv, LogTypes, Log!Stage
  <1>3. logs["_logs"] <= logs'["_logs"] /\ StagedIsNewest'
    BY <1>1, <1>2 DEF LogInv, LogTypes, StagedIsNewest, Log!Stage, Log!Roots
  <1>4. \A p \in Downloads : ListedWas(p)'
    <2> SUFFICES ASSUME NEW p \in Downloads PROVE ListedWas(p)'
      OBVIOUS
    <2>1. LogTypes /\ ListedWas(p) /\ d' = d /\ logs["_logs"] \in Nat /\ logs'["_logs"] \in Nat
      BY <1>1 DEF LogInv, LogTypes, Log!Stage, Log!Roots
    <2>2. d[p].listed.version \in Nat /\ d[p].fetched \in Nat
      BY <2>1, StateIs
    <2> QED
      BY <1>3, <2>1, <2>2 DEF ListedWas
  <1> QED
    BY <1>1, <1>3, <1>4 DEF LogInv, LogTypes, Log!Stage, Apart, Log!Alive, ManifestIsNotAhead, Log!Roots

\* The two listings: the first is made when none is under way, or they overlap from then on.
LEMMA ListSteps ==
  ASSUME Log!LogFilesAssumption, LogInv, NEW p \in Downloads, Log!List(p) \/ Log!ListLogs(p)
  PROVE  LogInv'
  <1>0. /\ LogTypes /\ logs \in [Log!Roots -> 0 .. MaxVersions] /\ d[p] \in LogStates
        /\ logs["checkpoints/_logs"] \in 0 .. MaxVersions /\ logs["_logs"] \in 1 .. MaxVersions
        /\ StagedIsNewest /\ saved <= logs["_logs"]
    BY DEF LogInv, LogTypes, StagedIsNewest, Log!Roots
  <1>1. CASE Log!List(p)
    <2>1. PICK f \in Identities : d' = [d EXCEPT ![p].listed = f, ![p].at = "list logs"]
      <3>1. logs["checkpoints/_logs"] # Log!None =>
              [root |-> "checkpoints/_logs", version |-> logs["checkpoints/_logs"]] \in Identities
        BY <1>0 DEF Identities, Log!Roots
      <3> QED
        BY <1>1, <3>1, NoneListed DEF Log!List
    <2>a. UNCHANGED <<logs, newest, saved, identity>> /\ overlapped' \in BOOLEAN
      BY <1>1 DEF Log!List
    <2>b. "list logs" \in LogPlaces /\ 0 \in 0 .. MaxVersions
      BY SomeVersions DEF LogPlaces
    <2>2. LogTypes'
      BY <1>0, <2>a, <2>b, <2>1, StateBecomes DEF LogTypes
    <2>3. d'[p].at = "list logs" /\ \A q \in Downloads \ {p} : d'[q] = d[q]
      BY <1>0, <2>1 DEF LogTypes, LogStates
    <2>4. \A q \in Downloads : ListedWas(q)'
      BY <1>1, <2>3, OthersKeep DEF Log!List, ListedWas
    <2>5. ASSUME ~overlapped' PROVE \A q \in Downloads : Apart(q)'
      <3>1. Log!Alive = {} /\ ~overlapped
        BY <1>1, <2>5 DEF Log!List
      <3>2. \A q \in Downloads \ {p} : q \notin Log!Alive' /\ d'[q].at \notin {"compare", "replace", "manifest"}
        BY <2>3, <3>1 DEF Log!Alive
      <3> QED
        BY <2>3, <3>2 DEF Apart, Log!Alive
    <2>6. ~overlapped' => ManifestIsNotAhead'
      BY <1>1 DEF LogInv, ManifestIsNotAhead, Log!List
    <2> QED
      BY <1>0, <1>1, <2>2, <2>4, <2>5, <2>6 DEF LogInv, Log!List, StagedIsNewest
  <1>2. CASE Log!ListLogs(p)
    <2> DEFINE f == [root |-> "_logs", version |-> logs["_logs"]]
    <2>1. PICK to \in {"compare", "fetch"} : d' = [d EXCEPT ![p].listed = f, ![p].at = to]
      <3>1. logs["_logs"] # Log!None /\ d[p].resume \in BOOLEAN
        BY <1>0 DEF Log!None, LogStates
      <3> QED
        BY <1>2, <3>1 DEF Log!ListLogs
    <2>2. f \in Identities
      BY <1>0 DEF Identities, Log!Roots
    <2>a. UNCHANGED <<logs, newest, saved, identity, overlapped>>
      BY <1>2 DEF Log!ListLogs
    <2>b. to \in LogPlaces /\ 0 \in 0 .. MaxVersions
      BY SomeVersions DEF LogPlaces
    <2>c. f.root = "_logs" /\ f.version = logs["_logs"]
      OBVIOUS
    <2> HIDE DEF f
    <2>3. LogTypes'
      BY <1>0, <2>1, <2>2, <2>a, <2>b, StateBecomes DEF LogTypes
    <2>4. d'[p].at = to /\ d'[p].listed = f /\ \A q \in Downloads \ {p} : d'[q] = d[q]
      BY <1>0, <2>1 DEF LogTypes, LogStates
    <2>5. ListedWas(p)'
      BY <1>0, <2>4, <2>a, <2>c DEF ListedWas
    <2>6. p \in Log!Alive
      BY <1>2 DEF Log!ListLogs, Log!Alive
    <2>7. ~overlapped' => Apart(p)'
      <3>1. ~overlapped => \A q \in Downloads : q \in Log!Alive' => q = p
        BY <2>4, <2>6 DEF LogInv, Apart, Log!Alive
      <3> QED
        BY <1>0, <2>4, <2>a, <2>c, <3>1 DEF Apart, Log!Alive
    <2>8. \A q \in Downloads : ListedWas(q)'
      BY <1>2, <2>4, <2>5, OthersKeep DEF Log!ListLogs
    <2>9. ~overlapped' => \A q \in Downloads : Apart(q)'
      BY <1>2, <2>4, <2>6, <2>7, AloneGoesOn DEF Log!ListLogs
    <2> QED
      BY <1>0, <1>2, <2>3, <2>8, <2>9 DEF LogInv, Log!ListLogs, StagedIsNewest, ManifestIsNotAhead
  <1> QED
    BY <1>1, <1>2

\* The steps that touch neither the saved copy nor its manifest.
LEMMA QuietSteps ==
  ASSUME Log!LogFilesAssumption, LogInv, NEW p \in Downloads, Log!Compare(p) \/ Log!Fetch(p)
         \/ Log!Get(p) \/ Log!Kill(p)
  PROVE  LogInv'
  <1>0. /\ LogTypes /\ d[p] \in LogStates /\ ListedWas(p) /\ logs["_logs"] \in 1 .. MaxVersions
        /\ StagedIsNewest /\ saved <= logs["_logs"] /\ p \in Log!Alive
    BY DEF LogInv, LogTypes, StagedIsNewest, Log!Roots, Log!Compare, Log!Fetch, Log!Get, Log!Kill, Log!Alive
  <1>1. UNCHANGED <<logs, newest, saved, identity, overlapped>>
    BY DEF Log!Compare, Log!Fetch, Log!Get, Log!Kill
  <1>2. ASSUME NEW to \in {"fetch", "get", "killed", "failed", "unchanged"},
               to \in {"fetch", "get"} => d[p].at \in {"compare", "fetch"}, Log!Goes(p, to)
        PROVE  LogInv'
    <2>1. d' = [d EXCEPT ![p].at = to]
      BY <1>2 DEF Log!Goes
    <2>2. /\ LogTypes' /\ d'[p].at = to /\ d'[p].listed = d[p].listed
          /\ \A q \in Downloads \ {p} : d'[q] = d[q]
      BY <1>0, <1>1, <2>1 DEF LogTypes, LogStates, LogPlaces
    <2>3. ListedWas(p)' /\ (~overlapped' => Apart(p)')
      BY <1>0, <1>1, <1>2, <2>2 DEF LogInv, ListedWas, Apart, Log!Alive
    <2> QED
      BY <1>0, <1>1, <2>2, <2>3, OthersKeep, AloneGoesOn DEF LogInv, StagedIsNewest, ManifestIsNotAhead
  <1>3. ASSUME Log!Get(p), d' = [d EXCEPT ![p].fetched = logs[d[p].listed.root], ![p].at = "unlink"]
        PROVE  LogInv'
    <2>1. d[p].listed.root = "_logs" /\ d[p].at = "get"
      BY <1>0, <1>3 DEF Log!Get, ListedWas
    <2>2. /\ LogTypes' /\ d'[p].at = "unlink" /\ d'[p].listed = d[p].listed /\ d'[p].fetched = logs["_logs"]
          /\ \A q \in Downloads \ {p} : d'[q] = d[q]
      <3>1. d' = [d EXCEPT ![p].fetched = logs["_logs"], ![p].at = "unlink"]
        BY <1>3, <2>1
      <3>a. "unlink" \in LogPlaces /\ d[p].listed \in Identities /\ logs["_logs"] \in 0 .. MaxVersions
        <4>1. d[p].listed \in Identities
          BY <1>0, StateIs
        <4>2. logs["_logs"] \in 0 .. MaxVersions
          BY <1>0, SomeVersions
        <4> QED
          BY <4>1, <4>2 DEF LogPlaces
      <3>2. LogTypes'
        BY <1>0, <1>1, <3>1, <3>a, StateBecomes DEF LogTypes
      <3>3. /\ d'[p].at = "unlink" /\ d'[p].listed = d[p].listed /\ d'[p].fetched = logs["_logs"]
            /\ \A q \in Downloads \ {p} : d'[q] = d[q]
        BY <1>0, <3>1 DEF LogTypes, LogStates
      <3> QED
        BY <3>2, <3>3
    <2>3. ListedWas(p)' /\ (~overlapped' => Apart(p)')
      BY <1>0, <1>1, <2>1, <2>2 DEF LogInv, ListedWas, Apart, Log!Alive
    <2> QED
      BY <1>0, <1>1, <2>2, <2>3, OthersKeep, AloneGoesOn DEF LogInv, StagedIsNewest, ManifestIsNotAhead
  <1>4. ASSUME Log!Get(p), d' = [d EXCEPT ![p].errors = @ + 1]
        PROVE  LogInv'
    <2>1. /\ LogTypes' /\ d'[p].at = d[p].at /\ d'[p].listed = d[p].listed /\ d[p].at = "get"
          /\ \A q \in Downloads \ {p} : d'[q] = d[q]
      BY <1>0, <1>1, <1>4 DEF LogTypes, LogStates, Log!Get
    <2>2. ListedWas(p)' /\ (~overlapped' => Apart(p)')
      BY <1>0, <1>1, <2>1 DEF LogInv, ListedWas, Apart, Log!Alive
    <2> QED
      BY <1>0, <1>1, <2>1, <2>2, OthersKeep, AloneGoesOn DEF LogInv, StagedIsNewest, ManifestIsNotAhead
  <1> QED
    BY <1>2, <1>3, <1>4 DEF Log!Compare, Log!Fetch, Log!Get, Log!Kill

\* The manifest is unlinked, then the copy replaced, then a new manifest written.
LEMMA SavingSteps ==
  ASSUME Log!LogFilesAssumption, LogInv, NEW p \in Downloads, Log!Unlink(p) \/ Log!Replace(p)
         \/ Log!WriteManifest(p)
  PROVE  LogInv'
  <1>0. /\ LogTypes /\ d[p] \in LogStates /\ ListedWas(p) /\ logs["_logs"] \in 1 .. MaxVersions
        /\ StagedIsNewest /\ saved <= logs["_logs"] /\ p \in Log!Alive
    BY DEF LogInv, LogTypes, StagedIsNewest, Log!Roots, Log!Unlink, Log!Replace, Log!WriteManifest, Log!Alive
  <1>1. PICK to \in {"replace", "manifest", "saved"} : d' = [d EXCEPT ![p].at = to]
    BY DEF Log!Unlink, Log!Replace, Log!WriteManifest, Log!Goes
  <1>2. /\ d'[p].at = to /\ d'[p].listed = d[p].listed /\ d'[p].fetched = d[p].fetched
        /\ \A q \in Downloads \ {p} : d'[q] = d[q]
    BY <1>0, <1>1 DEF LogTypes, LogStates
  <1>3. UNCHANGED <<logs, newest, overlapped>> /\ d[p].at \in {"unlink", "replace", "manifest"}
    BY DEF Log!Unlink, Log!Replace, Log!WriteManifest
  <1>4. saved' \in 0 .. MaxVersions /\ saved' <= logs'["_logs"] /\ identity' \in Identities
    <2>1. d[p].listed \in Identities /\ d[p].fetched \in 0 .. MaxVersions /\ identity \in Identities
          /\ Log!NoIdentity \in Identities
      BY <1>0, StateIs, NoneListed DEF LogTypes
    <2>2. d[p].fetched <= logs["_logs"] /\ saved \in 0 .. MaxVersions
      BY <1>0, <1>3 DEF ListedWas, LogTypes
    <2> QED
      BY <1>0, <1>3, <2>1, <2>2 DEF Log!Unlink, Log!Replace, Log!WriteManifest
  <1>5. LogTypes'
    BY <1>0, <1>1, <1>3, <1>4 DEF LogTypes, LogStates, LogPlaces
  <1>6. ListedWas(p)'
    BY <1>0, <1>2, <1>3 DEF ListedWas
  <1>7. ~overlapped' => Apart(p)' /\ ManifestIsNotAhead'
    <2> SUFFICES ASSUME ~overlapped PROVE Apart(p)' /\ ManifestIsNotAhead'
      BY <1>3
    <2>1. \A q \in Downloads : q \in Log!Alive' => q = p
      BY <1>0, <1>2 DEF LogInv, Apart, Log!Alive
    <2>2. Apart(p) /\ ManifestIsNotAhead
      BY DEF LogInv
    <2>3. CASE Log!Unlink(p)
      <3>1. d'[p].at = "replace" /\ identity' = Log!NoIdentity
        BY <1>0, <2>3, StateIs DEF Log!Unlink, Log!Goes, LogTypes
      <3> QED
        BY <2>1, <3>1 DEF Apart, Log!Alive, ManifestIsNotAhead
    <2>4. CASE Log!Replace(p)
      <3>1. d'[p].at = "manifest" /\ identity' = Log!NoIdentity /\ saved' = d[p].fetched
        BY <1>0, <2>2, <2>4, StateIs DEF Log!Replace, Log!Goes, LogTypes, Apart
      <3> QED
        BY <1>2, <2>1, <3>1 DEF Apart, Log!Alive, ManifestIsNotAhead
    <2>5. CASE Log!WriteManifest(p)
      <3>1. /\ d'[p].at = "saved" /\ saved' = d[p].fetched /\ identity' \in {Log!NoIdentity, d[p].listed}
            /\ d[p].listed.version <= d[p].fetched
        BY <1>0, <2>2, <2>5 DEF Log!WriteManifest, Log!Goes, LogTypes, Apart, ListedWas
      <3> QED
        BY <1>2, <2>1, <3>1 DEF Apart, Log!Alive, ManifestIsNotAhead
    <2> QED
      BY <2>3, <2>4, <2>5
  <1> QED
    BY <1>0, <1>2, <1>3, <1>4, <1>5, <1>6, <1>7, OthersKeep, AloneGoesOn DEF LogInv, StagedIsNewest

\* A download that begins again is not under way yet.
LEMMA AgainStep ==
  ASSUME Log!LogFilesAssumption, LogInv, NEW p \in Downloads, Log!Again(p)
  PROVE  LogInv'
  <1>1. LogTypes /\ LogTypes'
    BY FreshState DEF LogInv, LogTypes, Log!Again
  <1>2. d'[p].at = "list" /\ \A q \in Downloads \ {p} : d'[q] = d[q]
    BY <1>1 DEF LogTypes, Log!Again, Log!Fresh
  <1>3. Log!Alive' \subseteq Log!Alive
    BY <1>2 DEF Log!Alive
  <1>4. \A q \in Downloads : ListedWas(q)'
    BY <1>2, OthersKeep DEF Log!Again, ListedWas
  <1>5. ~overlapped' => \A q \in Downloads : Apart(q)'
    BY <1>2, <1>3 DEF LogInv, Apart, Log!Again
  <1> QED
    BY <1>1, <1>4, <1>5 DEF LogInv, Log!Again, StagedIsNewest, ManifestIsNotAhead

\* Every step keeps the invariant.
LEMMA LogSteps ==
  ASSUME Log!LogFilesAssumption, LogInv, [Log!Next]_(Log!vars)
  PROVE  LogInv'
  <1>1. CASE UNCHANGED Log!vars
    BY <1>1 DEF LogInv, LogTypes, StagedIsNewest, ListedWas, Apart, Log!Alive, ManifestIsNotAhead, Log!vars
  <1>2. CASE Log!Next
    BY <1>2, StageStep, ListSteps, QuietSteps, SavingSteps, AgainStep DEF Log!Next
  <1> QED
    BY <1>1, <1>2

\* What a step that keeps the copy, or ends a saving, finds.
LEMMA LogTells ==
  ASSUME Log!LogFilesAssumption, LogInv, [Log!Next]_(Log!vars),
         NEW p \in Downloads, d'[p].at # d[p].at, ~overlapped
  PROVE  /\ d'[p].at = "unchanged" => saved = d[p].listed.version
         /\ d'[p].at = "saved" => saved >= d[p].listed.version
  <1>0. /\ LogTypes /\ d[p] \in LogStates /\ ListedWas(p) /\ Apart(p) /\ ManifestIsNotAhead
    BY DEF LogInv, LogTypes
  <1>1. ASSUME d'[p].at \in {"unchanged", "saved"}
        PROVE  \/ Log!Compare(p) /\ Log!Unchanged(p) /\ d'[p].at = "unchanged"
               \/ Log!WriteManifest(p) /\ d'[p].at = "saved"
    <2>1. PICK q \in Downloads : \/ Log!List(q) \/ Log!ListLogs(q) \/ Log!Compare(q) \/ Log!Fetch(q) \/ Log!Get(q)
                                \/ Log!Unlink(q) \/ Log!Replace(q) \/ Log!WriteManifest(q)
                                    \/ Log!Kill(q) \/ Log!Again(q)
      BY <1>1 DEF Log!Next, Log!vars, Log!Stage
    <2>2. q = p
      BY <1>0, <2>1 DEF LogTypes, Log!List, Log!ListLogs, Log!Compare, Log!Fetch, Log!Get, Log!Unlink,
          Log!Replace, Log!WriteManifest, Log!Kill, Log!Again, Log!Goes
    <2>3. Log!Compare(p) \/ Log!WriteManifest(p)
      <3>1. ASSUME NEW to \in LogPlaces, NEW f, NEW v, NEW e,
                   \/ d' = [d EXCEPT ![p].at = to]
                   \/ d' = [d EXCEPT ![p].listed = f, ![p].at = to]
                   \/ d' = [d EXCEPT ![p].fetched = v, ![p].at = to]
            PROVE  d'[p].at = to
        BY <1>0, <3>1 DEF LogTypes, LogStates
      <3>2. Log!Fresh.at = "list" /\ \A e : [d EXCEPT ![p].errors = e][p].at = d[p].at
        BY <1>0 DEF Log!Fresh, LogTypes, LogStates
      <3>3. {"list logs", "compare", "fetch", "get", "unlink", "replace", "manifest", "killed",
            "failed"} \subseteq LogPlaces
        BY DEF LogPlaces
      <3>4. CASE Log!List(p) \/ Log!ListLogs(p)
        BY <1>1, <3>1, <3>3, <3>4 DEF Log!List, Log!ListLogs
      <3>5. CASE Log!Fetch(p) \/ Log!Unlink(p) \/ Log!Replace(p) \/ Log!Kill(p)
        BY <1>1, <3>1, <3>3, <3>5 DEF Log!Fetch, Log!Unlink, Log!Replace, Log!Kill, Log!Goes
      <3>6. CASE Log!Get(p)
        <4>1. CASE d' = [d EXCEPT ![p].fetched = logs[d[p].listed.root], ![p].at = "unlink"]
          BY <1>1, <3>1, <3>3, <4>1
        <4>2. CASE Log!Goes(p, "failed")
          BY <1>1, <3>1, <3>3, <4>2 DEF Log!Goes
        <4>3. CASE d' = [d EXCEPT ![p].errors = @ + 1]
          BY <1>1, <3>2, <4>3
        <4> QED
          BY <3>6, <4>1, <4>2, <4>3 DEF Log!Get
      <3>7. CASE Log!Again(p)
        BY <1>0, <1>1, <3>2, <3>7 DEF Log!Again, LogTypes
      <3> QED
        BY <2>1, <2>2, <3>4, <3>5, <3>6, <3>7
    <2>4. \A to : d' = [d EXCEPT ![p].at = to] => d'[p].at = to
      BY <1>0 DEF LogTypes, LogStates
    <2> QED
      BY <1>1, <2>3, <2>4 DEF Log!Compare, Log!WriteManifest, Log!Goes
  <1>2. CASE Log!Compare(p) /\ Log!Unchanged(p) /\ d'[p].at = "unchanged"
    <2>1. /\ identity = d[p].listed /\ d[p].listed.version >= 1 /\ saved <= d[p].listed.version
          /\ d[p].listed.version \in Nat /\ saved \in Nat
      BY <1>0, <1>2, StateIs DEF Log!Compare, Log!Unchanged, Apart, ListedWas, LogTypes
    <2>2. identity # Log!NoIdentity
      BY <2>1, NoneListed DEF Log!None
    <2> QED
      BY <1>0, <1>2, <2>1, <2>2 DEF ManifestIsNotAhead
  <1>3. CASE Log!WriteManifest(p) /\ d'[p].at = "saved"
    BY <1>0, <1>3, StateIs DEF Log!WriteManifest, Apart, ListedWas
  <1> QED
    BY <1>1, <1>2, <1>3

\* Unless downloads of a directory overlap, one that keeps the saved log keeps the version it
\* listed, and one that saves leaves nothing older, whatever was killed in between
\* (_save_execution_log of client/core.py).
THEOREM LogsAreAsListed ==
  ASSUME Log!LogFilesAssumption, MaxVersions >= 1
  PROVE  Log!Spec => Log!SavedIsListed
  <1> DEFINE Tells == \A p \in Downloads : d'[p].at # d[p].at /\ ~overlapped =>
                        /\ d'[p].at = "unchanged" => saved = d[p].listed.version
                        /\ d'[p].at = "saved" => saved >= d[p].listed.version
  <1>1. Log!Init => LogInv
    BY LogStart
  <1>2. LogInv /\ [Log!Next]_(Log!vars) => LogInv'
    BY LogSteps
  <1>3. LogInv /\ [Log!Next]_(Log!vars) => [Tells]_(Log!vars)
    BY LogTells
  <1> QED
    BY <1>1, <1>2, <1>3, PTL DEF Log!Spec, Log!SavedIsListed

-----------------------------------------------------------------------------
(* Downloads of one file of a checkpoint's export (ExportFiles), for every   *)
(* size of the file and every number of faults.                              *)

CONSTANTS Blocks, SilentCuts, MaxFaults
VARIABLES target, part, who, at, offset, faults

Export == INSTANCE ExportFiles WITH partial <- part

\* Where a download writes is where its file ends, and the TUI's has all when it is named.
ExportInv ==
  /\ target \in {Export!Absent, Blocks} /\ part \in -1 .. Blocks
  /\ who \in {"cli", "tui"} /\ at \in {"ended", "open", "get", "copy", "verify"}
  /\ offset \in 0 .. Blocks
  /\ at = "get" /\ who = "cli" => offset = IF part = Export!Absent THEN 0 ELSE part
  /\ at = "get" /\ who = "tui" => offset = 0
  /\ at = "copy" => part = offset
  /\ at = "verify" /\ who = "tui" => part = Blocks

\* A short answer does not pass for the whole of one where it is not looked at again.
NoSilentCut == Export!ExportAssumption /\ "tui" \notin SilentCuts

\* Every step keeps the invariant, and a file that is whole.
LEMMA ExportSteps ==
  ASSUME NoSilentCut, ExportInv, [Export!Next]_(Export!vars)
  PROVE  ExportInv' /\ (target = Blocks => target' = Blocks)
  <1> USE DEF NoSilentCut, Export!ExportAssumption, Export!Absent
  <1>1. CASE UNCHANGED Export!vars
    BY <1>1 DEF ExportInv, Export!vars
  <1>2. ASSUME NEW w \in {"cli", "tui"}, Export!Start(w)
        PROVE  ExportInv' /\ target' = target
    BY <1>2 DEF ExportInv, Export!Start
  <1>3. CASE Export!OpenCli
    BY <1>3 DEF ExportInv, Export!OpenCli
  <1>4. CASE Export!OpenTui
    BY <1>4 DEF ExportInv, Export!OpenTui
  <1>5. CASE Export!Get
    BY <1>5 DEF ExportInv, Export!Get, Export!Fault
  <1>6. CASE Export!Copy
    BY <1>6 DEF ExportInv, Export!Copy, Export!Fault
  <1>7. CASE Export!Copied
    BY <1>7 DEF ExportInv, Export!Copied
  <1>8. CASE Export!Promote
    BY <1>8 DEF ExportInv, Export!Promote
  <1>9. CASE Export!Kill
    BY <1>9 DEF ExportInv, Export!Kill, Export!Fault
  <1> QED
    BY <1>1, <1>2, <1>3, <1>4, <1>5, <1>6, <1>7, <1>8, <1>9 DEF Export!Next, Export!Work

\* A file that has its name has all of its bytes and keeps them, whatever downloads of the
\* command line and of the TUI were broken off before (_download_file of
\* _checkpoint_download.py and download_export of tui/checkpoints.py).
THEOREM NamedFilesAreWhole ==
  ASSUME NoSilentCut
  PROVE  Export!FairSpec => []Export!NamedIsWhole /\ Export!WholeStays
  <1>1. Export!Init => ExportInv
    BY DEF Export!Init, ExportInv, Export!Absent, NoSilentCut, Export!ExportAssumption
  <1>2. ExportInv => Export!NamedIsWhole
    BY DEF ExportInv, Export!NamedIsWhole, NoSilentCut, Export!ExportAssumption
  <1>3. ExportInv /\ [Export!Next]_(Export!vars) => ExportInv' /\ (target = Blocks => target' = Blocks)
    BY ExportSteps
  <1>4. ExportInv /\ [Export!Next]_(Export!vars) => [target = Blocks => target' = Blocks]_(Export!vars)
    BY <1>3
  <1> QED
    BY <1>1, <1>2, <1>3, <1>4, PTL DEF Export!FairSpec, Export!WholeStays

=============================================================================
