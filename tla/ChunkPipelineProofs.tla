-------------------------- MODULE ChunkPipelineProofs -------------------------
(* Proofs about ChunkPipeline, for every number of chunks, every preview,     *)
(* and every size of the pool and of the window.                              *)
EXTENDS ChunkPipeline, FiniteSetTheorems, SequenceTheorems, WellFoundedInduction, TLAPS

-----------------------------------------------------------------------------
(* The inductive invariant.                                                  *)

Ahead == pc \in {"start", "preview", "fill", "commit", "again"}
HeadInHand == pc \in {"commit", "again"}
\* The last chunk whose fetch the writer took.
Taken == Len(out) + (IF HeadInHand THEN 1 ELSE 0)
Live(f) == future[f] \in {"queued", "running"}
\* A fetch of the writer's own that may put a file into the Spool, or has put one there.
Holds(f) == f[1] = "turn" /\ (f \in files \/ Live(f))
Awaited(f) == \E i \in 1..Len(pending) : pending[i] = f

\* What is submitted ahead of the writer follows what it has taken, within the window.
PendingIsNext ==
    /\ Len(out) <= submitted /\ submitted <= Len(out) + Window
    /\ HeadInHand => Len(out) < submitted /\ head \in Futures /\ head[2] = Len(out) + 1
    /\ Ahead => /\ Len(pending) = submitted - Taken
                /\ \A i \in 1..Len(pending) : pending[i][2] = Taken + i

\* A chunk that has not had its turn has no fetch of its own; one that was looked at and kept waits
\* for its turn with its file.
TurnsToCome ==
    /\ \A c \in Chunks : c > submitted => future[<<"turn", c>>] = "none"
    /\ \A c \in prefetched :
        /\ c > submitted
        /\ future[<<"preview", c>>] = "fetched"
        /\ Ahead => <<"preview", c>> \in files
    /\ pc \in {"start", "preview"} => submitted = 0
    /\ pc = "start" => \A f \in Futures : future[f] = "none"

\* The writer's own fetches are those that it awaits.
HeldIsAwaited ==
    \A f \in Futures : Holds(f) =>
        /\ f[2] \in (Len(out) + 1)..submitted
        /\ pc # "ended" => (pc \in {"commit", "failing"} /\ f = head) \/ Awaited(f)

\* A fetch that ended well and is awaited, by the writer or by the preview, has its file.
Kept(f) == future[f] \in {"fetched", "damaged"} => f \in files
FilesAreKept ==
    /\ Ahead => \A i \in 1..Len(pending) : Kept(pending[i])
    /\ pc = "commit" => Kept(head)
    /\ pc \in {"start", "preview"} => \A c \in Preview \ looked : Kept(<<"preview", c>>)

\* The Spool goes with the last fetch that runs, and nothing is started after.
SpoolWaits ==
    /\ pc # "ended" => waiting = {} /\ spool = "present"
    /\ pc = "ended" => Queued = {} /\ (spool = "present" => waiting = Running)
    /\ spool = "removed" => Running = {} /\ Queued = {} /\ files = {}

PipelineInv ==
    /\ TypeOK /\ OwnRowsInOrder
    /\ PendingIsNext /\ TurnsToCome /\ HeldIsAwaited /\ FilesAreKept /\ SpoolWaits

LEMMA PipelineAtFirst ==
    ASSUME Init
    PROVE  PipelineInv
  <1>0. Len(out) = 0 /\ Len(pending) = 0 /\ ~HeadInHand /\ Window > 0 /\ submitted = 0
    BY CountsAssumption DEF Init, HeadInHand
  <1>1. TypeOK
    BY <1>0, CountsAssumption, PreviewAssumption DEF Init, Futures, None, Chunks, PipelineInv,
         TypeOK, Results
  <1>2. OwnRowsInOrder
    BY <1>0 DEF Init, Futures, None, Chunks, PipelineInv, OwnRowsInOrder
  <1>3. PendingIsNext
    <2>1. Taken = 0 /\ \A i \in 1..Len(pending) : FALSE
      BY <1>0 DEF Taken
    <2> QED
      BY <1>0, <2>1, CountsAssumption DEF PendingIsNext
  <1>4. TurnsToCome
    BY <1>0 DEF Init, Futures, None, Chunks, PipelineInv, TurnsToCome, Ahead
  <1>5. HeldIsAwaited
    BY <1>0 DEF Init, Futures, None, Chunks, PipelineInv, HeldIsAwaited, Holds, Awaited, Live
  <1>6. FilesAreKept
    BY <1>0, CountsAssumption, PreviewAssumption DEF Init, Futures, None, Chunks, PipelineInv,
         TypeOK, Results, FilesAreKept, Ahead, Kept
  <1>7. SpoolWaits
    BY <1>0 DEF Init, Futures, None, Chunks, PipelineInv, SpoolWaits, Queued, Running
  <1> QED
    BY <1>1, <1>2, <1>3, <1>4, <1>5, <1>6, <1>7 DEF PipelineInv

\* The preview is submitted before anything else is.
LEMMA BeginKeeps ==
    ASSUME PipelineInv, Begin
    PROVE  PipelineInv'
  <1>0. /\ \A f \in Futures : future'[f] \in {"none", "queued"} /\ (f[1] = "turn" => future'[f] = "none")
        /\ future' \in [Futures -> {"none", "queued"}]
    BY DEF Begin, Submit, writerVars, Futures, Chunks, PipelineInv, TurnsToCome, Ahead
  <1>1. TypeOK'
    BY <1>0 DEF Begin, Submit, writerVars, Futures, Chunks, PipelineInv, TypeOK, Results, None
  <1>2. OwnRowsInOrder'
    BY <1>0 DEF Begin, Submit, writerVars, Futures, Chunks, PipelineInv, OwnRowsInOrder
  <1>3. PendingIsNext'
    BY <1>0 DEF Begin, Submit, writerVars, Futures, Chunks, PipelineInv, PendingIsNext, HeadInHand,
         Ahead, Taken
  <1>4. TurnsToCome'
    BY <1>0 DEF Begin, Submit, writerVars, Futures, Chunks, PipelineInv, TypeOK, Results, None,
         TurnsToCome, Ahead
  <1>5. HeldIsAwaited'
    BY <1>0 DEF Begin, Submit, writerVars, Futures, Chunks, PipelineInv, HeldIsAwaited, Holds,
         Awaited, Live
  <1>6. FilesAreKept'
    BY SMTT(20), <1>0, CountsAssumption, PreviewAssumption DEF Begin, Submit, writerVars, Futures, Chunks,
         PipelineInv, TypeOK, Results, None, FilesAreKept, Ahead, Kept
  <1>7. SpoolWaits'
    BY <1>0 DEF Begin, Submit, writerVars, Futures, Chunks, PipelineInv, SpoolWaits, Queued, Running
  <1> QED
    BY <1>1, <1>2, <1>3, <1>4, <1>5, <1>6, <1>7 DEF PipelineInv

LEMMA LookKeeps ==
    ASSUME PipelineInv, Look
    PROVE  PipelineInv'
  <1>1. PICK c \in Preview \ looked :
            /\ Done(<<"preview", c>>)
            /\ looked' = looked \cup {c}
            /\ prefetched' = IF future[<<"preview", c>>] = "fetched" THEN prefetched \cup {c} ELSE prefetched
            /\ files' = IF future[<<"preview", c>>] = "damaged" THEN files \ {<<"preview", c>>} ELSE files
    BY DEF Look
  <1>2. /\ c \in Chunks /\ <<"preview", c>> \in Futures
        /\ pc = "preview" /\ UNCHANGED <<future, pending, head, submitted, out, pc, strict, spool, waiting>>
    BY PreviewAssumption DEF Look, Chunks, Futures
  <1>3. TypeOK'
    BY <1>1, <1>2 DEF Done, Results, PipelineInv, TypeOK, Futures, None, Chunks
  <1>4. OwnRowsInOrder'
    BY <1>1, <1>2 DEF Done, Results, PipelineInv, OwnRowsInOrder
  <1>5. PendingIsNext'
    BY <1>1, <1>2 DEF Done, Results, PipelineInv, PendingIsNext, HeadInHand, Futures, Ahead, Taken,
         Chunks
  <1>6. TurnsToCome'
    <2>1. \A d \in prefetched : d # c /\ <<"preview", d>> \in files
      BY <1>1, <1>2 DEF PipelineInv, TypeOK, TurnsToCome, Ahead
    <2>2. future[<<"preview", c>>] = "fetched" => <<"preview", c>> \in files'
      BY <1>1, <1>2 DEF PipelineInv, FilesAreKept, Kept
    <2>3. submitted = 0 /\ c > submitted
      BY <1>2, CountsAssumption DEF PipelineInv, TurnsToCome, Chunks
    <2> QED
      BY <1>1, <1>2, <2>1, <2>2, <2>3 DEF PipelineInv, TurnsToCome
  <1>7. HeldIsAwaited'
    BY <1>1, <1>2 DEF Done, Results, PipelineInv, HeldIsAwaited, Futures, Holds, Awaited, Chunks,
         Live
  <1>8. FilesAreKept'
    BY <1>1, <1>2, CountsAssumption, PreviewAssumption DEF Done, Results, PipelineInv, TypeOK,
         Futures, None, Chunks, OwnRowsInOrder, PendingIsNext, HeadInHand, Ahead, Taken,
         TurnsToCome, HeldIsAwaited, Holds, Awaited, Live, FilesAreKept, Kept, SpoolWaits, Queued,
         Running
  <1>9. SpoolWaits'
    BY <1>1, <1>2 DEF Done, Results, PipelineInv, SpoolWaits, Queued, Running, Futures, Chunks
  <1> QED
    BY <1>3, <1>4, <1>5, <1>6, <1>7, <1>8, <1>9 DEF PipelineInv

LEMMA ShownKeeps ==
    ASSUME PipelineInv, Shown
    PROVE  PipelineInv'
  <1>1. TypeOK'
    BY DEF Shown, fetchVars, writerVars, PipelineInv, TypeOK, Futures, Results, None, Chunks
  <1>2. OwnRowsInOrder'
    BY DEF Shown, fetchVars, writerVars, PipelineInv, OwnRowsInOrder
  <1>3. PendingIsNext'
    BY DEF Shown, fetchVars, writerVars, PipelineInv, PendingIsNext, HeadInHand, Futures, Ahead,
         Taken, Chunks
  <1>4. TurnsToCome'
    BY DEF Shown, fetchVars, writerVars, PipelineInv, TurnsToCome, Chunks, Ahead, Futures
  <1>5. HeldIsAwaited'
    BY DEF Shown, fetchVars, writerVars, PipelineInv, HeldIsAwaited, Futures, Holds, Awaited,
         Chunks, Live
  <1>6. FilesAreKept'
    BY DEF Shown, fetchVars, writerVars, PipelineInv, FilesAreKept, Ahead, Kept
  <1>7. SpoolWaits'
    BY DEF Shown, fetchVars, writerVars, PipelineInv, SpoolWaits, Queued, Running, Futures, Chunks
  <1> QED
    BY <1>1, <1>2, <1>3, <1>4, <1>5, <1>6, <1>7 DEF PipelineInv

\* Filling the window puts the next chunks' turns behind those submitted, and takes the first of all.
LEMMA FillKeeps ==
    ASSUME PipelineInv, Fill
    PROVE  PipelineInv'
  <1> DEFINE room == Window - Len(pending)
             last == IF submitted + room < Total THEN submitted + room ELSE Total
             turns == [i \in 1..(last - submitted) |-> Turn(submitted + i)]
             all == pending \o turns
             mine == RangeOf(turns) \cap ({"turn"} \X Chunks)
  <1>1. /\ Len(out) \in Nat /\ submitted \in Nat /\ Total \in Nat /\ Window \in Nat /\ Len(pending) \in Nat
        /\ Len(pending) = submitted - Len(out) /\ ~HeadInHand /\ Ahead /\ pc = "fill"
    BY CountsAssumption DEF Fill, PipelineInv, TypeOK, PendingIsNext, Ahead, Taken, HeadInHand
  <1>2. /\ last \in Nat /\ submitted <= last /\ Len(out) < last /\ last <= Total /\ last <= Len(out) + Window
        /\ last - submitted \in Nat
    BY <1>1, CountsAssumption DEF Fill, PipelineInv, TypeOK, PendingIsNext
  <1>3. /\ future' = [f \in Futures |-> IF f \in mine THEN "queued" ELSE future[f]]
        /\ head' = Head(all) /\ pending' = Tail(all) /\ submitted' = last
        /\ prefetched' = prefetched \ ((submitted + 1)..last) /\ pc' = "commit"
        /\ UNCHANGED <<files, looked, out, strict, spool, waiting>>
    BY DEF Fill, Submit
  <1> HIDE DEF last
  <1>4. \A i \in 1..(last - submitted) : Turn(submitted + i) \in Futures /\ submitted + i \in Chunks
    BY <1>1, <1>2 DEF Turn, Futures, Chunks
  <1>5. /\ turns \in Seq(Futures) /\ Len(turns) = last - submitted
        /\ \A i \in 1..Len(turns) : turns[i] = Turn(submitted + i)
    BY <1>2, <1>4
  <1>6. /\ all \in Seq(Futures) /\ Len(all) = last - Len(out)
        /\ \A i \in 1..Len(all) : all[i] = IF i <= Len(pending) THEN pending[i] ELSE turns[i - Len(pending)]
    <2>1. pending \in Seq(Futures)
      BY DEF PipelineInv, TypeOK
    <2> HIDE DEF turns
    <2>2. /\ all \in Seq(Futures) /\ Len(all) = Len(pending) + Len(turns)
          /\ \A i \in 1..(Len(pending) + Len(turns)) :
                all[i] = IF i <= Len(pending) THEN pending[i] ELSE turns[i - Len(pending)]
      BY ZenonT(30), <2>1, <1>5, ConcatProperties
    <2>3. Len(pending) + Len(turns) = last - Len(out)
      BY <1>1, <1>2, <1>5
    <2> QED
      BY <2>2, <2>3
  <1>7. \A i \in 1..Len(all) :
            \/ i \in 1..Len(pending) /\ all[i] = pending[i]
            \/ i > Len(pending) /\ Len(out) + i \in (submitted + 1)..last /\ all[i] = Turn(Len(out) + i)
    <2> HIDE DEF turns, all
    <2> TAKE i \in 1..Len(all)
    <2>1. CASE i <= Len(pending)
      BY <2>1, <1>1, <1>6
    <2>2. CASE i > Len(pending)
      <3>1. i - Len(pending) \in 1..Len(turns) /\ submitted + (i - Len(pending)) = Len(out) + i
        BY <2>2, <1>1, <1>2, <1>5, <1>6
      <3> QED
        BY SMTT(20), <3>1, <2>2, <1>1, <1>2, <1>5, <1>6
    <2> QED
      BY <2>1, <2>2, <1>1
  <1>8. \A f \in Futures : f \in mine <=>
            f[1] = "turn" /\ f[2] \in (submitted + 1)..last /\ f[2] \notin prefetched
    <2> HIDE DEF turns
    <2> TAKE f \in Futures
    <2> DEFINE c == f[2]
    <2>0. f = <<f[1], c>> /\ c \in Chunks
      BY DEF Futures
    <2> HIDE DEF c
    <2>1. ASSUME f \in mine
          PROVE  f[1] = "turn" /\ c \in (submitted + 1)..last /\ c \notin prefetched
      <3>1. PICK i \in 1..Len(turns) : f = turns[i] /\ f[1] = "turn"
        BY <2>1 DEF RangeOf
      <3>2. PICK d \in (submitted + 1)..last : f = Turn(d)
        BY <3>1, <1>1, <1>2, <1>5
      <3>3. f = <<"turn", d>> /\ d \notin prefetched
        BY <3>1, <3>2 DEF Turn
      <3>4. f[2] = d
        BY <3>3
      <3> QED
        BY <3>1, <3>2, <3>3, <3>4 DEF c
    <2>2. ASSUME f[1] = "turn", c \in (submitted + 1)..last, c \notin prefetched
          PROVE  f \in mine
      <3>1. c - submitted \in 1..Len(turns) /\ submitted + (c - submitted) = c
        BY <2>2, <1>1, <1>2, <1>5
      <3>2. turns[c - submitted] = f
        BY <3>1, <2>0, <2>2, <1>5 DEF Turn
      <3> QED
        BY <3>1, <3>2, <2>0, <2>2 DEF RangeOf
    <2> QED
      BY <2>1, <2>2 DEF c
  <1> HIDE DEF room, turns, all, mine
  <1>9. /\ pending' \in Seq(Futures) /\ Len(pending') = last - Len(out) - 1
        /\ head' = all[1] /\ \A i \in 1..Len(pending') : pending'[i] = all[i + 1]
    <2>1. all # <<>> /\ Len(all) > 0
      BY <1>1, <1>2, <1>6
    <2> QED
      BY <2>1, <1>1, <1>2, <1>3, <1>6, HeadTailProperties
  <1>10. \A i \in 1..Len(all) : all[i] = head' \/ \E j \in 1..Len(pending') : pending'[j] = all[i]
    <2> TAKE i \in 1..Len(all)
    <2>1. CASE i = 1
      BY <2>1, <1>9
    <2>2. CASE i > 1
      <3>1. i - 1 \in 1..Len(pending') /\ (i - 1) + 1 = i
        BY <2>2, <1>1, <1>2, <1>6, <1>9
      <3> QED
        BY <3>1, <1>9
    <2> QED
      BY <2>1, <2>2
  <1>11. \A i \in 1..Len(all) : all[i] \in Futures /\ all[i][2] = Len(out) + i
    <2> TAKE i \in 1..Len(all)
    <2>1. CASE i \in 1..Len(pending) /\ all[i] = pending[i]
      BY <2>1, <1>1, <1>6 DEF PipelineInv, PendingIsNext, Taken
    <2>2. CASE all[i] = Turn(Len(out) + i)
      <3>1. \A d : Turn(d)[2] = d
        BY DEF Turn
      <3> QED
        BY <3>1, <2>2, <1>6
    <2> QED
      BY <2>1, <2>2, <1>7
  <1>12. ASSUME NEW i \in 1..Len(all), NEW f \in Futures, all[i] = f
         PROVE  Kept(f)'
    <2>1. CASE i \in 1..Len(pending) /\ all[i] = pending[i]
      <3>1. Kept(f)
        BY <2>1, <1>1, <1>12 DEF PipelineInv, FilesAreKept
      <3> QED
        BY <3>1, <1>3 DEF Kept
    <2>2. CASE Len(out) + i \in (submitted + 1)..last /\ all[i] = Turn(Len(out) + i)
      <3> DEFINE c == Len(out) + i
      <3>1. c \in (submitted + 1)..last /\ f = Turn(c)
        BY <2>2, <1>12
      <3> HIDE DEF c
      <3>2. CASE c \in prefetched
        <4>1. f = <<"preview", c>> /\ <<"preview", c>> \in files
          BY <3>1, <3>2, <1>1 DEF Turn, PipelineInv, TurnsToCome
        <4> QED
          BY <4>1, <1>3 DEF Kept
      <3>3. CASE c \notin prefetched
        <4>1. f = <<"turn", c>> /\ f \in mine
          BY <3>1, <3>3, <1>8 DEF Turn
        <4> QED
          BY <3>1, <4>1, <1>3 DEF Kept
      <3> QED
        BY <3>2, <3>3
    <2> QED
      BY <2>1, <2>2, <1>7
  <1>13. TypeOK'
    <2>1. head' \in Futures
      BY <1>1, <1>2, <1>6, <1>9, <1>11
    <2> QED
      BY <2>1, <1>1, <1>2, <1>3, <1>9 DEF PipelineInv, TypeOK, Results
  <1>14. OwnRowsInOrder'
    BY <1>3 DEF PipelineInv, OwnRowsInOrder
  <1>15. PendingIsNext'
    <2>1. HeadInHand' /\ Ahead' /\ Taken' = Len(out) + 1 /\ out' = out
      BY <1>3, <1>1 DEF HeadInHand, Ahead, Taken
    <2>2. head' \in Futures /\ head'[2] = Len(out) + 1
      BY <1>1, <1>2, <1>6, <1>9, <1>11
    <2>3. \A i \in 1..Len(pending') : pending'[i][2] = Len(out) + 1 + i
      <3> TAKE i \in 1..Len(pending')
      <3>1. i + 1 \in 1..Len(all) /\ pending'[i] = all[i + 1] /\ Len(out) + (i + 1) = Len(out) + 1 + i
        BY <1>1, <1>2, <1>6, <1>9
      <3> QED
        BY <3>1, <1>11
    <2>4. Len(pending') = submitted' - (Len(out) + 1)
      BY <1>1, <1>2, <1>3, <1>9
    <2>5. Len(out) < submitted' /\ submitted' <= Len(out) + Window /\ Len(out) <= submitted'
      BY <1>1, <1>2, <1>3
    <2> QED
      BY <2>1, <2>2, <2>3, <2>4, <2>5 DEF PendingIsNext
  <1>16. TurnsToCome'
    <2>1. \A c \in Chunks : <<"turn", c>> \in Futures /\ <<"preview", c>> \in Futures
      BY DEF Futures
    <2>2. prefetched \subseteq Chunks /\ Chunks \subseteq Nat
      BY PreviewAssumption DEF PipelineInv, TypeOK, Chunks
    <2>3. ASSUME NEW c \in Chunks, c > last
          PROVE  future'[<<"turn", c>>] = "none"
      <3>1. c > submitted /\ c \notin (submitted + 1)..last
        BY <2>2, <2>3, <1>1, <1>2
      <3>2. <<"turn", c>> \notin mine
        BY <3>1, <2>1, <1>8
      <3> QED
        BY <3>1, <3>2, <2>1, <2>3, <1>3 DEF PipelineInv, TurnsToCome
    <2>4. ASSUME NEW c \in prefetched'
          PROVE  c > last /\ future'[<<"preview", c>>] = "fetched" /\ <<"preview", c>> \in files'
      <3>1. c \in prefetched /\ c \notin (submitted + 1)..last /\ c \in Chunks
        BY <2>2, <2>4, <1>3
      <3>2. c > submitted /\ future[<<"preview", c>>] = "fetched" /\ <<"preview", c>> \in files
        BY <3>1, <1>1 DEF PipelineInv, TurnsToCome
      <3>3. <<"preview", c>> \notin mine
        BY <3>1, <2>1, <1>8
      <3>4. c > last
        BY <3>1, <3>2, <2>2, <1>1, <1>2
      <3> QED
        BY <3>1, <3>2, <3>3, <3>4, <2>1, <1>3
    <2> QED
      BY <2>3, <2>4, <1>3 DEF TurnsToCome
  <1>17. HeldIsAwaited'
    <2> SUFFICES ASSUME NEW f \in Futures, Holds(f)'
                 PROVE  f[2] \in (Len(out) + 1)..last /\ \E i \in 1..Len(all) : all[i] = f
      BY ZenonT(30), <1>3, <1>10 DEF HeldIsAwaited, Awaited
    <2>1. CASE f \in mine
      <3> DEFINE c == f[2]
                 k == c - Len(out)
      <3>1. f = <<"turn", c>> /\ c \in (submitted + 1)..last /\ c \notin prefetched
        BY <2>1, <1>8 DEF Futures
      <3> HIDE DEF c
      <3>2. k \in 1..Len(all) /\ k > Len(pending) /\ Len(out) + k = c /\ c \in (Len(out) + 1)..last
        BY <3>1, <1>1, <1>2, <1>6
      <3> HIDE DEF k
      <3>3. all[k] = Turn(c)
        BY SMTT(20), <3>2, <1>1, <1>7
      <3> QED
        BY <3>1, <3>2, <3>3 DEF c, Turn
    <2>2. CASE f \notin mine
      <3>1. Holds(f)
        BY <2>2, <1>3 DEF Holds, Live
      <3>2. f[2] \in (Len(out) + 1)..submitted /\ Awaited(f)
        BY <3>1, <1>1 DEF PipelineInv, HeldIsAwaited
      <3>3. PICK i \in 1..Len(pending) : pending[i] = f
        BY <3>2 DEF Awaited
      <3>4. i \in 1..Len(all) /\ all[i] = f
        BY <3>3, <1>1, <1>2, <1>6
      <3> QED
        BY <3>2, <3>4, <1>1, <1>2
    <2> QED
      BY <2>1, <2>2
  <1>18. FilesAreKept'
    <2>1. Kept(head)'
      <3>1. 1 \in 1..Len(all) /\ head' = all[1] /\ head' \in Futures
        BY <1>1, <1>2, <1>6, <1>9, <1>11
      <3> QED
        BY <3>1, <1>12 DEF Kept
    <2>2. ASSUME NEW i \in 1..Len(pending')
          PROVE  Kept(pending[i])'
      <3>1. i + 1 \in 1..Len(all) /\ pending'[i] = all[i + 1] /\ pending'[i] \in Futures
        BY <1>1, <1>2, <1>6, <1>9
      <3> QED
        BY <3>1, <1>12 DEF Kept
    <2> QED
      BY <2>1, <2>2, <1>3 DEF FilesAreKept
  <1>19. SpoolWaits'
    BY <1>1, <1>3 DEF PipelineInv, SpoolWaits
  <1> QED
    BY <1>13, <1>14, <1>15, <1>16, <1>17, <1>18, <1>19 DEF PipelineInv

\* A chunk is accounted for behind those that are.
LEMMA RowsGrow ==
    ASSUME TypeOK, OwnRowsInOrder, Len(out) < Total,
           NEW data \in {0, Len(out) + 1}, Account(data)
    PROVE  /\ out' \in Seq(Chunks \X (Chunks \cup {0})) /\ OwnRowsInOrder'
           /\ Len(out) \in Nat /\ Len(out') = Len(out) + 1
  <1>1. <<Len(out) + 1, data>> \in Chunks \X (Chunks \cup {0}) /\ out \in Seq(Chunks \X (Chunks \cup {0}))
    BY CountsAssumption DEF TypeOK, Chunks
  <1>2. /\ out' \in Seq(Chunks \X (Chunks \cup {0})) /\ Len(out') = Len(out) + 1
        /\ \A k \in 1..Len(out) : out'[k] = out[k]
        /\ out'[Len(out) + 1] = <<Len(out) + 1, data>>
    BY <1>1 DEF Account
  <1>3. OwnRowsInOrder'
    <2> SUFFICES ASSUME NEW i \in 1..Len(out) + 1
                 PROVE  out'[i][1] = i /\ out'[i][2] \in {0, i}
      BY <1>2 DEF OwnRowsInOrder
    <2>1. CASE i \in 1..Len(out)
      BY <2>1, <1>2 DEF OwnRowsInOrder
    <2>2. CASE i = Len(out) + 1
      BY <2>2, <1>2
    <2> QED
      BY <1>1, <2>1, <2>2
  <1> QED
    BY <1>1, <1>2, <1>3

\* What the writer waits for is the next chunk's.
LEMMA HeadIsNext ==
    ASSUME PipelineInv, HeadInHand
    PROVE  head \in Futures /\ head[2] = Len(out) + 1 /\ head[2] \in Chunks /\ Len(out) \in Nat /\ Len(out) < Total
  BY CountsAssumption DEF PipelineInv, TypeOK, PendingIsNext, Futures, Chunks

\* A fetch that is held, and whose turn has not come, is awaited behind the one the writer has taken.
LEMMA OthersAreAwaited ==
    ASSUME PipelineInv, HeadInHand, NEW f \in Futures, Holds(f), f # head
    PROVE  Awaited(f) /\ f[2] \in (Len(out) + 2)..submitted
  <1>1. Awaited(f) /\ f[2] \in (Len(out) + 1)..submitted
    BY DEF PipelineInv, HeldIsAwaited, HeadInHand
  <1>2. PICK i \in 1..Len(pending) : pending[i] = f
    BY <1>1 DEF Awaited
  <1>3. f[2] = Len(out) + 1 + i
    BY <1>2 DEF PipelineInv, PendingIsNext, HeadInHand, Ahead, Taken
  <1>4. Len(out) \in Nat /\ Len(pending) \in Nat /\ submitted \in Nat
    BY CountsAssumption DEF PipelineInv, TypeOK
  <1> QED
    BY <1>1, <1>2, <1>3, <1>4

\* The writer takes the next chunk, leaves it out, gets it again or gives up.
LEMMA CommitKeeps ==
    ASSUME PipelineInv, Commit
    PROVE  PipelineInv'
  <1>1. HeadInHand /\ head \in Futures /\ head[2] = Len(out) + 1 /\ head[2] \in Chunks /\ Len(out) \in Nat /\ Len(out) < Total
    BY HeadIsNext DEF Commit, HeadInHand
  <1>2. CASE out' = out /\ pc' \in {"failing", "again"}
    <2>1. TypeOK'
      BY <1>1, <1>2 DEF Commit, Done, Account, Results, PipelineInv, TypeOK, Futures, None, Chunks
    <2>2. OwnRowsInOrder'
      BY <1>1, <1>2 DEF Commit, Done, Account, Results, PipelineInv, OwnRowsInOrder
    <2>3. PendingIsNext'
      BY <1>1, <1>2 DEF Commit, Done, Account, Results, PipelineInv, PendingIsNext, HeadInHand,
           Futures, Ahead, Taken, Chunks
    <2>4. TurnsToCome'
      BY <1>1, <1>2 DEF Commit, Done, Account, Results, PipelineInv, TurnsToCome, Chunks, Ahead,
           Futures
    <2>5. HeldIsAwaited'
      BY <1>1, <1>2 DEF Commit, Done, Account, Results, PipelineInv, HeldIsAwaited, Futures, Holds,
           Awaited, Chunks, Live
    <2>6. FilesAreKept'
      BY <1>1, <1>2, CountsAssumption, PreviewAssumption DEF Commit, Done, Account, Results,
           PipelineInv, TypeOK, Futures, None, Chunks, OwnRowsInOrder, PendingIsNext, HeadInHand,
           Ahead, Taken, TurnsToCome, HeldIsAwaited, Holds, Awaited, Live, FilesAreKept, Kept,
           SpoolWaits, Queued, Running
    <2>7. SpoolWaits'
      BY <1>1, <1>2 DEF Commit, Done, Account, Results, PipelineInv, SpoolWaits, Queued, Running,
           Futures, Chunks
    <2> QED
      BY <2>1, <2>2, <2>3, <2>4, <2>5, <2>6, <2>7 DEF PipelineInv
  <1>3. CASE pc' = "fill" /\ \E data \in {0, head[2]} : Account(data)
    <2> PICK data \in {0, head[2]} : Account(data)
      BY <1>3
    <2>0. /\ out' \in Seq(Chunks \X (Chunks \cup {0})) /\ Len(out') = Len(out) + 1 /\ OwnRowsInOrder'
      BY <1>1, RowsGrow DEF PipelineInv
    <2>1. TypeOK'
      BY <1>1, <1>3, <2>0 DEF Commit, Done, Account, Results, PipelineInv, TypeOK, Futures, None,
           Chunks
    <2>2. OwnRowsInOrder'
      BY <2>0
    <2>3. PendingIsNext'
      BY <1>1, <1>3, <2>0, CountsAssumption, PreviewAssumption DEF Commit, Done, Account, Results,
           PipelineInv, TypeOK, Futures, None, Chunks, PendingIsNext, HeadInHand, Ahead, Taken
    <2>4. TurnsToCome'
      BY <1>1, <1>3, <2>0, CountsAssumption, PreviewAssumption DEF Commit, Done, Account, Results,
           PipelineInv, TypeOK, Futures, None, Chunks, OwnRowsInOrder, PendingIsNext, HeadInHand,
           Ahead, Taken, TurnsToCome, HeldIsAwaited, Holds, Awaited, Live, FilesAreKept, Kept,
           SpoolWaits, Queued, Running
    <2>5. HeldIsAwaited'
      <3> SUFFICES ASSUME NEW f \in Futures, Holds(f)'
                   PROVE  Awaited(f) /\ f[2] \in (Len(out) + 2)..submitted
        BY <1>1, <1>3, <2>0 DEF HeldIsAwaited, Awaited, Commit
      <3>1. Holds(f) /\ f # head
        BY <1>1 DEF Commit, Holds, Live, Done, Results
      <3> QED
        BY <1>1, <3>1, OthersAreAwaited
    <2>6. FilesAreKept'
      BY SMTT(20), <1>1, <1>3, <2>0, CountsAssumption, PreviewAssumption DEF Commit, Done, Account, Results,
           PipelineInv, TypeOK, Futures, None, Chunks, OwnRowsInOrder, PendingIsNext, HeadInHand,
           Ahead, Taken, TurnsToCome, HeldIsAwaited, Holds, Awaited, Live, FilesAreKept, Kept,
           SpoolWaits, Queued, Running
    <2>7. SpoolWaits'
      BY <1>1, <1>3, <2>0 DEF Commit, Done, Account, Results, PipelineInv, SpoolWaits, Queued,
           Running, Futures, Chunks
    <2> QED
      BY <2>1, <2>2, <2>3, <2>4, <2>5, <2>6, <2>7 DEF PipelineInv
  <1> QED
    BY <1>1, <1>2, <1>3 DEF Commit

LEMMA CommitAgainKeeps ==
    ASSUME PipelineInv, NEW result \in Results, CommitAgain(result)
    PROVE  PipelineInv'
  <1>1. HeadInHand /\ head \in Futures /\ head[2] = Len(out) + 1 /\ head[2] \in Chunks /\ Len(out) \in Nat /\ Len(out) < Total
    BY HeadIsNext DEF CommitAgain, HeadInHand
  <1>2. CASE out' = out /\ pc' = "failing"
    <2>1. TypeOK'
      BY <1>1, <1>2 DEF CommitAgain, Account, fetchVars, PipelineInv, TypeOK, Futures, Results,
           None, Chunks
    <2>2. OwnRowsInOrder'
      BY <1>1, <1>2 DEF CommitAgain, Account, fetchVars, PipelineInv, OwnRowsInOrder
    <2>3. PendingIsNext'
      BY <1>1, <1>2 DEF CommitAgain, Account, fetchVars, PipelineInv, PendingIsNext, HeadInHand,
           Futures, Ahead, Taken, Chunks
    <2>4. TurnsToCome'
      BY <1>1, <1>2 DEF CommitAgain, Account, fetchVars, PipelineInv, TurnsToCome, Chunks, Ahead,
           Futures
    <2>5. HeldIsAwaited'
      BY <1>1, <1>2 DEF CommitAgain, Account, fetchVars, PipelineInv, HeldIsAwaited, Futures, Holds,
           Awaited, Chunks, Live
    <2>6. FilesAreKept'
      BY <1>1, <1>2 DEF CommitAgain, Account, fetchVars, PipelineInv, FilesAreKept, Ahead, Kept
    <2>7. SpoolWaits'
      BY <1>1, <1>2 DEF CommitAgain, Account, fetchVars, PipelineInv, SpoolWaits, Queued, Running,
           Futures, Chunks
    <2> QED
      BY <2>1, <2>2, <2>3, <2>4, <2>5, <2>6, <2>7 DEF PipelineInv
  <1>3. CASE pc' = "fill" /\ \E data \in {0, Len(out) + 1} : Account(data)
    <2> PICK data \in {0, Len(out) + 1} : Account(data)
      BY <1>3
    <2>0. /\ out' \in Seq(Chunks \X (Chunks \cup {0})) /\ Len(out') = Len(out) + 1 /\ OwnRowsInOrder'
      BY <1>1, RowsGrow DEF PipelineInv
    <2>1. TypeOK'
      BY <1>1, <1>3, <2>0 DEF CommitAgain, Account, fetchVars, PipelineInv, TypeOK, Futures,
           Results, None, Chunks
    <2>2. OwnRowsInOrder'
      BY <2>0
    <2>3. PendingIsNext'
      BY <1>1, <1>3, <2>0, CountsAssumption, PreviewAssumption DEF CommitAgain, Account, fetchVars,
           PipelineInv, TypeOK, Futures, Results, None, Chunks, PendingIsNext, HeadInHand, Ahead,
           Taken
    <2>4. TurnsToCome'
      BY <1>1, <1>3, <2>0 DEF CommitAgain, Account, fetchVars, PipelineInv, TurnsToCome, Chunks,
           Ahead, Futures
    <2>5. HeldIsAwaited'
      <3> SUFFICES ASSUME NEW f \in Futures, Holds(f)'
                   PROVE  Awaited(f) /\ f[2] \in (Len(out) + 2)..submitted
        BY <1>1, <1>3, <2>0 DEF HeldIsAwaited, Awaited, CommitAgain, fetchVars
      <3>1. Holds(f) /\ f # head
        <4>1. Holds(f)
          BY DEF CommitAgain, Holds, Live, fetchVars
        <4>2. CASE f = head
          <5>1. PICK i \in 1..Len(pending) : pending[i] = head
            BY <4>1, <4>2 DEF CommitAgain, PipelineInv, HeldIsAwaited, Awaited
          <5>2. head[2] = Len(out) + 1 + i
            BY <5>1, <1>1 DEF PipelineInv, PendingIsNext, Ahead, Taken, HeadInHand
          <5> QED
            BY <5>2, <1>1
        <4> QED
          BY <4>1, <4>2
      <3> QED
        BY <1>1, <3>1, OthersAreAwaited
    <2>6. FilesAreKept'
      BY <1>1, <1>3, <2>0 DEF CommitAgain, Account, fetchVars, PipelineInv, FilesAreKept, Ahead,
           Kept
    <2>7. SpoolWaits'
      BY <1>1, <1>3, <2>0 DEF CommitAgain, Account, fetchVars, PipelineInv, SpoolWaits, Queued,
           Running, Futures, Chunks
    <2> QED
      BY <2>1, <2>2, <2>3, <2>4, <2>5, <2>6, <2>7 DEF PipelineInv
  <1> QED
    BY <1>1, <1>2, <1>3 DEF CommitAgain

LEMMA ShutdownKeeps ==
    ASSUME PipelineInv, Shutdown
    PROVE  PipelineInv'
  <1>1. TypeOK'
    BY DEF Shutdown, Queued, Running, RemoveSpool, writerVars, Futures, Chunks, PipelineInv, TypeOK,
         Results, None
  <1>2. OwnRowsInOrder'
    BY DEF Shutdown, Queued, Running, RemoveSpool, writerVars, Futures, Chunks, PipelineInv,
         OwnRowsInOrder
  <1>3. PendingIsNext'
    BY DEF Shutdown, Queued, Running, RemoveSpool, writerVars, Futures, Chunks, PipelineInv,
         PendingIsNext, HeadInHand, Ahead, Taken
  <1>4. TurnsToCome'
    BY DEF Shutdown, Queued, Running, RemoveSpool, writerVars, Futures, Chunks, PipelineInv,
         TurnsToCome, Ahead
  <1>5. HeldIsAwaited'
    BY DEF Shutdown, Queued, Running, RemoveSpool, writerVars, Futures, Chunks, PipelineInv,
         HeldIsAwaited, Holds, Awaited, Live
  <1>6. FilesAreKept'
    BY DEF Shutdown, Queued, Running, RemoveSpool, writerVars, Futures, Chunks, PipelineInv,
         FilesAreKept, Ahead, Kept
  <1>7. SpoolWaits'
    BY DEF Shutdown, Queued, Running, RemoveSpool, writerVars, Futures, Chunks, PipelineInv,
         SpoolWaits
  <1> QED
    BY <1>1, <1>2, <1>3, <1>4, <1>5, <1>6, <1>7 DEF PipelineInv

LEMMA InterruptKeeps ==
    ASSUME PipelineInv, Interrupt
    PROVE  PipelineInv'
  <1>1. TypeOK'
    BY DEF Interrupt, fetchVars, writerVars, PipelineInv, TypeOK, Futures, Results, None, Chunks
  <1>2. OwnRowsInOrder'
    BY DEF Interrupt, fetchVars, writerVars, PipelineInv, OwnRowsInOrder
  <1>3. PendingIsNext'
    BY DEF Interrupt, fetchVars, writerVars, PipelineInv, PendingIsNext, HeadInHand, Futures, Ahead,
         Taken, Chunks
  <1>4. TurnsToCome'
    BY DEF Interrupt, fetchVars, writerVars, PipelineInv, TurnsToCome, Chunks, Ahead, Futures
  <1>5. HeldIsAwaited'
    BY DEF Interrupt, fetchVars, writerVars, PipelineInv, HeldIsAwaited, Futures, Holds, Awaited,
         Chunks, Live
  <1>6. FilesAreKept'
    BY DEF Interrupt, fetchVars, writerVars, PipelineInv, FilesAreKept, Ahead, Kept
  <1>7. SpoolWaits'
    BY DEF Interrupt, fetchVars, writerVars, PipelineInv, SpoolWaits, Queued, Running, Futures,
         Chunks
  <1> QED
    BY <1>1, <1>2, <1>3, <1>4, <1>5, <1>6, <1>7 DEF PipelineInv

LEMMA FailKeeps ==
    ASSUME PipelineInv, Fail
    PROVE  PipelineInv'
  <1>1. TypeOK'
    BY DEF Fail, Futures, Running, RangeOf, Previewed, RemoveSpool, writerVars, Chunks, PipelineInv,
         TypeOK, Results, None
  <1>2. OwnRowsInOrder'
    BY DEF Fail, Futures, Running, RangeOf, Previewed, RemoveSpool, writerVars, Chunks, PipelineInv,
         OwnRowsInOrder
  <1>3. PendingIsNext'
    BY DEF Fail, Futures, Running, RangeOf, Previewed, RemoveSpool, writerVars, Chunks, PipelineInv,
         PendingIsNext, HeadInHand, Ahead, Taken
  <1>4. TurnsToCome'
    BY CountsAssumption, PreviewAssumption DEF Fail, Futures, Running, RangeOf, Previewed,
         RemoveSpool, writerVars, Chunks, PipelineInv, TypeOK, Results, None, TurnsToCome, Ahead
  <1>5. HeldIsAwaited'
    BY DEF Fail, Futures, Running, RangeOf, Previewed, RemoveSpool, writerVars, Chunks, PipelineInv,
         HeldIsAwaited, Holds, Awaited, Live
  <1>6. FilesAreKept'
    BY DEF Fail, Futures, Running, RangeOf, Previewed, RemoveSpool, writerVars, Chunks, PipelineInv,
         FilesAreKept, Ahead, Kept
  <1>7. SpoolWaits'
    <2>1. Running' = Running /\ Queued' = {}
      BY DEF Fail, Running, Queued
    <2>2. Running \subseteq {head} \cup RangeOf(pending) \cup Previewed
      <3> SUFFICES ASSUME NEW f \in Futures, future[f] = "running", f[1] = "turn"
                   PROVE  f = head \/ f \in RangeOf(pending)
        BY DEF Running, Previewed, Futures
      <3> QED
        BY DEF Fail, PipelineInv, HeldIsAwaited, Holds, Live, Awaited, RangeOf
    <2> QED
      BY <2>1, <2>2 DEF Fail, RemoveSpool, PipelineInv, SpoolWaits
  <1> QED
    BY <1>1, <1>2, <1>3, <1>4, <1>5, <1>6, <1>7 DEF PipelineInv

LEMMA StartFetchKeeps ==
    ASSUME PipelineInv, StartFetch
    PROVE  PipelineInv'
  <1>1. TypeOK'
    BY DEF StartFetch, Running, Queued, Before, writerVars, Futures, Chunks, PipelineInv, TypeOK,
         Results, None
  <1>2. OwnRowsInOrder'
    BY DEF StartFetch, Running, Queued, Before, writerVars, Futures, Chunks, PipelineInv,
         OwnRowsInOrder
  <1>3. PendingIsNext'
    BY DEF StartFetch, Running, Queued, Before, writerVars, Futures, Chunks, PipelineInv,
         PendingIsNext, HeadInHand, Ahead, Taken
  <1>4. TurnsToCome'
    BY DEF StartFetch, Running, Queued, Before, writerVars, Futures, Chunks, PipelineInv,
         TurnsToCome, Ahead
  <1>5. HeldIsAwaited'
    BY DEF StartFetch, Running, Queued, Before, writerVars, Futures, Chunks, PipelineInv,
         HeldIsAwaited, Holds, Awaited, Live
  <1>6. FilesAreKept'
    BY DEF StartFetch, Running, Queued, Before, writerVars, Futures, Chunks, PipelineInv,
         FilesAreKept, Ahead, Kept
  <1>7. SpoolWaits'
    BY DEF StartFetch, Running, Queued, Before, writerVars, Futures, Chunks, PipelineInv, SpoolWaits
  <1> QED
    BY <1>1, <1>2, <1>3, <1>4, <1>5, <1>6, <1>7 DEF PipelineInv

LEMMA EndFetchKeeps ==
    ASSUME PipelineInv, NEW f \in Futures, NEW result \in Results, EndFetch(f, result)
    PROVE  PipelineInv'
  <1>1. TypeOK'
    BY DEF EndFetch, Running, RemoveSpool, writerVars, Futures, Chunks, PipelineInv, TypeOK,
         Results, None
  <1>2. OwnRowsInOrder'
    BY DEF EndFetch, Running, RemoveSpool, writerVars, Futures, Chunks, PipelineInv, OwnRowsInOrder
  <1>3. PendingIsNext'
    BY DEF EndFetch, Running, RemoveSpool, writerVars, Futures, Chunks, PipelineInv, PendingIsNext,
         HeadInHand, Ahead, Taken
  <1>4. TurnsToCome'
    <2>1. /\ f \in Futures /\ future[f] = "running" /\ (Ahead => waiting # {f})
          /\ \A e \in Futures : e # f => future'[e] = future[e]
          /\ Ahead => files \subseteq files'
      BY DEF EndFetch, Running, PipelineInv, TypeOK, SpoolWaits, Ahead
    <2>2. \A c \in Chunks : <<"turn", c>> \in Futures /\ <<"preview", c>> \in Futures
      BY DEF Futures
    <2>3. prefetched \subseteq Chunks
      BY PreviewAssumption DEF PipelineInv, TypeOK, Chunks
    <2>4. pc = "start" => FALSE
      BY DEF EndFetch, Running, PipelineInv, TurnsToCome
    <2> QED
      BY <2>1, <2>2, <2>3, <2>4 DEF EndFetch, writerVars, PipelineInv, TurnsToCome, Ahead
  <1>5. HeldIsAwaited'
    BY DEF EndFetch, Running, RemoveSpool, writerVars, Futures, Chunks, PipelineInv, HeldIsAwaited,
         Holds, Awaited, Live
  <1>6. FilesAreKept'
    <2>1. CASE Ahead
      <3>1. \A e \in Futures : Kept(e) => Kept(e)'
        BY <2>1 DEF EndFetch, Running, PipelineInv, TypeOK, SpoolWaits, Ahead, Kept
      <3> QED
        BY SMTT(20), <3>1, <2>1, PreviewAssumption DEF Chunks, EndFetch, writerVars, PipelineInv, TypeOK, FilesAreKept, PendingIsNext, HeadInHand, Ahead, Futures
    <2>2. CASE ~Ahead
      BY <2>2 DEF EndFetch, writerVars, FilesAreKept, Ahead
    <2> QED
      BY <2>1, <2>2
  <1>7. SpoolWaits'
    BY ZenonT(30) DEF EndFetch, Running, RemoveSpool, writerVars, Futures, Chunks, PipelineInv, TypeOK,
         Results, None, SpoolWaits, Queued
  <1> QED
    BY <1>1, <1>2, <1>3, <1>4, <1>5, <1>6, <1>7 DEF PipelineInv

LEMMA PipelineStep ==
    ASSUME PipelineInv, [Next]_vars
    PROVE  PipelineInv'
  <1>1. CASE UNCHANGED vars
    BY <1>1 DEF vars, fetchVars, writerVars, PipelineInv, TypeOK, OwnRowsInOrder, PendingIsNext, TurnsToCome,
         HeldIsAwaited, FilesAreKept, SpoolWaits, Ahead, HeadInHand, Taken, Live, Holds, Awaited, Kept, Queued, Running
  <1>2. CASE Work
    BY <1>2, BeginKeeps, LookKeeps, ShownKeeps, FillKeeps, CommitKeeps, CommitAgainKeeps, ShutdownKeeps, FailKeeps
       DEF Work
  <1>3. CASE Interrupt \/ StartFetch
    BY <1>3, InterruptKeeps, StartFetchKeeps
  <1>4. CASE \E f \in Futures : EndOf(f)
    BY <1>4, EndFetchKeeps DEF EndOf
  <1> QED
    BY <1>1, <1>2, <1>3, <1>4 DEF Next

-----------------------------------------------------------------------------
(* What follows from it.                                                     *)

\* The writer's own fetches have different chunks, all of them within a window of the rows.
LEMMA HeldFitTheWindow ==
    ASSUME PipelineInv
    PROVE  WindowHolds
  <1> DEFINE g == [i \in 1..Window |-> <<"turn", Len(out) + i>>]
             T == {g[i] : i \in 1..Window}
             S == {f \in Futures : f[1] = "turn" /\ (f \in files \/ future[f] \in {"queued", "running"})}
  <1>1. Window \in Nat /\ Len(out) \in Nat /\ submitted \in Nat /\ submitted <= Len(out) + Window
    BY CountsAssumption DEF PipelineInv, TypeOK, PendingIsNext
  <1>2. g \in Surjection(1..Window, T)
    BY DEF Surjection
  <1>3. IsFiniteSet(T) /\ Cardinality(T) <= Window
    BY <1>1, <1>2, FS_NatSurjection, FS_SurjCardinalityBound DEF ExistsSurjection
  <1>4. S \subseteq T
    <2> SUFFICES ASSUME NEW f \in S
                 PROVE  \E i \in 1..Window : f = <<"turn", Len(out) + i>>
      OBVIOUS
    <2> DEFINE c == f[2]
    <2>1. f = <<"turn", c>> /\ Holds(f) /\ f \in Futures
      BY DEF Holds, Live, Futures
    <2>2. c \in (Len(out) + 1)..submitted
      BY <2>1 DEF PipelineInv, HeldIsAwaited
    <2> HIDE DEF c
    <2>3. c - Len(out) \in 1..Window /\ Len(out) + (c - Len(out)) = c
      BY <2>2, <1>1
    <2> QED
      BY <2>1, <2>3
  <1>5. Cardinality(S) <= Cardinality(T) /\ Cardinality(S) \in Nat /\ Cardinality(T) \in Nat
    BY <1>3, <1>4, FS_Subset, FS_CardinalityType
  <1> QED
    BY <1>1, <1>3, <1>5 DEF WindowHolds

LEMMA InvSuffices ==
    ASSUME PipelineInv
    PROVE  OwnRowsInOrder /\ FetchesAwaitTheirTurn
  <1>1. FilesAwaitTheirTurn
    BY DEF PipelineInv, FilesAreKept, FilesAwaitTheirTurn, Ahead, Kept, RangeOf
  <1> QED
    BY <1>1, HeldFitTheWindow DEF PipelineInv, SpoolWaits, SpoolStaysRemoved, FetchesAwaitTheirTurn

\* _write_gzip_plans: in whatever order the fetches end, whichever of them the preview made, and
\* whatever fails, each name gets the rows of its own chunk or none, and no name is passed over.
THEOREM RowsStayInOrder == Spec => []OwnRowsInOrder
  <1>1. PipelineInv /\ [Next]_vars => PipelineInv'
    BY PipelineStep
  <1> QED
    BY <1>1, PipelineAtFirst, InvSuffices, PTL DEF Spec

\* The pool and the Spool: the writer's own fetches never hold more than the window, a fetched file
\* is there, undamaged, when its turn comes, and once the Spool is removed no fetch is running that
\* would make it again, and none is started.
THEOREM FetchesStayInTurn == Spec => []FetchesAwaitTheirTurn
  <1>1. PipelineInv /\ [Next]_vars => PipelineInv'
    BY PipelineStep
  <1> QED
    BY <1>1, PipelineAtFirst, InvSuffices, PTL DEF Spec
=============================================================================
