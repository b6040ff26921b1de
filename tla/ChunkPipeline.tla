---------------------------- MODULE ChunkPipeline ----------------------------
(***************************************************************************)
(* How one download fetches its new chunks: a pool of workers GETs them into *)
(* a private temp directory (the Spool), up to a window ahead of the writer,  *)
(* which appends them in order.  A preview fetches some of them first, and    *)
(* its files are used again when their turn comes.  When anything fails the   *)
(* workers are cancelled, not awaited, and the Spool is removed once the      *)
(* fetches that were running have ended.                                      *)
(*                                                                          *)
(* Abstractions.  The new chunks of all sub-jobs, in the order they are       *)
(* written, are numbered from 1; the files they are written to are in         *)
(* ArtifactResume.  The retries inside a fetch are in ArtifactSessions: here  *)
(* a fetch ends in one of four ways.  No attempt is given up while its GET    *)
(* is on the wire (a transfer timeout, or the grace after a cancel).  The     *)
(* pool's queue is the set of fetches not yet started: they are submitted in  *)
(* the order Before, the preview's first, and so first in is first out.       *)
(***************************************************************************)
EXTENDS Integers, Sequences, FiniteSets

CONSTANTS
    Total,       \* the number of chunks to write
    Preview,     \* the chunks the preview fetches
    MaxWorkers,  \* max_workers
    Window       \* max_workers * _DOWNLOAD_WINDOW_PER_WORKER

ASSUME CountsAssumption ==
    Total \in Nat /\ MaxWorkers \in Nat \ {0} /\ Window \in Nat \ {0}
ASSUME PreviewAssumption == Preview \subseteq 1..Total

VARIABLES
    future,      \* the fetches: a chunk has one for its preview and one for its turn
    files,       \* those whose file is in the Spool
    pending,     \* those submitted ahead of the writer, in order
    head,        \* the one the writer waits for, None before the first
    submitted,   \* how many chunks have had their turn's fetch
    looked,      \* the preview's chunks that were read, or could not be
    prefetched,  \* those of them whose file is used again
    out,         \* the chunks accounted for: a name, and the chunk its rows came from
    pc, strict,  \* the downloading thread
    spool,       \* "present", then "removed"
    waiting      \* remove_after: the fetches the removal waits for

fetchVars == <<future, files>>
writerVars == <<pending, head, submitted, looked, prefetched, out>>
vars == <<fetchVars, writerVars, pc, strict, spool, waiting>>

Chunks == 1..Total
Futures == {"preview", "turn"} \X Chunks
Results == {"fetched", "damaged", "gone", "failed"}
None == <<"none", 0>>
Running == {f \in Futures : future[f] = "running"}
Queued == {f \in Futures : future[f] = "queued"}
Done(f) == future[f] \in Results \cup {"cancelled"}
Previewed == {f \in Futures : f[1] = "preview" /\ future[f] # "none"}
RangeOf(s) == {s[i] : i \in 1..Len(s)}

Init ==
    /\ future = [f \in Futures |-> "none"]
    /\ files = {}
    /\ pending = <<>> /\ head = None
    /\ submitted = 0
    /\ looked = {} /\ prefetched = {}
    /\ out = <<>>
    /\ pc = "start" /\ strict \in BOOLEAN
    /\ spool = "present" /\ waiting = {}

-----------------------------------------------------------------------------
(* The pool.                                                                *)

Submit(fs) == future' = [f \in Futures |-> IF f \in fs THEN "queued" ELSE future[f]]

\* The order in which fetches are submitted.
Before(f, g) == IF f[1] = g[1] THEN f[2] < g[2] ELSE f[1] = "preview"

StartFetch ==
    /\ Cardinality(Running) < MaxWorkers
    /\ \E f \in Queued :
        /\ \A g \in Queued \ {f} : Before(f, g)
        /\ future' = [future EXCEPT ![f] = "running"]
    /\ UNCHANGED <<files, writerVars, pc, strict, spool, waiting>>

RemoveSpool == spool' = "removed" /\ files' = {}

\* Mutant: a fetch that ends does not count down the ones the removal waits for.
EndFetchSilently(f, result) ==
    /\ f \in Running
    /\ future' = [future EXCEPT ![f] = result]
    /\ files' = IF result \in {"fetched", "damaged"} THEN files \cup {f} ELSE files
    /\ UNCHANGED <<writerVars, pc, strict, spool, waiting>>

\* A fetch ends, and with the last one it waits for the Spool is removed.
EndFetch(f, result) ==
    /\ f \in Running
    /\ future' = [future EXCEPT ![f] = result]
    /\ waiting' = waiting \ {f}
    /\ IF waiting = {f} THEN RemoveSpool
       ELSE /\ files' = IF result \in {"fetched", "damaged"} THEN files \cup {f} ELSE files
            /\ UNCHANGED spool
    /\ UNCHANGED <<writerVars, pc, strict>>

-----------------------------------------------------------------------------
(* The preview (_write_preview).                                            *)

Begin ==
    /\ pc = "start"
    /\ Submit({"preview"} \X Preview)
    /\ pc' = IF Preview = {} THEN "fill" ELSE "preview"
    /\ UNCHANGED <<files, writerVars, strict, spool, waiting>>

\* Mutant: a file that would not decompress is used again.
LookKeepsDamaged ==
    /\ pc = "preview"
    /\ \E c \in Preview \ looked :
        LET f == <<"preview", c>>
        IN  /\ \A d \in Preview \ looked : c <= d
            /\ Done(f)
            /\ looked' = looked \cup {c}
            /\ prefetched' = IF future[f] \in {"fetched", "damaged"} THEN prefetched \cup {c} ELSE prefetched
            /\ files' = IF future[f] = "damaged" THEN files \ {f} ELSE files
    /\ UNCHANGED <<future, pending, head, submitted, out, pc, strict, spool, waiting>>

\* The next of the preview's fetches has ended: one that can be read is kept.
Look ==
    /\ pc = "preview"
    /\ \E c \in Preview \ looked :
        LET f == <<"preview", c>>
        IN  /\ \A d \in Preview \ looked : c <= d
            /\ Done(f)
            /\ looked' = looked \cup {c}
            /\ prefetched' = IF future[f] = "fetched" THEN prefetched \cup {c} ELSE prefetched
            /\ files' = IF future[f] = "damaged" THEN files \ {f} ELSE files
    /\ UNCHANGED <<future, pending, head, submitted, out, pc, strict, spool, waiting>>

\* All were looked at, or there is no room for the preview: on with the download.
Shown ==
    /\ pc = "preview"
    /\ pc' = "fill"
    /\ UNCHANGED <<fetchVars, writerVars, strict, spool, waiting>>

-----------------------------------------------------------------------------
(* The writer (_write_gzip_plans, _commit_chunk).                           *)

Turn(c) == IF c \in prefetched THEN <<"preview", c>> ELSE <<"turn", c>>

\* Mutant: only a fetch that is submitted moves on to the next chunk.
FillCountsSubmitted ==
    /\ pc = "fill" /\ Len(out) < Total
    /\ LET room == Window - Len(pending)
           last == IF submitted + room < Total THEN submitted + room ELSE Total
           turns == [i \in 1..(last - submitted) |-> Turn(submitted + i)]
           fetches == RangeOf(turns) \cap ({"turn"} \X Chunks)
       IN  /\ Submit(fetches)
           /\ head' = Head(pending \o turns)
           /\ pending' = Tail(pending \o turns)
           /\ submitted' = submitted + Cardinality(fetches)
           /\ prefetched' = prefetched \ ((submitted + 1)..last)
    /\ pc' = "commit"
    /\ UNCHANGED <<files, looked, out, strict, spool, waiting>>

\* The window is filled, and the fetch of the chunk to write next is taken.
Fill ==
    /\ pc = "fill" /\ Len(out) < Total
    /\ LET room == Window - Len(pending)
           last == IF submitted + room < Total THEN submitted + room ELSE Total
           turns == [i \in 1..(last - submitted) |-> Turn(submitted + i)]
       IN  /\ Submit(RangeOf(turns) \cap ({"turn"} \X Chunks))
           /\ head' = Head(pending \o turns)
           /\ pending' = Tail(pending \o turns)
           /\ submitted' = last
           /\ prefetched' = prefetched \ ((submitted + 1)..last)
    /\ pc' = "commit"
    /\ UNCHANGED <<files, looked, out, strict, spool, waiting>>

Account(data) == out' = Append(out, <<Len(out) + 1, data>>)

\* The fetch it waits for has ended.
Commit ==
    /\ pc = "commit" /\ Done(head)
    /\ \/ future[head] = "fetched" /\ pc' = "fill" /\ Account(head[2])
       \/ /\ future[head] = "damaged"
          /\ pc' = IF strict THEN "failing" ELSE "again"
          /\ UNCHANGED out
       \/ future[head] = "gone" /\ ~strict /\ pc' = "fill" /\ Account(0)
       \/ /\ future[head] = "failed" \/ (future[head] = "gone" /\ strict)
          /\ pc' = "failing"
          /\ UNCHANGED out
    /\ files' = files \ {head}
    /\ UNCHANGED <<future, pending, head, submitted, looked, prefetched,
                   strict, spool, waiting>>

\* A damaged chunk is fetched once more, on this thread.
CommitAgain(result) ==
    /\ pc = "again"
    /\ \/ result = "fetched" /\ pc' = "fill" /\ Account(Len(out) + 1)
       \/ result \in {"damaged", "gone"} /\ pc' = "fill" /\ Account(0)
       \/ result = "failed" /\ pc' = "failing" /\ UNCHANGED out
    /\ UNCHANGED <<fetchVars, pending, head, submitted, looked, prefetched,
                   strict, spool, waiting>>

\* pool.shutdown(wait=True), and nothing is left in the Spool.
Shutdown ==
    /\ pc = "fill" /\ Len(out) = Total
    /\ Queued = {} /\ Running = {}
    /\ pc' = "ended"
    /\ RemoveSpool
    /\ UNCHANGED <<future, writerVars, strict, waiting>>

\* A callback, the file system or the user ends the download.
Interrupt ==
    /\ pc \notin {"failing", "ended"}
    /\ pc' = "failing"
    /\ UNCHANGED <<fetchVars, writerVars, strict, spool, waiting>>

\* cancel.set(), what the pool has not started is cancelled, and remove_after.
Fail ==
    /\ pc = "failing"
    /\ future' = [f \in Futures |-> IF future[f] = "queued" THEN "cancelled" ELSE future[f]]
    /\ waiting' = Running \cap ({head} \cup RangeOf(pending) \cup Previewed)
    /\ IF waiting' = {} THEN RemoveSpool ELSE UNCHANGED <<spool, files>>
    /\ pc' = "ended"
    /\ UNCHANGED <<writerVars, strict>>

Work ==
    \/ Begin \/ Look \/ Shown \/ Fill \/ Commit \/ Shutdown \/ Fail
    \/ \E result \in Results : CommitAgain(result)

EndOf(f) == \E result \in Results : EndFetch(f, result)

Next == Work \/ Interrupt \/ StartFetch \/ \E f \in Futures : EndOf(f)

Spec == Init /\ [][Next]_vars

\* The downloading thread goes on, the pool starts what it has room for, and every
\* fetch ends (run_bounded, RetryPolicy).
FairSpec ==
    /\ Spec
    /\ WF_vars(Work) /\ WF_vars(StartFetch)
    /\ \A f \in Futures : WF_vars(EndOf(f))

-----------------------------------------------------------------------------
(* What should be true.                                                     *)

\* The type of every variable: what is written is a chunk of the listing, with the rows
\* of a chunk or none, and a fetch for the preview is of a chunk it looked at.
TypeOK ==
    /\ future \in [Futures -> {"none", "queued", "running", "cancelled"} \cup Results]
    /\ pending \in Seq(Futures)
    /\ files \subseteq Futures /\ waiting \subseteq Futures
    /\ head \in Futures \cup {None}
    /\ submitted \in 0..Total
    /\ looked \subseteq Preview /\ prefetched \subseteq looked
    /\ out \in Seq(Chunks \X (Chunks \cup {0}))
    /\ pc \in {"start", "preview", "fill", "commit", "again", "failing", "ended"}
    /\ strict \in BOOLEAN /\ spool \in {"present", "removed"}

\* _write_gzip_plans: "append them in plan order".  In whatever order the fetches
\* end, and whichever were made for the preview, the next name in order gets the
\* rows of its own chunk, or none.
OwnRowsInOrder ==
    \A i \in 1..Len(out) : out[i][1] = i /\ out[i][2] \in {0, i}

\* Spool: "removing the directory under them would let the transfer recreate and
\* fill it".  Once it is removed no fetch is running, and none is started.
SpoolStaysRemoved ==
    spool = "removed" => Running = {} /\ Queued = {} /\ files = {}

\* A fetch the writer is about to read still has its file, also when the preview
\* read it first; only a damaged one was thrown away, and that one is not used again.
FilesAwaitTheirTurn ==
    pc \in {"fill", "commit"} =>
        \A f \in RangeOf(pending) \cup (IF pc = "commit" THEN {head} ELSE {}) :
            future[f] \in {"fetched", "damaged"} => f \in files

\* "Fetched chunks waiting to be appended are capped": the writer's own fetches,
\* beside those of the preview, never fill more than the window.
WindowHolds ==
    Cardinality({f \in Futures : f[1] = "turn" /\ (f \in files \/ future[f] \in {"queued", "running"})})
        <= Window

\* Every variable has its type, the writer's own fetches stay within their window, the fetched
\* file whose turn it is is still there, undamaged, and once removed the Spool is not made again
\* by a fetch that ends late.
FetchesAwaitTheirTurn == TypeOK /\ WindowHolds /\ FilesAwaitTheirTurn /\ SpoolStaysRemoved
=============================================================================
