----------------------------- MODULE Telemetry ------------------------------
(***************************************************************************)
(* OtlpMetricEmitter (client/telemetry.py) of a process that does not      *)
(* fork.  Its callers add calls to an aggregate (record_operation) and     *)
(* events to a bounded queue (emit); one worker thread at a time exports   *)
(* both and ends when there is nothing left; close() flushes with a        *)
(* deadline.  A call is a model value, an aggregate the set of the calls   *)
(* it counts, an event one of Events.                                      *)
(***************************************************************************)
EXTENDS Naturals, FiniteSets, Sequences

CONSTANTS Calls,       \* the operations recorded
          Events,      \* the events emitted
          Workers,     \* bound: worker threads that run at a time
          QueueSize,   \* queue_size
          MaxFaults    \* bound: exports that fail or whose answer is lost

VARIABLES aggregate,   \* _metric_aggregates
          queue,       \* _queue; Stop for _STOP
          pending,     \* _pending
          worker,      \* _worker, or None
          exporting,   \* the thread that holds _export_lock, or None
          closed,      \* _closed
          released,    \* the session and the token provider are closed
          at,          \* [Actors -> where the thread is]
          idle,        \* the workers whose flush began with an idle timeout
          batch,       \* [Actors -> aggregates taken out and not settled]
          caller,      \* [Calls \cup Events -> a caller between its two steps]
          accepted,    \* [Calls -> times a collector counted the call]
          repeats,     \* calls of a batch whose answer was lost
          faults

tmVars == <<aggregate, queue, pending, worker, exporting, closed, released, at,
            idle, batch, caller, accepted, repeats, faults>>

None == "none"
Stop == "stop"
Closer == "closer"
Actors == Workers \cup {Closer}

TmTypeOK ==
    /\ aggregate \subseteq Calls
    /\ queue \in Seq(Events \cup {Stop}) /\ Len(queue) <= QueueSize
    /\ pending \in Nat
    /\ worker \in Workers \cup {None} /\ exporting \in Actors \cup {None}
    /\ closed \in BOOLEAN /\ released \in BOOLEAN
    /\ at \in [Actors -> {"none", "wait", "event", "took", "post", "ending", "last",
                          "flush", "check", "drain", "join", "done"}]
    /\ idle \subseteq Workers
    /\ batch \in [Actors -> SUBSET Calls]
    /\ caller \in [Calls \cup Events -> {"idle", "in", "wake", "done"}]
    /\ accepted \in [Calls -> Nat]
    /\ repeats \subseteq Calls

Init ==
    /\ aggregate = {} /\ queue = <<>> /\ pending = 0
    /\ worker = None /\ exporting = None
    /\ closed = FALSE /\ released = FALSE
    /\ at = [a \in Actors |-> "none"]
    /\ idle = {}
    /\ batch = [a \in Actors |-> {}]
    /\ caller = [c \in Calls \cup Events |-> "idle"]
    /\ accepted = [c \in Calls |-> 0]
    /\ repeats = {} /\ faults = 0

Alive(w) == w \in Workers /\ at[w] # "none"
Go(a, place) == at' = [at EXCEPT ![a] = place]

(* A caller found the emitter open. *)
Enter(c) ==
    /\ caller[c] = "idle" /\ ~closed
    /\ caller' = [caller EXCEPT ![c] = "in"]
    /\ UNCHANGED <<aggregate, queue, pending, worker, exporting, closed, released, at, idle,
                   batch, accepted, repeats, faults>>

(* record_operation: counted under the metric lock, the worker ensured     *)
(* after it.                                                               *)
Record(c) ==
    /\ c \in Calls /\ caller[c] = "in"
    /\ aggregate' = aggregate \cup {c}
    /\ caller' = [caller EXCEPT ![c] = "wake"]
    /\ UNCHANGED <<idle, queue, pending, worker, exporting, closed, released, at, batch,
                   accepted, repeats, faults>>

(* emit: a full queue drops the event. *)
Emit(e) ==
    /\ e \in Events /\ caller[e] = "in"
    /\ IF Len(queue) < QueueSize
       THEN /\ queue' = Append(queue, e) /\ pending' = pending + 1
            /\ caller' = [caller EXCEPT ![e] = "wake"]
       ELSE /\ caller' = [caller EXCEPT ![e] = "done"]
            /\ UNCHANGED <<idle, queue, pending>>
    /\ UNCHANGED <<idle, aggregate, worker, exporting, closed, released, at, batch, accepted,
                   repeats, faults>>

(* _ensure_worker, by any thread: a live worker is left to it. *)
NewWorker(place) ==
    \E w \in Workers :
        /\ place[w] = "none"
        /\ worker' = w
        /\ at' = [place EXCEPT ![w] = "wait"]

EnsureWorker(place) ==
    IF Alive(worker) THEN worker' = worker /\ at' = place ELSE NewWorker(place)

Wake(c) ==
    /\ caller[c] = "wake"
    /\ EnsureWorker(at)
    /\ caller' = [caller EXCEPT ![c] = "done"]
    /\ UNCHANGED <<idle, aggregate, queue, pending, exporting, closed, released, batch, accepted,
                   repeats, faults>>

(* _run: the worker takes an event off the queue, or the stop. *)
GetItem(w) ==
    /\ at[w] = "wait" /\ queue # <<>>
    /\ queue' = Tail(queue)
    /\ Go(w, IF Head(queue) = Stop THEN "ending" ELSE "event")
    /\ UNCHANGED <<idle, aggregate, pending, worker, exporting, closed, released, batch, caller,
                   accepted, repeats, faults>>

(* _emit_sync under the export lock; it swallows its failures.  The event  *)
(* is then accounted for, and a flush that waits is notified.              *)
ExportEvent(w) ==
    /\ at[w] = "event" /\ exporting = None
    /\ pending' = pending - 1
    /\ \/ Go(w, "wait")
       \/ Go(w, "flush")     \* the metrics are due
    /\ UNCHANGED <<idle, aggregate, queue, worker, exporting, closed, released, batch, caller,
                   accepted, repeats, faults>>

(* The idle timeout: the aggregates are exported, and the worker ends if   *)
(* none is left after that.                                                *)
IdleTimeout(w) ==
    /\ at[w] = "wait" /\ queue = <<>>
    /\ Go(w, "flush")
    /\ idle' = idle \cup {w}
    /\ UNCHANGED <<aggregate, queue, pending, worker, exporting, closed, released, batch,
                   caller, accepted, repeats, faults>>

CheckLeft(w) ==
    /\ at[w] = "check"
    /\ Go(w, IF aggregate = {} THEN "ending" ELSE "wait")
    /\ idle' = idle \ {w}
    /\ UNCHANGED <<aggregate, queue, pending, worker, exporting, closed, released, batch,
                   caller, accepted, repeats, faults>>

(* Where a flush leads; the closer goes on to wait for the events.         *)
AfterFlush(a) == IF a = Closer THEN "drain" ELSE IF a \in idle THEN "check" ELSE "wait"

(* _flush_metric_aggregates, by the worker or by close(): the aggregates   *)
(* are taken out under the metric lock...                                  *)
TakeAggregates(a) ==
    /\ at[a] = "flush"
    /\ batch' = [batch EXCEPT ![a] = aggregate]
    /\ aggregate' = {}
    /\ Go(a, IF aggregate = {} THEN AfterFlush(a) ELSE "took")
    /\ UNCHANGED <<idle, queue, pending, worker, exporting, closed, released, caller, accepted,
                   repeats, faults>>

(* ... posted under the export lock ...                                    *)
LockExport(a) ==
    /\ at[a] = "took" /\ exporting = None
    /\ exporting' = a
    /\ Go(a, "post")
    /\ UNCHANGED <<idle, aggregate, queue, pending, worker, closed, released, batch, caller,
                   accepted, repeats, faults>>

Accepted(a) == [c \in Calls |-> IF c \in batch[a] THEN accepted[c] + 1 ELSE accepted[c]]
Release(a) == exporting' = IF exporting = a THEN None ELSE exporting

ExportMetrics(a) ==
    /\ at[a] = "post"
    /\ accepted' = Accepted(a)
    /\ batch' = [batch EXCEPT ![a] = {}]
    /\ Release(a)
    /\ Go(a, AfterFlush(a))
    /\ UNCHANGED <<idle, aggregate, queue, pending, worker, closed, released, caller, repeats,
                   faults>>

(* Mutant: the batch takes the place of what was counted meanwhile. *)
MergeBackOver(a) == batch[a]

(* _merge_back_metric_aggregates. *)
MergeBack(a) == aggregate \cup batch[a]

(* ... and merged back when the export fails, the endpoint cools down, its *)
(* answer is lost, or close()'s deadline passes first.                     *)
ExportFails(a, delivered) ==
    /\ \/ at[a] = "post" /\ faults < MaxFaults /\ faults' = faults + 1
       \/ at[a] = "took" /\ a = Closer /\ ~delivered /\ UNCHANGED faults
    /\ IF delivered THEN accepted' = Accepted(a) /\ repeats' = repeats \cup batch[a]
       ELSE UNCHANGED <<accepted, repeats>>
    /\ aggregate' = MergeBack(a)
    /\ batch' = [batch EXCEPT ![a] = {}]
    /\ Release(a)
    /\ Go(a, AfterFlush(a))
    /\ UNCHANGED <<idle, queue, pending, worker, closed, released, caller>>

(* The end of _run: the worker gives up its place ...                      *)
GiveUpPlace(w) ==
    /\ at[w] = "ending"
    /\ worker' = IF worker = w THEN None ELSE worker
    /\ Go(w, "last")
    /\ UNCHANGED <<idle, aggregate, queue, pending, exporting, closed, released, batch, caller,
                   accepted, repeats, faults>>

(* Mutant: what came in while the worker was ending is left to the next    *)
(* caller.                                                                 *)
LastLookNever == FALSE

(* ... and looks once more for what a caller left to it while it was       *)
(* still alive.                                                            *)
LastLook == ~closed /\ (queue # <<>> \/ aggregate # {})

EndOfRun(w) ==
    /\ at[w] = "last"
    /\ IF LastLook THEN EnsureWorker([at EXCEPT ![w] = "none"])
       ELSE Go(w, "none") /\ UNCHANGED worker
    /\ UNCHANGED <<idle, aggregate, queue, pending, exporting, closed, released, batch, caller,
                   accepted, repeats, faults>>

(* close(): from here on nothing new is taken; it flushes. *)
Close ==
    /\ at[Closer] = "none"
    /\ closed' = TRUE
    /\ Go(Closer, "flush")
    /\ UNCHANGED <<idle, aggregate, queue, pending, worker, exporting, released, batch, caller,
                   accepted, repeats, faults>>

(* flush() waits for the events or for its deadline; close() then asks a   *)
(* live worker to stop, unless the queue is full, and joins it.            *)
Drained ==
    /\ at[Closer] = "drain"
    /\ queue' = IF Alive(worker) /\ Len(queue) < QueueSize THEN Append(queue, Stop)
                ELSE queue
    /\ Go(Closer, "join")
    /\ UNCHANGED <<idle, aggregate, pending, worker, exporting, closed, released, batch, caller,
                   accepted, repeats, faults>>

(* The join timed out, or the worker had ended. *)
NoneAlive == \A w \in Workers : ~Alive(w)

Joined ==
    /\ at[Closer] = "join"
    /\ released' = NoneAlive
    /\ Go(Closer, "done")
    /\ UNCHANGED <<idle, aggregate, queue, pending, worker, exporting, closed, batch, caller,
                   accepted, repeats, faults>>

Flush(a) ==
    \/ TakeAggregates(a) \/ LockExport(a) \/ ExportMetrics(a)
    \/ \E delivered \in BOOLEAN : ExportFails(a, delivered)
Work(w) ==
    \/ GetItem(w) \/ ExportEvent(w) \/ IdleTimeout(w) \/ CheckLeft(w) \/ Flush(w)
    \/ GiveUpPlace(w) \/ EndOfRun(w)
Next ==
    \/ \E c \in Calls \cup Events : Enter(c) \/ Wake(c)
    \/ \E c \in Calls : Record(c)
    \/ \E e \in Events : Emit(e)
    \/ \E w \in Workers : Work(w)
    \/ Close \/ Flush(Closer) \/ Drained \/ Joined

Spec == Init /\ [][Next]_tmVars

(* Threads that were started are scheduled, close() included; an           *)
(* application may never call it. *)
FairSpec ==
    /\ Spec
    /\ \A c \in Calls \cup Events : WF_tmVars(Wake(c))
    /\ \A w \in Workers : SF_tmVars(Work(w))
    /\ SF_tmVars(Flush(Closer)) /\ WF_tmVars(Drained) /\ WF_tmVars(Joined)

(* "Every call is counted" and "counts that are not exported are merged    *)
(* back": a recorded call is at any time in exactly one place, the         *)
(* aggregate, one batch or the collector's total, whatever flushes of the  *)
(* worker and of close() overlap; only an answer that was lost makes the   *)
(* collector count it again.                                               *)
Holders(c) ==
    Cardinality({a \in Actors : c \in batch[a]})
      + (IF c \in aggregate THEN 1 ELSE 0)
      + (IF accepted[c] > 0 /\ c \notin repeats THEN 1 ELSE 0)
CountedOnce ==
    /\ TmTypeOK
    /\ \A c \in Calls :
          caller[c] \in {"wake", "done"} =>
             IF c \in repeats THEN Holders(c) <= 1 ELSE Holders(c) = 1 /\ accepted[c] <= 1

(* The count flush() waits on is the events queued and in hand, so a flush *)
(* of a quiet emitter returns, and never before the last event.            *)
PendingIsExact ==
    pending = Cardinality({i \in 1 .. Len(queue) : queue[i] # Stop})
                + Cardinality({w \in Workers : at[w] = "event"})

=============================================================================
