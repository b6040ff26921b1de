-------------------------- MODULE ArtifactSessions --------------------------
(***************************************************************************)
(* The Snowflake sessions that artifact downloads run their LISTs and GETs  *)
(* on: each download's SharedConnection, used by all its threads and        *)
(* replaced when it fails, the attempts call_with_retry makes on it, and    *)
(* the KeptSessions pool that hands a session from one download to the      *)
(* next under one key.                                                      *)
(*                                                                          *)
(* Abstractions.  A session is a number, used again once it is closed and   *)
(* nobody refers to it.  Time and the service are left out: an attempt may  *)
(* time out or fail, in each way classify_artifact_error tells apart,       *)
(* whenever it runs, a login may fail, and a kept session may be found idle *)
(* for too long, or closed, whenever the pool is looked at.                 *)
(***************************************************************************)
EXTENDS Integers, Sequences, FiniteSets

CONSTANTS
    Sessions,      \* session numbers
    Downloads,     \* downloads that may run at once under the same key
    Threads,       \* the threads of one download that make attempts
    Checks,        \* those of them the download does not wait for: the stall check
    PerKey,        \* KeptSessions.PER_KEY
    Attempts,      \* RetryPolicy.attempts
    MaxGeneration  \* bound: a download whose session was replaced so often cannot log in

ASSUME SessionsAssumption == Sessions \subseteq Nat \ {0} /\ IsFiniteSet(Sessions)
ASSUME ChecksAssumption == Checks \subseteq Threads
ASSUME CountsAssumption ==
    PerKey \in Nat \ {0} /\ Attempts \in Nat \ {0} /\ MaxGeneration \in Nat

VARIABLES
    open,        \* the sessions that are logged in and not closed
    kept,        \* the pool under the key, newest last
    poolClosed,  \* KeptSessions._closed
    warming,     \* warm_artifact_session found no session and is logging one in
    dpc,         \* a download: idle, running, or giving its session back
    conn,        \* SharedConnection._connection
    generation,  \* SharedConnection._generation
    suspect,     \* SharedConnection._stale_suspect, -1 for None
    replaced,    \* SharedConnection._replaced
    doubtful,    \* _abandoned, or an attempt has timed out
    wpc,         \* a thread's call_with_retry
    on, onGen,   \* the session and the generation its attempt runs on
    tries,       \* the number of the attempt
    lost,        \* how the last attempt failed
    orphans      \* sessions with an operation running that nobody waits for

poolVars == <<kept, poolClosed, warming>>
sharedVars == <<conn, generation, suspect, replaced, doubtful>>
threadVars == <<wpc, on, onGen, tries, lost>>
vars == <<open, poolVars, dpc, sharedVars, threadVars, orphans>>

None == 0
NotSuspect == -1
Workers == Downloads \X Threads
Of(d) == {w \in Workers : w[1] = d}
Awaited(d) == {w \in Of(d) : w[2] \notin Checks}
RangeOf(s) == {s[i] : i \in 1..Len(s)}

Init ==
    /\ open = {}
    /\ kept = <<>> /\ poolClosed = FALSE /\ warming = FALSE
    /\ dpc = [d \in Downloads |-> "idle"]
    /\ conn = [d \in Downloads |-> None]
    /\ generation = [d \in Downloads |-> 0]
    /\ suspect = [d \in Downloads |-> NotSuspect]
    /\ replaced = [d \in Downloads |-> {}]
    /\ doubtful = [d \in Downloads |-> FALSE]
    /\ wpc = [w \in Workers |-> "ready"]
    /\ on = [w \in Workers |-> None]
    /\ onGen = [w \in Workers |-> 0]
    /\ tries = [w \in Workers |-> 1]
    /\ lost = [w \in Workers |-> "none"]
    /\ orphans = {}

-----------------------------------------------------------------------------
(* Sessions.                                                                *)

Unused ==
    Sessions \ (open \cup orphans \cup {conn[d] : d \in Downloads}
                \cup {on[w] : w \in Workers} \cup UNION {replaced[d] : d \in Downloads})

\* A login gives a session with a number of its own.
NewSession == CHOOSE c \in Unused : TRUE

\* Sessions are closed and logged in.  What is still running on a session that is
\* closed fails, and is forgotten.
Change(closed, opened) ==
    /\ open' = (open \ closed) \cup opened
    /\ orphans' = orphans \ closed

\* An operation that was left running comes to its end.
OrphanEnds(c) ==
    /\ c \in orphans
    /\ orphans' = orphans \ {c}
    /\ UNCHANGED <<open, poolVars, dpc, sharedVars, threadVars>>

-----------------------------------------------------------------------------
(* The pool.  Whenever it is looked at, _drop_stale closes the sessions kept *)
(* longest that have been idle for too long: the first n.                   *)

Fresh(n) == SubSeq(kept, n + 1, Len(kept))
Idle(n) == RangeOf(SubSeq(kept, 1, n))

Started(d, c, s) ==
    /\ dpc' = [dpc EXCEPT ![d] = "running"]
    /\ conn' = [conn EXCEPT ![d] = c]
    /\ suspect' = [suspect EXCEPT ![d] = s]

\* KeptSessions.take: the newest that is not reported closed, the m-th.
StartKept(d, n, m) ==
    /\ dpc[d] = "idle" /\ n < m
    /\ Started(d, kept[m], 0)
    /\ kept' = SubSeq(kept, n + 1, m - 1)
    /\ Change(RangeOf(kept) \ RangeOf(SubSeq(kept, n + 1, m)), {})
    /\ UNCHANGED <<poolClosed, warming, generation, replaced, doubtful, threadVars>>

\* There is none, or none is left: the download logs in.
StartFresh(d) ==
    /\ dpc[d] = "idle"
    /\ Unused # {}
    /\ Started(d, NewSession, NotSuspect)
    /\ kept' = <<>>
    /\ Change(RangeOf(kept), {NewSession})
    /\ UNCHANGED <<poolClosed, warming, generation, replaced, doubtful, threadVars>>

Room(n) == ~poolClosed /\ Len(kept) - n < PerKey

\* KeptSessions.keep: one there is no room for is closed.
Give(c, n) ==
    /\ kept' = IF Room(n) THEN Append(Fresh(n), c) ELSE Fresh(n)
    /\ IF Room(n) THEN Change(Idle(n), {c}) ELSE Change(Idle(n) \cup {c}, {})

\* KeptSessions.close, by the client's close().
ClosePool ==
    /\ ~poolClosed
    /\ poolClosed' = TRUE
    /\ kept' = <<>>
    /\ Change(RangeOf(kept), {})
    /\ UNCHANGED <<warming, dpc, sharedVars, threadVars>>

\* warm_artifact_session: no kept session that would do, so log one in.
WarmCheck ==
    /\ ~warming /\ ~poolClosed
    /\ warming' = TRUE
    /\ UNCHANGED <<open, orphans, kept, poolClosed, dpc, sharedVars, threadVars>>

WarmKeep(n) ==
    /\ warming
    /\ warming' = FALSE
    /\ \/ Unused # {} /\ Give(NewSession, n)
       \/ UNCHANGED <<open, orphans, kept>>           \* the login failed
    /\ UNCHANGED <<poolClosed, dpc, sharedVars, threadVars>>

-----------------------------------------------------------------------------
(* A thread's attempts (call_with_retry, run_bounded).                      *)

\* current(): the attempt runs on the session of this generation.
Attempt(w) ==
    /\ dpc[w[1]] = "running"
    /\ wpc[w] \in {"ready", "again"}
    /\ wpc' = [wpc EXCEPT ![w] = "running"]
    /\ on' = [on EXCEPT ![w] = conn[w[1]]]
    /\ onGen' = [onGen EXCEPT ![w] = generation[w[1]]]
    /\ UNCHANGED <<open, poolVars, dpc, sharedVars, tries, lost, orphans>>

\* The attempt returned: note_attempt_success.
Succeed(w) ==
    /\ wpc[w] = "running" /\ on[w] \in open
    /\ wpc' = [wpc EXCEPT ![w] = "ready"]
    /\ on' = [on EXCEPT ![w] = None]
    /\ onGen' = [onGen EXCEPT ![w] = 0]
    /\ tries' = [tries EXCEPT ![w] = 1]
    /\ suspect' = [suspect EXCEPT ![w[1]] = IF @ = onGen[w] THEN NotSuspect ELSE @]
    /\ UNCHANGED <<open, poolVars, dpc, conn, generation, replaced, doubtful, lost, orphans>>

\* It raised, or ran past transfer_timeout and is left running.
Lose(w, how) ==
    /\ wpc[w] = "running"
    /\ wpc' = [wpc EXCEPT ![w] = "lost"]
    /\ on' = [on EXCEPT ![w] = None]
    /\ lost' = [lost EXCEPT ![w] = how]
    /\ orphans' = IF how = "timeout" THEN orphans \cup {on[w]} ELSE orphans
    /\ doubtful' = [doubtful EXCEPT ![w[1]] = @ \/ how = "timeout"]
    /\ UNCHANGED <<open, poolVars, dpc, conn, generation, suspect, replaced,
                   onGen, tries>>

\* The replaced connection is kept until the download ends, and the login is new.
Replaced(d) ==
    /\ replaced' = [replaced EXCEPT ![d] = @ \cup {conn[d]}]
    /\ conn' = [conn EXCEPT ![d] = NewSession]
    /\ generation' = [generation EXCEPT ![d] = @ + 1]
    /\ open' = open \cup {NewSession}

CanLogIn(d) == Unused # {} /\ generation[d] < MaxGeneration

\* The next attempt may begin; or the call has failed.
Goto(w, label) ==
    /\ wpc' = [wpc EXCEPT ![w] = label]
    /\ lost' = [lost EXCEPT ![w] = "none"]
    /\ onGen' = [onGen EXCEPT ![w] = 0]
Again(w) == Goto(w, "again")

BackOff(w) ==
    IF lost[w] = "permanent" \/ tries[w] >= Attempts THEN Goto(w, "failed")
    ELSE wpc' = [wpc EXCEPT ![w] = "backoff"] /\ UNCHANGED <<lost, onGen>>

\* Mutant: a fresh login that fails does not end the free retries.
SuspectForEver(w) ==
    LET d == w[1]
    IN  /\ wpc[w] = "lost"
        /\ \/ /\ lost[w] = "permanent" \/ onGen[w] # suspect[d]
              /\ BackOff(w)
              /\ UNCHANGED <<open, sharedVars>>
           \/ /\ lost[w] # "permanent" /\ onGen[w] = suspect[d]
              /\ onGen[w] = generation[d] /\ CanLogIn(d)
              /\ Replaced(d)
              /\ Again(w)
              /\ UNCHANGED <<suspect, doubtful>>
           \/ /\ lost[w] # "permanent" /\ onGen[w] = suspect[d]
              /\ Again(w)
              /\ UNCHANGED <<open, sharedVars>>
        /\ UNCHANGED <<poolVars, dpc, on, tries, orphans>>

\* replace_stale_kept: a kept session nothing has succeeded on is replaced, once,
\* and what failed on it runs again at once.
ReplaceStaleKept(w) ==
    LET d == w[1]
    IN  /\ wpc[w] = "lost"
        /\ \/ /\ lost[w] = "permanent" \/ onGen[w] # suspect[d]
              /\ BackOff(w)
              /\ UNCHANGED <<open, sharedVars>>
           \/ /\ lost[w] # "permanent" /\ onGen[w] = suspect[d]
              /\ onGen[w] # generation[d]
              /\ Again(w)
              /\ UNCHANGED <<open, sharedVars>>
           \/ /\ lost[w] # "permanent" /\ onGen[w] = suspect[d]
              /\ onGen[w] = generation[d]
              /\ \/ /\ CanLogIn(d)
                    /\ Replaced(d)
                    /\ Again(w)
                    /\ UNCHANGED <<suspect, doubtful>>
                 \/ /\ suspect' = [suspect EXCEPT ![d] = NotSuspect]
                    /\ BackOff(w)
                    /\ UNCHANGED <<open, conn, generation, replaced, doubtful>>
        /\ UNCHANGED <<poolVars, dpc, on, tries, orphans>>

\* Mutant: the connection that is replaced is closed at once.
ReopenCloses(w) ==
    LET d == w[1]
    IN  /\ wpc[w] = "backoff"
        /\ tries' = [tries EXCEPT ![w] = @ + 1]
        /\ lost[w] = "reconnect" /\ onGen[w] = generation[d]
        /\ CanLogIn(d)
        /\ conn' = [conn EXCEPT ![d] = NewSession]
        /\ generation' = [generation EXCEPT ![d] = @ + 1]
        /\ open' = (open \ {conn[d]}) \cup {NewSession}
        /\ Again(w)
        /\ UNCHANGED <<poolVars, dpc, suspect, replaced, doubtful, on, orphans>>

\* After the pause: reopen() when the session is lost, unless another thread has.
Reopen(w) ==
    LET d == w[1]
    IN  /\ wpc[w] = "backoff"
        /\ tries' = [tries EXCEPT ![w] = @ + 1]
        /\ \/ /\ lost[w] # "reconnect" \/ onGen[w] # generation[d]
              /\ Again(w)
              /\ UNCHANGED <<open, conn, generation, replaced>>
           \/ /\ lost[w] = "reconnect" /\ onGen[w] = generation[d]
              /\ CanLogIn(d)
              /\ Replaced(d)
              /\ Again(w)
           \/ /\ lost[w] = "reconnect" /\ onGen[w] = generation[d]
              /\ \E label \in {"failed", "again"} :
                    /\ tries'[w] >= Attempts => label = "failed"
                    /\ Goto(w, label)
              /\ UNCHANGED <<open, conn, generation, replaced>>
        /\ UNCHANGED <<poolVars, dpc, suspect, doubtful, on, orphans>>

\* A stall check that fails while its other LIST is still running: abandon().
Abandon(w) ==
    /\ w[2] \in Checks /\ wpc[w] = "failed" /\ dpc[w[1]] = "running"
    /\ ~doubtful[w[1]]
    /\ doubtful' = [doubtful EXCEPT ![w[1]] = TRUE]
    /\ orphans' = orphans \cup {conn[w[1]]}
    /\ UNCHANGED <<open, poolVars, dpc, conn, generation, suspect, replaced, threadVars>>

-----------------------------------------------------------------------------
(* The end of a download: SharedConnection.close(keep=succeeded).           *)

Succeeded(d) == \A w \in Awaited(d) : wpc[w] = "ready"

\* What a thread is still running is left running; its next call would raise
\* SessionClosed.
Ended(d) ==
    /\ generation' = [generation EXCEPT ![d] = 0]
    /\ suspect' = [suspect EXCEPT ![d] = NotSuspect]
    /\ doubtful' = [doubtful EXCEPT ![d] = FALSE]
    /\ wpc' = [w \in Workers |-> IF w \in Of(d) THEN "ready" ELSE wpc[w]]
    /\ on' = [w \in Workers |-> IF w \in Of(d) THEN None ELSE on[w]]
    /\ onGen' = [w \in Workers |-> IF w \in Of(d) THEN 0 ELSE onGen[w]]
    /\ tries' = [w \in Workers |-> IF w \in Of(d) THEN 1 ELSE tries[w]]
    /\ lost' = [w \in Workers |-> IF w \in Of(d) THEN "none" ELSE lost[w]]

\* Mutant: the session is kept although an attempt on it was abandoned.
FinishKeeps(d, keep) ==
    /\ dpc[d] = "running"
    /\ keep => Succeeded(d)
    /\ dpc' = [dpc EXCEPT ![d] = IF keep THEN "keep" ELSE "idle"]
    /\ conn' = [conn EXCEPT ![d] = IF keep THEN @ ELSE None]
    /\ replaced' = [replaced EXCEPT ![d] = {}]
    /\ LET closed == replaced[d] \cup (IF keep THEN {} ELSE {conn[d]})
       IN  /\ open' = open \ closed
           /\ orphans' = (orphans \cup ({on[w] : w \in Of(d)} \ {None})) \ closed
    /\ Ended(d)
    /\ UNCHANGED poolVars

Finish(d, keep) ==
    /\ dpc[d] = "running"
    /\ keep => Succeeded(d) /\ ~doubtful[d]
    /\ dpc' = [dpc EXCEPT ![d] = IF keep THEN "keep" ELSE "idle"]
    /\ conn' = [conn EXCEPT ![d] = IF keep THEN @ ELSE None]
    /\ replaced' = [replaced EXCEPT ![d] = {}]
    /\ LET closed == replaced[d] \cup (IF keep THEN {} ELSE {conn[d]})
       IN  /\ open' = open \ closed
           /\ orphans' = (orphans \cup ({on[w] : w \in Of(d)} \ {None})) \ closed
    /\ Ended(d)
    /\ UNCHANGED poolVars

Keep(d, n) ==
    /\ dpc[d] = "keep"
    /\ Give(conn[d], n)
    /\ dpc' = [dpc EXCEPT ![d] = "idle"]
    /\ conn' = [conn EXCEPT ![d] = None]
    /\ UNCHANGED <<poolClosed, warming, generation, suspect, replaced, doubtful, threadVars>>

CallStep(w) ==
    \/ wpc[w] = "again" /\ Attempt(w)
    \/ Succeed(w)
    \/ \E how \in {"retry", "reconnect", "permanent", "timeout"} : Lose(w, how)
    \/ ReplaceStaleKept(w)
    \/ Reopen(w)

Next ==
    \/ \E c \in Sessions : OrphanEnds(c)
    \/ \E d \in Downloads, n \in 0..Len(kept) : Keep(d, n)
    \/ \E d \in Downloads : StartFresh(d)
    \/ \E d \in Downloads, n, m \in 0..Len(kept) : StartKept(d, n, m)
    \/ \E d \in Downloads, keep \in BOOLEAN : Finish(d, keep)
    \/ \E w \in Workers : wpc[w] = "ready" /\ Attempt(w)
    \/ \E w \in Workers : CallStep(w) \/ Abandon(w)
    \/ ClosePool \/ WarmCheck
    \/ \E n \in 0..Len(kept) : WarmKeep(n)

Spec == Init /\ [][Next]_vars

\* Every attempt comes to an end (run_bounded), and so does every pause.
FairSpec == Spec /\ \A w \in Workers : WF_vars(CallStep(w))

-----------------------------------------------------------------------------
(* What should be true.                                                     *)

Owned(d) == ({conn[d]} \ {None}) \cup replaced[d]

\* The type of every variable: with it, that no pool ever holds more idle sessions
\* than its limit, and no attempt outlasts its retries.
TypeOK ==
    /\ open \subseteq Sessions /\ orphans \subseteq open
    /\ kept \in Seq(Sessions) /\ Len(kept) <= PerKey
    /\ poolClosed \in BOOLEAN /\ warming \in BOOLEAN
    /\ dpc \in [Downloads -> {"idle", "running", "keep"}]
    /\ conn \in [Downloads -> Sessions \cup {None}]
    /\ generation \in [Downloads -> 0..MaxGeneration]
    /\ suspect \in [Downloads -> {NotSuspect, 0}]
    /\ replaced \in [Downloads -> SUBSET Sessions]
    /\ doubtful \in [Downloads -> BOOLEAN]
    /\ wpc \in [Workers -> {"ready", "running", "lost", "backoff", "again", "failed"}]
    /\ on \in [Workers -> Sessions \cup {None}]
    /\ onGen \in [Workers -> 0..MaxGeneration]
    /\ tries \in [Workers -> 1..Attempts]
    /\ lost \in [Workers -> {"none", "retry", "reconnect", "permanent", "timeout"}]

\* KeptSessions.take: "which the caller then owns".  A session belongs to one
\* download or to the pool, once, and nothing else.
OneOwner ==
    /\ \A d, e \in Downloads : d # e => Owned(d) \cap Owned(e) = {}
    /\ \A d \in Downloads : Owned(d) \cap RangeOf(kept) = {} /\ conn[d] \notin replaced[d]
    /\ \A i, j \in 1..Len(kept) : i # j => kept[i] # kept[j]

\* A session is open exactly while someone owns it: none is closed under a
\* download that owns it or while it is kept, and none is left open that nobody
\* will close, after the pool's close() either.
OpenWhileOwned ==
    /\ open = (UNION {Owned(d) : d \in Downloads}) \cup RangeOf(kept)
    /\ poolClosed => kept = <<>>

\* SharedConnection: a replaced connection is closed only when the download
\* ends, because other threads may still be using it.
AttemptsRunOpen == \A w \in Workers : wpc[w] = "running" => on[w] \in open

\* SharedConnection.close: a session is kept for the next download "unless an
\* attempt on it was abandoned: it may still be running on it".
KeptIsQuiet == RangeOf(kept) \cap orphans = {}

\* Every variable has its type, a session is open exactly while someone owns it, it has one owner, no
\* attempt runs on a session that another thread closed, and none is kept that an operation still runs
\* on, as long as the download waits for all its threads.
SessionsAreOwned ==
    TypeOK /\ OpenWhileOwned /\ OneOwner /\ AttemptsRunOpen /\ (Checks = {} => KeptIsQuiet)
=============================================================================
