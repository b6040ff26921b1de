----------------------------- MODULE ClientAuth -----------------------------
(***************************************************************************)
(* The client's Snowflake sign-in (client/auth.py) under the requests that *)
(* use it (CortexTrainingClient._send in client/core.py).  One             *)
(* SnowflakeProfileAuth per process keeps one Connector session; threads   *)
(* take its token for each post, and a refused post signs in again.  A     *)
(* process may fork: the child starts with a copy of everything, the state *)
(* of the lock included.  A session and its token are one number; the      *)
(* servers' answers are chosen freely.                                     *)
(***************************************************************************)
EXTENDS Naturals, FiniteSets

CONSTANTS ParentThreads, ChildThreads,  \* the threads of the two processes
          MaxSessions,    \* bound: sign-ins of a behaviour
          MaxDeaths,      \* bound: expiries and invalidations
          MaxFaults       \* bound: sign-ins and posts that fail

Procs == {"parent", "child"}
Threads == ParentThreads \cup ChildThreads
ProcOf(t) == IF t \in ParentThreads THEN "parent" ELSE "child"
NoToken == 0
Free == "free"
Orphan == "orphan"    \* a lock whose holder was not copied by the fork

ASSUME AuthAssumption ==
    /\ ParentThreads \cap ChildThreads = {} /\ {Free, Orphan} \cap Threads = {}
    /\ MaxSessions \in Nat \ {0} /\ MaxDeaths \in Nat /\ MaxFaults \in Nat

VARIABLES auth,      \* [Procs -> SnowflakeProfileAuth's fields]
          sessions,  \* sequence of the sessions opened so far, as a function
          forked,    \* the child exists
          call,      \* [Threads -> the thread's call]
          deaths,    \* expiries and invalidations so far
          faults

authVars == <<auth, sessions, forked, call, deaths, faults>>

AuthFields == [known: BOOLEAN,            \* self._pid = os.getpid()
               lock: Threads \cup {Free, Orphan},
               closed: BOOLEAN, invalid: 0..MaxSessions, session: 0..MaxSessions]
Ops == {"send", "artifact"}
Places == {"idle", "ensure", "fork", "token", "renew", "post", "refused", "open",
           "closing", "unauthorised"}

AuthTypeOK ==
    /\ auth \in [Procs -> AuthFields]
    /\ \A s \in DOMAIN sessions :
          sessions[s] \in [by: Procs, own: BOOLEAN, state: {"live", "expired", "closed"}]
    /\ call \in [Threads -> [at: Places, op: Ops, seen: 0..MaxSessions, retried: BOOLEAN,
                             back: {"token", "post"}, struck: BOOLEAN]]

Idle == [at |-> "idle", op |-> "send", seen |-> NoToken, retried |-> FALSE,
         back |-> "token", struck |-> FALSE]

(* The startup sign-in of __init__ has succeeded. *)
Init ==
    /\ auth = [p \in Procs |-> [known |-> p = "parent", lock |-> Free, closed |-> FALSE,
                                invalid |-> NoToken, session |-> 1]]
    /\ sessions = [s \in {1} |-> [by |-> "parent", own |-> TRUE, state |-> "live"]]
    /\ forked = FALSE
    /\ call = [t \in Threads |-> Idle]
    /\ deaths = 0
    /\ faults = 0

At(t, place) == call[t].at = place
Go(t, place) == call' = [call EXCEPT ![t].at = place]
Back(t) == call' = [call EXCEPT ![t] = Idle]    \* the call returned or raised
Alive(t) == t \in ParentThreads \/ forked
Mine(t) == auth[ProcOf(t)]
LockIsFree(t) == Mine(t).lock = Free
NextSession == Cardinality(DOMAIN sessions) + 1
CanSignIn == NextSession <= MaxSessions

(* The new session of process p, and those it closes. *)
Opened(p, own, closing) ==
    [s \in (DOMAIN sessions) \cup {NextSession} |->
        IF s = NextSession THEN [by |-> p, own |-> own, state |-> "live"]
        ELSE IF s \in closing THEN [sessions[s] EXCEPT !.state = "closed"]
        ELSE sessions[s]]

(* A thread starts a request, or opens a session for an artifact read. *)
Begin(t, op) ==
    /\ Alive(t) /\ At(t, "idle")
    /\ op = "artifact" => t \in ParentThreads    \* bound: the child only sends
    /\ call' = [call EXCEPT ![t] = [Idle EXCEPT !.at = "ensure", !.op = op]]
    /\ UNCHANGED <<auth, sessions, forked, deaths, faults>>

FirstPlace(t) == IF call[t].op = "send" THEN "token" ELSE "open"

(* _ensure_process in the process that made the object, or in a child      *)
(* where a thread has already set the pid.                                 *)
EnsureKnown(t) ==
    /\ At(t, "ensure") /\ Mine(t).known
    /\ call' = [call EXCEPT ![t].at = FirstPlace(t), ![t].op = "send"]
    /\ UNCHANGED <<auth, sessions, forked, deaths, faults>>

(* _ensure_process in a child: under the inherited lock the pid and a new  *)
(* lock are set first, and only then does it sign in.                      *)
EnsureForked(t) ==
    /\ At(t, "ensure") /\ ~Mine(t).known /\ LockIsFree(t)
    /\ auth' = [auth EXCEPT ![ProcOf(t)].known = TRUE, ![ProcOf(t)].closed = FALSE,
                            ![ProcOf(t)].invalid = NoToken]
    /\ Go(t, "fork")
    /\ UNCHANGED <<sessions, forked, deaths, faults>>

ForkSignsIn(t) ==
    /\ At(t, "fork") /\ CanSignIn
    /\ sessions' = Opened(ProcOf(t), TRUE, {})
    /\ auth' = [auth EXCEPT ![ProcOf(t)].session = NextSession]
    /\ call' = [call EXCEPT ![t].at = FirstPlace(t), ![t].op = "send"]
    /\ UNCHANGED <<forked, deaths, faults>>

(* _refresh_locked(observed), the lock held: another thread's renewal is   *)
(* taken as it is, otherwise the thread goes on to sign in with the lock   *)
(* held.                                                                   *)
(* Mutant: a refresh that signs in whatever another thread has renewed. *)
RenewedNever(t, observed) == FALSE

Renewed(t, observed) == Mine(t).session # observed

RefreshLocked(t, observed, back) ==
    IF Renewed(t, observed)
    THEN /\ auth' = [auth EXCEPT ![ProcOf(t)].invalid = NoToken]
         /\ call' = [call EXCEPT ![t].at = back,
                                 ![t].seen = IF back = "post" THEN Mine(t).session ELSE @]
    ELSE /\ auth' = [auth EXCEPT ![ProcOf(t)].lock = t]
         /\ call' = [call EXCEPT ![t].at = "renew", ![t].back = back]


(* get_token. *)
GetToken(t) ==
    /\ At(t, "token") /\ LockIsFree(t)
    /\ CASE Mine(t).closed -> Back(t) /\ UNCHANGED auth
         [] ~Mine(t).closed /\ Mine(t).invalid # NoToken ->
                RefreshLocked(t, Mine(t).invalid, "post")
         [] OTHER -> /\ call' = [call EXCEPT ![t].at = "post", ![t].seen = Mine(t).session]
                     /\ UNCHANGED auth
    /\ UNCHANGED <<sessions, forked, deaths, faults>>

(* The sign-in of _refresh_locked: the new session replaces the old one,   *)
(* which is closed, and the lock is released.                              *)
Renew(t) ==
    /\ At(t, "renew") /\ CanSignIn
    /\ sessions' = Opened(ProcOf(t), TRUE, {Mine(t).session})
    /\ auth' = [auth EXCEPT ![ProcOf(t)].session = NextSession,
                            ![ProcOf(t)].invalid = NoToken, ![ProcOf(t)].lock = Free]
    /\ call' = [call EXCEPT ![t].at = call[t].back, ![t].seen = NextSession]
    /\ UNCHANGED <<forked, deaths, faults>>

(* open_artifact_connection: a session of the caller's own. *)
OpenArtifact(t) ==
    /\ At(t, "open") /\ LockIsFree(t)
    /\ IF Mine(t).closed
       THEN Back(t) /\ UNCHANGED sessions
       ELSE /\ CanSignIn
            /\ sessions' = Opened(ProcOf(t), FALSE, {})
            /\ Back(t)
    /\ UNCHANGED <<auth, forked, deaths, faults>>

(* A sign-in that fails raises in the thread that made it; the state is    *)
(* what it was before, but for the pid a child has already set.            *)
SignInFails(t) ==
    /\ faults < MaxFaults
    /\ call[t].at \in {"fork", "renew"}
    /\ faults' = faults + 1
    /\ auth' = IF At(t, "renew") THEN [auth EXCEPT ![ProcOf(t)].lock = Free] ELSE auth
    /\ Back(t)
    /\ UNCHANGED <<sessions, forked, deaths>>

(* attempt() of _send: the post and its answer.  A refused token is        *)
(* refreshed once per send.                                                *)
Answered(t) ==
    /\ At(t, "post") /\ sessions[call[t].seen].state = "live"
    /\ Back(t)
    /\ UNCHANGED <<auth, sessions, forked, deaths, faults>>

Refused(t) ==
    /\ At(t, "post") /\ sessions[call[t].seen].state # "live"
    /\ call' = IF call[t].retried THEN [call EXCEPT ![t].at = "unauthorised"]
               ELSE [call EXCEPT ![t].at = "refused", ![t].retried = TRUE]
    /\ UNCHANGED <<auth, sessions, forked, deaths, faults>>

(* The retrier makes another attempt, with the token of that time. *)
PostFails(t) ==
    /\ At(t, "post") /\ faults < MaxFaults
    /\ faults' = faults + 1
    /\ Go(t, "token")
    /\ UNCHANGED <<auth, sessions, forked, deaths>>

(* refresh(observed_token), then attempt() starts over with get_token. *)
Refresh(t) ==
    /\ At(t, "refused") /\ LockIsFree(t)
    /\ IF Mine(t).closed THEN Back(t) /\ UNCHANGED auth
       ELSE RefreshLocked(t, call[t].seen, "token")
    /\ UNCHANGED <<sessions, forked, deaths, faults>>

(* The refusal is raised to the caller. *)
Raise(t) ==
    /\ At(t, "unauthorised")
    /\ Back(t)
    /\ UNCHANGED <<auth, sessions, forked, deaths, faults>>

(* A ghost: the calls during which a session ended. *)
Struck == [t \in Threads |-> [call[t] EXCEPT !.struck = ~At(t, "idle")]]

(* The server ends a session. *)
Expire(s) ==
    /\ deaths < MaxDeaths
    /\ sessions[s].state = "live"
    /\ sessions' = [sessions EXCEPT ![s].state = "expired"]
    /\ deaths' = deaths + 1
    /\ call' = Struck
    /\ UNCHANGED <<auth, forked, faults>>

(* invalidate(). *)
Invalidate(p) ==
    /\ deaths < MaxDeaths
    /\ auth[p].known /\ auth[p].lock = Free /\ ~auth[p].closed
    /\ auth' = [auth EXCEPT ![p].invalid = auth[p].session]
    /\ deaths' = deaths + 1
    /\ call' = Struck
    /\ UNCHANGED <<sessions, forked, faults>>

(* close(): the flag under the lock, the session's own close after it. *)
Close(t) ==
    /\ t \in ParentThreads /\ At(t, "idle")
    /\ LockIsFree(t) /\ ~Mine(t).closed
    /\ auth' = [auth EXCEPT ![ProcOf(t)].closed = TRUE]
    /\ call' = [call EXCEPT ![t].at = "closing", ![t].seen = Mine(t).session]
    /\ UNCHANGED <<sessions, forked, deaths, faults>>

CloseSession(t) ==
    /\ At(t, "closing")
    /\ sessions' = [sessions EXCEPT ![call[t].seen].state = "closed"]
    /\ call' = [Struck EXCEPT ![t] = Idle]
    /\ UNCHANGED <<auth, forked, deaths, faults>>

(* os.fork() by a parent thread between two calls: only that thread goes   *)
(* on in the child, so a lock another one holds stays held there.          *)
Fork(t) ==
    /\ t \in ParentThreads /\ At(t, "idle")
    /\ ~forked /\ ChildThreads # {}
    /\ forked' = TRUE
    /\ auth' = [auth EXCEPT !["child"] =
                    [auth["parent"] EXCEPT !.known = FALSE,
                        !.lock = IF @ = Free THEN Free ELSE Orphan]]
    /\ UNCHANGED <<sessions, call, deaths, faults>>

Call(t) ==
    \/ EnsureKnown(t) \/ EnsureForked(t) \/ ForkSignsIn(t)
    \/ GetToken(t) \/ Renew(t) \/ OpenArtifact(t) \/ SignInFails(t)
    \/ Answered(t) \/ Refused(t) \/ PostFails(t) \/ Refresh(t) \/ Raise(t)
    \/ CloseSession(t)

Next ==
    \/ \E t \in Threads, op \in Ops : Begin(t, op)
    \/ \E t \in Threads : Call(t) \/ Close(t) \/ Fork(t)
    \/ \E s \in DOMAIN sessions : Expire(s)
    \/ \E p \in Procs : Invalidate(p)

Spec == Init /\ [][Next]_authVars

(* A thread of a running program is scheduled again, and a lock that is    *)
(* free infinitely often is handed to each thread that waits for it.       *)
Fairness == \A t \in ParentThreads : SF_authVars(Call(t))
FairSpec == Spec /\ Fairness

(* A send is refused for its sign-in only if a session was ended or marked *)
(* stale while it ran: a token it found dead was renewed, the renewal was  *)
(* its own or another thread's, and no late renewal of an older token took *)
(* the new one away (refresh, "Reconnect once unless another thread        *)
(* already rotated the token").                                            *)
RefusedOnlyIfStruck ==
    \A t \in ParentThreads : At(t, "unauthorised") => call[t].struck

(* However renewals, failures and close() interleave, a process that has   *)
(* closed its sign-in leaves no session of its own open, and one that has  *)
(* not has no open session beside the current one.                         *)
OneOpenSession ==
    \A s \in DOMAIN sessions :
        sessions[s].own /\ sessions[s].state # "closed" =>
            \/ \E p \in Procs : auth[p].session = s /\ (forked \/ p = "parent") /\ ~auth[p].closed
            \/ \E t \in Threads : At(t, "closing") /\ call[t].seen = s

AuthSafe == AuthTypeOK /\ RefusedOnlyIfStruck /\ OneOpenSession

(* "Do not reuse a Connector session inherited across fork()."             *)
(* (_ensure_process)                                                       *)
ChildLeavesParentsSession ==
    \A t \in ChildThreads : At(t, "post") => sessions[call[t].seen].by = "child"
=============================================================================
