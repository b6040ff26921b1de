---------------------------- MODULE SamplingCalls ----------------------------
(***************************************************************************)
(* Calls to the sampling sub-jobs of one job, and the generic operations   *)
(* (client/core.py: generate, generate_stream, forward, weight_sync): the  *)
(* prompts' lengths against a window that is looked up once, the frame in  *)
(* one POST or in the chunks of a group, and the polls, which decode what  *)
(* this client asked for.  Unlike forward_backward's (TrainingRequests),   *)
(* these groups have no identity under which they run once, so they are    *)
(* never replayed.                                                         *)
(*                                                                         *)
(* The service is external: it keeps a group's chunks, may lose a group    *)
(* that is incomplete, and forgets a group once it has run it.  A POST is  *)
(* handled, its answer lost or not, or is lost itself.                     *)
(***************************************************************************)
EXTENDS Integers, FiniteSets

CONSTANTS
  NumCalls,   \* calls of one client, one after another
  SubJobs,    \* the sampling sub-jobs a job may have
  Windows,    \* bound: the windows that are tried
  Makes,      \* bound: the calls that are tried
  MaxChunks,  \* a frame is split into at most this many chunks
  Attempts,   \* 1 + max_retries: attempts of one _send
  MaxFaults   \* bound: lookups, POSTs and polls that fail, and groups that are lost

CallsAssumption ==
  /\ NumCalls \in Nat \ {0} /\ MaxChunks \in Nat \ {0} /\ Attempts \in Nat \ {0} /\ MaxFaults \in Nat
  /\ Windows \subseteq Nat \ {0}
  /\ \A c \in Makes : /\ c.op \in {"generate", "stream", "forward", "sync"} /\ c.size \in 1 .. MaxChunks
                     /\ (c.flat => Cardinality(c.prompts) = 1 /\ 0 \notin c.prompts)
                     /\ (c.op \in {"stream", "sync"} => c.size = 1)

None == "none"      \* no sub-job named
Unread == -1        \* no window cached
Unknown == 0        \* no window to check against; as a prompt's length, a text
Text == 0

VARIABLES
  listed,    \* get_job's sampling sub-jobs, and the window in each one's record
  window,    \* _sampling_max_seq_len
  call,      \* per call: the operation, the sub-job named, the prompts' lengths, whether they are one
             \* flat list of token ids, and the chunks of the frame
  at,        \* per call: where it stands
  cur, idx, tries, \* the call being made, its next chunk, and the attempts at it
  chunks,    \* per call: the chunks of its group, at the service
  runs,      \* per call: how often the service ran it
  ids,       \* _generate_request_ids and _forward_request_ids
  ended,     \* history: the calls of which a poll came to an end
  raw,       \* history: <<c, later>>: c's result was returned as it was encoded, and whether by a
             \* poll after one that had ended
  faults

vars == <<listed, window, call, at, cur, idx, tries, chunks, runs, ids, ended, raw, faults>>

Calls == 1 .. NumCalls
Named == SubJobs \cup {None}
Kept == {"generate", "forward"}     \* the operations whose request id is remembered

Idle == [op |-> None, sub |-> None, prompts |-> {Text}, flat |-> FALSE, size |-> 1]

Init ==
  /\ listed \in UNION {[S -> Windows \cup {Unknown}] : S \in SUBSET SubJobs}
  /\ window = [s \in Named |-> Unread]
  /\ call = [c \in Calls |-> Idle] /\ at = [c \in Calls |-> "idle"]
  /\ cur = 0 /\ idx = 0 /\ tries = 0
  /\ chunks = [c \in Calls |-> {}] /\ runs = [c \in Calls |-> 0]
  /\ ids = {} /\ ended = {} /\ raw = {} /\ faults = 0

Service == <<listed, chunks, runs>>
Polls == <<ids, ended, raw>>
Fault == faults < MaxFaults /\ faults' = faults + 1

-----------------------------------------------------------------------------
(* The prompts.                                                            *)

\* _resolve_sampling_max_seq_len, of a record it could read: the window of the sub-job named, or of
\* the only one there is.
Resolve(s) ==
  IF s # None THEN IF s \in DOMAIN listed THEN listed[s] ELSE Unknown
  ELSE IF Cardinality(DOMAIN listed) = 1 THEN listed[CHOOSE x \in DOMAIN listed : TRUE]
  ELSE Unknown

\* The lengths that are known: a flat list of token ids is one prompt, and a text has none.
Pretokenized(c) == c.prompts \ {Text}

Fits(c, w) == w = Unknown \/ \A n \in Pretokenized(c) : n < w

Making == cur # 0 /\ at[cur] \in {"check", "post"}

\* weight_sync and the like raise on an argument before anything is sent: no call is made then.
Begin(c) ==
  /\ cur < NumCalls /\ ~Making
  /\ cur' = cur + 1 /\ idx' = 0 /\ tries' = 0
  /\ call' = [call EXCEPT ![cur'] = c]
  /\ at' = [at EXCEPT ![cur'] = IF c.op \in {"generate", "stream"} THEN "check" ELSE "post"]
  /\ UNCHANGED <<Service, window, Polls, faults>>

\* _check_prompt_lengths, with its lookup; one that fails leaves nothing in the cache.
Check ==
  /\ cur # 0 /\ at[cur] = "check"
  /\ LET c == call[cur]
         known == window[c.sub] # Unread
     IN \/ /\ Pretokenized(c) = {} /\ at' = [at EXCEPT ![cur] = "post"] /\ UNCHANGED <<window, faults>>
        \/ /\ Pretokenized(c) # {}
           /\ LET w == IF known THEN window[c.sub] ELSE Resolve(c.sub)
              IN /\ window' = [window EXCEPT ![c.sub] = w]
                 /\ at' = [at EXCEPT ![cur] = IF Fits(c, w) THEN "post" ELSE "refused"]
           /\ UNCHANGED faults
        \/ /\ Pretokenized(c) # {} /\ ~known /\ Fault
           /\ at' = [at EXCEPT ![cur] = "post"] /\ UNCHANGED window
  /\ UNCHANGED <<Service, call, cur, idx, tries, Polls>>

-----------------------------------------------------------------------------
(* The POSTs (_post_octet_request_chunks, _post_operation_request_chunks). *)

Split(c) == call[c].size > 1
LastChunk(c) == call[c].size - 1

\* How the service answers chunk k.
Answer(c, k) ==
  IF ~Split(c) THEN "accepted"
  ELSE IF k > 0 /\ chunks[c] = {} THEN "conflict"
  ELSE IF k < LastChunk(c) THEN "cached"
  ELSE IF chunks[c] \cup {k} = 0 .. k THEN "accepted" ELSE "conflict"

Handle(c, k) ==
  /\ chunks' = [chunks EXCEPT ![c] = IF Answer(c, k) = "cached" THEN @ \cup {k}
                                     ELSE IF Answer(c, k) = "accepted" THEN {} ELSE @]
  /\ runs' = [runs EXCEPT ![c] = IF Answer(c, k) = "accepted" THEN @ + 1 ELSE @]
  /\ UNCHANGED listed

Posting == cur # 0 /\ at[cur] = "post"
GiveUp == at' = [at EXCEPT ![cur] = "raised"] /\ UNCHANGED <<idx, tries>>
Again == IF tries + 1 < Attempts THEN tries' = tries + 1 /\ UNCHANGED <<at, idx>> ELSE GiveUp

\* The last chunk's answer has the request id, which generate and forward remember.
Accepted ==
  /\ Posting /\ Answer(cur, idx) = "accepted" /\ Handle(cur, idx)
  /\ at' = [at EXCEPT ![cur] = "accepted"]
  /\ ids' = IF call[cur].op \in Kept THEN ids \cup {cur} ELSE ids
  /\ UNCHANGED <<window, call, cur, idx, tries, ended, raw, faults>>

Cached ==
  /\ Posting /\ Answer(cur, idx) = "cached" /\ Handle(cur, idx)
  /\ idx' = idx + 1 /\ tries' = 0
  /\ UNCHANGED <<window, call, at, cur, Polls, faults>>

\* A structured 409: forward's predicate has no retry of it, generate's takes it for any 409.
\* Neither replays the group.
Conflict ==
  /\ Posting /\ Answer(cur, idx) = "conflict"
  /\ IF call[cur].op = "generate" THEN Again ELSE GiveUp
  /\ UNCHANGED <<Service, window, call, cur, Polls, faults>>

\* The answer is lost, or the POST is; an error no retry fixes is raised.
LoseAnswer == /\ Posting /\ Fault /\ Handle(cur, idx) /\ Again
              /\ UNCHANGED <<window, call, cur, Polls>>
LosePost == /\ Posting /\ Fault /\ (Again \/ GiveUp)
            /\ UNCHANGED <<Service, window, call, cur, Polls>>

\* The service loses a group that never became complete.
Forget(c) == /\ chunks[c] # {} /\ Fault /\ chunks' = [chunks EXCEPT ![c] = {}]
             /\ UNCHANGED <<listed, runs, window, call, at, cur, idx, tries, Polls>>

-----------------------------------------------------------------------------
(* The polls of what was accepted, in any order and as often as one likes. *)

\* _normalize_generate_result_if_needed, _decode_legacy_forward_result.
Decodes(c) == c \in ids

PollReturns(c) ==
  /\ at[c] = "accepted"
  /\ raw' = IF call[c].op \in Kept /\ ~Decodes(c) THEN raw \cup {<<c, c \in ended>>} ELSE raw
  /\ ids' = ids \ {c} /\ ended' = ended \cup {c}
  /\ UNCHANGED <<Service, window, call, at, cur, idx, tries, faults>>

\* The request failed, or the deadline passed.
PollEnds(c) ==
  /\ at[c] = "accepted" /\ Fault
  /\ ids' = ids \ {c} /\ ended' = ended \cup {c}
  /\ UNCHANGED <<Service, window, call, at, cur, idx, tries, raw>>

Post == Accepted \/ Cached \/ Conflict \/ LoseAnswer \/ LosePost

Next ==
  \/ \E c \in Makes : Begin(c)
  \/ Check \/ Post
  \/ \E c \in Calls : Forget(c) \/ PollReturns(c) \/ PollEnds(c)

Spec == Init /\ [][Next]_vars

-----------------------------------------------------------------------------
TypeOK ==
  /\ window \in [Named -> Windows \cup {Unknown, Unread}]
  /\ at \in [Calls -> {"idle", "check", "post", "refused", "raised", "accepted"}]
  /\ cur \in 0 .. NumCalls /\ idx \in 0 .. MaxChunks - 1 /\ tries \in 0 .. Attempts - 1
  /\ runs \in [Calls -> 0 .. Attempts] /\ ids \subseteq Calls

\* The sub-jobs the service may run a call on: the one named, or any.
MayRun(c) == IF c.sub # None THEN DOMAIN listed \cap {c.sub} ELSE DOMAIN listed

\* The check never refuses a prompt that some sub-job the call may run on would take (a record
\* with no window takes any), whatever was cached for which sub-job when.
OnlyHopelessRefused ==
  \A c \in Calls : at[c] = "refused" =>
    /\ MayRun(call[c]) # {}
    /\ \A s \in MayRun(call[c]) :
         listed[s] # Unknown /\ \E n \in call[c].prompts \ {Text} : n >= listed[s]

\* A lookup that fails does not disable the check: it is of the record, or it is asked again.
WindowIsOfRecord == \A s \in Named : window[s] \in {Unread, Resolve(s)}

\* What was sent for a sub-job whose window has been read, a flat list of tokens included, fits.
SentFits ==
  \A c \in Calls :
    at[c] = "post" /\ call[c].sub # None /\ window[call[c].sub] \notin {Unread, Unknown} =>
      \A n \in call[c].prompts \ {Text} : n < window[call[c].sub]

\* A call that was split runs once, however many of its answers are lost: nothing of its group
\* is sent again from the start.
SplitRunsOnce == \A c \in Calls : Split(c) => runs[c] <= 1

\* A call that returned a request id has run, and only a call whose id went astray runs unseen.
AcceptedHasRun == \A c \in Calls : at[c] = "accepted" => runs[c] > 0

\* The first poll that ends decodes the result of what this client asked for, and no id is kept
\* once a poll has ended.
FirstPollDecodes == /\ \A c \in Calls : <<c, FALSE>> \notin raw
                    /\ ids \cap ended = {}
                    /\ \A c \in Calls : at[c] = "accepted" /\ call[c].op \in Kept => c \in ids \cup ended

CallsAreExact ==
  /\ TypeOK /\ OnlyHopelessRefused /\ WindowIsOfRecord /\ SentFits
  /\ SplitRunsOnce /\ AcceptedHasRun /\ FirstPollDecodes

\* docs/reference/rest-api.md 1384-1386: "For a request submitted by the same `CortexTrainingClient`
\* instance, `poll_request()` converts tensor values under `results` back to Python lists."
OwnResultsAreConverted == raw = {}
=============================================================================
