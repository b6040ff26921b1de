----------------------------- MODULE StallNotices -----------------------------
(***************************************************************************)
(* What a download of a job's chunks says beside the files it writes       *)
(* (_download_gzip_artifacts and _stale_upload_warnings of client/core.py):*)
(* while it fetches, a check in a thread of its own reads the job's status *)
(* and may list its console, to tell uploads that have stalled, a job that *)
(* has only just ended, and metrics that are missing.  The download waits  *)
(* for it twice, each time only so long.  A behaviour begins when the      *)
(* chunks have been listed, with any past that a job can have.  A chunk is *)
(* the time in its name: of a stream the newest matters, of the console    *)
(* the first.  A warning is its kind.                                      *)
(***************************************************************************)
EXTENDS Integers, FiniteSets

CONSTANTS
  SubJobs,
  Listing, MaxTime,   \* bounds: the server's clock at the listing of the chunks, and at the end
  Drifts,    \* bound: how far the local clock is off
  Stale,     \* stale_after_seconds
  Skew,      \* _STALE_PRECHECK_SKEW_SECONDS
  Recent,    \* _RECENTLY_ENDED_SECONDS
  Grace,     \* _MISSING_METRICS_GRACE_SECONDS
  Period,    \* how often a sub-job whose uploads work saves a chunk
  Delay      \* the longest time from the listing to the job's status

NoticesAssumption ==
  /\ {Listing, MaxTime, Stale, Skew, Recent, Grace, Period, Delay} \subseteq Nat /\ Drifts \subseteq Int
  /\ Listing <= MaxTime /\ Period + Delay < Stale /\ Period + Delay < Grace

Never == -1
None == [s \in SubJobs |-> {}]
Statuses == {"pending", "running", "ended"}
\* The three streams, as download_stdout_logs, download_metrics and download_training_metrics ask.
Asks ==
  [stream : {"stdout", "metrics", "training"}, wanted : SUBSET SubJobs,
   checks : {TRUE},    \* stale_after_seconds is not None
   dated : BOOLEAN]    \* state_changed_at, a Date header and sub-jobs' statuses, or none of them
  \cup [stream : {"stdout"}, wanted : SUBSET SubJobs, checks : {FALSE}, dated : {TRUE}]
Unasked == [at |-> "none", local |-> 0, drift |-> 0, candidates |-> {}, now |-> 0, says |-> None]

VARIABLES
  clock,     \* the server's
  job,       \* its status, and since when
  sub,       \* the status of each sub-job
  listed,    \* the newest chunk of the stream that was listed, of each sub-job
  console,   \* the first chunk of its console
  healthy,   \* the sub-jobs whose uploads can be working
  ask,       \* what is downloaded, with the check or without, and what the service tells
  d,         \* the download: where it is, what it said, its entries, and what it missed
  check      \* the check beside it

world == <<clock, job, sub, listed, console, healthy>>
vars == <<world, ask, d, check>>

ChecksMissing == ask.stream = "metrics"
WarnsIfStalled == ask.stream # "training"
SkipsMissing == ask.stream = "training"
Wanted == IF ask.wanted = {} THEN SubJobs ELSE ask.wanted
Listed == {s \in SubJobs : listed[s] # Never}
\* The named sub-jobs without chunks, unless that is fine for the stream.
Unfound == IF ask.wanted = {} \/ SkipsMissing THEN {} ELSE ask.wanted \ Listed
Runs(s) == job.status = "running" /\ sub[s] = "running"

\* What can have been saved, until now or until the job last stopped, of a sub-job that began at
\* that time.  Where there are chunks of the stream, its console is not asked for.
CanHaveSaved(s, begun) ==
  /\ {listed[s], console[s]} \subseteq {Never} \cup begun .. (IF job.status = "running" THEN Listing ELSE job.since)
  /\ listed[s] = Never \/ console[s] = Never
  /\ sub[s] = "pending" => {listed[s], console[s]} = {Never}
\* Uploads that work save a chunk in each period in which the sub-job runs.
CanWork(s, begun) ==
  Runs(s) => \/ Listing - listed[s] <= Period
             \/ Listing - begun <= Period \/ Listing - job.since <= Period
\* The chunks have just been listed.
Init ==
  /\ clock = Listing
  /\ job \in [status : Statuses, since : 0 .. Listing]
  /\ sub \in [SubJobs -> Statuses]
  /\ listed \in [SubJobs -> Never .. Listing] /\ console \in [SubJobs -> Never .. Listing]
  /\ \A s \in SubJobs : \E begun \in 0 .. Listing : CanHaveSaved(s, begun)
  /\ healthy = {s \in SubJobs : \E begun \in 0 .. Listing : CanHaveSaved(s, begun) /\ CanWork(s, begun)}
  /\ ask \in Asks
  /\ d = [at |-> IF Unfound = {} THEN "write" ELSE "look", says |-> None, entries |-> {}, missing |-> {}]
  /\ check = [Unasked EXCEPT !.at = IF ask.checks THEN "started" ELSE "none"]

--------------------------------------------------------------------------------
(* The job, for as long as there is something that still reads it.         *)

Read == check.at \notin {"none", "done"}
World == Read /\ UNCHANGED <<listed, healthy, ask, d, check>>

Tick ==
  /\ World /\ clock < MaxTime /\ (check.at \in {"started", "read"} => clock < Listing + Delay)
  /\ clock' = clock + 1 /\ UNCHANGED <<job, sub, console>>
JobMoves ==
  /\ World /\ job.status # "ended"
  /\ \E to \in Statuses \ {job.status} : job' = [status |-> to, since |-> clock]
  /\ UNCHANGED <<clock, sub, console>>
SubMoves(s) ==
  /\ World
  /\ \/ sub[s] = "pending" /\ sub' = [sub EXCEPT ![s] = "running"]
     \/ sub[s] = "running" /\ sub' = [sub EXCEPT ![s] = "ended"]
  /\ UNCHANGED <<clock, job, console>>
Prints(s) ==
  /\ World /\ Runs(s) /\ listed[s] = Never /\ console[s] = Never /\ console' = [console EXCEPT ![s] = clock]
  /\ UNCHANGED <<clock, job, sub>>

--------------------------------------------------------------------------------
(* The check.                                                              *)

Says(says) == check' = [Unasked EXCEPT !.at = "done", !.says = says]
Checked == UNCHANGED <<world, ask, d>>

Excess == IF Stale > Skew THEN Stale - Skew ELSE 0

\* Mutant: a local clock that is behind is not allowed for.
CandidatesByClock(local) ==
  {s \in Listed \cap Wanted : WarnsIfStalled /\ local - listed[s] > Stale}

\* The sub-jobs whose newest chunk looks old, with an allowance for the local clock.
Candidates(local) ==
  {s \in Listed \cap Wanted : WarnsIfStalled /\ local - listed[s] > Excess}
RecentlyActive(local) == \E s \in Listed \cap Wanted : listed[s] >= local - Recent - Skew

Look ==
  /\ check.at = "started"
  /\ \E drift \in Drifts :
       LET local == clock + drift
       IN  IF Candidates(local) = {} /\ ~ChecksMissing /\ ~RecentlyActive(local) THEN Says(None)
           ELSE check' = [check EXCEPT !.at = "read", !.local = local, !.drift = drift,
                                       !.candidates = Candidates(local)]
  /\ Checked

\* running_for: how long, less than nothing if it does not run, and no answer if that is not known.
RanFor(s, now, started) ==
  LET starts == (IF ask.dated THEN {job.since} ELSE {}) \cup ({started} \ {Never})
  IN  IF ask.dated /\ sub[s] # "running" THEN {-1}
      ELSE {now - t : t \in {t \in starts : \A u \in starts : u <= t}}
TooShort(ran, least) == \E r \in ran : r < least

\* Its status as the service has it now; without a Date header the local clock of before counts.
ReadJob ==
  /\ check.at = "read"
  /\ LET now == IF ask.dated THEN clock ELSE check.local
         told(s) ==
           CASE job.status = "ended" /\ ask.dated /\ now - job.since < Recent /\ s \in Listed \cap Wanted -> {"ended"}
             [] job.status = "running" /\ s \in check.candidates /\ now - listed[s] > Stale
                  /\ ~TooShort(RanFor(s, now, Never), Stale) -> {"stalled"}
             [] OTHER -> {}
         says == [s \in SubJobs |-> told(s)]
     IN  IF ChecksMissing /\ job.status # "pending"
         THEN check' = [Unasked EXCEPT !.at = job.status, !.now = now, !.says = says]
         ELSE Says(says)
  /\ Checked
ReadFails == check.at = "read" /\ Says(None) /\ Checked

\* The console's chunks are listed, or that fails: sub-jobs that printed but have no metrics.
Printed == {s \in Wanted \ Listed : console[s] # Never}
ListConsole ==
  /\ \/ /\ check.at = "ended"
        /\ Says([s \in SubJobs |-> check.says[s] \cup (IF s \in Printed THEN {"unsaved"} ELSE {})])
     \/ /\ check.at = "running"
        /\ Says([s \in SubJobs |->
             IF s \in Printed /\ ~TooShort(RanFor(s, check.now, console[s]), Grace) THEN {"missing"}
             ELSE check.says[s]])
  /\ Checked
ListConsoleFails == check.at \in {"ended", "running"} /\ Says(check.says) /\ Checked

--------------------------------------------------------------------------------
(* The download.                                                           *)

\* stale_warnings: what the check said, or nothing if it has not ended in time.
Heard == IF check.at = "done" THEN check.says ELSE None
Warned(says) == {s \in SubJobs : says[s] # {}}

\* A named sub-job without chunks is fine only if it has a warning.
UnlistedWarned == Warned(Heard) \ Listed
LookForMissing ==
  /\ d.at = "look"
  /\ LET missing == Unfound \ UnlistedWarned
     IN  d' = [d EXCEPT !.at = IF missing = {} THEN "write" ELSE "raised",
                         !.missing = missing, !.says = Heard]
  /\ UNCHANGED <<world, ask, check>>
\* The files are written; those of sub-jobs with a warning and no chunks get an entry too.
Return ==
  /\ d.at = "write"
  /\ d' = [d EXCEPT !.at = "returned", !.says = Heard, !.entries = (Listed \cap Wanted) \cup (Warned(Heard) \ Listed)]
  /\ UNCHANGED <<world, ask, check>>

Next ==
  \/ Tick \/ JobMoves \/ \E s \in SubJobs : SubMoves(s) \/ Prints(s)
  \/ Look \/ ReadJob \/ ReadFails \/ ListConsole \/ ListConsoleFails
  \/ LookForMissing \/ Return
Spec == Init /\ [][Next]_vars

--------------------------------------------------------------------------------
\* A download of named sub-jobs that returns has an entry for each of them, with chunks or with
\* the reason why there are none, although it asked its check twice; one that raises names only
\* sub-jobs that had no chunk, and none that its check had spoken for.
EntriesAnswer ==
  /\ d.at = "returned" =>
       /\ (~SkipsMissing => ask.wanted \subseteq d.entries)
       /\ d.entries \subseteq Wanted /\ \A s \in d.entries : s \in Listed \/ d.says[s] # {}
  /\ d.at = "raised" => d.missing # {} /\ \A s \in d.missing : s \notin Listed /\ d.says[s] = {}

\* A sub-job whose uploads work is never said to have stalled, nor to save no metrics, by a
\* service that tells when; and "ended" is only said of a job that has.
WarningsAreTrue ==
  \A s \in SubJobs :
    /\ ((ask.dated /\ s \in healthy) => check.says[s] \cap {"stalled", "missing"} = {})
    /\ (check.says[s] \cap {"ended", "unsaved"} # {} => job.status = "ended")

\* A sub-job that runs on and had been silent for longer than asked when the check began is said
\* to have stalled, if the local clock is behind by no more than is allowed for.
StallIsTold ==
  (ReadJob /\ ask.dated /\ check.drift >= -Skew /\ WarnsIfStalled) =>
    \A s \in Listed \cap Wanted :
      (Runs(s) /\ Listing - listed[s] > Stale /\ clock - job.since >= Stale)
        => "stalled" \in check'.says[s]
================================================================================
