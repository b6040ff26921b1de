------------------------------ MODULE MCClient -------------------------------
(* What a program of the client does beside its downloads, for TLC, in       *)
(* settings that are explored side by side: the session that its threads     *)
(* share and a fork inherits, the telemetry they record, logins that share   *)
(* the profiles' file, the jobs a script creates and cleans up, one command  *)
(* of the command line, and a log that it follows.                           *)
EXTENDS ClientAuth
VARIABLES setting,
  aggregate, queue, pending, worker, exporting, closed, released, at,       \* Telemetry
  idle, batch, caller, accepted, repeats,
  file, config, login,                                                      \* Login
  profiles, named, there, c, other,                                         \* Convert
  job, run, stops, lost,                                                    \* JobRuns
  cmd, step, asked, jobs, steady,                                           \* Commands
  followed, stream, made, metrics, told, calls                              \* StreamedLog

Emitter == INSTANCE Telemetry WITH
  Calls <- {"a", "b"}, Events <- {"e"}, Workers <- {"w", "v"}, QueueSize <- 1, MaxFaults <- 1
Logins == INSTANCE Login WITH
  Logins <- {"one", "two"}, Originals <- {"own"}, Fresh <- {"new"}, OwnDatabase <- {"own"}, run <- login
Conversion == INSTANCE Convert WITH
  Originals <- {"own"}, Fresh <- {"new", "their"}, MaxFaults <- 3, file <- profiles, config <- named
\* A script of each kind, alone with another's job.
One == INSTANCE JobRuns WITH
  Ones <- {"script"}, Sets <- {}, Deploys <- {}, Size <- 1, MaxJobs <- 4, Attempts <- 2, MaxFaults <- 2, MaxStops <- 1
Several == INSTANCE JobRuns WITH
  Ones <- {}, Sets <- {"script"}, Deploys <- {}, Size <- 2, MaxJobs <- 4, Attempts <- 2, MaxFaults <- 2, MaxStops <- 1
Deploy == INSTANCE JobRuns WITH
  Ones <- {}, Sets <- {}, Deploys <- {"script"}, Size <- 1, MaxJobs <- 4, Attempts <- 2, MaxFaults <- 2, MaxStops <- 1
\* list treats each job on its own.
Command == INSTANCE Commands WITH Jobs <- {"j"}, run <- step
Follower == INSTANCE StreamedLog WITH
  MaxTries <- 2, MaxLines <- 1, MaxCalls <- 3, MaxFaults <- 2, job <- followed, call <- made, state <- metrics

ASSUME InstancesAssumption == Logins!LoginAssumption /\ Conversion!ConvertAssumption

ownAuthVars == <<auth, sessions, forked, call, deaths>>
emitterVars == <<aggregate, queue, pending, worker, exporting, closed, released, at, idle, batch,
                 caller, accepted, repeats>>
loginsVars == <<file, config, login>>
conversionVars == <<profiles, named, there, c, other>>
runsVars == <<job, run, stops, lost>>
commandVars == <<cmd, step, asked, jobs, steady>>
followerVars == <<followed, stream, made, metrics, told, calls>>
allvars == <<ownAuthVars, emitterVars, loginsVars, conversionVars, runsVars, commandVars, followerVars, faults, setting>>

\* One step of a setting; the variables of the others keep their first values.
Signed(s, A) == setting = s /\ A /\ UNCHANGED <<setting, emitterVars, loginsVars, conversionVars, runsVars, commandVars, followerVars>>
Emitted(A) == setting = "telemetry" /\ A /\ UNCHANGED <<setting, ownAuthVars, loginsVars, conversionVars, runsVars, commandVars, followerVars>>
Scripts(A) == A /\ UNCHANGED <<setting, ownAuthVars, emitterVars, loginsVars, conversionVars, commandVars, followerVars>>

MCInit ==
  /\ setting \in {"fork", "threads", "telemetry", "logins", "convert", "one", "several", "deploy", "command", "stream"}
  /\ Init
  /\ Emitter!Init
  /\ Logins!Init /\ (setting = "logins" \/ config = "own")
  /\ Conversion!Init /\ (setting = "convert" \/ (named = "own" /\ there = {}))
  /\ CASE setting = "one" -> One!Init [] setting = "several" -> Several!Init
       [] setting = "deploy" -> Deploy!Init [] OTHER -> One!Init /\ run["script"] = One!Started("script", FALSE, FALSE)
  /\ Command!Init /\ (setting = "command" \/ cmd = [kind |-> "dry", waits |-> FALSE, keeps |-> {}])
  /\ Follower!Init /\ (setting = "stream" \/ followed = [status |-> "running", pods |-> FALSE, known |-> TRUE, lines |-> 0])
MCNext ==
  \/ Signed("fork", Next /\ deaths' <= 1 /\ Cardinality(DOMAIN sessions') <= 3)
  \/ Signed("threads", Next /\ ~forked')
  \/ Emitted(Emitter!Next)
  \/ setting = "logins" /\ Logins!Next /\ UNCHANGED <<setting, ownAuthVars, emitterVars, conversionVars, runsVars, commandVars, followerVars, faults>>
  \/ setting = "convert" /\ Conversion!Next /\ UNCHANGED <<setting, ownAuthVars, emitterVars, loginsVars, runsVars, commandVars, followerVars>>
  \/ setting = "one" /\ Scripts(One!Next)
  \/ setting = "several" /\ Scripts(Several!Next)
  \/ setting = "deploy" /\ Scripts(Deploy!Next)
  \/ setting = "command" /\ Command!Next
     /\ UNCHANGED <<setting, ownAuthVars, emitterVars, loginsVars, conversionVars, runsVars, followerVars, faults>>
  \/ setting = "stream" /\ Follower!Next
     /\ UNCHANGED <<setting, ownAuthVars, emitterVars, loginsVars, conversionVars, runsVars, commandVars>>
MCSpec ==
  /\ MCInit /\ [][MCNext]_allvars
  /\ \A t \in ParentThreads : SF_allvars(Signed("threads", Call(t)))
  /\ \A k \in {"a", "b", "e"} : WF_allvars(Emitted(Emitter!Wake(k)))
  /\ \A w \in {"w", "v"} : SF_allvars(Emitted(Emitter!Work(w)))
  /\ SF_allvars(Emitted(Emitter!Flush("closer")))
  /\ WF_allvars(Emitted(Emitter!Drained)) /\ WF_allvars(Emitted(Emitter!Joined))

\* A recorded call is in one place, and is counted once unless an answer was lost; the count that
\* a flush waits on is the events queued and in hand.  What is recorded of a call is its own
\* requests, attempts and logins, and how it ended.
CountsAreExact ==
  /\ setting = "telemetry" => Emitter!CountedOnce /\ Emitter!PendingIsExact
  /\ setting = "stream" => Follower!OutcomesAreExact
\* A conversion of the old config that ends has made its changes or none, and asks before each.
ConversionIsWhole == [](setting = "convert" => Conversion!AllOrNothing) /\ Conversion!NothingUnasked
\* A script that came to its end left no job running that was made for it and that it was not to
\* keep, could not tell of, or never heard of since its create's answer was lost; it cancelled
\* nobody else's, and no create made two jobs; a login saves only what it has checked, and changes
\* no profile that was there before.
NothingIsLeftBehind ==
  /\ [](/\ setting = "one" => One!NothingLeftBehind /\ One!OnlyItsOwn
        /\ setting = "several" => Several!NothingLeftBehind /\ Several!OnlyItsOwn
        /\ setting = "deploy" => Deploy!NothingLeftBehind /\ Deploy!OnlyItsOwn
        /\ setting = "logins" => Logins!SavedIsChecked)
  /\ Logins!OriginalsStay
\* Every call comes back unless the sign-ins run out, and what it records is exported unless the
\* emitter is closed; one thread and one call stand for all, which differ in name only.
CallsAndCountsArrive ==
  setting \in {"threads", "telemetry"} =>
    ((\/ setting = "threads" /\ At("main", "ensure")
      \/ setting = "telemetry" /\ caller["a"] = "wake")
     ~> (\/ setting = "threads" /\ (At("main", "idle") \/ ~CanSignIn)
         \/ setting = "telemetry" /\ (closed \/ accepted["a"] > 0)))

\* A command that tells of saved output, of a deployment that goes on or of the schema's jobs tells
\* the truth, wherever Ctrl-C or an error ends it; a log that is followed ends with its job, and
\* without an error if that had ended.
CommandsTellTheTruth ==
  /\ setting = "command" => Command!HintsAreTrue /\ Command!OrdersAreShown /\ Command!ListsMissNone
  /\ setting = "stream" => Follower!StreamsEndRight

\* "Do not reuse a Connector session inherited across ``fork()``" (_ensure_process).
ForkedChildIsApart == setting = "fork" => ChildLeavesParentsSession
\* "Yield the id of a running job, releasing its GPUs on the way out" (running_job).
GPUsComeBack == setting = "one" => One!GPUsAreReleased
================================================================================
