----------------------------- MODULE MCTraining ------------------------------
(* What a training program does, for TLC, in settings that are explored side  *)
(* by side: where it connects (ConnectionChoice), the requests of a loop       *)
(* (TrainingRequests), the loops of the recipes run again on one job           *)
(* (TrainingLoops), one batch of the distillation's episodes (Episodes), the   *)
(* plan and the job that is built (CapPlanning, JobConfig), and its calls to   *)
(* sampling sub-jobs (SamplingCalls).                                          *)
EXTENDS TrainingRequests, TLC
CONSTANT Null
VARIABLES setting,
  recipe, run, at, step, pool, cursor, taken, rolls, job, evals, synced, faults,   \* TrainingLoops
  episode, turn, stage, requests, answers, collected, kept, made,                  \* Episodes
  sources, old,                                                                    \* ConnectionChoice
  demand, plan,                                                                    \* CapPlanning
  ask, body, left, build, given, again, serve,                                     \* JobConfig
  listed, lengths, asked, stands, sending, chunk, attempt, held, executed, known, ended, raw, failures  \* SamplingCalls

\* Call i of the loop is one of these operations, of one of these many chunks.  The
\* first is a step, since no row has a tag before one; the second any operation, a
\* split one long enough that a lost group can miss a middle chunk; the last is a
\* call whose tag can be wrong.
Loop == <<[op |-> {"step"}, size |-> {1}],
          [op |-> Ops, size |-> {1, MaxChunks}],
          [op |-> {"fwd_bwd"}, size |-> {1}]>>

FollowsLoop ==
    cur' # cur => op'[cur'] \in Loop[cur'].op /\ size'[cur'] \in Loop[cur'].size

Loops == INSTANCE TrainingLoops WITH
  Recipes <- {"sft", "rl", "distillation"}, Problems <- 4, PerBatch <- 2, Group <- 1, MaxSteps <- 3,
  EvalEvery <- 2, Orders <- {<<1, 2, 3, 4>>, <<3, 1, 4, 2>>}, MaxRuns <- 2, MaxFaults <- 1
Played == INSTANCE Episodes WITH
  Problems <- 1, Repeats <- 2, First <- << <<1>>, <<2>> >>, Header <- <<0, 1>>, TurnMax <- 2,
  MaxTurns <- 3, MaxSeq <- 7, PerRequest <- 1,
  at <- stage, results <- collected, rows <- made
\* An old file that leaves the token to the shell, one that leaves the database, and a whole one.
Choice == INSTANCE ConnectionChoice WITH
  OldFiles <- {{"host", "database"}, {"host", "pat"}, {"host", "pat", "database"}}, MaxSources <- 5,
  s <- sources, fileKeys <- old

Caps == INSTANCE CapPlanning WITH
  Sizes <- {1, 2, 4}, Factors <- {[num |-> 1, den |-> 1], [num |-> 3, den |-> 2]}, IdsPerByte <- 2, Grains <- 5,
  request <- demand

OfMoe(more) == more @@ [model |-> "moe", window |-> 2, gpus |-> 2]
Dense(window) == [model |-> "dense", window |-> window, gpus |-> 1]
Adapted(window) == [model |-> "dense", window |-> window, adapter |-> "a"]
OnlyFile(model, context, hardware, lora, kind, settings) ==
  [f \in {[key |-> [model |-> model, context |-> context, hardware |-> hardware, lora |-> lora], kind |-> kind]} |-> settings]
FileOn == [enabled |-> TRUE, cap |-> "file"]
\* An MoE model, one of its files with router replay of its own, and a dense one with an adapter.
CatalogFiles ==
  OnlyFile("moe", "standard", "h200", FALSE, "training",
           OfMoe([sp |-> 2, ep |-> 2, batch |-> 1, micro |-> 1, accumulation |-> 1]))
  @@ OnlyFile("moe", "standard", "h200", FALSE, "inference", OfMoe([tp |-> 2]))
  @@ OnlyFile("moe", "long", "h200", FALSE, "training", OfMoe([window |-> 4, gpus |-> 4, sp |-> 2, replay |-> FileOn]))
  @@ OnlyFile("moe", "long", "h200", FALSE, "inference", OfMoe([window |-> 4, gpus |-> 4, tp |-> 2, replay |-> FileOn]))
  @@ OnlyFile("dense", "standard", "h200", FALSE, "training", Dense(3))
  @@ OnlyFile("dense", "standard", "h200", FALSE, "inference", Dense(3))
  @@ OnlyFile("dense", "standard", "b200", FALSE, "inference", Dense(3))
  @@ OnlyFile("dense", "standard", "h200", TRUE, "training", Adapted(3))
  @@ OnlyFile("dense", "long", "h200", TRUE, "inference", Adapted(4))
ForTraining(settings) == [t \in {"training"} |-> settings]
ForSampling(settings) == [t \in {"sampling"} |-> settings]
ForBoth(settings) == [t \in {"training", "sampling"} |-> settings]
Overrides ==
  {ForTraining([window |-> 1]), ForTraining([gpus |-> 1]), ForTraining([adapter |-> Null]),
   ForTraining([replay |-> Null]), ForTraining([replay |-> [enabled |-> TRUE]]),
   ForSampling([replay |-> [enabled |-> FALSE]]), ForSampling([replay |-> [cap |-> "own"]]),
   ForSampling([replay |-> [mode |-> "strict"]]), ForBoth([model |-> "own"]), ForBoth([model |-> "dense"])}
Jobs == INSTANCE JobConfig WITH
  Models <- {"moe", "dense", "own"}, Listed <- {"moe", "dense"}, Moe <- {"moe"},
  Contexts <- {"standard", "long"}, Hardware <- {"h200", "b200"}, Files <- CatalogFiles,
  Layers <- Overrides, MaxLayers <- 2, Windows <- {1, 3},
  at <- build

Generate(s, ps, flat, n) == [op |-> "generate", sub |-> s, prompts |-> ps, flat |-> flat, size |-> n]
\* A prompt that fills the window, a text, and a flat list of token ids, of a sub-job or of any.
SamplingMakes ==
  {Generate("none", {2}, FALSE, 1), Generate("none", {0}, FALSE, 2), Generate("a", {0, 1}, FALSE, 2),
   Generate("a", {2}, TRUE, 1), [Generate("b", {2}, FALSE, 1) EXCEPT !.op = "stream"],
   [Generate("none", {0}, FALSE, 2) EXCEPT !.op = "forward"], [Generate("a", {0}, FALSE, 1) EXCEPT !.op = "sync"]}
Sampling == INSTANCE SamplingCalls WITH
  NumCalls <- 2, SubJobs <- {"a", "b"}, Windows <- {2}, Makes <- SamplingMakes, MaxChunks <- 2,
  Attempts <- 2, MaxFaults <- 1,
  window <- lengths, call <- asked, at <- stands, cur <- sending, idx <- chunk, tries <- attempt,
  chunks <- held, runs <- executed, ids <- known, faults <- failures

ASSUME InstancesAssumption ==
  /\ Loops!LoopsAssumption /\ Played!EpisodesAssumption /\ Choice!ChoiceAssumption
  /\ Caps!PlanningAssumption /\ Jobs!JobConfigAssumption
  /\ Sampling!CallsAssumption

requestsVars == vars
loopsVars == <<recipe, run, at, step, pool, cursor, taken, rolls, job, evals, synced, faults>>
episodesVars == <<episode, turn, stage, requests, answers, collected, kept, made>>
capsVars == <<demand, plan>>
jobsVars == <<ask, body, left, build, given, again, serve>>
samplingVars == <<listed, lengths, asked, stands, sending, chunk, attempt, held, executed, known, ended, raw, failures>>
choiceVars == <<sources, old>>
builtVars == <<choiceVars, capsVars, jobsVars, samplingVars>>
allvars == <<requestsVars, loopsVars, episodesVars, builtVars, setting>>

FirstRequest == CHOOSE q \in Caps!GeometryRequests : TRUE
FirstAsk ==
  [by |-> "catalog", kind |-> "rl", key |-> CHOOSE k \in Jobs!KnownKeys : TRUE, layers |-> <<>>,
   window |-> 0, replay |-> FALSE, other |-> Null, teacher |-> 0]
MCInit ==
  /\ setting \in {"connection", "requests", "loops", "episodes", "caps", "job", "sampling"}
  /\ Init /\ Played!Init
  /\ Choice!Init /\ (setting = "connection" \/ old = {"host", "database"})
  /\ Loops!Init /\ (setting = "loops" \/ recipe = "sft")
  /\ plan = [said |-> "nothing", value |-> 0]
  /\ IF setting = "caps" THEN Caps!Init ELSE demand = FirstRequest
  /\ body = Jobs!Nothing /\ left = <<>> /\ build = "source" /\ given = Jobs!Nothing
  /\ again = FALSE /\ serve = Jobs!NoServe
  /\ IF setting = "job" THEN Jobs!Init ELSE ask = FirstAsk
  /\ Sampling!Init /\ (setting = "sampling" \/ DOMAIN listed = {})
Requested(A) == setting = "requests" /\ A /\ UNCHANGED <<setting, loopsVars, episodesVars, builtVars>>
MCNext ==
  \/ /\ setting = "connection" /\ Choice!Next
     /\ UNCHANGED <<setting, requestsVars, loopsVars, episodesVars, capsVars, jobsVars, samplingVars>>
  \/ Requested(Next)
  \/ setting = "loops" /\ Loops!Next /\ UNCHANGED <<setting, requestsVars, episodesVars, builtVars>>
  \/ setting = "episodes" /\ Played!Next /\ UNCHANGED <<setting, requestsVars, loopsVars, builtVars>>
  \/ /\ setting = "caps" /\ Caps!Next
     /\ UNCHANGED <<setting, requestsVars, loopsVars, episodesVars, choiceVars, jobsVars, samplingVars>>
  \/ /\ setting = "job" /\ Jobs!Next
     /\ UNCHANGED <<setting, requestsVars, loopsVars, episodesVars, choiceVars, capsVars, samplingVars>>
  \/ /\ setting = "sampling" /\ Sampling!Next
     /\ UNCHANGED <<setting, requestsVars, loopsVars, episodesVars, choiceVars, capsVars, jobsVars>>
MCSpec == MCInit /\ [][MCNext]_allvars /\ WF_allvars(Requested(Submit))

\* Commands, library callers, recipes and from_configs connect to one place; what decides is not
\* what comes later in the order, and no older form decides silently.  A recipe with config= goes
\* by the file alone.
ConnectionsAgree ==
  /\ [](setting = "connection" => Choice!ProgramsAgree /\ Choice!NothingIsSilent)
  /\ Choice!LaterNeverDecides /\ Choice!OnlyTheFile
\* However a recipe's runs on a job are broken off, a batch's gradient is applied once and alone,
\* rollouts, evaluations and checkpoints are of the weights they are taken to be of, each replayed
\* capture is the batch's own, and a pass takes no problem twice.  A row of an agent's episode has
\* its own tokens' losses, scores and advantage, and no conversation outgrows a window that was
\* accepted at the start.
RecipesAreExact ==
  /\ setting = "loops" =>
       Loops!BatchesApplyOnce /\ Loops!OnPolicy /\ Loops!ReplayIsExact /\ Loops!PassesAreFair
  /\ setting = "episodes" => Played!RowsAlign /\ Played!RewardsAreOwn /\ Played!WindowsSuffice
\* What a plan says is held, fits; the job that is built has of every setting the last word that
\* was said of it, router replay whole or not at all, windows that nest, and a record that builds
\* it again; and what serves its checkpoint is what it trained.  A call to its sampling sub-jobs
\* is refused only where none would take it, runs once if it was split, and is decoded as what it
\* was by the first poll that ends.
JobsAreAsAsked ==
  /\ setting = "caps" => Caps!PlansHold
  /\ setting = "job" => Jobs!JobsAreAsAsked
  /\ setting = "sampling" => Sampling!CallsAreExact
================================================================================
