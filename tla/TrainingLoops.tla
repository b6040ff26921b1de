---------------------------- MODULE TrainingLoops ----------------------------
(***************************************************************************)
(* The training loops of the recipes (sft_quickstart, rl_quickstart and    *)
(* distillation: their runner.py, and the helpers of recipes/utils.py that *)
(* they drive a job with), run one after the other on the same job, as     *)
(* job_id= allows.  A batch is <<run, step>>; a version of the weights is  *)
(* the number of optimizer steps the job has taken; a sample id is         *)
(* <<step, n>>, as in "rl-{batch_idx}-{rollout_idx}".                      *)
(***************************************************************************)
EXTENDS Integers, Sequences, FiniteSets, SequencesExt

CONSTANTS Recipes,    \* those run here, of {"sft", "rl", "distillation"}
          Problems,   \* number of training problems
          PerBatch,   \* of them, in a batch
          Group,      \* rollouts of a problem
          MaxSteps, EvalEvery,
          Orders,     \* bound: the outcomes of rng.shuffle that are tried
          MaxRuns,    \* bound: runs on the job
          MaxFaults   \* bound: calls that raise, and step requests sent again

LoopsAssumption ==
    /\ Recipes \subseteq {"sft", "rl", "distillation"}
    /\ {Problems, PerBatch, Group, MaxSteps, EvalEvery, MaxRuns} \subseteq Nat \ {0}
    /\ MaxFaults \in Nat /\ PerBatch <= Problems
    /\ Orders # {} /\ Orders \subseteq SetToSeqs(1..Problems)

VARIABLES recipe, run, at, step,
          pool, cursor,  \* the problems in the order they are taken, and how many were
          taken,         \* history: the problems taken since the pool was made
          rolls,         \* the rollouts of the batch: the weights they are of, and which are kept
          job,           \* the service's side
          evals,         \* the evaluations logged: <<run, step, version>>
          synced,        \* history: this run has synced its sampler
          faults

vars == <<recipe, run, at, step, pool, cursor, taken, rolls, job, evals, synced, faults>>

Versions == Len(job.applied)
Ids == {<<step, n>> : n \in 1..(PerBatch * Group)}
NoRolls == [of |-> 0, kept |-> {}]
MinOf(a, b) == IF a < b THEN a ELSE b

(* total_steps: the distillation reshuffles its pool, the others take each *)
(* problem once.                                                           *)
Total == IF recipe = "distillation" THEN MaxSteps ELSE MinOf(Problems \div PerBatch, MaxSteps)

Init ==
    /\ recipe \in Recipes /\ run = 1 /\ at = "top" /\ step = 0
    /\ pool \in (IF recipe = "distillation" THEN Orders ELSE {[i \in 1..Problems |-> i]})
    /\ cursor = 0 /\ taken = <<>> /\ rolls = NoRolls
    /\ job = [applied |-> <<>>, grads |-> {}, sampler |-> 0, cache |-> [i \in {} |-> 0], saved |-> <<>>]
    /\ evals = {} /\ synced = FALSE /\ faults = 0

(* A call of the client comes back, or raises although it was handled. *)
Then(next) ==
    \/ at' = next /\ UNCHANGED faults
    \/ faults < MaxFaults /\ at' = "raised" /\ faults' = faults + 1

(* should_eval, and the two other recipes' conditions. *)
EvalDue ==
    \/ step % EvalEvery = 0
    \/ recipe = "rl" /\ step = Total - 1

(* An evaluation reads the trainer's weights in sft (heldout_nll), those   *)
(* of the sampler in the two others.                                       *)
Evaluated == <<run, step, IF recipe = "sft" THEN Versions ELSE job.sampler>>

(* The problems of a batch, from a pool that has been shuffled again if it *)
(* does not hold a whole batch any more.                                   *)
Shuffles == recipe = "distillation" /\ cursor + PerBatch > Len(pool)

(* Mutant: the pool is shuffled at every step. *)
TakeShuffled ==
    \E order \in IF recipe = "distillation" THEN Orders ELSE {pool} :
        LET from == IF Shuffles THEN 0 ELSE cursor
            batch == SubSeq(order, from + 1, from + PerBatch)
        IN  /\ pool' = order /\ cursor' = from + PerBatch
            /\ taken' = IF Shuffles THEN batch ELSE taken \o batch

Take ==
    \E order \in IF Shuffles THEN Orders ELSE {pool} :
        LET from == IF Shuffles THEN 0 ELSE cursor
            batch == SubSeq(order, from + 1, from + PerBatch)
        IN  /\ pool' = order /\ cursor' = from + PerBatch
            /\ taken' = IF Shuffles THEN batch ELSE taken \o batch

(* The head of a step. *)
Top ==
    /\ at = "top" /\ step < Total
    /\ evals' = IF EvalDue THEN evals \cup {Evaluated} ELSE evals
    /\ Take
    /\ at' = IF recipe = "sft" THEN "forward_backward" ELSE "generate"
    /\ rolls' = IF recipe = "sft" THEN [of |-> Versions, kept |-> Ids] ELSE NoRolls
    /\ UNCHANGED <<recipe, run, step, job, synced, faults>>

Captured(ids) == [i \in (DOMAIN job.cache) \cup ids |-> IF i \in ids THEN run ELSE job.cache[i]]
Without(ids) == [i \in DOMAIN job.cache \ ids |-> job.cache[i]]

(* client.generate and poll_request: the sampler answers with the weights  *)
(* it has, and captures the routing of rl's rollouts.  Groups of constant  *)
(* reward and empty rollouts are left out; the distillation goes on to its *)
(* next step when nothing is left, rl to the discard.                      *)
Generate ==
    /\ at = "generate"
    /\ \E kept \in SUBSET Ids : rolls' = [of |-> job.sampler, kept |-> kept]
    /\ job' = IF recipe = "rl" THEN [job EXCEPT !.cache = Captured(Ids)] ELSE job
    /\ Then(IF rolls'.kept # {} THEN "forward_backward"
            ELSE IF recipe = "rl" THEN "discard" ELSE "next")
    /\ UNCHANGED <<recipe, run, step, pool, cursor, taken, evals, synced>>

(* forward_backward: gradients are added up; rr_sample_ids names the       *)
(* captures that are replayed and, with rr_discard, dropped.  The          *)
(* distillation raises if the teacher's term did not cover its tokens.     *)
ForwardBackward ==
    /\ at = "forward_backward"
    /\ job' = [job EXCEPT !.grads = @ \cup {<<run, step>>},
                          !.cache = IF recipe = "rl" THEN Without(rolls.kept) ELSE @]
    /\ Then("step")
    /\ UNCHANGED <<recipe, run, step, pool, cursor, taken, rolls, evals, synced>>

(* optimizer_step; a request whose answer was lost is sent, and taken,     *)
(* again.                                                                  *)
OptimizerStep ==
    /\ at = "step"
    /\ \/ /\ job' = [job EXCEPT !.applied = Append(@, job.grads), !.grads = {}]
          /\ Then(IF recipe = "sft" THEN "next" ELSE "sync")
       \/ /\ faults < MaxFaults /\ faults' = faults + 1
          /\ job' = [job EXCEPT !.applied = @ \o <<job.grads, {}>>, !.grads = {}]
          /\ at' = IF recipe = "sft" THEN "next" ELSE "sync"
    /\ UNCHANGED <<recipe, run, step, pool, cursor, taken, rolls, evals, synced>>

(* sync_weights. *)
Sync ==
    /\ at = "sync"
    /\ job' = [job EXCEPT !.sampler = Versions]
    /\ synced' = TRUE
    /\ Then(IF recipe = "rl" THEN "discard" ELSE "next")
    /\ UNCHANGED <<recipe, run, step, pool, cursor, taken, rolls, evals>>

(* discard_router_replay of the ids that were not trained on. *)
Discard ==
    /\ at = "discard"
    /\ job' = [job EXCEPT !.cache = Without(Ids \ rolls.kept)]
    /\ IF Ids \subseteq rolls.kept THEN at' = "next" /\ UNCHANGED faults ELSE Then("next")
    /\ UNCHANGED <<recipe, run, step, pool, cursor, taken, rolls, evals, synced>>

NextStep ==
    /\ at = "next"
    /\ step' = step + 1 /\ rolls' = NoRolls /\ at' = "top"
    /\ UNCHANGED <<recipe, run, pool, cursor, taken, job, evals, synced, faults>>

(* After the last step: the last evaluation (not in rl), and               *)
(* save_example_checkpoints.                                               *)
Save ==
    /\ at = "top" /\ step = Total
    /\ evals' = IF recipe = "rl" THEN evals ELSE evals \cup {Evaluated}
    /\ job' = [job EXCEPT !.saved = Append(@, Versions)]
    /\ Then("done")
    /\ UNCHANGED <<recipe, run, step, pool, cursor, taken, rolls, synced>>

(* A call raises without having been handled; running_job leaves a job it  *)
(* attached to as it is.                                                   *)
Raise ==
    /\ at \notin {"next", "raised", "done"} /\ faults < MaxFaults
    /\ at' = "raised" /\ faults' = faults + 1
    /\ UNCHANGED <<recipe, run, step, pool, cursor, taken, rolls, job, evals, synced>>

(* The recipe is run again, attached to the same job. *)
Attach ==
    /\ at \in {"raised", "done"} /\ run < MaxRuns
    /\ run' = run + 1 /\ at' = "top" /\ step' = 0 /\ cursor' = 0 /\ taken' = <<>>
    /\ rolls' = NoRolls /\ synced' = FALSE
    /\ pool' \in (IF recipe = "distillation" THEN Orders ELSE {pool})
    /\ UNCHANGED <<recipe, job, evals, faults>>

Next ==
    \/ Top \/ Generate \/ ForwardBackward \/ OptimizerStep \/ Sync \/ Discard
    \/ NextStep \/ Save \/ Raise \/ Attach
Spec == Init /\ [][Next]_vars

Applied == UNION Range(job.applied)

(* Whatever raises or is sent twice, no batch's gradient is applied twice, *)
(* a run's batches are applied in their order, each in a step of its own,  *)
(* and one that the run has gone past is in the weights; only the gradient *)
(* that an earlier run left behind joins a batch of a later one.           *)
BatchesApplyOnce ==
    LET b(i) == job.applied[i] IN
    /\ \A i, j \in 1..Versions : \A x \in b(i), y \in b(j) :
          /\ i # j => x # y
          /\ i < j /\ x[1] = y[1] => x[2] < y[2]
          /\ i = j /\ x # y => x[1] # y[1]
    /\ at \in {"sync", "next"} /\ rolls.kept # {} => <<run, step>> \in Applied
    /\ \A g \in job.grads : g = <<run, step>> \/ g[1] < run

(* Rollouts are trained on by the weights they are of, and what an         *)
(* evaluation or a checkpoint is of has every update that came before it;  *)
(* only a run attached to a job whose sampler was left behind starts with  *)
(* older ones.                                                             *)
OnPolicy ==
    LET current == synced \/ run = 1 IN
    /\ at = "forward_backward" /\ current => rolls.of = Versions
    /\ at = "top" /\ current /\ recipe # "sft" => job.sampler = Versions
    /\ \A e \in evals : e[1] = 1 => e[3] >= Cardinality({s \in Applied : s[1] = 1 /\ s[2] < e[2]})
    /\ at = "done" => Last(job.saved) = Versions

(* Every capture that a request replays is there and is of this run's      *)
(* rollouts, and a batch leaves none of its own behind.                    *)
ReplayIsExact ==
    /\ recipe = "rl" /\ at = "forward_backward" =>
          \A i \in rolls.kept : i \in DOMAIN job.cache /\ job.cache[i] = run
    /\ at = "top" => \A i \in DOMAIN job.cache : job.cache[i] < run

(* No problem is taken twice before every other whole batch of the pool    *)
(* has been.                                                               *)
PassesAreFair == Cardinality(Range(taken)) = Len(taken)
=============================================================================
