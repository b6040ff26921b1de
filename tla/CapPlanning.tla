----------------------------- MODULE CapPlanning ------------------------------
(***************************************************************************)
(* The capacity planner for router replay (recipes/utils.py): how many     *)
(* bytes a captured rollout takes, what a training shard and a sampling    *)
(* worker must be able to hold, and how far vLLM's share of a GPU is       *)
(* lowered for it.  A factor is an exact fraction, as the planner's        *)
(* Fractions are; a utilization is counted in grains, the distance of two  *)
(* neighbouring floats.                                                    *)
(***************************************************************************)
EXTENDS Integers, TLAPS

CONSTANTS Sizes,      \* batches, GPUs, parallel sizes, captures: bound
          Factors,    \* over-generation, skew and safety: bound
          IdsPerByte, \* expert ids one byte can tell apart (256)
          Grains      \* grains in a utilization of 1

PlanningAssumption ==
    /\ Sizes \subseteq Nat \ {0}
    /\ \A f \in Factors : f.num \in Nat /\ f.den \in Nat \ {0} /\ f.num >= f.den
    /\ IdsPerByte \in Nat \ {0, 1} /\ Grains \in Nat \ {0}

VARIABLES request,  \* what is to be planned
          plan      \* what the planner said of it

vars == <<request, plan>>

CeilDiv(a, b) == (a + b - 1) \div b
CeilTimes(n, f) == CeilDiv(n * f.num, f.den)
Unset == 0
Or(value, default) == IF value = Unset THEN default ELSE value
AtLeast1(n) == IF n = 0 THEN 1 ELSE n

(* moe_geometry_from_config: counts holds every expert count the model's   *)
(* config and the caller give.                                             *)
GeometryRequests ==
    [kind : {"geometry"}, layers : Sizes, topk : Sizes, counts : SUBSET (Sizes \cup {IdsPerByte * IdsPerByte})]
MaxExperts == IdsPerByte * IdsPerByte
GeometryFits(q) ==
    /\ q.counts # {} /\ \A m, n \in q.counts : m = n
    /\ q.topk <= MaxExperts
    /\ \A n \in q.counts : n <= MaxExperts /\ q.topk <= n
DtypeBytes(count) == IF count <= IdsPerByte THEN 1 ELSE 2

(* derive_backlog_rollouts; the three terms are those its docstring names. *)
Backlog(q) == Or(q.inflight, q.batch) + CeilTimes(q.batch, q.over) + q.batch * AtLeast1(q.depth)

(* derive_num_sampling_workers; width is the product of the two sizes. *)
SamplingRequests ==
    [kind : {"sampling"}, batch : Sizes, inflight : Sizes \cup {Unset}, over : Factors, depth : {0, 2},
     gpus : Sizes \cup {Unset}, width : Sizes, override : Sizes \cup {Unset},
     entry : Sizes, skew : Factors, safety : Factors]
Replicas(q) == q.gpus \div q.width
SamplingFits(q) ==
    q.gpus = Unset \/ (q.gpus % q.width = 0 /\ (q.override = Unset \/ q.override <= Replicas(q)))
Workers(q) == IF q.gpus = Unset THEN Or(q.override, 1) ELSE Or(q.override, Replicas(q))

(* plan_sampling_cache_bytes: first whole rollouts, then whole bytes. *)
PerWorker(q) == CeilDiv(Backlog(q) * q.skew.num, Workers(q) * q.skew.den)
SamplingBytes(q) == CeilTimes(PerWorker(q) * q.entry, q.safety)

(* derive_dp_size, derive_resident_rows and plan_training_cache_bytes. *)
TrainingRequests ==
    [kind : {"training"}, batch : Sizes, gpus : Sizes \cup {Unset}, sp : Sizes, entry : Sizes, safety : Factors]
TrainingFits(q) == q.gpus = Unset \/ q.gpus % q.sp = 0
DpSize(q) == IF q.gpus = Unset THEN 1 ELSE q.gpus \div q.sp
ResidentRows(q) == CeilDiv(q.batch, DpSize(q))
TrainingBytes(q) == CeilTimes(ResidentRows(q) * q.entry, q.safety)

(* plan_vllm_gpu_memory_utilization: cache of total bytes is reserved; the *)
(* rest of the base, rounded down to a float, is what vLLM may take.       *)
MemoryRequests ==
    [kind : {"memory"}, cache : Sizes, total : Sizes, base : 1..Grains, most : 1..Grains, least : 1..Grains]
MemoryFits(q) ==
    /\ q.least <= q.base
    /\ q.cache * Grains <= q.most * q.total
    /\ q.base * q.total - q.cache * Grains >= q.least * q.total
Utilization(q) == (q.base * q.total - q.cache * Grains) \div q.total

Requests == GeometryRequests \cup SamplingRequests \cup TrainingRequests \cup MemoryRequests

Init == request \in Requests /\ plan = [said |-> "nothing", value |-> 0]

Answer(kind, fits, value) ==
    /\ plan.said = "nothing" /\ request.kind = kind
    /\ plan' = (IF fits THEN [said |-> "plan", value |-> value] ELSE [said |-> "refused", value |-> 0])
    /\ UNCHANGED request
Geometry == Answer("geometry", GeometryFits(request), DtypeBytes(CHOOSE n \in request.counts : TRUE))
Sampling == Answer("sampling", SamplingFits(request), SamplingBytes(request))
Training == Answer("training", TrainingFits(request), TrainingBytes(request))
Memory == Answer("memory", MemoryFits(request), Utilization(request))

Next == Geometry \/ Sampling \/ Training \/ Memory
Spec == Init /\ [][Next]_vars

Planned(kind) == plan.said = "plan" /\ request.kind = kind

(* A type holds every expert id of the model it was chosen for, and so many *)
(* as are taken of a token are different ones.                              *)
TypesHoldIds ==
    Planned("geometry") =>
        \A n \in request.counts :
            /\ n <= (IF plan.value = 1 THEN IdsPerByte ELSE MaxExperts)
            /\ request.topk <= n

(* Whatever the worker, as long as none has more than the skew times its    *)
(* share of the backlog - a share of the workers there are, if that is      *)
(* known, and not of those it was planned for - its captures fit.           *)
RealWorkers(q) == IF q.gpus = Unset THEN Workers(q) ELSE Replicas(q)
SamplingHolds ==
    Planned("sampling") =>
        \A held \in 0..Backlog(request) :
            held * RealWorkers(request) * request.skew.den <= Backlog(request) * request.skew.num
                => held * request.entry * request.safety.num <= plan.value * request.safety.den

(* The rows of the fullest shard of an even split fit, and the shards are   *)
(* of whole groups of GPUs.                                                 *)
TrainingHolds ==
    Planned("training") =>
        /\ \A rows \in 1..request.batch :
            (rows - 1) * DpSize(request) < request.batch
                => rows * request.entry * request.safety.num <= plan.value * request.safety.den
        /\ request.gpus # Unset => DpSize(request) * request.sp = request.gpus

(* vLLM's part and the cache take no more than the base, vLLM is left its   *)
(* least, and gives up no grain more than it must.                          *)
MemoryHolds ==
    Planned("memory") =>
        /\ plan.value * request.total + request.cache * Grains <= request.base * request.total
        /\ plan.value >= request.least
        /\ (plan.value + 1) * request.total + request.cache * Grains > request.base * request.total

(* What is planned for is what fits. *)
PlansHold == TypesHoldIds /\ SamplingHolds /\ TrainingHolds /\ MemoryHolds

------------------------------------------------------------------------------
(* What the capacity planner's numbers promise, for every size and factor.    *)

(* The quotient and what it leaves over. *)
LEMMA DivBounds ==
  ASSUME NEW a \in Int, NEW b \in Nat \ {0}
  PROVE  (a \div b) \in Int /\ b * (a \div b) <= a /\ a < b * (a \div b) + b
  OBVIOUS

(* Rounding up gives the least whole number that is enough: _ceil_fraction. *)
LEMMA CeilBounds ==
  ASSUME NEW a \in Nat, NEW b \in Nat \ {0}
  PROVE  CeilDiv(a, b) \in Nat /\ b * CeilDiv(a, b) >= a /\ b * CeilDiv(a, b) < a + b
<1> DEFINE q == (a + b - 1) \div b
<1>1. (a + b - 1) \in Int
  OBVIOUS
<1>2. q \in Int /\ b * q <= a + b - 1 /\ a + b - 1 < b * q + b
  BY <1>1, DivBounds
<1>3. q >= 0
  OBVIOUS
<1> QED
  BY <1>2, <1>3 DEF CeilDiv

(* A product is monotone in a factor. *)
LEMMA Monotone ==
  ASSUME NEW a \in Nat, NEW b \in Nat, NEW c \in Nat, a <= b
  PROVE  a * c <= b * c
  OBVIOUS

LEMMA Distribute ==
  ASSUME NEW a \in Int, NEW b \in Int
  PROVE  a * b + a = a * (b + 1)
  OBVIOUS

(* A common factor that is not zero can be taken from both sides. *)
LEMMA Cancel ==
  ASSUME NEW a \in Nat, NEW b \in Nat, NEW c \in Nat \ {0}, a * c <= b * c
  PROVE  a <= b
<1>1. SUFFICES ASSUME a > b PROVE FALSE
  OBVIOUS
<1>2. (b + 1) * c <= a * c
  BY <1>1, Monotone
<1>3. (b + 1) * c = b * c + c
  OBVIOUS
<1> QED
  BY <1>2, <1>3

-----------------------------------------------------------------------------
(* What the requests are made of.                                            *)
LEMMA SizesAreNat ==
  ASSUME PlanningAssumption
  PROVE  /\ \A n \in Sizes : n \in Nat \ {0}
         /\ \A n \in Sizes \cup {Unset} : n \in Nat
         /\ \A f \in Factors : f.num \in Nat \ {0} /\ f.den \in Nat \ {0}
  BY DEF PlanningAssumption, Unset

LEMMA CeilTimesBounds ==
  ASSUME NEW n \in Nat, NEW f, f.num \in Nat, f.den \in Nat \ {0}
  PROVE  CeilTimes(n, f) \in Nat /\ n * f.num <= CeilTimes(n, f) * f.den
<1>1. n * f.num \in Nat
  OBVIOUS
<1> HIDE DEF CeilDiv
<1>2. CeilDiv(n * f.num, f.den) \in Nat /\ f.den * CeilDiv(n * f.num, f.den) >= n * f.num
  BY <1>1, CeilBounds
<1> QED
  BY <1>2 DEF CeilTimes

(* Bytes planned for some things of a size hold fewer of them. *)
LEMMA FewerFit ==
  ASSUME NEW held \in Nat, NEW most \in Nat, held <= most, NEW entry \in Nat,
         NEW f, f.num \in Nat, f.den \in Nat \ {0}
  PROVE  held * entry * f.num <= CeilTimes(most * entry, f) * f.den
<1>1. held * entry <= most * entry
  BY Monotone
<1>2. held * entry \in Nat /\ most * entry \in Nat
  OBVIOUS
<1>3. (held * entry) * f.num <= (most * entry) * f.num
  BY <1>1, <1>2, Monotone
<1>4. CeilTimes(most * entry, f) \in Nat /\ (most * entry) * f.num <= CeilTimes(most * entry, f) * f.den
  BY <1>2, CeilTimesBounds
<1>5. (held * entry) * f.num \in Nat /\ (most * entry) * f.num \in Nat /\ CeilTimes(most * entry, f) * f.den \in Nat
  BY <1>2, <1>4
<1> QED
  BY <1>3, <1>4, <1>5

(* An exact division has a quotient of at least one. *)
LEMMA ExactDivision ==
  ASSUME NEW a \in Nat \ {0}, NEW b \in Nat \ {0}, a % b = 0
  PROVE  a \div b \in Nat \ {0} /\ (a \div b) * b = a
<1>1. a = (b * (a \div b)) + (a % b) /\ a \div b \in Int
  OBVIOUS
<1>2. a \div b # 0
  BY <1>1
<1>3. a \div b >= 0
  OBVIOUS
<1> QED
  BY <1>1, <1>2, <1>3

-----------------------------------------------------------------------------
LEMMA TrainingFits0 ==
  ASSUME PlanningAssumption, NEW q \in TrainingRequests, TrainingFits(q)
  PROVE  /\ DpSize(q) \in Nat \ {0}
         /\ q.gpus # Unset => DpSize(q) * q.sp = q.gpus
<1>1. q.gpus \in Nat /\ q.sp \in Nat \ {0}
  BY SizesAreNat DEF TrainingRequests
<1>2. CASE q.gpus = Unset
  BY <1>2 DEF DpSize
<1>3. CASE q.gpus # Unset
  <2>1. q.gpus \in Nat \ {0} /\ q.gpus % q.sp = 0
    BY <1>1, <1>3 DEF Unset, TrainingFits
  <2> QED
    BY <2>1, <1>1, <1>3, ExactDivision DEF DpSize
<1> QED
  BY <1>2, <1>3

(* An even split's fullest shard has no more rows than are planned for. *)
LEMMA TrainingPlan ==
  ASSUME PlanningAssumption, NEW q \in TrainingRequests, TrainingFits(q),
         NEW rows \in 1..q.batch, (rows - 1) * DpSize(q) < q.batch
  PROVE  rows * q.entry * q.safety.num <= TrainingBytes(q) * q.safety.den
<1>1. /\ q.batch \in Nat \ {0} /\ q.entry \in Nat \ {0}
      /\ q.safety.num \in Nat \ {0} /\ q.safety.den \in Nat \ {0}
  BY SizesAreNat DEF TrainingRequests
<1>2. DpSize(q) \in Nat \ {0}
  BY TrainingFits0
<1>3. rows \in Nat /\ rows - 1 \in Nat
  OBVIOUS
<1>4. ResidentRows(q) \in Nat /\ DpSize(q) * ResidentRows(q) >= q.batch
  BY <1>1, <1>2, CeilBounds DEF ResidentRows
<1>5. rows <= ResidentRows(q)
  <2>1. SUFFICES ASSUME ResidentRows(q) <= rows - 1 PROVE FALSE
    BY <1>3, <1>4
  <2>2. ResidentRows(q) * DpSize(q) <= (rows - 1) * DpSize(q)
    BY <2>1, <1>2, <1>3, <1>4, Monotone
  <2>3. ResidentRows(q) * DpSize(q) = DpSize(q) * ResidentRows(q)
    BY <1>2, <1>4
  <2>4. (rows - 1) * DpSize(q) \in Nat /\ DpSize(q) * ResidentRows(q) \in Nat
    BY <1>2, <1>3, <1>4
  <2> QED
    BY <2>2, <2>3, <2>4, <1>1, <1>4
<1> QED
  BY <1>1, <1>3, <1>4, <1>5, FewerFit DEF TrainingBytes

-----------------------------------------------------------------------------
LEMMA WorkersAreThere ==
  ASSUME PlanningAssumption, NEW q \in SamplingRequests, SamplingFits(q)
  PROVE  Workers(q) \in Nat \ {0} /\ RealWorkers(q) \in Nat \ {0} /\ Workers(q) <= RealWorkers(q)
<1>1. q.gpus \in Nat /\ q.width \in Nat \ {0} /\ q.override \in Nat
  BY SizesAreNat DEF SamplingRequests
<1>2. CASE q.gpus = Unset
  <2>1. Workers(q) \in Nat \ {0} /\ RealWorkers(q) = Workers(q)
    BY <1>1, <1>2 DEF Workers, RealWorkers, Or, Unset
  <2> QED
    BY <2>1
<1>3. CASE q.gpus # Unset
  <2>1. q.gpus \in Nat \ {0} /\ q.gpus % q.width = 0 /\ (q.override = Unset \/ q.override <= Replicas(q))
    BY <1>1, <1>3 DEF Unset, SamplingFits
  <2>2. Replicas(q) \in Nat \ {0}
    BY <2>1, <1>1, ExactDivision DEF Replicas
  <2> QED
    BY <2>1, <2>2, <1>1, <1>3 DEF Workers, RealWorkers, Or, Unset
<1> QED
  BY <1>2, <1>3

LEMMA BacklogIsNat ==
  ASSUME PlanningAssumption, NEW q \in SamplingRequests
  PROVE  Backlog(q) \in Nat
<1>1. /\ q.batch \in Nat /\ q.inflight \in Nat /\ q.depth \in Nat
      /\ q.over.num \in Nat /\ q.over.den \in Nat \ {0}
  BY SizesAreNat DEF SamplingRequests
<1>2. CeilTimes(q.batch, q.over) \in Nat
  BY <1>1, CeilTimesBounds
<1>3. Or(q.inflight, q.batch) \in Nat /\ AtLeast1(q.depth) \in Nat
  BY <1>1 DEF Or, AtLeast1
<1>4. q.batch * AtLeast1(q.depth) \in Nat
  BY <1>1, <1>3
<1> QED
  BY <1>2, <1>3, <1>4 DEF Backlog

(* No worker within the skew holds more rollouts than are planned for one. *)
LEMMA SamplingPlan ==
  ASSUME PlanningAssumption, NEW q \in SamplingRequests, SamplingFits(q),
         NEW held \in 0..Backlog(q),
         held * RealWorkers(q) * q.skew.den <= Backlog(q) * q.skew.num
  PROVE  held * q.entry * q.safety.num <= SamplingBytes(q) * q.safety.den
<1>1. /\ q.entry \in Nat \ {0}
      /\ q.safety.num \in Nat \ {0} /\ q.safety.den \in Nat \ {0}
      /\ q.skew.num \in Nat \ {0} /\ q.skew.den \in Nat \ {0}
  BY SizesAreNat DEF SamplingRequests
<1>2. Workers(q) \in Nat \ {0} /\ RealWorkers(q) \in Nat \ {0} /\ Workers(q) <= RealWorkers(q)
  BY WorkersAreThere
<1>3. Backlog(q) \in Nat /\ held \in Nat
  BY BacklogIsNat
<1> DEFINE share == Workers(q) * q.skew.den
<1>4. share \in Nat \ {0} /\ Backlog(q) * q.skew.num \in Nat
  BY <1>1, <1>2, <1>3
<1>5. PerWorker(q) \in Nat /\ share * PerWorker(q) >= Backlog(q) * q.skew.num
  <2> HIDE DEF share
  <2>1. CeilDiv(Backlog(q) * q.skew.num, share) \in Nat
        /\ share * CeilDiv(Backlog(q) * q.skew.num, share) >= Backlog(q) * q.skew.num
    BY <1>4, CeilBounds
  <2> QED
    BY <2>1 DEF PerWorker, share
<1>6. held * share <= held * RealWorkers(q) * q.skew.den
  <2>1. Workers(q) * q.skew.den <= RealWorkers(q) * q.skew.den
    BY <1>1, <1>2, Monotone
  <2>2. RealWorkers(q) * q.skew.den \in Nat
    BY <1>1, <1>2
  <2>3. (Workers(q) * q.skew.den) * held <= (RealWorkers(q) * q.skew.den) * held
    BY <2>1, <2>2, <1>3, <1>4, Monotone
  <2> QED
    BY <2>3, <1>1, <1>2, <1>3
<1>7. held * share <= PerWorker(q) * share
  <2>1. held * share \in Nat /\ held * RealWorkers(q) * q.skew.den \in Nat /\ share * PerWorker(q) \in Nat
    BY <1>1, <1>2, <1>3, <1>4, <1>5
  <2>2. PerWorker(q) * share = share * PerWorker(q)
    BY <1>4, <1>5
  <2> HIDE DEF share
  <2> QED
    BY <2>1, <2>2, <1>4, <1>5, <1>6
<1>8. held <= PerWorker(q)
  <2> HIDE DEF share
  <2> QED
    BY <1>3, <1>4, <1>5, <1>7, Cancel
<1> QED
  BY <1>1, <1>3, <1>5, <1>8, FewerFit DEF SamplingBytes

-----------------------------------------------------------------------------
(* A quotient rounded down is no less than what the number is a multiple of. *)
LEMMA LeastIsLeft ==
  ASSUME NEW a \in Int, NEW b \in Nat \ {0}, NEW q \in Int, NEW least \in Nat,
         a < b * q + b, a >= least * b
  PROVE  q >= least
<1>1. SUFFICES ASSUME q + 1 <= least PROVE FALSE
  OBVIOUS
<1>2. b * q + b = b * (q + 1)
  BY Distribute
<1>3. b * (q + 1) <= b * least
  BY <1>1
<1> QED
  BY <1>2, <1>3

(* vLLM's share and the cache fit in the base together. *)
LEMMA MemoryPlan ==
  ASSUME PlanningAssumption, NEW q \in MemoryRequests, MemoryFits(q)
  PROVE  /\ Utilization(q) * q.total + q.cache * Grains <= q.base * q.total
         /\ Utilization(q) >= q.least
         /\ (Utilization(q) + 1) * q.total + q.cache * Grains > q.base * q.total
<1>1. /\ q.cache \in Nat \ {0} /\ q.total \in Nat \ {0} /\ Grains \in Nat \ {0}
      /\ q.base \in Nat /\ q.least \in Nat
  <2>1. /\ q.cache \in Sizes /\ q.total \in Sizes /\ Grains \in Nat \ {0}
        /\ q.base \in 1..Grains /\ q.least \in 1..Grains
    BY DEF MemoryRequests, PlanningAssumption
  <2> QED
    BY <2>1, SizesAreNat
<1> DEFINE rest == q.base * q.total - q.cache * Grains
           util == rest \div q.total
<1>2. q.base * q.total \in Int /\ q.cache * Grains \in Int /\ rest \in Int
  BY <1>1
<1>3. util \in Int /\ q.total * util <= rest /\ rest < q.total * util + q.total
  <2> HIDE DEF rest
  <2> QED
    BY <1>1, <1>2, DivBounds
<1>4. rest >= q.least * q.total
  BY DEF MemoryFits
<1>5. util >= q.least
  <2> HIDE DEF rest, util
  <2> QED
    BY <1>1, <1>2, <1>3, <1>4, LeastIsLeft
<1>6. q.total * util = util * q.total /\ q.total * util + q.total = (util + 1) * q.total
      /\ util * q.total \in Int
  <2> HIDE DEF rest, util
  <2> QED
    BY <1>1, <1>3
<1>7. /\ util * q.total + q.cache * Grains <= q.base * q.total
      /\ (util + 1) * q.total + q.cache * Grains > q.base * q.total
  <2>1. util * q.total <= rest /\ rest < (util + 1) * q.total
    BY <1>3, <1>6
  <2>2. (util + 1) * q.total \in Int
    BY <1>3, <1>1
  <2> HIDE DEF util
  <2> QED
    BY <2>1, <2>2, <1>2, <1>3, <1>6
<1> QED
  BY <1>5, <1>7 DEF Utilization

-----------------------------------------------------------------------------
(* A plan that was made is the one of the request it was made for. *)
PlanIsTheAnswer ==
    /\ request \in Requests
    /\ plan.said = "plan" =>
        \/ /\ request.kind = "geometry" /\ request \in GeometryRequests /\ GeometryFits(request)
           /\ plan.value = DtypeBytes(CHOOSE n \in request.counts : TRUE)
        \/ /\ request.kind = "sampling" /\ request \in SamplingRequests /\ SamplingFits(request)
           /\ plan.value = SamplingBytes(request)
        \/ /\ request.kind = "training" /\ request \in TrainingRequests /\ TrainingFits(request)
           /\ plan.value = TrainingBytes(request)
        \/ /\ request.kind = "memory" /\ request \in MemoryRequests /\ MemoryFits(request)
           /\ plan.value = Utilization(request)

LEMMA KindsAreApart ==
  ASSUME request \in Requests
  PROVE  /\ request.kind = "geometry" => request \in GeometryRequests
         /\ request.kind = "sampling" => request \in SamplingRequests
         /\ request.kind = "training" => request \in TrainingRequests
         /\ request.kind = "memory" => request \in MemoryRequests
  BY DEF Requests, GeometryRequests, SamplingRequests, TrainingRequests, MemoryRequests

LEMMA InitAnswers == Init => PlanIsTheAnswer
  BY DEF Init, PlanIsTheAnswer

LEMMA NextAnswers == PlanIsTheAnswer /\ [Next]_vars => PlanIsTheAnswer'
<1>1. SUFFICES ASSUME PlanIsTheAnswer, [Next]_vars PROVE PlanIsTheAnswer'
  OBVIOUS
<1>2. request \in Requests
  BY <1>1 DEF PlanIsTheAnswer
<1>3. CASE Geometry
  <2>1. request' = request /\ request.kind = "geometry" /\ request \in GeometryRequests
    BY <1>2, <1>3, KindsAreApart DEF Geometry, Answer
  <2>2. plan'.said = "plan" =>
            GeometryFits(request) /\ plan'.value = DtypeBytes(CHOOSE n \in request.counts : TRUE)
    BY <1>3 DEF Geometry, Answer
  <2> QED
    BY <2>1, <2>2, <1>2 DEF PlanIsTheAnswer
<1>4. CASE Sampling
  <2>1. request' = request /\ request.kind = "sampling" /\ request \in SamplingRequests
    BY <1>2, <1>4, KindsAreApart DEF Sampling, Answer
  <2>2. plan'.said = "plan" => SamplingFits(request) /\ plan'.value = SamplingBytes(request)
    BY <1>4 DEF Sampling, Answer
  <2> QED
    BY <2>1, <2>2, <1>2 DEF PlanIsTheAnswer
<1>5. CASE Training
  <2>1. request' = request /\ request.kind = "training" /\ request \in TrainingRequests
    BY <1>2, <1>5, KindsAreApart DEF Training, Answer
  <2>2. plan'.said = "plan" => TrainingFits(request) /\ plan'.value = TrainingBytes(request)
    BY <1>5 DEF Training, Answer
  <2> QED
    BY <2>1, <2>2, <1>2 DEF PlanIsTheAnswer
<1>6. CASE Memory
  <2>1. request' = request /\ request.kind = "memory" /\ request \in MemoryRequests
    BY <1>2, <1>6, KindsAreApart DEF Memory, Answer
  <2>2. plan'.said = "plan" => MemoryFits(request) /\ plan'.value = Utilization(request)
    BY <1>6 DEF Memory, Answer
  <2> QED
    BY <2>1, <2>2, <1>2 DEF PlanIsTheAnswer
<1>7. CASE UNCHANGED vars
  BY <1>1, <1>7 DEF vars, PlanIsTheAnswer
<1> QED
  BY <1>1, <1>3, <1>4, <1>5, <1>6, <1>7 DEF Next

-----------------------------------------------------------------------------
LEMMA SamplingIsHeld ==
  ASSUME PlanningAssumption, PlanIsTheAnswer PROVE SamplingHolds
<1>1. SUFFICES ASSUME Planned("sampling"), NEW held \in 0..Backlog(request),
                      held * RealWorkers(request) * request.skew.den <= Backlog(request) * request.skew.num
               PROVE  held * request.entry * request.safety.num <= plan.value * request.safety.den
  BY DEF SamplingHolds
<1>2. request \in SamplingRequests /\ SamplingFits(request) /\ plan.value = SamplingBytes(request)
  BY <1>1 DEF Planned, PlanIsTheAnswer
<1> QED
  BY <1>1, <1>2, SamplingPlan

LEMMA TrainingIsHeld ==
  ASSUME PlanningAssumption, PlanIsTheAnswer PROVE TrainingHolds
<1>1. SUFFICES ASSUME Planned("training")
      PROVE /\ \A rows \in 1..request.batch :
                (rows - 1) * DpSize(request) < request.batch
                    => rows * request.entry * request.safety.num <= plan.value * request.safety.den
            /\ request.gpus # Unset => DpSize(request) * request.sp = request.gpus
  BY DEF TrainingHolds
<1>2. request \in TrainingRequests /\ TrainingFits(request) /\ plan.value = TrainingBytes(request)
  BY <1>1 DEF Planned, PlanIsTheAnswer
<1> QED
  BY <1>2, TrainingPlan, TrainingFits0

LEMMA MemoryIsHeld ==
  ASSUME PlanningAssumption, PlanIsTheAnswer PROVE MemoryHolds
<1>1. SUFFICES ASSUME Planned("memory")
      PROVE /\ plan.value * request.total + request.cache * Grains <= request.base * request.total
            /\ plan.value >= request.least
            /\ (plan.value + 1) * request.total + request.cache * Grains > request.base * request.total
  BY DEF MemoryHolds
<1>2. request \in MemoryRequests /\ MemoryFits(request) /\ plan.value = Utilization(request)
  BY <1>1 DEF Planned, PlanIsTheAnswer
<1> QED
  BY <1>2, MemoryPlan

LEMMA IdsAreHeld ==
  ASSUME PlanningAssumption, PlanIsTheAnswer PROVE TypesHoldIds
<1>1. SUFFICES ASSUME Planned("geometry"), NEW n \in request.counts
               PROVE  n <= (IF plan.value = 1 THEN IdsPerByte ELSE MaxExperts) /\ request.topk <= n
  BY DEF TypesHoldIds
<1>2. request \in GeometryRequests /\ GeometryFits(request)
      /\ plan.value = DtypeBytes(CHOOSE m \in request.counts : TRUE)
  BY <1>1 DEF Planned, PlanIsTheAnswer
<1>3. request.topk <= n /\ n <= MaxExperts
  BY <1>2 DEF GeometryFits
<1>4. (CHOOSE m \in request.counts : TRUE) = n
  BY <1>2 DEF GeometryFits
<1>5. plan.value = DtypeBytes(n)
  BY <1>2, <1>4
<1> QED
  BY <1>3, <1>5 DEF DtypeBytes

(* Every placement of the backlog within the skew, every even split of a    *)
(* batch, every expert id and every GPU's memory fits what was planned.     *)
THEOREM PlansAlwaysHold == ASSUME PlanningAssumption PROVE Spec => []PlansHold
<1>1. PlanIsTheAnswer => PlansHold
  BY SamplingIsHeld, TrainingIsHeld, MemoryIsHeld, IdsAreHeld DEF PlansHold
<1> QED
  BY <1>1, InitAnswers, NextAnswers, PTL DEF Spec
================================================================================
