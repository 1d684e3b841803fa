--------------------------- MODULE Recommendations ---------------------------
(***************************************************************************)
(* backend/modules: what rightsizer.py, spot_optimizer.py and              *)
(* ml_model_server.py compute from the use of a node, the spot prices and  *)
(* the interruptions so far.                                               *)
(*                                                                         *)
(* The functions change nothing: each is an operator, and a step of the    *)
(* specification is one call with one input.  Utilizations are whole       *)
(* percents, prices and risks units of 0.0001, scores of 0.00001.          *)
(*                                                                         *)
(* The migration plan of bin_packer.py and the opportunities and           *)
(* projection of spot_optimizer.py are not here: their queries filter on   *)
(* Instance.deleted_at, a column that does not exist, so they raise before *)
(* they compute anything.  Of bin_packer.py only the table of capacities   *)
(* is used, the fuller one of two, to judge the right-sizer by.            *)
(***************************************************************************)
EXTENDS Integers, Sequences, FiniteSets, Arrangement, NoneValue

CONSTANTS
    Utilizations,   \* the utilizations of the node that is to be resized
    PoolList,       \* pairs of instance type and zone, in order of the loops
    Cached,         \* prices the cache may hold, None if it has none
    Histories       \* numbers of interruptions, None if none was counted

ASSUME PoolListAssumption == PoolList \in Seq({PoolList[i] : i \in DOMAIN PoolList})
ASSUME CachedAssumption == Cached \subseteq Nat \cup {None}
ASSUME UtilizationsAssumption == Utilizations \subseteq Nat
ASSUME HistoriesAssumption == Histories \subseteq Nat \cup {None}

VARIABLES question, result

moduleVars == <<question, result>>

Smaller(a, b) == IF a < b THEN a ELSE b

-----------------------------------------------------------------------------
\* rightsizer.py

Types == {"t3.medium", "c5.large", "c5.xlarge", "c5.2xlarge", "m5.large",
          "m5.xlarge", "m5.2xlarge", "r5.large", "r5.xlarge", "r5.2xlarge"}

\* The table of bin_packer.py has every type that rightsizer.py names.
PackerCapacity(type) ==
    LET cpu == [t \in Types |->
                  CASE t \in {"c5.xlarge", "m5.xlarge", "r5.xlarge"} -> 4
                    [] t \in {"c5.2xlarge", "m5.2xlarge", "r5.2xlarge"} -> 8
                    [] OTHER -> 2]
        perCpu == [t \in Types |->
                     CASE t \in {"m5.large", "m5.xlarge", "m5.2xlarge"} -> 4
                       [] t \in {"r5.large", "r5.xlarge", "r5.2xlarge"} -> 8
                       [] OTHER -> 2]
    IN [cpu |-> cpu[type], mem |-> cpu[type] * perCpu[type]]

Tabled == Types \ {"c5.2xlarge", "r5.2xlarge"}

\* Two types of its own downsize table are missing in that of rightsizer.
SizerCapacity(type) ==
    IF type \in Tabled THEN PackerCapacity(type) ELSE [cpu |-> 4, mem |-> 16]

Downsize == [t \in {"m5.2xlarge", "m5.xlarge", "c5.2xlarge", "c5.xlarge",
                    "r5.2xlarge", "r5.xlarge"} |->
               CASE t = "m5.2xlarge" -> "m5.xlarge" [] t = "m5.xlarge" -> "m5.large"
                 [] t = "c5.2xlarge" -> "c5.xlarge" [] t = "c5.xlarge" -> "c5.large"
                 [] t = "r5.2xlarge" -> "r5.xlarge" [] t = "r5.xlarge" -> "r5.large"]

\* Mutant: the headroom is asked of the CPU only.
FitsMutant(capacity, small, cpu, mem) ==
    3 * cpu * capacity.cpu * 10 <= small.cpu * 8 * 200

\* One and a half times the average use leaves a fifth of the smaller type.
Fits(capacity, small, cpu, mem) ==
    /\ 3 * cpu * capacity.cpu * 10 <= small.cpu * 8 * 200
    /\ 3 * mem * capacity.mem * 10 <= small.mem * 8 * 200

Recommended(type, cpu, mem) ==
    IF type \notin DOMAIN Downsize THEN None
    ELSE IF Fits(SizerCapacity(type), SizerCapacity(Downsize[type]), cpu, mem)
           THEN Downsize[type] ELSE None

\* analyze_resource_usage() asks for less than half of both first;
\* generate_resize_recommendations(), for one instance, does not.
Overprovisioned(type, cpu, mem) ==
    IF cpu < 50 /\ mem < 50 THEN Recommended(type, cpu, mem) ELSE None

-----------------------------------------------------------------------------
\* spot_optimizer.py

SpotTable == [t \in {"t3.medium", "c5.large", "c5.xlarge", "m5.large",
                     "m5.xlarge", "r5.large", "r5.xlarge", "g4dn.xlarge"} |->
    CASE t = "t3.medium" -> 208 [] t = "c5.large" -> 450 [] t = "c5.xlarge" -> 850
      [] t = "m5.large" -> 500 [] t = "m5.xlarge" -> 960 [] t = "r5.large" -> 630
      [] t = "r5.xlarge" -> 1260 [] t = "g4dn.xlarge" -> 3000]

FallbackPrice(type) == IF type \in DOMAIN SpotTable THEN SpotTable[type] ELSE 1000

\* fallback / 0.4
OnDemandPrice(type) == (FallbackPrice(type) * 5) \div 2

RiskTable == [t \in DOMAIN SpotTable |->
    CASE t = "t3.medium" -> 300 [] t = "c5.large" -> 500 [] t = "c5.xlarge" -> 800
      [] t = "m5.large" -> 1200 [] t = "m5.xlarge" -> 1500 [] t = "r5.large" -> 1000
      [] t = "r5.xlarge" -> 1800 [] t = "g4dn.xlarge" -> 2500]

\* Ten interruptions are the maximum; the first one takes the place of the
\* static score, which may be the higher one.
HistoricalRisk(type, count) ==
    IF count # None THEN Smaller(count * 1000, 10000)
    ELSE IF type \in DOMAIN RiskTable THEN RiskTable[type] ELSE 2000

Advice(risk) == IF risk < 2000 THEN "SAFE"
                ELSE IF risk < 5000 THEN "CAUTION" ELSE "AVOID"

\* Price weighs 0.6 and is cut at one dollar, risk weighs 0.4.
Score(price, risk) == Smaller(price, 10000) * 6 + risk * 4

Candidate(pool, cached, count) ==
    LET price == IF cached = None THEN FallbackPrice(pool.type) ELSE cached
        risk == HistoricalRisk(pool.type, count)
    IN [pool |-> pool, lifecycle |-> "SPOT", price |-> price, risk |-> risk,
        score |-> Score(price, risk), advice |-> Advice(risk)]

\* Mutant: the list is sorted in reverse, as that of the opportunities is.
BetterMutant(a, b) == a.score > b.score

Better(a, b) == a.score < b.score

\* Python's sort keeps the order of equal scores.
Ranking(candidates) ==
    Arranged(DOMAIN candidates, LAMBDA i, j :
      \/ Better(candidates[i], candidates[j])
      \/ ~Better(candidates[j], candidates[i]) /\ i < j)

Ranked(candidates) ==
    [k \in DOMAIN candidates |-> candidates[Ranking(candidates)[k]]]

OnDemand(best) ==
    [pool |-> [type |-> best.pool.type, az |-> PoolList[1].az],
     lifecycle |-> "ON_DEMAND", price |-> OnDemandPrice(best.pool.type),
     risk |-> 0, score |-> OnDemandPrice(best.pool.type) * 6,
     advice |-> "FALLBACK"]

\* select_best_instance() with the flags, prices and counts of each pool
SelectBest(flagged, cached, counts) ==
    LET free == Increasing(DOMAIN PoolList \ flagged)
        spot == Ranked([k \in DOMAIN free |->
                  Candidate(PoolList[free[k]], cached[free[k]], counts[free[k]])])
    IN IF spot = <<>> THEN <<>> ELSE Append(spot, OnDemand(spot[1]))

-----------------------------------------------------------------------------
\* ml_model_server.py, when no model is loaded; volatility is 0 .. 10000

FallbackRisk(type, volatility) ==
    LET base == IF type \in DOMAIN RiskTable \ {"g4dn.xlarge"}
                  THEN RiskTable[type] ELSE 2000
    IN Smaller(base + volatility \div 5, 9900)

-----------------------------------------------------------------------------
ModulesInit == question = [name |-> "none"] /\ result = <<>>

Resize ==
    /\ question.name = "none"
    /\ \E t \in Types \cup {"other"}, cpu \in Utilizations, mem \in Utilizations :
         /\ question' = [name |-> "resize", type |-> t, cpu |-> cpu, mem |-> mem]
         /\ result' = <<Overprovisioned(t, cpu, mem), Recommended(t, cpu, mem)>>

Select ==
    /\ question.name = "none"
    /\ \E flagged \in SUBSET (DOMAIN PoolList), cached \in [DOMAIN PoolList -> Cached],
          counts \in [DOMAIN PoolList -> Histories] :
         /\ question' = [name |-> "select", flagged |-> flagged, cached |-> cached,
                     counts |-> counts]
         /\ result' = SelectBest(flagged, cached, counts)

Predict ==
    /\ question.name = "none"
    /\ \E t \in DOMAIN RiskTable \cup {"other"}, v \in {0, 1000, 5000, 10000},
          count \in Histories :
         /\ question' = [name |-> "predict", type |-> t, volatility |-> v, count |-> count]
         /\ result' = [fallback |-> FallbackRisk(t, v),
                       history |-> HistoricalRisk(t, count)]

ModulesNext == Resize \/ Select \/ Predict

ModulesSpec == ModulesInit /\ [][ModulesNext]_moduleVars

-----------------------------------------------------------------------------
\* A type that is recommended instead of a larger one holds the peak of the
\* real use with a fifth to spare, unless the larger one is missing in the
\* table of rightsizer.py.  What the analysis of a cluster recommends, the
\* analysis of one instance recommends too.
ResizeFits ==
    question.name = "resize" =>
      /\ result[1] \in {None, result[2]}
      /\ (result[2] # None /\ question.type \in Tabled) =>
           LET real == PackerCapacity(question.type)
               small == PackerCapacity(result[2])
           IN /\ 3 * question.cpu * real.cpu <= 160 * small.cpu
              /\ 3 * question.mem * real.mem <= 160 * small.mem

\* The list of select_best_instance is complete and ranked: every pool that is
\* not flagged appears once as a spot pool, no later one is cheaper and safer
\* than an earlier one, and after them, if there is any, comes one on-demand
\* entry of the best type.  Nothing is asked of the list when every pool is
\* flagged, where the code answers with no entry, not even an on-demand one.
SelectionIsRanked ==
    question.name = "select" =>
      LET spot == {i \in DOMAIN result : result[i].lifecycle = "SPOT"}
          free == DOMAIN PoolList \ question.flagged
      IN /\ {result[i].pool : i \in spot} = {PoolList[i] : i \in free}
         /\ Cardinality(spot) = Cardinality(free)
         /\ \A i, j \in spot : i < j =>
              ~(/\ result[j].price < result[i].price
                /\ result[j].risk < result[i].risk)
         /\ spot # {} =>
              /\ spot = 1 .. Len(result) - 1
              /\ result[Len(result)].pool.type = result[1].pool.type

\* The two modules that rate a pool agree: as long as no interruption was
\* counted and prices are flat, they give the same advice, a volatile price
\* never makes the advice safer, and two counted interruptions or more are
\* never rated SAFE.
RatingsAgree ==
    question.name = "predict" =>
      /\ (question.count = None /\ question.volatility = 0) =>
           Advice(result.history) = Advice(result.fallback)
      /\ Advice(FallbackRisk(question.type, 0)) # "SAFE" => Advice(result.fallback) # "SAFE"
      /\ (question.count # None /\ question.count >= 2) => Advice(result.history) # "SAFE"

\* Modules with tables of their own agree: the smaller type of rightsizer.py
\* holds the peak by the table of bin_packer.py, and the history of
\* spot_optimizer.py rates a pool as the fallback of ml_model_server.py does.
TablesAgree == ResizeFits /\ RatingsAgree
=============================================================================
