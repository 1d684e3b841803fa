------------------------------ MODULE MCWorkers ------------------------------
(***************************************************************************)
(* What runs beside the API: the event processor, the risk tracker, the    *)
(* collectors of prices and of Spot Advisor data, the functions of the     *)
(* optimization modules, and the scripts of scripts/aws.  As written they  *)
(* share no key of Redis and no table, so each is run with the others at   *)
(* rest: "part" says which one.                                            *)
(*                                                                         *)
(* Two workers meet the warning, two changes of state and two scalings of  *)
(* an instance; two clients flag, clear and list two pools; two collectors *)
(* overlap in two regions, one reader refilling the cache; ratings of two  *)
(* operating systems are scraped.  The optimization modules get every type *)
(* at utilizations on both sides of the thresholds, two types in two       *)
(* zones, prices on both sides of the fallback and of the cut at one       *)
(* dollar.                                                                 *)
(***************************************************************************)
EXTENDS MCAwsScripts, EventProcessor, RiskTracker, PriceCollection, SpotAdvisor,
        Recommendations, TLC

VARIABLE part

Event(kind, instance, state) == [kind |-> kind, instance |-> instance, state |-> state]

MCEvents == {Event("interruption", "i1", "none"), Event("state", "i1", "running"),
             Event("state", "i1", "terminated"), Event("scaling", "i1", "none"),
             Event("scaling", "i2", "none"), Event("eks", "i1", "none")}

\* One pool of each region, two ratings
MCRegionOf == [p \in PricePools |-> p]
MCSystemOf == [k \in {"l1", "w1"} |-> IF k = "l1" THEN "linux" ELSE "windows"]

MCPoolList ==
    <<[type |-> "c5.large", az |-> "a"], [type |-> "c5.large", az |-> "b"],
      [type |-> "g4dn.xlarge", az |-> "a"], [type |-> "g4dn.xlarge", az |-> "b"]>>
MCCached == {None, 300, 12000}
MCHistories == {None, 1, 3, 12}

workersVars == <<eventVars, riskVars, priceVars, advisorVars, moduleVars>>

WorkersInit ==
    /\ part \in {"events", "risk", "prices", "advisor", "modules", "scripts"}
    /\ EventInit /\ RiskInit /\ PriceInit /\ AdvisorInit /\ ModulesInit
    /\ Init

\* Init, Next and vars are those of AwsScripts.
WorkersNext ==
    /\ UNCHANGED part
    /\ \/ /\ part = "events" /\ EventNext
          /\ UNCHANGED <<riskVars, priceVars, advisorVars, moduleVars, vars>>
       \/ /\ part = "risk" /\ RiskNext
          /\ UNCHANGED <<eventVars, priceVars, advisorVars, moduleVars, vars>>
       \/ /\ part = "prices" /\ PriceNext
          /\ UNCHANGED <<eventVars, riskVars, advisorVars, moduleVars, vars>>
       \/ /\ part = "advisor" /\ AdvisorNext
          /\ UNCHANGED <<eventVars, riskVars, priceVars, moduleVars, vars>>
       \/ /\ part = "modules" /\ ModulesNext
          /\ UNCHANGED <<eventVars, riskVars, priceVars, advisorVars, vars>>
       \/ /\ part = "scripts" /\ Next
          /\ UNCHANGED workersVars

WorkersSpec == WorkersInit /\ [][WorkersNext]_<<workersVars, vars, part>>

\* The workers, the clients, the collectors and the shells have the same names.
Perms == Permutations(Workers) \cup Permutations(SpotPools)

-----------------------------------------------------------------------------
\* Collectors: what is counted as collected is stored, and a cached value that
\* is not the stored one was put there by a reader with an older answer or by a
\* collection that a newer one had overtaken, or belongs to a collection whose
\* commit or caching failed.
PricesAreExplained ==
    CountedIsStored /\ CacheBehindRowIsExplained /\ DifferenceIsExplained
=============================================================================
