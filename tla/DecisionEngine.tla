--------------------------- MODULE DecisionEngine ---------------------------
(***************************************************************************)
(* backend/core/decision_engine.py: which of the proposed optimization     *)
(* actions of a cluster are carried out, and in which order.               *)
(*                                                                         *)
(* evaluate_action_plan() filters the proposed actions by the policy of    *)
(* the cluster, removes the losers of conflicts, sorts the rest by a       *)
(* priority from 1 (first) to 4, and makes one phase of each priority.     *)
(* Actions are named by their index in the proposal s: filtering keeps     *)
(* their order, and Python's sort is stable.                               *)
(*                                                                         *)
(* Risks are percentages.  A key that an action does not have is Unset or  *)
(* None; each of the engine's steps has a default of its own for it.       *)
(***************************************************************************)
EXTENDS Integers

Unset == -1
None == "none"
Default(value, default) == IF value = Unset THEN default ELSE value

\* ActionType; the executor may be asked for any other string, too.
Switchable == {"spot_replacement", "right_size", "consolidate", "hibernate"}
ActionTypes == Switchable \cup {"scale_down", "scale_up"}

\* A cluster without a row in cluster_policies.
NoPolicy == [allows |-> None]

-----------------------------------------------------------------------------
\* _validate_action

Allowed(a, p) == a.type \in Switchable => a.type \in p.allows

\* A node count that is not given is taken for 0.
KeepsMinNodes(a, p) ==
    a.type \in {"consolidate", "scale_down"} => Default(a.nodes, 0) >= p.minNodes

\* A maximum of 0 is none.
KeepsMaxNodes(a, p) ==
    (a.type = "scale_up" /\ p.maxNodes # 0) => Default(a.nodes, 0) <= p.maxNodes

Valid(a, p) ==
    p = NoPolicy \/
        /\ Allowed(a, p)
        /\ Default(a.risk, 0) <= p.maxRisk
        /\ KeepsMinNodes(a, p)
        /\ KeepsMaxNodes(a, p)

Validated(s, p) == {i \in DOMAIN s : Valid(s[i], p)}

-----------------------------------------------------------------------------
\* _detect_conflicts and _resolve_conflicts

SameResource(a, b) == a.resource # None /\ a.resource = b.resource

\* Mutant: of equal savings, neither action is removed.
BeatsMutant(s, i, j) == s[i].savings > s[j].savings

\* Of two actions on one resource, i is kept and j removed; the first one wins
\* a tie.
Beats(s, i, j) ==
    IF i < j THEN s[i].savings >= s[j].savings ELSE s[i].savings > s[j].savings

LosesConflict(s, p, j) ==
    \E i \in Validated(s, p) \ {j} : SameResource(s[i], s[j]) /\ Beats(s, i, j)

MissesDependency(s, p, i) ==
    \E d \in s[i].dependsOn : \A k \in Validated(s, p) : s[k].id # d

\* The actions that evaluate_action_plan() approves.  All conflicts are found
\* before any action is removed: an action may win against one that is removed
\* for another reason, and one that is kept may depend on one that is not.
Approved(s, p) ==
    {i \in Validated(s, p) : ~LosesConflict(s, p, i) /\ ~MissesDependency(s, p, i)}

-----------------------------------------------------------------------------
\* _prioritize_actions and _generate_execution_plan

BasePriority(type) ==
    CASE type = "spot_replacement" -> 2
      [] type \in {"consolidate", "right_size"} -> 3
      [] OTHER -> 4

BySavings(savings) == IF savings > 100 THEN -1 ELSE IF savings < 20 THEN 1 ELSE 0
ByRisk(risk) == IF Default(risk, 50) > 70 THEN 1 ELSE 0

Clamp(n) == IF n < 1 THEN 1 ELSE IF n > 4 THEN 4 ELSE n

Priority(a) == Clamp(BasePriority(a.type) + BySavings(a.savings) + ByRisk(a.risk))

\* The order of the execution: by phase, and within a phase as proposed.
Before(s, i, j) ==
    \/ Priority(s[i]) < Priority(s[j])
    \/ Priority(s[i]) = Priority(s[j]) /\ i < j

\* _check_approval_required: returned with the plan, and not looked at by
\* execute_action_plan().
RequiresApproval(s, p) ==
    p # NoPolicy /\
        (\/ p.requireApproval
         \/ \E i \in Approved(s, p) :
               Default(s[i].risk, 0) > 80 \/ s[i].type \in {"consolidate", "hibernate"})
=============================================================================
