--------------------------- MODULE ActionExecutor ---------------------------
(***************************************************************************)
(* backend/core/action_executor.py: carries out the plan of DecisionEngine *)
(* for one cluster, one action after the other.                            *)
(*                                                                         *)
(* Only spot_replacement reaches AWS: it asks for a spot instance and      *)
(* terminates the old one.  right_size, consolidate, scale_down and        *)
(* scale_up only write a log entry and are "completed"; every other type   *)
(* fails.  The waiting times between phases are times at which AWS goes    *)
(* on, and so is every step.  A call to AWS may fail before or after it    *)
(* had its effect.                                                         *)
(***************************************************************************)
EXTENDS DecisionEngine, Sequences, FiniteSets

CONSTANTS
    Instances,  \* the nodes of the cluster
    Actions,    \* what the modules may propose
    Policies,   \* of the cluster
    MaxActions  \* bound on the length of a proposal

ASSUME ActionsAssumption ==
    \A a \in Actions :
        /\ a.savings \in Int
        /\ a.type = "spot_replacement" => a.instance \in Instances

VARIABLES
    proposal, policy, dryRun,  \* what the executor was called with
    todo,       \* the actions of the plan that are still to be executed
    pc,         \* of the execution
    current,    \* the action in hand
    results,    \* one record for each action executed
    running,    \* the old instances that have not been terminated
    requested,  \* spot requests made for each of them
    replaced    \* those whose request has been fulfilled

input == <<proposal, policy, dryRun>>
aws == <<running, requested, replaced>>
vars == <<input, todo, pc, current, results, aws>>

Statuses == {"completed", "failed", "simulated"}

Init ==
    /\ proposal \in UNION {[1 .. n -> Actions] : n \in 0 .. MaxActions}
    /\ policy \in Policies /\ dryRun \in BOOLEAN
    /\ todo = {} /\ pc = "decide" /\ current = 0 /\ results = <<>>
    /\ running = Instances
    /\ requested = [i \in Instances |-> 0] /\ replaced = {}

-----------------------------------------------------------------------------
\* evaluate_action_plan(), then execute_action_plan()
Decide ==
    /\ pc = "decide"
    /\ todo' = Approved(proposal, policy)
    /\ pc' = "execute"
    /\ UNCHANGED <<input, current, results, aws>>

\* i comes next in the plan.
Comes(i) ==
    /\ pc = "execute"
    /\ i \in todo /\ \A j \in todo \ {i} : Before(proposal, i, j)

\* Mutant: the plan ends at the first action that fails.
RemainingMutant(i, status) == IF status = "failed" THEN {} ELSE todo \ {i}

\* A failed action does not stop the plan.
Remaining(i, status) == todo \ {i}

Report(i, status) ==
    /\ results' = Append(results, [action |-> i, status |-> status])
    /\ todo' = Remaining(i, status)
    /\ pc' = "execute"
    /\ UNCHANGED <<input, current>>

\* Mutant: a dry run is only asked for in the handlers that write logs only.
ReplacesMutant(a) == a.type = "spot_replacement"

\* The action changes something in AWS.
Replaces(a) == a.type = "spot_replacement" /\ ~dryRun

\* What _execute_right_size and the like return, which only write a log: the
\* scaling itself is a TODO of the code.
LoggedStatus == IF dryRun THEN "simulated" ELSE "completed"

\* The status of an action that changes nothing in AWS
StatusOf(a) ==
    IF a.type \notin ActionTypes \ {"hibernate"} THEN "failed" ELSE LoggedStatus

ExecuteLogged(i) ==
    /\ Comes(i) /\ ~Replaces(proposal[i])
    /\ Report(i, StatusOf(proposal[i]))
    /\ UNCHANGED aws

BeginReplacement(i) ==
    /\ Comes(i) /\ Replaces(proposal[i])
    /\ pc' = "request" /\ current' = i
    /\ UNCHANGED <<input, todo, results, aws>>

-----------------------------------------------------------------------------
\* _execute_spot_replacement

Old == proposal[current].instance

RequestMade == requested' = [requested EXCEPT ![Old] = @ + 1]

\* request_spot_instances, with assume_role and describe_instances before it
RequestSpot ==
    /\ pc = "request"
    /\ RequestMade
    /\ pc' = "terminate"
    /\ UNCHANGED <<input, todo, current, results, running, replaced>>

\* The request may have been made all the same.
RequestFails ==
    /\ pc = "request"
    /\ RequestMade \/ UNCHANGED requested
    /\ Report(current, "failed")
    /\ UNCHANGED <<running, replaced>>

Terminated == running' = running \ {Old}

TerminateOld ==
    /\ pc = "terminate"
    /\ Terminated
    /\ Report(current, "completed")
    /\ UNCHANGED <<requested, replaced>>

\* Mutant: the result of the replacement is the result of the request.
TerminateStatusMutant == "completed"

TerminateStatus == "failed"

\* The spot request is not cancelled.
TerminateFails ==
    /\ pc = "terminate"
    /\ Terminated \/ UNCHANGED running
    /\ Report(current, TerminateStatus)
    /\ UNCHANGED <<requested, replaced>>

Finish ==
    /\ pc = "execute" /\ todo = {}
    /\ pc' = "done"
    /\ UNCHANGED <<input, todo, current, results, aws>>

\* AWS has capacity for a spot request; it may never have.
Fulfil(i) ==
    /\ requested[i] > 0 /\ i \notin replaced
    /\ replaced' = replaced \cup {i}
    /\ UNCHANGED <<input, todo, pc, current, results, running, requested>>

Execute ==
    \/ Decide
    \/ \E i \in todo : ExecuteLogged(i) \/ BeginReplacement(i)
    \/ RequestSpot \/ RequestFails \/ TerminateOld \/ TerminateFails
    \/ Finish

Next == Execute \/ \E i \in Instances : Fulfil(i)

Spec == Init /\ [][Next]_vars

\* The process goes on, and calls to AWS return or time out.
FairSpec == Spec /\ WF_vars(Execute)
-----------------------------------------------------------------------------
TypeOK ==
    /\ todo \subseteq DOMAIN proposal
    /\ pc \in {"decide", "execute", "request", "terminate", "done"}
    /\ pc \in {"request", "terminate"} => current \in todo
    /\ results \in Seq([action : DOMAIN proposal, status : Statuses])
    /\ running \subseteq Instances /\ replaced \subseteq Instances
    /\ requested \in [Instances -> Nat]

\* Of the actions that name the same resource, one is executed at most, and no
\* other valid one of them saves more.
BestOfResourceIsExecuted ==
    \A j, k \in DOMAIN results :
        LET a == results[j].action
            b == results[k].action
        IN  /\ SameResource(proposal[a], proposal[b]) => j = k
            /\ \A n \in Validated(proposal, policy) :
                  SameResource(proposal[a], proposal[n])
                      => proposal[n].savings <= proposal[a].savings

\* A node is terminated only after a spot request was made in its place, in a
\* run that is no dry run, and for a proposed action that the policy allows.
TerminationIsJustified ==
    \A i \in Instances \ running :
        /\ requested[i] > 0
        /\ ~dryRun
        /\ \E n \in Validated(proposal, policy) :
              proposal[n].type = "spot_replacement" /\ proposal[n].instance = i

\* A replacement that is reported as completed has requested the new node and
\* terminated the old one, whatever failed in the actions around it.
CompletedIsReplaced ==
    \A k \in DOMAIN results :
        LET a == proposal[results[k].action]
        IN  (a.type = "spot_replacement" /\ results[k].status = "completed")
                => requested[a.instance] > 0 /\ a.instance \notin running

\* The execution ends with a result for every action of the plan, in the order
\* of the plan.
EveryActionIsReported ==
    <>(/\ pc = "done"
       /\ {results[k].action : k \in DOMAIN results} = Approved(proposal, policy)
       /\ \A j, k \in DOMAIN results :
             j < k => Before(proposal, results[j].action, results[k].action))

\* An old node is terminated only when the node that replaces it runs.
ReplacementRunsFirst ==
    [][\A i \in running \ running' : i \in replaced]_vars
=============================================================================
