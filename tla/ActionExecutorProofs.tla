------------------------ MODULE ActionExecutorProofs ------------------------
(***************************************************************************)
(* Proofs about ActionExecutor for every cluster, every set of actions     *)
(* that may be proposed, every policy and every length of a proposal.      *)
(*                                                                         *)
(* What a replacement in hand has done so far, and that the plan and the   *)
(* results share no action, is what makes the invariants inductive.        *)
(***************************************************************************)
EXTENDS ActionExecutor, TLAPS

\* Input of the execution.
InputOK ==
    /\ DOMAIN proposal \subseteq Nat
    /\ \A i \in DOMAIN proposal : proposal[i] \in Actions

\* An approved action is executed once: it waits or has been reported.
ReportedOnce ==
    /\ todo \subseteq Approved(proposal, policy)
    /\ \A k \in DOMAIN results :
          results[k].action \in Approved(proposal, policy) \ todo
    /\ \A j, k \in DOMAIN results :
          results[j].action = results[k].action => j = k
    /\ pc = "decide" => results = <<>>

\* The action in hand is a replacement, and before its old node is terminated
\* the new one has been requested.
InHand ==
    /\ pc \in {"request", "terminate"} => Replaces(proposal[current])
    /\ pc = "terminate" => requested[Old] > 0

IInv ==
    /\ InputOK /\ TypeOK /\ ReportedOnce /\ InHand
    /\ TerminationIsJustified /\ CompletedIsReplaced

-----------------------------------------------------------------------------
(***************************************************************************)
(* Facts about the decisions                                               *)
(***************************************************************************)

\* An approved action is a valid one of the proposal.
LEMMA ApprovedIsValid ==
    ASSUME NEW s, NEW p PROVE Approved(s, p) \subseteq Validated(s, p)
BY DEF Approved

LEMMA ValidatedIsProposed ==
    ASSUME NEW s, NEW p PROVE Validated(s, p) \subseteq DOMAIN s
BY DEF Validated

\* Of two actions with comparable savings, one beats the other.
LEMMA BeatsIsTotal ==
    ASSUME NEW s, NEW i \in Nat, NEW j \in Nat, i # j,
           s[i].savings \in Int, s[j].savings \in Int
    PROVE  Beats(s, i, j) \/ Beats(s, j, i)
BY DEF Beats

\* Conflict resolution (_resolve_conflicts) leaves at most one action for a
\* resource, and one that saves as much as any valid action for it.
THEOREM BestOfResourceIsApproved ==
    ASSUME InputOK, NEW i \in Approved(proposal, policy),
           NEW j \in Validated(proposal, policy),
           SameResource(proposal[i], proposal[j])
    PROVE  /\ proposal[j].savings <= proposal[i].savings
           /\ j \in Approved(proposal, policy) => j = i
<1>1. i \in DOMAIN proposal /\ i \in Nat /\ j \in DOMAIN proposal /\ j \in Nat
  BY ApprovedIsValid, ValidatedIsProposed DEF InputOK
<1>2. proposal[i].savings \in Int /\ proposal[j].savings \in Int
  BY <1>1, ActionsAssumption DEF InputOK
<1>3. i \in Validated(proposal, policy)
  BY ApprovedIsValid
<1>4. CASE i = j
  BY <1>2, <1>4
<1>5. CASE i # j
  <2>1. ~Beats(proposal, j, i)
    BY <1>5 DEF Approved, LosesConflict, SameResource
  <2>2. Beats(proposal, i, j)
    BY <1>1, <1>2, <1>5, <2>1, BeatsIsTotal
  <2>3. j \notin Approved(proposal, policy)
    BY <1>3, <1>5, <2>2 DEF Approved, LosesConflict
  <2>4. proposal[j].savings <= proposal[i].savings
    BY <1>1, <1>2, <2>2 DEF Beats
  <2> QED
    BY <2>3, <2>4
<1> QED
  BY <1>4, <1>5

\* Every action has one of the four priorities, so it has a phase.
THEOREM PriorityHasPhase ==
    ASSUME NEW a, a.savings \in Int PROVE Priority(a) \in 1 .. 4
<1>1. BasePriority(a.type) \in 2 .. 4
  BY DEF BasePriority
<1>2. BySavings(a.savings) \in -1 .. 1 /\ ByRisk(a.risk) \in 0 .. 1
  BY DEF BySavings, ByRisk
<1> QED
  BY <1>1, <1>2 DEF Priority, Clamp

-----------------------------------------------------------------------------
(***************************************************************************)
(* The inductive invariant                                                 *)
(***************************************************************************)

LEMMA InitIInv == Init => IInv
<1> SUFFICES ASSUME Init PROVE IInv
  OBVIOUS
<1>1. InputOK
  <2>1. PICK n \in 0 .. MaxActions : proposal \in [1 .. n -> Actions]
    BY DEF Init
  <2> QED
    BY <2>1 DEF InputOK
<1>2. results = <<>> /\ DOMAIN results = {} /\ todo = {} /\ pc = "decide"
  BY DEF Init
<1>3. TypeOK
  BY <1>2 DEF TypeOK, Init
<1>4. ReportedOnce /\ InHand /\ CompletedIsReplaced
  BY <1>2 DEF ReportedOnce, InHand, CompletedIsReplaced
<1>5. TerminationIsJustified
  BY DEF Init, TerminationIsJustified
<1> QED
  BY <1>1, <1>3, <1>4, <1>5 DEF IInv

\* What a report does to the results.
LEMMA Reported ==
    ASSUME IInv, NEW i \in todo, NEW status \in Statuses, Report(i, status)
    PROVE  /\ results' \in Seq([action : DOMAIN proposal, status : Statuses])
           /\ DOMAIN results' = DOMAIN results \cup {Len(results) + 1}
           /\ \A k \in DOMAIN results : results'[k] = results[k]
           /\ results'[Len(results) + 1] = [action |-> i, status |-> status]
<1>1. results \in Seq([action : DOMAIN proposal, status : Statuses])
  BY DEF IInv, TypeOK
<1>2. [action |-> i, status |-> status] \in [action : DOMAIN proposal, status : Statuses]
  BY DEF IInv, TypeOK
<1> QED
  BY <1>1, <1>2 DEF Report

\* The end of every action: whatever it did to AWS, the invariant holds again
\* if a completed replacement has replaced its node, and if only the node of
\* the action has been terminated.
LEMMA ReportStep ==
    ASSUME IInv, NEW i \in todo, NEW status \in Statuses, Report(i, status),
           running' \subseteq running, UNCHANGED replaced,
           requested' \in [Instances -> Nat],
           \A n \in Instances : requested'[n] >= requested[n],
           (proposal[i].type = "spot_replacement" /\ status = "completed")
               => /\ requested'[proposal[i].instance] > 0
                  /\ proposal[i].instance \notin running',
           \A n \in running \ running' :
               /\ requested[n] > 0 /\ Replaces(proposal[i])
               /\ n = proposal[i].instance
    PROVE  IInv'
<1>1. /\ UNCHANGED <<proposal, policy, dryRun>> /\ pc' = "execute"
      /\ todo' = todo \ {i}
  BY DEF Report, Remaining, input
<1> DEFINE last == Len(results) + 1
<1>2. /\ results' \in Seq([action : DOMAIN proposal, status : Statuses])
      /\ DOMAIN results' = DOMAIN results \cup {last}
      /\ \A k \in DOMAIN results : results'[k] = results[k]
      /\ results'[last] = [action |-> i, status |-> status]
  BY Reported
<1>3. last \notin DOMAIN results
  BY DEF IInv, TypeOK
<1> HIDE DEF last
<1>4. InputOK' /\ TypeOK' /\ InHand'
  BY <1>1, <1>2 DEF IInv, InputOK, TypeOK, InHand
<1>5. ReportedOnce'
  <2>1. i \in Approved(proposal, policy)
    BY DEF IInv, ReportedOnce
  <2>2. \A k \in DOMAIN results : results[k].action # i
    BY DEF IInv, ReportedOnce
  <2> QED
    BY <1>1, <1>2, <1>3, <2>1, <2>2 DEF IInv, ReportedOnce
<1>6. TerminationIsJustified'
  <2> SUFFICES ASSUME NEW n \in Instances \ running'
               PROVE  /\ requested'[n] > 0
                      /\ ~dryRun
                      /\ \E m \in Validated(proposal, policy) :
                            /\ proposal[m].type = "spot_replacement"
                            /\ proposal[m].instance = n
    BY <1>1 DEF TerminationIsJustified
  <2>1. CASE n \notin running
    BY <2>1 DEF IInv, TypeOK, TerminationIsJustified
  <2>2. CASE n \in running
    <3>1. requested[n] > 0 /\ Replaces(proposal[i]) /\ n = proposal[i].instance
      BY <2>2
    <3>2. i \in Validated(proposal, policy)
      BY ApprovedIsValid DEF IInv, ReportedOnce
    <3> QED
      BY <3>1, <3>2 DEF IInv, TypeOK, Replaces
  <2> QED
    BY <2>1, <2>2
<1>7. CompletedIsReplaced'
  <2> SUFFICES ASSUME NEW k \in DOMAIN results',
                      proposal[results'[k].action].type = "spot_replacement",
                      results'[k].status = "completed"
               PROVE  LET a == proposal[results'[k].action]
                      IN  requested'[a.instance] > 0 /\ a.instance \notin running'
    BY <1>1 DEF CompletedIsReplaced
  <2>1. CASE k = last
    BY <1>2, <2>1
  <2>2. CASE k \in DOMAIN results
    <3> DEFINE a == proposal[results[k].action]
    <3>1. results'[k] = results[k]
      BY <1>2, <2>2
    <3>2. requested[a.instance] > 0 /\ a.instance \notin running
      BY <2>2, <3>1 DEF IInv, CompletedIsReplaced
    <3>3. a \in Actions
      BY <2>2, ApprovedIsValid, ValidatedIsProposed DEF IInv, ReportedOnce, InputOK
    <3>4. a.instance \in Instances
      BY <3>1, <3>3, ActionsAssumption
    <3> QED
      BY <3>1, <3>2, <3>4 DEF IInv, TypeOK
  <2> QED
    BY <1>2, <2>1, <2>2
<1> QED
  BY <1>4, <1>5, <1>6, <1>7 DEF IInv

LEMMA DecideStep == IInv /\ Decide => IInv'
<1> SUFFICES ASSUME IInv, Decide PROVE IInv'
  OBVIOUS
<1>1. /\ results = <<>> /\ UNCHANGED <<input, results, aws>>
      /\ pc' = "execute" /\ todo' = Approved(proposal, policy)
  BY DEF IInv, ReportedOnce, Decide
<1>2. todo' \subseteq DOMAIN proposal
  BY <1>1, ApprovedIsValid, ValidatedIsProposed
<1>3. DOMAIN results = {}
  BY <1>1
<1>4. InputOK' /\ TypeOK' /\ InHand'
  BY <1>1, <1>2 DEF IInv, InputOK, TypeOK, InHand, input, aws
<1>5. ReportedOnce' /\ CompletedIsReplaced'
  BY <1>1, <1>3 DEF ReportedOnce, CompletedIsReplaced, input
<1>6. TerminationIsJustified'
  BY <1>1 DEF IInv, TerminationIsJustified, input, aws
<1> QED
  BY <1>4, <1>5, <1>6 DEF IInv

LEMMA ExecuteLoggedStep ==
    ASSUME IInv, NEW i \in todo, ExecuteLogged(i) PROVE IInv'
<1>1. /\ Report(i, StatusOf(proposal[i])) /\ ~Replaces(proposal[i])
      /\ UNCHANGED <<running, requested, replaced>>
  BY DEF ExecuteLogged, aws
<1>2. StatusOf(proposal[i]) \in Statuses
  BY DEF StatusOf, LoggedStatus, Statuses
<1>3. (proposal[i].type = "spot_replacement") => StatusOf(proposal[i]) # "completed"
  BY <1>1 DEF Replaces, StatusOf, LoggedStatus
<1>4. requested' \in [Instances -> Nat] /\ \A n \in Instances : requested'[n] >= requested[n]
  BY <1>1 DEF IInv, TypeOK
<1> QED
  BY <1>1, <1>2, <1>3, <1>4, ReportStep

LEMMA BeginReplacementStep ==
    ASSUME IInv, NEW i \in todo, BeginReplacement(i) PROVE IInv'
<1>1. /\ UNCHANGED <<input, todo, results, aws>> /\ Replaces(proposal[i])
      /\ pc' = "request" /\ current' = i
  BY DEF BeginReplacement
<1>2. InputOK' /\ TypeOK' /\ ReportedOnce' /\ InHand'
  BY <1>1 DEF IInv, InputOK, TypeOK, ReportedOnce, InHand, Replaces, input, aws
<1>3. TerminationIsJustified' /\ CompletedIsReplaced'
  BY <1>1 DEF IInv, TerminationIsJustified, CompletedIsReplaced, input, aws
<1> QED
  BY <1>2, <1>3 DEF IInv

\* The node in hand is a node, and a request for it is counted.
LEMMA OldIsRequested ==
    ASSUME IInv, pc \in {"request", "terminate"}
    PROVE  /\ current \in todo /\ Old \in Instances
           /\ Replaces(proposal[current])
           /\ RequestMade =>
                 /\ requested' \in [Instances -> Nat] /\ requested'[Old] > 0
                 /\ \A n \in Instances : requested'[n] >= requested[n]
<1>1. current \in todo /\ Replaces(proposal[current])
  BY DEF IInv, TypeOK, InHand
<1>2. proposal[current] \in Actions
  BY <1>1 DEF IInv, TypeOK, InputOK
<1>3. Old \in Instances
  BY <1>1, <1>2, ActionsAssumption DEF Old, Replaces
<1>4. requested \in [Instances -> Nat]
  BY DEF IInv, TypeOK
<1> HIDE DEF Old
<1>5. RequestMade =>
         /\ requested' \in [Instances -> Nat] /\ requested'[Old] > 0
         /\ \A n \in Instances : requested'[n] >= requested[n]
  BY <1>3, <1>4 DEF RequestMade
<1> QED
  BY <1>1, <1>3, <1>5

LEMMA RequestSpotStep == IInv /\ RequestSpot => IInv'
<1> SUFFICES ASSUME IInv, RequestSpot PROVE IInv'
  OBVIOUS
<1>1. /\ pc = "request" /\ pc' = "terminate" /\ RequestMade
      /\ UNCHANGED <<proposal, policy, dryRun, todo, current, results, running,
                     replaced>>
  BY DEF RequestSpot, input
<1>2. /\ current \in todo /\ Replaces(proposal[current]) /\ Old' = Old
      /\ requested' \in [Instances -> Nat] /\ requested'[Old] > 0
      /\ \A n \in Instances : requested'[n] >= requested[n]
  BY <1>1, OldIsRequested DEF Old
<1>3. InputOK' /\ TypeOK' /\ ReportedOnce'
  BY <1>1, <1>2 DEF IInv, InputOK, TypeOK, ReportedOnce
<1>4. InHand'
  BY <1>1, <1>2 DEF InHand, Replaces
<1>5. TerminationIsJustified'
  BY <1>1, <1>2 DEF IInv, TypeOK, TerminationIsJustified
<1>6. CompletedIsReplaced'
  <2> SUFFICES ASSUME NEW k \in DOMAIN results,
                      proposal[results[k].action].type = "spot_replacement",
                      results[k].status = "completed"
               PROVE  LET a == proposal[results[k].action]
                      IN  requested'[a.instance] > 0 /\ a.instance \notin running
    BY <1>1 DEF CompletedIsReplaced
  <2> DEFINE a == proposal[results[k].action]
  <2>1. requested[a.instance] > 0 /\ a.instance \notin running
    BY DEF IInv, CompletedIsReplaced
  <2>2. a \in Actions
    BY ApprovedIsValid, ValidatedIsProposed DEF IInv, ReportedOnce, InputOK
  <2>3. a.instance \in Instances
    BY <2>2, ActionsAssumption
  <2> QED
    BY <1>2, <2>1, <2>3 DEF IInv, TypeOK
<1> QED
  BY <1>3, <1>4, <1>5, <1>6 DEF IInv

LEMMA RequestFailsStep == IInv /\ RequestFails => IInv'
<1> SUFFICES ASSUME IInv, RequestFails PROVE IInv'
  OBVIOUS
<1>1. /\ pc = "request" /\ Report(current, "failed")
      /\ RequestMade \/ UNCHANGED requested
      /\ UNCHANGED <<running, replaced>>
  BY DEF RequestFails
<1>2. /\ current \in todo /\ requested' \in [Instances -> Nat]
      /\ \A n \in Instances : requested'[n] >= requested[n]
  BY <1>1, OldIsRequested DEF IInv, TypeOK
<1>3. "failed" \in Statuses
  BY DEF Statuses
<1> QED
  BY <1>1, <1>2, <1>3, ReportStep

LEMMA TerminateOldStep == IInv /\ TerminateOld => IInv'
<1> SUFFICES ASSUME IInv, TerminateOld PROVE IInv'
  OBVIOUS
<1>1. /\ pc = "terminate" /\ Report(current, "completed")
      /\ running' = running \ {Old} /\ UNCHANGED <<requested, replaced>>
  BY DEF TerminateOld, Terminated
<1>2. /\ current \in todo /\ Replaces(proposal[current]) /\ requested[Old] > 0
      /\ requested \in [Instances -> Nat]
  BY <1>1, OldIsRequested DEF IInv, TypeOK, InHand
<1>3. "completed" \in Statuses
  BY DEF Statuses
<1> QED
  BY <1>1, <1>2, <1>3, ReportStep DEF Old

LEMMA TerminateFailsStep == IInv /\ TerminateFails => IInv'
<1> SUFFICES ASSUME IInv, TerminateFails PROVE IInv'
  OBVIOUS
<1>1. /\ pc = "terminate" /\ Report(current, "failed")
      /\ running' = running \ {Old} \/ running' = running
      /\ UNCHANGED <<requested, replaced>>
  BY DEF TerminateFails, Terminated, TerminateStatus
<1>2. /\ current \in todo /\ Replaces(proposal[current]) /\ requested[Old] > 0
      /\ requested \in [Instances -> Nat]
  BY <1>1, OldIsRequested DEF IInv, TypeOK, InHand
<1>3. "failed" \in Statuses
  BY DEF Statuses
<1> QED
  BY <1>1, <1>2, <1>3, ReportStep DEF Old

\* Steps that change nothing the invariant is about, or only pc at the end.
LEMMA QuietStep ==
    ASSUME IInv,
           UNCHANGED <<input, todo, current, results, running, requested>>,
           replaced' \subseteq Instances,
           pc' = pc \/ pc' = "done"
    PROVE  IInv'
<1>1. InputOK' /\ TypeOK' /\ ReportedOnce'
  BY DEF IInv, InputOK, TypeOK, ReportedOnce, input
<1>2. InHand'
  BY DEF IInv, InHand, Replaces, Old, input
<1>3. TerminationIsJustified' /\ CompletedIsReplaced'
  BY DEF IInv, TerminationIsJustified, CompletedIsReplaced, input
<1> QED
  BY <1>1, <1>2, <1>3 DEF IInv

LEMMA NextIInv == IInv /\ [Next]_vars => IInv'
<1> SUFFICES ASSUME IInv, [Next]_vars PROVE IInv'
  OBVIOUS
<1>1. CASE Decide
  BY <1>1, DecideStep
<1>2. CASE \E i \in todo : ExecuteLogged(i) \/ BeginReplacement(i)
  BY <1>2, ExecuteLoggedStep, BeginReplacementStep
<1>3. CASE RequestSpot
  BY <1>3, RequestSpotStep
<1>4. CASE RequestFails
  BY <1>4, RequestFailsStep
<1>5. CASE TerminateOld
  BY <1>5, TerminateOldStep
<1>6. CASE TerminateFails
  BY <1>6, TerminateFailsStep
<1>7. CASE Finish
  BY <1>7, QuietStep DEF Finish, aws, IInv, TypeOK
<1>8. CASE \E i \in Instances : Fulfil(i)
  BY <1>8, QuietStep DEF Fulfil, IInv, TypeOK
<1>9. CASE UNCHANGED vars
  BY <1>9, QuietStep DEF vars, aws, IInv, TypeOK
<1> QED
  BY <1>1, <1>2, <1>3, <1>4, <1>5, <1>6, <1>7, <1>8, <1>9 DEF Next, Execute

LEMMA Invariance == Spec => []IInv
BY InitIInv, NextIInv, PTL DEF Spec

-----------------------------------------------------------------------------
(***************************************************************************)
(* What follows for every behaviour                                        *)
(***************************************************************************)

\* The variables of ActionExecutor keep their types.
THEOREM TypeCorrect == Spec => []TypeOK
<1>1. IInv => TypeOK
  BY DEF IInv
<1> QED
  BY <1>1, Invariance, PTL

\* execute_action_plan terminates a node only after it has requested its
\* replacement, for an action that is proposed and valid, and in no dry run.
THEOREM TerminationsAreJustified == Spec => []TerminationIsJustified
<1>1. IInv => TerminationIsJustified
  BY DEF IInv
<1> QED
  BY <1>1, Invariance, PTL

\* A replacement is reported as completed only when its node was requested and
\* the old one terminated.
THEOREM CompletedMeansReplaced == Spec => []CompletedIsReplaced
<1>1. IInv => CompletedIsReplaced
  BY DEF IInv
<1> QED
  BY <1>1, Invariance, PTL

\* What is executed for a resource is one action, the best of the valid ones.
THEOREM OnlyTheBestIsExecuted == Spec => []BestOfResourceIsExecuted
<1>1. IInv => BestOfResourceIsExecuted
  <2> SUFFICES ASSUME IInv, NEW j \in DOMAIN results, NEW k \in DOMAIN results
               PROVE  LET a == results[j].action
                          b == results[k].action
                      IN  /\ SameResource(proposal[a], proposal[b]) => j = k
                          /\ \A n \in Validated(proposal, policy) :
                                SameResource(proposal[a], proposal[n])
                                    => proposal[n].savings <= proposal[a].savings
    BY DEF BestOfResourceIsExecuted
  <2> DEFINE a == results[j].action
             b == results[k].action
  <2>1. a \in Approved(proposal, policy) /\ b \in Approved(proposal, policy)
    BY DEF IInv, ReportedOnce
  <2>2. InputOK
    BY DEF IInv
  <2>3. SameResource(proposal[a], proposal[b]) => j = k
    <3> SUFFICES ASSUME SameResource(proposal[a], proposal[b]) PROVE j = k
      OBVIOUS
    <3>1. a = b
      BY <2>1, <2>2, ApprovedIsValid, BestOfResourceIsApproved
    <3> QED
      BY <3>1 DEF IInv, ReportedOnce
  <2>4. \A n \in Validated(proposal, policy) :
           SameResource(proposal[a], proposal[n])
               => proposal[n].savings <= proposal[a].savings
    BY <2>1, <2>2, BestOfResourceIsApproved
  <2> QED
    BY <2>3, <2>4
<1> QED
  BY <1>1, Invariance, PTL
=============================================================================
