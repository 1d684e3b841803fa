------------------------ MODULE NodeOperationsProofs ------------------------
(***************************************************************************)
(* Proofs about NodeOperations for any labels and any pods.                *)
(*                                                                         *)
(* The copy an operation patches with is the object as it was read, with   *)
(* the command's fields set; as long as the object has not changed since,  *)
(* the patch can only change those fields.  And while a drained node stays *)
(* cordoned, a pod that runs on it and has not been told to go is a system *)
(* pod, one still to be looked at or one that was on its way.              *)
(***************************************************************************)
EXTENDS NodeOperations, TLAPS

\* The copy in hand is what the command makes of the object.
CopyOK ==
    pc = "patch" =>
        /\ \A f \in DOMAIN command.set : copy[f] = command.set[f]
        /\ UpToDate =>
              \A f \in Fields \ DOMAIN command.set :
                  Object(f) = Target(command) => copy[f] = value[f]

NoResultYet == pc # "idle" => result = "none"

\* After the cordon of a drain the node is unschedulable, or somebody has made
\* it schedulable again.
Cordoned ==
    pc \in {"list", "evict"} =>
        command.kind = "drain" /\ (uncordoned \/ value["unschedulable"] = 1)

\* A pod that was listed has been dealt with or will be.
ListedAreSeen ==
    pc = "evict" =>
        \A p \in listed : System(p) \/ failed \/ p \in todo \cup evicted

\* On a node that has stayed cordoned there is no pod the drain does not know.
NoNewPods ==
    (pc = "evict" /\ ~uncordoned) =>
        \A p \in Pods :
            /\ pods[p] = "here" => System(p) \/ failed \/ p \in todo \cup bound
            /\ pods[p] = "assigned" => p \in bound

IInv ==
    /\ TypeOK /\ CopyOK /\ NoResultYet /\ Cordoned /\ ListedAreSeen
    /\ NoNewPods /\ DrainedIsEvicted

-----------------------------------------------------------------------------
(***************************************************************************)
(* Facts about commands and fields                                         *)
(***************************************************************************)

\* A command sets fields of its target to values a field can have.
LEMMA CommandFacts ==
    ASSUME NEW c \in Commands
    PROVE  /\ DOMAIN c.set \subseteq Fields
           /\ \A f \in DOMAIN c.set : c.set[f] \in Values /\ Object(f) = Target(c)
           /\ c.kind = "drain" =>
                 DOMAIN c.set = {"unschedulable"} /\ c.set["unschedulable"] = 1
<1>1. CASE c \in [kind : {"drain"}, force : BOOLEAN, set : [{"unschedulable"} -> {1}]]
  <2>1. /\ c.kind = "drain" /\ DOMAIN c.set = {"unschedulable"}
        /\ c.set["unschedulable"] = 1
    BY <1>1
  <2>2. 1 \in Values
    BY DEF Values
  <2> QED BY <2>1, <2>2 DEF Target, Object, NodeFields, Fields
<1>2. CASE c \in [kind : {"cordon"}, force : {FALSE}, set : [{"unschedulable"} -> Values]]
  <2>1. /\ c.kind = "cordon" /\ DOMAIN c.set = {"unschedulable"}
        /\ c.set["unschedulable"] \in Values
    BY <1>2
  <2> QED BY <2>1 DEF Target, Object, NodeFields, Fields
<1>3. CASE c \in [kind : {"label"}, force : {FALSE},
                  set : UNION {[{l} -> Values] : l \in Labels}]
  <2>1. PICK l \in Labels : c.set \in [{l} -> Values]
    BY <1>3
  <2>2. c.kind = "label" /\ DOMAIN c.set = {l} /\ c.set[l] \in Values
    BY <1>3, <2>1
  <2> QED BY <2>2 DEF Target, Object, NodeFields, Fields
<1>4. CASE c \in [kind : {"deployment"}, force : {FALSE},
                  set : UNION {[fs -> Values] : fs \in SUBSET DeploymentFields}]
  <2>1. PICK fs \in SUBSET DeploymentFields : c.set \in [fs -> Values]
    BY <1>4
  <2>2. \A f \in fs : Object(f) = "deployment" /\ f \in Fields
    BY LabelsAssumption DEF Object, NodeFields, Fields, DeploymentFields
  <2> QED BY <1>4, <2>1, <2>2 DEF Target
<1> QED BY <1>1, <1>2, <1>3, <1>4 DEF Commands

LEMMA FieldFacts ==
    /\ "unschedulable" \in Fields /\ Object("unschedulable") = "node"
    /\ "unschedulable" \notin Labels
    /\ \A f \in Fields : Object(f) \in {"node", "deployment"}
BY LabelsAssumption DEF Fields, NodeFields, Object

LEMMA InitIInv == Init => IInv
<1> SUFFICES ASSUME Init PROVE IInv
  OBVIOUS
<1>1. TypeOK
  <2>1. command \in Commands
    BY DEF Init, Commands, Values
  <2> QED BY <2>1 DEF Init, TypeOK, Places
<1> QED BY <1>1 DEF Init, IInv, CopyOK, NoResultYet, Cordoned, ListedAreSeen,
                   NoNewPods, DrainedIsEvicted

-----------------------------------------------------------------------------
(***************************************************************************)
(* Every action keeps the invariant                                        *)
(***************************************************************************)

LEMMA OtherWritesStep ==
    ASSUME IInv, NEW f \in Fields, NEW v \in Values, OtherWrites(f, v) PROVE IInv'
<1> USE DEF IInv
<1>1. /\ value' = [value EXCEPT ![f] = v] /\ changed' = changed \cup {Object(f)}
      /\ uncordoned' = (uncordoned \/ (f = "unschedulable" /\ v = 0))
      /\ UNCHANGED <<pods, pc, command, copy, todo, failed, result, listed, evicted,
                     bound>>
  BY DEF OtherWrites, agent
<1>2. /\ value' \in [Fields -> Values] /\ value'[f] = v
      /\ \A g \in Fields : g # f => value'[g] = value[g]
  BY <1>1 DEF TypeOK
<1>3. TypeOK'
  BY <1>1, <1>2, FieldFacts DEF TypeOK
<1>4. CopyOK'
  <2>1. UpToDate' => Object(f) # Target(command) /\ UpToDate
    BY <1>1 DEF UpToDate, Target
  <2> QED BY <1>1, <1>2, <2>1 DEF CopyOK, Target
<1>5. Cordoned'
  <2>1. v = 0 \/ v = 1
    BY DEF Values
  <2> QED BY <1>1, <1>2, <2>1, FieldFacts DEF Cordoned
<1>6. NoNewPods'
  BY <1>1 DEF NoNewPods
<1>7. NoResultYet' /\ ListedAreSeen' /\ DrainedIsEvicted'
  BY <1>1 DEF NoResultYet, ListedAreSeen, DrainedIsEvicted
<1> QED BY <1>3, <1>4, <1>5, <1>6, <1>7

LEMMA StatusUpdateStep ==
    ASSUME IInv, NEW o \in {"node", "deployment"}, StatusUpdate(o) PROVE IInv'
<1> USE DEF IInv
<1>1. /\ changed' = changed \cup {o}
      /\ UNCHANGED <<value, pods, pc, command, copy, todo, failed, result, listed,
                     evicted, bound, uncordoned>>
  BY DEF StatusUpdate, agent
<1>2. TypeOK'
  BY <1>1 DEF TypeOK
<1>3. CopyOK'
  BY <1>1 DEF CopyOK, UpToDate, Target
<1> QED BY <1>1, <1>2, <1>3 DEF NoResultYet, Cordoned, ListedAreSeen, NoNewPods,
                                DrainedIsEvicted

\* What MovePod does to the places of the pods.
LEMMA MovePodFacts ==
    ASSUME TypeOK, NEW p \in Pods, NEW from, NEW to \in Places,
           MovePod(p, from, to)
    PROVE  /\ pods' \in [Pods -> Places]
           /\ pods[p] = from /\ pods'[p] = to
           /\ \A q \in Pods \ {p} : pods'[q] = pods[q]
BY DEF MovePod, TypeOK

\* The pods and the scheduler.
LEMMA PodStep ==
    ASSUME IInv, NEW p \in Pods, Assign(p) \/ Bind(p) \/ PodDeleted(p) \/ PodEnds(p)
    PROVE  IInv'
<1> USE DEF IInv
<1>1. UNCHANGED <<value, pc, command, copy, todo, failed, result, changed, listed,
                  evicted, bound, uncordoned>>
  BY DEF Assign, Bind, PodDeleted, PodEnds, agent, history
<1>2. /\ pods' \in [Pods -> Places]
      /\ \A q \in Pods \ {p} : pods'[q] = pods[q]
      /\ \/ pods'[p] = "assigned" /\ value["unschedulable"] = 0
         \/ pods'[p] = "here" /\ pods[p] = "assigned"
         \/ pods'[p] \in {"pending", "terminating"}
  BY MovePodFacts DEF Assign, Bind, PodDeleted, PodEnds, Places
<1>3. TypeOK' /\ CopyOK'
  BY <1>1, <1>2 DEF TypeOK, CopyOK, UpToDate, Target
<1>4. NoNewPods'
  <2> SUFFICES ASSUME pc = "evict", ~uncordoned, NEW q \in Pods
               PROVE  /\ pods'[q] = "here" => System(q) \/ failed \/ q \in todo \cup bound
                      /\ pods'[q] = "assigned" => q \in bound
    BY <1>1 DEF NoNewPods
  <2>1. value["unschedulable"] = 1
    BY DEF Cordoned
  <2> QED BY <1>2, <2>1 DEF NoNewPods
<1> QED BY <1>1, <1>3, <1>4 DEF NoResultYet, Cordoned, ListedAreSeen,
                                DrainedIsEvicted

LEMMA StartStep ==
    ASSUME IInv, NEW c \in Commands, Start(c) PROVE IInv'
<1> USE DEF IInv
<1>1. /\ command' = c /\ pc' = "read" /\ result' = "none"
      /\ todo' = {} /\ failed' = FALSE /\ listed' = {} /\ evicted' = {}
      /\ bound' = {} /\ uncordoned' = FALSE
      /\ UNCHANGED <<value, pods, copy, changed>>
  BY DEF Start
<1>2. TypeOK'
  BY <1>1 DEF TypeOK
<1> QED BY <1>1, <1>2 DEF CopyOK, NoResultYet, Cordoned, ListedAreSeen, NoNewPods,
                          DrainedIsEvicted

LEMMA ReadStep == IInv /\ Read => IInv'
<1> USE DEF IInv
<1> SUFFICES ASSUME IInv, Read PROVE IInv'
  OBVIOUS
<1>1. /\ pc = "read" /\ pc' = "patch" /\ copy' = Modified
      /\ changed' = changed \ {Target(command)}
      /\ UNCHANGED <<value, pods, command, todo, failed, result, listed, evicted,
                     bound, uncordoned>>
  BY DEF Read, Goto
<1>2. /\ DOMAIN command.set \subseteq Fields
      /\ \A f \in DOMAIN command.set : command.set[f] \in Values
  BY CommandFacts DEF TypeOK
<1>3. /\ copy' \in [Fields -> Values]
      /\ \A f \in Fields : copy'[f] = IF f \in DOMAIN command.set THEN command.set[f]
                                      ELSE value[f]
  BY <1>1, <1>2 DEF Modified, TypeOK
<1>4. TypeOK'
  BY <1>1, <1>3 DEF TypeOK
<1>5. CopyOK'
  BY <1>1, <1>2, <1>3 DEF CopyOK
<1> QED BY <1>1, <1>4, <1>5 DEF NoResultYet, Cordoned, ListedAreSeen, NoNewPods,
                                DrainedIsEvicted

\* An operation that fails without an effect of the step.
LEMMA FailureStep ==
    ASSUME IInv, pc # "idle", Return("failure"),
           UNCHANGED <<value, pods, copy, todo, failed, changed, listed, evicted,
                       bound, uncordoned>>
    PROVE  IInv'
<1> USE DEF IInv, Return, Goto
<1>1. TypeOK'
  BY DEF TypeOK
<1> QED BY <1>1 DEF CopyOK, NoResultYet, Cordoned, ListedAreSeen, NoNewPods,
                    DrainedIsEvicted

\* A patch that is applied changes only the fields of the command.
LEMMA ApplyFacts ==
    ASSUME IInv, pc = "patch", UpToDate, Apply
    PROVE  /\ value' \in [Fields -> Values]
           /\ \A f \in Fields \ DOMAIN command.set : value'[f] = value[f]
           /\ command.kind = "drain" => value'["unschedulable"] = 1
           /\ changed' \subseteq {"node", "deployment"} /\ uncordoned' = FALSE
<1> USE DEF IInv
<1>1. \A f \in Fields : value'[f] = Merged(f)
  BY DEF Apply
<1>2. value' \in [Fields -> Values]
  BY DEF Apply, Merged, TypeOK
<1>3. \A f \in Fields \ DOMAIN command.set : value'[f] = value[f]
  BY <1>1 DEF Merged, CopyOK
<1>4. command.kind = "drain" => value'["unschedulable"] = 1
  <2> SUFFICES ASSUME command.kind = "drain" PROVE value'["unschedulable"] = 1
    OBVIOUS
  <2>1. /\ DOMAIN command.set = {"unschedulable"} /\ command.set["unschedulable"] = 1
    BY CommandFacts DEF TypeOK
  <2>2. copy["unschedulable"] = 1
    BY <2>1 DEF CopyOK
  <2> QED BY <1>1, <2>2, FieldFacts DEF Merged, Target
<1>5. changed' \subseteq {"node", "deployment"} /\ uncordoned' = FALSE
  BY DEF Apply, Target, TypeOK
<1> QED BY <1>2, <1>3, <1>4, <1>5

LEMMA PatchStep == IInv /\ Patch => IInv'
<1> USE DEF IInv
<1> SUFFICES ASSUME IInv, Patch PROVE IInv'
  OBVIOUS
<1>1. /\ pc = "patch" /\ UpToDate /\ Apply
      /\ UNCHANGED <<pods, copy, todo, failed, listed, evicted, bound, command>>
      /\ \/ command.kind = "drain" /\ pc' = "list" /\ result' = result
         \/ command.kind # "drain" /\ pc' = "idle" /\ result' = "success"
  BY DEF Patch, Apply, Goto, Return
<1>2. /\ value' \in [Fields -> Values]
      /\ command.kind = "drain" => value'["unschedulable"] = 1
      /\ changed' \subseteq {"node", "deployment"} /\ uncordoned' = FALSE
  BY <1>1, ApplyFacts
<1>3. TypeOK'
  BY <1>1, <1>2 DEF TypeOK
<1> QED BY <1>1, <1>2, <1>3 DEF CopyOK, NoResultYet, Cordoned, ListedAreSeen,
                                NoNewPods, DrainedIsEvicted

LEMMA PatchUnansweredStep == IInv /\ PatchUnanswered => IInv'
<1> USE DEF IInv
<1> SUFFICES ASSUME IInv, PatchUnanswered PROVE IInv'
  OBVIOUS
<1>1. /\ pc = "patch" /\ UpToDate /\ Apply
      /\ UNCHANGED <<pods, copy, todo, failed, listed, evicted, bound, command>>
      /\ pc' = "idle" /\ result' = "failure"
  BY DEF PatchUnanswered, Apply, Goto, Return
<1>2. TypeOK'
  BY <1>1, ApplyFacts DEF TypeOK
<1> QED BY <1>1, <1>2 DEF CopyOK, NoResultYet, Cordoned, ListedAreSeen, NoNewPods,
                          DrainedIsEvicted

LEMMA ListStep == IInv /\ List => IInv'
<1> USE DEF IInv
<1> SUFFICES ASSUME IInv, List PROVE IInv'
  OBVIOUS
<1>1. /\ pc = "list" /\ pc' = "evict" /\ todo' = Here /\ listed' = Here
      /\ bound' = {p \in Pods : pods[p] = "assigned"}
      /\ UNCHANGED <<value, pods, command, copy, failed, result, changed, evicted,
                     uncordoned>>
  BY DEF List, Goto
<1>2. TypeOK'
  BY <1>1 DEF TypeOK, Here
<1> QED BY <1>1, <1>2 DEF CopyOK, NoResultYet, Cordoned, ListedAreSeen, NoNewPods,
                          DrainedIsEvicted, Here

LEMMA SkipSystemStep ==
    ASSUME IInv, NEW p \in Pods, SkipSystem(p) PROVE IInv'
<1> USE DEF IInv
<1>1. /\ pc = "evict" /\ pc' = "evict" /\ System(p) /\ todo' = todo \ {p}
      /\ UNCHANGED <<value, pods, command, copy, failed, result, changed, listed,
                     evicted, bound, uncordoned>>
  BY DEF SkipSystem, Goto, history
<1>2. TypeOK'
  BY <1>1 DEF TypeOK
<1> QED BY <1>1, <1>2 DEF CopyOK, NoResultYet, Cordoned, ListedAreSeen, NoNewPods,
                          DrainedIsEvicted

LEMMA EvictFailsStep ==
    ASSUME IInv, NEW p \in Pods, EvictFails(p) PROVE IInv'
<1> USE DEF IInv
<1>1. /\ pc = "evict" /\ pc' = "evict" /\ failed' = TRUE /\ todo' = todo \ {p}
      /\ UNCHANGED <<value, pods, command, copy, result, changed, listed, evicted,
                     bound, uncordoned>>
  BY DEF EvictFails, Failure, Goto, history
<1>2. TypeOK'
  BY <1>1 DEF TypeOK
<1> QED BY <1>1, <1>2 DEF CopyOK, NoResultYet, Cordoned, ListedAreSeen, NoNewPods,
                          DrainedIsEvicted

LEMMA EvictStep ==
    ASSUME IInv, NEW p \in Pods, Evict(p) PROVE IInv'
<1> USE DEF IInv
<1>1. /\ pc = "evict" /\ pc' = "evict" /\ todo' = todo \ {p}
      /\ evicted' = evicted \cup {p}
      /\ UNCHANGED <<value, command, copy, failed, result, changed, listed, bound,
                     uncordoned>>
  BY DEF Evict, Goto
<1>2. /\ pods' \in [Pods -> Places] /\ pods'[p] \in {"pending", "terminating"}
      /\ \A q \in Pods \ {p} : pods'[q] = pods[q]
  BY DEF Evict, TypeOK, Places
<1>3. TypeOK'
  BY <1>1, <1>2 DEF TypeOK
<1>4. NoNewPods'
  BY <1>1, <1>2 DEF NoNewPods
<1> QED BY <1>1, <1>3, <1>4 DEF CopyOK, NoResultYet, Cordoned, ListedAreSeen,
                                DrainedIsEvicted

LEMMA DrainDoneStep == IInv /\ DrainDone => IInv'
<1> USE DEF IInv
<1> SUFFICES ASSUME IInv, DrainDone PROVE IInv'
  OBVIOUS
<1>1. /\ pc = "evict" /\ pc' = "idle" /\ todo = {}
      /\ result' = (IF failed THEN "failure" ELSE "success")
      /\ UNCHANGED <<value, pods, command, copy, todo, failed, changed, listed,
                     evicted, bound, uncordoned>>
  BY DEF DrainDone, Return, Goto, history
<1>2. TypeOK'
  BY <1>1 DEF TypeOK
<1>3. DrainedIsEvicted'
  BY <1>1 DEF DrainedIsEvicted, ListedAreSeen
<1> QED BY <1>1, <1>2, <1>3 DEF CopyOK, NoResultYet, Cordoned, ListedAreSeen, NoNewPods

LEMMA NextIInv == IInv /\ [Next]_vars => IInv'
<1> SUFFICES ASSUME IInv, [Next]_vars PROVE IInv'
  OBVIOUS
<1>1. CASE Cluster
  BY <1>1, OtherWritesStep, StatusUpdateStep, PodStep DEF Cluster
<1>2. CASE \E c \in Commands : Start(c)
  BY <1>2, StartStep
<1>3. CASE CallFails \/ Conflict
  BY <1>3, FailureStep DEF CallFails, Conflict, AfterConflict, history
<1>4. CASE Read \/ Patch \/ PatchUnanswered \/ List \/ DrainDone
  BY <1>4, ReadStep, PatchStep, PatchUnansweredStep, ListStep, DrainDoneStep
<1>5. CASE \E p \in Pods : SkipSystem(p) \/ EvictFails(p) \/ Evict(p)
  BY <1>5, SkipSystemStep, EvictFailsStep, EvictStep
<1>6. CASE UNCHANGED vars
  <2>1. UNCHANGED <<value, pods, pc, command, copy, todo, failed, result, changed,
                    listed, evicted, bound, uncordoned>>
    BY <1>6 DEF vars, agent, history
  <2>2. TypeOK' /\ CopyOK'
    BY <2>1 DEF IInv, TypeOK, CopyOK, UpToDate, Target
  <2> QED BY <2>1, <2>2 DEF IInv, NoResultYet, Cordoned, ListedAreSeen, NoNewPods,
                            DrainedIsEvicted
<1> QED BY <1>1, <1>2, <1>3, <1>4, <1>5, <1>6 DEF Next, Operation

LEMMA Invariance == Spec => []IInv
BY InitIInv, NextIInv, PTL DEF Spec

-----------------------------------------------------------------------------
(***************************************************************************)
(* The theorems                                                            *)
(***************************************************************************)

\* The variables of the operations of actuator.py and of the cluster keep their
\* types.
THEOREM TypeCorrect == Spec => []TypeOK
<1>1. IInv => TypeOK
  BY DEF IInv
<1> QED BY <1>1, Invariance, PTL

\* drain_node reports success only when it has evicted every listed pod that is
\* no system pod, however many there are.
THEOREM DrainsEvict == Spec => []DrainedIsEvicted
<1>1. IInv => DrainedIsEvicted
  BY DEF IInv
<1> QED BY <1>1, Invariance, PTL

\* A patch with the whole object (cordon_node, label_node, update_deployment)
\* leaves every field alone that the command does not name.
THEOREM PatchesKeepOthers == Spec => OthersKept
<1>1. IInv /\ [Next]_vars =>
        (AgentWrites => \A f \in Fields \ DOMAIN command.set : value'[f] = value[f])
  <2> SUFFICES ASSUME IInv, [Next]_vars, AgentWrites
               PROVE  \A f \in Fields \ DOMAIN command.set : value'[f] = value[f]
    OBVIOUS
  <2>1. pc = "patch" /\ pc' # pc
    BY DEF AgentWrites
  <2>2. CASE Patch \/ PatchUnanswered
    BY <2>2, ApplyFacts DEF Patch, PatchUnanswered
  <2>3. CASE CallFails \/ Conflict
    BY <2>3 DEF CallFails, Conflict
  <2> QED BY <2>1, <2>2, <2>3 DEF Next, Cluster, Operation, OtherWrites, StatusUpdate,
            Assign, Bind, PodDeleted, PodEnds, Start, Read, List, DrainDone,
            SkipSystem, EvictFails, Evict, agent, vars
<1> QED BY <1>1, Invariance, PTL DEF Spec, OthersKept

\* When a drain succeeds, and nobody has made the node schedulable again since, the
\* pods on the node are system pods, pods that were already on their way and pods
\* in their grace period: the cordon precedes the list, and drain_node does not wait.
THEOREM DrainsLeaveNobodyBehind == Spec => DrainedIsLeaving
<1>1. IInv /\ [Next]_vars =>
        ((pc = "evict" /\ result' = "success" /\ ~uncordoned) =>
            \A p \in Here : System(p) \/ p \in bound \/ pods[p] = "terminating")
  <2> SUFFICES ASSUME IInv, [Next]_vars, pc = "evict", result' = "success", ~uncordoned,
                      NEW p \in Here
               PROVE  System(p) \/ p \in bound \/ pods[p] = "terminating"
    OBVIOUS
  <2>1. result = "none"
    BY DEF IInv, NoResultYet
  <2>2. DrainDone
    BY <2>1 DEF Next, Cluster, Operation, OtherWrites, StatusUpdate, Assign, Bind,
            PodDeleted, PodEnds, Start, Read, CallFails, Patch, PatchUnanswered, Conflict, List,
            SkipSystem, EvictFails, Evict, agent, vars
  <2>3. todo = {} /\ ~failed
    BY <2>2 DEF DrainDone, Return
  <2> QED BY <2>3 DEF IInv, NoNewPods, Here
<1> QED BY <1>1, Invariance, PTL DEF Spec, DrainedIsLeaving
=============================================================================
