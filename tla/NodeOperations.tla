----------------------------- MODULE NodeOperations -----------------------------
(***************************************************************************)
(* agent/actuator.py: what executing an action does to the cluster.  Every *)
(* operation reads an object, changes its copy and patches the object with *)
(* the whole copy; drain_node then lists the node's pods and evicts them   *)
(* one by one.  An eviction returns once the pod is to go: it stays on the *)
(* node for its grace period, and drain_node does not wait for it.         *)
(* Meanwhile other clients of the Kubernetes API write the same objects    *)
(* and the scheduler places pods.                                          *)
(*                                                                         *)
(* The API server is external.  It merges a patch (a key that the body     *)
(* lacks stays) and refuses one whose resourceVersion is not the object's. *)
(***************************************************************************)
EXTENDS Naturals, FiniteSets

CONSTANTS
    Labels,     \* labels of the node
    Pods,       \* pods that may come to the node
    DaemonSetPods, MirrorPods,  \* pods drain_node skips
    BarePods    \* pods without an owner reference

ASSUME PodsAssumption ==
    /\ IsFiniteSet(Pods)
    /\ DaemonSetPods \subseteq Pods /\ MirrorPods \subseteq Pods
    /\ BarePods \subseteq Pods /\ DaemonSetPods \cap BarePods = {}

ASSUME LabelsAssumption == Labels \cap {"unschedulable", "replicas", "image"} = {}

VARIABLES
    \* the cluster
    value,    \* the fields of the node and of a deployment
    pods,     \* where each pod is
    \* the actuator's thread
    pc, command,
    copy,     \* the object as it was read and then changed
    todo,     \* pods listed and not yet looked at
    failed,   \* failed_evictions is not empty
    result,   \* what the operation returned
    \* history, reset with every command
    changed,  \* objects that changed since they were read
    listed,   \* pods that were on the node when they were listed
    evicted,  \* pods this operation has evicted
    bound,    \* pods assigned to the node, not yet on it, when they were listed
    uncordoned\* another client made the node schedulable after the cordon

agent == <<pc, command, copy, todo, failed, result>>
history == <<changed, listed, evicted, bound, uncordoned>>
vars == <<value, pods, agent, history>>

NodeFields == {"unschedulable"} \cup Labels
DeploymentFields == {"replicas", "image"}
Fields == NodeFields \cup DeploymentFields

Object(f) == IF f \in NodeFields THEN "node" ELSE "deployment"

\* 0 is false for unschedulable and `absent' for a label.
Values == 0 .. 1

\* The commands of execute_action that write: some fields and new values.
Commands ==
    [kind : {"drain"}, force : BOOLEAN, set : [{"unschedulable"} -> {1}]]
        \cup [kind : {"cordon"}, force : {FALSE},
              set : [{"unschedulable"} -> Values]]
        \cup [kind : {"label"}, force : {FALSE},
              set : UNION {[{l} -> Values] : l \in Labels}]
        \cup [kind : {"deployment"}, force : {FALSE},
              set : UNION {[fs -> Values] : fs \in SUBSET DeploymentFields}]

Target(c) == IF c.kind = "deployment" THEN "deployment" ELSE "node"

System(p) == p \in DaemonSetPods \cup MirrorPods

Init ==
    /\ value \in [Fields -> Values] /\ value["unschedulable"] = 0
    /\ pods \in [Pods -> {"pending", "here"}]
    /\ pc = "idle"
    /\ command \in Commands /\ command.kind = "drain" /\ ~command.force
    /\ copy = value
    /\ todo = {} /\ failed = FALSE /\ result = "none"
    /\ changed = {} /\ listed = {} /\ evicted = {} /\ bound = {}
    /\ uncordoned = FALSE

-----------------------------------------------------------------------------
\* Other clients, the scheduler and the pods

OtherWrites(f, v) ==
    /\ value[f] # v
    /\ value' = [value EXCEPT ![f] = v]
    /\ changed' = changed \cup {Object(f)}
    /\ uncordoned' = (uncordoned \/ (f = "unschedulable" /\ v = 0))
    /\ UNCHANGED <<pods, agent, listed, evicted, bound>>

\* The kubelet or a controller updates the status of an object.
StatusUpdate(o) ==
    /\ o \notin changed
    /\ changed' = changed \cup {o}
    /\ UNCHANGED <<value, pods, agent, listed, evicted, bound, uncordoned>>

MovePod(p, from, to) ==
    /\ pods[p] = from
    /\ pods' = [pods EXCEPT ![p] = to]

\* The scheduler chooses the node while it is schedulable and binds later.
Assign(p) ==
    /\ value["unschedulable"] = 0
    /\ MovePod(p, "pending", "assigned")
    /\ UNCHANGED <<value, agent, history>>

Bind(p) ==
    /\ MovePod(p, "assigned", "here")
    /\ UNCHANGED <<value, agent, history>>

\* Another client deletes the pod.
PodDeleted(p) ==
    /\ MovePod(p, "here", "terminating")
    /\ UNCHANGED <<value, agent, history>>

\* The pod has ended, in its grace period or by itself; its controller may create
\* it again.
PodEnds(p) ==
    /\ MovePod(p, "here", "pending") \/ MovePod(p, "terminating", "pending")
    /\ UNCHANGED <<value, agent, history>>

-----------------------------------------------------------------------------
\* Reading and patching

Goto(l) == pc' = l /\ UNCHANGED command

Return(r) == result' = r /\ Goto("idle")

Start(c) ==
    /\ pc = "idle"
    /\ command' = c /\ pc' = "read"
    /\ todo' = {} /\ failed' = FALSE /\ result' = "none"
    /\ listed' = {} /\ evicted' = {} /\ bound' = {} /\ uncordoned' = FALSE
    /\ UNCHANGED <<value, pods, copy, changed>>

\* The copy with the fields of the command set.
Modified == [f \in Fields |-> IF f \in DOMAIN command.set THEN command.set[f]
                              ELSE value[f]]

Read ==
    /\ pc = "read"
    /\ copy' = Modified
    /\ changed' = changed \ {Target(command)}
    /\ Goto("patch")
    /\ UNCHANGED <<value, pods, todo, failed, result, listed, evicted, bound,
                   uncordoned>>

\* read_node raises, or a list or patch does before it has any effect.
CallFails ==
    /\ pc \in {"read", "patch", "list"}
    /\ Return("failure")
    /\ UNCHANGED <<value, pods, copy, todo, failed, history>>

\* Mutant: the body is built without the metadata that was read.
UpToDateMutant == TRUE

\* The body carries the resourceVersion that was read.
UpToDate == Target(command) \notin changed

\* The server merges the body into the object.
Merged(f) ==
    IF Object(f) # Target(command) \/ (f \in Labels /\ copy[f] = 0)
    THEN value[f]
    ELSE copy[f]

Apply ==
    /\ value' = [f \in Fields |-> Merged(f)]
    /\ changed' = changed \cup {Target(command)}
    /\ uncordoned' = FALSE
    /\ UNCHANGED <<pods, copy, todo, failed, listed, evicted, bound>>

\* Mutant: the pods are listed and evicted whether or not the cordon worked.
AfterConflictMutant ==
    IF command.kind = "drain" THEN Goto("list") /\ UNCHANGED result
    ELSE Return("failure")

AfterConflict == Return("failure")

Patch ==
    /\ pc = "patch"
    /\ UpToDate
    /\ Apply
    /\ \/ command.kind = "drain" /\ Goto("list") /\ UNCHANGED result
       \/ command.kind # "drain" /\ Return("success")

\* The patch is applied and its answer is lost.
PatchUnanswered ==
    /\ pc = "patch"
    /\ UpToDate
    /\ Apply
    /\ Return("failure")

Conflict ==
    /\ pc = "patch"
    /\ ~UpToDate
    /\ AfterConflict
    /\ UNCHANGED <<value, pods, copy, todo, failed, history>>

-----------------------------------------------------------------------------
\* The rest of drain_node

Here == {p \in Pods : pods[p] \in {"here", "terminating"}}

List ==
    /\ pc = "list"
    /\ todo' = Here /\ listed' = Here
    /\ bound' = {p \in Pods : pods[p] = "assigned"}
    /\ Goto("evict")
    /\ UNCHANGED <<value, pods, copy, failed, result, changed, evicted,
                   uncordoned>>

Refused(p) == ~command.force /\ p \in BarePods

SkipSystem(p) ==
    /\ pc = "evict" /\ p \in todo /\ System(p)
    /\ todo' = todo \ {p}
    /\ Goto("evict")
    /\ UNCHANGED <<value, pods, copy, failed, result, history>>

\* Mutant: a pod that is not evicted is only logged.
FailureMutant == UNCHANGED failed

\* An unmanaged pod is refused; an eviction fails when the pod has gone, when
\* a disruption budget forbids it or when the call fails.
Failure == failed' = TRUE

EvictFails(p) ==
    /\ pc = "evict" /\ p \in todo /\ ~System(p)
    /\ Failure
    /\ todo' = todo \ {p}
    /\ Goto("evict")
    /\ UNCHANGED <<value, pods, copy, result, history>>

\* The call creates an Eviction for the pod's name and returns: what bears the name
\* has a grace period to go.  If the listed pod has ended, that is one that was
\* created again under its name and is not on the node.
Evict(p) ==
    /\ pc = "evict" /\ p \in todo /\ ~System(p) /\ ~Refused(p)
    /\ pods' = [pods EXCEPT ![p] = IF p \in Here THEN "terminating" ELSE "pending"]
    /\ evicted' = evicted \cup {p}
    /\ todo' = todo \ {p}
    /\ Goto("evict")
    /\ UNCHANGED <<value, copy, failed, result, changed, listed, bound,
                   uncordoned>>

DrainDone ==
    /\ pc = "evict" /\ todo = {}
    /\ Return(IF failed THEN "failure" ELSE "success")
    /\ UNCHANGED <<value, pods, copy, todo, failed, history>>

-----------------------------------------------------------------------------
Cluster ==
    \/ \E f \in Fields, v \in Values : OtherWrites(f, v)
    \/ \E o \in {"node", "deployment"} : StatusUpdate(o)
    \/ \E p \in Pods : Assign(p) \/ Bind(p) \/ PodDeleted(p) \/ PodEnds(p)

Operation ==
    \/ \E c \in Commands : Start(c)
    \/ Read \/ CallFails \/ Patch \/ PatchUnanswered \/ Conflict
    \/ List \/ DrainDone
    \/ \E p \in Pods : SkipSystem(p) \/ EvictFails(p) \/ Evict(p)

Next == Cluster \/ Operation

Spec == Init /\ [][Next]_vars
-----------------------------------------------------------------------------
Places == {"pending", "assigned", "here", "terminating"}

TypeOK ==
    /\ value \in [Fields -> Values] /\ copy \in [Fields -> Values]
    /\ pods \in [Pods -> Places]
    /\ pc \in {"idle", "read", "patch", "list", "evict"}
    /\ command \in Commands
    /\ {todo, listed, evicted, bound} \subseteq SUBSET Pods
    /\ {failed, uncordoned} \subseteq BOOLEAN
    /\ result \in {"none", "success", "failure"}
    /\ changed \subseteq {"node", "deployment"}

AgentWrites == pc = "patch" /\ pc' # pc

\* A patch carries a copy of the whole object, and yet it undoes nothing that
\* another client wrote between the read and the patch.
OthersKept ==
    [][AgentWrites =>
        \A f \in Fields \ DOMAIN command.set : value'[f] = value[f]]_vars

\* drain_node that returns success has evicted every pod it listed, except the
\* system pods.
DrainedIsEvicted ==
    (command.kind = "drain" /\ result = "success")
        => \A p \in listed : System(p) \/ p \in evicted

\* When a drain returns success and nobody has made the node schedulable again, every
\* pod on the node is about to leave it, but for system pods and pods the scheduler
\* had already assigned: drain_node does not say that they are gone.
DrainedIsLeaving ==
    [][(pc = "evict" /\ result' = "success" /\ ~uncordoned) =>
        \A p \in Here : System(p) \/ p \in bound \/ pods[p] = "terminating"]_vars
=============================================================================
