SPECIFICATION Spec
CONSTANTS
    Labels = {l1}
    Pods = {p1, p2, p3}
    DaemonSetPods = {p1}
    MirrorPods = {}
    BarePods = {p3}
INVARIANTS
    DrainedIsEvicted
PROPERTIES
    OthersKept
    DrainedIsLeaving
