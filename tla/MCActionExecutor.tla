-------------------------- MODULE MCActionExecutor --------------------------
(***************************************************************************)
(* A cluster of two nodes.  The actions differ in what the engine tells    *)
(* apart: type, resource named or not, savings and risks on either side of *)
(* the thresholds, dependencies that are met or not.                       *)
(***************************************************************************)
EXTENDS ActionExecutor

Replace(n, i, resource, savings, risk, deps) ==
    [id |-> n, type |-> "spot_replacement", resource |-> resource,
     instance |-> i, savings |-> savings, risk |-> risk, nodes |-> Unset,
     dependsOn |-> deps]

Other(n, type, resource, savings, risk, nodes) ==
    [id |-> n, type |-> type, resource |-> resource, instance |-> "",
     savings |-> savings, risk |-> risk, nodes |-> nodes, dependsOn |-> {}]

MCInstances == {"i1", "i2"}

MCActions ==
    {Replace("r1", "i1", "i1", 120, 30, {}),
     Replace("r2", "i1", "i1", 10, 75, {}),
     Replace("r3", "i1", None, 50, Unset, {}),
     Replace("r4", "i2", "i2", 50, 85, {"s1"}),
     Other("s1", "right_size", "i1", 120, 20, Unset),
     Other("c1", "consolidate", "i2", 50, 20, 2),
     Other("c2", "consolidate", "i2", 10, Unset, Unset),
     Other("u1", "scale_up", None, 10, 20, 5),
     Other("h1", "hibernate", "i2", 150, 20, Unset)}

MCPolicies ==
    {NoPolicy,
     [allows |-> Switchable, maxRisk |-> 80, minNodes |-> 2, maxNodes |-> 0,
      requireApproval |-> FALSE],
     [allows |-> {"spot_replacement"}, maxRisk |-> 70, minNodes |-> 1,
      maxNodes |-> 4, requireApproval |-> TRUE]}
=============================================================================
