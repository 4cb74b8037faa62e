-------------------------- MODULE MCDeploymentTable --------------------------
(***************************************************************************)
(* DeploymentTable on three apps with two deployments each.  The second    *)
(* one of b claims a host of a; the first one of c takes over a host of b, *)
(* and the second gives it back.                                           *)
(***************************************************************************)
EXTENDS DeploymentTable

CONSTANTS a, b, c, w, x, y, z,
          a1, a2, a3, b1, b2, c1, c2

MCInstances == {a1, a2, a3, b1, b2, c1, c2}
MCLabel(app, id, hosts) == [app |-> app, id |-> id, hosts |-> hosts]
MCLabels ==
    [i \in Instances |->
        CASE i = a1 -> MCLabel(a, 1, {w})
          [] i \in {a2, a3} -> MCLabel(a, 2, {w, x})
          [] i = b1 -> MCLabel(b, 1, {y})
          [] i = b2 -> MCLabel(b, 2, {x, y})
          [] i = c1 -> MCLabel(c, 1, {y, z})
          [] i = c2 -> MCLabel(c, 2, {z})]
MCContainer == [i \in Instances |-> i]
==============================================================================
