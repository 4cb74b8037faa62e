------------------------------ MODULE MCRollout ------------------------------
(***************************************************************************)
(* Rollout on one or two apps.  App a is deployed twice, app b once.       *)
(***************************************************************************)
EXTENDS Rollout

CONSTANTS a, b, ha, hb, a1, a2, b1

MCLabels ==
    [i \in Instances |->
        [app |-> IF i = b1 THEN b ELSE a,
         id |-> IF i = a2 THEN 2 ELSE 1,
         hosts |-> IF i = b1 THEN {hb} ELSE {ha}]]
MCContainer == [i \in Instances |-> i]
==============================================================================
