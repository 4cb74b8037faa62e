---------------------------- MODULE MCLayerStore ----------------------------
(***************************************************************************)
(* Two pushes that share a layer the server has stored long ago, beside a  *)
(* stored layer nobody needs any more.  The disk has room for both pushes  *)
(* only if the latter is pruned.                                           *)
(***************************************************************************)
EXTENDS LayerStore

CONSTANTS a, b, o, p, c1, c2

MCImage == [c \in {c1, c2} |-> IF c = c1 THEN {a, b} ELSE {a}]
=============================================================================
