----------------------------- MODULE MCProxySync -----------------------------
(***************************************************************************)
(* ProxySync on two routing snapshots besides the seed, and one snapshot   *)
(* that haloyd's own validation rejects.                                   *)
(***************************************************************************)
EXTENDS ProxySync

CONSTANTS s1, s2, bad

MCSnapshots == {Seed, s1, s2, bad}
MCValid == {Seed, s1, s2}
MCSkewed == {Seed, s1}
==============================================================================
