--------------------------- MODULE MCCertificates ---------------------------
(***************************************************************************)
(* Certificates on two domains: one app is deployed with and without the   *)
(* second as an alias, or the second gets an app of its own.               *)
(***************************************************************************)
EXTENDS Certificates

CONSTANTS a, b

With == [canonical |-> a, aliases |-> {b}]
Without == [canonical |-> a, aliases |-> {}]
Own == [canonical |-> b, aliases |-> {}]

MCTables == {{With}, {Without, Own}}
MCBudget == 2
=============================================================================
