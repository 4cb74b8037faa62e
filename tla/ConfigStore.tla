----------------------------- MODULE ConfigStore -----------------------------
(***************************************************************************)
(* What the proxy client and haloy-proxy promise together, with no locks,  *)
(* requests or processes: haloyd publishes routing snapshots to durable    *)
(* storage, and the data plane serves one of the snapshots published so    *)
(* far, or nothing.  A data plane that starts takes up the snapshot that   *)
(* is durable at that moment.                                              *)
(***************************************************************************)

CONSTANTS
    Snapshots,  (* Routing snapshots, up to equal content hashes.          *)
    NoSnapshot  (* Nothing published, or nothing served.                   *)

VARIABLES
    durable,    (* The snapshot in the snapshot file.                      *)
    published,  (* Every snapshot that has ever been durable.              *)
    served      (* The snapshot the data plane routes by.                  *)

vars == <<durable, published, served>>

TypeOK ==
    /\ durable \in Snapshots \cup {NoSnapshot}
    /\ published \subseteq Snapshots
    /\ served \in published \cup {NoSnapshot}

Init ==
    /\ durable = NoSnapshot
    /\ published = {}
    /\ served = NoSnapshot

(* haloyd makes a snapshot durable; nothing is served by that alone.       *)
Publish(s) ==
    /\ durable' = s
    /\ published' = published \cup {s}
    /\ UNCHANGED served

(* The data plane switches to a published snapshot.  It need not be the    *)
(* newest: a request its sender has given up on may still be carried out.  *)
Serve(s) ==
    /\ s \in published
    /\ served' = s
    /\ UNCHANGED <<durable, published>>

(* The data plane starts and takes up the durable snapshot.                *)
Restore ==
    /\ served' = durable
    /\ UNCHANGED <<durable, published>>

(* The data plane stops, and forgets.                                      *)
Lose ==
    /\ served' = NoSnapshot
    /\ UNCHANGED <<durable, published>>

Next ==
    \/ \E s \in Snapshots : Publish(s) \/ Serve(s)
    \/ Restore
    \/ Lose

Spec == Init /\ [][Next]_vars
==============================================================================
