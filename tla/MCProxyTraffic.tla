--------------------------- MODULE MCProxyTraffic ---------------------------
(***************************************************************************)
(* One app with an alias and two backends, of which a deployment leaves    *)
(* one and a failed one none; the API on its own domain.                   *)
(***************************************************************************)
EXTENDS ProxyTraffic, TLC

CONSTANTS r1, r2, b1, b2, a, w, api

Route(backends) == [canonical |-> a, aliases |-> {w}, backends |-> backends]

MCSnapshots ==
    {[routes |-> {Route(<<b1, b2>>)}, api |-> api, apiUp |-> TRUE],
     [routes |-> {Route(<<b2>>)}, api |-> api, apiUp |-> FALSE]}

Query(kind, host, secure) == [kind |-> kind, host |-> host, secure |-> secure]

(* Each may be a plain request; one may be a WebSocket and the other one a *)
(* TCP tunnel.                                                             *)
MCQueries ==
    (r1 :> {Query("plain", a, TRUE), Query("ws", a, TRUE), Query("plain", w, TRUE),
            Query("plain", "localhost", FALSE)})
    @@ (r2 :> {Query("plain", a, TRUE), Query("tcp", api, TRUE), Query("acme", w, FALSE)})
=============================================================================
