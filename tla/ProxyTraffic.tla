---------------------------- MODULE ProxyTraffic ----------------------------
(***************************************************************************)
(* Requests through haloy-proxy (internal/proxy/proxy.go, router.go,       *)
(* websocket.go, upgrade_tracker.go): the lookup in the snapshot that      *)
(* UpdateConfig replaces, the round robin over backends with its retry,    *)
(* the API behind its own domain, connections taken over for WebSockets    *)
(* and TCP tunnels, and the shutdown of the proxy.                         *)
(*                                                                         *)
(* A route is looked up once per request and used after the snapshot has   *)
(* been replaced; its counter belongs to the snapshot.  Requests for       *)
(* WebSockets come through TLS only.  The reverse proxy that serves plain  *)
(* requests and TCP tunnels is the standard library's: it passes on the    *)
(* end of a client's bytes and closes both connections at the end of the   *)
(* backend's.                                                              *)
(***************************************************************************)
EXTENDS Integers, Sequences, FiniteSets

CONSTANTS
    Requests,
    Snapshots,  (* What haloyd may push.  A snapshot is                    *)
                (* [routes: a set of routes, api: its domain or None,      *)
                (*  apiUp: whether it names a backend for the API].        *)
    Queries,    (* Queries[r]: what r may ask for: [kind, host, secure].   *)
    Backends,
    API,        (* The backend of the API.                                 *)
    Wrap,       (* 2^32: Route.next is a uint32.                           *)
    Budget,     (* Bound: pushed snapshots, and backends that go down.     *)
    None

Kinds == {"plain", "ws", "tcp", "acme"}

VARIABLES
    config,     (* Proxy.config                                            *)
    next,       (* next[s][c]: Route.next of the route of c in snapshot s. *)
    up,         (* The backends that accept connections.                   *)
    req,        (* req[r]: a request and how far it is.                    *)
    client,     (* client[r], back[r]: the sides of a connection that was  *)
    back,       (* taken over.                                             *)
    tracked,    (* Proxy.hijackConns, by request.                          *)
    forced,     (* Requests whose connections Shutdown has closed.         *)
    server,     (* "running", and the steps of Shutdown.                   *)
    left        (* What is left of Budget.                                 *)

trafficVars == <<req, client, back, tracked, forced, next>>
vars == <<config, up, trafficVars, server, left>>

Up == "up"      (* From the client to the backend.                         *)
Down == "down"
Directions == {Up, Down}
Sides == {"none", "open", "finished", "closed"}
Ended(side) == side \in {"finished", "closed"}

(***************************************************************************)
(* Snapshots                                                               *)
(***************************************************************************)

Hosts(route) == {route.canonical} \cup route.aliases

(* RouteBuilder.Build: no host belongs to two routes.                      *)
Build(s) ==
    \A x, y \in s.routes :
        /\ x /= y => Hosts(x) \cap Hosts(y) = {}
        /\ x.canonical \notin x.aliases

Codes == {101, 200, 301, 404, 429, 502, 503}

ASSUME SnapshotsAssumption ==
    \A s \in Snapshots : Build(s) /\ \A x \in s.routes : x.backends \in Seq(Backends)
ASSUME QueriesAssumption ==
    \A r \in Requests : \A q \in Queries[r] : q.kind \in Kinds /\ q.secure \in BOOLEAN
ASSUME WrapAssumption == Wrap \in Nat \ {0} /\ Wrap % 2 = 0
ASSUME BudgetAssumption == Budget \in Nat
ASSUME NoneAssumption == None \notin Codes /\ API \notin Backends /\ None /= API

FindRoute(s, host) == {x \in s.routes : host \in Hosts(x)}
Canonicals(s) == {x.canonical : x \in s.routes}
Counters == [s \in Snapshots |-> Canonicals(s)]

Stages ==
    {"idle", "pick", "dial", "serve", "connected", "hijacked", "relay", "done"}

(* snap and canonical name the route; backend was dialled last; done: the  *)
(* copiers that have ended.  History: alone, while no other request has    *)
(* used the counter of the route since the first attempt.                  *)
NoRequest ==
    [stage |-> "idle", kind |-> None, secure |-> FALSE,
     snap |-> None, canonical |-> None, backend |-> None,
     attempt |-> 0, alone |-> TRUE, done |-> {}, answer |-> None]

Routes == UNION {Canonicals(s) : s \in Snapshots}

Records ==
    [stage : Stages, kind : Kinds \cup {None}, secure : BOOLEAN,
     snap : Snapshots \cup {None}, canonical : Routes \cup {None},
     backend : Backends \cup {API, None}, attempt : 0 .. 2, alone : BOOLEAN,
     done : SUBSET Directions, answer : Codes \cup {None}]

TypeOK ==
    /\ config \in Snapshots
    /\ DOMAIN next = Snapshots
    /\ \A s \in Snapshots : next[s] \in [Counters[s] -> 0 .. Wrap - 1]
    /\ up \subseteq Backends \cup {API}
    /\ req \in [Requests -> Records]
    /\ \A r \in Requests : req[r].stage = "done" <=> req[r].answer /= None
    /\ client \in [Requests -> Sides] /\ back \in [Requests -> Sides]
    /\ tracked = {r \in Requests : req[r].stage = "relay"}
    /\ forced \subseteq Requests
    /\ server \in {"running", "http", "https", "waiting", "forcing", "stopped"}
    /\ left \in 0 .. Budget

(***************************************************************************)
(* The environment                                                         *)
(***************************************************************************)

Incident == left > 0 /\ left' = left - 1

UpdateConfig(s) ==
    /\ server /= "stopped" /\ s /= config /\ Incident
    /\ config' = s
    /\ UNCHANGED <<up, trafficVars, server>>

(* A container dies, and the connections it has with it.                   *)
BackendDies(b) ==
    /\ b \in up /\ Incident
    /\ up' = up \ {b}
    /\ back' = [r \in Requests |->
                   IF req[r].backend = b /\ back[r] /= "none" THEN "closed" ELSE back[r]]
    /\ UNCHANGED <<config, req, client, tracked, forced, next, server>>

Relaying(r) == req[r].stage = "relay"

EndClient(r) ==
    /\ Relaying(r) /\ client[r] /= "closed"
    /\ \E end \in {"finished", "closed"} \ {client[r]} : client' = [client EXCEPT ![r] = end]
    /\ UNCHANGED <<config, up, req, back, tracked, forced, next, server, left>>

EndBackend(r) ==
    /\ Relaying(r) /\ back[r] /= "closed"
    /\ \E end \in {"finished", "closed"} \ {back[r]} : back' = [back EXCEPT ![r] = end]
    /\ UNCHANGED <<config, up, req, client, tracked, forced, next, server, left>>

(***************************************************************************)
(* Routing                                                                 *)
(***************************************************************************)

Set(r, x) ==
    /\ req' = [req EXCEPT ![r] = x]
    /\ UNCHANGED <<config, up, back, tracked, forced, server, left>>

Answer(code) == [NoRequest EXCEPT !.stage = "done", !.answer = code]

Take(q) == [NoRequest EXCEPT !.kind = q.kind, !.secure = q.secure, !.snap = config]

ToAPI(q) ==
    LET x == [Take(q) EXCEPT !.backend = API, !.attempt = 1]
    IN IF config.apiUp THEN [x EXCEPT !.stage = "dial"] ELSE Answer(503)

ToRoute(q, route) ==
    LET x == [Take(q) EXCEPT !.canonical = route.canonical]
    IN IF route.backends = <<>> THEN Answer(502) ELSE [x EXCEPT !.stage = "pick"]

(* httpHandler: challenges, the API from localhost, and otherwise a        *)
(* redirect.  httpsHandler: challenges, the API's domain, and routes by    *)
(* their canonical domain; an alias is redirected.  A challenge is         *)
(* forwarded to haloyd's challenge server, which Certificates is about.    *)
RouteQuery(q) ==
    LET routes == FindRoute(config, q.host)
    IN IF q.kind = "acme" THEN {Answer(200), Answer(404)}
       ELSE IF ~q.secure
       THEN {IF q.host = "localhost" THEN ToAPI(q) ELSE Answer(301)}
       ELSE IF q.host = config.api THEN {ToAPI(q)}
       ELSE IF routes = {} THEN {Answer(404)}
       ELSE {IF q.host /= x.canonical THEN Answer(301) ELSE ToRoute(q, x) : x \in routes}

(* http.Server.Shutdown closes the listeners of one server after the other.*)
Receive(r, q) ==
    /\ req[r] = NoRequest
    /\ server = "running" \/ (server = "http" /\ q.secure)
    /\ \E x \in RouteQuery(q) : Set(r, x)
    /\ UNCHANGED <<client, next>>

(***************************************************************************)
(* Backends                                                                *)
(***************************************************************************)

BackendsOf(x) ==
    (CHOOSE route \in x.snap.routes : route.canonical = x.canonical).backends

Shares(y, x) == y.attempt > 0 /\ y.snap = x.snap /\ y.canonical = x.canonical

(* Route.nextBackend: the counter of the route is shared by its requests.  *)
Pick(r) ==
    LET x == req[r]
        n == next[x.snap][x.canonical]
        all == BackendsOf(x)
        only == Len(all) = 1
        dialled == [x EXCEPT !.stage = "dial", !.attempt = @ + 1,
                             !.backend = all[IF only THEN 1 ELSE (n % Len(all)) + 1]]
    IN /\ x.stage = "pick"
       /\ req' = [q \in Requests |->
                     IF q = r THEN dialled
                     ELSE [req[q] EXCEPT !.alone = @ /\ ~Shares(req[q], x)]]
       /\ next' = IF only THEN next ELSE [next EXCEPT ![x.snap][x.canonical] = (@ + 1) % Wrap]
       /\ UNCHANGED <<config, up, client, back, tracked, forced, server, left>>

Connect(r) ==
    LET x == req[r]
    IN /\ x.stage = "dial" /\ x.backend \in up
       /\ IF x.kind = "ws"
          THEN /\ req' = [req EXCEPT ![r].stage = "connected"]
               /\ back' = [back EXCEPT ![r] = "open"]
          ELSE req' = [req EXCEPT ![r].stage = "serve"] /\ UNCHANGED back
       /\ UNCHANGED <<config, up, client, tracked, forced, next, server, left>>

Retries(x, backends) == x.kind /= "ws" /\ x.backend /= API /\ Len(BackendsOf(x)) > backends

(* Mutant: only routes with more than two backends are retried.            *)
MaxAttemptsOfMany(x) == IF Retries(x, 2) THEN 2 ELSE 1

MaxAttempts(x) == IF Retries(x, 1) THEN 2 ELSE 1

BadGateway(x) == Answer(IF x.backend = API THEN 503 ELSE 502)

(* proxyToBackend: nothing was sent, and another attempt is allowed.       *)
FailToConnect(r) ==
    LET x == req[r]
    IN /\ x.stage = "dial" /\ x.backend \notin up
       /\ Set(r, IF x.attempt < MaxAttempts(x) THEN [x EXCEPT !.stage = "pick"] ELSE BadGateway(x))
       /\ UNCHANGED <<client, next>>

(* The response, or an error once the request has been sent.               *)
Serve(r) ==
    /\ req[r].stage = "serve"
    /\ \/ req[r].kind = "plain" /\ req[r].backend \in up /\ Set(r, Answer(200))
       \/ req[r].kind = "tcp" /\ req[r].backend \in up /\ Set(r, Answer(429))
       \/ req[r].backend \notin up /\ Set(r, BadGateway(req[r]))
    /\ UNCHANGED <<client, next>>

(***************************************************************************)
(* Connections taken over                                                  *)
(***************************************************************************)

(* Hijack, after which http.Server.Shutdown does not wait for the          *)
(* connection: of a WebSocket once its backend is connected, of a TCP      *)
(* tunnel once haloyd has answered 101.                                    *)
Hijack(r) ==
    /\ \/ req[r].stage = "connected"
       \/ req[r].stage = "serve" /\ req[r].kind = "tcp" /\ req[r].backend \in up
    /\ req' = [req EXCEPT ![r].stage = "hijacked"]
    /\ client' = [client EXCEPT ![r] = "open"]
    /\ back' = [back EXCEPT ![r] = IF @ = "none" THEN "open" ELSE @]
    /\ UNCHANGED <<config, up, tracked, forced, next, server, left>>

(* Mutant: a shutdown that has begun turns nothing away.                   *)
AdmitsAlways == TRUE

Admits == server = "running"

Leave(r) ==
    /\ req' = [req EXCEPT ![r] = Answer(101)]
    /\ client' = [client EXCEPT ![r] = "none"] /\ back' = [back EXCEPT ![r] = "none"]

(* trackHijacked; who is not admitted closes both connections.             *)
Track(r) ==
    /\ req[r].stage = "hijacked"
    /\ IF Admits
       THEN /\ req' = [req EXCEPT ![r].stage = "relay"]
            /\ tracked' = tracked \cup {r}
            /\ UNCHANGED <<client, back>>
       ELSE Leave(r) /\ UNCHANGED tracked
    /\ UNCHANGED <<config, up, forced, next, server, left>>

CopierEnds(r, dir) ==
    /\ Relaying(r) /\ dir \notin req[r].done
    /\ Set(r, [req[r] EXCEPT !.done = @ \cup {dir}])
    /\ UNCHANGED <<client, next>>

(* Mutant: the end of one direction alone goes unnoticed.                  *)
ReadEndClosed(r) ==
    \/ (client[r] = "closed" \/ r \in forced) /\ CopierEnds(r, Up)
    \/ (back[r] = "closed" \/ r \in forced) /\ CopierEnds(r, Down)

ReadEnd(r) ==
    \/ (Ended(client[r]) \/ r \in forced) /\ CopierEnds(r, Up)
    \/ (Ended(back[r]) \/ r \in forced) /\ CopierEnds(r, Down)

(* With the next bytes for a side that has closed, if there are any.       *)
WriteFails(r) ==
    \/ back[r] = "closed" /\ CopierEnds(r, Up)
    \/ client[r] = "closed" /\ CopierEnds(r, Down)

(* handleWebSocket has not even passed on the request.                     *)
ForwardFails(r) == req[r].kind = "ws" /\ req[r].done = {} /\ back[r] = "closed"

RelayEnds(r) ==
    \/ ForwardFails(r)
    \/ req[r].done = Directions
    \/ req[r].kind = "tcp" /\ (Down \in req[r].done \/ r \in forced)

(* Mutant: the entry of a connection that Shutdown has closed stays.       *)
ForgetOpen(r) == IF r \in forced THEN tracked ELSE tracked \ {r}

Forget(r) == tracked \ {r}

(* untrackHijacked, and both connections are closed.                      *)
Untrack(r) ==
    /\ Relaying(r) /\ RelayEnds(r)
    /\ Leave(r)
    /\ tracked' = Forget(r)
    /\ UNCHANGED <<config, up, forced, next, server, left>>

(***************************************************************************)
(* Shutdown                                                                *)
(***************************************************************************)

Proceed(from, to) ==
    /\ server = from /\ server' = to
    /\ UNCHANGED <<config, up, req, client, back, tracked, next, left>>

(* isShutdown is set first.                                                *)
BeginShutdown == Proceed("running", "http") /\ UNCHANGED forced

CloseHttp == Proceed("http", "https") /\ UNCHANGED forced

(* The handlers whose connections the server knows have returned.          *)
CloseHttps ==
    /\ \A r \in Requests : req[r].stage \in {"idle", "hijacked", "relay", "done"}
    /\ Proceed("https", "waiting") /\ UNCHANGED forced

(* At the deadline Shutdown closes what is open, and waits on.             *)
Deadline ==
    \/ Proceed("https", "waiting") /\ UNCHANGED forced
    \/ Proceed("waiting", "forcing") /\ forced' = tracked

EndShutdown ==
    /\ server \in {"waiting", "forcing"} /\ tracked = {}
    /\ Proceed(server, "stopped") /\ UNCHANGED forced

(***************************************************************************)
(* The specification                                                       *)
(***************************************************************************)

Init ==
    /\ config \in Snapshots
    /\ next = [s \in Snapshots |-> [c \in Counters[s] |-> 0]]
    /\ up = Backends \cup {API}
    /\ req = [r \in Requests |-> NoRequest]
    /\ client = [r \in Requests |-> "none"] /\ back = client
    /\ tracked = {} /\ forced = {} /\ server = "running" /\ left = Budget

Next ==
    \/ \E s \in Snapshots : UpdateConfig(s)
    \/ \E b \in Backends \cup {API} : BackendDies(b)
    \/ \E r \in Requests : EndClient(r)
    \/ \E r \in Requests : EndBackend(r)
    \/ \E r \in Requests : \E q \in Queries[r] : Receive(r, q)
    \/ \E r \in Requests : Pick(r)
    \/ \E r \in Requests : Connect(r)
    \/ \E r \in Requests : FailToConnect(r)
    \/ \E r \in Requests : Serve(r)
    \/ \E r \in Requests : Hijack(r)
    \/ \E r \in Requests : Track(r)
    \/ \E r \in Requests : ReadEnd(r)
    \/ \E r \in Requests : WriteFails(r)
    \/ \E r \in Requests : Untrack(r)
    \/ BeginShutdown
    \/ CloseHttp
    \/ CloseHttps
    \/ Deadline
    \/ EndShutdown

Spec == Init /\ [][Next]_vars

Step(r) ==
    \/ Pick(r) \/ Connect(r) \/ FailToConnect(r) \/ Serve(r)
    \/ Hijack(r) \/ Track(r) \/ ReadEnd(r) \/ Untrack(r)

(* Handlers run, backends answer (or ResponseHeaderTimeout answers for     *)
(* them), and the shutdown has a deadline.                                 *)
FairSpec ==
    /\ Spec
    /\ \A r \in Requests : WF_vars(Step(r))
    /\ WF_vars(CloseHttp \/ CloseHttps \/ Deadline \/ EndShutdown)

(***************************************************************************)
(* Properties                                                              *)
(***************************************************************************)

(* A request that reaches none of two backends although one of them is up. *)
Unserved(r) ==
    LET x == req[r]
    IN /\ x.stage = "dial" /\ x.kind = "plain" /\ x.backend /= API
       /\ Len(BackendsOf(x)) = 2 /\ \E i \in 1 .. 2 : BackendsOf(x)[i] \in up
       /\ req'[r].answer = 502

(* A request to a route with two backends, one of them up, is served: its  *)
(* retry dials the other one, after the routes have been replaced as well, *)
(* unless other requests have used the counter in between.                 *)
(* (proxyToBackend: "the request is retried once on the next backend")     *)
RetryServesAlone == [][\A r \in Requests : Unserved(r) => ~req[r].alone]_vars

(* Every request is answered and every connection taken over ends once     *)
(* both its sides have, whatever is pushed, dies or shuts down meanwhile.  *)
RequestsEnd ==
    []<>(\A r \in Requests :
            \/ req[r].stage \in {"idle", "done"}
            \/ Relaying(r) /\ ~(Ended(client[r]) /\ Ended(back[r])))

(* Shutdown returns, and when it does no connection is relayed any more,   *)
(* and none begins to be: one that was taken over while the servers shut   *)
(* down is turned away.                                                    *)
ShutdownDrains == server = "http" ~> [](server = "stopped" /\ tracked = {})

=============================================================================
