-------------------------- MODULE ProxyTrafficProofs --------------------------
(***************************************************************************)
(* Requests through haloy-proxy, for any requests, snapshots and backends  *)
(* and any even modulus of the counters: a request alone at its route's    *)
(* counter reaches whichever of two backends is up, and no connection is   *)
(* relayed once the shutdown is over.                                      *)
(***************************************************************************)
EXTENDS ProxyTraffic, TLAPS

(* The route of a request that is to be passed on.                         *)
Routed(x) ==
    x.snap \in Snapshots /\ x.canonical \in Canonicals(x.snap) /\ BackendsOf(x) # <<>>

Waiting ==
    \A r \in Requests :
        /\ req[r].stage = "pick" =>
              req[r].attempt \in {0, 1} /\ req[r].backend # API /\ Routed(req[r])
        /\ req[r].stage = "dial" =>
              /\ req[r].attempt \in {1, 2}
              /\ IF req[r].backend = API THEN req[r].attempt = 1 ELSE Routed(req[r])

(* Alone at the counter of a route with two backends.                      *)
Pair(x) == x.backend # API /\ x.alone /\ Len(BackendsOf(x)) = 2

(* The counter n is still where the first attempt left it.                 *)
First(x, n) ==
    \E m \in 0 .. Wrap - 1 :
        /\ x.backend = BackendsOf(x)[(m % 2) + 1]
        /\ n[x.snap][x.canonical] = (m + 1) % Wrap

(* The first attempt found one backend down, the second dials the other.   *)
Second(x, u) ==
    \E i \in 1 .. 2 : BackendsOf(x)[i] \notin u /\ x.backend = BackendsOf(x)[3 - i]

Alternates ==
    \A r \in Requests :
        /\ req[r].stage \in {"pick", "dial"} /\ req[r].attempt = 1 /\ Pair(req[r]) =>
              First(req[r], next) /\ (req[r].stage = "pick" => req[r].backend \notin up)
        /\ req[r].stage = "dial" /\ req[r].attempt = 2 /\ Pair(req[r]) => Second(req[r], up)

(* Shutdown ends with nothing tracked, and tracks nothing afterwards.      *)
Drained == server = "stopped" => tracked = {}

IInv == TypeOK /\ Waiting /\ Alternates /\ Drained

------------------------------------------------------------------------------
(* Successive values of the counter pick different backends of two, where  *)
(* it wraps as well, because the modulus is even.                          *)
LEMMA OtherBackend ==
    ASSUME NEW m \in 0 .. Wrap - 1
    PROVE  /\ (m + 1) % Wrap \in 0 .. Wrap - 1
           /\ (m % 2) + 1 \in 1 .. 2
           /\ (((m + 1) % Wrap) % 2) + 1 = 3 - ((m % 2) + 1)
<1>1. CASE m + 1 < Wrap
    <2>1. (m + 1) % Wrap = m + 1
        BY <1>1, WrapAssumption
    <2> QED BY <1>1, <2>1, WrapAssumption
<1>2. CASE m + 1 = Wrap
    <2>1. (m + 1) % Wrap = 0
        BY <1>2, WrapAssumption
    <2> QED BY <1>2, <2>1, WrapAssumption
<1> QED BY <1>1, <1>2, WrapAssumption

LEMMA NextCounter ==
    ASSUME NEW n \in 0 .. Wrap - 1
    PROVE  (n + 1) % Wrap \in 0 .. Wrap - 1
BY OtherBackend

LEMMA Index ==
    ASSUME NEW n \in Nat, NEW k \in Nat \ {0}
    PROVE  (n % k) + 1 \in 1 .. k
OBVIOUS

(* The backends of a routed request are those of a route of its snapshot.  *)
LEMMA RoutedBackends ==
    ASSUME NEW x, Routed(x)
    PROVE  /\ BackendsOf(x) \in Seq(Backends)
           /\ Len(BackendsOf(x)) \in Nat \ {0}
           /\ \A i \in 1 .. Len(BackendsOf(x)) : BackendsOf(x)[i] \in Backends
<1>1. \E route \in x.snap.routes : route.canonical = x.canonical
    BY DEF Routed, Canonicals
<1>2. BackendsOf(x) \in Seq(Backends)
    BY <1>1, SnapshotsAssumption DEF Routed, BackendsOf
<1> DEFINE s == BackendsOf(x)
<1>3. s \in Seq(Backends) /\ s # <<>>
    BY <1>2 DEF Routed
<1> HIDE DEF s
<1>4. Len(s) \in Nat \ {0} /\ \A i \in 1 .. Len(s) : s[i] \in Backends
    BY <1>3
<1> QED BY <1>2, <1>4 DEF s

(* Another stage, attempt or backend is no other route.                    *)
LEMMA SameRoute ==
    ASSUME NEW x, NEW y, y.snap = x.snap, y.canonical = x.canonical
    PROVE  BackendsOf(y) = BackendsOf(x) /\ (Routed(x) => Routed(y))
BY DEF BackendsOf, Routed

(* One field of a request at a time.                                       *)
LEMMA SetStage ==
    ASSUME NEW x \in Records, NEW v \in Stages, NEW y, y = [x EXCEPT !.stage = v]
    PROVE  /\ y \in Records /\ y.stage = v /\ y.answer = x.answer /\ y.attempt = x.attempt
           /\ y.backend = x.backend /\ y.alone = x.alone
           /\ y.snap = x.snap /\ y.canonical = x.canonical
BY DEF Records

LEMMA SetAttempt ==
    ASSUME NEW x \in Records, NEW v \in 0 .. 2, NEW y, y = [x EXCEPT !.attempt = v]
    PROVE  /\ y \in Records /\ y.stage = x.stage /\ y.answer = x.answer /\ y.attempt = v
           /\ y.backend = x.backend /\ y.alone = x.alone
           /\ y.snap = x.snap /\ y.canonical = x.canonical
BY DEF Records

LEMMA SetBackend ==
    ASSUME NEW x \in Records, NEW v \in Backends \cup {API, None}, NEW y,
           y = [x EXCEPT !.backend = v]
    PROVE  /\ y \in Records /\ y.stage = x.stage /\ y.answer = x.answer /\ y.attempt = x.attempt
           /\ y.backend = v /\ y.alone = x.alone
           /\ y.snap = x.snap /\ y.canonical = x.canonical
BY DEF Records

LEMMA Blank ==
    /\ NoRequest \in Records /\ NoRequest.stage = "idle" /\ NoRequest.answer = None
    /\ NoRequest.attempt = 0 /\ NoRequest.backend = None
BY DEF NoRequest, Records, Stages

LEMMA Answers ==
    \A code \in Codes :
        Answer(code) \in Records /\ Answer(code).stage = "done" /\ Answer(code).answer = code
BY Blank DEF Answer, Records, Stages

(* What the lookup of a query in the current snapshot may return.          *)
LEMMA Lookup ==
    ASSUME config \in Snapshots, NEW r \in Requests, NEW q \in Queries[r], NEW x \in RouteQuery(q)
    PROVE  /\ x \in Records /\ (x.stage = "done" <=> x.answer # None) /\ x.stage # "relay"
           /\ x.stage = "pick" => x.attempt = 0 /\ x.backend # API /\ Routed(x)
           /\ x.stage = "dial" => x.attempt = 1 /\ x.backend = API
<1>1. ASSUME NEW code \in Codes, x = Answer(code)
      PROVE  x \in Records /\ x.stage = "done" /\ x.answer # None
    BY <1>1, Answers, NoneAssumption
<1>2. Take(q) \in Records /\ Take(q).answer = None /\ Take(q).attempt = 0 /\ Take(q).backend = None
    <2>1. q.kind \in Kinds /\ q.secure \in BOOLEAN
        BY QueriesAssumption
    <2> QED BY <2>1, Blank DEF Take, Records
<1>3. ASSUME x = ToAPI(q)
      PROVE  \/ x = Answer(503)
             \/ x \in Records /\ x.stage = "dial" /\ x.answer = None /\ x.attempt = 1 /\ x.backend = API
    <2>1. CASE config.apiUp
        <3> DEFINE y == [Take(q) EXCEPT !.backend = API, !.attempt = 1]
        <3>1. x = [y EXCEPT !.stage = "dial"]
            BY <1>3, <2>1 DEF ToAPI
        <3> DEFINE taken == Take(q)
        <3>2. taken \in Records /\ taken.answer = None
            BY <1>2
        <3> DEFINE z == [taken EXCEPT !.backend = API]
        <3>3. y = [z EXCEPT !.attempt = 1]
            OBVIOUS
        <3> HIDE DEF taken, y
        <3>4. z \in Records /\ z.answer = None /\ z.backend = API
            BY <3>2, SetBackend
        <3> HIDE DEF z
        <3>5. y \in Records /\ y.answer = None /\ y.attempt = 1 /\ y.backend = API
            BY <3>3, <3>4, SetAttempt
        <3> QED BY <3>1, <3>5, SetStage DEF Stages
    <2>2. CASE ~config.apiUp
        BY <1>3, <2>2 DEF ToAPI
    <2> QED BY <2>1, <2>2
<1>4. ASSUME NEW route \in config.routes, x = ToRoute(q, route)
      PROVE  \/ x = Answer(502)
             \/ /\ x \in Records /\ x.stage = "pick" /\ x.answer = None
                /\ x.attempt = 0 /\ x.backend = None /\ Routed(x)
    <2>1. CASE route.backends = <<>>
        BY <1>4, <2>1 DEF ToRoute
    <2>2. CASE route.backends # <<>>
        <3>1. x = [Take(q) EXCEPT !.canonical = route.canonical, !.stage = "pick"]
            BY <1>4, <2>2 DEF ToRoute
        <3>2. route.canonical \in Canonicals(config) /\ route.canonical \in Routes
            BY DEF Canonicals, Routes
        <3>3. x \in Records /\ x.stage = "pick" /\ x.answer = None /\ x.attempt = 0 /\ x.backend = None
            BY <1>2, <3>1, <3>2 DEF Records, Stages
        <3>4. x.snap = config /\ x.canonical = route.canonical
            BY <1>2, <3>1, Blank DEF Records, Take
        <3>5. \A y \in config.routes : y.canonical = route.canonical => y = route
            BY SnapshotsAssumption DEF Build, Hosts
        <3>6. BackendsOf(x) = route.backends
            BY <3>4, <3>5 DEF BackendsOf
        <3> QED BY <2>2, <3>2, <3>3, <3>4, <3>6 DEF Routed
    <2> QED BY <2>1, <2>2
<1>5. \/ \E code \in Codes : x = Answer(code)
      \/ x = ToAPI(q)
      \/ \E route \in config.routes : x = ToRoute(q, route)
    BY DEF RouteQuery, FindRoute, Codes
<1>6. 502 \in Codes /\ 503 \in Codes
    BY DEF Codes
<1> QED BY <1>1, <1>3, <1>4, <1>5, <1>6, NoneAssumption

------------------------------------------------------------------------------
LEMMA InitIInv == Init => IInv
<1> SUFFICES ASSUME Init PROVE IInv
    OBVIOUS
<1>2. 0 \in 0 .. Wrap - 1 /\ left \in 0 .. Budget
    BY WrapAssumption, BudgetAssumption DEF Init
<1>3. \A s \in Snapshots : next[s] \in [Counters[s] -> 0 .. Wrap - 1]
    BY <1>2 DEF Init
<1> QED BY <1>2, <1>3, Blank DEF Init, IInv, TypeOK, Waiting, Alternates, Drained, Sides

(* Backends go down and none comes back; what is known of requests stays.  *)
LEMMA Untouched ==
    ASSUME IInv, up' \subseteq up, UNCHANGED <<req, next>>
    PROVE  Waiting' /\ Alternates'
BY DEF IInv, Waiting, Alternates, First, Second

LEMMA EnvironmentIInv ==
    ASSUME IInv,
           \/ \E s \in Snapshots : UpdateConfig(s)
           \/ \E b \in Backends \cup {API} : BackendDies(b)
           \/ \E r \in Requests : EndClient(r) \/ EndBackend(r)
    PROVE  IInv'
<1>1. ASSUME NEW s \in Snapshots, UpdateConfig(s) PROVE IInv'
    <2>1. Waiting' /\ Alternates'
        BY <1>1, Untouched DEF UpdateConfig, trafficVars
    <2> QED BY <1>1, <2>1, BudgetAssumption
            DEF UpdateConfig, Incident, trafficVars, IInv, TypeOK, Drained
<1>2. ASSUME NEW b \in Backends \cup {API}, BackendDies(b) PROVE IInv'
    <2>1. Waiting' /\ Alternates'
        BY <1>2, Untouched DEF BackendDies
    <2>2. back' \in [Requests -> Sides]
        BY <1>2 DEF BackendDies, IInv, TypeOK, Sides
    <2> QED BY <1>2, <2>1, <2>2, BudgetAssumption
            DEF BackendDies, Incident, IInv, TypeOK, Drained
<1>3. ASSUME NEW r \in Requests, EndClient(r) PROVE IInv'
    <2>1. Waiting' /\ Alternates'
        BY <1>3, Untouched DEF EndClient
    <2>2. client' \in [Requests -> Sides]
        BY <1>3 DEF EndClient, IInv, TypeOK, Sides
    <2> QED BY <1>3, <2>1, <2>2 DEF EndClient, IInv, TypeOK, Drained
<1>4. ASSUME NEW r \in Requests, EndBackend(r) PROVE IInv'
    <2>1. Waiting' /\ Alternates'
        BY <1>4, Untouched DEF EndBackend
    <2>2. back' \in [Requests -> Sides]
        BY <1>4 DEF EndBackend, IInv, TypeOK, Sides
    <2> QED BY <1>4, <2>1, <2>2 DEF EndBackend, IInv, TypeOK, Drained
<1> QED BY <1>1, <1>2, <1>3, <1>4

LEMMA ShutdownIInv ==
    ASSUME IInv, BeginShutdown \/ CloseHttp \/ CloseHttps \/ Deadline \/ EndShutdown
    PROVE  IInv'
<1>1. /\ UNCHANGED <<config, up, req, client, back, tracked, next, left>>
      /\ server' \in {"running", "http", "https", "waiting", "forcing", "stopped"}
      /\ server' = "stopped" => tracked = {}
      /\ forced' \in {forced, tracked}
    BY DEF BeginShutdown, CloseHttp, CloseHttps, Deadline, EndShutdown, Proceed
<1>2. tracked \subseteq Requests
    BY DEF IInv, TypeOK
<1>3. Waiting' /\ Alternates'
    BY <1>1, Untouched
<1> QED BY <1>1, <1>2, <1>3 DEF IInv, TypeOK, Drained

(* One request goes on, and to no backend.                                 *)
LEMMA GoesOn ==
    ASSUME IInv, NEW r \in Requests, NEW x \in Records, req' = [req EXCEPT ![r] = x],
           x.stage \notin {"pick", "dial"}, x.stage = "done" <=> x.answer # None,
           tracked' = IF x.stage = "relay" THEN tracked \cup {r} ELSE tracked \ {r},
           r \in tracked' \ tracked => server # "stopped",
           client' \in [Requests -> Sides], back' \in [Requests -> Sides],
           UNCHANGED <<config, up, next, forced, server, left>>
    PROVE  IInv'
<1>1. req' \in [Requests -> Records] /\ req'[r] = x /\ \A q \in Requests \ {r} : req'[q] = req[q]
    BY DEF IInv, TypeOK
<1>2. tracked' = {q \in Requests : req'[q].stage = "relay"}
    BY <1>1 DEF IInv, TypeOK
<1>3. TypeOK'
    BY <1>1, <1>2 DEF IInv, TypeOK
<1>4. Waiting'
    BY <1>1 DEF IInv, Waiting
<1>5. Alternates'
    BY <1>1 DEF IInv, Alternates, First, Second
<1>6. Drained'
    BY DEF IInv, Drained
<1> QED BY <1>3, <1>4, <1>5, <1>6 DEF IInv

LEMMA RequestIInv ==
    ASSUME IInv, NEW r \in Requests,
           Connect(r) \/ Serve(r) \/ Hijack(r) \/ Track(r) \/ ReadEnd(r) \/ WriteFails(r) \/ Untrack(r)
    PROVE  IInv'
<1>1. /\ req[r] \in Records /\ (req[r].stage = "done" <=> req[r].answer # None)
      /\ (r \in tracked <=> req[r].stage = "relay") /\ tracked \subseteq Requests
      /\ client \in [Requests -> Sides] /\ back \in [Requests -> Sides]
    BY DEF IInv, TypeOK
<1>2. \A stage \in {"connected", "serve", "hijacked", "relay"} :
          LET x == [req[r] EXCEPT !.stage = stage]
          IN x \in Records /\ x.stage = stage /\ x.answer = req[r].answer
    BY <1>1 DEF Records, Stages
<1>3. \A code \in Codes : Answer(code) \in Records /\ Answer(code).stage = "done"
                          /\ Answer(code).answer # None
    BY Answers, NoneAssumption
<1>4. {101, 200, 429, 502, 503} \subseteq Codes
    BY DEF Codes
<1>5. "open" \in Sides /\ "none" \in Sides
    BY DEF Sides
<1>6. CASE Connect(r)
    <2>1. PICK stage \in {"connected", "serve"} : req' = [req EXCEPT ![r].stage = stage]
        BY <1>6 DEF Connect
    <2>2. req[r].stage = "dial" /\ r \notin tracked
        BY <1>1, <1>6 DEF Connect
    <2>3. back' \in [Requests -> Sides]
        BY <1>1, <1>5, <1>6 DEF Connect
    <2>4. UNCHANGED <<config, up, client, tracked, forced, next, server, left>>
        BY <1>6 DEF Connect
    <2> DEFINE x == [req[r] EXCEPT !.stage = stage]
    <2>5. x \in Records /\ x.stage = stage /\ x.answer = req[r].answer /\ req' = [req EXCEPT ![r] = x]
        BY <1>2, <2>1
    <2> HIDE DEF x
    <2>6. /\ x.stage \notin {"pick", "dial", "relay"} /\ (x.stage = "done" <=> x.answer # None)
          /\ tracked' = tracked \ {r} /\ client' \in [Requests -> Sides]
        BY <1>1, <2>2, <2>4, <2>5
    <2> QED BY <2>3, <2>4, <2>5, <2>6, GoesOn
<1>7. CASE Serve(r)
    <2>1. PICK code \in Codes : req' = [req EXCEPT ![r] = Answer(code)]
        BY <1>4, <1>7 DEF Serve, Set, BadGateway
    <2>2. req[r].stage = "serve" /\ r \notin tracked
          /\ UNCHANGED <<config, up, client, back, tracked, forced, next, server, left>>
        BY <1>1, <1>7 DEF Serve, Set
    <2> QED BY <1>1, <1>3, <2>1, <2>2, GoesOn
<1>8. CASE Hijack(r)
    <2> DEFINE x == [req[r] EXCEPT !.stage = "hijacked"]
    <2>1. req[r].stage \in {"connected", "serve"} /\ r \notin tracked /\ req' = [req EXCEPT ![r] = x]
        BY <1>1, <1>8 DEF Hijack
    <2>2. client' \in [Requests -> Sides] /\ back' \in [Requests -> Sides]
        BY <1>1, <1>5, <1>8 DEF Hijack
    <2>3. x \in Records /\ x.stage = "hijacked" /\ x.answer = req[r].answer
        BY <1>2
    <2> HIDE DEF x
    <2>4. UNCHANGED <<config, up, tracked, forced, next, server, left>>
        BY <1>8 DEF Hijack
    <2>5. /\ x.stage \notin {"pick", "dial", "relay"} /\ (x.stage = "done" <=> x.answer # None)
          /\ tracked' = tracked \ {r}
        BY <1>1, <2>1, <2>3, <2>4
    <2> QED BY <2>1, <2>2, <2>3, <2>4, <2>5, GoesOn
<1>9. CASE Track(r) /\ Admits
    <2> DEFINE x == [req[r] EXCEPT !.stage = "relay"]
    <2>1. /\ req[r].stage = "hijacked" /\ req' = [req EXCEPT ![r] = x] /\ server = "running"
          /\ tracked' = tracked \cup {r}
        BY <1>9 DEF Track, Admits
    <2>2. x \in Records /\ x.stage = "relay" /\ x.answer = req[r].answer
        BY <1>2
    <2> HIDE DEF x
    <2> QED BY <1>1, <1>9, <2>1, <2>2, GoesOn DEF Track
<1>10. CASE (Track(r) /\ ~Admits) \/ Untrack(r)
    <2>1. /\ req' = [req EXCEPT ![r] = Answer(101)] /\ tracked' = tracked \ {r}
          /\ client' = [client EXCEPT ![r] = "none"] /\ back' = [back EXCEPT ![r] = "none"]
          /\ UNCHANGED <<config, up, forced, next, server, left>>
        BY <1>1, <1>10 DEF Track, Untrack, Leave, Forget
    <2>2. client' \in [Requests -> Sides] /\ back' \in [Requests -> Sides]
        BY <1>1, <1>5, <2>1
    <2> QED BY <1>3, <1>4, <2>1, <2>2, GoesOn
<1>11. CASE ReadEnd(r) \/ WriteFails(r)
    <2>1. PICK dir \in Directions : CopierEnds(r, dir)
        BY <1>11 DEF ReadEnd, WriteFails, Directions
    <2> DEFINE x == [req[r] EXCEPT !.done = @ \cup {dir}]
    <2>2. /\ req[r].stage = "relay" /\ req' = [req EXCEPT ![r] = x]
          /\ UNCHANGED <<config, up, client, back, tracked, forced, next, server, left>>
        BY <2>1 DEF CopierEnds, Relaying, Set
    <2>3. x \in Records /\ x.stage = "relay" /\ x.answer = req[r].answer
        BY <1>1, <2>2 DEF Records
    <2> HIDE DEF x
    <2> QED BY <1>1, <2>2, <2>3, GoesOn
<1> QED BY <1>6, <1>7, <1>8, <1>9, <1>10, <1>11

LEMMA ReceiveIInv ==
    ASSUME IInv, NEW r \in Requests, NEW q \in Queries[r], Receive(r, q)
    PROVE  IInv'
<1>1. PICK x \in RouteQuery(q) : Set(r, x)
    BY DEF Receive
<1>2. /\ x \in Records /\ (x.stage = "done" <=> x.answer # None) /\ x.stage # "relay"
      /\ x.stage = "pick" => x.attempt = 0 /\ x.backend # API /\ Routed(x)
      /\ x.stage = "dial" => x.attempt = 1 /\ x.backend = API
    BY Lookup DEF IInv, TypeOK
<1>3. /\ req' = [req EXCEPT ![r] = x] /\ req[r].stage = "idle"
      /\ UNCHANGED <<config, up, client, back, tracked, forced, next, server, left>>
    BY <1>1, Blank DEF Receive, Set
<1>4. req' \in [Requests -> Records] /\ req'[r] = x /\ \A p \in Requests \ {r} : req'[p] = req[p]
    BY <1>2, <1>3 DEF IInv, TypeOK
<1>5. tracked' = {p \in Requests : req'[p].stage = "relay"}
    BY <1>2, <1>3, <1>4 DEF IInv, TypeOK
<1>6. TypeOK'
    BY <1>2, <1>3, <1>4, <1>5 DEF IInv, TypeOK
<1>7. Waiting'
    BY <1>2, <1>4 DEF IInv, Waiting
<1>8. Alternates'
    BY <1>2, <1>3, <1>4 DEF IInv, Alternates, Pair, First, Second
<1>9. Drained'
    BY <1>3 DEF IInv, Drained
<1> QED BY <1>6, <1>7, <1>8, <1>9 DEF IInv

(* Only a request that dials a route's backend is tried again, and only    *)
(* once.                                                                   *)
LEMMA Attempts ==
    ASSUME IInv, NEW r \in Requests, req[r].stage = "dial"
    PROVE  /\ req[r].attempt < MaxAttempts(req[r]) =>
                 /\ req[r].attempt = 1 /\ req[r].backend # API /\ Routed(req[r])
           /\ MaxAttempts(req[r]) \in {1, 2}
<1>1. req[r].attempt \in {1, 2}
    BY DEF IInv, Waiting
<1>2. MaxAttempts(req[r]) = 2 => req[r].backend # API
    BY DEF MaxAttempts, Retries
<1>3. MaxAttempts(req[r]) \in {1, 2}
    BY DEF MaxAttempts
<1> QED BY <1>1, <1>2, <1>3 DEF IInv, Waiting

LEMMA FailToConnectIInv ==
    ASSUME IInv, NEW r \in Requests, FailToConnect(r)
    PROVE  IInv'
<1>1. /\ req[r] \in Records /\ (req[r].stage = "done" <=> req[r].answer # None)
      /\ req[r].stage = "dial" /\ req[r].backend \notin up /\ r \notin tracked
    BY DEF FailToConnect, IInv, TypeOK
<1>2. UNCHANGED <<config, up, client, back, tracked, forced, next, server, left>>
    BY DEF FailToConnect, Set
<1>3. CASE ~(req[r].attempt < MaxAttempts(req[r]))
    <2>1. PICK code \in Codes : req' = [req EXCEPT ![r] = Answer(code)]
        <3>1. req' = [req EXCEPT ![r] = BadGateway(req[r])]
            BY <1>3 DEF FailToConnect, Set
        <3>2. \E code \in Codes : BadGateway(req[r]) = Answer(code)
            BY DEF BadGateway, Codes
        <3> QED BY <3>1, <3>2
    <2>2. Answer(code) \in Records /\ Answer(code).stage = "done" /\ Answer(code).answer # None
        BY Answers, NoneAssumption
    <2>3. UNCHANGED <<config, up, client, back, tracked, forced, next, server, left>>
        BY <1>2
    <2>4. client \in [Requests -> Sides] /\ back \in [Requests -> Sides]
        BY DEF IInv, TypeOK
    <2>5. tracked' = tracked \ {r}
        BY <1>1, <2>3
    <2> QED BY <2>1, <2>2, <2>3, <2>4, <2>5, GoesOn
<1>4. CASE req[r].attempt < MaxAttempts(req[r])
    <2> DEFINE x == [req[r] EXCEPT !.stage = "pick"]
    <2>1. req[r].attempt = 1 /\ req[r].backend # API /\ Routed(req[r])
        BY <1>1, <1>4, Attempts
    <2>2. req' = [req EXCEPT ![r] = x]
        BY <1>4 DEF FailToConnect, Set
    <2>3. /\ x \in Records /\ x.stage = "pick" /\ x.answer = req[r].answer /\ x.attempt = 1
          /\ x.backend = req[r].backend /\ x.alone = req[r].alone
          /\ x.snap = req[r].snap /\ x.canonical = req[r].canonical
        BY <1>1, <2>1 DEF Records, Stages
    <2> HIDE DEF x
    <2>4. BackendsOf(x) = BackendsOf(req[r]) /\ Routed(x)
        BY <2>1, <2>3, SameRoute
    <2>5. req' \in [Requests -> Records] /\ req'[r] = x /\ \A p \in Requests \ {r} : req'[p] = req[p]
        BY <2>2, <2>3 DEF IInv, TypeOK
    <2>6. tracked' = {p \in Requests : req'[p].stage = "relay"}
        BY <1>1, <1>2, <2>3, <2>5 DEF IInv, TypeOK
    <2>7. TypeOK'
        BY <1>1, <1>2, <2>3, <2>5, <2>6 DEF IInv, TypeOK
    <2>8. Waiting'
        BY <2>1, <2>3, <2>4, <2>5 DEF IInv, Waiting
    <2>9. Pair(x) => First(x, next) /\ x.backend \notin up
        BY <1>1, <2>1, <2>3, <2>4 DEF IInv, Alternates, Pair, First
    <2>10. Alternates'
        BY <1>2, <2>3, <2>5, <2>9 DEF IInv, Alternates, Pair, First, Second
    <2> QED BY <1>2, <2>7, <2>8, <2>10 DEF IInv, Drained
<1> QED BY <1>3, <1>4

(* The round robin: r dials the backend the counter names and moves the    *)
(* counter on; whoever has used the same counter is no longer alone.       *)
LEMMA PickIInv ==
    ASSUME IInv, NEW r \in Requests, Pick(r)
    PROVE  IInv'
<1> DEFINE x == req[r]
           all == BackendsOf(x)
           n == next[x.snap][x.canonical]
           only == Len(all) = 1
           y == [x EXCEPT !.stage = "dial", !.attempt = @ + 1,
                          !.backend = all[IF only THEN 1 ELSE (n % Len(all)) + 1]]
<1>1. /\ x \in Records /\ x.stage = "pick" /\ x.answer = None /\ x.attempt \in {0, 1}
      /\ x.backend # API /\ Routed(x) /\ r \notin tracked
    BY DEF Pick, IInv, TypeOK, Waiting
<1>2. /\ req' = [q \in Requests |-> IF q = r THEN y
                                   ELSE [req[q] EXCEPT !.alone = @ /\ ~Shares(req[q], x)]]
      /\ next' = IF only THEN next ELSE [next EXCEPT ![x.snap][x.canonical] = (@ + 1) % Wrap]
      /\ UNCHANGED <<config, up, client, back, tracked, forced, server, left>>
    BY DEF Pick
<1>3. /\ all \in Seq(Backends) /\ Len(all) \in Nat \ {0}
      /\ \A i \in 1 .. Len(all) : all[i] \in Backends
    BY <1>1, RoutedBackends
<1>4. x.snap \in Snapshots /\ x.canonical \in Counters[x.snap]
    BY <1>1 DEF Routed, Counters
<1>5. n \in 0 .. Wrap - 1
    BY <1>4 DEF IInv, TypeOK
<1>6. all[IF only THEN 1 ELSE (n % Len(all)) + 1] \in Backends
    <2> HIDE DEF n, all
    <2>1. (n % Len(all)) + 1 \in 1 .. Len(all) /\ 1 \in 1 .. Len(all)
        BY <1>3, <1>5, Index, WrapAssumption
    <2> QED BY <1>3, <2>1
<1>7. /\ y \in Records /\ y.stage = "dial" /\ y.answer = None /\ y.attempt = x.attempt + 1
      /\ y.backend = all[IF only THEN 1 ELSE (n % Len(all)) + 1] /\ y.backend \in Backends
      /\ y.alone = x.alone /\ y.snap = x.snap /\ y.canonical = x.canonical
    <2> DEFINE b == all[IF only THEN 1 ELSE (n % Len(all)) + 1]
    <2>1. b \in Backends
        BY <1>6
    <2> DEFINE dial == [x EXCEPT !.stage = "dial"]
               again == [dial EXCEPT !.attempt = x.attempt + 1]
    <2>2. y = [again EXCEPT !.backend = b]
        <3>1. dial.attempt = x.attempt
            BY <1>1, SetStage DEF Stages
        <3> QED BY <1>1, <3>1 DEF Records
    <2> HIDE DEF b, x, y, again
    <2>3. /\ dial \in Records /\ dial.stage = "dial" /\ dial.answer = None
          /\ dial.alone = x.alone /\ dial.snap = x.snap /\ dial.canonical = x.canonical
        BY <1>1, SetStage DEF Stages
    <2> HIDE DEF dial
    <2>4. x.attempt + 1 \in 0 .. 2
        BY <1>1
    <2>5. /\ again \in Records /\ again.stage = "dial" /\ again.answer = None
          /\ again.attempt = x.attempt + 1
          /\ again.alone = x.alone /\ again.snap = x.snap /\ again.canonical = x.canonical
        BY <2>3, <2>4, SetAttempt DEF again
    <2>6. /\ y \in Records /\ y.stage = "dial" /\ y.answer = None /\ y.attempt = x.attempt + 1
          /\ y.backend = b
          /\ y.alone = x.alone /\ y.snap = x.snap /\ y.canonical = x.canonical
        BY <2>1, <2>2, <2>5, SetBackend
    <2> QED BY <2>1, <2>6 DEF b
<1> HIDE DEF y, x
<1>8. BackendsOf(y) = all /\ Routed(y)
    BY <1>1, <1>7, SameRoute
<1> HIDE DEF all, n, only
<1>9. ASSUME NEW q \in Requests, q # r
      PROVE  /\ req'[q] \in Records /\ req'[q].stage = req[q].stage /\ req'[q].answer = req[q].answer
             /\ req'[q].attempt = req[q].attempt /\ req'[q].backend = req[q].backend
             /\ req'[q].snap = req[q].snap /\ req'[q].canonical = req[q].canonical
             /\ BackendsOf(req'[q]) = BackendsOf(req[q])
             /\ (Routed(req[q]) => Routed(req'[q]))
             /\ req'[q].alone => req[q].alone /\ ~Shares(req[q], x)
    <2> DEFINE alone == req[q].alone /\ ~Shares(req[q], x)
    <2>1. req'[q] = [req[q] EXCEPT !.alone = alone] /\ req[q] \in Records
        BY <1>2, <1>9 DEF IInv, TypeOK
    <2>2. alone \in BOOLEAN
        BY <2>1 DEF Records, Shares
    <2> HIDE DEF alone
    <2>3. /\ req'[q] \in Records /\ req'[q].stage = req[q].stage /\ req'[q].answer = req[q].answer
          /\ req'[q].attempt = req[q].attempt /\ req'[q].backend = req[q].backend
          /\ req'[q].snap = req[q].snap /\ req'[q].canonical = req[q].canonical
          /\ req'[q].alone = alone
        BY <2>1, <2>2 DEF Records
    <2> QED BY <2>3, SameRoute DEF alone
<1>10. /\ DOMAIN next' = Snapshots
       /\ \A s \in Snapshots : next'[s] \in [Counters[s] -> 0 .. Wrap - 1]
    <2>1. (n + 1) % Wrap \in 0 .. Wrap - 1
        BY <1>5, NextCounter
    <2>2. next' = next \/ next' = [next EXCEPT ![x.snap] = [@ EXCEPT ![x.canonical] = (n + 1) % Wrap]]
        BY <1>2 DEF n
    <2> QED BY <2>1, <2>2 DEF IInv, TypeOK
<1>11. TypeOK'
    <2>1. req' \in [Requests -> Records]
        BY <1>2, <1>7, <1>9
    <2>2. tracked' = {q \in Requests : req'[q].stage = "relay"}
        BY <1>1, <1>2, <1>7, <1>9 DEF IInv, TypeOK, x
    <2>3. \A q \in Requests : req'[q].stage = "done" <=> req'[q].answer # None
        BY <1>2, <1>7, <1>9 DEF IInv, TypeOK
    <2> QED BY <1>2, <1>10, <2>1, <2>2, <2>3 DEF IInv, TypeOK
<1>12. Waiting'
    <2>1. req'[r] = y
        BY <1>2
    <2>2. /\ y.attempt \in {1, 2} /\ y.backend # API
        BY <1>1, <1>7, NoneAssumption
    <2> QED BY <1>7, <1>8, <1>9, <2>1, <2>2 DEF IInv, Waiting
<1>13. ASSUME Len(all) = 2
       PROVE  next'[x.snap][x.canonical] = (n + 1) % Wrap /\ y.backend = all[(n % 2) + 1]
    BY <1>2, <1>4, <1>7, <1>13 DEF IInv, TypeOK, only, n
<1>14. ASSUME Pair(y), y.attempt = 1 PROVE First(y, next')
    BY <1>5, <1>7, <1>8, <1>13, <1>14 DEF Pair, First
<1>15. ASSUME Pair(y), y.attempt = 2 PROVE Second(y, up)
    <2>1. Len(all) = 2 /\ Pair(x) /\ x.attempt = 1
        BY <1>1, <1>7, <1>8, <1>15 DEF Pair, all
    <2>2. First(x, next) /\ x.backend \notin up
        BY <1>1, <2>1 DEF IInv, Alternates, x
    <2>3. PICK m \in 0 .. Wrap - 1 : x.backend = all[(m % 2) + 1] /\ n = (m + 1) % Wrap
        BY <2>2 DEF First, all, n
    <2>4. (m % 2) + 1 \in 1 .. 2 /\ (n % 2) + 1 = 3 - ((m % 2) + 1)
        BY <2>3, OtherBackend
    <2>5. all[(m % 2) + 1] \notin up /\ y.backend = all[3 - ((m % 2) + 1)]
        BY <1>13, <2>1, <2>2, <2>3, <2>4
    <2> QED BY <1>8, <2>4, <2>5 DEF Second
<1>16. ASSUME NEW q \in Requests, q # r, req'[q].attempt > 0, req'[q].alone
       PROVE  /\ First(req[q], next) => First(req'[q], next')
              /\ Second(req[q], up) => Second(req'[q], up')
    <2>1. req[q].snap # x.snap \/ req[q].canonical # x.canonical
        BY <1>9, <1>16 DEF Shares
    <2>2. next'[req[q].snap][req[q].canonical] = next[req[q].snap][req[q].canonical]
        BY <1>2, <2>1 DEF IInv, TypeOK
    <2> QED BY <1>2, <1>9, <1>16, <2>2 DEF First, Second
<1>17. Alternates'
    <2> SUFFICES ASSUME NEW q \in Requests
                 PROVE  /\ /\ req'[q].stage \in {"pick", "dial"} /\ req'[q].attempt = 1
                           /\ Pair(req'[q])
                           => First(req'[q], next')
                              /\ (req'[q].stage = "pick" => req'[q].backend \notin up')
                        /\ req'[q].stage = "dial" /\ req'[q].attempt = 2 /\ Pair(req'[q])
                           => Second(req'[q], up')
        BY DEF Alternates, Pair
    <2>1. CASE q = r
        BY <1>2, <1>7, <1>14, <1>15, <2>1
    <2>2. CASE q # r
        <3>1. Pair(req'[q]) => Pair(req[q]) /\ req'[q].alone
            BY <1>9, <2>2 DEF Pair
        <3>2. /\ req'[q].stage = req[q].stage /\ req'[q].attempt = req[q].attempt
              /\ req'[q].backend = req[q].backend
            BY <1>9, <2>2
        <3>3. /\ req[q].stage \in {"pick", "dial"} /\ req[q].attempt = 1 /\ Pair(req[q]) =>
                    First(req[q], next) /\ (req[q].stage = "pick" => req[q].backend \notin up)
              /\ req[q].stage = "dial" /\ req[q].attempt = 2 /\ Pair(req[q]) => Second(req[q], up)
            BY DEF IInv, Alternates
        <3>4. req'[q].attempt > 0 /\ req'[q].alone =>
                  /\ First(req[q], next) => First(req'[q], next')
                  /\ Second(req[q], up) => Second(req'[q], up')
            BY <1>16, <2>2
        <3>5. up' = up
            BY <1>2
        <3> QED BY <3>1, <3>2, <3>3, <3>4, <3>5
    <2> QED BY <2>1, <2>2
<1> QED BY <1>2, <1>11, <1>12, <1>17 DEF IInv, Drained

LEMMA NextIInv == IInv /\ [Next]_vars => IInv'
<1> SUFFICES ASSUME IInv, [Next]_vars PROVE IInv'
    OBVIOUS
<1>1. CASE UNCHANGED vars
    BY <1>1, Untouched DEF vars, trafficVars, IInv, TypeOK, Drained
<1>2. CASE Next
    BY <1>2, EnvironmentIInv, ReceiveIInv, PickIInv, RequestIInv, FailToConnectIInv, ShutdownIInv
       DEF Next
<1> QED BY <1>1, <1>2

------------------------------------------------------------------------------
LEMMA Invariance == Spec => []IInv
BY InitIInv, NextIInv, PTL DEF Spec

(* The types of a request's route, attempt and answer and of the counters, *)
(* and that exactly the relaying connections are tracked.                  *)
THEOREM TypeCorrect == Spec => []TypeOK
<1>1. IInv => TypeOK
    BY DEF IInv
<1> QED BY <1>1, Invariance, PTL

(* Once Shutdown has returned no connection is relayed, and none begins to *)
(* be.  (trackHijacked, untrackHijacked, Shutdown.)                        *)
THEOREM StoppedIsDrained == Spec => [](server = "stopped" => tracked = {})
<1>1. IInv => (server = "stopped" => tracked = {})
    BY DEF IInv, Drained
<1> QED BY <1>1, Invariance, PTL

(* A retry alone at its counter dials the backend that is up, whatever is  *)
(* pushed meanwhile and also where the counter wraps.  (nextBackend,       *)
(* proxyToBackend.)                                                        *)
THEOREM RetryServes == Spec => RetryServesAlone
<1>1. ASSUME IInv, Next, NEW r \in Requests, Unserved(r), req[r].alone PROVE FALSE
    <2>1. req[r].stage = "dial" /\ req[r].answer = None /\ req'[r].answer = 502
        BY <1>1 DEF Unserved, IInv, TypeOK
    <2>2. /\ Pair(req[r]) /\ req[r].kind = "plain"
          /\ \E i \in 1 .. 2 : BackendsOf(req[r])[i] \in up
        BY <1>1 DEF Unserved, Pair
    <2>3. FailToConnect(r)
        <3>1. req[r] \in Records /\ req \in [Requests -> Records] /\ None # 502
            BY <1>1, NoneAssumption DEF IInv, TypeOK, Codes
        <3>2. req'[r].answer # req[r].answer
            BY <2>1, <3>1
        <3>3. PICK q \in Requests :
                 \/ \E query \in Queries[q] : Receive(q, query)
                 \/ Pick(q) \/ Connect(q) \/ FailToConnect(q) \/ Serve(q) \/ Hijack(q)
                 \/ Track(q) \/ ReadEnd(q) \/ WriteFails(q) \/ Untrack(q)
            BY <1>1, <3>2 DEF Next, UpdateConfig, BackendDies, EndClient, EndBackend, trafficVars,
                              BeginShutdown, CloseHttp, CloseHttps, Deadline, EndShutdown, Proceed
        <3>4. CASE q = r
            <4>1. /\ ~Hijack(r) \/ req[r].stage # "dial"
                  /\ ~Connect(r) \/ \E stage \in {"connected", "serve"} :
                                     req' = [req EXCEPT ![r].stage = stage]
                BY <2>1 DEF Hijack, Connect
            <4>2. ~Connect(r) /\ ~Hijack(r)
                BY <2>1, <3>1, <3>2, <4>1 DEF Records, Hijack
            <4>3. ~ \E query \in Queries[r] : Receive(r, query)
                BY <2>1, Blank DEF Receive
            <4>4. ~Pick(r) /\ ~Serve(r) /\ ~Track(r)
                BY <2>1 DEF Pick, Serve, Track
            <4>5. ~ReadEnd(r) /\ ~WriteFails(r) /\ ~Untrack(r)
                BY <2>1 DEF ReadEnd, WriteFails, CopierEnds, Untrack, Relaying
            <4> QED BY <3>3, <3>4, <4>2, <4>3, <4>4, <4>5
        <3>5. CASE q # r
            <4>1. req'[r] = req[r] \/ \E alone \in BOOLEAN : req'[r] = [req[r] EXCEPT !.alone = alone]
                BY <3>1, <3>3, <3>5
                   DEF Receive, Pick, Connect, FailToConnect, Serve, Hijack, Track, ReadEnd,
                       WriteFails, CopierEnds, Untrack, Leave, Set
            <4> QED BY <3>1, <3>2, <4>1 DEF Records
        <3> QED BY <3>4, <3>5
    <2>4. req[r].backend \notin up /\ ~(req[r].attempt < MaxAttempts(req[r]))
        <3>1. ASSUME req[r].attempt < MaxAttempts(req[r]) PROVE req'[r].answer = req[r].answer
            BY <1>1, <2>3, <3>1 DEF FailToConnect, Set, IInv, TypeOK, Records
        <3> QED BY <2>1, <2>3, <3>1, NoneAssumption DEF FailToConnect, Codes
    <2>5. req[r].attempt = 2
        <3>1. MaxAttempts(req[r]) = 2
            BY <1>1, <2>2 DEF MaxAttempts, Retries, Pair
        <3> QED BY <1>1, <2>1, <2>4, <3>1 DEF IInv, Waiting
    <2>6. Second(req[r], up)
        BY <1>1, <2>1, <2>2, <2>5 DEF IInv, Alternates
    <2> QED BY <2>2, <2>4, <2>6 DEF Second
<1>2. IInv /\ [Next]_vars => [\A r \in Requests : Unserved(r) => ~req[r].alone]_vars
    BY <1>1
<1> QED BY <1>2, Invariance, PTL DEF Spec, RetryServesAlone
=============================================================================
