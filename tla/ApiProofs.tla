------------------------------ MODULE ApiProofs -------------------------------
(***************************************************************************)
(* What haloyd's API server keeps open for its clients: tunnels, and       *)
(* streams of logs.                                                        *)
(*                                                                         *)
(* Tunnels, for any finite number of them and any limits: what is counted  *)
(* is what is open, so nothing is leaked and nothing given back twice, on  *)
(* every path a tunnel can end by; and once haloyd's shutdown is over no   *)
(* tunnel relays.                                                          *)
(*                                                                         *)
(* Logs, for any number of handlers and deployments and any capacities: a  *)
(* registered subscriber misses nothing, and Publish never sends on a      *)
(* closed channel.                                                         *)
(***************************************************************************)
EXTENDS Tunnel, LogBroker, FiniteSetTheorems, SequenceTheorems, TLAPS

------------------------------------------------------------------------------
(* Tunnels                                                                 *)

CliStates == {"none", "dial", "sent", "relay", "closed"}
Holding == {"dial", "sent", "relay"}

SlotOf(f) == {t \in Tunnels : f[t] \in Holding}
OpenOf(f) == {t \in Tunnels : f[t] \in Active}

(* A connection the CLI has not accepted has no goroutine.                 *)
Unaccepted == \A t \in Tunnels : app[t] = "none" => cli[t] = "none"

(* Shutdown ends with nothing tracked, and tracks nothing afterwards.      *)
Drained == server = "stopped" => tracked = {}

IInv == TypeOK /\ Unaccepted /\ Drained

(* A set of tunnels that gains or loses one.                               *)
LEMMA OneMore ==
    ASSUME NEW S \in SUBSET Tunnels, NEW t \in Tunnels
    PROVE  /\ Cardinality(S) \in Nat
           /\ t \notin S => Cardinality(S \cup {t}) = Cardinality(S) + 1
           /\ t \in S => Cardinality(S \ {t}) = Cardinality(S) - 1
<1>1. IsFiniteSet(S)
    BY FS_Subset, TunnelsAssumption
<1> QED BY <1>1, FS_CardinalityType, FS_AddElement, FS_RemoveElement

(* The CLI's goroutine of t goes from one state to another: the slots that *)
(* are taken change by what it gains or loses.                             *)
LEMMA CliCount ==
    ASSUME cli \in [Tunnels -> CliStates], NEW t \in Tunnels, NEW state \in CliStates,
           cli' = [cli EXCEPT ![t] = state]
    PROVE  /\ cli' \in [Tunnels -> CliStates]
           /\ Cardinality(SlotOf(cli)) \in Nat
           /\ Cardinality(SlotOf(cli)') =
                  IF state \in Holding /\ cli[t] \notin Holding THEN Cardinality(SlotOf(cli)) + 1
                  ELSE IF state \notin Holding /\ cli[t] \in Holding
                       THEN Cardinality(SlotOf(cli)) - 1
                  ELSE Cardinality(SlotOf(cli))
<1>1. SlotOf(cli)' = IF state \in Holding THEN SlotOf(cli) \cup {t} ELSE SlotOf(cli) \ {t}
    BY DEF SlotOf
<1>2. SlotOf(cli) \in SUBSET Tunnels /\ (t \in SlotOf(cli) <=> cli[t] \in Holding)
    BY DEF SlotOf
<1>3. /\ t \in SlotOf(cli) => SlotOf(cli) \cup {t} = SlotOf(cli)
      /\ t \notin SlotOf(cli) => SlotOf(cli) \ {t} = SlotOf(cli)
    OBVIOUS
<1> QED BY <1>1, <1>2, <1>3, OneMore

(* Likewise for haloyd's handler.                                          *)
LEMMA SrvCount ==
    ASSUME srv \in [Tunnels -> Active \cup {"none", "closed"}], NEW t \in Tunnels,
           NEW state \in Active \cup {"none", "closed"}, Goto(t, state)
    PROVE  /\ srv' \in [Tunnels -> Active \cup {"none", "closed"}]
           /\ Cardinality(OpenOf(srv)) \in Nat
           /\ Cardinality(OpenOf(srv)') =
                  IF state \in Active /\ srv[t] \notin Active THEN Cardinality(OpenOf(srv)) + 1
                  ELSE IF state \notin Active /\ srv[t] \in Active
                       THEN Cardinality(OpenOf(srv)) - 1
                  ELSE Cardinality(OpenOf(srv))
<1>1. OpenOf(srv)' = IF state \in Active THEN OpenOf(srv) \cup {t} ELSE OpenOf(srv) \ {t}
    BY DEF OpenOf, Goto
<1>2. OpenOf(srv) \in SUBSET Tunnels /\ (t \in OpenOf(srv) <=> srv[t] \in Active)
    BY DEF OpenOf
<1>3. /\ t \in OpenOf(srv) => OpenOf(srv) \cup {t} = OpenOf(srv)
      /\ t \notin OpenOf(srv) => OpenOf(srv) \ {t} = OpenOf(srv)
    OBVIOUS
<1> QED BY <1>1, <1>2, <1>3, OneMore DEF Goto

(* TypeOK, with the counts named.                                          *)
LEMMA Counted ==
    TypeOK => /\ slots = Cardinality(SlotOf(cli)) /\ open = Cardinality(OpenOf(srv))
              /\ cli \in [Tunnels -> CliStates]
              /\ srv \in [Tunnels -> Active \cup {"none", "closed"}]
BY DEF TypeOK, SlotOf, OpenOf, Holding, CliStates

------------------------------------------------------------------------------
LEMMA InitIInv == Init => IInv
<1> SUFFICES ASSUME Init PROVE IInv
    OBVIOUS
<1>1. SlotOf(cli) = {} /\ OpenOf(srv) = {}
    BY DEF Init, SlotOf, OpenOf, Holding, Active
<1>2. Cardinality(SlotOf(cli)) = 0 /\ Cardinality(OpenOf(srv)) = 0
    BY <1>1, FS_EmptySet
<1> QED BY <1>2, LimitsAssumption DEF Init, IInv, TypeOK, Unaccepted, Drained, SlotOf, OpenOf, Holding

(* The sides of a tunnel, and the steps of shutdown.                       *)
LEMMA SidesIInv ==
    ASSUME IInv, \E t \in Tunnels : EndApp(t) \/ EndContainer(t)
    PROVE  IInv'
<1>1. PICK t \in Tunnels : EndApp(t) \/ EndContainer(t)
    OBVIOUS
<1>2. CASE EndApp(t)
    <2>1. PICK end \in {"finished", "closed"} : app' = [app EXCEPT ![t] = end]
        BY <1>2 DEF EndApp
    <2> QED BY <1>2, <2>1 DEF EndApp, cliVars, srvVars, IInv, TypeOK, Unaccepted, Drained
<1>3. CASE EndContainer(t)
    <2>1. PICK end \in {"finished", "closed"} : cont' = [cont EXCEPT ![t] = end]
        BY <1>3 DEF EndContainer
    <2> QED BY <1>3, <2>1 DEF EndContainer, cliVars, srvVars, IInv, TypeOK, Unaccepted, Drained
<1> QED BY <1>1, <1>2, <1>3

LEMMA ShutdownIInv ==
    ASSUME IInv, BeginShutdown \/ WaitForHandlers \/ Deadline \/ EndShutdown
    PROVE  IInv'
<1>1. /\ UNCHANGED <<tls, cliVars, app, open, srv, srvDone, tracked, cont>>
      /\ server' \in {"running", "http", "waiting", "forcing", "stopped"}
      /\ server' = "stopped" => tracked = {}
      /\ forced' \in {forced, tracked}
    BY DEF BeginShutdown, WaitForHandlers, Deadline, EndShutdown, Advance
<1>2. tracked \subseteq Tunnels
    BY DEF IInv, TypeOK
<1>3. TypeOK'
    BY <1>1, <1>2 DEF IInv, TypeOK, cliVars
<1> QED BY <1>1, <1>3 DEF IInv, Unaccepted, Drained, cliVars

(* A step of the CLI that moves one goroutine.                             *)
LEMMA CliMoves ==
    ASSUME IInv, NEW t \in Tunnels, NEW state \in CliStates \ {"none"},
           cli' = [cli EXCEPT ![t] = state],
           slots' = IF state \in Holding /\ cli[t] \notin Holding THEN slots + 1
                    ELSE IF state \notin Holding /\ cli[t] \in Holding THEN slots - 1 ELSE slots,
           slots' <= LocalSlots,
           app' \in [Tunnels -> {"none", "open", "finished", "closed"}],
           app'[t] # "none", \A u \in Tunnels \ {t} : app'[u] = "none" => app[u] = "none",
           UNCHANGED <<tls, command, cliDone, srvVars, cont>>
    PROVE  IInv'
<1>1. cli' \in [Tunnels -> CliStates] /\ slots' = Cardinality(SlotOf(cli)')
    BY Counted, CliCount DEF IInv
<1>2. TypeOK'
    BY <1>1 DEF IInv, TypeOK, srvVars, SlotOf, Holding, CliStates
<1>3. Unaccepted' /\ Drained'
    BY DEF IInv, TypeOK, Unaccepted, Drained, srvVars
<1> QED BY <1>2, <1>3 DEF IInv

LEMMA CliIInv ==
    ASSUME IInv, NEW t \in Tunnels,
           Accept(t) \/ SendRequest(t) \/ ReadUpgrade(t) \/ FailToDial(t) \/ EndRelay(t)
    PROVE  IInv'
<1>1. slots \in Nat /\ LocalSlots \in Nat /\ slots <= LocalSlots
    BY Counted, CliCount, LimitsAssumption, OneMore DEF IInv, TypeOK, SlotOf
<1>2. CASE Accept(t)
    <2>1. cli[t] = "none"
        BY <1>2 DEF Accept, IInv, Unaccepted
    <2>2. CASE slots < LocalSlots
        <3>1. /\ cli' = [cli EXCEPT ![t] = "dial"] /\ app' = [app EXCEPT ![t] = "open"]
              /\ slots' = slots + 1
              /\ UNCHANGED <<tls, command, cliDone, srvVars, cont>>
            BY <1>2, <2>2 DEF Accept
        <3>2. /\ app' \in [Tunnels -> {"none", "open", "finished", "closed"}]
              /\ app'[t] # "none" /\ \A u \in Tunnels \ {t} : app'[u] = app[u]
            BY <3>1 DEF IInv, TypeOK
        <3>3. slots' <= LocalSlots
            BY <1>1, <2>2, <3>1
        <3>4. "dial" \in CliStates \ {"none"} /\ "dial" \in Holding /\ cli[t] \notin Holding
            BY <2>1 DEF CliStates, Holding
        <3> QED BY <3>1, <3>2, <3>3, <3>4, CliMoves
    <2>3. CASE ~(slots < LocalSlots)
        BY <1>2, <2>3 DEF Accept, IInv, TypeOK, Unaccepted, Drained, srvVars
    <2> QED BY <2>2, <2>3
<1>3. CASE SendRequest(t) \/ ReadUpgrade(t)
    <2>1. app[t] # "none"
        BY <1>3 DEF SendRequest, ReadUpgrade, IInv, Unaccepted
    <2> QED BY <1>1, <1>3, <2>1, CliMoves
            DEF SendRequest, ReadUpgrade, IInv, TypeOK, CliStates, Holding
<1>4. CASE FailToDial(t) \/ EndRelay(t)
    <2>1. /\ cli' = [cli EXCEPT ![t] = "closed"] /\ app' = [app EXCEPT ![t] = "closed"]
          /\ slots' = slots - 1 /\ cli[t] \in Holding
          /\ UNCHANGED <<tls, command, cliDone, srvVars, cont>>
        BY <1>4 DEF FailToDial, EndRelay, CloseLocal, Holding
    <2>2. /\ app' \in [Tunnels -> {"none", "open", "finished", "closed"}]
          /\ app'[t] # "none" /\ \A u \in Tunnels \ {t} : app'[u] = app[u]
        BY <2>1 DEF IInv, TypeOK
    <2>3. slots' <= LocalSlots
        BY <1>1, <2>1
    <2>4. "closed" \in CliStates \ {"none"} /\ "closed" \notin Holding
        BY DEF CliStates, Holding
    <2> QED BY <2>1, <2>2, <2>3, <2>4, CliMoves
<1> QED BY <1>2, <1>3, <1>4

(* Copiers, Ctrl+C and the end of the command move no goroutine.           *)
LEMMA CopiersIInv ==
    ASSUME IInv, \/ \E t \in Tunnels : CliReadsEnd(t) \/ CliWriteFails(t)
                 \/ \E t \in Tunnels : SrvReadsEnd(t) \/ SrvWriteFails(t)
                 \/ Cancel \/ EndCommand
    PROVE  IInv'
<1>1. ASSUME NEW t \in Tunnels, NEW dir \in Directions, CliCopierEnds(t, dir) PROVE IInv'
    BY <1>1 DEF CliCopierEnds, IInv, TypeOK, Unaccepted, Drained, srvVars
<1>2. ASSUME NEW t \in Tunnels, NEW dir \in Directions, SrvCopierEnds(t, dir) PROVE IInv'
    BY <1>2 DEF SrvCopierEnds, IInv, TypeOK, Unaccepted, Drained, cliVars
<1>3. CASE Cancel \/ EndCommand
    BY <1>3 DEF Cancel, EndCommand, IInv, TypeOK, Unaccepted, Drained, srvVars
<1> QED BY <1>1, <1>2, <1>3 DEF CliReadsEnd, CliWriteFails, SrvReadsEnd, SrvWriteFails, Directions

(* A step of haloyd that moves one handler.                                *)
LEMMA SrvMoves ==
    ASSUME IInv, NEW t \in Tunnels, NEW state \in Active \cup {"closed"}, Goto(t, state),
           open' = IF state \in Active /\ srv[t] \notin Active THEN open + 1
                   ELSE IF state \notin Active /\ srv[t] \in Active THEN open - 1 ELSE open,
           open' <= MaxOpen,
           cont' \in [Tunnels -> {"none", "open", "finished", "closed"}],
           tracked' = IF state \in {"tracked", "relay"} THEN tracked \cup {t} ELSE tracked \ {t},
           t \in tracked' \ tracked => server # "stopped",
           UNCHANGED <<tls, cliVars, app, srvDone, forced, server>>
    PROVE  IInv'
<1>1. /\ srv' \in [Tunnels -> Active \cup {"none", "closed"}]
      /\ open' = Cardinality(OpenOf(srv)')
    BY Counted, SrvCount DEF IInv
<1>2. tracked' = {u \in Tunnels : srv'[u] \in {"tracked", "relay"}}
    BY DEF Goto, IInv, TypeOK
<1>3. TypeOK'
    BY <1>1, <1>2 DEF IInv, TypeOK, cliVars, OpenOf
<1>4. Unaccepted' /\ Drained'
    BY DEF IInv, Unaccepted, Drained, cliVars
<1> QED BY <1>3, <1>4 DEF IInv

LEMMA SrvIInv ==
    ASSUME IInv, NEW t \in Tunnels,
           \/ AcquireTunnel(t) \/ RefuseTunnel(t) \/ DialContainer(t) \/ Hijack(t)
           \/ Track(t) \/ AnswerUpgrade(t) \/ Untrack(t) \/ CloseTunnel(t)
    PROVE  IInv'
<1>1. open \in Nat /\ MaxOpen \in Nat /\ open <= MaxOpen
    BY Counted, SrvCount, LimitsAssumption, OneMore DEF IInv, TypeOK, OpenOf
<1>2. /\ tracked = {u \in Tunnels : srv[u] \in {"tracked", "relay"}}
      /\ cont \in [Tunnels -> {"none", "open", "finished", "closed"}]
    BY DEF IInv, TypeOK
<1>3. CASE AcquireTunnel(t)
    BY <1>1, <1>2, <1>3, SrvMoves DEF AcquireTunnel, Active
<1>4. CASE RefuseTunnel(t)
    BY <1>1, <1>2, <1>4, SrvMoves DEF RefuseTunnel, Active
<1>5. CASE DialContainer(t) \/ Hijack(t)
    BY <1>1, <1>2, <1>5, SrvMoves DEF DialContainer, Hijack, Active
<1>6. CASE Track(t)
    BY <1>1, <1>2, <1>6, SrvMoves DEF Track, Admits, Active
<1>7. CASE AnswerUpgrade(t)
    BY <1>1, <1>2, <1>7, SrvMoves DEF AnswerUpgrade, Active
<1>8. CASE Untrack(t)
    BY <1>1, <1>2, <1>8, SrvMoves DEF Untrack, Active
<1>9. CASE CloseTunnel(t)
    BY <1>1, <1>2, <1>9, SrvMoves DEF CloseTunnel, Active
<1> QED BY <1>3, <1>4, <1>5, <1>6, <1>7, <1>8, <1>9

LEMMA NextIInv == IInv /\ [Next]_vars => IInv'
<1> SUFFICES ASSUME IInv, [Next]_vars PROVE IInv'
    OBVIOUS
<1>1. CASE UNCHANGED vars
    BY <1>1 DEF vars, cliVars, srvVars, IInv, TypeOK, Unaccepted, Drained
<1>2. CASE Next
    BY <1>2, SidesIInv, ShutdownIInv, CliIInv, CopiersIInv, SrvIInv DEF Next
<1> QED BY <1>1, <1>2

------------------------------------------------------------------------------
LEMMA Invariance == Spec => []IInv
BY InitIInv, NextIInv, PTL DEF Spec

(* The CLI's slots and haloyd's capacity count what is open and stay       *)
(* within their limits, and exactly the relaying tunnels are tracked.      *)
(* (handleTunnelConnection, tunnelCapacity, connectionTracker.)            *)
THEOREM TypeCorrect == Spec => []TypeOK
<1>1. IInv => TypeOK
    BY DEF IInv
<1> QED BY <1>1, Invariance, PTL

(* Once Shutdown has returned no tunnel is tracked, and none is any more:  *)
(* a handler that has hijacked its connection before is turned away.       *)
(* (connectionTracker.track, shutdown.)                                    *)
THEOREM StoppedIsDrained == Spec => [](server = "stopped" => tracked = {})
<1>1. IInv => (server = "stopped" => tracked = {})
    BY DEF IInv, Drained
<1> QED BY <1>1, Invariance, PTL

------------------------------------------------------------------------------
(* Log streams: lemmas about sequences                                     *)

(* No element of a sequence occurs twice.                                  *)
Distinct(s) == \A i, j \in DOMAIN s : s[i] = s[j] => i = j

LEMMA Elements ==
    ASSUME NEW S, NEW s \in Seq(S)
    PROVE  Entries(s) \subseteq S /\ Entries(<<>>) = {} /\ Distinct(<<>>)
BY LenProperties DEF Entries, Distinct

(* What a sequence holds after one more element, without its first, and    *)
(* without the oldest ones, which Keep drops.                              *)
LEMMA Appended ==
    ASSUME NEW S, NEW s \in Seq(S), NEW e \in S
    PROVE  /\ Append(s, e) \in Seq(S)
           /\ Entries(Append(s, e)) = Entries(s) \cup {e}
           /\ Distinct(s) /\ e \notin Entries(s) => Distinct(Append(s, e))
<1>1. /\ Len(s) \in Nat /\ DOMAIN s = 1 .. Len(s)
      /\ Append(s, e) \in Seq(S) /\ DOMAIN Append(s, e) = 1 .. (Len(s) + 1)
      /\ Len(Append(s, e)) = Len(s) + 1
      /\ Append(s, e)[Len(s) + 1] = e
      /\ \A i \in 1 .. Len(s) : Append(s, e)[i] = s[i]
    BY LenProperties
<1>2. \A i \in 1 .. (Len(s) + 1) : i \in 1 .. Len(s) \/ i = Len(s) + 1
    BY <1>1
<1>3. 1 .. Len(s) \subseteq 1 .. (Len(s) + 1) /\ Len(s) + 1 \in 1 .. (Len(s) + 1)
    BY <1>1
<1> HIDE DEF Entries
<1>4. Entries(Append(s, e)) = Entries(s) \cup {e}
    BY <1>1, <1>2, <1>3 DEF Entries
<1>5. Distinct(s) /\ e \notin Entries(s) => Distinct(Append(s, e))
    BY <1>1, <1>2 DEF Distinct, Entries
<1> QED BY <1>1, <1>4, <1>5

LEMMA Removed ==
    ASSUME NEW S, NEW s \in Seq(S), s # <<>>
    PROVE  /\ Head(s) \in S /\ Tail(s) \in Seq(S)
           /\ Entries(s) = {Head(s)} \cup Entries(Tail(s))
           /\ Distinct(s) => Distinct(Tail(s)) /\ Head(s) \notin Entries(Tail(s))
<1>1. /\ Len(s) \in Nat /\ Len(s) > 0 /\ DOMAIN s = 1 .. Len(s)
      /\ Head(s) = s[1] /\ Head(s) \in S
      /\ Tail(s) \in Seq(S) /\ DOMAIN Tail(s) = 1 .. (Len(s) - 1)
      /\ \A i \in 1 .. (Len(s) - 1) : Tail(s)[i] = s[i + 1]
    BY LenProperties, HeadTailProperties, EmptySeq
<1>2. \A i \in 1 .. Len(s) : i = 1 \/ (i - 1 \in 1 .. (Len(s) - 1) /\ (i - 1) + 1 = i)
    BY <1>1
<1>3. \A i \in 1 .. (Len(s) - 1) : i + 1 \in 1 .. Len(s) /\ i + 1 # 1
    BY <1>1
<1>4. Entries(s) = {Head(s)} \cup Entries(Tail(s))
    <2>1. ASSUME NEW i \in 1 .. Len(s) PROVE s[i] \in {Head(s)} \cup Entries(Tail(s))
        <3>1. CASE i = 1
            BY <1>1, <3>1
        <3>2. CASE i # 1
            <4>1. i - 1 \in DOMAIN Tail(s) /\ Tail(s)[i - 1] = s[i]
                BY <1>1, <1>2, <3>2
            <4> QED BY <4>1 DEF Entries
        <3> QED BY <3>1, <3>2
    <2>2. \A i \in 1 .. (Len(s) - 1) : Tail(s)[i] \in Entries(s)
        BY <1>1, <1>3 DEF Entries
    <2>3. Head(s) \in Entries(s)
        BY <1>1 DEF Entries
    <2> QED BY <1>1, <2>1, <2>2, <2>3 DEF Entries
<1>5. Distinct(s) => Distinct(Tail(s)) /\ Head(s) \notin Entries(Tail(s))
    BY <1>1, <1>3 DEF Distinct, Entries
<1> QED BY <1>1, <1>4, <1>5

LEMMA Kept ==
    ASSUME NEW S, NEW s \in Seq(S), NEW e \in S
    PROVE  /\ Keep(s, e) \in Seq(S)
           /\ Entries(Keep(s, e)) \subseteq Entries(s) \cup {e}
           /\ Distinct(s) /\ e \notin Entries(s) => Distinct(Keep(s, e))
<1> DEFINE all == Append(s, e)
           from == Len(all) - MaxBuffer + 1
<1>1. /\ all \in Seq(S) /\ Len(all) \in Nat /\ DOMAIN all = 1 .. Len(all)
      /\ Entries(all) = Entries(s) \cup {e}
      /\ Distinct(s) /\ e \notin Entries(s) => Distinct(all)
    BY Appended, LenProperties
<1>2. CASE ~(Len(all) > MaxBuffer)
    BY <1>1, <1>2 DEF Keep
<1>3. CASE Len(all) > MaxBuffer
    <2>1. /\ MaxBuffer \in Nat \ {0} /\ from \in 1 .. Len(all)
          /\ Keep(s, e) = SubSeq(all, from, Len(all))
        BY <1>1, <1>3, CapacityAssumption DEF Keep
    <2> HIDE DEF all, from
    <2>2. \A i \in from .. Len(all) : all[i] \in S
        BY <1>1, <2>1, ElementOfSeq
    <2>3. /\ Keep(s, e) \in Seq(S) /\ Len(Keep(s, e)) = Len(all) - from + 1
          /\ \A i \in 1 .. (Len(all) - from + 1) : Keep(s, e)[i] = all[from + i - 1]
        BY <1>1, <2>1, <2>2, SubSeqProperties
    <2>4. DOMAIN Keep(s, e) = 1 .. (Len(all) - from + 1)
        BY <2>3, LenProperties
    <2>5. \A i \in 1 .. (Len(all) - from + 1) : from + i - 1 \in 1 .. Len(all)
        BY <1>1, <2>1
    <2>6. \A i, j \in 1 .. (Len(all) - from + 1) : from + i - 1 = from + j - 1 => i = j
        BY <1>1, <2>1
    <2>7. Entries(Keep(s, e)) \subseteq Entries(all)
        BY <1>1, <2>3, <2>4, <2>5 DEF Entries
    <2>8. Distinct(all) => Distinct(Keep(s, e))
        BY <1>1, <2>3, <2>4, <2>5, <2>6 DEF Distinct
    <2> QED BY <1>1, <2>3, <2>7, <2>8
<1> QED BY <1>2, <1>3

------------------------------------------------------------------------------
(* Log streams: the invariant                                              *)

LogEntries == [number : Nat, deployment : Deployments \cup {None}, last : BOOLEAN]
Channels == [open : BOOLEAN, queue : Seq(LogEntries)]
Requests == [stage : {"idle", "streaming", "cleanup", "done"}, channel : Handlers \cup {None}]

LogTyped ==
    /\ published \in Nat
    /\ buffer \in Seq(LogEntries)
    /\ deploymentBuffer \in [Deployments -> Seq(LogEntries)]
    /\ streams \in SUBSET General
    /\ deploymentStreams \in [Deployments -> Handlers \cup {None}]
    /\ \A d \in Deployments : deploymentStreams[d] \in Streams[d] \cup {None}
    /\ chan \in [Handlers -> Channels]
    /\ replay \in [Handlers -> Seq(LogEntries)]
    /\ handler \in [Handlers -> Requests]
    /\ \A h \in Handlers : handler[h].stage = "streaming" => handler[h].channel \in Handlers
    /\ owed \in [Handlers -> SUBSET LogEntries]

(* What has been published so far.                                         *)
SoFar == {e \in LogEntries : e.number <= published}

(* The buffers hold entries that were published, each once.                *)
Good(s, entries) == Distinct(s) /\ Entries(s) \subseteq entries
BuffersGood ==
    Good(buffer, SoFar) /\ \A d \in Deployments : Good(deploymentBuffer[d], SoFar)

(* A registered channel is open, and what is owed to its subscriber is in  *)
(* the channel or with the goroutine that replays the buffer, each entry   *)
(* once, so that the one that is received is nowhere else.                 *)
Sound(c) ==
    LET queue == chan[c].queue
        rest == replay[c]
    IN /\ chan[c].open
       /\ Good(queue, SoFar) /\ Good(rest, SoFar) /\ Entries(queue) \cap Entries(rest) = {}
       /\ owed[c] = Entries(queue) \cup Entries(rest)
ChannelsSound == \A c \in Handlers : Registered(c) => Sound(c)

LogIInv == LogTyped /\ BuffersGood /\ ChannelsSound

(* A handler streams the server's logs or those of one deployment.         *)
LEMMA OneKind ==
    /\ None \notin Handlers /\ None \notin Deployments
    /\ General \subseteq Handlers
    /\ \A d \in Deployments : Streams[d] \subseteq Handlers /\ Streams[d] \cap General = {}
    /\ \A d, e \in Deployments : d # e => Streams[d] \cap Streams[e] = {}
    /\ \A h \in DeploymentHandlers :
          h \in Handlers /\ DeploymentOf(h) \in Deployments /\ h \in Streams[DeploymentOf(h)]
<1>1. /\ None \notin Handlers /\ None \notin Deployments
      /\ General \subseteq Handlers
      /\ \A d \in Deployments : Streams[d] \subseteq Handlers /\ Streams[d] \cap General = {}
      /\ \A d, e \in Deployments : d # e => Streams[d] \cap Streams[e] = {}
    BY HandlersAssumption DEF Handlers, DeploymentHandlers
<1>2. ASSUME NEW h \in DeploymentHandlers
      PROVE  h \in Handlers /\ DeploymentOf(h) \in Deployments /\ h \in Streams[DeploymentOf(h)]
    <2>1. PICK d \in Deployments : h \in Streams[d]
        BY DEF DeploymentHandlers
    <2>2. h \notin General
        BY <1>1, <2>1
    <2>3. DeploymentOf(h) = CHOOSE x \in Deployments : h \in Streams[x]
        BY <2>2 DEF DeploymentOf
    <2> QED BY <1>1, <2>1, <2>3
<1> QED BY <1>1, <1>2

(* The channels of one step: what happens to a channel that is registered  *)
(* afterwards.                                                             *)
Fresh(c) ==
    /\ chan'[c] = [open |-> TRUE, queue |-> <<>>]
    /\ replay'[c] \in {buffer} \cup {deploymentBuffer[d] : d \in Deployments}
    /\ owed'[c] = Entries(replay'[c])

Unmoved(c) == chan'[c] = chan[c] /\ replay'[c] = replay[c] /\ owed'[c] = owed[c]

Published(c) ==
    \E e \in LogEntries :
        /\ e.number = published + 1 /\ published' = published + 1
        /\ chan'[c] = [chan[c] EXCEPT !.queue = Append(@, e)]
        /\ replay'[c] = replay[c]
        /\ owed'[c] = owed[c] \cup {e}

Replayed(c) ==
    /\ replay[c] # <<>>
    /\ chan'[c] = [chan[c] EXCEPT !.queue = Append(@, Head(replay[c]))]
    /\ replay'[c] = Tail(replay[c])
    /\ owed'[c] = owed[c]

Received(c) ==
    /\ chan[c].queue # <<>>
    /\ chan'[c] = [chan[c] EXCEPT !.queue = Tail(@)]
    /\ replay'[c] = replay[c]
    /\ owed'[c] = owed[c] \ {Head(chan[c].queue)}

Moves(c) ==
    \/ Fresh(c)
    \/ Registered(c) /\ (Unmoved(c) \/ Published(c) \/ Replayed(c) \/ Received(c))

(* Each of them keeps a channel sound.  An entry that is published is new, *)
(* because it has the next number.                                         *)
LEMMA MovesSound ==
    ASSUME LogIInv, LogTyped', published' \in {published, published + 1},
           NEW c \in Handlers, Moves(c)
    PROVE  Sound(c)'
<1>1. /\ published \in Nat
      /\ chan[c].queue \in Seq(LogEntries) /\ replay[c] \in Seq(LogEntries)
    BY DEF LogIInv, LogTyped, Channels
<1>2. SoFar \subseteq SoFar'
    BY <1>1 DEF SoFar, LogEntries
<1>3. CASE Fresh(c)
    <2>1. Good(replay'[c], SoFar')
        BY <1>2, <1>3 DEF Fresh, LogIInv, BuffersGood, Good
    <2>2. Entries(<<>>) = {} /\ Good(<<>>, SoFar')
        BY <1>1, Elements DEF Good
    <2>3. chan'[c].open = TRUE /\ chan'[c].queue = <<>>
        BY <1>3 DEF Fresh
    <2> QED BY <1>3, <2>1, <2>2, <2>3 DEF Fresh, Sound
<1>4. CASE Registered(c) /\ Unmoved(c)
    BY <1>2, <1>4 DEF Unmoved, LogIInv, ChannelsSound, Sound, Good
<1>5. CASE Registered(c) /\ Published(c)
    <2>1. PICK e \in LogEntries : /\ e.number = published + 1 /\ published' = published + 1
                                  /\ chan'[c] = [chan[c] EXCEPT !.queue = Append(@, e)]
                                  /\ replay'[c] = replay[c]
                                  /\ owed'[c] = owed[c] \cup {e}
        BY <1>5 DEF Published
    <2>2. e \notin SoFar /\ e \in SoFar'
        BY <1>1, <2>1 DEF SoFar, LogEntries
    <2>3. Sound(c) /\ chan[c] \in Channels
        BY <1>5 DEF LogIInv, ChannelsSound, LogTyped
    <2>4. /\ chan'[c].open = chan[c].open /\ chan'[c].queue = Append(chan[c].queue, e)
        BY <2>1, <2>3 DEF Channels
    <2>5. /\ Entries(Append(chan[c].queue, e)) = Entries(chan[c].queue) \cup {e}
          /\ Distinct(Append(chan[c].queue, e))
        BY <1>1, <2>2, <2>3, Appended DEF Sound, Good
    <2> QED BY <1>1, <1>2, <2>1, <2>2, <2>3, <2>4, <2>5 DEF Sound, Good
<1>6. CASE Registered(c) /\ Replayed(c)
    <2>1. Sound(c) /\ chan[c] \in Channels
        BY <1>6 DEF LogIInv, ChannelsSound, LogTyped
    <2>2. /\ chan'[c].open = chan[c].open
          /\ chan'[c].queue = Append(chan[c].queue, Head(replay[c]))
        BY <1>6, <2>1 DEF Replayed, Channels
    <2>3. /\ Head(replay[c]) \in LogEntries
          /\ Entries(replay[c]) = {Head(replay[c])} \cup Entries(Tail(replay[c]))
          /\ Distinct(Tail(replay[c])) /\ Head(replay[c]) \notin Entries(Tail(replay[c]))
        BY <1>1, <1>6, <2>1, Removed DEF Replayed, Sound, Good
    <2>4. /\ Entries(chan'[c].queue) = Entries(chan[c].queue) \cup {Head(replay[c])}
          /\ Distinct(chan'[c].queue)
        BY <1>1, <2>1, <2>2, <2>3, Appended DEF Sound, Good
    <2> QED BY <1>1, <1>2, <1>6, <2>1, <2>2, <2>3, <2>4 DEF Sound, Good, Replayed
<1>7. CASE Registered(c) /\ Received(c)
    <2>1. Sound(c) /\ chan[c] \in Channels
        BY <1>7 DEF LogIInv, ChannelsSound, LogTyped
    <2>2. chan'[c].open = chan[c].open /\ chan'[c].queue = Tail(chan[c].queue)
        BY <1>7, <2>1 DEF Received, Channels
    <2>3. /\ Entries(chan[c].queue) = {Head(chan[c].queue)} \cup Entries(Tail(chan[c].queue))
          /\ Distinct(Tail(chan[c].queue))
          /\ Head(chan[c].queue) \notin Entries(Tail(chan[c].queue))
        BY <1>1, <1>7, <2>1, Removed DEF Received, Sound, Good
    <2> QED BY <1>1, <1>2, <1>7, <2>1, <2>2, <2>3 DEF Sound, Good, Received
<1> QED BY <1>3, <1>4, <1>5, <1>6, <1>7 DEF Moves

------------------------------------------------------------------------------
(* Log streams: the steps                                                  *)

(* Publish: an entry goes to the buffers and to every open channel with    *)
(* room; a full channel is registered no more.                             *)
LEMMA PublishStep ==
    ASSUME LogTyped, ChannelsSound, NEW d \in Deployments \cup {None}, NEW last \in BOOLEAN,
           Publish(d, last)
    PROVE  /\ LogTyped' /\ published' = published + 1
           /\ \E e \in LogEntries :
                 /\ e.number = published + 1
                 /\ buffer' = Keep(buffer, e)
                 /\ \A x \in Deployments :
                       deploymentBuffer'[x]
                         \in {<<>>, deploymentBuffer[x], Keep(deploymentBuffer[x], e)}
           /\ \A c \in Handlers : Registered(c)' => Moves(c)
<1> DEFINE e == Entry(published + 1, d, last)
           to == Subscribed(d)
           delivered == [c \in Handlers |-> IF c \in to THEN Deliver(c, e) ELSE chan[c]]
           slow == {c \in to : ~delivered[c].open}
           current == IF d = None THEN None ELSE deploymentStreams[d]
<1>1. /\ published' = published + 1
      /\ chan' = delivered
      /\ owed' = [c \in Handlers |-> IF c \in slow THEN {}
                                    ELSE IF c \in to THEN owed[c] \cup {e} ELSE owed[c]]
      /\ buffer' = Keep(buffer, e)
      /\ streams' = streams \ slow
      /\ deploymentBuffer' =
             IF d = None THEN deploymentBuffer
             ELSE [deploymentBuffer EXCEPT ![d] = IF current \in slow THEN <<>> ELSE Keep(@, e)]
      /\ deploymentStreams' =
             IF current \in slow THEN [deploymentStreams EXCEPT ![d] = None]
             ELSE deploymentStreams
      /\ UNCHANGED <<replay, handler, crashed>>
    BY DEF Publish
<1>2. e \in LogEntries /\ e.number = published + 1
    BY DEF Entry, LogEntries, LogTyped
<1>3. to = streams \cup (IF d = None THEN {} ELSE {deploymentStreams[d]} \ {None})
    BY DEF Subscribed
<1>4. /\ to \subseteq Handlers /\ None \notin to /\ None \notin Handlers
      /\ current \in slow => d \in Deployments
      /\ \A c \in Handlers : chan[c] \in Channels
    BY <1>3, OneKind DEF LogTyped
<1>5. \A c \in Handlers :
         /\ delivered[c] = IF c \in to THEN Deliver(c, e) ELSE chan[c]
         /\ Deliver(c, e) = IF Full(c) THEN [chan[c] EXCEPT !.open = FALSE]
                            ELSE [chan[c] EXCEPT !.queue = Append(@, e)]
         /\ Deliver(c, e) \in Channels
    <2>1. ASSUME NEW c \in Handlers PROVE Deliver(c, e) \in Channels
        <3>1. Append(chan[c].queue, e) \in Seq(LogEntries)
            BY <1>2, <1>4, Appended DEF Channels
        <3> QED BY <1>4, <3>1 DEF Deliver, Channels
    <2> QED BY <2>1 DEF Deliver
<1>6. buffer' \in Seq(LogEntries)
    BY <1>1, <1>2, Kept DEF LogTyped
<1>7. \A x \in Deployments :
         deploymentBuffer'[x] \in {<<>>, deploymentBuffer[x], Keep(deploymentBuffer[x], e)}
    BY <1>1 DEF LogTyped
<1>8. deploymentBuffer' \in [Deployments -> Seq(LogEntries)]
    <2>1. ASSUME NEW x \in Deployments PROVE deploymentBuffer'[x] \in Seq(LogEntries)
        <3>1. deploymentBuffer[x] \in Seq(LogEntries)
            BY DEF LogTyped
        <3>2. Keep(deploymentBuffer[x], e) \in Seq(LogEntries) /\ <<>> \in Seq(LogEntries)
            BY <1>2, <3>1, Kept, EmptySeq
        <3> QED BY <1>7, <3>1, <3>2
    <2>2. deploymentBuffer' = [x \in Deployments |-> deploymentBuffer'[x]]
        BY <1>1 DEF LogTyped
    <2> QED BY <2>1, <2>2
<1>9. /\ deploymentStreams' \in [Deployments -> Handlers \cup {None}]
      /\ \A x \in Deployments : deploymentStreams'[x] \in {deploymentStreams[x], None}
    BY <1>1, <1>4 DEF LogTyped
<1>10. chan' \in [Handlers -> Channels] /\ owed' \in [Handlers -> SUBSET LogEntries]
    BY <1>1, <1>2, <1>4, <1>5 DEF LogTyped
<1>11. LogTyped'
    BY <1>1, <1>6, <1>8, <1>9, <1>10 DEF LogTyped
<1>12. ASSUME NEW c \in Handlers, Registered(c)'
       PROVE  Moves(c)
    <2>1. Registered(c)
        BY <1>1, <1>4, <1>9, <1>12 DEF Registered
    <2>2. chan[c].open
        BY <2>1 DEF ChannelsSound, Sound
    <2>3. CASE c \notin to
        BY <1>1, <1>5, <2>1, <2>3 DEF Moves, Unmoved
    <2>4. CASE c \in to /\ c \notin slow
        <3>1. delivered[c].open
            BY <2>4
        <3>2. chan'[c] = [chan[c] EXCEPT !.queue = Append(@, e)]
            BY <1>1, <1>4, <1>5, <2>4, <3>1 DEF Channels
        <3>3. owed'[c] = owed[c] \cup {e}
            BY <1>1, <2>4
        <3> QED BY <1>1, <1>2, <2>1, <3>2, <3>3 DEF Moves, Published
    <2>5. CASE c \in slow
        <3>1. c \notin streams'
            BY <1>1, <2>5
        <3>2. PICK x \in Deployments : deploymentStreams'[x] = c
            BY <1>12, <3>1 DEF Registered
        <3>3. deploymentStreams[x] = c /\ c \in Streams[x]
            BY <1>4, <1>9, <3>2 DEF LogTyped
        <3>4. c \notin streams
            BY <3>3, OneKind DEF LogTyped
        <3>5. d \in Deployments /\ deploymentStreams[d] = c /\ c \in Streams[d]
            BY <1>3, <1>4, <2>5, <3>4 DEF LogTyped
        <3>6. x = d
            BY <3>3, <3>5, OneKind
        <3>7. current = c
            BY <3>5, OneKind
        <3>8. deploymentStreams'[d] = None
            BY <1>1, <2>5, <3>5, <3>7 DEF LogTyped
        <3> QED BY <1>4, <3>2, <3>6, <3>8
    <2> QED BY <2>3, <2>4, <2>5
<1> QED BY <1>1, <1>2, <1>7, <1>11, <1>12

(* Every other step leaves the buffers as they are or empties one.         *)
BuffersStay ==
    /\ UNCHANGED <<published, buffer>>
    /\ \A d \in Deployments : deploymentBuffer'[d] \in {<<>>, deploymentBuffer[d]}

(* A new channel, and who gets one.                                        *)
LEMMA OpenStep ==
    ASSUME LogTyped, NEW h \in Handlers, NEW s,
           s \in {buffer} \cup {deploymentBuffer[d] : d \in Deployments}, Open(h, s)
    PROVE  /\ chan' \in [Handlers -> Channels] /\ replay' \in [Handlers -> Seq(LogEntries)]
           /\ owed' \in [Handlers -> SUBSET LogEntries]
           /\ Fresh(h) /\ \A c \in Handlers \ {h} : Unmoved(c)
<1>1. s \in Seq(LogEntries)
    BY DEF LogTyped
<1>2. Entries(s) \subseteq LogEntries /\ <<>> \in Seq(LogEntries)
    BY <1>1, Elements, EmptySeq
<1>3. [open |-> TRUE, queue |-> <<>>] \in Channels
    BY <1>2 DEF Channels
<1> QED BY <1>1, <1>2, <1>3 DEF Open, LogTyped, Fresh, Unmoved

LEMMA SubscribeStep ==
    ASSUME LogTyped,
           \/ \E h \in General : SubscribeGeneral(h)
           \/ \E h \in DeploymentHandlers : SubscribeDeployment(h)
    PROVE  /\ LogTyped' /\ BuffersStay
           /\ \A c \in Handlers : Registered(c)' => Moves(c)
<1>1. ASSUME NEW h \in General, SubscribeGeneral(h)
      PROVE  /\ LogTyped' /\ BuffersStay
             /\ \A c \in Handlers : Registered(c)' => Moves(c)
    <2>1. h \in Handlers /\ Open(h, buffer)
        BY <1>1, OneKind DEF SubscribeGeneral
    <2>2. /\ chan' \in [Handlers -> Channels] /\ replay' \in [Handlers -> Seq(LogEntries)]
          /\ owed' \in [Handlers -> SUBSET LogEntries]
          /\ Fresh(h) /\ \A c \in Handlers \ {h} : Unmoved(c)
        BY <2>1, OpenStep
    <2>3. handler' \in [Handlers -> Requests]
          /\ \A g \in Handlers : handler'[g].stage = "streaming" => handler'[g].channel \in Handlers
        BY <1>1, <2>1 DEF SubscribeGeneral, Stream, LogTyped, Requests
    <2>4. LogTyped' /\ BuffersStay
        BY <1>1, <2>1, <2>2, <2>3 DEF SubscribeGeneral, LogTyped, BuffersStay
    <2>5. \A c \in Handlers \ {h} : Registered(c)' => Registered(c)
        BY <1>1 DEF SubscribeGeneral, Registered
    <2> QED BY <2>2, <2>4, <2>5 DEF Moves
<1>2. ASSUME NEW h \in DeploymentHandlers, SubscribeDeployment(h)
      PROVE  /\ LogTyped' /\ BuffersStay
             /\ \A c \in Handlers : Registered(c)' => Moves(c)
    <2> DEFINE d == DeploymentOf(h)
    <2>1. h \in Handlers /\ d \in Deployments /\ h \in Streams[d]
        BY OneKind
    <2>2. UNCHANGED <<published, final, buffer, deploymentBuffer, streams, crashed>>
        BY <1>2 DEF SubscribeDeployment
    <2>3. CASE deploymentStreams[d] # None
        <3>1. /\ handler' = [handler EXCEPT ![h] = Stream(deploymentStreams[d])]
              /\ UNCHANGED <<chan, replay, owed, deploymentStreams>>
            BY <1>2, <2>3 DEF SubscribeDeployment
        <3>2. deploymentStreams[d] \in Handlers
            BY <2>1, <2>3 DEF LogTyped
        <3>3. LogTyped' /\ BuffersStay
            BY <2>1, <2>2, <3>1, <3>2 DEF LogTyped, BuffersStay, Stream, Requests
        <3>4. \A c \in Handlers : Unmoved(c) /\ (Registered(c)' => Registered(c))
            BY <2>2, <3>1 DEF Unmoved, Registered
        <3> QED BY <3>3, <3>4 DEF Moves
    <2>4. CASE deploymentStreams[d] = None
        <3>1. /\ Open(h, deploymentBuffer[d])
              /\ deploymentStreams' = [deploymentStreams EXCEPT ![d] = h]
              /\ handler' = [handler EXCEPT ![h] = Stream(h)]
            BY <1>2, <2>4 DEF SubscribeDeployment
        <3>2. /\ chan' \in [Handlers -> Channels] /\ replay' \in [Handlers -> Seq(LogEntries)]
              /\ owed' \in [Handlers -> SUBSET LogEntries]
              /\ Fresh(h) /\ \A c \in Handlers \ {h} : Unmoved(c)
            BY <2>1, <3>1, OpenStep
        <3>3. LogTyped' /\ BuffersStay
            BY <2>1, <2>2, <3>1, <3>2 DEF LogTyped, BuffersStay, Stream, Requests
        <3>4. \A c \in Handlers \ {h} : Registered(c)' => Registered(c)
            BY <2>1, <2>2, <3>1 DEF Registered, LogTyped
        <3> QED BY <3>2, <3>3, <3>4 DEF Moves
    <2> QED BY <2>3, <2>4
<1> QED BY <1>1, <1>2

(* The goroutine of a channel: it moves an entry from the buffer's copy to *)
(* the channel, or takes the channel out of the broker.                    *)
LEMMA ReplayStep ==
    ASSUME LogTyped, ChannelsSound, NEW c \in Handlers, Replay(c) \/ GiveUp(c)
    PROVE  /\ LogTyped' /\ BuffersStay
           /\ \A k \in Handlers : Registered(k)' => Moves(k)
<1>1. CASE Replay(c)
    <2>1. /\ replay[c] # <<>>
          /\ UNCHANGED <<published, final, brokerVars, handler, owed>>
          /\ \A k \in Handlers : Registered(k)' => Registered(k)
        BY <1>1 DEF Replay, brokerVars, Registered
    <2>2. CASE chan[c].open
        <3>1. /\ chan' = [chan EXCEPT ![c].queue = Append(@, Head(replay[c]))]
              /\ replay' = [replay EXCEPT ![c] = Tail(@)]
            BY <1>1, <2>2 DEF Replay
        <3>2. /\ Append(chan[c].queue, Head(replay[c])) \in Seq(LogEntries)
              /\ Tail(replay[c]) \in Seq(LogEntries)
            BY <2>1, Appended, Removed DEF LogTyped, Channels
        <3>3. chan' \in [Handlers -> Channels] /\ replay' \in [Handlers -> Seq(LogEntries)]
            BY <3>1, <3>2 DEF LogTyped, Channels
        <3>4. LogTyped' /\ BuffersStay
            BY <2>1, <3>3 DEF LogTyped, BuffersStay, brokerVars
        <3>5. Replayed(c) /\ \A k \in Handlers \ {c} : Unmoved(k)
            BY <2>1, <3>1 DEF Replayed, Unmoved, LogTyped
        <3> QED BY <2>1, <3>4, <3>5 DEF Moves
    <2>3. CASE ~chan[c].open
        <3>1. UNCHANGED <<chan, replay>>
            BY <1>1, <2>3 DEF Replay
        <3> QED BY <2>1, <3>1 DEF LogTyped, BuffersStay, brokerVars, Moves, Unmoved
    <2> QED BY <2>2, <2>3
<1>2. CASE GiveUp(c)
    <2>1. /\ replay' = [replay EXCEPT ![c] = <<>>]
          /\ chan' = [chan EXCEPT ![c].open = ~Registered(c)]
          /\ streams' = streams \ {c}
          /\ deploymentBuffer' =
                 [d \in Deployments |-> IF deploymentStreams[d] = c THEN <<>> ELSE deploymentBuffer[d]]
          /\ deploymentStreams' =
                 [d \in Deployments |-> IF deploymentStreams[d] = c THEN None ELSE deploymentStreams[d]]
          /\ owed' = [owed EXCEPT ![c] = {}]
          /\ UNCHANGED <<published, final, buffer, handler, crashed>>
        BY <1>2 DEF GiveUp
    <2>2. <<>> \in Seq(LogEntries) /\ None \notin Handlers
        BY EmptySeq, OneKind
    <2>3. chan' \in [Handlers -> Channels]
        BY <2>1 DEF LogTyped, Channels, Registered
    <2>4. LogTyped' /\ BuffersStay
        BY <2>1, <2>2, <2>3 DEF LogTyped, BuffersStay
    <2>5. ~Registered(c)' /\ \A k \in Handlers : Registered(k)' => Registered(k)
        BY <2>1, <2>2 DEF Registered
    <2>6. \A k \in Handlers \ {c} : Unmoved(k)
        BY <2>1 DEF Unmoved, LogTyped
    <2> QED BY <2>4, <2>5, <2>6 DEF Moves
<1> QED BY <1>1, <1>2

(* What is received is owed no longer.                                     *)
LEMMA ReceiveStep ==
    ASSUME LogTyped, NEW h \in Handlers, Receive(h) \/ Disconnect(h)
    PROVE  /\ LogTyped' /\ BuffersStay
           /\ \A k \in Handlers : Registered(k)' => Moves(k)
<1> DEFINE c == handler[h].channel
<1>1. /\ c \in Handlers /\ handler[h].stage = "streaming"
      /\ UNCHANGED <<published, final, brokerVars, replay, crashed>>
      /\ handler' \in {handler, Return(h)}
      /\ \/ /\ chan[c].queue # <<>>
            /\ chan' = [chan EXCEPT ![c].queue = Tail(@)]
            /\ owed' = [owed EXCEPT ![c] = @ \ {Head(chan[c].queue)}]
         \/ UNCHANGED <<chan, owed>>
    BY DEF Receive, Disconnect, brokerVars, LogTyped
<1>2. \A k \in Handlers : Registered(k)' => Registered(k)
    BY <1>1 DEF brokerVars, Registered
<1>3. /\ handler' \in [Handlers -> Requests]
      /\ \A g \in Handlers : handler'[g].stage = "streaming" => handler'[g].channel \in Handlers
    <2>1. /\ Return(h) \in [Handlers -> Requests]
          /\ Return(h)[h].stage = "cleanup" /\ \A g \in Handlers \ {h} : Return(h)[g] = handler[g]
        BY DEF Return, LogTyped, Requests
    <2> QED BY <1>1, <2>1 DEF LogTyped
<1> HIDE DEF c
<1>4. CASE UNCHANGED <<chan, owed>>
    BY <1>1, <1>2, <1>3, <1>4 DEF LogTyped, BuffersStay, brokerVars, Moves, Unmoved
<1>5. CASE /\ chan[c].queue # <<>>
           /\ chan' = [chan EXCEPT ![c].queue = Tail(@)]
           /\ owed' = [owed EXCEPT ![c] = @ \ {Head(chan[c].queue)}]
    <2>1. Tail(chan[c].queue) \in Seq(LogEntries)
        BY <1>1, <1>5, Removed DEF LogTyped, Channels
    <2>2. chan' \in [Handlers -> Channels] /\ owed' \in [Handlers -> SUBSET LogEntries]
        BY <1>1, <1>5, <2>1 DEF LogTyped, Channels
    <2>3. LogTyped' /\ BuffersStay
        BY <1>1, <1>3, <2>2 DEF LogTyped, BuffersStay, brokerVars
    <2>4. Received(c) /\ \A k \in Handlers \ {c} : Unmoved(k)
        BY <1>1, <1>5 DEF Received, Unmoved, LogTyped
    <2> QED BY <1>2, <2>3, <2>4 DEF Moves
<1> QED BY <1>1, <1>4, <1>5

(* A handler that returns takes its channel, or its deployment's, out of   *)
(* the broker together with closing it.                                    *)
LEMMA UnsubscribeStep ==
    ASSUME LogTyped,
           \/ \E h \in General : UnsubscribeGeneral(h)
           \/ \E h \in DeploymentHandlers : UnsubscribeDeployment(h)
    PROVE  /\ LogTyped' /\ BuffersStay
           /\ \A k \in Handlers : Registered(k)' => Moves(k)
<1>1. PICK h \in Handlers : \/ h \in General /\ UnsubscribeGeneral(h)
                            \/ h \in DeploymentHandlers /\ UnsubscribeDeployment(h)
    BY OneKind
<1>2. /\ handler' = [handler EXCEPT ![h].stage = "done"]
      /\ UNCHANGED <<published, final, buffer, replay, crashed>>
    BY <1>1 DEF UnsubscribeGeneral, UnsubscribeDeployment
<1>3. /\ handler' \in [Handlers -> Requests]
      /\ \A g \in Handlers : handler'[g].stage = "streaming" => handler'[g].channel \in Handlers
    BY <1>2 DEF LogTyped, Requests
<1>4. \A c \in Handlers : Shut(c) \in Channels
    BY DEF Shut, LogTyped, Channels
<1>5. CASE h \in General /\ UnsubscribeGeneral(h)
    <2>1. /\ streams' = streams \ {h}
          /\ chan' = IF h \in streams THEN [chan EXCEPT ![h] = Shut(h)] ELSE chan
          /\ owed' = [owed EXCEPT ![h] = {}]
          /\ UNCHANGED <<deploymentBuffer, deploymentStreams>>
        BY <1>5 DEF UnsubscribeGeneral
    <2>2. LogTyped' /\ BuffersStay
        BY <1>2, <1>3, <1>4, <2>1 DEF LogTyped, BuffersStay
    <2>3. \A d \in Deployments : deploymentStreams[d] # h
        BY <1>5, OneKind DEF LogTyped
    <2>4. ~Registered(h)' /\ \A k \in Handlers : Registered(k)' => Registered(k)
        BY <2>1, <2>3 DEF Registered
    <2>5. \A k \in Handlers \ {h} : Unmoved(k)
        BY <1>2, <2>1 DEF Unmoved, LogTyped
    <2> QED BY <2>2, <2>4, <2>5 DEF Moves
<1>6. CASE h \in DeploymentHandlers /\ UnsubscribeDeployment(h)
    <2> DEFINE d == DeploymentOf(h)
               c == deploymentStreams[d]
    <2>1. d \in Deployments
        BY <1>6, OneKind
    <2>2. /\ chan' = IF c = None THEN chan ELSE [chan EXCEPT ![c] = Shut(c)]
          /\ deploymentStreams' = [deploymentStreams EXCEPT ![d] = None]
          /\ deploymentBuffer' = [deploymentBuffer EXCEPT ![d] = <<>>]
          /\ owed' = [k \in Handlers |-> IF k = c THEN {} ELSE owed[k]]
          /\ streams' = streams
        BY <1>6 DEF UnsubscribeDeployment
    <2>3. <<>> \in Seq(LogEntries)
        BY EmptySeq
    <2>4. /\ c \in Streams[d] \cup {None} /\ None \notin Handlers
          /\ c # None => c \in Handlers /\ c \notin General
        BY <2>1, OneKind DEF LogTyped
    <2>5. \A x \in Deployments \ {d} : c # None => deploymentStreams[x] # c
        BY <2>1, <2>4, OneKind DEF LogTyped
    <2> HIDE DEF d, c
    <2>6. chan' \in [Handlers -> Channels] /\ owed' \in [Handlers -> SUBSET LogEntries]
        BY <1>4, <2>2 DEF LogTyped
    <2>7. LogTyped' /\ BuffersStay
        BY <1>2, <1>3, <2>1, <2>2, <2>3, <2>6 DEF LogTyped, BuffersStay
    <2>8. \A k \in Handlers : Registered(k)' => Registered(k) /\ k # c
        BY <2>1, <2>2, <2>4, <2>5 DEF Registered, LogTyped
    <2>9. \A k \in Handlers : k # c => Unmoved(k)
        BY <1>2, <2>2 DEF Unmoved, LogTyped
    <2> QED BY <2>7, <2>8, <2>9 DEF Moves
<1> QED BY <1>1, <1>5, <1>6

------------------------------------------------------------------------------
LEMMA InitLogs == LogInit => LogIInv
<1> SUFFICES ASSUME LogInit PROVE LogIInv
    OBVIOUS
<1>1. /\ <<>> \in Seq(LogEntries) /\ Entries(<<>>) = {} /\ Distinct(<<>>)
    BY EmptySeq, Elements
<1>2. LogTyped
    BY <1>1 DEF LogInit, LogTyped, NoChannel, Channels, Requests
<1>3. BuffersGood
    BY <1>1 DEF LogInit, BuffersGood, Good
<1>4. ChannelsSound
    BY OneKind DEF LogInit, ChannelsSound, Registered
<1> QED BY <1>2, <1>3, <1>4 DEF LogIInv

LEMMA StepLogs == LogIInv /\ [LogNext]_logVars => LogIInv'
<1> SUFFICES ASSUME LogIInv, [LogNext]_logVars PROVE LogIInv'
    OBVIOUS
<1> USE DEF LogIInv
<1>1. CASE UNCHANGED logVars
    BY <1>1 DEF logVars, brokerVars, LogTyped, BuffersGood, ChannelsSound, Sound, SoFar,
                Registered, Good
<1>2. ASSUME LogTyped', BuffersStay, \A c \in Handlers : Registered(c)' => Moves(c)
      PROVE  LogIInv'
    <2>1. BuffersGood'
        <3>1. SoFar' = SoFar /\ Good(<<>>, SoFar)
            BY <1>2, Elements, EmptySeq DEF BuffersStay, SoFar, Good
        <3> QED BY <1>2, <3>1 DEF BuffersGood, BuffersStay
    <2>2. ChannelsSound'
        BY <1>2, MovesSound DEF ChannelsSound, BuffersStay
    <2> QED BY <1>2, <2>1, <2>2
<1>3. ASSUME NEW d \in Deployments \cup {None}, NEW last \in BOOLEAN, Publish(d, last)
      PROVE  LogIInv'
    <2>1. /\ LogTyped' /\ published' = published + 1
          /\ \A c \in Handlers : Registered(c)' => Moves(c)
        BY <1>3, PublishStep
    <2>2. PICK e \in LogEntries :
              /\ e.number = published + 1
              /\ buffer' = Keep(buffer, e)
              /\ \A x \in Deployments :
                    deploymentBuffer'[x]
                      \in {<<>>, deploymentBuffer[x], Keep(deploymentBuffer[x], e)}
        BY <1>3, PublishStep
    <2>3. /\ published \in Nat /\ buffer \in Seq(LogEntries)
          /\ \A x \in Deployments : deploymentBuffer[x] \in Seq(LogEntries)
        BY DEF LogTyped
    <2>4. e \notin SoFar /\ e \in SoFar' /\ SoFar \subseteq SoFar'
        BY <2>1, <2>2, <2>3 DEF SoFar, LogEntries
    <2>5. ASSUME NEW s \in Seq(LogEntries), Good(s, SoFar)
          PROVE  Good(s, SoFar') /\ Good(Keep(s, e), SoFar') /\ Good(<<>>, SoFar')
        BY <2>4, <2>5, Kept, Elements DEF Good
    <2>6. Good(buffer', SoFar')
        BY <2>2, <2>3, <2>5 DEF BuffersGood
    <2>7. ASSUME NEW x \in Deployments PROVE Good(deploymentBuffer'[x], SoFar')
        BY <2>2, <2>3, <2>5 DEF BuffersGood
    <2>8. BuffersGood'
        BY <2>6, <2>7 DEF BuffersGood
    <2>9. ChannelsSound'
        BY <2>1, MovesSound DEF ChannelsSound
    <2> QED BY <2>1, <2>8, <2>9
<1>4. CASE PublishEntry
    BY <1>3, <1>4 DEF PublishEntry
<1>5. CASE LogNext /\ ~PublishEntry
    BY <1>2, <1>5, SubscribeStep, ReplayStep, ReceiveStep, UnsubscribeStep, OneKind DEF LogNext
<1> QED BY <1>1, <1>4, <1>5

(* While a subscriber is registered its stream has no gap, whatever is     *)
(* published, replayed, received and closed in between (Publish,           *)
(* SubscribeGeneral, SubscribeDeployment).                                 *)
THEOREM StreamsHaveNoGap == LogSpec => []NoEntryLost
<1>1. LogIInv => NoEntryLost
    BY DEF LogIInv, ChannelsSound, Sound, NoEntryLost
<1> QED BY <1>1, InitLogs, StepLogs, PTL DEF LogSpec

(* Publish sends on open channels only: of all sends on a channel only     *)
(* those of the replay goroutine may panic (Publish, publishToDeployment). *)
THEOREM PublishNeverPanics ==
    LogSpec => [](\A c \in Handlers : Registered(c) => chan[c].open)
<1>1. LogIInv => \A c \in Handlers : Registered(c) => chan[c].open
    BY DEF LogIInv, ChannelsSound, Sound
<1> QED BY <1>1, InitLogs, StepLogs, PTL DEF LogSpec

=============================================================================
