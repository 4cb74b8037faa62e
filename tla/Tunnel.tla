------------------------------- MODULE Tunnel -------------------------------
(***************************************************************************)
(* TCP tunnels from a local application to a container: the CLI's listener *)
(* and relay (internal/haloy/tunnel.go), haloyd's handler with its limits  *)
(* and the tracker of hijacked connections (internal/api/                  *)
(* handlers_tunnel.go, tunnel_manager.go), and the shutdown of both        *)
(* (internal/api/server.go).                                               *)
(*                                                                         *)
(* A tunnel is three connections in a row: from the application to the     *)
(* CLI, from the CLI to haloyd, and from haloyd to the container.  Each of *)
(* the two relays has a copier in either direction.  What is modelled of   *)
(* the bytes is their end: a side that finishes writing, a side that       *)
(* closes, and that a copier which writes to a closed side notices it with *)
(* the next bytes, if there are any.  Unless the CLI talks to haloyd       *)
(* directly, haloy-proxy lies between them; its standard reverse proxy     *)
(* passes on the end of the CLI's bytes, and closes both connections at    *)
(* the end of haloyd's.                                                    *)
(***************************************************************************)
EXTENDS Integers, FiniteSets

CONSTANTS
    Tunnels,   (* Local connections, all of one CLI.                       *)
    LocalSlots,(* maxLocalTunnelConnections                                *)
    MaxOpen    (* TunnelPolicy: of one client, and in total.               *)

ASSUME TunnelsAssumption == IsFiniteSet(Tunnels)
ASSUME LimitsAssumption == LocalSlots \in Nat \ {0} /\ MaxOpen \in Nat \ {0}

VARIABLES
    tls,       (* The CLI reaches haloyd through haloy-proxy and TLS.      *)
    command,   (* The CLI: "running", "cancelled" or "ended".              *)
    slots,     (* The channel of slots, by its length.                     *)
    app,       (* app[t]: the application's side.                          *)
    cli,       (* cli[t]: the CLI's goroutine for the connection.          *)
    cliDone,   (* cliDone[t]: directions whose copier has ended in the CLI.*)
    open,      (* tunnelCapacity.total, and byClient of the one client.    *)
    srv,       (* srv[t]: haloyd's handler.                                *)
    srvDone,   (* srvDone[t]: directions whose copier has ended in haloyd. *)
    cont,      (* cont[t]: the container's side.                           *)
    tracked,   (* connectionTracker.conns, by tunnel.                      *)
    forced,    (* Tunnels whose connections shutdown has closed.           *)
    server     (* haloyd's API server: "running" and the steps of Shutdown.*)

cliVars == <<command, slots, cli, cliDone>>
srvVars == <<open, srv, srvDone, tracked, forced, server>>
vars == <<tls, cliVars, app, srvVars, cont>>

Up == "up"       (* Towards the container.                                 *)
Down == "down"

Directions == {Up, Down}

Active == {"resolve", "dialled", "hijacked", "tracked", "relay", "untracked"}

TypeOK ==
    /\ tls \in BOOLEAN
    /\ command \in {"running", "cancelled", "ended"}
    /\ app \in [Tunnels -> {"none", "open", "finished", "closed"}]
    /\ cli \in [Tunnels -> {"none", "dial", "sent", "relay", "closed"}]
    /\ srv \in [Tunnels -> Active \cup {"none", "closed"}]
    /\ cont \in [Tunnels -> {"none", "open", "finished", "closed"}]
    /\ cliDone \in [Tunnels -> SUBSET Directions]
    /\ srvDone \in [Tunnels -> SUBSET Directions]
    /\ slots = Cardinality({t \in Tunnels : cli[t] \in {"dial", "sent", "relay"}})
    /\ slots <= LocalSlots
    /\ open = Cardinality({t \in Tunnels : srv[t] \in Active}) /\ open <= MaxOpen
    /\ tracked = {t \in Tunnels : srv[t] \in {"tracked", "relay"}}
    /\ forced \subseteq Tunnels
    /\ server \in {"running", "http", "waiting", "forcing", "stopped"}

(***************************************************************************)
(* The application and the container                                       *)
(***************************************************************************)

(* Finishing is shutdown(SHUT_WR): the side still reads.                   *)
EndApp(t) ==
    /\ app[t] \in {"open", "finished"} /\ cli[t] /= "none"
    /\ \E end \in {"finished", "closed"} \ {app[t]} : app' = [app EXCEPT ![t] = end]
    /\ UNCHANGED <<tls, cliVars, srvVars, cont>>

EndContainer(t) ==
    /\ cont[t] \in {"open", "finished"}
    /\ \E end \in {"finished", "closed"} \ {cont[t]} : cont' = [cont EXCEPT ![t] = end]
    /\ UNCHANGED <<tls, cliVars, app, srvVars>>

(***************************************************************************)
(* The CLI                                                                 *)
(***************************************************************************)

(* The accepted connection takes a slot, or is closed at once.             *)
Accept(t) ==
    /\ command = "running" /\ app[t] = "none"
    /\ IF slots < LocalSlots
       THEN /\ slots' = slots + 1
            /\ cli' = [cli EXCEPT ![t] = "dial"]
            /\ app' = [app EXCEPT ![t] = "open"]
       ELSE app' = [app EXCEPT ![t] = "closed"] /\ UNCHANGED <<slots, cli>>
    /\ UNCHANGED <<tls, command, cliDone, srvVars, cont>>

(* The goroutine returns: connections are closed and the slot is given     *)
(* back.                                                                   *)
CloseLocal(t) ==
    /\ cli' = [cli EXCEPT ![t] = "closed"]
    /\ app' = [app EXCEPT ![t] = "closed"]
    /\ slots' = slots - 1

(* dialTunnel: the request is on its way to haloyd.                        *)
SendRequest(t) ==
    /\ cli[t] = "dial" /\ command = "running" /\ server = "running"
    /\ cli' = [cli EXCEPT ![t] = "sent"]
    /\ UNCHANGED <<tls, command, slots, cliDone, app, srvVars, cont>>

(* The answer 101 arrives before the deadline of the handshake.            *)
ReadUpgrade(t) ==
    /\ cli[t] = "sent" /\ command = "running" /\ srv[t] = "relay"
    /\ cli' = [cli EXCEPT ![t] = "relay"]
    /\ UNCHANGED <<tls, command, slots, cliDone, app, srvVars, cont>>

(* No connection, another answer, the deadline, or Ctrl+C.                 *)
FailToDial(t) ==
    /\ cli[t] \in {"dial", "sent"}
    /\ CloseLocal(t)
    /\ UNCHANGED <<tls, command, cliDone, srvVars, cont>>

(* The far side of the CLI's connection to haloyd has ended.               *)
LinkEnded(t) == Down \in srvDone[t] \/ srv[t] = "closed"

CliCopierEnds(t, dir) ==
    /\ cli[t] = "relay" /\ dir \notin cliDone[t]
    /\ cliDone' = [cliDone EXCEPT ![t] = @ \cup {dir}]
    /\ UNCHANGED <<tls, command, slots, cli, app, srvVars, cont>>

(* The reader sees the end.                                                *)
CliReadsEnd(t) ==
    \/ app[t] \in {"finished", "closed"} /\ CliCopierEnds(t, Up)
    \/ LinkEnded(t) /\ CliCopierEnds(t, Down)

(* Bytes for a side that has closed.                                       *)
CliWriteFails(t) ==
    \/ srv[t] = "closed" /\ CliCopierEnds(t, Up)
    \/ app[t] = "closed" /\ CliCopierEnds(t, Down)

EndRelay(t) ==
    /\ cli[t] = "relay" /\ cliDone[t] = Directions
    /\ CloseLocal(t)
    /\ UNCHANGED <<tls, command, cliDone, srvVars, cont>>

(* Ctrl+C: the listener and all connections are closed.                    *)
Cancel ==
    /\ command = "running"
    /\ command' = "cancelled"
    /\ cliDone' = [t \in Tunnels |-> IF cli[t] = "relay" THEN Directions ELSE cliDone[t]]
    /\ UNCHANGED <<tls, slots, cli, app, srvVars, cont>>

(* handlers.Wait()                                                         *)
EndCommand ==
    /\ command = "cancelled" /\ slots = 0
    /\ command' = "ended"
    /\ UNCHANGED <<tls, slots, cli, cliDone, app, srvVars, cont>>

(***************************************************************************)
(* haloyd                                                                  *)
(***************************************************************************)

(* The application's bytes have ended as haloyd's side of the connection   *)
(* from the CLI sees it.  *tls.Conn is no *net.TCPConn, so that the CLI    *)
(* passes on an end by itself only without TLS.                            *)
(* Mutant: nor without.                                                    *)
PassedOnNever(t) ==
    \/ cli[t] = "closed"
    \/ tls /\ Down \in srvDone[t]

PassedOn(t) ==
    \/ cli[t] = "closed"
    \/ ~tls /\ Up \in cliDone[t]
    \/ tls /\ Down \in srvDone[t]

Goto(t, state) == srv' = [srv EXCEPT ![t] = state]

(* The request has passed the checks of its form.                          *)
AcquireTunnel(t) ==
    /\ cli[t] = "sent" /\ srv[t] = "none" /\ server \in {"running", "http"}
    /\ IF open < MaxOpen
       THEN open' = open + 1 /\ Goto(t, "resolve")
       ELSE Goto(t, "closed") /\ UNCHANGED open
    /\ UNCHANGED <<tls, cliVars, app, srvDone, tracked, forced, server, cont>>

(* Mutant: a refused tunnel keeps its share of the capacity.               *)
RefuseKeeping(t) ==
    /\ srv[t] \in {"resolve", "dialled"}
    /\ Goto(t, "closed")
    /\ cont' = [cont EXCEPT ![t] = IF @ = "none" THEN "none" ELSE "closed"]
    /\ UNCHANGED <<tls, cliVars, app, open, srvDone, tracked, forced, server>>

(* No such container, no such port, no connection; or the request's        *)
(* context is gone.                                                        *)
RefuseTunnel(t) ==
    /\ srv[t] \in {"resolve", "dialled"}
    /\ Goto(t, "closed")
    /\ open' = open - 1
    /\ cont' = [cont EXCEPT ![t] = IF @ = "none" THEN "none" ELSE "closed"]
    /\ UNCHANGED <<tls, cliVars, app, srvDone, tracked, forced, server>>

DialContainer(t) ==
    /\ srv[t] = "resolve"
    /\ Goto(t, "dialled")
    /\ cont' = [cont EXCEPT ![t] = "open"]
    /\ UNCHANGED <<tls, cliVars, app, open, srvDone, tracked, forced, server>>

(* From here http.Server.Shutdown does not wait for the connection.        *)
Hijack(t) ==
    /\ srv[t] = "dialled"
    /\ Goto(t, "hijacked")
    /\ UNCHANGED <<tls, cliVars, app, open, srvDone, tracked, forced, server, cont>>

(* Mutant: tunnels are tracked during the shutdown, too.                   *)
AdmitsAlways == TRUE

(* connectionTracker.track: not once shutdown has begun.                   *)
Admits == server \in {"running", "http"}

Track(t) ==
    /\ srv[t] = "hijacked"
    /\ IF Admits
       THEN /\ Goto(t, "tracked")
            /\ tracked' = tracked \cup {t}
       ELSE Goto(t, "untracked") /\ UNCHANGED tracked
    /\ UNCHANGED <<tls, cliVars, app, open, srvDone, forced, server, cont>>

(* The answer 101 is written, or cannot be.                                *)
AnswerUpgrade(t) ==
    /\ srv[t] = "tracked"
    /\ \/ t \notin forced /\ Goto(t, "relay") /\ UNCHANGED tracked
       \/ /\ t \in forced \/ cli[t] = "closed"
          /\ Goto(t, "untracked") /\ tracked' = tracked \ {t}
    /\ UNCHANGED <<tls, cliVars, app, open, srvDone, forced, server, cont>>

SrvCopierEnds(t, dir) ==
    /\ srv[t] = "relay" /\ dir \notin srvDone[t]
    /\ srvDone' = [srvDone EXCEPT ![t] = @ \cup {dir}]
    /\ UNCHANGED <<tls, cliVars, app, open, srv, tracked, forced, server, cont>>

SrvReadsEnd(t) ==
    \/ (PassedOn(t) \/ t \in forced) /\ SrvCopierEnds(t, Up)
    \/ (cont[t] \in {"finished", "closed"} \/ t \in forced) /\ SrvCopierEnds(t, Down)

SrvWriteFails(t) ==
    \/ cont[t] = "closed" /\ SrvCopierEnds(t, Up)
    \/ cli[t] = "closed" /\ SrvCopierEnds(t, Down)

Untrack(t) ==
    /\ srv[t] = "relay" /\ srvDone[t] = Directions
    /\ Goto(t, "untracked")
    /\ tracked' = tracked \ {t}
    /\ UNCHANGED <<tls, cliVars, app, open, srvDone, forced, server, cont>>

(* The handler returns: both connections, then the capacity.               *)
CloseTunnel(t) ==
    /\ srv[t] = "untracked"
    /\ Goto(t, "closed")
    /\ cont' = [cont EXCEPT ![t] = "closed"]
    /\ open' = open - 1
    /\ UNCHANGED <<tls, cliVars, app, srvDone, tracked, forced, server>>

(***************************************************************************)
(* Shutdown                                                                *)
(***************************************************************************)

Advance(from, to) ==
    /\ server = from /\ server' = to
    /\ UNCHANGED <<tls, cliVars, app, open, srv, srvDone, tracked, cont>>

BeginShutdown == Advance("running", "http") /\ UNCHANGED forced

(* http.Server.Shutdown waits for handlers whose connection it knows, or   *)
(* for the deadline; connectionTracker.shutdown then raises its flag.      *)
WaitForHandlers ==
    /\ \A t \in Tunnels : srv[t] \notin {"resolve", "dialled"}
    /\ Advance("http", "waiting") /\ UNCHANGED forced

(* At the deadline the tracker closes what is open, and waits on.          *)
Deadline ==
    \/ Advance("http", "waiting") /\ UNCHANGED forced
    \/ Advance("waiting", "forcing") /\ forced' = tracked

EndShutdown ==
    /\ server \in {"waiting", "forcing"} /\ tracked = {}
    /\ Advance(server, "stopped") /\ UNCHANGED forced

(***************************************************************************)
(* The specification                                                       *)
(***************************************************************************)

Init ==
    /\ tls \in BOOLEAN
    /\ command = "running" /\ slots = 0 /\ open = 0
    /\ app = [t \in Tunnels |-> "none"] /\ cont = app
    /\ cli = app /\ srv = app
    /\ cliDone = [t \in Tunnels |-> {}] /\ srvDone = cliDone
    /\ tracked = {} /\ forced = {}
    /\ server = "running"

Next ==
    \/ \E t \in Tunnels : EndApp(t)
    \/ \E t \in Tunnels : EndContainer(t)
    \/ \E t \in Tunnels : Accept(t)
    \/ \E t \in Tunnels : SendRequest(t)
    \/ \E t \in Tunnels : ReadUpgrade(t)
    \/ \E t \in Tunnels : FailToDial(t)
    \/ \E t \in Tunnels : CliReadsEnd(t)
    \/ \E t \in Tunnels : CliWriteFails(t)
    \/ \E t \in Tunnels : EndRelay(t)
    \/ Cancel
    \/ EndCommand
    \/ \E t \in Tunnels : AcquireTunnel(t)
    \/ \E t \in Tunnels : RefuseTunnel(t)
    \/ \E t \in Tunnels : DialContainer(t)
    \/ \E t \in Tunnels : Hijack(t)
    \/ \E t \in Tunnels : Track(t)
    \/ \E t \in Tunnels : AnswerUpgrade(t)
    \/ \E t \in Tunnels : SrvReadsEnd(t)
    \/ \E t \in Tunnels : SrvWriteFails(t)
    \/ \E t \in Tunnels : Untrack(t)
    \/ \E t \in Tunnels : CloseTunnel(t)
    \/ BeginShutdown
    \/ WaitForHandlers
    \/ Deadline
    \/ EndShutdown

Spec == Init /\ [][Next]_vars

CliStep(t) ==
    \/ SendRequest(t) \/ ReadUpgrade(t) \/ FailToDial(t)
    \/ CliReadsEnd(t) \/ EndRelay(t)

SrvStep(t) ==
    \/ AcquireTunnel(t) \/ RefuseTunnel(t) \/ DialContainer(t)
    \/ Hijack(t) \/ Track(t) \/ AnswerUpgrade(t)
    \/ SrvReadsEnd(t) \/ Untrack(t) \/ CloseTunnel(t)

(* Goroutines run, the handshake and the shutdown have deadlines.  Nothing *)
(* is fair about what the application and the container do, nor about      *)
(* bytes that would make a copier notice that its destination has closed.  *)
FairSpec ==
    /\ Spec
    /\ \A t \in Tunnels : WF_vars(CliStep(t)) /\ WF_vars(SrvStep(t))
    /\ WF_vars(WaitForHandlers \/ Deadline \/ EndShutdown)

(***************************************************************************)
(* Properties                                                              *)
(***************************************************************************)

Ended(side) == side \in {"finished", "closed"}

(* The end of either side's bytes travels through the relays, whatever is  *)
(* refused, cancelled or shut down meanwhile; and when both sides have     *)
(* closed, the CLI's slot and haloyd's capacity are given back.  (Through  *)
(* TLS the application's end does not travel: see README.)                 *)
EndsArrive ==
    []<>(\A t \in Tunnels :
            /\ Ended(app[t]) /\ cli[t] = "relay" /\ ~tls
                  => Up \in srvDone[t] \/ srv[t] = "closed"
            /\ Ended(cont[t]) /\ srv[t] = "relay"
                  => Down \in cliDone[t] \/ cli[t] = "closed"
            /\ app[t] = "closed" /\ cont[t] = "closed"
                  => cli[t] = "closed" /\ srv[t] = "closed")

(* Shutdown returns, within its deadlines, when no hijacked tunnel relays  *)
(* any more, and none starts to afterwards, the handler that has hijacked  *)
(* its connection and not yet registered it included (Shutdown: "drains    *)
(* active hijacked tunnels").                                              *)
ShutdownDrains == server = "http" ~> [](server = "stopped" /\ tracked = {})
=============================================================================
