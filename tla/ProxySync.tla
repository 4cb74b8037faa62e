------------------------------ MODULE ProxySync ------------------------------
(***************************************************************************)
(* How a routing snapshot travels from haloyd to haloy-proxy.              *)
(*                                                                         *)
(* haloyd side (internal/proxyclient): Push validates a snapshot, takes    *)
(* the client's mutex, replaces the snapshot file, remembers the snapshot  *)
(* in Client.last and PUTs it to the control socket.  A reconcile loop     *)
(* compares the proxy's config hash with Client.last and PUTs it again.    *)
(*                                                                         *)
(* Proxy side (internal/haloyproxy): boots from the snapshot file, then    *)
(* opens the control socket; each PUT runs in a handler of its own.        *)
(*                                                                         *)
(* Either process may crash and restart between any two steps, a request   *)
(* may outlive the client that gave up waiting for it, and the two builds  *)
(* may differ in the newest snapshot schema they understand.               *)
(***************************************************************************)

CONSTANTS
    Snapshots,   (* Routing snapshots, up to equal content hashes.         *)
    NoSnapshot,  (* No snapshot: nothing pushed, or empty routes.          *)
    Seed,        (* The API-domain-only snapshot haloyd pushes on startup. *)
    Valid,       (* The snapshots haloyd's own validation accepts.         *)
    Accepted,    (* The snapshots the proxy's validation accepts.          *)
    Main,        (* The goroutine that starts up and then runs updates.    *)
    Monitor,     (* The health monitor's goroutine.                        *)
    Reconciler,  (* The reconcile loop.                                    *)
    Nobody,      (* The mutex is free, or a request has no waiting client. *)
    Handlers     (* Slots for requests in progress inside the proxy.       *)

Pushers == {Main, Monitor}
Clients == Pushers \cup {Reconciler}

ASSUME SnapshotsAssumption ==
    /\ NoSnapshot \notin Snapshots
    /\ Seed \in Valid
    /\ Valid \subseteq Snapshots
    /\ Accepted \subseteq Valid

ASSUME ClientsAssumption ==
    /\ Nobody \notin Clients
    /\ Reconciler \notin Pushers

VARIABLES
    haloyd,      (* "down", "seeding" (startup push pending) or "up".      *)
    last,        (* Client.last                                            *)
    mu,          (* The client holding Client.mu, or Nobody.               *)
    call,        (* call[c]: where c is in Push or reconcile, and with     *)
                 (* which snapshot.                                        *)
    lastIsRead,  (* reconcile's pointer test: no Push has replaced         *)
                 (* Client.last since reconcile read it.                   *)
    file,        (* The snapshot file.                                     *)
    proxy,       (* "down", "booting" (no control socket yet) or "up".     *)
    applied,     (* The routes the proxy serves (Proxy.config).            *)
    configHash,  (* controlServer.configHash; a snapshot stands for its    *)
                 (* own hash.                                              *)
    loadedFrom,  (* controlServer.loadedFrom                               *)
    handler,     (* handler[h]: a PUT the proxy has received.              *)
    published    (* History: every snapshot the file has ever held.        *)

haloydVars == <<haloyd, last, mu, call, lastIsRead>>
proxyVars  == <<proxy, applied, configHash, loadedFrom, handler>>
vars == <<haloydVars, proxyVars, file, published>>

Idle == [pc |-> "idle", snap |-> NoSnapshot]
Free == [snap |-> NoSnapshot, client |-> Nobody]

(* "read" .. "status": reconcile; "wait": about to lock; "put": holds the  *)
(* mutex, about to send; "sent": holds the mutex, waiting for the answer.  *)
Calls == {Idle} \cup [pc : {"status", "wait", "put", "sent"}, snap : Snapshots]
Requests == {Free} \cup [snap : Snapshots, client : Clients \cup {Nobody}]

TypeOK ==
    /\ haloyd \in {"down", "seeding", "up"}
    /\ last \in Snapshots \cup {NoSnapshot}
    /\ mu \in Clients \cup {Nobody}
    /\ call \in [Clients -> Calls]
    /\ lastIsRead \in BOOLEAN
    /\ file \in Snapshots \cup {NoSnapshot}
    /\ proxy \in {"down", "booting", "up"}
    /\ applied \in Snapshots \cup {NoSnapshot}
    /\ configHash \in Snapshots \cup {NoSnapshot}
    /\ loadedFrom \in {"empty", "snapshot-file", "socket"}
    /\ handler \in [Handlers -> Requests]
    /\ published \subseteq Snapshots

Init ==
    /\ haloyd = "down"
    /\ last = NoSnapshot
    /\ mu = Nobody
    /\ call = [c \in Clients |-> Idle]
    /\ lastIsRead = FALSE
    /\ file = NoSnapshot
    /\ proxy = "down"
    /\ applied = NoSnapshot
    /\ configHash = NoSnapshot
    /\ loadedFrom = "empty"
    /\ handler = [h \in Handlers |-> Free]
    /\ published = {}

------------------------------------------------------------------------------
(* haloyd                                                                  *)

Goto(c, pc) == call' = [call EXCEPT ![c].pc = pc]

(* The deferred mu.Unlock of a Push or reconcile that returns.             *)
ReturnFrom(c) ==
    /\ call' = [call EXCEPT ![c] = Idle]
    /\ mu' = IF mu = c THEN Nobody ELSE mu

(* Mutant: Push without the validation.                                    *)
BeginPushUnvalidated(p, s) ==
    /\ haloyd = "up"
    /\ call[p].pc = "idle"
    /\ call' = [call EXCEPT ![p] = [pc |-> "wait", snap |-> s]]
    /\ UNCHANGED <<haloyd, last, mu, lastIsRead, proxyVars, file, published>>

(* Push has validated s (outside the mutex); an invalid s returns an error *)
(* with no effect.                                                         *)
BeginPush(p, s) ==
    /\ haloyd = "up"
    /\ call[p].pc = "idle"
    /\ s \in Valid
    /\ call' = [call EXCEPT ![p] = [pc |-> "wait", snap |-> s]]
    /\ UNCHANGED <<haloyd, last, mu, lastIsRead, proxyVars, file, published>>

(* Mutant: the snapshot is remembered and sent, but not saved.             *)
PersistUnsaved(p) ==
    /\ call[p].pc = "wait"
    /\ mu = Nobody
    /\ mu' = p
    /\ last' = call[p].snap
    /\ lastIsRead' = FALSE
    /\ Goto(p, "put")
    /\ UNCHANGED <<haloyd, proxyVars, file, published>>

(* Mutant: the file is overwritten in place and may be left half-written.  *)
PersistInPlace(p) ==
    /\ call[p].pc = "wait"
    /\ mu = Nobody
    /\ mu' = p
    /\ file' \in {call[p].snap, NoSnapshot}
    /\ published' = published \cup {call[p].snap}
    /\ last' = call[p].snap
    /\ lastIsRead' = FALSE
    /\ Goto(p, "put")
    /\ UNCHANGED <<haloyd, proxyVars>>

(* Push locks the mutex, renames the new file into place and remembers the *)
(* snapshot.                                                               *)
Persist(p) ==
    /\ call[p].pc = "wait"
    /\ mu = Nobody
    /\ mu' = p
    /\ file' = call[p].snap
    /\ published' = published \cup {call[p].snap}
    /\ last' = call[p].snap
    /\ lastIsRead' = FALSE
    /\ Goto(p, "put")
    /\ UNCHANGED <<haloyd, proxyVars>>

(* The directory or the file cannot be written: Push returns the error.    *)
PersistFails(p) ==
    /\ call[p].pc = "wait"
    /\ mu = Nobody
    /\ ReturnFrom(p)
    /\ UNCHANGED <<haloyd, last, lastIsRead, proxyVars, file, published>>

(* pushLocked: the request reaches a handler of the proxy...               *)
Send(c, h) ==
    /\ call[c].pc = "put"
    /\ proxy = "up"
    /\ handler[h] = Free
    /\ handler' = [handler EXCEPT ![h] = [snap |-> call[c].snap, client |-> c]]
    /\ Goto(c, "sent")
    /\ UNCHANGED <<haloyd, last, mu, lastIsRead, file, published,
                   proxy, applied, configHash, loadedFrom>>

(* Mutant: an error return that forgets the mutex.                         *)
SendFailsLocked(c) ==
    /\ call[c].pc = "put"
    /\ proxy # "up"
    /\ call' = [call EXCEPT ![c] = Idle]
    /\ UNCHANGED <<haloyd, last, mu, lastIsRead, proxyVars, file, published>>

(* ... or the control socket is not there, which is ErrUnreachable.        *)
SendFails(c) ==
    /\ call[c].pc = "put"
    /\ proxy # "up"
    /\ ReturnFrom(c)
    /\ UNCHANGED <<haloyd, last, lastIsRead, proxyVars, file, published>>

(* The client's deadline passes.  Its handler in the proxy keeps running.  *)
TimeOut(c) ==
    /\ call[c].pc = "sent"
    /\ ReturnFrom(c)
    /\ handler' = [h \in Handlers |-> IF handler[h].client = c
                                      THEN [handler[h] EXCEPT !.client = Nobody]
                                      ELSE handler[h]]
    /\ UNCHANGED <<haloyd, last, lastIsRead, file, published,
                   proxy, applied, configHash, loadedFrom>>

(* Mutant: no test for "nothing pushed yet".                               *)
ReconcileReadNothing ==
    /\ haloyd # "down"
    /\ call[Reconciler].pc = "idle"
    /\ mu = Nobody
    /\ call' = [call EXCEPT ![Reconciler] = [pc |-> "status", snap |-> last]]
    /\ lastIsRead' = TRUE
    /\ UNCHANGED <<haloyd, last, mu, proxyVars, file, published>>

(* A tick of the reconcile loop reads Client.last under the mutex.         *)
ReconcileRead ==
    /\ haloyd # "down"
    /\ call[Reconciler].pc = "idle"
    /\ mu = Nobody
    /\ last # NoSnapshot
    /\ call' = [call EXCEPT ![Reconciler] = [pc |-> "status", snap |-> last]]
    /\ lastIsRead' = TRUE
    /\ UNCHANGED <<haloyd, last, mu, proxyVars, file, published>>

(* Mutant: only a proxy that came up with nothing is sent its config.      *)
ReconcileStatusEmptyOnly ==
    /\ call[Reconciler].pc = "status"
    /\ IF proxy = "up" /\ loadedFrom = "empty"
       THEN Goto(Reconciler, "wait") /\ UNCHANGED mu
       ELSE ReturnFrom(Reconciler)
    /\ UNCHANGED <<haloyd, last, lastIsRead, proxyVars, file, published>>

(* It asks for the proxy's status: unreachable or in sync ends the tick.   *)
ReconcileStatus ==
    /\ call[Reconciler].pc = "status"
    /\ IF proxy = "up" /\ configHash # call[Reconciler].snap
       THEN Goto(Reconciler, "wait") /\ UNCHANGED mu
       ELSE ReturnFrom(Reconciler)
    /\ UNCHANGED <<haloyd, last, lastIsRead, proxyVars, file, published>>

(* Mutant: it does not look again after it has locked again.               *)
ReconcileLockUnchecked ==
    /\ call[Reconciler].pc = "wait"
    /\ mu = Nobody
    /\ mu' = Reconciler
    /\ Goto(Reconciler, "put")
    /\ UNCHANGED <<haloyd, last, lastIsRead, proxyVars, file, published>>

(* Out of sync: it locks again, and gives up if another push has landed.   *)
ReconcileLock ==
    /\ call[Reconciler].pc = "wait"
    /\ mu = Nobody
    /\ IF lastIsRead
       THEN mu' = Reconciler /\ Goto(Reconciler, "put")
       ELSE ReturnFrom(Reconciler)
    /\ UNCHANGED <<haloyd, last, lastIsRead, proxyVars, file, published>>

(* Startup: the reconcile loop is running, Main pushes the seed snapshot.  *)
StartHaloyd ==
    /\ haloyd = "down"
    /\ haloyd' = "seeding"
    /\ call' = [call EXCEPT ![Main] = [pc |-> "wait", snap |-> Seed]]
    /\ UNCHANGED <<last, mu, lastIsRead, proxyVars, file, published>>

(* The startup push has returned, whatever its outcome.                    *)
Seeded ==
    /\ haloyd = "seeding"
    /\ call[Main].pc = "idle"
    /\ haloyd' = "up"
    /\ UNCHANGED <<last, mu, call, lastIsRead, proxyVars, file, published>>

(* haloyd stops at any point; requests it had sent are left behind.        *)
StopHaloyd ==
    /\ haloyd # "down"
    /\ haloyd' = "down"
    /\ last' = NoSnapshot
    /\ mu' = Nobody
    /\ call' = [c \in Clients |-> Idle]
    /\ lastIsRead' = FALSE
    /\ handler' = [h \in Handlers |-> [handler[h] EXCEPT !.client = Nobody]]
    /\ UNCHANGED <<file, published, proxy, applied, configHash, loadedFrom>>

------------------------------------------------------------------------------
(* haloy-proxy                                                             *)

(* Run boots from the snapshot file; a missing or rejected one leaves the  *)
(* routes empty.                                                           *)
BootProxy ==
    /\ proxy = "down"
    /\ proxy' = "booting"
    /\ IF file \in Accepted
       THEN /\ applied' = file
            /\ configHash' = file
            /\ loadedFrom' = "snapshot-file"
       ELSE UNCHANGED <<applied, configHash, loadedFrom>>
    /\ UNCHANGED <<haloydVars, file, published, handler>>

(* controlServer.Start opens the control socket.                           *)
OpenSocket ==
    /\ proxy = "booting"
    /\ proxy' = "up"
    /\ UNCHANGED <<haloydVars, file, published,
                   applied, configHash, loadedFrom, handler>>

(* handleConfig: validate, then switch the routes and record the hash      *)
(* under controlServer.mu; a rejected snapshot changes nothing.  Either    *)
(* answer ends the client's call, if it is still waiting.                  *)
HandleConfig(h) ==
    /\ proxy = "up"
    /\ handler[h] # Free
    /\ IF handler[h].snap \in Accepted
       THEN /\ applied' = handler[h].snap
            /\ configHash' = handler[h].snap
            /\ loadedFrom' = "socket"
       ELSE UNCHANGED <<applied, configHash, loadedFrom>>
    /\ handler' = [handler EXCEPT ![h] = Free]
    /\ IF handler[h].client = Nobody
       THEN UNCHANGED <<call, mu>>
       ELSE ReturnFrom(handler[h].client)
    /\ UNCHANGED <<haloyd, last, lastIsRead, file, published, proxy>>

(* The proxy stops at any point: its memory and its requests are gone, and *)
(* every waiting client sees the connection break.                         *)
StopProxy ==
    /\ proxy # "down"
    /\ proxy' = "down"
    /\ applied' = NoSnapshot
    /\ configHash' = NoSnapshot
    /\ loadedFrom' = "empty"
    /\ handler' = [h \in Handlers |-> Free]
    /\ call' = [c \in Clients |-> IF call[c].pc = "sent" THEN Idle ELSE call[c]]
    /\ mu' = IF mu # Nobody /\ call[mu].pc = "sent" THEN Nobody ELSE mu
    /\ UNCHANGED <<haloyd, last, lastIsRead, file, published>>

------------------------------------------------------------------------------
Push(p) ==
    \/ \E s \in Snapshots : BeginPush(p, s)
    \/ Persist(p)
    \/ PersistFails(p)

Deliver(c) ==
    \/ \E h \in Handlers : Send(c, h)
    \/ SendFails(c)
    \/ TimeOut(c)

Reconcile == ReconcileRead \/ ReconcileStatus \/ ReconcileLock

HaloydLife == StartHaloyd \/ Seeded \/ StopHaloyd

Proxy == BootProxy \/ OpenSocket \/ StopProxy \/ \E h \in Handlers : HandleConfig(h)

Next ==
    \/ \E p \in Pushers : Push(p)
    \/ \E c \in Clients : Deliver(c)
    \/ Reconcile
    \/ HaloydLife
    \/ Proxy

Spec == Init /\ [][Next]_vars

(* What keeps happening: goroutines run, Go's mutex starves nobody, the    *)
(* reconcile ticker ticks, the service manager starts the proxy again, its *)
(* handlers finish.  Nothing makes haloyd push, or start again.            *)
Fairness ==
    /\ \A p \in Pushers : SF_vars(Persist(p) \/ PersistFails(p))
    /\ \A c \in Clients : WF_vars((\E h \in Handlers : Send(c, h)) \/ SendFails(c))
    /\ \A h \in Handlers : WF_vars(HandleConfig(h))
    /\ WF_vars(Reconcile)
    /\ WF_vars(Seeded)
    /\ WF_vars(BootProxy)
    /\ WF_vars(OpenSocket)

FairSpec == Spec /\ Fairness

------------------------------------------------------------------------------
(* Properties                                                              *)

Holding(c) == call[c].pc \in {"put", "sent"}

(* A PUT that a client is still waiting for, or about to send, carries the *)
(* newest snapshot: the one in Client.last and in the snapshot file.  So   *)
(* the reconcile loop never pushes an outdated snapshot over a newer one   *)
(* although it decides to push with the mutex released                     *)
(* (proxyclient/client.go, reconcile and Push).                            *)
InFlightIsLatest ==
    \A c \in Clients : Holding(c) => call[c].snap = last /\ last = file

(* A snapshot haloyd itself rejects never becomes the proxy's boot config, *)
(* in whichever order validation, file writes and crashes happen           *)
(* (proxyclient/client.go, Push: "an invalid snapshot must never become    *)
(* the proxy's boot config").                                              *)
BootConfigValid == file \in Valid \cup {NoSnapshot}

(* The proxy client and the proxy implement ConfigStore: what is served    *)
(* was durable first, and a booting proxy takes up the newest snapshot.    *)
Store == INSTANCE ConfigStore WITH durable <- file, served <- applied
ImplementsStore == Store!Spec

(* Once anything was pushed, and if the two builds agree on all of it,     *)
(* haloy-proxy never boots with empty routes again                         *)
(* (dev/verify-proxy-split.md: "empty only on a fresh install").           *)
EmptyOnlyOnFreshInstall ==
    [][BootProxy /\ published # {} /\ published \subseteq Accepted
         => loadedFrom' = "snapshot-file"]_vars

(* What may keep the two processes apart for as long as it keeps           *)
(* happening: pushes, failed writes, deadlines that pass, crashes.         *)
Disturbance ==
    \/ \E p \in Pushers : PersistFails(p) \/ \E s \in Snapshots : BeginPush(p, s)
    \/ \E c \in Clients : TimeOut(c)
    \/ StartHaloyd \/ StopHaloyd \/ StopProxy

(* Once nothing disturbs them, the proxy serves the last snapshot haloyd   *)
(* pushed, for good: a lost push, a restart of the proxy, and a request    *)
(* carried out after a newer one are all repaired by the reconcile loop    *)
(* (proxyclient/client.go, Start and reconcile).                           *)
Converges ==
    []<><<Disturbance>>_vars \/ <>[](last \in Accepted => applied = last)

(* Every Push returns, whatever the proxy does: no path through Push or    *)
(* reconcile keeps the client's mutex (proxyclient/client.go, pushLocked). *)
PushReturns ==
    \A p \in Pushers : call[p].pc # "idle" ~> call[p].pc = "idle"

==============================================================================
