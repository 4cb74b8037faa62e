--------------------------- MODULE ProxySyncProofs ---------------------------
(***************************************************************************)
(* Safety of ProxySync for every set of snapshots, every set of handler    *)
(* slots and every skew between the two builds.                            *)
(*                                                                         *)
(* None of the three results is inductive alone.  IInv adds why the mutex  *)
(* protects Client.last (Mutex), why the reconcile loop's pointer test is  *)
(* enough (ReadIsLatest), what a waiting Push is known to carry            *)
(* (WaitingValid) and that every request was durable first (Durable).      *)
(***************************************************************************)
EXTENDS ProxySync, TLAPS

(* The mutex is held by exactly the client between its lock and its unlock *)
Mutex == \A c \in Clients : Holding(c) <=> mu = c

(* What Client.last holds is what the snapshot file holds.                 *)
LastIsFile == last # NoSnapshot => last = file

(* A client that holds the mutex is sending Client.last.                   *)
SendingLast == \A c \in Clients : Holding(c) => call[c].snap = last /\ last # NoSnapshot

(* As long as no Push replaced it, reconcile's snapshot is Client.last.    *)
ReadIsLatest ==
    call[Reconciler].pc \in {"status", "wait"} /\ lastIsRead
        => call[Reconciler].snap = last /\ last # NoSnapshot

(* A Push waiting for the mutex has validated its snapshot.                *)
WaitingValid == \A p \in Pushers : call[p].pc = "wait" => call[p].snap \in Valid

(* Only reconcile asks for the proxy's status.                             *)
PusherNeverAsks == \A p \in Pushers : call[p].pc # "status"

(* A stopped haloyd is in no call.                                         *)
DownIdle == haloyd = "down" => \A c \in Clients : call[c] = Idle

(* The file, the requests and the routes hold durable snapshots only.      *)
Durable ==
    /\ file \in published \cup {NoSnapshot}
    /\ file = NoSnapshot => published = {}
    /\ applied \in published \cup {NoSnapshot}
    /\ \A h \in Handlers : handler[h] # Free => handler[h].snap \in published

IInv ==
    /\ TypeOK
    /\ Mutex
    /\ LastIsFile
    /\ SendingLast
    /\ ReadIsLatest
    /\ WaitingValid
    /\ PusherNeverAsks
    /\ DownIdle
    /\ Durable
    /\ BootConfigValid

USE SnapshotsAssumption, ClientsAssumption DEF Pushers, Clients

LEMMA InitIInv == Init => IInv
<1> SUFFICES ASSUME Init PROVE IInv
  OBVIOUS
<1>1. \A c \in Clients : call[c] = Idle /\ call[c].pc = "idle"
  BY DEF Init, Idle
<1>2. TypeOK
  BY DEF Init, TypeOK, Idle, Free, Calls, Requests
<1>3. Mutex /\ SendingLast /\ ReadIsLatest /\ WaitingValid /\ PusherNeverAsks /\ DownIdle
  BY <1>1 DEF Init, Mutex, SendingLast, ReadIsLatest, WaitingValid,
     PusherNeverAsks, DownIdle, Holding
<1>4. LastIsFile /\ Durable /\ BootConfigValid
  BY DEF Init, LastIsFile, Durable, BootConfigValid
<1>5. QED BY <1>2, <1>3, <1>4 DEF IInv

LEMMA PushIInv ==
    ASSUME IInv, NEW p \in Pushers, Push(p)
    PROVE  IInv'
<1>1. CASE \E s \in Snapshots : BeginPush(p, s)
  BY <1>1 DEF BeginPush, IInv, TypeOK, Mutex, LastIsFile, SendingLast,
     ReadIsLatest, WaitingValid, PusherNeverAsks, DownIdle, Durable, BootConfigValid,
     Holding, Idle, Calls, Requests, proxyVars, Free
<1>2. CASE Persist(p)
  <2>1. call[p].snap \in Valid /\ p \in Clients /\ p # Reconciler
    BY <1>2 DEF Persist, IInv, WaitingValid
  <2>2. /\ call' = [call EXCEPT ![p].pc = "put"]
        /\ call'[p] = [pc |-> "put", snap |-> call[p].snap]
        /\ \A c \in Clients \ {p} : call'[c] = call[c]
    BY <1>2, <2>1 DEF Persist, Goto, IInv, TypeOK, Calls, Idle
  <2>3. \A c \in Clients \ {p} : ~Holding(c)
    BY <1>2 DEF Persist, IInv, Mutex
  <2>4. TypeOK'
    BY <1>2, <2>1, <2>2 DEF Persist, IInv, TypeOK, Calls, Requests, proxyVars
  <2>5. Mutex' /\ SendingLast'
    BY <1>2, <2>1, <2>2, <2>3 DEF Persist, Mutex, SendingLast, Holding
  <2>6. /\ LastIsFile' /\ ReadIsLatest' /\ WaitingValid' /\ PusherNeverAsks'
        /\ DownIdle' /\ BootConfigValid'
    BY <1>2, <2>1, <2>2 DEF Persist, IInv, LastIsFile, ReadIsLatest, WaitingValid,
       PusherNeverAsks, DownIdle, BootConfigValid, Idle
  <2>7. Durable'
    BY <1>2, <2>1 DEF Persist, IInv, Durable, proxyVars
  <2>8. QED BY <2>4, <2>5, <2>6, <2>7 DEF IInv
<1>3. CASE PersistFails(p)
  BY <1>3 DEF PersistFails, ReturnFrom, IInv, TypeOK, Mutex, LastIsFile,
     SendingLast, ReadIsLatest, WaitingValid, PusherNeverAsks, DownIdle, Durable,
     BootConfigValid, Holding, Idle, Calls, Requests, proxyVars, Free
<1>4. QED BY <1>1, <1>2, <1>3 DEF Push

LEMMA DeliverIInv ==
    ASSUME IInv, NEW c \in Clients, Deliver(c)
    PROVE  IInv'
<1>1. CASE \E h \in Handlers : Send(c, h)
  BY <1>1 DEF Send, Goto, IInv, TypeOK, Mutex, LastIsFile, SendingLast,
     ReadIsLatest, WaitingValid, PusherNeverAsks, DownIdle, Durable, BootConfigValid,
     Holding, Idle, Calls, Requests, Free
<1>2. CASE SendFails(c)
  BY <1>2 DEF SendFails, ReturnFrom, IInv, TypeOK, Mutex, LastIsFile,
     SendingLast, ReadIsLatest, WaitingValid, PusherNeverAsks, DownIdle, Durable,
     BootConfigValid, Holding, Idle, Calls, Requests, proxyVars, Free
<1>3. CASE TimeOut(c)
  BY <1>3 DEF TimeOut, ReturnFrom, IInv, TypeOK, Mutex, LastIsFile,
     SendingLast, ReadIsLatest, WaitingValid, PusherNeverAsks, DownIdle, Durable,
     BootConfigValid, Holding, Idle, Calls, Requests, Free
<1>4. QED BY <1>1, <1>2, <1>3 DEF Deliver

LEMMA ReconcileIInv ==
    ASSUME IInv, Reconcile
    PROVE  IInv'
<1>1. CASE ReconcileRead
  BY <1>1 DEF ReconcileRead, IInv, TypeOK, Mutex, LastIsFile, SendingLast,
     ReadIsLatest, WaitingValid, PusherNeverAsks, DownIdle, Durable, BootConfigValid,
     Holding, Idle, Calls, Requests, proxyVars, Free
<1>2. CASE ReconcileStatus
  BY <1>2 DEF ReconcileStatus, Goto, ReturnFrom, IInv, TypeOK, Mutex,
     LastIsFile, SendingLast, ReadIsLatest, WaitingValid, PusherNeverAsks,
     DownIdle, Durable, BootConfigValid, Holding, Idle, Calls, Requests, proxyVars, Free
<1>3. CASE ReconcileLock
  BY <1>3 DEF ReconcileLock, Goto, ReturnFrom, IInv, TypeOK, Mutex,
     LastIsFile, SendingLast, ReadIsLatest, WaitingValid, PusherNeverAsks,
     DownIdle, Durable, BootConfigValid, Holding, Idle, Calls, Requests, proxyVars, Free
<1>4. QED BY <1>1, <1>2, <1>3 DEF Reconcile

LEMMA HaloydLifeIInv ==
    ASSUME IInv, HaloydLife
    PROVE  IInv'
<1>1. CASE StartHaloyd
  BY <1>1 DEF StartHaloyd, IInv, TypeOK, Mutex, LastIsFile, SendingLast,
     ReadIsLatest, WaitingValid, PusherNeverAsks, DownIdle, Durable, BootConfigValid,
     Holding, Idle, Calls, Requests, proxyVars, Free
<1>2. CASE Seeded
  BY <1>2 DEF Seeded, IInv, TypeOK, Mutex, LastIsFile, SendingLast,
     ReadIsLatest, WaitingValid, PusherNeverAsks, DownIdle, Durable, BootConfigValid,
     Holding, Idle, Calls, Requests, proxyVars, Free
<1>3. CASE StopHaloyd
  <2>1. \A c \in Clients : call'[c] = Idle /\ call'[c].pc = "idle"
    BY <1>3 DEF StopHaloyd, Idle
  <2>2. TypeOK'
    <3>1. handler' \in [Handlers -> Requests]
      <4>1. \A r \in Requests : [r EXCEPT !.client = Nobody] \in Requests
        BY DEF Requests, Free
      <4>2. QED BY <1>3, <4>1 DEF StopHaloyd, IInv, TypeOK
    <3>2. call' \in [Clients -> Calls]
      BY <1>3 DEF StopHaloyd, Calls
    <3>3. QED BY <1>3, <3>1, <3>2 DEF StopHaloyd, IInv, TypeOK
  <2>3. /\ Mutex' /\ SendingLast' /\ ReadIsLatest' /\ WaitingValid'
        /\ PusherNeverAsks' /\ DownIdle'
    BY <1>3, <2>1 DEF StopHaloyd, Mutex, SendingLast, ReadIsLatest,
       WaitingValid, PusherNeverAsks, DownIdle, Holding
  <2>4. LastIsFile' /\ BootConfigValid'
    BY <1>3 DEF StopHaloyd, IInv, LastIsFile, BootConfigValid
  <2>5. Durable'
    <3>1. ASSUME NEW h \in Handlers, handler'[h] # Free
          PROVE  handler'[h].snap \in published
      <4>1. handler'[h] = [handler[h] EXCEPT !.client = Nobody]
        BY <1>3 DEF StopHaloyd
      <4>2. handler[h] # Free /\ handler'[h].snap = handler[h].snap
        BY <3>1, <4>1 DEF IInv, TypeOK, Free
      <4>3. QED BY <4>2 DEF IInv, Durable
    <3>2. QED BY <1>3, <3>1 DEF StopHaloyd, IInv, Durable
  <2>6. QED BY <2>2, <2>3, <2>4, <2>5 DEF IInv
<1>4. QED BY <1>1, <1>2, <1>3 DEF HaloydLife

LEMMA ProxyIInv ==
    ASSUME IInv, Proxy
    PROVE  IInv'
<1>1. CASE BootProxy
  BY <1>1 DEF BootProxy, IInv, TypeOK, Mutex, LastIsFile, SendingLast,
     ReadIsLatest, WaitingValid, PusherNeverAsks, DownIdle, Durable, BootConfigValid,
     Holding, Idle, Calls, Requests, haloydVars, Free
<1>2. CASE OpenSocket
  BY <1>2 DEF OpenSocket, IInv, TypeOK, Mutex, LastIsFile, SendingLast,
     ReadIsLatest, WaitingValid, PusherNeverAsks, DownIdle, Durable, BootConfigValid,
     Holding, Idle, Calls, Requests, haloydVars, Free
<1>3. CASE StopProxy
  BY <1>3 DEF StopProxy, IInv, TypeOK, Mutex, LastIsFile, SendingLast,
     ReadIsLatest, WaitingValid, PusherNeverAsks, DownIdle, Durable, BootConfigValid,
     Holding, Idle, Calls, Requests, Free
<1>4. CASE \E h \in Handlers : HandleConfig(h)
  BY <1>4 DEF HandleConfig, ReturnFrom, IInv, TypeOK, Mutex, LastIsFile,
     SendingLast, ReadIsLatest, WaitingValid, PusherNeverAsks, DownIdle, Durable,
     BootConfigValid, Holding, Idle, Calls, Requests, Free
<1>5. QED BY <1>1, <1>2, <1>3, <1>4 DEF Proxy

LEMMA StepIInv == IInv /\ [Next]_vars => IInv'
<1>1. ASSUME IInv, Next PROVE IInv'
  BY <1>1, PushIInv, DeliverIInv, ReconcileIInv, HaloydLifeIInv, ProxyIInv DEF Next
<1>2. ASSUME IInv, UNCHANGED vars PROVE IInv'
  BY <1>2 DEF vars, haloydVars, proxyVars, IInv, TypeOK, Mutex, LastIsFile,
     SendingLast, ReadIsLatest, WaitingValid, PusherNeverAsks, DownIdle, Durable,
     BootConfigValid, Holding, Idle, Calls, Requests, Free
<1>3. QED BY <1>1, <1>2

------------------------------------------------------------------------------
(* The inductive invariant holds in every reachable state.                 *)
THEOREM Inductive == Spec => []IInv
BY InitIInv, StepIInv, PTL DEF Spec

(* Every variable keeps its type.                                          *)
THEOREM TypeCorrect == Spec => []TypeOK
<1>1. IInv => TypeOK
  BY DEF IInv
<1>2. QED BY <1>1, Inductive, PTL

(* No client ever sends, or waits on, anything but the newest durable      *)
(* snapshot (the pointer test in reconcile, proxyclient/client.go).        *)
THEOREM LatestInFlight == Spec => []InFlightIsLatest
<1>1. IInv => InFlightIsLatest
  BY DEF IInv, InFlightIsLatest, SendingLast, LastIsFile
<1>2. QED BY <1>1, Inductive, PTL

(* The boot config is always one haloyd's validation accepts (Push in      *)
(* proxyclient/client.go validates before it persists).                    *)
THEOREM ValidBootConfig == Spec => []BootConfigValid
<1>1. IInv => BootConfigValid
  BY DEF IInv
<1>2. QED BY <1>1, Inductive, PTL

(* With nothing but snapshots that the proxy accepts pushed so far, the    *)
(* proxy boots with empty routes only before the first push of all.        *)
THEOREM NeverEmptyAgain == Spec => EmptyOnlyOnFreshInstall
<1>1. IInv /\ [Next]_vars =>
         [BootProxy /\ published # {} /\ published \subseteq Accepted
            => loadedFrom' = "snapshot-file"]_vars
  BY DEF BootProxy, IInv, Durable
<1>2. QED BY <1>1, Inductive, PTL DEF Spec, EmptyOnlyOnFreshInstall

(* The client, the proxy and all their failures implement ConfigStore.     *)
THEOREM StoreImplemented == Spec => ImplementsStore
<1>1. Init => Store!Init
  BY DEF Init, Store!Init
<1>2. IInv /\ [Next]_vars => [Store!Next]_(Store!vars)
  <2> SUFFICES ASSUME IInv, [Next]_vars PROVE [Store!Next]_(Store!vars)
    OBVIOUS
  <2> USE DEF Store!Next, Store!vars, Store!Publish, Store!Serve,
              Store!Restore, Store!Lose
  <2>1. ASSUME NEW p \in Pushers, Push(p) PROVE [Store!Next]_(Store!vars)
    BY <2>1 DEF Push, BeginPush, Persist, PersistFails, proxyVars, IInv, WaitingValid
  <2>2. ASSUME NEW c \in Clients, Deliver(c) PROVE [Store!Next]_(Store!vars)
    BY <2>2 DEF Deliver, Send, SendFails, TimeOut, proxyVars
  <2>3. CASE Reconcile
    BY <2>3 DEF Reconcile, ReconcileRead, ReconcileStatus, ReconcileLock, proxyVars
  <2>4. CASE HaloydLife
    BY <2>4 DEF HaloydLife, StartHaloyd, Seeded, StopHaloyd, proxyVars
  <2>5. CASE BootProxy
    BY <2>5 DEF BootProxy
  <2>6. CASE OpenSocket \/ StopProxy
    BY <2>6 DEF OpenSocket, StopProxy
  <2>7. ASSUME NEW h \in Handlers, HandleConfig(h) PROVE [Store!Next]_(Store!vars)
    BY <2>7 DEF HandleConfig, IInv, Durable, TypeOK
  <2>8. CASE UNCHANGED vars
    BY <2>8 DEF vars, proxyVars
  <2>9. QED BY <2>1, <2>2, <2>3, <2>4, <2>5, <2>6, <2>7, <2>8 DEF Next, Proxy
<1>3. QED BY <1>1, <1>2, Inductive, PTL DEF Spec, ImplementsStore, Store!Spec
==============================================================================
