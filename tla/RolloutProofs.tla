---------------------------- MODULE RolloutProofs ----------------------------
(***************************************************************************)
(* What haloyd's updates and its health monitor promise for any number of  *)
(* apps, containers and goroutines, and in the presence of every fault     *)
(* that Rollout knows.                                                     *)
(***************************************************************************)
EXTENDS Rollout, TLAPS

------------------------------------------------------------------------------
(* The tables                                                              *)

(* The inductive invariant: the type, the unmixed entries, and the failed  *)
(* entries' giving way.  Each part is inductive given the others.          *)
TablesIInv == TablesTyped /\ NeverMixed /\ FailedYield

------------------------------------------------------------------------------
(* Newest keeps healthy instances only, of one deployment for every app.   *)
LEMMA NewestType ==
    ASSUME NEW healthy \in SUBSET Instances
    PROVE  Newest(healthy) \in Tables
BY DEF Newest, Tables

LEMMA NewestUnmixed ==
    ASSUME NEW healthy \in SUBSET Instances, NEW a \in Apps
    PROVE  OneDeployment(a, Newest(healthy)[a])
<1> SUFFICES ASSUME NEW i \in Newest(healthy)[a], NEW j \in Newest(healthy)[a]
             PROVE  App(i) = a /\ ID(i) = ID(j)
    BY DEF OneDeployment
<1>1. i \in healthy /\ j \in healthy /\ App(i) = a /\ App(j) = a
    BY DEF Newest
<1>2. ID(i) <= ID(j) /\ ID(j) <= ID(i)
    BY <1>1 DEF Newest
<1>3. ID(i) \in Nat /\ ID(j) \in Nat
    BY <1>1, LabelsAssumption DEF ID
<1> QED BY <1>1, <1>2, <1>3

(* A failed entry is one of the two entries the app had before.            *)
LEMMA FailedFromBefore ==
    ASSUME NEW failed \in Tables, NEW old \in Tables, NEW new \in Tables, NEW a \in Apps
    PROVE  LET after == FailedAfter(failed, old, new)[a]
           IN  /\ after \in SUBSET Instances
               /\ after # {} => /\ new[a] = {}
                                /\ ~Overlaps(after, new)
                                /\ after = IF old[a] # {} THEN old[a] ELSE failed[a]
BY DEF FailedAfter, Tables

LEMMA FailedType ==
    ASSUME NEW failed \in Tables, NEW old \in Tables, NEW new \in Tables
    PROVE  FailedAfter(failed, old, new) \in Tables
BY DEF FailedAfter, Tables

------------------------------------------------------------------------------
LEMMA InitTables == NoTables => TablesIInv
BY DEF NoTables, TablesIInv, TablesTyped, NeverMixed, FailedYield, OneDeployment, Failed,
       NoDeployments, Tables

LEMMA StepTables == TablesIInv /\ [TableNext]_tableVars => TablesIInv'
<1> SUFFICES ASSUME TablesIInv, [TableNext]_tableVars PROVE TablesIInv'
    OBVIOUS
<1>1. CASE UNCHANGED tableVars
    BY <1>1 DEF tableVars, TablesIInv, TablesTyped, NeverMixed, FailedYield, Failed,
                Active
<1>2. ASSUME NEW healthy \in HealthCheckResults, ReplaceTables(healthy)
      PROVE  TablesIInv'
  <2> DEFINE new == Newest(healthy)
             after == FailedAfter(failedDeployments, deployments, new)
  <2>1. /\ deployments \in Tables /\ failedDeployments \in Tables
        /\ healthy \in SUBSET Instances
        /\ new \in Tables
        /\ deployments' = new /\ failedDeployments' = after
    BY <1>2, NewestType DEF TablesIInv, TablesTyped, HealthCheckResults, ReplaceTables
  <2>2. TablesTyped'
    BY <2>1, FailedType DEF TablesTyped
  <2> HIDE DEF new, after
  <2>3. ASSUME NEW a \in Apps
        PROVE  /\ OneDeployment(a, new[a]) /\ OneDeployment(a, after[a])
               /\ after[a] # {} => new[a] = {} /\ ~Overlaps(after[a], new)
    <3>1. OneDeployment(a, new[a])
      BY <2>1, NewestUnmixed DEF new
    <3>2. /\ OneDeployment(a, deployments[a])
          /\ OneDeployment(a, failedDeployments[a])
      BY DEF TablesIInv, NeverMixed
    <3>3. after[a] # {} => /\ new[a] = {}
                           /\ ~Overlaps(after[a], new)
                           /\ after[a] = IF deployments[a] # {} THEN deployments[a]
                                         ELSE failedDeployments[a]
      BY <2>1, FailedFromBefore DEF after
    <3>4. OneDeployment(a, {})
      BY DEF OneDeployment
    <3> QED BY <3>1, <3>2, <3>3, <3>4
  <2>4. NeverMixed'
    BY <2>1, <2>3 DEF NeverMixed, OneDeployment
  <2>5. FailedYield'
    BY <2>1, <2>3 DEF FailedYield, Failed, Active, Overlaps, AllHosts, HostsOf
  <2> QED BY <2>2, <2>4, <2>5 DEF TablesIInv
<1> QED BY <1>1, <1>2 DEF TableNext

(* The invariant of the tables: well-typed, unmixed, failed apps yield.    *)
THEOREM TablesInductive == TableSpec => []TablesIInv
BY InitTables, StepTables, PTL DEF TableSpec

(* Both tables always hold sets of known instances (DeploymentManager).    *)
THEOREM TablesTypeCorrect == TableSpec => []TablesTyped
BY TablesInductive, PTL DEF TablesIInv

(* No route ever mixes two deployments (UpdateDeployments).                *)
THEOREM NoMixedRoutes == TableSpec => []NeverMixed
BY TablesInductive, PTL DEF TablesIInv

(* A failed app never competes with an active one                          *)
(* (updateFailedDeployments).                                              *)
THEOREM FailedGiveWay == TableSpec => []FailedYield
BY TablesInductive, PTL DEF TablesIInv

------------------------------------------------------------------------------
(* An app is routed when it has an entry in one of the tables.             *)
LEMMA RoutedIff ==
    ASSUME NEW active \in Tables, NEW failed \in Tables, NEW a \in Apps
    PROVE  (\E r \in Snapshot(active, failed, Instances) : r.app = a)
             <=> active[a] # {} \/ failed[a] # {}
<1>1. ASSUME NEW r \in Snapshot(active, failed, Instances), r.app = a
      PROVE  active[a] # {} \/ failed[a] # {}
  BY <1>1 DEF Snapshot, Route
<1>2. ASSUME active[a] # {}
      PROVE  \E r \in Snapshot(active, failed, Instances) : r.app = a
  <2>1. Route(a, active[a], active[a] \cap Instances) \in Snapshot(active, failed, Instances)
    BY <1>2 DEF Snapshot
  <2> QED BY <2>1 DEF Route
<1>3. ASSUME active[a] = {}, failed[a] # {}
      PROVE  \E r \in Snapshot(active, failed, Instances) : r.app = a
  <2>1. Route(a, failed[a], {}) \in Snapshot(active, failed, Instances)
    BY <1>3 DEF Snapshot
  <2> QED BY <2>1 DEF Route
<1> QED BY <1>1, <1>2, <1>3

(* An app loses its route only to an active deployment that claims one of  *)
(* its hosts (updateFailedDeployments).                                    *)
THEOREM RoutesAreKept == TableSpec => RoutesKept
<1> DEFINE Claimed(a) ==
        \E b \in Apps \ {a} :
            HostsOf(deployments'[b])
              \cap (HostsOf(deployments[a]) \cup HostsOf(failedDeployments[a])) # {}
           Step == \A a \in Apps : Routed(a) /\ ~Routed(a)' => Claimed(a)
<1>1. TablesIInv /\ TablesIInv' /\ [TableNext]_tableVars => [Step]_tableVars
  <2> SUFFICES ASSUME TablesIInv, TablesIInv', TableNext, NEW a \in Apps, Routed(a), ~Routed(a)'
               PROVE  Claimed(a)
      OBVIOUS
  <2>1. PICK healthy \in HealthCheckResults : ReplaceTables(healthy)
      BY DEF TableNext
  <2> DEFINE new == Newest(healthy)
             after == FailedAfter(failedDeployments, deployments, new)
  <2>2. /\ deployments \in Tables /\ failedDeployments \in Tables
        /\ new \in Tables /\ after \in Tables
        /\ deployments' = new /\ failedDeployments' = after
      BY <2>1, NewestType, FailedType
         DEF TablesIInv, TablesTyped, HealthCheckResults, ReplaceTables
  <2>3. deployments[a] # {} \/ failedDeployments[a] # {}
      BY <2>2, RoutedIff DEF Routed, TableRoutes
  <2>4. new[a] = {} /\ after[a] = {}
      BY <2>2, RoutedIff DEF Routed, TableRoutes
  <2> DEFINE before == IF deployments[a] # {} THEN deployments[a] ELSE failedDeployments[a]
  <2>5. Overlaps(before, new)
      BY <2>3, <2>4 DEF FailedAfter
  <2>6. PICK b \in Apps : \E h : h \in HostsOf(before) /\ h \in HostsOf(new[b])
      BY <2>5 DEF Overlaps, AllHosts
  <2>7. b # a
      BY <2>4, <2>6 DEF HostsOf
  <2>8. HostsOf(before) \subseteq HostsOf(deployments[a]) \cup HostsOf(failedDeployments[a])
      OBVIOUS
  <2> QED BY <2>2, <2>6, <2>7, <2>8
<1>2. TableSpec => [][Step]_tableVars
  BY <1>1, TablesInductive, PTL DEF TableSpec
<1> QED BY <1>2 DEF RoutesKept

------------------------------------------------------------------------------
(* The deployment that decides an app's route.                             *)
Entry(active, failed, a) == IF active[a] # {} THEN active[a] ELSE failed[a]
Disjoint(active, failed) ==
    \A a, b \in Apps : a # b =>
        HostsOf(Entry(active, failed, a)) \cap HostsOf(Entry(active, failed, b)) = {}

(* An app has at most one route, and it has the hosts of the app's entry.  *)
LEMMA RouteOfEntry ==
    ASSUME NEW active \in Tables, NEW failed \in Tables,
           NEW r \in Snapshot(active, failed, Instances)
    PROVE  /\ r.app \in Apps
           /\ r.hosts = HostsOf(Entry(active, failed, r.app))
           /\ \A s \in Snapshot(active, failed, Instances) : s.app = r.app => s = r
<1>1. ASSUME NEW s \in Snapshot(active, failed, Instances)
      PROVE  /\ s.app \in Apps
             /\ \/ /\ active[s.app] # {}
                   /\ s = Route(s.app, active[s.app], active[s.app] \cap Instances)
                \/ /\ active[s.app] = {}
                   /\ s = Route(s.app, failed[s.app], {})
  BY DEF Snapshot, Route
<1>2. /\ r.app \in Apps
      /\ r.hosts = HostsOf(Entry(active, failed, r.app))
  BY <1>1 DEF Entry, Route
<1>3. ASSUME NEW s \in Snapshot(active, failed, Instances), s.app = r.app
      PROVE  s = r
  BY <1>1, <1>3
<1> QED BY <1>2, <1>3

LEMMA EntryIsRouted ==
    ASSUME NEW active \in Tables, NEW failed \in Tables, NEW a \in Apps,
           Entry(active, failed, a) # {}
    PROVE  \E r \in Snapshot(active, failed, Instances) :
              r.app = a /\ r.hosts = HostsOf(Entry(active, failed, a))
<1>1. PICK r \in Snapshot(active, failed, Instances) : r.app = a
  BY RoutedIff DEF Entry
<1> QED BY <1>1, RouteOfEntry

LEMMA UnambiguousIff ==
    ASSUME NEW active \in Tables, NEW failed \in Tables
    PROVE  Unambiguous(Snapshot(active, failed, Instances)) <=> Disjoint(active, failed)
<1> DEFINE routes == Snapshot(active, failed, Instances)
<1>1. ASSUME Disjoint(active, failed), NEW r \in routes, NEW s \in routes, r # s
      PROVE  r.hosts \cap s.hosts = {}
  <2>1. r.app # s.app /\ r.app \in Apps /\ s.app \in Apps
    BY <1>1, RouteOfEntry
  <2> QED BY <1>1, <2>1, RouteOfEntry DEF Disjoint
<1>2. ASSUME Unambiguous(routes), NEW a \in Apps, NEW b \in Apps, a # b
      PROVE  HostsOf(Entry(active, failed, a)) \cap HostsOf(Entry(active, failed, b)) = {}
  <2>1. CASE Entry(active, failed, a) = {} \/ Entry(active, failed, b) = {}
    BY <2>1 DEF HostsOf
  <2>2. CASE Entry(active, failed, a) # {} /\ Entry(active, failed, b) # {}
    <3>1. PICK r \in routes : r.app = a /\ r.hosts = HostsOf(Entry(active, failed, a))
      BY <2>2, EntryIsRouted
    <3>2. PICK s \in routes : s.app = b /\ s.hosts = HostsOf(Entry(active, failed, b))
      BY <2>2, EntryIsRouted
    <3> QED BY <1>2, <3>1, <3>2 DEF Unambiguous
  <2> QED BY <2>1, <2>2
<1> QED BY <1>1, <1>2 DEF Unambiguous, Disjoint

(* Failed apps never make a valid snapshot invalid                         *)
(* (updateFailedDeployments, buildSnapshot, RouteBuilder.Build).           *)
THEOREM FailedNeverCollides == TableSpec => FailedNeverCollide
<1>1. TablesIInv /\ [TableNext]_tableVars =>
        [Unambiguous(TableRoutes) /\ Unambiguous(ActiveRoutes)' => Unambiguous(TableRoutes)']_tableVars
  <2> SUFFICES ASSUME TablesIInv, TableNext, Unambiguous(TableRoutes), Unambiguous(ActiveRoutes)'
               PROVE  Unambiguous(TableRoutes)'
      OBVIOUS
  <2>1. PICK healthy \in HealthCheckResults : ReplaceTables(healthy)
      BY DEF TableNext
  <2> DEFINE new == Newest(healthy)
             after == FailedAfter(failedDeployments, deployments, new)
  <2>2. /\ deployments \in Tables /\ failedDeployments \in Tables
        /\ new \in Tables /\ after \in Tables
        /\ deployments' = new /\ failedDeployments' = after
      BY <2>1, NewestType, FailedType
         DEF TablesIInv, TablesTyped, HealthCheckResults, ReplaceTables
  <2>3. NoDeployments \in Tables
      BY DEF NoDeployments, Tables
  <2>4. Disjoint(deployments, failedDeployments) /\ Disjoint(new, NoDeployments)
      BY <2>2, <2>3, UnambiguousIff DEF TableRoutes, ActiveRoutes
  <2>5. \A a \in Apps : after[a] # {} =>
            /\ new[a] = {}
            /\ ~Overlaps(after[a], new)
            /\ after[a] = Entry(deployments, failedDeployments, a)
      BY <2>2, FailedFromBefore DEF Entry
  <2>6. ASSUME NEW a \in Apps, NEW b \in Apps, a # b
        PROVE  HostsOf(Entry(new, after, a)) \cap HostsOf(Entry(new, after, b)) = {}
    <3> HIDE DEF new, after
    <3>1. CASE new[a] # {} /\ new[b] # {}
      BY <2>4, <2>6, <3>1 DEF Disjoint, Entry
    <3>2. CASE new[a] = {} /\ new[b] = {}
      <4>1. CASE after[a] = {} \/ after[b] = {}
        BY <3>2, <4>1 DEF Entry, HostsOf
      <4>2. CASE after[a] # {} /\ after[b] # {}
        BY <2>4, <2>5, <2>6, <3>2, <4>2 DEF Disjoint, Entry
      <4> QED BY <4>1, <4>2
    <3>3. CASE new[a] # {} /\ new[b] = {}
      BY <2>5, <3>3 DEF Entry, Overlaps, AllHosts, HostsOf
    <3>4. CASE new[a] = {} /\ new[b] # {}
      BY <2>5, <3>4 DEF Entry, Overlaps, AllHosts, HostsOf
    <3> QED BY <3>1, <3>2, <3>3, <3>4
  <2>7. Disjoint(new, after)
      BY <2>6 DEF Disjoint
  <2> QED BY <2>2, <2>7, UnambiguousIff DEF TableRoutes
<1> QED BY <1>1, TablesInductive, PTL DEF TableSpec, FailedNeverCollide

(* Where containers keep their address, instances that are the same to     *)
(* instancesEqual are the same.                                            *)
LEMMA UnchangedTables ==
    ASSUME \A i, j \in Instances : Container[i] = Container[j] => i = j,
           NEW failed \in Tables, NEW old \in Tables, NEW new \in Tables,
           ~HasChanged(failed, old, new)
    PROVE  new = old /\ FailedAfter(failed, old, new) = failed
<1>1. ASSUME NEW a \in Apps, NEW i \in Instances PROVE i \in old[a] <=> i \in new[a]
    <2>1. SameInstances(old[a], new[a])
        BY DEF HasChanged, DeploymentsChanged
    <2>2. old[a] \subseteq Instances /\ new[a] \subseteq Instances
        BY DEF Tables
    <2>3. ASSUME i \in old[a] PROVE i \in new[a]
        <3>1. PICK j \in new[a] : Container[i] = Container[j]
            BY <2>1, <2>3 DEF SameInstances
        <3> QED BY <2>2, <3>1
    <2>4. ASSUME i \in new[a] PROVE i \in old[a]
        <3>1. PICK j \in old[a] : Container[i] = Container[j]
            BY <2>1, <2>4 DEF SameInstances
        <3> QED BY <2>2, <3>1
    <2> QED BY <2>3, <2>4
<1>2. \A a \in Apps : old[a] = new[a]
    BY <1>1 DEF Tables
<1>3. old = new
    BY <1>2 DEF Tables
<1> QED BY <1>3 DEF HasChanged

(* While no container changes its address, "no change" means the same      *)
(* routes (UpdateDeployments, updater.go's early return).                  *)
THEOREM UnchangedSameRoutes ==
    ASSUME \A i, j \in Instances : Container[i] = Container[j] => i = j
    PROVE  TableSpec => UnchangedMeansSameRoutes
<1> DEFINE unchanged == ~HasChanged(failedDeployments, deployments, deployments')
<1>1. TablesIInv /\ [TableNext]_tableVars =>
        [unchanged => TableRoutes' = TableRoutes]_tableVars
  <2> SUFFICES ASSUME TablesIInv, TableNext, unchanged PROVE TableRoutes' = TableRoutes
      OBVIOUS
  <2>1. PICK healthy \in HealthCheckResults : ReplaceTables(healthy)
      BY DEF TableNext
  <2>2. /\ deployments \in Tables /\ failedDeployments \in Tables /\ deployments' \in Tables
        /\ failedDeployments' = FailedAfter(failedDeployments, deployments, deployments')
      BY <2>1, NewestType DEF TablesIInv, TablesTyped, HealthCheckResults, ReplaceTables
  <2>3. deployments' = deployments /\ failedDeployments' = failedDeployments
      BY <2>2, UnchangedTables
  <2> QED BY <2>3 DEF TableRoutes
<1> QED BY <1>1, TablesInductive, PTL DEF TableSpec, UnchangedMeansSameRoutes

PCs == {"idle", "wait", "check", "push", "certs", "stop", "remove", "outcome", "cleanup"}
States == {"new", "up", "sick", "stopped", "removed"}

------------------------------------------------------------------------------
(* What the actions are made of                                            *)

(* A worker goes on with its update.                                       *)
LEMMA GotoFacts ==
    ASSUME TypeOK, NEW w \in Workers, NEW pc \in PCs, Goto(w, pc)
    PROVE  /\ job' \in [Workers -> Jobs]
           /\ job'[w].pc = pc
           /\ \A v \in Workers \ {w} : job'[v] = job[v]
<1>1. job[w] \in Jobs /\ job' = [job EXCEPT ![w] = [job[w] EXCEPT !.pc = pc]]
    BY DEF TypeOK, TablesTyped, Goto
<1>2. [job[w] EXCEPT !.pc = pc] \in Jobs /\ [job[w] EXCEPT !.pc = pc].pc = pc
    BY <1>1 DEF Jobs, PCs
<1> QED BY <1>1, <1>2 DEF TypeOK, TablesTyped

LEMMA IdleType == Idle \in Jobs /\ Idle.pc = "idle"
BY DEF Idle, Jobs

(* An update returns, with or without an error.                            *)
LEMMA ReturnFacts ==
    ASSUME TypeOK, NEW w \in Workers, NEW failed \in BOOLEAN,
           Return(w, failed) \/ ReturnError(w)
    PROVE  /\ job' \in [Workers -> Jobs]
           /\ job'[w].pc \in {"idle", "outcome"}
           /\ \A v \in Workers \ {w} : job'[v] = job[v]
           /\ mu' = None /\ update' = NoUpdate
<1>1. job[w] \in Jobs
    BY DEF TypeOK, TablesTyped
<1>2. /\ [job[w] EXCEPT !.pc = "outcome", !.failed = failed] \in Jobs
      /\ [job[w] EXCEPT !.pc = "outcome", !.failed = failed].pc = "outcome"
    BY <1>1 DEF Jobs
<1>3. CASE Return(w, failed)
    BY <1>2, <1>3, IdleType DEF Return, TypeOK, TablesTyped
<1>4. CASE ReturnError(w)
    BY <1>4, IdleType DEF ReturnError, TypeOK, TablesTyped
<1> QED BY <1>3, <1>4

(* Containers are stopped or removed.                                      *)
LEMMA HaltFacts ==
    ASSUME TypeOK, NEW these \in SUBSET Instances, NEW state \in States, Halt(these, state)
    PROVE  container' \in [Instances -> States] /\ captured' \in [Apps -> SUBSET Events]
<1>1. \A i \in Instances : [dep |-> ID(i), start |-> FALSE] \in Events
    BY DEF Events, IDs
<1> QED BY <1>1 DEF Halt, TypeOK, TablesTyped, States

LEMMA HealthyType ==
    ASSUME NEW healthy \in SUBSET Instances
    PROVE  Newest(healthy) \in Tables /\ \A a \in Apps : Newest(healthy)[a] \subseteq healthy
BY DEF Newest, Tables

(* A snapshot's routes lead to containers of the active deployments only.  *)
LEMMA SnapshotFacts ==
    ASSUME NEW active \in Tables, NEW failed \in Tables, NEW included \in SUBSET Instances
    PROVE  /\ Snapshot(active, failed, included) \in SUBSET Routes
           /\ Backends(Snapshot(active, failed, included)) \subseteq
                  UNION {active[a] : a \in Apps}
<1>1. \A d \in SUBSET Instances : HostsOf(d) \subseteq Hosts
    BY LabelsAssumption DEF HostsOf
<1>2. \A a \in Apps : active[a] \subseteq Instances /\ failed[a] \subseteq Instances
    BY DEF Tables
<1>3. ASSUME NEW r \in Snapshot(active, failed, included)
      PROVE  /\ r \in Routes
             /\ \E a \in Apps : r.backends \subseteq active[a]
    <2>1. CASE \E a \in Apps : r = Route(a, active[a], active[a] \cap included)
        BY <1>1, <1>2, <2>1 DEF Route, Routes
    <2>2. CASE \E a \in Apps : r = Route(a, failed[a], {})
        BY <1>1, <1>2, <2>2 DEF Route, Routes
    <2> QED BY <1>3, <2>1, <2>2 DEF Snapshot
<1> QED BY <1>3 DEF Backends

------------------------------------------------------------------------------
(* Types                                                                   *)

(* Containers, and the main loop that starts updates.                      *)
LEMMA LoopTypes ==
    ASSUME TypeOK,
           \/ \E i \in Instances : Start(i) \/ ChangeHealth(i)
           \/ \E a \in Apps, w \in Workers : Debounce(a, w)
           \/ \E w \in Workers : Refresh(w)
    PROVE  TypeOK'
<1>1. CASE \E i \in Instances : Start(i)
    <2>1. PICK i \in Instances : Start(i)
        BY <1>1
    <2>2. [dep |-> ID(i), start |-> TRUE] \in Events
        BY DEF Events, IDs
    <2>3. captured' \in [Apps -> SUBSET Events]
        BY <2>1, <2>2 DEF Start, TypeOK, TablesTyped
    <2>4. container' \in [Instances -> States]
        BY <2>1 DEF Start, TypeOK, TablesTyped, States
    <2> QED BY <2>1, <2>3, <2>4
            DEF Start, TypeOK, TablesTyped, States, updaterVars, tableVars, monitorVars
<1>2. CASE \E i \in Instances : ChangeHealth(i)
    BY <1>2 DEF ChangeHealth, TypeOK, TablesTyped, updaterVars, tableVars, monitorVars
<1>3. CASE \E a \in Apps, w \in Workers : Debounce(a, w)
    <2>1. PICK a \in Apps, w \in Workers : Debounce(a, w)
        BY <1>3
    <2> DEFINE new(newest) == [pc |-> "wait", reason |-> "app", app |-> a,
                       dep |-> newest.dep, start |-> \E e \in captured[a] : e.start,
                       failed |-> FALSE]
    <2>2. PICK newest \in captured[a] :
              job' = [job EXCEPT ![w] = new(newest)] /\ captured' = [captured EXCEPT ![a] = {}]
        BY <2>1 DEF Debounce
    <2>3. new(newest) \in Jobs
        <3>1. newest.dep \in IDs /\ (\E e \in captured[a] : e.start) \in BOOLEAN
            BY <2>2 DEF TypeOK, TablesTyped, Events
        <3> QED BY <3>1 DEF Jobs
    <2> HIDE DEF new
    <2>4. job' \in [Workers -> Jobs] /\ captured' \in [Apps -> SUBSET Events]
        BY <2>2, <2>3 DEF TypeOK, TablesTyped
    <2> QED BY <2>1, <2>4 DEF Debounce, TypeOK, tableVars, monitorVars, TablesTyped
<1>4. CASE \E w \in Workers : Refresh(w)
    <2>1. PICK w \in Workers : Refresh(w)
        BY <1>4
    <2>2. [Idle EXCEPT !.pc = "wait", !.reason = "refresh"] \in Jobs
        BY DEF Idle, Jobs
    <2>3. job' \in [Workers -> Jobs]
        BY <2>1, <2>2 DEF Refresh, TypeOK, TablesTyped
    <2> QED BY <2>1, <2>3 DEF Refresh, TypeOK, TablesTyped, dockerVars, tableVars,
                              monitorVars
<1> QED BY <1>1, <1>2, <1>3, <1>4

Updates == [todo : SUBSET Instances, healthy : SUBSET Instances, failed : SUBSET Instances]

LEMMA UpdateTypes ==
    ASSUME TypeOK, NEW w \in Workers, Update(w)
    PROVE  TypeOK'
<1> USE DEF dockerVars, updaterVars, tableVars, monitorVars
<1>1. NoUpdate \in Updates /\ Running \subseteq Instances /\ Old(w) \subseteq Instances
    BY DEF NoUpdate, Updates, Running, Old, Existing
<1>2. CASE DiscoverContainers(w)
    <2>1. update' \in Updates /\ mu' = w
        BY <1>1, <1>2 DEF DiscoverContainers, NoUpdate, Updates
    <2>2. job' \in [Workers -> Jobs]
        BY <1>2, GotoFacts DEF DiscoverContainers, PCs
    <2> QED BY <1>2, <2>1, <2>2 DEF DiscoverContainers, TypeOK, TablesTyped, Updates
<1>3. CASE DiscoverContainersFails(w)
    BY <1>1, <1>3, ReturnFacts DEF DiscoverContainersFails, TypeOK, TablesTyped, Updates
<1>4. ASSUME NEW i \in Instances, HealthCheck(w, i) PROVE TypeOK'
    <2>1. \/ update' = [update EXCEPT !.todo = @ \ {i}, !.healthy = @ \cup {i}]
          \/ update' = [update EXCEPT !.todo = @ \ {i}, !.failed = @ \cup {i}]
        BY <1>4 DEF HealthCheck
    <2>2. checked' = checked \cup {i} \/ checked' = checked
        BY <1>4 DEF HealthCheck
    <2>3. update' \in Updates
        <3>1. update \in Updates
            BY DEF TypeOK, TablesTyped, Updates
        <3>2. [update EXCEPT !.todo = @ \ {i}, !.healthy = @ \cup {i}] \in Updates
            BY <3>1 DEF Updates
        <3>3. [update EXCEPT !.todo = @ \ {i}, !.failed = @ \cup {i}] \in Updates
            BY <3>1 DEF Updates
        <3> QED BY <2>1, <3>2, <3>3
    <2>4. checked' \subseteq Instances
        BY <2>2 DEF TypeOK, TablesTyped
    <2> QED BY <1>4, <2>3, <2>4 DEF HealthCheck, TypeOK, TablesTyped, Updates
<1>5. CASE UpdateDeployments(w)
    <2>1. deployments' \in Tables /\ failedDeployments' \in Tables
        BY <1>5, HealthyType, FailedType DEF UpdateDeployments, ReplaceTables, TypeOK,
                                             TablesTyped
    <2>2. AppFailed(w) \in BOOLEAN
        BY DEF AppFailed
    <2>3. (Goto(w, "push") /\ UNCHANGED <<mu, update>>) \/ Return(w, AppFailed(w))
        BY <1>5 DEF UpdateDeployments, ReplaceTables
    <2>4. job' \in [Workers -> Jobs] /\ mu' \in Workers \cup {None} /\ update' \in Updates
        BY <1>1, <2>2, <2>3, GotoFacts, ReturnFacts DEF PCs, TypeOK, TablesTyped, Updates
    <2> QED BY <1>5, <2>1, <2>4 DEF UpdateDeployments, ReplaceTables, TypeOK,
                                    TablesTyped, Updates
<1>6. CASE Push(w)
    <2>1. last' \subseteq Routes
        BY <1>6, SnapshotFacts DEF Push, TypeOK, TablesTyped
    <2>2. job' \in [Workers -> Jobs]
        BY <1>6, GotoFacts DEF Push, PCs
    <2> QED BY <1>6, <2>1, <2>2 DEF Push, TypeOK, TablesTyped
<1>7. CASE PushFails(w)
    BY <1>1, <1>7, ReturnFacts DEF PushFails, TypeOK, TablesTyped, Updates
<1>8. CASE RefreshCertificates(w)
    <2>1. (Goto(w, "stop") /\ UNCHANGED <<mu, update>>) \/ Return(w, FALSE)
        BY <1>8 DEF RefreshCertificates
    <2>2. job' \in [Workers -> Jobs] /\ mu' \in Workers \cup {None} /\ update' \in Updates
        BY <1>1, <2>1, GotoFacts, ReturnFacts DEF PCs, TypeOK, TablesTyped, Updates
    <2> QED BY <1>8, <2>2 DEF RefreshCertificates, TypeOK, TablesTyped, Updates
<1>9. CASE RefreshCertificatesFails(w)
    BY <1>1, <1>9, ReturnFacts DEF RefreshCertificatesFails, TypeOK, TablesTyped, Updates
<1>10. CASE StopContainers(w)
    <2>1. job' \in [Workers -> Jobs]
        BY <1>10, GotoFacts DEF StopContainers, PCs
    <2>2. container' \in [Instances -> States] /\ captured' \in [Apps -> SUBSET Events]
        BY <1>1, <1>10, HaltFacts DEF StopContainers, States
    <2> QED BY <1>10, <2>1, <2>2 DEF StopContainers, TypeOK, TablesTyped, States
<1>11. CASE RemoveContainers(w)
    <2>1. AppFailed(w) \in BOOLEAN
        BY DEF AppFailed
    <2>2. job' \in [Workers -> Jobs] /\ mu' = None /\ update' = NoUpdate
        BY <1>11, <2>1, ReturnFacts DEF RemoveContainers
    <2>3. container' \in [Instances -> States] /\ captured' \in [Apps -> SUBSET Events]
        BY <1>1, <1>11, HaltFacts DEF RemoveContainers, States
    <2> QED BY <1>1, <1>11, <2>2, <2>3 DEF RemoveContainers, TypeOK, TablesTyped, States,
                                           Updates
<1>12. CASE StopContainersFails(w)
    <2>1. job' \in [Workers -> Jobs] /\ mu' = None /\ update' = NoUpdate
        BY <1>12, ReturnFacts DEF StopContainersFails
    <2>2. PICK some \in SUBSET Old(w), state \in {"stopped", "removed"} : Halt(some, state)
        BY <1>12 DEF StopContainersFails
    <2>3. container' \in [Instances -> States] /\ captured' \in [Apps -> SUBSET Events]
        BY <1>1, <2>2, HaltFacts DEF States
    <2> QED BY <1>1, <1>12, <2>1, <2>3 DEF StopContainersFails, TypeOK, TablesTyped,
                                           States, Updates
<1> QED BY <1>2, <1>3, <1>4, <1>5, <1>6, <1>7, <1>8, <1>9, <1>10, <1>11, <1>12 DEF Update

LEMMA OutcomeTypes ==
    ASSUME TypeOK, NEW w \in Workers, Outcome(w)
    PROVE  TypeOK'
<1> USE DEF dockerVars, updaterVars, tableVars, monitorVars
<1>1. CASE OutcomeFailed(w)
    <2>1. job' \in [Workers -> Jobs]
        BY <1>1, GotoFacts DEF OutcomeFailed, PCs
    <2> QED BY <1>1, <2>1 DEF OutcomeFailed, TypeOK, TablesTyped
<1>2. CASE OutcomeComplete(w) \/ OutcomeLogged(w)
    BY <1>2, IdleType DEF OutcomeComplete, OutcomeLogged, TypeOK, TablesTyped
<1>3. CASE Cleanup(w)
    <2>1. OfDeployment(w) \subseteq Instances
        BY DEF OfDeployment, Existing
    <2>2. PICK some \in SUBSET OfDeployment(w), state \in {"stopped", "removed"} :
              Halt(some, state)
        BY <1>3 DEF Cleanup
    <2>3. container' \in [Instances -> States] /\ captured' \in [Apps -> SUBSET Events]
        BY <2>1, <2>2, HaltFacts DEF States
    <2> QED BY <1>3, <2>3, IdleType DEF Cleanup, TypeOK, TablesTyped, States
<1> QED BY <1>1, <1>2, <1>3 DEF Outcome

(* Whatever a check finds, an entry's counters stay below or at their      *)
(* thresholds, and a target that reaches one changes its state.            *)
LEMMA RecordedType ==
    ASSUME NEW entry \in Entries, NEW success \in BOOLEAN
    PROVE  Recorded(entry, success) \in Entries
<1>1. entry.failures \in 0 .. Fall /\ entry.successes \in 0 .. Rise /\ entry.healthy \in BOOLEAN
    BY DEF Entries
<1> QED BY <1>1, ThresholdsAssumption DEF Entries, Recorded, AtMost

Rounds == [pc : {"rest", "check", "build", "push"}, todo : SUBSET Instances,
           changed : BOOLEAN, healthy : SUBSET Instances, table : Tables,
           snapshot : SUBSET Routes]

(* What a round has still to check has an entry since the round began.     *)
TodoTracked == \A i \in monitor.todo : tracker[i] \in Entries

LEMMA RoundTypes ==
    ASSUME TypeOK, TodoTracked, Round
    PROVE  TypeOK' /\ TodoTracked'
<1> USE DEF dockerVars, updaterVars, tableVars, monitorVars
<1>1. Resting \in Rounds
    BY DEF Resting, Rounds, Tables, NoDeployments
<1>2. monitor \in Rounds /\ Targets \subseteq Instances
    BY DEF TypeOK, TablesTyped, Rounds, Targets, Tables
<1>3. CASE BeginRound
    <2>1. Assumed \in Entries
        BY ThresholdsAssumption DEF Assumed, Entries
    <2>2. /\ tracker' \in [Instances -> {None} \cup Entries]
          /\ \A i \in Targets : tracker'[i] \in Entries
        BY <1>2, <1>3, <2>1 DEF BeginRound, TypeOK, TablesTyped
    <2>3. monitor' \in Rounds /\ monitor'.todo = Targets
        BY <1>1, <1>2, <1>3 DEF BeginRound, Rounds
    <2> QED BY <1>3, <2>2, <2>3 DEF BeginRound, TypeOK, TablesTyped, TodoTracked, Rounds
<1>4. ASSUME NEW i \in Instances, CheckTarget(i) PROVE TypeOK' /\ TodoTracked'
    <2>1. Recorded(tracker[i], container[i] = "up") \in Entries
        BY <1>4, RecordedType DEF CheckTarget, TodoTracked
    <2>2. tracker' = [tracker EXCEPT ![i] = Recorded(tracker[i], container[i] = "up")]
        BY <1>4 DEF CheckTarget
    <2>3. /\ tracker' \in [Instances -> {None} \cup Entries]
          /\ \A j \in Instances : tracker[j] \in Entries => tracker'[j] \in Entries
        BY <2>1, <2>2 DEF TypeOK, TablesTyped
    <2>4. monitor' = [monitor EXCEPT !.todo = monitor.todo \ {i},
                        !.changed = monitor.changed \/ tracker'[i].healthy # tracker[i].healthy]
        BY <1>4 DEF CheckTarget
    <2>5. (monitor.changed \/ tracker'[i].healthy # tracker[i].healthy) \in BOOLEAN
        OBVIOUS
    <2>6. monitor' \in Rounds /\ monitor'.todo \subseteq monitor.todo
        BY <1>2, <2>4, <2>5 DEF Rounds
    <2> QED BY <1>2, <1>4, <2>3, <2>6 DEF CheckTarget, TypeOK, TablesTyped, TodoTracked,
                                          Rounds
<1>5. CASE EndRound
    <2>1. monitor' \in Rounds /\ monitor'.todo = {}
        BY <1>1, <1>2, <1>5 DEF EndRound, Resting, Rounds, HealthyTargets, TypeOK,
                                TablesTyped
    <2> QED BY <1>5, <2>1 DEF EndRound, TypeOK, TablesTyped, TodoTracked, Rounds
<1>6. CASE BuildSnapshot
    <2>1. Snapshot(monitor.table, failedDeployments, monitor.healthy) \in SUBSET Routes
        BY <1>2, SnapshotFacts DEF TypeOK, TablesTyped, Rounds
    <2>2. monitor' \in Rounds /\ monitor'.todo = {}
        BY <1>1, <1>6, <2>1 DEF BuildSnapshot, Resting, Rounds
    <2> QED BY <1>6, <2>2 DEF BuildSnapshot, TypeOK, TablesTyped, TodoTracked, Rounds
<1>7. CASE PushFromMonitor
    <2>1. monitor' = Resting /\ (last' = monitor.snapshot \/ last' = last)
        BY <1>7 DEF PushFromMonitor
    <2> QED BY <1>1, <1>2, <1>7, <2>1 DEF PushFromMonitor, TypeOK, TablesTyped,
                                          TodoTracked, Rounds, Resting
<1> QED BY <1>3, <1>4, <1>5, <1>6, <1>7 DEF Round

LEMMA InitTypes == Init => TypeOK /\ TodoTracked
<1> SUFFICES ASSUME Init PROVE TypeOK /\ TodoTracked
    OBVIOUS
<1>1. Idle \in Jobs /\ [Idle EXCEPT !.pc = "wait", !.reason = "initial"] \in Jobs
    BY DEF Idle, Jobs
<1>2. job \in [Workers -> Jobs]
    BY <1>1 DEF Init, NoTables
<1>3. Resting \in Rounds /\ Resting.todo = {}
    BY DEF Resting, Rounds, Tables, NoDeployments
<1> QED BY <1>2, <1>3 DEF Init, NoTables, TypeOK, TablesTyped, TodoTracked, Rounds,
                          NoUpdate, NoDeployments, Tables

LEMMA StepTypes == TypeOK /\ TodoTracked /\ [Next]_vars => TypeOK' /\ TodoTracked'
<1> SUFFICES ASSUME TypeOK, TodoTracked, [Next]_vars PROVE TypeOK' /\ TodoTracked'
    OBVIOUS
<1> USE DEF dockerVars, updaterVars, tableVars, monitorVars
<1>1. CASE UNCHANGED vars
    BY <1>1 DEF vars, TypeOK, TablesTyped, TodoTracked
<1>2. CASE \/ \E i \in Instances : Start(i) \/ ChangeHealth(i)
           \/ \E a \in Apps, w \in Workers : Debounce(a, w)
           \/ \E w \in Workers : Refresh(w)
    <2>1. UNCHANGED monitorVars
        BY <1>2 DEF Start, ChangeHealth, Debounce, Refresh
    <2> QED BY <1>2, <2>1, LoopTypes DEF TodoTracked
<1>3. ASSUME NEW w \in Workers, Update(w) PROVE TypeOK' /\ TodoTracked'
    <2>1. UNCHANGED monitorVars
        BY <1>3 DEF Update, DiscoverContainers, DiscoverContainersFails, HealthCheck,
                    UpdateDeployments, ReplaceTables, Push, PushFails,
                    RefreshCertificates,
                    RefreshCertificatesFails, StopContainers, RemoveContainers,
                    StopContainersFails
    <2> QED BY <1>3, <2>1, UpdateTypes DEF TodoTracked
<1>4. ASSUME NEW w \in Workers, Outcome(w) PROVE TypeOK' /\ TodoTracked'
    <2>1. UNCHANGED monitorVars
        BY <1>4 DEF Outcome, OutcomeFailed, OutcomeComplete, OutcomeLogged, Cleanup
    <2> QED BY <1>4, <2>1, OutcomeTypes DEF TodoTracked
<1>5. CASE Round
    BY <1>5, RoundTypes
<1> QED BY <1>1, <1>2, <1>3, <1>4, <1>5 DEF Next

(* The types of Rollout's variables (haloyd's loop, its updates, and its   *)
(* health monitor, whose counters stay at or below their thresholds).      *)
THEOREM TypeCorrect == Spec => []TypeOK
BY InitTypes, StepTypes, PTL DEF Spec

------------------------------------------------------------------------------
(* What is routed has been checked                                         *)

(* What an update has found healthy, what is in the table of deployments,  *)
(* what the monitor has read from it or built, and what is routed.         *)
AllChecked ==
    /\ update.healthy \subseteq checked
    /\ \A a \in Apps : deployments[a] \subseteq checked
    /\ \A a \in Apps : monitor.table[a] \subseteq checked
    /\ Backends(monitor.snapshot) \subseteq checked
    /\ BackendsChecked

LEMMA StepChecked ==
    ASSUME TypeOK, AllChecked, [Next]_vars
    PROVE  AllChecked'
<1> USE DEF dockerVars, updaterVars, tableVars, monitorVars
<1>1. CASE UNCHANGED <<update, deployments, monitor, last, checked>>
    BY <1>1 DEF AllChecked, BackendsChecked
<1>2. CASE UNCHANGED <<deployments, monitor, last, checked>> /\ update' = NoUpdate
    BY <1>2 DEF AllChecked, BackendsChecked, NoUpdate
<1>3. ASSUME NEW w \in Workers, Update(w) PROVE AllChecked'
    <2>1. CASE DiscoverContainers(w)
        <3>1. update'.healthy = {}
            BY <2>1 DEF DiscoverContainers, NoUpdate
        <3> QED BY <2>1, <3>1 DEF DiscoverContainers, AllChecked, BackendsChecked
    <2>2. ASSUME NEW i \in Instances, HealthCheck(w, i) PROVE AllChecked'
        <3>1. \/ /\ update' = [update EXCEPT !.todo = @ \ {i}, !.healthy = @ \cup {i}]
                 /\ checked' = checked \cup {i}
              \/ /\ update' = [update EXCEPT !.todo = @ \ {i}, !.failed = @ \cup {i}]
                 /\ checked' = checked
            BY <2>2 DEF HealthCheck
        <3>2. \/ update'.healthy = update.healthy \cup {i} /\ checked' = checked \cup {i}
              \/ update'.healthy = update.healthy /\ checked' = checked
            BY <3>1 DEF TypeOK, TablesTyped
        <3>3. update'.healthy \subseteq checked' /\ checked \subseteq checked'
            BY <3>2 DEF AllChecked
        <3> QED BY <2>2, <3>3 DEF HealthCheck, AllChecked, BackendsChecked
    <2>3. CASE UpdateDeployments(w)
        <3>1. \A a \in Apps : deployments'[a] \subseteq checked
            BY <2>3, HealthyType DEF UpdateDeployments, ReplaceTables, AllChecked,
                                     TypeOK, TablesTyped
        <3>2. update' = update \/ update' = NoUpdate
            BY <2>3 DEF UpdateDeployments, ReplaceTables, Return
        <3>3. update'.healthy \subseteq checked
            BY <3>2 DEF AllChecked, NoUpdate
        <3> QED BY <2>3, <3>1, <3>3 DEF UpdateDeployments, ReplaceTables, AllChecked,
                                        BackendsChecked
    <2>4. CASE Push(w)
        <3>1. Backends(last') \subseteq UNION {deployments[a] : a \in Apps}
            BY <2>4, SnapshotFacts DEF Push, TypeOK, TablesTyped
        <3>2. Backends(last') \subseteq checked
            BY <3>1 DEF AllChecked
        <3> QED BY <2>4, <3>2 DEF Push, AllChecked, BackendsChecked
    <2>5. CASE RefreshCertificates(w)
        <3>1. update' = update \/ update' = NoUpdate
            BY <2>5 DEF RefreshCertificates, Return
        <3> QED BY <1>1, <1>2, <2>5, <3>1 DEF RefreshCertificates
    <2>6. CASE \/ DiscoverContainersFails(w) \/ PushFails(w)
               \/ RefreshCertificatesFails(w) \/ StopContainersFails(w)
        BY <1>2, <2>6 DEF DiscoverContainersFails, PushFails, RefreshCertificatesFails,
                          StopContainersFails, ReturnError
    <2>7. CASE StopContainers(w)
        BY <1>1, <2>7 DEF StopContainers
    <2>8. CASE RemoveContainers(w)
        BY <1>2, <2>8 DEF RemoveContainers, Return
    <2> QED BY <1>3, <2>1, <2>2, <2>3, <2>4, <2>5, <2>6, <2>7, <2>8 DEF Update
<1>4. ASSUME NEW w \in Workers, Outcome(w) PROVE AllChecked'
    BY <1>1, <1>4 DEF Outcome, OutcomeFailed, OutcomeComplete, OutcomeLogged, Cleanup
<1>5. CASE Round
    <2>1. \A a \in Apps : Resting.table[a] = {}
        BY DEF Resting, NoDeployments
    <2>2. Backends(Resting.snapshot) = {}
        BY DEF Resting, Backends
    <2>3. CASE BeginRound
        <3>1. monitor'.table = Resting.table /\ monitor'.snapshot = Resting.snapshot
            BY <2>3 DEF BeginRound, Resting
        <3> QED BY <2>1, <2>2, <2>3, <3>1 DEF BeginRound, AllChecked, BackendsChecked
    <2>4. ASSUME NEW i \in Instances, CheckTarget(i) PROVE AllChecked'
        <3>1. monitor'.table = monitor.table /\ monitor'.snapshot = monitor.snapshot
            BY <2>4 DEF CheckTarget, TypeOK, TablesTyped
        <3> QED BY <2>4, <3>1 DEF CheckTarget, AllChecked, BackendsChecked
    <2>5. CASE EndRound
        <3>1. \/ monitor' = Resting
              \/ monitor'.table = deployments /\ monitor'.snapshot = monitor.snapshot
            BY <2>5 DEF EndRound, TypeOK, TablesTyped
        <3> QED BY <2>1, <2>2, <2>5, <3>1 DEF EndRound, AllChecked, BackendsChecked
    <2>6. CASE BuildSnapshot
        <3> DEFINE built == Snapshot(monitor.table, failedDeployments, monitor.healthy)
        <3>1. monitor'.table = Resting.table /\ monitor'.snapshot = built
            BY <2>6 DEF BuildSnapshot, Resting
        <3>2. Backends(built) \subseteq UNION {monitor.table[a] : a \in Apps}
            BY SnapshotFacts DEF TypeOK, TablesTyped
        <3>3. Backends(built) \subseteq checked
            BY <3>2 DEF AllChecked
        <3> HIDE DEF built
        <3> QED BY <2>1, <2>6, <3>1, <3>3 DEF BuildSnapshot, AllChecked, BackendsChecked
    <2>7. CASE PushFromMonitor
        <3>1. Backends(last') \subseteq checked
            BY <2>7 DEF PushFromMonitor, AllChecked, BackendsChecked
        <3> QED BY <2>1, <2>2, <2>7, <3>1 DEF PushFromMonitor, AllChecked, BackendsChecked
    <2> QED BY <1>5, <2>3, <2>4, <2>5, <2>6, <2>7 DEF Round
<1>6. CASE \/ \E i \in Instances : Start(i) \/ ChangeHealth(i)
           \/ \E a \in Apps, w \in Workers : Debounce(a, w)
           \/ \E w \in Workers : Refresh(w)
    BY <1>1, <1>6 DEF Start, ChangeHealth, Debounce, Refresh
<1> QED BY <1>1, <1>3, <1>4, <1>5, <1>6 DEF Next, vars

(* Whatever fails, and however the monitor's rounds and the updates        *)
(* interleave, no route leads to a container that has never passed a       *)
(* health check (updater.go, state.go, health_updater.go).                 *)
THEOREM NeverUnchecked == Spec => []BackendsChecked
<1>1. Init => AllChecked
    BY DEF Init, NoTables, AllChecked, BackendsChecked, Backends, NoUpdate,
           NoDeployments, Resting
<1>2. TypeOK /\ AllChecked /\ [Next]_vars => AllChecked'
    BY StepChecked
<1>3. AllChecked => BackendsChecked
    BY DEF AllChecked
<1> QED BY <1>1, <1>2, <1>3, TypeCorrect, PTL DEF Spec

------------------------------------------------------------------------------
(* What is routed is what the tables say                                   *)

(* Only the holder of Updater.mu is inside an update.                      *)
Inside(w) == job[w].pc \in {"check", "push", "certs", "stop", "remove"}
MutexHeld == \A w \in Workers : Inside(w) => mu = w

(* The tables and the recorded routes differ only while somebody is about  *)
(* to push.                                                                *)
PushedOrPushing ==
    (\A w \in Workers : job[w].pc # "push") =>
        last = Snapshot(deployments, failedDeployments, Instances)

(* An update starts with waiting for the mutex.                            *)
LEMMA StartFacts ==
    ASSUME TypeOK, NEW w \in Workers, Refresh(w) \/ \E a \in Apps : Debounce(a, w)
    PROVE  /\ job'[w].pc = "wait" /\ mu' = mu
           /\ \A v \in Workers \ {w} : job'[v] = job[v]
<1>1. PICK new : job' = [job EXCEPT ![w] = new] /\ new.pc = "wait"
    <2>1. CASE Refresh(w)
        <3>1. [Idle EXCEPT !.pc = "wait", !.reason = "refresh"].pc = "wait"
            BY DEF Idle
        <3> QED BY <2>1, <3>1 DEF Refresh
    <2>2. ASSUME NEW a \in Apps, Debounce(a, w)
          PROVE  \E new : job' = [job EXCEPT ![w] = new] /\ new.pc = "wait"
        <3> DEFINE new(dep, start) == [pc |-> "wait", reason |-> "app", app |-> a,
                                       dep |-> dep, start |-> start, failed |-> FALSE]
        <3>1. \E dep, start : job' = [job EXCEPT ![w] = new(dep, start)]
            BY <2>2 DEF Debounce
        <3>2. \A dep, start : new(dep, start).pc = "wait"
            OBVIOUS
        <3> HIDE DEF new
        <3> QED BY <3>1, <3>2
    <2> QED BY <2>1, <2>2
<1>2. mu' = mu
    BY DEF Refresh, Debounce
<1> QED BY <1>1, <1>2 DEF TypeOK, TablesTyped

LEMMA StepMutex ==
    ASSUME TypeOK, MutexHeld, [Next]_vars
    PROVE  MutexHeld'
<1> USE DEF dockerVars, updaterVars, tableVars, monitorVars
<1>1. CASE UNCHANGED <<job, mu>>
    BY <1>1 DEF MutexHeld, Inside
<1>2. ASSUME NEW w \in Workers, ~Inside(w)', mu' = mu,
             \A v \in Workers \ {w} : job'[v] = job[v]
      PROVE  MutexHeld'
    BY <1>2 DEF MutexHeld, Inside
<1>3. ASSUME NEW w \in Workers, mu = None \/ Inside(w), ~Inside(w)',
             \A v \in Workers \ {w} : job'[v] = job[v]
      PROVE  MutexHeld'
    BY <1>3, WorkersAssumption DEF MutexHeld, Inside
<1>4. ASSUME NEW w \in Workers, mu = None \/ Inside(w), mu' = w,
             \A v \in Workers \ {w} : job'[v] = job[v]
      PROVE  MutexHeld'
    BY <1>4, WorkersAssumption DEF MutexHeld, Inside
<1>5. ASSUME NEW w \in Workers, NEW pc \in PCs, Goto(w, pc), Inside(w), mu' = mu
      PROVE  MutexHeld'
    BY <1>4, <1>5, GotoFacts DEF MutexHeld
<1>6. ASSUME NEW w \in Workers, NEW failed \in BOOLEAN, mu = None \/ Inside(w),
             Return(w, failed) \/ ReturnError(w)
      PROVE  MutexHeld'
    <2>1. ~Inside(w)' /\ \A v \in Workers \ {w} : job'[v] = job[v]
        BY <1>6, ReturnFacts DEF Inside
    <2> QED BY <1>3, <1>6, <2>1
<1>7. ASSUME NEW w \in Workers, Update(w) PROVE MutexHeld'
    <2>1. CASE DiscoverContainers(w)
        BY <1>4, <2>1, GotoFacts DEF DiscoverContainers, PCs
    <2>2. CASE DiscoverContainersFails(w)
        BY <1>6, <2>2 DEF DiscoverContainersFails
    <2>3. CASE \E i \in Instances : HealthCheck(w, i)
        BY <1>1, <2>3 DEF HealthCheck
    <2>4. CASE UpdateDeployments(w)
        <3>1. (Goto(w, "push") /\ mu' = mu) \/ Return(w, AppFailed(w))
            BY <2>4 DEF UpdateDeployments, ReplaceTables
        <3>2. Inside(w) /\ AppFailed(w) \in BOOLEAN
            BY <2>4 DEF UpdateDeployments, ReplaceTables, Inside, AppFailed
        <3> QED BY <1>5, <1>6, <3>1, <3>2 DEF PCs
    <2>5. CASE Push(w)
        BY <1>5, <2>5 DEF Push, Inside, PCs
    <2>6. CASE RefreshCertificates(w)
        <3>1. (Goto(w, "stop") /\ mu' = mu) \/ Return(w, FALSE)
            BY <2>6 DEF RefreshCertificates
        <3>2. Inside(w)
            BY <2>6 DEF RefreshCertificates, Inside
        <3> QED BY <1>5, <1>6, <3>1, <3>2 DEF PCs
    <2>7. CASE PushFails(w) \/ RefreshCertificatesFails(w) \/ StopContainersFails(w)
        <3>1. Inside(w) /\ ReturnError(w)
            BY <2>7 DEF PushFails, RefreshCertificatesFails, StopContainersFails, Inside
        <3> QED BY <1>6, <3>1
    <2>8. CASE StopContainers(w)
        BY <1>5, <2>8 DEF StopContainers, Inside, PCs
    <2>9. CASE RemoveContainers(w)
        <3>1. Inside(w) /\ AppFailed(w) \in BOOLEAN /\ Return(w, AppFailed(w))
            BY <2>9 DEF RemoveContainers, Inside, AppFailed
        <3> QED BY <1>6, <3>1
    <2> QED BY <1>7, <2>1, <2>2, <2>3, <2>4, <2>5, <2>6, <2>7, <2>8, <2>9 DEF Update
<1>8. ASSUME NEW w \in Workers, Outcome(w) PROVE MutexHeld'
    <2>1. CASE OutcomeFailed(w)
        <3>1. Goto(w, "cleanup") /\ mu' = mu
            BY <2>1 DEF OutcomeFailed
        <3>2. ~Inside(w)' /\ \A v \in Workers \ {w} : job'[v] = job[v]
            BY <3>1, GotoFacts DEF PCs, Inside
        <3> QED BY <1>2, <3>1, <3>2
    <2>2. CASE OutcomeComplete(w) \/ OutcomeLogged(w) \/ Cleanup(w)
        <3>1. job' = [job EXCEPT ![w] = Idle] /\ mu' = mu
            BY <2>2 DEF OutcomeComplete, OutcomeLogged, Cleanup
        <3>2. ~Inside(w)' /\ \A v \in Workers \ {w} : job'[v] = job[v]
            BY <3>1, IdleType DEF Inside, TypeOK, TablesTyped
        <3> QED BY <1>2, <3>1, <3>2
    <2> QED BY <1>8, <2>1, <2>2 DEF Outcome
<1>9. CASE Round
    BY <1>1, <1>9 DEF Round, BeginRound, CheckTarget, EndRound, BuildSnapshot,
                      PushFromMonitor
<1>10. CASE \E i \in Instances : Start(i) \/ ChangeHealth(i)
    BY <1>1, <1>10 DEF Start, ChangeHealth
<1>11. ASSUME NEW w \in Workers, Refresh(w) \/ \E a \in Apps : Debounce(a, w)
       PROVE  MutexHeld'
    <2>1. /\ job'[w].pc = "wait" /\ mu' = mu
          /\ \A v \in Workers \ {w} : job'[v] = job[v]
        BY <1>11, StartFacts
    <2> QED BY <1>2, <2>1 DEF Inside
<1> QED BY <1>1, <1>7, <1>8, <1>9, <1>10, <1>11 DEF Next, vars

LEMMA StepPushed ==
    ASSUME ~Monitoring, "push" \notin Faults,
           TypeOK, MutexHeld, PushedOrPushing, monitor = Resting, [Next]_vars
    PROVE  PushedOrPushing' /\ monitor' = Resting
<1> USE DEF dockerVars, updaterVars, tableVars, monitorVars
<1>1. ASSUME NEW w \in Workers, UNCHANGED <<deployments, failedDeployments, last>>,
             job[w].pc # "push", \A v \in Workers \ {w} : job'[v] = job[v]
      PROVE  PushedOrPushing'
    BY <1>1 DEF PushedOrPushing
<1>2. CASE UNCHANGED <<job, deployments, failedDeployments, last, monitor>>
    BY <1>2 DEF PushedOrPushing
<1>3. ASSUME NEW w \in Workers, Update(w) PROVE PushedOrPushing' /\ UNCHANGED monitor
    <2>1. ASSUME job[w].pc # "push", UNCHANGED <<deployments, failedDeployments, last>>,
                 NEW failed \in BOOLEAN, NEW pc \in PCs,
                 Goto(w, pc) \/ Return(w, failed) \/ ReturnError(w)
          PROVE  PushedOrPushing'
        <3>1. \A v \in Workers \ {w} : job'[v] = job[v]
            BY <2>1, GotoFacts, ReturnFacts
        <3> QED BY <1>1, <2>1, <3>1
    <2>2. CASE DiscoverContainers(w)
        BY <2>1, <2>2 DEF DiscoverContainers, PCs
    <2>3. CASE \/ DiscoverContainersFails(w) \/ RefreshCertificatesFails(w)
               \/ StopContainersFails(w)
        BY <2>1, <2>3 DEF DiscoverContainersFails, RefreshCertificatesFails,
                          StopContainersFails, PCs
    <2>4. CASE \E i \in Instances : HealthCheck(w, i)
        BY <1>2, <2>4 DEF HealthCheck
    <2>5. CASE UpdateDeployments(w)
        <3> DEFINE new == Newest(update.healthy)
        <3>1. new \in Tables /\ deployments \in Tables /\ failedDeployments \in Tables
            BY HealthyType DEF TypeOK, TablesTyped
        <3>2. /\ deployments' = new
              /\ failedDeployments' = FailedAfter(failedDeployments, deployments, new)
              /\ UNCHANGED <<last, monitor>> /\ job[w].pc = "check"
            BY <2>5 DEF UpdateDeployments, ReplaceTables
        <3>3. \/ Goto(w, "push")
              \/ ~HasChanged(failedDeployments, deployments, new) /\ Return(w, AppFailed(w))
            BY <2>5 DEF UpdateDeployments, ReplaceTables
        <3> HIDE DEF new
        <3>4. CASE Goto(w, "push")
            <4>1. job'[w].pc = "push"
                BY <3>4, GotoFacts DEF PCs
            <4> QED BY <3>2, <4>1 DEF PushedOrPushing
        <3>5. CASE ~HasChanged(failedDeployments, deployments, new) /\ Return(w, AppFailed(w))
            <4>1. UNCHANGED <<deployments, failedDeployments>>
                BY <3>1, <3>2, <3>5, UnchangedTables, OneAddressAssumption
            <4>2. AppFailed(w) \in BOOLEAN
                BY DEF AppFailed
            <4> QED BY <2>1, <3>2, <3>5, <4>1, <4>2 DEF PCs
        <3> QED BY <3>2, <3>3, <3>4, <3>5
    <2>6. CASE Push(w)
        <3>1. \A v \in Workers : last' = Snapshot(deployments', failedDeployments', Instances)
            BY <2>6 DEF Push
        <3> QED BY <2>6, <3>1 DEF Push, PushedOrPushing
    <2>7. CASE PushFails(w)
        BY <2>7 DEF PushFails
    <2>8. CASE RefreshCertificates(w)
        <3>1. Goto(w, "stop") \/ Return(w, FALSE)
            BY <2>8 DEF RefreshCertificates
        <3> QED BY <2>1, <2>8, <3>1 DEF RefreshCertificates, PCs
    <2>9. CASE StopContainers(w)
        BY <2>1, <2>9 DEF StopContainers, PCs
    <2>10. CASE RemoveContainers(w)
        <3>1. AppFailed(w) \in BOOLEAN
            BY DEF AppFailed
        <3> QED BY <2>1, <2>10, <3>1 DEF RemoveContainers, PCs
    <2> QED BY <1>3, <2>2, <2>3, <2>4, <2>5, <2>6, <2>7, <2>8, <2>9, <2>10
            DEF Update, DiscoverContainers, DiscoverContainersFails, HealthCheck,
                RefreshCertificates, RefreshCertificatesFails, StopContainers,
                RemoveContainers, StopContainersFails, Push
<1>4. ASSUME NEW w \in Workers, Outcome(w) PROVE PushedOrPushing' /\ UNCHANGED monitor
    <2>1. /\ job[w].pc # "push"
          /\ UNCHANGED <<deployments, failedDeployments, last, monitor>>
          /\ Goto(w, "cleanup") \/ job' = [job EXCEPT ![w] = Idle]
        BY <1>4 DEF Outcome, OutcomeFailed, OutcomeComplete, OutcomeLogged, Cleanup
    <2>2. \A v \in Workers \ {w} : job'[v] = job[v]
        BY <2>1, GotoFacts DEF PCs, TypeOK, TablesTyped
    <2> QED BY <1>1, <2>1, <2>2
<1>5. ~Round
    BY DEF Round, BeginRound, CheckTarget, EndRound, BuildSnapshot, PushFromMonitor,
           Resting
<1>6. CASE \E i \in Instances : Start(i) \/ ChangeHealth(i)
    BY <1>2, <1>6 DEF Start, ChangeHealth
<1>7. ASSUME NEW w \in Workers, Refresh(w) \/ \E a \in Apps : Debounce(a, w)
      PROVE  PushedOrPushing' /\ UNCHANGED monitor
    <2>1. job[w] = Idle /\ UNCHANGED <<deployments, failedDeployments, last, monitor>>
        BY <1>7 DEF Refresh, Debounce
    <2>2. job[w].pc # "push" /\ \A v \in Workers \ {w} : job'[v] = job[v]
        BY <1>7, <2>1, StartFacts, IdleType
    <2> QED BY <1>1, <2>1, <2>2
<1> QED BY <1>2, <1>3, <1>4, <1>5, <1>6, <1>7 DEF Next, vars

(* While the health monitor is off and no push fails: whenever no update   *)
(* is running, the recorded routes are those of the tables, for updates    *)
(* that skip the push, that fail after it, and that run in any order       *)
(* (updater.go, Update).                                                   *)
THEOREM RoutesAreCurrent ==
    ~Monitoring /\ "push" \notin Faults => (Spec => []RoutesFollowTables)
<1> SUFFICES ASSUME ~Monitoring /\ "push" \notin Faults PROVE Spec => []RoutesFollowTables
    OBVIOUS
<1> DEFINE Inv == MutexHeld /\ PushedOrPushing /\ monitor = Resting
<1>1. Init => Inv
    <2> SUFFICES ASSUME Init PROVE Inv
        OBVIOUS
    <2>1. \A w \in Workers : job[w].pc \in {"idle", "wait"}
        BY DEF Init, NoTables, Idle
    <2>2. Snapshot(NoDeployments, NoDeployments, Instances) = {}
        BY DEF Snapshot, NoDeployments
    <2> QED BY <2>1, <2>2 DEF Init, NoTables, MutexHeld, Inside, PushedOrPushing
<1>2. TypeOK /\ Inv /\ [Next]_vars => Inv'
    BY StepMutex, StepPushed
<1>3. TypeOK /\ Inv => RoutesFollowTables
    BY WorkersAssumption DEF RoutesFollowTables, MutexHeld, Inside, PushedOrPushing
<1> QED BY <1>1, <1>2, <1>3, TypeCorrect, PTL DEF Spec

------------------------------------------------------------------------------
(* The updates implement the tables' specification                         *)

(* An update finds at most one instance of every container healthy.        *)
LEMMA HealthyResult ==
    ASSUME TypeOK
    PROVE  update.healthy \in HealthCheckResults
<1>1. update.healthy \in SUBSET Instances
    BY DEF TypeOK
<1> QED BY <1>1, OneAddressAssumption DEF HealthCheckResults

(* Only UpdateDeployments touches the tables.                              *)
LEMMA StepReplaces ==
    ASSUME TypeOK, [Next]_vars
    PROVE  [TableNext]_tableVars /\ (last' # last => UNCHANGED tableVars)
<1> USE DEF dockerVars, updaterVars, tableVars, monitorVars
<1>1. ASSUME NEW w \in Workers, UpdateDeployments(w)
      PROVE  TableNext /\ last' = last
    BY <1>1, HealthyResult DEF UpdateDeployments, TableNext
<1>2. ASSUME NEW w \in Workers, Update(w), ~UpdateDeployments(w)
      PROVE  UNCHANGED tableVars
    BY <1>2 DEF Update, DiscoverContainers, DiscoverContainersFails, HealthCheck, Push,
                PushFails, RefreshCertificates, RefreshCertificatesFails, StopContainers,
                RemoveContainers, StopContainersFails
<1>3. ASSUME NEW w \in Workers, Outcome(w)
      PROVE  UNCHANGED tableVars
    BY <1>3 DEF Outcome, OutcomeFailed, OutcomeComplete, OutcomeLogged, Cleanup
<1>4. CASE Round
    BY <1>4 DEF Round, BeginRound, CheckTarget, EndRound, BuildSnapshot, PushFromMonitor
<1>5. CASE \/ \E i \in Instances : Start(i) \/ ChangeHealth(i)
           \/ \E a \in Apps, w \in Workers : Debounce(a, w)
           \/ \E w \in Workers : Refresh(w)
    BY <1>5 DEF Start, ChangeHealth, Debounce, Refresh
<1>6. CASE UNCHANGED vars
    BY <1>6 DEF vars
<1> QED BY <1>1, <1>2, <1>3, <1>4, <1>5, <1>6 DEF Next

(* Whatever updates run, fail or interleave with the monitor: the tables   *)
(* behave as a sequence of whole UpdateDeployments calls would have them   *)
(* (updater.go and haloyd.go, against deployments.go).                     *)
THEOREM TablesImplemented == Spec => TableSpec
<1>1. Init => NoTables
    BY DEF Init
<1>2. TypeOK /\ [Next]_vars => [TableNext]_tableVars
    BY StepReplaces
<1> QED BY <1>1, <1>2, TypeCorrect, PTL DEF Spec, TableSpec

(* So what holds of the tables holds in every run of haloyd.               *)
THEOREM TablesInRollout == Spec => [](NeverMixed /\ FailedYield) /\ RoutesKept /\ FailedNeverCollide
BY TablesImplemented, NoMixedRoutes, FailedGiveWay, RoutesAreKept, FailedNeverCollides, PTL

------------------------------------------------------------------------------
(* Apps stay routed                                                        *)

(* No two apps share a host, whichever of their deployments run.           *)
HostsApart ==
    \A i, j \in Instances : App(i) # App(j) => Labels[i].hosts \cap Labels[j].hosts = {}

HasEntry(a) == deployments[a] # {} \/ failedDeployments[a] # {}

(* Then a table's entry never gives way to another app's.                  *)
LEMMA EntriesStay ==
    ASSUME HostsApart, TablesIInv, [TableNext]_tableVars, NEW a \in Apps, HasEntry(a)
    PROVE  HasEntry(a)'
<1>1. CASE UNCHANGED tableVars
    BY <1>1 DEF tableVars, HasEntry
<1>2. ASSUME NEW healthy \in HealthCheckResults, ReplaceTables(healthy)
      PROVE  HasEntry(a)'
    <2> DEFINE new == Newest(healthy)
               entry == IF deployments[a] # {} THEN deployments[a] ELSE failedDeployments[a]
    <2>1. /\ healthy \in SUBSET Instances
          /\ deployments \in Tables /\ failedDeployments \in Tables
          /\ new \in Tables
          /\ deployments' = new
          /\ failedDeployments' = FailedAfter(failedDeployments, deployments, new)
        BY <1>2, NewestType DEF TablesIInv, TablesTyped, HealthCheckResults, ReplaceTables
    <2>2. entry # {} /\ \A i \in entry : i \in Instances /\ App(i) = a
        BY <2>1 DEF HasEntry, TablesIInv, NeverMixed, OneDeployment, Tables
    <2>3. \A b \in Apps : \A j \in new[b] : j \in Instances /\ App(j) = b
        BY <2>1 DEF Newest
    <2>4. failedDeployments'[a] = IF new[a] # {} \/ Overlaps(entry, new) THEN {} ELSE entry
        BY <2>1 DEF FailedAfter
    <2> HIDE DEF new, entry
    <2>5. CASE new[a] # {}
        BY <2>1, <2>5 DEF HasEntry
    <2>6. CASE new[a] = {}
        <3>1. ~Overlaps(entry, new)
            <4> SUFFICES ASSUME NEW i \in entry, NEW b \in Apps, NEW j \in new[b],
                                Labels[i].hosts \cap Labels[j].hosts # {}
                         PROVE  FALSE
                BY DEF Overlaps, AllHosts, HostsOf
            <4>1. i \in Instances /\ j \in Instances /\ App(i) = a /\ App(j) = b /\ b # a
                BY <2>2, <2>3, <2>6
            <4> QED BY <4>1 DEF HostsApart
        <3> QED BY <2>2, <2>4, <2>6, <3>1 DEF HasEntry
    <2> QED BY <2>5, <2>6
<1> QED BY <1>1, <1>2 DEF TableNext

RoutedHaveEntries == \A r \in last : r.app \in Apps /\ HasEntry(r.app)

(* Without the monitor, routes are only pushed from the tables.            *)
LEMMA StepLast ==
    ASSUME ~Monitoring, monitor = Resting, TypeOK, [Next]_vars
    PROVE  /\ monitor' = Resting
           /\ last' = last \/ last' = Snapshot(deployments, failedDeployments, Instances)
<1> USE DEF dockerVars, updaterVars, tableVars, monitorVars
<1>1. ASSUME NEW w \in Workers, Update(w)
      PROVE  /\ UNCHANGED monitor
             /\ last' = last \/ last' = Snapshot(deployments, failedDeployments, Instances)
    BY <1>1 DEF Update, DiscoverContainers, DiscoverContainersFails, HealthCheck, Push,
                UpdateDeployments, PushFails, RefreshCertificates,
                RefreshCertificatesFails,
                StopContainers, RemoveContainers, StopContainersFails
<1>2. ASSUME NEW w \in Workers, Outcome(w)
      PROVE  UNCHANGED <<monitor, last>>
    BY <1>2 DEF Outcome, OutcomeFailed, OutcomeComplete, OutcomeLogged, Cleanup
<1>3. ~Round
    BY DEF Round, BeginRound, CheckTarget, EndRound, BuildSnapshot, PushFromMonitor,
           Resting
<1>4. CASE \/ \E i \in Instances : Start(i) \/ ChangeHealth(i)
           \/ \E a \in Apps, w \in Workers : Debounce(a, w)
           \/ \E w \in Workers : Refresh(w)
    BY <1>4 DEF Start, ChangeHealth, Debounce, Refresh
<1>5. CASE UNCHANGED vars
    BY <1>5 DEF vars
<1> QED BY <1>1, <1>2, <1>3, <1>4, <1>5 DEF Next

LEMMA StepEntries ==
    ASSUME ~Monitoring, HostsApart, monitor = Resting, TypeOK, TablesIInv,
           RoutedHaveEntries, [Next]_vars
    PROVE  RoutedHaveEntries' /\ {r.app : r \in last} \subseteq {r.app : r \in last'}
<1> DEFINE tables == Snapshot(deployments, failedDeployments, Instances)
<1>1. [TableNext]_tableVars /\ (last' # last => UNCHANGED tableVars)
    BY StepReplaces
<1>2. \A a \in Apps : HasEntry(a) => HasEntry(a)'
    BY <1>1, EntriesStay
<1>3. deployments \in Tables /\ failedDeployments \in Tables /\ tables \in SUBSET Routes
    BY SnapshotFacts DEF TypeOK, TablesTyped
<1>4. \A a \in Apps : (\E r \in tables : r.app = a) <=> HasEntry(a)
    BY <1>3, RoutedIff DEF HasEntry
<1>5. \A r \in tables : r.app \in Apps
    BY <1>3 DEF Routes
<1> HIDE DEF tables
<1>6. CASE last' = last
    BY <1>2, <1>6 DEF RoutedHaveEntries
<1>7. CASE last' = tables /\ last' # last
    <2>1. \A r \in last' : r.app \in Apps /\ HasEntry(r.app)
        BY <1>4, <1>5, <1>7
    <2>2. \A r \in last : \E q \in last' : q.app = r.app
        BY <1>4, <1>7 DEF RoutedHaveEntries
    <2> QED BY <1>2, <2>1, <2>2 DEF RoutedHaveEntries
<1> QED BY <1>6, <1>7, StepLast DEF tables

(* While the health monitor is off and no two apps share a host: an app    *)
(* that is routed stays routed, whatever fails or is retried, and also     *)
(* while its containers are replaced or all of them are unhealthy          *)
(* (deployments.go: "keep routes for these apps").                         *)
THEOREM RoutedAppsStay ==
    ~Monitoring /\ HostsApart => (Spec => AppsStayRouted)
<1> SUFFICES ASSUME ~Monitoring /\ HostsApart PROVE Spec => AppsStayRouted
    OBVIOUS
<1> DEFINE Inv == RoutedHaveEntries /\ monitor = Resting
<1>1. Init => Inv
    BY DEF Init, RoutedHaveEntries
<1>2. TypeOK /\ TablesIInv /\ Inv /\ [Next]_vars => Inv'
    BY StepEntries, StepLast
<1>3. TypeOK /\ TablesIInv /\ Inv /\ [Next]_vars =>
          [{r.app : r \in last} \subseteq {r.app : r \in last'}]_vars
    BY StepEntries
<1> QED BY <1>1, <1>2, <1>3, TypeCorrect, TablesImplemented, TablesInductive, PTL
        DEF Spec, AppsStayRouted

==============================================================================
