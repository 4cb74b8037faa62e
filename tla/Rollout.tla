------------------------------- MODULE Rollout -------------------------------
(***************************************************************************)
(* haloyd's control loop: containers start and stop, Docker's events are   *)
(* debounced per app, every debounced event runs one Updater.Update, and   *)
(* an update checks all containers, rebuilds the deployment tables, pushes *)
(* the routes and removes the app's old containers (internal/haloyd:       *)
(* haloyd.go, updater.go, deployments.go; internal/docker/container.go).   *)
(* Beside it the health monitor checks the routed containers and pushes    *)
(* routes of its own (internal/healthcheck, health_updater.go).            *)
(*                                                                         *)
(* Composed from other modules: the debouncer is AppDebouncer without its  *)
(* clock (a batch may be announced at any time), the tables are those of   *)
(* DeploymentTable, and Push stands for ProxySync up to the point where    *)
(* the snapshot is in Client.last, from where ProxySync delivers it.       *)
(*                                                                         *)
(* A container keeps its address here; DeploymentTable says what happens   *)
(* when it changes.                                                        *)
(***************************************************************************)
EXTENDS DeploymentTable, FiniteSets

CONSTANTS
    Workers,    (* Main and the goroutines that run updates.               *)
    Main,       (* haloyd's main goroutine: the initial update.            *)
    Monitoring, (* HealthMonitor.IsEnabled                                 *)
    Fall, Rise, (* The health monitor's thresholds.                        *)
    Maintenance,(* Whether maintenance and resync updates happen.          *)
    Faults,     (* What may go wrong: "docker", "push", "cert", "stop" and *)
                (* "cleanup" (listing or inspecting containers, pushing,   *)
                (* refreshing certificates, stopping or removing old or    *)
                (* failed containers fails), "unfit" (a container never    *)
                (* answers its health checks) and "sick" (it stops         *)
                (* answering, or begins to).                               *)
    None

ASSUME InstancesAssumption == IsFiniteSet(Instances)
ASSUME WorkersAssumption == Main \in Workers /\ None \notin Workers \cup Apps
ASSUME ThresholdsAssumption == Fall \in Nat \ {0} /\ Rise \in Nat \ {0}
ASSUME OneAddressAssumption ==
    \A i, j \in Instances : Container[i] = Container[j] => i = j

VARIABLES
    container,  (* The Docker state of each container: "up" answers health *)
                (* checks, "sick" runs but does not.                       *)
    captured,   (* appDebouncer.capturedEvents[a], as a set.               *)
    job,        (* job[w]: the worker's update and how far it is.          *)
    mu,         (* The worker that holds Updater.mu, or None.              *)
    update,     (* The update in progress: containers discovered and still *)
                (* to check, found healthy, and found failing.             *)
    last,       (* Client.last: the routes on their way to the proxy.      *)
    tracker,    (* StateTracker.entries; None: no entry.                   *)
    monitor,    (* The health monitor's round in progress.                 *)
    checked     (* History: instances that have passed an update's check.  *)

dockerVars == <<container, captured>>
updaterVars == <<job, mu, update>>
monitorVars == <<tracker, monitor>>
vars == <<dockerVars, updaterVars, tableVars, monitorVars, last, checked>>

IDs == {ID(i) : i \in Instances}
Events == [dep : IDs, start : BOOLEAN]
Routes == [app : Apps, hosts : SUBSET Hosts, backends : SUBSET Instances]

Idle == [pc |-> "idle", reason |-> None, app |-> None, dep |-> 0,
         start |-> FALSE, failed |-> FALSE]
Jobs == [pc : {"idle", "wait", "check", "push", "certs", "stop", "remove",
               "outcome", "cleanup"},
         reason : {"initial", "app", "refresh", None},
         app : Apps \cup {None}, dep : IDs \cup {0},
         start : BOOLEAN, failed : BOOLEAN]

NoUpdate == [todo |-> {}, healthy |-> {}, failed |-> {}]
Resting == [pc |-> "rest", todo |-> {}, changed |-> FALSE, healthy |-> {},
            table |-> NoDeployments, snapshot |-> {}]

(* A target changes its state in the step in which a counter reaches its   *)
(* threshold.                                                              *)
Entries == {e \in [healthy : BOOLEAN, failures : 0 .. Fall, successes : 0 .. Rise] :
               IF e.healthy THEN e.failures < Fall ELSE e.successes < Rise}

TypeOK ==
    /\ container \in [Instances -> {"new", "up", "sick", "stopped", "removed"}]
    /\ captured \in [Apps -> SUBSET Events]
    /\ job \in [Workers -> Jobs]
    /\ mu \in Workers \cup {None}
    /\ update \in [todo : SUBSET Instances, healthy : SUBSET Instances,
                   failed : SUBSET Instances]
    /\ TablesTyped
    /\ last \subseteq Routes
    /\ tracker \in [Instances -> {None} \cup Entries]
    /\ monitor \in [pc : {"rest", "check", "build", "push"},
                    todo : SUBSET Instances, changed : BOOLEAN,
                    healthy : SUBSET Instances, table : Tables,
                    snapshot : SUBSET Routes]
    /\ checked \subseteq Instances

Init ==
    /\ container = [i \in Instances |-> "new"]
    /\ captured = [a \in Apps |-> {}]
    /\ job = [w \in Workers |-> IF w = Main THEN [Idle EXCEPT !.pc = "wait", !.reason = "initial"]
                                ELSE Idle]
    /\ mu = None
    /\ update = NoUpdate
    /\ NoTables
    /\ last = {}
    /\ tracker = [i \in Instances |-> None]
    /\ monitor = Resting
    /\ checked = {}

Running == {i \in Instances : container[i] \in {"up", "sick"}}
Existing == {i \in Instances : container[i] \notin {"new", "removed"}}
InitialUpdateDone == job[Main].pc = "idle"

------------------------------------------------------------------------------
(* Containers                                                              *)

(* DeployApp starts the next container of an app's newest deployment.      *)
Start(i) ==
    /\ container[i] = "new"
    /\ \A j \in Instances : App(j) = App(i) /\ ID(j) > ID(i) => container[j] = "new"
    /\ \E health \in {"up"} \cup (IF "unfit" \in Faults THEN {"sick"} ELSE {}) :
         container' = [container EXCEPT ![i] = health]
    /\ captured' = [captured EXCEPT ![App(i)] = @ \cup {[dep |-> ID(i), start |-> TRUE]}]
    /\ UNCHANGED <<updaterVars, tableVars, monitorVars, last, checked>>

(* A running container stops answering, or answers again; Docker has no    *)
(* event for it.                                                           *)
ChangeHealth(i) ==
    /\ "sick" \in Faults
    /\ i \in Running
    /\ container' = [container EXCEPT ![i] = IF @ = "up" THEN "sick" ELSE "up"]
    /\ UNCHANGED <<captured, updaterVars, tableVars, monitorVars, last, checked>>

(* The containers in "these" end up in the given state; those that were    *)
(* running cause kill, die and stop events.                                *)
Halt(these, state) ==
    /\ container' = [i \in Instances |-> IF i \in these THEN state ELSE container[i]]
    /\ captured' = [a \in Apps |-> captured[a] \cup
           {[dep |-> ID(i), start |-> FALSE] : i \in {j \in these \cap Running : App(j) = a}}]

------------------------------------------------------------------------------
(* The main loop starts updates                                            *)

Goto(w, pc) == job' = [job EXCEPT ![w].pc = pc]

(* Mutant: only starts are announced.                                      *)
DebounceStarts(a, w) ==
    /\ InitialUpdateDone
    /\ w # Main
    /\ \E e \in captured[a] : e.start
    /\ job[w] = Idle
    /\ \E newest \in captured[a] :
         /\ \A e \in captured[a] : e.dep <= newest.dep
         /\ job' = [job EXCEPT ![w] = [pc |-> "wait", reason |-> "app", app |-> a,
                       dep |-> newest.dep, start |-> TRUE, failed |-> FALSE]]
    /\ captured' = [captured EXCEPT ![a] = {}]
    /\ UNCHANGED <<container, mu, update, tableVars, monitorVars, last, checked>>

(* The debouncer announces what it has captured for an app: the newest     *)
(* deployment, and whether anything was started.                           *)
Debounce(a, w) ==
    /\ InitialUpdateDone
    /\ w # Main
    /\ captured[a] # {}
    /\ job[w] = Idle
    /\ \E newest \in captured[a] :
         /\ \A e \in captured[a] : e.dep <= newest.dep
         /\ job' = [job EXCEPT ![w] = [pc |-> "wait", reason |-> "app", app |-> a,
                       dep |-> newest.dep, start |-> \E e \in captured[a] : e.start,
                       failed |-> FALSE]]
    /\ captured' = [captured EXCEPT ![a] = {}]
    /\ UNCHANGED <<container, mu, update, tableVars, monitorVars, last, checked>>

(* The maintenance ticker, or a resync after the event stream was lost.    *)
Refresh(w) ==
    /\ Maintenance
    /\ InitialUpdateDone
    /\ w # Main
    /\ job[w] = Idle
    /\ job' = [job EXCEPT ![w] = [Idle EXCEPT !.pc = "wait", !.reason = "refresh"]]
    /\ UNCHANGED <<dockerVars, mu, update, tableVars, monitorVars, last, checked>>

------------------------------------------------------------------------------
(* Updater.Update, under Updater.mu                                        *)

(* It returns nil: an app's goroutine goes on to judge the outcome...      *)
Return(w, failed) ==
    /\ mu' = None
    /\ update' = NoUpdate
    /\ job' = [job EXCEPT ![w] = IF @.reason = "app"
                                 THEN [@ EXCEPT !.pc = "outcome", !.failed = failed]
                                 ELSE Idle]

(* Mutant: an error return that forgets the mutex.                         *)
ReturnErrorLocked(w) ==
    /\ update' = NoUpdate
    /\ job' = [job EXCEPT ![w] = Idle]
    /\ UNCHANGED mu

(* ... or an error, which is all the goroutine reports.                    *)
ReturnError(w) ==
    /\ mu' = None
    /\ update' = NoUpdate
    /\ job' = [job EXCEPT ![w] = Idle]

(* It locks the mutex and discovers the running containers.  One that      *)
(* cannot be inspected is left out, as a failure of no app.                *)
DiscoverContainers(w) ==
    /\ job[w].pc = "wait"
    /\ mu = None
    /\ mu' = w
    /\ \E found \in IF "docker" \in Faults THEN SUBSET Running ELSE {Running} :
         update' = [NoUpdate EXCEPT !.todo = found]
    /\ Goto(w, "check")
    /\ UNCHANGED <<dockerVars, tableVars, monitorVars, last, checked>>

(* Docker cannot list them.                                                *)
DiscoverContainersFails(w) ==
    /\ "docker" \in Faults
    /\ job[w].pc = "wait"
    /\ mu = None
    /\ ReturnError(w)
    /\ UNCHANGED <<dockerVars, tableVars, monitorVars, last, checked>>

(* Mutant: to be running is enough.                                        *)
HealthCheckRunning(w, i) ==
    /\ job[w].pc = "check"
    /\ i \in update.todo
    /\ update' = [update EXCEPT !.todo = @ \ {i}, !.healthy = @ \cup {i}]
    /\ checked' = IF container[i] = "up" THEN checked \cup {i} ELSE checked
    /\ UNCHANGED <<dockerVars, job, mu, tableVars, monitorVars, last>>

(* HealthCheckContainers: one container after the other.  One that cannot  *)
(* be inspected again has failed.                                          *)
HealthCheck(w, i) ==
    /\ job[w].pc = "check"
    /\ i \in update.todo
    /\ \/ /\ container[i] = "up"
          /\ update' = [update EXCEPT !.todo = @ \ {i}, !.healthy = @ \cup {i}]
          /\ checked' = checked \cup {i}
       \/ /\ container[i] # "up" \/ "docker" \in Faults
          /\ update' = [update EXCEPT !.todo = @ \ {i}, !.failed = @ \cup {i}]
          /\ UNCHANGED checked
    /\ UNCHANGED <<dockerVars, job, mu, tableVars, monitorVars, last>>

AppFailed(w) == \E i \in update.failed : App(i) = job[w].app

(* Mutant: the new table is compared after it has replaced the old one.    *)
UpdateDeploymentsSwapped(w) ==
    /\ job[w].pc = "check"
    /\ update.todo = {}
    /\ LET new == Newest(update.healthy)
       IN  /\ deployments' = new
           /\ failedDeployments' = FailedAfter(failedDeployments, new, new)
           /\ IF HasChanged(failedDeployments, new, new) \/ job[w].reason = "initial"
              THEN Goto(w, "push") /\ UNCHANGED <<mu, update>>
              ELSE Return(w, AppFailed(w))
    /\ UNCHANGED <<dockerVars, monitorVars, last, checked>>

(* UpdateDeployments replaces the tables.  If they are as before, and this *)
(* is not the initial update, Update has nothing else to do.               *)
UpdateDeployments(w) ==
    /\ job[w].pc = "check"
    /\ update.todo = {}
    /\ ReplaceTables(update.healthy)
    /\ IF \/ HasChanged(failedDeployments, deployments, deployments')
          \/ job[w].reason = "initial"
       THEN Goto(w, "push") /\ UNCHANGED <<mu, update>>
       ELSE Return(w, AppFailed(w))
    /\ UNCHANGED <<dockerVars, monitorVars, last, checked>>

(* Mutant: failed apps are left out.                                       *)
PushActive(w) ==
    /\ job[w].pc = "push"
    /\ last' = Snapshot(deployments, NoDeployments, Instances)
    /\ Goto(w, "certs")
    /\ UNCHANGED <<dockerVars, mu, update, tableVars, monitorVars, checked>>

(* It pushes routes to every instance in the table.  An unreachable proxy  *)
(* is not an error: the snapshot is recorded.                              *)
Push(w) ==
    /\ job[w].pc = "push"
    /\ last' = Snapshot(deployments, failedDeployments, Instances)
    /\ Goto(w, "certs")
    /\ UNCHANGED <<dockerVars, mu, update, tableVars, monitorVars, checked>>

PushFails(w) ==
    /\ "push" \in Faults
    /\ job[w].pc = "push"
    /\ ReturnError(w)
    /\ UNCHANGED <<dockerVars, tableVars, monitorVars, last, checked>>

(* Certificates are refreshed; then only an app's update has old           *)
(* containers to stop.                                                     *)
RefreshCertificates(w) ==
    /\ job[w].pc = "certs"
    /\ IF job[w].reason = "app"
       THEN Goto(w, "stop") /\ UNCHANGED <<mu, update>>
       ELSE Return(w, FALSE)
    /\ UNCHANGED <<dockerVars, tableVars, monitorVars, last, checked>>

(* The synchronous refresh of an app's or of all certificates fails.       *)
RefreshCertificatesFails(w) ==
    /\ "cert" \in Faults
    /\ job[w].pc = "certs"
    /\ job[w].reason # "refresh"
    /\ ReturnError(w)
    /\ UNCHANGED <<dockerVars, tableVars, monitorVars, last, checked>>

(* StopContainers and RemoveContainers: all the app's containers but those *)
(* of the deployment that the update was triggered for.                    *)
Old(w) == {i \in Existing : App(i) = job[w].app /\ ID(i) # job[w].dep}

StopContainers(w) ==
    /\ job[w].pc = "stop"
    /\ Halt(Old(w), "stopped")
    /\ Goto(w, "remove")
    /\ UNCHANGED <<mu, update, tableVars, monitorVars, last, checked>>

RemoveContainers(w) ==
    /\ job[w].pc = "remove"
    /\ Halt(Old(w), "removed")
    /\ Return(w, AppFailed(w))
    /\ UNCHANGED <<tableVars, monitorVars, last, checked>>

(* Docker fails to stop, or to remove, some of them.                       *)
StopContainersFails(w) ==
    /\ "stop" \in Faults
    /\ job[w].pc \in {"stop", "remove"}
    /\ \E some \in SUBSET Old(w) :
         Halt(some, IF job[w].pc = "stop" THEN "stopped" ELSE "removed")
    /\ ReturnError(w)
    /\ UNCHANGED <<tableVars, monitorVars, last, checked>>

------------------------------------------------------------------------------
(* After Update, with the mutex released                                   *)

IsActive(a, dep) == \E i \in deployments[a] : ID(i) = dep

(* A started deployment that has failures and is not the active one has    *)
(* failed...                                                               *)
OutcomeFailed(w) ==
    /\ job[w].pc = "outcome"
    /\ job[w].start
    /\ job[w].failed /\ ~IsActive(job[w].app, job[w].dep)
    /\ Goto(w, "cleanup")
    /\ UNCHANGED <<dockerVars, mu, update, tableVars, monitorVars, last, checked>>

(* ... any other is announced as complete (LogDeploymentComplete)...       *)
OutcomeComplete(w) ==
    /\ job[w].pc = "outcome"
    /\ job[w].start
    /\ ~job[w].failed \/ IsActive(job[w].app, job[w].dep)
    /\ job' = [job EXCEPT ![w] = Idle]
    /\ UNCHANGED <<dockerVars, mu, update, tableVars, monitorVars, last, checked>>

(* ... and an update without a start only logs.                            *)
OutcomeLogged(w) ==
    /\ job[w].pc = "outcome"
    /\ ~job[w].start
    /\ job' = [job EXCEPT ![w] = Idle]
    /\ UNCHANGED <<dockerVars, mu, update, tableVars, monitorVars, last, checked>>

(* StopContainersByDeploymentID and RemoveContainersByDeploymentID.  That  *)
(* either of them fails is only logged.                                    *)
OfDeployment(w) == {i \in Existing : App(i) = job[w].app /\ ID(i) = job[w].dep}
Cleanup(w) ==
    /\ job[w].pc = "cleanup"
    /\ \/ Halt(OfDeployment(w), "removed")
       \/ /\ "cleanup" \in Faults
          /\ \E some \in SUBSET OfDeployment(w), state \in {"stopped", "removed"} :
                 Halt(some, state)
    /\ job' = [job EXCEPT ![w] = Idle]
    /\ UNCHANGED <<mu, update, tableVars, monitorVars, last, checked>>

------------------------------------------------------------------------------
(* The health monitor: runCheck and OnHealthChange                         *)

(* A round takes its targets from the deployments; SyncTargets forgets the *)
(* others and takes new ones to be healthy.  Without targets it does not   *)
(* even do that.                                                           *)
Targets == UNION {deployments[a] : a \in Apps}
Assumed == [healthy |-> TRUE, failures |-> 0, successes |-> 0]
BeginRound ==
    /\ Monitoring
    /\ InitialUpdateDone
    /\ monitor.pc = "rest"
    /\ Targets # {}
    /\ tracker' = [i \in Instances |-> IF i \notin Targets THEN None
                                       ELSE IF tracker[i] = None THEN Assumed
                                       ELSE tracker[i]]
    /\ monitor' = [Resting EXCEPT !.pc = "check", !.todo = Targets]
    /\ UNCHANGED <<dockerVars, updaterVars, tableVars, last, checked>>

AtMost(n, limit) == IF n > limit THEN limit ELSE n

(* RecordResult.  Counters beyond their threshold are all alike.           *)
Recorded(entry, success) ==
    LET failures == IF success THEN 0 ELSE AtMost(entry.failures + 1, Fall)
        successes == IF success THEN AtMost(entry.successes + 1, Rise) ELSE 0
    IN  [healthy |-> IF entry.healthy THEN failures < Fall ELSE successes >= Rise,
         failures |-> failures, successes |-> successes]

(* CheckAll checks one of the targets, and its result is recorded.         *)
CheckTarget(i) ==
    /\ monitor.pc = "check"
    /\ i \in monitor.todo
    /\ tracker' = [tracker EXCEPT ![i] = Recorded(@, container[i] = "up")]
    /\ monitor' = [monitor EXCEPT !.todo = @ \ {i},
                      !.changed = @ \/ tracker'[i].healthy # tracker[i].healthy]
    /\ UNCHANGED <<dockerVars, updaterVars, tableVars, last, checked>>

HealthyTargets == {i \in Instances : tracker[i] # None /\ tracker[i].healthy}

(* If any state has changed, OnHealthChange gets the healthy targets of    *)
(* this round and reads the deployments of now...                          *)
EndRound ==
    /\ monitor.pc = "check"
    /\ monitor.todo = {}
    /\ monitor' = IF monitor.changed
                  THEN [monitor EXCEPT !.pc = "build", !.healthy = HealthyTargets,
                                       !.table = deployments]
                  ELSE Resting
    /\ UNCHANGED <<dockerVars, updaterVars, tableVars, tracker, last, checked>>

(* ... then, separately, the failed deployments...                         *)
BuildSnapshot ==
    /\ monitor.pc = "build"
    /\ monitor' = [Resting EXCEPT !.pc = "push",
                     !.snapshot = Snapshot(monitor.table, failedDeployments, monitor.healthy)]
    /\ UNCHANGED <<dockerVars, updaterVars, tableVars, tracker, last, checked>>

(* ... and pushes what it has built, or fails to.                          *)
PushFromMonitor ==
    /\ monitor.pc = "push"
    /\ \/ last' = monitor.snapshot
       \/ "push" \in Faults /\ UNCHANGED last
    /\ monitor' = Resting
    /\ UNCHANGED <<dockerVars, updaterVars, tableVars, tracker, checked>>

------------------------------------------------------------------------------
Update(w) ==
    \/ DiscoverContainers(w) \/ DiscoverContainersFails(w)
    \/ \E i \in Instances : HealthCheck(w, i)
    \/ UpdateDeployments(w)
    \/ Push(w) \/ PushFails(w)
    \/ RefreshCertificates(w) \/ RefreshCertificatesFails(w)
    \/ StopContainers(w) \/ RemoveContainers(w) \/ StopContainersFails(w)

Outcome(w) == OutcomeFailed(w) \/ OutcomeComplete(w) \/ OutcomeLogged(w) \/ Cleanup(w)

Round ==
    \/ BeginRound
    \/ \E i \in Instances : CheckTarget(i)
    \/ EndRound
    \/ BuildSnapshot
    \/ PushFromMonitor

Next ==
    \/ \E i \in Instances : Start(i) \/ ChangeHealth(i)
    \/ \E a \in Apps, w \in Workers : Debounce(a, w)
    \/ \E w \in Workers : Refresh(w) \/ Update(w) \/ Outcome(w)
    \/ Round

Spec == Init /\ [][Next]_vars

(* Goroutines run, and a mutex everybody releases is got by everybody who  *)
(* waits for it.  Captured events are announced (AppDebouncer,             *)
(* StartAnnounced and CollectedInTime).  Nothing makes a container start,  *)
(* a maintenance update happen, or an error occur.                         *)
Fairness ==
    /\ \A w \in Workers : SF_vars(DiscoverContainers(w)) /\ WF_vars(Update(w) \/ Outcome(w))
    /\ \A a \in Apps : SF_vars(\E w \in Workers : Debounce(a, w))
    /\ WF_vars(Round)

FairSpec == Spec /\ Fairness

------------------------------------------------------------------------------
(* Properties                                                              *)

Backends(snapshot) == UNION {r.backends : r \in snapshot}

(* While the health monitor is off and no push fails, the recorded routes  *)
(* are those of the tables whenever no update is running: an update that   *)
(* finds nothing changed may skip its push, and an update that fails later *)
(* on, in certificates or in stopping, has pushed before (updater.go).     *)
RoutesFollowTables ==
    mu = None /\ InitialUpdateDone =>
        last = Snapshot(deployments, failedDeployments, Instances)

(* No route leads to a container that has never passed a health check,     *)
(* although the monitor assumes new targets to be healthy, and pushes from *)
(* an older health report and newer tables (state.go, health_updater.go).  *)
BackendsChecked == Backends(last) \subseteq checked

(* An app that is routed stays routed, if only to no backend               *)
(* (deployments.go: "keep routes for these apps (returning 502 instead of  *)
(* 404)").  The monitor's two reads of the tables break it.                *)
AppsStayRouted ==
    [][{r.app : r \in last} \subseteq {r.app : r \in last'}]_vars

(* In the end every app is routed to exactly the running containers of its *)
(* newest running deployment, whatever updates ran, in whichever order,    *)
(* and whether refreshing certificates or stopping containers failed       *)
(* (updater.go, Update).  A container that ever fails a check is only      *)
(* looked at again when something else happens, so nothing is promised     *)
(* then.                                                                   *)
RoutesConverge ==
    \/ <>(\E i \in Instances : container[i] = "sick")
    \/ <>[](\A a \in Apps : Backends({r \in last : r.app = a}) = Newest(Running)[a])

(* Every update ends, and in the end there is none: no return leaves       *)
(* Updater.mu locked, and the containers that updates stop and remove,     *)
(* whose events start updates again, do not keep them going (updater.go,   *)
(* haloyd.go).  Only maintenance goes on for ever.                         *)
UpdatesEnd == ~Maintenance => <>[](\A w \in Workers : job[w].pc = "idle")

==============================================================================
