----------------------------- MODULE Deployments -----------------------------
(***************************************************************************)
(* Deployments as haloyd keeps them in memory (internal/haloyd/            *)
(* deployments.go) and the routing snapshot it builds from them            *)
(* (internal/haloyd/proxy_config.go).                                      *)
(*                                                                         *)
(* A deployment is the set of its instances: they share the labels that    *)
(* the deployment was started with.  A table maps every app to a           *)
(* deployment; the empty set means that the app has no entry.              *)
(***************************************************************************)
EXTENDS Naturals

CONSTANTS
    Apps,
    Hosts,      (* Host names: canonical domains and aliases, lower case.  *)
    Instances,  (* A container with an IP address it had.                  *)
    Labels,     (* Labels[i]: the app, deployment ID and domains.          *)
    Container   (* Container[i]: the ID of the instance's container.       *)

App(i) == Labels[i].app
ID(i) == Labels[i].id

(* One deploy gives all its containers the same labels, and one container  *)
(* keeps its labels when its address changes.  DiscoverContainers skips    *)
(* containers without a domain.                                            *)
ASSUME LabelsAssumption ==
    /\ Labels \in [Instances -> [app : Apps, id : Nat, hosts : (SUBSET Hosts) \ {{}}]]
    /\ \A i, j \in Instances :
         App(i) = App(j) /\ ID(i) = ID(j) => Labels[i] = Labels[j]
    /\ \A i, j \in Instances :
         Container[i] = Container[j] => Labels[i] = Labels[j]

Tables == [Apps -> SUBSET Instances]
NoDeployments == [a \in Apps |-> {}]

(* Mutant: all healthy instances of the app.                               *)
NewestAndOlder(healthy) == [a \in Apps |-> {i \in healthy : App(i) = a}]

(* UpdateDeployments, its loop: for every app, the healthy instances with  *)
(* the highest deployment ID.                                              *)
Newest(healthy) ==
    [a \in Apps |-> {i \in healthy : /\ App(i) = a
                                     /\ \A j \in healthy : App(j) = a => ID(j) <= ID(i)}]

(* deploymentDomainSet and deploymentOverlapsDomains                       *)
HostsOf(deployment) == UNION {Labels[i].hosts : i \in deployment}
AllHosts(table) == UNION {HostsOf(table[a]) : a \in Apps}
Overlaps(deployment, table) == HostsOf(deployment) \cap AllHosts(table) # {}

(* instancesEqual compares container IDs, and nothing else.                *)
SameInstances(d, e) == {Container[i] : i \in d} = {Container[i] : i \in e}

(* Mutant: replicas that come or go are not noticed.                       *)
DeploymentsChangedByID(old, new) ==
    \E a \in Apps : {ID(i) : i \in old[a]} # {ID(i) : i \in new[a]}

(* compareDeployments finds a deployment added, removed or updated.        *)
DeploymentsChanged(old, new) == \E a \in Apps : ~SameInstances(old[a], new[a])

(* Mutant: it is remembered until the next update only.                    *)
FailedAfterOnce(failed, old, new) ==
    [a \in Apps |-> IF new[a] # {} \/ Overlaps(old[a], new) THEN {} ELSE old[a]]

(* Mutant: its hosts are compared only when it fails.                      *)
FailedAfterUnyielding(failed, old, new) ==
    [a \in Apps |->
        IF new[a] # {} THEN {}
        ELSE IF old[a] = {} THEN failed[a]
        ELSE IF Overlaps(old[a], new) THEN {} ELSE old[a]]

(* Mutant: it is not forgotten when it is active again.                    *)
FailedAfterBoth(failed, old, new) ==
    [a \in Apps |->
        LET deployment == IF old[a] # {} THEN old[a] ELSE failed[a]
        IN  IF new[a] = {} /\ Overlaps(deployment, new) THEN {} ELSE deployment]

(* Mutant: the entries of active apps are lost, not emptied.               *)
FailedAfterPartial(failed, old, new) ==
    [a \in {b \in Apps : new[b] = {}} |->
        LET deployment == IF old[a] # {} THEN old[a] ELSE failed[a]
        IN  IF Overlaps(deployment, new) THEN {} ELSE deployment]

(* updateFailedDeployments: an app that has lost its last healthy instance *)
(* is remembered with the deployment it had.  It is forgotten as soon as   *)
(* it is active again, or an active deployment has one of its hosts.       *)
FailedAfter(failed, old, new) ==
    [a \in Apps |->
        LET deployment == IF old[a] # {} THEN old[a] ELSE failed[a]
        IN  IF new[a] # {} \/ Overlaps(deployment, new) THEN {} ELSE deployment]

(* What UpdateDeployments returns.                                         *)
HasChanged(failed, old, new) ==
    DeploymentsChanged(old, new) \/ FailedAfter(failed, old, new) # failed

(* buildSnapshot: every active app is routed to those of its instances     *)
(* that are in "included", perhaps none; every failed app that is not      *)
(* active is routed to no backend.                                         *)
Route(a, deployment, backends) ==
    [app |-> a, hosts |-> HostsOf(deployment), backends |-> backends]
Snapshot(active, failed, included) ==
    {Route(a, active[a], active[a] \cap included) : a \in {b \in Apps : active[b] # {}}}
    \cup {Route(a, failed[a], {}) : a \in {b \in Apps : failed[b] # {} /\ active[b] = {}}}

(* No host is on two routes.  proxy.RouteBuilder refuses two routes that   *)
(* share a host, or, if it is the canonical domain of both, drops one.     *)
Unambiguous(snapshot) ==
    \A r, s \in snapshot : r # s => r.hosts \cap s.hosts = {}
==============================================================================
