--------------------------- MODULE DeploymentTable ---------------------------
(***************************************************************************)
(* The DeploymentManager's two tables under arbitrary health check         *)
(* results (internal/haloyd/deployments.go, UpdateDeployments).            *)
(*                                                                         *)
(* Updater.mu serializes the calls and deploymentsMutex makes each one     *)
(* atomic for its readers, so a call is one step.  Rollout extends this    *)
(* module by the updates that make these calls, and implements TableSpec.  *)
(***************************************************************************)
EXTENDS Deployments

VARIABLES
    deployments,       (* DeploymentManager.deployments                    *)
    failedDeployments  (* DeploymentManager.failedDeployments              *)

tableVars == <<deployments, failedDeployments>>

(* A container is checked once, so it is healthy with one address.         *)
HealthCheckResults ==
    {healthy \in SUBSET Instances :
        \A i, j \in healthy : Container[i] = Container[j] => i = j}

TablesTyped == deployments \in Tables /\ failedDeployments \in Tables

NoTables == deployments = NoDeployments /\ failedDeployments = NoDeployments

ReplaceTables(healthy) ==
    /\ deployments' = Newest(healthy)
    /\ failedDeployments' = FailedAfter(failedDeployments, deployments, Newest(healthy))

TableNext == \E healthy \in HealthCheckResults : ReplaceTables(healthy)

TableSpec == NoTables /\ [][TableNext]_tableVars

------------------------------------------------------------------------------
(* Properties                                                              *)

Active(a) == deployments[a] # {}
Failed(a) == failedDeployments[a] # {}
TableRoutes == Snapshot(deployments, failedDeployments, Instances)

(* Every entry is one deployment of its app: instances of different        *)
(* deployments are never mixed behind one route.                           *)
OneDeployment(a, d) == \A i, j \in d : App(i) = a /\ ID(i) = ID(j)
NeverMixed ==
    \A a \in Apps : /\ OneDeployment(a, deployments[a])
                    /\ OneDeployment(a, failedDeployments[a])

(* A failed app never competes with an active one, not for its own name    *)
(* and not for a host (deployments.go, updateFailedDeployments).           *)
FailedYield ==
    \A a \in Apps : Failed(a) => /\ ~Active(a)
                                 /\ ~Overlaps(failedDeployments[a], deployments)

(* An app that is routed stays routed, to no backend if need be, until an  *)
(* active deployment claims one of its hosts (deployments.go: "keep routes *)
(* for these apps (returning 502 instead of 404)").                        *)
Routed(a) == \E r \in TableRoutes : r.app = a
RoutesKept ==
    [][\A a \in Apps : Routed(a) /\ ~Routed(a)' =>
         \E b \in Apps \ {a} :
            HostsOf(deployments'[b])
              \cap (HostsOf(deployments[a]) \cup HostsOf(failedDeployments[a])) # {}]_tableVars

(* Remembering failed apps never makes a valid snapshot invalid: if the    *)
(* active deployments alone do not collide, neither do all the routes.     *)
ActiveRoutes == Snapshot(deployments, NoDeployments, Instances)
FailedNeverCollide ==
    [][Unambiguous(TableRoutes) /\ Unambiguous(ActiveRoutes)' => Unambiguous(TableRoutes)']_tableVars

(* The proxy may keep its snapshot when UpdateDeployments reports no       *)
(* change: the new one would say the same (updater.go: "Skip proxy and     *)
(* container work if no changes were detected").  An address that changed  *)
(* while the container stayed the same breaks this.                        *)
UnchangedMeansSameRoutes ==
    [][~HasChanged(failedDeployments, deployments, deployments') =>
          TableRoutes' = TableRoutes]_tableVars
==============================================================================
