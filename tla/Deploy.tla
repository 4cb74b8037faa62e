------------------------------- MODULE Deploy -------------------------------
(***************************************************************************)
(* Deployments and rollbacks of one app on one server: the goroutines that *)
(* handleDeploy and handleRollback start (api/handlers_deploy.go,          *)
(* handlers_rollback.go, deploy/), the image tags app:<deployment ID> they *)
(* make and remove (docker/image.go), the containers they start            *)
(* (docker/container.go), the history in the database                      *)
(* (storage/models_deployments.go), and the requests that interfere: stop, *)
(* prune-images and haloyd's own update once containers have started.      *)
(*                                                                         *)
(* Nothing serialises these goroutines: the command line deploys one       *)
(* target of a server after the other, but two of them, or --no-logs, do   *)
(* not wait.  Each call to Docker or the database is a step.               *)
(*                                                                         *)
(* The update itself is the module Rollout; here it is what it does to the *)
(* app's containers.  Container names are dynamic, and no other tag of the *)
(* app's repository looks like a deployment ID.                            *)
(***************************************************************************)
EXTENDS Integers, FiniteSets, FiniteSetsExt

CONSTANTS
    Images,
    MaxDeployments, (* Bound: deployments and rollbacks, by number.        *)
    Configs,        (* Configurations of the app: strategy, history, count *)
                    (* and replicas.                                       *)
    Keeps,          (* What prune-images is asked to keep.                 *)
    MaxActive,      (* Bound: deployments at a time.                       *)
    MaxFaults,      (* Bound: failures of Docker.                          *)
    MaxRequests,    (* Bound: requests to stop and to prune.               *)
    None

(* Deployment IDs are ULIDs: they order as they were made.                 *)
Ids == 1..MaxDeployments

(* config.ImageHistory.Validate: local and registry keep at least one.     *)
ASSUME ConfigAssumption ==
    \A c \in Configs :
        /\ c.strategy \in {"rolling", "replace"}
        /\ c.history \in {"local", "registry", "none"}
        /\ c.count \in Nat \ {0} /\ c.replicas \in Nat \ {0}

(* handleImagePrune and PlanImagePrune refuse to keep less than none.      *)
ASSUME BoundAssumption == MaxDeployments \in Nat /\ Keeps \subseteq Nat

ASSUME NoneAssumption == None \notin Ids \cup Images

VARIABLES
    config,         (* The app's configuration, which stays.               *)
    source,         (* The image its configured reference stands for.      *)
    tags,           (* tags[d]: the image of app:d, or None.               *)
    containers,     (* Of the app: [id, replica, image, state].            *)
    history,        (* The deployments in the database.                    *)
    job,            (* job[d]: the goroutine of deployment d.              *)
    started,        (* Deployments whose start haloyd has not yet handled. *)
    stopper,        (* A request to stop the app.                          *)
    pruner,         (* A request to prune its images.                      *)
    faults, requests,
    exposed,        (* History: images that a plan listed a tag of while   *)
                    (* they were not in use, and not tagged since.         *)
    disturbed       (* History: a deployment failed, two overlapped, or    *)
                    (* less was kept than the configuration says.          *)

bounds == <<faults, requests>>
past == <<exposed, disturbed>>
vars == <<config, source, tags, containers, history, job, started, stopper, pruner,
          bounds, past>>

(* A goroutine that has done nothing yet.                                  *)
Fresh(stage, target) ==
    [stage |-> stage, target |-> target, image |-> None, replica |-> 0, plan |-> {}]


(***************************************************************************)
(* Images and their tags                                                   *)
(***************************************************************************)

Tagged == {t \in Ids : tags[t] /= None}
Running == {c \in containers : c.state = "running"}
InUse == {c.image : c \in Running}

Newest(S, n) == {t \in S : Cardinality({u \in S : u > t}) < n}

(* Mutant: a place is taken also when no deployment plans.                 *)
KeptOneLess(candidates, own, keep) ==
    Newest(candidates, IF keep > 0 THEN keep - 1 ELSE keep)

(* The deployment that plans is kept and takes one of the places.          *)
Kept(candidates, own, keep) ==
    Newest(candidates, IF own /= None /\ keep > 0 THEN keep - 1 ELSE keep)

(* Mutant: an image in use is removed like any other.                      *)
RemovalsInUse(own, keep) ==
    LET candidates == Tagged \ {own} IN candidates \ Kept(candidates, own, keep)

(* An image in use loses no tag unless one that is kept stands for it too. *)
Removals(own, keep) ==
    LET candidates == Tagged \ {own}
        kept == Kept(candidates, own, keep)
    IN {t \in candidates \ kept :
           tags[t] \in InUse => \E k \in kept : tags[k] = tags[t]}

(* A plan is made: which images it lists that nothing runs is remembered,  *)
(* until the image gets a tag that no plan is about to take.               *)
Expose(plan) == exposed' = exposed \cup ({tags[t] : t \in plan} \ InUse)
Pending == {tags[t] : t \in pruner \cup UNION {job[e].plan : e \in Ids}}

(***************************************************************************)
(* Deployments and rollbacks                                               *)
(***************************************************************************)

Active == {d \in Ids : job[d].stage \notin {"idle", "done", "failed"}}

Go(d, stage) == job' = [job EXCEPT ![d].stage = stage]

(* The next deployment ID, used by the request of one command.             *)
Begin(d, target) ==
    /\ job[d].stage = "idle" /\ \A e \in 1..(d - 1) : job[e].stage /= "idle"
    /\ Cardinality(Active) < MaxActive
    /\ job' = [job EXCEPT ![d] = Fresh("pull", target)]
    /\ disturbed' = (disturbed \/ Active /= {})

(* The image is built and uploaded, or pushed to where it is pulled from,  *)
(* and the deployment is requested.                                        *)
RequestDeploy(d, i) ==
    /\ Begin(d, None)
    /\ source' = i
    /\ UNCHANGED <<config, tags, containers, history, started, stopper, pruner, bounds, exposed>>

NewestRunning == IF Running = {} THEN None ELSE Max({c.id : c \in Running})

(* GetRollbackTargets: registry images are assumed to be available.        *)
RollbackTargets ==
    {t \in history : (config.history = "local" => tags[t] /= None) /\ t /= NewestRunning}

RequestRollback(d, t) ==
    /\ t \in RollbackTargets
    /\ Begin(d, t)
    /\ UNCHANGED <<config, source, tags, containers, history, started, stopper, pruner,
                   bounds, exposed>>

(* The image the reference of d stands for: that of a rollback is the tag  *)
(* of its target, which no registry has.                                   *)
Resolved(d) == IF job[d].target = None THEN source ELSE tags[job[d].target]

Fail(d) == Go(d, "failed") /\ disturbed' = TRUE

EnsureImageUpToDate(d) ==
    /\ job[d].stage = "pull"
    /\ IF Resolved(d) = None THEN Fail(d) ELSE Go(d, "tag") /\ UNCHANGED disturbed
    /\ UNCHANGED <<config, source, tags, containers, history, started, stopper, pruner,
                   bounds, exposed>>

(* Mutant: every deployment is run, and recorded, by its configured        *)
(* reference.                                                              *)
ImageOfSource(d) == source

ImageOf(d) == Resolved(d)

(* Without a history the containers run the configured reference itself.   *)
ImageTag(d) ==
    LET next == IF config.strategy = "replace" THEN "stop" ELSE "run"
    IN /\ job[d].stage = "tag"
       /\ IF Resolved(d) = None THEN Fail(d) /\ UNCHANGED tags
          ELSE /\ tags' = IF config.history = "none" THEN tags
                          ELSE [tags EXCEPT ![d] = ImageOf(d)]
               /\ job' = [job EXCEPT ![d].stage = next, ![d].image = Resolved(d)]
               /\ UNCHANGED disturbed
       /\ exposed' = exposed \ ({Resolved(d)} \ Pending)
       /\ UNCHANGED <<config, source, containers, history, started, stopper, pruner, bounds>>

(* A container that was created and did not start is not running, and is   *)
(* waited for to have exited until that times out.                         *)
Stopped(C) == {IF c.state = "running" THEN [c EXCEPT !.state = "exited"] ELSE c : c \in C}
Stuck(C) == \E c \in C : c.state = "created"

StopContainers(d) ==
    /\ job[d].stage = "stop"
    /\ containers' = Stopped(containers)
    /\ IF Stuck(containers) THEN Fail(d) ELSE Go(d, "remove") /\ UNCHANGED disturbed
    /\ UNCHANGED <<config, source, tags, history, started, stopper, pruner, bounds, exposed>>

RemoveContainers(d) ==
    /\ job[d].stage = "remove"
    /\ containers' = {}
    /\ Go(d, "run")
    /\ UNCHANGED <<config, source, tags, history, started, stopper, pruner, bounds, past>>

NewImage(d) == IF config.history = "none" THEN source ELSE tags[d]

(* One replica: it is created from the new reference, which has to exist,  *)
(* and started, which may fail.  What the deferred function then looks at  *)
(* is the error of the creation, so nothing is cleaned up.                 *)
RunContainer(d, ok) ==
    LET r == job[d].replica + 1
        c == [id |-> d, replica |-> r, image |-> NewImage(d), state |-> "running"]
    IN /\ job[d].stage = "run" /\ (ok \/ faults < MaxFaults)
       /\ \/ /\ NewImage(d) = None /\ ok
             /\ Fail(d)
             /\ UNCHANGED <<containers, started, faults>>
          \/ /\ NewImage(d) /= None /\ ok
             /\ containers' = containers \cup {c}
             /\ started' = started \cup {d}
             /\ job' = [job EXCEPT ![d].replica = r,
                                   ![d].stage = IF r = config.replicas THEN "save" ELSE "run"]
             /\ UNCHANGED <<disturbed, faults>>
          \/ /\ NewImage(d) /= None /\ ~ok
             /\ containers' = containers \cup {[c EXCEPT !.state = "created"]}
             /\ faults' = faults + 1
             /\ Fail(d)
             /\ UNCHANGED started
       /\ UNCHANGED <<config, source, tags, history, stopper, pruner, requests, exposed>>

Recorded(d) == Newest(history \cup {d}, config.count)

(* writeDeployConfigHistory                                                *)
SaveDeployment(d) ==
    /\ job[d].stage = "save"
    /\ IF config.history = "none" THEN Go(d, "done") /\ UNCHANGED history
       ELSE Go(d, "plan") /\ history' = Recorded(d)
    /\ UNCHANGED <<config, source, tags, containers, started, stopper, pruner, bounds, past>>

PlanRemoval(d) ==
    LET plan == Removals(d, IF config.history = "registry" THEN 1 ELSE config.count)
    IN /\ job[d].stage = "plan"
       /\ job' = [job EXCEPT ![d].stage = "prune", ![d].plan = plan]
       /\ Expose(plan)
       /\ UNCHANGED <<config, source, tags, containers, history, started, stopper, pruner,
                      bounds, disturbed>>

(* Tag by tag, whatever has changed since the plan was made.               *)
RemoveImage(d) ==
    LET plan == job[d].plan
    IN /\ job[d].stage = "prune"
       /\ IF plan = {} THEN Go(d, "done") /\ UNCHANGED tags
          ELSE /\ tags' = [tags EXCEPT ![Max(plan)] = None]
               /\ job' = [job EXCEPT ![d].plan = plan \ {Max(plan)}]
       /\ UNCHANGED <<config, source, containers, history, started, stopper, pruner,
                      bounds, past>>

(* A call to Docker fails, or the deployment takes too long.               *)
DockerFails(d) ==
    /\ job[d].stage \in {"pull", "tag", "stop", "remove", "run"} /\ faults < MaxFaults
    /\ faults' = faults + 1
    /\ Fail(d)
    /\ UNCHANGED <<config, source, tags, containers, history, started, stopper, pruner,
                   requests, exposed>>

(***************************************************************************)
(* What interferes                                                         *)
(***************************************************************************)

(* The update for a started deployment: unless its containers are unfit    *)
(* all the others are stopped, and removed if they could be stopped; and   *)
(* it leaves them if another update was the first to see the deployment.   *)
Update(d) ==
    LET others == {c \in containers : c.id /= d}
    IN /\ d \in started /\ \E c \in Running : c.id = d
       /\ started' = started \ {d}
       /\ \/ containers' = (containers \ others)
                               \cup (IF Stuck(others) THEN Stopped(others) ELSE {})
          \/ containers' = containers
       /\ UNCHANGED <<config, source, tags, history, job, stopper, pruner, bounds, past>>

(* Its containers are unhealthy, or gone: what is left of it is removed.   *)
UpdateFails(d) ==
    LET own == {c \in containers : c.id = d}
    IN /\ d \in started
       /\ started' = started \ {d}
       /\ containers' = (containers \ own) \cup (IF Stuck(own) THEN Stopped(own) ELSE {})
       /\ UNCHANGED <<config, source, tags, history, job, stopper, pruner, bounds, past>>

(* handleStopApp: all containers are stopped, and removed if asked to.     *)
RequestStop ==
    /\ stopper = "idle" /\ requests < MaxRequests
    /\ requests' = requests + 1
    /\ \E remove \in BOOLEAN :
           stopper' = IF remove /\ ~Stuck(containers) THEN "remove" ELSE "idle"
    /\ containers' = Stopped(containers)
    /\ UNCHANGED <<config, source, tags, history, job, started, pruner, faults, past>>

StopRemoves ==
    /\ stopper = "remove"
    /\ stopper' = "idle" /\ containers' = {}
    /\ UNCHANGED <<config, source, tags, history, job, started, pruner, bounds, past>>

(* handleImagePrune: a plan, which is carried out only if it is to apply.  *)
RequestPrune(keep) ==
    LET plan == Removals(None, keep)
    IN /\ pruner = {} /\ requests < MaxRequests
       /\ requests' = requests + 1
       /\ pruner' = plan
       /\ Expose(plan)
       /\ disturbed' = (disturbed \/ keep < config.count)
       /\ UNCHANGED <<config, source, tags, containers, history, job, started, stopper, faults>>

PruneImage ==
    /\ pruner /= {}
    /\ tags' = [tags EXCEPT ![Max(pruner)] = None]
    /\ pruner' = pruner \ {Max(pruner)}
    /\ UNCHANGED <<config, source, containers, history, job, started, stopper, bounds, past>>

(***************************************************************************)
(* The specification                                                       *)
(***************************************************************************)

Init ==
    /\ config \in Configs
    /\ source = None
    /\ tags = [d \in Ids |-> None]
    /\ containers = {} /\ history = {}
    /\ job = [d \in Ids |-> Fresh("idle", None)]
    /\ started = {} /\ stopper = "idle" /\ pruner = {}
    /\ faults = 0 /\ requests = 0
    /\ exposed = {} /\ disturbed = FALSE

Next ==
    \/ \E d \in Ids, i \in Images : RequestDeploy(d, i)
    \/ \E d, t \in Ids : RequestRollback(d, t)
    \/ \E d \in Ids : EnsureImageUpToDate(d)
    \/ \E d \in Ids : ImageTag(d)
    \/ \E d \in Ids : StopContainers(d)
    \/ \E d \in Ids : RemoveContainers(d)
    \/ \E d \in Ids, ok \in BOOLEAN : RunContainer(d, ok)
    \/ \E d \in Ids : SaveDeployment(d)
    \/ \E d \in Ids : PlanRemoval(d)
    \/ \E d \in Ids : RemoveImage(d)
    \/ \E d \in Ids : DockerFails(d)
    \/ \E d \in Ids : Update(d)
    \/ \E d \in Ids : UpdateFails(d)
    \/ RequestStop
    \/ StopRemoves
    \/ \E keep \in Keeps : RequestPrune(keep)
    \/ PruneImage

Spec == Init /\ [][Next]_vars

(***************************************************************************)
(* Correctness                                                             *)
(***************************************************************************)

(* "If an image is in use we allow removal of duplicate tags as long as at *)
(* least one tag is preserved": however plans of several deployments and   *)
(* of prune-images are made and carried out in between each other and new  *)
(* deployments, the image of a running container keeps a tag -- unless it  *)
(* was put to use after a plan had listed it as unused, the one gap there  *)
(* is.  (selectImageTagsToRemove, ExecuteImagePrunePlan.)                  *)
InUseKeepsTag ==
    config.history /= "none" =>
        \A c \in Running : c.image \in exposed \cup {tags[t] : t \in Tagged}

(* A rollback runs the image that its target ran, whatever was deployed,   *)
(* uploaded, pruned and rolled back since.  (RollbackApp, DeployApp,       *)
(* writeDeployConfigHistory.)                                              *)
RollbackRestores ==
    \A c \in containers :
        job[c.id].target /= None => c.image = job[job[c.id].target].image

(* The history and the images agree: as long as deployments succeed one    *)
(* after the other, every deployment in the database can be rolled back    *)
(* to.  The two are cut down separately, one by rows and one by tags.      *)
(* (PruneOldDeployments, RemoveImages.)                                    *)
HistoryBacked ==
    config.history = "local" /\ ~disturbed /\ Active = {} => history \subseteq Tagged
=============================================================================
