---------------------------- MODULE DeployProofs -----------------------------
(***************************************************************************)
(* What deployments, rollbacks and prunes keep of images and history, for  *)
(* any number of them, of images, configurations and failures, and however *)
(* many go on at a time.                                                   *)
(***************************************************************************)
EXTENDS Deploy, FiniteSetTheorems, WellFoundedInduction, TLAPS

Stages == {"idle", "pull", "tag", "stop", "remove", "run", "save", "plan", "prune",
           "done", "failed"}

(* Before the deployment's image has been tagged.                          *)
Early == {"idle", "pull", "tag"}

Jobs == [stage : Stages, target : Ids \cup {None}, image : Images \cup {None},
         replica : Int, plan : SUBSET Ids]

Containers ==
    [id : Ids, replica : Int, image : Images, state : {"created", "running", "exited"}]

Typed ==
    /\ config \in Configs
    /\ source \in Images \cup {None}
    /\ tags \in [Ids -> Images \cup {None}]
    /\ containers \in SUBSET Containers
    /\ history \in SUBSET Ids
    /\ job \in [Ids -> Jobs]
    /\ pruner \in SUBSET Ids

(* The tags that some plan is about to take.                               *)
Plans == pruner \cup UNION {job[e].plan : e \in Ids}

------------------------------------------------------------------------------
(* Lemmas about sets of deployments                                        *)

LEMMA IdsFinite ==
    ASSUME NEW S \in SUBSET Ids
    PROVE  IsFiniteSet(S) /\ Cardinality(S) \in Nat
<1>1. IsFiniteSet(Ids)
    BY BoundAssumption, FS_Interval DEF Ids
<1> QED BY <1>1, FS_Subset, FS_CardinalityType

LEMMA SubsetCount ==
    ASSUME NEW T \in SUBSET Ids, NEW S \in SUBSET T
    PROVE  /\ Cardinality(S) \in Nat /\ Cardinality(T) \in Nat
           /\ Cardinality(S) <= Cardinality(T)
BY IdsFinite, FS_Subset

(* A set of deployments has a newest one: the least distance to the bound. *)
LEMMA MaxIn ==
    ASSUME NEW S \in SUBSET Ids, S # {}
    PROVE  Max(S) \in S
<1> DEFINE gaps == {MaxDeployments - t : t \in S}
<1>1. gaps \in SUBSET Nat /\ gaps # {}
    <2>1. \A t \in S : MaxDeployments - t \in Nat
        BY BoundAssumption DEF Ids
    <2>2. PICK t \in S : TRUE
        OBVIOUS
    <2>3. MaxDeployments - t \in gaps
        BY <2>2
    <2> QED BY <2>1, <2>3
<1>2. PICK g \in gaps : \A h \in gaps : ~(<<h, g>> \in OpToRel(<, Nat))
    <2> HIDE DEF gaps
    <2> QED BY <1>1, NatLessThanWellFounded, WFMin, Zenon
<1>3. \A h \in gaps : ~(h < g)
    BY <1>1, <1>2, Zenon DEF OpToRel
<1>4. PICK m \in S : g = MaxDeployments - m
    BY <1>2
<1>5. \A t \in S : m >= t
    BY <1>3, <1>4, BoundAssumption DEF Ids
<1> QED BY <1>4, <1>5 DEF Max

(* Newest(S, n) contains what is newer than a member.                      *)
LEMMA NewestUpward ==
    ASSUME NEW S \in SUBSET Ids, NEW n \in Nat, NEW t \in Newest(S, n),
           NEW u \in S, u >= t
    PROVE  u \in Newest(S, n)
<1>1. {v \in S : v > u} \subseteq {v \in S : v > t}
    <2>1. t \in S /\ \A v \in S : v \in Int
        BY BoundAssumption DEF Newest, Ids
    <2>2. \A v \in S : v > u => v > t
        BY <2>1
    <2> QED BY <2>2
<1>2. Cardinality({v \in S : v > t}) < n
    BY DEF Newest
<1> QED BY <1>1, <1>2, SubsetCount DEF Newest

(* To cut down again to as many changes nothing.                           *)
LEMMA NewestTwice ==
    ASSUME NEW S \in SUBSET Ids, NEW n \in Nat
    PROVE  Newest(Newest(S, n), n) = Newest(S, n)
<1> SUFFICES ASSUME NEW t \in Newest(S, n)
    PROVE  t \in Newest(Newest(S, n), n)
    BY DEF Newest
<1>1. Newest(S, n) \subseteq S
    BY DEF Newest
<1>2. {u \in Newest(S, n) : u > t} \subseteq {u \in S : u > t}
    BY <1>1
<1>3. Cardinality({u \in S : u > t}) < n
    BY DEF Newest
<1>4. Cardinality({u \in Newest(S, n) : u > t}) < n
    BY <1>2, <1>3, SubsetCount
<1> QED BY <1>4 DEF Newest

(* Without one newer member there is room for one less.                    *)
LEMMA OneLess ==
    ASSUME NEW T \in SUBSET Ids, NEW d \in T, NEW S \in SUBSET (T \ {d}), NEW n \in Int,
           Cardinality(T) < n
    PROVE  Cardinality(S) < n - 1
<1>1. Cardinality(T \ {d}) = Cardinality(T) - 1
    BY IdsFinite, FS_RemoveElement
<1>2. Cardinality(S) <= Cardinality(T \ {d})
    BY SubsetCount
<1> QED BY <1>1, <1>2, IdsFinite

------------------------------------------------------------------------------
(* What a step does to a deployment, to the tags, the plans and containers *)

(* It is requested.                                                        *)
Requested(e) ==
    /\ job[e].stage = "idle" /\ job'[e].stage = "pull"
    /\ \A f \in 1..(e - 1) : job[f].stage /= "idle"
    /\ job'[e].target \in history \cup {None}
    /\ job'[e].image = None
    /\ job'[e].plan = {}

(* Its image is settled.                                                   *)
Settled(e) ==
    /\ job[e].stage = "tag" /\ job'[e].stage \in {"stop", "run"}
    /\ job'[e].image = Resolved(e) /\ Resolved(e) /= None
    /\ job'[e].plan = job[e].plan

Carried(e) ==
    /\ job[e].stage = "idle" <=> job'[e].stage = "idle"
    /\ job[e].stage \notin Early => job'[e].stage \notin Early
    /\ job'[e].target = job[e].target
    /\ Settled(e) \/ job'[e].image = job[e].image

LEMMA GoMoves ==
    ASSUME job \in [Ids -> Jobs], NEW d \in Ids, NEW s \in Stages, Go(d, s)
    PROVE  /\ job' \in [Ids -> Jobs]
           /\ job'[d].stage = s
           /\ \A e \in Ids \ {d} : job'[e] = job[e]
           /\ \A e \in Ids : /\ job'[e].target = job[e].target
                             /\ job'[e].image = job[e].image
                             /\ job'[e].plan = job[e].plan
BY DEF Go, Jobs

LEMMA GoCarries ==
    ASSUME job \in [Ids -> Jobs], NEW d \in Ids, NEW s \in Stages, Go(d, s),
           job[d].stage /= "idle", s /= "idle", job[d].stage \notin Early => s \notin Early
    PROVE  job' \in [Ids -> Jobs] /\ \A e \in Ids : Carried(e)
BY GoMoves DEF Carried

LEMMA BeginMoves ==
    ASSUME job \in [Ids -> Jobs], NEW d \in Ids, NEW t \in history \cup {None},
           history \in SUBSET Ids,
           Begin(d, t)
    PROVE  /\ job' \in [Ids -> Jobs]
           /\ Requested(d) /\ \A e \in Ids \ {d} : job'[e] = job[e]
<1> DEFINE j == Fresh("pull", t)
<1>1. j \in Jobs
    <2>1. t \in Ids \cup {None} /\ "pull" \in Stages /\ {} \in SUBSET Ids
        BY DEF Stages
    <2> QED BY <2>1 DEF Jobs, Fresh
<1>2. j.stage = "pull" /\ j.target = t /\ j.image = None /\ j.plan = {}
    BY DEF Fresh
<1>3. /\ job' = [job EXCEPT ![d] = j]
      /\ job[d].stage = "idle" /\ \A f \in 1..(d - 1) : job[f].stage /= "idle"
    BY DEF Begin
<1> HIDE DEF j
<1> QED BY <1>1, <1>2, <1>3 DEF Requested

LEMMA ImageTagMoves ==
    ASSUME Typed, NEW d \in Ids, ImageTag(d), Resolved(d) /= None
    PROVE  /\ job' \in [Ids -> Jobs]
           /\ Settled(d) /\ job'[d].target = job[d].target
           /\ \A e \in Ids \ {d} : job'[e] = job[e]
<1>1. Resolved(d) \in Images
    BY DEF Typed, Jobs, Resolved
<1>2. PICK s \in {"stop", "run"} :
          job' = [job EXCEPT ![d].stage = s, ![d].image = Resolved(d)]
    BY DEF ImageTag
<1> QED BY <1>1, <1>2 DEF ImageTag, Typed, Jobs, Stages, Settled

LEMMA JobRuns ==
    ASSUME NEW j \in Jobs, NEW s \in Stages, NEW r \in Int
    PROVE  [j EXCEPT !.replica = r, !.stage = s] \in Jobs
BY DEF Jobs

LEMMA JobPlans ==
    ASSUME NEW j \in Jobs, NEW s \in Stages, NEW plan \in SUBSET Ids
    PROVE  [j EXCEPT !.stage = s, !.plan = plan] \in Jobs
BY DEF Jobs

(* Every step takes each deployment one stage further, or leaves it.       *)
LEMMA StepJobs ==
    ASSUME Typed, [Next]_vars
    PROVE  /\ job' \in [Ids -> Jobs]
           /\ \A e \in Ids : Requested(e) \/ Carried(e)
<1> USE DEF Typed
<1>1. CASE job' = job
    BY <1>1 DEF Carried
<1>2. ASSUME NEW d \in Ids, NEW i \in Images, RequestDeploy(d, i)
      PROVE  job' \in [Ids -> Jobs] /\ \A e \in Ids : Requested(e) \/ Carried(e)
    <2>1. Begin(d, None)
        BY <1>2 DEF RequestDeploy
    <2> QED BY <2>1, BeginMoves DEF Carried
<1>3. ASSUME NEW d \in Ids, NEW t \in Ids, RequestRollback(d, t)
      PROVE  job' \in [Ids -> Jobs] /\ \A e \in Ids : Requested(e) \/ Carried(e)
    <2>1. t \in history /\ Begin(d, t)
        BY <1>3 DEF RequestRollback, RollbackTargets
    <2> QED BY <2>1, BeginMoves DEF Carried
<1>4. ASSUME NEW d \in Ids, EnsureImageUpToDate(d)
      PROVE  job' \in [Ids -> Jobs] /\ \A e \in Ids : Requested(e) \/ Carried(e)
    <2>1. PICK s \in {"failed", "tag"} : Go(d, s) /\ job[d].stage = "pull"
        BY <1>4 DEF EnsureImageUpToDate, Fail
    <2> QED BY <2>1, GoCarries DEF Stages, Early
<1>5. ASSUME NEW d \in Ids, ImageTag(d)
      PROVE  job' \in [Ids -> Jobs] /\ \A e \in Ids : Requested(e) \/ Carried(e)
    <2>1. CASE Resolved(d) = None
        <3>1. Go(d, "failed") /\ job[d].stage = "tag"
            BY <1>5, <2>1 DEF ImageTag, Fail
        <3> QED BY <3>1, GoCarries DEF Stages, Early
    <2>2. CASE Resolved(d) /= None
        BY <1>5, <2>2, ImageTagMoves DEF Carried, Settled, Early
    <2> QED BY <2>1, <2>2
<1>6. ASSUME NEW d \in Ids,
             StopContainers(d) \/ RemoveContainers(d) \/ SaveDeployment(d) \/ DockerFails(d)
      PROVE  job' \in [Ids -> Jobs] /\ \A e \in Ids : Requested(e) \/ Carried(e)
    <2>1. PICK s \in {"failed", "remove", "run", "done", "plan"} :
              Go(d, s) /\ job[d].stage /= "idle"
        BY <1>6 DEF StopContainers, RemoveContainers, SaveDeployment, DockerFails, Fail
    <2> QED BY <2>1, GoCarries DEF Stages, Early
<1>7. ASSUME NEW d \in Ids, NEW ok \in BOOLEAN, RunContainer(d, ok)
      PROVE  job' \in [Ids -> Jobs] /\ \A e \in Ids : Requested(e) \/ Carried(e)
    <2> job[d].stage = "run"
        BY <1>7 DEF RunContainer
    <2>1. CASE Go(d, "failed")
        BY <2>1, GoCarries DEF Stages, Early
    <2>2. ASSUME NEW s \in {"save", "run"}, NEW r \in Int,
                 job' = [job EXCEPT ![d].replica = r, ![d].stage = s]
          PROVE  job' \in [Ids -> Jobs] /\ \A e \in Ids : Requested(e) \/ Carried(e)
        <3>1. job' \in [Ids -> Jobs]
            <4>1. [job[d] EXCEPT !.replica = r, !.stage = s] \in Jobs
                BY JobRuns DEF Stages
            <4> QED BY <2>2, <4>1
        <3>2. \A e \in Ids : Carried(e)
            BY <2>2 DEF Jobs, Stages, Carried, Early
        <3> QED BY <3>1, <3>2
    <2>3. job[d].replica + 1 \in Int
        BY DEF Jobs
    <2>4. Go(d, "failed")
          \/ \E s \in {"save", "run"} : job' = [job EXCEPT ![d].replica = job[d].replica + 1,
                                                           ![d].stage = s]
        BY <1>7 DEF RunContainer, Fail
    <2> QED BY <2>1, <2>2, <2>3, <2>4
<1>8. ASSUME NEW d \in Ids, PlanRemoval(d)
      PROVE  job' \in [Ids -> Jobs] /\ \A e \in Ids : Requested(e) \/ Carried(e)
    <2> job[d].stage = "plan"
        BY <1>8 DEF PlanRemoval
    <2>1. PICK plan \in SUBSET Ids :
              job' = [job EXCEPT ![d].stage = "prune", ![d].plan = plan]
        BY <1>8 DEF PlanRemoval, Removals, Tagged
    <2>2. job' \in [Ids -> Jobs]
        <3>1. [job[d] EXCEPT !.stage = "prune", !.plan = plan] \in Jobs
            BY JobPlans DEF Stages
        <3> QED BY <2>1, <3>1
    <2>3. \A e \in Ids : Carried(e)
        BY <2>1 DEF Jobs, Stages, Carried, Early
    <2> QED BY <2>2, <2>3
<1>9. ASSUME NEW d \in Ids, RemoveImage(d)
      PROVE  job' \in [Ids -> Jobs] /\ \A e \in Ids : Requested(e) \/ Carried(e)
    <2> job[d].stage = "prune"
        BY <1>9 DEF RemoveImage
    <2>1. CASE Go(d, "done")
        BY <2>1, GoCarries DEF Stages, Early
    <2>2. CASE job' = [job EXCEPT ![d].plan = job[d].plan \ {Max(job[d].plan)}]
        <3>1. job[d].plan \ {Max(job[d].plan)} \in SUBSET Ids
            BY DEF Jobs
        <3> QED BY <2>2, <3>1 DEF Jobs, Carried
    <2> QED BY <1>9, <2>1, <2>2 DEF RemoveImage
<1>10. CASE \E d \in Ids : Update(d) \/ UpdateFails(d)
    BY <1>1, <1>10 DEF Update, UpdateFails
<1>11. CASE RequestStop \/ StopRemoves \/ PruneImage \/ \E keep \in Keeps : RequestPrune(keep)
    BY <1>1, <1>11 DEF RequestStop, StopRemoves, PruneImage, RequestPrune
<1>12. CASE UNCHANGED vars
    BY <1>1, <1>12 DEF vars
<1> QED BY <1>2, <1>3, <1>4, <1>5, <1>6, <1>7, <1>8, <1>9, <1>10, <1>11, <1>12 DEF Next

(* Most steps change neither tags nor what plans have exposed.             *)
Quiet == tags' = tags /\ exposed' = exposed /\ Plans' \subseteq Plans

Tags(d) == ImageTag(d) /\ Plans' \subseteq Plans

TakesTag(t) ==
    /\ tags' = [tags EXCEPT ![t] = None]
    /\ UNCHANGED <<containers, exposed>>
    /\ Plans' \subseteq Plans

MakesPlan(own, keep) ==
    /\ Plans' \subseteq Plans \cup Removals(own, keep)
    /\ Expose(Removals(own, keep))
    /\ UNCHANGED <<tags, containers>>

LEMMA FewerPlans ==
    ASSUME pruner' \subseteq pruner,
           \A e \in Ids : job'[e].plan \subseteq job[e].plan
    PROVE  Plans' \subseteq Plans
BY DEF Plans

LEMMA StepTags ==
    ASSUME Typed, [Next]_vars
    PROVE  \/ Quiet
           \/ \E d \in Ids : Tags(d)
           \/ \E t \in Plans : TakesTag(t)
           \/ \E own \in Ids \cup {None}, keep \in Nat : MakesPlan(own, keep)
<1> USE DEF Typed
<1>1. CASE UNCHANGED <<tags, exposed, pruner, job>>
    BY <1>1 DEF Quiet, Plans
<1>2. ASSUME NEW d \in Ids, NEW s \in Stages, Go(d, s), UNCHANGED <<tags, exposed, pruner>>
      PROVE  Quiet
    BY <1>2, GoMoves, FewerPlans DEF Quiet
<1>3. ASSUME NEW d \in Ids, NEW t \in history \cup {None}, Begin(d, t),
             UNCHANGED <<tags, exposed, pruner>>
      PROVE  Quiet
    BY <1>3, BeginMoves, FewerPlans DEF Quiet, Requested
<1>4. ASSUME NEW d \in Ids,
             \/ \E i \in Images : RequestDeploy(d, i)
             \/ \E t \in Ids : RequestRollback(d, t)
      PROVE  Quiet
    BY <1>3, <1>4 DEF RequestDeploy, RequestRollback, RollbackTargets
<1>5. ASSUME NEW d \in Ids,
             \/ EnsureImageUpToDate(d) \/ StopContainers(d) \/ RemoveContainers(d)
             \/ SaveDeployment(d) \/ DockerFails(d)
      PROVE  Quiet
    <2>1. PICK s \in Stages : Go(d, s)
        BY <1>5 DEF EnsureImageUpToDate, StopContainers, RemoveContainers, SaveDeployment,
                    DockerFails, Fail, Stages
    <2>2. UNCHANGED <<tags, exposed, pruner>>
        BY <1>5 DEF EnsureImageUpToDate, StopContainers, RemoveContainers, SaveDeployment,
                    DockerFails, past
    <2> QED BY <1>2, <2>1, <2>2
<1>6. ASSUME NEW d \in Ids, NEW ok \in BOOLEAN, RunContainer(d, ok)
      PROVE  Quiet
    <2>1. UNCHANGED <<tags, exposed, pruner>>
        BY <1>6 DEF RunContainer
    <2>2. CASE Go(d, "failed")
        BY <1>2, <2>1, <2>2 DEF Stages
    <2>3. ASSUME NEW s, NEW r, job' = [job EXCEPT ![d].replica = r, ![d].stage = s]
          PROVE  \A e \in Ids : job'[e].plan = job[e].plan
        BY <2>3 DEF Jobs
    <2>4. Go(d, "failed") \/ \A e \in Ids : job'[e].plan = job[e].plan
        BY <1>6, <2>3 DEF RunContainer, Fail
    <2> QED BY <2>1, <2>2, <2>4, FewerPlans DEF Quiet
<1>7. ASSUME NEW d \in Ids, ImageTag(d)
      PROVE  Tags(d)
    <2>1. pruner' = pruner
        BY <1>7 DEF ImageTag
    <2>2. CASE Resolved(d) = None
        <3>1. Go(d, "failed")
            BY <1>7, <2>2 DEF ImageTag, Fail
        <3> QED BY <1>7, <2>1, <3>1, GoMoves, FewerPlans DEF Tags, Stages
    <2>3. CASE Resolved(d) /= None
        BY <1>7, <2>1, <2>3, ImageTagMoves, FewerPlans DEF Tags, Settled
    <2> QED BY <2>2, <2>3
<1>8. ASSUME NEW d \in Ids, PlanRemoval(d)
      PROVE  \E own \in Ids \cup {None}, keep \in Nat : MakesPlan(own, keep)
    <2> DEFINE keep == IF config.history = "registry" THEN 1 ELSE config.count
               plan == Removals(d, keep)
    <2>1. keep \in Nat
        BY ConfigAssumption
    <2> HIDE DEF keep
    <2>2. /\ job' = [job EXCEPT ![d].stage = "prune", ![d].plan = plan]
          /\ Expose(plan) /\ UNCHANGED <<tags, containers, pruner>>
        BY <1>8 DEF PlanRemoval, keep
    <2> HIDE DEF plan
    <2>3. \A e \in Ids : job'[e].plan \subseteq job[e].plan \cup plan
        BY <2>2 DEF Jobs
    <2>4. Plans' \subseteq Plans \cup plan
        BY <2>2, <2>3 DEF Plans
    <2> QED BY <2>1, <2>2, <2>4 DEF MakesPlan, plan
<1>9. ASSUME NEW d \in Ids, RemoveImage(d)
      PROVE  Quiet \/ \E t \in Plans : TakesTag(t)
    <2>1. CASE job[d].plan = {}
        <3>1. Go(d, "done") /\ UNCHANGED <<tags, exposed, pruner>>
            BY <1>9, <2>1 DEF RemoveImage, past
        <3> QED BY <1>2, <3>1 DEF Stages
    <2>2. CASE job[d].plan /= {}
        <3> DEFINE t == Max(job[d].plan)
        <3>1. t \in job[d].plan
            BY <2>2, MaxIn DEF Jobs
        <3> HIDE DEF t
        <3>2. /\ tags' = [tags EXCEPT ![t] = None]
              /\ job' = [job EXCEPT ![d].plan = job[d].plan \ {t}]
              /\ UNCHANGED <<containers, exposed, pruner>>
            BY <1>9, <2>2 DEF RemoveImage, past, t
        <3>3. \A e \in Ids : job'[e].plan \subseteq job[e].plan
            BY <3>2 DEF Jobs
        <3>4. t \in Plans
            BY <3>1 DEF Plans
        <3> QED BY <3>2, <3>3, <3>4, FewerPlans DEF TakesTag
    <2> QED BY <2>1, <2>2
<1>10. CASE PruneImage
    <2> DEFINE t == Max(pruner)
    <2>1. t \in pruner
        BY <1>10, MaxIn DEF PruneImage
    <2> HIDE DEF t
    <2>2. /\ tags' = [tags EXCEPT ![t] = None] /\ pruner' = pruner \ {t}
          /\ UNCHANGED <<containers, exposed, job>>
        BY <1>10 DEF PruneImage, past, t
    <2>3. t \in Plans
        BY <2>1 DEF Plans
    <2> QED BY <2>2, <2>3, FewerPlans DEF TakesTag
<1>11. ASSUME NEW keep \in Keeps, RequestPrune(keep)
       PROVE  MakesPlan(None, keep) /\ keep \in Nat
    BY <1>11, BoundAssumption DEF RequestPrune, MakesPlan, Plans
<1>12. CASE \/ \E d \in Ids : Update(d) \/ UpdateFails(d)
            \/ RequestStop \/ StopRemoves \/ UNCHANGED vars
    BY <1>1, <1>12 DEF Update, UpdateFails, RequestStop, StopRemoves, vars, past
<1> HIDE DEF Typed
<1> QED BY <1>4, <1>5, <1>6, <1>7, <1>8, <1>9, <1>10, <1>11, <1>12 DEF Next

(* A container that there was, or one of a deployment that runs.           *)
Remains(c) ==
    \E b \in containers :
        b.id = c.id /\ b.image = c.image /\ (c.state = "running" => b.state = "running")

IsNew(c) ==
    /\ job[c.id].stage = "run"
    /\ c.image = NewImage(c.id) /\ c.image /= None
    /\ UNCHANGED <<tags, exposed>>

LEMMA StoppedRemain ==
    ASSUME NEW C \in SUBSET containers, Typed
    PROVE  /\ Stopped(C) \subseteq Containers
           /\ \A c \in C \cup Stopped(C) : Remains(c)
<1>1. \A c \in C : [c EXCEPT !.state = "exited"] \in Containers
    BY DEF Typed, Containers
<1>2. \A c \in C : Remains(c) /\ Remains([c EXCEPT !.state = "exited"])
    BY DEF Remains, Typed, Containers
<1> QED BY <1>1, <1>2 DEF Stopped, Typed

LEMMA StepContainers ==
    ASSUME Typed, [Next]_vars
    PROVE  /\ containers' \in SUBSET Containers
           /\ \A c \in containers' : Remains(c) \/ IsNew(c)
<1> DEFINE Goal == /\ containers' \in SUBSET Containers
                   /\ \A c \in containers' : Remains(c) \/ IsNew(c)
<1>1. ASSUME NEW C \in SUBSET containers, NEW D \in SUBSET containers,
             containers' \subseteq C \cup Stopped(D)
      PROVE  Goal
    BY <1>1, StoppedRemain DEF Typed
<1>2. CASE containers' \subseteq containers
    BY <1>1, <1>2
<1>3. ASSUME NEW d \in Ids,
             \/ PlanRemoval(d) \/ RemoveImage(d) \/ EnsureImageUpToDate(d) \/ ImageTag(d)
             \/ SaveDeployment(d) \/ DockerFails(d) \/ RemoveContainers(d)
             \/ \E i \in Images : RequestDeploy(d, i)
             \/ \E t \in Ids : RequestRollback(d, t)
      PROVE  Goal
    <2>1. containers' \subseteq containers
        BY <1>3 DEF PlanRemoval, RemoveImage, EnsureImageUpToDate, ImageTag, SaveDeployment,
                    DockerFails, RemoveContainers, RequestDeploy, RequestRollback
    <2> QED BY <1>2, <2>1
<1>4. ASSUME \/ \E keep \in Keeps : RequestPrune(keep)
             \/ PruneImage \/ StopRemoves \/ UNCHANGED vars
      PROVE  Goal
    BY <1>2, <1>4 DEF RequestPrune, PruneImage, StopRemoves, vars
<1>5. ASSUME NEW d \in Ids, NEW ok \in BOOLEAN, RunContainer(d, ok)
      PROVE  Goal
    <2> DEFINE r == job[d].replica + 1
               c(state) == [id |-> d, replica |-> r, image |-> NewImage(d), state |-> state]
    <2>1. r \in Int
        BY DEF Typed, Jobs
    <2>2. NewImage(d) \in Images \cup {None}
        BY DEF NewImage, Typed
    <2>3. UNCHANGED <<tags, exposed>> /\ job[d].stage = "run"
        BY <1>5 DEF RunContainer
    <2>4. CASE containers' = containers
        BY <1>2, <2>4
    <2>5. ASSUME NEW state \in {"running", "created"}, NewImage(d) /= None,
                 containers' = containers \cup {c(state)}
          PROVE  Goal
        <3>1. c(state) \in Containers
            BY <2>1, <2>2, <2>5 DEF Containers
        <3>2. IsNew(c(state))
            BY <2>3, <2>5 DEF IsNew
        <3>3. \A b \in containers : Remains(b)
            BY DEF Remains
        <3> HIDE DEF c
        <3> QED BY <2>5, <3>1, <3>2, <3>3 DEF Typed
    <2>6. \/ containers' = containers
          \/ NewImage(d) /= None /\ containers' = containers \cup {c("running")}
          \/ /\ NewImage(d) /= None
             /\ containers' = containers \cup {[c("running") EXCEPT !.state = "created"]}
        BY <1>5 DEF RunContainer
    <2>7. [c("running") EXCEPT !.state = "created"] = c("created")
        OBVIOUS
    <2> HIDE DEF c, Goal
    <2> QED BY <2>4, <2>5, <2>6, <2>7
<1>6. ASSUME NEW d \in Ids, Update(d) \/ UpdateFails(d)
      PROVE  Goal
    <2> DEFINE others == {c \in containers : c.id /= d}
               own == {c \in containers : c.id = d}
    <2>1. \/ containers' \subseteq containers \cup Stopped(others)
          \/ containers' \subseteq containers \cup Stopped(own)
        BY <1>6 DEF Update, UpdateFails
    <2> QED BY <1>1, <2>1
<1>7. ASSUME RequestStop \/ \E d \in Ids : StopContainers(d)
      PROVE  Goal
    <2>1. containers' \subseteq containers \cup Stopped(containers)
        BY <1>7 DEF RequestStop, StopContainers
    <2> QED BY <1>1, <2>1
<1> HIDE DEF Goal
<1>8. Goal
    BY <1>3, <1>4, <1>5, <1>6, <1>7 DEF Next
<1> QED BY <1>8 DEF Goal

LEMMA StepTag ==
    ASSUME Typed, [Next]_vars
    PROVE  /\ tags' \in [Ids -> Images \cup {None}]
           /\ \A e \in Ids : \/ tags'[e] \in {tags[e], None}
                             \/ /\ Settled(e) /\ tags'[e] = job'[e].image
                                /\ config.history /= "none"
           /\ Plans' \subseteq Plans \cup Tagged
<1> USE DEF Typed
<1>1. CASE Quiet
    BY <1>1 DEF Quiet
<1>2. ASSUME NEW d \in Ids, Tags(d)
      PROVE  /\ tags' \in [Ids -> Images \cup {None}]
             /\ \A e \in Ids : \/ tags'[e] = tags[e]
                               \/ /\ Settled(e) /\ tags'[e] = job'[e].image
                                  /\ config.history /= "none"
             /\ Plans' \subseteq Plans
    <2>1. CASE tags' = tags
        BY <1>2, <2>1 DEF Tags
    <2>2. CASE tags' /= tags
        <3>1. Resolved(d) /= None /\ config.history /= "none"
            BY <1>2, <2>2 DEF Tags, ImageTag
        <3>2. Resolved(d) \in Images
            BY <3>1 DEF Jobs, Resolved
        <3>3. tags' = [tags EXCEPT ![d] = Resolved(d)]
            BY <1>2, <3>1 DEF Tags, ImageTag, ImageOf
        <3>4. Settled(d)
            BY <1>2, <3>1, ImageTagMoves DEF Tags
        <3> QED BY <1>2, <3>1, <3>2, <3>3, <3>4 DEF Tags, Settled
    <2> QED BY <2>1, <2>2
<1>3. ASSUME NEW t \in Plans, TakesTag(t)
      PROVE  /\ tags' \in [Ids -> Images \cup {None}]
             /\ \A e \in Ids : tags'[e] \in {tags[e], None}
             /\ Plans' \subseteq Plans
    BY <1>3 DEF TakesTag
<1>4. ASSUME NEW own, NEW keep \in Nat, MakesPlan(own, keep)
      PROVE  tags' = tags /\ Plans' \subseteq Plans \cup Tagged
    BY <1>4 DEF MakesPlan, Removals
<1> HIDE DEF Typed
<1> QED BY <1>1, <1>2, <1>3, <1>4, StepTags DEF Typed

LEMMA StepTyped ==
    ASSUME Typed, [Next]_vars
    PROVE  /\ Typed'
           /\ config' = config
           /\ config.history = "none" => history' = history
           /\ \A t \in history' : t \in history \/ job[t].stage = "save"
<1> DEFINE Goal == /\ config' = config /\ source' \in Images \cup {None}
                   /\ history' \in SUBSET Ids
                   /\ config.history = "none" => history' = history
                   /\ \A t \in history' : t \in history \/ job[t].stage = "save"
                   /\ pruner' \in SUBSET Ids
<1> USE DEF Typed
<1>1. ASSUME UNCHANGED <<config, source, history, pruner>>
      PROVE  Goal
    BY <1>1
<1>2. ASSUME NEW d \in Ids,
             \/ EnsureImageUpToDate(d) \/ ImageTag(d) \/ StopContainers(d)
             \/ RemoveContainers(d) \/ PlanRemoval(d) \/ RemoveImage(d) \/ DockerFails(d)
             \/ Update(d) \/ UpdateFails(d)
             \/ \E t \in Ids : RequestRollback(d, t)
             \/ \E ok \in BOOLEAN : RunContainer(d, ok)
      PROVE  UNCHANGED <<config, source, history, pruner>>
    BY <1>2 DEF EnsureImageUpToDate, ImageTag, StopContainers, RemoveContainers,
                PlanRemoval, RemoveImage, DockerFails, Update, UpdateFails,
                RequestRollback, RunContainer
<1>3. ASSUME NEW d \in Ids, NEW i \in Images, RequestDeploy(d, i)
      PROVE  Goal
    BY <1>3 DEF RequestDeploy
<1>4. ASSUME NEW d \in Ids, SaveDeployment(d)
      PROVE  Goal
    <2>1. Recorded(d) \subseteq history \cup {d}
        BY DEF Recorded, Newest
    <2> QED BY <1>4, <2>1 DEF SaveDeployment
<1>5. ASSUME RequestStop \/ StopRemoves \/ UNCHANGED vars
      PROVE  UNCHANGED <<config, source, history, pruner>>
    BY <1>5 DEF RequestStop, StopRemoves, vars
<1>6. ASSUME NEW keep \in Keeps, RequestPrune(keep)
      PROVE  Goal
    BY <1>6 DEF RequestPrune, Removals, Tagged
<1>7. ASSUME PruneImage
      PROVE  Goal
    BY <1>7 DEF PruneImage
<1> HIDE DEF Typed
<1> HIDE DEF Goal
<1>8. Goal
    BY <1>1, <1>2, <1>3, <1>4, <1>5, <1>6, <1>7 DEF Next
<1> QED BY <1>8, StepJobs, StepTag, StepContainers DEF Typed, Goal

------------------------------------------------------------------------------
(* Images: the first inductive invariant                                   *)

(* A deployment that is not past its tag has no image, and no tag.         *)
ImagesSettled ==
    \A d \in Ids :
        /\ job[d].image /= None => job[d].stage \notin Early
        /\ tags[d] /= None => tags[d] = job[d].image

(* No plan is about to take a tag that is still to be given.               *)
PlansSettled == \A t \in Plans : job[t].stage \notin Early

(* A rollback has the image that the deployment before it had.             *)
RollbacksFollow ==
    \A d \in Ids :
        job[d].target /= None =>
            /\ config.history /= "none"
            /\ job[d].target \in Ids
            /\ job[d].image /= None => job[d].image = job[job[d].target].image

(* The containers of an app with a history run what their deployment tagged. *)
ContainersFollow ==
    config.history /= "none" =>
        \A c \in containers : c.image /= None /\ c.image = job[c.id].image

NoHistory == config.history = "none" => history = {}

(* A tag that a plan is about to take is of an image that had no use when  *)
(* some plan was made, or a later deployment has a tag of the same image.  *)
LaterTagStays ==
    \A t \in Plans :
        tags[t] \notin exposed \cup {None} => \E k \in Ids : k > t /\ tags[k] = tags[t]

ImageIInv ==
    /\ Typed /\ ImagesSettled /\ PlansSettled /\ RollbacksFollow /\ ContainersFollow
    /\ NoHistory /\ LaterTagStays /\ InUseKeepsTag

LEMMA InitImages == Init => ImageIInv
<1> SUFFICES ASSUME Init PROVE ImageIInv
    OBVIOUS
<1>1. Fresh("idle", None) \in Jobs
    BY DEF Fresh, Jobs, Stages
<1>2. \A d \in Ids : /\ job[d].stage = "idle" /\ job[d].image = None
                     /\ job[d].target = None /\ job[d].plan = {} /\ tags[d] = None
    BY DEF Init, Fresh
<1>3. Typed
    BY <1>1 DEF Init, Typed
<1>4. Plans = {}
    BY <1>2 DEF Init, Plans
<1> QED BY <1>2, <1>3, <1>4 DEF Init, ImageIInv, ImagesSettled, PlansSettled, RollbacksFollow,
                               ContainersFollow, NoHistory, LaterTagStays, InUseKeepsTag, Running

(* What is settled stays.                                                  *)
LEMMA SettledStays ==
    ASSUME ImageIInv, [Next]_vars, NEW d \in Ids, job[d].stage \notin Early
    PROVE  job'[d].stage \notin Early /\ job'[d].image = job[d].image
BY StepJobs DEF ImageIInv, Requested, Carried, Settled, Early

LEMMA StepSettled ==
    ASSUME ImageIInv, [Next]_vars
    PROVE  ImagesSettled' /\ PlansSettled'
<1>1. /\ Typed /\ ImagesSettled /\ PlansSettled
    BY DEF ImageIInv
<1>2. \A d \in Ids : job'[d].image /= None => job'[d].stage \notin Early
    BY <1>1, StepJobs DEF Requested, Carried, Settled, Early, ImagesSettled
<1>3. \A d \in Ids : tags'[d] /= None => tags'[d] = job'[d].image
    BY <1>1, StepTag, SettledStays DEF ImagesSettled
<1>4. \A t \in Plans' : t \in Ids /\ job[t].stage \notin Early
    <2>1. \A t \in Plans : t \in Ids
        BY <1>1 DEF Plans, Typed, Jobs
    <2>2. \A t \in Tagged : t \in Ids /\ job[t].stage \notin Early
        BY <1>1 DEF Tagged, ImagesSettled
    <2> QED BY <1>1, <2>1, <2>2, StepTag DEF PlansSettled
<1>5. PlansSettled'
    BY <1>4, SettledStays DEF PlansSettled
<1> QED BY <1>2, <1>3, <1>5 DEF ImagesSettled

LEMMA StepRollbacks ==
    ASSUME ImageIInv, [Next]_vars
    PROVE  RollbacksFollow'
<1>1. Typed /\ ImagesSettled /\ RollbacksFollow /\ NoHistory /\ config' = config
    BY StepTyped DEF ImageIInv
<1> SUFFICES ASSUME NEW d \in Ids, job'[d].target /= None
    PROVE  /\ config.history /= "none"
           /\ job'[d].target \in Ids
           /\ job'[d].image /= None => job'[d].image = job'[job'[d].target].image
    BY <1>1 DEF RollbacksFollow
<1>2. CASE Requested(d)
    BY <1>1, <1>2 DEF Requested, NoHistory, Typed
<1>3. CASE Carried(d)
    <2> DEFINE t == job[d].target
    <2>1. job'[d].target = t /\ t \in Ids /\ config.history /= "none"
        BY <1>1, <1>3 DEF Carried, RollbacksFollow
    <2>2. CASE Settled(d)
        <3>1. job'[d].image = tags[t] /\ tags[t] /= None
            BY <2>1, <2>2 DEF Settled, Resolved
        <3>2. job[t].image = tags[t] /\ job[t].stage \notin Early
            BY <1>1, <2>1, <3>1 DEF ImagesSettled
        <3> QED BY <2>1, <3>1, <3>2, SettledStays
    <2>3. CASE job'[d].image = job[d].image /\ job[d].image /= None
        <3>1. job[t].image = job[d].image
            BY <1>1, <2>1, <2>3 DEF RollbacksFollow
        <3>2. job[t].stage \notin Early
            BY <1>1, <2>1, <2>3, <3>1 DEF ImagesSettled
        <3> QED BY <2>1, <2>3, <3>1, <3>2, SettledStays
    <2> QED BY <1>3, <2>1, <2>2, <2>3 DEF Carried
<1> QED BY <1>1, <1>2, <1>3, StepJobs

LEMMA StepFollow ==
    ASSUME ImageIInv, [Next]_vars
    PROVE  ContainersFollow'
<1>1. Typed /\ ImagesSettled /\ ContainersFollow /\ config' = config
    BY StepTyped DEF ImageIInv
<1> SUFFICES ASSUME config.history /= "none", NEW c \in containers'
    PROVE  c.image /= None /\ c.image = job'[c.id].image
    BY <1>1 DEF ContainersFollow
<1>2. CASE Remains(c)
    <2>1. PICK b \in containers : b.id = c.id /\ b.image = c.image
        BY <1>2 DEF Remains
    <2>2. b.id \in Ids /\ b.image /= None /\ b.image = job[b.id].image
        BY <1>1 DEF ContainersFollow, Typed, Containers
    <2>3. job[b.id].stage \notin Early
        BY <1>1, <2>2 DEF ImagesSettled
    <2> QED BY <2>1, <2>2, <2>3, SettledStays
<1>3. CASE IsNew(c)
    <2>1. c.id \in Ids
        BY <1>1, StepContainers DEF Containers
    <2>2. c.image = tags[c.id] /\ c.image /= None /\ job[c.id].stage = "run"
        BY <1>3 DEF IsNew, NewImage
    <2>3. c.image = job[c.id].image
        BY <1>1, <2>1, <2>2 DEF ImagesSettled
    <2> QED BY <2>1, <2>2, <2>3, SettledStays DEF Early
<1> QED BY <1>1, <1>2, <1>3, StepContainers

(* Of the tags of an image in use that are not kept, one that is kept is   *)
(* later.                                                                  *)
LEMMA RemovalsLeave ==
    ASSUME Typed, NEW own, NEW keep \in Nat, NEW t \in Removals(own, keep),
           tags[t] \in InUse
    PROVE  \E k \in Ids : k > t /\ tags[k] = tags[t]
<1> DEFINE candidates == Tagged \ {own}
           n == IF own /= None /\ keep > 0 THEN keep - 1 ELSE keep
           kept == Newest(candidates, n)
<1>1. candidates \in SUBSET Ids /\ n \in Nat
    BY DEF Tagged
<1>2. t \in candidates /\ t \notin kept
    BY DEF Removals, Kept
<1>3. PICK k \in kept : tags[k] = tags[t]
    BY DEF Removals, Kept
<1>4. k \in candidates
    BY <1>3 DEF Newest
<1>5. ~(t >= k)
    <2> HIDE DEF candidates, n
    <2> QED BY <1>1, <1>2, <1>3, NewestUpward
<1>6. k \in Int /\ t \in Int
    BY <1>1, <1>2, <1>4, BoundAssumption DEF Ids
<1> QED BY <1>1, <1>3, <1>4, <1>5, <1>6

LEMMA StepLaterTag ==
    ASSUME ImageIInv, [Next]_vars
    PROVE  LaterTagStays'
<1>1. Typed /\ ImagesSettled /\ PlansSettled /\ LaterTagStays /\ Plans \in SUBSET Ids
    BY DEF ImageIInv, Plans, Typed, Jobs
<1> SUFFICES ASSUME NEW t \in Plans', tags'[t] \notin exposed' \cup {None}
    PROVE  \E k \in Ids : k > t /\ tags'[k] = tags'[t]
    BY DEF LaterTagStays
<1>2. CASE Quiet
    BY <1>1, <1>2 DEF Quiet, LaterTagStays
<1>3. ASSUME NEW d \in Ids, Tags(d)
      PROVE  \E k \in Ids : k > t /\ tags'[k] = tags'[t]
    <2>1. t \in Plans /\ t \in Ids /\ t /= d
        <3>1. job[d].stage = "tag"
            BY <1>3 DEF Tags, ImageTag
        <3> QED BY <1>1, <1>3, <3>1 DEF Tags, PlansSettled, Early
    <2>2. tags' = tags \/ tags' = [tags EXCEPT ![d] = Resolved(d)]
        BY <1>3 DEF Tags, ImageTag, ImageOf
    <2>3. tags'[t] = tags[t]
        BY <1>1, <2>1, <2>2 DEF Typed
    <2>4. tags[t] \in Pending
        BY <2>1 DEF Plans, Pending
    <2>5. tags[t] \notin exposed
        BY <1>3, <2>3, <2>4 DEF Tags, ImageTag
    <2>6. PICK k \in Ids : k > t /\ tags[k] = tags[t]
        BY <1>1, <2>1, <2>3, <2>5 DEF LaterTagStays
    <2>7. tags'[k] = tags[k]
        <3>1. tags[d] = None
            BY <1>1, <1>3 DEF Tags, ImageTag, ImagesSettled, Early
        <3> QED BY <1>1, <2>2, <2>3, <2>6, <3>1 DEF Typed
    <2> QED BY <2>3, <2>6, <2>7
<1>4. ASSUME NEW r \in Plans, TakesTag(r)
      PROVE  \E k \in Ids : k > t /\ tags'[k] = tags'[t]
    <2>1. t \in Plans /\ t \in Ids /\ r \in Ids
        BY <1>1, <1>4 DEF TakesTag
    <2>2. exposed' = exposed /\ tags' = [tags EXCEPT ![r] = None]
        BY <1>4 DEF TakesTag
    <2>3. t /= r /\ tags'[t] = tags[t]
        BY <1>1, <2>1, <2>2 DEF Typed
    <2>4. PICK k \in Ids : k > t /\ tags[k] = tags[t]
        BY <1>1, <2>1, <2>2, <2>3 DEF LaterTagStays
    <2>5. CASE k /= r
        BY <1>1, <2>2, <2>3, <2>4, <2>5 DEF Typed
    <2>6. CASE k = r
        <3>1. PICK l \in Ids : l > r /\ tags[l] = tags[r]
            BY <1>1, <2>2, <2>3, <2>4, <2>6 DEF LaterTagStays
        <3>2. l > t /\ l /= r
            BY <2>1, <2>4, <2>6, <3>1, BoundAssumption DEF Ids
        <3> QED BY <1>1, <2>2, <2>3, <2>4, <2>6, <3>1, <3>2 DEF Typed
    <2> QED BY <2>5, <2>6
<1>5. ASSUME NEW own \in Ids \cup {None}, NEW keep \in Nat, MakesPlan(own, keep)
      PROVE  \E k \in Ids : k > t /\ tags'[k] = tags'[t]
    <2>1. tags' = tags
        BY <1>5 DEF MakesPlan
    <2>2. CASE t \in Plans
        BY <1>1, <1>5, <2>1, <2>2 DEF MakesPlan, Expose, LaterTagStays
    <2>3. CASE t \in Removals(own, keep)
        <3>1. tags[t] \in InUse
            BY <1>5, <2>1, <2>3 DEF MakesPlan, Expose
        <3> QED BY <1>1, <2>1, <2>3, <3>1, RemovalsLeave
    <2> QED BY <1>5, <2>2, <2>3 DEF MakesPlan
<1> QED BY <1>1, <1>2, <1>3, <1>4, <1>5, StepTags

LEMMA StepInUse ==
    ASSUME ImageIInv, [Next]_vars
    PROVE  InUseKeepsTag'
<1>1. /\ Typed /\ ImagesSettled /\ PlansSettled /\ LaterTagStays /\ ContainersFollow
      /\ InUseKeepsTag /\ config' = config /\ Plans \in SUBSET Ids
    BY StepTyped DEF ImageIInv, Plans, Typed, Jobs
<1> SUFFICES ASSUME config.history /= "none", NEW c \in containers', c.state = "running"
    PROVE  c.image \in exposed' \/ \E t \in Ids : tags'[t] = c.image /\ tags'[t] /= None
    BY <1>1 DEF InUseKeepsTag, Running, Tagged
<1>2. CASE IsNew(c)
    <2>1. c.id \in Ids
        BY <1>1, StepContainers DEF Containers
    <2> QED BY <1>2, <2>1 DEF IsNew, NewImage
<1>3. CASE Remains(c)
    <2>1. c.image /= None
        BY <1>1, <1>3 DEF Remains, ContainersFollow
    <2>2. c.image \in exposed \/ \E t \in Ids : tags[t] = c.image
        BY <1>1, <1>3 DEF Remains, InUseKeepsTag, Running, Tagged
    <2>3. CASE Quiet
        BY <2>1, <2>2, <2>3 DEF Quiet
    <2>4. ASSUME NEW d \in Ids, Tags(d)
          PROVE  c.image \in exposed' \/ \E t \in Ids : tags'[t] = c.image /\ tags'[t] /= None
        <3>1. CASE Resolved(d) = None
            BY <2>1, <2>2, <2>4, <3>1 DEF Tags, ImageTag
        <3>2. CASE Resolved(d) /= None
            <4>1. tags' = [tags EXCEPT ![d] = Resolved(d)] /\ tags[d] = None
                BY <1>1, <2>4, <3>2 DEF Tags, ImageTag, ImageOf, ImagesSettled, Early
            <4>2. CASE c.image = Resolved(d)
                BY <1>1, <3>2, <4>1, <4>2 DEF Typed
            <4>3. CASE c.image /= Resolved(d)
                <5>1. c.image \in exposed => c.image \in exposed'
                    BY <2>4, <4>3 DEF Tags, ImageTag
                <5>2. \A t \in Ids : tags[t] = c.image => tags'[t] = c.image
                    BY <1>1, <2>1, <4>1 DEF Typed
                <5> QED BY <2>1, <2>2, <5>1, <5>2
            <4> QED BY <4>2, <4>3
        <3> QED BY <3>1, <3>2
    <2>5. ASSUME NEW r \in Plans, TakesTag(r)
          PROVE  c.image \in exposed' \/ \E t \in Ids : tags'[t] = c.image /\ tags'[t] /= None
        <3>1. exposed' = exposed /\ tags' = [tags EXCEPT ![r] = None] /\ r \in Ids
            BY <1>1, <2>5 DEF TakesTag
        <3>2. CASE c.image \in exposed
            BY <3>1, <3>2
        <3>3. ASSUME c.image \notin exposed, NEW t \in Ids, tags[t] = c.image
              PROVE  \E k \in Ids : tags'[k] = c.image
            <4>1. CASE t /= r
                BY <1>1, <3>1, <3>3, <4>1 DEF Typed
            <4>2. CASE t = r
                <5>1. PICK k \in Ids : k > r /\ tags[k] = c.image
                    BY <1>1, <2>1, <3>3, <4>2 DEF LaterTagStays
                <5>2. k /= r
                    BY <3>1, <5>1, BoundAssumption DEF Ids
                <5> QED BY <1>1, <3>1, <5>1, <5>2 DEF Typed
            <4> QED BY <4>1, <4>2
        <3> QED BY <2>1, <2>2, <3>2, <3>3
    <2>6. ASSUME NEW own, NEW keep, MakesPlan(own, keep)
          PROVE  exposed \subseteq exposed' /\ tags' = tags
        BY <2>6 DEF MakesPlan, Expose
    <2> QED BY <1>1, <2>1, <2>2, <2>3, <2>4, <2>5, <2>6, StepTags
<1> QED BY <1>1, <1>2, <1>3, StepContainers

(* The inductive invariant of the images.                                  *)
THEOREM ImagesInductive == Spec => []ImageIInv
<1>1. ASSUME ImageIInv, [Next]_vars
      PROVE  ImageIInv'
    <2>1. NoHistory'
        BY <1>1, StepTyped DEF ImageIInv, NoHistory
    <2>2. Typed'
        BY <1>1, StepTyped DEF ImageIInv
    <2> QED BY <1>1, <2>1, <2>2, StepSettled, StepRollbacks, StepFollow, StepLaterTag,
               StepInUse DEF ImageIInv
<1> QED BY <1>1, InitImages, PTL DEF Spec

(* Whatever plans are made and carried out between what other steps, the   *)
(* image of a running container keeps a tag, unless it was put to use      *)
(* after a plan had listed it.  (selectImageTagsToRemove,                  *)
(* ExecuteImagePrunePlan.)                                                 *)
THEOREM UseKeepsTag == Spec => []InUseKeepsTag
<1>1. ImageIInv => InUseKeepsTag
    BY DEF ImageIInv
<1> QED BY <1>1, ImagesInductive, PTL

(* A rollback runs the image of the deployment it goes back to, whatever   *)
(* is deployed, pruned and rolled back in between.  (RollbackApp.)         *)
THEOREM RollbackRuns == Spec => []RollbackRestores
<1>1. ImageIInv => RollbackRestores
    BY DEF ImageIInv, RollbacksFollow, ContainersFollow, RollbackRestores, Typed, Containers
<1> QED BY <1>1, ImagesInductive, PTL

------------------------------------------------------------------------------
(* The history: what a step that disturbs nothing does                     *)

Calm == tags' = tags /\ history' = history /\ Plans' \subseteq Plans

OthersStay(d) == \A e \in Ids \ {d} : job'[e] = job[e]

Still == Calm /\ \A e \in Ids : job'[e].stage = job[e].stage

Starts(d) == Calm /\ OthersStay(d) /\ Requested(d) /\ Active = {}

(* Stages that follow each other without a word to the tags or the history. *)
Goes(d) ==
    /\ Calm /\ OthersStay(d)
    /\ <<job[d].stage, job'[d].stage>> \in
           {<<"pull", "tag">>, <<"stop", "remove">>, <<"remove", "run">>, <<"run", "run">>,
            <<"run", "save">>, <<"prune", "done">>}

GetsTag(d) ==
    /\ OthersStay(d) /\ Settled(d) /\ config.history /= "none"
    /\ tags' = [tags EXCEPT ![d] = Resolved(d)]
    /\ history' = history /\ Plans' \subseteq Plans

LosesTag(t) ==
    /\ TakesTag(t) /\ history' = history
    /\ \A e \in Ids : job'[e].stage = job[e].stage

Records(d) ==
    /\ job[d].stage = "save" /\ job'[d].stage = "plan"
    /\ OthersStay(d)
    /\ tags' = tags /\ history' = Recorded(d) /\ Plans' \subseteq Plans

MakesOwnPlan(d) ==
    /\ job[d].stage = "plan" /\ job'[d].stage = "prune"
    /\ OthersStay(d)
    /\ tags' = tags /\ history' = history
    /\ Plans' \subseteq Plans \cup Removals(d, config.count)

Prunes(keep) ==
    /\ job' = job /\ tags' = tags /\ history' = history
    /\ Plans' \subseteq Plans \cup Removals(None, keep)
    /\ keep \in Nat /\ keep >= config.count

LEMMA GoGoes ==
    ASSUME Typed, NEW d \in Ids, NEW s \in Stages, Go(d, s),
           UNCHANGED <<tags, history, pruner>>
    PROVE  Calm /\ OthersStay(d) /\ job'[d].stage = s
BY GoMoves, FewerPlans DEF Typed, Calm, OthersStay

LEMMA StepDeployment ==
    ASSUME Typed, NEW d \in Ids, config.history = "local", ~disturbed',
           \/ EnsureImageUpToDate(d) \/ ImageTag(d) \/ StopContainers(d)
           \/ RemoveContainers(d) \/ SaveDeployment(d) \/ PlanRemoval(d)
           \/ \E ok \in BOOLEAN : RunContainer(d, ok)
    PROVE  Goes(d) \/ GetsTag(d) \/ Records(d) \/ MakesOwnPlan(d)
<1>1. ~Fail(d)
    BY DEF Fail
<1>2. CASE EnsureImageUpToDate(d)
    <2>1. Go(d, "tag") /\ job[d].stage = "pull" /\ UNCHANGED <<tags, history, pruner>>
        BY <1>1, <1>2 DEF EnsureImageUpToDate
    <2> QED BY <2>1, GoGoes DEF Goes, Stages
<1>3. CASE ImageTag(d)
    <2>1. Resolved(d) /= None /\ UNCHANGED <<history, pruner>>
        BY <1>1, <1>3 DEF ImageTag
    <2>2. tags' = [tags EXCEPT ![d] = Resolved(d)]
        BY <1>3, <2>1 DEF ImageTag, ImageOf
    <2>3. Settled(d) /\ OthersStay(d)
        BY <1>3, <2>1, ImageTagMoves DEF OthersStay
    <2>4. Plans' \subseteq Plans
        BY <2>1, <2>3, FewerPlans DEF Settled, OthersStay
    <2> QED BY <2>1, <2>2, <2>3, <2>4 DEF GetsTag
<1>4. CASE StopContainers(d)
    <2>1. Go(d, "remove") /\ job[d].stage = "stop" /\ UNCHANGED <<tags, history, pruner>>
        BY <1>1, <1>4 DEF StopContainers
    <2> QED BY <2>1, GoGoes DEF Goes, Stages
<1>5. CASE RemoveContainers(d)
    <2>1. Go(d, "run") /\ job[d].stage = "remove" /\ UNCHANGED <<tags, history, pruner>>
        BY <1>5 DEF RemoveContainers
    <2> QED BY <2>1, GoGoes DEF Goes, Stages
<1>6. ASSUME NEW ok \in BOOLEAN, RunContainer(d, ok)
      PROVE  Goes(d)
    <2>1. PICK s \in {"save", "run"} :
              job' = [job EXCEPT ![d].replica = job[d].replica + 1, ![d].stage = s]
        BY <1>1, <1>6 DEF RunContainer
    <2>2. job[d].stage = "run" /\ UNCHANGED <<tags, history, pruner>>
        BY <1>6 DEF RunContainer
    <2>3. /\ job'[d].stage = s /\ OthersStay(d)
          /\ \A e \in Ids : job'[e].plan = job[e].plan
        BY <2>1 DEF Typed, Jobs, OthersStay
    <2> QED BY <2>2, <2>3, FewerPlans DEF Goes, Calm
<1>7. CASE SaveDeployment(d)
    <2>1. /\ Go(d, "plan") /\ job[d].stage = "save" /\ history' = Recorded(d)
          /\ UNCHANGED <<tags, pruner>>
        BY <1>7 DEF SaveDeployment
    <2> QED BY <2>1, GoMoves, FewerPlans DEF Records, Stages, OthersStay, Typed
<1>8. CASE PlanRemoval(d)
    <2> DEFINE plan == Removals(d, config.count)
    <2>1. /\ job[d].stage = "plan"
          /\ job' = [job EXCEPT ![d].stage = "prune", ![d].plan = plan]
          /\ UNCHANGED <<tags, history, pruner>>
        BY <1>8 DEF PlanRemoval
    <2> HIDE DEF plan
    <2>2. /\ job'[d].stage = "prune" /\ OthersStay(d)
          /\ \A e \in Ids : job'[e].plan \subseteq job[e].plan \cup plan
        BY <2>1 DEF Typed, Jobs, OthersStay
    <2>3. Plans' \subseteq Plans \cup plan
        <3>1. pruner' = pruner /\ \A e \in Ids : job'[e].plan \subseteq job[e].plan \cup plan
            BY <2>1, <2>2
        <3> QED BY <3>1 DEF Plans
    <2> QED BY <2>1, <2>2, <2>3 DEF MakesOwnPlan, plan
<1> QED BY <1>2, <1>3, <1>4, <1>5, <1>6, <1>7, <1>8

LEMMA StepHistory ==
    ASSUME Typed, [Next]_vars, config.history = "local", ~disturbed'
    PROVE  /\ ~disturbed
           /\ \/ Still
              \/ \E d \in Ids : Starts(d) \/ Goes(d) \/ GetsTag(d) \/ Records(d)
                                \/ MakesOwnPlan(d)
              \/ \E t \in Plans : LosesTag(t)
              \/ \E keep \in Keeps : Prunes(keep)
<1> DEFINE Goal == /\ ~disturbed
                   /\ \/ Still
                      \/ \E d \in Ids : Starts(d) \/ Goes(d) \/ GetsTag(d) \/ Records(d)
                                        \/ MakesOwnPlan(d)
                      \/ \E t \in Plans : LosesTag(t)
                      \/ \E keep \in Keeps : Prunes(keep)
<1>1. ASSUME UNCHANGED <<tags, history, job, pruner, disturbed>>
      PROVE  Goal
    BY <1>1 DEF Still, Calm, Plans
<1>2. ASSUME NEW d \in Ids, NEW t \in history \cup {None}, Begin(d, t),
             UNCHANGED <<tags, history, pruner>>
      PROVE  Goal
    <2>1. ~disturbed /\ Active = {}
        BY <1>2 DEF Begin
    <2>2. Requested(d) /\ OthersStay(d)
        BY <1>2, BeginMoves DEF Typed, OthersStay
    <2>3. Plans' \subseteq Plans
        BY <1>2, <2>2, FewerPlans DEF Requested, OthersStay
    <2> QED BY <1>2, <2>1, <2>2, <2>3 DEF Starts, Calm
<1>3. ASSUME NEW d \in Ids,
             \/ \E i \in Images : RequestDeploy(d, i)
             \/ \E t \in Ids : RequestRollback(d, t)
      PROVE  Goal
    <2>1. PICK t \in history \cup {None} : Begin(d, t)
        BY <1>3 DEF RequestDeploy, RequestRollback, RollbackTargets
    <2>2. UNCHANGED <<tags, history, pruner>>
        BY <1>3 DEF RequestDeploy, RequestRollback
    <2> HIDE DEF Goal
    <2> QED BY <1>2, <2>1, <2>2
<1>4. ASSUME NEW d \in Ids,
             \/ EnsureImageUpToDate(d) \/ ImageTag(d) \/ StopContainers(d)
             \/ RemoveContainers(d) \/ SaveDeployment(d) \/ PlanRemoval(d)
             \/ \E ok \in BOOLEAN : RunContainer(d, ok)
      PROVE  Goal
    <2>1. ~Fail(d)
        BY DEF Fail
    <2>2. disturbed' = disturbed
        BY <1>4, <2>1 DEF EnsureImageUpToDate, ImageTag, StopContainers, RemoveContainers,
                          SaveDeployment, PlanRemoval, RunContainer, past
    <2> QED BY <1>4, <2>2, StepDeployment
<1>5. ASSUME NEW d \in Ids, RemoveImage(d)
      PROVE  Goal
    <2>1. CASE job[d].plan = {}
        <3>1. /\ Go(d, "done") /\ job[d].stage = "prune"
              /\ UNCHANGED <<tags, history, pruner, disturbed>>
            BY <1>5, <2>1 DEF RemoveImage, past
        <3>2. Goes(d)
            BY <3>1, GoGoes DEF Goes, Stages
        <3> QED BY <3>1, <3>2
    <2>2. CASE job[d].plan /= {}
        <3> DEFINE t == Max(job[d].plan)
        <3>1. t \in job[d].plan
            BY <2>2, MaxIn DEF Typed, Jobs
        <3> HIDE DEF t
        <3>2. /\ tags' = [tags EXCEPT ![t] = None]
              /\ job' = [job EXCEPT ![d].plan = job[d].plan \ {t}]
              /\ UNCHANGED <<containers, history, exposed, pruner, disturbed>>
            BY <1>5, <2>2 DEF RemoveImage, past, t
        <3>3. \A e \in Ids : /\ job'[e].plan \subseteq job[e].plan
                             /\ job'[e].stage = job[e].stage
            BY <3>2 DEF Typed, Jobs
        <3>4. t \in Plans
            BY <3>1 DEF Plans
        <3>5. LosesTag(t)
            BY <3>2, <3>3, FewerPlans DEF LosesTag, TakesTag
        <3> QED BY <3>2, <3>4, <3>5
    <2> QED BY <2>1, <2>2
<1>6. ASSUME NEW d \in Ids, DockerFails(d)
      PROVE  FALSE
    BY <1>6 DEF DockerFails, Fail
<1>7. ASSUME PruneImage
      PROVE  Goal
    <2> DEFINE t == Max(pruner)
    <2>1. t \in pruner
        BY <1>7, MaxIn DEF PruneImage, Typed
    <2> HIDE DEF t
    <2>2. /\ tags' = [tags EXCEPT ![t] = None] /\ pruner' = pruner \ {t}
          /\ UNCHANGED <<containers, history, exposed, job, disturbed>>
        BY <1>7 DEF PruneImage, past, t
    <2>3. t \in Plans
        BY <2>1 DEF Plans
    <2>4. LosesTag(t)
        BY <2>2, FewerPlans DEF LosesTag, TakesTag
    <2> QED BY <2>2, <2>3, <2>4
<1>8. ASSUME NEW keep \in Keeps, RequestPrune(keep)
      PROVE  Goal
    <2>1. ~disturbed /\ ~(keep < config.count)
        BY <1>8 DEF RequestPrune
    <2>2. keep \in Nat /\ config.count \in Nat
        BY BoundAssumption, ConfigAssumption DEF Typed
    <2>3. Prunes(keep)
        BY <1>8, <2>1, <2>2 DEF RequestPrune, Prunes, Plans
    <2> QED BY <2>1, <2>3
<1>9. ASSUME \/ \E d \in Ids : Update(d) \/ UpdateFails(d)
             \/ RequestStop \/ StopRemoves \/ UNCHANGED vars
      PROVE  UNCHANGED <<tags, history, job, pruner, disturbed>>
    BY <1>9 DEF Update, UpdateFails, RequestStop, StopRemoves, vars, past
<1> HIDE DEF Goal
<1>10. Goal
    BY <1>1, <1>3, <1>4, <1>5, <1>6, <1>7, <1>8, <1>9 DEF Next
<1> QED BY <1>10 DEF Goal

------------------------------------------------------------------------------
(* The history: the second inductive invariant                             *)

(* Deployments are numbered as they are requested.                         *)
InOrder == \A d \in Ids : \A e \in 1..(d - 1) : job[d].stage /= "idle" => job[e].stage /= "idle"

HistoryStarted == \A d \in history : job[d].stage /= "idle"

(* While nothing is disturbed a deployment that goes on is the only one,   *)
(* and the last that was requested.                                        *)
Alone ==
    \A d \in Active : \A e \in Ids \ {d} :
        e \notin Active /\ (e > d => job[e].stage = "idle")

(* Deployments that have their tag and no record yet.                      *)
Unsaved == {d \in Ids : job[d].stage \in {"stop", "remove", "run", "save"}}

(* The history as it will be once the deployment that goes on is recorded. *)
Recent == Newest(history \cup Unsaved, config.count)

(* It has its tags, no plan is to take one of them, and there is no newer  *)
(* tag beside theirs; so a plan that keeps as many tags keeps them.        *)
Backed ==
    /\ history \subseteq Newest(history, config.count)
    /\ Recent \subseteq Tagged
    /\ Recent \cap Plans = {}
    /\ \A t \in Recent, u \in Tagged : u > t => u \in Recent
    /\ \A d \in Ids : job[d].stage = "plan" => d \in history

HistoryIInv ==
    /\ ImageIInv /\ InOrder /\ HistoryStarted
    /\ config.history = "local" /\ ~disturbed => Alone /\ Backed

LEMMA InitHistory == Init => HistoryIInv
<1> SUFFICES ASSUME Init PROVE HistoryIInv
    OBVIOUS
<1>1. \A d \in Ids : job[d].stage = "idle" /\ job[d].plan = {} /\ tags[d] = None
    BY DEF Init, Fresh
<1>2. Active = {} /\ Unsaved = {} /\ Plans = {} /\ history = {} /\ Tagged = {}
    BY <1>1 DEF Init, Active, Unsaved, Plans, Tagged
<1>3. Recent = {}
    BY <1>2 DEF Recent, Newest
<1> QED BY <1>1, <1>2, <1>3, InitImages DEF HistoryIInv, InOrder, HistoryStarted, Alone, Backed

LEMMA StepOrder ==
    ASSUME HistoryIInv, [Next]_vars
    PROVE  InOrder' /\ HistoryStarted'
<1>1. Typed /\ InOrder /\ HistoryStarted
    BY DEF HistoryIInv, ImageIInv
<1>2. \A d \in Ids : job[d].stage /= "idle" => job'[d].stage /= "idle"
    BY <1>1, StepJobs DEF Requested, Carried
<1>3. ASSUME NEW d \in Ids, NEW e \in 1..(d - 1), job'[d].stage /= "idle"
      PROVE  job'[e].stage /= "idle"
    <2>1. e \in Ids
        BY BoundAssumption DEF Ids
    <2>2. job[e].stage /= "idle"
        BY <1>1, <1>3, StepJobs DEF Requested, Carried, InOrder
    <2> QED BY <1>2, <2>1, <2>2
<1>4. \A t \in history' : job[t].stage /= "idle" /\ t \in Ids
    BY <1>1, StepTyped DEF HistoryStarted, Typed
<1> QED BY <1>2, <1>3, <1>4 DEF InOrder, HistoryStarted

(* What is newer than the deployment that goes on has not begun.           *)
LEMMA ActiveIsNewest ==
    ASSUME HistoryIInv, Alone, NEW d \in Active
    PROVE  \A e \in history \cup Tagged : e \in Ids /\ (e = d \/ e < d)
<1>1. \A e \in history \cup Tagged : e \in Ids /\ job[e].stage /= "idle"
    BY DEF HistoryIInv, HistoryStarted, ImageIInv, ImagesSettled, Tagged, Typed, Early
<1>2. \A e \in Ids : e > d /\ e /= d => job[e].stage = "idle"
    BY DEF Alone
<1>3. d \in Int /\ \A e \in Ids : e \in Int
    BY BoundAssumption DEF Active, Ids
<1> QED BY <1>1, <1>2, <1>3

LEMMA CountType == ASSUME Typed PROVE config.count \in Nat \ {0}
BY ConfigAssumption DEF Typed

LEMMA AloneStays ==
    ASSUME Alone, Active' \subseteq Active,
           \A e \in Ids : job[e].stage = "idle" => job'[e].stage = "idle"
    PROVE  Alone'
BY DEF Alone, Active

LEMMA BackedStays ==
    ASSUME Backed, config' = config, history' = history, Unsaved' = Unsaved,
           Tagged' \subseteq Tagged, Recent \subseteq Tagged', Recent \cap Plans' = {},
           \A d \in Ids : job'[d].stage = "plan" => job[d].stage = "plan"
    PROVE  Backed'
<1>1. Recent' = Recent
    BY DEF Recent
<1> QED BY <1>1 DEF Backed

LEMMA StepAlone ==
    ASSUME HistoryIInv, [Next]_vars, config.history = "local", ~disturbed', Alone
    PROVE  Alone'
<1>1. Typed /\ InOrder
    BY DEF HistoryIInv, ImageIInv
<1>2. ASSUME NEW d \in Ids, OthersStay(d), d \in Active, job'[d].stage /= "idle"
      PROVE  Alone'
    <2>1. Active' \subseteq Active
        BY <1>2 DEF OthersStay, Active
    <2>2. \A e \in Ids : job[e].stage = "idle" => job'[e].stage = "idle"
        BY <1>2 DEF OthersStay, Active
    <2> QED BY <2>1, <2>2, AloneStays
<1>3. ASSUME \A e \in Ids : job'[e].stage = job[e].stage
      PROVE  Alone'
    <2>1. Active' = Active
        BY <1>3 DEF Active
    <2> QED BY <1>3, <2>1, AloneStays
<1>4. ASSUME Still \/ (\E t \in Plans : LosesTag(t)) \/ (\E keep \in Keeps : Prunes(keep))
      PROVE  Alone'
    BY <1>3, <1>4 DEF Still, LosesTag, Prunes
<1>5. ASSUME NEW d \in Ids, Goes(d) \/ GetsTag(d) \/ Records(d) \/ MakesOwnPlan(d)
      PROVE  Alone'
    <2>1. OthersStay(d) /\ d \in Active /\ job'[d].stage /= "idle"
        BY <1>5 DEF Goes, GetsTag, Settled, Records, MakesOwnPlan, Active
    <2> QED BY <1>2, <2>1
<1>6. ASSUME NEW d \in Ids, Starts(d)
      PROVE  Alone'
    <2>1. \A e \in Ids \ {d} : job'[e] = job[e] /\ e \notin Active'
        BY <1>6 DEF Starts, OthersStay, Active
    <2>2. \A e \in Ids : e > d => job[e].stage = "idle"
        <3>1. ASSUME NEW e \in Ids, e > d PROVE d \in 1..(e - 1)
            BY <3>1, BoundAssumption DEF Ids
        <3> QED BY <1>1, <1>6, <3>1 DEF Starts, Requested, InOrder
    <2> QED BY <2>1, <2>2 DEF Alone, Active
<1> QED BY <1>1, <1>4, <1>5, <1>6, StepHistory

LEMMA AloneUnsaved ==
    ASSUME Alone, NEW d \in Active
    PROVE  Unsaved \subseteq {d}
BY DEF Alone, Active, Unsaved

(* A deployment that nothing is newer than is among the newest.            *)
LEMMA LastIsNewest ==
    ASSUME NEW S \in SUBSET Ids, NEW d \in S, NEW n \in Nat \ {0},
           \A e \in S : e = d \/ e < d
    PROVE  d \in Newest(S, n)
<1>1. {u \in S : u > d} = {}
    <2>1. \A e \in S : e \in Int /\ ~(e > d)
        BY BoundAssumption DEF Ids
    <2> QED BY <2>1
<1>2. Cardinality({u \in S : u > d}) < n
    BY <1>1, FS_EmptySet
<1> QED BY <1>2 DEF Newest

LEMMA TagBacks ==
    ASSUME HistoryIInv, Alone, Backed, config' = config, NEW d \in Ids, GetsTag(d)
    PROVE  Backed'
<1> DEFINE n == config.count
<1>1. Typed /\ PlansSettled /\ n \in Nat \ {0}
    BY CountType DEF HistoryIInv, ImageIInv
<1> HIDE DEF n
<1>2. d \in Active /\ job[d].stage = "tag"
    BY DEF GetsTag, Settled, Active
<1>3. Unsaved = {} /\ Unsaved' = {d}
    <2>1. Unsaved = {}
        BY <1>2, AloneUnsaved DEF Unsaved
    <2> QED BY <2>1 DEF GetsTag, Settled, OthersStay, Unsaved
<1>4. Recent = Newest(history, n) /\ Recent' = Newest(history \cup {d}, n)
    BY <1>3 DEF GetsTag, Recent, n
<1>5. \A e \in history \cup Tagged : e \in Ids /\ (e = d \/ e < d)
    BY <1>2, ActiveIsNewest
<1>6. Tagged' = Tagged \cup {d}
    BY <1>1 DEF GetsTag, Settled, Tagged, Typed
<1>7. d \in Recent'
    BY <1>1, <1>4, <1>5, LastIsNewest
<1>8. Recent' \subseteq Recent \cup {d}
    <2> SUFFICES ASSUME NEW t \in Recent', t /= d PROVE t \in Recent
        OBVIOUS
    <2>1. t \in history /\ Cardinality({u \in history \cup {d} : u > t}) < n
        BY <1>4 DEF Newest
    <2>2. {u \in history : u > t} \subseteq {u \in history \cup {d} : u > t}
        OBVIOUS
    <2>3. history \cup {d} \in SUBSET Ids
        BY <1>5
    <2>4. Cardinality({u \in history : u > t}) < n
        BY <1>1, <2>1, <2>2, <2>3, SubsetCount
    <2> QED BY <1>4, <2>1, <2>4 DEF Newest
<1>9. d \notin Plans
    BY <1>1, <1>2 DEF PlansSettled, Early
<1>10. ASSUME NEW t \in Recent', NEW u \in Tagged', u > t
       PROVE  u \in Recent'
    <2>1. CASE u = d
        BY <1>7, <2>1
    <2>2. CASE u /= d
        <3>1. u \in Tagged /\ u < d
            BY <1>5, <1>6, <2>2
        <3>2. t /= d /\ t \in Recent
            BY <1>5, <1>8, <1>10, <3>1, BoundAssumption DEF Ids
        <3>3. u \in history
            BY <1>4, <1>10, <3>1, <3>2 DEF Backed, Newest
        <3>4. u >= t
            BY <1>4, <1>5, <1>10, <3>2, <3>3, BoundAssumption DEF Ids, Newest
        <3>5. history \cup {d} \in SUBSET Ids
            BY <1>5
        <3> QED BY <1>1, <1>4, <3>3, <3>4, <3>5, NewestUpward
    <2> QED BY <2>1, <2>2
<1>11. \A e \in Ids : job'[e].stage = "plan" => e \in history
    BY DEF GetsTag, OthersStay, Settled, Backed
<1>12. history' = history /\ Plans' \subseteq Plans
    BY DEF GetsTag
<1>13. Recent' \subseteq Tagged' /\ Recent' \cap Plans' = {}
    BY <1>6, <1>8, <1>9, <1>12 DEF Backed
<1>14. history' \subseteq Newest(history', config'.count)
    BY <1>12 DEF Backed
<1> QED BY <1>10, <1>11, <1>12, <1>13, <1>14 DEF Backed

LEMMA RecordBacks ==
    ASSUME HistoryIInv, Alone, Backed, config' = config, NEW d \in Ids, Records(d)
    PROVE  Backed'
<1> DEFINE n == config.count
<1>1. Typed /\ n \in Nat \ {0}
    BY CountType DEF HistoryIInv, ImageIInv
<1> HIDE DEF n
<1>2. d \in Active
    BY DEF Records, Active
<1>3. Unsaved = {d} /\ Unsaved' = {}
    <2>1. Unsaved = {d}
        BY <1>2, AloneUnsaved DEF Records, Unsaved
    <2> QED BY <2>1 DEF Records, OthersStay, Unsaved
<1>4. \A e \in history \cup {d} : e \in Ids /\ (e = d \/ e < d)
    BY <1>2, ActiveIsNewest
<1>5. Recent = Newest(history \cup {d}, n) /\ history' = Recent
    BY <1>3 DEF Records, Recorded, Recent, n
<1>6. history \cup {d} \in SUBSET Ids
    BY <1>4
<1>7. Newest(Recent, n) = Recent
    BY <1>1, <1>5, <1>6, NewestTwice
<1>8. Recent' = Recent
    BY <1>3, <1>5, <1>7 DEF Recent, n
<1>9. d \in Recent
    BY <1>1, <1>4, <1>5, <1>6, LastIsNewest
<1>10. \A e \in Ids : job'[e].stage = "plan" => e = d
    BY <1>2 DEF Records, OthersStay, Alone, Active
<1>11. Tagged' = Tagged /\ Plans' \subseteq Plans
    BY DEF Records, Tagged
<1>12. history' \subseteq Newest(history', config'.count)
    BY <1>5, <1>7 DEF n
<1> QED BY <1>5, <1>8, <1>9, <1>10, <1>11, <1>12 DEF Backed

LEMMA PlanBacks ==
    ASSUME HistoryIInv, Alone, Backed, config' = config, NEW d \in Ids, MakesOwnPlan(d)
    PROVE  Backed'
<1> DEFINE n == config.count
<1>1. Typed /\ n \in Nat \ {0}
    BY CountType DEF HistoryIInv, ImageIInv
<1> HIDE DEF n
<1>2. d \in Active /\ d \in history
    BY DEF MakesOwnPlan, Active, Backed
<1>3. Unsaved = {} /\ Unsaved' = {}
    <2>1. Unsaved = {}
        BY <1>2, AloneUnsaved DEF MakesOwnPlan, Unsaved
    <2> QED BY <2>1 DEF MakesOwnPlan, OthersStay, Unsaved
<1>4. Recent = Newest(history, n)
    BY <1>3 DEF Recent, n
<1>5. ASSUME NEW t \in Recent PROVE t \notin Removals(d, n)
    <2> SUFFICES ASSUME t \in Removals(d, n) PROVE FALSE
        OBVIOUS
    <2>1. t \in Tagged \ {d} /\ t \notin Kept(Tagged \ {d}, d, n)
        BY DEF Removals
    <2>2. d /= None /\ n > 0
        BY <1>1, NoneAssumption
    <2>3. t \notin Newest(Tagged \ {d}, n - 1)
        BY <2>1, <2>2 DEF Kept
    <2> DEFINE T == {u \in history : u > t}
               S == {u \in Tagged \ {d} : u > t}
    <2>4. t \in history /\ Cardinality(T) < n
        BY <1>4 DEF Newest
    <2>5. d > t
        BY <1>2, <2>1, <2>4, ActiveIsNewest, BoundAssumption DEF Ids
    <2>6. S \subseteq T \ {d}
        BY <1>4 DEF Backed, Newest
    <2>7. d \in T /\ T \in SUBSET Ids
        BY <1>1, <1>2, <2>5 DEF Typed
    <2>8. n \in Int
        BY <1>1
    <2> HIDE DEF S, T
    <2>9. Cardinality(S) < n - 1
        BY <2>4, <2>6, <2>7, <2>8, OneLess
    <2> QED BY <2>1, <2>3, <2>9 DEF S, Newest
<1>6. Recent \cap Plans' = {}
    BY <1>5 DEF MakesOwnPlan, Backed, n
<1>7. Tagged' = Tagged /\ history' = history
    BY DEF MakesOwnPlan, Tagged
<1>8. \A e \in Ids : job'[e].stage = "plan" => job[e].stage = "plan"
    BY DEF MakesOwnPlan, OthersStay
<1>9. Recent \subseteq Tagged' /\ Tagged' \subseteq Tagged
    BY <1>7 DEF Backed
<1> QED BY <1>3, <1>6, <1>7, <1>8, <1>9, BackedStays

LEMMA PruneBacks ==
    ASSUME HistoryIInv, Backed, config' = config, NEW keep, Prunes(keep)
    PROVE  Backed'
<1>1. Typed /\ config.count \in Nat
    BY CountType DEF HistoryIInv, ImageIInv
<1>2. ASSUME NEW t \in Recent PROVE t \notin Removals(None, keep)
    <2> DEFINE T == {u \in history \cup Unsaved : u > t}
               S == {u \in Tagged \ {None} : u > t}
    <2>1. Cardinality(T) < config.count /\ t \in Tagged
        BY DEF Recent, Newest, Backed
    <2>2. S \subseteq T
        BY DEF Backed, Recent, Newest
    <2>3. T \in SUBSET Ids
        BY <1>1 DEF Typed, Unsaved
    <2>4. keep \in Nat /\ keep >= config.count
        BY DEF Prunes
    <2>5. t \in Tagged \ {None}
        BY <2>1, NoneAssumption DEF Tagged
    <2> HIDE DEF S, T
    <2>6. Cardinality(S) < keep
        BY <1>1, <2>1, <2>2, <2>3, <2>4, SubsetCount
    <2>7. t \in Newest(Tagged \ {None}, keep)
        BY <2>5, <2>6 DEF S, Newest
    <2> QED BY <2>7 DEF Removals, Kept
<1>3. Recent \cap Plans' = {}
    BY <1>2 DEF Prunes, Backed
<1>4. Tagged' = Tagged /\ history' = history /\ Unsaved' = Unsaved /\ job' = job
    BY DEF Prunes, Tagged, Unsaved
<1>5. Recent \subseteq Tagged' /\ Tagged' \subseteq Tagged
    BY <1>4 DEF Backed
<1> QED BY <1>3, <1>4, <1>5, BackedStays

LEMMA StepBacked ==
    ASSUME HistoryIInv, Alone, Backed, [Next]_vars, config.history = "local", ~disturbed'
    PROVE  Backed'
<1>1. Typed /\ config' = config
    BY StepTyped DEF HistoryIInv, ImageIInv
<1>2. ASSUME Calm, Unsaved' = Unsaved,
             \A e \in Ids : job'[e].stage = "plan" => job[e].stage = "plan"
      PROVE  Backed'
    <2>1. Tagged' = Tagged /\ history' = history /\ Plans' \subseteq Plans
        BY <1>2 DEF Calm, Tagged
    <2>2. Recent \cap Plans' = {} /\ Recent \subseteq Tagged' /\ Tagged' \subseteq Tagged
        BY <2>1 DEF Backed
    <2> QED BY <1>1, <1>2, <2>1, <2>2, BackedStays
<1>3. CASE Still
    <2>1. Calm /\ Unsaved' = Unsaved
        BY <1>3 DEF Still, Unsaved
    <2> QED BY <1>2, <1>3, <2>1 DEF Still
<1>4. ASSUME NEW d \in Ids, Starts(d) \/ Goes(d) PROVE Backed'
    <2>1. Calm /\ OthersStay(d)
        BY <1>4 DEF Starts, Goes
    <2>2. Unsaved' = Unsaved
        BY <1>4, <2>1 DEF Starts, Requested, Goes, OthersStay, Unsaved
    <2>3. \A e \in Ids : job'[e].stage = "plan" => job[e].stage = "plan"
        BY <1>4, <2>1 DEF Starts, Requested, Goes, OthersStay
    <2> QED BY <1>2, <2>1, <2>2, <2>3
<1>5. ASSUME NEW t \in Plans, LosesTag(t) PROVE Backed'
    <2>1. tags' = [tags EXCEPT ![t] = None] /\ Plans' \subseteq Plans /\ history' = history
        BY <1>5 DEF LosesTag, TakesTag
    <2>2. Tagged' = Tagged \ {t}
        BY <1>1, <2>1 DEF Tagged, Typed
    <2>3. Unsaved' = Unsaved
        BY <1>5 DEF LosesTag, Unsaved
    <2>4. Recent \subseteq Tagged' /\ Tagged' \subseteq Tagged /\ Recent \cap Plans' = {}
        BY <2>1, <2>2 DEF Backed
    <2>5. \A e \in Ids : job'[e].stage = "plan" => job[e].stage = "plan"
        BY <1>5 DEF LosesTag
    <2> QED BY <1>1, <2>1, <2>3, <2>4, <2>5, BackedStays
<1> QED BY <1>1, <1>3, <1>4, <1>5, TagBacks, RecordBacks, PlanBacks, PruneBacks, StepHistory

(* The inductive invariant of the history.                                 *)
THEOREM HistoryInductive == Spec => []HistoryIInv
<1>1. ASSUME HistoryIInv, ImageIInv', [Next]_vars
      PROVE  HistoryIInv'
    <2>1. config' = config /\ Typed
        BY <1>1, StepTyped DEF HistoryIInv, ImageIInv
    <2>2. ASSUME config.history = "local", ~disturbed'
          PROVE  Alone' /\ Backed'
        <3>1. ~disturbed
            BY <1>1, <2>1, <2>2, StepHistory
        <3>2. Alone /\ Backed
            BY <1>1, <2>2, <3>1 DEF HistoryIInv
        <3> QED BY <1>1, <2>2, <3>2, StepAlone, StepBacked
    <2> QED BY <1>1, <2>1, <2>2, StepOrder DEF HistoryIInv
<1> QED BY <1>1, InitHistory, ImagesInductive, PTL DEF Spec

(* As long as deployments succeed one after the other and prunes keep what *)
(* is configured, every deployment in the database can be rolled back to,  *)
(* although rows and tags are cut down separately.  (PruneOldDeployments,  *)
(* RemoveImages, handleImagePrune.)                                        *)
THEOREM HistoryKept == Spec => []HistoryBacked
<1>1. ASSUME HistoryIInv PROVE HistoryBacked
    <2> SUFFICES ASSUME config.history = "local", ~disturbed, Active = {}
        PROVE  history \subseteq Tagged
        BY DEF HistoryBacked
    <2>1. Backed
        BY <1>1 DEF HistoryIInv
    <2>2. Unsaved = {}
        BY DEF Unsaved, Active
    <2>3. history \subseteq Recent
        BY <2>1, <2>2 DEF Backed, Recent
    <2> QED BY <2>1, <2>3 DEF Backed
<1> QED BY <1>1, HistoryInductive, PTL

=============================================================================
