# haloy: specifications and proofs

haloy deploys containers to a server. On the server two programs do the work:
**haloyd** talks to Docker, decides which containers serve which host names,
manages certificates and images; **haloy-proxy** terminates HTTP and TLS and
forwards requests. Between them lies a Unix socket with a small HTTP API, and a
snapshot file. The CLI **haloy** talks to haloyd's HTTP API: it pushes images in
layers, asks for deployments, follows their logs and opens tunnels.

This directory holds TLA+ modules for the parts of the system in which the order
of steps matters: the way from a Docker event to the routes of the proxy,
certificates, deployments and their images, image pushes, logs, tunnels, and
requests through the proxy. TLC checks them on small instances; TLAPS proves every
safety property that TLC checks, for every value of the constants.

- [Inventory](#inventory) - the components, their state and what is hard
- [Modules](#modules) - what models what
- [Runs](#runs) - what is checked, on which bounds
- [Fairness](#fairness)
- [Proofs](#proofs)
- [Findings](#findings) and [observations](#observations)
- [Not modelled](#not-modelled)
- [Plan](#plan)

To repeat a run or a proof:

    tlc -workers 2 -config MCRollout.cfg MCRollout
    tlapm RolloutProofs.tla

## Inventory

All paths are below `src/internal/`. *Correct* says what makes the component
correct; names in `code` type are properties of the modules.

### The control path

**App debouncer** (`haloyd/app_debouncer.go`).
State: per app the captured events, a deadline and a timer; a mutex; an
unbuffered output channel; `done`.
Operations: `captureEvent` (main loop), `signalDone` (a timer's goroutine), `stop`.
Hard: a timer that has fired cannot be stopped, so goroutines of superseded
timers meet newer batches; the only receiver of the output is the only caller of
`captureEvent`.
Correct: no captured event is left without a timer and none waits longer than the
maximum (`CollectedInTime`), a start is announced and nobody blocks on the way
(`StartAnnounced`), shutdown leaves nothing behind (`NothingLeftBehind`).

**Main loop and update goroutines** (`haloyd/haloyd.go`).
State: channels for events, debounced events, certificate updates, errors;
tickers. Operations: startup (seed push, reconcile loop, initial update), one
goroutine with an `Update` per debounced event, maintenance and resync updates,
the judgement of an update's outcome and the cleanup of a failed deployment.
Hard: several updates are under way at once, and the judgement and the cleanup run
without the updater's mutex.
Correct: every update ends (`UpdatesEnd`, `UpdatesReturn`).

**Updater** (`haloyd/updater.go`).
State: one mutex. Operation: `Update`: discover, health check, replace the tables,
stop early if nothing changed, push routes, refresh certificates, stop and remove
old containers. Hard: it returns in many places, and what it skips or leaves half
done has to be made up for by somebody else.
Correct: `RoutesFollowTables`, `AppsStayRouted`, `RoutesConverge`.

**Deployment manager** (`haloyd/deployments.go`, `deployment_domains.go`,
`proxy_config.go`).
State: `deployments` and `failedDeployments` under an RW mutex. Operations:
`DiscoverContainers`, `HealthCheckContainers`, `UpdateDeployments`, readers,
`buildSnapshot`.
Hard: the failed table is carried along through arbitrarily many updates in which
apps fail, return and take over each other's host names.
Correct: `NeverMixed`, `FailedYield`, `RoutesKept`, `FailedNeverCollide`,
`UnchangedMeansSameRoutes`.

**Health monitor, state tracker, health config updater** (`healthcheck/`,
`haloyd/health_updater.go`).
State: per target a health flag and two counters. Operations: a round (take
targets, check, record), `OnHealthChange` when any state changed.
Hard: results of a round meet newer tables; the two tables are read under two
locks; its pushes compete with the updater's.
Correct: `BackendsChecked`.

**Proxy client** (`proxyclient/client.go`, `proxywire/file.go`,
`haloyd/proxy_pusher.go`) and **haloy-proxy's control API and boot**
(`haloyproxy/`).
State: mutex, `last`, the snapshot file; routes, config hash, where they came from.
Operations: `Push`, the reconcile loop, the startup push; boot from the file, open
the socket, `handleConfig`, `handleCertsReload`, status.
Hard: the reconcile loop decides with the mutex released; a request may outlive its
sender; crashes of either process between file, memory and socket.
Correct: `InFlightIsLatest`, `BootConfigValid`, `PushReturns`; together the two
implement an atomic configuration store (`ImplementsStore`), are never empty again
after the first push (`EmptyOnlyOnFreshInstall`) and converge (`Converges`).

### Certificates

**Certificates manager** (`haloyd/certificates.go`, `helpers/debouncer.go`), its
callers in `Update`, and the proxy's `CertManager` (`proxy/certs.go`).
State: the certificate files, `checkMutex`, the debouncer's timer, the published
challenges, the channel of update signals; in the proxy a cache of loaded files.
Operations: `RefreshSync` inside an update, `Refresh` through the debouncer,
`checkRenewals`, `CleanupExpiredCertificates`, the signal to the main loop and its
`ReloadCerts`, `GetCertificate` on a handshake.
Hard: a superseded refresh cannot be stopped; the signal is sent with `Updater.mu`
held, the first one before anybody receives; the cleanup shares the directory with
refreshes and takes no lock; a pass may renew some domains and fail on others.
Correct: `StaleHasReload`, `WantedFilesStay`, `UpdatesReturn`,
`CertificatesConverge`.

### Deployments and images

**Deploy and rollback** (`deploy/`), with the handlers that start them
(`api/handlers_deploy.go`, `handlers_rollback.go`, `handlers_stop.go`,
`handlers_image_prune.go`), image tags (`docker/image.go`), containers
(`docker/container.go`) and history (`storage/models_deployments.go`).
State: tags `app:<deployment ID>`, containers, rows of the history.
Operations: ensure the image, tag it, stop and remove (replace strategy), run the
replicas, save the deployment, prune rows and tags; roll back; stop; prune.
Hard: nothing serialises two deployments of an app; plans over tags are made and
carried out in separate steps; rows and tags are cut down independently; every call
to Docker may fail and leaves what was done before.
Correct: `InUseKeepsTag`, `RollbackRestores`, `HistoryBacked`.

**Layer store and layered push** (`layerstore/`, `storage/models_layers.go`,
`api/handlers_image_*.go`, `haloy/deploy_builder.go`) and **disk space checks**
(`api/disk_space.go`).
State: `layer.tar` files, temporary files, records with the time of their last use
and their links to images; free space.
Operations: check which layers are cached (and touch them), upload a layer,
assemble and load an image, fall back to the full tar, prune unused layers.
Hard: a prune judges, removes the directory and deletes the record in separate
steps, beside uploads and checks of other pushes; each check of the disk is right
by itself only; a retry meets what the failed attempt left.
Correct: `PromisedNotListed`, `DiskHolds`, `PushesEnd`.

### Connections and logs

**TCP tunnels** (`haloy/tunnel.go`, `api/handlers_tunnel.go`,
`api/tunnel_manager.go`). State: the CLI's slots, haloyd's capacity, two copiers
each in CLI and haloyd, the tracker of hijacked connections.
Hard: the four ends close in any order and by halves; Ctrl+C and shutdown come in
between; slots and capacity have several paths on which they are given back.
Correct: `EndsArrive`, `ShutdownDrains`, and the counting conjuncts of `TypeOK`.

**Proxy request path** (`proxy/proxy.go`, `router.go`, `websocket.go`,
`upgrade_tracker.go`). State: the snapshot, one round-robin counter per route and
snapshot, tracked connections.
Hard: a request goes on with the route of a replaced snapshot; a retry takes the next
backend from a counter that all requests share; a connection is hijacked while the
servers shut down.
Correct: `RetryServesAlone`, `RequestsEnd`, `ShutdownDrains`.

**Log broker** (`logging/`), with the handlers that stream (`api/stream.go`).
State: a buffer of recent entries, one per deployment too; channels of general
subscribers, one channel per deployment.
Hard: the buffer is replayed to a new subscriber by a goroutine that holds no lock;
slow subscribers are closed; two handlers of one deployment share a channel.
Correct: `NoEntryLost`, `StreamsEnd`, `NeverPanics` (violated).

### Without a module of their own

**API server** (routing, authentication, decoding, read-only handlers), **storage**
(opening, migrations, SQL), **CLI** (building images, hooks, terminal), **rate
limiter**, **haloyd command line**, **configuration**, **scripts**: see
[Not modelled](#not-modelled).

## Modules

    ConfigStore  <---- refines ----  ProxySync  <- ProxySyncProofs
                                       ^
                                       | "the snapshot is in Client.last"
    AppDebouncer . . abstracted in . > Rollout  <- RolloutProofs
      ^                                |     \
      AppDebouncerProofs               |      . . "a certificate may fail" . > Certificates
                                       v EXTENDS, implements            CertificatesProofs
                                     DeploymentTable
                                       v EXTENDS
                                     Deployments

    Deploy <- DeployProofs . . "containers start, an update removes the old ones" . > Rollout
    LayerStore <- LayerStoreProofs         ProxyTraffic <- ProxyTrafficProofs
    Tunnel, LogBroker <- ApiProofs

**ConfigStore** is the abstract specification of the configuration channel: a
durable configuration and a served one. A publication replaces the first; what is
served is something that was published; a boot restores the newest one.

**ProxySync** is the channel as the code implements it. Every client (the main
goroutine, the monitor's goroutine, the reconcile loop) has a program counter
through `Push` or `reconcile`; `mu`, `last` and `file` are the code's;
`handler[h]` is a PUT that runs in the proxy, whether or not its sender still
waits. A snapshot stands for its hash. `BeginPush` is the validation outside the
mutex; `Persist` combines the locking, the file and `Client.last`, because nothing
else looks at any of the three in between except a crash, whose two outcomes are
`PersistFails` followed by `StopHaloyd` (no new file) and `Persist` followed by
`StopHaloyd` (new file). `StopHaloyd` and `StopProxy` may happen between any two
steps. `Accepted` may be smaller than `Valid`: an older proxy rejects a newer
schema.

**AppDebouncer** is the debouncer with relative time: `Tick` counts timers and
deadlines down. A timer slot is armed, then fired, then its goroutine holds the
mutex, then sends. `age` is a history variable for the wait of the oldest event.

**Deployments** holds no state. It defines the deployment manager's functions:
which instances become active (`Newest`), which apps are remembered as failed
(`FailedAfter`), whether anything changed (`HasChanged`), and which routes follow
from the tables (`Snapshot`). An instance is one run of a container with its
labels and its address; two instances with the same `Container` are the same
container before and after a restart.

**DeploymentTable** is the deployment manager alone: the two tables, replaced in one
step (`ReplaceTables`) by what any possible result of the health checks makes of them.
It is the abstract specification of the tables. **Rollout** extends it by the system
around the manager: containers, debounced events, workers that run `Update` step by step under
`Updater.mu`, and the health monitor. `Faults` says what may go wrong in a run,
`Monitoring` whether the monitor is enabled. In Rollout a batch of captured events
may be announced at any time, which is AppDebouncer without its clock, and a push
ends with the snapshot in `Client.last`, from where ProxySync takes it.

**Certificates** composes the manager with the parts of `Update`, the main loop and
the proxy that take part in a certificate's life. `job[g]` is a refresh, on the
goroutine of a debounced timer or inside the update; `upd` the update's own progress
(`sync` while it waits for `RefreshSync`, `cleanup` while it walks the directory).
A certificate is the names on it and how near its end is (`valid`, `due`,
`expired`); ACME is one step that publishes challenges and one that succeeds or
fails. `disk` survives a restart of haloyd; `cache`, `loaded` (what a reload has
read but not yet swapped in) and `fetched` (what a handshake has read) belong to the
proxy. `missed` is a history variable: domains for which the proxy was not told, or
put back what it had read earlier.

**Deploy** is one app on one server. `job[d]` is the goroutine of deployment or
rollback `d`, each call to Docker or the database a step; `tags`, `containers` and
`history` are what they share. What an update does to the app's containers once one
has started is `Update`. A configuration is the strategy, the kind and length of the
history, and the number of replicas. `exposed` and `disturbed` are history variables
that delimit two properties (below).

**LayerStore** has the store's files and records, one push per client with its
uploads in parallel, and the runs of `PruneUnusedLayers`, in the main loop and inside
requests that find too little space. Sizes are counted in layers: `Used` is what
files, temporary files, tars and images take. A record is `recent` (touched within
the hour), `linked` (used by a deployment's image), or both. `HourPasses` ages them.

**Tunnel** and **ProxyTraffic** model of the bytes only their end: a side finishes
(half-close) or closes, a copier reads that end and passes it on, and a copier that
writes to a closed side notices with the next bytes, if any come. Both have the
tracker of hijacked connections and the shutdown in its steps.

**LogBroker** has the buffers, the channels by the handler that made them, the
replay goroutine of each channel, and the handlers. `owed` is a history variable: the
entries that are to reach a registered channel's subscriber.

**MCProxySync**, **MCDeploymentTable**, **MCRollout**, **MCCertificates**,
**MCDeploy**, **MCLayerStore**, **MCProxyTraffic** and **MCLogBroker** give the
constants values. AppDebouncer and Tunnel need none and are checked directly.

**ProxySyncProofs**, **AppDebouncerProofs**, **RolloutProofs** (with the theorems about
DeploymentTable), **CertificatesProofs**, **DeployProofs**, **LayerStoreProofs**,
**ProxyTrafficProofs** and **ApiProofs** (about Tunnel and LogBroker, the two kinds of
connections that the API server keeps open) hold theorems and their proofs. LogBroker
names its behaviour `LogInit`, `LogNext`, `LogSpec`, and DeploymentTable `NoTables`,
`TableNext`, `TableSpec`, so that another module can extend them.

Operators whose comment starts with *Mutant:* are not part of the specification.
Each is one definition with a plausible bug (a dropped guard, a forgotten unlock,
a swapped order); with it in place of the original, the run named in PROJECT.json
finds the property named there violated. They show that the properties can tell
the code from its near misses.

## Runs

| run | question | bounds |
|---|---|---|
| MCProxySync | Is the channel a configuration store, with crashes, late requests and skewed builds; does it converge? | seed, two application snapshots (the proxy rejects one), one that haloyd rejects; two request slots; crashes unbounded |
| MCAppDebouncer | Is every event collected in time, is a start announced, does shutdown leave nothing? | one app, two deployments, start and other events, two timers, three events per batch, delay 2, maximum 3 |
| MCDeploymentTable | Are the tables right over any sequence of updates? | three apps with two deployments each, which compete for four hosts and give them back |
| MCRollout | Do routes follow the tables, converge, and do updates end? | app a deployed twice, app b once; initial update and two update goroutines; failing certificates, stops, and deployments that never become healthy |
| MCRolloutMonitor | Do the monitor's pushes keep unchecked containers out? | app a deployed twice, thresholds 1 and 2, maintenance updates, every fault |
| MCCertificates | Does the proxy get every renewed certificate, do wanted files stay, do updates return, do certificates converge? | two domains that share a certificate or have one each, two timers, two incidents out of: app or resync update, ageing, failed attempt, lost reload, handshake, restart of haloyd or the proxy |
| MCDeploy | Do images in use keep a tag, do rollbacks restore, is the history backed by images? | three deployments or rollbacks, two at a time, two images; replace/local/2, rolling/registry/2, rolling/none/1 with two replicas; one failing call; one request to stop or to prune (keep 0 or 2) |
| MCLayerStore | Is what was promised kept, does the disk hold, does every push end? | two clients that share a stored layer, one stored layer nobody needs, one retry, disk of 9 layers with a reserve of 3, two incidents out of: failed operation, maintenance prune, an hour passing |
| MCTunnel | Do ends travel through both relays, does shutdown drain? | two local connections, one slot in the CLI, one tunnel in haloyd, with and without TLS |
| MCProxyTraffic | Is a retry served, does every request end, does shutdown drain? | two requests (plain, WebSocket, TCP tunnel, redirect, ACME), one app with an alias, two backends, two snapshots, a counter that wraps at 2, one incident (a push or a backend that dies) |
| MCLogBroker | Does a registered stream have gaps, does every stream end that was to end? | two clients of one deployment's logs, one of the server's, channels of one entry, buffers of two, three entries |
| MCLogBrokerPanic | see [Findings](#findings) | as MCLogBroker |

Why the bounds are enough: the interesting cases need at most one superseded party
each.

- *ProxySync*: one stale request beside one current request (two slots), one
  snapshot to be stale and one to be current.
- *AppDebouncer*: one timer that fired while it was replaced, beside its replacement
  (two timers), and a batch of more than two events that extends past the delay but
  not past the maximum (2 and 3 ticks).
- *DeploymentTable*: an app that fails, one that takes over its host, and one that
  shares the other host.
- *Rollout*: an old and a new deployment of one app, and another app whose update may
  discover them first; goroutines that wait for the mutex have no state but their
  trigger, so a third adds nothing. Rise 2 distinguishes counters from plain flags.
- *Certificates*: one superseded refresh beside the current one (two timers) and
  beside the update's own; two incidents are enough for a failure or restart in the
  aftermath of a change. The signal channel has its real size.
- *Deploy*: a rollback needs a target that another deployment's pruning competes for
  (three IDs); overlap needs two at a time. With two images the same image may stand
  behind several tags, which is what the tag counting is about. The two images are
  interchangeable, so the run uses their symmetry; it checks no liveness.
- *LayerStore*: a prune and the push it works against; a layer shared by both pushes
  and a layer that only one needs; the disk holds both pushes exactly when the
  stale layer goes.
- *Tunnel*, *ProxyTraffic*: one party that holds a slot, a counter or a place in the
  tracker, and one that competes with it.
- *LogBroker*: a buffer longer than the channel (two and one) makes the replay wait,
  a third entry meets the full channel; two handlers share one deployment's channel.

`MaxBatch`, `Timers`, `Handlers`, `Workers`, `Slots`, `Budget`, `MaxDeployments`,
`MaxActive`, `MaxFaults`, `MaxRequests`, `MaxEntries` are bounds of the models, not of
the code: they cap how many events, goroutines, requests, incidents and deployments
there are. `LocalSlots`, `MaxOpen`, `Retries`, `Capacity` (LogBroker), `MaxBuffer` and
`Wrap` stand for constants of the code and are smaller there.

Everything but ProxySync and DeploymentTable comes to rest at some point (all
containers started and judged, all requests answered, the incidents used up), so
those runs do not look for deadlock.

`DiscoverContainersFails`, `PushFails`, `Refresh`, a failing cleanup and the monitor's
actions happen in MCRolloutMonitor only; everything else of Rollout happens in both of
its runs.

Two properties are delimited by history variables. `InUseKeepsTag` exempts images that
were put to use after a plan had listed them as unused (`exposed`): the plan is
carried out all the same, and a test of that interleaving would find the container's
image without a tag. `HistoryBacked` is about deployments that succeed one after the
other (`disturbed`): a failed one takes a place among the kept tags without a row.
Likewise `StaleHasReload` exempts `missed` domains: a lost reload is not repeated.

## Fairness

- **ProxySync**: goroutines run; Go's mutex does not starve a waiter (a waiter of
  more than one millisecond is handed the mutex), hence strong fairness for a
  `Push` that waits for it; the reconcile ticker ticks; the service manager starts
  the proxy again; request handlers finish. Nothing makes haloyd push or start
  again, and no failure has to happen. `Converges` is stated for the case that
  pushes, write failures, deadlines and crashes stop at some point: while they keep
  coming, the proxy may always be one step behind.
- **AppDebouncer**: time passes and timers fire; the mutex as above; a ready channel
  of the main loop's select is served now and then, because select chooses at
  random among ready cases.
- **Rollout**: goroutines run, the mutex as above, captured events are announced
  (which AppDebouncer shows), the monitor's ticker ticks. Nothing makes a container
  start or a maintenance update happen. `UpdatesEnd` and `RoutesConverge` therefore
  do not lean on the periodic updates.
- **Certificates**: refreshes and the update go on, `checkMutex` is handed over, the
  CA answers, the main loop receives, and maintenance comes round (its ticker), which
  is what repeats failed attempts. Failures, restarts, handshakes, ageing and
  deployments are not fair.
- **LayerStore**: the CLI and the handlers that serve it go on; failures, time and
  maintenance prunes are not fair. **Tunnel**, **ProxyTraffic**: handlers and copiers
  go on and a shutdown reaches its deadlines; what the two outer sides do, and bytes
  that would make a copier notice a closed destination, are not fair. **LogBroker**:
  handlers read and return, replay goroutines send; publishing and disconnecting are
  not fair. **Deploy** has safety properties only.

## Proofs

**ProxySyncProofs** proves the five safety properties of MCProxySync for every set
of snapshots, every number of concurrent requests and every skew between the two
builds. It assumes only that the seed snapshot is valid, that the proxy accepts no
snapshot that haloyd rejects, and that the constants are distinct
(`SnapshotsAssumption`, `ClientsAssumption`). None of the properties is inductive.
The invariant `IInv` adds why they hold:

- `Mutex`, `SendingLast`: whoever is between lock and unlock holds `mu`, and sends
  `Client.last`;
- `LastIsFile`: `Client.last`, once set, is what the file holds;
- `ReadIsLatest`: as long as the pointer test of `reconcile` would succeed, what it
  read is still `Client.last` - this is what lets it push after it had released the
  mutex;
- `WaitingValid`: a push that waits for the mutex carries a validated snapshot;
- `Durable`: the file, the requests and the routes hold nothing that was not in the
  file before, and the file is never lost once it is there.

There is one lemma for each part of `Next`. `StoreImplemented` shows that every
step is a step of ConfigStore or changes nothing that ConfigStore sees.

**AppDebouncerProofs** proves the debouncer's types and `CollectedInTime`, for any
apps, delays and numbers of timers. `CollectedInTime` says that a batch has an armed
timer that is due in time or a fired one on its way; what makes it inductive:

- `DeadlineOfBatch`: an app has a deadline exactly while it has a batch;
- `DeadlineInTime`: the deadline and the age of the batch add up to at most the
  maximum, which is why the timer a capture arms is in time although it replaces one;
- `CurrentIsOwn`: the timer a capture stops is one of the same app, so stopping it
  takes no other app's timer, and the new one takes its place.

A batch is reduced to its newest event; that there is one is `NewestExists`, for any
finite set of deployment IDs: a set without a newest element would have a smallest such
subset, which the well-foundedness of the subset relation on finite sets excludes.

**RolloutProofs** first proves, of DeploymentTable alone, the invariants and action
properties of MCDeploymentTable, for any apps, hosts and instances. An entry of the
failed table is a former entry of the active one, so it is not mixed (`NeverMixed`) and
its hosts are those of its app; it survives exactly as long as no active app claims one
of them (`FailedYield`, `RoutesKept`), which is why the failed table cannot make a
snapshot ambiguous that would be unambiguous without it (`FailedNeverCollide`).
`UnchangedSameRoutes` needs the assumption that no two instances are the same container;
without it the property is false (see [Observations](#observations)).

`TablesImplemented` is the refinement: every step of Rollout replaces the tables as
DeploymentTable does, or leaves both alone, under every fault and with the monitor. So
what holds of the tables alone holds in the system (`TablesInRollout`).

Of the system itself it proves, for any apps, containers, goroutines and thresholds:

- `TypeCorrect`, with `TodoTracked` (a target that a round has still to check has an
  entry), since `RecordResult` without an entry would record nothing;
- `NeverUnchecked`: `BackendsChecked` under every fault. `AllChecked` follows what was
  found healthy from the update through the table, the monitor's copy of the table and
  the snapshot it builds from it to the routes; nothing on the way adds a container,
  and the failed table routes to none;
- `RoutesAreCurrent`: `RoutesFollowTables`, provided that the monitor is off and no
  push is rejected. `MutexHeld` says that only the holder of `Updater.mu` is inside an
  update, `PushedOrPushing` that tables and routes differ only while somebody is about
  to push; an update that finds nothing changed has left both tables as they were
  (`UnchangedTables`, from `OneAddressAssumption`). It assumes that the containers are
  finitely many (`InstancesAssumption`);
- `RoutedAppsStay`: `AppsStayRouted`, provided that the monitor is off and that no two
  apps claim the same host (`HostsApart`; an app that takes another's host takes its
  route, which is what the code means to do). `RoutedHaveEntries` says that an app the
  proxy was told of has an entry in one of the tables, also while the tables are ahead
  of the push, and `EntriesStay` that no step takes an app out of both.

**CertificatesProofs** proves, for any domains, tables, timers and number of incidents,
from `TablesAssumption`, `BudgetAssumption` and `NoneAssumption` (the values that stand
for "none" are no others):

- `WantedStay`: `WantedFilesStay`. `CleanupSpares` says that what a cleanup has listed
  is not wanted; it stays true because the table changes only where no update runs;
- `StaleIsReloaded`: `StaleHasReload`. The property alone is not inductive: a reload
  that has read the directory swaps in an old certificate later. `BehindHasReload`
  says the same of what a reload in progress has read, and counts the reload only if
  what it has read is what the file holds now. `JobsEnd` is needed too: a refresh that
  renewed something has its signal before it, since a job that is dropped or replaced
  (a stopped timer, a finished update) has renewed nothing;
- `TypeCorrect`, in which `Checks` ties published challenges to the holder of
  `checkMutex`.

**DeployProofs** proves the three invariants of MCDeploy, for any images and
configurations, any number of deployments, rollbacks, stops and prunes at a time, and
failures anywhere. It assumes that counts and bounds are natural numbers
(`ConfigAssumption`, `BoundAssumption`) and that "none" is neither a deployment nor an
image (`NoneAssumption`). Two inductive invariants:

- `ImageIInv`. `RollbacksFollow` and `ContainersFollow` say which image a job and its
  containers have, which is what `RollbackRuns` needs: a rollback's image is its
  target's, and a job's image no longer changes once others may look at it.
  `UseKeepsTag` rests on `LaterTagStays`: for each tag that some plan is about to take,
  a later deployment has a tag of the same image, unless that image had no use when a
  plan was made (`exposed`). For a plan keeps the newest tags (`NewestUpward`), and lists
  an image in use only if one of the kept tags is of it; so the latest tag of such an
  image is in no plan, whichever plans are carried out in whichever order;
- `HistoryIInv`, for `HistoryKept`. While nothing disturbs it, one job runs at a time
  (`Alone`), and `Backed` follows what the history is going to be: the rows together with
  the job that is not saved yet, cut to the count. All of these have tags, and no other
  tag is newer than the oldest of them; so cutting the tags to the count keeps the same
  deployments as cutting the rows (`NewestTwice`).

**LayerStoreProofs** proves, for any images, clients, numbers of layers and prunes:

- `TypeCorrect`;
- `PromisesHold`: `PromisedNotListed`. `PromisesRecent` says that what was promised
  within the hour is recorded as used within the hour, or that a prune which had listed
  it before has deleted the record: a layer that is reported as cached was touched
  before, and one that was uploaded was recorded when it was stored. `OwnLayers` and
  `UploadsListed` tie promises and uploads to the layers of the client's image;
- `DiskSuffices`: `DiskHolds`, from two hypotheses: what is stored at first fits
  (`StoresFit`), and the reserve is at least twice what the images of all other clients
  take (`ReserveCovers`). `Cost` counts what is on the disk and what each push may still
  write beyond its last check: its layers under way, its tar, its image. Each check of a
  push makes room for all of its own; what it cannot see is what the others were granted
  and have not written yet, at most the layers and the tar of each, or its tar and its
  image, and that is what the reserve must cover (`StepCost`).

**ApiProofs** proves, for any finite number of tunnels (`TunnelsAssumption`) and any
limits, that the CLI's slots and haloyd's capacity count the tunnels that are open:
every path on which a tunnel ends gives back what it took, once. `Unaccepted` is what
excludes a tunnel that begins twice.

Of the log broker it proves, for any handlers and deployments and buffers and channels of
any size, from the assumption that a handler streams the logs of one deployment or those
of the server (`HandlersAssumption`):

- `StreamsHaveNoGap`: `NoEntryLost`. `Moves` lists what a step can do to a channel that
  is registered afterwards: make it, or publish, replay or receive one entry. `Sound`
  says in addition that every entry is in the channel or with its goroutine once, not
  twice, so that what is received is nowhere else; that needs buffers without
  duplicates (`BuffersGood`), and an entry that is published has a number of its own;
- `PublishNeverPanics`: whatever closes a registered channel takes it out of the broker
  in the same step, so that no send of `Publish` panics. The sends of the replay
  goroutine do ([Findings](#findings)).

**ProxyTrafficProofs** proves, for any requests, snapshots and backends:

- `RetryServes`: `RetryServesAlone`, for any even modulus of the counter, of which the
  code's 2^32 is one (`WrapAssumption`). `Alternates` follows a request that nobody
  shares its counter with: after the first attempt the counter is one further than the
  value it took (`First`), and successive values pick different ones of two backends,
  across the wrap because the modulus is even; so the second attempt dials the backend
  that the first did not find down (`Second`). A push in between changes neither,
  since a request keeps its snapshot and a counter belongs to one;
- `TypeCorrect`, with `Waiting`: a request that is to be dialled has a route with
  backends.

It and ApiProofs prove `StoppedIsDrained`: once the shutdown has returned, nothing is
tracked, and nothing is afterwards.

Liveness (`Converges`, `PushReturns`, the debouncer's leads-to properties,
`RoutesConverge`, `UpdatesEnd`, `UpdatesReturn`, `CertificatesConverge`, `PushesEnd`,
`EndsArrive`, `ShutdownDrains`, `RequestsEnd`, `StreamsEnd`) is model-checked only: the
prover handles neither fairness nor ENABLED. The prover cannot instantiate induction
theorems over data either, so nothing here is defined by recursion, and no module
declares a RECURSIVE operator. Every other property that a passing run checks is
stated by a theorem; `RoutesFollowTables`, `AppsStayRouted`, `UnchangedMeansSameRoutes`
and `DiskHolds` under the hypotheses named above.

## Findings

**MCLogBrokerPanic.** A run that TLC ends with a counterexample to what the source says
of itself. A new subscriber is sent the buffered entries by a goroutine that does not
hold the broker's lock (`logging/logstream.go:148`). If meanwhile `Publish` finds the
channel full and closes it ("Channel full, close slow subscriber"), or the handler
returns and unsubscribes, the goroutine's next send is one on a closed channel. It
panics in a goroutine that recovers nothing, and haloyd ends.

## Observations

Met while modelling; the models contain them, and no property promises otherwise.

*Control path*

- On every start haloyd first pushes a snapshot without applications
  (`haloyd/haloyd.go:151`). A proxy that was serving them stops doing so until the
  initial update has checked every container; `dev/verify-proxy-split.md:8` promises
  that restarting haloyd never interrupts traffic.
- Whether anything changed is decided by container IDs (`haloyd/deployments.go:398`). A
  container that Docker restarted with another address is no change, and is routed to
  its old address.
- An update stops the containers of every deployment but the one that triggered it,
  even of the newer one that it has just routed (`haloyd/updater.go:221`).
- If another update sees a new deployment first, the deployment's own update finds
  nothing changed and skips the removal of the old containers
  (`haloyd/updater.go:142`); nothing else removes them.
- A deployment that is not active is announced complete if the app happens to have no
  failed container (`haloyd/haloyd.go:281`).
- A health report is applied to tables that are newer: the containers of a deployment
  that came in between are left without traffic (`haloyd/health_updater.go:44`).
- `OnHealthChange` reads the two tables under two locks and may find an app in neither
  (`haloyd/health_updater.go:60`): its route is dropped. `AppsStayRouted` is therefore
  checked with the monitor off.
- A debouncer batch with two deployments of an app announces the newer one only, so
  the older is neither reported complete nor failed.
- `Update` routes to every instance it found healthy, including those the monitor
  holds unhealthy; if such a container fails again, the monitor has no state change
  to act on and it stays routed.
- A rejected push (`PushFails`) leaves tables and routes different, and nothing
  repeats it until the tables change again.
- The error return of `GetCertificateDomains` in `Update` cannot be reached with
  labels that passed `ParseContainerLabels`; it has no action.

*Certificates*

- A failed `ReloadCerts` is only logged (`haloyd/haloyd.go:334`), and the command that
  changes haloyd's configuration restarts haloyd without the proxy reloading
  (`haloydcli/config.go:169`): the proxy serves the old certificate until the next
  renewal.
- A host with a file of its own is served from it even when it is now an alias on
  another certificate (`proxy/certs.go:171-182`). The cleanup sends no reload. A slow
  handshake may put an old certificate back into the cache.
- `deduplicateDomains` runs before the step that would prefer the entry with more
  aliases (`haloyd/certificates.go:520`, `894`), which therefore never has a choice.

*Deployments and images*

- `RunContainer`'s deferred cleanup looks at the `err` of `ContainerCreate`'s scope
  (`docker/container.go:78-94`). A replica that was created and fails to start stays,
  as do replicas that started before it; the partial deployment, reported as failed,
  may then be routed. The created container never becomes "exited", so that
  `waitForContainerExited` times out: every later deployment with the replace strategy
  fails when it stops the old containers, and updates fail to remove them.
- With a registry history the recorded image is `app:<deployment ID>`
  (`deploy/deploy.go:160-162`), which exists in no registry and whose local tag is
  pruned (keep 1); a rollback assumes that it is available (`deploy/rollback.go:120`)
  and fails.
- When `handleRollback` fails, or `handleDeploy` cannot reach Docker, the failure is
  logged without ending the deployment's log (`api/handlers_rollback.go:58`,
  `handlers_deploy.go:48`), and the CLI waits for more.
- Tags of failed deployments take places among those that are kept, so the last good
  deployments' images may go while their rows stay; with a count of one, a deployment
  that fails its health check leaves only itself in the history. Tags that are no
  ULIDs may sort above all others and keep their places.
- Two overlapping plans may take the last tag of an image that was put to use after
  both had listed it. Two overlapping deployments of a mutable reference may run each
  other's image, and with the replace strategy remove each other's containers. The CLI
  says that deployments to one server are serialized (`haloy/deploy.go:140`), which
  `--no-logs` does not wait for.
- `RolledBackFrom` is never set. `haloy stop --server` sends an empty app name.

*Layers*

- The preflight prunes layers when space is short, but what it then tests again is the
  result from before the prune (`api/handlers_image_disk_space.go:46-62`): the second
  check is never reached, and the push is refused even if the prune made room. The
  check in the upload handlers never runs for haloy's own client, which streams.
- A layer that was reported as cached and touched can still be deleted by a prune that
  had listed it before (`api/handlers_image_layers.go:49`); the push then fails to
  assemble and falls back. `PromisedNotListed` is about prunes that look later.
- A record without a file, if something in use links to it, is never pruned: every push
  with that layer falls back to the full tar.
- `DiskHolds` needs a reserve as large as what the other pushes may write: twice their
  images suffices for any number of pushes (`DiskSuffices`), and three layers do on the
  instance of MCLayerStore, whose clients share a layer. A default reserve beside
  several large pushes may be less than that.

*Connections and logs*

- Through TLS the CLI's connection is no `*net.TCPConn`, so the half-close at
  `haloy/tunnel.go:255-261` does not happen: the end of the local application's bytes
  does not travel, and `EndsArrive` is stated without TLS in that direction. The same
  holds for "Signal EOF to client" in `proxy/websocket.go:118`.
- A retry takes the next value of a shared counter (`proxy/proxy.go:449-452`): with
  concurrent requests it may dial the same dead backend again and answer 502.
  `RetryServesAlone` is about a request whose counter nobody else used.
- Replayed and live entries interleave, so the entry that ends a deployment's log may
  overtake older ones. A second handler of a deployment shares the first one's channel,
  and the cleanup of either closes it and drops the deployment's buffer.
- The buffer of a deployment nobody streams (`--no-logs`) is kept for good.
  `LogBroker.Close` is never called, so a stream of the server's logs holds a shutdown
  until its timeout.
- The CLI ignores the error of the log stream and whether the deployment failed:
  post-deploy hooks run and the exit code is 0 (`haloy/deploy.go:275-299`).

## Not modelled

- What a health check sends and reads, and its retries: its verdict is the state of the
  container. The monitor's `Stop`, and haloyd's shutdown beyond the debouncer and the
  API server: they are in the models only as the end of all steps.
- Docker's event stream with its reconnection: every container event is delivered. A
  container that reuses another one's ID or address while the first one still runs does
  not occur.
- The ACME protocol, and the content of certificates beyond names and age.
- The hash of a snapshot (snapshots are equal if their hashes are), JSON, SQL and
  migrations, image building and the registry push, exec, volumes.
- The **rate limiter** (`api/ratelimit.go`): token buckets behind a mutex. Its one
  interleaving, a visitor that the cleanup removes between lookup and use, costs a
  client at most a full bucket.
- **API server**: routing, authentication, decoding and the handlers that only read.
- **CLI**: building, hooks, resolution of targets, terminal output. **haloyd command
  line**, **configuration**, **scripts**: sequential file and terminal I/O without
  state of their own.

## Plan

Done: all modules above with their runs, the proofs of every safety property the runs
check, and the refinement of DeploymentTable by Rollout.

Next, in this order:

1. Proofs about the steps that the liveness properties lean on: that a mutex always has
   a holder that can go on, in AppDebouncer, Rollout and Certificates.
2. The Docker event listener with lost events and the resync, as an environment of
   Rollout.
3. The startup of haloyd's servers and its complete shutdown.
