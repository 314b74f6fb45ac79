# A verification of the Spyre DRA driver

TLA+ modules, TLC configurations and TLAPS proofs about the Kubernetes dynamic
resource allocation (DRA) driver for IBM Spyre cards in `src/`. The driver runs
as a daemon set, one plugin process per node. Kubelet calls it over gRPC to
prepare and unprepare resource claims; the driver publishes the node's devices,
with their health, as a ResourceSlice.

## 1. The system

| component (source) | state | operations | what makes it correct |
|---|---|---|---|
| device state (`internal/state`) | checkpoint file, `Allocatable`, mutex `mu` | `NewDeviceState`, `Prepare`, `Unprepare`, `UpdateDeviceStates`, `Devices` | calls on claims are linearizable and durable; checkpoint and CDI specs agree at every instant a crash can expose |
| CDI handler (`internal/handler/cdi.go`) | CDI spec files, base spec | `CreateClaimSpecFile`, `DeleteClaimSpec`, `DeleteConfigFile`, `CleanZombieConfigFolders` | a folder in use is never removed, an unused one is |
| config and metrics mounts (`internal/handler/config`) | config and metrics folders, `uuidMap` | `GetConfigMetricsMount` | one fresh folder per container request |
| senlib config generator (`internal/handler/config/senlib_config_generator.go`) | the operator's template | `GenerateConfigContent`, `GenerateConfigFile` | the documented rules hold and the rest of the template is kept, whatever its shape |
| device utilities (`pkg/utils/device_utils.go`) | sysfs, which may change | `GetVFIODeviceFile` and other reads | no `vfio-noiommu` group is accepted |
| driver (`internal/driver`) and `RunPlugin` | references to the others, the main context | `NewDriver`, `PrepareResourceClaims`, `UnprepareResourceClaims`, `publishResources`, `onDeviceHealthChanged`, `HandleError`, `Shutdown` | a claim released by kubelet is released on disk; the slice follows the health; nobody uses the helper before it runs or after it stopped |
| health monitor (`internal/health/device_health.go`) | `healths`, `updateChan` (capacity 1), `stopChan` | `Start`, `Stop`, `processUpdate` | no health change is lost although notifications are coalesced |
| health client (`internal/health/health_client.go`) | `running`, `reconnecting`, `conn`, `quit`, `healthInfoMap` | `Start`, `Register`, `listen`, `attemptReconnect`, `Stop`, `UpdateHealths` | one listener, one registration at a time; reconnects; ends when told to |
| liveness check (`internal/health/health.go`) | gRPC server | `StartHealthcheck`, `Check`, `Stop` | probes are drained before the helper stops |
| discovery (`internal/discovery`) | none | `GetAllocatableDevices` | the supported devices with a vfio file, or the functions of the topology file in pseudo device mode; the same after a restart |
| topology (`pkg/topology`) | topology files | `GetPciTopology`, tier groups (union-find), NUMA map | the result does not depend on map iteration order |
| types, utilities, flags | none | translation, wiring | |

Interactions. Kubelet's calls arrive on gRPC goroutines, several at a time. They
all go through `DeviceState.mu`. `Prepare` calls the CDI handler, which calls the
config mount. `DeviceState` keeps three kinds of files (checkpoint, CDI spec,
folders) that no transaction ties together: only the order of the writes does. On
start-up `CleanZombieConfigFolders` compares two of them, and `NewDeviceState`
keeps or creates the third. Independently, the health client's listener
goroutine stores reports in `healthInfoMap` and signals the health monitor's
loop through a channel of capacity one; the loop takes the map, writes it into
`Allocatable` under the same `mu`, and publishes a copy of the devices.

What is hard here: crashes between two file operations and the retries of
kubelet; errors that are only logged; handlers that write back a whole
checkpoint they read before; coalesced notifications; the race between a
listener's deferred cleanup and the reconnection it has already started. The
list with source lines, and the property watching each, is `hazards` in
`PROJECT.json`.

## 2. The modules

| module | models | composes |
|---|---|---|
| `ClaimService` | abstract: an atomic, durable map from claim to devices | |
| `DeviceState` | `NewDeviceState`, `Prepare`, `Unprepare`, folders, specs, checkpoint, crashes | implements `ClaimService` |
| `Kubelet` | kubelet and scheduler as callers, reboots of the host | `DeviceState` |
| `SenlibConfig` | the senlib config generated from a template, as operators | |
| `ClaimSpec` | what one Prepare gives to containers, on real devices | `SenlibConfig` |
| `HealthMonitor` | from report to ResourceSlice | |
| `HealthClient` | the goroutines of the health client | |
| `DeviceStateProofs` | theorems about `DeviceState`: checkpoint and specs, refinement of `ClaimService`, folders | |
| `KubeletProofs` | theorems about `Kubelet` | |
| `HealthMonitorProofs` | theorems about `HealthMonitor` | |
| `HealthClientProofs` | theorems about `HealthClient` | |
| `Driver` | the process from `RunPlugin` to its end: start-up, shutdown, signals, probes | |
| `TierGroups` | the union-find of `tier_groups.go`, in any order of iteration | |
| `Discovery` | topology file, NUMA map and pseudo devices over restarts | |
| `DriverProofs` | theorems about `Driver` | |
| `TierGroupsProofs` | theorems about `TierGroups` | |
| `DiscoveryProofs` | theorems about `Discovery` | |
| `ClaimSpecProofs` | theorems about `ClaimSpec` and `SenlibConfig` | |
| `MCDeviceState`, `MCKubelet`, `MCHealthClient` | symmetry sets for TLC | |
| `MCTierGroups`, `MCDiscovery` | sets of topologies for TLC | |
| `MCClaimSpec` | allocations and template shapes for TLC | |

### DeviceState

A worker is a gRPC handler goroutine. Its `pc` names the file operation it is
about to execute: `p_lock` (waiting for the mutex), `p_dir` (create the config
folder), `p_metrics` (generate the senlib config and create the metrics folder),
`p_spec` (write the CDI spec), `p_save` (write the checkpoint); `u_lock`,
`u_config`, `u_metrics` (remove the folders named in the spec), `u_save`,
`u_spec` (remove the spec file); then `ok` or `err` until the answer has left.
The process can die (`Crash`) before any of them; the files survive, everything
else is reset. After a crash `BootScan` reads the specs and lists the folders no
spec mounts, `CleanConfig` and `CleanMetrics` remove them one by one, and
`BootCheckpoint` keeps or creates the checkpoint.

The constant `Faults` names the steps whose file operation may fail. A failed
step of `Checked` returns the error (`IOFails`); a failed removal of a folder is
logged and the handler goes on, as in the code. A worker may call for any claim
at any time; only `Kubelet` restricts the callers.

Abstractions: a checkpoint entry is the set of devices of the claim, with `{}`
for no entry, and a spec is that set with the folder it mounts. A claim has one
folder: all requests of a claim are prepared alike, so one stands for all. The
checkpoint read (`GetCheckpoint`) belongs to the step that takes the mutex,
because nobody else can write while it is held. A write that fails leaves the old
file, because checkpoint manager and CDI cache write a temporary file and rename
it. Folder names are random UUIDs: `Fresh` takes one that is not in use, and running out
of the bounded set shows as a failed creation.

### Kubelet (external callers)

Kubelet and scheduler are not in the repository. Modelled from how the driver is
called: the scheduler allocates disjoint device sets; kubelet has one call in
progress per claim, repeats what failed, loses a call's answer in a crash of the
driver, and gives the allocation back only after a successful Unprepare. It may
also prepare again a claim whose release has not succeeded. `HostReboot` empties
`/var/run/cdi`, where the spec files are, and leaves checkpoint and folders, which
the chart mounts from the host's disk; kubelet then calls Prepare again for its
pods. `stale` records the claims whose mounts these two cases may have removed:
Prepare answers them from the checkpoint without looking, so that `GrantIsMounted`
does not hold for them.

### SenlibConfig and ClaimSpec

A JSON value is a record tagged as an object (a function from keys) or as a
text; booleans are texts. `GenerateConfigContent` answers `"ok"` with the
content, `"error"`, or `"panic"` where the code's unchecked type assertions
panic. Encoding, decoding and the wording of errors are left out.

`ClaimSpec` runs it in place. `Discover` looks at sysfs once; `SysfsChanges` moves
a device between an IOMMU group, a `vfio-noiommu` group and none, as rebinding
does; `PrepareDevice` looks again, one result of the allocation after the other;
`WriteConfig` reads the template of the moment; `CreateClaimSpecFile` writes the
environment and the devices. A panic takes the process down. The checkpoint, the
folders and other claims are `DeviceState`'s: here the allocation keeps its order
and the devices their products, which `DeviceState` does not need. A device is its own bus id, CDI
name and vfio node; `/dev/vfio/vfio`, which every spec has, is left out.

### HealthMonitor

`stream` is the gRPC stream, `infoMap` the client's `healthInfoMap`, `token` the
content of `updateChan`, `loop` the next step of `processUpdate`; the steps are
the critical sections of the code (client mutex, `DeviceState.mu`, the publish
call). A report maps each address to a state or to `Absent`. `Overlay` is
`InitHealthInfo` followed by the client's map, so that a device missing from a
report reads as ONLINE. `failed` records that the last attempt to publish failed:
it is only logged, and nothing retries it, so the slice may then be stale. Wording of the states (`StateNames`) is left out, the
map is one to one. Connections come and go as a whole.

### HealthClient

Every goroutine is a slot of `Procs`, started by `Start` (`s_...` steps), by
`attemptReconnect` (`cas`, `try`, `r_...`, `done`), or as a listener (`recv`,
`clear`, `close`: the two halves of the deferred function). `own` is the
connection a goroutine's client or stream was made from, `conn` the shared field
`t.conn`, which is what the deferred function closes. A connection nobody can
reach any more can be used again as a name. Backoff is abstracted to order. With
`Malformed` a report may make the listener panic (a device without `DeviceID`):
`Recovers` is the deferred function, which ends it without a reconnection. A socket
name that `grpc.NewClient` refuses fails at every attempt, as `NoCredentials` does.

### Driver

`main` is the next step of `RunPlugin`, through `NewDriver` and `Shutdown`; the
helper, the liveness service and the update loop are started and stopped by it.
What `HealthMonitor` says in full is one number here, the version of the device
attributes, so that "older" has a meaning. Signals cancel the main context, or
kill the process while no handler is installed (`default`: before
`signal.NotifyContext` and after `stop()`). `TypeOK` includes that Shutdown stops only
the monitor and the liveness service that were started. The helper may report a fatal error
whenever it runs. Whether liveness service and monitor are configured is chosen
by the steps that start them.

### TierGroups

An address is an integer, in the order of the strings. `Init` takes any of the
given topologies and builds `adjacency`, the peers of each known device by
level. Per tier, `Union` merges one link, whichever the map iteration yields,
with the path compression of both `find`s, and skips a peer that is no known
device; when all links are merged, `Group` looks each device up, in any order.

### Discovery

Pseudo device mode only. `Start` chooses the file (`GetTopologyFile`), `ReadFile`
reads it or falls back on the built-in topology, which `CreateFile` and `FillFile`
write in place, `NumaStep` is one iteration of the NUMA loop, `Offer` makes the
devices. The process may end anywhere; the generated file may go with its
container. `slice` survives, as the ResourceSlice does. A topology keeps of each
card its peers of tier 0. On s390x no virtual functions are generated; that
branch is not modelled. The model has no step for `defaultPseudoDevices`: in
pseudo device mode `GetPciTopology` never returns a nil topology, so that the
code's fallback is not reached, and a file that does not parse ends in a start
without devices. `RestartKeepsDevices` excepts this case.

## 3. The runs

| run | question | bounds | distinct states |
|---|---|---|---|
| `DeviceState_safety` | do checkpoint and specs agree; is the driver a `ClaimService` | 2 claims, devices, folders, workers; all faults | 0.34 M (symmetry) |
| `Kubelet_safety` | does the checkpoint agree with kubelet; is a device prepared once; do the mounts of a ready claim exist; who removes folders | 2 claims, devices, workers, 3 folders; crashes, reboots, all faults but an unreadable spec at start-up | 3.11 M (symmetry) |
| `Kubelet_releases` | does every release get through; is every call answered; does a start-up leave a zombie | 1 device, 2 folders; crashes and reboots, all faults but an unreadable checkpoint in Unprepare and those of the start-up; all eventually cease | 51 k |
| `Kubelet_orphan` | *violation*: is an orphaned spec harmless | 2 claims, 1 device, no faults but a crash | |
| `ClaimSpec` | does what containers are given fit together; which nodes get in; is the template respected | 2 devices of any product and a foreign result in any order; 75 templates | 0.80 M |
| `HealthMonitor` | is a report lost between the goroutines; does the slice converge; does Stop end the loop | 1 own and 1 foreign device, 2 states, 2 reports in flight; publishing may fail | 0.10 M |
| `TierGroups` | are the groups the components, in any order; are tiers nested | 4 devices, at most 3 peers | 0.64 M |
| `Driver` | does the helper outlive its users; does the slice go back; does a fatal error end the process | 3 attribute changes | 1.8 k |
| `Discovery` | do NUMA numbers follow the switches; does a restart keep the devices | 3 cards with any peers, 3 choices of listed functions | 0.37 M |
| `HealthClient_live` | one listener, one registration; does everything end | 3 goroutines and connections, 2 attempts | 0.12 M |
| `HealthClient_reconnect` | *violation*: does the client reconnect | as above | |
| `HealthClient_stop` | *violation*: does a stopped client stay stopped | 4 goroutines, 5 connections | |

Why the bounds are enough. The mutex serialises handlers, so a second worker
suffices to be outside while one is inside, and a second claim to be damaged by a
call for the first; both claims can be called by both workers. Three folders are
two prepared claims and a zombie. Two devices make non-trivial allocations and
a partial discovery possible. Two reports in flight are the least that can be
applied in the wrong order or merged in one notification. Three peers on four
devices are the longest chain there is, with every tier on every link. Three
cards are a switch with two and a switch with one. Two devices are a mixed claim
and the difference between one device and several, which is all the generator
tells apart; the templates have each section missing, empty, with other keys, with
the key set, or no object, combined freely. Three attribute changes let
the loop publish, change and publish again around a shutdown. Three goroutines are a
listener, its successor and an attempt, which is enough for each race of the
reconnection that the runs show; the theorems hold for any number.

Fairness. `DeviceState`: each handler keeps running (weak), and a worker waiting
for the mutex gets it although others compete (strong): Go's `sync.Mutex` hands
over in FIFO order once a waiter has starved for a millisecond. No fairness on
calls or crashes. `Kubelet`: the daemon set restarts the driver (weak on `Boot`),
and kubelet keeps retrying a pending release (strong, since a worker has to be
free). `HealthMonitor`: both goroutines run; a broken connection is made again
(an assumption there, `HealthClient` is about it). `Driver`: the main goroutine,
the update loop and a probe in progress keep running (each is code between calls
that return); signals, errors, probes and changes need not come. `HealthClient`: every goroutine
runs; the arrival of another report is not assumed.

The violations are disagreements between the repository's own words and its code:

* *Orphaned spec* (`state.go:211`): the comment says that the CDI spec file a
  crash of Unprepare leaves behind is harmless and can be cleaned up by
  `CleanZombieConfigFolders`. That function reads spec files but removes only
  folders; the file stays, and when its devices are prepared for another claim two
  files define the same CDI device.
* *Reconnection* (`health_client.go:236`): `listen` starts `attemptReconnect` and
  only then runs its deferred function, which clears `running` and closes
  `t.conn`. If the new registration is faster, the old listener closes its
  successor's connection, and the attempt the successor then starts is
  dropped because `reconnecting` is still set. If it is slower than the flag
  check, it takes the client for running. Either way nothing reconnects.
* *Stop* (`health_client.go:224`): an attempt already inside `Register` sets
  `running` after Stop and starts a listener.

## 4. The proofs

The theorems hold for any values of the constants that satisfy the named
assumptions (`NoneAssumption`, `FaultsAssumption`, ...); a theorem that needs more
says so in its statement.

`DeviceStateProofs`. The core is the inductive invariant `IInv`.
`CheckpointHasSpec` alone is not inductive: the write of the checkpoint needs to
know that the spec written one step before is still there (`StepInv`), that
needs the mutex to exclude every other writer (`LockInv`), and that the
checkpoint a handler has loaded is the one on disk, so that writing it back
changes only one entry (`LoadedInv`). `CallInv` keeps the calls well formed and
`FileInv` says that a missing checkpoint file never hides an entry. `InitIInv`
and `NextIInv` (from `NextBase` and `NextHasSpec`, one step per action) prove
`Init => IInv` and that every action preserves it; `Invariance` concludes. From it follow `TypeCorrect`,
`CheckpointAlwaysHasSpec`, and the action properties `EntriesSafe` and
`PreparedSpecsSafe`, whose proofs look only at the actions that write the
checkpoint or a spec. The conjuncts other than `CheckpointHasSpec` form `Base`: they
also survive a reboot of the host, which takes the spec files away, and are all that
the proofs about folders and `KubeletProofs` build on. `CheckpointAlwaysHasSpec` is about
crashes of the process, not about reboots.

The refinement, in the same module. Prepare takes effect when `p_save` replaces the checkpoint,
Unprepare when `u_save` does; every other step maps to a stutter or to the answer.
`MapInv` adds what the mapping needs: an idle worker has no call, and Unprepare
works on a claim that has an entry until `u_save`. One lemma per kind of step
(`CallMaps`, `ReplyMaps`, `FailMaps`, `PrepareMaps`, `UnprepareMaps`,
`ProcessMaps`) shows that it is a step of the abstract service; `Refinement` adds
them up.

The folders, in the same module. If no spec file is unreadable at start-up (`"scan"` is not in
`Faults`), a folder mounted by a prepared claim is removed only by its Unprepare.
`FolderInv` says that no two specs mount the same folder, that the folder a
Prepare works on is not mounted yet, that Unprepare works on the folder of its
own spec, and that the list of the cleaning is disjoint from all mounts. If no
removal fails at start-up either, `StartupRemovesZombies` follows from `ZombieInv`:
of the folders without a mount only those still to be removed exist.

`KubeletProofs`. `EntryMatchesPhase` is inductive only with what relates the callers
to the calls: kubelet waits for exactly the calls in progress, one per claim
(`WaitInv`); a call in progress is what kubelet's phase says, and a finished one has
done it (`PhaseInv`). `InsideEffect` sums up what a step of a handler does to its
claim's entry, so that the other proofs need not look into the handlers.
`PreparedExclusively` then follows because allocations are disjoint (`AllocInv`).
`GrantsAreMounted` needs `FolderInv` again and `MountInv`: a claim that kubelet is not
releasing, and that is not stale, has the folders of its spec (`MountedInv`), each
step of Prepare finds the folders made before it (`MadeInv`), and the folder being
cleaned is mounted by no spec (`CleanedInv`). It, and `FoldersSafeFromCallers`, assume
that spec files can be read at start-up.

`HealthMonitorProofs`. `NoLostUpdate` needs no strengthening besides the types.
`SliceConverges` (the slice may lag only while the last publish has failed) chains four facts, one for each
place where a report can be on its way: what the service knows is the last report
in flight or the one stored (`FeedInv`); what is stored is what the loop handed
on, unless a notification is pending; the attributes follow that, and the slice
the attributes, unless the loop is at it (`LoopInv`).

`TierGroupsProofs`. No induction along paths or chains of parents is needed. A set
of devices is saturated if it holds a device exactly if it holds its parent, and
closed if no link leaves it. `MergedInv` says that a link already merged is not
separated by any saturated set, `WithinInv` that a closed set is saturated, so that
at the end of a tier the saturated sets are exactly the closed ones, and the trees
the components. Parents have smaller addresses, so that a root is the least of its
tree; `GroupInv` says that a device whose group is known hangs directly below its
root. From these follow `TierGroupsTypeCorrect`, `GroupsCorrect`, and
`TiersAreNested`, because the links of a tier include those of the lower ones.
`FindAlwaysEnds` says that the recursion of `find` ends: the least address on a
chain of parents has no smaller parent, so it is its own, and nothing else is.

`DriverProofs`. `StepInv` says which goroutines exist at which step of the main
one, `HelperInv` when the helper runs, `VersionInv` that nobody holds attributes
older than the published ones. `HelperOutlives` and `SliceForward` follow for
any number of changes.

`HealthClientProofs`. `CInv` says that only one goroutine is in the loop of
`attemptReconnect` (`FlagInv`), that Start works alone (`StartInv`), and that
whoever has passed the check of `running` sees no listener until it starts one
(`DialInv`), which is why the store of `running` cannot race another listener's
deferred clearing of it. `TriesInv` bounds the attempts by `maxReconnectAttempts`, which
`TypeOK` claims.

`DiscoveryProofs`. For any topologies and any order of the map iteration. `CountInv`
bounds the NUMA counter by the cards already iterated, and `SourceInv` says which
file a started process has read and what it is about to write over it. `NumaInv`
makes `NumaFollowsSwitches` inductive: the cards numbered so far form whole
switches, and two of them have the same number exactly if they are peers; a card
not yet numbered therefore starts a switch with no number in it, and the counter
has not been used for another. For `RestartsKeepDevices`, `OfferInv` says that the
devices last offered are those that the file in use, or the built-in topology in
its absence, would offer now: the file that a start generates has the content that
the same start offered. A file that does not parse is excepted, and so is a generated
one that a crash left truncated.

`ClaimSpecProofs`. For any devices, templates and changes of sysfs. Each step of a
Prepare rests on what the earlier ones read: an allocatable device that has not
moved since discovery is still in a proper group (`AllocatableInv`); nothing is left
of the claim before (`FreshInv`); the prepared devices are those picked out of
the results looked at so far (`PreparedInv`); and the written config is the one
generated from the template for exactly these (`WrittenInv`). The picking is a
recursive function; its values follow by induction over the number of results, as
a least counterexample in the library's theorem about well-founded relations
(`Least`, `Induction`), which needs no operator parameter. The generator is a chain
of settings: `Updates` says of one that it changes a single key of an object and
keeps the others, and `SetGeneralContent`, `SetMetricsContent` and
`GeneratedContent` add them up for a template of any shape that the code accepts;
`GenerateOutcome` says which it refuses or panics on. `ContentCorrect` and `TemplateCorrect` are these
facts about the config that was written, the former without the templates of
`NoEnable`; `SpecCorrect` compares it with the
environment and nodes of the spec.

Model-checked only: the liveness properties (CallsAnswered, ReleasesComplete,
EventuallyPublished, StopEnds, FatalErrorEnds, CancelEndsAll,
ReconnectingReleased), which are beyond TLAPS, and the counterexamples of the three
violations. Every other property of a passing run is the subject of a theorem.

## 5. Not modelled, and the plan

Not modelled because it decides nothing or is never called by the driver: the
common spec file, permissions and versions in a spec, logging, flags,
`GetOpaqueDeviceConfigs`, `ReadSenlibConfig`, `ReadResourcePool`, `WritePodInfo`,
`uuidMap`, and the attributes of a device that copy what sysfs or the topology
says (`vfEnabled` and `managed` among them). The e2e tests, the health service
mock and the charts are not part of the driver.

Known limits of what is modelled:

* kubelet never gives up a call. With a timeout a late Prepare can take effect
  after the Unprepare of its claim has answered; `DeviceState_safety` covers any
  order of calls at the driver, `Kubelet` does not;
* the checkpoint survives restarts, which holds for the default plugin directory
  only (`state.go:74` uses a constant path);
* a template whose `METRICS.general` has no key `enable` is left as it is, against
  rules 2.2 and 3.2 at `senlib_config_generator.go:95`; `ContentDocumented` excepts it;
* a report that makes the listener panic ends the monitoring for the life of the
  process (`health_client.go:240`); `HealthClient_live` shows that the flags stay right
  and everything still ends, and the two violation runs leave such reports out
  (`Malformed = FALSE`), which would otherwise be a shorter way not to reconnect;
* the comment at `topology.go:39-43` promises the pseudo topology in place of a file
  that is not valid; `Discovery` shows a start without devices for a file that is
  there and does not parse, which `RestartKeepsDevices` excepts.

Worth proving next: an abstract publisher (a slice that shows some report no older than
the one before) implemented by `HealthMonitor`, and the slice of `Driver` over it;
that a start of `Discovery` ends after at most one NUMA step per card.
