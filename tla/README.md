# Verification of the config-server

TLA+ models of the parts of the config-server that keep state across steps:
its connection to the data-server, the runtime it keeps per target with its
collector and deviation watcher, the reconcilers that own Targets, Configs,
ConfigSets, Rollouts, Workspaces, Subscriptions, DiscoveryRules and Schemas,
the transactions that carry Configs into datastores, and the storage of the
API server with its watches. TLC checks them on small instances; TLAPS proves
their safety properties for every value of the constants.

Paths below are relative to the repository root.

## 1. The system

The config-server is a set of Kubernetes controllers and an aggregated API
server. A *Target* is a device; the external *data-server* keeps one
*datastore* per target and speaks to the device. A *Config* is a piece of
intended configuration of a target; it becomes an *intent* in the target's
datastore through a two-step transaction (set, then confirm).

| Component | State | Operations | Talks to |
|---|---|---|---|
| Connection manager `pkg/sdc/dataserver/manager` | Up/Down, the client, subscriber channels | Start, Stop, Subscribe, Client, run loop (dial, monitor) | data-server (gRPC), runtimes (channel of events) |
| Target runtime `pkg/sdc/target/manager/runtime.go` | desired definition, phase, readiness flags, recovery latch, running hash | SetDesired, SetRecoveryRetryToken, Start, Stop, the run loop with reconcileOnce | connection manager, data-server, notifier |
| Target manager `pkg/sdc/target/manager/manager.go` | map of runtimes, event channel (1024) | GetOrCreate, ApplyDesired, ClearDesired, Delete, DeleteDatastore, GetDatastore | runtimes, reconcilers |
| Target datastore reconciler `pkg/reconcilers/targetdatastore` | the Target's Ready condition and finalizer | Reconcile, reconcileDelete | target manager, API server |
| Target config reconciler `pkg/reconcilers/targetconfig` and Transactor `pkg/sdc/target/manager/transactor.go` | Config statuses and finalizers; the transaction | Reconcile, Transact, RecoverConfigs | API server, data-server |
| Registry `pkg/registry/generic` | resource versions, stored objects, watchers | Create, Update, Delete, List, Watch | clients of the API |
| Rollout and workspace `pkg/reconcilers/rollout`, `workspace` | network-wide transaction per rollout, git reference | Reconcile, TransactToAllTargets | data-server, git |
| ConfigSet `pkg/reconcilers/configset` | Configs unrolled from a ConfigSet | Reconcile | API server |
| Schema `pkg/reconcilers/schema`, `pkg/schema` | schema directories, references | Reconcile, Load, DelRef | git, schema-server |
| Discovery `pkg/reconcilers/discoveryrule`, `pkg/discovery` | running rules, discovered targets | Reconcile, Run, Stop | devices, API server |
| Subscriptions, collector, deviation watcher `pkg/sdc/target/manager` | active paths, gNMI subscription, deviation stream | Upsert, Delete, Start, Stop, update | devices, data-server, API server |
| Clear deviation request `apis/config/target_helpers.go` | the specs it listed, its attempt | POST cleardeviation | data-server, API server |

What is hard in it:

* *Concurrency.* A runtime is one goroutine that other goroutines steer through
  a trigger channel of one slot, an event channel that drops when full, and
  fields under a mutex that are read several times in one pass.
* *Failure.* Every RPC may fail before or after it was executed; the data-server
  may restart with or without its datastores; every API write may fail; the
  config-server itself may crash. Nothing but the API objects is persisted.
* *Ordering.* Down and Up events, wake-ups and Stop arrive in any order. A user
  edits Configs while they are in a transaction. Deletion has to stop the
  loop, delete the datastore and remove the finalizer in this order.
* *Retries.* Each reconciler must come back after a failure, and must not keep
  itself going with its own status writes.

What makes each part correct is the list of properties in section 3; what may
go wrong in it, at which line, is the list of hazards in `PROJECT.json`.

## 2. Modules

```
DSConnManager <-- TargetRuntime --implements--> RuntimeContract <-- TargetDatastore

NetworkCommit <--implements-- Rollout <-- Workspace

Transactor <-- ClearDeviation        Discovery <-- Fleet

Registry        Telemetry        Schema        Deviations
```

An arrow `A <-- B` reads: B extends A. The `MC` modules only instantiate a
specification for TLC; the `Proofs` modules hold the theorems.

**DSConnManager** is the run loop of the connection manager, the gRPC
connection below it, and one subscriber (broadcast treats all alike). `state`,
`client`, `chan` are `m.state`, `m.client` and the subscriber's channel;
`connPC` is where `run()` is. Subscribe is three steps (register, read the
state, send the snapshot), because the code holds no lock across them.

**TargetRuntime** is the goroutine `run` of one target with all of
`reconcileOnce`, `ensureDatastore`, `ensureDatastoreDeleted` and the recovery,
composed with DSConnManager. A pass is cut at each RPC and at each second read
of shared state; `notifyIfChanged`, deferred in the code, is a part of every
step that ends a pass. Each RPC has a step in which the data-server executes it
and a step in which it returns; the answer is lost when the connection breaks in
between. The datastore in the data-server is its definition and one bit: whether
it holds the accepted configs. `HandedOut` is the condition of GetDatastore and
GetClient.

**RuntimeContract** says what a runtime promises: one loop, started once, never
after Stop; only a running loop touches the datastore or shows Running; the loop
exits only when stopped. TargetRuntime implements it (checked and proved), and
TargetDatastore relies on it instead of on the details.

**TargetDatastore** is the life of one Target: user, finalizers of two
reconcilers, the work queue with requeues, Reconcile and reconcileDelete step by
step with every failing call, the target manager's map, the notifier's channel,
which may drop any event, and crashes of the config-server. `copy` is the Target
as a pass read it: by the time the pass writes, the Target may be deleting or gone.

**Transactor** is the set of Configs of one target: the user's edits, a pass of
the targetconfig reconciler (list, classify, set, confirm, then finalizer and
status per Config, or the error path), the Ready conditions it writes on every
outcome, the data-server's open transaction with its rollback, losses and crashes.
The recovery is another goroutine: it lists the applied configs, replays them in a
transaction of its own, confirms it and then writes one status after the other
from copies it listed (`replay`, `copies`), while the user and the reconciler go on.

**ClearDeviation** adds the REST request that clears the deviations of a
Target, which runs in another process: it lists the Configs, sends their specs
in a transaction of its own, confirms it and retries. The data-server admits one
transaction at a time, so request and reconciler abort each other (`tx` is the
owner of the open one).

**Registry** is one collection of the API server: `current` is the
resourceVersion counter, `lock` the write that holds its mutex (the object is
stored before the counter advances), `bus` the event the watcher manager hands
to the watchers, and each client lists, watches, overflows its queue, breaks
off and resumes as client-go's reflector does.

**Rollout** is the network-wide transaction and the reconciler around it:
Reconcile reads a git reference, computes what is to be updated and deleted,
launches a goroutine per target, waits for all or for the global timeout,
confirms or rolls back, and then writes the Configs to the API server. The
Transactor puts a finalizer on each Config it transacts (`transactor.go:372-379`),
so a Config that is deleted here is `going` until the Transactor lets it go. A call
whose goroutine gave up may still be executed (`stray`).
**Workspace** adds the controller that creates, updates and deletes the Rollout
and takes its verdict over.

**NetworkCommit** says what TransactToAllTargets promises, as an atomic commit
over the targets that take part: a data-server executes a confirmation only when
every target that is not left out has accepted its change; once a confirmation
was sent, none is rolled back and no target turns out to have failed; once one is
rolled back, none is confirmed. Timeouts, lost answers and the end of the
transaction are free. Rollout implements it (checked and proved) with the status
of a target as what the transaction knows of it: a confirm that failed is
`unsure`, because the data-server may have executed it.

**Telemetry** follows a Subscription from its controller through the
subscription table of the runtime and `reconcileCollector` to the collector's
loop and its gNMI stream. A Start after a Stop makes a new loop on the channel
the old one may still be reading.

**Discovery** is one DiscoveryRule, its controller and the instances of the rule
it starts and stops, each a goroutine that scans hosts, creates Targets, lists
them and deletes one by one those the pass did not discover. What it had sent when
it was stopped may still be executed (`inFlight`). **Fleet** adds the ConfigSet that
unrolls over these Targets: the events of Targets and Configs, the list and the
writes of a pass, its status and its deletion.

**Schema** is a Schema, its controller, the loader with its references and
directories, and the schema-server as far as the controller uses it; it may be
deleted and created again over what was left.

**Deviations** is the goroutine of the deviation watcher with its stream (START,
updates, END) and its Applies, Stop's two halves (clear, cancel), crashes that
end it without a Stop, and everyone else who creates or removes a Deviation object:
Transactor, discovery, the garbage collector.

### Abstractions

* A target definition stands for the CreateDataStoreRequest and its hash. A
  Config's content is one value. Messages, error texts, log lines, schema,
  priorities, recorded events and the migration of old condition types are left
  out.
* The collector appears in TargetRuntime only as a retry timer, and the deviation
  watcher only as running or not; Telemetry and Deviations have them in full, with
  the rest of the run loop as what a pass finds (`health`) or does (start, stop).
  Deviation objects are left out of Transactor.
* A network-wide transaction has one Config per target. A git reference is the
  set of targets it has a Config for. A Subscription has a port and a set of
  paths with intervals. A host answers a probe or it does not. The copy of a
  repository is there or not.
* In Registry every client watches the whole collection: label and field selectors
  are left out, and so are the stores below, which keep what was written.
* In Fleet the controllers of Target and Config are their outcomes: a Config is
  applied or not, a deletion completes.
* Leaving `run()` because the process's context ends, or because the event channel
  was closed under it (`runtime.go:304-307`), is the end of the process, that is, a
  crash: it is the stop of the connection manager that closes the channel.
* In TargetRuntime an answer is lost only together with the connection. In
  TargetDatastore and Transactor it may be lost at any time.
* Cached reads of the API client are current when they are made; they grow stale
  while a pass works on its copy.
* A RequeueAfter or a rate-limited retry is a pending request; how long it waits
  is left out.
* In Transactor the runtime stops being handed out at the moment the datastore
  is lost. A pass that took it before goes on and fails or succeeds as it would.
  A latched recovery failure counts as a recovery still to come.

### Ghost variables

A ghost marks the one case in which the code does not keep a property, so that
the property says exactly the rest. Each is a hazard in `PROJECT.json`, and
section 5 sums them up.

* `missed` (TargetRuntime): an outage the monitor did not see, or whose Down was
  dropped by a full buffer; the runtime cannot know of it.
* `torn` (Transactor): the Configs whose status and datastore came apart in a way
  the code does not notice: the answer of a confirm or a later API call was lost,
  the datastore was lost or the process crashed between set and status, a Config
  that had no finalizer yet was deleted while in a transaction, or a cleardeviation
  request set another spec. A later confirmed transaction clears it.
* `misread`, `rewound`, `synced`, `life` (Registry): the counter was initialised from a
  list that failed; a restart lost versions only deletes carried; the life of the
  server a client's state is from.
* `dropped` (TargetDatastore): an event of the runtime was dropped by the full
  channel, and no pass has read the runtime's status since.
* `stolen` (Telemetry): a stale loop took a notification meant for its successor.
* `leaked` (Discovery): Stop found no cancel function. `csFailed` (Fleet): the last
  pass of the ConfigSet left something undone.
* `gaps` (Schema): `partial`, `changed`, `leftover`, `unreachable`, `unsaid`.
* `mixed` of a watcher (Deviations): a report was mixed from two streams.

Where a ghost exempts just what a hazard names, the hazard lists no property and
says so: the exemption is not taken for a check.

## 3. Runs

| Run | Instance | Checks |
|---|---|---|
| `conn` | 4 connections, buffer 3, fair | `UpHasClient`: Up goes with the newest client. `Reconnects`, `StopReleases`: the loop goes on dialling; stopping it closes client and subscriber. |
| `runtime` | 2 connections, 1 definition, 2 retry tokens | `HandedOutHoldsIntents`: what is handed out as recovered holds the accepted configs, unless the loss is on its way or hidden. `IdleIsNotified`: no status stays untold. `ImplementsContract`: refinement of RuntimeContract. |
| `runtime_settles` | 1 connection, 2 definitions, fair | `UntouchedWhileHandedOut`: a datastore is not replaced while handed out. `Settles`: stopped loops exit, calm ones return to Running or to a latched failure. |
| `target_life` | 2 creations, 1 crash, 2 discovery changes, any event dropped, fair | `NoTargetNoDatastore`, `UnregisteredDoesNotRun`: no datastore and no loop outlive the Target. `DeletionCompletes`. `ReadyFollows`: the Ready condition follows the runtime, unless the event was dropped behind a pass that saw it Running. |
| `transact` | 2 Configs that exist or not, 2 contents, 1 edit, 1 failure, 1 loss, crash or request, 2 attempts, fair | `ReadyIsApplied`: what a Ready Config calls applied is in the datastore. `StoredIsOwned`: an intent has a Config with a finalizer. `NothingForgotten`: no edit is missed. `ComesToRest`: the reconciler stops working. `ClearedIsStored`: a request answered without error has its specs in the datastore, confirmed. |
| `registry` | 2 objects, 1 client, 3 versions, queue of 1, 1 fault, fair | `StreamIsComplete`: a watch leaves no gap. `VersionsAreOrdered`: versions name writes in their order. `CatchesUp`: clients end with what is stored. |
| `workspace` | 2 targets, 2 references, 2 edits, 1 failing call, any timeout, fair | `ConfirmedTogether`: no target is confirmed while another one failed. `ImplementsCommit`: refinement of NetworkCommit. `ReadyIsComplete`: a Rollout becomes Ready when the Configs of its reference are there, every other one is gone or going, and all targets are confirmed. `DeletionIsOrdered`: a Workspace goes after its Rollout, a started Rollout after its Configs are gone or going. `TransactionEnds`. |
| `telemetry` | 2 Subscriptions, 4 specs, 3 paths of which one cannot be parsed, 2 edits, 1 fault, fair | `SnapshotIsStreamed`: what the collector recorded is what it streams. `CollectorIsCurrent`: no wake, timer or notification is lost. `SubscriptionsReachDevice`: the device ends up streaming what is asked for. |
| `fleet` | 1 host, 2 instances of the rule, 2 specs each and an invalid one, 2 edits, 1 fault, fair | `OnlyCurrentDeletes`: a stopped instance sends no Delete. `ConfigsAreCurrent`: no Target event is lost. `FleetConverges`: Targets and Configs come to what rule and ConfigSet ask for. |
| `schema` | 2 repositories, 4 edits, 2 faults, fair | `ReadyIsLoaded`: a Ready Schema is the one loaded. `GoneIsRemoved`: a deleted one is removed everywhere. `SchemaIsDecided`: none stays undecided. |
| `deviations` | 2 watchers, 1 Config and the device, 3 edits, 1 fault, fair | `ReportIsWhole`: a publication is one report. `DeviationsConverge`: the objects come to say what deviates. |

`runtime` and `target_life` also check the type invariant of their module;
the other modules state one that their runs do not list. One run shows the code
against its comments:

| Run | Comment | What happens |
|---|---|---|
| `runtime_recovered` | `runtime.go:377` "Running implies recovered", `manager.go:206` "(PhaseRunning implies all three)" | Down and Up handled before the wake reset `recovered` and leave the phase at Running. |

### Bounds

* `ChanCap` is 3 where the code has 8 slots: the snapshot, one Down and one Up
  fit, and a fourth event overflows, so both cases occur. The assumption
  `ChanCap >= 3` is what keeps Subscribe's own send from blocking in the
  instances; with 8 slots it takes eight transitions inside one call.
* `MaxDials` 2 gives a connection, its loss, a new connection and its loss; a
  wider instance (3 connections, one token) was checked once with 2.6 million
  states and showed nothing new. The fair run has one connection, since its
  property is about a connection that holds.
* One definition and two tokens in `runtime`, two definitions in
  `runtime_settles`: the first is about recovery and the latch, the second about
  a definition that changes. `MaxToken` 1 makes a retry that differs from the
  latched key.
* `MaxTargets` 2 lets a Target be created again over what the first one left;
  one crash falls at every step of Reconcile.
* In `transact` the Configs may exist at the start, with either content, so that one
  edit is a create, an update or a delete at every step of a pass, of a recovery or
  of a request; one failure and one loss each fall at every step. A cleardeviation
  request counts as the one reset. Two attempts, where the code has
  four, are one retry and the end of the retries.
* Three versions and a queue of one event (1024 in the code): a write during a list,
  one on its way and one that overflows. One fault is a restart or a break at
  every step.
* Two targets with one Config each and two references that share none: a rollout
  creates one Config and deletes the other, so that update and delete meet in one
  transaction. The global timeout is not bounded: it may strike at any step.
* Two Subscriptions that may differ in port, interval and path, one of which can
  disable a path the other one asks for. A third path (`Unparsable`) is one of which
  no request can be built.
* One host that goes and comes back while two instances of the rule are alive, with
  a ConfigSet that changes: what goes wrong there goes wrong per host, since
  neither controller relates two hosts. `Invalid` is a spec the rule's Validate
  rejects. A Stop that cuts a request off counts as a fault.
* Two repositories make a load that is half done; two watchers make one that is
  stopped while its successor runs.

TLC checks deadlock in the runs of the runtime. The others may stop: the
connection after its last dial, a Target that is gone for good, Configs nobody
edits any more, and likewise in the other runs once their users, devices and
faults have used up their bounds.

### Fairness

* Goroutines run and timers fire: weak fairness of the connection loop, the run
  loop, TimerFires, RequeueFires and Reconcile.
* A stop request is taken at last: strong fairness of Shutdown. Go's select
  chooses at random among the ready cases.
* An RPC or API call that is retried for ever succeeds at last: strong fairness
  of the data-server's steps and of the successful outcomes of retried calls.
  The backoffs and requeues in the code are there because of this.
* The reconciler comes back to a target that is not settled: weak fairness of
  Requeue, the 30 s fallback of `targetdatastore/reconciler.go:68`.
* In TargetDatastore, a running loop tells its status and a stopped one exits:
  each pass of the loop ends, which `Settles` checks for the detailed runtime.
* In Transactor, the data-server rolls back a transaction nobody confirms, and
  the runtime goes on trying to recover, up to the last status write. A
  cleardeviation request goes on to its next step: its backoff ends.
* In the other modules: weak fairness of each goroutine's next step (controller,
  worker, collector loop, stream, instance, watcher), of the work queue of a
  controller that has a request, of timers, of the watcher manager, of a deletion
  that other controllers complete, and of the schema-server, which ends its
  parsing. In Rollout the global timeout strikes at last, because a context with a
  deadline ends. Failures are bounded, so no strong fairness is needed.

## 4. Proofs

`tlapm` proves for every value of the constants that meets the assumptions of
the modules:

* **TargetRuntimeProofs.** Of the connection manager: `ConnTypeCorrect`, and
  `UpHasClientAlways` by the invariant `ClientInv`, which adds where in the loop a
  client exists and that it is the one of the latest dial. Of the runtime that
  uses it: `RuntimeRefinesConn`: each step of the composition is
  a step of the connection or leaves it alone, so the theorems about the
  connection carry over. `RuntimeTypeCorrect` needs that a definition is captured
  wherever the loop creates a datastore from it. `RuntimeImplementsContract` is
  the refinement, action by action. `NeverTouchedWhileHandedOut` follows from
  `PhaseInv`, which ties the phase to the place in the loop. `IdleAlwaysNotified`
  is inductive as it stands, given the types. `HandedOutAlwaysHoldsIntents` needs
  `IntentsInv`: a runtime that counts as recovered, with no loss on its way to
  the loop, has the intents in its datastore; or the datastore is missing, and
  then the phase is not Running and the pass has yet to rebuild it; or the
  datastore was just created, and the answer that resets `recovered` is under
  way. While the intents are replayed `recovered` is false, and a replay that
  is done has put them there. The bare property is not inductive: a state in
  the middle of a pass says nothing of how it got there.
* **WorkspaceProofs.** `WorkspaceTypeCorrect`. `TargetsConfirmedTogether` and
  `ReadyAlwaysComplete` from `TxInv`: a pass updates and deletes what the
  reference it read asks for (`GoalInv`); until the wait ends, each target the
  launch loop passed has a goroutine at work, is left out, is applied, or failed
  with a trace (`LaunchInv`); from the confirmation on no goroutine is at work, and
  a target that failed without a trace is there only under a context that is done,
  under which nothing is confirmed (`ConfirmInv`). The bare property is not
  inductive: before the confirmation it says nothing. `ReadyAlwaysComplete` says of
  the Configs that those not being deleted are the ones of the reference, which is
  what the writes can bring about: a Config with the Transactor's finalizer is only
  stamped. `DeletionAlwaysOrdered` adds `OwnerInv`, that a Workspace with a Rollout
  has its finalizer; by `GoalInv` a Rollout about to lose its own has left no Config
  that was not asked to go.
  `RolloutImplementsCommit` is the refinement of NetworkCommit, action by action,
  from `TxInv` and `NetInv`: a goroutine at work belongs to a target of the
  transaction of which nothing is known yet, and nobody has tried to confirm before
  the confirmation. It says more than `ConfirmedTogether`, which does not see a
  confirmation that was executed and whose answer was lost, nor one executed beside
  a rollback.
* **SchemaProofs.** `SchemaTypeCorrect` needs `LoadInv`: a pass reaches the
  schema-server only with a directory, since a Schema names at least one
  repository and a load that copied none has failed. `SchemaLeavesNothing`, from
  `GoneInv`: only a Schema with a finalizer has anything loaded, and what the
  earlier steps of a deletion removed is still gone in the later ones.
  `ReadySchemaIsLoaded` needs `ContentInv`: without one of the gaps the directory
  holds what the running load has copied so far, and nothing or everything
  between two loads; what the schema-server has parsed is what the spec names.
* **TransactorProofs.** Over `ClearSpec`, the reconciler with the cleardeviation
  requests beside it: `TransactorTypes`, `AppliedIsStored`, `StoredHasOwner`,
  `NoEditForgotten` and the action property `ClearedDeviationIsStored`, all from
  `TransactorInv`. The properties speak of a system at rest, so each needs a part
  that holds on the way there. `ToldInv`: for a Config that is not torn, what the
  datastore keeps if the open transaction is not confirmed is what the status of
  the Config says. `OwnerInv`: what is being deleted has a finalizer, and what
  is applied and not torn has one. `RecoverInv`: what a recovery has set and not yet
  confirmed is what it listed, over what was there; and the copies it has still to
  write say of each Config that is not torn what its status says.
  `PassInv`, `FlightInv` and `ReadyInv`: the copies a pass works with are what it
  listed, what is in flight is what it sent, and a Ready shown goes with what is
  applied. `QueueInv`: without a request nothing changed since the pass listed,
  and a queue that is empty means every Config is settled. `ClearInv`: what a
  request has sent and not yet confirmed is the open transaction's.
* **DeviationsProofs.** `DeviationsTypes` and `PublishedReportIsWhole` from
  `DevInv`. At the moment it is published a report says nothing of how it was
  received; `Covers` says it for every message: what a goroutine has received
  together with what is still to come is the report the data-server took, unless
  two reports were mixed.
* **TargetLifeProofs.** The life of Targets, from both sides. Of one Target:
  `LifeTypeCorrect`; `NoDatastoreLeftBehind` and `OneLoopPerTarget` from `LifeInv`,
  whose parts are `FinalizerCovers` (a datastore or a loop exists only under the
  finalizer) and `DeleteOrder` (at each step of the deletion, what the earlier
  steps removed is still gone). Of the fleet: `FleetTypes`,
  `SettledConfigsAreCurrent`, and the action property `StoppedInstanceSendsNothing`,
  from `FleetInv`.
  Its half for the DiscoveryRule: an instance that is alive and not cancelled is
  the one in the store, unless a Stop came before Run (`InstanceInv`); the version
  of the rule is bounded by the edits and failures because references that come
  back were lost before (`VersionInv`). Its half for the ConfigSet: what a pass has
  listed is still true unless something queued the ConfigSet again (`PassInv`), and
  the finalizer is there while a pass or a deletion goes on (`FinalizerInv`), so a
  ConfigSet cannot go in the middle of a pass. The two halves meet only in the
  Targets, which the ConfigSet watches.
* **RegistryProofs.** `RegistryTypeCorrect`, `VersionsAreOrderedAlways` and
  `StreamIsCompleteAlways` from `RegistryInv`. The events on their way to a client
  (queue, bus, lock) are treated as a set ordered by version. `CounterInv` and
  `QueueInv`: the write in progress takes the next version, the event on the bus is
  counted and comes after everything in a queue, and for each object the latest of
  these events tells what is stored, except to a client whose watch overflowed.
  `VersionInv` gives the first theorem. `StreamIsComplete` speaks of streaming
  clients only and is not inductive: a watch that resumes becomes a stream again on
  the strength of its version alone. `PointInv` is what makes this right: a client
  whose version is the current one, with no write in progress, holds what is stored.
  It has to hold in every phase, while a list is being read and while a client is
  disconnected, and through a restart, after which the version it is compared with
  is the highest stored one (`Level`) until the counter is initialised. `KeptInv`: an
  object without an event on its way after the starting point of the watch is held
  as it is stored. `BlankInv`: a new full state is collected into an empty cache, so
  that an object deleted meanwhile does not stay. `PhaseInv` says what of a request
  is left in each phase, so that an interrupted one is not taken for a full state.
* **TelemetryProofs.** `TelemetryTypes`, `RecordedIsStreamed` and
  `NoNotificationLost` from `TelemetryInv`. `LowestInterval` shows of
  recomputeCurrent that a path gets an interval an enabled subscription declares,
  and the lowest such. `NoNotificationLost` speaks of a state in which nothing is
  on its way; `SettledInv` says what holds before: when no wake is to come, a pass
  that runs goes on with what the CRs declare now, and the last pass left a
  collector with the right endpoint that either has the right snapshot or has a
  notification or an update in front of it.

The assumptions are the named `ASSUME`s of the modules: bounds are naturals (the
attempts of a request at least one), the sets of specs, paths and names are not
empty where the code needs one, and `None` is not a member of the sets it stands
beside, which in the code is the difference between nil and a value. No bound of a
run is assumed. The inductive invariants were checked with TLC on the instances of
the runs, those of Transactor (with more edits), Telemetry and Registry (with 4
versions, a queue of 2 and 2 faults) on larger ones too, before they were proved.

Every invariant and every action property of the passing runs, and both
refinements, are stated by a theorem. Only model-checked are the liveness
properties (`Reconnects`, `StopReleases`, `Settles`, `DeletionCompletes`,
`ReadyFollows`, `ComesToRest`, `CatchesUp`, `TransactionEnds`,
`SubscriptionsReachDevice`, `FleetConverges`, `SchemaIsDecided`,
`DeviationsConverge`), because the prover has no rules for fairness and ENABLED
here.

## 5. Where the code does less than one would expect

The models reach the following. The first is the run `runtime_recovered`; the
properties exempt the others by name or do not speak of them.

* Running without recovered (`runtime.go:715`), see above.
* A new subscriber's snapshot may be overtaken by a transition
  (`dataserver/manager/manager.go:141`, against "Immediately send current state
  snapshot.", line 140).
* A runtime event dropped by a full channel is not made up for when the last pass
  saw the target Running: such a pass leaves no requeue
  (`target/manager/manager.go:96`, against the comment at line 45).
* AddFinalizer is a server-side apply of a Target read before: when the Target has
  gone meanwhile, it makes one that has nothing but the finalizer
  (`resource/finalizer.go:62`).
* A confirm whose answer is lost marks no Config; when the user reverts the edit,
  the retry finds nothing to do (`transactor.go:234`, `condition.go:126`).
* The recovery writes each status from a copy it listed; a Config that is deleted and
  created again meanwhile gets the applied config of the old one
  (`transactor.go:757-771`).
* A cleardeviation request sends the specs it listed, also over a Config edited or
  deleted meanwhile, and reports Success for a Config whose confirm failed
  (`target_helpers.go:241`, `:568`).
* After a restart, versions only deletes carried are given out again
  (`resource_version.go:96`); a client whose version was passed meanwhile misses
  writes.
* A goroutine of a network-wide transaction that starts after the global timeout
  reports no error, so the Rollout may become Ready (`transaction.go:130`).
* The requests of a network-wide transaction carry no intent: `configUpdates` and
  `configDeletes` are gathered and not sent (`transaction.go:337`, `:371-374`), so
  the targets agree on a transaction that changes nothing, and the Configs reach
  the devices one by one through the Transactor.
* A Rollout deletes Configs by stamping them: it may be Ready, or gone, while the
  Transactor's finalizer still keeps Configs its reference does not have
  (`rollout/reconciler.go:162`, `:208`, `:320`).
* A Workspace may take the verdict over the old reference for the new one
  (`workspace/reconciler.go:180`).
* A stale collector loop takes a notification (`collector.go:190`, against
  "never loses a notification", line 42); a Target that stops matching keeps the
  Subscription after its deletion (`target/manager/manager.go:346`).
* One path of which no request can be built stops all streams of the target, while
  the snapshot stays recorded (`collector.go:298-303`).
* A DiscoveryRule whose spec becomes invalid keeps the instance of its old spec
  (`discoveryrule/reconciler.go:146`); a Delete or an Apply that instance had sent
  may be executed after it was stopped (`children.go:67`).
* A Stop that comes before Run has begun leaves an instance of a DiscoveryRule
  running (`rule.go:70`); each pass of discovery deletes the Deviations of its own
  Targets (`children.go:91`).
* A ConfigSet whose Configs cannot be listed loses its finalizer
  (`configset/reconciler.go:296`), and a failed write is not retried
  (`configset/reconciler.go:151`).
* A directory left by a failed load, an interrupted one, a changed spec or a
  deletion after a restart is taken for the schema (`loader.go:93`, `:141`, `:204`);
  a load that fails twice in the same way leaves Loading
  (`schema/reconciler.go:308`). No failing step is requeued: a deletion whose step
  fails hangs until the next event or restart (`schema/reconciler.go:298-331`).
* A stream that breaks between START and END mixes two reports, and a goroutine
  that was stopped may still write the Deviation (`deviation_watcher.go:152`,
  `:92`). After a crash a Stop does nothing (`deviation_watcher.go:84`), so the
  Deviation of before stays until the next report.

## 6. Not modelled

`PROJECT.json` lists each component with its status. Left out for good:

* generated code (deepcopy, conversion, protobuf, openapi, clientset, listers,
  informers), which is two thirds of the repository's lines and has no logic of
  its own; the API type declarations, their table printers and field labels;
* git access, the RPC clients, metric output, the lease and process wiring, which
  are input and output around one call the models have as an outcome;
* event handlers that only map an event to a request, beyond the ones that are
  part of a modelled controller;
* read-only registries (RunningConfig, ConfigBlame) and dry runs, which keep no
  state;
* the deviation event CLEAR, "not implemented right now"
  (`deviation_watcher.go:212`), and `pkg/watcher-manager`, which the registry uses
  through an equal manager of its library and no package imports.

## 7. Plan

What the models could be extended by next: Registry with label selectors, and
Schemas of two namespaces that share a directory.
