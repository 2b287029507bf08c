# Models, checks and proofs of k8s-inc

k8s-inc puts in-network computing, today in-network telemetry (INT), at the disposal of
Kubernetes workloads. This directory holds TLA+ models of its control plane, the TLC
configurations that check them on small instances, and theorems about them that TLAPS has
checked. Paths below are relative to the repository's `src/`.

    tlc -config service.cfg MCTelemetryService.tla      # any run: <cfg>, its MC module
    tlapm CollectionIdPool_proofs.tla                   # any module *_proofs.tla

`PROJECT.json` lists components, runs, the source lines behind every definition, the hazards
with the properties that watch them, findings, and the theorems.

## The system

| component | source | state | operations | talks to |
|---|---|---|---|---|
| Telemetry service | `kinda-sdn/telemetry/service.go`, `changelog.go` | intent locks, intent states | `ConfigureTelemetry`, `DisableTelemetry`, `GetCollectionId`, `SubscribeSourceCapabilities` | pool, counters, monitor; called by the operator over gRPC |
| Collection id pool | `telemetry/pool.go` | 128 slots, a reservation counter | `AllocOrGet`, `GetIfAllocated`, `Free` | service |
| State counters | `telemetry/counter.go` | five tables per switch: a reference count per entry, the number of entries | increment / decrement with a device call on the edge to and from zero | service, switches |
| Entities | `telemetry/traversals.go`, `util.go`, `config.go` | none | paths of a request, difference of two sets of entities, their table entries | service |
| Source capability monitor | `telemetry/sourcecapabilitymonitor.go` | one-place queue, list of observers | `NotifyChanged`, `RegisterDownstreamObserver`, a goroutine | service, client streams |
| KindaSdn controller | `kinda-sdn/controller`, `graphutils` | topology, device managers, network-change channel | topology and program changes over HTTP, the gRPC front end, forwarding entries | service, shim |
| Devices | `kinda-sdn/device`, `libs/p4-connector`, `libs/p4r` | connections | P4Runtime writes | BMv2 switches |
| SDN shim | `sdn-shim/controllers` | connection to KindaSdn, a watcher goroutine; custom resources | mirror topology, switches and programs into Kubernetes | KindaSdn, API server |
| Internal telemetry | `inc-operator/controllers/internal*.go` | deployments, an endpoints object with an entry per pod, its finalizer | two reconcilers: pods to entries, entries to intents between two deployments | API server, telemetry service, collector |
| External telemetry | `inc-operator/controllers/external*.go` | a deployment, an endpoints object with an entry per pod and two statuses | two reconcilers: choice of nodes, pods to entries, entries to intents with the outside | API server, telemetry service, mirror of the shim |
| Collector and statistics | `collector_controller.go`, `telemetrycollectionstats_controller.go` | DaemonSet, services, status; a goroutine per collection id | keep the collector running, show its metrics | API server, telemetry service, collector |
| Device resources | `telemetrydeviceresources_controller.go` | one object | follow the source capability stream | telemetry service, API server |
| Shared connection | `shimutils/connector.go` | one gRPC connection | call, reset | telemetry service |
| Scheduler, evaluation, generated code | `sched`, `eval`, `proto` | - | packaging, measurements | - |

What is hard about it, and hard to test:

* **Concurrency.** Intents are configured and disabled concurrently; only requests for one
  intent exclude each other, by a lock that is tried and never waited for. Disabling answers
  first and works later. Commits of different intents interleave entry by entry on shared
  reference counts. The pool locks slot by slot. The monitor mixes a conflating queue,
  blocking channels and a list rebuilt from an old copy. A reconciler of the operator waits for
  its goroutines by a rendezvous; one failed call cuts the connection that all others use.
* **Failure.** Any device call may be refused, or be applied and time out. Commits roll back,
  rollbacks may fail, and their failures are only printed. An answer of the telemetry service
  that is lost leaves it working for nobody; its next one is IN_PROGRESS.
* **Ordering and staleness.** Entries must come and go in an order in which no packet gets a
  telemetry header that nobody strips. Capability snapshots are taken before the lock that
  orders them. Shim and operator act on cached objects that may be behind, and two reconcilers
  and the user write one object.
* **Lost messages and restarts.** A change of the network is announced once, to whoever listens
  at that moment; connections break, both ends restart, passes end half way.

What makes each part correct: the pool gives a number back to the intent it gave it to and
never panics; a counter and its switch agree; the service's locks, numbers, counts and
switches agree with the set of configured intents, packets are measured and lose their headers,
and every request ends; every connected client learns the capacity that is left; the objects in
Kubernetes show the network as it is, after any disturbance that is over; entries and statuses
of the operator say what the service has been configured for, running pods get telemetry,
deleted resources lose it; handlers run just while there is something to handle.

## Modules

| module | models | proofs |
|---|---|---|
| `CollectionIdPool` | `pool.go`, one action per visit of a slot | `CollectionIdPool_proofs` |
| `StateCounter` | `counter.go` with the device behind it | `TelemetryService_proofs` |
| `TelemetryEntities` | entities, `computeDifferences`, entries of entities (operators only) | `TelemetryService_proofs` |
| `TelemetryTraversals` | from topology and request to entities; forwarding; packets (operators only) | |
| `TelemetryService` | `service.go`, `changelog.go`; extends the three above | `TelemetryService_proofs` |
| `TelemetryIntents` | what the service promises its clients (abstract) | |
| `SourceCapabilityMonitor` | `sourcecapabilitymonitor.go` and the stream handler of `frontend.go` | `SourceCapabilityMonitor_proofs` |
| `NetworkNotifications` | how a change reaches the shim: notifiers, stream handlers, watchers, connections | `NetworkNotifications_proofs` |
| `NetworkMirror` | what the shim's reconciling pass does with it: `Reconcile` against a lagging cache | `NetworkMirror_proofs` |
| `InternalTelemetry` | both reconcilers of internal telemetry; extends `TelemetryIntents` | `InternalTelemetry_proofs` |
| `ExternalTelemetry` | both reconcilers of external telemetry; extends `TelemetryIntents` | `ExternalTelemetry_proofs` |
| `Collector` | the collector's reconciler | |
| `CollectionStats` | the reconciler of statistics and its handlers; extends `Collector` | `CollectionStats_proofs` |
| `PluginConnector` | the connection the operator's goroutines share | |
| `DeviceResources` | the watcher of source capabilities; extends `PluginConnector` | |

How they compose:

    CollectionIdPool                     SourceCapabilityMonitor
        : (exact allocator)                  : (a stream tells every change)
    TelemetryService --implements--> TelemetryIntents         DeviceResources
      StateCounter                     |            |           PluginConnector
      TelemetryTraversals      InternalTelemetry  ExternalTelemetry
        TelemetryEntities              : (available or not)
                                   Collector <- CollectionStats
    NetworkNotifications : NetworkMirror  (one pass of the shim, seen from two sides)

Indented modules are extended. A colon marks an assumption of one module that another one
is about.

`MC*` modules hold the finite sets and bounds for TLC. Definitions named `Op_Variant` are
mutants: what a plausible mistake would have made of `Op`. Each property of a passing run is
violated by one of them, so it does constrain the code.

**CollectionIdPool.** A slot is a pair of `collectionId[s]` and `intents[s]`. Callers are
intents; `pc`, `pos` and `want` are the loop a call is in, its index and its argument. A visit
of a slot happens under that slot's lock and is one action; a successful compare-and-swap with
its load is one action. `held` and `number` are what the caller remembers (service.go keeps
the collection id in its intent state). The guards of the `Begin` actions are what the service
does: one call per intent at a time, never a change of collection id.

**StateCounter.** The device lock is held over the device call, so an increment or decrement
is one action with its outcome. `installed` is the truth on the switches. A write of an entry
that is there and a delete of one that is not fail, as P4Runtime answers them; besides,
`MaxFailures` calls fail, by refusal (no effect) or timeout (the effect happens, the caller
sees an error), as `FailureKinds` allows. `numEntries` is counted up before the call, exactly
where counter.go does it.

**TelemetryTraversals, TelemetryEntities.** `runDfs` is the code's walk as a recursive function
over its steps, in the order of the ports; source, sink and transits of a way, configurations
and entities follow the code's functions of the same names. `Bfs` and `NextHop` give the
forwarding entries, hence the way packets really go, which the code computes by other means
than the way it configures. `Delivered` sends a packet through switches with given entries: the
telemetry program of the switches is P4 code outside the repository's control plane and is
modelled as external. With it, properties speak of packets and not of entries.

**TelemetryService.** Every intent has at most one goroutine (it holds the intent lock); its
position is `pc[i]`. One action per change others can see: allocating, each changelog action,
the notification, storing or dropping the state, freeing the number, releasing the lock.
Requests that find the lock taken are answered at once and change nothing, so they are not
actions. The changelog is a bag with a rank per action instead of a list: the code appends
entries of one stage in Go's map order, which is arbitrary, and the stages in a fixed one.
The pool is exact here, which `CollectionIdPool` shows for calls that do not overlap;
overlapping calls can give a collection id two numbers, which affects nothing but the number.

**TelemetryIntents.** An intent is configured with the content of one request or with nothing;
one request at a time is served; it takes effect as a whole or not at all. `TelemetryService`
implements it (`ImplementsIntents`; the refinement maps the stored state to `config` and the
goroutine, up to the moment its change is stored, to `serving`), and the operator's modules
are built on it.

**SourceCapabilityMonitor.** Messages are the number of changes their snapshot has seen, so
"newer" is "greater". A channel rendezvous is one action of `run` (`Send`). `lastQueued` is
the only variable without a counterpart in the code; properties use it.

**NetworkNotifications.** One action per step another goroutine can see: a notifier finds a
listener (`Take`) or gives up; the handler sends, or puts the change back; a watcher receives,
fails and reports under `sdnConnectorLock`; a pass connects, fetches, or closes the client. The
stream is a number of messages in flight. `SubscribeNetworkChanges` returns before its handler
runs (`Accept`), and a handler whose connection has broken counts as a listener until a send
fails: both lose changes, and `IsHeard` names the changes that are not lost. `ReportLate` is the
watcher that takes a later client for its own because both have the object's resource version;
a chain of these could go on for ever, so they count against `MaxFaults` like other trouble.
`owed` is the only variable without a counterpart in the code.

**NetworkMirror.** A pass is the sequence of its calls: `GetTopology`, the topology object,
list, delete, `GetSwitchDetails`, update, create, and the same for programs; one action each,
with the early return that follows an error (`TryAgain`). `api` is what is stored, `cache` what
the client reads, `behind` the objects that differ; an update of an object that is behind is
refused, a creation of one that exists and a deletion of one that does not fail. `steady` says
that the pass began with a cache up to date and that the network has not changed since.
The two modules have the loop of `Reconcile` in common and each abstracts what the other
details: here a change may or may not queue a pass, there a pass is fetch and finish. Together
in one module they have too many states for TLC and say nothing more, because a pass does not
depend on what woke it.

**InternalTelemetry, ExternalTelemetry.** The endpoints object is stored (`endpoints`) and
cached (`cached`); `stale` names whoever holds an old version of it, and whose write is
therefore refused. `deplRec` and `epRec` are the two passes: what they do next and the copy they
work with. Where a pass calls the telemetry service it waits for the answer; `Serve` is the
service ending the request, and a lost answer leaves it serving (`LoseAnswer`, `IngressFails`,
`PodsFail`). Errors before anything is sent or written only queue the pass again and are no
actions. Of the pods, `waiting` (not listed), `running`, `terminating` and `gone` are told apart;
a kubelet's change of a pod reaches the deployment controller through the Deployment's status.
External telemetry's choice of nodes (`Ways`, `pickFeasibleNodes`) is computed from a topology
as the code does it, with the map `LoadSwitches` makes; its requests for pods share one empty
intent id, and the error of a failed ingress request is dropped, as in the code.

**Collector, CollectionStats.** A pass of the collector is one creation, or the look at the
pods and the write of the status that follows, while pods come and go. A handler is its phase
(at its select, asking for metrics, ended), what it writes to and the address it asks. `Stop` is
a rendezvous: a step of the pass that is possible only when the handler is at its select.
Notices of the collector's changes queue every resource that refers to it. Both restart
together, handlers are lost, everything is queued.

**PluginConnector, DeviceResources.** A call is live or dead; a failed one leaves a reset that
later closes whatever connection is open, with all that runs on it. The watcher's subscription
is such a call, its stream the updates it has not read. Another user of the connection (a stat
handler) fails now and then.

## Runs

| run | instance | what it shows |
|---|---|---|
| `pool` | 3 intents, 2 of them share 2 collection ids, the third has its own, 3 slots | the counter is exact; no panic; every configured intent finds the number it was given; the third one's collection id is allocated exactly; disabling uses the configured number; no call gets stuck (no deadlock) |
| `service` | 2 intents, 2 switches with hosts and a device between them, 4 requests, 1 refusal, fair | counts, switches and announced capacity agree with the configured intents; configured flows are measured by all switches on their way; no packet is delivered with a header; disabling is kept unless a call fails |
| `service_failures` | 2 intents, 1 number, 2 failing calls of both kinds, fair | locks and numbers agree with the stored states and capacity is not overstated whatever fails; every request ends; the service implements `TelemetryIntents` |
| `service_promise` | 1 intent that gains and loses a flow, no failure | **violated**: disabling is a promise (service.go:218) |
| `monitor` | 2 notifiers, 2 changes, 2 clients, one of them fickle, fair | nobody is forgotten, closed channels are left alone, notifying returns, the last queued message arrives unless `run` is stuck |
| `notifications` | 3 connections, 2 changes, 2 faults, fair | the client is watched or about to be found closed; a change that is heard is fetched, also across faults; announcing goroutines end |
| `mirror` | 2 devices, 3 programs (1 not registered), 2 changes, 1 fault, fair | an undisturbed pass ends with an exact mirror whatever it starts from; the mirror becomes exact if there is always another pass |
| `internal` | 2 deployments, a pod each (1 mortal), 1 fault, a collector that becomes available at any time, deletion, fair | READY means configured in both directions; nothing is forgotten that is configured; the object goes only when telemetry does; running pods get READY; deletion completes |
| `external` | 2 pods (1 mortal), 1 fault, 1 edit, 1 change of a program, fair | statuses and READY are true; ingress telemetry gets configured; running pods get READY |
| `external_placement` | 2 switches, 1 with the program, 2 are required | **violated**: pods are placed at valid positions (external deployment controller, lines 408-409) |
| `collection` | 2 resources that share a collection id or not, 2 nodes, 2 changes of pods, 1 disruption, fair | the collector's status settles; no handler outlives its resource, and a pass stops only handlers that are there to be stopped; deletion completes; handlers follow the collector |
| `resources` | 1 device, 2 users of the connection, 3 changes, 3 faults, 1 deletion, fair | the object comes to say whether the device can be a source |

The violated runs check what a comment of the code promises; `findings` in `PROJECT.json`
tells each story with its lines.

Where the code falls short of a comment and a property is stated so that it holds all the same:

* two intents that first use a collection id at once get two numbers for it, and one may come to
  hold both (pool.go:40 says one allocation). `OneNumberPerCollection` is about private ids;
* a write that fails leaves `numEntries` one too high for good (counter.go:56-57 says it does
  not). `AnnouncedCapacityIsReal` allows for it;
* the older of two snapshots may be queued last (sourcecapabilitymonitor.go:76 says older ones
  are discarded), and `run` waits for ever for a client that left at the wrong moment (line 97
  says closing the channel unsubscribes). `LastMessageArrives` and `NotifyReturns` say what is left;
* deletion of one of two statistics resources with one collection id stops the other's handler
  until the collector changes. `HandlersFollowCollector` leaves such ids out;
* both directions of external pod telemetry use the empty intent id, so the policy for both
  never becomes READY. `RunningPodsGetReady` is about one direction that stays what it is;
* a deleted `TelemetryDeviceResources` object stays away until capacity changes next.

### Bounds

* Pool: `MaxSize` is 128 in the service. Three slots against three intents give full, partly
  filled and contended pools, slots freed behind a scan, and a collection id at two numbers,
  which is how a pool of as many slots as intents fills up. The theorems hold for every size.
* Service: two intents on two switches share transit, sink and activation entries, differ in
  flows, and compete for numbers. The topology has a device between the switches and a dead
  end that the depth-first walk enters first. `MaxFailures` = 2 is the least at which a commit and
  its rollback both fail. `MaxNumEntries` stops new requests once the leaking `numEntries` (every
  attempt to write an entry that is already there leaks one) has grown past it; only
  `service_failures` reaches it, which is why that run does not check for deadlock.
* Monitor: `MaxChanges` = 2. The first change makes a handler notice that its client has gone,
  the second makes `run` remove it, while the other client may join at any moment. The run ends
  when the changes are used up, hence no deadlock check.
* Notifications: two changes, so that one can be under way while the other is taken, lost or
  put back; two faults, so that the repair of one can fail. A connection is used again when no
  handler and no watcher of it is left; with two faults three of them always suffice, so
  `Connect` never lacks one. The run ends when everything is quiet, hence no deadlock check.
* Mirror: two devices that share a program or not, and change between switch and plain device
  by removal and addition; three programs, for one in use, one to come and one that the
  registry lacks. Two changes may fall into one pass, between any two of its calls. One fault
  at any point of a pass leaves it half done; `FinishedPassTheorem` needs no bound.
* Internal: a pod of each deployment, so that both directions have something at either end; one
  of them stays, as the one that has to get READY. One fault is a lost answer, a refusal or a
  failed write at any point; conflicts of versions and IN_PROGRESS are not bounded. The
  collector becomes available at any time; with one that goes away again (`MaxCollectorChanges` =
  2) the run passes as well, in four minutes. After the deletion nothing happens, hence no deadlock
  check.
* External: as for internal; one edit of the policy falls between any two steps of a pass. Node
  `v` is behind one switch and `w` behind two, so `AtLeast` tells them apart.
* Collection: two changes of pods let one run and fail, or both run, of which either may be
  listed first. One disruption is
  a deletion of an owned object or of the collector, a failed write or a restart. Resources are
  created and deleted once each. Without resources the run may end, hence no deadlock check.
* Resources: two capacities, on either side of `CAN_BE_SOURCE_THRESHOLD`. Three faults exhaust
  the attempts of one update or make resets meet a new connection; `MaxResets` = 2 resets may
  wait at a time.

### Fairness

`FairSpec` asks that a started call goes on (weak fairness of each goroutine's steps): Go
schedules runnable goroutines, mutexes starve nobody (`SF` for the monitor's queue lock, where
others come and go), device calls end after `ENTRY_CONFIG_TIMEOUT`. Nothing forces a client to
send requests, to come or to leave, nor a device to fail or to recover, nor the network, a pod or
the collector to change.

In `NetworkMirror` passes go on once they are queued and caches catch up, but nothing is assumed
to queue one: changes may be lost. `MirrorConverges` therefore says "if passes begin again and
again"; the manager's periodic resync (ten hours by default) is what the code has for this.

In the operator's modules queued passes are run, which the work queue of controller-runtime
does, caches catch up, and requests to the service end, which is `RequestsEnd` of
`TelemetryService`. `CollectionStats` needs strong fairness twice: the work queue is first in first
out, so a resource gets its turn although others are queued as well (`PassBegins`); and a handler that
is stopped while its ticker fires chooses at random, as Go's `select` does, so a rendezvous that is
possible again and again happens (`StatsPass`). `StatusFollowsCapacity` is conditional on resets
coming to an end (`<>[](resets = 0)`): each reset may kill a call whose error starts the next.

## Proofs

`CollectionIdPool_proofs` (any intents, any collection ids, any number of slots):

* The invariants checked by `pool`, besides types (`TypeOK`) and that a number stays held
  (`NumberIsHeld`). `PoolInv` strengthens them by three things: what `pc`, argument and
  allocation of one intent say about each other; that the first slot an intent holds under its
  collection id is never behind a scan that looks for it; and the counting argument:
  `allocCounter` is the number of occupied slots plus the number of callers that have reserved
  and not placed.
* `NeverPanics` needs more than the sum: a caller at slot k must find a free one at or after
  k. The invariant says this of all k at once: the callers at or past k are no more than the
  free slots at or past k. Freeing adds a slot, placing takes one caller and one slot, and a
  caller that moves on from k does so because k was occupied.

`TelemetryService_proofs`, first part (any entries, tables, failures and number of repetitions;
the behaviours are those of the counters alone, `CounterSpec`, whose steps are the service's, see
below):

* `CapacityIsNeverOverstated` with the types. It is inductive together with finiteness of
  `installed`: an increment adds at most one entry and always one to the number; a decrement
  takes one off only when the device has removed an entry it had. That `numEntries` is a
  natural number follows from it.
* `InstalledIffCounted` under the assumption that failing calls have no effect. With timeouts
  it is false, and the code has no repair; so `service` checks it with refusals only.
* `LossTheorem`, under the same assumption: a table is believed to hold at most one entry too
  many for every failed call.

`TelemetryService_proofs`, second part (any topology, requests, pool and number of failures):

* `LockMatchesState` and `AllocationMatchesState`. Neither is inductive. `ServiceInv` adds what the
  position `pc` of a goroutine says about its intent: what it was started for, whether the intent is
  configured, that a request being disabled is the stored state; and who holds a number: a configured
  intent, and one between its allocation and its release, each at the number of its collection
  id. Two facts carry the pool: no two numbers stand for one collection id, so a release leaves nothing
  behind; and a configured intent that is configured again keeps its collection id, because another one
  is refused before the allocation. No fact about changelogs or switches is needed.
* `ServiceImplementsIntents`: `IntentsInit` and every step of `IntentsNext`, from the same
  invariant. Accepting is `BeginConfigure` or `BeginDisable`; a request finishes at `Store`, at `Drop`, or
  at the unlocking when it has had no effect. (A request for what is configured already may also
  finish where it fails.) The fairness in `IntentsSpec` stays with TLC.
* `ServiceUsesCounters`: changelogs name entries only, so each step of a commit or a rollback is one
  of `CounterSpec`, and `CapacityIsNeverOverstated` and `InstalledIffCounted` carry over.
* `AnnouncedCapacityIsReal`: unless a commit or a rollback is under way, the last announcement
  is the numbers of now (`LastAnnouncementHolds`), for each ends with one; the numbers are between what
  is held and that plus the failures (`CapacityTheorem`, `LossTheorem`). It assumes that failing
  calls have no effect: after a timeout, repetitions are counted that no failure pays for.

`TelemetryService_proofs`, third part: the counts (any topology with finitely many devices and
peers, finitely many intents, any pool; conditions below):

* `CountsTheorem` and `CountsWithOneFailure` state `CountsMatchIntents`. Counts are sums over
  edges and over intents, so the part begins with sums over finite sets: a fold is one function
  on subsets, and what holds of a set whenever it holds of its proper subsets holds of all
  (`SubsetInduction`, from a smallest counterexample, for the library's induction theorems cannot
  be used).
* `DifferencesBalance` is about `computeDifferences`: what is added and what was there before
  is, entry by entry and with multiplicities, what is removed and what is there afterwards, and
  nothing is removed that was not there.
* The invariant `CountsInv` gives every intent a share of every count: what its stored state
  needs, plus what its changelog has created, minus what it has deleted; from the end of a commit
  until its result is stored, what the request needs. The shares add up to the counts. A commit
  has still to do what leads from its share to that of the end (`CommitProgress`), and never
  deletes more than was there (`RollbackProgress` keeps that for the way back), so its
  decrements meet positive counts whatever the other intents do.
* Conditions, and why they are needed. A failing call has no effect (a timeout is never
  repaired). No call fails during a rollback (`RollbackFails`; changelog.go only reports it, and
  what it should have undone stays counted): an assumption on the behaviour in `CountsTheorem`,
  a consequence of `MaxFailures <= 1`, as in the run, in `CountsWithOneFailure`. And
  `RequestsAreBalanced`: between two requests of one intent an edge they share gains a flow just
  if it loses one, and keeps the others as often as it had them. Otherwise `computeDifferences`
  lists the edge among the added sources only, it is activated once more than it is ever
  deactivated, and the count is wrong for good; this is the cause of the finding of `service_promise`.
  The requests of `service` are balanced (TLC evaluates `MCRequestsAreBalanced`), although they give up an edge, move to
  another flow and share entries with another intent.

`TelemetryService_proofs`, fourth part: the headers (as in the third part, and where the condition
below holds):

* `HeadersTheorem` and `HeadersWithOneFailure` state `HeadersAreStripped`, of every state, in the
  middle of several commits and rollbacks too. The argument is about the order of a changelog
  (`Rank`: sinks are created before anything that adds headers and deleted after it).
* `CountsInv` says how much of its changelog an intent has done, not which part. `PlansInv` says it:
  there is a plan, how often each action is to be done, that leads from the entries of the stored
  state to those of the request, and what has been done of it is sorted by rank, with everything
  of lower rank complete (`Follows`). A rollback undoes the last action first, so it stays on the
  same plan.
* So an intent with a share of any source entry has a share of all the sinks of a request that
  needs that entry (`SourcesHaveTheirSinks`): until a sink is deleted those of the stored state are
  all there; when one is deleted, or when a source is created, those of the new request are. Since
  shares are not negative, the count of these sinks is positive whatever other intents do, and
  what is counted is installed.
* The rest is about one packet: the header it is delivered with was added at some switch of its
  way, with no sink at or after that switch (`HeadersComeFromSources`, by a smallest counterexample
  along the way).
* The condition is `RequestsStripTheirPackets`, a fact about topology and requests without any
  state: if a request marks a packet at a switch of its way, it has a sink on the rest of that
  way. It is needed because `service.go` finds ways depth first and packets travel on the
  shortest ways: where the two differ a packet may be marked and leave on a way without a sink.
  TLC evaluates it for the requests of every run of the service (`MCPacketsAreStripped`). The
  conditions of the third part are needed as well: a count that is too low lets a sink go early.

`TelemetryService_proofs`, fifth part: the flows (as in the third part, and where the condition below
holds):

* `FlowsTheorem` and `FlowsWithOneFailure` state `FlowsAreMeasured`: while no request for an intent
  is under way, each packet of its flows is measured by every switch of its way that can, in
  their order, and reported, whatever the other intents are in the middle of.
* The share of such an intent is what its stored state needs, and no share is negative, so what
  it needs is installed (`NeedsAreInstalled`). The entries other intents have installed can only
  hurt by stripping the header early; a sink is installed only if some request asks for it
  (`InstalledSinksAreRequested`, from `PlansInv`: no changelog creates anything that neither its
  stored state nor its request needs).
* A packet whose way is covered so has no header before the first switch, one from there to the
  last, and none behind it (`Stages`, along the way). So each switch but no other device is
  appended to what is measured, and a list built in this way is unique (`AmongIsUnique`).
* The condition is `RequestsMeasureTheirFlows`, about topology and requests: on the shortest
  way of a flow, the first switch is a source, the last a sink and all are transits of the request
  that asks for the flow, and no request has a sink in between. A sink entry has no key but its
  port (service.go:258), so a target behind a plain device in the middle of another flow's way breaks
  it, and then the property is false: the sink before that device strips the other flow's headers too.
  So does a way found depth first that is not the shortest. TLC evaluates it for every run of the service
  (`MCFlowsAreMeasured`, with a flow that has several switches).

`NetworkNotifications_proofs` (any connections, changes and faults):

* `ClientIsWatched`: inductive together with types, with the fact that a pass which calls KindaSdn has
  a client, and with the fact that the client's own watcher is not told to stop and fails on a
  broken connection only (`WatchInv`). So a watcher that ends is either not the client's, or has
  failed, and then it closes the connection and queues a pass.

`NetworkMirror_proofs` (any devices, programs, networks, changes and faults):

* Types, which need that every fetched and listed object is one the network can have had, and
  that a pass knows what to write for each object it still has to write (`TypeInv`).
* `FinishedPassIsExact`: `SteadyProgress` says, for every point of a steady pass, what is exact
  already and that the objects left to write are just those in which the store differs; the
  cache equals the store wherever an object is not `behind`.

`SourceCapabilityMonitor_proofs` (any clients, notifiers and changes):

* Types, `NobodyIsForgotten` and `ClosedChannelsAreLeftAlone`, from `ListInv`: every channel is
  listed at most once; the copy `run` works through is a prefix of the list, for others only
  append to it and `run` alone takes off; and a channel is closed just when `run` has taken it off.
  Both sequences are counted by injections of their positions (`FS_Injection`), so no fact about
  `SelectSeq` has to be proved by induction.

`InternalTelemetry_proofs` (any deployments, pods, faults and changes of the collector):

* `ReadyIsConfigured`, `ForgottenIsUnconfigured` and `GoneIsDisabled`. `TelemetryInv` adds to
  the types: a copy that is not stale is the stored object, so a write that the API server accepts
  has been computed from what it replaces; a request under way is that of the pass that waits for it, or
  one whose client has lost the answer, and then it still counts; what a pass has achieved so
  far, call by call; and that an object without finalizer has no telemetry left.
* `UsesTheService`: every step of the two reconcilers and of the service behind them is one of
  `TelemetryIntents`. With `ServiceImplementsIntents` the two proofs meet: what the controllers
  assume of the service is what the service has been shown to do.

`ExternalTelemetry_proofs` (any topology, programs, pods, faults and edits):

* `StatusIsTrue` and `ReadyIsMeasured`, from `MeasurementInv`: versions and copies as above;
  what each request under way asks for; that a pass waits for just one answer; and that a
  status says no more than what the telemetry service has been configured with. Requests that the
  service refuses because of their collection id change nothing and are dropped by the code.
* `ExternalUsesTheService`, as above.

`CollectionStats_proofs` (any resources, collection ids and nodes):

* `GoneIsNotHandled` and `StopsReachHandlers` (an action property), with the types they need: a
  handler that runs is known, its resource is not deleted, and the stop of a pass meets it at its
  select.

Assumptions on constants are named (`PoolAssumption`, `CounterAssumption`, `TablesAssumption`,
`TopologyAssumption`, `ServiceAssumption`, `IntentsAssumption`, `MonitorAssumption`,
`NotificationsAssumption`, `MirrorAssumption`, `InternalAssumption`, `NoObjectAssumption`,
`ExternalAssumption`, `CollectorAssumption`, `CollectionStatsAssumption`), and TLC evaluates them in the runs of
their modules.

Only model-checked: that a topology and its requests meet the three static conditions of the
third to the fifth part (`RequestsAreBalanced`, `RequestsStripTheirPackets`,
`RequestsMeasureTheirFlows`), which depend on what searches of any length compute;
`TelemetryTraversals`, `Collector` alone and `DeviceResources`; that `CollectionIdPool`
is an exact allocator where calls do not overlap; and all liveness (TLAPS proves no liveness
under fairness, and no ENABLED, here).

## Not modelled, and why

* Changes of the topology during telemetry requests; a race the code itself declares out of
  scope (controller.go:28). The service's entries are those of the topology it was given.
* Restarts of the telemetry service: its state is in memory and nothing is recovered. (Restarts
  of KindaSdn and of the shim are modelled as far as the mirror goes, restarts of the operator
  for the statistics, whose handlers they lose.)
* Of the shim: status conditions, several SDNShim objects, a change of the SDN's address, links
  and architectures (compared and copied like names and programs), and the update of a P4Program
  whose interfaces differ: the registry is filled before the server starts, so they never do.
* Of the operator: edits of resources that its code marks as to do (templates of a deployment,
  collection id or collector of statistics), a finalizer for external telemetry, which has none,
  the metrics themselves, and several devices in `TelemetryDeviceResources`, which are written as
  one list. Internal telemetry's deployment controller watches endpoints of the external kind
  (internalinnetworktelemetrydeployment_controller.go:350) and so is not told when its own change;
  the model has just the wake-ups the code has.
* Pods do not move and keep their addresses; ports and addresses are tokens.
* `GetIfAnyAllocated`/`GetCollectionId` (they only read) and the writing of forwarding entries at
  start-up; device managers and the P4Runtime client are the calls of `StateCounter` that
  succeed, are refused or time out; scheduler packaging, evaluation tools and generated code
  have no behaviour of this system's own.

## Plan

Done: pool, counters, entities, service, monitor, in this order, because the telemetry service
is where concurrent requests meet shared state and failing devices; then notifications and
mirror, where the network's state leaves the process; then traversals, the abstract service
and the operator on top of it.

Then proofs: the invariants of every module that a run checks.

Next, in order of weight:

1. That the pool with private collection ids implements an atomic allocator.
2. Types of the modules without proofs.
