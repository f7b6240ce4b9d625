# Formal model of the Kubedirect benchmark suite

TLA+ models of the programs under `src/`: the trace-replay load generator with
its gateway, dispatchers and autoscalers, the custom kubelet and the delegation
of nodes to it, and the microbenchmarks. TLC checks them on small instances;
TLAPS proves the safety properties of all of them but the start-up, the one-time
autoscaler and the delegation, and that the replay implements its abstract
specification, for every instance.

## The system and its parts

A **trace replay** (`experiments/trace/main.go`) sends the invocations of a
trace at their recorded times and records every response:

    senders --> externalInputs --> relay --> internal --> dispatcher --> pods
    (client)     (gateway)                   buffers      (per target)
    summary <-- writer <-- receiver <-- externalOutput <-- relay <--+

The relay tells the **autoscaler** of every request that enters or leaves.
`RequestStats` turns that into a time-weighted concurrency, the KPA **decider**
turns averages of it into a number of pods, and a **scaler** writes that number
to the Deployment. The **k8s gateway** watches pods and keeps the dispatcher's
endpoint map in step with the ready ones; a gRPC or a fake **backend** executes
requests. The **custom kubelet** (`cmd/kubelet`) stands in for the node agent: a
scheduler binds pods to it by RPC (`Handshake`, `BindPod`), it keeps them in
memory, exposes them in the API server and marks them ready after a delay. Its
address is an annotation of its node, which `scripts/kubelet.sh` copies to
further nodes that it is to serve.
The **microbenchmarks** scale Deployments, or drive one component, and report
latencies.

| Component | Sources | Modules | Status |
|---|---|---|---|
| Pod dispatcher, k8s gateway reconciler | `pkg/gateway/dispatcher/pod.go`, `pkg/gateway/k8s.go` | `PodDispatcher`, `PodDispatcherProofs` | modelled, proved |
| Relay, replay client, shutdown | `pkg/gateway/interface.go`, `pkg/replay`, `experiments/trace/main.go` | `RequestService`, `TraceReplay`, `TraceReplayProofs` | modelled, proved |
| Start-up of a replay | `experiments/trace/main.go`, `pkg/gateway/k8s.go`, `knative.go` | `TraceStartup` | modelled |
| Trace conversion and sharding | `pkg/workload/conversion.go`, `pkg/replay/worker.go` | `TraceSpec` | all but the rounding of floats and the invitro submodule |
| Backends | `pkg/backend` | `GrpcBackend`, `TraceReplayProofs` | the gRPC pool, proved |
| Request statistics | `pkg/autoscaler/metric` | `RequestStats`, `KPADeciderProofs` | all but Knative's windows, proved |
| KPA decider | `pkg/autoscaler/decider` | `KPADecider`, `KPADeciderProofs` | modelled, proved |
| Autoscaler and scaler | `pkg/autoscaler/interface.go`, `kpa.go`, `scaler/` | `Autoscaler`, `AutoscalerProofs` | modelled, safety proved |
| One-time autoscaler | `pkg/autoscaler/onetime.go` | `OneTimeAutoscaler` | modelled |
| Custom kubelet | `cmd/kubelet` | `Kubelet`, `KubeletProofs`, `KubeletHistoryProofs`, `KubeletEpoch`, `KubeletEpochProofs` | all but status contents; safety proved |
| Kubelet addresses and delegation | `cmd/kubelet/kubelet.go`, `scripts/kubelet.sh` | `KubeletService` | modelled |
| End-to-end benchmark | `experiments/microbench/e2e` | `ScaleBench`, `MicrobenchProofs` | all but the clock readings; safety proved |
| Deployment and autoscaler benchmarks | `experiments/microbench/breakdown/deployment`, `autoscaler` | `KdBench`, `WatchBench`, `MicrobenchProofs` | all but the clock readings; safety proved; the two have the same `run` |
| Endpoints benchmark | `.../breakdown/endpoints` | `EndpointsBench`, `MicrobenchProofs` | all but the clock readings; safety proved |
| ReplicaSet and scheduler benchmarks | `.../breakdown/replicaset`, `scheduler` | `CallBench`, `SchedulerBench`, `MicrobenchProofs` | all but the clock readings; safety proved |
| Kubelet benchmark | `.../breakdown/kubelet` | `BindBench`, `MicrobenchProofs` | all but the clock readings; safety proved |
| Workload servers, selectors, utilities, other scripts | `cmd/workload`, `pkg/workload/selection.go`, `pkg/util`, ... | | no shared state |

`PROJECT.json` maps every definition to the lines it models and lists the
hazards each property is aimed at.

## The modules

Each component has a module with its state, one action per atomic step of the
code, and its properties; the module `MCx` instantiates `x`, and the bounds are
in the configuration. Some `MC` modules hold two components side by side, of
which the first state picks one. Where a goroutine can be overtaken between two
accesses to shared state, these are two actions. External code (informers, the
work queue, the API server, unbounded channels, gRPC) is modelled from how the
source uses it and is marked as external in the map.

**PodDispatcher.** `endpoints` and `tokens` are the two shared structures of
one target. A request goes through the stages of `Dispatch` (`job`, `jobKey`):
take a token, look its endpoint up, execute, return the token, reply; or time
out. A reconcile (`adding`, `pushing`, `removing`) adds keys in parallel
goroutines, each of which sets the endpoint and then pushes its tokens, and
removes stale keys; the requests that execute on a removed key are `orphaned`,
as its executor is being closed. A failed pod `List` is logged by the gateway
and taken for an empty list, as in the code. `Run` returns at any time after its
context is cancelled, and then receives no more requests.

**Kubelet.** `api` is the API server's object, `watch` and `notify` the two
stages of informer lag, `store` what `podLister` returns. `dirty`, `delayed`
and `pc` are the work queue and its workers; `SyncPod` is split at every read
of shared state and at every API call. `handlePodEvent` is two steps: it queues
the pod, and only then (`flushing`, `FlushCache`) drops it from the in-memory
cache. `delegated` is what the node cache says of other nodes' addresses; it
changes at any time, and nothing looks at the pods again when it does. A pod
that `SyncPod` took for another kubelet's is `declined` until it is taken from
the queue again. `uid` counts creations of a name, so that a late write to a
re-created pod is visible. A restart loses everything but the API server. Node
deletions, duplicate `BindPod` calls, removals without grace (`forced`) and the
disappearance of the template are actions with bounds.

**KubeletEpoch.** The fencing of `BindPod` by the epoch lock of `Handshake`,
with calls that are repeated, overtake each other and arrive arbitrarily late.

**KubeletService.** Which kubelet acts on which node. `node` holds the versions
of each node's address annotation, `known` how many of them each kubelet's cache
has seen. `ListenAndServe` publishes the address with an update made from the
cache, `delegate` checks the addresses and copies them round-robin, and `clean`
removes the annotations and then kills the kubelets; kubelets start and die at
any time, and other clients write the nodes. Assumed: scripts run one at a time,
kubelets are not started while one runs, node objects are not re-created, and
the selector given to `delegate` matches no node that runs a kubelet.

**RequestStats.** `ReqIn`, `ReqOut` and `Report` under one lock, where a report
carries the time stamp of a tick that has waited in the ticker's channel.
History variables hold what really happened.

**KPADecider.** `Reconcile` as a function of the observations, with exact
fractions in place of floats and the panic mode, the rate limits and the delay
window as state.

**Autoscaler.** Relays, tickers, the work queue and its workers; a decision is
any number `KPADecider` can produce. `Scale` reads a cache that trails the API
server; it gives up when the `Get` fails, the object is being deleted or the
write fails, and a failed call is not retried.

**OneTimeAutoscaler.** The map of seen targets and the goroutine of each
target's only `Scale` call, which can fail in the same ways. `MCAutoscaler` runs
it beside `Autoscaler`.

**TraceReplay** follows each request (`loc`) through senders, channels, relays,
dispatch, receiver and writer, with `main`'s shutdown and a signal around them.
`main` closes the channels after a sleep that orders nothing, so a relay may
still run: it then sends on a closed channel or reads a nil request, and the
process panics.
**RequestService** is its abstract specification: a request is submitted at
most once, recorded at most once and not after the summary, and the summary
counts the recorded ones. `ImplementsService` is the refinement.

**TraceSpec** has the conversion of a trace (`TranslateDirigentFunction`) and
the sharding over senders (`newWorker`) as operators in the shape of the code,
and a definition of arrival times without loops to compare them with.
`TraceReplay` deals its requests to senders with it.

**TraceStartup** takes flags, cluster, loader configuration and trace file
through `validateFlags`, the set-up of the gateway and its autoscaler, the
trace, and the client to the goroutines and the first request; each step ends,
stops the process with a message or panics. Deployments may change between the
gateway's listing and the client's, and a generator may miscount.

**GrpcBackend.** The connection pool of one endpoint: `Execute` takes a slot,
creates a connection if it sees none, and gives the slot back; `Close` drains.

**ScaleBench.** `run` of the end-to-end benchmark, the pod monitor with its
WaitGroup, and a cluster in which pods die and are replaced and the informer
repeats events. A signal also stops the manager that delivers them, here and in
the kubelet benchmark.

**KdBench** is what `run` has in common in the other benchmarks: phases, the
poll for a client, the signal. **WatchBench** is the Deployment benchmark: one
`Watch` call per deployment, a sleep that orders nothing, one scale request per
deployment, which may have taken effect although it failed, and the two
WaitGroups. A watch whose callback comes after the event may hang.
**EndpointsBench** starts the pods of every service first and then does the same
with selectors and Endpoints. **CallBench** (ReplicaSets) and **SchedulerBench**
make blocking calls; a server may finish a call whose caller has given up.

**BindBench.** `run` of the kubelet benchmark with its pod monitor. A `BindPod`
call can fail although its pod was, or will be, bound; pods are deleted at any
time, and pods of the same owner come from elsewhere.

`MCMicrobench` instantiates the six benchmarks side by side; the first state
picks the one that is started, as the scripts run one at a time.

## What the runs check

| Run | Instance | States | Shows |
|---|---|---|---|
| `dispatcher` | 2 pods, 2 requests, 1 failed listing; or a pool of 3 calls and 3 connections | 163,910 | no interleaving loses a served pod's tokens (`NoLostCapacity`) or mints unaccounted ones (`TokenBound`), the endpoint map follows the ready pods (`EndpointsFollowPods`), a request is answered unless `Run` returned before or its endpoint was removed under it; slots are conserved, `Execute` returns unless `Close` is under way (`EveryCallReturns`) |
| `dispatcher_flapping` | pods become ready twice | violated | `ServiceConcurrency`, see Findings |
| `kubelet_lifecycle` | 1 managed pod on a node whose delegation changes, 1 worker, and one of: a restart, a node deletion, a removal without grace, the template's deletion, a native pod | 160,781 | no lost wake-up (`NoForgottenPod`, `InMemIsTransient`), no leaked timer, no wrong deletion from a stale copy, a pod that is gone comes back only through the window of `kubelet_flush` (`RevivedOnlyWhileFlushing`), a client wherever a pod is exposed; binds and deletions complete unless the kubelet declines the pod |
| `kubelet_flush` | the pod is bound once, exposed and deleted | violated | `InMemOnlyDuringCreation`, see Findings |
| `kubelet_patch` | the default `-patch` | violated | `InactiveStaysInactive`, see Findings |
| `kubelet_epochs` | 2 pods, 2 epochs; or 2 kubelets and a delegated node, 3 starts, 2 scripts, 1 other write | 536,391 | the newest upstream knows every cached pod; a kubelet that serves comes to act on exactly the nodes with its address (`ClaimsSettle`) |
| `kpa` | 2 ready pods, delay 2, stable window 2, time 5; or statistics of 3 requests in 7 time units | 298,410 | scaling from zero asks for a pod, decisions respect the rate limit, a surge is held for the stable window; every request-second is reported once, no time is counted twice, no average exceeds the peak |
| `autoscaler` | KPA: 1 target, 2 workers, 1 failed call; one-time: 2 targets that start with 0, 1 or 2 pods | 102,578 | one worker per target, no stale decision is applied, stranded requests wake their target, replicas follow a settled decision; the one-time autoscaler scales a target at its first request unless its call fails |
| `replay` | 3 requests, 2 targets, 3 senders, a signal anywhere | 394,186 | refinement of `RequestService`, no response dropped, the replay ends or panics, a sender meets a closed channel only if a signal cut the sending short |
| `startup` | every command line; supported and unsupported loaders; traces of 2 functions over up to 3 minutes | 141,452 | a complete set-up starts unless something outside the process interferes (`CompleteSetupStarts`); every worker has a channel and a trace of its own, with the right arrival times, dealt evenly to its senders (`WorkersReplayTrace`) |
| `startup_defaults` | the flags' defaults | violated | `OneTimeNeedsNoConfig`, see Findings |
| `microbench` | one of the six benchmarks: 3 pods asked of 2 deployments with 1 replaced; 2 deployments, services or ReplicaSets; 2 bound pods beside a foreign one; 2 failed requests, a signal anywhere | 17,404 | what is reported has happened, the end-to-end WaitGroup fits its pods, `run` ends unless a request fails for good, a callback comes after its event or a signal stops the manager (the two with blocking calls always end), and a signal ends the two that watch |

Every property of a passing run also has a mutant in `PROJECT.json`: a
plausible slip in one definition that makes TLC find the property violated.

**Bounds.** They are the smallest at which the interesting cases happen. Two
requests compete for one pod's token while a failed listing removes and re-adds
its endpoint. A managed pod on another node, whose delegation comes and goes in
the cache, exercises both answers of `isResponsibleFor`. A restart or a node
deletion can fall between any two steps of `SyncPod`. Other clients change only
the first object of a name (`MaxTouched`) and are at most two events ahead of
the handler (`MaxLag`); a behaviour has one disturbance (`MaxDisturbances`), and
`MCKubelet` rules out some combinations with evictions and native pods. All of
these combinations are in the proofs. Two reports can be late in seven time
units. Three pods over two deployments give a share of one with a remainder,
which `run` does not ask for. Two senders of one target and one of another share
the response channel. Three starts let a kubelet die and come back beside
another one, and two scripts let `clean` undo a `delegate` or precede it; with
two starts of each kubelet (1.7 million states) the run takes more than five
minutes and passes too. The start-up's traces have empty minutes, minutes cut
off by the duration and minutes whose times do not fit. What the bounds cut off,
the proofs cover for the invariants named below.

**Deadlock** is not checked: every one of these systems may stop, and each
configuration says why (bounds are used up, a process ends, or the kubelet has
nothing to do). That they do not stop too early is what the liveness properties
say.

**Fairness.** Goroutines are scheduled (weak fairness of their steps), and
timers and contexts expire.
- *Dispatcher:* `Execute` on a registered endpoint returns, which is what
  `EveryCallReturns` says of the pool while it is not being closed. On an
  executor that is being closed nothing is assumed: `getOrCreateClient` receives
  from the pool without a context (`grpc.go:102`) while `Close` drains it. No pod
  has to become ready, and nobody has to cancel.
- *Replay:* a `Dispatch` need not return.
- *Kubelet:* informers deliver, a free worker takes a pod from the queue (weak
  fairness of `Dequeue`). An API call that is retried for ever is not refused
  for ever (strong fairness of `DeletePod` and `MarkReady`). Neither the
  scheduler nor other clients are fair, and no delegation has to arrive.
- *Kubelet addresses:* caches catch up, a kubelet polls on, and a script that
  runs goes on; nobody has to start a kubelet or a script.
- *Autoscaler:* tickers tick, caches catch up and pods follow replicas. Nothing
  is assumed of the load; the number of failing calls is bounded. The goroutine
  of a one-time `Scale` call runs.
- *gRPC:* a channel serves its receivers in order (strong fairness of `Receive`).
- *Benchmarks:* requests return, a call whose context is cancelled returns,
  a kubelet starts the pods it accepted, and the cluster creates pods;
  an event in the informer's queue is handled although others are repeated
  (strong fairness of `HandlePodEvent`), but only until a signal stops the
  manager.

## What is proved

`PodDispatcherProofs`, for all keys, finite sets of requests, concurrency at
least 1 and natural bounds (`ConcurrencyAssumption`, `RequestsAssumption`,
`BoundsAssumption`): `TypeCorrect`, `CapacityIsKept`, `TokensAreBounded`,
`EndpointsConverge`. None of the three safety properties is inductive. `IInv`
adds:
- `JobKeyInv`: exactly the jobs in a holding stage have a key;
- `PhaseInv`: what is left of a reconcile fits the endpoint map: nothing being
  added is registered, everything being pushed or removed is;
- `SupplyInv`: `TokenBound` with the tokens that are still to come, since a
  reconcile plans additions long before the tokens are pushed;
- `FollowInv`: during a reconcile, the map will be the ready pods when it is
  finished, unless it failed or another one is queued.

The argument about tokens is in one lemma, `OwnedStep`: the tokens owned by a
key grow by `podServiceConcurrency` when its add goroutine pushes, shrink only
while the key is not registered, and are constant otherwise. It rests on
lemmas about cardinalities for taking, checking and returning a token.

`KubeletProofs`, for all pods, nodes, numbers of workers and bounds, with or
without patches and with delegations that change at any time
(`KubeletAssumption`): `NoPodIsForgotten` and `ExposeHasClient`. `NoForgottenPod`
says what holds at rest, for a pod that was not declined; the invariant says why
the kubelet does not come to rest too early:
- `Informed`: the versions on their way to the store end with the API server's,
  and the events on their way to the handler end with the store's;
- `Tracked`: an unfinished pod in the store that was not declined has an event
  on its way, is queued or delayed, or is held by a worker that has not looked
  yet or that works on the very version in the store;
- `Connected`: whatever stems from a `BindPod` stems from a handshake of this
  process, and handshakes leave clients behind unless a node was deleted.

`KubeletHistoryProofs`, under the same assumption and with `IInv`, proves what
depends on a pod's past (the invariant, and its steps for the informer, are at
the end of `KubeletProofs`): `NoTimerIsLeft` (`TimersCleared`), `CacheIsDrained`
(`InMemIsTransient`) and the action properties `RevivalsAreFlushed`
(`RevivedOnlyWhileFlushing`) and `DeletionsAreRequested`
(`OnlyRequestedDeletions`). Each of them
can be undone by a worker with an old copy, by an event that is late, or by a
cached pod that is looked at once more, so `HistoryInv` says of every pod:
- `Ordered`: the store, the versions on their way to it and the API server's
  version are in the order in which the versions came to be, in which no object
  loses its deletion mark or comes back;
- `Copies`, `Fresh`: what a worker holds at each step is no later than the store,
  and a worker whose copy is older is not the last one to look at the pod;
- `TimerTracked`, `Unborn`, `Gone`: somebody will look at the pod of a timer, and
  before a creation or after a removal a timer belongs to a goroutine that is
  about to create the pod;
- `Cached`: the cache entry of a pod that is not in the store will be looked at,
  or its pod is being created;
- `Unbound`, `BoundOnce`: what one `BindPod` pays for until the handler gets to
  an event of the pod. It is one goroutine and one creation; the pod is queued
  once, and once the goroutine is started either the timer keeps the cached pod
  from starting another one or no worker looks at it again. Between `queue.Add`
  and `inMemCache.Del` of the handler this is over, which is the window of
  `kubelet_flush`; after it the cache is empty.

The four properties are about the first object of a name, and two of them about
pods that were delivered once, because the code promises no more: with a second
`BindPod` (`MaxBinds = 2`, no restart) TLC finds behaviours in which the cache
keeps a pod that nobody looks at, in which a timer is left, and in which a copy
of the first object makes the kubelet delete the second.

`KubeletEpochProofs` proves `EpochFencing`, that `UpstreamKnowsCache` holds for
all pods and epochs (`EpochAssumption`: the marker for "none" is no epoch). It is
not inductive: a `BindPod` that already holds the shared lock would add a pod of
its own epoch after another handshake changed it. `EpochLock` rules this out:
the exclusive holder owns the current epoch and excludes shared holders, and a
shared holder's epoch is the current one.

`TraceReplayProofs`, for all targets and traces of any length: `SendersAreSafe`,
`ResponsesAreCounted` and `ReplayImplementsService`, the refinement of
`RequestService`. The invariant has the order of main's steps (`Shutdown`) and
what the end of one goroutine tells another (`Ended`): a receiver that ended
left no response in a channel that nobody fills any more. With it, every step
of a request maps to a step of the service or to a stutter (`StepSimulates`).
Its second part is about the pool of the backend that the requests go through,
for any number of calls, slots and connections: `NoSlotIsLost`, since
`SlotsConserved` is inductive with the types.

`AutoscalerProofs`, for all targets, workers and bounds: `DecidersAreSerial` and
`DecisionsAreCurrent`. A queued target is not being processed (`Queued`), a
worker's target is (`Held`), and a decision that is stored stays the decider's
until its worker is done (`Current`).

`KPADeciderProofs`, for all rates, thresholds, windows and delays and any load:
`ZeroIsLeft`, `SurgesAreHeld` and `ScaleUpIsLimited`. The invariant relates the
recorded surges to the panic mode and every remembered decision to the limit;
the arithmetic is in lemmas about rounding, division and products. Its second
part is about the statistics that the decider reads, for any clock and any load:
`LoadIsAccounted` and `AveragesAreMeans`. They need that a tick is never ahead
of the clock, that nothing ticks before the first request, and that the running
window obeys the bound its report will have to obey (`Window`).

`MicrobenchProofs`, for any targets, pods and bounds (`BenchAssumption`: finite
sets, and an idle monitor is told from a pod): `ReportsHappened`
(`ReportsAreHonest`) and `PodsAreCountedOnce` (`CountsEachPodOnce`). Each
benchmark has its own invariant, and the steps of one leave the others alone. The
end-to-end benchmark needs most:
- `Counted`: the WaitGroup and the pods seen add up to `Total`, and to one more
  while the monitor is between its entry in `seen` and `wg.Done`, so a WaitGroup
  at zero means that `Total` different pods, or more, were seen;
- `FromReady`: without a death a deployment's pods are `1 .. PerTarget`, since
  they come in order and never more than `PerTarget` at a time. The pods seen are
  a subset of a set of `Total` elements, hence all of it: no deployment is short,
  nothing is left to be counted, and another `wg.Done` cannot come.

The kubelet benchmark's `BindInv` has the WaitGroup equal to the pods without a
time; the invariants of the others say what must have happened before a watch or
a call returns.

Only model-checked: all liveness properties (fairness is out of the prover's
reach), and the trace conversion and the start-up (folds over data of any
length).

## Findings

- **A flapping pod serves more than one request at a time**
  (`dispatcher_flapping`, `pod.go:140`). Tokens of a removed endpoint stay in
  the channel; a pod that is ready again under the same key gets new ones
  besides. "default to concurrency 1" (`k8s.go:119`) is exceeded for the rest of
  the run. `TokenBound` says by how much.
- **A deleted pod is created again** (`kubelet_flush`, `kubelet.go:220`).
  `handlePodEvent` queues a pod before it drops it from the in-memory cache. A
  worker in between that finds the store already without the pod takes it from
  the cache and exposes it a second time, although "in-mem pods only occur during
  creation" (`kubelet.go:269`). `RevivedOnlyWhileFlushing` says that this window
  is the only way for a pod that was bound once.
- **An evicted pod is marked ready** (`kubelet_patch`, `kubedirect.go:279`). With
  `-patch`, the default, the uid is the only precondition of the write, so a copy
  that is older than the eviction meets no conflict and the pod is written ready,
  although an inactive pod is to be skipped (`kubelet.go:285`).
- **The default flags crash the k8s gateway** (`startup_defaults`,
  `k8s.go:62`). `validateFlags` asks for no configuration with the one-time
  autoscaler, but its constructor dereferences the configuration.

Met while modelling, and visible as a condition in a property that holds:
- A pod that is looked at before the delegation of its node is in the cache is
  declined for good: `SyncPod` returns nil without a requeue
  (`kubelet.go:264-265`), and no handler reacts to a changed annotation
  (`kubelet.go:149-156`). With the order clean, run, delegate this meets pods that
  are listed anew at the start. Hence the exemption of `declined` pods in
  `NoForgottenPod`, `TimersCleared`, `InMemIsTransient`, `BoundPodLeavesPending`
  and `DeletionCompletes`.
- A second `BindPod` after the cache was flushed can re-create a removed pod,
  although `kubedirect.go:96-97` calls duplicates fine; hence
  `RevivedOnlyWhileFlushing` is about pods that were delivered once. A removal
  without grace can have the same effect, so the property excludes `forced`.
- A bound pod whose template disappears before it is exposed stays in the
  in-memory cache (`kubelet.go:246`); `InMemIsTransient` is checked with the
  template in place.
- A pod that is due before a `Handshake` of its node makes `markPodReady` call a
  nil client (`kubedirect.go:253`); hence the `panicked` alternatives.
- With a delay window, a decision can fall during a panic, although
  `kpa.go:121` says "only increases will be applied".
- A request that executes on an endpoint that is removed may never be answered
  (`grpc.go:102`, `pod.go:149`), nor is one that is queued when `Run` returns
  (`pod.go:171-172`); `EveryRequestAnswered` names both.
- After a failed `List` all endpoints are gone until the next pod event
  (`EndpointsFollowPods` is claimed only without one).
- The Deployment benchmark "must wait till all watch callbacks are installed"
  (`breakdown/deployment/common.go:184`) but sleeps for 30 seconds; a watch that
  takes longer may never return (`EndsUnlessMissed`).
- The benchmarks ignore the error of the poll for a client: a signal during it
  makes them call a nil client (`StartWatching`, `Watch`).
- A signal during the sending makes the senders panic on a closed channel
  (`NoSendOnClosed`). A relay that still runs when `main` has slept its five
  seconds (`main.go:173`) panics on the closed channels too; hence the
  alternative in `ReplayEnds`.
- A signal during the end-to-end or the kubelet benchmark stops the manager, no
  pod event is handled any more, and `wg.Wait` does not return
  (`EndsUnlessRequestFails`).
- A kubelet that has published its address, but not yet seen it in its own
  cache, is responsible for every node without an annotation, as is one whose
  annotation `clean` has removed but which still runs (`kubelet.go:199`). Two
  kubelets may then act on one pod; `ClaimsSettle` says that it passes.
- A failed `Scale` call of the one-time autoscaler is not repeated, and the
  target keeps the replicas it has (`FirstRequestScales`).
- A deployment created between the gateway's listing and the client's makes the
  start panic (`SetUpClient`), and a request faster than the goroutine of `Run`
  does so too (`FirstRequest`); nothing but a sleep of five seconds prevents it.
- Inter-arrival times that do not fit into their minute make later invocations
  of a trace arrive before earlier ones; a sender sends them in the order of the
  file (`WorkersReplayTrace` claims the order only for times that fit).

## Not modelled

- *An empty `-loader-config`* (`main.go:55-57`), which ends the process before
  anything is set up; in `kubelet.sh` a failing `pkill` and the test of
  `WATCH_DIR`.
- *Data:* message wording, logging, latencies as numbers, the contents of pod
  specifications and statuses, the rounding of `float64` seconds.
- *Workload servers* (`pkg/workload/handler`, `cmd/workload`): stateless; their
  requests share nothing, and their arithmetic is on clock readings.
- *Selectors and utilities* (`pkg/workload/selection.go`, `pkg/util`): built once
  at start-up; the models take the selected objects as given.
- *The fake backend*, which sleeps; *Knative's* windows of averages and the
  *invitro* loader, which are not in these sources.
- *Generated protobuf code, manifests, plots*, and the scripts that set up a
  cluster or call the benchmarks one after the other.

Next in line would be an abstract pod life cycle that `Kubelet` refines, and the
control of `TraceStartup` proved around a conversion that is taken as given.
