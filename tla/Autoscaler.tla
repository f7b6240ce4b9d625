----------------------------- MODULE Autoscaler -----------------------------
(***************************************************************************)
(* The KPA autoscaler around its deciders (pkg/autoscaler/interface.go and *)
(* scaler/deployment.go): relays report requests, tickers and relays put   *)
(* targets into a work queue, and workers decide and scale.                *)
(*                                                                         *)
(* A decision is any number of pods that KPADecider can produce: at least  *)
(* one for requests in flight without a ready pod, anything otherwise.     *)
(* Deployments are read from an informer cache that trails the API server. *)
(***************************************************************************)
EXTENDS Naturals, Sequences

CONSTANTS
    Keys,               \* targets
    Workers,            \* the workerLoop goroutines (maxConcurrentScalers)
    NoKey,              \* "no target"
    Async,              \* the configuration's async
    MaxScale,           \* bound: pods of a decision
    MaxRequests,        \* bound: requests of one target in flight
    MaxPending,         \* bound: changes the cache is behind
    MaxErrors           \* bound: failed calls of the API server

ASSUME AutoscalerAssumption ==
    /\ NoKey \notin Keys
    /\ Async \in BOOLEAN
    /\ MaxScale \in Nat \ {0}
    /\ MaxRequests \in Nat
    /\ MaxPending \in Nat \ {0}
    /\ MaxErrors \in Nat

VARIABLES
    concurrency,        \* per target, requests in flight (the decider's stats)
    relay,              \* per target, where the relay is in ReqIn
    active,             \* targets whose decider is active and whose ticker runs
    queue, dirty, processing,     \* the work queue
    worker,             \* per worker, what it is doing
    desiredScale,       \* per target, the decider's Desired()
    replicas,           \* per target, spec.replicas at the API server
    cached,             \* per target, spec.replicas in the cache
    pending,            \* per target, changes the cache has not seen yet
    ready,              \* per target, ready pods
    deleted,            \* targets whose deployment is being deleted, or gone
    errors,             \* failed calls
    panicked            \* the process ended on an etcd error

loadVars == <<concurrency, relay, active>>
queueVars == <<queue, dirty, processing>>
clusterVars == <<replicas, cached, pending, ready, deleted>>
vars == <<loadVars, queueVars, worker, desiredScale, clusterVars, errors, panicked>>

Scales == 0..MaxScale
Idle == [pc |-> "idle", key |-> NoKey, nReady |-> 0, desired |-> 0]

TypeOK ==
    /\ concurrency \in [Keys -> 0..MaxRequests]
    /\ relay \in [Keys -> {"idle", "added", "activated"}]
    /\ active \subseteq Keys
    /\ queue \in Seq(dirty)
    /\ dirty \subseteq Keys
    /\ processing \subseteq Keys
    /\ worker \in [Workers ->
          [pc : {"idle", "get", "observe", "store", "compare", "update"},
           key : Keys \cup {NoKey}, nReady : Scales, desired : Scales]]
    /\ desiredScale \in [Keys -> Scales]
    /\ replicas \in [Keys -> Scales]
    /\ cached \in [Keys -> Scales]
    /\ pending \in [Keys -> Seq(Scales)]
    /\ \A k \in Keys : Len(pending[k]) <= MaxPending
    /\ ready \in [Keys -> Scales]
    /\ deleted \subseteq Keys
    /\ errors \in 0..MaxErrors
    /\ panicked \in BOOLEAN

\* After Run: no request has come in yet.
Init ==
    /\ concurrency = [k \in Keys |-> 0]
    /\ relay = [k \in Keys |-> "idle"]
    /\ active = {}
    /\ queue = <<>> /\ dirty = {} /\ processing = {}
    /\ worker = [w \in Workers |-> Idle]
    /\ desiredScale = [k \in Keys |-> 0]
    /\ replicas = [k \in Keys |-> 0]
    /\ cached = [k \in Keys |-> 0]
    /\ pending = [k \in Keys |-> <<>>]
    /\ ready = [k \in Keys |-> 0]
    /\ deleted = {}
    /\ errors = 0
    /\ panicked = FALSE

----------------------------------------------------------------------------
(* The work queue: a target is queued once, and one that is added while it *)
(* is processed is queued again when that is done.                         *)

Add(k) ==
    /\ dirty' = dirty \cup {k}
    /\ queue' = IF k \in dirty \cup processing THEN queue ELSE Append(queue, k)
    /\ UNCHANGED processing

GetNext(k) ==
    /\ queue # <<>> /\ k = Head(queue)
    /\ queue' = Tail(queue)
    /\ dirty' = dirty \ {k}
    /\ processing' = processing \cup {k}

Done(k) ==
    /\ processing' = processing \ {k}
    /\ queue' = IF k \in dirty THEN Append(queue, k) ELSE queue
    /\ UNCHANGED dirty

----------------------------------------------------------------------------
(* ReqIn, in the relay of the target.                                      *)

\* The decider counts the request ...
ReqIn(k) ==
    /\ ~panicked
    /\ relay[k] = "idle"
    /\ concurrency[k] < MaxRequests
    /\ concurrency' = [concurrency EXCEPT ![k] = @ + 1]
    /\ relay' = [relay EXCEPT ![k] = "added"]
    /\ UNCHANGED <<active, queueVars, worker, desiredScale, clusterVars, errors, panicked>>

ActivateNoTicker(k) ==
    /\ ~panicked
    /\ relay[k] = "added"
    /\ relay' = [relay EXCEPT ![k] = "activated"]
    /\ UNCHANGED <<concurrency, active, queueVars, worker, desiredScale, clusterVars,
                   errors, panicked>>

\* ... the first one activates it and starts the ticker ...
Activate(k) ==
    /\ ~panicked
    /\ relay[k] = "added"
    /\ active' = active \cup {k}
    /\ relay' = [relay EXCEPT ![k] = "activated"]
    /\ UNCHANGED <<concurrency, queueVars, worker, desiredScale, clusterVars, errors, panicked>>

\* ... and a target without desired pods is decided upon at once, unless async.
Wake(k) ==
    /\ ~panicked
    /\ relay[k] = "activated"
    /\ relay' = [relay EXCEPT ![k] = "idle"]
    /\ IF ~Async /\ desiredScale[k] = 0 THEN Add(k) ELSE UNCHANGED queueVars
    /\ UNCHANGED <<concurrency, active, worker, desiredScale, clusterVars, errors, panicked>>

\* ReqOut, in the same relay.
ReqOut(k) ==
    /\ ~panicked
    /\ relay[k] = "idle"
    /\ concurrency[k] > 0
    /\ concurrency' = [concurrency EXCEPT ![k] = @ - 1]
    /\ UNCHANGED <<relay, active, queueVars, worker, desiredScale, clusterVars, errors, panicked>>

TickOnlyAtZero(k) ==
    /\ ~panicked
    /\ k \in active /\ desiredScale[k] = 0
    /\ Add(k)
    /\ UNCHANGED <<loadVars, worker, desiredScale, clusterVars, errors, panicked>>

\* tickAutoScaler
TickAutoScaler(k) ==
    /\ ~panicked
    /\ k \in active
    /\ Add(k)
    /\ UNCHANGED <<loadVars, worker, desiredScale, clusterVars, errors, panicked>>

----------------------------------------------------------------------------
(* processNextItem and scale, in worker w.                                 *)

MoveWorker(w, from, to) ==
    /\ worker[w].pc = from
    /\ worker' = [worker EXCEPT ![w].pc = to]

\* The deferred Forget and Done; whatever happened, the target is not requeued.
Finish(w) ==
    /\ worker' = [worker EXCEPT ![w] = Idle]
    /\ Done(worker[w].key)

ProcessNextItem(w) ==
    /\ ~panicked
    /\ worker[w].pc = "idle"
    /\ \E k \in Keys :
          /\ GetNext(k)
          /\ worker' = [worker EXCEPT ![w] = [Idle EXCEPT !.pc = "get", !.key = k]]
    /\ UNCHANGED <<loadVars, desiredScale, clusterVars, errors, panicked>>

\* Get of the deployment and List of its pods.
CountReady(w) ==
    /\ ~panicked
    /\ worker[w].pc = "get"
    /\ worker' = [worker EXCEPT ![w].pc = "observe", ![w].nReady = ready[worker[w].key]]
    /\ UNCHANGED <<loadVars, queueVars, desiredScale, clusterVars, errors, panicked>>

\* One of the two fails; once the deployment is gone, the Get always does.
CountReadyFails(w) ==
    /\ ~panicked
    /\ worker[w].pc = "get"
    /\ IF worker[w].key \in deleted
       THEN UNCHANGED errors
       ELSE errors < MaxErrors /\ errors' = errors + 1
    /\ Finish(w)
    /\ UNCHANGED <<loadVars, desiredScale, clusterVars, panicked>>

DecideAnything(w) ==
    /\ ~panicked
    /\ worker[w].pc = "observe"
    /\ \E d \in Scales :
          worker' = [worker EXCEPT ![w].pc = "store", ![w].desired = d]
    /\ UNCHANGED <<loadVars, queueVars, desiredScale, clusterVars, errors, panicked>>

\* The decider's Reconcile reads the concurrency of this instant ...
Observe(w) ==
    /\ ~panicked
    /\ worker[w].pc = "observe"
    /\ \E d \in Scales :
          /\ worker[w].nReady = 0 /\ concurrency[worker[w].key] > 0 => d >= 1
          /\ worker' = [worker EXCEPT ![w].pc = "store", ![w].desired = d]
    /\ UNCHANGED <<loadVars, queueVars, desiredScale, clusterVars, errors, panicked>>

StoreAndRelease(w) ==
    /\ ~panicked
    /\ MoveWorker(w, "store", "compare")
    /\ desiredScale' = [desiredScale EXCEPT ![worker[w].key] = worker[w].desired]
    /\ Done(worker[w].key)
    /\ UNCHANGED <<loadVars, clusterVars, errors, panicked>>

\* ... and publishes the decision later.
Store(w) ==
    /\ ~panicked
    /\ MoveWorker(w, "store", "compare")
    /\ desiredScale' = [desiredScale EXCEPT ![worker[w].key] = worker[w].desired]
    /\ UNCHANGED <<loadVars, queueVars, clusterVars, errors, panicked>>

\* Scale gets the deployment: an error if that is being deleted, nothing to
\* do if its cached replicas are the desired ones.
Compare(w) ==
    /\ ~panicked
    /\ worker[w].pc = "compare"
    /\ IF worker[w].key \in deleted \/ cached[worker[w].key] = worker[w].desired
       THEN Finish(w)
       ELSE MoveWorker(w, "compare", "update") /\ UNCHANGED queueVars
    /\ UNCHANGED <<loadVars, desiredScale, clusterVars, errors, panicked>>

CompareFails(w) ==
    /\ ~panicked
    /\ worker[w].pc = "compare"
    /\ errors < MaxErrors
    /\ errors' = errors + 1
    /\ Finish(w)
    /\ UNCHANGED <<loadVars, desiredScale, clusterVars, panicked>>

\* SubResource("scale").Update carries no resource version: it never conflicts.
Write(k, n) ==
    /\ Len(pending[k]) < MaxPending
    /\ replicas' = [replicas EXCEPT ![k] = n]
    /\ pending' = [pending EXCEPT ![k] = Append(@, n)]
    /\ UNCHANGED <<cached, ready, deleted>>

Update(w) ==
    /\ ~panicked
    /\ worker[w].pc = "update"
    /\ Write(worker[w].key, worker[w].desired)
    /\ Finish(w)
    /\ UNCHANGED <<loadVars, desiredScale, errors, panicked>>

\* An error is logged, also that of an update that was applied; one of etcd
\* ("mvcc") ends the process.
UpdateFails(w) ==
    /\ ~panicked
    /\ worker[w].pc = "update"
    /\ IF worker[w].key \in deleted
       THEN UNCHANGED errors
       ELSE errors < MaxErrors /\ errors' = errors + 1
    /\ panicked' \in BOOLEAN
    /\ UNCHANGED clusterVars \/ Write(worker[w].key, worker[w].desired)
    /\ Finish(w)
    /\ UNCHANGED <<loadVars, desiredScale>>

WorkerStep(w) ==
    \/ ProcessNextItem(w) \/ CountReady(w) \/ Observe(w)
    \/ Store(w) \/ Compare(w) \/ Update(w)

----------------------------------------------------------------------------
(* The cluster: the cache follows the API server change by change, and the *)
(* ready pods follow the replicas; pods may fail and deployments may go.   *)

CacheSync(k) ==
    /\ ~panicked
    /\ pending[k] # <<>>
    /\ cached' = [cached EXCEPT ![k] = Head(pending[k])]
    /\ pending' = [pending EXCEPT ![k] = Tail(@)]
    /\ UNCHANGED <<loadVars, queueVars, worker, desiredScale, replicas, ready, deleted,
                   errors, panicked>>

PodsFollow(k) ==
    /\ ~panicked
    /\ k \notin deleted
    /\ ready[k] # replicas[k]
    /\ ready' = [ready EXCEPT ![k] = IF @ < replicas[k] THEN @ + 1 ELSE @ - 1]
    /\ UNCHANGED <<loadVars, queueVars, worker, desiredScale, replicas, cached, pending,
                   deleted, errors, panicked>>

PodFails(k) ==
    /\ ~panicked
    /\ ready[k] > 0
    /\ ready' = [ready EXCEPT ![k] = @ - 1]
    /\ UNCHANGED <<loadVars, queueVars, worker, desiredScale, replicas, cached, pending,
                   deleted, errors, panicked>>

Delete(k) ==
    /\ ~panicked
    /\ k \notin deleted
    /\ deleted' = deleted \cup {k}
    /\ UNCHANGED <<loadVars, queueVars, worker, desiredScale, replicas, cached, pending,
                   ready, errors, panicked>>

----------------------------------------------------------------------------
Next ==
    \/ \E k \in Keys :
          \/ ReqIn(k) \/ Activate(k) \/ Wake(k) \/ ReqOut(k) \/ TickAutoScaler(k)
          \/ CacheSync(k) \/ PodsFollow(k) \/ PodFails(k) \/ Delete(k)
    \/ \E w \in Workers :
          WorkerStep(w) \/ CountReadyFails(w) \/ CompareFails(w) \/ UpdateFails(w)

Spec == Init /\ [][Next]_vars

(***************************************************************************)
(* The goroutines run, tickers tick, and the cluster follows.  Nothing is  *)
(* assumed of the load.                                                    *)
(***************************************************************************)
Fairness ==
    /\ \A k \in Keys :
          /\ WF_vars(Activate(k) \/ Wake(k))
          /\ WF_vars(TickAutoScaler(k))
          /\ WF_vars(CacheSync(k))
          /\ WF_vars(PodsFollow(k))
    /\ \A w \in Workers : WF_vars(WorkerStep(w))

FairSpec == Spec /\ Fairness

----------------------------------------------------------------------------
Busy(w) == worker[w].pc # "idle"

(***************************************************************************)
(* A target is decided upon by one worker at a time: the decider's         *)
(* panicTime, maxPanicPods and delayWindow have no lock of their own.      *)
(***************************************************************************)
OneScalePerTarget ==
    \A v, w \in Workers :
        v # w /\ Busy(v) /\ Busy(w) => worker[v].key # worker[w].key

(***************************************************************************)
(* Scale writes the decision that Desired() reports: no worker applies a   *)
(* decision that a later one has already replaced.                         *)
(***************************************************************************)
AppliesCurrentDecision ==
    [][\A k \in Keys : replicas'[k] # replicas[k] => replicas'[k] = desiredScale[k]]_vars

(***************************************************************************)
(* Requests in flight with no ready pod do not stay that way: the target   *)
(* gets a pod, though ReqIn may miss a decision in progress, a decision to *)
(* scale to zero may be under way, the cache may be stale and calls may    *)
(* fail without being retried.  A deployment that is deleted stays as it   *)
(* is.                                                                     *)
(***************************************************************************)
StrandedRequestsWake ==
    \A k \in Keys :
        concurrency[k] > 0 /\ ready[k] = 0
            ~> ready[k] > 0 \/ concurrency[k] = 0 \/ panicked \/ k \in deleted

(***************************************************************************)
(* If the decider of an active target settles on a number, the deployment  *)
(* gets it for good, even if an update was skipped on a stale cache or     *)
(* failed.                                                                 *)
(***************************************************************************)
ReplicasFollowDecision ==
    \A k \in Keys, d \in Scales :
        <>[](k \in active /\ desiredScale[k] = d) =>
            <>[](replicas[k] = d) \/ <>(panicked \/ k \in deleted)
=============================================================================
