------------------------------ MODULE Kubelet ------------------------------
(***************************************************************************)
(* The custom kubelet (cmd/kubelet): SyncPod and the work queue, the pod   *)
(* and node event handlers, BindPod and Handshake as far as they feed the  *)
(* queue, ExposeManagedPod and markPodReady, between an API server and an  *)
(* informer that lags behind it.                                           *)
(*                                                                         *)
(* A pod is named by its queue key.  Managed pods are bound by the         *)
(* scheduler with BindPod, live in the in-memory cache and are created in  *)
(* the API server by this kubelet; native pods are created and scheduled   *)
(* by Kubernetes.  The epochs that fence BindPod against Handshake are     *)
(* the subject of module KubeletEpoch.                                     *)
(***************************************************************************)
EXTENDS Naturals, Sequences, FiniteSets

CONSTANTS
    Managed,            \* names of kd-managed pods
    Native,             \* names of k8s-originated pods
    Nodes,              \* nodes of the cluster
    ThisNode,           \* s.nodeName
    NodeOf,             \* the node each pod is bound to
    NWorkers,           \* nWorkers
    Patch,              \* s.patch
    MaxBinds,           \* bound: deliveries of BindPod per pod
    MaxRestarts,        \* bound: restarts of the kubelet process
    MaxNodeDeletes,     \* bound: deletions of node objects
    MaxLag,             \* bound: how far the informer is behind other clients
    MaxTouched,         \* bound: objects per name that other clients change
    TemplateMayGo,      \* whether the pods' owner may be deleted
    ForcedRemoval       \* pods whose objects others remove without grace

Pods == Managed \cup Native

ASSUME KubeletAssumption ==
    /\ Managed \cap Native = {}
    /\ ThisNode \in Nodes
    /\ NodeOf \in [Pods -> Nodes]
    /\ NWorkers \in Nat \ {0}
    /\ Patch \in BOOLEAN
    /\ MaxBinds \in Nat /\ MaxRestarts \in Nat /\ MaxNodeDeletes \in Nat
    /\ MaxLag \in Nat /\ MaxTouched \in Nat
    /\ TemplateMayGo \in BOOLEAN /\ ForcedRemoval \subseteq Pods

VARIABLES
    api,                \* per pod, its object in the API server
    watch,              \* per pod, versions on their way to the informer store
    store,              \* per pod, the version podLister returns
    notify,             \* per pod, events on their way to handlePodEvent
    flushing,           \* the pod whose cache entry handlePodEvent has yet to drop
    template,           \* podLister has the template pod of the managed pods
    nodeLister,         \* nodes nodeLister returns
    delegated,          \* other nodes with this node's service address, as cached
    clients,            \* nodes with a client in clientPool
    shaken,             \* nodes whose handshake this process has answered
    inMem,              \* names in inMemCache
    timer,              \* per pod, its entry of readyTimers
    dirty,              \* pods the work queue will hand out
    delayed,            \* pods waiting in AddAfter or AddRateLimited
    pc,                 \* per pod, where the worker that holds it is
    pod,                \* per pod, the copy that worker is working on
    exposing,           \* per pod, running ExposeManagedPod goroutines
    panicked,           \* a nil client was called
    binds, restarts, nodeDeletes,
    forced,             \* pods whose object was removed without grace
    declined            \* pods the last SyncPod took for another kubelet's

apiVars == <<api, watch, store, notify, flushing, template, nodeLister, delegated>>
connVars == <<clients, shaken>>
queueVars == <<dirty, delayed, pc, pod>>
boundVars == <<binds, restarts, nodeDeletes, forced, declined>>
vars == <<apiVars, connVars, inMem, timer, queueVars, exposing, panicked, boundVars>>

(***************************************************************************)
(* One version of a pod object.  uid counts how often the name has been    *)
(* created; a missing object is "none".  "inmem" marks a worker's copy     *)
(* made from the in-memory cache.  Without patches no object takes the     *)
(* same version twice: equal versions have equal resource versions.        *)
(***************************************************************************)
Phases == {"none", "pending", "ready", "failed"}
Version == [uid : Nat, phase : Phases \cup {"inmem"}, deleting : BOOLEAN]
NoPod == [uid |-> 0, phase |-> "none", deleting |-> FALSE]
Exists(p) == api[p].phase # "none"

Steps == {"idle", "lookup", "fromCache", "sync", "delete", "mark"}

TypeOK ==
    /\ api \in [Pods -> Version] /\ \A p \in Pods : api[p].phase \in Phases
    /\ store \in [Pods -> Version] /\ \A p \in Pods : store[p].phase \in Phases
    /\ watch \in [Pods -> Seq(Version)]
    /\ notify \in [Pods -> Seq({"set", "delete"})]
    /\ flushing \subseteq Managed /\ Cardinality(flushing) <= 1
    /\ template \in BOOLEAN
    /\ nodeLister \subseteq Nodes
    /\ delegated \subseteq Nodes \ {ThisNode}
    /\ clients \subseteq Nodes
    /\ shaken \subseteq Nodes
    /\ inMem \subseteq Managed
    /\ timer \in [Pods -> {"none", "running", "due"}]
    /\ dirty \subseteq Pods
    /\ delayed \subseteq Pods
    /\ pc \in [Pods -> Steps]
    /\ pod \in [Pods -> Version]
    /\ exposing \in [Managed -> Nat]
    /\ panicked \in BOOLEAN
    /\ binds \in [Managed -> 0..MaxBinds]
    /\ restarts \in 0..MaxRestarts
    /\ nodeDeletes \in 0..MaxNodeDeletes
    /\ forced \subseteq Pods
    /\ declined \subseteq Pods

Init ==
    /\ api = [p \in Pods |-> NoPod]
    /\ watch = [p \in Pods |-> <<>>]
    /\ store = [p \in Pods |-> NoPod]
    /\ notify = [p \in Pods |-> <<>>]
    /\ flushing = {}
    /\ template = TRUE
    /\ nodeLister = Nodes
    /\ delegated \in SUBSET (Nodes \ {ThisNode})
    /\ clients = {}
    /\ shaken = {}
    /\ inMem = {}
    /\ timer = [p \in Pods |-> "none"]
    /\ dirty = {}
    /\ delayed = {}
    /\ pc = [p \in Pods |-> "idle"]
    /\ pod = [p \in Pods |-> NoPod]
    /\ exposing = [p \in Managed |-> 0]
    /\ panicked = FALSE
    /\ binds = [p \in Managed |-> 0]
    /\ restarts = 0
    /\ nodeDeletes = 0
    /\ forced = {}
    /\ declined = {}

----------------------------------------------------------------------------
(* The API server and its other clients.                                   *)

Write(p, v) ==
    /\ api' = [api EXCEPT ![p] = v]
    /\ watch' = [watch EXCEPT ![p] = Append(@, v)]
    /\ UNCHANGED <<store, notify, flushing, template, nodeLister, delegated>>

Created(p) == [uid |-> api[p].uid + 1, phase |-> "pending", deleting |-> FALSE]
Removed(p) == [uid |-> api[p].uid, phase |-> "none", deleting |-> FALSE]

\* Other clients change an object while the informer is not too far behind.
Touchable(p) ==
    /\ Exists(p)
    /\ Len(watch[p]) + Len(notify[p]) < MaxLag
    /\ api[p].uid <= MaxTouched

\* Kubernetes creates and schedules a native pod; its name is never reused.
CreateNative(p) ==
    /\ api[p].uid = 0
    /\ Write(p, Created(p))
    /\ UNCHANGED <<connVars, inMem, timer, queueVars, exposing, panicked, boundVars>>

\* Somebody asks for a graceful deletion, which this kubelet has to finish.
RequestDeletion(p) ==
    /\ Touchable(p)
    /\ ~api[p].deleting
    /\ Write(p, [api[p] EXCEPT !.deleting = TRUE])
    /\ UNCHANGED <<connVars, inMem, timer, queueVars, exposing, panicked, boundVars>>

\* Somebody removes the object at once, as the pod garbage collector does.
ForceRemove(p) ==
    /\ p \in ForcedRemoval
    /\ Touchable(p)
    /\ Write(p, Removed(p))
    /\ forced' = forced \cup {p}
    /\ UNCHANGED <<connVars, inMem, timer, queueVars, exposing, panicked, binds, restarts,
                   nodeDeletes, declined>>

\* The pod is evicted: it is no longer active.
FailPod(p) ==
    /\ Touchable(p)
    /\ api[p].phase # "failed"
    /\ Write(p, [api[p] EXCEPT !.phase = "failed"])
    /\ UNCHANGED <<connVars, inMem, timer, queueVars, exposing, panicked, boundVars>>

\* The owner of the managed pods is deleted and its template pod with it.
DeleteTemplate ==
    /\ TemplateMayGo /\ template
    /\ template' = FALSE
    /\ UNCHANGED <<api, watch, store, notify, flushing, nodeLister, delegated, connVars, inMem,
                   timer, queueVars, exposing, panicked, boundVars>>

----------------------------------------------------------------------------
(* The informers and their handlers.  A process that panicked does nothing *)
(* until it is restarted.                                                  *)

\* The pod informer applies the next version to its store and tells the
\* handlers, which run later.
StoreUpdate(p) ==
    /\ ~panicked
    /\ watch[p] # <<>>
    /\ watch' = [watch EXCEPT ![p] = Tail(@)]
    /\ store' = [store EXCEPT ![p] = Head(watch[p])]
    /\ notify' = [notify EXCEPT ![p] =
                    Append(@, IF Head(watch[p]).phase = "none" THEN "delete" ELSE "set")]
    /\ UNCHANGED <<api, flushing, template, nodeLister, delegated, connVars, inMem, timer,
                   queueVars, exposing, panicked, boundVars>>

\* handlePodEvent up to queue.Add or readyTimers.Del.  One goroutine runs it
\* for all pods, and goes on to the cache entry if the pod is managed (a
\* managed object in the API server is always persistent).
HandlePodEvent(p) ==
    /\ ~panicked
    /\ flushing = {}
    /\ notify[p] # <<>>
    /\ notify' = [notify EXCEPT ![p] = Tail(@)]
    /\ IF Head(notify[p]) = "set"
       THEN dirty' = dirty \cup {p} /\ UNCHANGED timer
       ELSE timer' = [timer EXCEPT ![p] = "none"] /\ UNCHANGED dirty
    /\ flushing' = {p} \cap Managed
    /\ UNCHANGED <<api, watch, store, template, nodeLister, delegated, connVars, inMem, delayed, pc,
                   pod, exposing, panicked, boundVars>>

FlushNothing(p) ==
    /\ ~panicked
    /\ p \in flushing
    /\ flushing' = flushing \ {p}
    /\ UNCHANGED <<api, watch, store, notify, template, nodeLister, delegated, connVars, inMem, timer,
                   queueVars, exposing, panicked, boundVars>>

\* inMemCache.Del at the end of handlePodEvent.  The workers have been free to
\* take the pod from the queue, and its entry from the cache, before it.
FlushCache(p) ==
    /\ ~panicked
    /\ p \in flushing
    /\ flushing' = flushing \ {p}
    /\ inMem' = inMem \ {p}
    /\ UNCHANGED <<api, watch, store, notify, template, nodeLister, delegated, connVars, timer,
                   queueVars, exposing, panicked, boundVars>>

\* A node object goes; its handler deletes the node's client.
DeleteNode(n) ==
    /\ ~panicked
    /\ n \in nodeLister
    /\ nodeDeletes < MaxNodeDeletes
    /\ nodeDeletes' = nodeDeletes + 1
    /\ nodeLister' = nodeLister \ {n}
    /\ clients' = clients \ {n}
    /\ UNCHANGED <<api, watch, store, notify, flushing, template, delegated, shaken, inMem, timer,
                   queueVars, exposing, panicked, binds, restarts, forced, declined>>

AddNode(n) ==
    /\ ~panicked
    /\ n \notin nodeLister
    /\ nodeLister' = nodeLister \cup {n}
    /\ UNCHANGED <<api, watch, store, notify, flushing, template, delegated, connVars, inMem, timer,
                   queueVars, exposing, panicked, boundVars>>

\* The service address annotation of a node changes in the cache.  The node
\* informer has no handler for it, so nothing looks at the pods again.
UpdateNode ==
    /\ ~panicked
    /\ \E others \in SUBSET (Nodes \ {ThisNode}) :
          others # delegated /\ delegated' = others
    /\ UNCHANGED <<api, watch, store, notify, flushing, template, nodeLister, connVars, inMem, timer,
                   queueVars, exposing, panicked, boundVars>>

----------------------------------------------------------------------------
(* The RPC handlers.                                                       *)

\* Handshake creates the client of the destination node if there is none.
\* The upstream dials the address that it knows of, which need not be the one
\* in this kubelet's cache.
Handshake(n) ==
    /\ ~panicked
    /\ clients' = clients \cup {n}
    /\ shaken' = shaken \cup {n}
    /\ UNCHANGED <<apiVars, inMem, timer, queueVars, exposing, panicked, boundVars>>

BindPodAtAnyTime(p) ==
    /\ ~panicked
    /\ binds[p] < MaxBinds
    /\ template
    /\ binds' = [binds EXCEPT ![p] = @ + 1]
    /\ inMem' = inMem \cup {p}
    /\ dirty' = IF p \in inMem THEN dirty ELSE dirty \cup {p}
    /\ UNCHANGED <<apiVars, connVars, timer, delayed, pc, pod, exposing, panicked, restarts,
                   nodeDeletes, forced, declined>>

\* BindPod: the template must exist and the sender's epoch be the current
\* one; a pod already in the cache is ignored, a new one is queued.
BindPod(p) ==
    /\ ~panicked
    /\ binds[p] < MaxBinds
    /\ template
    /\ NodeOf[p] \in shaken
    /\ binds' = [binds EXCEPT ![p] = @ + 1]
    /\ inMem' = inMem \cup {p}
    /\ dirty' = IF p \in inMem THEN dirty ELSE dirty \cup {p}
    /\ UNCHANGED <<apiVars, connVars, timer, delayed, pc, pod, exposing, panicked, restarts,
                   nodeDeletes, forced, declined>>

----------------------------------------------------------------------------
(* The work queue and SyncPod.  A worker holds at most one pod and a pod   *)
(* is held by at most one worker, so pc is indexed by the pod.             *)

Goto(p, step, copy) ==
    /\ pc' = [pc EXCEPT ![p] = step]
    /\ pod' = [pod EXCEPT ![p] = copy]

\* SyncPod returned nil: Forget and Done.
Finish(p) == Goto(p, "idle", NoPod) /\ UNCHANGED <<dirty, delayed>>

DropOnError(p) == Finish(p)

\* SyncPod returned an error: AddRateLimited and Done.
Requeue(p) == Goto(p, "idle", NoPod) /\ delayed' = delayed \cup {p} /\ UNCHANGED dirty

\* queue.Get
Dequeue(p) ==
    /\ ~panicked
    /\ p \in dirty
    /\ pc[p] = "idle"
    /\ Cardinality({q \in Pods : pc[q] # "idle"}) < NWorkers
    /\ dirty' = dirty \ {p}
    /\ Goto(p, "lookup", NoPod)
    /\ declined' = declined \ {p}
    /\ UNCHANGED <<apiVars, connVars, inMem, timer, delayed, exposing, panicked, binds, restarts,
                   nodeDeletes, forced>>

\* podLister.Get: an API pod always takes precedence.
Lookup(p) ==
    /\ ~panicked
    /\ pc[p] = "lookup"
    /\ IF store[p].phase # "none"
       THEN Goto(p, "sync", store[p])
       ELSE Goto(p, "fromCache", NoPod)
    /\ UNCHANGED <<apiVars, connVars, inMem, timer, dirty, delayed, exposing, panicked, boundVars>>

\* inMemCache.Get and the template; both misses return nil.
FromCache(p) ==
    /\ ~panicked
    /\ pc[p] = "fromCache"
    /\ IF p \in inMem /\ template
       THEN /\ Goto(p, "sync", [uid |-> 0, phase |-> "inmem", deleting |-> FALSE])
            /\ UNCHANGED <<dirty, delayed>>
       ELSE Finish(p)
    /\ UNCHANGED <<apiVars, connVars, inMem, timer, exposing, panicked, boundVars>>

\* isResponsibleFor: its error and its answer.
NodeMissing(p) == NodeOf[p] # ThisNode /\ ~({ThisNode, NodeOf[p]} \subseteq nodeLister)
Responsible(p) == NodeOf[p] = ThisNode \/ NodeOf[p] \in delegated

SyncNotMine(p) ==
    /\ ~panicked
    /\ pc[p] = "sync"
    /\ NodeMissing(p) \/ ~Responsible(p)
    /\ IF NodeMissing(p)
       THEN Requeue(p) /\ UNCHANGED declined
       ELSE Finish(p) /\ declined' = declined \cup {p}
    /\ UNCHANGED <<apiVars, connVars, inMem, timer, exposing, panicked, binds, restarts,
                   nodeDeletes, forced>>

Mine(p) == ~panicked /\ pc[p] = "sync" /\ ~NodeMissing(p) /\ Responsible(p)

DeleteInactiveToo(p) ==
    /\ Mine(p)
    /\ pod[p].deleting \/ pod[p].phase = "failed"
    /\ Goto(p, "delete", pod[p])
    /\ UNCHANGED <<apiVars, connVars, inMem, timer, dirty, delayed, exposing, panicked, boundVars>>

SyncDeleting(p) ==
    /\ Mine(p)
    /\ pod[p].deleting
    /\ Goto(p, "delete", pod[p])
    /\ UNCHANGED <<apiVars, connVars, inMem, timer, dirty, delayed, exposing, panicked, boundVars>>

SyncDoneKeepsTimer(p) ==
    /\ Mine(p)
    /\ ~pod[p].deleting
    /\ pod[p].phase \in {"failed", "ready"}
    /\ Finish(p)
    /\ UNCHANGED <<apiVars, connVars, inMem, timer, exposing, panicked, boundVars>>

\* An inactive or a ready pod needs nothing more.
SyncDone(p) ==
    /\ Mine(p)
    /\ ~pod[p].deleting
    /\ pod[p].phase \in {"failed", "ready"}
    /\ timer' = [timer EXCEPT ![p] = "none"]
    /\ Finish(p)
    /\ UNCHANGED <<apiVars, connVars, inMem, exposing, panicked, boundVars>>

\* readyTimers.GetOrCreate, the start of ExposeManagedPod for a fresh timer of
\* an in-memory pod, and the wait.  A fresh timer may be due at once.
SyncWait(p) ==
    /\ Mine(p)
    /\ ~pod[p].deleting
    /\ pod[p].phase \in {"pending", "inmem"}
    /\ \E t \in IF timer[p] = "none" THEN {"running", "due"} ELSE {timer[p]} :
          /\ timer' = [timer EXCEPT ![p] = t]
          /\ IF t = "running"
             THEN Goto(p, "idle", NoPod) /\ delayed' = delayed \cup {p} /\ UNCHANGED dirty
             ELSE IF pod[p].phase = "inmem"
                  THEN Finish(p)
                  ELSE Goto(p, "mark", pod[p]) /\ UNCHANGED <<dirty, delayed>>
    /\ exposing' = IF timer[p] = "none" /\ pod[p].phase = "inmem"
                   THEN [exposing EXCEPT ![p] = @ + 1]
                   ELSE exposing
    /\ UNCHANGED <<apiVars, connVars, inMem, panicked, boundVars>>

\* Delete with grace period 0 through initClient; NotFound is as good.
DeletePod(p) ==
    /\ ~panicked
    /\ pc[p] = "delete"
    /\ IF Exists(p) THEN Write(p, Removed(p)) ELSE UNCHANGED apiVars
    /\ timer' = [timer EXCEPT ![p] = "none"]
    /\ Finish(p)
    /\ UNCHANGED <<connVars, inMem, exposing, panicked, boundVars>>

\* markPodReady: a patch is refused when the uid differs, an update when
\* anything differs.
Accepted(p) == Exists(p) /\ IF Patch THEN api[p].uid = pod[p].uid ELSE api[p] = pod[p]

MarkReady(p) ==
    /\ ~panicked
    /\ pc[p] = "mark"
    /\ NodeOf[p] \in clients
    /\ Accepted(p)
    /\ Write(p, [api[p] EXCEPT !.phase = "ready"])
    /\ Finish(p)
    /\ UNCHANGED <<connVars, inMem, timer, exposing, panicked, boundVars>>

\* No ready reference pod, a refused write, or any failed API call.
CallFails(p) ==
    /\ ~panicked
    /\ pc[p] \in {"delete", "mark"}
    /\ Requeue(p)
    /\ UNCHANGED <<apiVars, connVars, inMem, timer, exposing, panicked, boundVars>>

\* One attempt of ExposeManagedPod that is answered: created, or there
\* already.  Any other answer is retried a second later.
Expose(p) ==
    /\ ~panicked
    /\ exposing[p] > 0
    /\ NodeOf[p] \in clients
    /\ exposing' = [exposing EXCEPT ![p] = @ - 1]
    /\ IF Exists(p) THEN UNCHANGED apiVars ELSE Write(p, Created(p))
    /\ UNCHANGED <<connVars, inMem, timer, queueVars, panicked, boundVars>>

\* GetClient returned nil and its caller uses it.
NilClient(p) ==
    /\ ~panicked
    /\ NodeOf[p] \notin clients
    /\ pc[p] = "mark" \/ (p \in Managed /\ exposing[p] > 0)
    /\ panicked' = TRUE
    /\ UNCHANGED <<apiVars, connVars, inMem, timer, queueVars, exposing, boundVars>>

----------------------------------------------------------------------------
(* Time, and the process itself.                                           *)

TimerElapses(p) ==
    /\ ~panicked
    /\ timer[p] = "running"
    /\ timer' = [timer EXCEPT ![p] = "due"]
    /\ UNCHANGED <<apiVars, connVars, inMem, queueVars, exposing, panicked, boundVars>>

DelayElapses(p) ==
    /\ ~panicked
    /\ p \in delayed
    /\ delayed' = delayed \ {p}
    /\ dirty' = dirty \cup {p}
    /\ UNCHANGED <<apiVars, connVars, inMem, timer, pc, pod, exposing, panicked, boundVars>>

\* The process dies, by a panic or otherwise, and starts again: the informer
\* lists the pods anew and everything else is lost.
Restart ==
    /\ restarts < MaxRestarts
    /\ restarts' = restarts + 1
    /\ watch' = [p \in Pods |-> <<>>]
    /\ store' = api
    /\ notify' = [p \in Pods |-> IF Exists(p) THEN <<"set">> ELSE <<>>]
    /\ flushing' = {}
    /\ clients' = {}
    /\ shaken' = {}
    /\ inMem' = {}
    /\ timer' = [p \in Pods |-> "none"]
    /\ dirty' = {}
    /\ delayed' = {}
    /\ pc' = [p \in Pods |-> "idle"]
    /\ pod' = [p \in Pods |-> NoPod]
    /\ exposing' = [p \in Managed |-> 0]
    /\ panicked' = FALSE
    /\ declined' = {}
    /\ UNCHANGED <<api, template, nodeLister, delegated, binds, nodeDeletes, forced>>

----------------------------------------------------------------------------
Worker(p) ==
    \/ Lookup(p) \/ FromCache(p)
    \/ SyncNotMine(p) \/ SyncDeleting(p) \/ SyncDone(p) \/ SyncWait(p)
    \/ DeletePod(p) \/ MarkReady(p) \/ CallFails(p)

Next ==
    \/ \E p \in Native : CreateNative(p)
    \/ \E p \in Pods : RequestDeletion(p) \/ ForceRemove(p) \/ FailPod(p)
    \/ DeleteTemplate
    \/ \E p \in Pods : StoreUpdate(p) \/ HandlePodEvent(p)
    \/ \E n \in Nodes : DeleteNode(n) \/ AddNode(n)
    \/ \E p \in Pods : Handshake(NodeOf[p])
    \/ UpdateNode
    \/ \E p \in Managed : FlushCache(p) \/ BindPod(p) \/ Expose(p)
    \/ \E p \in Pods : Dequeue(p) \/ Worker(p) \/ NilClient(p)
    \/ \E p \in Pods : TimerElapses(p) \/ DelayElapses(p)
    \/ Restart

Spec == Init /\ [][Next]_vars

(***************************************************************************)
(* The informer, its handlers and the workers are live and time passes; a  *)
(* worker that is free takes a pod from the queue; a call that is retried  *)
(* for ever is not refused for ever.  Nothing is assumed of the scheduler  *)
(* or of the other clients of the API server.                              *)
(***************************************************************************)
Fairness ==
    /\ \A p \in Pods :
          /\ WF_vars(StoreUpdate(p)) /\ WF_vars(HandlePodEvent(p))
          /\ WF_vars(Dequeue(p)) /\ WF_vars(Worker(p))
          /\ SF_vars(DeletePod(p) \/ MarkReady(p))
          /\ WF_vars(TimerElapses(p)) /\ WF_vars(DelayElapses(p))
    /\ \A p \in Managed : WF_vars(FlushCache(p)) /\ WF_vars(Expose(p))

FairSpec == Spec /\ Fairness

----------------------------------------------------------------------------
\* Nothing of the kubelet will look at p again unless something else happens.
Exposing(p) == p \in Managed /\ exposing[p] > 0
Quiet(p) ==
    /\ p \notin dirty \cup delayed
    /\ pc[p] = "idle"
    /\ watch[p] = <<>> /\ notify[p] = <<>> /\ p \notin flushing
    /\ ~Exposing(p)

(***************************************************************************)
(* No lost wake-up: the kubelet never comes to rest over an API pod that   *)
(* is still to be marked ready or still to be removed, unless the last     *)
(* SyncPod took it for another kubelet's.  All other early returns are     *)
(* followed by another look.  That one (kubelet.go:264-265) is not: a pod  *)
(* seen before its node's delegation is in the cache stays as it is.       *)
(***************************************************************************)
NoForgottenPod ==
    \A p \in Pods :
        Quiet(p) /\ p \notin declined /\ Exists(p) =>
            ~api[p].deleting /\ api[p].phase # "pending"

(***************************************************************************)
(* A pod bound by the scheduler is exposed: the kubelet never comes to     *)
(* rest with a pod in the in-memory cache, except one that it declined or  *)
(* that was bound again after its object had appeared.  "the exposed pods  *)
(* will be deleted by system-wide GC and notified through the above        *)
(* handler" (kubelet.go:162-163) is why no handler for template deletion   *)
(* is thought to be needed; the claim is for a template that stays.  A     *)
(* name that has been created anew is out of it too: its stale timer may   *)
(* keep SyncPod from starting ExposeManagedPod.                            *)
(***************************************************************************)
InMemIsTransient ==
    \A p \in Managed \ (forced \cup declined) :
        template /\ api[p].uid <= 1 /\ Quiet(p) /\ p \in inMem =>
            Exists(p) /\ binds[p] > 1

(***************************************************************************)
(* Timers do not outlive their pods: at rest, a pod that is gone, inactive *)
(* or ready has no entry in readyTimers (the comments at kubelet.go:209    *)
(* and 336 rely on the handlers and on the last SyncPod for it), as long   *)
(* as the name has not been created anew and the kubelet did not decline   *)
(* the pod when it looked last.                                            *)
(***************************************************************************)
TimersCleared ==
    \A p \in Pods \ (forced \cup declined) :
        Quiet(p) /\ p \notin inMem /\ api[p].uid <= 1 => timer[p] = "none"

(***************************************************************************)
(* "in-mem pods only occur during creation" (kubelet.go:269): SyncPod does *)
(* not take a pod that was bound once from the in-memory cache when its    *)
(* object has been there and is gone.                                      *)
(***************************************************************************)
InMemOnlyDuringCreation ==
    \A p \in Managed :
        binds[p] <= 1 /\ pc[p] = "sync" /\ pod[p].phase = "inmem" =>
            api[p].uid = 0 \/ Exists(p)

(***************************************************************************)
(* What there is to that: a pod that was bound once and is gone is taken   *)
(* from the cache again only by a worker between queue.Add and             *)
(* inMemCache.Del of handlePodEvent.  Neither requeues, stale lookups,     *)
(* lost timers nor a restart bring it back.                                *)
(***************************************************************************)
RevivedOnlyWhileFlushing ==
    [][\A p \in Managed \ forced :
          FromCache(p) /\ pc'[p] = "sync" /\ binds[p] <= 1 /\ api[p].uid > 0 /\ ~Exists(p)
              => p \in flushing]_vars

(***************************************************************************)
(* SyncPod deletes by name and from a cached copy; still, the object that  *)
(* it removes is one whose deletion somebody requested, as long as it is   *)
(* the first of its name.                                                  *)
(***************************************************************************)
OnlyRequestedDeletions ==
    [][\A p \in Pods :
          DeletePod(p) /\ Exists(p) /\ api[p].uid = 1 => api[p].deleting]_vars

(***************************************************************************)
(* A pod that became inactive is left alone ("Skipping inactive pod",      *)
(* kubelet.go:285): a worker whose copy of it is older meets a conflict,   *)
(* which "would be handled after requeue" (kubelet.go:333).                *)
(***************************************************************************)
InactiveStaysInactive ==
    [][\A p \in Pods : api[p].phase = "failed" => api'[p].phase # "ready"]_vars

(***************************************************************************)
(* GetClient answers nil for a node without a handshake, and its callers   *)
(* do not look.  The retry loop of ExposeManagedPod still always finds the *)
(* client of its node, because BindPod is refused before the handshake;    *)
(* only the deletion of the node object takes the client away.             *)
(***************************************************************************)
ExposeFindsClient ==
    \A p \in Managed : exposing[p] > 0 /\ nodeDeletes = 0 => NodeOf[p] \in clients

(***************************************************************************)
(* A pod taken over by BindPod reaches the API server and leaves the       *)
(* pending phase there, or is removed, unless the process dies (the        *)
(* in-memory cache is not persistent), a node object is deleted (which     *)
(* takes the node's client away), the template goes, or the kubelet looks  *)
(* at the pod while the delegation of its node is not in the cache.        *)
(***************************************************************************)
BoundPodLeavesPending ==
    \A p \in Managed :
        p \in inMem ~>
            \/ api[p].uid > 0 /\ api[p].phase # "pending"
            \/ panicked \/ restarts > 0 \/ nodeDeletes > 0
            \/ ~template \/ p \in declined

(***************************************************************************)
(* A requested deletion is carried out or, without the delegation in the   *)
(* cache, declined, also across a restart of the kubelet: the pods are     *)
(* listed anew and deleted through initClient, which needs no handshake.   *)
(* While a node object is missing, isResponsibleFor fails and SyncPod only *)
(* retries.                                                                *)
(***************************************************************************)
DeletionCompletes ==
    \A p \in Pods :
        api[p].deleting ~>
            ~api[p].deleting \/ panicked \/ nodeLister # Nodes \/ p \in declined
=============================================================================
