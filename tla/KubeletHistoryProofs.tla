------------------------ MODULE KubeletHistoryProofs ------------------------
(***************************************************************************)
(* Proofs about the revivals, deletions, timers and the in-memory cache of *)
(* Kubelet, for all pods, nodes, numbers of workers and bounds, with       *)
(* delegations that change at any time.  They follow from HistoryInv       *)
(* (KubeletProofs), which is shown here for the steps of the workers,      *)
(* BindPod, ExposeManagedPod, time and a restart of the process.           *)
(***************************************************************************)
EXTENDS KubeletProofs

\* No timer but p's changes.
TimerOf(p) ==
    /\ timer' \in [Pods -> {"none", "running", "due"}]
    /\ \A q \in Pods : q # p => timer'[q] = timer[q]

\* A step that leaves the timers alone, or sets one of them.
LEMMA TimerSteps ==
    ASSUME HistoryInv, NEW p \in Pods
    PROVE  /\ timer' = timer => TimerOf(p) /\ timer'[p] = timer[p]
           /\ \A t \in {"none", "running", "due"} :
                 timer' = [timer EXCEPT ![p] = t] => TimerOf(p) /\ timer'[p] = t
  BY Zenon DEF HistoryInv, TimerOf

\* A worker's step leaves the other pods alone, and the pod's object unless
\* it writes it.
LEMMA WorkerSame ==
    ASSUME IInv, HistoryInv, NEW p \in Pods, NEW step, NEW copy, Goto(p, step, copy),
           UNCHANGED <<store, notify, template, flushing, inMem, binds, forced>>,
           declined' \in {declined, declined \cup {p}, declined \ {p}},
           \A q \in Pods : q # p => api'[q] = api[q] /\ watch'[q] = watch[q],
           dirty' \in {dirty, dirty \ {p}}, delayed' \in {delayed, delayed \cup {p}},
           TimerOf(p), \A q \in Managed : q # p => exposing'[q] = exposing[q]
    PROVE  /\ pc'[p] = step /\ pod'[p] = copy
           /\ History(p)' => HistoryInv'
<1>1. /\ pc'[p] = step /\ pod'[p] = copy
      /\ \A q \in Pods : q # p => pc'[q] = pc[q] /\ pod'[q] = pod[q] /\ timer'[q] = timer[q]
      /\ timer' \in [Pods -> {"none", "running", "due"}]
  BY Zenon DEF Goto, IInv, Types, TimerOf
<1>2. \A q \in Pods : q # p => Same(q)
  BY <1>1, Zenon DEF Same
<1>3. QED
  BY <1>1, <1>2, OnlyPod, Zenon DEF HistoryInv

\* What is known of the pod that a worker holds.
LEMMA Held ==
    ASSUME IInv, HistoryInv, NEW p \in Pods
    PROVE  /\ Ordered(p) /\ Copies(p) /\ Fresh(p) /\ TimerTracked(p) /\ Unborn(p) /\ Gone(p)
           /\ p \in Managed => Cached(p) /\ Unbound(p)
           /\ p \in Managed => BoundOnce(p)
           /\ History(p)
           /\ NoPod.phase = "none" /\ NoPod.uid = 0 /\ NoPod.deleting = FALSE
           /\ api[p].uid \in Nat /\ store[p].uid \in Nat /\ pod[p].uid \in Nat
           /\ p \in Managed => exposing[p] \in Nat /\ binds[p] \in Nat
           /\ store[p].phase # "inmem"
           /\ pod[p].phase = "inmem" => p \in Managed
           /\ inMem \subseteq Managed
<1>1. /\ Ordered(p) /\ Copies(p) /\ Fresh(p) /\ TimerTracked(p) /\ Unborn(p) /\ Gone(p)
      /\ p \in Managed => Cached(p) /\ Unbound(p) /\ BoundOnce(p)
      /\ History(p)
  BY Zenon DEF HistoryInv, History
<1>2. NoPod.phase = "none" /\ NoPod.uid = 0 /\ NoPod.deleting = FALSE
  BY Zenon DEF NoPod
<1>3. api[p] \in ApiVersion /\ store[p] \in ApiVersion /\ pod[p] \in Version
  BY Zenon DEF IInv, Types
<1>4. /\ api[p].uid \in Nat /\ store[p].uid \in Nat /\ pod[p].uid \in Nat
      /\ store[p].phase # "inmem"
  BY <1>3, Zenon DEF ApiVersion, Version, Phases
<1>5. p \in Managed => exposing[p] \in Nat /\ binds[p] \in Nat
  BY Zenon DEF IInv, Types, HistoryInv
<1>6. /\ pod[p].phase = "inmem" => p \in Managed
      /\ inMem \subseteq Managed
  BY Zenon DEF IInv, Types, Connected
<1>7. QED
  BY <1>1, <1>2, <1>4, <1>5, <1>6, Zenon

\* Dequeue, and the lookups in the store and in the cache.
LEMMA LookupHistory ==
    ASSUME IInv, HistoryInv, NEW p \in Pods, Dequeue(p) \/ Lookup(p) \/ FromCache(p)
    PROVE  HistoryInv'
<1>o. Ordered(p)
  BY Held, Zenon
<1>k. Copies(p)
  BY Held, Zenon
<1>f. Fresh(p) /\ TimerTracked(p)
  BY Held, Zenon
<1>g. Unborn(p) /\ Gone(p)
  BY Held, Zenon
<1>c. p \in Managed => Cached(p) /\ Unbound(p)
  BY Held, Zenon
<1>b. p \in Managed => BoundOnce(p)
  BY Held, Zenon
<1>n. NoPod.phase = "none" /\ NoPod.uid = 0 /\ NoPod.deleting = FALSE
  BY Zenon DEF NoPod
<1>a. /\ api[p].uid \in Nat /\ store[p].uid \in Nat /\ pod[p].uid \in Nat
      /\ p \in Managed => exposing[p] \in Nat
      /\ store[p].phase # "inmem"
      /\ pod[p].phase = "inmem" => p \in Managed
  BY Held, Zenon
<1>1. /\ UNCHANGED <<api, watch, store, notify, template, flushing, inMem, timer, exposing, binds,
                     forced>>
      /\ declined' \in {declined, declined \ {p}} /\ (Dequeue(p) \/ declined' = declined)
  BY Zenon DEF Dequeue, Lookup, FromCache, apiVars, boundVars
<1>2. TimerOf(p) /\ timer'[p] = timer[p]
  BY <1>1, TimerSteps, Zenon
<1>3. Ordered(p)' /\ Unborn(p)'
  BY <1>1, <1>o, <1>g, Zenon DEF Ordered, Exists, Unborn, Exposing
<1>4. CASE Dequeue(p)
  <2>1. /\ Goto(p, "lookup", NoPod) /\ dirty' = dirty \ {p} /\ delayed' = delayed
        /\ p \in dirty /\ pc[p] = "idle"
    BY <1>4, Zenon DEF Dequeue
  <2>2. pc'[p] = "lookup" /\ pod'[p] = NoPod /\ (History(p)' => HistoryInv')
    BY <1>1, <1>2, <2>1, WorkerSame, Zenon
  <2>3. Copies(p)' /\ Fresh(p)' /\ TimerTracked(p)' /\ Gone(p)'
    BY <1>1, <2>2, <1>g, <1>n, Zenon DEF Copies, Fresh, TimerTracked, Gone, Exists, Exposing
  <2>4. p \in Managed => Cached(p)' /\ Unbound(p)'
    BY <1>1, <2>1, <2>2, <1>c, Zenon DEF Cached, Unbound
  <2>5. p \in Managed => BoundOnce(p)'
    BY <1>1, <2>1, <2>2, <1>b, <1>n, Zenon DEF BoundOnce, Untouched, Spent, Exists
  <2>6. QED
    BY <1>3, <2>2, <2>3, <2>4, <2>5, Zenon DEF History
<1>5. CASE Lookup(p)
  <2>1. dirty' = dirty /\ delayed' = delayed /\ pc[p] = "lookup"
    BY <1>5, Zenon DEF Lookup
  <2>2. PICK step \in {"sync", "fromCache"}, copy \in Version :
          /\ Goto(p, step, copy)
          /\ step = "sync" => copy = store[p] /\ store[p].phase # "none"
          /\ step = "fromCache" => copy = NoPod /\ store[p].phase = "none"
    BY <1>5, AtPod, Zenon DEF Lookup
  <2>3. pc'[p] = step /\ pod'[p] = copy /\ (History(p)' => HistoryInv')
    BY <1>1, <1>2, <2>1, <2>2, WorkerSame, Zenon
  <2>4. Copies(p)'
    <3>1. store[p].phase # "none" => store[p].uid >= 1
      BY <1>o, Zenon DEF Ordered
    <3>2. Precedes(store[p], store[p])
      BY Zenon DEF Precedes
    <3>3. CASE step = "sync"
      BY <1>1, <2>2, <2>3, <3>1, <3>2, <1>n, <1>a, Zenon DEF Copies
    <3>4. CASE step = "fromCache"
      BY <2>2, <2>3, <3>4, <1>n, Zenon DEF Copies
    <3>5. QED
      BY <3>3, <3>4, Zenon
  <2>5. Fresh(p)' /\ TimerTracked(p)' /\ Gone(p)'
    BY <1>1, <2>2, <2>3, <1>g, Zenon DEF Fresh, TimerTracked, Gone, Exists, Exposing
  <2>6. p \in Managed => Cached(p)' /\ Unbound(p)'
    BY <1>1, <2>1, <2>2, <2>3, <1>c, Zenon DEF Cached, Unbound
  <2>7. p \in Managed => BoundOnce(p)'
    BY <1>1, <2>1, <2>2, <2>3, <1>b, <1>n, <1>a, Zenon DEF BoundOnce, Untouched, Spent, Exists
  <2>8. QED
    BY <1>3, <2>3, <2>4, <2>5, <2>6, <2>7, Zenon DEF History
<1>6. CASE FromCache(p)
  <2>1. dirty' = dirty /\ delayed' = delayed /\ pc[p] = "fromCache" /\ pod[p] = NoPod
    BY <1>6, <1>k, Zenon DEF FromCache, Finish, Copies
  <2>2. PICK step \in {"sync", "idle"}, copy \in Version :
          /\ Goto(p, step, copy)
          /\ step = "sync" => /\ copy.phase = "inmem" /\ copy.deleting = FALSE
                              /\ p \in inMem /\ template
          /\ step = "idle" => copy = NoPod /\ ~(p \in inMem /\ template)
    <3>1. CASE p \in inMem /\ template
      <4> DEFINE c == [uid |-> 0, phase |-> "inmem", deleting |-> FALSE]
      <4>1. Goto(p, "sync", c)
        BY <1>6, <3>1, Zenon DEF FromCache
      <4>2. c.phase = "inmem" /\ c.deleting = FALSE /\ c \in Version
        BY Zenon DEF Version
      <4> HIDE DEF c
      <4>3. QED
        BY <3>1, <4>1, <4>2, Zenon
    <3>2. CASE ~(p \in inMem /\ template)
      BY <1>6, <3>2, AtPod, Zenon DEF FromCache, Finish
    <3>3. QED
      BY <3>1, <3>2, Zenon
  <2>3. pc'[p] = step /\ pod'[p] = copy /\ (History(p)' => HistoryInv')
    BY <1>1, <1>2, <2>1, <2>2, WorkerSame, Zenon
  <2>4. Copies(p)' /\ Fresh(p)' /\ TimerTracked(p)'
    BY <1>1, <2>1, <2>2, <2>3, <1>f, <1>n, Zenon DEF Copies, Fresh, TimerTracked
  <2>5. Gone(p)'
    BY <1>1, <2>2, <2>3, <1>g, Zenon DEF Gone, Exists, Exposing
  <2>6. p \in Managed => Cached(p)' /\ Unbound(p)'
    BY <1>1, <2>1, <2>2, <2>3, <1>c, Zenon DEF Cached, Unbound
  <2>7. p \in Managed => BoundOnce(p)'
    <3> SUFFICES ASSUME p \in Managed, Untouched(p) PROVE BoundOnce(p)'
      BY <1>1, <2>1, Zenon DEF BoundOnce, Untouched
    <3>1. BoundOnce(p) /\ exposing[p] \in Nat
      BY <1>a, <1>b, Zenon
    <3>2. Spent(p) => timer[p] # "none"
      BY <2>1, <3>1, Zenon DEF BoundOnce
    <3>3. api[p].uid = 1 => Spent(p)
      BY <3>1 DEF Spent
    <3>4. api[p].uid = 1 => Exists(p)
      BY <3>1, <3>2, <3>3, Zenon DEF BoundOnce
    <3>5. QED
      BY <1>1, <2>1, <3>1, <3>2, <3>4, Zenon DEF BoundOnce, Untouched, Spent, Exists
  <2>8. QED
    BY <1>3, <2>3, <2>4, <2>5, <2>6, <2>7, Zenon DEF History
<1>7. QED
  BY <1>4, <1>5, <1>6, Zenon

\* An error puts the pod back into the queue.
LEMMA RequeueHistory ==
    ASSUME IInv, HistoryInv, NEW p \in Pods, Requeue(p), pc[p] # "idle",
           UNCHANGED <<api, watch, store, notify, template, flushing, inMem, timer, exposing, binds,
                       forced, declined>>
    PROVE  HistoryInv'
<1>o. Ordered(p)
  BY Held, Zenon
<1>k. Copies(p)
  BY Held, Zenon
<1>f. Fresh(p) /\ TimerTracked(p)
  BY Held, Zenon
<1>g. Unborn(p) /\ Gone(p)
  BY Held, Zenon
<1>c. p \in Managed => Cached(p) /\ Unbound(p)
  BY Held, Zenon
<1>b. p \in Managed => BoundOnce(p)
  BY Held, Zenon
<1>n. NoPod.phase = "none" /\ NoPod.uid = 0 /\ NoPod.deleting = FALSE
  BY Zenon DEF NoPod
<1>a. /\ api[p].uid \in Nat /\ store[p].uid \in Nat /\ pod[p].uid \in Nat
      /\ p \in Managed => exposing[p] \in Nat
      /\ store[p].phase # "inmem"
      /\ pod[p].phase = "inmem" => p \in Managed
  BY Held, Zenon
<1>1. Goto(p, "idle", NoPod) /\ delayed' = delayed \cup {p} /\ dirty' = dirty
  BY Zenon DEF Requeue
<1>2. TimerOf(p)
  BY TimerSteps, Zenon
<1>3. pc'[p] = "idle" /\ pod'[p] = NoPod /\ (History(p)' => HistoryInv')
  BY <1>1, <1>2, WorkerSame, Zenon
<1>4. Ordered(p)' /\ Unborn(p)' /\ Gone(p)'
  BY <1>3, <1>o, <1>g, Zenon DEF Ordered, Exists, Unborn, Gone, Exposing
<1>5. Copies(p)' /\ Fresh(p)' /\ TimerTracked(p)'
  BY <1>1, <1>3, <1>n, Zenon DEF Copies, Fresh, TimerTracked
<1>6. p \in Managed => Cached(p)' /\ Unbound(p)'
  BY <1>1, <1>c, Zenon DEF Cached, Unbound
<1>7. p \in Managed => BoundOnce(p)'
  BY <1>1, <1>3, <1>b, <1>n, Zenon DEF BoundOnce, Untouched, Spent, Exists
<1>8. QED
  BY <1>3, <1>4, <1>5, <1>6, <1>7, Zenon DEF History

\* SyncPod returns without an error and leaves the pod's object alone: it has
\* deleted the timer, or declines the pod.
LEMMA ReturnHistory ==
    ASSUME IInv, HistoryInv, NEW p \in Pods, Finish(p), pc[p] \in {"sync", "delete"},
           UNCHANGED <<api, watch, store, notify, template, flushing, inMem, exposing, binds, forced>>,
           TimerOf(p),
           \/ timer'[p] = "none" /\ pod[p].phase # "inmem" /\ declined' = declined
           \/ timer'[p] = timer[p] /\ declined' = declined \cup {p}
    PROVE  HistoryInv'
<1>o. Ordered(p)
  BY Held, Zenon
<1>k. Copies(p)
  BY Held, Zenon
<1>f. Fresh(p) /\ TimerTracked(p)
  BY Held, Zenon
<1>g. Unborn(p) /\ Gone(p)
  BY Held, Zenon
<1>c. p \in Managed => Cached(p) /\ Unbound(p)
  BY Held, Zenon
<1>b. p \in Managed => BoundOnce(p)
  BY Held, Zenon
<1>n. NoPod.phase = "none" /\ NoPod.uid = 0 /\ NoPod.deleting = FALSE
  BY Zenon DEF NoPod
<1>a. /\ api[p].uid \in Nat /\ store[p].uid \in Nat /\ pod[p].uid \in Nat
      /\ p \in Managed => exposing[p] \in Nat
      /\ store[p].phase # "inmem"
      /\ pod[p].phase = "inmem" => p \in Managed
  BY Held, Zenon
<1>1. Goto(p, "idle", NoPod) /\ delayed' = delayed /\ dirty' = dirty
  BY Zenon DEF Finish
<1>2. pc'[p] = "idle" /\ pod'[p] = NoPod /\ (History(p)' => HistoryInv')
  BY <1>1, WorkerSame, Zenon
<1>3. Ordered(p)' /\ Unborn(p)' /\ Gone(p)'
  BY <1>2, <1>o, <1>g, Zenon DEF Ordered, Exists, Unborn, Gone, Exposing
<1>4. Copies(p)' /\ Fresh(p)' /\ TimerTracked(p)'
  BY <1>2, <1>n, Zenon DEF Copies, Fresh, TimerTracked
<1>5. p \in Managed => Cached(p)' /\ Unbound(p)'
  BY <1>1, <1>c, Zenon DEF Cached, Unbound
<1>6. p \in Managed => BoundOnce(p)'
  BY <1>1, <1>2, <1>b, <1>n, Zenon DEF BoundOnce, Untouched, Exists
<1>7. QED
  BY <1>2, <1>3, <1>4, <1>5, <1>6, Zenon DEF History

\* The branches of SyncPod that call nobody and wait for nothing.
LEMMA SyncHistory ==
    ASSUME IInv, HistoryInv, NEW p \in Pods,
           SyncNotMine(p) \/ SyncDeleting(p) \/ SyncDone(p) \/ CallFails(p)
    PROVE  HistoryInv'
<1>o. Ordered(p)
  BY Held, Zenon
<1>k. Copies(p)
  BY Held, Zenon
<1>f. Fresh(p) /\ TimerTracked(p)
  BY Held, Zenon
<1>g. Unborn(p) /\ Gone(p)
  BY Held, Zenon
<1>c. p \in Managed => Cached(p) /\ Unbound(p)
  BY Held, Zenon
<1>b. p \in Managed => BoundOnce(p)
  BY Held, Zenon
<1>n. NoPod.phase = "none" /\ NoPod.uid = 0 /\ NoPod.deleting = FALSE
  BY Zenon DEF NoPod
<1>a. /\ api[p].uid \in Nat /\ store[p].uid \in Nat /\ pod[p].uid \in Nat
      /\ p \in Managed => exposing[p] \in Nat
      /\ store[p].phase # "inmem"
      /\ pod[p].phase = "inmem" => p \in Managed
  BY Held, Zenon
<1>1. /\ UNCHANGED <<api, watch, store, notify, template, flushing, inMem, exposing, binds, forced>>
      /\ SyncNotMine(p) \/ declined' = declined
  BY Zenon DEF SyncNotMine, SyncDeleting, SyncDone, CallFails, apiVars, boundVars
<1>2. CASE SyncNotMine(p)
  <2>1. timer' = timer /\ pc[p] = "sync"
    BY <1>2, Zenon DEF SyncNotMine
  <2>2. CASE NodeMissing(p)
    BY <1>1, <1>2, <2>2, RequeueHistory, Zenon DEF SyncNotMine
  <2>3. CASE ~NodeMissing(p)
    <3>1. Finish(p) /\ declined' = declined \cup {p}
      BY <1>2, <2>3, Zenon DEF SyncNotMine
    <3>2. QED
      BY <1>1, <2>1, <3>1, TimerSteps, ReturnHistory, Zenon
  <2>4. QED
    BY <2>2, <2>3, Zenon
<1>3. CASE SyncDeleting(p)
  <2>1. /\ Goto(p, "delete", pod[p]) /\ dirty' = dirty /\ delayed' = delayed /\ timer' = timer
        /\ pc[p] = "sync" /\ pod[p].deleting /\ declined' = declined
    BY <1>3, Zenon DEF SyncDeleting, Mine, boundVars
  <2>2. pc'[p] = "delete" /\ pod'[p] = pod[p] /\ (History(p)' => HistoryInv')
    BY <1>1, <2>1, TimerSteps, WorkerSame, Zenon
  <2>3. Ordered(p)' /\ Unborn(p)' /\ Gone(p)'
    <3>0. Ordered(p)'
      BY <1>1, <1>o, Zenon DEF Ordered, Exists
    <3>1. Unborn(p)'
      BY <1>1, <2>1, <1>g, Zenon DEF Unborn, Exposing
    <3>2. Gone(p)'
      BY <1>1, <2>1, <2>2, <1>g, Zenon DEF Exists, Gone, Exposing
    <3>3. QED
      BY <3>0, <3>1, <3>2, Zenon
  <2>4. Copies(p)' /\ Fresh(p)' /\ TimerTracked(p)'
    BY <1>1, <2>1, <2>2, <1>k, <1>f, Zenon DEF Copies, Fresh, TimerTracked
  <2>5. p \in Managed => Cached(p)' /\ Unbound(p)'
    BY <1>1, <2>1, <1>k, <1>c, Zenon DEF Copies, Cached, Unbound
  <2>6. p \in Managed => BoundOnce(p)'
    BY <1>1, <2>1, <2>2, <1>b, Zenon DEF BoundOnce, Untouched, Spent, Exists
  <2>7. QED
    BY <2>2, <2>3, <2>4, <2>5, <2>6, Zenon DEF History
<1>4. CASE SyncDone(p)
  <2>1. /\ Finish(p) /\ pc[p] = "sync" /\ pod[p].phase # "inmem"
        /\ timer' = [timer EXCEPT ![p] = "none"] /\ declined' = declined
    BY <1>4, Zenon DEF SyncDone, Mine, boundVars
  <2>2. TimerOf(p) /\ timer'[p] = "none"
    BY <2>1, TimerSteps, Zenon
  <2>3. QED
    BY <1>1, <2>1, <2>2, ReturnHistory, Zenon
<1>5. CASE CallFails(p)
  BY <1>1, <1>5, RequeueHistory, Zenon DEF CallFails, boundVars
<1>6. QED
  BY <1>2, <1>3, <1>4, <1>5, Zenon


\* The wait.  An in-memory copy without a timer starts the goroutine that
\* creates the pod; a copy that is still pending belongs to an object that is
\* there, since only a worker would have removed it.
LEMMA SyncWaitHistory ==
    ASSUME IInv, HistoryInv, NEW p \in Pods, SyncWait(p)
    PROVE  HistoryInv'
<1>o. Ordered(p)
  BY Held, Zenon
<1>k. Copies(p)
  BY Held, Zenon
<1>f. Fresh(p) /\ TimerTracked(p)
  BY Held, Zenon
<1>g. Unborn(p) /\ Gone(p)
  BY Held, Zenon
<1>c. p \in Managed => Cached(p) /\ Unbound(p)
  BY Held, Zenon
<1>b. p \in Managed => BoundOnce(p)
  BY Held, Zenon
<1>n. NoPod.phase = "none" /\ NoPod.uid = 0 /\ NoPod.deleting = FALSE
  BY Zenon DEF NoPod
<1>a. /\ api[p].uid \in Nat /\ store[p].uid \in Nat /\ pod[p].uid \in Nat
      /\ p \in Managed => exposing[p] \in Nat
      /\ store[p].phase # "inmem"
      /\ pod[p].phase = "inmem" => p \in Managed
  BY Held, Zenon
<1>1. /\ UNCHANGED <<api, watch, store, notify, template, flushing, inMem, binds, forced, declined>>
      /\ pc[p] = "sync" /\ pod[p].phase \in {"pending", "inmem"} /\ ~pod[p].deleting
  BY Zenon DEF SyncWait, Mine, apiVars, boundVars
<1>2. PICK t \in {"running", "due"}, step \in {"idle", "mark"}, copy \in Version :
        /\ timer' = [timer EXCEPT ![p] = t] /\ Goto(p, step, copy) /\ dirty' = dirty
        /\ timer[p] # "none" => t = timer[p]
        /\ step = "idle" => copy = NoPod
        /\ step = "mark" => copy = pod[p] /\ pod[p].phase # "inmem" /\ delayed' = delayed
        /\ \/ step = "idle" /\ delayed' = delayed \cup {p}
           \/ step = "idle" /\ delayed' = delayed /\ pod[p].phase = "inmem"
           \/ step = "mark"
  <2>1. timer[p] \in {"none", "running", "due"}
    BY Zenon DEF HistoryInv
  <2>2. PICK t \in {"running", "due"} :
          /\ timer[p] # "none" => t = timer[p]
          /\ timer' = [timer EXCEPT ![p] = t]
          /\ IF t = "running"
             THEN Goto(p, "idle", NoPod) /\ delayed' = delayed \cup {p} /\ UNCHANGED dirty
             ELSE IF pod[p].phase = "inmem"
                  THEN Finish(p)
                  ELSE Goto(p, "mark", pod[p]) /\ UNCHANGED <<dirty, delayed>>
    BY <2>1, Zenon DEF SyncWait
  <2>3. CASE t = "running"
    BY <2>2, <2>3, AtPod, Zenon
  <2>4. CASE t # "running" /\ pod[p].phase = "inmem"
    BY <2>2, AtPod, Zenon DEF Finish
  <2>5. CASE t # "running" /\ pod[p].phase # "inmem"
    BY <2>2, <2>5, AtPod, Zenon
  <2>6. QED
    BY <2>3, <2>4, <2>5, Zenon
<1>3. /\ exposing' = IF timer[p] = "none" /\ pod[p].phase = "inmem"
                     THEN [exposing EXCEPT ![p] = @ + 1] ELSE exposing
      /\ pod[p].phase = "inmem" => p \in Managed
  BY <1>a, Zenon DEF SyncWait
<1>4. /\ p \in Managed => exposing'[p] = IF timer[p] = "none" /\ pod[p].phase = "inmem"
                                         THEN exposing[p] + 1 ELSE exposing[p]
      /\ \A q \in Managed : q # p => exposing'[q] = exposing[q]
  BY <1>3, Zenon DEF IInv, Types
<1>5. pc'[p] = step /\ pod'[p] = copy /\ timer'[p] = t /\ (History(p)' => HistoryInv')
  <2>1. /\ TimerOf(p) /\ timer'[p] = t
        /\ dirty' \in {dirty, dirty \ {p}} /\ delayed' \in {delayed, delayed \cup {p}}
        /\ Goto(p, step, copy)
    BY <1>2, TimerSteps, Zenon
  <2>2. UNCHANGED <<store, notify, template, flushing, inMem, binds, forced, declined>>
    BY <1>1, Zenon
  <2>3. \A q \in Pods : q # p => api'[q] = api[q] /\ watch'[q] = watch[q]
    BY <1>1, Zenon
  <2>4. QED
    BY <1>4, <2>1, <2>2, <2>3, WorkerSame, Zenon
<1>6. Ordered(p)'
  BY <1>1, <1>o, Zenon DEF Ordered, Exists
<1>7. Copies(p)' /\ Fresh(p)' /\ TimerTracked(p)'
  BY <1>1, <1>2, <1>5, <1>k, <1>f, <1>n, <1>a, Zenon DEF Copies, Fresh, TimerTracked
<1>8. Exposing(p) => Exposing(p)'
  <2>1. p \in Managed => exposing[p] \in Nat
    BY <1>a, Zenon
  <2>2. QED
    BY <1>4, <2>1 DEF Exposing
<1>9. timer[p] = "none" /\ pod[p].phase = "inmem" => Exposing(p)'
  <2>1. p \in Managed => exposing[p] \in Nat
    BY <1>a, Zenon
  <2>2. QED
    BY <1>3, <1>4, <2>1 DEF Exposing
<1>10. Unborn(p)'
  <2>1. api[p].uid = 0 => pod[p].phase = "inmem"
    <3>1. api[p].uid = 0 => store[p].uid = 0 /\ store[p].phase = "none"
      BY <1>o, Zenon DEF Ordered
    <3>2. /\ pod[p].uid \in Nat /\ store[p].uid \in Nat
          /\ \/ pod[p].phase = "inmem"
             \/ pod[p].uid >= 1 /\ pod[p].phase # "none" /\ Precedes(pod[p], store[p])
      BY <1>1, <1>k, <1>a, Zenon DEF Copies
    <3>3. QED
      BY <3>1, <3>2 DEF Precedes
  <2>2. QED
    BY <1>1, <1>8, <1>9, <2>1, <1>g, Zenon DEF Unborn
<1>11. Gone(p)'
  BY <1>1, <1>2, <1>5, <1>8, <1>9, <1>g, Zenon DEF Gone, Exists
<1>12. p \in Managed => Cached(p)' /\ Unbound(p)'
  <2>1. ASSUME p \in Managed, p \notin forced, api[p].uid <= 1, watch[p] = <<>>,
               store[p].phase = "none", pod[p].phase = "inmem"
        PROVE  exposing'[p] > 0
    <3>1. ~Exists(p) /\ (api[p].uid = 0 \/ api[p].uid = 1)
      <4>1. api[p].uid \in Nat
        BY <1>a, Zenon
      <4>2. ~Exists(p)
        BY <2>1, Zenon DEF IInv, Informed, Exists
      <4>3. QED
        BY <2>1, <4>1, <4>2
    <3>2. timer[p] = "none" \/ Exposing(p)
      BY <2>1, <3>1, <1>g, Zenon DEF Unborn, Gone
    <3>3. QED
      BY <1>8, <1>9, <2>1, <3>2, Zenon DEF Exposing
  <2>2. p \in Managed => Cached(p)'
    BY <1>1, <1>2, <1>4, <2>1, <1>c, Zenon DEF Cached
  <2>3. p \in Managed => Unbound(p)'
    BY <1>1, <1>c, Zenon DEF Unbound
  <2>4. QED
    BY <2>2, <2>3, Zenon
<1>13. p \in Managed => BoundOnce(p)'
  <2> SUFFICES ASSUME p \in Managed, Untouched(p) PROVE BoundOnce(p)'
    BY <1>1, Zenon DEF BoundOnce, Untouched
  <2>1. BoundOnce(p) /\ exposing[p] \in Nat /\ api[p].uid \in Nat
    BY <1>a, <1>b, Zenon
  <2>2. timer[p] = "none" /\ pod[p].phase = "inmem" => api[p].uid = 0 /\ exposing[p] = 0
    BY <2>1 DEF BoundOnce, Spent
  <2>3. api[p].uid + exposing'[p] <= 1
    <3>1. api[p].uid + exposing[p] <= 1
      BY <2>1, Zenon DEF BoundOnce
    <3>2. QED
      BY <1>4, <2>1, <2>2, <3>1
  <2>4. timer'[p] # "none" /\ pod'[p].phase # "inmem"
    BY <1>2, <1>5, <1>n, Zenon
  <2>5. p \notin dirty /\ p \notin delayed
    BY <1>1, <2>1, Zenon DEF BoundOnce
  <2>6. ~(api[p].uid = 1 /\ ~Exists(p))
    <3>1. api[p].uid = 1 => Spent(p)
      BY <2>1 DEF Spent
    <3>2. QED
      BY <1>1, <2>1, <3>1, Zenon DEF BoundOnce
  <2>7. QED
    BY <1>1, <1>2, <1>5, <2>1, <2>3, <2>4, <2>5, <2>6, Zenon DEF BoundOnce, Untouched, Exists
<1>14. QED
  BY <1>5, <1>6, <1>7, <1>10, <1>11, <1>12, <1>13, Zenon DEF History

\* The calls that write.  DeletePod is the only removal of an object whose
\* removal is not forced; the store has shown the object as deleting by then.
LEMMA CallHistory ==
    ASSUME IInv, HistoryInv, NEW p \in Pods, DeletePod(p) \/ MarkReady(p)
    PROVE  HistoryInv'
<1>o. Ordered(p)
  BY Held, Zenon
<1>k. Copies(p)
  BY Held, Zenon
<1>f. Fresh(p) /\ TimerTracked(p)
  BY Held, Zenon
<1>g. Unborn(p) /\ Gone(p)
  BY Held, Zenon
<1>c. p \in Managed => Cached(p) /\ Unbound(p)
  BY Held, Zenon
<1>b. p \in Managed => BoundOnce(p)
  BY Held, Zenon
<1>n. NoPod.phase = "none" /\ NoPod.uid = 0 /\ NoPod.deleting = FALSE
  BY Zenon DEF NoPod
<1>a. /\ api[p].uid \in Nat /\ store[p].uid \in Nat /\ pod[p].uid \in Nat
      /\ p \in Managed => exposing[p] \in Nat
      /\ store[p].phase # "inmem"
      /\ pod[p].phase = "inmem" => p \in Managed
  BY Held, Zenon
<1>1. /\ Finish(p) /\ Goto(p, "idle", NoPod) /\ dirty' = dirty /\ delayed' = delayed
      /\ UNCHANGED <<store, notify, template, flushing, inMem, exposing, binds, forced, declined>>
  BY Zenon DEF DeletePod, MarkReady, Finish, Write, apiVars, boundVars
<1>2. CASE DeletePod(p)
  <2>1. pc[p] = "delete" /\ TimerOf(p) /\ timer'[p] = "none"
    BY <1>2, TimerSteps, Zenon DEF DeletePod
  <2>2. pod[p].phase # "inmem" /\ pod[p].deleting
    BY <2>1, <1>k, Zenon DEF Copies
  <2>3. CASE ~Exists(p)
    BY <1>1, <1>2, <2>1, <2>2, <2>3, ReturnHistory, Zenon DEF DeletePod, apiVars
  <2>4. CASE Exists(p)
    <3>1. /\ Write(p, Removed(p)) /\ Removed(p) \in ApiVersion /\ Removed(p).uid >= 1
          /\ Removed(p).uid = api[p].uid /\ Removed(p).phase = "none" /\ api[p].uid >= 1
          /\ Precedes(api[p], Removed(p))
      <4>1. /\ Removed(p).uid = api[p].uid /\ Removed(p).phase = "none" /\ api[p].uid >= 1
            /\ Precedes(api[p], Removed(p))
        BY <2>4, <1>o, LaterVersions, Zenon
      <4>2. Removed(p) \in ApiVersion
        BY OtherVersions, Zenon
      <4>3. Write(p, Removed(p))
        BY <1>2, <2>4, Zenon DEF DeletePod
      <4>4. QED
        BY <4>1, <4>2, <4>3, Zenon
    <3>2. Ordered(p)' /\ api'[p] = Removed(p) /\ watch'[p] # <<>>
      BY <3>1, <1>o, WriteOrdered, Zenon
    <3>3. \A q \in Pods : q # p => api'[q] = api[q] /\ watch'[q] = watch[q]
      BY <3>1 DEF Write
    <3>4. pc'[p] = "idle" /\ pod'[p] = NoPod /\ (History(p)' => HistoryInv')
      BY <1>1, <2>1, <3>3, WorkerSame, Zenon
    <3>5. Copies(p)' /\ Fresh(p)' /\ TimerTracked(p)' /\ Unborn(p)'
      BY <2>1, <3>4, <1>n, Zenon DEF Copies, Fresh, TimerTracked, Unborn
    <3>6. Gone(p)'
      <4>1. Precedes(pod[p], store[p]) /\ pod[p].uid >= 1
        BY <2>1, <1>k, Zenon DEF Copies
      <4>2. Precedes(store[p], api[p])
        BY <1>o, Zenon DEF Ordered
      <4>3. api[p].uid \in Nat /\ store[p].uid \in Nat /\ pod[p].uid \in Nat
        BY <1>a, Zenon
      <4>4. api[p].uid = 1 => store[p].uid = 1 /\ (store[p].phase = "none" \/ store[p].deleting)
        BY <2>2, <4>1, <4>2, <4>3 DEF Precedes
      <4>5. QED
        BY <1>1, <2>1, <3>1, <3>2, <3>4, <4>4, Zenon DEF Gone
    <3>7. p \in Managed => Cached(p)' /\ Unbound(p)'
      BY <1>1, <3>1, <3>2, <1>c DEF Cached, Unbound
    <3>8. p \in Managed => BoundOnce(p)'
      BY <1>1, <2>1, <3>1, <3>2, <3>4, <1>b, <1>n, Zenon DEF BoundOnce, Untouched
    <3>9. QED
      BY <3>2, <3>4, <3>5, <3>6, <3>7, <3>8, Zenon DEF History
  <2>5. QED
    BY <2>3, <2>4, Zenon
<1>3. CASE MarkReady(p)
  <2> DEFINE v == [api[p] EXCEPT !.phase = "ready"]
  <2>1. /\ pc[p] = "mark" /\ Exists(p) /\ Write(p, v) /\ TimerOf(p) /\ timer'[p] = timer[p]
    BY <1>3, TimerSteps, Zenon DEF MarkReady, Accepted
  <2>2. /\ v \in ApiVersion /\ v.uid = api[p].uid /\ v.phase = "ready" /\ Precedes(api[p], v)
        /\ api[p].uid >= 1
    <3>1. "ready" \in Phases \ {"none"}
      BY Zenon DEF Phases
    <3>2. v \in ApiVersion
      BY OtherVersions, Zenon
    <3>3. /\ v.uid = api[p].uid /\ v.phase = "ready" /\ Precedes(api[p], v) /\ api[p].uid >= 1
      BY <2>1, <3>1, <1>o, LaterVersions, Zenon
    <3>4. QED
      BY <3>2, <3>3, Zenon
  <2> HIDE DEF v
  <2>3. Ordered(p)' /\ api'[p] = v /\ watch'[p] # <<>>
    BY <2>1, <2>2, <1>o, WriteOrdered, Zenon
  <2>4. \A q \in Pods : q # p => api'[q] = api[q] /\ watch'[q] = watch[q]
    BY <2>1 DEF Write
  <2>5. pc'[p] = "idle" /\ pod'[p] = NoPod /\ (History(p)' => HistoryInv')
    BY <1>1, <2>1, <2>4, WorkerSame, Zenon
  <2>6. Copies(p)' /\ Fresh(p)' /\ TimerTracked(p)'
    BY <2>3, <2>5, <1>n, Zenon DEF Copies, Fresh, TimerTracked
  <2>7. Unborn(p)' /\ Gone(p)'
    BY <2>2, <2>3 DEF Unborn, Gone, Exists
  <2>8. p \in Managed => Cached(p)' /\ Unbound(p)'
    BY <1>1, <2>2, <2>3, <1>c DEF Cached, Unbound
  <2>9. p \in Managed => BoundOnce(p)'
    BY <1>1, <2>1, <2>2, <2>3, <2>5, <1>b, <1>n, Zenon DEF BoundOnce, Untouched, Exists
  <2>10. QED
    BY <2>3, <2>5, <2>6, <2>7, <2>8, <2>9, Zenon DEF History
<1>4. QED
  BY <1>2, <1>3, Zenon

----------------------------------------------------------------------------
\* BindPod, and the answer to a goroutine of ExposeManagedPod.
LEMMA ManagedHistory ==
    ASSUME IInv, HistoryInv, NEW p \in Managed, BindPod(p) \/ Expose(p)
    PROVE  HistoryInv'
<1>1. /\ p \in Pods /\ exposing[p] \in Nat /\ binds[p] \in Nat /\ api[p].uid \in Nat
      /\ History(p) /\ Ordered(p) /\ Cached(p) /\ Unbound(p) /\ BoundOnce(p)
  <2>1. p \in Pods
    BY Zenon DEF Pods
  <2>2. QED
    BY <2>1, Held, Zenon
<1>2. /\ UNCHANGED <<store, notify, template, flushing, timer, delayed, pc, pod, forced, declined>>
      /\ timer' \in [Pods -> {"none", "running", "due"}]
  BY Zenon DEF BindPod, Expose, Write, apiVars, queueVars, boundVars, HistoryInv
<1>3. CASE BindPod(p)
  <2>1. /\ inMem' = inMem \cup {p} /\ dirty' = (IF p \in inMem THEN dirty ELSE dirty \cup {p})
        /\ binds' = [binds EXCEPT ![p] = binds[p] + 1]
        /\ UNCHANGED <<api, watch, exposing>>
    BY <1>3, Zenon DEF BindPod, apiVars
  <2>2. /\ binds'[p] = binds[p] + 1 /\ binds' \in [Managed -> Nat]
        /\ \A q \in Managed : q # p => binds'[q] = binds[q]
    BY <2>1 DEF HistoryInv
  <2>3. \A q \in Pods : q # p => Same(q)
    BY <1>2, <2>1 DEF Same
  <2>4. Ordered(p)' /\ Copies(p)' /\ Unborn(p)' /\ Gone(p)'
    <3>1. Ordered(p)'
      BY <1>1, <1>2, <2>1, Zenon DEF Ordered, Exists
    <3>2. Copies(p)' /\ Unborn(p)' /\ Gone(p)'
      BY <1>1, <1>2, <2>1, Zenon DEF History, Copies, Exists, Unborn, Gone, Exposing
    <3>3. QED
      BY <3>1, <3>2, Zenon
  <2>5. Fresh(p)' /\ TimerTracked(p)'
    BY <1>1, <1>2, <2>1, Zenon DEF History, Fresh, TimerTracked
  <2>6. Cached(p)' /\ Unbound(p)'
    BY <1>1, <1>2, <2>1, <2>2 DEF Cached, Unbound
  <2>7. BoundOnce(p)'
    <3>1. CASE binds[p] = 0
      <4>1. /\ api'[p].uid = 0 /\ exposing'[p] = 0 /\ p \notin delayed' /\ pc'[p] = "idle"
            /\ pod'[p].phase # "inmem"
        BY <1>1, <1>2, <2>1, <3>1, Zenon DEF Unbound
      <4>2. ~Spent(p)'
        BY <4>1 DEF Spent
      <4>3. QED
        BY <4>1, <4>2 DEF BoundOnce, Untouched
    <3>2. CASE binds[p] # 0
      BY <1>1, <2>2, <3>2 DEF BoundOnce, Untouched
    <3>3. QED
      BY <3>1, <3>2, Zenon
  <2>8. QED
    BY <1>1, <1>2, <2>2, <2>3, <2>4, <2>5, <2>6, <2>7, OnlyPod, Zenon DEF History
<1>4. CASE Expose(p)
  <2>1. /\ exposing[p] > 0 /\ exposing' = [exposing EXCEPT ![p] = exposing[p] - 1]
        /\ UNCHANGED <<inMem, dirty, binds>>
    BY <1>4, Zenon DEF Expose, queueVars, boundVars
  <2>2. /\ exposing'[p] = exposing[p] - 1 /\ binds' \in [Managed -> Nat]
        /\ \A q \in Managed : q # p => exposing'[q] = exposing[q]
    BY <2>1, Zenon DEF IInv, Types, HistoryInv
  <2>3. CASE Exists(p)
    <3>1. UNCHANGED <<api, watch>>
      BY <1>4, <2>3, Zenon DEF Expose, apiVars
    <3>2. \A q \in Pods : q # p => Same(q)
      BY <1>2, <2>1, <3>1 DEF Same
    <3>3. api[p].uid >= 1
      BY <1>1, <2>3, LaterVersions, Zenon
    <3>4. Ordered(p)' /\ Copies(p)' /\ Fresh(p)' /\ TimerTracked(p)'
      <4>1. Ordered(p)'
        BY <1>1, <1>2, <3>1, Zenon DEF Ordered, Exists
      <4>2. Copies(p)' /\ Fresh(p)' /\ TimerTracked(p)'
        BY <1>1, <1>2, <2>1, <3>1, Zenon DEF History, Copies, Fresh, TimerTracked
      <4>3. QED
        BY <4>1, <4>2, Zenon
    <3>5. Unborn(p)' /\ Gone(p)'
      BY <2>3, <3>1, <3>3 DEF Unborn, Gone, Exists
    <3>6. Cached(p)'
      BY <1>1, <2>3, <3>1, <1>2, Zenon DEF IInv, Informed, Cached, Exists
    <3>7. Unbound(p)'
      BY <1>1, <2>1 DEF Unbound
    <3>8. BoundOnce(p)'
      <4>1. ~Untouched(p)
        BY <1>1, <2>1, <3>3 DEF BoundOnce
      <4>2. QED
        BY <1>2, <2>1, <4>1, Zenon DEF BoundOnce, Untouched
    <3>9. QED
      BY <1>1, <1>2, <2>2, <3>2, <3>4, <3>5, <3>6, <3>7, <3>8, OnlyPod, Zenon DEF History
  <2>4. CASE ~Exists(p)
    <3>1. /\ Write(p, Created(p)) /\ Created(p) \in ApiVersion /\ Precedes(api[p], Created(p))
          /\ Created(p).uid = api[p].uid + 1 /\ Created(p).phase = "pending"
      BY <1>1, <1>4, <2>4, OtherVersions, LaterVersions, Zenon DEF Expose
    <3>2. Created(p).uid >= 1
      BY <1>1, <3>1
    <3>3. Ordered(p)' /\ api'[p] = Created(p) /\ watch'[p] # <<>>
      BY <1>1, <3>1, WriteOrdered
    <3>4. \A q \in Pods : q # p => Same(q)
      BY <1>2, <2>1, <3>1 DEF Same, Write
    <3>5. Copies(p)' /\ Fresh(p)' /\ TimerTracked(p)'
      BY <1>1, <1>2, <2>1, <3>3, Zenon DEF History, Copies, Fresh, TimerTracked
    <3>6. Unborn(p)' /\ Gone(p)' /\ Cached(p)'
      BY <3>1, <3>2, <3>3 DEF Unborn, Gone, Cached, Exists
    <3>7. Unbound(p)'
      BY <1>1, <2>1 DEF Unbound
    <3>8. BoundOnce(p)'
      BY <1>1, <1>2, <2>1, <2>2, <3>1, <3>3 DEF BoundOnce, Untouched, Spent, Exists
    <3>9. QED
      BY <1>1, <1>2, <2>2, <3>3, <3>4, <3>5, <3>6, <3>7, <3>8, OnlyPod, Zenon DEF History
  <2>5. QED
    BY <2>3, <2>4, Zenon
<1>5. QED
  BY <1>3, <1>4, Zenon

\* The ready timer and the work queue's delay: nobody but time is involved.
LEMMA TimeHistory ==
    ASSUME IInv, HistoryInv, NEW p \in Pods, TimerElapses(p) \/ DelayElapses(p)
    PROVE  HistoryInv'
<1>1. UNCHANGED <<api, watch, store, notify, template, flushing, inMem, pc, pod, exposing, binds,
                  forced, declined>>
  BY Zenon DEF TimerElapses, DelayElapses, apiVars, queueVars, boundVars
<1>2. /\ TimerOf(p) /\ (timer'[p] = "none" <=> timer[p] = "none")
      /\ p \in dirty \cup delayed <=> p \in dirty' \cup delayed'
      /\ \A q \in Pods : q # p =>
            (q \in dirty' <=> q \in dirty) /\ (q \in delayed' <=> q \in delayed)
      /\ p \in delayed' => p \in delayed
      /\ p \in dirty' => (p \in dirty /\ delayed' = delayed) \/ (p \in delayed /\ p \notin delayed')
  <2>1. CASE TimerElapses(p)
    <3>1. /\ timer' = [timer EXCEPT ![p] = "due"] /\ timer[p] = "running"
          /\ UNCHANGED <<dirty, delayed>>
      BY <2>1, Zenon DEF TimerElapses, queueVars
    <3>2. TimerOf(p) /\ timer'[p] = "due"
      BY <3>1, TimerSteps, Zenon
    <3>3. QED
      BY <3>1, <3>2, Zenon
  <2>2. CASE DelayElapses(p)
    <3>1. /\ timer' = timer /\ p \in delayed /\ delayed' = delayed \ {p}
          /\ dirty' = dirty \cup {p}
      BY <2>2, Zenon DEF DelayElapses
    <3>2. TimerOf(p) /\ timer'[p] = timer[p]
      BY <3>1, TimerSteps, Zenon
    <3>3. QED
      BY <3>1, <3>2, Zenon
  <2>3. QED
    BY <2>1, <2>2, Zenon
<1>3. \A q \in Pods : q # p => Same(q)
  BY <1>1, <1>2, Zenon DEF Same, TimerOf
<1>4. History(p) /\ Ordered(p)
  BY Held, Zenon
<1>5. Ordered(p)'
  BY <1>1, <1>4, Zenon DEF Ordered, Exists
<1>6. Copies(p)' /\ Fresh(p)' /\ TimerTracked(p)'
  BY <1>1, <1>2, <1>4, Zenon DEF History, Copies, Fresh, TimerTracked
<1>7. Unborn(p)' /\ Gone(p)'
  BY <1>1, <1>2, <1>4, Zenon DEF History, Unborn, Gone, Exists, Exposing
<1>8. p \in Managed => Cached(p)' /\ Unbound(p)'
  BY <1>1, <1>2, <1>4, Zenon DEF History, Cached, Unbound
<1>9. p \in Managed => BoundOnce(p)'
  <2> SUFFICES ASSUME p \in Managed, Untouched(p) PROVE BoundOnce(p)'
    BY <1>1, Zenon DEF BoundOnce, Untouched
  <2>1. BoundOnce(p)
    BY <1>4, Zenon DEF History
  <2>2. /\ p \in dirty' => p \notin delayed' /\ pc[p] = "idle"
        /\ p \in delayed' => pc[p] = "idle"
    BY <1>2, <2>1, Zenon DEF BoundOnce
  <2>3. p \notin dirty \cup delayed => p \notin dirty' \cup delayed'
    BY <1>2, Zenon
  <2>4. QED
    BY <1>1, <1>2, <2>1, <2>2, <2>3, Zenon DEF BoundOnce, Spent, Exists
<1>10. QED
  BY <1>1, <1>2, <1>3, <1>5, <1>6, <1>7, <1>8, <1>9, OnlyPod, Zenon DEF History, TimerOf, HistoryInv

\* Steps that concern no pod.
LEMMA OtherHistory ==
    ASSUME HistoryInv, template' => template,
           UNCHANGED <<api, watch, store, notify, flushing, inMem, timer, dirty, delayed, pc, pod,
                       exposing, binds, forced, declined>>
    PROVE  HistoryInv'
<1>1. \A q \in Pods : Same(q)
  BY Zenon DEF Same
<1>2. QED
  BY <1>1, SameKeeps, Zenon DEF HistoryInv

\* A new process knows nothing but the pods it lists.
LEMMA RestartHistory ==
    ASSUME IInv, HistoryInv, Restart
    PROVE  HistoryInv'
<1>1. NoPod.phase = "none" /\ NoPod.uid = 0
  BY Zenon DEF NoPod
<1>2. timer' \in [Pods -> {"none", "running", "due"}] /\ binds' \in [Managed -> Nat]
  BY Zenon DEF Restart, HistoryInv
<1>3. ASSUME NEW p \in Pods PROVE History(p)'
  <2>1. /\ watch'[p] = <<>> /\ store'[p] = api[p] /\ api' = api
        /\ timer'[p] = "none" /\ pc'[p] = "idle" /\ pod'[p] = NoPod
        /\ inMem' = {} /\ dirty' = {} /\ delayed' = {} /\ flushing' = {} /\ binds' = binds
        /\ forced' = forced
        /\ p \in Managed => exposing'[p] = 0
    BY Zenon DEF Restart
  <2>2. notify'[p] = IF Exists(p) THEN <<"set">> ELSE <<>>
    BY Zenon DEF Restart
  <2>3. Ordered(p) /\ History(p) /\ api[p].uid \in Nat /\ (p \in Managed => exposing[p] \in Nat)
    BY Held, Zenon
  <2>4. Precedes(api[p], api[p])
    BY Zenon DEF Precedes
  <2>5. \A i \in 1 .. Len(notify'[p]) : notify'[p][i] # "delete"
    <3>1. CASE Exists(p)
      BY <2>2
    <3>2. CASE ~Exists(p)
      BY <2>2
    <3>3. QED
      BY <3>1, <3>2, Zenon
  <2>6. ~Exists(p) => notify'[p] = <<>>
    BY <2>2, Zenon
  <2>7. \A i \in 1 .. Len(watch'[p]) : FALSE
    BY <2>1
  <2>8. Ordered(p)'
    BY <2>1, <2>3, <2>4, <2>5, <2>6 DEF Ordered, Exists
  <2>9. Copies(p)' /\ Fresh(p)' /\ TimerTracked(p)' /\ Unborn(p)'
    BY <1>1, <2>1, Zenon DEF Copies, Fresh, TimerTracked, Unborn
  <2>10. Gone(p)'
    BY <2>1, Zenon DEF Gone, Exists
  <2>11. p \in Managed => Cached(p)' /\ Unbound(p)'
    BY <1>1, <2>1, <2>3, Zenon DEF History, Cached, Unbound
  <2>12. p \in Managed => BoundOnce(p)'
    BY <1>1, <2>1, <2>3 DEF History, BoundOnce, Untouched
  <2>13. QED
    BY <2>8, <2>9, <2>10, <2>11, <2>12, Zenon DEF History
<1>4. QED
  BY <1>2, <1>3, Zenon DEF HistoryInv

\* The invariant is inductive, with IInv.
LEMMA NextHistoryInv == IInv /\ HistoryInv /\ [Next]_vars => HistoryInv'
<1> SUFFICES ASSUME IInv, HistoryInv, [Next]_vars PROVE HistoryInv'
  BY Zenon
<1>1. CASE DeleteTemplate
  BY <1>1, OtherHistory, Zenon DEF DeleteTemplate, queueVars, boundVars
<1>2. ASSUME NEW n, DeleteNode(n) \/ AddNode(n) \/ Handshake(n) \/ UpdateNode PROVE HistoryInv'
  <2>1. UNCHANGED <<api, watch, store, notify, flushing, template, inMem, timer, dirty, delayed,
                    pc, pod, exposing, binds, forced, declined>>
    BY <1>2, Zenon
       DEF DeleteNode, AddNode, Handshake, UpdateNode, apiVars, queueVars, boundVars
  <2>2. QED
    BY <2>1, OtherHistory, Zenon
<1>3. ASSUME NEW p \in Pods, NilClient(p) PROVE HistoryInv'
  BY <1>3, OtherHistory, Zenon DEF NilClient, apiVars, queueVars, boundVars
<1>4. CASE UNCHANGED vars
  BY <1>4, OtherHistory, Zenon DEF vars, apiVars, queueVars, boundVars
<1>5. ASSUME NEW p \in Pods, Worker(p) PROVE HistoryInv'
  BY <1>5, LookupHistory, SyncHistory, SyncWaitHistory, CallHistory, Zenon DEF Worker
<1>6. QED
  BY <1>1, <1>2, <1>3, <1>4, <1>5, OthersWriteHistory, StoreUpdateHistory, HandlePodEventHistory,
     FlushCacheHistory, ManagedHistory, LookupHistory, TimeHistory, RestartHistory, Zenon
     DEF Next, Pods

----------------------------------------------------------------------------
\* Every step keeps what is known of each pod's past.
THEOREM HistoryInvariance == Spec => []HistoryInv
  BY InitHistoryInv, NextHistoryInv, IInvariance, PTL DEF Spec

(***************************************************************************)
(* A pod that was bound once and is gone is taken from the in-memory cache *)
(* again only while handlePodEvent is between queue.Add and inMemCache.Del *)
(* (kubelet.go:212 and 220).  Before its first event, the BindPod has put  *)
(* the pod into the queue once, and the worker that removed the object had *)
(* taken it out; after the deletion from the cache there is nothing left   *)
(* to take.                                                                *)
(***************************************************************************)
THEOREM RevivalsAreFlushed == Spec => RevivedOnlyWhileFlushing
<1>1. ASSUME IInv, HistoryInv, NEW p \in Managed \ forced, FromCache(p), pc'[p] = "sync",
             binds[p] <= 1, api[p].uid > 0, ~Exists(p)
      PROVE  p \in flushing
  <2>1. p \in Pods
    BY Zenon DEF Pods
  <2>2. /\ binds[p] \in Nat /\ exposing[p] \in Nat /\ api[p].uid \in Nat
        /\ Unbound(p) /\ BoundOnce(p)
    BY <1>1, <2>1, Held, Zenon
  <2>3. pc[p] = "fromCache" /\ p \in inMem
    <3>1. ~(p \in inMem /\ template) => pc'[p] = "idle"
      BY <1>1, <2>1, Zenon DEF FromCache, Finish, Goto, IInv, Types
    <3>2. QED
      BY <1>1, <3>1, Zenon DEF FromCache
  <2>4. binds[p] = 1
    <3>1. binds[p] # 0
      BY <2>2, <2>3, Zenon DEF Unbound
    <3>2. QED
      BY <1>1, <2>2, <3>1
  <2>5. SUFFICES ASSUME Untouched(p) PROVE FALSE
    BY <1>1, <2>3, <2>4, Zenon DEF Untouched
  <2>6. api[p].uid = 1 /\ Spent(p)
    <3>1. api[p].uid + exposing[p] <= 1
      BY <2>2, <2>5, Zenon DEF BoundOnce
    <3>2. QED
      BY <1>1, <2>2, <3>1 DEF Spent
  <2>7. QED
    BY <1>1, <2>2, <2>3, <2>5, <2>6, Zenon DEF BoundOnce
<1>2. IInv /\ HistoryInv /\ [Next]_vars =>
          [\A p \in Managed \ forced :
              FromCache(p) /\ pc'[p] = "sync" /\ binds[p] <= 1 /\ api[p].uid > 0 /\ ~Exists(p)
                  => p \in flushing]_vars
  BY <1>1, Zenon
<1>3. QED
  BY <1>2, IInvariance, HistoryInvariance, PTL DEF Spec, RevivedOnlyWhileFlushing

(***************************************************************************)
(* readyTimers holds no entry of a pod of this kubelet once everything     *)
(* about it is done: SyncPod, or else the handler of the removal, deleted  *)
(* it, and no worker with an older copy creates it again.                  *)
(***************************************************************************)
THEOREM NoTimerIsLeft == Spec => []TimersCleared
<1>1. IInv /\ HistoryInv => TimersCleared
  <2> SUFFICES ASSUME IInv, HistoryInv, NEW p \in Pods \ (forced \cup declined),
                      Quiet(p), api[p].uid <= 1
               PROVE  timer[p] = "none"
    BY Zenon DEF TimersCleared
  <2>1. History(p) /\ api[p].uid \in Nat /\ store[p] = api[p]
    BY Held, Zenon DEF IInv, Informed, Quiet
  <2>2. CASE Exists(p)
    BY <2>1, <2>2, Zenon DEF History, TimerTracked, Quiet, Exists
  <2>3. CASE ~Exists(p) /\ api[p].uid = 0
    BY <2>1, <2>3, Zenon DEF History, Unborn, Quiet
  <2>4. CASE ~Exists(p) /\ api[p].uid = 1
    BY <2>1, <2>4, Zenon DEF History, Gone, Quiet
  <2>5. QED
    BY <2>1, <2>2, <2>3, <2>4
<1>2. QED
  BY <1>1, IInvariance, HistoryInvariance, PTL

(***************************************************************************)
(* inMemCache keeps no pod that is still to be exposed when the kubelet    *)
(* rests (BindPod, handlePodEvent and the cache lookup of SyncPod), unless *)
(* the template is gone.                                                   *)
(***************************************************************************)
THEOREM CacheIsDrained == Spec => []InMemIsTransient
<1>1. IInv /\ HistoryInv => InMemIsTransient
  <2> SUFFICES ASSUME IInv, HistoryInv, NEW p \in Managed \ (forced \cup declined), template,
                      api[p].uid <= 1, Quiet(p), p \in inMem
               PROVE  Exists(p) /\ binds[p] > 1
    BY Zenon DEF InMemIsTransient
  <2>1. p \in Pods
    BY Zenon DEF Pods
  <2>2. /\ History(p) /\ Ordered(p) /\ Copies(p) /\ Cached(p) /\ Unbound(p) /\ BoundOnce(p)
        /\ binds[p] \in Nat /\ api[p].uid \in Nat /\ NoPod.phase = "none"
    BY <2>1, Held, Zenon
  <2>3. store[p] = api[p] /\ pc[p] = "idle" /\ pod[p] = NoPod
    BY <2>1, <2>2, Zenon DEF IInv, Informed, Quiet, Copies
  <2>4. Exists(p)
    BY <2>2, <2>3, Zenon DEF Cached, Quiet, Exposing, Exists
  <2>5. api[p].uid = 1
    BY <2>2, <2>4 DEF Ordered
  <2>6. binds[p] # 0
    BY <2>2, Zenon DEF Unbound
  <2>7. binds[p] # 1
    BY <2>2, <2>5, Zenon DEF BoundOnce, Untouched, Quiet
  <2>8. QED
    BY <2>2, <2>4, <2>6, <2>7
<1>2. QED
  BY <1>1, IInvariance, HistoryInvariance, PTL

(***************************************************************************)
(* The delete branch of SyncPod removes only an object whose deletion was  *)
(* requested, if it is the first of its name: the worker's copy is a       *)
(* version of it, and no version loses the deletion mark.                  *)
(***************************************************************************)
THEOREM DeletionsAreRequested == Spec => OnlyRequestedDeletions
<1>1. ASSUME IInv, HistoryInv, NEW p \in Pods, DeletePod(p), Exists(p), api[p].uid = 1
      PROVE  api[p].deleting
  <2>1. pc[p] = "delete"
    BY <1>1, Zenon DEF DeletePod
  <2>2. pod[p].deleting /\ pod[p].uid >= 1 /\ Precedes(pod[p], store[p])
    BY <1>1, <2>1, Held, Zenon DEF Copies
  <2>3. Precedes(store[p], api[p])
    BY <1>1, Held, Zenon DEF Ordered
  <2>4. pod[p].uid \in Nat /\ store[p].uid \in Nat
    BY <1>1, Held, Zenon
  <2>5. QED
    BY <1>1, <2>2, <2>3, <2>4 DEF Precedes, Exists
<1>2. IInv /\ HistoryInv /\ [Next]_vars =>
          [\A p \in Pods : DeletePod(p) /\ Exists(p) /\ api[p].uid = 1 => api[p].deleting]_vars
  BY <1>1, Zenon
<1>3. QED
  BY <1>2, IInvariance, HistoryInvariance, PTL DEF Spec, OnlyRequestedDeletions
=============================================================================
