-------------------------- MODULE AutoscalerProofs --------------------------
(***************************************************************************)
(* Proofs about Autoscaler, for all sets of targets and workers and all    *)
(* bounds.                                                                 *)
(*                                                                         *)
(* That a target is in the hands of one worker rests on the work queue:    *)
(* what is queued is not being processed (Queued), and what a worker holds *)
(* is (Held).  That a decision is current when it is applied rests on both *)
(* (Current).                                                              *)
(***************************************************************************)
EXTENDS Autoscaler, SequenceTheorems, TLAPS

\* The types of the state the argument is about.
Types ==
    /\ queue \in Seq(Keys)
    /\ dirty \subseteq Keys
    /\ processing \subseteq Keys
    /\ worker \in [Workers ->
          [pc : {"idle", "get", "observe", "store", "compare", "update"},
           key : Keys \cup {NoKey}, nReady : Scales, desired : Scales]]
    /\ desiredScale \in [Keys -> Scales]
    /\ replicas \in [Keys -> Scales]
    /\ ready \in [Keys -> Scales]

\* A queued target is dirty, queued once, and not being processed.
Queued ==
    /\ \A i \in 1..Len(queue) : queue[i] \in dirty /\ queue[i] \notin processing
    /\ \A i, j \in 1..Len(queue) : i # j => queue[i] # queue[j]

\* The target of a busy worker is being processed.
Held == \A w \in Workers : Busy(w) => worker[w].key \in processing

\* Once stored, a worker's decision is the decider's.
Current ==
    \A w \in Workers :
        worker[w].pc \in {"compare", "update"} =>
            desiredScale[worker[w].key] = worker[w].desired

IInv == Types /\ Queued /\ Held /\ OneScalePerTarget /\ Current

----------------------------------------------------------------------------
\* The workqueue's Add keeps the queue in order.
LEMMA AddQueued ==
    ASSUME NEW k \in Keys, Types, Queued, Add(k)
    PROVE  queue' \in Seq(Keys) /\ dirty' \subseteq Keys /\ processing' = processing /\ Queued'
<1> USE DEF Types, Queued, Add
<1>1. CASE k \in dirty \cup processing
  BY <1>1
<1>2. CASE k \notin dirty \cup processing
  <2>1. queue' = Append(queue, k) /\ Len(queue') = Len(queue) + 1
    BY <1>2
  <2>2. \A i \in 1..Len(queue) : queue'[i] = queue[i]
    BY <2>1
  <2>3. queue'[Len(queue) + 1] = k
    BY <2>1
  <2>4. QED
    BY <1>2, <2>1, <2>2, <2>3
<1>3. QED
  BY <1>1, <1>2

\* Its Get hands out a target that nobody processes.
LEMMA GetQueued ==
    ASSUME NEW k \in Keys, Types, Queued, GetNext(k)
    PROVE  /\ queue' \in Seq(Keys) /\ dirty' \subseteq Keys /\ Queued'
           /\ processing' = processing \cup {k}
           /\ k \notin processing
<1> USE DEF Types, Queued, GetNext
<1>1. k = queue[1] /\ 1 \in 1..Len(queue)
  OBVIOUS
<1>2. queue' = Tail(queue) /\ queue' \in Seq(Keys) /\ Len(queue') = Len(queue) - 1
  OBVIOUS
<1>3. \A i \in 1..Len(queue') : i + 1 \in 1..Len(queue) /\ queue'[i] = queue[i + 1]
  BY <1>2
<1>4. \A i \in 1..Len(queue') : queue'[i] # k
  BY <1>1, <1>2, <1>3
<1>5. \A i, j \in 1..Len(queue') : i # j => queue'[i] # queue'[j]
  BY <1>2, <1>3
<1>6. QED
  BY <1>1, <1>2, <1>3, <1>4, <1>5

\* Its Done gives a target back, to the queue if it was added meanwhile.
LEMMA DoneQueued ==
    ASSUME NEW k \in processing, Types, Queued, Done(k)
    PROVE  /\ queue' \in Seq(Keys) /\ dirty' \subseteq Keys /\ Queued'
           /\ processing' = processing \ {k}
<1> USE DEF Types, Queued, Done
<1>1. CASE k \notin dirty
  BY <1>1
<1>2. CASE k \in dirty
  <2>1. queue' = Append(queue, k) /\ Len(queue') = Len(queue) + 1 /\ queue' \in Seq(Keys)
    BY <1>2
  <2>2. \A i \in 1..Len(queue) : queue'[i] = queue[i] /\ queue[i] # k
    BY <2>1
  <2>3. queue'[Len(queue) + 1] = k
    BY <2>1
  <2>4. QED
    BY <1>2, <2>1, <2>2, <2>3
<1>3. QED
  BY <1>1, <1>2

----------------------------------------------------------------------------
\* Nothing is queued or decided when Run returns.
LEMMA InitIInv == Init => IInv
<1> SUFFICES ASSUME Init PROVE IInv
  OBVIOUS
<1> USE AutoscalerAssumption DEF Init
<1>1. Types
  BY DEF Types, Scales, Idle
<1>2. Queued /\ Held /\ OneScalePerTarget /\ Current
  BY DEF Queued, Held, OneScalePerTarget, Current, Busy, Idle
<1>3. QED
  BY <1>1, <1>2 DEF IInv

\* A step that leaves the workers, the decisions and what is processed alone.
LEMMA QueueStep ==
    ASSUME IInv, Types', Queued', processing' = processing,
           worker' = worker, desiredScale' = desiredScale
    PROVE  IInv'
BY DEF IInv, Held, OneScalePerTarget, Current, Busy

\* The relays, the tickers and the cluster.
LEMMA TargetStep ==
    ASSUME IInv, NEW k \in Keys,
           \/ ReqIn(k) \/ Activate(k) \/ Wake(k) \/ ReqOut(k) \/ TickAutoScaler(k)
           \/ CacheSync(k) \/ PodsFollow(k) \/ PodFails(k) \/ Delete(k)
    PROVE  IInv'
<1> USE DEF IInv
<1>1. CASE ReqIn(k) \/ Activate(k) \/ ReqOut(k) \/ CacheSync(k) \/ Delete(k)
  <2>1. Types' /\ Queued' /\ processing' = processing /\ worker' = worker
            /\ desiredScale' = desiredScale
    BY <1>1 DEF ReqIn, Activate, ReqOut, CacheSync, Delete, Types, Queued, queueVars, clusterVars
  <2>2. QED
    BY <2>1, QueueStep
<1>2. CASE PodsFollow(k) \/ PodFails(k)
  <2>1. ready' \in [Keys -> Scales]
    <3>1. ready \in [Keys -> 0..MaxScale] /\ ready[k] \in 0..MaxScale /\ replicas[k] \in 0..MaxScale
      BY DEF Types, Scales
    <3>2. CASE PodsFollow(k)
      <4>1. (IF ready[k] < replicas[k] THEN ready[k] + 1 ELSE ready[k] - 1) \in 0..MaxScale
        BY <3>1, <3>2, AutoscalerAssumption DEF PodsFollow
      <4>2. QED
        BY <3>1, <3>2, <4>1 DEF PodsFollow, Scales
    <3>3. CASE PodFails(k)
      <4>1. ready[k] - 1 \in 0..MaxScale
        BY <3>1, <3>3, AutoscalerAssumption DEF PodFails
      <4>2. QED
        BY <3>1, <3>3, <4>1 DEF PodFails, Scales
    <3>4. QED
      BY <1>2, <3>2, <3>3
  <2>2. Types' /\ Queued' /\ processing' = processing /\ worker' = worker
            /\ desiredScale' = desiredScale
    BY <1>2, <2>1 DEF PodsFollow, PodFails, Types, Queued, queueVars
  <2>3. QED
    BY <2>2, QueueStep
<1>3. CASE Wake(k) \/ TickAutoScaler(k)
  <2>1. Add(k) \/ UNCHANGED queueVars
    BY <1>3 DEF Wake, TickAutoScaler
  <2>2. queue' \in Seq(Keys) /\ dirty' \subseteq Keys /\ processing' = processing /\ Queued'
    BY <2>1, AddQueued DEF Types, Queued, queueVars
  <2>3. Types' /\ worker' = worker /\ desiredScale' = desiredScale
    BY <1>3, <2>2 DEF Wake, TickAutoScaler, Types, clusterVars
  <2>4. QED
    BY <2>2, <2>3, QueueStep
<1>4. QED
  BY <1>1, <1>2, <1>3

----------------------------------------------------------------------------
\* A worker moves on with the target it holds, and decides nothing new.
LEMMA HoldStep ==
    ASSUME IInv, NEW w \in Workers, Busy(w), Types',
           \A v \in Workers : v # w => worker'[v] = worker[v],
           worker'[w].key = worker[w].key, worker'[w].pc # "idle",
           UNCHANGED <<queueVars, desiredScale>>,
           worker'[w].pc \in {"compare", "update"} =>
               desiredScale[worker'[w].key] = worker'[w].desired
    PROVE  IInv'
<1> USE DEF IInv, Types
<1>1. Queued'
  BY DEF Queued, queueVars
<1>2. \A v \in Workers : worker'[v].key = worker[v].key /\ (Busy(v)' => Busy(v))
  BY DEF Busy
<1>3. Held'
  BY <1>2 DEF Held, queueVars
<1>4. OneScalePerTarget'
  BY <1>2 DEF OneScalePerTarget
<1>5. Current'
  BY DEF Current
<1>6. QED
  BY <1>1, <1>3, <1>4, <1>5

\* A worker ends its turn: the deferred Done.
LEMMA FinishStep ==
    ASSUME IInv, NEW w \in Workers, Busy(w), Finish(w),
           desiredScale' = desiredScale, replicas' \in [Keys -> Scales], ready' = ready
    PROVE  IInv'
<1> USE DEF IInv
<1>1. worker[w].key \in processing /\ worker[w].key \in Keys
  BY DEF Held, Types
<1>2. /\ queue' \in Seq(Keys) /\ dirty' \subseteq Keys /\ Queued'
      /\ processing' = processing \ {worker[w].key}
  BY <1>1, DoneQueued DEF Finish
<1>3. Types'
  BY <1>2, AutoscalerAssumption DEF Types, Finish, Idle, Scales
<1>4. Held' /\ OneScalePerTarget'
  BY <1>2 DEF Held, OneScalePerTarget, Busy, Finish, Idle, Types
<1>5. Current'
  BY DEF Current, Finish, Idle, Types
<1>6. QED
  BY <1>2, <1>3, <1>4, <1>5

\* processNextItem, scale and their failures.
LEMMA WorkersStep ==
    ASSUME IInv, NEW w \in Workers,
           WorkerStep(w) \/ CountReadyFails(w) \/ CompareFails(w) \/ UpdateFails(w)
    PROVE  IInv'
<1> USE DEF IInv
<1>1. CASE ProcessNextItem(w)
  <2>1. PICK k \in Keys :
            /\ GetNext(k)
            /\ worker' = [worker EXCEPT ![w] = [Idle EXCEPT !.pc = "get", !.key = k]]
    BY <1>1 DEF ProcessNextItem
  <2>2. /\ queue' \in Seq(Keys) /\ dirty' \subseteq Keys /\ Queued'
        /\ processing' = processing \cup {k} /\ k \notin processing
    BY <2>1, GetQueued
  <2>3. Types'
    <3>1. 0 \in Scales
      BY AutoscalerAssumption DEF Scales
    <3>2. [Idle EXCEPT !.pc = "get", !.key = k] \in
              [pc : {"idle", "get", "observe", "store", "compare", "update"},
               key : Keys \cup {NoKey}, nReady : Scales, desired : Scales]
      BY <3>1 DEF Idle
    <3>3. QED
      BY <1>1, <2>1, <2>2, <3>2 DEF ProcessNextItem, Types, clusterVars
  <2>4. Held'
    BY <2>1, <2>2 DEF Held, Busy, Idle, Types
  <2>5. OneScalePerTarget'
    BY <2>1, <2>2 DEF Held, OneScalePerTarget, Busy, Idle, Types
  <2>6. Current'
    BY <1>1, <2>1 DEF ProcessNextItem, Current, Idle, Types
  <2>7. QED
    BY <2>2, <2>3, <2>4, <2>5, <2>6
<1>2. CASE CountReady(w)
  <2>1. worker[w].key \in Keys /\ Busy(w)
    BY <1>2 DEF CountReady, Held, Busy, Types
  <2>2. Types' /\ UNCHANGED <<queueVars, desiredScale>>
    BY <1>2, <2>1 DEF CountReady, Types, queueVars, clusterVars
  <2>3. /\ \A v \in Workers : v # w => worker'[v] = worker[v]
        /\ worker'[w].key = worker[w].key /\ worker'[w].pc = "observe"
    BY <1>2 DEF CountReady, Types
  <2>4. QED
    BY <2>1, <2>2, <2>3, HoldStep
<1>3. CASE Observe(w)
  <2>1. PICK d \in Scales : worker' = [worker EXCEPT ![w].pc = "store", ![w].desired = d]
    BY <1>3 DEF Observe
  <2>2. UNCHANGED <<queueVars, desiredScale>> /\ Busy(w)
    BY <1>3 DEF Observe, Busy
  <2>3. Types'
    <3>1. [worker[w] EXCEPT !.pc = "store", !.desired = d] \in
              [pc : {"idle", "get", "observe", "store", "compare", "update"},
               key : Keys \cup {NoKey}, nReady : Scales, desired : Scales]
      BY DEF Types
    <3>2. worker' = [worker EXCEPT ![w] = [worker[w] EXCEPT !.pc = "store", !.desired = d]]
      BY <2>1 DEF Types
    <3>3. QED
      BY <1>3, <3>1, <3>2 DEF Observe, Types, queueVars, clusterVars
  <2>4. /\ \A v \in Workers : v # w => worker'[v] = worker[v]
        /\ worker'[w].key = worker[w].key /\ worker'[w].pc = "store"
    BY <2>1 DEF Types
  <2>5. QED
    BY <2>2, <2>3, <2>4, HoldStep
<1>4. CASE Store(w)
  <2>1. /\ worker[w].key \in Keys /\ Busy(w)
        /\ worker' = [worker EXCEPT ![w].pc = "compare"]
        /\ desiredScale' = [desiredScale EXCEPT ![worker[w].key] = worker[w].desired]
    BY <1>4 DEF Store, MoveWorker, Held, Busy, Types
  <2>2. Types' /\ UNCHANGED queueVars
    BY <1>4, <2>1 DEF Store, Types, queueVars, clusterVars
  <2>3. Queued' /\ Held' /\ OneScalePerTarget'
    BY <2>1, <2>2 DEF Queued, Held, OneScalePerTarget, Busy, Types, queueVars
  <2>4. Current'
    BY <2>1 DEF Current, OneScalePerTarget, Busy, Types
  <2>5. QED
    BY <2>2, <2>3, <2>4
<1>5. CASE Compare(w)
  <2>1. CASE Finish(w)
    BY <1>5, <2>1, FinishStep DEF Compare, Busy, Types, clusterVars
  <2>2. CASE MoveWorker(w, "compare", "update") /\ UNCHANGED queueVars
    <3>1. Types' /\ UNCHANGED <<queueVars, desiredScale>> /\ Busy(w)
      BY <1>5, <2>2 DEF Compare, MoveWorker, Types, queueVars, clusterVars, Busy
    <3>2. desiredScale[worker[w].key] = worker[w].desired
      BY <2>2 DEF MoveWorker, Current
    <3>3. /\ \A v \in Workers : v # w => worker'[v] = worker[v]
          /\ worker'[w].key = worker[w].key /\ worker'[w].pc = "update"
          /\ worker'[w].desired = worker[w].desired
      BY <2>2 DEF MoveWorker, Types
    <3>4. QED
      BY <3>1, <3>2, <3>3, HoldStep
  <2>3. QED
    BY <1>5, <2>1, <2>2 DEF Compare
<1>6. CASE Update(w)
  <2>1. worker[w].key \in Keys /\ Busy(w)
    BY <1>6 DEF Update, Held, Busy, Types
  <2>2. replicas' \in [Keys -> Scales]
    BY <1>6, <2>1 DEF Update, Write, Types
  <2>3. QED
    BY <1>6, <2>1, <2>2, FinishStep DEF Update, Write
<1>7. CASE CountReadyFails(w) \/ CompareFails(w)
  BY <1>7, FinishStep DEF CountReadyFails, CompareFails, Busy, Types, clusterVars
<1>8. CASE UpdateFails(w)
  <2>1. worker[w].key \in Keys /\ Busy(w) /\ Finish(w) /\ desiredScale' = desiredScale
    BY <1>8 DEF UpdateFails, Held, Busy, Types
  <2>2. replicas' \in [Keys -> Scales] /\ ready' = ready
    BY <1>8, <2>1 DEF UpdateFails, Write, Types, clusterVars
  <2>3. QED
    BY <2>1, <2>2, FinishStep
<1>9. QED
  BY <1>1, <1>2, <1>3, <1>4, <1>5, <1>6, <1>7, <1>8 DEF WorkerStep

\* The invariant is inductive.
LEMMA NextIInv == IInv /\ [Next]_vars => IInv'
<1>1. CASE UNCHANGED vars
  BY <1>1 DEF vars, queueVars, clusterVars, IInv, Types, Queued, Held, OneScalePerTarget, Current, Busy
<1>2. QED
  BY <1>1, TargetStep, WorkersStep DEF Next

----------------------------------------------------------------------------
(***************************************************************************)
(* For any targets, workers and bounds, no target is reconciled by two     *)
(* workers at a time: the deciders need no lock of their own.              *)
(***************************************************************************)
THEOREM DecidersAreSerial == Spec => []OneScalePerTarget
<1>1. IInv => OneScalePerTarget
  BY DEF IInv
<1>2. QED
  BY InitIInv, NextIInv, <1>1, PTL DEF Spec

(***************************************************************************)
(* For any targets, workers and bounds, and however stale the cache, what  *)
(* Scale writes is the decision that Desired() reports at that moment.     *)
(***************************************************************************)
THEOREM DecisionsAreCurrent == Spec => AppliesCurrentDecision
<1> DEFINE A == \A k \in Keys : replicas'[k] # replicas[k] => replicas'[k] = desiredScale[k]
<1>1. IInv /\ [Next]_vars => [A]_vars
  <2> SUFFICES ASSUME IInv, Next PROVE A
    OBVIOUS
  <2>1. ASSUME NEW w \in Workers, worker[w].pc = "update",
               Write(worker[w].key, worker[w].desired)
        PROVE  A
    <3>1. /\ replicas' = [replicas EXCEPT ![worker[w].key] = worker[w].desired]
          /\ desiredScale[worker[w].key] = worker[w].desired
      BY <2>1 DEF Write, IInv, Current
    <3>2. QED
      BY <3>1 DEF IInv, Types
  <2>2. CASE replicas' = replicas
    BY <2>2
  <2>3. QED
    BY <2>1, <2>2 DEF Next, WorkerStep, ReqIn, Activate, Wake, ReqOut, TickAutoScaler, CacheSync,
        PodsFollow, PodFails, Delete, ProcessNextItem, CountReady, Observe, Store, Compare,
        CountReadyFails, CompareFails, Update, UpdateFails, clusterVars
<1>2. QED
  BY InitIInv, NextIInv, <1>1, PTL DEF Spec, AppliesCurrentDecision

=============================================================================
