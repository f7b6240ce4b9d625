-------------------------- MODULE MicrobenchProofs --------------------------
(***************************************************************************)
(* Proofs about the benchmarks of experiments/microbench, for any targets, *)
(* pods and bounds.  Each benchmark has an invariant of its own, and a     *)
(* step of one leaves the others alone.                                    *)
(*                                                                         *)
(* The end-to-end benchmark counts pods: what the WaitGroup is ahead of    *)
(* the pods still missing is the one that the monitor is in the middle of  *)
(* counting (Counted).  As long as no pod died, a deployment's pods are    *)
(* the first PerTarget ones of its name (Wanted), so that Total different  *)
(* ones are all of them.                                                   *)
(***************************************************************************)
EXTENDS MCMicrobench, FiniteSetTheorems, TLAPS

----------------------------------------------------------------------------
(* The end-to-end benchmark                                                *)

Total == ScaleUp!Total
PerTarget == ScaleUp!PerTarget

\* The pods a deployment has unless one is replaced.
Wanted == Targets \X (1 .. PerTarget)

ScaleTypes ==
    /\ sPhase \in {"off", "setup", "ready", "scaling", "waiting", "reading",
                   "reported", "cancelled", "crashed", "fatal"}
    /\ watched \subseteq Targets
    /\ seen \subseteq ScaleUp!Pods
    /\ sCounter \in Int
    /\ sPod \in [ScaleUp!Pods -> {"none", "created", "ready", "gone"}]
    /\ sPending \subseteq ScaleUp!Pods

Busy == IF handler = NoPod THEN 0 ELSE 1

Counted ==
    /\ sPhase \in {"off", "setup", "ready"} => watched = {}
    /\ watched = {} => seen = {} /\ handler = NoPod
    /\ sPhase \in {"scaling", "waiting", "reading", "reported"} =>
          sCounter + Cardinality(seen) = Total + Busy
    /\ sPhase \in {"reading", "reported"} => sCounter = 0

NoneGone == \A p \in ScaleUp!Pods : sPod[p] # "gone"

\* Only pods that were ready have events; without a death there are only the
\* pods that are wanted, and nothing crashes.
FromReady ==
    /\ \A p \in seen \cup sPending : sPod[p] \in {"ready", "gone"}
    /\ NoneGone =>
          /\ \A p \in ScaleUp!Pods : sPod[p] # "none" => p \in Wanted
          /\ sPhase # "crashed"

ScaleInv == ScaleTypes /\ Counted /\ FromReady

\* The instances' cardinalities are the library's.
LEMMA SameCardinality ==
    ASSUME NEW S
    PROVE  /\ ScaleUp!Cardinality(S) = Cardinality(S)
           /\ BindUp!Cardinality(S) = Cardinality(S)
  BY DEF ScaleUp!Cardinality, BindUp!Cardinality, Cardinality

LEMMA ScaleNumbers ==
    /\ Cardinality(Targets) \in Nat \ {0}
    /\ PerTarget \in Nat \ {0}
    /\ Total = PerTarget * Cardinality(Targets) /\ Total \in Nat
    /\ MaxFailures \in Nat
    /\ ScaleUp!Pods = Targets \X (1 .. PerTarget + MaxFailures)
<1>1. Cardinality(Targets) \in Nat \ {0}
  BY BenchAssumption, FS_CardinalityType, FS_EmptySet
<1>2. NPods \div Cardinality(Targets) \in Nat /\ MaxFailures \in Nat
  BY <1>1, BenchAssumption
<1>3. ScaleUp!Cardinality(Targets) = Cardinality(Targets)
  BY SameCardinality, Zenon
<1>4. PerTarget = IF NPods \div Cardinality(Targets) = 0 THEN 1 ELSE NPods \div Cardinality(Targets)
  BY <1>3, Zenon DEF PerTarget, ScaleUp!PerTarget
<1>5. PerTarget \in Nat \ {0}
  BY <1>2, <1>4
<1>6. Total = PerTarget * Cardinality(Targets)
  BY <1>3, Zenon DEF Total, PerTarget, ScaleUp!Total
<1>7. Total \in Nat
  BY <1>1, <1>5, <1>6
<1>8. QED
  BY <1>1, <1>2, <1>5, <1>6, <1>7, Zenon DEF PerTarget, ScaleUp!Pods

\* There are finitely many pods, and Total of them are wanted.
LEMMA FinitePods ==
    /\ IsFiniteSet(ScaleUp!Pods)
    /\ IsFiniteSet(Wanted) /\ Cardinality(Wanted) = Total
    /\ Wanted \subseteq ScaleUp!Pods
    /\ NoPod \notin ScaleUp!Pods
<1>1. /\ PerTarget \in Int /\ PerTarget + MaxFailures \in Int /\ PerTarget >= 1
      /\ 1 .. PerTarget \subseteq 1 .. PerTarget + MaxFailures
      /\ 1 .. PerTarget + MaxFailures \subseteq Nat
  BY ScaleNumbers
<1>2. /\ IsFiniteSet(1 .. PerTarget) /\ Cardinality(1 .. PerTarget) = PerTarget
      /\ IsFiniteSet(1 .. PerTarget + MaxFailures)
  BY <1>1, FS_Interval
<1>3. IsFiniteSet(Targets) /\ NoPod \notin Targets \X Nat
  BY BenchAssumption, Zenon
<1>4. IsFiniteSet(ScaleUp!Pods)
  BY <1>2, <1>3, ScaleNumbers, FS_Product, Zenon
<1>5. IsFiniteSet(Wanted) /\ Cardinality(Wanted) = Cardinality(Targets) * PerTarget
  BY <1>2, <1>3, FS_Product, Zenon DEF Wanted
<1>6. Cardinality(Wanted) = Total
  BY <1>5, ScaleNumbers
<1>7. Wanted \subseteq ScaleUp!Pods /\ NoPod \notin ScaleUp!Pods
  BY <1>1, <1>3, ScaleNumbers DEF Wanted
<1>8. QED
  BY <1>4, <1>5, <1>6, <1>7, Zenon

----------------------------------------------------------------------------
(* The other benchmarks                                                    *)

\* A watch fires for a deployment with its replicas, which was scaled.
WatchInv ==
    /\ wWatch \in [Targets -> {"idle", "sent", "installed", "fired", "returned", "failed"}]
    /\ wScale \in [Targets -> {"idle", "sent", "applied", "failed", "lost"}]
    /\ \A t \in Targets :
          /\ wWatch[t] \in {"fired", "returned"} => t \in wReached
          /\ t \in wReached => wScale[t] \in {"applied", "lost"}
          /\ wPhase \in {"off", "setup", "connecting", "watching", "sleeping"} =>
                t \notin wReached /\ wScale[t] = "idle"
          /\ wPhase \in {"waiting", "reported"} => wScale[t] \in {"applied", "failed", "lost"}
          /\ wPhase = "reported" => wWatch[t] \in {"returned", "failed"}

EndpointsInv ==
    /\ eWatch \in [Targets -> {"idle", "sent", "installed", "fired", "returned", "failed"}]
    /\ eScale \in [Targets -> {"idle", "sent", "applied", "failed", "lost"}]
    /\ rs \in [Targets -> {"empty", "scaled", "ready"}]
    /\ \A t \in Targets :
          /\ eWatch[t] \in {"fired", "returned"} => t \in eReached
          /\ t \in eReached => eScale[t] \in {"applied", "lost"}
          /\ ePhase \in {"off", "setup", "starting", "connecting", "watching", "sleeping", "fatal"}
                => t \notin eReached /\ eScale[t] = "idle"
          /\ ePhase \notin {"off", "setup", "starting", "fatal"} => rs[t] = "ready"
          /\ ePhase \in {"waiting", "reported"} => eScale[t] \in {"applied", "failed", "lost"}
          /\ ePhase = "reported" => eWatch[t] \in {"returned", "failed"}

\* A call returns after it was served.
ReplicaSetInv ==
    /\ rCall \in [Targets -> {"idle", "sent", "returned", "failed"}]
    /\ \A t \in Targets :
          /\ rCall[t] = "returned" => t \in rServed
          /\ rPhase = "reported" => rCall[t] \in {"returned", "failed"}

SchedulerInv ==
    /\ dCall \in [{OneTarget} -> {"idle", "sent", "returned", "failed"}]
    /\ dCall[OneTarget] = "returned" => OneTarget \in dServed
    /\ dPhase = "reported" => dCall[OneTarget] = "returned"

\* The WaitGroup stands for the pods without a time, and a pod that has an
\* event or a time was bound and is ready or gone.
BindInv ==
    /\ bPod \in [BoundPods \cup Others -> {"none", "created", "ready", "gone"}]
    /\ bPending \subseteq BoundPods \cup Others
    /\ desired \in {{}, BoundPods} /\ done \subseteq desired
    /\ bCounter = Cardinality(desired \ done)
    /\ bPhase \in {"off", "setup", "connecting", "connected"} => desired = {}
    /\ bPhase \in {"binding", "waiting", "reported"} => desired = BoundPods
    /\ bPhase = "reported" => bCounter = 0
    /\ \A p \in done \cup bPending : bPod[p] \in {"ready", "gone"}
    /\ \A p \in BoundPods : bPod[p] # "none" => p \in bound

IInv ==
    /\ ScaleInv /\ WatchInv /\ EndpointsInv /\ ReplicaSetInv /\ SchedulerInv /\ BindInv

----------------------------------------------------------------------------
(* The Deployment, Endpoints, ReplicaSet and scheduler benchmarks          *)

LEMMA InitWatchInv == WatchUp!Init \/ WatchUp!NotStarted => WatchInv
  BY DEF WatchInv, WatchUp!Init, WatchUp!NotStarted, WatchUp!Started, WatchUp!NeverStarted,
         WatchUp!NoCalls

LEMMA NextWatchInv ==
    ASSUME WatchInv, WatchUp!Next
    PROVE  WatchInv'
<1> USE DEF WatchInv, WatchUp!run, WatchUp!calls, WatchUp!MoveOn
<1>1. CASE WatchUp!SetupFails \/ WatchUp!ReplicaSetsExist \/ WatchUp!ConnectCancelled
  BY <1>1 DEF WatchUp!SetupFails, WatchUp!ReplicaSetsExist, WatchUp!ConnectCancelled,
              WatchUp!PollCancelled
<1>2. CASE WatchUp!Connected \/ WatchUp!Signal
  BY <1>2 DEF WatchUp!Connected, WatchUp!HandshakeDone, WatchUp!Signal, WatchUp!Signalled
<1>3. CASE WatchUp!StartWatching
  BY <1>3 DEF WatchUp!StartWatching
<1>4. CASE WatchUp!StartScaling
  BY <1>4 DEF WatchUp!StartScaling
<1>5. CASE WatchUp!ScaleGroupWait \/ WatchUp!WatchGroupWait
  BY <1>5 DEF WatchUp!ScaleGroupWait, WatchUp!WatchGroupWait, WatchUp!UnlessDone
<1>6. ASSUME NEW t \in Targets, WatchUp!ScaleReturns(t) PROVE WatchInv'
  BY <1>6 DEF WatchUp!ScaleReturns
<1>7. ASSUME NEW t \in Targets, WatchUp!InstallCallback(t) PROVE WatchInv'
  BY <1>7 DEF WatchUp!InstallCallback
<1>8. ASSUME NEW t \in Targets, WatchUp!ReachReplicas(t) PROVE WatchInv'
  BY <1>8 DEF WatchUp!ReachReplicas
<1>9. ASSUME NEW t \in Targets, WatchUp!WatchReturns(t) \/ WatchUp!WatchFails(t) PROVE WatchInv'
  BY <1>9 DEF WatchUp!WatchReturns, WatchUp!WatchFails
<1> HIDE DEF WatchInv, WatchUp!run, WatchUp!calls, WatchUp!MoveOn
<1>10. QED
  BY <1>1, <1>2, <1>3, <1>4, <1>5, <1>6, <1>7, <1>8, <1>9, Zenon
     DEF WatchUp!Next, WatchUp!MeasureStep

LEMMA InitReplicaSetInv == ReplicaSetUp!Init \/ ReplicaSetUp!NotStarted => ReplicaSetInv
  BY DEF ReplicaSetInv, ReplicaSetUp!Init, ReplicaSetUp!NotStarted, ReplicaSetUp!Started,
         ReplicaSetUp!NeverStarted, ReplicaSetUp!NoCalls

LEMMA NextReplicaSetInv ==
    ASSUME ReplicaSetInv, ReplicaSetUp!Next
    PROVE  ReplicaSetInv'
<1> USE DEF ReplicaSetInv, ReplicaSetUp!run, ReplicaSetUp!MoveOn
<1>1. CASE ReplicaSetUp!Prepare
  BY <1>1 DEF ReplicaSetUp!Prepare, ReplicaSetUp!SetupFails, ReplicaSetUp!TargetsFit,
              ReplicaSetUp!Connected, ReplicaSetUp!HandshakeDone, ReplicaSetUp!ConnectCancelled,
              ReplicaSetUp!PollCancelled, ReplicaSetUp!StartScaling
<1>2. ASSUME NEW t \in Targets, ReplicaSetUp!Serve(t) PROVE ReplicaSetInv'
  BY <1>2 DEF ReplicaSetUp!Serve
<1>3. ASSUME NEW t \in Targets, ReplicaSetUp!CallReturns(t) PROVE ReplicaSetInv'
  BY <1>3 DEF ReplicaSetUp!CallReturns, ReplicaSetUp!Running, ReplicaSetUp!Ends
<1>4. CASE ReplicaSetUp!GroupWait \/ ReplicaSetUp!Signal
  BY <1>4 DEF ReplicaSetUp!GroupWait, ReplicaSetUp!UnlessDone, ReplicaSetUp!Signal,
              ReplicaSetUp!Signalled
<1>5. QED
  BY <1>1, <1>2, <1>3, <1>4 DEF ReplicaSetUp!Next, ReplicaSetUp!Call

LEMMA InitSchedulerInv == SchedulerUp!Init \/ SchedulerUp!NotStarted => SchedulerInv
  BY DEF SchedulerInv, SchedulerUp!Init, SchedulerUp!NotStarted, SchedulerUp!Started,
         SchedulerUp!NeverStarted, SchedulerUp!NoCalls

LEMMA NextSchedulerInv ==
    ASSUME SchedulerInv, SchedulerUp!SchedNext
    PROVE  SchedulerInv'
<1> USE DEF SchedulerInv, SchedulerUp!run, SchedulerUp!MoveOn
<1>1. CASE \/ SchedulerUp!CheckTemplate \/ SchedulerUp!SchedulerFound
           \/ SchedulerUp!SchedulerNotFound \/ SchedulerUp!RequestPods
  BY <1>1 DEF SchedulerUp!CheckTemplate, SchedulerUp!SchedulerFound, SchedulerUp!SchedulerNotFound,
              SchedulerUp!RequestPods, SchedulerUp!SetupFails, SchedulerUp!TargetsFit,
              SchedulerUp!Connected, SchedulerUp!HandshakeDone, SchedulerUp!ConnectCancelled,
              SchedulerUp!PollCancelled, SchedulerUp!StartScaling
<1>2. ASSUME NEW t \in {OneTarget}, SchedulerUp!Serve(t) PROVE SchedulerInv'
  BY <1>2 DEF SchedulerUp!Serve
<1>3. ASSUME NEW t \in {OneTarget}, SchedulerUp!CallReturns(t) PROVE SchedulerInv'
  BY <1>3 DEF SchedulerUp!CallReturns, SchedulerUp!Running, SchedulerUp!Ends
<1>4. CASE SchedulerUp!SchedulePods \/ SchedulerUp!Signal
  BY <1>4 DEF SchedulerUp!SchedulePods, SchedulerUp!Failed, SchedulerUp!Signal,
              SchedulerUp!Signalled
<1>5. QED
  BY <1>1, <1>2, <1>3, <1>4 DEF SchedulerUp!SchedNext, SchedulerUp!Call

LEMMA InitEndpointsInv == EndpointsUp!EpInit \/ EndpointsUp!EpNotStarted => EndpointsInv
  BY DEF EndpointsInv, EndpointsUp!EpInit, EndpointsUp!EpNotStarted, EndpointsUp!NotStarted,
         EndpointsUp!Started, EndpointsUp!NeverStarted, EndpointsUp!NoCalls

LEMMA NextEndpointsInv ==
    ASSUME EndpointsInv, EndpointsUp!EpNext
    PROVE  EndpointsInv'
<1> USE DEF EndpointsInv, EndpointsUp!run, EndpointsUp!calls, EndpointsUp!vars, EndpointsUp!MoveOn
<1>1. CASE EndpointsUp!StartPodsFails \/ EndpointsUp!ServicesFit \/ EndpointsUp!WaitForReadyPods
  BY <1>1 DEF EndpointsUp!StartPodsFails, EndpointsUp!ServicesFit, EndpointsUp!WaitForReadyPods
<1>2. ASSUME NEW t \in Targets, EndpointsUp!ScaleUp(t) \/ EndpointsUp!PodsStart(t)
      PROVE  EndpointsInv'
  BY <1>2 DEF EndpointsUp!ScaleUp, EndpointsUp!PodsStart
<1>3. CASE /\ EndpointsUp!EpConnected \/ EndpointsUp!EpConnectCancelled \/ EndpointsUp!Signal
           /\ UNCHANGED rs
  BY <1>3 DEF EndpointsUp!EpConnected, EndpointsUp!EpConnectCancelled, EndpointsUp!Connected,
              EndpointsUp!HandshakeDone, EndpointsUp!ConnectCancelled, EndpointsUp!PollCancelled,
              EndpointsUp!Signal, EndpointsUp!Signalled
<1>4. CASE EndpointsUp!StartWatching /\ UNCHANGED rs
  BY <1>4 DEF EndpointsUp!StartWatching
<1>5. CASE EndpointsUp!StartScaling /\ UNCHANGED rs
  BY <1>5 DEF EndpointsUp!StartScaling
<1>6. CASE EndpointsUp!WaitForGroups /\ UNCHANGED rs
  BY <1>6 DEF EndpointsUp!WaitForGroups, EndpointsUp!ScaleGroupWait, EndpointsUp!WatchGroupWait,
              EndpointsUp!UnlessDone
<1>7. ASSUME NEW t \in Targets, EndpointsUp!ScaleReturns(t), UNCHANGED rs PROVE EndpointsInv'
  BY <1>7 DEF EndpointsUp!ScaleReturns
<1>8. ASSUME NEW t \in Targets, EndpointsUp!InstallCallback(t), UNCHANGED rs PROVE EndpointsInv'
  BY <1>8 DEF EndpointsUp!InstallCallback
<1>9. ASSUME NEW t \in Targets, EndpointsUp!ReachReplicas(t), UNCHANGED rs PROVE EndpointsInv'
  BY <1>9 DEF EndpointsUp!ReachReplicas
<1>10. ASSUME NEW t \in Targets, UNCHANGED rs,
              EndpointsUp!WatchReturns(t) \/ EndpointsUp!WatchFails(t)
       PROVE  EndpointsInv'
  BY <1>10 DEF EndpointsUp!WatchReturns, EndpointsUp!WatchFails
<1> HIDE DEF EndpointsInv, EndpointsUp!run, EndpointsUp!calls, EndpointsUp!vars, EndpointsUp!MoveOn
<1>11. QED
  BY <1>1, <1>2, <1>3, <1>4, <1>5, <1>6, <1>7, <1>8, <1>9, <1>10, Zenon
     DEF EndpointsUp!EpNext, EndpointsUp!WatchServices, EndpointsUp!UpdateSelectors,
         EndpointsUp!PopulateEndpoints

----------------------------------------------------------------------------
(* The kubelet benchmark                                                   *)

LEMMA InitBindInv == BindUp!Init \/ BindUp!NotStarted => BindInv
<1>1. Cardinality({}) = 0 /\ {} \ {} = {}
  BY FS_EmptySet, Zenon
<1>2. QED
  BY <1>1 DEF BindInv, BindUp!Init, BindUp!NotStarted, BindUp!Started, BindUp!NeverStarted,
              BindUp!Fresh, BindUp!Any

\* Steps of the benchmark that leave the expectation alone.
LEMMA QuietBindSteps ==
    ASSUME BindInv, UNCHANGED <<desired, done, bCounter>>,
           \/ UNCHANGED bPhase
           \/ bPhase' \in {"fatal", "crashed", "cancelled"}
           \/ bPhase \in {"setup", "connecting"} /\ bPhase' \in {"connecting", "connected"}
           \/ bPhase = "binding" /\ bPhase' = "waiting"
           \/ bPhase = "waiting" /\ bPhase' = "reported" /\ bCounter = 0,
           bPod' \in [BoundPods \cup Others -> {"none", "created", "ready", "gone"}],
           bPending' \subseteq BoundPods \cup Others,
           \A p \in done \cup bPending' : bPod'[p] \in {"ready", "gone"},
           \A p \in BoundPods : bPod'[p] # "none" => p \in bound'
    PROVE  BindInv'
  BY DEF BindInv

LEMMA NextBindInv ==
    ASSUME BindInv, BindUp!Next
    PROVE  BindInv'
<1> USE DEF BindUp!run, BindUp!expectation, BindUp!cluster, BindUp!Any
<1>1. CASE \/ BindUp!SetupFails \/ BindUp!TemplateFits \/ BindUp!NoServiceAddress
           \/ BindUp!ConnectCancelled
  BY <1>1, QuietBindSteps
     DEF BindInv, BindUp!SetupFails, BindUp!TemplateFits, BindUp!NoServiceAddress,
         BindUp!ConnectCancelled, BindUp!PollCancelled, BindUp!MoveOn
<1>2. CASE BindUp!Connected \/ BindUp!StartBinding \/ BindUp!Report \/ BindUp!Signal
  BY <1>2, QuietBindSteps
     DEF BindInv, BindUp!Connected, BindUp!HandshakeDone, BindUp!StartBinding, BindUp!Report,
         BindUp!UnlessDone, BindUp!Signal, BindUp!Signalled, BindUp!MoveOn
<1>3. CASE BindUp!Watch
  <2>1. /\ bPhase = "connected" /\ bPhase' \in {"binding", "crashed"}
        /\ desired' \in {{}, BoundPods} /\ (bPhase' = "binding" => desired' = BoundPods)
        /\ bCounter' = BindUp!Cardinality(desired')
        /\ UNCHANGED <<done, bPod, bPending, bound>>
    BY <1>3 DEF BindUp!Watch, BindUp!MoveOn
  <2>2. done = {} /\ desired' \ done' = desired'
    BY <2>1 DEF BindInv
  <2>3. bCounter' = Cardinality(desired' \ done')
    BY <2>1, <2>2, SameCardinality, Zenon
  <2>4. QED
    BY <2>1, <2>2, <2>3 DEF BindInv
<1>4. ASSUME NEW p \in BoundPods, BindUp!BindReturns(p) \/ BindUp!BindFails(p) PROVE BindInv'
  BY <1>4, QuietBindSteps DEF BindInv, BindUp!BindReturns, BindUp!BindFails
<1>5. ASSUME NEW p \in BoundPods, BindUp!AcceptBind(p) \/ BindUp!CreatePod(p) PROVE BindInv'
  BY <1>5, QuietBindSteps DEF BindInv, BindUp!AcceptBind, BindUp!CreatePod
<1>6. ASSUME NEW p \in BoundPods \cup Others, BindUp!PodReady(p) \/ BindUp!PodDeleted(p)
      PROVE  BindInv'
  BY <1>6, QuietBindSteps DEF BindInv, BindUp!PodReady, BindUp!PodDeleted
<1>7. ASSUME NEW p \in BoundPods \cup Others, BindUp!HandlePodEvent(p) PROVE BindInv'
  <2>1. /\ p \in bPending /\ bPending' = bPending \ {p} /\ bPhase \notin BindUp!Ends
        /\ UNCHANGED <<bPhase, desired, bound, bPod>>
        /\ IF p \in desired \ done
           THEN done' = done \cup {p} /\ bCounter' = bCounter - 1
           ELSE UNCHANGED <<done, bCounter>>
    BY <1>7, Zenon DEF BindUp!HandlePodEvent, BindUp!Counts, BindUp!Running
  <2>2. CASE p \in desired \ done
    <3>1. IsFiniteSet(desired \ done)
      BY BenchAssumption, FS_Subset DEF BindInv
    <3>2. Cardinality((desired \ done) \ {p}) = Cardinality(desired \ done) - 1
      BY <2>2, <3>1, FS_RemoveElement, Zenon
    <3>3. (desired \ done) \ {p} = desired' \ done'
      BY <2>1, <2>2
    <3>4. bCounter' = Cardinality(desired' \ done')
      BY <2>1, <2>2, <3>2, <3>3, Zenon DEF BindInv
    <3>5. QED
      BY <2>1, <2>2, <3>4 DEF BindInv, BindUp!Ends
  <2>3. CASE p \notin desired \ done
    BY <2>1, <2>3, QuietBindSteps DEF BindInv
  <2>4. QED
    BY <2>2, <2>3
<1>8. QED
  BY <1>1, <1>2, <1>3, <1>4, <1>5, <1>6, <1>7 DEF BindUp!Next, BindUp!RunStep

----------------------------------------------------------------------------
(* The end-to-end benchmark                                                *)

LEMMA InitScaleInv == ScaleUp!Init \/ ScaleUp!NotStarted => ScaleInv
  BY DEF ScaleInv, ScaleTypes, Counted, FromReady, NoneGone, ScaleUp!Init, ScaleUp!NotStarted,
         ScaleUp!Fresh

\* The pods in seen are finitely many, and only wanted ones if none died.
LEMMA SeenPods ==
    ASSUME ScaleInv
    PROVE  /\ IsFiniteSet(seen) /\ Cardinality(seen) \in Nat
           /\ NoneGone => seen \subseteq Wanted /\ Cardinality(seen) <= Total
<1>1. IsFiniteSet(seen) /\ Cardinality(seen) \in Nat
  BY FinitePods, FS_Subset, FS_CardinalityType DEF ScaleInv, ScaleTypes
<1>2. NoneGone => seen \subseteq Wanted
  BY DEF ScaleInv, ScaleTypes, FromReady, NoneGone
<1>3. NoneGone => Cardinality(seen) <= Total
  BY <1>2, FinitePods, FS_Subset
<1>4. QED
  BY <1>1, <1>2, <1>3

\* The pods of a deployment come in their order and are PerTarget at most, so
\* without a death they are the wanted ones.
LEMMA CreatedAreWanted ==
    ASSUME ScaleInv, NEW p \in ScaleUp!Pods, ScaleUp!CreatePod(p), NoneGone
    PROVE  p \in Wanted
<1> DEFINE live == ScaleUp!Of(p[1]) \cap (ScaleUp!In("created") \cup ScaleUp!In("ready"))
           lower == {p[1]} \X (1 .. p[2] - 1)
<1>1. /\ p[1] \in Targets /\ p[2] \in 1 .. PerTarget + MaxFailures /\ p = <<p[1], p[2]>>
      /\ PerTarget \in Nat /\ MaxFailures \in Nat /\ p[2] \in Nat /\ p[2] >= 1
  BY ScaleNumbers
<1>2. lower \subseteq live
  <2>1. ASSUME NEW q \in lower PROVE q \in live
    <3>1. /\ q[1] = p[1] /\ q[2] \in 1 .. p[2] - 1 /\ q = <<q[1], q[2]>>
      OBVIOUS
    <3>2. q[2] \in 1 .. PerTarget + MaxFailures /\ q[2] < p[2]
      BY <1>1, <3>1
    <3>3. q \in ScaleUp!Pods
      BY <1>1, <3>1, <3>2, ScaleNumbers
    <3>4. q \in ScaleUp!Of(p[1])
      BY <3>1, <3>3 DEF ScaleUp!Of
    <3>5. sPod[q] \in {"created", "ready"}
      BY <3>2, <3>3, <3>4 DEF ScaleUp!CreatePod, NoneGone, ScaleInv, ScaleTypes
    <3>6. QED
      BY <3>3, <3>4, <3>5 DEF ScaleUp!In
  <2>2. QED
    BY <2>1
<1>3. Cardinality(live) < PerTarget
  BY SameCardinality, Zenon DEF ScaleUp!CreatePod, PerTarget
<1>4. IsFiniteSet(live)
  BY FinitePods, FS_Subset DEF ScaleUp!Of
<1>5. Cardinality(lower) = p[2] - 1
  <2>1. IsFiniteSet({p[1]}) /\ Cardinality({p[1]}) = 1
    BY FS_Singleton, Zenon
  <2>2. IsFiniteSet(1 .. p[2] - 1) /\ Cardinality(1 .. p[2] - 1) = p[2] - 1
    <3>1. 1 \in Int /\ p[2] - 1 \in Int
      BY <1>1
    <3>2. /\ IsFiniteSet(1 .. p[2] - 1)
          /\ Cardinality(1 .. p[2] - 1) = IF 1 > p[2] - 1 THEN 0 ELSE p[2] - 1 - 1 + 1
      BY <3>1, FS_Interval, Zenon
    <3>3. QED
      BY <1>1, <3>2
  <2>3. Cardinality(lower) = 1 * Cardinality(1 .. p[2] - 1)
    BY <2>1, <2>2, FS_Product, Zenon
  <2>4. QED
    BY <1>1, <2>2, <2>3
<1>6. Cardinality(lower) <= Cardinality(live) /\ Cardinality(live) \in Nat
  BY <1>2, <1>4, FS_Subset, FS_CardinalityType, Zenon
<1> HIDE DEF live, lower
<1>7. p[2] \in 1 .. PerTarget
  BY <1>1, <1>3, <1>5, <1>6
<1>8. QED
  BY <1>1, <1>7 DEF Wanted

\* Steps that leave the monitor and the WaitGroup alone: run moves on, or the
\* cluster does something with its pods.
LEMMA OtherScaleSteps ==
    ASSUME ScaleInv, UNCHANGED <<watched, seen, sCounter, handler>>,
           \/ UNCHANGED sPhase
           \/ sPhase' \in {"fatal", "cancelled"}
           \/ sPhase = "setup" /\ sPhase' = "ready"
           \/ sPhase = "scaling" /\ sPhase' = "waiting"
           \/ sPhase = "waiting" /\ sCounter = 0 /\ sPhase' = "reading"
           \/ sPhase = "reading" /\ sPhase' = "reported",
           ScaleTypes', FromReady'
    PROVE  ScaleInv'
<1>1. Busy' = Busy
  BY DEF Busy
<1>2. QED
  BY <1>1, Zenon DEF ScaleInv, ScaleTypes, Counted

LEMMA NextScaleInv ==
    ASSUME ScaleInv, ScaleUp!Next
    PROVE  ScaleInv'
<1> USE DEF ScaleUp!cluster
<1>0. ASSUME UNCHANGED <<seen, sPod, sPending>>, sPhase' # "crashed" \/ UNCHANGED sPhase
      PROVE  FromReady'
  BY <1>0 DEF ScaleInv, FromReady, NoneGone
<1>1. CASE ScaleUp!SetupFails \/ ScaleUp!ReplicaSetsExist \/ ScaleUp!StartScaling
  BY <1>0, <1>1, OtherScaleSteps
     DEF ScaleInv, ScaleTypes, ScaleUp!SetupFails, ScaleUp!ReplicaSetsExist, ScaleUp!StartScaling
<1>2. CASE ScaleUp!WaitReturns \/ ScaleUp!Signal
  BY <1>0, <1>2, OtherScaleSteps DEF ScaleInv, ScaleTypes, ScaleUp!WaitReturns, ScaleUp!Signal
<1>3. ASSUME NEW t \in Targets, ScaleUp!ScaleReturns(t) PROVE ScaleInv'
  BY <1>0, <1>3, OtherScaleSteps DEF ScaleInv, ScaleTypes, ScaleUp!ScaleReturns
<1>4. CASE ScaleUp!Watch
  <2>1. /\ sPhase = "ready" /\ sPhase' = "scaling" /\ sCounter' = Total /\ watched' = Targets
        /\ UNCHANGED <<seen, handler, sPod, sPending>>
    BY <1>4, Zenon DEF ScaleUp!Watch, Total
  <2>2. seen = {} /\ handler = NoPod /\ Cardinality({}) = 0 /\ Targets # {}
    BY <2>1, FS_EmptySet, BenchAssumption DEF ScaleInv, Counted
  <2>3. FromReady'
    BY <1>0, <2>1
  <2>4. QED
    BY <2>1, <2>2, <2>3, ScaleNumbers DEF ScaleInv, ScaleTypes, Counted, Busy
<1>5. CASE ScaleUp!Report
  <2>1. seen = {} \/ ScaleUp!PercentileIndex(Cardinality(seen)) < Cardinality(seen)
    BY SeenPods, FS_EmptySet DEF ScaleUp!PercentileIndex
  <2>2. /\ sPhase = "reading" /\ sPhase' = "reported"
        /\ UNCHANGED <<watched, seen, sCounter, handler, sPod, sPending>>
    BY <1>5, <2>1, SameCardinality, Zenon DEF ScaleUp!Report
  <2>3. QED
    BY <1>0, <2>2, OtherScaleSteps DEF ScaleInv, ScaleTypes
<1>6. CASE ScaleUp!CountDone
  <2>1. /\ handler # NoPod /\ handler' = NoPod /\ sCounter' = sCounter - 1
        /\ sPhase \notin {"off", "reported", "cancelled", "crashed", "fatal"}
        /\ sPhase' = IF sCounter = 0 THEN "crashed" ELSE sPhase
        /\ UNCHANGED <<watched, seen, sPod, sPending>>
    BY <1>6, Zenon DEF ScaleUp!CountDone, ScaleUp!Running
  <2>2. sPhase \in {"scaling", "waiting", "reading"} /\ watched # {}
    BY <2>1 DEF ScaleInv, ScaleTypes, Counted
  <2>3. sCounter + Cardinality(seen) = Total + 1 /\ (sPhase = "reading" => sCounter = 0)
    BY <2>1, <2>2 DEF ScaleInv, Counted, Busy
  <2>4. NoneGone => sCounter # 0
    BY <2>3, SeenPods, ScaleNumbers
  <2>5. FromReady'
    BY <2>1, <2>2, <2>4 DEF ScaleInv, FromReady, NoneGone
  <2>6. Counted'
    BY <2>1, <2>2, <2>3, SeenPods, ScaleNumbers DEF ScaleInv, ScaleTypes, Counted, Busy
  <2>7. QED
    BY <2>1, <2>5, <2>6 DEF ScaleInv, ScaleTypes
<1>7. ASSUME NEW p \in ScaleUp!Pods, ScaleUp!HandlePodEvent(p) PROVE ScaleInv'
  <2>1. /\ handler = NoPod /\ p \in sPending /\ sPending' = sPending \ {p}
        /\ UNCHANGED <<sPhase, watched, sCounter, sPod>>
        /\ \/ p[1] \in watched /\ p \notin seen /\ handler' = p /\ seen' = seen \cup {p}
           \/ UNCHANGED <<handler, seen>>
    BY <1>7, Zenon DEF ScaleUp!HandlePodEvent
  <2>2. FromReady' /\ ScaleTypes'
    BY <2>1 DEF ScaleInv, ScaleTypes, FromReady, NoneGone
  <2>3. CASE p[1] \in watched /\ p \notin seen /\ handler' = p /\ seen' = seen \cup {p}
    <3>1. Cardinality(seen') = Cardinality(seen) + 1 /\ handler' # NoPod
      BY <2>3, SeenPods, FinitePods, FS_AddElement, Zenon
    <3>2. Counted'
      BY <2>1, <2>3, <3>1, SeenPods, ScaleNumbers DEF ScaleInv, ScaleTypes, Counted, Busy
    <3>3. QED
      BY <2>2, <3>2 DEF ScaleInv
  <2>4. CASE UNCHANGED <<handler, seen>>
    BY <2>1, <2>2, <2>4, OtherScaleSteps
  <2>5. QED
    BY <2>1, <2>3, <2>4
<1>8. ASSUME NEW p \in ScaleUp!Pods, ScaleUp!CreatePod(p) PROVE ScaleInv'
  <2>1. /\ UNCHANGED <<sPhase, watched, seen, sCounter, handler, sPending>>
        /\ sPod[p] = "none" /\ sPod' = [sPod EXCEPT ![p] = "created"]
    BY <1>8, Zenon DEF ScaleUp!CreatePod
  <2>2. NoneGone' => NoneGone /\ p \in Wanted
    BY <1>8, <2>1, CreatedAreWanted DEF NoneGone, ScaleInv, ScaleTypes
  <2>3. FromReady' /\ ScaleTypes'
    BY <2>1, <2>2 DEF ScaleInv, ScaleTypes, FromReady
  <2>4. QED
    BY <2>1, <2>3, OtherScaleSteps
<1>9. ASSUME NEW p \in ScaleUp!Pods,
             ScaleUp!PodReady(p) \/ ScaleUp!PodUpdated(p) \/ ScaleUp!PodDies(p)
      PROVE  ScaleInv'
  <2>1. /\ UNCHANGED <<sPhase, watched, seen, sCounter, handler>>
        /\ sPod[p] # "none"
        /\ \/ sPod' = [sPod EXCEPT ![p] = "ready"] /\ sPending' = sPending \cup {p}
           \/ sPod' = sPod /\ sPod[p] = "ready" /\ sPending' = sPending \cup {p}
           \/ sPod' = [sPod EXCEPT ![p] = "gone"] /\ sPending' = sPending
        /\ sPod[p] # "gone"
    BY <1>9 DEF ScaleUp!PodReady, ScaleUp!PodUpdated, ScaleUp!PodDies
  <2>2. FromReady' /\ ScaleTypes'
    BY <2>1 DEF ScaleInv, ScaleTypes, FromReady, NoneGone
  <2>3. QED
    BY <2>1, <2>2, OtherScaleSteps
<1>10. QED
  BY <1>1, <1>2, <1>3, <1>4, <1>5, <1>6, <1>7, <1>8, <1>9 DEF ScaleUp!Next

----------------------------------------------------------------------------
LEMMA InitIInv == Init => IInv
  BY InitScaleInv, InitWatchInv, InitEndpointsInv, InitReplicaSetInv, InitSchedulerInv,
     InitBindInv, Zenon
     DEF Init, IInv

\* Variables that do not change keep the invariant of their benchmark.
LEMMA Unchanged ==
    /\ ScaleInv /\ UNCHANGED scaleVars => ScaleInv'
    /\ WatchInv /\ UNCHANGED watchVars => WatchInv'
    /\ EndpointsInv /\ UNCHANGED endpointsVars => EndpointsInv'
    /\ ReplicaSetInv /\ UNCHANGED replicaSetVars => ReplicaSetInv'
    /\ SchedulerInv /\ UNCHANGED schedulerVars => SchedulerInv'
    /\ BindInv /\ UNCHANGED bindVars => BindInv'
<1>1. ScaleInv /\ UNCHANGED scaleVars => ScaleInv'
  BY DEF scaleVars, ScaleInv, ScaleTypes, Counted, Busy, FromReady, NoneGone
<1>2. WatchInv /\ UNCHANGED watchVars => WatchInv'
  BY DEF watchVars, WatchInv
<1>3. EndpointsInv /\ UNCHANGED endpointsVars => EndpointsInv'
  BY DEF endpointsVars, EndpointsInv
<1>4. ReplicaSetInv /\ UNCHANGED replicaSetVars => ReplicaSetInv'
  BY DEF replicaSetVars, ReplicaSetInv
<1>5. SchedulerInv /\ UNCHANGED schedulerVars => SchedulerInv'
  BY DEF schedulerVars, SchedulerInv
<1>6. BindInv /\ UNCHANGED bindVars => BindInv'
  BY DEF bindVars, BindInv
<1>7. QED
  BY <1>1, <1>2, <1>3, <1>4, <1>5, <1>6

LEMMA NextIInv == IInv /\ [Next]_vars => IInv'
<1> SUFFICES ASSUME IInv, [Next]_vars PROVE IInv'
  OBVIOUS
<1>1. CASE UNCHANGED vars
  BY <1>1, Unchanged, Zenon DEF IInv, vars
<1>2. CASE Next
  BY <1>2, Unchanged, NextScaleInv, NextWatchInv, NextEndpointsInv, NextReplicaSetInv,
     NextSchedulerInv, NextBindInv, Zenon
     DEF IInv, Next
<1>3. QED
  BY <1>1, <1>2

\* Every step of a benchmark keeps its invariant.
THEOREM IInvariance == Spec => []IInv
  BY InitIInv, NextIInv, PTL DEF Spec

(***************************************************************************)
(* The reports (Since and the counts of run) are about what happened: as   *)
(* many different pods as were asked for, targets that were scaled,        *)
(* populated or served, and the benchmark's own pods.                      *)
(***************************************************************************)
THEOREM ReportsHappened == Spec => []ReportsAreHonest
<1>1. ASSUME ScaleInv PROVE ScaleUp!ReportIsFull
  <2>1. sPhase \in {"reading", "reported"} => Cardinality(seen) >= Total
    BY <1>1, SeenPods, ScaleNumbers DEF ScaleInv, Counted, Busy
  <2>2. QED
    BY <2>1, SameCardinality, Zenon DEF ScaleUp!ReportIsFull, Total
<1>2. ASSUME WatchInv PROVE WatchUp!ReportIsHonest
  BY <1>2 DEF WatchInv, WatchUp!ReportIsHonest
<1>3. ASSUME EndpointsInv PROVE EndpointsUp!EpReportIsHonest
  BY <1>3 DEF EndpointsInv, EndpointsUp!EpReportIsHonest, EndpointsUp!ReportIsHonest
<1>4. ASSUME ReplicaSetInv PROVE ReplicaSetUp!ReportIsHonest
  BY <1>4 DEF ReplicaSetInv, ReplicaSetUp!ReportIsHonest
<1>5. ASSUME SchedulerInv PROVE SchedulerUp!SchedReportIsHonest
  BY <1>5 DEF SchedulerInv, SchedulerUp!SchedReportIsHonest
<1>6. ASSUME BindInv PROVE BindUp!ReportIsAboutOwnPods
  <2>1. SUFFICES ASSUME bPhase = "reported"
                 PROVE  done = BoundPods
    BY <1>6 DEF BindInv, BindUp!ReportIsAboutOwnPods
  <2>2. IsFiniteSet(BoundPods \ done)
    BY BenchAssumption, FS_Subset
  <2>3. BoundPods \ done = {}
    BY <1>6, <2>1, <2>2, FS_EmptySet DEF BindInv
  <2>4. QED
    BY <1>6, <2>3 DEF BindInv
<1>7. IInv => ReportsAreHonest
  BY <1>1, <1>2, <1>3, <1>4, <1>5, <1>6, Zenon DEF IInv, ReportsAreHonest
<1>8. QED
  BY <1>7, IInvariance, PTL

(***************************************************************************)
(* Unless a pod died, every deployment has its share in the report, the    *)
(* WaitGroup does not go below zero (wg.Done), and nobody writes the map   *)
(* that Since reads without the lock.                                      *)
(***************************************************************************)
THEOREM PodsAreCountedOnce == Spec => []CountsEachPodOnce
<1>1. ASSUME ScaleInv, ScaleUp!In("gone") = {} PROVE NoneGone
  BY <1>1 DEF ScaleUp!In, NoneGone
<1>2. ASSUME ScaleInv, NoneGone PROVE sPhase # "crashed"
  BY <1>2 DEF ScaleInv, FromReady
<1>3. ASSUME ScaleInv, NoneGone, sPhase \in {"reading", "reported"}
      PROVE  handler = NoPod /\ seen = Wanted
  <2>1. Cardinality(seen) = Total + Busy
    BY <1>3, SeenPods, ScaleNumbers DEF ScaleInv, Counted, Busy
  <2>2. Cardinality(seen) = Total /\ handler = NoPod
    BY <1>3, <2>1, SeenPods, ScaleNumbers DEF Busy
  <2>3. seen = Wanted
    BY <1>3, <2>2, SeenPods, FinitePods, FS_Subset
  <2>4. QED
    BY <2>2, <2>3
<1>4. ASSUME NEW t \in Targets, seen = Wanted
      PROVE  ScaleUp!Cardinality(ScaleUp!Of(t) \cap seen) = ScaleUp!PerTarget
  <2>1. ScaleUp!Of(t) \cap seen = {t} \X (1 .. PerTarget)
    <3>1. ASSUME NEW p \in ScaleUp!Of(t) \cap seen PROVE p \in {t} \X (1 .. PerTarget)
      BY <1>4, <3>1 DEF ScaleUp!Of, Wanted
    <3>2. ASSUME NEW p \in {t} \X (1 .. PerTarget) PROVE p \in ScaleUp!Of(t) \cap seen
      BY <1>4, <3>2, FinitePods DEF ScaleUp!Of, Wanted
    <3>3. QED
      BY <3>1, <3>2, Zenon
  <2>2. IsFiniteSet({t}) /\ Cardinality({t}) = 1
    BY FS_Singleton, Zenon
  <2>3. IsFiniteSet(1 .. PerTarget) /\ Cardinality(1 .. PerTarget) = PerTarget
    BY ScaleNumbers, FS_Interval
  <2>4. Cardinality({t} \X (1 .. PerTarget)) = 1 * PerTarget
    <3>1. Cardinality({t} \X (1 .. PerTarget)) = Cardinality({t}) * Cardinality(1 .. PerTarget)
      BY <2>2, <2>3, FS_Product, Zenon
    <3>2. QED
      BY <2>2, <2>3, <3>1
  <2>5. 1 * PerTarget = PerTarget
    BY ScaleNumbers
  <2>6. QED
    BY <2>1, <2>4, <2>5, SameCardinality, Zenon DEF PerTarget
<1>5. IInv => CountsEachPodOnce
  BY <1>1, <1>2, <1>3, <1>4, Zenon DEF IInv, CountsEachPodOnce, ScaleUp!CountsEachPodOnce
<1>6. QED
  BY <1>5, IInvariance, PTL
=============================================================================
