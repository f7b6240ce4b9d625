---------------------------- MODULE MCMicrobench ----------------------------
(***************************************************************************)
(* The benchmarks of experiments/microbench, of which the scripts run one  *)
(* at a time: the end-to-end benchmark and the benchmarks of the single    *)
(* controllers.  The first state picks the one that is started.            *)
(***************************************************************************)
EXTENDS Integers, FiniteSets

CONSTANTS
    Targets,            \* deployments, services or ReplicaSets
    OneTarget,          \* the ReplicaSet of the scheduler benchmark
    NPods,              \* the -n flag of the end-to-end benchmark
    MaxFailures,        \* bound: pods replaced during the end-to-end benchmark
    MaxErrors,          \* bound: requests that fail on their own
    NoPod,              \* the pod monitor is idle
    BoundPods,          \* pods the kubelet benchmark binds
    Others              \* pods of the same owner from somewhere else

ASSUME BenchAssumption ==
    /\ IsFiniteSet(Targets) /\ Targets # {}
    /\ IsFiniteSet(BoundPods) /\ BoundPods # {}
    /\ BoundPods \cap Others = {}
    /\ NoPod \notin Targets \X Nat
    /\ {NPods, MaxFailures, MaxErrors} \subseteq Nat

VARIABLES
    sPhase, sCancelled, watched, seen, sCounter, handler, sScale, sPod, sPending,
    wPhase, wCancelled, wClient, wWatch, wScale, wReached,
    ePhase, eCancelled, eClient, eWatch, eScale, eReached, rs,
    rPhase, rCancelled, rClient, rCall, rServed,
    dPhase, dCancelled, dClient, dCall, dServed,
    bPhase, bCancelled, bClient, desired, done, bCounter, bind, bound, bPod, bPending

ScaleUp == INSTANCE ScaleBench WITH
    phase <- sPhase, cancelled <- sCancelled, counter <- sCounter,
    scale <- sScale, pod <- sPod, pending <- sPending

WatchUp == INSTANCE WatchBench WITH
    phase <- wPhase, cancelled <- wCancelled, client <- wClient,
    watch <- wWatch, scale <- wScale, reached <- wReached

EndpointsUp == INSTANCE EndpointsBench WITH
    phase <- ePhase, cancelled <- eCancelled, client <- eClient,
    watch <- eWatch, scale <- eScale, reached <- eReached

ReplicaSetUp == INSTANCE CallBench WITH
    phase <- rPhase, cancelled <- rCancelled, client <- rClient,
    call <- rCall, served <- rServed

SchedulerUp == INSTANCE SchedulerBench WITH
    Targets <- {OneTarget},
    phase <- dPhase, cancelled <- dCancelled, client <- dClient,
    call <- dCall, served <- dServed

BindUp == INSTANCE BindBench WITH
    Pods <- BoundPods,
    phase <- bPhase, cancelled <- bCancelled, client <- bClient,
    counter <- bCounter, pod <- bPod, pending <- bPending

scaleVars == <<sPhase, sCancelled, watched, seen, sCounter, handler, sScale, sPod, sPending>>
watchVars == <<wPhase, wCancelled, wClient, wWatch, wScale, wReached>>
endpointsVars == <<ePhase, eCancelled, eClient, eWatch, eScale, eReached, rs>>
replicaSetVars == <<rPhase, rCancelled, rClient, rCall, rServed>>
schedulerVars == <<dPhase, dCancelled, dClient, dCall, dServed>>
bindVars == <<bPhase, bCancelled, bClient, desired, done, bCounter, bind, bound, bPod, bPending>>
vars == <<scaleVars, watchVars, endpointsVars, replicaSetVars, schedulerVars, bindVars>>

Init ==
    \E bench \in {"e2e", "deployment", "endpoints", "replicaset", "scheduler", "kubelet"} :
        /\ IF bench = "e2e" THEN ScaleUp!Init ELSE ScaleUp!NotStarted
        /\ IF bench = "deployment" THEN WatchUp!Init ELSE WatchUp!NotStarted
        /\ IF bench = "endpoints" THEN EndpointsUp!EpInit ELSE EndpointsUp!EpNotStarted
        /\ IF bench = "replicaset" THEN ReplicaSetUp!Init ELSE ReplicaSetUp!NotStarted
        /\ IF bench = "scheduler" THEN SchedulerUp!Init ELSE SchedulerUp!NotStarted
        /\ IF bench = "kubelet" THEN BindUp!Init ELSE BindUp!NotStarted

Next ==
    \/ /\ ScaleUp!Next
       /\ UNCHANGED <<watchVars, endpointsVars, replicaSetVars, schedulerVars, bindVars>>
    \/ /\ WatchUp!Next
       /\ UNCHANGED <<scaleVars, endpointsVars, replicaSetVars, schedulerVars, bindVars>>
    \/ /\ EndpointsUp!EpNext
       /\ UNCHANGED <<scaleVars, watchVars, replicaSetVars, schedulerVars, bindVars>>
    \/ /\ ReplicaSetUp!Next
       /\ UNCHANGED <<scaleVars, watchVars, endpointsVars, schedulerVars, bindVars>>
    \/ /\ SchedulerUp!SchedNext
       /\ UNCHANGED <<scaleVars, watchVars, endpointsVars, replicaSetVars, bindVars>>
    \/ /\ BindUp!Next
       /\ UNCHANGED <<scaleVars, watchVars, endpointsVars, replicaSetVars, schedulerVars>>

Spec == Init /\ [][Next]_vars

FairSpec ==
    /\ Spec
    /\ ScaleUp!Fairness /\ WatchUp!Fairness /\ EndpointsUp!EpFairness
    /\ ReplicaSetUp!Fairness /\ SchedulerUp!SchedFairness /\ BindUp!Fairness

----------------------------------------------------------------------------
(***************************************************************************)
(* What a benchmark reports has happened: as many different pods as were   *)
(* asked for became ready, every target counted in "RPC returned" was      *)
(* scaled, populated or served, the pods of all services were ready before *)
(* their Endpoints were timed, and the pods timed by the kubelet benchmark *)
(* are the ones it bound.                                                  *)
(***************************************************************************)
ReportsAreHonest ==
    /\ ScaleUp!ReportIsFull
    /\ WatchUp!ReportIsHonest
    /\ EndpointsUp!EpReportIsHonest
    /\ ReplicaSetUp!ReportIsHonest
    /\ SchedulerUp!SchedReportIsHonest
    /\ BindUp!ReportIsAboutOwnPods

(***************************************************************************)
(* Unless a pod is replaced, the end-to-end benchmark's WaitGroup fits the *)
(* pods that become ready and the map that Since reads is not written to.  *)
(***************************************************************************)
CountsEachPodOnce == ScaleUp!CountsEachPodOnce

(***************************************************************************)
(* A benchmark ends unless one of its own requests fails for good, in the  *)
(* Deployment and the Endpoints benchmark a callback comes after the       *)
(* event, or, in the end-to-end and the kubelet benchmark, a signal stops  *)
(* the manager.  The two with blocking calls always end.                   *)
(***************************************************************************)
EndsUnlessRequestFails ==
    /\ ScaleUp!EndsUnlessScaleFails
    /\ WatchUp!EndsUnlessMissed
    /\ EndpointsUp!EndsUnlessMissed
    /\ ReplicaSetUp!AlwaysEnds
    /\ SchedulerUp!AlwaysEnds
    /\ BindUp!EndsUnlessBindFails

(***************************************************************************)
(* A cancelled context ends the Deployment and the Endpoints benchmark,    *)
(* whatever failed before.                                                 *)
(***************************************************************************)
CancelEnds == WatchUp!CancelEnds /\ EndpointsUp!CancelEnds
=============================================================================
