--------------------------- MODULE EndpointsBench ---------------------------
(***************************************************************************)
(* The Endpoints benchmark (experiments/microbench/breakdown/endpoints):   *)
(* run starts the pods of every service first, and then measures as the    *)
(* Deployment benchmark does, with the update of a service's selector in   *)
(* the place of a scale request ("scale"), and populated Endpoints in the  *)
(* place of a deployment with its replicas ("reached").                    *)
(***************************************************************************)
EXTENDS WatchBench

VARIABLE
    rs                  \* per service, the ReplicaSet of the same name

epVars == <<vars, rs>>

EpInit == Started /\ NoCalls /\ rs = [t \in Targets |-> "empty"]
EpNotStarted == NotStarted /\ rs = [t \in Targets |-> "empty"]

----------------------------------------------------------------------------
\* Services or ReplicaSets cannot be read, do not fit, or have replicas; a
\* scale request fails; a list fails or the context ends while pods start.
StartPodsFails ==
    /\ phase \in {"setup", "starting"}
    /\ MoveOn(phase, "fatal")
    /\ UNCHANGED <<calls, rs>>

ServicesFit == MoveOn("setup", "starting") /\ UNCHANGED <<calls, rs>>

\* The requests of the loop, one after the other.
ScaleUp(t) ==
    /\ phase = "starting"
    /\ ~cancelled
    /\ rs[t] = "empty"
    /\ rs' = [rs EXCEPT ![t] = "scaled"]
    /\ UNCHANGED vars

PodsStart(t) ==
    /\ Running
    /\ rs[t] = "scaled"
    /\ rs' = [rs EXCEPT ![t] = "ready"]
    /\ UNCHANGED vars

WaitForFirstReady ==
    /\ ~cancelled
    /\ \E t \in Targets : rs[t] = "ready"
    /\ MoveOn("starting", "connecting")
    /\ UNCHANGED <<calls, rs>>

\* ReadyReplicas has the number asked for in every ReplicaSet of the list.
\* The list has the ReplicaSets with the workload label, which the templates
\* set on the one of every service.
WaitForReadyPods ==
    /\ ~cancelled
    /\ \A t \in Targets : rs[t] = "ready"
    /\ MoveOn("starting", "connecting")
    /\ UNCHANGED <<calls, rs>>

\* The rest is as in the Deployment benchmark.
EpConnected == Connected
EpConnectCancelled == ConnectCancelled
WatchServices == StartWatching \/ \E t \in Targets : WatchReturns(t) \/ WatchFails(t)
UpdateSelectors == StartScaling \/ \E t \in Targets : ScaleReturns(t)
WaitForGroups == ScaleGroupWait \/ WatchGroupWait
PopulateEndpoints == \E t \in Targets : InstallCallback(t) \/ ReachReplicas(t)

EpNext ==
    \/ StartPodsFails \/ ServicesFit \/ WaitForReadyPods
    \/ \E t \in Targets : ScaleUp(t) \/ PodsStart(t)
    \/ /\ \/ EpConnected \/ EpConnectCancelled \/ WatchServices \/ UpdateSelectors
          \/ WaitForGroups \/ PopulateEndpoints \/ Signal
       /\ UNCHANGED rs

\* As in the Deployment benchmark, and pods become ready.
EpFairness ==
    /\ WF_epVars(ServicesFit \/ WaitForReadyPods \/ StartPodsFails)
    /\ \A t \in Targets : WF_epVars(ScaleUp(t)) /\ WF_epVars(PodsStart(t))
    /\ MeasureFairness

----------------------------------------------------------------------------
(***************************************************************************)
(* What is timed is the population of Endpoints alone: a selector is set,  *)
(* and Endpoints are reported, with the pods of every service ready.       *)
(***************************************************************************)
EpReportIsHonest ==
    /\ ReportIsHonest
    /\ (\E t \in Targets : scale[t] # "idle") => \A t \in Targets : rs[t] = "ready"
=============================================================================
