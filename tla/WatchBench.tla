----------------------------- MODULE WatchBench -----------------------------
(***************************************************************************)
(* The Deployment benchmark (experiments/microbench/breakdown/deployment): *)
(* run watches every deployment over the controller manager's KubeDirect   *)
(* service, scales all of them, and reports when the watches return.  The  *)
(* autoscaler benchmark beside it has the same text.                       *)
(*                                                                         *)
(* The controller manager is external: a watch returns if its callback is  *)
(* installed when the deployment reaches its replicas, and may return or   *)
(* hang if it comes later.  The sleep before the scaling orders nothing.   *)
(***************************************************************************)
EXTENDS KdBench, Naturals, FiniteSets

CONSTANTS
    Targets,            \* deployments the selector matches
    MaxErrors           \* bound: requests that fail without a cancelled context

VARIABLES
    watch,              \* per deployment, its Watch call
    scale,              \* per deployment, its scale request
    reached             \* deployments that have their replicas

run == <<phase, cancelled, client>>
calls == <<watch, scale, reached>>
vars == <<run, calls>>

Failures ==
    {t \in Targets : watch[t] = "failed"} \cup
    {t \in Targets : scale[t] \in {"failed", "lost"}}
MayFail == cancelled \/ Cardinality(Failures) < MaxErrors

TypeOK ==
    /\ phase \in Ends \cup
          {"setup", "connecting", "watching", "sleeping", "scaling", "waiting"}
    /\ cancelled \in BOOLEAN
    /\ client \in BOOLEAN
    /\ watch \in [Targets -> {"idle", "sent", "installed", "fired", "returned", "failed"}]
    /\ scale \in [Targets -> {"idle", "sent", "applied", "failed", "lost"}]
    /\ reached \subseteq Targets

NoCalls ==
    /\ watch = [t \in Targets |-> "idle"]
    /\ scale = [t \in Targets |-> "idle"]
    /\ reached = {}

Init == Started /\ NoCalls
NotStarted == NeverStarted /\ NoCalls

----------------------------------------------------------------------------
(* run                                                                     *)

\* The deployments cannot be listed or do not fit the mode, or the poll for
\* ReplicaSets fails, as it does when the context is cancelled.
SetupFails == MoveOn("setup", "fatal") /\ UNCHANGED calls

ReplicaSetsExist == ~cancelled /\ MoveOn("setup", "connecting") /\ UNCHANGED calls

Connected == HandshakeDone("watching") /\ UNCHANGED calls
ConnectCancelled == PollCancelled("watching") /\ UNCHANGED calls

\* One goroutine per deployment calls kdClient.Client().
StartWatching ==
    /\ MoveOn("watching", IF client THEN "sleeping" ELSE "crashed")
    /\ watch' = [t \in Targets |-> IF client THEN "sent" ELSE "idle"]
    /\ UNCHANGED <<scale, reached>>

\* time.Sleep, then one goroutine per deployment updates its scale.
StartScaling ==
    /\ MoveOn("sleeping", "scaling")
    /\ scale' = [t \in Targets |-> "sent"]
    /\ UNCHANGED <<watch, reached>>

\* An update that returns an error was not applied ("failed"), or was and
\* the answer is lost.
ScaleReturns(t) ==
    /\ Running
    /\ scale[t] = "sent"
    /\ \/ scale' = [scale EXCEPT ![t] = "applied"]
       \/ /\ MayFail
          /\ \E outcome \in {"failed", "lost"} : scale' = [scale EXCEPT ![t] = outcome]
    /\ UNCHANGED <<run, watch, reached>>

\* scaleGroup.Wait, and the context is looked at.
ScaleGroupWait ==
    /\ \A t \in Targets : scale[t] \in {"applied", "failed", "lost"}
    /\ MoveOn("scaling", UnlessDone("waiting"))
    /\ UNCHANGED calls

\* watchGroup.Wait, and the context is looked at again.
WatchGroupWait ==
    /\ \A t \in Targets : watch[t] \in {"returned", "failed"}
    /\ MoveOn("waiting", UnlessDone("reported"))
    /\ UNCHANGED calls

Signal == Signalled /\ UNCHANGED calls

----------------------------------------------------------------------------
(* The controller manager, and the end of a Watch goroutine                *)

InstallCallback(t) ==
    /\ Running
    /\ watch[t] = "sent"
    /\ \/ watch' = [watch EXCEPT ![t] = "installed"]
       \/ t \in reached /\ watch' = [watch EXCEPT ![t] = "fired"]
    /\ UNCHANGED <<run, scale, reached>>

ReachReplicas(t) ==
    /\ Running
    /\ scale[t] \in {"applied", "lost"}
    /\ t \notin reached
    /\ reached' = reached \cup {t}
    /\ watch' = [watch EXCEPT ![t] = IF @ = "installed" THEN "fired" ELSE @]
    /\ UNCHANGED <<run, scale>>

WatchReturns(t) ==
    /\ Running
    /\ watch[t] = "fired"
    /\ watch' = [watch EXCEPT ![t] = "returned"]
    /\ UNCHANGED <<run, scale, reached>>

WatchIgnoresContext(t) ==
    /\ Running
    /\ watch[t] \in {"sent", "installed"}
    /\ ~cancelled /\ MayFail
    /\ watch' = [watch EXCEPT ![t] = "failed"]
    /\ UNCHANGED <<run, scale, reached>>

\* An error of the call, also the one of a cancelled context.
WatchFails(t) ==
    /\ Running
    /\ watch[t] \in {"sent", "installed"}
    /\ MayFail
    /\ watch' = [watch EXCEPT ![t] = "failed"]
    /\ UNCHANGED <<run, scale, reached>>

----------------------------------------------------------------------------
\* From the poll for the client to the end of run.
MeasureStep ==
    \/ Connected \/ ConnectCancelled
    \/ StartWatching \/ StartScaling \/ ScaleGroupWait \/ WatchGroupWait

Next ==
    \/ SetupFails \/ ReplicaSetsExist \/ MeasureStep \/ Signal
    \/ \E t \in Targets :
          \/ ScaleReturns(t) \/ InstallCallback(t) \/ ReachReplicas(t)
          \/ WatchReturns(t) \/ WatchFails(t)

Spec == Init /\ [][Next]_vars

\* Goroutines run, requests return, the controller reconciles, and a call
\* whose context is cancelled returns.
MeasureFairness ==
    /\ WF_vars(MeasureStep)
    /\ \A t \in Targets :
          /\ WF_vars(ScaleReturns(t))
          /\ WF_vars(InstallCallback(t))
          /\ WF_vars(ReachReplicas(t))
          /\ WF_vars(WatchReturns(t))
          /\ WF_vars(cancelled /\ WatchFails(t))

Fairness == WF_vars(SetupFails \/ ReplicaSetsExist) /\ MeasureFairness

FairSpec == Spec /\ Fairness

----------------------------------------------------------------------------
(***************************************************************************)
(* What is reported happened: no request is outstanding, and of the        *)
(* deployments counted in "RPC returned" each one was scaled, even if the  *)
(* update's answer was lost, and has its replicas.                         *)
(***************************************************************************)
ReportIsHonest ==
    phase = "reported" =>
        \A t \in Targets :
            /\ scale[t] # "sent"
            /\ watch[t] # "failed" => scale[t] \in {"applied", "lost"} /\ t \in reached

(***************************************************************************)
(* run ends, unless a scale request fails that was not applied, or a       *)
(* deployment has reached its replicas while its callback was still to be  *)
(* installed, which the sleep is there to prevent: such a watch may have   *)
(* nothing to wait for.                                                    *)
(***************************************************************************)
EndsUnlessMissed ==
    \/ <>(~Running)
    \/ <>(\E t \in Targets : scale[t] = "failed")
    \/ <>(\E t \in reached : watch[t] = "sent")

(***************************************************************************)
(* A cancelled context ends run, whatever failed before: unlike in the     *)
(* end-to-end benchmark, what both groups wait for uses the context.       *)
(***************************************************************************)
CancelEnds == cancelled ~> ~Running
=============================================================================
