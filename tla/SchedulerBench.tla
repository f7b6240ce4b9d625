--------------------------- MODULE SchedulerBench ---------------------------
(***************************************************************************)
(* The scheduler benchmark (experiments/microbench/breakdown/scheduler):   *)
(* one blocking call of the shape of the ReplicaSet benchmark's, to the    *)
(* scheduler, made by run itself.  Targets has one element.                *)
(***************************************************************************)
EXTENDS CallBench

\* The template pod is missing or does not fit, or it is as expected.
CheckTemplate == SetupFails \/ TargetsFit

SchedulerFound == Connected
SchedulerNotFound == ConnectCancelled

RequestPods == StartScaling

\* An error ends run without a report; the context is not looked at again.
SchedulePods ==
    /\ \A t \in Targets : call[t] \in {"returned", "failed"}
    /\ MoveOn("waiting", IF Failed = {} THEN "reported" ELSE "failed")
    /\ UNCHANGED <<call, served>>

SchedNext ==
    \/ CheckTemplate \/ SchedulerFound \/ SchedulerNotFound
    \/ RequestPods \/ Call \/ SchedulePods \/ Signal
SchedFairness == CallFairness /\ WF_vars(SchedulePods)

----------------------------------------------------------------------------
(***************************************************************************)
(* There is a latency to report only if the pods were scheduled.           *)
(***************************************************************************)
SchedReportIsHonest == phase = "reported" => Targets \subseteq served
=============================================================================
