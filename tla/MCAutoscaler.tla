---------------------------- MODULE MCAutoscaler ----------------------------
(***************************************************************************)
(* The two autoscalers that NewK8sGateway knows, one of them at a time:    *)
(* KPA with one target and two workers, and one-time with two targets.     *)
(***************************************************************************)
EXTENDS Autoscaler

CONSTANTS OneTimeKeys, InitialScale, StartScales

VARIABLES framework, seen, call, spec, terminating, failed

OneTime == INSTANCE OneTimeAutoscaler WITH Keys <- OneTimeKeys

oneTimeVars == <<seen, call, spec, terminating, failed>>

\* The deployments of the one-time autoscaler start alike if it is not there.
MCInit ==
    /\ framework \in {"kpa", "one-time"}
    /\ Init
    /\ OneTime!Init
    /\ framework = "kpa" => spec = [k \in OneTimeKeys |-> InitialScale]
MCNext ==
    /\ UNCHANGED framework
    /\ \/ framework = "kpa" /\ Next /\ UNCHANGED oneTimeVars
       \/ framework = "one-time" /\ OneTime!Next /\ UNCHANGED vars
MCFairSpec ==
    MCInit /\ [][MCNext]_<<framework, vars, oneTimeVars>> /\ Fairness /\ OneTime!Fairness

\* The first request of a target gets it its initial scale, unless that one
\* call fails (OneTimeAutoscaler).
FirstRequestScales == OneTime!FirstRequestScales
=============================================================================
