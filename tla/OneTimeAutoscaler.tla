-------------------------- MODULE OneTimeAutoscaler --------------------------
(***************************************************************************)
(* The one-time autoscaler (pkg/autoscaler/onetime.go): the first request  *)
(* of a target scales its deployment to initialScale, in a goroutine of    *)
(* its own, with DeploymentScaler.Scale; nothing scales it again, and      *)
(* nobody else scales the deployments.                                     *)
(***************************************************************************)
EXTENDS Naturals

CONSTANTS
    Keys,               \* targets
    InitialScale,       \* initialScale
    StartScales         \* replicas the deployments may start with

VARIABLES
    seen,               \* the targets in seen
    call,               \* per target, where its Scale call is
    spec,               \* per target, spec.replicas
    terminating,        \* deployments that are being deleted
    failed              \* targets whose Scale call failed

vars == <<seen, call, spec, terminating, failed>>

TypeOK ==
    /\ seen \subseteq Keys
    /\ call \in [Keys -> {"none", "get", "update"}]
    /\ spec \in [Keys -> StartScales \cup {InitialScale}]
    /\ terminating \subseteq Keys
    /\ failed \subseteq seen

Init ==
    /\ seen = {}
    /\ call = [k \in Keys |-> "none"]
    /\ spec \in [Keys -> StartScales]
    /\ terminating = {}
    /\ failed = {}

----------------------------------------------------------------------------
\* ReqIn; seen is read and set under the lock.
ReqIn(k) ==
    /\ k \notin seen
    /\ seen' = seen \cup {k}
    /\ call' = [call EXCEPT ![k] = "get"]
    /\ UNCHANGED <<spec, terminating, failed>>

ReturnIfEnough(k) ==
    /\ call[k] = "get"
    /\ k \notin terminating
    /\ call' = [call EXCEPT ![k] = IF spec[k] >= InitialScale THEN "none" ELSE "update"]
    /\ UNCHANGED <<seen, spec, terminating, failed>>

\* Scale: the deployment has the number already, or is to be updated.
Compare(k) ==
    /\ call[k] = "get"
    /\ k \notin terminating
    /\ call' = [call EXCEPT ![k] = IF spec[k] = InitialScale THEN "none" ELSE "update"]
    /\ UNCHANGED <<seen, spec, terminating, failed>>

\* The update of the scale subresource carries no resource version.
Update(k) ==
    /\ call[k] = "update"
    /\ call' = [call EXCEPT ![k] = "none"]
    /\ spec' = [spec EXCEPT ![k] = InitialScale]
    /\ UNCHANGED <<seen, terminating, failed>>

\* Get fails, the deployment is being deleted, or the update fails, even if it
\* was applied: the error is logged and the goroutine ends.
ScaleFails(k) ==
    /\ call[k] # "none"
    /\ call' = [call EXCEPT ![k] = "none"]
    /\ failed' = failed \cup {k}
    /\ \/ UNCHANGED spec
       \/ call[k] = "update" /\ spec' = [spec EXCEPT ![k] = InitialScale]
    /\ UNCHANGED <<seen, terminating>>

Delete(k) ==
    /\ k \notin terminating
    /\ terminating' = terminating \cup {k}
    /\ UNCHANGED <<seen, call, spec, failed>>

Next == \E k \in Keys : ReqIn(k) \/ Compare(k) \/ Update(k) \/ ScaleFails(k) \/ Delete(k)

Spec == Init /\ [][Next]_vars

\* The goroutine that ReqIn starts runs.
Fairness == \A k \in Keys : WF_vars(Compare(k) \/ Update(k) \/ ScaleFails(k))

----------------------------------------------------------------------------
(***************************************************************************)
(* The first request of a target is enough: the deployment gets its        *)
(* initial scale, from above or from below, unless that one call fails.    *)
(***************************************************************************)
FirstRequestScales == \A k \in Keys : k \in seen ~> spec[k] = InitialScale \/ k \in failed
=============================================================================
