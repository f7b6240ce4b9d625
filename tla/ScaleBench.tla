----------------------------- MODULE ScaleBench -----------------------------
(***************************************************************************)
(* The end-to-end scaling benchmark (experiments/microbench/e2e): run      *)
(* scales every deployment up, the PodMonitor counts the pods that become  *)
(* ready off a WaitGroup, and the latency is reported when it is zero.     *)
(*                                                                         *)
(* Done is two steps, the entry in seen and the WaitGroup, because Since   *)
(* reads seen without the mutex that Done holds.  Deployments, pods and    *)
(* the informer are external.  The manager runs under the context of run:  *)
(* once that is cancelled, events may stop coming.                         *)
(***************************************************************************)
EXTENDS Integers, FiniteSets

CONSTANTS
    Targets,            \* deployments the selector matches
    NPods,              \* the -n flag
    MaxFailures,        \* bound: pods that die and are replaced
    MaxErrors,          \* bound: scale requests that fail
    NoPod               \* the event handler is idle

\* nPodsPerTarget, and the pods that can ever exist.
PerTarget ==
    LET share == NPods \div Cardinality(Targets)
    IN  IF share = 0 THEN 1 ELSE share
Total == PerTarget * Cardinality(Targets)
Pods == Targets \X (1 .. PerTarget + MaxFailures)
Of(t) == {p \in Pods : p[1] = t}

VARIABLES
    phase,              \* where run is
    cancelled,          \* ctx is done
    watched,            \* deployments with an expectation
    seen,               \* pods recorded in the expectations
    counter,            \* the WaitGroup
    handler,            \* pod the monitor is in the middle of counting
    scale,              \* per deployment, its scale request
    pod,                \* per pod, its state in the API server
    pending             \* pods with a readiness event to deliver

vars == <<phase, cancelled, watched, seen, counter, handler, scale, pod, pending>>
cluster == <<pod, pending>>

In(s) == {p \in Pods : pod[p] = s}
Errors == {t \in Targets : scale[t] \in {"failed", "lost"}}
Running == phase \notin {"off", "reported", "cancelled", "crashed", "fatal"}

TypeOK ==
    /\ phase \in {"off", "setup", "ready", "scaling", "waiting", "reading",
                  "reported", "cancelled", "crashed", "fatal"}
    /\ cancelled \in BOOLEAN
    /\ watched \subseteq Targets
    /\ seen \subseteq Pods
    /\ counter \in -1 .. Total
    /\ handler \in Pods \cup {NoPod}
    /\ scale \in [Targets -> {"idle", "sent", "applied", "failed", "lost"}]
    /\ pod \in [Pods -> {"none", "created", "ready", "gone"}]
    /\ pending \subseteq Pods

Fresh ==
    /\ cancelled = FALSE
    /\ watched = {}
    /\ seen = {}
    /\ counter = 0
    /\ handler = NoPod
    /\ scale = [t \in Targets |-> "idle"]
    /\ pod = [p \in Pods |-> "none"]
    /\ pending = {}

Init == phase = "setup" /\ Fresh
NotStarted == phase = "off" /\ Fresh

----------------------------------------------------------------------------
(* run                                                                     *)

\* The manager, the list of deployments or the poll for ReplicaSets fails;
\* the poll also does when the context is cancelled.
SetupFails ==
    /\ phase = "setup"
    /\ phase' = "fatal"
    /\ UNCHANGED <<cancelled, watched, seen, counter, handler, scale, cluster>>

\* waitForReplicaSets found one for each deployment.
ReplicaSetsExist ==
    /\ phase = "setup"
    /\ ~cancelled
    /\ phase' = "ready"
    /\ UNCHANGED <<cancelled, watched, seen, counter, handler, scale, cluster>>

\* wg.Add and monitor.Watch for every deployment.
Watch ==
    /\ phase = "ready"
    /\ phase' = "scaling"
    /\ counter' = Total
    /\ watched' = Targets
    /\ UNCHANGED <<cancelled, seen, handler, scale, cluster>>

\* One goroutine per deployment; run goes on to wg.Wait.
StartScaling ==
    /\ phase = "scaling"
    /\ phase' = "waiting"
    /\ scale' = [t \in Targets |-> "sent"]
    /\ UNCHANGED <<cancelled, watched, seen, counter, handler, cluster>>

\* An update that returns an error was not applied ("failed"), or was and
\* the answer is lost.
ScaleReturns(t) ==
    /\ Running
    /\ scale[t] = "sent"
    /\ \/ scale' = [scale EXCEPT ![t] = "applied"]
       \/ /\ cancelled \/ Cardinality(Errors) < MaxErrors
          /\ \E outcome \in {"failed", "lost"} : scale' = [scale EXCEPT ![t] = outcome]
    /\ UNCHANGED <<phase, cancelled, watched, seen, counter, handler, cluster>>

\* wg.Wait returns; only now is the context looked at.
WaitReturns ==
    /\ phase = "waiting"
    /\ counter = 0
    /\ phase' = IF cancelled THEN "cancelled" ELSE "reading"
    /\ UNCHANGED <<cancelled, watched, seen, counter, handler, scale, cluster>>

PercentileIndex(n) == (90 * n) \div 100

\* Since: the 90th percentile of the times in seen.
Report ==
    /\ phase = "reading"
    /\ phase' = IF seen = {} \/ PercentileIndex(Cardinality(seen)) < Cardinality(seen)
                THEN "reported"
                ELSE "crashed"
    /\ UNCHANGED <<cancelled, watched, seen, counter, handler, scale, cluster>>

Signal ==
    /\ Running
    /\ ~cancelled
    /\ cancelled' = TRUE
    /\ UNCHANGED <<phase, watched, seen, counter, handler, scale, cluster>>

----------------------------------------------------------------------------
(* The monitor, whose handlers the informer calls one at a time.           *)

HandleEventRepeatedly(p) ==
    /\ Running
    /\ handler = NoPod
    /\ p \in pending
    /\ pending' = pending \ {p}
    /\ handler' = IF p[1] \in watched THEN p ELSE NoPod
    /\ seen' = IF p[1] \in watched THEN seen \cup {p} ELSE seen
    /\ UNCHANGED <<phase, cancelled, watched, counter, scale, pod>>

\* HandlePodEvent of a ready pod, and Done up to the entry in seen.
HandlePodEvent(p) ==
    /\ Running
    /\ handler = NoPod
    /\ p \in pending
    /\ pending' = pending \ {p}
    /\ IF p[1] \in watched /\ p \notin seen
       THEN handler' = p /\ seen' = seen \cup {p}
       ELSE UNCHANGED <<handler, seen>>
    /\ UNCHANGED <<phase, cancelled, watched, counter, scale, pod>>

\* s.wg.Done(), which panics below zero.
CountDone ==
    /\ Running
    /\ handler # NoPod
    /\ counter' = counter - 1
    /\ handler' = NoPod
    /\ phase' = IF counter = 0 THEN "crashed" ELSE phase
    /\ UNCHANGED <<cancelled, watched, seen, scale, cluster>>

----------------------------------------------------------------------------
(* The cluster                                                             *)

CreatePod(p) ==
    /\ Running
    /\ pod[p] = "none"
    /\ scale[p[1]] \in {"applied", "lost"}
    /\ Cardinality(Of(p[1]) \cap (In("created") \cup In("ready"))) < PerTarget
    /\ \A q \in Of(p[1]) : q[2] < p[2] => pod[q] # "none"
    /\ pod' = [pod EXCEPT ![p] = "created"]
    /\ UNCHANGED <<phase, cancelled, watched, seen, counter, handler, scale, pending>>

PodReady(p) ==
    /\ Running
    /\ pod[p] = "created"
    /\ pod' = [pod EXCEPT ![p] = "ready"]
    /\ pending' = pending \cup {p}
    /\ UNCHANGED <<phase, cancelled, watched, seen, counter, handler, scale>>

\* A later update or a resync of a pod that is still ready.
PodUpdated(p) ==
    /\ Running
    /\ pod[p] = "ready"
    /\ pending' = pending \cup {p}
    /\ UNCHANGED <<phase, cancelled, watched, seen, counter, handler, scale, pod>>

PodDies(p) ==
    /\ Running
    /\ pod[p] \in {"created", "ready"}
    /\ Cardinality(In("gone")) < MaxFailures
    /\ pod' = [pod EXCEPT ![p] = "gone"]
    /\ UNCHANGED <<phase, cancelled, watched, seen, counter, handler, scale, pending>>

----------------------------------------------------------------------------
RunStep == SetupFails \/ ReplicaSetsExist \/ Watch \/ StartScaling \/ WaitReturns \/ Report

Next ==
    \/ SetupFails \/ ReplicaSetsExist
    \/ Watch \/ StartScaling \/ WaitReturns \/ Report \/ Signal
    \/ \E t \in Targets : ScaleReturns(t)
    \/ CountDone
    \/ \E p \in Pods :
          HandlePodEvent(p) \/ CreatePod(p) \/ PodReady(p) \/ PodUpdated(p) \/ PodDies(p)

Spec == Init /\ [][Next]_vars

\* Goroutines run, requests return, the cluster does what it is asked, and
\* the informer delivers as long as the manager is not stopped.
Fairness ==
    /\ WF_vars(RunStep)
    /\ WF_vars(CountDone)
    /\ \A t \in Targets : WF_vars(ScaleReturns(t))
    /\ \A p \in Pods :
          /\ SF_vars(~cancelled /\ HandlePodEvent(p))
          /\ WF_vars(CreatePod(p)) /\ WF_vars(PodReady(p))

FairSpec == Spec /\ Fairness

----------------------------------------------------------------------------
(***************************************************************************)
(* The latency is reported only after as many different pods as were asked *)
(* for became ready, however often the informer repeats an event and       *)
(* whichever pods die on the way.                                          *)
(***************************************************************************)
ReportIsFull ==
    phase \in {"reading", "reported"} => Cardinality(seen) >= Total

(***************************************************************************)
(* Unless a pod is replaced, every deployment has contributed its share to *)
(* the report, the WaitGroup never goes below zero, and the map that Since *)
(* reads without the mutex is no longer written to.                        *)
(***************************************************************************)
CountsEachPodOnce ==
    In("gone") = {} =>
        /\ phase # "crashed"
        /\ phase = "reading" => handler = NoPod
        /\ phase \in {"reading", "reported"} =>
              \A t \in Targets : Cardinality(Of(t) \cap seen) = PerTarget

(***************************************************************************)
(* The benchmark ends, unless a scale request fails that was not applied,  *)
(* so that run waits for pods that never come, or a signal stops the       *)
(* manager, which delivers the events, while run sits in wg.Wait.  Neither *)
(* a lost answer nor a pod that dies keeps run waiting.                    *)
(***************************************************************************)
EndsUnlessScaleFails ==
    <>(~Running) \/ <>(\E t \in Targets : scale[t] = "failed") \/ <>cancelled
=============================================================================
