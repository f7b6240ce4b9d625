------------------------------ MODULE BindBench ------------------------------
(***************************************************************************)
(* The kubelet benchmark (experiments/microbench/breakdown/kubelet): run   *)
(* shakes hands with a kubelet, binds pods to its node and reports when    *)
(* the monitor has seen each of them become ready, or deleted.             *)
(*                                                                         *)
(* The kubelet and the API server are external here: a BindPod call may    *)
(* fail although the pod was bound, or is bound later, and a bound pod is  *)
(* created, becomes ready and may be deleted at any time.  The manager     *)
(* runs under the context of run: once that is cancelled, events may stop  *)
(* coming.                                                                 *)
(***************************************************************************)
EXTENDS KdBench, Integers, FiniteSets

CONSTANTS
    Pods,               \* pods that run binds
    Others,             \* pods of the same owner from somewhere else
    MaxErrors           \* bound: BindPod calls that fail on their own

VARIABLES
    desired,            \* pods of the expectation, empty before Watch
    done,               \* those with a time
    counter,            \* the WaitGroup
    bind,               \* per pod, its BindPod call
    bound,              \* pods the kubelet has accepted
    pod,                \* per pod, its state in the API server
    pending             \* pods with an event for the monitor

run == <<phase, cancelled, client>>
expectation == <<desired, done, counter>>
cluster == <<bound, pod, pending>>
vars == <<run, expectation, bind, cluster>>

Any == Pods \cup Others
Failed == {p \in Pods : bind[p] = "failed"}

TypeOK ==
    /\ phase \in Ends \cup {"setup", "connecting", "connected", "binding", "waiting"}
    /\ cancelled \in BOOLEAN
    /\ client \in BOOLEAN
    /\ desired \in {{}, Pods}
    /\ done \subseteq desired
    /\ counter \in 0 .. Cardinality(Pods)
    /\ bind \in [Pods -> {"idle", "sent", "bound", "failed"}]
    /\ bound \subseteq Pods
    /\ pod \in [Any -> {"none", "created", "ready", "gone"}]
    /\ pending \subseteq Any

Fresh ==
    /\ desired = {}
    /\ done = {}
    /\ counter = 0
    /\ bind = [p \in Pods |-> "idle"]
    /\ bound = {}
    /\ pod = [p \in Any |-> IF p \in Pods THEN "none" ELSE "created"]
    /\ pending = {}

Init == Started /\ Fresh
NotStarted == NeverStarted /\ Fresh

----------------------------------------------------------------------------
(* run                                                                     *)

\* The manager does not start, or the template pod is missing or wrong.
SetupFails == MoveOn("setup", "fatal") /\ UNCHANGED <<expectation, bind, cluster>>
TemplateFits == MoveOn("setup", "connecting") /\ UNCHANGED <<expectation, bind, cluster>>

\* The lister misses the service address among the node's annotations.
NoServiceAddress ==
    MoveOn("connecting", "fatal") /\ UNCHANGED <<expectation, bind, cluster>>

Connected == HandshakeDone("connected") /\ UNCHANGED <<expectation, bind, cluster>>
ConnectCancelled == PollCancelled("connected") /\ UNCHANGED <<expectation, bind, cluster>>

\* newBindingRequests uses the client; then wg.Add and monitor.Watch.
Watch ==
    /\ MoveOn("connected", IF client THEN "binding" ELSE "crashed")
    /\ desired' = IF client THEN Pods ELSE {}
    /\ counter' = Cardinality(desired')
    /\ UNCHANGED <<done, bind, cluster>>

StartBinding ==
    /\ MoveOn("binding", "waiting")
    /\ bind' = [p \in Pods |-> "sent"]
    /\ UNCHANGED <<expectation, cluster>>

BindReturns(p) ==
    /\ Running
    /\ bind[p] = "sent"
    /\ p \in bound
    /\ bind' = [bind EXCEPT ![p] = "bound"]
    /\ UNCHANGED <<run, expectation, cluster>>

FailIsDone(p) ==
    /\ Running
    /\ bind[p] = "sent"
    /\ cancelled \/ Cardinality(Failed) < MaxErrors
    /\ bind' = [bind EXCEPT ![p] = "failed"]
    /\ counter' = counter - 1
    /\ UNCHANGED <<run, desired, done, cluster>>

\* The error is logged; nothing is taken off the WaitGroup.
BindFails(p) ==
    /\ Running
    /\ bind[p] = "sent"
    /\ cancelled \/ Cardinality(Failed) < MaxErrors
    /\ bind' = [bind EXCEPT ![p] = "failed"]
    /\ UNCHANGED <<run, expectation, cluster>>

\* wg.Wait, the context, and Since, which locks the expectation.
Report ==
    /\ counter = 0
    /\ MoveOn("waiting", UnlessDone("reported"))
    /\ UNCHANGED <<expectation, bind, cluster>>

Signal == Signalled /\ UNCHANGED <<expectation, bind, cluster>>

----------------------------------------------------------------------------
(* The monitor                                                             *)

CountsReadyOnly(p) == p \in desired /\ p \notin done /\ pod[p] = "ready"

\* The key is in desired and its time is still zero.
Counts(p) == p \in desired /\ p \notin done

\* HandlePodEvent of a ready or a deleted pod, with all of Done.
HandlePodEvent(p) ==
    /\ Running
    /\ p \in pending
    /\ pending' = pending \ {p}
    /\ IF Counts(p)
       THEN done' = done \cup {p} /\ counter' = counter - 1
       ELSE UNCHANGED <<done, counter>>
    /\ UNCHANGED <<run, desired, bind, bound, pod>>

----------------------------------------------------------------------------
(* The kubelet and the API server                                          *)

AcceptBind(p) ==
    /\ Running
    /\ bind[p] \in {"sent", "failed"}
    /\ p \notin bound
    /\ bound' = bound \cup {p}
    /\ UNCHANGED <<run, expectation, bind, pod, pending>>

CreatePod(p) ==
    /\ Running
    /\ p \in bound
    /\ pod[p] = "none"
    /\ pod' = [pod EXCEPT ![p] = "created"]
    /\ UNCHANGED <<run, expectation, bind, bound, pending>>

PodReady(p) ==
    /\ Running
    /\ pod[p] = "created"
    /\ pod' = [pod EXCEPT ![p] = "ready"]
    /\ pending' = pending \cup {p}
    /\ UNCHANGED <<run, expectation, bind, bound>>

PodDeleted(p) ==
    /\ Running
    /\ pod[p] \in {"created", "ready"}
    /\ pod' = [pod EXCEPT ![p] = "gone"]
    /\ pending' = pending \cup {p}
    /\ UNCHANGED <<run, expectation, bind, bound>>

----------------------------------------------------------------------------
RunStep ==
    \/ SetupFails \/ TemplateFits \/ NoServiceAddress
    \/ Connected \/ ConnectCancelled
    \/ Watch \/ StartBinding \/ Report

Next ==
    \/ RunStep \/ Signal
    \/ \E p \in Pods :
          BindReturns(p) \/ BindFails(p) \/ AcceptBind(p) \/ CreatePod(p)
    \/ \E p \in Any : HandlePodEvent(p) \/ PodReady(p) \/ PodDeleted(p)

Spec == Init /\ [][Next]_vars

\* Goroutines run, the informer delivers as long as the manager is not
\* stopped, and the kubelet starts the pods it has accepted.
Fairness ==
    /\ WF_vars(RunStep)
    /\ \A p \in Pods :
          /\ WF_vars(bind[p] = "sent" /\ AcceptBind(p)) /\ WF_vars(BindReturns(p))
          /\ WF_vars(CreatePod(p)) /\ WF_vars(PodReady(p))
          /\ WF_vars(~cancelled /\ HandlePodEvent(p))

FairSpec == Spec /\ Fairness

----------------------------------------------------------------------------
(***************************************************************************)
(* The report is about the pods that run has bound: each of them was bound *)
(* and has been ready or deleted, whatever BindPod answered, and no pod    *)
(* from somewhere else was counted for one of them.                        *)
(***************************************************************************)
ReportIsAboutOwnPods ==
    phase = "reported" => done = Pods /\ \A p \in Pods : p \in bound /\ pod[p] \in {"ready", "gone"}

(***************************************************************************)
(* The benchmark ends, unless a BindPod call fails and its pod is never    *)
(* bound, or a signal stops the manager, which delivers the events, while  *)
(* run sits in wg.Wait.  A lost answer alone does not keep run waiting,    *)
(* nor does a pod that is deleted before it is ready.                      *)
(***************************************************************************)
EndsUnlessBindFails == <>(~Running) \/ <>[](Failed \ bound # {}) \/ <>cancelled
=============================================================================
