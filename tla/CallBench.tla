----------------------------- MODULE CallBench -----------------------------
(***************************************************************************)
(* The ReplicaSet benchmark (experiments/microbench/breakdown/replicaset): *)
(* run makes one blocking Scale call per ReplicaSet to the controller      *)
(* manager, which answers when the pods are created, and reports when all  *)
(* of them have returned.                                                  *)
(***************************************************************************)
EXTENDS KdBench, Naturals, FiniteSets

CONSTANTS
    Targets,            \* ReplicaSets the selector matches
    MaxErrors           \* bound: calls that fail without a cancelled context

VARIABLES
    call,               \* per ReplicaSet, its call
    served              \* ReplicaSets the server has done the work for

run == <<phase, cancelled, client>>
vars == <<run, call, served>>

Failed == {t \in Targets : call[t] = "failed"}

TypeOK ==
    /\ phase \in Ends \cup {"setup", "connecting", "connected", "waiting"}
    /\ cancelled \in BOOLEAN
    /\ client \in BOOLEAN
    /\ call \in [Targets -> {"idle", "sent", "returned", "failed"}]
    /\ served \subseteq Targets

NoCalls == call = [t \in Targets |-> "idle"] /\ served = {}
Init == Started /\ NoCalls
NotStarted == NeverStarted /\ NoCalls

----------------------------------------------------------------------------
\* Nothing is selected, or it does not fit the mode.
SetupFails == MoveOn("setup", "fatal") /\ UNCHANGED <<call, served>>
TargetsFit == MoveOn("setup", "connecting") /\ UNCHANGED <<call, served>>

Connected == HandshakeDone("connected") /\ UNCHANGED <<call, served>>
ConnectCancelled == PollCancelled("connected") /\ UNCHANGED <<call, served>>

\* NewReplicaSetScalingRequest uses the client.
StartScaling ==
    /\ MoveOn("connected", IF client THEN "waiting" ELSE "crashed")
    /\ call' = [t \in Targets |-> IF client THEN "sent" ELSE "idle"]
    /\ UNCHANGED served

\* The server does the work, also after the caller has given up.
Serve(t) ==
    /\ Running
    /\ call[t] \in {"sent", "failed"}
    /\ t \notin served
    /\ served' = served \cup {t}
    /\ UNCHANGED <<run, call>>

ReturnUnserved(t) ==
    /\ Running
    /\ call[t] = "sent"
    /\ \/ call' = [call EXCEPT ![t] = "returned"]
       \/ /\ cancelled \/ Cardinality(Failed) < MaxErrors
          /\ call' = [call EXCEPT ![t] = "failed"]
    /\ UNCHANGED <<run, served>>

\* The goroutine counts a call without an error, and is done in any case.
CallReturns(t) ==
    /\ Running
    /\ call[t] = "sent"
    /\ \/ t \in served /\ call' = [call EXCEPT ![t] = "returned"]
       \/ /\ cancelled \/ Cardinality(Failed) < MaxErrors
          /\ call' = [call EXCEPT ![t] = "failed"]
    /\ UNCHANGED <<run, served>>

\* wg.Wait, and the context is looked at.
GroupWait ==
    /\ \A t \in Targets : call[t] \in {"returned", "failed"}
    /\ MoveOn("waiting", UnlessDone("reported"))
    /\ UNCHANGED <<call, served>>

Signal == Signalled /\ UNCHANGED <<call, served>>

----------------------------------------------------------------------------
Prepare == SetupFails \/ TargetsFit \/ Connected \/ ConnectCancelled \/ StartScaling
Call == \E t \in Targets : Serve(t) \/ CallReturns(t)

Next == Prepare \/ Call \/ GroupWait \/ Signal

\* Goroutines run, the server serves, and a call whose context is cancelled
\* returns.
CallFairness ==
    /\ WF_vars(Prepare)
    /\ \A t \in Targets : WF_vars(call[t] = "sent" /\ Serve(t)) /\ WF_vars(CallReturns(t))

Fairness == CallFairness /\ WF_vars(GroupWait)

----------------------------------------------------------------------------
(***************************************************************************)
(* What is reported happened: every call that "RPC returned" counts was    *)
(* served, and none is outstanding.                                        *)
(***************************************************************************)
ReportIsHonest ==
    phase = "reported" =>
        \A t \in Targets :
            /\ call[t] \in {"returned", "failed"}
            /\ call[t] = "returned" => t \in served

(***************************************************************************)
(* run ends: a call that fails or is cancelled is not waited for.          *)
(***************************************************************************)
AlwaysEnds == <>(~Running)
=============================================================================
