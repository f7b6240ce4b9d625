--------------------------- MODULE PodDispatcher ---------------------------
(***************************************************************************)
(* The pod dispatcher of one target of the k8s gateway                     *)
(* (pkg/gateway/dispatcher/pod.go), with the reconciler that feeds it      *)
(* (k8sGateway.Reconcile, pkg/gateway/k8s.go).                             *)
(*                                                                         *)
(* Three kinds of process share the endpoint map and the token channel:    *)
(*   - Run, which starts one Dispatch goroutine per request it receives    *)
(*     until its context is cancelled;                                     *)
(*   - the Dispatch goroutines, which take a token, look its endpoint up,  *)
(*     execute the request there and give the token back;                  *)
(*   - the reconciler, which adds and removes endpoints as pods become     *)
(*     ready and stop being ready.                                         *)
(* The controller runtime never reconciles one target twice at a time.     *)
(***************************************************************************)
EXTENDS Naturals, FiniteSets

CONSTANTS
    Keys,               \* endpoint keys, "podName@ip:port"
    Requests,           \* requests the relay hands to this dispatcher
    Concurrency,        \* podServiceConcurrency
    MaxReady,           \* bound: how often one pod becomes ready
    MaxListErrors       \* bound: how often listing the pods fails

ASSUME ConcurrencyAssumption == Concurrency \in Nat \ {0}
ASSUME BoundsAssumption == MaxReady \in Nat /\ MaxListErrors \in Nat
ASSUME RequestsAssumption == IsFiniteSet(Requests)

VARIABLES
    deployed,           \* the target deployment exists
    readyPods,          \* keys of the pods the API cache shows as ready
    becameReady,        \* per key, how often its pod became ready
    listErrors,         \* how often List failed so far
    queued,             \* a reconcile request of this target is queued
    reconciling,        \* pd.Reconcile is running
    adding,             \* add goroutines that still have to build a backend
    pushing,            \* add goroutines between endpoints.Set and the tokens
    removing,           \* the part of del that is still to be removed
    failed,             \* some add goroutine reported an error
    endpoints,          \* keys of pd.endpoints
    tokens,             \* per key, how many of its tokens are in pd.tokens
    run,                \* Run is running, its context is cancelled, or it stopped
    job,                \* per request, where it is
    jobKey,             \* per request, the keys of the token it holds (0 or 1)
    orphaned            \* requests on an executor that Close is draining

podVars == <<deployed, readyPods, becameReady, listErrors>>
recVars == <<reconciling, adding, pushing, removing, failed>>
jobVars == <<run, job, jobKey, orphaned>>
vars == <<podVars, queued, recVars, endpoints, tokens, jobVars>>

(***************************************************************************)
(* A request is first outside, then in reqChan, then owned by a Dispatch   *)
(* goroutine that is in its select ("waiting"), has received a token and   *)
(* not yet looked it up ("checking"), runs on the backend ("executing"),   *)
(* has to give its token back ("returning") or has to send its response    *)
(* ("replying"), and last its response is in resChan.                      *)
(***************************************************************************)
Stages == {"outside", "buffered", "waiting", "checking", "executing",
           "returning", "replying", "responded"}
HoldingStages == {"checking", "executing", "returning"}

TypeOK ==
    /\ deployed \in BOOLEAN
    /\ readyPods \subseteq Keys
    /\ becameReady \in [Keys -> 0..MaxReady]
    /\ listErrors \in 0..MaxListErrors
    /\ queued \in BOOLEAN
    /\ reconciling \in BOOLEAN
    /\ adding \subseteq Keys
    /\ pushing \subseteq Keys
    /\ removing \subseteq Keys
    /\ failed \in BOOLEAN
    /\ endpoints \subseteq Keys
    /\ tokens \in [Keys -> Nat]
    /\ run \in {"running", "cancelled", "stopped"}
    /\ job \in [Requests -> Stages]
    /\ jobKey \in [Requests -> SUBSET Keys]
    /\ orphaned \subseteq Requests

\* Requests whose goroutine owns a token of k, and those running on its pod.
Holders(k) == {r \in Requests : job[r] \in HoldingStages /\ k \in jobKey[r]}
Executing(k) == {r \in Requests : job[r] = "executing" /\ k \in jobKey[r]}

Init ==
    /\ deployed = TRUE
    /\ readyPods = {}
    /\ becameReady = [k \in Keys |-> 0]
    /\ listErrors = 0
    /\ queued = FALSE
    /\ reconciling = FALSE
    /\ adding = {}
    /\ pushing = {}
    /\ removing = {}
    /\ failed = FALSE
    /\ endpoints = {}
    /\ tokens = [k \in Keys |-> 0]
    /\ run = "running"
    /\ job = [r \in Requests |-> "outside"]
    /\ jobKey = [r \in Requests |-> {}]
    /\ orphaned = {}

----------------------------------------------------------------------------
(* The cluster.  Every change of a pod, and the deletion of the            *)
(* deployment, queue a reconcile request.                                  *)

PodReady(k) ==
    /\ k \notin readyPods
    /\ becameReady[k] < MaxReady
    /\ readyPods' = readyPods \cup {k}
    /\ becameReady' = [becameReady EXCEPT ![k] = @ + 1]
    /\ queued' = TRUE
    /\ UNCHANGED <<deployed, listErrors, recVars, endpoints, tokens, jobVars>>

PodUnready(k) ==
    /\ k \in readyPods
    /\ readyPods' = readyPods \ {k}
    /\ queued' = TRUE
    /\ UNCHANGED <<deployed, becameReady, listErrors, recVars, endpoints, tokens, jobVars>>

DeleteDeployment ==
    /\ deployed
    /\ deployed' = FALSE
    /\ queued' = TRUE
    /\ UNCHANGED <<readyPods, becameReady, listErrors, recVars, endpoints, tokens, jobVars>>

----------------------------------------------------------------------------
(* k8sGateway.Reconcile and pd.Reconcile                                   *)

\* The deployment is gone: the request is dropped and the endpoints stay.
\* (Any other error of Get only queues the request again.)
ReconcileNotFound ==
    /\ queued
    /\ ~reconciling
    /\ ~deployed
    /\ queued' = FALSE
    /\ UNCHANGED <<podVars, recVars, endpoints, tokens, jobVars>>

BeginReconcile(listed) ==
    /\ queued
    /\ ~reconciling
    /\ deployed
    /\ queued' = FALSE
    /\ reconciling' = TRUE
    /\ adding' = listed \ endpoints
    /\ removing' = endpoints \ listed
    /\ failed' = FALSE
    /\ UNCHANGED <<pushing, deployed, readyPods, becameReady, endpoints, tokens, jobVars>>

Reconcile ==
    /\ BeginReconcile(readyPods)
    /\ UNCHANGED listErrors

\* An error of List is logged and not returned: the loop over the (empty)
\* result runs all the same and no pod counts as ready.
ReconcileListError ==
    /\ listErrors < MaxListErrors
    /\ BeginReconcile({})
    /\ listErrors' = listErrors + 1

\* One add goroutine: NewBackend and endpoints.Set ...
AddEndpoint(k) ==
    /\ k \in adding
    /\ adding' = adding \ {k}
    /\ pushing' = pushing \cup {k}
    /\ endpoints' = endpoints \cup {k}
    /\ UNCHANGED <<podVars, queued, reconciling, removing, failed, tokens, jobVars>>

\* ... or an error of NewBackend ...
AddFails(k) ==
    /\ k \in adding
    /\ adding' = adding \ {k}
    /\ failed' = TRUE
    /\ UNCHANGED <<podVars, queued, reconciling, pushing, removing, endpoints, tokens, jobVars>>

PushTokensOneMore(k) ==
    /\ k \in pushing
    /\ pushing' = pushing \ {k}
    /\ tokens' = [tokens EXCEPT ![k] = @ + Concurrency + 1]
    /\ UNCHANGED <<podVars, queued, reconciling, adding, removing, failed, endpoints, jobVars>>

\* ... and, after Set, podServiceConcurrency sends on the token channel.
PushTokens(k) ==
    /\ k \in pushing
    /\ pushing' = pushing \ {k}
    /\ tokens' = [tokens EXCEPT ![k] = @ + Concurrency]
    /\ UNCHANGED <<podVars, queued, reconciling, adding, removing, failed, endpoints, jobVars>>

\* endpoints.Del and go executor.Close(), which takes the slots that the
\* requests on this executor may still have to wait for (GrpcBackend).
RemoveEndpoint(k) ==
    /\ k \in removing
    /\ removing' = removing \ {k}
    /\ endpoints' = endpoints \ {k}
    /\ orphaned' = orphaned \cup Executing(k)
    /\ UNCHANGED <<podVars, queued, reconciling, adding, pushing, failed, tokens,
                   run, job, jobKey>>

EndReconcileIgnoringErrors ==
    /\ reconciling
    /\ adding = {} /\ pushing = {} /\ removing = {}
    /\ reconciling' = FALSE
    /\ UNCHANGED <<podVars, queued, adding, pushing, removing, failed, endpoints, tokens, jobVars>>

\* wg.Wait, and the controller's retry when Reconcile returned an error.
EndReconcile ==
    /\ reconciling
    /\ adding = {} /\ pushing = {} /\ removing = {}
    /\ reconciling' = FALSE
    /\ queued' = (queued \/ failed)
    /\ UNCHANGED <<podVars, adding, pushing, removing, failed, endpoints, tokens, jobVars>>

----------------------------------------------------------------------------
(* Run, Dispatch and dispatch                                              *)

MoveJob(r, from, to) ==
    /\ job[r] = from
    /\ job' = [job EXCEPT ![r] = to]
    /\ orphaned' = orphaned \ {r}
    /\ UNCHANGED <<podVars, queued, recVars, endpoints, run>>

\* The relay sends a request on reqChan.
Submit(r) ==
    /\ MoveJob(r, "outside", "buffered")
    /\ UNCHANGED <<tokens, jobKey>>

\* Run receives it and starts a Dispatch goroutine.
StartDispatch(r) ==
    /\ run # "stopped"
    /\ MoveJob(r, "buffered", "waiting")
    /\ UNCHANGED <<tokens, jobKey>>

\* main cancels the context; the select of Run picks any ready case.
CancelContext ==
    /\ run = "running"
    /\ run' = "cancelled"
    /\ UNCHANGED <<podVars, queued, recVars, endpoints, tokens, job, jobKey, orphaned>>

RunReturns ==
    /\ run = "cancelled"
    /\ run' = "stopped"
    /\ UNCHANGED <<podVars, queued, recVars, endpoints, tokens, job, jobKey, orphaned>>

TakeAbsentToken(r, k) ==
    /\ MoveJob(r, "waiting", "checking")
    /\ tokens' = [tokens EXCEPT ![k] = @ - 1]
    /\ jobKey' = [jobKey EXCEPT ![r] = {k}]

\* dispatch: the select receives a token.
TakeToken(r, k) ==
    /\ MoveJob(r, "waiting", "checking")
    /\ tokens[k] > 0
    /\ tokens' = [tokens EXCEPT ![k] = @ - 1]
    /\ jobKey' = [jobKey EXCEPT ![r] = {k}]

\* dispatch: the token's endpoint is looked up; a token of a removed pod is
\* discarded and the loop starts over.
CheckToken(r) ==
    /\ IF jobKey[r] \subseteq endpoints
       THEN MoveJob(r, "checking", "executing") /\ UNCHANGED jobKey
       ELSE MoveJob(r, "checking", "waiting") /\ jobKey' = [jobKey EXCEPT ![r] = {}]
    /\ UNCHANGED tokens

DispatchWithoutTimeout(r) ==
    /\ FALSE
    /\ MoveJob(r, "waiting", "replying")
    /\ UNCHANGED <<tokens, jobKey>>

\* dispatch: the select sees the timeout, or the cancelled context that it
\* was derived from; Dispatch answers FAIL_DISPATCH.
DispatchTimeout(r) ==
    /\ MoveJob(r, "waiting", "replying")
    /\ UNCHANGED <<tokens, jobKey>>

\* Dispatch: Execute returns, whatever the status of its response.
ExecuteReturns(r) ==
    /\ MoveJob(r, "executing", "returning")
    /\ UNCHANGED <<tokens, jobKey>>

ReturnNoToken(r) ==
    /\ MoveJob(r, "returning", "replying")
    /\ jobKey' = [jobKey EXCEPT ![r] = {}]
    /\ UNCHANGED tokens

\* Dispatch: the token goes back, before the response is sent.
ReturnToken(r) ==
    /\ MoveJob(r, "returning", "replying")
    /\ tokens' = [k \in Keys |-> IF k \in jobKey[r] THEN tokens[k] + 1 ELSE tokens[k]]
    /\ jobKey' = [jobKey EXCEPT ![r] = {}]

Reply(r) ==
    /\ MoveJob(r, "replying", "responded")
    /\ UNCHANGED <<tokens, jobKey>>

----------------------------------------------------------------------------
ReconcileStep ==
    \/ ReconcileNotFound
    \/ Reconcile
    \/ ReconcileListError
    \/ \E k \in Keys : AddEndpoint(k) \/ AddFails(k) \/ PushTokens(k) \/ RemoveEndpoint(k)
    \/ EndReconcile

DispatchStep(r) ==
    \/ StartDispatch(r)
    \/ \E k \in Keys : TakeToken(r, k)
    \/ CheckToken(r)
    \/ DispatchTimeout(r)
    \/ ExecuteReturns(r)
    \/ ReturnToken(r)
    \/ Reply(r)

Next ==
    \/ \E k \in Keys : PodReady(k) \/ PodUnready(k)
    \/ DeleteDeployment
    \/ CancelContext \/ RunReturns
    \/ ReconcileStep
    \/ \E r \in Requests : Submit(r) \/ DispatchStep(r)

Spec == Init /\ [][Next]_vars

(***************************************************************************)
(* The Dispatch goroutines are scheduled again and again, contexts expire, *)
(* and Execute on a registered endpoint returns once its context does      *)
(* (EveryCallReturns of GrpcBackend).  On an executor that is being closed *)
(* it may wait for a slot for ever.  Nothing is assumed about pods, the    *)
(* reconciler and the context.                                             *)
(***************************************************************************)
Fairness == \A r \in Requests : WF_vars(r \notin orphaned /\ DispatchStep(r))

FairSpec == Spec /\ Fairness

----------------------------------------------------------------------------
(***************************************************************************)
(* No lost capacity: whatever the interleaving of discarded tokens,        *)
(* removals and re-additions, a registered endpoint whose add goroutine is *)
(* done owns at least podServiceConcurrency tokens, each of them in the    *)
(* token channel or with a Dispatch goroutine.  A pod that lost one would  *)
(* stay idle for the rest of the run.                                      *)
(***************************************************************************)
NoLostCapacity ==
    \A k \in endpoints \ pushing :
        tokens[k] + Cardinality(Holders(k)) >= Concurrency

(***************************************************************************)
(* Tokens of a key come only from its additions: there are at most         *)
(* podServiceConcurrency of them for every time its pod became ready and   *)
(* for every failed List, which empties the endpoint map and makes the     *)
(* next reconcile add every ready pod once more.                           *)
(***************************************************************************)
TokenBound ==
    \A k \in Keys :
        tokens[k] + Cardinality(Holders(k)) <= Concurrency * (becameReady[k] + listErrors)

(***************************************************************************)
(* When no reconcile is queued or running, the dispatcher's endpoints are  *)
(* the ready pods: a pod event during a reconcile and a failed NewBackend  *)
(* are both followed by another reconcile.  (After a failed List nothing   *)
(* is queued, and without the deployment nothing is reconciled, so this is *)
(* only claimed while neither has happened.)                               *)
(***************************************************************************)
EndpointsFollowPods ==
    ~queued /\ ~reconciling /\ deployed /\ listErrors = 0 => endpoints = readyPods

(***************************************************************************)
(* A pod serves at most podServiceConcurrency requests at a time, "default *)
(* to concurrency 1" (k8s.go:119).                                         *)
(***************************************************************************)
ServiceConcurrency ==
    \A k \in Keys : Cardinality(Executing(k)) <= Concurrency

(***************************************************************************)
(* Every request that reaches reqChan is answered on resChan: by its pod,  *)
(* or with FAIL_DISPATCH when the dispatch timeout expires first.  Only    *)
(* two things can keep it from that: Run has returned before receiving it, *)
(* or its endpoint was removed while it was executing there.               *)
(***************************************************************************)
EveryRequestAnswered ==
    \A r \in Requests :
        job[r] = "buffered" ~>
            \/ job[r] = "responded"
            \/ job[r] = "buffered" /\ run = "stopped"
            \/ r \in orphaned
=============================================================================
