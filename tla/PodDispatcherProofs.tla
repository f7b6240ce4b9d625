------------------------ MODULE PodDispatcherProofs ------------------------
(***************************************************************************)
(* Proofs about PodDispatcher, for every set of keys and requests and      *)
(* every positive podServiceConcurrency.                                   *)
(*                                                                         *)
(* The three safety properties are not inductive as they stand.  IInv adds *)
(*   JobKeyInv     a goroutine holds exactly one token between TakeToken   *)
(*                 and its return, and none otherwise;                     *)
(*   PhaseInv      what pd.Reconcile still has to add or remove, against   *)
(*                 the endpoint map;                                       *)
(*   SupplyInv     the token bound, counting what a reconcile in progress  *)
(*                 and the next one may still add;                         *)
(*   FollowInv     where the endpoint map will be once the reconcile in    *)
(*                 progress is done.                                       *)
(***************************************************************************)
EXTENDS PodDispatcher, FiniteSetTheorems, TLAPS

JobKeyInv ==
    \A r \in Requests :
        IF job[r] \in HoldingStages
        THEN \E k \in Keys : jobKey[r] = {k}
        ELSE jobKey[r] = {}

PhaseInv ==
    /\ ~reconciling => adding = {} /\ pushing = {} /\ removing = {}
    /\ adding \cap endpoints = {}
    /\ pushing \subseteq endpoints
    /\ removing \subseteq endpoints
    /\ removing \cap pushing = {}

\* k is being added, or is ready and missing from the map the next reconcile
\* will see.
Addable(k) == k \in adding \/ (k \in readyPods /\ (k \notin endpoints \/ k \in removing))

Owned(k) == tokens[k] + Cardinality(Holders(k))
Coming(k) == (IF k \in pushing THEN Concurrency ELSE 0)
                + (IF Addable(k) THEN Concurrency ELSE 0)

SupplyInv ==
    \A k \in Keys : Owned(k) + Coming(k) <= Concurrency * (becameReady[k] + listErrors)

FollowInv ==
    deployed /\ listErrors = 0 /\ ~queued =>
        IF reconciling
        THEN failed \/ (endpoints \ removing) \cup adding = readyPods
        ELSE endpoints = readyPods

IInv == TypeOK /\ JobKeyInv /\ PhaseInv /\ NoLostCapacity /\ SupplyInv /\ FollowInv

----------------------------------------------------------------------------
(* Type correctness.                                                       *)

\* The initial state has the declared types.
LEMMA InitTypeOK == Init => TypeOK
<1> SUFFICES ASSUME Init PROVE TypeOK
  OBVIOUS
<1> USE DEF Init, Stages
<1>1. becameReady \in [Keys -> 0..MaxReady] /\ listErrors \in 0..MaxListErrors
  BY BoundsAssumption
<1>2. tokens \in [Keys -> Nat] /\ job \in [Requests -> Stages] /\ jobKey \in [Requests -> SUBSET Keys]
  OBVIOUS
<1>3. QED
  BY <1>1, <1>2 DEF TypeOK

\* Every step keeps the types: in particular a token count never drops below
\* zero, because a token is received only when there is one.
LEMMA NextTypeOK == TypeOK /\ [Next]_vars => TypeOK'
<1> SUFFICES ASSUME TypeOK, [Next]_vars PROVE TypeOK'
  OBVIOUS
<1> USE ConcurrencyAssumption, BoundsAssumption DEF TypeOK, podVars, recVars, jobVars
<1>1. ASSUME NEW k \in Keys, PodReady(k) PROVE TypeOK'
  BY <1>1 DEF PodReady
<1>2. ASSUME NEW k \in Keys, PodUnready(k) PROVE TypeOK'
  BY <1>2 DEF PodUnready
<1>3. CASE Reconcile
  BY <1>3 DEF Reconcile, BeginReconcile
<1>4. CASE ReconcileListError
  <2>1. listErrors' \in 0..MaxListErrors
    BY <1>4 DEF ReconcileListError
  <2>2. QED
    BY <1>4, <2>1 DEF ReconcileListError, BeginReconcile
<1>5. ASSUME NEW k \in Keys, AddEndpoint(k) PROVE TypeOK'
  BY <1>5 DEF AddEndpoint
<1>6. ASSUME NEW k \in Keys, AddFails(k) PROVE TypeOK'
  BY <1>6 DEF AddFails
<1>7. ASSUME NEW k \in Keys, PushTokens(k) PROVE TypeOK'
  BY <1>7 DEF PushTokens
<1>8. ASSUME NEW k \in Keys, RemoveEndpoint(k) PROVE TypeOK'
  BY <1>8 DEF RemoveEndpoint, Executing
<1>9. CASE EndReconcile
  BY <1>9 DEF EndReconcile
<1>10. ASSUME NEW r \in Requests, Submit(r) \/ StartDispatch(r) \/ DispatchTimeout(r)
                                     \/ ExecuteReturns(r) \/ Reply(r)
       PROVE TypeOK'
  BY <1>10 DEF Submit, StartDispatch, DispatchTimeout, ExecuteReturns, Reply, MoveJob, Stages
<1>11. ASSUME NEW r \in Requests, NEW k \in Keys, TakeToken(r, k) PROVE TypeOK'
  BY <1>11 DEF TakeToken, MoveJob, Stages
<1>12. ASSUME NEW r \in Requests, CheckToken(r) PROVE TypeOK'
  BY <1>12 DEF CheckToken, MoveJob, Stages
<1>13. ASSUME NEW r \in Requests, ReturnToken(r) PROVE TypeOK'
  BY <1>13 DEF ReturnToken, MoveJob, Stages
<1>14. CASE DeleteDeployment \/ ReconcileNotFound \/ CancelContext \/ RunReturns
  BY <1>14 DEF DeleteDeployment, ReconcileNotFound, CancelContext, RunReturns
<1>15. CASE UNCHANGED vars
  BY <1>15 DEF vars
<1>16. QED
  BY <1>1, <1>2, <1>3, <1>4, <1>5, <1>6, <1>7, <1>8, <1>9, <1>10, <1>11, <1>12, <1>13, <1>14,
     <1>15
  DEF Next, ReconcileStep, DispatchStep

\* Type correctness of every reachable state of the dispatcher.
THEOREM TypeCorrect == Spec => []TypeOK
BY InitTypeOK, NextTypeOK, PTL DEF Spec

----------------------------------------------------------------------------
(* How the steps change the number of tokens owned by a key.               *)

\* The holders of a key are finitely many.
LEMMA HoldersFinite ==
    ASSUME NEW k PROVE IsFiniteSet(Holders(k)) /\ Cardinality(Holders(k)) \in Nat
<1>1. Holders(k) \subseteq Requests
  BY DEF Holders
<1>2. IsFiniteSet(Holders(k))
  BY <1>1, RequestsAssumption, FS_Subset
<1>3. QED
  BY <1>2, FS_CardinalityType

\* A job that enters or leaves no holding stage changes no holder.
LEMMA HoldersUnchanged ==
    ASSUME TypeOK, NEW r \in Requests, NEW s,
           job' = [job EXCEPT ![r] = s], jobKey' = jobKey,
           job[r] \in HoldingStages <=> s \in HoldingStages,
           NEW k
    PROVE  Holders(k)' = Holders(k)
BY DEF TypeOK, Holders

\* dispatch receives a token: it moves from the channel to the goroutine.
LEMMA TakeTokenOwned ==
    ASSUME TypeOK, JobKeyInv, NEW r \in Requests, NEW k \in Keys, TakeToken(r, k),
           NEW q \in Keys
    PROVE  Owned(q)' = Owned(q)
<1> USE DEF TypeOK, TakeToken, MoveJob, HoldingStages
<1>1. r \notin Holders(q) /\ jobKey'[r] = {k} /\ job'[r] = "checking"
  BY DEF Holders
<1>2. CASE q = k
  <2>1. Holders(q)' = Holders(q) \cup {r}
    BY <1>1, <1>2 DEF Holders
  <2>2. Cardinality(Holders(q)') = Cardinality(Holders(q)) + 1
    <3>1. Cardinality(Holders(q) \cup {r}) = Cardinality(Holders(q)) + 1
      BY <1>1, HoldersFinite, FS_AddElement
    <3>2. QED
      BY <2>1, <3>1
  <2>3. tokens'[q] = tokens[q] - 1 /\ tokens[q] \in Nat
    BY <1>2
  <2>4. QED
    BY <2>2, <2>3, HoldersFinite DEF Owned
<1>3. CASE q # k
  <2>1. Holders(q)' = Holders(q)
    BY <1>1, <1>3 DEF Holders
  <2>2. tokens'[q] = tokens[q]
    BY <1>3
  <2>3. QED
    BY <2>1, <2>2 DEF Owned
<1>4. QED
  BY <1>2, <1>3

\* The token goes back to the channel once the request is executed.
LEMMA ReturnTokenOwned ==
    ASSUME TypeOK, JobKeyInv, NEW r \in Requests, ReturnToken(r), NEW q \in Keys
    PROVE  Owned(q)' = Owned(q)
<1> USE DEF TypeOK, ReturnToken, MoveJob, HoldingStages
<1>1. jobKey'[r] = {} /\ job'[r] = "replying" /\ job[r] = "returning"
  OBVIOUS
<1>2. CASE q \in jobKey[r]
  <2>1. r \in Holders(q) /\ Holders(q)' = Holders(q) \ {r}
    BY <1>1, <1>2 DEF Holders
  <2>2. Cardinality(Holders(q)') = Cardinality(Holders(q)) - 1
    BY <2>1, HoldersFinite, FS_RemoveElement
  <2>3. tokens'[q] = tokens[q] + 1 /\ tokens[q] \in Nat
    BY <1>2
  <2>4. QED
    BY <2>2, <2>3, HoldersFinite DEF Owned
<1>3. CASE q \notin jobKey[r]
  <2>1. Holders(q)' = Holders(q)
    BY <1>1, <1>3 DEF Holders
  <2>2. tokens'[q] = tokens[q]
    BY <1>3
  <2>3. QED
    BY <2>1, <2>2 DEF Owned
<1>4. QED
  BY <1>2, <1>3

\* Looking a token up keeps it when its endpoint is registered and destroys
\* it when it is not.
LEMMA CheckTokenOwned ==
    ASSUME TypeOK, JobKeyInv, NEW r \in Requests, CheckToken(r), NEW q \in Keys
    PROVE  /\ Owned(q)' \in Nat /\ Owned(q) \in Nat
           /\ Owned(q)' <= Owned(q)
           /\ q \in endpoints => Owned(q)' = Owned(q)
<1> USE DEF TypeOK, CheckToken, MoveJob, HoldingStages
<1>0. tokens' = tokens /\ tokens[q] \in Nat /\ job[r] = "checking"
  OBVIOUS
<1>1. CASE jobKey[r] \subseteq endpoints
  <2>1. job' = [job EXCEPT ![r] = "executing"] /\ jobKey' = jobKey
    BY <1>1
  <2>2. Holders(q)' = Holders(q)
    BY <1>0, <2>1, HoldersUnchanged
  <2>3. QED
    BY <1>0, <2>2, HoldersFinite DEF Owned
<1>2. CASE ~(jobKey[r] \subseteq endpoints)
  <2>1. job'[r] = "waiting" /\ jobKey'[r] = {}
    BY <1>2
  <2>2. CASE q \in jobKey[r]
    <3>1. q \notin endpoints
      BY <1>0, <1>2, <2>2 DEF JobKeyInv
    <3>2. r \in Holders(q) /\ Holders(q)' = Holders(q) \ {r}
      BY <1>0, <1>2, <2>1, <2>2 DEF Holders
    <3>3. Cardinality(Holders(q)') = Cardinality(Holders(q)) - 1
      BY <3>2, HoldersFinite, FS_RemoveElement
    <3>4. IsFiniteSet(Holders(q)') /\ Cardinality(Holders(q)') \in Nat
      BY <3>2, HoldersFinite, FS_RemoveElement, FS_CardinalityType
    <3>5. QED
      BY <1>0, <3>1, <3>3, <3>4, HoldersFinite DEF Owned
  <2>3. CASE q \notin jobKey[r]
    <3>1. Holders(q)' = Holders(q)
      BY <1>2, <2>1, <2>3 DEF Holders
    <3>2. QED
      BY <1>0, <3>1, HoldersFinite DEF Owned
  <2>4. QED
    BY <2>2, <2>3
<1>3. QED
  BY <1>1, <1>2

----------------------------------------------------------------------------
(* The inductive invariant.                                                *)

\* Nothing is owned by anyone in the initial state.
LEMMA InitIInv == Init => IInv
<1> SUFFICES ASSUME Init PROVE IInv
  OBVIOUS
<1>1. TypeOK
  BY InitTypeOK
<1>2. JobKeyInv /\ PhaseInv /\ NoLostCapacity /\ FollowInv
  BY DEF Init, JobKeyInv, PhaseInv, NoLostCapacity, FollowInv, HoldingStages
<1>3. SupplyInv
  <2> SUFFICES ASSUME NEW k \in Keys
               PROVE  Owned(k) + Coming(k) <= Concurrency * (becameReady[k] + listErrors)
    BY DEF SupplyInv
  <2>1. Holders(k) = {}
    BY DEF Init, Holders, HoldingStages
  <2>2. Owned(k) = 0
    BY <2>1, FS_EmptySet DEF Init, Owned
  <2>3. Coming(k) = 0
    BY DEF Init, Coming, Addable
  <2>4. Concurrency * (becameReady[k] + listErrors) = 0
    BY ConcurrencyAssumption DEF Init
  <2>5. QED
    BY <2>2, <2>3, <2>4
<1>4. QED
  BY <1>1, <1>2, <1>3 DEF IInv

\* One token in hand per goroutine that has one.
LEMMA NextJobKeyInv == TypeOK /\ JobKeyInv /\ [Next]_vars => JobKeyInv'
<1> SUFFICES ASSUME TypeOK, JobKeyInv, [Next]_vars PROVE JobKeyInv'
  OBVIOUS
<1> USE DEF TypeOK, JobKeyInv, HoldingStages, MoveJob
<1>1. ASSUME UNCHANGED <<job, jobKey>> PROVE JobKeyInv'
  BY <1>1
<1>2. ASSUME NEW r \in Requests, Submit(r) \/ StartDispatch(r) \/ DispatchTimeout(r)
                                     \/ ExecuteReturns(r) \/ Reply(r)
      PROVE JobKeyInv'
  BY <1>2 DEF Submit, StartDispatch, DispatchTimeout, ExecuteReturns, Reply
<1>3. ASSUME NEW r \in Requests, NEW k \in Keys, TakeToken(r, k) PROVE JobKeyInv'
  BY <1>3 DEF TakeToken
<1>4. ASSUME NEW r \in Requests, CheckToken(r) PROVE JobKeyInv'
  BY <1>4 DEF CheckToken
<1>5. ASSUME NEW r \in Requests, ReturnToken(r) PROVE JobKeyInv'
  BY <1>5 DEF ReturnToken
<1>6. QED
  BY <1>1, <1>2, <1>3, <1>4, <1>5
  DEF Next, ReconcileStep, DispatchStep, vars, jobVars, PodReady, PodUnready, DeleteDeployment,
      CancelContext, RunReturns, ReconcileNotFound, Reconcile,
      ReconcileListError, BeginReconcile, AddEndpoint, AddFails, PushTokens, RemoveEndpoint,
      EndReconcile

\* The steps of the Dispatch goroutines touch nothing but tokens and jobs.
LEMMA DispatchFrame ==
    ASSUME NEW r \in Requests, Submit(r) \/ DispatchStep(r)
    PROVE  UNCHANGED <<podVars, queued, recVars, endpoints>>
BY DEF DispatchStep, Submit, StartDispatch, TakeToken, CheckToken, DispatchTimeout,
       ExecuteReturns, ReturnToken, Reply, MoveJob

\* What is left of a reconcile fits the endpoint map, and the map will be the
\* ready pods at its end.
LEMMA NextReconcileInv ==
    TypeOK /\ PhaseInv /\ FollowInv /\ [Next]_vars => PhaseInv' /\ FollowInv'
<1> SUFFICES ASSUME TypeOK, PhaseInv, FollowInv, [Next]_vars PROVE PhaseInv' /\ FollowInv'
  OBVIOUS
<1> USE DEF PhaseInv, FollowInv, podVars, recVars
<1>1. ASSUME NEW k \in Keys, PodReady(k) PROVE PhaseInv' /\ FollowInv'
  BY <1>1 DEF PodReady
<1>2. ASSUME NEW k \in Keys, PodUnready(k) PROVE PhaseInv' /\ FollowInv'
  BY <1>2 DEF PodUnready
<1>3. CASE Reconcile
  BY <1>3 DEF Reconcile, BeginReconcile
<1>4. CASE ReconcileListError
  <2>1. listErrors' # 0
    BY <1>4 DEF ReconcileListError, TypeOK
  <2>2. QED
    BY <1>4, <2>1 DEF ReconcileListError, BeginReconcile
<1>5. ASSUME NEW k \in Keys, AddEndpoint(k) PROVE PhaseInv' /\ FollowInv'
  BY <1>5 DEF AddEndpoint
<1>6. ASSUME NEW k \in Keys, AddFails(k) PROVE PhaseInv' /\ FollowInv'
  BY <1>6 DEF AddFails
<1>7. ASSUME NEW k \in Keys, PushTokens(k) PROVE PhaseInv' /\ FollowInv'
  BY <1>7 DEF PushTokens
<1>8. ASSUME NEW k \in Keys, RemoveEndpoint(k) PROVE PhaseInv' /\ FollowInv'
  BY <1>8 DEF RemoveEndpoint
<1>9. CASE EndReconcile
  BY <1>9 DEF EndReconcile, TypeOK
<1>10. ASSUME NEW r \in Requests, Submit(r) \/ DispatchStep(r) PROVE PhaseInv' /\ FollowInv'
  BY <1>10, DispatchFrame
<1>11. CASE DeleteDeployment \/ ReconcileNotFound \/ CancelContext \/ RunReturns
  BY <1>11 DEF DeleteDeployment, ReconcileNotFound, CancelContext, RunReturns
<1>12. CASE UNCHANGED vars
  BY <1>12 DEF vars
<1>13. QED
  BY <1>1, <1>2, <1>3, <1>4, <1>5, <1>6, <1>7, <1>8, <1>9, <1>10, <1>11, <1>12
  DEF Next, ReconcileStep

\* Owned tokens are counted by natural numbers.
LEMMA OwnedNat == ASSUME TypeOK, NEW k \in Keys PROVE Owned(k) \in Nat
BY HoldersFinite DEF TypeOK, Owned

\* The number of owned tokens of a key grows by podServiceConcurrency when
\* its add goroutine pushes, shrinks only when the key is not registered, and
\* is otherwise constant.
LEMMA OwnedStep ==
    ASSUME TypeOK, JobKeyInv, [Next]_vars, NEW q \in Keys
    PROVE  \/ PushTokens(q) /\ Owned(q)' = Owned(q) + Concurrency
           \/ ~PushTokens(q) /\ Owned(q)' = Owned(q)
           \/ /\ ~PushTokens(q) /\ Owned(q)' <= Owned(q) /\ q \notin endpoints
              /\ UNCHANGED <<podVars, queued, recVars, endpoints>>
<1>1. ASSUME UNCHANGED <<tokens, job, jobKey>> PROVE Owned(q)' = Owned(q)
  BY <1>1 DEF Owned, Holders
<1>2. ASSUME NEW k \in Keys, PushTokens(k), k # q
      PROVE  ~PushTokens(q) /\ Owned(q)' = Owned(q)
  <2>1. tokens'[q] = tokens[q] /\ Holders(q)' = Holders(q)
    BY <1>2 DEF PushTokens, jobVars, TypeOK, Holders
  <2>2. ~PushTokens(q)
    BY <1>2 DEF PushTokens
  <2>3. QED
    BY <2>1, <2>2 DEF Owned
<1>3. ASSUME PushTokens(q) PROVE Owned(q)' = Owned(q) + Concurrency
  <2>1. tokens'[q] = tokens[q] + Concurrency /\ tokens[q] \in Nat /\ Holders(q)' = Holders(q)
    BY <1>3 DEF PushTokens, jobVars, TypeOK, Holders
  <2>2. QED
    BY <2>1, HoldersFinite, ConcurrencyAssumption DEF Owned
<1>4. ASSUME NEW r \in Requests, Submit(r) \/ DispatchStep(r) PROVE ~PushTokens(q)
  <2>1. pushing' = pushing
    BY <1>4, DispatchFrame DEF recVars
  <2>2. QED
    BY <2>1 DEF PushTokens
<1>5. ASSUME NEW r \in Requests, Submit(r) \/ StartDispatch(r) \/ DispatchTimeout(r)
                                    \/ ExecuteReturns(r) \/ Reply(r)
      PROVE  Owned(q)' = Owned(q)
  <2>1. Holders(q)' = Holders(q)
    BY <1>5 DEF Submit, StartDispatch, DispatchTimeout, ExecuteReturns, Reply, MoveJob,
                HoldingStages, Holders, TypeOK
  <2>2. tokens' = tokens
    BY <1>5 DEF Submit, StartDispatch, DispatchTimeout, ExecuteReturns, Reply
  <2>3. QED
    BY <2>1, <2>2 DEF Owned
<1>6. ASSUME ~\E k \in Keys : PushTokens(k), UNCHANGED <<tokens, job, jobKey>>
      PROVE  ~PushTokens(q) /\ Owned(q)' = Owned(q)
  BY <1>1, <1>6
<1>7. ASSUME NEW r \in Requests, CheckToken(r)
      PROVE  \/ Owned(q)' = Owned(q)
             \/ /\ Owned(q)' <= Owned(q) /\ q \notin endpoints
                /\ UNCHANGED <<podVars, queued, recVars, endpoints>>
  BY <1>7, CheckTokenOwned, DispatchFrame DEF DispatchStep
<1>8. ASSUME NEW r \in Requests, Submit(r) \/ DispatchStep(r)
      PROVE  \/ Owned(q)' = Owned(q)
             \/ /\ Owned(q)' <= Owned(q) /\ q \notin endpoints
                /\ UNCHANGED <<podVars, queued, recVars, endpoints>>
  BY <1>5, <1>7, <1>8, TakeTokenOwned, ReturnTokenOwned DEF DispatchStep
<1>9. CASE \E k \in Keys : PushTokens(k)
  BY <1>2, <1>3, <1>9
<1>10. CASE \E r \in Requests : Submit(r) \/ DispatchStep(r)
  BY <1>4, <1>8, <1>10
<1>11. CASE /\ ~\E k \in Keys : PushTokens(k)
            /\ ~\E r \in Requests : Submit(r) \/ DispatchStep(r)
  <2>1. UNCHANGED <<tokens, job, jobKey>>
    BY <1>11
    DEF Next, ReconcileStep, vars, jobVars, PodReady, PodUnready, DeleteDeployment,
        CancelContext, RunReturns, ReconcileNotFound, Reconcile, ReconcileListError, BeginReconcile, AddEndpoint, AddFails, RemoveEndpoint, EndReconcile
  <2>2. QED
    BY <1>6, <1>11, <2>1
<1>12. QED
  BY <1>9, <1>10, <1>11

\* A key is registered with its tokens pushed only because it was so before,
\* or because its add goroutine has just pushed them.
LEMMA ServedStep ==
    ASSUME [Next]_vars, NEW k \in Keys, k \in endpoints' \ pushing', ~PushTokens(k)
    PROVE  k \in endpoints \ pushing
<1>1. ASSUME NEW q \in Keys, PushTokens(q) PROVE k \in endpoints \ pushing
  BY <1>1 DEF PushTokens
<1>2. ASSUME NEW q \in Keys, AddEndpoint(q) PROVE k \in endpoints \ pushing
  BY <1>2 DEF AddEndpoint
<1>3. ASSUME NEW r \in Requests, Submit(r) \/ DispatchStep(r) PROVE k \in endpoints \ pushing
  BY <1>3, DispatchFrame DEF recVars
<1>4. QED
  BY <1>1, <1>2, <1>3
  DEF Next, ReconcileStep, vars, recVars, PodReady, PodUnready, DeleteDeployment,
      CancelContext, RunReturns, ReconcileNotFound, Reconcile, ReconcileListError, BeginReconcile, AddFails, RemoveEndpoint, EndReconcile

\* No step takes a served key below its capacity: a token is destroyed only
\* after its endpoint was removed.
LEMMA NextNoLostCapacity ==
    TypeOK /\ JobKeyInv /\ NoLostCapacity /\ [Next]_vars => NoLostCapacity'
<1> SUFFICES ASSUME TypeOK, JobKeyInv, NoLostCapacity, [Next]_vars PROVE NoLostCapacity'
  OBVIOUS
<1> SUFFICES ASSUME NEW k \in Keys, k \in endpoints' \ pushing'
             PROVE  Owned(k)' >= Concurrency
  <2>1. TypeOK'
    BY NextTypeOK
  <2>2. QED
    BY <2>1 DEF NoLostCapacity, Owned, TypeOK
<1>1. CASE PushTokens(k)
  BY <1>1, OwnedStep, OwnedNat, ConcurrencyAssumption
<1>2. CASE ~PushTokens(k)
  <2>1. k \in endpoints \ pushing
    BY <1>2, ServedStep
  <2>2. Owned(k) >= Concurrency
    BY <2>1 DEF NoLostCapacity, Owned
  <2>3. Owned(k)' = Owned(k)
    BY <1>2, <2>1, OwnedStep
  <2>4. QED
    BY <2>2, <2>3
<1>3. QED
  BY <1>1, <1>2

\* Additions still to come are paid for by a pod becoming ready or a failed
\* List, and are spent by pushing tokens.
LEMMA ComingStep ==
    ASSUME TypeOK, PhaseInv, [Next]_vars, NEW q \in Keys
    PROVE  \/ /\ becameReady'[q] + listErrors' = becameReady[q] + listErrors + 1
              /\ Coming(q)' <= Coming(q) + Concurrency
              /\ ~PushTokens(q)
           \/ /\ becameReady'[q] + listErrors' = becameReady[q] + listErrors
              /\ Coming(q)' <= Coming(q) - (IF PushTokens(q) THEN Concurrency ELSE 0)
<1> DEFINE Same == /\ becameReady'[q] + listErrors' = becameReady[q] + listErrors
                   /\ Coming(q)' <= Coming(q)
                   /\ ~PushTokens(q)
           More == /\ becameReady'[q] + listErrors' = becameReady[q] + listErrors + 1
                   /\ Coming(q)' <= Coming(q) + Concurrency
                   /\ ~PushTokens(q)
<1> USE ConcurrencyAssumption DEF podVars, recVars
<1>0. /\ becameReady[q] \in Nat /\ listErrors \in Nat
      /\ becameReady \in [Keys -> 0..MaxReady]
  BY BoundsAssumption DEF TypeOK
<1>1. ASSUME pushing' = pushing PROVE ~PushTokens(q)
  BY <1>1 DEF PushTokens
<1>2. ASSUME NEW k \in Keys, PodReady(k) PROVE Same \/ More
  <2>1. pushing' = pushing /\ adding' = adding /\ removing' = removing /\ endpoints' = endpoints
        /\ listErrors' = listErrors
    BY <1>2 DEF PodReady
  <2>2. CASE k = q
    <3>1. becameReady'[q] = becameReady[q] + 1
      BY <1>0, <1>2, <2>2 DEF PodReady
    <3>2. QED
      BY <1>0, <1>1, <2>1, <3>1 DEF Coming, Addable
  <2>3. CASE k # q
    <3>1. becameReady'[q] = becameReady[q] /\ (q \in readyPods' <=> q \in readyPods)
      BY <1>0, <1>2, <2>3 DEF PodReady
    <3>2. QED
      BY <1>0, <1>1, <2>1, <3>1 DEF Coming, Addable
  <2>4. QED
    BY <2>2, <2>3
<1>3. ASSUME NEW k \in Keys, PodUnready(k) PROVE Same
  BY <1>0, <1>1, <1>3 DEF PodUnready, Coming, Addable
<1>4. ASSUME Reconcile PROVE Same
  BY <1>0, <1>1, <1>4 DEF Reconcile, BeginReconcile, Coming, Addable, PhaseInv, Same
<1>5. ASSUME ReconcileListError PROVE More
  BY <1>0, <1>1, <1>5 DEF ReconcileListError, BeginReconcile, Coming, Addable, PhaseInv, More
<1>6. ASSUME NEW k \in Keys, AddEndpoint(k) PROVE Same
  <2>1. ~PushTokens(q)
    BY <1>6 DEF AddEndpoint, PushTokens, PhaseInv
  <2>2. QED
    BY <1>0, <1>6, <2>1 DEF AddEndpoint, Coming, Addable, PhaseInv
<1>7. ASSUME NEW k \in Keys, AddFails(k) PROVE Same
  BY <1>0, <1>1, <1>7 DEF AddFails, Coming, Addable
<1>8. ASSUME NEW k \in Keys, PushTokens(k), k # q PROVE Same
  BY <1>0, <1>8 DEF PushTokens, Coming, Addable
<1>9. ASSUME PushTokens(q)
      PROVE  /\ becameReady'[q] + listErrors' = becameReady[q] + listErrors
             /\ Coming(q)' <= Coming(q) - Concurrency
  BY <1>0, <1>9 DEF PushTokens, Coming, Addable
<1>10. ASSUME NEW k \in Keys, RemoveEndpoint(k) PROVE Same
  BY <1>0, <1>1, <1>10 DEF RemoveEndpoint, Coming, Addable, PhaseInv
<1>11. ASSUME EndReconcile PROVE Same
  BY <1>0, <1>1, <1>11 DEF EndReconcile, Coming, Addable
<1>12. ASSUME NEW r \in Requests, Submit(r) \/ DispatchStep(r) PROVE Same
  <2>1. UNCHANGED <<podVars, queued, recVars, endpoints>>
    BY <1>12, DispatchFrame
  <2>2. QED
    BY <1>0, <1>1, <2>1 DEF Coming, Addable
<1>13. ASSUME UNCHANGED vars PROVE Same
  BY <1>0, <1>1, <1>13 DEF vars, Coming, Addable
<1>14. ASSUME DeleteDeployment \/ ReconcileNotFound \/ CancelContext \/ RunReturns PROVE Same
  BY <1>0, <1>1, <1>14
  DEF DeleteDeployment, ReconcileNotFound, CancelContext, RunReturns, Coming, Addable
<1>15. Coming(q)' \in Int /\ Coming(q) \in Int
  BY DEF Coming
<1>16. CASE PushTokens(q)
  BY <1>9, <1>16
<1>17. CASE ~PushTokens(q)
  <2> HIDE DEF Same, More
  <2>1. Same \/ More
    BY <1>2, <1>3, <1>4, <1>5, <1>6, <1>7, <1>8, <1>10, <1>11, <1>12, <1>13, <1>14, <1>17
    DEF Next, ReconcileStep
  <2>2. QED
    BY <1>15, <1>17, <2>1 DEF Same, More
<1>18. QED
  BY <1>16, <1>17

\* Every token that exists or is still to come has been paid for.
LEMMA NextSupplyInv ==
    TypeOK /\ JobKeyInv /\ PhaseInv /\ SupplyInv /\ [Next]_vars => SupplyInv'
<1> SUFFICES ASSUME TypeOK, JobKeyInv, PhaseInv, SupplyInv, [Next]_vars PROVE SupplyInv'
  OBVIOUS
<1> SUFFICES ASSUME NEW q \in Keys
             PROVE  Owned(q)' + Coming(q)' <= Concurrency * (becameReady'[q] + listErrors')
  BY DEF SupplyInv
<1>1. TypeOK'
  BY NextTypeOK
<1> DEFINE B == becameReady[q] + listErrors
<1>2. /\ B \in Nat /\ Concurrency \in Nat
      /\ Owned(q) \in Nat /\ Owned(q)' \in Nat
      /\ Coming(q) \in Int /\ Coming(q)' \in Int
  <2>1. B \in Nat
    BY BoundsAssumption DEF TypeOK
  <2>2. Owned(q) \in Nat /\ Owned(q)' \in Nat
    <3>1. Holders(q)' \subseteq Requests
      BY DEF Holders
    <3>2. Cardinality(Holders(q)') \in Nat
      BY <3>1, RequestsAssumption, FS_Subset, FS_CardinalityType
    <3>3. QED
      BY <1>1, <3>2, OwnedNat DEF TypeOK, Owned
  <2>3. QED
    BY <2>1, <2>2, ConcurrencyAssumption DEF Coming
<1>3. Owned(q) + Coming(q) <= Concurrency * B
  BY DEF SupplyInv
<1>4. Owned(q)' <= Owned(q) + (IF PushTokens(q) THEN Concurrency ELSE 0)
  BY <1>2, OwnedStep
<1> HIDE DEF B
<1>5. CASE /\ becameReady'[q] + listErrors' = B + 1
           /\ Coming(q)' <= Coming(q) + Concurrency
           /\ ~PushTokens(q)
  <2>1. Concurrency * (B + 1) = Concurrency * B + Concurrency
    BY <1>2
  <2>2. Concurrency * B \in Nat
    BY <1>2
  <2>3. QED
    BY <1>2, <1>3, <1>4, <1>5, <2>1, <2>2
<1>6. CASE /\ becameReady'[q] + listErrors' = B
           /\ Coming(q)' <= Coming(q) - (IF PushTokens(q) THEN Concurrency ELSE 0)
  <2>1. Concurrency * B \in Nat
    BY <1>2
  <2>2. QED
    BY <1>2, <1>3, <1>4, <1>6, <2>1
<1>7. QED
  BY <1>5, <1>6, ComingStep DEF B

\* IInv is inductive.
LEMMA NextIInv == IInv /\ [Next]_vars => IInv'
BY NextTypeOK, NextJobKeyInv, NextReconcileInv, NextNoLostCapacity, NextSupplyInv DEF IInv

\* IInv holds in every reachable state of the dispatcher.
THEOREM Invariance == Spec => []IInv
BY InitIInv, NextIInv, PTL DEF Spec

----------------------------------------------------------------------------
(* What a reader should take away.                                         *)

(***************************************************************************)
(* No interleaving of dispatches, discarded tokens, removals, re-additions *)
(* and failed adds makes a registered pod lose serving capacity.           *)
(***************************************************************************)
THEOREM CapacityIsKept == Spec => []NoLostCapacity
<1>1. IInv => NoLostCapacity
  BY DEF IInv
<1>2. QED
  BY <1>1, Invariance, PTL

(***************************************************************************)
(* The only sources of extra tokens are a pod that becomes ready again     *)
(* under the same key and a failed List.                                   *)
(***************************************************************************)
THEOREM TokensAreBounded == Spec => []TokenBound
<1>1. IInv => TokenBound
  <2> SUFFICES ASSUME IInv, NEW k \in Keys
               PROVE  Owned(k) <= Concurrency * (becameReady[k] + listErrors)
    BY DEF TokenBound, Owned
  <2>1. Owned(k) \in Nat /\ Coming(k) \in Nat
    BY OwnedNat, ConcurrencyAssumption DEF IInv, Coming
  <2>2. Concurrency * (becameReady[k] + listErrors) \in Nat
    BY ConcurrencyAssumption, BoundsAssumption DEF IInv, TypeOK
  <2>3. QED
    BY <2>1, <2>2 DEF IInv, SupplyInv
<1>2. QED
  BY <1>1, Invariance, PTL

(***************************************************************************)
(* As long as List does not fail, an idle reconciler means the endpoint    *)
(* map is exactly the set of ready pods.                                   *)
(***************************************************************************)
THEOREM EndpointsConverge == Spec => []EndpointsFollowPods
<1>1. IInv => EndpointsFollowPods
  BY DEF IInv, FollowInv, EndpointsFollowPods
<1>2. QED
  BY <1>1, Invariance, PTL
=============================================================================
