----------------------------- MODULE GrpcBackend -----------------------------
(***************************************************************************)
(* The gRPC executor of one endpoint (pkg/backend/grpc.go): Execute calls  *)
(* take a slot of a connection from the pool, create another connection if *)
(* they see none, and give the slot back; Close drains the pool.           *)
(*                                                                         *)
(* The pool is an unbounded channel.  An element that was put in need not  *)
(* be offered yet, so a select with a default may miss it.  Close ranges   *)
(* over the channel before it closes it: it drains for ever.               *)
(***************************************************************************)
EXTENDS Naturals, FiniteSets

CONSTANTS
    Calls,              \* Execute calls that may run at a time
    PoolSize,           \* grpcExecutorConcurrency
    MaxClients          \* bound: connections created

ASSUME GrpcAssumption ==
    /\ IsFiniteSet(Calls)
    /\ PoolSize \in Nat \ {0}
    /\ MaxClients \in Nat \ {0}

VARIABLES
    call,               \* per call, how far it is
    connectionPool,     \* slots in the pool
    clients,            \* connections created
    closing,            \* Close is running
    drained             \* slots Close has taken

poolVars == <<call, connectionPool, clients, closing, drained>>

Holding == {c \in Calls : call[c] = "holding"}

PoolTypeOK ==
    /\ call \in [Calls -> {"idle", "get", "wait", "holding"}]
    /\ connectionPool \in Nat
    /\ clients \in 1..MaxClients
    /\ closing \in BOOLEAN
    /\ drained \in Nat

\* newGrpcBackend creates the first connection.
PoolInit ==
    /\ call = [c \in Calls |-> "idle"]
    /\ connectionPool = PoolSize
    /\ clients = 1
    /\ closing = FALSE
    /\ drained = 0

----------------------------------------------------------------------------
Execute(c) ==
    /\ call[c] = "idle"
    /\ call' = [call EXCEPT ![c] = "get"]
    /\ UNCHANGED <<connectionPool, clients, closing, drained>>

\* getOrCreateClient: receive, at once or after having created a connection.
Receive(c) ==
    /\ call[c] \in {"get", "wait"}
    /\ connectionPool > 0
    /\ connectionPool' = connectionPool - 1
    /\ call' = [call EXCEPT ![c] = "holding"]
    /\ UNCHANGED <<clients, closing, drained>>

\* The default branch: newClient ...
NewClient(c) ==
    /\ call[c] = "get"
    /\ clients < MaxClients
    /\ clients' = clients + 1
    /\ connectionPool' = connectionPool + PoolSize
    /\ call' = [call EXCEPT ![c] = "wait"]
    /\ UNCHANGED <<closing, drained>>

\* ... or its error: FAIL_CONNECT.
NewClientFails(c) ==
    /\ call[c] = "get"
    /\ call' = [call EXCEPT ![c] = "idle"]
    /\ UNCHANGED <<connectionPool, clients, closing, drained>>

ReturnKeepsSlot(c) ==
    /\ call[c] = "holding"
    /\ call' = [call EXCEPT ![c] = "idle"]
    /\ UNCHANGED <<connectionPool, clients, closing, drained>>

\* The RPC returned, was cut by the deadline or failed; the deferred send.
Return(c) ==
    /\ call[c] = "holding"
    /\ call' = [call EXCEPT ![c] = "idle"]
    /\ connectionPool' = connectionPool + 1
    /\ UNCHANGED <<clients, closing, drained>>

BeginClose ==
    /\ ~closing
    /\ closing' = TRUE
    /\ UNCHANGED <<call, connectionPool, clients, drained>>

\* One turn of Close's loop: conn.Close().
DrainPool ==
    /\ closing
    /\ connectionPool > 0
    /\ connectionPool' = connectionPool - 1
    /\ drained' = drained + 1
    /\ UNCHANGED <<call, clients, closing>>

----------------------------------------------------------------------------
CallStep(c) == Receive(c) \/ NewClient(c) \/ NewClientFails(c) \/ Return(c)

PoolNext ==
    \/ \E c \in Calls : Execute(c) \/ CallStep(c)
    \/ BeginClose
    \/ DrainPool

PoolSpec == PoolInit /\ [][PoolNext]_poolVars

(***************************************************************************)
(* Calls and the closing goroutine run; gRPC honours the call's deadline.  *)
(* A call that waits competes for slots with the others, but a channel     *)
(* serves its receivers in their order: strong fairness.                   *)
(***************************************************************************)
PoolFairness ==
    /\ \A c \in Calls : WF_poolVars(CallStep(c)) /\ SF_poolVars(Receive(c))
    /\ WF_poolVars(DrainPool)

PoolFairSpec == PoolSpec /\ PoolFairness

----------------------------------------------------------------------------
(***************************************************************************)
(* Every slot of every connection is in the pool, in the hands of one      *)
(* call, or taken by Close: no way through Execute leaks or doubles one.   *)
(***************************************************************************)
SlotsConserved ==
    connectionPool + Cardinality(Holding) + drained = PoolSize * clients

(***************************************************************************)
(* Execute returns, though getOrCreateClient waits without a context and   *)
(* others may take what it has created; only a Close under way can keep it *)
(* waiting.                                                                *)
(***************************************************************************)
EveryCallReturns == \A c \in Calls : call[c] # "idle" ~> call[c] = "idle" \/ closing
==============================================================================
