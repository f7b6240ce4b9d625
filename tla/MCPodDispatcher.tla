-------------------------- MODULE MCPodDispatcher --------------------------
(***************************************************************************)
(* The pod dispatcher, and the connection pool behind Execute on one of    *)
(* its endpoints: the first state picks the one that is looked at.  What   *)
(* the dispatcher assumes of Execute is what EveryCallReturns says of the  *)
(* pool.                                                                   *)
(***************************************************************************)
EXTENDS PodDispatcher, GrpcBackend

VARIABLE part

MCInit ==
    /\ part \in {"dispatcher", "pool"}
    /\ Init
    /\ PoolInit
MCNext ==
    /\ UNCHANGED part
    /\ \/ part = "dispatcher" /\ Next /\ UNCHANGED poolVars
       \/ part = "pool" /\ PoolNext /\ UNCHANGED vars
MCSpec == MCInit /\ [][MCNext]_<<part, vars, poolVars>>
MCFairSpec == MCSpec /\ Fairness /\ PoolFairness
=============================================================================
