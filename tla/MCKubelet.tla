----------------------------- MODULE MCKubelet -----------------------------
(***************************************************************************)
(* Instances of Kubelet.  A pod is on this kubelet's node, "own", or on    *)
(* "other", whose delegation to this kubelet comes and goes.               *)
(***************************************************************************)
EXTENDS Kubelet

CONSTANTS
    OnOther,            \* pods on the other node
    MaxDisturbances     \* bound: disturbances of one behaviour

MCThisNode == "own"
MCNodeOf == [p \in Pods |-> IF p \in OnOther THEN "other" ELSE "own"]
MCNodes == {"own", "other"}

(***************************************************************************)
(* What else happens in a behaviour: restarts, deleted nodes, forced       *)
(* removals, the deletion of the template, and a native pod.               *)
(***************************************************************************)
NativeSeen == \E p \in Native : api[p].uid > 0
Disturbances ==
    restarts + nodeDeletes + Cardinality(forced)
      + (IF template THEN 0 ELSE 1) + (IF NativeSeen THEN 1 ELSE 0)

(***************************************************************************)
(* Bounds on their combinations: nobody evicts a pod once a node has been  *)
(* deleted; with a native pod the delegation is settled; and a managed pod *)
(* competes with a native one that came first, while nobody deletes or     *)
(* evicts a pod.                                                           *)
(***************************************************************************)
NoneBound == \A p \in Managed : binds[p] = 0
NoneEvicted == \A p \in Pods : api[p].phase # "failed"
NoneDeleted == \A p \in Pods : ~api[p].deleting

MCNext ==
    /\ Next
    /\ Disturbances' <= MaxDisturbances
    /\ nodeDeletes' > 0 => NoneEvicted'
    /\ NativeSeen' => UNCHANGED delegated /\ (NoneBound' \/ (NoneEvicted /\ NoneDeleted)')
    /\ NativeSeen' => NativeSeen \/ NoneBound

MCSpec == Init /\ [][MCNext]_vars
MCFairSpec == MCSpec /\ Fairness
=============================================================================
