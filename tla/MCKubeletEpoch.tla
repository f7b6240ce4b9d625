--------------------------- MODULE MCKubeletEpoch ---------------------------
(***************************************************************************)
(* The two things a kubelet agrees on with others before it is bound pods: *)
(* the epoch with an upstream, and the nodes it serves.  One at a time.    *)
(***************************************************************************)
EXTENDS KubeletEpoch, Sequences

CONSTANTS k1, k2, o1, NoAddr, NoIP, MaxStarts, MaxScripts, MaxStatus

VARIABLES part, node, known, phase, script, starts, scripts, statuses

MCKubelets == <<k1, k2>>
MCOthers == <<o1>>

Service == INSTANCE KubeletService WITH Kubelets <- MCKubelets, Others <- MCOthers

serviceVars == <<node, known, phase, script, starts, scripts, statuses>>

\* The node of one kubelet may not be ready when its kubelet starts.
MCInit ==
    /\ part \in {"epochs", "service"}
    /\ Init
    /\ Service!Init
    /\ \A n \in DOMAIN node : part = "epochs" \/ n = k2 => node[n] = <<NoAddr>>

MCNext ==
    /\ UNCHANGED part
    /\ \/ part = "epochs" /\ Next /\ UNCHANGED serviceVars
       \/ part = "service" /\ Service!Next /\ UNCHANGED vars

MCFairSpec ==
    /\ MCInit /\ [][MCNext]_<<part, vars, serviceVars>>
    /\ part = "service" => Service!Fairness

(***************************************************************************)
(* One kubelet per node, in the end: a kubelet that serves comes to act on *)
(* the pods of exactly the nodes that carry its address (isResponsibleFor, *)
(* publishServiceAddr, and the delegate and clean of scripts/kubelet.sh).  *)
(***************************************************************************)
ClaimsSettle == Service!ClaimsSettle
=============================================================================
