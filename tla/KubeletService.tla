--------------------------- MODULE KubeletService ---------------------------
(***************************************************************************)
(* Which custom kubelet serves which node: ListenAndServe publishes the    *)
(* kubelet's address as an annotation of its node, scripts/kubelet.sh      *)
(* delegates further nodes by copying that annotation to them, and         *)
(* isResponsibleFor compares the annotations in the kubelet's node cache.  *)
(*                                                                         *)
(* A node is the sequence of values its annotation had, one per version of *)
(* the object; a cache knows a prefix of it.  The address of a kubelet is  *)
(* written as the name of its node.                                        *)
(***************************************************************************)
EXTENDS Naturals, SequencesExt

CONSTANTS
    Kubelets,           \* the workers, nodes that run a custom kubelet, in order
    Others,             \* the nodes the selector of "delegate" matches, in order
    NoAddr,             \* the node has no annotation
    NoIP,               \* nor an internal IP
    MaxStarts,          \* bound: starts of kubelets
    MaxScripts,         \* bound: runs of "delegate" and "clean"
    MaxStatus           \* bound: other writes to the nodes

VARIABLES
    node,               \* per node, the values of its annotation so far
    known,              \* per kubelet and node, the versions its cache has seen
    phase,              \* per kubelet, "down", "publishing" or "serving"
    script,             \* the script that runs, its argument and its loop index
    starts, scripts, statuses

vars == <<node, known, phase, script, starts, scripts, statuses>>

Nodes == ToSet(Kubelets) \cup ToSet(Others)
Idle == [op |-> "none", m |-> 0, i |-> 0]

Init ==
    /\ node \in [Nodes -> {<<>>, <<NoIP>>, <<NoAddr>>}]
    /\ \A i \in DOMAIN Others : node[Others[i]] = <<NoAddr>>
    /\ known = [k \in ToSet(Kubelets) |-> [n \in Nodes |-> 0]]
    /\ phase = [k \in ToSet(Kubelets) |-> "down"]
    /\ script = Idle
    /\ starts = 0
    /\ scripts = 0
    /\ statuses = 0

Write(n, a) == node' = [node EXCEPT ![n] = Append(@, a)]
Annotation(n) == IF node[n] = <<>> \/ Last(node[n]) = NoIP THEN NoAddr ELSE Last(node[n])

Exit(k) ==
    /\ phase' = [phase EXCEPT ![k] = "down"]
    /\ known' = [known EXCEPT ![k] = [n \in Nodes |-> 0]]

----------------------------------------------------------------------------
(* The kubelet process k                                                   *)

\* main and the cache sync.
Start(k) ==
    /\ phase[k] = "down" /\ script = Idle
    /\ starts < MaxStarts
    /\ phase' = [phase EXCEPT ![k] = "publishing"]
    /\ known' = [known EXCEPT ![k] = [n \in Nodes |-> Len(node[n])]]
    /\ starts' = starts + 1
    /\ UNCHANGED <<node, script, scripts, statuses>>

\* The poll ends the process: the node is unknown or has no internal IP.
PublishFails(k) ==
    /\ phase[k] = "publishing"
    /\ known[k][k] > 0 => node[k][known[k][k]] = NoIP
    /\ Exit(k)
    /\ UNCHANGED <<node, script, starts, scripts, statuses>>

PublishOnce(k) ==
    /\ phase[k] = "publishing"
    /\ known[k][k] > 0 /\ node[k][known[k][k]] # NoIP
    /\ IF known[k][k] = Len(node[k]) THEN Write(k, k) ELSE UNCHANGED node
    /\ phase' = [phase EXCEPT ![k] = "serving"]
    /\ UNCHANGED <<known, script, starts, scripts, statuses>>

\* The poll succeeds and the workers start.  The update is made from the
\* cache and is refused, and tried again, until the cache is up to date.
Publish(k) ==
    /\ phase[k] = "publishing"
    /\ known[k][k] > 0 /\ known[k][k] = Len(node[k]) /\ Last(node[k]) # NoIP
    /\ Write(k, k)
    /\ phase' = [phase EXCEPT ![k] = "serving"]
    /\ UNCHANGED <<known, script, starts, scripts, statuses>>

Stop(k) ==
    /\ phase[k] # "down"
    /\ Exit(k)
    /\ UNCHANGED <<node, script, starts, scripts, statuses>>

\* The node informer.
Observe(k, n) ==
    /\ phase[k] # "down"
    /\ known[k][n] < Len(node[n])
    /\ known' = [known EXCEPT ![k][n] = @ + 1]
    /\ UNCHANGED <<node, phase, script, starts, scripts, statuses>>

Cached(k, n) == IF node[n][known[k][n]] = NoIP THEN NoAddr ELSE node[n][known[k][n]]

\* SyncPod of k acts on the pods of n.
isResponsibleFor(k, n) ==
    \/ n = k
    \/ known[k][k] > 0 /\ known[k][n] > 0 /\ Cached(k, k) = Cached(k, n)

----------------------------------------------------------------------------
(* scripts/kubelet.sh, one at a time                                       *)

RunScript(op, m) ==
    /\ script = Idle
    /\ scripts < MaxScripts
    /\ script' = [op |-> op, m |-> m, i |-> 1]
    /\ scripts' = scripts + 1
    /\ UNCHANGED <<node, known, phase, starts, statuses>>

Step(s, done) == IF s.i < done THEN [s EXCEPT !.i = @ + 1] ELSE Idle

\* delegate: all of the first m workers have an address, or it gives up.
CheckTarget ==
    /\ script.op = "check"
    /\ script' = IF Annotation(Kubelets[script.i]) = NoAddr THEN Idle
                 ELSE IF script.i < script.m THEN [script EXCEPT !.i = @ + 1]
                 ELSE [script EXCEPT !.op = "annotate", !.i = 1]
    /\ UNCHANGED <<node, known, phase, starts, scripts, statuses>>

\* The nodes get the addresses round-robin; a failing kubectl is not noticed.
Annotate ==
    /\ script.op = "annotate"
    /\ LET n == Others[script.i]
           a == Kubelets[((script.i - 1) % script.m) + 1]
       IN  UNCHANGED node \/ (Annotation(n) # a /\ Write(n, a))
    /\ script' = Step(script, Len(Others))
    /\ UNCHANGED <<known, phase, starts, scripts, statuses>>

\* clean: the annotations go first, the processes after them.
RemoveAnnotation ==
    /\ script.op = "remove"
    /\ LET all == Kubelets \o Others
           n == all[script.i]
       IN  /\ IF Annotation(n) = NoAddr THEN UNCHANGED node ELSE Write(n, NoAddr)
           /\ script' = IF script.i < Len(all) THEN [script EXCEPT !.i = @ + 1]
                        ELSE [script EXCEPT !.op = "kill", !.i = 1]
    /\ UNCHANGED <<known, phase, starts, scripts, statuses>>

KillKubelet ==
    /\ script.op = "kill"
    /\ Exit(Kubelets[script.i])
    /\ script' = Step(script, Len(Kubelets))
    /\ UNCHANGED <<node, starts, scripts, statuses>>

----------------------------------------------------------------------------
\* The node is registered, gets its IP, or its status is written again.
WriteStatus(n) ==
    /\ statuses < MaxStatus
    /\ statuses' = statuses + 1
    /\ \/ node[n] = <<>> /\ \E a \in {NoIP, NoAddr} : Write(n, a)
       \/ node[n] # <<>> /\ Write(n, Annotation(n))
    /\ UNCHANGED <<known, phase, script, starts, scripts>>

Process(k) == PublishFails(k) \/ Publish(k) \/ \E n \in Nodes : Observe(k, n)
Script == CheckTarget \/ Annotate \/ RemoveAnnotation \/ KillKubelet

Next ==
    \/ \E k \in ToSet(Kubelets) : Start(k) \/ Stop(k) \/ Process(k)
    \/ \E m \in DOMAIN Kubelets : RunScript("check", m)
    \/ RunScript("remove", 0)
    \/ Script
    \/ \E n \in Nodes : WriteStatus(n)

\* The poll goes on, the informer delivers, and a script that runs goes on.
Fairness ==
    /\ \A k \in ToSet(Kubelets) :
          /\ WF_vars(PublishFails(k) \/ Publish(k))
          /\ WF_vars(\E n \in Nodes : Observe(k, n))
    /\ WF_vars(Script)

----------------------------------------------------------------------------
(***************************************************************************)
(* One kubelet per node, in the end: whatever the order in which addresses *)
(* are published, copied, removed and seen, a kubelet that serves comes to *)
(* act on the pods of exactly the nodes that carry its address, its own    *)
(* among them.  On the way there two kubelets may act on the same node.    *)
(***************************************************************************)
ClaimsSettle ==
    <>[](\A k \in ToSet(Kubelets) : phase[k] = "serving" =>
            \A n \in Nodes : isResponsibleFor(k, n) <=> Annotation(n) = k)
=============================================================================
