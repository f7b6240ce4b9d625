---------------------------- MODULE KubeletProofs ----------------------------
(***************************************************************************)
(* Proofs about Kubelet, for all pods, nodes, numbers of workers and       *)
(* bounds, with delegations that change at any time.                       *)
(*                                                                         *)
(* That no pod is forgotten rests on two facts.  The store and the pending *)
(* events together tell how the API server's object is (Informed).  An     *)
(* unfinished pod in the store has an event on its way, is in the work     *)
(* queue, or is in the hands of a worker that has not yet looked at it or  *)
(* works on the very version that is in the store (Tracked); so an early   *)
(* return of SyncPod on an old copy is followed by another SyncPod.  The   *)
(* one exception is a pod that SyncPod declined as another kubelet's.      *)
(*                                                                         *)
(* The results on timers, the cache, revivals and deletions rest on a      *)
(* second invariant, HistoryInv, which is shown for the informer's steps   *)
(* here and for the kubelet's own in KubeletHistoryProofs.                 *)
(***************************************************************************)
EXTENDS Kubelet, TLAPS

ApiVersion == [uid : Nat, phase : Phases, deleting : BOOLEAN]

Types ==
    /\ api \in [Pods -> ApiVersion] /\ store \in [Pods -> ApiVersion]
    /\ watch \in [Pods -> Seq(ApiVersion)]
    /\ notify \in [Pods -> Seq({"set", "delete"})]
    /\ pc \in [Pods -> Steps] /\ pod \in [Pods -> Version]
    /\ exposing \in [Managed -> Nat]
    /\ dirty \subseteq Pods /\ delayed \subseteq Pods /\ inMem \subseteq Managed
    /\ nodeDeletes \in Nat

\* The last version on its way to the store is the API server's, and the last
\* event on its way to the handler tells whether the store has an object.
Informed(p) ==
    /\ watch[p] = <<>> => store[p] = api[p]
    /\ watch[p] # <<>> => watch[p][Len(watch[p])] = api[p]
    /\ notify[p] # <<>> => (notify[p][Len(notify[p])] = "set" <=> store[p].phase # "none")

Unfinished(v) == v.phase # "none" /\ (v.deleting \/ v.phase = "pending")

Tracked(p) ==
    watch[p] = <<>> /\ p \notin declined /\ Unfinished(store[p]) =>
        \/ notify[p] # <<>>
        \/ p \in dirty \cup delayed
        \/ pc[p] = "lookup"
        \/ pc[p] \in {"sync", "delete", "mark"} /\ pod[p] = store[p]

\* Whatever stems from a BindPod stems from a handshake of this process.
Connected ==
    /\ nodeDeletes = 0 => shaken \subseteq clients
    /\ \A p \in inMem : NodeOf[p] \in shaken
    /\ \A p \in Pods : pod[p].phase = "inmem" => p \in Managed /\ NodeOf[p] \in shaken
    /\ \A p \in Managed : exposing[p] > 0 => NodeOf[p] \in shaken

IInv ==
    /\ Types
    /\ \A p \in Pods : Informed(p) /\ Tracked(p)
    /\ Connected

----------------------------------------------------------------------------
\* A cluster without pods.
LEMMA InitIInv == Init => IInv
<1> SUFFICES ASSUME Init PROVE IInv
  BY Zenon
<1>1. NoPod \in ApiVersion /\ NoPod \in Version /\ NoPod.phase = "none"
  BY Zenon DEF NoPod, ApiVersion, Version, Phases
<1>2. Types
  BY <1>1 DEF Init, Types, Steps
<1>3. ASSUME NEW p \in Pods PROVE Informed(p) /\ Tracked(p)
  BY <1>1, Zenon DEF Init, Informed, Tracked, Unfinished
<1>4. Connected
  BY <1>1 DEF Init, Connected
<1>5. QED
  BY <1>2, <1>3, <1>4, Zenon DEF IInv

\* A write to the API server and the event it causes.
LEMMA WriteInforms ==
    ASSUME IInv, NEW p \in Pods, NEW v \in ApiVersion, Write(p, v)
    PROVE  /\ api' \in [Pods -> ApiVersion] /\ watch' \in [Pods -> Seq(ApiVersion)]
           /\ store' = store /\ notify' = notify
           /\ watch'[p] # <<>>
           /\ \A q \in Pods : q # p => watch'[q] = watch[q]
           /\ \A q \in Pods : Informed(q)'
<1>1. /\ api' = [api EXCEPT ![p] = v] /\ watch' = [watch EXCEPT ![p] = Append(watch[p], v)]
      /\ store' = store /\ notify' = notify
  BY Zenon DEF Write
<1>2. watch[p] \in Seq(ApiVersion)
  BY Zenon DEF IInv, Types
<1>3. /\ Append(watch[p], v) \in Seq(ApiVersion) /\ Append(watch[p], v) # <<>>
      /\ Append(watch[p], v)[Len(Append(watch[p], v))] = v
  BY <1>2
<1>4. api' \in [Pods -> ApiVersion] /\ watch' \in [Pods -> Seq(ApiVersion)]
  BY <1>1 DEF IInv, Types
<1>5. watch'[p] = Append(watch[p], v) /\ api'[p] = v
  BY <1>1, Zenon DEF IInv, Types
<1>6. \A q \in Pods : q # p => watch'[q] = watch[q] /\ api'[q] = api[q]
  BY <1>1
<1>7. \A q \in Pods : Informed(q)'
  BY <1>1, <1>5 DEF IInv, Informed
<1>8. QED
  BY <1>1, <1>4, <1>7

\* Another client of the API server writes.
LEMMA OthersWrite ==
    ASSUME IInv, NEW p \in Pods, NEW v \in ApiVersion, Write(p, v),
           UNCHANGED <<connVars, inMem, queueVars, exposing, nodeDeletes, declined>>
    PROVE  IInv'
<1>1. Types'
  BY WriteInforms, Zenon DEF IInv, Types, queueVars
<1>2. \A q \in Pods : Tracked(q)'
  BY WriteInforms, Zenon DEF IInv, Tracked, queueVars
<1>3. Connected'
  BY Zenon DEF IInv, Connected, connVars, queueVars
<1>4. QED
  BY <1>1, <1>2, <1>3, WriteInforms, Zenon DEF IInv

\* The versions they write.
LEMMA OtherVersions ==
    ASSUME IInv, NEW p \in Pods
    PROVE  /\ Created(p) \in ApiVersion /\ Removed(p) \in ApiVersion
           /\ [api[p] EXCEPT !.deleting = TRUE] \in ApiVersion
           /\ [api[p] EXCEPT !.phase = "failed"] \in ApiVersion
           /\ [api[p] EXCEPT !.phase = "ready"] \in ApiVersion
<1>1. api[p] \in ApiVersion
  BY Zenon DEF IInv, Types
<1>2. Created(p) \in ApiVersion /\ Removed(p) \in ApiVersion
  BY <1>1 DEF ApiVersion, Phases, Created, Removed
<1>3. [api[p] EXCEPT !.deleting = TRUE] \in ApiVersion
  BY <1>1, Zenon DEF ApiVersion
<1>4. ASSUME NEW f \in Phases PROVE [api[p] EXCEPT !.phase = f] \in ApiVersion
  BY <1>1, Zenon DEF ApiVersion
<1>5. QED
  BY <1>2, <1>3, <1>4, Zenon DEF Phases

\* An empty queue, and a queue without its first element.
LEMMA EmptySeq ==
    ASSUME NEW S
    PROVE  /\ <<>> \in Seq(S) /\ Len(<<>>) = 0
           /\ \A s \in Seq(S) : s # <<>> => Len(s) \in Nat \ {0}
  OBVIOUS

LEMMA HeadTail ==
    ASSUME NEW S, NEW s \in Seq(S), s # <<>>
    PROVE  /\ Head(s) \in S /\ Head(s) = s[1] /\ Len(s) \in Nat \ {0}
           /\ Tail(s) \in Seq(S) /\ Len(Tail(s)) = Len(s) - 1
           /\ \A i \in 1 .. Len(Tail(s)) : Tail(s)[i] = s[i + 1]
<1>1. Len(s) # 0
  OBVIOUS
<1>2. Head(s) \in S /\ Head(s) = s[1] /\ Len(s) \in Nat \ {0}
  OBVIOUS
<1>3. Tail(s) \in Seq(S) /\ Len(Tail(s)) = Len(s) - 1
  OBVIOUS
<1>4. \A i \in 1 .. Len(Tail(s)) : Tail(s)[i] = s[i + 1]
  OBVIOUS
<1>5. QED
  OBVIOUS

\* Taking the first element of a queue leaves its last one.
LEMMA TailKeepsLast ==
    ASSUME NEW S, NEW s \in Seq(S), s # <<>>
    PROVE  /\ Tail(s) \in Seq(S) /\ Head(s) \in S
           /\ Tail(s) # <<>> => Tail(s)[Len(Tail(s))] = s[Len(s)]
           /\ Tail(s) = <<>> => Head(s) = s[Len(s)]
<1>1. /\ Tail(s) \in Seq(S) /\ Head(s) \in S /\ Len(s) \in Nat \ {0} /\ Head(s) = s[1]
      /\ Len(Tail(s)) = Len(s) - 1
      /\ \A i \in 1 .. Len(Tail(s)) : Tail(s)[i] = s[i + 1]
  OBVIOUS
<1>2. Tail(s) # <<>> => Len(Tail(s)) \in 1 .. Len(Tail(s))
  OBVIOUS
<1>3. Tail(s) = <<>> => Len(s) = 1
  <2>1. Tail(s) = <<>> => Len(Tail(s)) = 0
    BY EmptySeq, Zenon
  <2>2. QED
    BY <2>1
<1>4. QED
  BY <1>3

----------------------------------------------------------------------------
\* The informer applies a version: an event tells of it, and the rest of the
\* versions still end with the API server's.
LEMMA StoreUpdateStep ==
    ASSUME IInv, NEW p \in Pods, StoreUpdate(p)
    PROVE  IInv'
<1> DEFINE v == Head(watch[p])
           e == IF v.phase = "none" THEN "delete" ELSE "set"
<1>1. /\ watch[p] \in Seq(ApiVersion) /\ watch[p] # <<>> /\ notify[p] \in Seq({"set", "delete"})
      /\ v \in ApiVersion /\ Tail(watch[p]) \in Seq(ApiVersion)
      /\ Append(notify[p], e) \in Seq({"set", "delete"})
  <2>1. watch[p] \in Seq(ApiVersion) /\ watch[p] # <<>> /\ notify[p] \in Seq({"set", "delete"})
    BY Zenon DEF IInv, Types, StoreUpdate
  <2>2. e \in {"set", "delete"}
    BY Zenon
  <2> HIDE DEF e
  <2>3. QED
    BY <2>1, <2>2
<1>2. /\ Append(notify[p], e) # <<>>
      /\ Append(notify[p], e)[Len(Append(notify[p], e))] = e
  OBVIOUS
<1>3. /\ Tail(watch[p]) # <<>> => Tail(watch[p])[Len(Tail(watch[p]))] = watch[p][Len(watch[p])]
      /\ Tail(watch[p]) = <<>> => v = watch[p][Len(watch[p])]
  BY <1>1, TailKeepsLast, Zenon
<1>4. /\ watch' = [watch EXCEPT ![p] = Tail(watch[p])]
      /\ store' = [store EXCEPT ![p] = v]
      /\ notify' = [notify EXCEPT ![p] = Append(notify[p], e)]
      /\ UNCHANGED <<api, clients, shaken, inMem, dirty, delayed, pc, pod, exposing, nodeDeletes,
                     declined>>
  BY Zenon DEF StoreUpdate, connVars, queueVars, boundVars
<1> HIDE DEF v, e
<1>5. Types'
  BY <1>1, <1>4, Zenon DEF IInv, Types
<1>6. /\ watch'[p] = Tail(watch[p]) /\ store'[p] = v /\ notify'[p] = Append(notify[p], e)
      /\ \A q \in Pods : q # p =>
             watch'[q] = watch[q] /\ store'[q] = store[q] /\ notify'[q] = notify[q]
  BY <1>4, Zenon DEF IInv, Types
<1>7. e = "set" <=> v.phase # "none"
  BY Zenon DEF e
<1>8. Informed(p)'
  BY <1>1, <1>2, <1>3, <1>4, <1>6, <1>7, Zenon DEF IInv, Informed
<1>9. ASSUME NEW q \in Pods, q # p PROVE Informed(q)' /\ Tracked(q)'
  BY <1>4, <1>9 DEF IInv, Informed, Tracked
<1>10. Tracked(p)'
  BY <1>2, <1>6, Zenon DEF Tracked
<1>11. Connected'
  BY <1>4, Zenon DEF IInv, Connected
<1>12. QED
  BY <1>5, <1>8, <1>9, <1>10, <1>11, Zenon DEF IInv

\* The handler queues the pod on the last event of an object that exists.
LEMMA HandlePodEventStep ==
    ASSUME IInv, NEW p \in Pods, HandlePodEvent(p)
    PROVE  IInv'
<1>1. notify[p] \in Seq({"set", "delete"}) /\ notify[p] # <<>>
  BY Zenon DEF IInv, Types, HandlePodEvent
<1>2. /\ Tail(notify[p]) \in Seq({"set", "delete"})
      /\ Tail(notify[p]) # <<>> => Tail(notify[p])[Len(Tail(notify[p]))] = notify[p][Len(notify[p])]
      /\ Tail(notify[p]) = <<>> => Head(notify[p]) = notify[p][Len(notify[p])]
  BY <1>1
<1>3. /\ notify' = [notify EXCEPT ![p] = Tail(notify[p])]
      /\ dirty' = IF Head(notify[p]) = "set" THEN dirty \cup {p} ELSE dirty
      /\ UNCHANGED <<api, watch, store, clients, shaken, inMem, delayed, pc, pod, exposing,
                     nodeDeletes, declined>>
  BY Zenon DEF HandlePodEvent, connVars, boundVars
<1>4. Types'
  BY <1>2, <1>3, Zenon DEF IInv, Types
<1>5. notify'[p] = Tail(notify[p]) /\ \A q \in Pods : q # p => notify'[q] = notify[q]
  BY <1>3, Zenon DEF IInv, Types
<1>6. Informed(p)'
  BY <1>3 DEF IInv, Informed
<1>7. ASSUME NEW q \in Pods, q # p PROVE Informed(q)' /\ Tracked(q)'
  BY <1>3, <1>7 DEF IInv, Informed, Tracked
<1>8. Tracked(p)'
  <2>1. CASE Head(notify[p]) = "set"
    BY <1>3, <2>1, Zenon DEF Tracked
  <2>2. CASE Head(notify[p]) # "set"
    <3>1. Tail(notify[p]) = <<>> => store[p].phase = "none"
      BY <1>2, <2>2 DEF IInv, Informed
    <3>2. QED
      BY <1>3, <3>1 DEF Tracked, Unfinished
  <2>3. QED
    BY <2>1, <2>2, Zenon
<1>9. Connected'
  BY <1>3, Zenon DEF IInv, Connected
<1>10. QED
  BY <1>4, <1>6, <1>7, <1>8, <1>9, Zenon DEF IInv

\* A new process lists the pods anew.
LEMMA RestartStep ==
    ASSUME IInv, Restart
    PROVE  IInv'
<1>1. NoPod \in Version /\ NoPod.phase = "none"
  BY Zenon DEF NoPod, Version, Phases
<1>2. \A p \in Pods : notify'[p] = IF Exists(p) THEN <<"set">> ELSE <<>>
  BY Zenon DEF Restart
<1>3. <<"set">> \in Seq({"set", "delete"}) /\ <<"set">> # <<>> /\ <<"set">>[Len(<<"set">>)] = "set"
  OBVIOUS
<1>4. notify' \in [Pods -> Seq({"set", "delete"})]
  <2>1. notify' = [p \in Pods |-> IF Exists(p) THEN <<"set">> ELSE <<>>]
    BY Zenon DEF Restart
  <2>2. \A p \in Pods : (IF Exists(p) THEN <<"set">> ELSE <<>>) \in Seq({"set", "delete"})
    BY <1>3, EmptySeq, Zenon
  <2>3. QED
    BY <2>1, <2>2, Zenon
<1>5. Types'
  <2>1. api' \in [Pods -> ApiVersion] /\ store' \in [Pods -> ApiVersion]
    BY Zenon DEF IInv, Types, Restart
  <2>2. watch' \in [Pods -> Seq(ApiVersion)]
    BY DEF Restart
  <2>3. pc' \in [Pods -> Steps] /\ pod' \in [Pods -> Version] /\ exposing' \in [Managed -> Nat]
    BY <1>1, Zenon DEF Restart, Steps
  <2>4. dirty' = {} /\ delayed' = {} /\ inMem' = {} /\ nodeDeletes' = nodeDeletes
    BY Zenon DEF Restart
  <2>5. QED
    BY <1>4, <2>1, <2>2, <2>3, <2>4, Zenon DEF IInv, Types
<1>6. ASSUME NEW p \in Pods PROVE Informed(p)' /\ Tracked(p)'
  <2>1. watch'[p] = <<>> /\ store'[p] = api[p] /\ api' = api
    BY Zenon DEF Restart
  <2>2. QED
    BY <1>2, <2>1 DEF Informed, Tracked, Unfinished, Exists
<1>7. Connected'
  <2>1. \A p \in Pods : pod'[p] = NoPod
    BY Zenon DEF Restart
  <2>2. \A p \in Managed : exposing'[p] = 0
    BY Zenon DEF Restart
  <2>3. shaken' = {} /\ inMem' = {}
    BY Zenon DEF Restart
  <2>4. QED
    BY <1>1, <2>1, <2>2, <2>3 DEF Connected
<1>8. QED
  BY <1>5, <1>6, <1>7, Zenon DEF IInv

----------------------------------------------------------------------------
\* A step of the worker that holds p, whether or not it writes p's object:
\* it is left to show that p stays tracked and that a copy from the cache
\* stems from a handshake.
LEMMA WorkerStep ==
    ASSUME IInv, NEW p \in Pods, NEW step \in Steps, NEW copy \in Version, Goto(p, step, copy),
           api' \in [Pods -> ApiVersion], watch' \in [Pods -> Seq(ApiVersion)],
           store' = store, notify' = notify,
           \A q \in Pods : q # p => watch'[q] = watch[q],
           \A q \in Pods : Informed(q)',
           dirty' \subseteq Pods, delayed' \subseteq Pods,
           \A q \in dirty \cup delayed : q # p => q \in dirty' \cup delayed',
           exposing' \in [Managed -> Nat],
           \A q \in Managed : exposing'[q] > 0 => NodeOf[q] \in shaken,
           UNCHANGED <<clients, shaken, inMem, nodeDeletes>>,
           \A q \in declined : q # p => q \in declined',
           copy.phase = "inmem" => p \in Managed /\ NodeOf[p] \in shaken,
           Tracked(p)'
    PROVE  IInv'
<1>1. pc' = [pc EXCEPT ![p] = step] /\ pod' = [pod EXCEPT ![p] = copy]
  BY Zenon DEF Goto
<1>2. /\ pc'[p] = step /\ pod'[p] = copy
      /\ \A q \in Pods : q # p => pc'[q] = pc[q] /\ pod'[q] = pod[q]
  BY <1>1, Zenon DEF IInv, Types
<1>3. Types'
  BY <1>1, Zenon DEF IInv, Types
<1>4. ASSUME NEW q \in Pods, q # p PROVE Tracked(q)'
  BY <1>2, Zenon DEF IInv, Tracked
<1>5. Connected'
  BY <1>2, Zenon DEF IInv, Connected
<1>6. QED
  BY <1>3, <1>4, <1>5, Zenon DEF IInv

\* The same for a step that leaves the API server and the goroutines alone.
LEMMA LocalStep ==
    ASSUME IInv, NEW p \in Pods, NEW step \in Steps, NEW copy \in Version, Goto(p, step, copy),
           UNCHANGED <<apiVars, connVars, inMem, exposing, nodeDeletes>>,
           dirty' \subseteq Pods, delayed' \subseteq Pods,
           \A q \in dirty \cup delayed : q # p => q \in dirty' \cup delayed',
           \A q \in declined : q # p => q \in declined',
           copy.phase = "inmem" => p \in Managed /\ NodeOf[p] \in shaken,
           Tracked(p)'
    PROVE  IInv'
<1>1. UNCHANGED <<api, watch, store, notify, clients, shaken, inMem, exposing, nodeDeletes>>
  BY Zenon DEF apiVars, connVars
<1>2. \A q \in Pods : Informed(q)'
  BY <1>1, Zenon DEF IInv, Informed
<1>3. api' \in [Pods -> ApiVersion] /\ watch' \in [Pods -> Seq(ApiVersion)]
  BY <1>1, Zenon DEF IInv, Types
<1>4. exposing' \in [Managed -> Nat] /\ \A q \in Managed : exposing'[q] > 0 => NodeOf[q] \in shaken
  BY Zenon DEF IInv, Types, Connected
<1>5. \A q \in Pods : q # p => watch'[q] = watch[q]
  BY <1>1, Zenon
<1>6. QED
  BY <1>1, <1>2, <1>3, <1>4, WorkerStep, Zenon

\* What the steps rely on at p.
LEMMA AtPod ==
    ASSUME IInv, NEW p \in Pods
    PROVE  /\ NoPod \in Version /\ NoPod.phase = "none"
           /\ pod[p] \in Version /\ store[p] \in ApiVersion /\ store[p] \in Version
           /\ store[p].phase # "inmem"
           /\ {"idle", "lookup", "fromCache", "sync", "delete", "mark"} = Steps
           /\ dirty \subseteq Pods /\ delayed \subseteq Pods
<1>1. NoPod \in Version /\ NoPod.phase = "none"
  BY Zenon DEF NoPod, Version, Phases
<1>2. pod[p] \in Version /\ store[p] \in ApiVersion
  BY Zenon DEF IInv, Types
<1>3. ASSUME NEW v \in ApiVersion PROVE v \in Version /\ v.phase # "inmem"
  BY Zenon DEF ApiVersion, Version, Phases
<1>4. QED
  BY <1>1, <1>3, Zenon DEF IInv, Types, Steps

\* Dequeue, and the lookups in the store and in the cache.
LEMMA LookupSteps ==
    ASSUME IInv, NEW p \in Pods, Dequeue(p) \/ Lookup(p) \/ FromCache(p)
    PROVE  IInv'
<1>1. CASE Dequeue(p)
  <2>1. /\ Goto(p, "lookup", NoPod) /\ dirty' = dirty \ {p} /\ delayed' = delayed
        /\ declined' = declined \ {p}
    BY <1>1, Zenon DEF Dequeue
  <2>2. UNCHANGED <<apiVars, connVars, inMem, exposing, nodeDeletes>>
    BY <1>1, Zenon DEF Dequeue
  <2>3. pc'[p] = "lookup"
    BY <2>1, Zenon DEF Goto, IInv, Types
  <2>4. Tracked(p)'
    BY <2>3, Zenon DEF Tracked
  <2>5. QED
    BY <2>1, <2>2, <2>4, AtPod, LocalStep, Zenon
<1>2. CASE Lookup(p)
  <2>1. dirty' = dirty /\ delayed' = delayed
    BY <1>2, Zenon DEF Lookup
  <2>2. UNCHANGED <<apiVars, connVars, inMem, exposing, nodeDeletes, declined>>
    BY <1>2, Zenon DEF Lookup, boundVars
  <2>3. CASE store[p].phase # "none"
    <3>1. Goto(p, "sync", store[p])
      BY <1>2, <2>3, Zenon DEF Lookup
    <3>2. pc'[p] = "sync" /\ pod'[p] = store[p] /\ store' = store
      BY <2>2, <3>1, Zenon DEF Goto, IInv, Types, apiVars
    <3>3. Tracked(p)'
      BY <3>2, Zenon DEF Tracked
    <3>4. QED
      BY <2>1, <2>2, <3>1, <3>3, AtPod, LocalStep, Zenon
  <2>4. CASE store[p].phase = "none"
    <3>1. Goto(p, "fromCache", NoPod)
      BY <1>2, <2>4, Zenon DEF Lookup
    <3>2. Tracked(p)'
      BY <2>2, <2>4, Zenon DEF Tracked, Unfinished, apiVars
    <3>3. QED
      BY <2>1, <2>2, <3>1, <3>2, AtPod, LocalStep, Zenon
  <2>5. QED
    BY <2>3, <2>4, Zenon
<1>3. CASE FromCache(p)
  <2>1. dirty' = dirty /\ delayed' = delayed
    BY <1>3, Zenon DEF FromCache, Finish
  <2>2. UNCHANGED <<apiVars, connVars, inMem, exposing, nodeDeletes, declined>>
    BY <1>3, Zenon DEF FromCache, boundVars
  <2>3. Tracked(p)'
    BY <1>3, <2>1, <2>2, Zenon DEF FromCache, IInv, Tracked, apiVars
  <2>4. CASE p \in inMem /\ template
    <3> DEFINE copy == [uid |-> 0, phase |-> "inmem", deleting |-> FALSE]
    <3>1. Goto(p, "sync", copy)
      BY <1>3, <2>4, Zenon DEF FromCache
    <3>2. copy \in Version /\ p \in Managed /\ NodeOf[p] \in shaken
      BY <2>4, Zenon DEF Version, IInv, Types, Connected
    <3> HIDE DEF copy
    <3>3. QED
      BY <2>1, <2>2, <2>3, <3>1, <3>2, AtPod, LocalStep, Zenon
  <2>5. CASE ~(p \in inMem /\ template)
    <3>1. Goto(p, "idle", NoPod)
      BY <1>3, <2>5, Zenon DEF FromCache, Finish
    <3>2. QED
      BY <2>1, <2>2, <2>3, <3>1, AtPod, LocalStep, Zenon
  <2>6. QED
    BY <2>4, <2>5, Zenon
<1>4. QED
  BY <1>1, <1>2, <1>3, Zenon

\* An error puts the pod back into the queue.
LEMMA RequeueStep ==
    ASSUME IInv, NEW p \in Pods, Requeue(p),
           UNCHANGED <<apiVars, connVars, inMem, exposing, nodeDeletes, declined>>
    PROVE  IInv'
<1>1. Goto(p, "idle", NoPod) /\ delayed' = delayed \cup {p} /\ dirty' = dirty
  BY Zenon DEF Requeue
<1>2. Tracked(p)'
  BY <1>1, Zenon DEF Tracked
<1>3. QED
  BY <1>1, <1>2, AtPod, LocalStep, Zenon

\* The branches of SyncPod that call nobody: those that return nil without a
\* timer have found the version in the store finished, or it is not the one
\* they looked at, or they decline the pod.
LEMMA SyncSteps ==
    ASSUME IInv, NEW p \in Pods,
           SyncNotMine(p) \/ SyncDeleting(p) \/ SyncDone(p) \/ CallFails(p)
    PROVE  IInv'
<1>1. /\ UNCHANGED <<apiVars, connVars, inMem, exposing, nodeDeletes>>
      /\ SyncNotMine(p) \/ declined' = declined
  BY Zenon DEF SyncNotMine, SyncDeleting, SyncDone, CallFails, boundVars
<1>2. CASE SyncNotMine(p)
  <2>1. CASE NodeMissing(p)
    BY <1>1, <1>2, <2>1, RequeueStep, Zenon DEF SyncNotMine
  <2>2. CASE ~NodeMissing(p)
    <3>1. /\ Goto(p, "idle", NoPod) /\ dirty' = dirty /\ delayed' = delayed
          /\ declined' = declined \cup {p}
      BY <1>2, <2>2, Zenon DEF SyncNotMine, Finish
    <3>2. Tracked(p)'
      BY <3>1, Zenon DEF Tracked
    <3>3. QED
      BY <1>1, <3>1, <3>2, AtPod, LocalStep, Zenon
  <2>3. QED
    BY <2>1, <2>2, Zenon
<1>3. CASE SyncDeleting(p)
  <2>1. /\ Goto(p, "delete", pod[p]) /\ dirty' = dirty /\ delayed' = delayed /\ pc[p] = "sync"
        /\ declined' = declined
    BY <1>3, Zenon DEF SyncDeleting, Mine, boundVars
  <2>2. pc'[p] = "delete" /\ pod'[p] = pod[p]
    BY <2>1, Zenon DEF Goto, IInv, Types
  <2>3. Tracked(p)'
    BY <1>1, <2>1, <2>2, Zenon DEF IInv, Tracked, apiVars
  <2>4. pod[p].phase = "inmem" => p \in Managed /\ NodeOf[p] \in shaken
    BY Zenon DEF IInv, Connected
  <2>5. QED
    BY <1>1, <2>1, <2>3, <2>4, AtPod, LocalStep, Zenon
<1>4. CASE SyncDone(p)
  <2>1. /\ Goto(p, "idle", NoPod) /\ dirty' = dirty /\ delayed' = delayed
        /\ pc[p] = "sync" /\ ~pod[p].deleting /\ pod[p].phase \in {"failed", "ready"}
        /\ declined' = declined
    BY <1>4, Zenon DEF SyncDone, Finish, Mine, boundVars
  <2>2. pod[p] = store[p] => ~Unfinished(store[p])
    BY <2>1, Zenon DEF Unfinished
  <2>3. Tracked(p)'
    BY <1>1, <2>1, <2>2, Zenon DEF IInv, Tracked, apiVars
  <2>4. QED
    BY <1>1, <2>1, <2>3, AtPod, LocalStep, Zenon
<1>5. CASE CallFails(p)
  BY <1>1, <1>5, RequeueStep, Zenon DEF CallFails, boundVars
<1>6. QED
  BY <1>2, <1>3, <1>4, <1>5, Zenon

\* The wait for the timer: the pod comes back, or is marked, or the copy was
\* made from the cache and the object that is to appear will be notified.
LEMMA SyncWaitStep ==
    ASSUME IInv, NEW p \in Pods, SyncWait(p)
    PROVE  IInv'
<1>1. /\ UNCHANGED <<api, watch, store, notify, clients, shaken, inMem, nodeDeletes, declined>>
      /\ pc[p] = "sync" /\ pod[p].phase \in {"pending", "inmem"}
      /\ exposing' = IF timer[p] = "none" /\ pod[p].phase = "inmem"
                     THEN [exposing EXCEPT ![p] = @ + 1] ELSE exposing
  BY Zenon DEF SyncWait, Mine, apiVars, connVars, boundVars
<1>2. pod[p].phase = "inmem" => p \in Managed /\ NodeOf[p] \in shaken
  BY Zenon DEF IInv, Connected
<1>3. exposing' \in [Managed -> Nat]
  BY <1>1, <1>2 DEF IInv, Types
<1>4. \A q \in Managed : exposing'[q] > 0 => NodeOf[q] \in shaken
  BY <1>1 DEF IInv, Connected
<1>5. \A q \in Pods : Informed(q)'
  BY <1>1, Zenon DEF IInv, Informed
<1>6. api' \in [Pods -> ApiVersion] /\ watch' \in [Pods -> Seq(ApiVersion)]
  BY <1>1, Zenon DEF IInv, Types
<1>7. CASE Goto(p, "idle", NoPod) /\ delayed' = delayed \cup {p} /\ dirty' = dirty
  <2>1. Tracked(p)'
    BY <1>7, Zenon DEF Tracked
  <2>2. QED
    BY <1>1, <1>3, <1>4, <1>5, <1>6, <1>7, <2>1, AtPod, WorkerStep, Zenon
<1>8. CASE pod[p].phase = "inmem" /\ Goto(p, "idle", NoPod) /\ UNCHANGED <<dirty, delayed>>
  <2>1. pod[p] # store[p]
    BY <1>8, AtPod, Zenon
  <2>2. Tracked(p)'
    BY <1>1, <1>8, <2>1, Zenon DEF IInv, Tracked
  <2>3. QED
    BY <1>1, <1>3, <1>4, <1>5, <1>6, <1>8, <2>2, AtPod, WorkerStep, Zenon
<1>9. CASE pod[p].phase # "inmem" /\ Goto(p, "mark", pod[p]) /\ UNCHANGED <<dirty, delayed>>
  <2>1. pc'[p] = "mark" /\ pod'[p] = pod[p]
    BY <1>9, Zenon DEF Goto, IInv, Types
  <2>2. Tracked(p)'
    BY <1>1, <1>9, <2>1, Zenon DEF IInv, Tracked
  <2>3. QED
    BY <1>1, <1>3, <1>4, <1>5, <1>6, <1>9, <2>2, AtPod, WorkerStep, Zenon
<1>10. \/ Goto(p, "idle", NoPod) /\ delayed' = delayed \cup {p} /\ dirty' = dirty
       \/ pod[p].phase = "inmem" /\ Goto(p, "idle", NoPod) /\ UNCHANGED <<dirty, delayed>>
       \/ pod[p].phase # "inmem" /\ Goto(p, "mark", pod[p]) /\ UNCHANGED <<dirty, delayed>>
  BY Zenon DEF SyncWait, Finish
<1>11. QED
  BY <1>7, <1>8, <1>9, <1>10, Zenon

\* The calls that write: what they wrote is on its way to the store.
LEMMA CallSteps ==
    ASSUME IInv, NEW p \in Pods, DeletePod(p) \/ MarkReady(p)
    PROVE  IInv'
<1>1. /\ Goto(p, "idle", NoPod) /\ dirty' = dirty /\ delayed' = delayed
      /\ UNCHANGED <<connVars, inMem, exposing, nodeDeletes, declined>>
  BY Zenon DEF DeletePod, MarkReady, Finish, boundVars
<1>2. ASSUME NEW v \in ApiVersion, Write(p, v) PROVE IInv'
  <2>1. Tracked(p)'
    BY <1>2, WriteInforms, Zenon DEF Tracked
  <2>2. /\ exposing' \in [Managed -> Nat]
        /\ \A q \in Managed : exposing'[q] > 0 => NodeOf[q] \in shaken
    BY <1>1, Zenon DEF IInv, Types, Connected
  <2>3. UNCHANGED <<clients, shaken, inMem, nodeDeletes>>
    BY <1>1, Zenon DEF connVars
  <2>4. QED
    BY <1>1, <1>2, <2>1, <2>2, <2>3, WriteInforms, AtPod, WorkerStep, Zenon
<1>3. CASE MarkReady(p)
  BY <1>2, <1>3, OtherVersions, Zenon DEF MarkReady
<1>4. CASE DeletePod(p) /\ Exists(p)
  BY <1>2, <1>4, OtherVersions, Zenon DEF DeletePod
<1>5. CASE DeletePod(p) /\ ~Exists(p)
  <2>1. UNCHANGED apiVars
    BY <1>5, Zenon DEF DeletePod
  <2>2. watch[p] = <<>> => store[p].phase = "none"
    BY <1>5, Zenon DEF IInv, Informed, Exists
  <2>3. Tracked(p)'
    BY <2>1, <2>2, Zenon DEF Tracked, Unfinished, apiVars
  <2>4. QED
    BY <1>1, <2>1, <2>3, AtPod, LocalStep, Zenon
<1>6. QED
  BY <1>3, <1>4, <1>5, Zenon

----------------------------------------------------------------------------
\* BindPod needs a handshake; Expose answers one goroutine.
LEMMA ManagedSteps ==
    ASSUME IInv, NEW p \in Managed, BindPod(p) \/ Expose(p)
    PROVE  IInv'
<1>1. p \in Pods
  BY Zenon DEF Pods
<1>2. CASE BindPod(p)
  <2>1. /\ NodeOf[p] \in shaken /\ inMem' = inMem \cup {p}
        /\ dirty \subseteq dirty' /\ dirty' \subseteq dirty \cup {p}
        /\ UNCHANGED <<api, watch, store, notify, clients, shaken, delayed, pc, pod, exposing,
                       nodeDeletes, declined>>
    BY <1>2, Zenon DEF BindPod, apiVars, connVars
  <2>2. Types'
    BY <1>1, <2>1, Zenon DEF IInv, Types
  <2>3. \A q \in Pods : Informed(q)'
    BY <2>1, Zenon DEF IInv, Informed
  <2>4. \A q \in Pods : Tracked(q)'
    BY <2>1, Zenon DEF IInv, Tracked
  <2>5. Connected'
    BY <2>1, Zenon DEF IInv, Connected
  <2>6. QED
    BY <2>2, <2>3, <2>4, <2>5, Zenon DEF IInv
<1>3. CASE Expose(p)
  <2>1. /\ exposing[p] > 0 /\ exposing' = [exposing EXCEPT ![p] = exposing[p] - 1]
        /\ UNCHANGED <<clients, shaken, inMem, dirty, delayed, pc, pod, nodeDeletes, declined>>
    BY <1>3, Zenon DEF Expose, connVars, queueVars, boundVars
  <2>2. exposing' \in [Managed -> Nat]
    BY <2>1 DEF IInv, Types
  <2>3. Connected'
    BY <2>1 DEF IInv, Connected
  <2>4. CASE Exists(p)
    <3>1. UNCHANGED <<api, watch, store, notify>>
      BY <1>3, <2>4, Zenon DEF Expose, apiVars
    <3>2. Types'
      BY <2>1, <3>1 DEF IInv, Types
    <3>3. \A q \in Pods : Informed(q)'
      BY <3>1, Zenon DEF IInv, Informed
    <3>4. \A q \in Pods : Tracked(q)'
      BY <2>1, <3>1, Zenon DEF IInv, Tracked
    <3>5. QED
      BY <2>3, <3>2, <3>3, <3>4, Zenon DEF IInv
  <2>5. CASE ~Exists(p)
    <3>1. Write(p, Created(p)) /\ Created(p) \in ApiVersion
      BY <1>1, <1>3, <2>5, OtherVersions, Zenon DEF Expose
    <3>2. Types'
      BY <1>1, <2>1, <3>1, WriteInforms DEF IInv, Types
    <3>3. \A q \in Pods : Tracked(q)'
      BY <1>1, <2>1, <3>1, WriteInforms, Zenon DEF IInv, Tracked
    <3>4. QED
      BY <1>1, <2>3, <3>1, <3>2, <3>3, WriteInforms, Zenon DEF IInv
  <2>6. QED
    BY <2>4, <2>5, Zenon
<1>4. QED
  BY <1>2, <1>3, Zenon

\* Steps that concern neither the pods' objects nor a worker.
LEMMA QuietSteps ==
    ASSUME IInv,
           UNCHANGED <<api, watch, store, notify, pc, pod, exposing, declined>>,
           inMem' \subseteq inMem,
           dirty' \subseteq Pods, delayed' \subseteq Pods,
           dirty \cup delayed \subseteq dirty' \cup delayed',
           nodeDeletes' \in Nat, nodeDeletes' = 0 => shaken' \subseteq clients',
           shaken \subseteq shaken'
    PROVE  IInv'
<1>1. Types'
  BY Zenon DEF IInv, Types
<1>2. \A q \in Pods : Informed(q)'
  BY Zenon DEF IInv, Informed
<1>3. \A q \in Pods : Tracked(q)'
  BY Zenon DEF IInv, Tracked
<1>4. Connected'
  BY Zenon DEF IInv, Connected
<1>5. QED
  BY <1>1, <1>2, <1>3, <1>4, Zenon DEF IInv

\* One step per action, or group of actions that disturb the same conjuncts.
LEMMA NextIInv == IInv /\ [Next]_vars => IInv'
<1> SUFFICES ASSUME IInv, [Next]_vars PROVE IInv'
  BY Zenon
<1>1. /\ dirty \subseteq Pods /\ delayed \subseteq Pods /\ nodeDeletes \in Nat
      /\ nodeDeletes = 0 => shaken \subseteq clients
  BY Zenon DEF IInv, Types, Connected
<1>2. ASSUME NEW p \in Pods,
             CreateNative(p) \/ RequestDeletion(p) \/ ForceRemove(p) \/ FailPod(p)
      PROVE  IInv'
  <2>1. UNCHANGED <<connVars, inMem, queueVars, exposing, nodeDeletes, declined>>
    BY <1>2, Zenon DEF CreateNative, RequestDeletion, ForceRemove, FailPod, boundVars
  <2>2. PICK v \in ApiVersion : Write(p, v)
    BY <1>2, OtherVersions, Zenon DEF CreateNative, RequestDeletion, ForceRemove, FailPod
  <2>3. QED
    BY <2>1, <2>2, OthersWrite, Zenon
<1>3. CASE DeleteTemplate
  BY <1>1, <1>3, QuietSteps, Zenon DEF DeleteTemplate, connVars, queueVars, boundVars
<1>4. ASSUME NEW n \in Nodes, DeleteNode(n) PROVE IInv'
  BY <1>1, <1>4, QuietSteps DEF DeleteNode, queueVars
<1>5. ASSUME NEW n \in Nodes, AddNode(n) PROVE IInv'
  BY <1>1, <1>5, QuietSteps, Zenon DEF AddNode, connVars, queueVars, boundVars
<1>6. ASSUME NEW n, Handshake(n) PROVE IInv'
  BY <1>1, <1>6, QuietSteps, Zenon DEF Handshake, apiVars, queueVars, boundVars
<1>f. ASSUME NEW p \in Managed, FlushCache(p) PROVE IInv'
  BY <1>1, <1>f, QuietSteps, Zenon DEF FlushCache, connVars, queueVars, boundVars
<1>u. CASE UpdateNode
  BY <1>1, <1>u, QuietSteps, Zenon DEF UpdateNode, connVars, queueVars, boundVars
<1>7. ASSUME NEW p \in Pods, NilClient(p) \/ TimerElapses(p) PROVE IInv'
  BY <1>1, <1>7, QuietSteps, Zenon
     DEF NilClient, TimerElapses, apiVars, connVars, queueVars, boundVars
<1>8. ASSUME NEW p \in Pods, DelayElapses(p) PROVE IInv'
  <2>1. /\ UNCHANGED <<api, watch, store, notify, clients, shaken, inMem, pc, pod, exposing,
                       nodeDeletes, declined>>
        /\ delayed' = delayed \ {p} /\ dirty' = dirty \cup {p}
    BY <1>8, Zenon DEF DelayElapses, apiVars, connVars, boundVars
  <2>2. QED
    BY <1>1, <2>1, QuietSteps, Zenon
<1>9. CASE UNCHANGED vars
  BY <1>1, <1>9, QuietSteps, Zenon DEF vars, apiVars, connVars, queueVars, boundVars
<1>10. ASSUME NEW p \in Pods, Worker(p) PROVE IInv'
  BY <1>10, LookupSteps, SyncSteps, SyncWaitStep, CallSteps, Zenon DEF Worker
<1>11. QED
  BY <1>2, <1>3, <1>4, <1>5, <1>6, <1>f, <1>u, <1>7, <1>8, <1>9, <1>10, StoreUpdateStep, HandlePodEventStep,
     ManagedSteps, LookupSteps, RestartStep, Zenon
     DEF Next, Pods

----------------------------------------------------------------------------
\* Every step of the kubelet and of its surroundings keeps the invariant.
THEOREM IInvariance == Spec => []IInv
  BY InitIInv, NextIInv, PTL DEF Spec

(***************************************************************************)
(* No lost wake-up (handlePodEvent, SyncPod and the work queue): at rest,  *)
(* the store shows the API server's object, and by Tracked it is finished. *)
(***************************************************************************)
THEOREM NoPodIsForgotten == Spec => []NoForgottenPod
<1>1. IInv => NoForgottenPod
  <2> SUFFICES ASSUME IInv, NEW p \in Pods, Quiet(p), p \notin declined, Exists(p)
               PROVE  ~api[p].deleting /\ api[p].phase # "pending"
    BY Zenon DEF NoForgottenPod
  <2>1. store[p] = api[p] /\ Tracked(p)
    BY Zenon DEF IInv, Informed, Quiet
  <2>2. ~Unfinished(store[p])
    BY <2>1, Zenon DEF Tracked, Quiet
  <2>3. QED
    BY <2>1, <2>2, Zenon DEF Unfinished, Exists
<1>2. QED
  BY <1>1, IInvariance, PTL

(***************************************************************************)
(* The retry loop of ExposeManagedPod finds the client of its node as long *)
(* as no node object has been deleted, although GetClient may answer nil.  *)
(***************************************************************************)
THEOREM ExposeHasClient == Spec => []ExposeFindsClient
<1>1. IInv => ExposeFindsClient
  BY Zenon DEF IInv, Connected, ExposeFindsClient
<1>2. QED
  BY <1>1, IInvariance, PTL

----------------------------------------------------------------------------
(***************************************************************************)
(* The past of a pod.  Whether a timer, a cached pod or a creation is one  *)
(* too many depends on what the informer, the queue and the workers have   *)
(* already seen of the pod.  HistoryInv says it: the versions of a name    *)
(* reach the store in their order (Ordered), workers hold earlier ones     *)
(* (Copies, Fresh), a timer belongs to an object that will be looked at or *)
(* to a goroutine that will create it (TimerTracked, Unborn, Gone), and    *)
(* until handlePodEvent has seen the pod, a single BindPod pays for one    *)
(* creation (Cached, Unbound, BoundOnce).                                  *)
(*                                                                         *)
(* Here it is shown for the first state, the API server's other clients    *)
(* and the informer; KubeletHistoryProofs has the kubelet's own steps.     *)
(***************************************************************************)

\* The order of the versions of a name: by creation, and no object loses its
\* deletion mark or comes back once it is removed.
Precedes(v, w) ==
    \/ v.uid < w.uid
    \/ /\ v.uid = w.uid
       /\ v.phase = "none" => w.phase = "none"
       /\ v.deleting => w.deleting \/ w.phase = "none"

\* The store, the versions on their way to it and the API server's version
\* come in that order; an event of a removal is not there before it.
Ordered(p) ==
    /\ api[p].uid = 0 =>
          /\ watch[p] = <<>> /\ notify[p] = <<>>
          /\ ~Exists(p) /\ store[p].phase = "none" /\ store[p].uid = 0
    /\ store[p].phase # "none" => store[p].uid >= 1
    /\ Precedes(store[p], api[p])
    /\ \A i \in 1 .. Len(watch[p]) :
          /\ watch[p][i].uid >= 1
          /\ Precedes(store[p], watch[p][i]) /\ Precedes(watch[p][i], api[p])
          /\ \A j \in i .. Len(watch[p]) : Precedes(watch[p][i], watch[p][j])
    /\ api[p].uid <= 1 =>
          \A i \in 1 .. Len(notify[p]) : notify[p][i] = "delete" => ~Exists(p)

\* What a worker holds at each of its steps.
Copies(p) ==
    /\ pc[p] = "delete" => pod[p].deleting
    /\ pod[p].phase = "inmem" => pc[p] = "sync" /\ ~pod[p].deleting
    /\ pc[p] \in {"idle", "lookup", "fromCache"} => pod[p] = NoPod
    /\ pc[p] \in {"sync", "delete", "mark"} =>
          \/ pod[p].phase = "inmem"
          \/ pod[p].uid >= 1 /\ pod[p].phase # "none" /\ Precedes(pod[p], store[p])

\* A worker with an old copy will not be the last one to look.
Fresh(p) ==
    store[p].phase # "none" =>
        \/ notify[p] # <<>> \/ p \in dirty \cup delayed
        \/ pc[p] \in {"idle", "lookup"} \/ pod[p] = store[p]

\* A timer of an object that the store has is looked at again.
TimerTracked(p) ==
    p \notin declined /\ store[p].phase # "none" /\ timer[p] # "none" =>
        \/ watch[p] # <<>> \/ notify[p] # <<>> \/ p \in dirty \cup delayed
        \/ pc[p] # "idle"

\* Before its first creation a timer is that of a goroutine that will create
\* the pod; the same holds after its removal.
Unborn(p) == api[p].uid = 0 /\ timer[p] # "none" => Exposing(p)

Gone(p) ==
    p \notin forced /\ api[p].uid = 1 /\ ~Exists(p) =>
        /\ timer[p] = "none" \/ Exposing(p)
        /\ store[p].uid = 1 /\ (store[p].phase = "none" \/ store[p].deleting)
        /\ pc[p] \in {"sync", "delete", "mark"} => pod[p].phase = "inmem" \/ pod[p].deleting

\* A pod in the cache whose object is not there yet, or no longer, will be
\* looked at or is being created.
Cached(p) ==
    /\ p \notin forced \cup declined \cup flushing
    /\ api[p].uid <= 1 /\ template /\ p \in inMem
    /\ watch[p] = <<>> /\ notify[p] = <<>> /\ store[p].phase = "none"
    => \/ p \in dirty \cup delayed \/ exposing[p] > 0
       \/ pc[p] \in {"lookup", "fromCache"} \/ pod[p].phase = "inmem"

\* Before the first BindPod there is nothing of the pod.
Unbound(p) ==
    binds[p] = 0 =>
        /\ api[p].uid = 0 /\ exposing[p] = 0 /\ p \notin inMem /\ pod[p].phase # "inmem"
        /\ p \notin flushing
        /\ p \notin dirty \cup delayed /\ pc[p] = "idle"

\* After a single BindPod, until an event of the pod is handled: the BindPod
\* has paid for one goroutine and one creation; the queue has the pod once; and
\* once the goroutine has been started, its timer keeps the cached pod from
\* starting another, or no worker will look at the cached pod again.
Spent(p) == api[p].uid + exposing[p] >= 1
Untouched(p) == p \notin forced /\ binds[p] = 1 /\ p \in inMem /\ p \notin flushing

BoundOnce(p) ==
    Untouched(p) =>
        /\ api[p].uid + exposing[p] <= 1
        /\ api[p].uid = 1 => watch[p] # <<>> \/ notify[p] # <<>>
        /\ p \in dirty => p \notin delayed /\ pc[p] = "idle"
        /\ p \in delayed => pc[p] = "idle"
        /\ Spent(p) /\ pod[p].phase = "inmem" => timer[p] # "none"
        /\ Spent(p) /\ timer[p] = "none" => p \notin dirty \cup delayed /\ pc[p] = "idle"
        /\ api[p].uid = 1 /\ ~Exists(p) => pod[p].phase # "inmem" /\ timer[p] = "none"

\* What is known of a pod's past.
History(p) ==
    /\ Ordered(p) /\ Copies(p) /\ Fresh(p) /\ TimerTracked(p) /\ Unborn(p) /\ Gone(p)
    /\ p \in Managed => Cached(p) /\ Unbound(p) /\ BoundOnce(p)

HistoryInv ==
    /\ timer \in [Pods -> {"none", "running", "due"}]
    /\ binds \in [Managed -> Nat]
    /\ \A p \in Pods : History(p)

\* A step that does not concern pod q.
Same(q) ==
    /\ api'[q] = api[q] /\ watch'[q] = watch[q] /\ store'[q] = store[q] /\ notify'[q] = notify[q]
    /\ timer'[q] = timer[q] /\ pc'[q] = pc[q] /\ pod'[q] = pod[q]
    /\ (q \in inMem' <=> q \in inMem) /\ (q \in dirty' <=> q \in dirty)
    /\ (q \in delayed' <=> q \in delayed) /\ (template' => template)
    /\ (q \in flushing' <=> q \in flushing)
    /\ (q \in forced => q \in forced') /\ (q \in declined => q \in declined')
    /\ q \in Managed => exposing'[q] = exposing[q] /\ binds'[q] = binds[q]

\* A pod that a step does not concern keeps its history.
LEMMA SameKeeps ==
    ASSUME NEW q \in Pods, History(q), Same(q)
    PROVE  History(q)'
<1>1. Ordered(q)'
  BY Zenon DEF History, Same, Ordered, Exists
<1>2. Copies(q)' /\ Fresh(q)' /\ TimerTracked(q)'
  BY Zenon DEF History, Same, Copies, Fresh, TimerTracked
<1>3. Unborn(q)' /\ Gone(q)'
  BY Zenon DEF History, Same, Unborn, Gone, Exposing, Exists
<1>4. q \in Managed => Cached(q)' /\ Unbound(q)'
  BY Zenon DEF History, Same, Cached, Unbound
<1>5. q \in Managed => BoundOnce(q)'
  BY Zenon DEF History, Same, BoundOnce, Untouched, Spent, Exists
<1>6. QED
  BY <1>1, <1>2, <1>3, <1>4, <1>5, Zenon DEF History

\* There are no pods at first.
LEMMA InitHistoryInv == Init => HistoryInv
<1> SUFFICES ASSUME Init PROVE HistoryInv
  BY Zenon
<1>1. NoPod.phase = "none" /\ NoPod.uid = 0 /\ NoPod.deleting = FALSE
  BY Zenon DEF NoPod
<1>2. timer \in [Pods -> {"none", "running", "due"}] /\ binds \in [Managed -> Nat]
  BY Zenon DEF Init
<1>3. ASSUME NEW p \in Pods PROVE History(p)
  <2>1. /\ api[p] = NoPod /\ watch[p] = <<>> /\ store[p] = NoPod /\ notify[p] = <<>>
        /\ timer[p] = "none" /\ pc[p] = "idle" /\ pod[p] = NoPod
        /\ p \notin inMem /\ p \notin dirty /\ p \notin delayed /\ p \notin flushing
        /\ p \in Managed => exposing[p] = 0 /\ binds[p] = 0
    BY Zenon DEF Init
  <2>2. Ordered(p)
    BY <1>1, <2>1 DEF Ordered, Precedes, Exists
  <2>3. Copies(p) /\ Fresh(p) /\ TimerTracked(p) /\ Unborn(p)
    BY <1>1, <2>1, Zenon DEF Copies, Fresh, TimerTracked, Unborn
  <2>4. Gone(p) /\ (p \in Managed => Cached(p) /\ Unbound(p) /\ BoundOnce(p))
    BY <1>1, <2>1 DEF Gone, Cached, Unbound, BoundOnce, Untouched
  <2>5. QED
    BY <2>2, <2>3, <2>4, Zenon DEF History
<1>4. QED
  BY <1>2, <1>3, Zenon DEF HistoryInv

----------------------------------------------------------------------------
\* A write of a later version keeps the order.
LEMMA WriteOrdered ==
    ASSUME IInv, NEW p \in Pods, Ordered(p), NEW v \in ApiVersion, Write(p, v),
           v.uid >= 1, Precedes(api[p], v)
    PROVE  Ordered(p)' /\ api'[p] = v /\ watch'[p] # <<>>
<1>1. /\ api'[p] = v /\ watch'[p] = Append(watch[p], v)
      /\ store' = store /\ notify' = notify
  BY Zenon DEF Write, IInv, Types
<1>2. watch[p] \in Seq(ApiVersion) /\ api[p] \in ApiVersion /\ store[p] \in ApiVersion
  BY Zenon DEF IInv, Types
<1>3. \A u \in ApiVersion : u.uid \in Nat
  BY Zenon DEF ApiVersion
<1>4. ASSUME NEW u \in ApiVersion, Precedes(u, api[p]) PROVE Precedes(u, v)
  BY <1>2, <1>3, <1>4 DEF Precedes
<1>5. /\ Len(Append(watch[p], v)) = Len(watch[p]) + 1
      /\ \A i \in 1 .. Len(watch[p]) : Append(watch[p], v)[i] = watch[p][i]
      /\ Append(watch[p], v)[Len(watch[p]) + 1] = v
      /\ \A i \in 1 .. Len(watch[p]) : watch[p][i] \in ApiVersion
      /\ Append(watch[p], v) # <<>> /\ Len(watch[p]) \in Nat
  BY <1>2
<1>6. Precedes(v, v)
  BY Zenon DEF Precedes
<1>7. ASSUME NEW i \in 1 .. Len(watch'[p])
      PROVE  /\ watch'[p][i].uid >= 1
             /\ Precedes(store[p], watch'[p][i]) /\ Precedes(watch'[p][i], v)
             /\ \A j \in i .. Len(watch'[p]) : Precedes(watch'[p][i], watch'[p][j])
  <2>1. CASE i = Len(watch[p]) + 1
    <3>1. watch'[p][i] = v /\ \A j \in i .. Len(watch'[p]) : j = i
      BY <1>1, <2>1
    <3>2. Precedes(store[p], v)
      BY <1>2, <1>4, Zenon DEF Ordered
    <3>3. QED
      BY <1>6, <3>1, <3>2, Zenon
  <2>2. CASE i \in 1 .. Len(watch[p])
    <3>1. watch'[p][i] = watch[p][i] /\ Precedes(watch[p][i], v)
      BY <1>1, <1>4, <1>5, <2>2, Zenon DEF Ordered
    <3>2. ASSUME NEW j \in i .. Len(watch'[p]) PROVE Precedes(watch[p][i], watch'[p][j])
      <4>1. j = Len(watch[p]) + 1 \/ j \in i .. Len(watch[p])
        BY <1>1
      <4>2. CASE j = Len(watch[p]) + 1
        BY <1>1, <3>1, <4>2
      <4>3. CASE j \in i .. Len(watch[p])
        BY <1>1, <4>3 DEF Ordered
      <4>4. QED
        BY <4>1, <4>2, <4>3, Zenon
    <3>3. QED
      BY <2>2, <3>1, <3>2, Zenon DEF Ordered
  <2>3. QED
    BY <1>1, <2>1, <2>2
<1>8. v.uid <= 1 => \A i \in 1 .. Len(notify[p]) : notify[p][i] = "delete" => v.phase = "none"
  <2>1. CASE api[p].uid = 0
    BY <2>1 DEF Ordered
  <2>2. CASE api[p].uid # 0
    BY <1>2, <1>3 DEF Ordered, Precedes, Exists
  <2>3. QED
    BY <2>1, <2>2, Zenon
<1>9. Precedes(store[p], v)
  BY <1>2, <1>4, Zenon DEF Ordered
<1>10. v.uid # 0
  BY <1>3
<1>11. Ordered(p)'
  BY <1>1, <1>7, <1>8, <1>9, <1>10, Zenon DEF Ordered, Exists
<1>12. QED
  BY <1>1, <1>5, <1>11, Zenon

\* The versions that are written come after the one that is there.
LEMMA LaterVersions ==
    ASSUME IInv, NEW p \in Pods, Ordered(p)
    PROVE  /\ api[p].uid \in Nat /\ (Exists(p) => api[p].uid >= 1)
           /\ Created(p).uid = api[p].uid + 1 /\ Created(p).phase = "pending"
           /\ Precedes(api[p], Created(p))
           /\ Removed(p).uid = api[p].uid /\ Removed(p).phase = "none"
           /\ Precedes(api[p], Removed(p))
           /\ [api[p] EXCEPT !.deleting = TRUE].uid = api[p].uid
           /\ [api[p] EXCEPT !.deleting = TRUE].phase = api[p].phase
           /\ Precedes(api[p], [api[p] EXCEPT !.deleting = TRUE])
           /\ \A f \in Phases \ {"none"} :
                 /\ [api[p] EXCEPT !.phase = f].uid = api[p].uid
                 /\ [api[p] EXCEPT !.phase = f].phase = f
                 /\ Exists(p) => Precedes(api[p], [api[p] EXCEPT !.phase = f])
<1>1. api[p] \in ApiVersion
  BY Zenon DEF IInv, Types
<1>2. api[p].uid \in Nat /\ (Exists(p) => api[p].uid >= 1)
  BY <1>1 DEF ApiVersion, Ordered
<1>3. /\ Created(p).uid = api[p].uid + 1 /\ Created(p).phase = "pending"
      /\ Removed(p).uid = api[p].uid /\ Removed(p).phase = "none"
  BY Zenon DEF Created, Removed
<1>4. /\ [api[p] EXCEPT !.deleting = TRUE].uid = api[p].uid
      /\ [api[p] EXCEPT !.deleting = TRUE].phase = api[p].phase
      /\ [api[p] EXCEPT !.deleting = TRUE].deleting
  OBVIOUS
<1>5. ASSUME NEW f \in Phases
      PROVE  /\ [api[p] EXCEPT !.phase = f].uid = api[p].uid
             /\ [api[p] EXCEPT !.phase = f].phase = f
             /\ [api[p] EXCEPT !.phase = f].deleting = api[p].deleting
  OBVIOUS
<1>6. Precedes(api[p], Created(p)) /\ Precedes(api[p], Removed(p))
  BY <1>2, <1>3 DEF Precedes
<1>7. Precedes(api[p], [api[p] EXCEPT !.deleting = TRUE])
  BY DEF Precedes
<1>8. ASSUME NEW f \in Phases \ {"none"}, Exists(p)
      PROVE  Precedes(api[p], [api[p] EXCEPT !.phase = f])
  BY <1>8 DEF Precedes, Exists
<1>9. QED
  BY <1>2, <1>3, <1>6, <1>7, <1>8

\* A step that concerns one pod is to be looked at for this pod alone.
LEMMA OnlyPod ==
    ASSUME HistoryInv, NEW p \in Pods, History(p)', \A q \in Pods : q # p => Same(q),
           timer' \in [Pods -> {"none", "running", "due"}], binds' \in [Managed -> Nat]
    PROVE  HistoryInv'
<1>1. ASSUME NEW q \in Pods PROVE History(q)'
  BY SameKeeps, Zenon DEF HistoryInv
<1>2. QED
  BY <1>1, Zenon DEF HistoryInv

\* Other clients of the API server: none of them creates a managed pod, and
\* only a forced removal takes one away.
LEMMA OthersWriteHistory ==
    ASSUME IInv, HistoryInv, NEW p \in Pods,
           \/ p \in Native /\ CreateNative(p)
           \/ RequestDeletion(p) \/ ForceRemove(p) \/ FailPod(p)
    PROVE  HistoryInv'
<1>1. /\ UNCHANGED <<template, flushing, inMem, timer, dirty, delayed, pc, pod, exposing, binds,
                     declined>>
      /\ forced \subseteq forced'
  BY Zenon DEF CreateNative, RequestDeletion, ForceRemove, FailPod, Write, queueVars, boundVars
<1>2. History(p) /\ Ordered(p)
  BY Zenon DEF HistoryInv, History
<1>3. PICK v \in ApiVersion :
          /\ Write(p, v) /\ v.uid >= 1 /\ Precedes(api[p], v)
          /\ \/ p \notin Managed /\ v.phase # "none"
             \/ v.uid = api[p].uid /\ Exists(p) /\ (p \in forced' \/ v.phase # "none")
  <2>1. CASE p \in Native /\ CreateNative(p)
    <3>1. p \notin Managed
      BY <2>1, KubeletAssumption, Zenon
    <3>2. /\ Created(p) \in ApiVersion /\ Created(p).uid >= 1 /\ Precedes(api[p], Created(p))
          /\ Created(p).phase # "none"
      <4>1. api[p].uid \in Nat /\ Created(p).uid = api[p].uid + 1 /\ Created(p).phase = "pending"
        BY <1>2, LaterVersions, Zenon
      <4>2. Created(p).uid >= 1
        BY <4>1
      <4>3. Created(p) \in ApiVersion
        BY OtherVersions, Zenon
      <4>4. Precedes(api[p], Created(p))
        BY <1>2, LaterVersions, Zenon
      <4>5. QED
        BY <4>1, <4>3, <4>4
    <3>3. QED
      BY <2>1, <3>1, <3>2, Zenon DEF CreateNative
  <2>2. CASE RequestDeletion(p)
    BY <1>2, <2>2, OtherVersions, LaterVersions, Zenon DEF RequestDeletion, Touchable, Exists
  <2>3. CASE ForceRemove(p)
    BY <1>2, <2>3, OtherVersions, LaterVersions, Zenon DEF ForceRemove, Touchable
  <2>4. CASE FailPod(p)
    <3>1. "failed" \in Phases \ {"none"} /\ Exists(p)
      BY <2>4, Zenon DEF Phases, FailPod, Touchable, Exists
    <3>2. QED
      BY <1>2, <2>4, <3>1, OtherVersions, LaterVersions, Zenon DEF FailPod
  <2>5. QED
    BY <2>1, <2>2, <2>3, <2>4, Zenon
<1>4. /\ Ordered(p)' /\ api'[p] = v /\ watch'[p] # <<>> /\ store' = store /\ notify' = notify
  BY <1>2, <1>3, WriteOrdered, Zenon DEF Write
<1>5. \A q \in Pods : q # p => Same(q)
  BY <1>1, <1>3 DEF Same, Write
<1>6. Copies(p)' /\ Fresh(p)' /\ TimerTracked(p)' /\ Unborn(p)' /\ Gone(p)'
  <2>1. v.uid # 0
    BY <1>3 DEF ApiVersion
  <2>2. QED
    BY <1>1, <1>2, <1>3, <1>4, <2>1, Zenon
       DEF History, Copies, Fresh, TimerTracked, Unborn, Gone, Exists
<1>7. p \in Managed => Cached(p)' /\ Unbound(p)' /\ BoundOnce(p)'
  BY <1>1, <1>2, <1>3, <1>4, Zenon
     DEF History, Cached, Unbound, BoundOnce, Untouched, Spent, Exists
<1>8. QED
  BY <1>1, <1>4, <1>5, <1>6, <1>7, OnlyPod, Zenon DEF HistoryInv, History

\* The informer and its handler.
LEMMA StoreUpdateHistory ==
    ASSUME IInv, HistoryInv, NEW p \in Pods, StoreUpdate(p)
    PROVE  HistoryInv'
<1> DEFINE v == Head(watch[p])
           e == IF v.phase = "none" THEN "delete" ELSE "set"
<1>1. /\ watch[p] \in Seq(ApiVersion) /\ watch[p] # <<>> /\ notify[p] \in Seq({"set", "delete"})
      /\ store[p] \in ApiVersion /\ api[p] \in ApiVersion
  BY Zenon DEF IInv, Types, StoreUpdate
<1>2. /\ watch' = [watch EXCEPT ![p] = Tail(watch[p])]
      /\ store' = [store EXCEPT ![p] = v]
      /\ notify' = [notify EXCEPT ![p] = Append(notify[p], e)]
      /\ UNCHANGED <<api, template, flushing, inMem, timer, dirty, delayed, pc, pod, exposing,
                     binds, forced, declined>>
  BY Zenon DEF StoreUpdate, queueVars, boundVars
<1>3. History(p) /\ Ordered(p)
  BY Zenon DEF HistoryInv, History
<1>4. /\ Len(watch[p]) \in Nat \ {0} /\ v = watch[p][1] /\ v \in ApiVersion
      /\ Len(Tail(watch[p])) = Len(watch[p]) - 1
      /\ \A i \in 1 .. Len(Tail(watch[p])) : Tail(watch[p])[i] = watch[p][i + 1]
  BY <1>1
<1>5. /\ v.uid \in Nat /\ api[p].uid \in Nat /\ store[p].uid \in Nat
      /\ v.uid >= 1 /\ api[p].uid >= v.uid
  <2>1. 1 \in 1 .. Len(watch[p])
    BY <1>4
  <2>2. v.uid >= 1 /\ Precedes(v, api[p])
    BY <1>3, <1>4, <2>1, Zenon DEF Ordered
  <2>3. v.uid \in Nat /\ api[p].uid \in Nat /\ store[p].uid \in Nat
    BY <1>1, <1>4, Zenon DEF ApiVersion
  <2>4. QED
    BY <2>2, <2>3 DEF Precedes
<1>6. /\ e \in {"set", "delete"} /\ (e = "delete" => v.phase = "none")
      /\ Append(notify[p], e) # <<>> /\ Len(Append(notify[p], e)) = Len(notify[p]) + 1
      /\ Len(notify[p]) \in Nat
      /\ \A i \in 1 .. Len(notify[p]) : Append(notify[p], e)[i] = notify[p][i]
      /\ Append(notify[p], e)[Len(notify[p]) + 1] = e
  <2>1. e \in {"set", "delete"} /\ (e = "delete" => v.phase = "none")
    BY Zenon
  <2> HIDE DEF e
  <2>2. QED
    BY <2>1
<1> HIDE DEF v, e
<1>7. /\ watch'[p] = Tail(watch[p]) /\ store'[p] = v /\ notify'[p] = Append(notify[p], e)
      /\ \A q \in Pods : q # p => Same(q)
  BY <1>2, Zenon DEF Same, IInv, Types
<1>8. Precedes(v, api[p]) /\ Precedes(store[p], v)
  BY <1>3, <1>4 DEF Ordered
<1>9. api[p].uid <= 1 /\ v.phase = "none" => ~Exists(p)
  BY <1>5, <1>8 DEF Precedes, Exists
<1>10. Ordered(p)'
  <2>1. ASSUME NEW i \in 1 .. Len(Tail(watch[p]))
        PROVE  /\ Tail(watch[p])[i].uid >= 1
               /\ Precedes(v, Tail(watch[p])[i]) /\ Precedes(Tail(watch[p])[i], api[p])
               /\ \A j \in i .. Len(Tail(watch[p])) : Precedes(Tail(watch[p])[i], Tail(watch[p])[j])
    <3>1. i + 1 \in 1 .. Len(watch[p]) /\ Tail(watch[p])[i] = watch[p][i + 1]
      OBVIOUS
    <3>2. ASSUME NEW j \in i .. Len(Tail(watch[p]))
          PROVE  j + 1 \in (i + 1) .. Len(watch[p]) /\ Tail(watch[p])[j] = watch[p][j + 1]
      OBVIOUS
    <3>3. 1 \in 1 .. Len(watch[p]) /\ i + 1 \in 1 .. Len(watch[p])
      OBVIOUS
    <3>4. QED
      BY <1>3, <1>4 DEF Ordered
  <2>2. api[p].uid <= 1 =>
          \A i \in 1 .. Len(notify'[p]) : notify'[p][i] = "delete" => ~Exists(p)
    BY <1>3, <1>6, <1>7, <1>9 DEF Ordered
  <2>3. api' = api /\ api[p].uid # 0
    BY <1>2, <1>5
  <2>4. \A i \in 1 .. Len(watch'[p]) :
            /\ watch'[p][i].uid >= 1
            /\ Precedes(store'[p], watch'[p][i]) /\ Precedes(watch'[p][i], api'[p])
            /\ \A j \in i .. Len(watch'[p]) : Precedes(watch'[p][i], watch'[p][j])
    BY <1>7, <2>1, <2>3, Zenon
  <2>5. QED
    BY <1>5, <1>7, <1>8, <2>2, <2>3, <2>4, Zenon DEF Ordered, Exists
<1>11. ASSUME NEW u \in Version, Precedes(u, store[p]) PROVE Precedes(u, v)
  BY <1>5, <1>8, <1>11 DEF Precedes, Version
<1>12. Copies(p)' /\ Fresh(p)' /\ TimerTracked(p)' /\ Unborn(p)'
  <2>1. pod[p] \in Version
    BY Zenon DEF IInv, Types
  <2>2. QED
    BY <1>2, <1>3, <1>6, <1>7, <1>11, <2>1, Zenon
       DEF History, Copies, Fresh, TimerTracked, Unborn, Exposing
<1>13. Gone(p)'
  <2>1. api[p].uid = 1 /\ store[p].uid = 1 => v.uid = 1 /\ ~(store[p].uid < v.uid)
    BY <1>5
  <2>2. QED
    BY <1>2, <1>3, <1>7, <1>8, <2>1, Zenon DEF History, Gone, Exists, Exposing, Precedes
<1>14. p \in Managed => Cached(p)' /\ Unbound(p)' /\ BoundOnce(p)'
  BY <1>2, <1>3, <1>6, <1>7, Zenon
     DEF History, Cached, Unbound, BoundOnce, Untouched, Spent, Exists
<1>15. QED
  BY <1>2, <1>7, <1>10, <1>12, <1>13, <1>14, OnlyPod, Zenon DEF HistoryInv, History

\* The handler.  The event of a removal is handled after the removal, so the
\* timer that is deleted is not that of an object.
LEMMA HandlePodEventHistory ==
    ASSUME IInv, HistoryInv, NEW p \in Pods, HandlePodEvent(p)
    PROVE  HistoryInv'
<1>1. notify[p] \in Seq({"set", "delete"}) /\ notify[p] # <<>>
  BY Zenon DEF IInv, Types, HandlePodEvent
<1>2. /\ notify' = [notify EXCEPT ![p] = Tail(notify[p])]
      /\ dirty' = IF Head(notify[p]) = "set" THEN dirty \cup {p} ELSE dirty
      /\ timer' = IF Head(notify[p]) = "set" THEN timer ELSE [timer EXCEPT ![p] = "none"]
      /\ flushing = {} /\ flushing' = {p} \cap Managed
      /\ UNCHANGED <<api, watch, store, template, inMem, delayed, pc, pod, exposing, binds, forced,
                     declined>>
  BY Zenon DEF HandlePodEvent, boundVars
<1>3. History(p) /\ Ordered(p) /\ Informed(p)
  BY Zenon DEF HistoryInv, History, IInv
<1>4. /\ Len(notify[p]) \in Nat \ {0} /\ Head(notify[p]) = notify[p][1]
      /\ Head(notify[p]) \in {"set", "delete"}
      /\ Len(Tail(notify[p])) = Len(notify[p]) - 1
      /\ \A i \in 1 .. Len(Tail(notify[p])) : Tail(notify[p])[i] = notify[p][i + 1]
  BY <1>1
<1>5. /\ notify'[p] = Tail(notify[p]) /\ (p \in Managed => p \in flushing')
      /\ timer'[p] = IF Head(notify[p]) = "set" THEN timer[p] ELSE "none"
      /\ \A q \in Pods : q # p => Same(q)
      /\ timer' \in [Pods -> {"none", "running", "due"}]
  BY <1>2, Zenon DEF Same, IInv, Types, HistoryInv
<1>6. Ordered(p)'
  <2>1. api[p].uid <= 1 =>
          \A i \in 1 .. Len(notify'[p]) : notify'[p][i] = "delete" => ~Exists(p)
    <3>1. \A i \in 1 .. Len(Tail(notify[p])) : i + 1 \in 1 .. Len(notify[p])
      BY <1>4
    <3>2. QED
      <4>1. api[p].uid <= 1 =>
              \A i \in 1 .. Len(notify[p]) : notify[p][i] = "delete" => ~Exists(p)
        BY <1>3, Zenon DEF Ordered
      <4>2. QED
        BY <1>4, <1>5, <3>1, <4>1, Zenon
  <2>2. api[p].uid # 0
    BY <1>1, <1>3, Zenon DEF Ordered
  <2>3. QED
    BY <1>2, <1>3 DEF Ordered, Exists
<1>7. Head(notify[p]) = "set" => p \in dirty'
  BY <1>2, Zenon
<1>8. Tail(notify[p]) = <<>> /\ Head(notify[p]) # "set" => store[p].phase = "none"
  <2>1. Tail(notify[p]) = <<>> => Head(notify[p]) = notify[p][Len(notify[p])]
    BY <1>1, TailKeepsLast, Zenon
  <2>2. QED
    BY <1>1, <1>3, <2>1, Zenon DEF Informed
<1>9. Copies(p)' /\ Fresh(p)' /\ TimerTracked(p)'
  BY <1>2, <1>3, <1>5, <1>7, <1>8, Zenon DEF History, Copies, Fresh, TimerTracked
<1>10. Unborn(p)' /\ Gone(p)'
  BY <1>2, <1>3, <1>5, Zenon DEF History, Unborn, Gone, Exists, Exposing
<1>11. p \in Managed => Cached(p)' /\ Unbound(p)'
  <2>1. api[p].uid # 0
    BY <1>1, <1>3, Zenon DEF Ordered
  <2>2. QED
    BY <1>2, <1>3, <1>5, <2>1, Zenon DEF History, Cached, Unbound
<1>12. p \in Managed => BoundOnce(p)'
  BY <1>5, Zenon DEF BoundOnce, Untouched
<1>13. QED
  BY <1>2, <1>5, <1>6, <1>9, <1>10, <1>11, <1>12, OnlyPod, Zenon DEF HistoryInv, History

\* The end of the handler: the pod is not in the cache any more.
LEMMA FlushCacheHistory ==
    ASSUME IInv, HistoryInv, NEW p \in Managed, FlushCache(p)
    PROVE  HistoryInv'
<1>1. /\ p \in Pods /\ flushing' = flushing \ {p} /\ inMem' = inMem \ {p}
      /\ UNCHANGED <<api, watch, store, notify, template, timer, dirty, delayed, pc, pod, exposing,
                     binds, forced, declined>>
  BY Zenon DEF FlushCache, queueVars, boundVars, Pods
<1>2. History(p)
  BY <1>1, Zenon DEF HistoryInv
<1>3. \A q \in Pods : q # p => Same(q)
  BY <1>1, Zenon DEF Same
<1>4. Ordered(p)'
  BY <1>1, <1>2, Zenon DEF History, Ordered, Exists
<1>5. Copies(p)' /\ Fresh(p)' /\ TimerTracked(p)' /\ Unborn(p)' /\ Gone(p)'
  BY <1>1, <1>2, Zenon
     DEF History, Copies, Fresh, TimerTracked, Unborn, Gone, Exposing, Exists
<1>6. Cached(p)' /\ Unbound(p)' /\ BoundOnce(p)'
  BY <1>1, <1>2, Zenon DEF History, Cached, Unbound, BoundOnce, Untouched
<1>7. QED
  BY <1>1, <1>3, <1>4, <1>5, <1>6, OnlyPod, Zenon DEF HistoryInv, History
=============================================================================
