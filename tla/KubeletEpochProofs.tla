------------------------- MODULE KubeletEpochProofs -------------------------
(***************************************************************************)
(* Proofs about KubeletEpoch, for all sets of pods and epochs.             *)
(*                                                                         *)
(* UpstreamKnowsCache is not inductive: a BindPod that already holds the   *)
(* shared lock would add a pod of its own epoch after another Handshake    *)
(* changed it.  EpochLock rules this out.                                  *)
(***************************************************************************)
EXTENDS KubeletEpoch, TLAPS

(***************************************************************************)
(* The exclusive holder excludes shared holders and owns the current       *)
(* epoch, and so do all shared holders.                                    *)
(***************************************************************************)
EpochLock ==
    /\ \A e \in Epochs : handshake[e] = "locked" => writer = e
    /\ writer # NoEpoch => writer = epoch
    /\ writer # NoEpoch => \A p \in Pods, e \in Epochs : bind[<<p, e>>] # "locked"
    /\ \A p \in Pods, e \in Epochs : bind[<<p, e>>] = "locked" => e = epoch

IInv == TypeOK /\ EpochLock /\ UpstreamKnowsCache

\* The initial state has the declared types.
LEMMA InitIInv == Init => IInv
BY EpochAssumption DEF Init, IInv, TypeOK, EpochLock, UpstreamKnowsCache, Option, InMem

\* Every call keeps the types of the hub's and the cache's state.
LEMMA NextTypeOK == TypeOK /\ [Next]_vars => TypeOK'
<1> SUFFICES ASSUME TypeOK, [Next]_vars PROVE TypeOK'
  OBVIOUS
<1> USE EpochAssumption DEF TypeOK, Option
<1>1. ASSUME NEW e \in Epochs, SendHandshake(e) \/ CreateClient(e) PROVE TypeOK'
  BY <1>1 DEF SendHandshake, CreateClient
<1>2. ASSUME NEW e \in Epochs, LockEpoch(e) PROVE TypeOK'
  BY <1>2 DEF LockEpoch
<1>3. ASSUME NEW e \in Epochs, AnswerHandshake(e) PROVE TypeOK'
  BY <1>3 DEF AnswerHandshake, InMem
<1>4. ASSUME NEW p \in Pods, NEW e \in Epochs,
             SendBind(p, e) \/ FindTemplate(p, e) \/ TemplateMissing(p, e) \/ RLockEpoch(p, e)
      PROVE TypeOK'
  BY <1>4 DEF SendBind, FindTemplate, TemplateMissing, RLockEpoch
<1>5. ASSUME NEW p \in Pods, NEW e \in Epochs, CachePod(p, e) PROVE TypeOK'
  BY <1>5 DEF CachePod
<1>6. ASSUME NEW p \in Pods, ForgetPod(p) PROVE TypeOK'
  BY <1>6 DEF ForgetPod
<1>7. CASE DelClient
  BY <1>7 DEF DelClient
<1>8. CASE UNCHANGED vars
  BY <1>8 DEF vars
<1>9. QED
  BY <1>1, <1>2, <1>3, <1>4, <1>5, <1>6, <1>7, <1>8 DEF Next

\* The lock discipline of Handshake and BindPod is preserved.
LEMMA NextEpochLock == TypeOK /\ EpochLock /\ [Next]_vars => EpochLock'
<1> SUFFICES ASSUME TypeOK, EpochLock, [Next]_vars PROVE EpochLock'
  OBVIOUS
<1> USE EpochAssumption DEF TypeOK, EpochLock, Option
<1>1. ASSUME NEW e \in Epochs, SendHandshake(e) \/ CreateClient(e) PROVE EpochLock'
  BY <1>1 DEF SendHandshake, CreateClient
<1>2. ASSUME NEW e \in Epochs, LockEpoch(e) PROVE EpochLock'
  <2>1. \A p \in Pods, d \in Epochs : bind[<<p, d>>] # "locked"
    BY <1>2 DEF LockEpoch, Readers
  <2>2. \A d \in Epochs : handshake[d] # "locked"
    BY <1>2 DEF LockEpoch
  <2>3. QED
    BY <1>2, <2>1, <2>2 DEF LockEpoch
<1>3. ASSUME NEW e \in Epochs, AnswerHandshake(e) PROVE EpochLock'
  BY <1>3 DEF AnswerHandshake
<1>4. ASSUME NEW p \in Pods, NEW e \in Epochs,
             SendBind(p, e) \/ FindTemplate(p, e) \/ TemplateMissing(p, e)
      PROVE EpochLock'
  BY <1>4 DEF SendBind, FindTemplate, TemplateMissing
<1>5. ASSUME NEW p \in Pods, NEW e \in Epochs, RLockEpoch(p, e) PROVE EpochLock'
  <2>1. bind' = [bind EXCEPT ![<<p, e>>] = IF e = epoch THEN "locked" ELSE "idle"]
        /\ writer = NoEpoch /\ UNCHANGED <<handshake, epoch, writer>>
    BY <1>5 DEF RLockEpoch
  <2>2. ASSUME NEW q \in Pods, NEW d \in Epochs, bind'[<<q, d>>] = "locked" PROVE d = epoch
    BY <2>1, <2>2
  <2>3. QED
    BY <2>1, <2>2
<1>6. ASSUME NEW p \in Pods, NEW e \in Epochs, CachePod(p, e) PROVE EpochLock'
  BY <1>6 DEF CachePod
<1>7. ASSUME NEW p \in Pods, ForgetPod(p) PROVE EpochLock'
  BY <1>7 DEF ForgetPod
<1>8. CASE DelClient
  BY <1>8 DEF DelClient
<1>9. CASE UNCHANGED vars
  BY <1>9 DEF vars
<1>10. QED
  BY <1>1, <1>2, <1>3, <1>4, <1>5, <1>6, <1>7, <1>8, <1>9 DEF Next

\* A pod enters the cache under the current epoch, and the epoch changes only
\* together with the response that names what is in the cache.
LEMMA NextUpstreamKnowsCache ==
    TypeOK /\ EpochLock /\ UpstreamKnowsCache /\ [Next]_vars => UpstreamKnowsCache'
<1> SUFFICES ASSUME TypeOK, EpochLock, UpstreamKnowsCache, [Next]_vars
             PROVE  UpstreamKnowsCache'
  OBVIOUS
<1> USE EpochAssumption DEF TypeOK, UpstreamKnowsCache, InMem, Option
<1>1. ASSUME NEW e \in Epochs, SendHandshake(e) \/ CreateClient(e) PROVE UpstreamKnowsCache'
  BY <1>1 DEF SendHandshake, CreateClient
<1>2. ASSUME NEW e \in Epochs, LockEpoch(e) PROVE UpstreamKnowsCache'
  BY <1>2 DEF LockEpoch
<1>3. ASSUME NEW e \in Epochs, AnswerHandshake(e) PROVE UpstreamKnowsCache'
  BY <1>3 DEF AnswerHandshake
<1>4. ASSUME NEW p \in Pods, NEW e \in Epochs,
             SendBind(p, e) \/ FindTemplate(p, e) \/ TemplateMissing(p, e) \/ RLockEpoch(p, e)
      PROVE UpstreamKnowsCache'
  BY <1>4 DEF SendBind, FindTemplate, TemplateMissing, RLockEpoch
<1>5. ASSUME NEW p \in Pods, NEW e \in Epochs, CachePod(p, e) PROVE UpstreamKnowsCache'
  <2>1. e = epoch /\ writer = NoEpoch
    BY <1>5 DEF CachePod, EpochLock
  <2>2. QED
    BY <1>5, <2>1 DEF CachePod
<1>6. ASSUME NEW p \in Pods, ForgetPod(p) PROVE UpstreamKnowsCache'
  BY <1>6 DEF ForgetPod
<1>7. CASE DelClient
  BY <1>7 DEF DelClient
<1>8. CASE UNCHANGED vars
  BY <1>8 DEF vars
<1>9. QED
  BY <1>1, <1>2, <1>3, <1>4, <1>5, <1>6, <1>7, <1>8 DEF Next

\* IInv holds in every reachable state.
THEOREM Invariance == Spec => []IInv
<1>1. IInv /\ [Next]_vars => IInv'
  BY NextTypeOK, NextEpochLock, NextUpstreamKnowsCache DEF IInv
<1>2. QED
  BY <1>1, InitIInv, PTL DEF Spec

(***************************************************************************)
(* Epoch fencing: however late or often BindPod and Handshake calls are    *)
(* delivered, the upstream of the current epoch knows all that the custom  *)
(* kubelet holds in memory for it.                                         *)
(***************************************************************************)
THEOREM EpochFencing == Spec => []UpstreamKnowsCache
<1>1. IInv => UpstreamKnowsCache
  BY DEF IInv
<1>2. QED
  BY <1>1, Invariance, PTL
=============================================================================
