---------------------------- MODULE KubeletEpoch ----------------------------
(***************************************************************************)
(* The epochs between one upstream (a scheduler) and one node served by    *)
(* the custom kubelet: Handshake and BindPod of cmd/kubelet/kubedirect.go  *)
(* with the epoch lock of kdrpc.ServerHub and the in-memory pod cache.     *)
(*                                                                         *)
(* A Handshake opens an epoch under the exclusive lock and answers with    *)
(* the pods in the cache; BindPod adds a pod under the shared lock if its  *)
(* epoch is still the current one.  Calls may be repeated, overtake each   *)
(* other and arrive arbitrarily late.  The pod informer removes pods from  *)
(* the cache without taking the lock.                                      *)
(***************************************************************************)
EXTENDS Naturals, FiniteSets

CONSTANTS
    Pods,               \* pods the upstream binds to the node
    Epochs,             \* epochs it opens
    NoEpoch             \* "there is none"

ASSUME EpochAssumption == NoEpoch \notin Epochs

VARIABLES
    handshake,          \* per epoch, how far its Handshake call is
    bind,               \* per pod and epoch, how far the BindPod call is
    epoch,              \* the hub's current epoch of the upstream
    writer,             \* the epoch whose Handshake holds the exclusive lock
    cached,             \* per pod, the epoch that put it into inMemCache
    answer,             \* pods in the last handshake's response
    hasClient           \* clientPool has a client of the node

vars == <<handshake, bind, epoch, writer, cached, answer, hasClient>>

Option == Epochs \cup {NoEpoch}
Readers == {c \in Pods \X Epochs : bind[c] = "locked"}
InMem == {p \in Pods : cached[p] # NoEpoch}

TypeOK ==
    /\ handshake \in [Epochs -> {"new", "sent", "ready", "locked", "answered"}]
    /\ bind \in [Pods \X Epochs -> {"idle", "sent", "ready", "locked"}]
    /\ epoch \in Option
    /\ writer \in Option
    /\ cached \in [Pods -> Option]
    /\ answer \subseteq Pods
    /\ hasClient \in BOOLEAN

Init ==
    /\ handshake = [e \in Epochs |-> "new"]
    /\ bind = [c \in Pods \X Epochs |-> "idle"]
    /\ epoch = NoEpoch
    /\ writer = NoEpoch
    /\ cached = [p \in Pods |-> NoEpoch]
    /\ answer = {}
    /\ hasClient = FALSE

----------------------------------------------------------------------------
(* The upstream.  It opens every epoch once and binds pods under an epoch  *)
(* whose handshake was answered, as often as it likes.                     *)

SendHandshake(e) ==
    /\ handshake[e] = "new"
    /\ handshake' = [handshake EXCEPT ![e] = "sent"]
    /\ UNCHANGED <<bind, epoch, writer, cached, answer, hasClient>>

SendBind(p, e) ==
    /\ handshake[e] = "answered"
    /\ bind[<<p, e>>] = "idle"
    /\ bind' = [bind EXCEPT ![<<p, e>>] = "sent"]
    /\ UNCHANGED <<handshake, epoch, writer, cached, answer, hasClient>>

----------------------------------------------------------------------------
(* Handshake                                                               *)

\* clientPool.GetOrCreate comes before the lock.
CreateClient(e) ==
    /\ handshake[e] = "sent"
    /\ handshake' = [handshake EXCEPT ![e] = "ready"]
    /\ hasClient' = TRUE
    /\ UNCHANGED <<bind, epoch, writer, cached, answer>>

LockEpochAtOnce(e) ==
    /\ handshake[e] = "ready"
    /\ writer = NoEpoch
    /\ handshake' = [handshake EXCEPT ![e] = "locked"]
    /\ writer' = e
    /\ epoch' = e
    /\ UNCHANGED <<bind, cached, answer, hasClient>>

\* serverHub.Lock: waits for every holder, then makes e the current epoch.
LockEpoch(e) ==
    /\ handshake[e] = "ready"
    /\ writer = NoEpoch
    /\ Readers = {}
    /\ handshake' = [handshake EXCEPT ![e] = "locked"]
    /\ writer' = e
    /\ epoch' = e
    /\ UNCHANGED <<bind, cached, answer, hasClient>>

\* AsPodInfosProtoOnNode and the deferred Unlock.
AnswerHandshake(e) ==
    /\ handshake[e] = "locked"
    /\ handshake' = [handshake EXCEPT ![e] = "answered"]
    /\ answer' = InMem
    /\ writer' = NoEpoch
    /\ UNCHANGED <<bind, epoch, cached, hasClient>>

----------------------------------------------------------------------------
(* BindPod                                                                 *)

\* GetUnnamedTemplateFor, before the lock: found, or NotFound to the caller.
FindTemplate(p, e) ==
    /\ bind[<<p, e>>] = "sent"
    /\ bind' = [bind EXCEPT ![<<p, e>>] = "ready"]
    /\ UNCHANGED <<handshake, epoch, writer, cached, answer, hasClient>>

TemplateMissing(p, e) ==
    /\ bind[<<p, e>>] = "sent"
    /\ bind' = [bind EXCEPT ![<<p, e>>] = "idle"]
    /\ UNCHANGED <<handshake, epoch, writer, cached, answer, hasClient>>

\* serverHub.RLock: the shared lock, or an epoch mismatch.
RLockEpoch(p, e) ==
    /\ bind[<<p, e>>] = "ready"
    /\ writer = NoEpoch
    /\ bind' = [bind EXCEPT ![<<p, e>>] = IF e = epoch THEN "locked" ELSE "idle"]
    /\ UNCHANGED <<handshake, epoch, writer, cached, answer, hasClient>>

\* inMemCache.GetOrCreate, which keeps an existing entry, and RUnlock.
CachePod(p, e) ==
    /\ bind[<<p, e>>] = "locked"
    /\ bind' = [bind EXCEPT ![<<p, e>>] = "idle"]
    /\ cached' = IF cached[p] = NoEpoch THEN [cached EXCEPT ![p] = e] ELSE cached
    /\ UNCHANGED <<handshake, epoch, writer, answer, hasClient>>

----------------------------------------------------------------------------
(* The informers, which take no epoch lock.                                *)

\* handlePodEvent removes a pod that reached the API server.
ForgetPod(p) ==
    /\ cached[p] # NoEpoch
    /\ cached' = [cached EXCEPT ![p] = NoEpoch]
    /\ UNCHANGED <<handshake, bind, epoch, writer, answer, hasClient>>

\* The handler of node deletions removes the client.
DelClient ==
    /\ hasClient
    /\ hasClient' = FALSE
    /\ UNCHANGED <<handshake, bind, epoch, writer, cached, answer>>

----------------------------------------------------------------------------
Next ==
    \/ \E e \in Epochs :
          SendHandshake(e) \/ CreateClient(e) \/ LockEpoch(e) \/ AnswerHandshake(e)
    \/ \E p \in Pods, e \in Epochs :
          \/ SendBind(p, e) \/ FindTemplate(p, e) \/ TemplateMissing(p, e)
          \/ RLockEpoch(p, e) \/ CachePod(p, e)
    \/ \E p \in Pods : ForgetPod(p)
    \/ DelClient

Spec == Init /\ [][Next]_vars

----------------------------------------------------------------------------
(***************************************************************************)
(* The upstream of the current epoch knows every pod in the in-memory      *)
(* cache: the handshake's response named it, or it was bound under this    *)
(* very epoch.  A BindPod of an earlier epoch, however late, never adds a  *)
(* pod behind the response's back.                                         *)
(***************************************************************************)
UpstreamKnowsCache ==
    writer = NoEpoch =>
        \A p \in InMem : p \in answer \/ cached[p] = epoch
=============================================================================
