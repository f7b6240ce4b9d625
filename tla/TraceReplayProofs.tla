-------------------------- MODULE TraceReplayProofs --------------------------
(***************************************************************************)
(* Proofs about TraceReplay, for all targets and traces of any length.     *)
(*                                                                         *)
(* NoSendOnClosed and NoResponseDropped rest on the order of main's steps  *)
(* (Shutdown) and on what the end of one goroutine tells another (Ended).  *)
(* With them the pipeline implements RequestService.                       *)
(*                                                                         *)
(* The last part is about the backend the requests go through: GrpcBackend *)
(* with any number of calls, slots per connection and connections.         *)
(***************************************************************************)
EXTENDS TraceReplay, GrpcBackend, FiniteSetTheorems, TLAPS

\* main leaves its first select with the senders done or on a signal, and the
\* channels are closed last.
Shutdown ==
    /\ ctxDone /\ main \in {"waiting", "draining"} => signalled
    /\ main # "waiting" => finishSend \/ signalled
    /\ closed => main \in {"closed", "finished"}
    /\ finishSend => \A r \in Requests : loc[r] # "unsent"

\* The receiver ends on a channel that is closed and empty, and stays empty
\* because a relay's send panics; the summary is written by a writer that has
\* nothing left.
Ended ==
    /\ ~recv => closed /\ \A r \in Requests : loc[r] # "externalOut"
    /\ summary # NoSummary => ~recv /\ \A r \in Requests : loc[r] # "writer"

LocOK == DOMAIN loc = Requests /\ loc = [r \in Requests |-> loc[r]]

IInv == LocOK /\ Shutdown /\ Ended /\ NoSendOnClosed

\* The replay starts with nothing sent.
LEMMA InitIInv == Init => IInv
BY DEF Init, IInv, LocOK, Shutdown, Ended, NoSendOnClosed

\* Requests stay the same.
LEMMA NextLocOK == LocOK /\ [Next]_vars => LocOK'
BY DEF LocOK, Next, vars, RequestStep, ProcessStep, Send, RelayIn, RelayOut, StartDispatch,
       Dispatch, Recv, Write, Move, RelayStops, RelayInClosed, RunStops, FinishSend, RecvStops, WriteSummary,
       Drain, Cancel, Close, Finish, Signal

\* A request's way through the channels.
LEMMA RequestKeeps ==
    ASSUME IInv, NEW r \in Requests, RequestStep(r)
    PROVE  Shutdown' /\ Ended' /\ NoSendOnClosed'
<1> USE DEF IInv, LocOK, Shutdown, Ended, NoSendOnClosed, clientVars, gatewayVars, Move, Running
<1>1. CASE Send(r)
  BY <1>1 DEF Send
<1>2. CASE RelayIn(r) \/ StartDispatch(r)
  BY <1>2 DEF RelayIn, StartDispatch
<1>3. CASE RelayOut(r)
  BY <1>3 DEF RelayOut
<1>4. CASE Dispatch(r)
  BY <1>4 DEF Dispatch
<1>5. CASE Recv(r)
  BY <1>5 DEF Recv
<1>6. CASE Write(r)
  BY <1>6 DEF Write
<1>7. QED
  BY <1>1, <1>2, <1>3, <1>4, <1>5, <1>6 DEF RequestStep

\* The goroutines' ends and main's shutdown.
LEMMA ProcessKeeps ==
    ASSUME IInv, \/ ProcessStep \/ Signal
                 \/ \E t \in Targets : RelayStops(t) \/ RelayInClosed(t) \/ RunStops(t)
    PROVE  Shutdown' /\ Ended' /\ NoSendOnClosed'
<1> USE DEF IInv, LocOK, Shutdown, Ended, NoSendOnClosed, clientVars, gatewayVars, Running, At
<1>1. CASE FinishSend
  BY <1>1 DEF FinishSend
<1>2. CASE RecvStops
  BY <1>2 DEF RecvStops
<1>3. CASE WriteSummary
  BY <1>3 DEF WriteSummary
<1>4. CASE Drain \/ Cancel
  BY <1>4 DEF Drain, Cancel
<1>5. CASE Close \/ Finish
  BY <1>5 DEF Close, Finish
<1>6. CASE Signal
  BY <1>6 DEF Signal
<1>7. ASSUME NEW t \in Targets, RelayStops(t) \/ RelayInClosed(t) \/ RunStops(t)
      PROVE Shutdown' /\ Ended' /\ NoSendOnClosed'
  BY <1>7 DEF RelayStops, RelayInClosed, RunStops
<1>8. QED
  BY <1>1, <1>2, <1>3, <1>4, <1>5, <1>6, <1>7 DEF ProcessStep

\* The invariant is inductive.
LEMMA NextIInv == IInv /\ [Next]_vars => IInv'
<1>1. ASSUME IInv, UNCHANGED vars PROVE IInv'
  BY <1>1 DEF IInv, LocOK, Shutdown, Ended, NoSendOnClosed, vars, clientVars, gatewayVars
<1>2. QED
  BY <1>1, NextLocOK, RequestKeeps, ProcessKeeps DEF Next, IInv

----------------------------------------------------------------------------
(***************************************************************************)
(* For any trace: a sender meets a closed channel only if a signal made    *)
(* main go on without it.                                                  *)
(***************************************************************************)
THEOREM SendersAreSafe == Spec => []NoSendOnClosed
<1>1. IInv => NoSendOnClosed
  BY DEF IInv
<1>2. QED
  BY InitIInv, NextIInv, <1>1, PTL DEF Spec

(***************************************************************************)
(* For any trace: no response that reached the client's channel is missing *)
(* from the summary.                                                       *)
(***************************************************************************)
THEOREM ResponsesAreCounted == Spec => []NoResponseDropped
<1>1. IInv => NoResponseDropped
  BY DEF IInv, Ended, NoResponseDropped, At
<1>2. QED
  BY InitIInv, NextIInv, <1>1, PTL DEF Spec

----------------------------------------------------------------------------
Total == IF summary = NoSummary THEN NoSummary ELSE summary.total

\* Where a request is determines its status in RequestService.
LEMMA StatusOf ==
    ASSUME NEW r \in Requests
    PROVE  /\ Status[r] = "new" <=> loc[r] = "unsent"
           /\ Status[r] = "recorded" <=> loc[r] = "written"
           /\ Status[r] = "submitted" <=> loc[r] \notin {"unsent", "written"}
BY DEF Status

\* A request that moves from one channel to the next changes one status.
LEMMA StatusMoves ==
    ASSUME IInv, NEW r \in Requests, NEW l, loc' = [loc EXCEPT ![r] = l],
           NEW s, s = CASE l = "unsent" -> "new" [] l = "written" -> "recorded" [] OTHER -> "submitted"
    PROVE  Status' = [Status EXCEPT ![r] = s]
<1>1. Status' = [q \in Requests |-> IF q = r THEN s ELSE Status[q]]
  BY DEF Status, IInv, LocOK
<1>2. QED
  BY <1>1 DEF Status

\* A step inside the pipeline is invisible.
LEMMA InnerMove ==
    ASSUME IInv, NEW r \in Requests, NEW from, NEW to, Move(r, from, to), UNCHANGED clientVars,
           from \notin {"unsent", "written"}, to \notin {"unsent", "written"}
    PROVE  Status' = Status /\ Total' = Total
<1>1. Total' = Total
  BY DEF Total, clientVars
<1>2. \A q \in Requests : loc'[q] = IF q = r THEN to ELSE loc[q]
  BY DEF Move, IInv, LocOK
<1>3. Status' = Status
  BY <1>2 DEF Status, Move
<1>4. QED
  BY <1>1, <1>3

\* Every step of the pipeline is one of RequestService, or invisible.
LEMMA StepSimulates ==
    ASSUME IInv, [Next]_vars
    PROVE  [Service!Next]_<<Status, Total>>
<1> USE DEF Service!Next, Service!Submit, Service!Record, Service!Summarize
<1>1. ASSUME NEW r \in Requests, Send(r) PROVE [Service!Next]_<<Status, Total>>
  <2>1. Total' = Total
    BY <1>1 DEF Send, Total, clientVars
  <2>2. CASE closed
    BY <1>1, <2>1, <2>2 DEF Send, Status
  <2>3. CASE ~closed
    <3>1. Status' = [Status EXCEPT ![r] = "submitted"]
      BY <1>1, <2>3, StatusMoves DEF Send
    <3>2. Status[r] = "new"
      BY <1>1, StatusOf DEF Send
    <3>3. QED
      BY <2>1, <3>1, <3>2 DEF Total
  <2>4. QED
    BY <2>2, <2>3
<1>2. ASSUME NEW r \in Requests,
             RelayIn(r) \/ RelayOut(r) \/ StartDispatch(r) \/ Dispatch(r) \/ Recv(r)
      PROVE [Service!Next]_<<Status, Total>>
  <2>1. CASE loc' = loc /\ UNCHANGED clientVars
    BY <2>1 DEF Status, Total, clientVars
  <2>2. CASE loc' # loc
    <3>1. Status' = Status /\ Total' = Total
      BY <1>2, <2>2, InnerMove DEF RelayIn, RelayOut, StartDispatch, Dispatch, Recv
    <3>2. QED
      BY <3>1
  <2>3. QED
    BY <1>2, <2>1, <2>2 DEF RelayIn, RelayOut, StartDispatch, Dispatch, Recv
<1>3. ASSUME NEW r \in Requests, Write(r) PROVE [Service!Next]_<<Status, Total>>
  <2>1. loc[r] = "writer" /\ loc' = [loc EXCEPT ![r] = "written"] /\ UNCHANGED clientVars
    BY <1>3 DEF Write, Move
  <2>2. Status' = [Status EXCEPT ![r] = "recorded"]
    BY <2>1, StatusMoves
  <2>3. Status[r] = "submitted"
    BY <2>1, StatusOf
  <2>4. summary = NoSummary
    BY <2>1 DEF IInv, Ended
  <2>5. QED
    BY <2>1, <2>2, <2>3, <2>4 DEF Total, clientVars
<1>4. CASE WriteSummary
  <2>1. Status' = Status
    BY <1>4 DEF WriteSummary, Status
  <2>2. At("written") = {r \in Requests : Status[r] = "recorded"}
    BY StatusOf DEF At
  <2>3. summary = NoSummary /\ summary'.total = Cardinality({r \in Requests : Status[r] = "recorded"})
    BY <1>4, <2>2 DEF WriteSummary
  <2>4. CASE summary' = NoSummary
    BY <2>1, <2>3, <2>4 DEF Total
  <2>5. CASE summary' # NoSummary
    <3>1. \A S : Service!Cardinality(S) = Cardinality(S)
      BY Zenon DEF Cardinality, Service!Cardinality, IsFiniteSet, Service!IsFiniteSet
    <3>2. QED
      BY <2>1, <2>3, <2>5, <3>1 DEF Total
  <2>6. QED
    BY <2>4, <2>5
<1>5. CASE \/ FinishSend \/ RecvStops \/ Drain \/ Cancel \/ Close \/ Finish \/ Signal
          \/ (\E t \in Targets : RelayStops(t) \/ RelayInClosed(t) \/ RunStops(t))
          \/ UNCHANGED vars
  <2>1. loc' = loc /\ summary' = summary
    BY <1>5 DEF FinishSend, RecvStops, Drain, Cancel, Close, Finish, Signal, RelayStops,
                RelayInClosed, RunStops, vars, clientVars
  <2>2. QED
    BY <2>1 DEF Status, Total
<1>6. QED
  BY <1>1, <1>2, <1>3, <1>4, <1>5 DEF Next, RequestStep, ProcessStep

(***************************************************************************)
(* For any trace, the senders, relays, dispatchers, receiver, writer and   *)
(* main together implement RequestService: each request is sent and        *)
(* recorded at most once, and the summary counts the recorded ones.        *)
(***************************************************************************)
THEOREM ReplayImplementsService == Spec => ImplementsService
<1>1. Init => Service!Init
  BY DEF Init, Service!Init, Status
<1>2. IInv /\ [Next]_vars => [Service!Next]_<<Status, Total>>
  BY StepSimulates
<1>3. QED
  BY InitIInv, NextIInv, <1>1, <1>2, PTL
  DEF Spec, ImplementsService, Service!Spec, Service!serviceVars, Total

----------------------------------------------------------------------------
\* The pool of an endpoint's gRPC connections: the types and the property are
\* inductive together.
PoolInv == PoolTypeOK /\ SlotsConserved

\* Finitely many calls hold a slot.
LEMMA HoldingFinite == IsFiniteSet(Holding) /\ Cardinality(Holding) \in Nat
<1>1. Holding \in SUBSET Calls
  BY DEF Holding
<1>2. QED
  BY <1>1, GrpcAssumption, FS_Subset, FS_CardinalityType

\* newGrpcBackend starts with one connection whose slots are all in the pool.
LEMMA InitPoolInv == PoolInit => PoolInv
<1> SUFFICES ASSUME PoolInit PROVE PoolInv
  OBVIOUS
<1>1. Holding = {}
  BY DEF PoolInit, Holding
<1>2. PoolTypeOK
  <2>1. clients \in 1..MaxClients /\ connectionPool \in Nat /\ drained \in Nat
    BY GrpcAssumption DEF PoolInit
  <2>2. closing \in BOOLEAN
    BY DEF PoolInit
  <2>3. call \in [Calls -> {"idle", "get", "wait", "holding"}]
    BY DEF PoolInit
  <2>4. QED
    BY <2>1, <2>2, <2>3 DEF PoolTypeOK
<1>3. Cardinality(Holding) = 0
  BY <1>1, FS_EmptySet
<1>4. SlotsConserved
  BY <1>3, GrpcAssumption DEF PoolInit, SlotsConserved
<1>5. QED
  BY <1>2, <1>4 DEF PoolInv

\* Every step of Execute and Close keeps the types.
LEMMA NextPoolTypeOK == PoolTypeOK /\ [PoolNext]_poolVars => PoolTypeOK'
<1> SUFFICES ASSUME PoolTypeOK, [PoolNext]_poolVars PROVE PoolTypeOK'
  OBVIOUS
<1> USE GrpcAssumption DEF PoolTypeOK
<1>1. ASSUME NEW c \in Calls, Execute(c) \/ NewClientFails(c) PROVE PoolTypeOK'
  BY <1>1 DEF Execute, NewClientFails
<1>2. ASSUME NEW c \in Calls, Receive(c) PROVE PoolTypeOK'
  BY <1>2 DEF Receive
<1>3. ASSUME NEW c \in Calls, NewClient(c) PROVE PoolTypeOK'
  BY <1>3 DEF NewClient
<1>4. ASSUME NEW c \in Calls, Return(c) PROVE PoolTypeOK'
  BY <1>4 DEF Return
<1>5. CASE BeginClose
  BY <1>5 DEF BeginClose
<1>6. CASE DrainPool
  BY <1>6 DEF DrainPool
<1>7. CASE UNCHANGED poolVars
  BY <1>7 DEF poolVars
<1>8. QED
  BY <1>1, <1>2, <1>3, <1>4, <1>5, <1>6, <1>7 DEF PoolNext, CallStep

\* No step leaks a slot or puts one into the pool twice.
LEMMA NextSlots == PoolTypeOK /\ SlotsConserved /\ [PoolNext]_poolVars => SlotsConserved'
<1> SUFFICES ASSUME PoolTypeOK, SlotsConserved, [PoolNext]_poolVars PROVE SlotsConserved'
  OBVIOUS
<1> USE GrpcAssumption, HoldingFinite DEF PoolTypeOK, SlotsConserved
<1>1. ASSUME NEW c \in Calls, Execute(c) \/ NewClientFails(c) PROVE SlotsConserved'
  <2>1. Holding' = Holding
    BY <1>1 DEF Execute, NewClientFails, Holding
  <2>2. QED
    BY <1>1, <2>1 DEF Execute, NewClientFails
<1>2. ASSUME NEW c \in Calls, Receive(c) PROVE SlotsConserved'
  <2>1. Holding' = Holding \cup {c} /\ c \notin Holding
    BY <1>2 DEF Receive, Holding
  <2>2. Cardinality(Holding') = Cardinality(Holding) + 1
    BY <2>1, FS_AddElement
  <2>3. QED
    BY <1>2, <2>2 DEF Receive
<1>3. ASSUME NEW c \in Calls, NewClient(c) PROVE SlotsConserved'
  <2>1. Holding' = Holding
    BY <1>3 DEF NewClient, Holding
  <2>2. PoolSize * clients' = PoolSize * clients + PoolSize
    BY <1>3 DEF NewClient
  <2>3. connectionPool' = connectionPool + PoolSize /\ drained' = drained
    BY <1>3 DEF NewClient
  <2>4. connectionPool + PoolSize + Cardinality(Holding) + drained
            = connectionPool + Cardinality(Holding) + drained + PoolSize
    OBVIOUS
  <2>5. QED
    BY <2>1, <2>2, <2>3, <2>4
<1>4. ASSUME NEW c \in Calls, Return(c) PROVE SlotsConserved'
  <2>1. Holding' = Holding \ {c} /\ c \in Holding
    BY <1>4 DEF Return, Holding
  <2>2. Cardinality(Holding') = Cardinality(Holding) - 1
    BY <2>1, FS_RemoveElement
  <2>3. QED
    BY <1>4, <2>2 DEF Return
<1>5. CASE BeginClose \/ DrainPool
  <2>1. Holding' = Holding
    BY <1>5 DEF BeginClose, DrainPool, Holding
  <2>2. QED
    BY <1>5, <2>1 DEF BeginClose, DrainPool
<1>6. CASE UNCHANGED poolVars
  BY <1>6 DEF poolVars, Holding
<1>7. QED
  BY <1>1, <1>2, <1>3, <1>4, <1>5, <1>6 DEF PoolNext, CallStep

(***************************************************************************)
(* For any pool size and any number of concurrent Execute calls, every     *)
(* slot of every connection is in the pool, held by one call, or drained.  *)
(***************************************************************************)
THEOREM NoSlotIsLost == PoolSpec => []SlotsConserved
<1>1. PoolInv /\ [PoolNext]_poolVars => PoolInv'
  BY NextPoolTypeOK, NextSlots DEF PoolInv
<1>2. PoolInv => SlotsConserved
  BY DEF PoolInv
<1>3. QED
  BY InitPoolInv, <1>1, <1>2, PTL DEF PoolSpec
==============================================================================
