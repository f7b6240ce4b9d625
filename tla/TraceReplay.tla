---------------------------- MODULE TraceReplay ----------------------------
(***************************************************************************)
(* A trace replay (experiments/trace/main.go): the senders of the client   *)
(* (pkg/replay), the relays of the gateway (pkg/gateway/interface.go), the *)
(* dispatchers behind them, the receiver, the writer, and the shutdown.    *)
(*                                                                         *)
(* A request is where loc says it is: in one of the unbounded channels, in *)
(* a Dispatch goroutine, or written.  Channels are sets: responses overtake*)
(* each other in the Dispatch goroutines anyway.  What happens inside a    *)
(* Dispatch is the subject of PodDispatcher; here it ends with a response  *)
(* of some status, or not at all.  A request's target is always the key of *)
(* the channel it is sent to, so that relay's INVALID_TARGET answer does   *)
(* not occur.  main's sleeps order nothing.                                *)
(***************************************************************************)
EXTENDS TraceSpec, FiniteSets

CONSTANTS
    Targets,            \* keys of the deployments
    Invocations,        \* per target, invocations in its trace
    NoSummary           \* the summary is not written yet

ASSUME ReplayAssumption ==
    /\ Invocations \in [Targets -> Nat]
    /\ NoSummary \notin Nat

VARIABLES
    loc,                \* per request, where it is
    failed,             \* requests answered with a failure
    finishSend,         \* finishSend is closed
    relays, runners,    \* targets whose relay, whose dispatcher's Run is running
    ctxDone,            \* the context is cancelled
    signalled,          \* the process got SIGINT or SIGTERM
    main,               \* how far main is
    closed,             \* the gateway's external channels are closed
    recv,               \* the receiver's loop is running
    summary,            \* the numbers in the summary; finishRecv is closed with it
    panicked            \* the goroutine that panicked over a closed channel

clientVars == <<finishSend, recv, summary>>
gatewayVars == <<relays, runners, closed>>
vars == <<loc, failed, clientVars, gatewayVars, ctxDone, signalled, main, panicked>>

Requests == UNION {{t} \X (0 .. Invocations[t] - 1) : t \in Targets}
Of(t) == {r \in Requests : r[1] = t}
At(l) == {r \in Requests : loc[r] = l}
Summary == [total : Nat, fail : Nat]

TypeOK ==
    /\ loc \in [Requests -> {"unsent", "externalIn", "internalIn", "dispatching",
                             "internalOut", "externalOut", "writer", "written"}]
    /\ failed \subseteq Requests
    /\ finishSend \in BOOLEAN
    /\ relays \subseteq Targets
    /\ runners \subseteq Targets
    /\ ctxDone \in BOOLEAN
    /\ signalled \in BOOLEAN
    /\ main \in {"waiting", "draining", "cancelled", "closed", "finished"}
    /\ closed \in BOOLEAN
    /\ recv \in BOOLEAN
    /\ summary \in Summary \cup {NoSummary}
    /\ panicked \in {"none", "sender", "relay"}

\* The gateway and the client have been started, 5 s apart.
Init ==
    /\ loc = [r \in Requests |-> "unsent"]
    /\ failed = {}
    /\ finishSend = FALSE
    /\ relays = Targets /\ runners = Targets
    /\ ctxDone = FALSE /\ signalled = FALSE
    /\ main = "waiting"
    /\ closed = FALSE
    /\ recv = TRUE
    /\ summary = NoSummary
    /\ panicked = "none"

\* The process ends with main or with a panic.
Running == main # "finished" /\ panicked = "none"

Move(r, from, to) ==
    /\ Running
    /\ loc[r] = from
    /\ loc' = [loc EXCEPT ![r] = to]

----------------------------------------------------------------------------
(* The client's senders.                                                   *)

\* newWorker: the invocations are dealt to the senders in turn.
Sender(r) == SenderOf(r[2], Invocations[r[1]])

\* send: each sender sends its invocations in order, whatever the context.
Send(r) ==
    /\ Running
    /\ loc[r] = "unsent"
    /\ \A q \in Of(r[1]) : Sender(q) = Sender(r) /\ q[2] < r[2] => loc[q] # "unsent"
    /\ IF closed
       THEN panicked' = "sender" /\ UNCHANGED loc
       ELSE loc' = [loc EXCEPT ![r] = "externalIn"] /\ UNCHANGED panicked
    /\ UNCHANGED <<failed, clientVars, gatewayVars, ctxDone, signalled, main>>

\* Start: every replay has returned.
FinishSend ==
    /\ Running
    /\ ~finishSend /\ At("unsent") = {}
    /\ finishSend' = TRUE
    /\ UNCHANGED <<loc, failed, recv, summary, gatewayVars, ctxDone, signalled, main, panicked>>

----------------------------------------------------------------------------
(* The gateway: relay and the dispatchers' Run, both stopped by the        *)
(* context; select may still take requests and responses before that.      *)

RelayIn(r) ==
    /\ r[1] \in relays
    /\ Move(r, "externalIn", "internalIn")
    /\ UNCHANGED <<failed, clientVars, gatewayVars, ctxDone, signalled, main, panicked>>

\* externalOutput <- res, which panics once the gateway is closed.
RelayOut(r) ==
    /\ r[1] \in relays
    /\ IF closed
       THEN /\ Running /\ loc[r] = "internalOut"
            /\ panicked' = "relay" /\ UNCHANGED loc
       ELSE Move(r, "internalOut", "externalOut") /\ UNCHANGED panicked
    /\ UNCHANGED <<failed, clientVars, gatewayVars, ctxDone, signalled, main>>

\* A closed and empty externalInput yields nil, which has no Target.
RelayInClosed(t) ==
    /\ Running
    /\ closed /\ t \in relays
    /\ \A r \in Of(t) : loc[r] # "externalIn"
    /\ panicked' = "relay"
    /\ UNCHANGED <<loc, failed, clientVars, gatewayVars, ctxDone, signalled, main>>

RelayStops(t) ==
    /\ Running
    /\ ctxDone /\ t \in relays
    /\ relays' = relays \ {t}
    /\ UNCHANGED <<loc, failed, clientVars, runners, closed, ctxDone, signalled, main, panicked>>

StartDispatch(r) ==
    /\ r[1] \in runners
    /\ Move(r, "internalIn", "dispatching")
    /\ UNCHANGED <<failed, clientVars, gatewayVars, ctxDone, signalled, main, panicked>>

RunStops(t) ==
    /\ Running
    /\ ctxDone /\ t \in runners
    /\ runners' = runners \ {t}
    /\ UNCHANGED <<loc, failed, clientVars, relays, closed, ctxDone, signalled, main, panicked>>

\* Dispatch answers, with or without success.
Dispatch(r) ==
    /\ Move(r, "dispatching", "internalOut")
    /\ failed' \in {failed, failed \cup {r}}
    /\ UNCHANGED <<clientVars, gatewayVars, ctxDone, signalled, main, panicked>>

----------------------------------------------------------------------------
(* The client's receiver and writer.                                       *)

Recv(r) ==
    /\ recv
    /\ Move(r, "externalOut", "writer")
    /\ UNCHANGED <<failed, clientVars, gatewayVars, ctxDone, signalled, main, panicked>>

RecvStopsOnCtx ==
    /\ Running
    /\ recv /\ ctxDone
    /\ recv' = FALSE
    /\ UNCHANGED <<loc, failed, finishSend, summary, gatewayVars, ctxDone, signalled, main, panicked>>

\* A closed channel ends the loop when it is empty.
RecvStops ==
    /\ Running
    /\ recv /\ closed /\ At("externalOut") = {}
    /\ recv' = FALSE
    /\ UNCHANGED <<loc, failed, finishSend, summary, gatewayVars, ctxDone, signalled, main, panicked>>

Write(r) ==
    /\ Move(r, "writer", "written")
    /\ UNCHANGED <<failed, clientVars, gatewayVars, ctxDone, signalled, main, panicked>>

SummaryBeforeDrain ==
    /\ Running
    /\ summary = NoSummary
    /\ ~recv
    /\ summary' = [total |-> Cardinality(At("written")),
                   fail |-> Cardinality(At("written") \cap failed)]
    /\ UNCHANGED <<loc, failed, finishSend, recv, gatewayVars, ctxDone, signalled, main, panicked>>

\* The summary; close(finishRecv).
WriteSummary ==
    /\ Running
    /\ summary = NoSummary
    /\ ~recv /\ At("writer") = {}
    /\ summary' = [total |-> Cardinality(At("written")),
                   fail |-> Cardinality(At("written") \cap failed)]
    /\ UNCHANGED <<loc, failed, finishSend, recv, gatewayVars, ctxDone, signalled, main, panicked>>

----------------------------------------------------------------------------
(* main                                                                    *)

Signal ==
    /\ Running
    /\ ~ctxDone
    /\ ctxDone' = TRUE
    /\ signalled' = TRUE
    /\ UNCHANGED <<loc, failed, clientVars, gatewayVars, main, panicked>>

DrainAtOnce ==
    /\ Running
    /\ main = "waiting"
    /\ main' = "draining"
    /\ UNCHANGED <<loc, failed, clientVars, gatewayVars, ctxDone, signalled, panicked>>

\* <-client.FinishSend(), then 15 s for the responses.
Drain ==
    /\ Running
    /\ main = "waiting" /\ finishSend
    /\ main' = "draining"
    /\ UNCHANGED <<loc, failed, clientVars, gatewayVars, ctxDone, signalled, panicked>>

\* cancel(), after the 15 s or on a signal.
Cancel ==
    /\ Running
    /\ main = "draining" \/ (main = "waiting" /\ ctxDone)
    /\ main' = "cancelled"
    /\ ctxDone' = TRUE
    /\ UNCHANGED <<loc, failed, clientVars, gatewayVars, signalled, panicked>>

CloseNoOutput ==
    /\ Running
    /\ main = "cancelled"
    /\ main' = "closed"
    /\ UNCHANGED <<loc, failed, clientVars, gatewayVars, ctxDone, signalled, panicked>>

\* gatewayImpl.Close(), 5 s later, whether or not the relays have stopped.
Close ==
    /\ Running
    /\ main = "cancelled"
    /\ main' = "closed"
    /\ closed' = TRUE
    /\ UNCHANGED <<loc, failed, clientVars, relays, runners, ctxDone, signalled, panicked>>

\* <-client.FinishRecv(), and the process ends.
Finish ==
    /\ Running
    /\ main = "closed" /\ summary # NoSummary
    /\ main' = "finished"
    /\ UNCHANGED <<loc, failed, clientVars, gatewayVars, ctxDone, signalled, panicked>>

----------------------------------------------------------------------------
RequestStep(r) ==
    \/ Send(r) \/ RelayIn(r) \/ RelayOut(r) \/ StartDispatch(r) \/ Dispatch(r)
    \/ Recv(r) \/ Write(r)
ProcessStep ==
    \/ FinishSend \/ RecvStops \/ WriteSummary
    \/ Drain \/ Cancel \/ Close \/ Finish

Next ==
    \/ \E r \in Requests : RequestStep(r)
    \/ \E t \in Targets : RelayStops(t) \/ RelayInClosed(t) \/ RunStops(t)
    \/ ProcessStep
    \/ Signal

Spec == Init /\ [][Next]_vars

(***************************************************************************)
(* Every goroutine keeps running; a select with several ready cases takes  *)
(* the one of the cancelled context in the end.  A Dispatch may hang.      *)
(***************************************************************************)
Fairness ==
    /\ \A r \in Requests : WF_vars(loc[r] # "dispatching" /\ RequestStep(r))
    /\ \A t \in Targets : WF_vars(RelayStops(t)) /\ WF_vars(RunStops(t))
    /\ WF_vars(ProcessStep)

FairSpec == Spec /\ Fairness

----------------------------------------------------------------------------
(***************************************************************************)
(* A response that reached the client's channel is in the summary: closing *)
(* the gateway and stopping the receiver and the writer drop none.         *)
(***************************************************************************)
NoResponseDropped ==
    summary # NoSummary => At("externalOut") \cup At("writer") = {}

(***************************************************************************)
(* No sender meets a closed channel, though nothing but the order of       *)
(* main's steps keeps the senders and gatewayImpl.Close apart - unless a   *)
(* signal makes main cancel before the senders, which do not look at the   *)
(* context, have finished.  (A relay that is still running 5 s after the   *)
(* context was cancelled does meet the closed channels.)                   *)
(***************************************************************************)
NoSendOnClosed == panicked = "sender" => signalled /\ ~finishSend

(***************************************************************************)
(* The replay ends, with a signal or without: main gets past               *)
(* <-client.FinishRecv(), also if a Dispatch never returns, or a sender or *)
(* a relay panicked over a closed channel.                                 *)
(***************************************************************************)
ReplayEnds == <>(main = "finished" \/ panicked # "none")

(***************************************************************************)
(* The pipeline implements RequestService: from a request's send to its    *)
(* line in the output, nothing is duplicated, invented or recorded after   *)
(* the summary.                                                            *)
(***************************************************************************)
Status ==
    [r \in Requests |->
        CASE loc[r] = "unsent" -> "new"
          [] loc[r] = "written" -> "recorded"
          [] OTHER -> "submitted"]

Service == INSTANCE RequestService
    WITH status <- Status,
         summary <- IF summary = NoSummary THEN NoSummary ELSE summary.total

ImplementsService == Service!Spec
=============================================================================
