------------------------------ MODULE KdBench ------------------------------
(***************************************************************************)
(* What run has in common in the breakdown benchmarks (experiments/        *)
(* microbench/breakdown): it prepares its targets, waits for a client of a *)
(* KubeDirect service, makes its calls, and reports or gives up.           *)
(***************************************************************************)
VARIABLES
    phase,              \* where run is
    cancelled,          \* ctx is done
    client              \* kdClient is not nil

Ends == {"off", "reported", "failed", "cancelled", "crashed", "fatal"}
Running == phase \notin Ends

Started == phase = "setup" /\ cancelled = FALSE /\ client = FALSE
NeverStarted == phase = "off" /\ cancelled = FALSE /\ client = FALSE

MoveOn(from, to) ==
    /\ phase = from
    /\ phase' = to
    /\ UNCHANGED <<cancelled, client>>

\* The select on ctx.Done() after a Wait.
UnlessDone(to) == IF cancelled THEN "cancelled" ELSE to

\* The lister has found a ready server, and the epoch it answered with is the
\* one asked for; until then the hub lists, dials and shakes hands again.
HandshakeDone(to) ==
    /\ phase = "connecting"
    /\ phase' = to
    /\ client' = TRUE
    /\ UNCHANGED cancelled

\* The poll for the client also ends, with an error that run ignores, when the
\* context is cancelled.
PollCancelled(to) == cancelled /\ MoveOn("connecting", to)

\* ctrl.SetupSignalHandler cancels the context.
Signalled ==
    /\ Running
    /\ ~cancelled
    /\ cancelled' = TRUE
    /\ UNCHANGED <<phase, client>>
=============================================================================
