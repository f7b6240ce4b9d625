------------------------------ MODULE TraceSpec ------------------------------
(***************************************************************************)
(* The invocations of a trace: how the inter-arrival times that the loader *)
(* of the invitro submodule generates become arrival times                 *)
(* (pkg/workload/conversion.go), and how a worker deals the invocations to *)
(* its senders (pkg/replay/worker.go).                                     *)
(*                                                                         *)
(* Times are counted in microseconds; the rounding of float64 seconds is   *)
(* left out.  An invocation is known by its index, which stands for its    *)
(* runtime.  The specification of a function is [perMinute, iat, runtimes: *)
(* sequence of numbers, sequence of times, number of runtimes].            *)
(***************************************************************************)
EXTENDS Naturals, SequencesExt

CONSTANT
    PerSender           \* 60 * maxInvocationsPerSecondPerSender

ASSUME PerSenderAssumption == PerSender \in Nat \ {0}

Minute == 60 * 1000000
UpTo(n) == [i \in 1..n |-> i]

----------------------------------------------------------------------------
(* conversion.go                                                           *)

\* platform, experiment and warmup minutes, distribution and granularity
LoaderConfig == [platform : {"Dirigent", "other"}, duration : Nat, warmup : Nat,
                 iat : {"exponential", "exponential_shift", "uniform", "uniform_shift",
                        "equidistant", "other"},
                 granularity : {"minute", "second", "other"}]

DetermineDurationToParse(cfg) ==
    cfg.duration + (IF cfg.warmup > 0 THEN 1 + cfg.warmup ELSE 0)

\* LoadDirigentTraceFromConfig ends the process for other configurations.
LoaderAccepts(cfg) ==
    /\ cfg.platform = "Dirigent"
    /\ cfg.duration >= 1
    /\ cfg.iat # "other"
    /\ cfg.granularity = "minute"

KeepElapsed(acc, m) == [acc EXCEPT !.start = (m - 1) * Minute]

\* TranslateDirigentFunction: the two loops, minute by minute.  panic stands
\* for an index beyond rawSpec.IAT.
StartMinute(acc, m) == [acc EXCEPT !.start = (m - 1) * Minute, !.elapsed = 0]

NextInvocation(f, acc) ==
    IF acc.reqIndex > Len(f.iat) THEN [acc EXCEPT !.panic = TRUE]
    ELSE [acc EXCEPT
            !.elapsed = @ + f.iat[acc.reqIndex],
            !.invocations = Append(@, acc.start + acc.elapsed + f.iat[acc.reqIndex]),
            !.reqIndex = @ + 1]

TranslateDirigentFunction(f) ==
    LET Invocation(acc, i) == NextInvocation(f, acc)
        InMinute(acc, m) == FoldLeft(Invocation, StartMinute(acc, m), UpTo(f.perMinute[m]))
    IN  FoldLeft(InMinute,
                 [reqIndex |-> 1, start |-> 0, elapsed |-> 0, invocations |-> <<>>, panic |-> FALSE],
                 UpTo(Len(f.perMinute)))

\* "Invocation count mismatch" is fatal.
CountsMatch(f) == Len(TranslateDirigentFunction(f).invocations) = Len(f.iat)

----------------------------------------------------------------------------
(* newWorker, for n invocations: sender s gets the indices i with          *)
(* SenderOf(i, n) = s, in their order.                                     *)

NSenders(n) == (n + PerSender - 1) \div PerSender

SenderOf(i, n) == i % NSenders(n)

----------------------------------------------------------------------------
(* What a trace means, without loops or running sums: an invocation        *)
(* belongs to the minute that the counts before it leave it in, and        *)
(* arrives after the inter-arrival times of that minute up to its own.     *)

Before(f, m) == SumFunctionOnSet(f.perMinute, 1..(m - 1))
MinuteOf(f, i) ==
    CHOOSE m \in DOMAIN f.perMinute : Before(f, m) < i /\ i <= Before(f, m) + f.perMinute[m]
ArrivalTime(f, i) ==
    LET m == MinuteOf(f, i)
    IN  (m - 1) * Minute + SumFunctionOnSet(f.iat, (Before(f, m) + 1) .. i)

\* The inter-arrival times of every minute fit into it.
FitsMinutes(f) ==
    \A m \in DOMAIN f.perMinute :
        SumFunctionOnSet(f.iat, (Before(f, m) + 1) .. (Before(f, m) + f.perMinute[m])) <= Minute
=============================================================================
