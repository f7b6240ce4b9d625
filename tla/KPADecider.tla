----------------------------- MODULE KPADecider -----------------------------
(***************************************************************************)
(* The decision of the KPA autoscaler for one target                       *)
(* (pkg/autoscaler/decider/kpa.go): how many pods are desired, from the    *)
(* concurrency averaged over the stable and over the panic window, the     *)
(* concurrency of this instant and the number of ready pods.               *)
(*                                                                         *)
(* Concurrencies are counted in a unit in which the target value is a      *)
(* whole number, rates and the threshold are fractions <<num, den>>, and   *)
(* time 0 is Go's zero time.  The autoscaler's queue never reconciles one  *)
(* target twice at a time, so the times of the calls do not decrease.      *)
(***************************************************************************)
EXTENDS Integers

CONSTANTS
    TargetValue,        \* targetValue
    MaxScaleUpRate,     \* maxScaleUpRate
    MaxScaleDownRate,   \* maxScaleDownRate
    PanicThreshold,     \* panicThreshold
    StableWindow,       \* stableWindow
    ScaleDownDelay,     \* scaleDownDelay; 0 for none
    MaxReady,           \* bound: ready pods
    Observations,       \* what may be observed: [stable, panic, instant : Nat]
    MaxTime             \* bound: the clock

Fraction == (Nat \ {0}) \X (Nat \ {0})

ASSUME DeciderAssumption ==
    /\ TargetValue \in Nat \ {0}
    /\ MaxScaleUpRate \in Fraction
    /\ MaxScaleDownRate \in Fraction
    /\ PanicThreshold \in Fraction
    /\ StableWindow \in Nat
    /\ ScaleDownDelay \in Nat
    /\ MaxReady \in Nat
    /\ Observations \subseteq [stable : Nat, panic : Nat, instant : Nat]
    /\ MaxTime \in Nat \ {0}

VARIABLES
    now,                \* the clock
    panicTime, maxPanicPods, desiredScale,
    delayWindow,        \* the decisions delayWindow remembers
    fromZero,           \* the last Reconcile had requests in flight and no ready pod
    surges              \* pods the panic window asked for, above the threshold and
                        \* within the stable window of the last Reconcile

vars == <<now, panicTime, maxPanicPods, desiredScale, delayWindow, fromZero, surges>>

Decision == [time : Nat, pods : Nat]

TypeOK ==
    /\ now \in 1..MaxTime
    /\ panicTime \in 0..now
    /\ maxPanicPods \in Nat
    /\ desiredScale \in Nat
    /\ delayWindow \subseteq Decision
    /\ fromZero \in BOOLEAN
    /\ surges \subseteq Decision

Init ==
    /\ now = 1
    /\ panicTime = 0
    /\ maxPanicPods = 0
    /\ desiredScale = 0
    /\ delayWindow = {}
    /\ fromZero = FALSE
    /\ surges = {}

----------------------------------------------------------------------------
(* The pure part of Reconcile, for n ready pods and the observation o.     *)

Larger(a, b) == IF a >= b THEN a ELSE b
Smaller(a, b) == IF a <= b THEN a ELSE b
CeilDiv(a, b) == (a + b - 1) \div b

\* "Use 1 if 0, otherwise the scale up/down rates won't work"
CurrentReady(n) == Larger(1, n)
FromZero(n, o) == n = 0 /\ o.instant > 0

Ceiling(n) == CeilDiv(MaxScaleUpRate[1] * CurrentReady(n), MaxScaleUpRate[2])
Floor(n) == (CurrentReady(n) * MaxScaleDownRate[2]) \div MaxScaleDownRate[1]

NoFromZeroBound(n, o) == Floor(n)

Upperbound(n, o) == IF FromZero(n, o) THEN Larger(Ceiling(n), 1) ELSE Ceiling(n)
Lowerbound(n, o) == IF FromZero(n, o) THEN Larger(Floor(n), 1) ELSE Floor(n)

WithoutUpperbound(n, o, v) == Larger(CeilDiv(v, TargetValue), Lowerbound(n, o))

\* desiredStablePodCount and desiredPanicPodCount
PodCount(n, o, v) ==
    Smaller(Larger(CeilDiv(v, TargetValue), Lowerbound(n, o)), Upperbound(n, o))

OverThreshold(n, o) ==
    CeilDiv(o.panic, TargetValue) * PanicThreshold[2] >= PanicThreshold[1] * CurrentReady(n)

----------------------------------------------------------------------------
UnpanicWithoutWindow(n, o) == IF OverThreshold(n, o) THEN now ELSE 0

\* panicTime after this call: begin or extend, end after the stable window.
NextPanicTime(n, o) ==
    IF OverThreshold(n, o) THEN now
    ELSE IF panicTime # 0 /\ panicTime + StableWindow < now THEN 0
    ELSE panicTime

\* maxPanicPods before this call's decision is taken into account.
PanicPods(n, o) ==
    IF panicTime # 0 /\ NextPanicTime(n, o) = 0 THEN 0 ELSE maxPanicPods

\* The decision before the delay.
Desired(n, o) ==
    IF NextPanicTime(n, o) = 0
    THEN PodCount(n, o, o.stable)
    ELSE Larger(Larger(PodCount(n, o, o.stable), PodCount(n, o, o.panic)), PanicPods(n, o))

\* delayWindow.Record: the window forgets what is older than the delay, and
\* keeps the largest decision of one point in time.
Recorded(d) ==
    {e \in delayWindow \cup {[time |-> now, pods |-> d]} :
        /\ e.time + ScaleDownDelay > now
        /\ e.time = now => e.pods >= d}

\* delayWindow.Current, the largest of them; without a delay, d itself.
Current(d) ==
    IF ScaleDownDelay = 0 THEN {d}
    ELSE {e.pods : e \in {x \in Recorded(d) : \A y \in Recorded(d) : y.pods <= x.pods}}

Reconcile(n, o) ==
    /\ panicTime' = NextPanicTime(n, o)
    /\ maxPanicPods' = IF NextPanicTime(n, o) = 0 THEN PanicPods(n, o) ELSE Desired(n, o)
    /\ delayWindow' = IF ScaleDownDelay = 0 THEN {} ELSE Recorded(Desired(n, o))
    /\ desiredScale' \in Current(Desired(n, o))
    /\ fromZero' = FromZero(n, o)
    /\ surges' = {s \in surges : now <= s.time + StableWindow}
                    \cup (IF OverThreshold(n, o)
                          THEN {[time |-> now, pods |-> PodCount(n, o, o.panic)]} ELSE {})
    /\ UNCHANGED now

Tick ==
    /\ now < MaxTime
    /\ now' = now + 1
    /\ UNCHANGED <<panicTime, maxPanicPods, desiredScale, delayWindow, fromZero, surges>>

Next ==
    \/ \E n \in 0..MaxReady, o \in Observations : Reconcile(n, o)
    \/ Tick

Spec == Init /\ [][Next]_vars

----------------------------------------------------------------------------
(***************************************************************************)
(* "If we're scaling from zero, we need to ensure we always have at least  *)
(* one pod" (kpa.go:82): with requests in flight and no pod ready, the     *)
(* decision is at least one, whatever the windows, the rates, the mode and *)
(* the delay say.                                                          *)
(***************************************************************************)
WakesFromZero == fromZero => desiredScale >= 1

(***************************************************************************)
(* A surge is provisioned for until it has made its way into the stable    *)
(* metric: for the stable window after a call above the panic threshold,   *)
(* every decision is at least what that call computed for the panic        *)
(* window, even when the load and the ready pods drop in the meantime.     *)
(***************************************************************************)
SurgeIsHeld == \A s \in surges : desiredScale >= s.pods

(***************************************************************************)
(* No decision, in either mode, after any history, exceeds what            *)
(* maxScaleUpRate allows for the most pods that were ever ready.           *)
(***************************************************************************)
NeverAboveLimit == desiredScale <= Larger(Ceiling(MaxReady), 1)
=============================================================================
