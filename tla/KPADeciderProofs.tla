-------------------------- MODULE KPADeciderProofs --------------------------
(***************************************************************************)
(* Proofs about KPADecider, for all rates, thresholds, windows and delays  *)
(* and for any load, and about the statistics that it reads.               *)
(***************************************************************************)
EXTENDS MCKPADecider, TLAPS

Types ==
    /\ now \in Nat \ {0}
    /\ panicTime \in 0..now
    /\ maxPanicPods \in Nat
    /\ desiredScale \in Nat
    /\ delayWindow \subseteq Decision
    /\ surges \subseteq Decision

Observation == [stable : Nat, panic : Nat, instant : Nat]

\* What the maximal scale-up rate allows for the most pods that are ready.
Limit == Larger(Ceiling(MaxReady), 1)

----------------------------------------------------------------------------
\* Division of naturals.
LEMMA DivNat ==
    ASSUME NEW a \in Nat, NEW b \in Nat \ {0}
    PROVE  a \div b \in Nat
OBVIOUS

\* Division is monotonic.
LEMMA DivMonotonic ==
    ASSUME NEW a \in Nat, NEW b \in Nat, NEW d \in Nat \ {0}, a <= b
    PROVE  a \div d <= b \div d
OBVIOUS

\* A product is monotonic.
LEMMA TimesMonotonic ==
    ASSUME NEW a \in Nat, NEW b \in Nat, NEW c \in Nat, a <= b
    PROVE  c * a <= c * b /\ c * a \in Nat /\ c * b \in Nat
OBVIOUS

\* The bounds and the pod counts are natural numbers.
LEMMA BoundsNat ==
    ASSUME NEW n \in 0..MaxReady, NEW o \in Observation
    PROVE  /\ CurrentReady(n) \in Nat \ {0}
           /\ Ceiling(n) \in Nat /\ Floor(n) \in Nat
           /\ Lowerbound(n, o) \in Nat /\ Upperbound(n, o) \in Nat
           /\ FromZero(n, o) => Lowerbound(n, o) >= 1 /\ Upperbound(n, o) >= 1
<1>1. /\ MaxReady \in Nat
      /\ MaxScaleUpRate[1] \in Nat \ {0} /\ MaxScaleUpRate[2] \in Nat \ {0}
      /\ MaxScaleDownRate[1] \in Nat \ {0} /\ MaxScaleDownRate[2] \in Nat \ {0}
  BY DeciderAssumption DEF Fraction
<1>2. CurrentReady(n) \in Nat \ {0}
  BY <1>1 DEF CurrentReady, Larger
<1>3. Ceiling(n) \in Nat
  <2>1. MaxScaleUpRate[1] * CurrentReady(n) \in Nat
    BY <1>1, <1>2, TimesMonotonic
  <2>2. MaxScaleUpRate[1] * CurrentReady(n) + MaxScaleUpRate[2] - 1 \in Nat
    BY <1>1, <2>1
  <2>3. QED
    BY <1>1, <2>2, DivNat DEF Ceiling, CeilDiv
<1>4. Floor(n) \in Nat
  <2>1. CurrentReady(n) * MaxScaleDownRate[2] \in Nat
    BY <1>1, <1>2, TimesMonotonic
  <2>2. QED
    BY <1>1, <2>1, DivNat DEF Floor
<1>5. QED
  BY <1>2, <1>3, <1>4 DEF Lowerbound, Upperbound, Larger

\* No bound is above what the scale-up rate allows for the most ready pods.
LEMMA UpperboundLimit ==
    ASSUME NEW n \in 0..MaxReady, NEW o \in Observation
    PROVE  Limit \in Nat /\ Upperbound(n, o) <= Limit
<1>1. /\ MaxReady \in Nat /\ MaxReady \in 0..MaxReady
      /\ MaxScaleUpRate[1] \in Nat \ {0} /\ MaxScaleUpRate[2] \in Nat \ {0}
  BY DeciderAssumption DEF Fraction
<1>2. CurrentReady(n) <= CurrentReady(MaxReady)
  BY <1>1 DEF CurrentReady, Larger
<1>3. CurrentReady(n) \in Nat /\ CurrentReady(MaxReady) \in Nat
  BY <1>1, BoundsNat
<1>4. /\ MaxScaleUpRate[1] * CurrentReady(n) <= MaxScaleUpRate[1] * CurrentReady(MaxReady)
      /\ MaxScaleUpRate[1] * CurrentReady(n) \in Nat
      /\ MaxScaleUpRate[1] * CurrentReady(MaxReady) \in Nat
  BY <1>1, <1>2, <1>3, TimesMonotonic
<1>5. Ceiling(n) <= Ceiling(MaxReady)
  <2> DEFINE a == MaxScaleUpRate[1] * CurrentReady(n) + MaxScaleUpRate[2] - 1
             b == MaxScaleUpRate[1] * CurrentReady(MaxReady) + MaxScaleUpRate[2] - 1
  <2>1. a \in Nat /\ b \in Nat /\ a <= b
    BY <1>1, <1>4
  <2>2. Ceiling(n) = a \div MaxScaleUpRate[2] /\ Ceiling(MaxReady) = b \div MaxScaleUpRate[2]
    BY DEF Ceiling, CeilDiv
  <2> HIDE DEF a, b
  <2>3. QED
    BY <1>1, <2>1, <2>2, DivMonotonic
<1>6. Ceiling(n) \in Nat /\ Ceiling(MaxReady) \in Nat
  BY <1>1, BoundsNat
<1>7. QED
  BY <1>5, <1>6 DEF Limit, Upperbound, Larger

\* desiredStablePodCount and desiredPanicPodCount.
LEMMA PodCountBounds ==
    ASSUME NEW n \in 0..MaxReady, NEW o \in Observation, NEW v \in Nat
    PROVE  /\ PodCount(n, o, v) \in Nat
           /\ PodCount(n, o, v) <= Limit
           /\ FromZero(n, o) => PodCount(n, o, v) >= 1
<1>1. CeilDiv(v, TargetValue) \in Nat
  <2>1. TargetValue \in Nat \ {0} /\ v + TargetValue - 1 \in Nat
    BY DeciderAssumption
  <2>2. QED
    BY <2>1, DivNat DEF CeilDiv
<1>2. QED
  BY <1>1, BoundsNat, UpperboundLimit DEF PodCount, Larger, Smaller

\* The decision covers the stable window, and in panic mode the panic window
\* and all earlier decisions of the panic.
LEMMA DesiredBounds ==
    ASSUME Types, NEW n \in 0..MaxReady, NEW o \in Observation
    PROVE  /\ Desired(n, o) \in Nat
           /\ Desired(n, o) >= PodCount(n, o, o.stable)
           /\ NextPanicTime(n, o) # 0 => /\ Desired(n, o) >= PodCount(n, o, o.panic)
                                         /\ Desired(n, o) >= maxPanicPods
           /\ maxPanicPods <= Limit => Desired(n, o) <= Limit
<1>1. /\ PodCount(n, o, o.stable) \in Nat /\ PodCount(n, o, o.stable) <= Limit
      /\ PodCount(n, o, o.panic) \in Nat /\ PodCount(n, o, o.panic) <= Limit
  BY PodCountBounds DEF Observation
<1>2. NextPanicTime(n, o) # 0 => PanicPods(n, o) = maxPanicPods
  BY DEF PanicPods
<1>3. Limit \in Nat /\ maxPanicPods \in Nat
  BY UpperboundLimit DEF Types
<1>4. QED
  BY <1>1, <1>2, <1>3 DEF Desired, Larger

\* The delay never lowers a decision, and never invents one.
LEMMA CurrentBounds ==
    ASSUME Types, NEW d \in Nat, NEW c \in Current(d)
    PROVE  /\ c \in Nat /\ c >= d
           /\ c = d \/ \E e \in delayWindow : e.pods = c
           /\ Recorded(d) \subseteq delayWindow \cup {[time |-> now, pods |-> d]}
<1> DEFINE new == [time |-> now, pods |-> d]
<1>1. Recorded(d) \subseteq delayWindow \cup {new}
  BY DEF Recorded
<1>2. CASE ScaleDownDelay = 0
  BY <1>1, <1>2 DEF Current
<1>3. CASE ScaleDownDelay # 0
  <2>1. new \in Recorded(d)
    BY <1>3, DeciderAssumption DEF Recorded, Types
  <2>2. PICK x \in Recorded(d) : (\A y \in Recorded(d) : y.pods <= x.pods) /\ c = x.pods
    BY <1>3 DEF Current
  <2>3. new.pods <= x.pods /\ new.pods = d
    BY <2>1, <2>2
  <2>4. x.pods \in Nat
    BY <1>1 DEF Types, Decision
  <2>5. QED
    BY <1>1, <2>2, <2>3, <2>4
<1>4. QED
  BY <1>2, <1>3

----------------------------------------------------------------------------
\* A surge that still counts is not older than the panic, which has provided
\* for it.
SurgeInPanic ==
    \A s \in surges : /\ panicTime # 0 /\ s.time <= panicTime
                      /\ s.pods <= maxPanicPods /\ s.pods <= desiredScale

\* Everything a decision is made from is within the limit.
WithinLimit ==
    /\ maxPanicPods <= Limit /\ desiredScale <= Limit
    /\ \A e \in delayWindow : e.pods <= Limit

IInv == Types /\ WakesFromZero /\ SurgeInPanic /\ WithinLimit

\* A new decider desires nothing.
LEMMA InitIInv == Init => IInv
<1> SUFFICES ASSUME Init PROVE IInv
  OBVIOUS
<1>1. Limit \in Nat
  <2>1. MaxReady \in 0..MaxReady
    BY DeciderAssumption
  <2>2. [stable |-> 0, panic |-> 0, instant |-> 0] \in Observation
    BY DEF Observation
  <2>3. QED
    BY <2>1, <2>2, UpperboundLimit
<1>2. QED
  BY <1>1 DEF Init, IInv, Types, WakesFromZero, SurgeInPanic, WithinLimit

\* One call of Reconcile.
LEMMA ReconcileStep ==
    ASSUME IInv, NEW n \in 0..MaxReady, NEW o \in Observation, Reconcile(n, o)
    PROVE  IInv'
<1> DEFINE d == Desired(n, o)
           p == NextPanicTime(n, o)
           c == PodCount(n, o, o.panic)
<1>1. Types /\ now' = now
  BY DEF IInv, Reconcile
<1>2. /\ d \in Nat /\ d <= Limit /\ d >= PodCount(n, o, o.stable)
      /\ p # 0 => d >= c /\ d >= maxPanicPods
  BY <1>1, DesiredBounds DEF IInv, WithinLimit
<1>3. /\ c \in Nat /\ PodCount(n, o, o.stable) \in Nat
      /\ FromZero(n, o) => PodCount(n, o, o.stable) >= 1
  BY PodCountBounds DEF Observation
<1>4. /\ desiredScale' \in Nat /\ desiredScale' >= d
      /\ desiredScale' = d \/ \E e \in delayWindow : e.pods = desiredScale'
      /\ Recorded(d) \subseteq delayWindow \cup {[time |-> now, pods |-> d]}
  BY <1>1, <1>2, CurrentBounds DEF Reconcile
<1>5. /\ panicTime' = p
      /\ maxPanicPods' = IF p = 0 THEN PanicPods(n, o) ELSE d
      /\ delayWindow' = IF ScaleDownDelay = 0 THEN {} ELSE Recorded(d)
      /\ surges' = {s \in surges : now <= s.time + StableWindow}
                      \cup (IF OverThreshold(n, o) THEN {[time |-> now, pods |-> c]} ELSE {})
  BY DEF Reconcile
<1>6. p \in 0..now /\ PanicPods(n, o) \in {0, maxPanicPods}
  BY <1>1 DEF NextPanicTime, PanicPods, Types
<1>7. Limit \in Nat
  BY UpperboundLimit
<1>8. OverThreshold(n, o) => p = now
  BY DEF NextPanicTime
<1>9. \A s \in surges : now <= s.time + StableWindow => p # 0 /\ s.time <= p
  <2> SUFFICES ASSUME NEW s \in surges, now <= s.time + StableWindow PROVE p # 0 /\ s.time <= p
    OBVIOUS
  <2>1. s.time \in Nat /\ s.time <= panicTime /\ panicTime # 0 /\ panicTime \in 0..now
    BY <1>1 DEF Types, Decision, IInv, SurgeInPanic
  <2>2. StableWindow \in Nat /\ now \in Nat \ {0}
    BY <1>1, DeciderAssumption DEF Types
  <2>3. QED
    BY <2>1, <2>2 DEF NextPanicTime
<1>10. WakesFromZero'
  <2>1. fromZero' = FromZero(n, o)
    BY DEF Reconcile
  <2>2. FromZero(n, o) => desiredScale' >= 1
    BY <1>2, <1>3, <1>4
  <2>3. QED
    BY <2>1, <2>2 DEF WakesFromZero
<1> HIDE DEF d, p, c
<1>11. Types'
  <2>1. now \in Nat \ {0} /\ maxPanicPods \in Nat
    BY <1>1 DEF Types
  <2>2. maxPanicPods' \in Nat
    BY <1>2, <1>5, <1>6, <2>1
  <2>3. [time |-> now, pods |-> d] \in Decision /\ [time |-> now, pods |-> c] \in Decision
    BY <1>2, <1>3, <2>1 DEF Decision
  <2>4. delayWindow' \subseteq Decision /\ surges' \subseteq Decision
    BY <1>1, <1>4, <1>5, <2>3 DEF Types
  <2>5. QED
    BY <1>1, <1>4, <1>5, <1>6, <2>1, <2>2, <2>4 DEF Types
<1>12. SurgeInPanic'
  <2> SUFFICES ASSUME NEW s \in surges'
               PROVE  /\ panicTime' # 0 /\ s.time <= panicTime'
                      /\ s.pods <= maxPanicPods' /\ s.pods <= desiredScale'
    BY DEF SurgeInPanic
  <2>1. CASE s \in surges /\ now <= s.time + StableWindow
    <3>1. p # 0 /\ s.time <= p
      BY <1>9, <2>1
    <3>2. s.pods <= maxPanicPods /\ s.pods \in Nat /\ maxPanicPods \in Nat
      BY <1>1, <2>1 DEF IInv, SurgeInPanic, Types, Decision
    <3>3. QED
      BY <1>2, <1>4, <1>5, <3>1, <3>2
  <2>2. CASE OverThreshold(n, o) /\ s = [time |-> now, pods |-> c]
    <3>1. p = now /\ now \in Nat \ {0} /\ s.time = now /\ s.pods = c
      BY <1>1, <1>8, <2>2 DEF Types
    <3>2. QED
      BY <1>2, <1>3, <1>4, <1>5, <3>1
  <2>3. QED
    BY <1>5, <2>1, <2>2
<1>13. WithinLimit'
  <2>1. maxPanicPods \in Nat /\ maxPanicPods <= Limit /\ \A e \in delayWindow : e.pods <= Limit
    BY <1>1 DEF IInv, WithinLimit, Types
  <2>2. Limit' = Limit
    BY DEF Limit, Larger, Ceiling, CeilDiv, CurrentReady
  <2>3. maxPanicPods' <= Limit
    BY <1>2, <1>5, <1>6, <1>7, <2>1
  <2>4. desiredScale' <= Limit
    BY <1>2, <1>4, <2>1
  <2>5. \A e \in delayWindow' : e.pods <= Limit
    BY <1>2, <1>4, <1>5, <2>1
  <2>6. QED
    BY <2>2, <2>3, <2>4, <2>5 DEF WithinLimit
<1>14. QED
  BY <1>10, <1>11, <1>12, <1>13 DEF IInv

\* The invariant is inductive.
LEMMA NextIInv == IInv /\ [Next]_vars => IInv'
<1> SUFFICES ASSUME IInv, [Next]_vars PROVE IInv'
  OBVIOUS
<1>1. ASSUME NEW n \in 0..MaxReady, NEW o \in Observations, Reconcile(n, o) PROVE IInv'
  BY <1>1, DeciderAssumption, ReconcileStep DEF Observation
<1>2. CASE Tick
  <2>1. Types'
    BY <1>2 DEF Tick, IInv, Types
  <2>2. QED
    BY <1>2, <2>1 DEF Tick, IInv, WakesFromZero, SurgeInPanic, WithinLimit, Limit, Larger, Ceiling,
                      CeilDiv, CurrentReady
<1>3. CASE UNCHANGED vars
  BY <1>3 DEF vars, IInv, Types, WakesFromZero, SurgeInPanic, WithinLimit, Limit, Larger, Ceiling,
              CeilDiv, CurrentReady
<1>4. QED
  BY <1>1, <1>2, <1>3 DEF Next

----------------------------------------------------------------------------
(***************************************************************************)
(* For all settings and any load, requests in flight without a ready pod   *)
(* make Reconcile desire at least one.                                     *)
(***************************************************************************)
THEOREM ZeroIsLeft == Spec => []WakesFromZero
<1>1. IInv => WakesFromZero
  BY DEF IInv
<1>2. QED
  BY InitIInv, NextIInv, <1>1, PTL DEF Spec

(***************************************************************************)
(* For all settings and any load, what a surge asked for is desired for    *)
(* the whole stable window after it.                                       *)
(***************************************************************************)
THEOREM SurgesAreHeld == Spec => []SurgeIsHeld
<1>1. IInv => SurgeIsHeld
  <2> SUFFICES ASSUME IInv, NEW s \in surges PROVE desiredScale >= s.pods
    BY DEF SurgeIsHeld
  <2>1. s.pods \in Nat /\ desiredScale \in Nat /\ s.pods <= desiredScale
    BY DEF IInv, Types, Decision, SurgeInPanic
  <2>2. QED
    BY <2>1
<1>2. QED
  BY InitIInv, NextIInv, <1>1, PTL DEF Spec

(***************************************************************************)
(* For all settings and any load, no decision exceeds what maxScaleUpRate  *)
(* allows for the most pods that are ever ready.                           *)
(***************************************************************************)
THEOREM ScaleUpIsLimited == Spec => []NeverAboveLimit
<1>1. IInv => NeverAboveLimit
  BY DEF IInv, WithinLimit, NeverAboveLimit, Limit
<1>2. QED
  BY InitIInv, NextIInv, <1>1, PTL DEF Spec

----------------------------------------------------------------------------
(***************************************************************************)
(* The statistics, for any number of requests and any clock.               *)
(*                                                                         *)
(* The accounts are inductive given what Move relies on: a tick is never   *)
(* ahead of the clock, nothing is in flight or ticking before the first    *)
(* change, and the running window obeys the bound of its report (Window).  *)
(***************************************************************************)
StatsTypes ==
    /\ clock \in Nat \ {0} /\ tick \in 0..clock /\ lastChange \in 0..clock
    /\ concurrency \in Nat /\ concurrencyIntegral \in Nat /\ secondsInUse \in Nat
    /\ requestCount \in Nat
    /\ area \in Nat /\ firstChange \in Nat /\ peak \in Nat
    /\ reported \in [area : Nat, seconds : Nat, count : Nat,
                     lastArea : Nat, lastSeconds : Nat, lastPeak : Nat]

\* Before the first request nothing is counted and no ticker runs.
Unused ==
    lastChange = 0 => concurrency = 0 /\ firstChange = 0 /\ tick = 0 /\ ~collecting

\* The running window is within its peak.
Window ==
    /\ concurrency <= peak
    /\ concurrencyIntegral <= peak * secondsInUse

StatsInv == StatsTypes /\ Unused /\ Stats!LoadAccounted /\ Window /\ Stats!AverageWithinPeak

----------------------------------------------------------------------------
\* Multiplication distributes over a span of time split in two.
LEMMA Split ==
    ASSUME NEW c \in Nat, NEW a \in Int, NEW b \in Int
    PROVE  c * (a + b) = c * a + c * b
OBVIOUS

\* Multiplication with a span is monotonic.
LEMMA Monotonic ==
    ASSUME NEW c \in Nat, NEW d \in Nat, NEW e \in Nat, c <= d
    PROVE  c * e <= d * e /\ c * e \in Nat
OBVIOUS

\* No time, no load.
LEMMA TimesZero == \A c \in Nat : c * 0 = 0
OBVIOUS

\* What Move(t) adds for a time stamp of the past.
LEMMA MoveBy ==
    ASSUME StatsTypes, NEW t \in 1..clock
    PROVE  /\ Stats!Elapsed(t) \in Nat
           /\ Stats!MoveTo(t) \in 1..clock
           /\ lastChange # 0 => Stats!MoveTo(t) = lastChange + Stats!Elapsed(t)
           /\ lastChange = 0 => Stats!MoveTo(t) = t /\ Stats!Elapsed(t) = 0
BY DEF StatsTypes, Stats!Elapsed, Stats!MoveTo

\* A span that grows keeps the running window within its peak.
LEMMA WindowGrows ==
    ASSUME StatsTypes, Window, NEW e \in Nat, NEW p \in Nat, peak <= p
    PROVE  /\ concurrency * e \in Nat
           /\ concurrencyIntegral + concurrency * e <= p * (secondsInUse + e)
<1> USE DEF StatsTypes, Window
<1>1. concurrency * e <= p * e /\ concurrency * e \in Nat
  BY Monotonic
<1>2. peak * secondsInUse <= p * secondsInUse
  BY Monotonic
<1>3. p * (secondsInUse + e) = p * secondsInUse + p * e
  BY Split
<1>4. peak * secondsInUse \in Nat /\ p * secondsInUse \in Nat /\ p * e \in Nat
  BY Monotonic
<1>5. QED
  BY <1>1, <1>2, <1>3, <1>4

\* The area up to a time stamp t of the past, and from there on.
LEMMA AreaSplits ==
    ASSUME StatsTypes, Unused, NEW t \in 1..clock
    PROVE  concurrency * (clock - lastChange)
               = concurrency * Stats!Elapsed(t) + concurrency * (clock - Stats!MoveTo(t))
<1> USE DEF StatsTypes, Unused
<1>1. CASE lastChange = 0
  BY <1>1, MoveBy
<1>2. CASE lastChange # 0
  <2>1. clock - lastChange = Stats!Elapsed(t) + (clock - Stats!MoveTo(t))
    BY <1>2, MoveBy
  <2>2. clock - Stats!MoveTo(t) \in Int /\ Stats!Elapsed(t) \in Int
    BY MoveBy
  <2>3. concurrency * (Stats!Elapsed(t) + (clock - Stats!MoveTo(t)))
            = concurrency * Stats!Elapsed(t) + concurrency * (clock - Stats!MoveTo(t))
    BY <2>2, Split
  <2>4. QED
    BY <2>1, <2>3
<1>3. QED
  BY <1>1, <1>2

----------------------------------------------------------------------------
\* Nothing has come in.
LEMMA InitStatsInv == Stats!Init => StatsInv
<1> SUFFICES ASSUME Stats!Init PROVE StatsInv
  OBVIOUS
<1>1. StatsTypes
  <2>1. reported \in [area : Nat, seconds : Nat, count : Nat,
                      lastArea : Nat, lastSeconds : Nat, lastPeak : Nat]
    BY DEF Stats!Init, Stats!Report0
  <2>2. QED
    BY <2>1 DEF Stats!Init, StatsTypes
<1>2. Unused /\ Stats!LoadAccounted /\ Window /\ Stats!AverageWithinPeak
  BY DEF Stats!Init, Unused, Stats!LoadAccounted, Window, Stats!AverageWithinPeak, Stats!Report0
<1>3. QED
  BY <1>1, <1>2 DEF StatsInv

\* A change of the concurrency at the present time: ReqIn and ReqOut.
LEMMA ChangeStep ==
    ASSUME StatsInv, Stats!ReqIn \/ Stats!ReqOut
    PROVE  StatsInv'
<1> DEFINE e == Stats!Elapsed(clock)
<1>1. clock \in 1..clock /\ clock \in Nat
  BY DEF StatsInv, StatsTypes
<1>2. /\ e \in Nat /\ Stats!MoveTo(clock) = clock
      /\ lastChange # 0 => clock = lastChange + e
      /\ lastChange = 0 => e = 0
  BY <1>1, MoveBy DEF StatsInv, StatsTypes, Stats!MoveTo
<1>3. /\ lastChange' = clock /\ clock' = clock /\ tick' = tick
      /\ reported' = reported /\ area' = area
      /\ secondsInUse' = secondsInUse + e
      /\ concurrencyIntegral' = concurrencyIntegral + concurrency * e
  BY <1>2 DEF Stats!ReqIn, Stats!ReqOut, Stats!Move
<1>4. concurrency' \in Nat /\ peak' \in Nat /\ concurrency' <= peak' /\ peak <= peak'
  <2>1. CASE Stats!ReqIn
    BY <2>1 DEF Stats!ReqIn, StatsInv, StatsTypes, Window
  <2>2. CASE Stats!ReqOut
    BY <2>2 DEF Stats!ReqOut, StatsInv, StatsTypes, Window
  <2>3. QED
    BY <2>1, <2>2
<1>5. requestCount' \in Nat
  BY DEF Stats!ReqIn, Stats!ReqOut, StatsInv, StatsTypes
<1>6. firstChange' = IF lastChange = 0 THEN clock ELSE firstChange
  BY DEF Stats!ReqIn, Stats!ReqOut, StatsInv, Unused, StatsTypes
<1>7. /\ concurrency * e \in Nat
      /\ concurrencyIntegral + concurrency * e <= peak' * (secondsInUse + e)
  BY <1>2, <1>4, WindowGrows DEF StatsInv
<1>8. StatsTypes'
  <2>1. firstChange' \in Nat
    BY <1>1, <1>6 DEF StatsInv, StatsTypes
  <2>2. secondsInUse + e \in Nat /\ concurrencyIntegral + concurrency * e \in Nat
    BY <1>2, <1>7 DEF StatsInv, StatsTypes
  <2>3. clock \in 0..clock
    BY <1>1
  <2>4. QED
    BY <1>3, <1>4, <1>5, <2>1, <2>2, <2>3 DEF StatsInv, StatsTypes
<1>9. Unused'
  BY <1>3 DEF Unused, StatsInv, StatsTypes
<1>10. Window' /\ Stats!AverageWithinPeak'
  BY <1>3, <1>4, <1>7 DEF StatsInv, Window, Stats!AverageWithinPeak
<1>11. Stats!LoadAccounted'
  <2>1. concurrency * (clock - lastChange) = concurrency * e + concurrency * (clock - clock)
    BY <1>1, <1>2, AreaSplits DEF StatsInv
  <2>2. clock - clock = 0 /\ concurrency * 0 = 0 /\ concurrency' * 0 = 0
    <3>1. clock - clock = 0
      BY <1>1
    <3>2. concurrency \in Nat
      BY DEF StatsInv, StatsTypes
    <3>3. QED
      BY <1>4, <3>1, <3>2, TimesZero
  <2>3. area' = reported'.area + concurrencyIntegral' + concurrency' * (clock' - lastChange')
    <3>1. area = reported.area + concurrencyIntegral + concurrency * (clock - lastChange)
      BY DEF StatsInv, Stats!LoadAccounted
    <3>2. concurrency * (clock - lastChange) = concurrency * e
      BY <1>7, <2>1, <2>2
    <3>3. area = reported.area + (concurrencyIntegral + concurrency * e) + 0
      BY <1>7, <3>1, <3>2 DEF StatsInv, StatsTypes
    <3>4. concurrency' * (clock' - lastChange') = 0
      BY <1>3, <2>2
    <3>5. QED
      BY <1>3, <3>3, <3>4
  <2>4. reported'.seconds + secondsInUse' = lastChange' - firstChange'
    <3>1. /\ reported.seconds \in Nat /\ secondsInUse \in Nat /\ firstChange \in Nat
          /\ lastChange \in Nat
          /\ reported.seconds + secondsInUse = lastChange - firstChange
          /\ lastChange = 0 => firstChange = 0
      BY DEF StatsInv, StatsTypes, Unused, Stats!LoadAccounted
    <3>2. reported.seconds + (secondsInUse + e)
              = clock - (IF lastChange = 0 THEN clock ELSE firstChange)
      BY <1>1, <1>2, <3>1
    <3>3. QED
      BY <1>3, <1>6, <3>2
  <2>5. QED
    BY <2>3, <2>4 DEF Stats!LoadAccounted
<1>12. QED
  BY <1>8, <1>9, <1>10, <1>11 DEF StatsInv

\* A report at the time stamp of a tick, which may be older than the last
\* change.
LEMMA ReportStep ==
    ASSUME StatsInv, Stats!Report
    PROVE  StatsInv'
<1> DEFINE e == Stats!Elapsed(tick)
           a == concurrencyIntegral + concurrency * e
           s == secondsInUse + e
<1>1. tick \in 1..clock /\ lastChange # 0
  BY DEF Stats!Report, StatsInv, StatsTypes, Unused
<1>2. e \in Nat /\ Stats!MoveTo(tick) \in 1..clock /\ Stats!MoveTo(tick) = lastChange + e
  BY <1>1, MoveBy DEF StatsInv
<1>3. concurrency * e \in Nat /\ a <= peak * s
  <2>1. StatsTypes /\ Window /\ peak \in Nat /\ peak <= peak
    BY DEF StatsInv, StatsTypes
  <2>2. QED
    BY <1>2, <2>1, WindowGrows
<1>4. a \in Nat /\ s \in Nat
  BY <1>2, <1>3 DEF StatsInv, StatsTypes
<1>5. /\ lastChange' = Stats!MoveTo(tick) /\ clock' = clock /\ tick' = 0
      /\ concurrencyIntegral' = 0 /\ secondsInUse' = 0 /\ requestCount' = 0
      /\ concurrency' = concurrency /\ peak' = concurrency
      /\ area' = area /\ firstChange' = firstChange
      /\ reported' = [area |-> reported.area + a, seconds |-> reported.seconds + s,
                      count |-> reported.count + requestCount,
                      lastArea |-> a, lastSeconds |-> s, lastPeak |-> peak]
  BY DEF Stats!Report
<1> HIDE DEF e, a, s
<1>6. StatsTypes'
  <2>1. reported' \in [area : Nat, seconds : Nat, count : Nat,
                       lastArea : Nat, lastSeconds : Nat, lastPeak : Nat]
    BY <1>4, <1>5 DEF StatsInv, StatsTypes
  <2>2. lastChange' \in 0..clock /\ 0 \in 0..clock
    BY <1>2, <1>5 DEF StatsInv, StatsTypes
  <2>3. QED
    BY <1>5, <2>1, <2>2 DEF StatsInv, StatsTypes
<1>7. Unused'
  BY <1>2, <1>5 DEF Unused, StatsInv, StatsTypes
<1>8. Window'
  BY <1>5, TimesZero DEF Window, StatsInv, StatsTypes
<1>9. Stats!AverageWithinPeak'
  BY <1>3, <1>5 DEF Stats!AverageWithinPeak
<1>10. Stats!LoadAccounted'
  <2>1. concurrency * (clock - lastChange)
            = concurrency * e + concurrency * (clock - Stats!MoveTo(tick))
    BY <1>1, AreaSplits DEF StatsInv, e
  <2>2. concurrency * (clock - Stats!MoveTo(tick)) \in Int
    BY <1>2 DEF StatsInv, StatsTypes
  <2>3. area = reported.area + a + 0 + concurrency * (clock - Stats!MoveTo(tick))
    BY <1>3, <2>1, <2>2 DEF StatsInv, StatsTypes, Stats!LoadAccounted, a
  <2>4. reported.seconds + s + 0 = Stats!MoveTo(tick) - firstChange
    <3>1. /\ reported.seconds \in Nat /\ secondsInUse \in Nat /\ firstChange \in Nat
          /\ lastChange \in Nat
          /\ reported.seconds + secondsInUse = lastChange - firstChange
      BY DEF StatsInv, StatsTypes, Stats!LoadAccounted
    <3>2. QED
      BY <1>2, <3>1 DEF s
  <2>5. reported'.area = reported.area + a /\ reported'.seconds = reported.seconds + s
    BY <1>5
  <2>6. QED
    BY <1>5, <2>3, <2>4, <2>5 DEF Stats!LoadAccounted
<1>11. QED
  BY <1>6, <1>7, <1>8, <1>9, <1>10 DEF StatsInv

\* Time passes.
LEMMA TickStep ==
    ASSUME StatsInv, Stats!Tick
    PROVE  StatsInv'
<1>1. /\ clock' = clock + 1 /\ area' = area + concurrency
      /\ lastChange' = lastChange /\ concurrency' = concurrency
      /\ concurrencyIntegral' = concurrencyIntegral /\ secondsInUse' = secondsInUse
      /\ requestCount' = requestCount /\ firstChange' = firstChange /\ peak' = peak
      /\ reported' = reported
  BY DEF Stats!Tick, Stats!statVars
<1>2. tick' \in {tick, clock + 1}
  BY DEF Stats!Tick
<1>3. StatsTypes'
  BY <1>1, <1>2 DEF StatsInv, StatsTypes
<1>4. Unused'
  BY DEF Stats!Tick, Stats!statVars, StatsInv, Unused
<1>5. Window' /\ Stats!AverageWithinPeak'
  BY <1>1 DEF StatsInv, Window, Stats!AverageWithinPeak
<1>6. Stats!LoadAccounted'
  <2>1. concurrency * ((clock - lastChange) + 1)
            = concurrency * (clock - lastChange) + concurrency * 1
    BY Split DEF StatsInv, StatsTypes
  <2>2. concurrency * 1 = concurrency /\ clock + 1 - lastChange = (clock - lastChange) + 1
    BY DEF StatsInv, StatsTypes
  <2>3. concurrency * (clock - lastChange) \in Int
    BY DEF StatsInv, StatsTypes
  <2>4. area + concurrency
            = reported.area + concurrencyIntegral
                  + (concurrency * (clock - lastChange) + concurrency)
    BY <2>3 DEF StatsInv, StatsTypes, Stats!LoadAccounted
  <2>5. area' = reported'.area + concurrencyIntegral' + concurrency' * (clock' - lastChange')
    <3>1. concurrency' * (clock' - lastChange') = concurrency * ((clock - lastChange) + 1)
      <4>1. clock' - lastChange' = (clock - lastChange) + 1
        BY <1>1 DEF StatsInv, StatsTypes
      <4>2. concurrency' = concurrency
        BY <1>1
      <4>3. QED
        BY <4>1, <4>2
    <3>2. concurrency' * (clock' - lastChange') = concurrency * (clock - lastChange) + concurrency
      BY <2>1, <2>2, <3>1, Zenon
    <3>3. QED
      BY <1>1, <2>4, <3>2
  <2>6. QED
    BY <1>1, <2>5 DEF StatsInv, Stats!LoadAccounted
<1>7. QED
  BY <1>3, <1>4, <1>5, <1>6 DEF StatsInv

\* The invariant is inductive.
LEMMA NextStatsInv == StatsInv /\ [Stats!Next]_(Stats!vars) => StatsInv'
<1>1. ASSUME StatsInv, UNCHANGED Stats!vars PROVE StatsInv'
  BY <1>1 DEF Stats!vars, Stats!statVars, StatsInv, StatsTypes, Unused, Stats!LoadAccounted,
              Window, Stats!AverageWithinPeak
<1>2. QED
  BY <1>1, ChangeStep, ReportStep, TickStep DEF Stats!Next

----------------------------------------------------------------------------
(***************************************************************************)
(* However many requests there are and however late the ticks are served,  *)
(* the reports and the running sums account for all of the load.           *)
(***************************************************************************)
THEOREM LoadIsAccounted == Stats!Spec => []LoadAccounted
<1>1. StatsInv => LoadAccounted
  BY DEF StatsInv, LoadAccounted
<1>2. QED
  BY InitStatsInv, NextStatsInv, <1>1, PTL DEF Stats!Spec

(***************************************************************************)
(* The average of every report is at most the highest concurrency of its   *)
(* window.                                                                 *)
(***************************************************************************)
THEOREM AveragesAreMeans == Stats!Spec => []AverageWithinPeak
<1>1. StatsInv => AverageWithinPeak
  BY DEF StatsInv, AverageWithinPeak
<1>2. QED
  BY InitStatsInv, NextStatsInv, <1>1, PTL DEF Stats!Spec
=============================================================================
