---------------------------- MODULE RequestStats ----------------------------
(***************************************************************************)
(* The concurrency statistics of one target (pkg/autoscaler/metric): the   *)
(* gateway's relay reports requests coming in and going out, the collector *)
(* takes a report whenever its ticker fires.                               *)
(*                                                                         *)
(* ReqIn and ReqOut read the clock under the lock.  A report uses the time *)
(* stamp its tick was given when it was put into the ticker's one-element  *)
(* channel, which may be older than the last request seen.  Time is        *)
(* counted in units of the clock; 0 is Go's zero time.                     *)
(***************************************************************************)
EXTENDS Integers

CONSTANTS
    MaxTime,            \* bound: the clock
    MaxRequests         \* bound: requests coming in

VARIABLES
    now,                \* the clock
    tick,               \* the time stamp in ticker.C, 0 if it is empty
    collecting,         \* Collector.Run was started
    concurrency, concurrencyIntegral, requestCount, lastChange, secondsInUse,
    \* What really happened, and what the reports said of it.
    arrived,            \* requests that came in
    area,               \* the integral of the number of requests over time
    firstChange,        \* when the first request came in
    peak,               \* the highest concurrency since the last report
    reported            \* the sums over all reports, and the last one

statVars == <<concurrency, concurrencyIntegral, requestCount, lastChange, secondsInUse>>
vars == <<now, tick, collecting, statVars, arrived, area, firstChange, peak, reported>>

Report0 == [area |-> 0, seconds |-> 0, count |-> 0, lastArea |-> 0, lastSeconds |-> 0, lastPeak |-> 0]

TypeOK ==
    /\ now \in 1..MaxTime
    /\ tick \in 0..now
    /\ collecting \in BOOLEAN
    /\ concurrency \in 0..MaxRequests
    /\ concurrencyIntegral \in Nat
    /\ requestCount \in 0..MaxRequests
    /\ lastChange \in 0..now
    /\ secondsInUse \in Nat
    /\ arrived \in 0..MaxRequests
    /\ area \in Nat
    /\ firstChange \in 0..now
    /\ peak \in 0..MaxRequests
    /\ reported \in [{"area", "seconds", "count", "lastArea", "lastSeconds", "lastPeak"} -> Nat]

Init ==
    /\ now = 1
    /\ tick = 0
    /\ collecting = FALSE
    /\ concurrency = 0
    /\ concurrencyIntegral = 0
    /\ requestCount = 0
    /\ lastChange = 0
    /\ secondsInUse = 0
    /\ arrived = 0
    /\ area = 0
    /\ firstChange = 0
    /\ peak = 0
    /\ reported = Report0

----------------------------------------------------------------------------
MoveBackToo(t) == IF lastChange = 0 THEN 0 ELSE t - lastChange

\* Move(t): the time that passed since the last change; none if there was no
\* change before, or if t is not later.
Elapsed(t) == IF lastChange = 0 \/ t <= lastChange THEN 0 ELSE t - lastChange
MoveTo(t) == IF lastChange = 0 \/ t > lastChange THEN t ELSE lastChange

Move(t) ==
    /\ lastChange' = MoveTo(t)
    /\ secondsInUse' = secondsInUse + Elapsed(t)
    /\ concurrencyIntegral' = concurrencyIntegral + concurrency * Elapsed(t)

\* ReqIn; the first one activates the decider, which starts the collector.
ReqIn ==
    /\ arrived < MaxRequests
    /\ Move(now)
    /\ concurrency' = concurrency + 1
    /\ requestCount' = requestCount + 1
    /\ collecting' = TRUE
    /\ arrived' = arrived + 1
    /\ firstChange' = IF lastChange = 0 THEN now ELSE firstChange
    /\ peak' = IF concurrency + 1 > peak THEN concurrency + 1 ELSE peak
    /\ UNCHANGED <<now, tick, area, reported>>

\* ReqOut of a request that came in.
ReqOut ==
    /\ arrived > 0 /\ concurrency > 0
    /\ Move(now)
    /\ concurrency' = concurrency - 1
    /\ UNCHANGED <<now, tick, collecting, requestCount, arrived, area, firstChange, peak, reported>>

ReportWithoutReset ==
    /\ tick # 0
    /\ Move(tick)
    /\ tick' = 0
    /\ requestCount' = 0
    /\ peak' = concurrency
    /\ reported' =
          [area |-> reported.area + concurrencyIntegral',
           seconds |-> reported.seconds + secondsInUse',
           count |-> reported.count + requestCount,
           lastArea |-> concurrencyIntegral',
           lastSeconds |-> secondsInUse',
           lastPeak |-> peak]
    /\ UNCHANGED <<now, collecting, concurrency, arrived, area, firstChange>>

\* collect: Report moves to the time stamp of the tick, builds the report
\* (its average is area / seconds) and resets.
Report ==
    /\ tick # 0
    /\ lastChange' = MoveTo(tick)
    /\ tick' = 0
    /\ concurrencyIntegral' = 0
    /\ requestCount' = 0
    /\ secondsInUse' = 0
    /\ peak' = concurrency
    /\ LET a == concurrencyIntegral + concurrency * Elapsed(tick)
           s == secondsInUse + Elapsed(tick)
       IN  reported' =
              [area |-> reported.area + a, seconds |-> reported.seconds + s,
               count |-> reported.count + requestCount,
               lastArea |-> a, lastSeconds |-> s, lastPeak |-> peak]
    /\ UNCHANGED <<now, collecting, concurrency, arrived, area, firstChange>>

\* Time passes; the collector's ticker may fire, and drops the tick if the
\* last one has not been received.
Tick ==
    /\ now < MaxTime
    /\ now' = now + 1
    /\ area' = area + concurrency
    /\ \/ UNCHANGED tick
       \/ collecting /\ tick = 0 /\ tick' = now + 1
    /\ UNCHANGED <<collecting, statVars, arrived, firstChange, peak, reported>>

Next == ReqIn \/ ReqOut \/ Report \/ Tick

Spec == Init /\ [][Next]_vars

----------------------------------------------------------------------------
(***************************************************************************)
(* Nothing is reported twice or skipped, however late the ticks are        *)
(* served.  The request-seconds of all reports and of the running sum,     *)
(* with those since the last change, are the integral of the concurrency;  *)
(* the seconds in use of all reports and of the running window are the     *)
(* time from the first request to the last change.                         *)
(***************************************************************************)
LoadAccounted ==
    /\ area = reported.area + concurrencyIntegral + concurrency * (now - lastChange)
    /\ reported.seconds + secondsInUse = lastChange - firstChange

(***************************************************************************)
(* The average of a report is a mean of concurrencies of its window: it is *)
(* never above the highest of them, so that one report cannot by itself    *)
(* push the autoscaler above the real load.                                *)
(***************************************************************************)
AverageWithinPeak == reported.lastArea <= reported.lastPeak * reported.lastSeconds
=============================================================================
