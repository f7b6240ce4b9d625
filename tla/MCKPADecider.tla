---------------------------- MODULE MCKPADecider ----------------------------
(***************************************************************************)
(* Instances of KPADecider and of the statistics it reads, one of them at  *)
(* a time.  The decider sees loads that follow and loads that precede the  *)
(* stable window, with rates of 3 up and 2 down and a threshold of 200%.   *)
(***************************************************************************)
EXTENDS KPADecider

CONSTANTS StatsMaxTime, MaxRequests

VARIABLES
    deciding,           \* the decider runs, not the statistics
    clock, tick, collecting,
    concurrency, concurrencyIntegral, requestCount, lastChange, secondsInUse,
    arrived, area, firstChange, peak, reported

Stats == INSTANCE RequestStats WITH now <- clock, MaxTime <- StatsMaxTime

statsVars == <<clock, tick, collecting, concurrency, concurrencyIntegral, requestCount,
               lastChange, secondsInUse, arrived, area, firstChange, peak, reported>>

MCInit == deciding \in BOOLEAN /\ Init /\ Stats!Init
MCNext ==
    /\ UNCHANGED deciding
    /\ \/ deciding /\ Next /\ UNCHANGED statsVars
       \/ ~deciding /\ Stats!Next /\ UNCHANGED vars
MCSpec == MCInit /\ [][MCNext]_<<deciding, vars, statsVars>>

\* Nothing the collector reports is counted twice or skipped (RequestStats).
LoadAccounted == Stats!LoadAccounted

\* No report's average is above the highest concurrency of its window
\* (RequestStats).
AverageWithinPeak == Stats!AverageWithinPeak

MCUp == <<3, 1>>
MCDown == <<2, 1>>
MCThreshold == <<2, 1>>
MCObservations ==
    {[stable |-> s, panic |-> p, instant |-> i] : s \in {0, 5}, p \in {0, 3, 15}, i \in {0, 1}}
=============================================================================
