SPECIFICATION MCSpec
CONSTANTS
    TargetValue = 2
    MaxScaleUpRate <- MCUp
    MaxScaleDownRate <- MCDown
    PanicThreshold <- MCThreshold
    StableWindow = 2
    ScaleDownDelay = 2
    MaxReady = 2
    Observations <- MCObservations
    MaxTime = 5
    StatsMaxTime = 7
    MaxRequests = 3
INVARIANTS
    WakesFromZero
    NeverAboveLimit
    SurgeIsHeld
    LoadAccounted
    AverageWithinPeak
\* The clocks end at their bounds.
CHECK_DEADLOCK FALSE
