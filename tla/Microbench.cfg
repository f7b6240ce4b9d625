SPECIFICATION FairSpec
CONSTANTS
    Targets = {t1, t2}
    OneTarget = t1
    NPods = 3
    MaxFailures = 1
    MaxErrors = 2
    NoPod = NoPod
    BoundPods = {p1, p2}
    Others = {o1}
INVARIANTS
    ReportsAreHonest
    CountsEachPodOnce
PROPERTIES
    EndsUnlessRequestFails
    CancelEnds
\* run returns, or waits for ever after a request that failed.
CHECK_DEADLOCK FALSE
