SPECIFICATION MCFairSpec
CONSTANTS
    Keys = {k1}
    Workers = {w1, w2}
    NoKey = NoKey
    Async = FALSE
    MaxScale = 2
    MaxRequests = 1
    MaxPending = 1
    MaxErrors = 1
    OneTimeKeys = {k1, k2}
    InitialScale = 1
    StartScales = {0, 1, 2}
INVARIANTS
    OneScalePerTarget
PROPERTIES
    AppliesCurrentDecision
    StrandedRequestsWake
    ReplicasFollowDecision
    FirstRequestScales
\* The process stops when it panics, and a one-time autoscaler when all of its
\* targets are scaled.
CHECK_DEADLOCK FALSE
