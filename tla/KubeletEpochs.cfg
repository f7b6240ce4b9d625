SPECIFICATION MCFairSpec
CONSTANTS
    Pods = {p1, p2}
    Epochs = {e1, e2}
    NoEpoch = NoEpoch
    k1 = k1
    k2 = k2
    o1 = o1
    NoAddr = NoAddr
    NoIP = NoIP
    MaxStarts = 3
    MaxScripts = 2
    MaxStatus = 1
INVARIANTS
    UpstreamKnowsCache
PROPERTIES
    ClaimsSettle
\* Starts, scripts and calls end at their bounds.
CHECK_DEADLOCK FALSE
