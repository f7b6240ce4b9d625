SPECIFICATION MCFairSpec
CONSTANTS
    Keys = {k1, k2}
    Requests = {r1, r2}
    Concurrency = 1
    MaxReady = 1
    MaxListErrors = 1
    Calls = {c1, c2, c3}
    PoolSize = 1
    MaxClients = 3
INVARIANTS
    TypeOK
    NoLostCapacity
    TokenBound
    EndpointsFollowPods
    SlotsConserved
PROPERTIES
    EveryRequestAnswered
    EveryCallReturns
\* Pods stop changing and requests stop coming once their bounds are reached,
\* or Run has returned.
CHECK_DEADLOCK FALSE
