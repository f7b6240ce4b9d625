SPECIFICATION MCSpec
CONSTANTS
    Keys = {k1, k2}
    Requests = {r1, r2}
    Concurrency = 1
    MaxReady = 2
    MaxListErrors = 0
    Calls = {c1, c2, c3}
    PoolSize = 1
    MaxClients = 3
INVARIANTS
    ServiceConcurrency

\* Pods stop changing and requests stop coming once their bounds are reached.
CHECK_DEADLOCK FALSE
