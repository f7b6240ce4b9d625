SPECIFICATION MCFairSpec
CONSTANTS
    Managed = {m1}
    Native = {k1}
    Nodes <- MCNodes
    ThisNode <- MCThisNode
    NodeOf <- MCNodeOf
    OnOther = {m1, k1}
    NWorkers = 1
    Patch = TRUE
    MaxBinds = 1
    MaxRestarts = 1
    MaxNodeDeletes = 1
    MaxLag = 2
    MaxTouched = 1
    TemplateMayGo = TRUE
    ForcedRemoval = {m1}
    MaxDisturbances = 1
INVARIANTS
    NoForgottenPod
    InMemIsTransient
    TimersCleared
    ExposeFindsClient
PROPERTIES
    OnlyRequestedDeletions
    
    BoundPodLeavesPending
    DeletionCompletes
\* The kubelet rests when nothing happens to its pods.
CHECK_DEADLOCK FALSE
