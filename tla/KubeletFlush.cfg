SPECIFICATION MCSpec
CONSTANTS
    Managed = {m1}
    Native = {}
    Nodes <- MCNodes
    ThisNode <- MCThisNode
    NodeOf <- MCNodeOf
    OnOther = {m1}
    NWorkers = 1
    Patch = TRUE
    MaxBinds = 1
    MaxRestarts = 0
    MaxNodeDeletes = 0
    MaxLag = 2
    MaxTouched = 1
    TemplateMayGo = FALSE
    ForcedRemoval = {}
    MaxDisturbances = 0
INVARIANTS
    InMemOnlyDuringCreation
\* The kubelet rests when nothing happens to its pods.
CHECK_DEADLOCK FALSE
