SPECIFICATION FairSpec
CONSTANTS
    t1 = t1
    t2 = t2
    Targets = {t1, t2}
    Invocations <- MCInvocations
    PerSender = 1
    NoSummary = NoSummary
INVARIANTS
    NoResponseDropped
    NoSendOnClosed
PROPERTIES
    ReplayEnds
    ImplementsService
\* The process ends.
CHECK_DEADLOCK FALSE
