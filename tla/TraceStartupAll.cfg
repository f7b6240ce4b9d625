SPECIFICATION Spec
CONSTANTS
    Keys = {1, 2}
    PerSender = 2
    Inputs <- MCAllInputs
INVARIANTS
    CompleteSetupStarts
    WorkersReplayTrace
\* The start ends.
CHECK_DEADLOCK FALSE
