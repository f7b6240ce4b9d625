SPECIFICATION Spec
CONSTANTS
    Keys = {1, 2}
    PerSender = 2
    Inputs <- MCDefaultInputs
INVARIANTS
    OneTimeNeedsNoConfig
CHECK_DEADLOCK FALSE
