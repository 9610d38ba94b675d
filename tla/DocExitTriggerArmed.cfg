SPECIFICATION Spec
CONSTANTS
    Configs <- Plumbing
    CancelAllRaises = TRUE
    Faults = {}
    MaxIntents = 2
INVARIANT ExitTriggerArmed
