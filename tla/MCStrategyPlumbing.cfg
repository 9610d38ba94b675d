SPECIFICATION FairSpec
CONSTANTS
    Configs <- PlumbingConfigs
    CancelAllRaises = TRUE
    Faults = {"no_instrument"}
    MaxIntents = 3
INVARIANTS PositionMirrored
PROPERTIES WaitsEnd
