SPECIFICATION Spec
CONSTANTS
    Configs <- LiveAlone
    CancelAllRaises = TRUE
    Faults = {}
    MaxIntents = 2
INVARIANT FlatMeansNoPosition
