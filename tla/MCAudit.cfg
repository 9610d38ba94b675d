SPECIFICATION Spec
CONSTANTS
    FaultSets <- OneFault
    MaxIntents = 2
    MaxStarts = 2
INVARIANTS
    AuditInv
    JournalReplays
    Attributed
CHECK_DEADLOCK FALSE
