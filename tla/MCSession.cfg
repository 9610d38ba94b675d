SPECIFICATION Spec
CONSTANTS
    TicksPerMinute = 3
    DayLength = 21
    CloseTick = 14
    BlackoutMinutes = 2
    MaxQuoteAge = 1
    Latency = 2
    Skew = 1
    ApprovalDelay = 1
    Configs <- Config
INVARIANT SessionInv
PROPERTIES EntryMargin BlackoutRespected
