SPECIFICATION FairSpec
CONSTANTS
    Skeletons = {s1, s2}
    Prices = {495, 505, 509, 520}
    Unit = 10
    Per = 100
    Trend = 5
    Chop = 1
    Pin = 1
    Window = 3
    MinSample = 2
    Blocked = {"PIN_RISK"}
    RequireChain = FALSE
    NoPrice = NoPrice
    MaxFaults = 1
INVARIANTS
    SubscribersCurrent
    UnknownIsCheap
PROPERTIES
    FirstTagCoarse
    OneVerdict
    EveryoneEvaluates
