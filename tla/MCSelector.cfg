SPECIFICATION FairSpec
CONSTANTS
    Strategies = {s1, s2, s3}
    NoIntent = NoIntent
    Instruments = {x, y}
    Edges = {1, 2}
    TopN = 2
    MaxPerInstrument = 1
    MaxPerStrategyPct = 50
    BatchInterval = 1
    Faults = {"finalize_raises"}
INVARIANTS SelectorInv VerdictAge BatchOptimal
PROPERTIES EveryoneAnswered ImplementsApproval
\* A stopped node stays stopped.
CHECK_DEADLOCK FALSE
