SPECIFICATION Spec
CONSTANTS
    Configs <- MCConfigs
    Slices <- MCSlices
    Ticks <- MCTicks
    NoQuote = NoQuote
    Bps = 100
    Wide = 50
    PlumbingEdge = 10
INVARIANTS SelectionInv PaysBelowPayoff BetterPriceKeepsEntry RejectedWhere
\* A behaviour is one evaluation.
CHECK_DEADLOCK FALSE
