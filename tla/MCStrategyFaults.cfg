\* Every fault; the cancel call of flatten_positions returns, so the exit that
\* follows it is exercised too.
SPECIFICATION Spec
CONSTANTS
    Configs <- LiveConfigs
    CancelAllRaises = FALSE
    Faults = {"partial_fill", "cancelled", "child_refused", "exit_refused", "no_instrument", "submission_raises", "pipeline_raises", "restart"}
    MaxIntents = 2
INVARIANTS StrategyInv IntentBookkeeping SubmissionsOrdered DryRunSendsNothing
PROPERTIES FirstVerdictWins DirectEntryInSession ImplementsIntentLife
