\* Range locks, key locks and escalation, exclusive requests.
CONSTANTS
    t1 = t1
    t2 = t2
    Txns <- TwoTxns
    Keys = {1, 2, 3}
    Modes <- XOnly
    Ranges <- SomeRanges
    enable_range_locks = TRUE
    StartTs <- Starts
    Priority <- Priorities
    warning_threshold = 1
    auto_escalate_threshold = 2
    emergency_threshold = 3
    MaxCalls = 3
SPECIFICATION OSpec
INVARIANTS
    SequentialCallsExclude
    DoneLeavesNothing
    DeadlocksAreReal
