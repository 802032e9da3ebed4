\* One exclusive request each, key or range, at the same time.
CONSTANTS
    t1 = t1
    t2 = t2
    Txns <- TwoTxns
    Keys = {1, 2}
    Modes <- XOnly
    Ranges <- SomeRanges
    enable_range_locks = TRUE
    StartTs <- Starts
    Priority <- Priorities
    warning_threshold = 1
    auto_escalate_threshold = 9
    emergency_threshold = 9
    MaxCalls = 1
SPECIFICATION Spec
INVARIANT RangeExclusion
