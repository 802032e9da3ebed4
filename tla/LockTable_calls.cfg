\* Two transactions, two keys, a range, escalation, under fairness.
CONSTANTS
    t1 = t1
    t2 = t2
    Txns <- TwoTxns
    Keys = {1, 2}
    Modes <- SX
    Ranges <- OneKeyRanges
    enable_range_locks = TRUE
    StartTs <- SameStarts
    Priority <- Priorities
    warning_threshold = 1
    auto_escalate_threshold = 2
    emergency_threshold = 9
    MaxCalls = 2
SPECIFICATION FairSpec
INVARIANTS
    TypeOK
    ThreadState
    GrantImpliesHeld
    HoldersCompatible
    NoLostWakeup
    EdgesOnlyWhileBlocked
PROPERTIES
    CallsReturn
    ImplementsKeyLocks
