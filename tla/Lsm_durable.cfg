\* sync(), then a crash or a close, then a reopen.
CONSTANTS
    Keys = {1, 2}
    BlockLen = 2
    Batches <- NoBatches
    MemtableLimit = 2
    MaxPending = 1
    MaxWrites = 4
    MaxSsts = 3
    MaxCrashes = 1
SPECIFICATION Spec
INVARIANT SyncedIsRecovered
