\* Two writers at a time: puts, deletes and a batch, rotations, two crashes or closes.
CONSTANTS
    Keys = {1, 2}
    Batches <- OneBatch
    BlockLen = 2
    MemtableLimit = 2
    MaxPending = 2
    MaxWrites = 3
    MaxSsts = 3
    MaxCrashes = 2
SPECIFICATION Spec
INVARIANTS
    SessionReadsFresh
    ManifestAgrees
    SafeStaysOnDisk
    ScansAreComplete
    ScanAgreesWithGet
    SnapshotAgreesWithGet
