\* Two threads, single records and pairs, segments of two records of which one
\* besides the current one stays, two crashes or closes.  The mode NoSync is a
\* group that is never full.
CONSTANTS
    Threads = {t1, t2}
    Modes = {"Sync", "GroupSync"}
    BatchLens = {1, 2}
    segment_size = 2
    min_segments_to_keep = 1
    group_commit_size = 2
    MaxRecords = 5
    MaxCrashes = 2
SYMMETRY Symmetry
SPECIFICATION Spec
INVARIANTS
    TypeOK
    PitrIsComplete
    RecentIsRecovered
    LossIsBounded
    SegmentsBounded
    ArchiveIsOld
PROPERTY SyncedPartKept
