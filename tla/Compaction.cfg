\* Compaction starts at one table.
CONSTANTS
    Keys = {"a", "b"}
    FlushedKeys <- ThreeFlushes
    Trigger = 1
    MaxFlushes = 3
    MaxCrashes = 1
    MaxId = 6
SPECIFICATION FairSpec
INVARIANTS
    ReadsStayFresh
    LevelOneSingle
    KeysStayListed
PROPERTIES
    TakenUpOrPanicked
    DropReturns
