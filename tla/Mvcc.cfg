\* Serializable and deferrable transactions, two operations each, and timestamps
\* that tie, ascend or descend: two logical parts of one millisecond, in any order.
CONSTANTS
    Txns = {t1, t2}
    Keys = {a, b}
    Levels = {"Serializable", "SerializableDeferrable"}
    hash_key <- DistinctHashes
    Clock = {1}
    FirstMs = 1
    LogicalSpan = 4
    Logicals = {0, 1}
    MaxOps = 2
SYMMETRY Symmetry
SPECIFICATION Spec
INVARIANTS
    TypeOK
    SerializableButForRaces
    NoCircularInformationFlow
    NoAbortedReads
    CutShortStaysOnTop
    ActiveWritersExact
