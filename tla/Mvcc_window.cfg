\* A transaction that begins inside another one's commit.
CONSTANTS
    Txns = {t1, t2}
    Keys = {a}
    Levels = {"Serializable"}
    hash_key <- DistinctHashes
    Clock = {1}
    FirstMs = 1
    LogicalSpan = 4
    Logicals = {0, 1, 2, 3}
    MaxOps = 2
SYMMETRY Symmetry
SPECIFICATION Spec
INVARIANT SerializableIfOrdered
