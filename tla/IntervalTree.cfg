\* Two owners, every range with ends in two keys, of which the second is the one
\* that stands for an unbounded end; three range locks at once.
CONSTANTS
    Txns = {t1, t2}
    Keys = {1, 2}
    MaxKey = 2
    EntryRanges <- AllRanges
    MaxNodes = 3
SYMMETRY Perms
SPECIFICATION Spec
INVARIANT SearchIsExact
