\* Three threads, four calls, a clock that may be set back; the logical part
\* wraps at two.
CONSTANTS
    Threads = {t1, t2, t3}
    Clock = {0, 1, 2}
    LogicalSpan = 2
    MaxCalls = 4
SYMMETRY Symmetry
SPECIFICATION Spec
INVARIANT OrderedAcrossMilliseconds
PROPERTY ImplementsTimestamps
