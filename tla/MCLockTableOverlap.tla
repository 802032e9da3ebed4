------------------------- MODULE MCLockTableOverlap -------------------------
(***************************************************************************)
(* Instances of LockTableOverlap for TLC: two transactions, two or three   *)
(* keys, half-open, open and unbounded ranges.                             *)
(***************************************************************************)
EXTENDS LockTableOverlap

CONSTANTS t1, t2

TwoTxns == {t1, t2}

XOnly == {"X"}

SomeRanges == {[start |-> Included(1), end |-> Excluded(2)],
               [start |-> Excluded(1), end |-> Unbounded]}

Starts     == [t \in Txns |-> IF t = t1 THEN 1 ELSE 2]
Priorities == [t \in Txns |-> 0]
=============================================================================
