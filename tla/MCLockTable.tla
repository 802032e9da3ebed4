---------------------------- MODULE MCLockTable -----------------------------
(***************************************************************************)
(* Instances of LockTable for TLC.                                         *)
(***************************************************************************)
EXTENDS LockTable

CONSTANTS t1, t2

TwoTxns == {t1, t2}

SX    == {"S", "X"}
XOnly == {"X"}

OneKeyRanges == {[start |-> Included(1), end |-> Unbounded]}
SomeRanges == {[start |-> Included(1), end |-> Excluded(2)],
               [start |-> Excluded(1), end |-> Unbounded]}

\* All transactions have the same priority, as LockManager::register_txn gives it.
Starts     == [t \in Txns |-> IF t = t1 THEN 1 ELSE 2]
SameStarts == [t \in Txns |-> 1]
Priorities == [t \in Txns |-> 0]
=============================================================================
