------------------------------- MODULE MCMvcc -------------------------------
(***************************************************************************)
(* Instances of Mvcc for TLC.  Transactions and keys are model values.     *)
(***************************************************************************)
EXTENDS Mvcc, TLC

\* No two keys have the same hash.
DistinctHashes == [k \in Keys |-> k]

Symmetry == Permutations(Txns) \cup Permutations(Keys)
=============================================================================
