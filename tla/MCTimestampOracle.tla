------------------------- MODULE MCTimestampOracle --------------------------
(***************************************************************************)
(* TimestampOracle for TLC: the threads are alike.                         *)
(***************************************************************************)
EXTENDS TimestampOracle, TLC

Symmetry == Permutations(Threads)
=============================================================================
