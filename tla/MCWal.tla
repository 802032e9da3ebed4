------------------------------- MODULE MCWal --------------------------------
(***************************************************************************)
(* Wal for TLC: the threads are alike.                                     *)
(***************************************************************************)
EXTENDS Wal

Symmetry == Permutations(Threads)
=============================================================================
