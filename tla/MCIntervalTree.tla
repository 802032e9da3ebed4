--------------------------- MODULE MCIntervalTree ---------------------------
(***************************************************************************)
(* IntervalTree with every range over two keys, up to three at once.       *)
(***************************************************************************)
EXTENDS IntervalTree, TLC

Perms == Permutations(Txns)
AllRanges == KeyRanges(Keys)
=============================================================================
