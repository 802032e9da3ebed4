------------------------------ MODULE MCTarjan ------------------------------
(***************************************************************************)
(* Tarjan on every wait-for graph of a few transactions.                   *)
(***************************************************************************)
EXTENDS Tarjan, TLC

Perms == Permutations(V)
=============================================================================
