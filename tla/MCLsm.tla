-------------------------------- MODULE MCLsm -------------------------------
(***************************************************************************)
(* Instances of Lsm for TLC.                                               *)
(***************************************************************************)
EXTENDS LsmScan

NoBatches == {}

\* A delete and, in the end, a put of the same key, with another key between.
OneBatch == {<<Op(1, FALSE), Op(2, TRUE), Op(1, TRUE)>>}
=============================================================================
