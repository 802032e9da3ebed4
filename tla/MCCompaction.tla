---------------------------- MODULE MCCompaction ----------------------------
(***************************************************************************)
(* Instances of Compaction for TLC.                                        *)
(***************************************************************************)
EXTENDS Compaction

\* The first memtable holds both keys, the others either.
ThreeFlushes == <<{{"a", "b"}}, {{"a"}, {"b"}}, {{"a"}, {"b"}}>>
=============================================================================
