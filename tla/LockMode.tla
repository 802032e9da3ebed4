------------------------------ MODULE LockMode ------------------------------
(***************************************************************************)
(* The five lock modes of crabstash-lock and their two relations           *)
(* (crates/crabstash-lock/src/lock_mode.rs).                               *)
(***************************************************************************)

LockModes == {"S", "X", "IS", "IX", "SIX"}

\* No mode at all: the transaction has no entry in a holders map.
None == "none"

\* LockMode::is_compatible: the pairs of its matches!, as a relation.
CompatiblePairs ==
    { <<"IS", "IS">>, <<"IS", "IX">>, <<"IS", "S">>, <<"IS", "SIX">>,
      <<"IX", "IS">>, <<"IX", "IX">>, <<"S", "IS">>, <<"S", "S">>,
      <<"SIX", "IS">> }

is_compatible(m, n) == <<m, n>> \in CompatiblePairs

\* LockMode::can_upgrade_to: from the first mode to the second.
UpgradePairs ==
    { <<"S", "X">>, <<"S", "SIX">>, <<"IS", "IX">>, <<"IS", "S">>,
      <<"IS", "X">>, <<"IS", "SIX">>, <<"IX", "X">>, <<"IX", "SIX">> }

can_upgrade_to(m, n) == <<m, n>> \in UpgradePairs

(***************************************************************************)
(* What a mode is worth to its holder: m covers n when m shuts out         *)
(* everything n shuts out.  No function of the code; it is how the         *)
(* properties compare the mode a caller was promised with the mode held.   *)
(***************************************************************************)
Covers(m, n) ==
    /\ m \in LockModes
    /\ \A o \in LockModes : is_compatible(o, m) => is_compatible(o, n)
=============================================================================
