------------------------------ MODULE KeyLocks ------------------------------
(***************************************************************************)
(* What the key locks of a LockTable promise, with no queue, no condition  *)
(* variable and no wait-for graph: a transaction gets a mode on a key only *)
(* when no other holder shuts it out, the mode it has only ever grows, and *)
(* it keeps the key until it gives it up.  LockTable implements this.      *)
(***************************************************************************)
EXTENDS LockMode

CONSTANTS Txns, Keys

VARIABLE held       \* held[k][t]: the mode in which t holds k, or None

Init == held = [k \in Keys |-> [t \in Txns |-> None]]

\* t gets k in mode m, from nothing or from a mode m strengthens.
Grant(t, k, m) ==
    /\ held[k][t] = None \/ can_upgrade_to(held[k][t], m)
    /\ \A u \in Txns \ {t} : held[k][u] # None => is_compatible(m, held[k][u])
    /\ held' = [held EXCEPT ![k][t] = m]

Drop(t, k) ==
    /\ held[k][t] # None
    /\ held' = [held EXCEPT ![k][t] = None]

Next == \E t \in Txns, k \in Keys : Drop(t, k) \/ \E m \in LockModes : Grant(t, k, m)

Spec == Init /\ [][Next]_held

\* No two holders of a key shut each other out.
Exclusion ==
    \A k \in Keys : \A t, u \in Txns :
        (t # u /\ held[k][t] # None /\ held[k][u] # None)
            => is_compatible(held[k][t], held[k][u])
=============================================================================
