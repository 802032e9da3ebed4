---------------------------- MODULE WaitForGraph ----------------------------
(***************************************************************************)
(* The wait-for graph of crates/crabstash-lock/src/deadlock.rs as pure     *)
(* operators: a graph E maps each transaction of T to the transactions it  *)
(* waits for.  An absent entry of the code's HashMap is an empty set.      *)
(*                                                                         *)
(* What detect_deadlock searches for is stated here by definition, the     *)
(* strongly connected components; Tarjan.tla checks the depth-first search *)
(* of the code against it.                                                 *)
(***************************************************************************)
EXTENDS Integers, FiniteSets

\* WaitForGraph::add_wait_edge for every holder of a snapshot.
AddWaitEdges(E, waiter, hs) == [E EXCEPT ![waiter] = @ \cup (hs \ {waiter})]

\* WaitForGraph::remove_wait_edge for every holder of a snapshot.
RemoveWaitEdges(E, waiter, hs) == [E EXCEPT ![waiter] = @ \ hs]

\* WaitForGraph::unregister_txn: the node goes, with the edges into it.
DropTxn(E, txn) == [u \in DOMAIN E |-> IF u = txn THEN {} ELSE E[u] \ {txn}]

\* b is in every set that holds a's successors and is closed under E.
Reaches(E, a, b) ==
    \A C \in SUBSET DOMAIN E :
        (E[a] \subseteq C /\ \A u \in C : E[u] \subseteq C) => b \in C

\* The strongly connected component of a.
Scc(E, a) == {a} \cup {b \in DOMAIN E : Reaches(E, a, b) /\ Reaches(E, b, a)}

\* The components detect_deadlock reports: those of more than one member.
Deadlocks(E) == {C \in {Scc(E, a) : a \in DOMAIN E} : Cardinality(C) > 1}

(***************************************************************************)
(* WaitForGraph::select_victims.  The sort puts the largest priority       *)
(* number first, then the youngest start, then the fewest locks; equal     *)
(* candidates keep the order of the component, which is arbitrary.  A      *)
(* transaction without a TxnInfo is no candidate; with no candidate at all *)
(* the first member of the component is taken.                             *)
(***************************************************************************)
SortsBefore(a, b, priority, start_ts, lock_count) ==
    \/ priority[a] > priority[b]
    \/ priority[a] = priority[b] /\ start_ts[a] > start_ts[b]
    \/ /\ priority[a] = priority[b]
       /\ start_ts[a] = start_ts[b]
       /\ lock_count[a] < lock_count[b]

select_victims(C, known, priority, start_ts, lock_count) ==
    LET candidates == C \cap known
    IN  IF candidates = {} THEN C
        ELSE {v \in candidates :
                \A u \in candidates : ~SortsBefore(u, v, priority, start_ts, lock_count)}
=============================================================================
