-------------------------- MODULE LockTableOverlap --------------------------
(***************************************************************************)
(* LockTable with a history variable: the pairs of transactions that were  *)
(* ever inside a call at the same moment.  lock_key and lock_range check   *)
(* one structure, let go of it and then insert into the other, so two      *)
(* conflicting requests that overlap in time can both succeed; this module *)
(* asks whether requests that do not overlap always exclude each other, as *)
(* the tests, which make their calls one after the other, take for         *)
(* granted.                                                                *)
(***************************************************************************)
EXTENDS LockTable

VARIABLE overlapped

InCall(t) == pc[t] \notin {"new", "idle", "done"}

OInit == Init /\ overlapped = {}

ONext ==
    /\ Next
    /\ overlapped' = overlapped \cup
           {p \in SUBSET Txns : Cardinality(p) = 2 /\ \A t \in p : InCall(t)'}

OSpec == OInit /\ [][ONext]_<<vars, overlapped>>

\* t and u hold locks of which one is a range lock and which exclude each other.
RangeConflict(t, u) ==
    \E e \in range_locks : e.txn = t /\
        \/ \E f \in range_locks :
              /\ f.txn = u
              /\ overlaps(e.range, f.range.start, f.range.end)
              /\ ~is_compatible(e.mode, f.mode)
        \/ \E k \in HeldKeys(u) : contains_key(e.range, k) /\ ~is_compatible(holders[k][u], e.mode)

\* Transactions whose calls never overlapped never hold a range lock against
\* each other's locks: the later of the two requests was refused, or lock
\* escalation did without its range.
SequentialCallsExclude ==
    \A t, u \in Txns : (t # u /\ RangeConflict(t, u)) => {t, u} \in overlapped
=============================================================================
