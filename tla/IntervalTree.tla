---------------------------- MODULE IntervalTree ----------------------------
(***************************************************************************)
(* The interval tree of crates/crabstash-lock/src/range_lock.rs: a binary  *)
(* search tree by range start, kept in a vector of nodes, in which each    *)
(* node carries the greatest range end of its subtree so that a search can *)
(* skip it.  LockTable uses the tree as a set of range locks; here the     *)
(* pruned search is compared with that set.                                *)
(***************************************************************************)
EXTENDS Integers, Sequences, KeyBounds

CONSTANTS
    Txns,           \* owners of range locks
    Keys,           \* the keys range ends are made of
    MaxKey,         \* [0xFF; 256], which stands for an unbounded end
    EntryRanges,    \* the ranges inserted
    MaxNodes        \* bound: range locks in the tree at once

\* Keys may be MaxKey and above: nothing limits their length.
ASSUME TreeAssumption ==
    /\ Keys \subseteq Nat /\ MaxKey \in Nat
    /\ EntryRanges \subseteq KeyRanges(Keys)
    /\ MaxNodes \in Nat

VARIABLES
    nodes,          \* the vector of nodes; the root is the first
    locked          \* history: the range locks in force

\* Indices are one higher than in the code; 0 is None.
Nil == 0

bound_to_bytes(b) == IF IsBounded(b) THEN b.key ELSE MaxKey

\* IntervalTree::compare_starts(a, b) = Ordering::Less.
StartsBefore(a, b) ==
    \/ ~IsBounded(a) /\ IsBounded(b)
    \/ /\ IsBounded(a) /\ IsBounded(b)
       /\ IF a.kind = "Included" /\ b.kind = "Excluded" THEN a.key <= b.key ELSE a.key < b.key

\* max_end lies before a range that starts at start.
bound_less_than(max_end, start) ==
    /\ IsBounded(start)
    /\ IF start.kind = "Included" THEN max_end < start.key ELSE max_end <= start.key

\* Faulty variant of bound_greater_than below: a start on the end is after it.
bound_greater_or_equal(s, e) == IsBounded(s) /\ IsBounded(e) /\ s.key >= e.key

\* A node that starts at s lies after a range that ends at e.
bound_greater_than(s, e) ==
    /\ IsBounded(s) /\ IsBounded(e)
    /\ IF e.kind = "Included" THEN s.key > e.key ELSE s.key >= e.key

\* The child an entry that starts at start goes to below node i.
Child(ns, i, start) == IF StartsBefore(start, ns[i].range.start) THEN ns[i].left ELSE ns[i].right

\* The nodes the loop of insert visits, from the root to the new node's parent.
InsertPath(ns, start) ==
    LET path[i \in 1 .. Len(ns)] ==
            LET c == Child(ns, i, start)
            IN  {i} \cup (IF c = Nil THEN {} ELSE path[c])
    IN  path[1]

Leaf(e) == [txn |-> e.txn, range |-> e.range, max_end |-> bound_to_bytes(e.range.end),
            left |-> Nil, right |-> Nil]

\* IntervalTree::insert: raise max_end along the path, hang the leaf below it.
insert(ns, e) ==
    IF ns = <<>> THEN <<Leaf(e)>>
    ELSE LET path    == InsertPath(ns, e.range.start)
             parent  == CHOOSE i \in path : Child(ns, i, e.range.start) = Nil
             max_end == bound_to_bytes(e.range.end)
             raised  == [i \in 1 .. Len(ns) |->
                            IF i \in path /\ max_end > ns[i].max_end
                            THEN [ns[i] EXCEPT !.max_end = max_end] ELSE ns[i]]
             linked  == IF StartsBefore(e.range.start, ns[parent].range.start)
                        THEN [raised EXCEPT ![parent].left = Len(ns) + 1]
                        ELSE [raised EXCEPT ![parent].right = Len(ns) + 1]
         IN  Append(linked, Leaf(e))

\* IntervalTree::remove_by_txn with rebuild: the survivors are inserted again,
\* in the order of the vector.
remove_by_txn(ns, txn) ==
    LET rebuilt[n \in 0 .. Len(ns)] ==
            IF n = 0 THEN <<>>
            ELSE IF ns[n].txn = txn THEN rebuilt[n - 1]
            ELSE insert(rebuilt[n - 1], ns[n])
    IN  rebuilt[Len(ns)]

\* IntervalTree::find_overlapping: the nodes the pruned search returns.
find_overlapping(ns, start, end) ==
    LET find[i \in 0 .. Len(ns)] ==
            IF i = Nil \/ bound_less_than(ns[i].max_end, start) THEN {}
            ELSE find[ns[i].left]
                 \cup {j \in {i} : overlaps(ns[j].range, start, end)}
                 \cup (IF bound_greater_than(ns[i].range.start, end) THEN {} ELSE find[ns[i].right])
    IN  IF ns = <<>> THEN {} ELSE find[1]

-----------------------------------------------------------------------------
Init == nodes = <<>> /\ locked = {}

Insert(txn, r) ==
    LET e == [txn |-> txn, range |-> r]
    IN  /\ Len(nodes) < MaxNodes
        /\ nodes' = insert(nodes, e)
        /\ locked' = locked \cup {e}

RemoveByTxn(txn) ==
    /\ nodes' = remove_by_txn(nodes, txn)
    /\ locked' = {e \in locked : e.txn # txn}

Next == \E txn \in Txns : RemoveByTxn(txn) \/ \E r \in EntryRanges : Insert(txn, r)

Spec == Init /\ [][Next]_<<nodes, locked>>

-----------------------------------------------------------------------------
\* Whatever was inserted and removed, and in whatever order, the pruned search
\* finds the range locks in force that overlap the range asked for, and no other:
\* it loses none to a stale max_end, to a boundary or to the rebuild.  Only one
\* without an end may be missed, by a range that starts beyond [0xFF; 256].
SearchIsExact ==
    \A q \in KeyRanges(Keys) :
        LET found == {[txn |-> nodes[i].txn, range |-> nodes[i].range] :
                          i \in find_overlapping(nodes, q.start, q.end)}
            overlapping == {e \in locked : overlaps(e.range, q.start, q.end)}
        IN  /\ found \subseteq overlapping
            /\ \A e \in overlapping \ found :
                   ~IsBounded(e.range.end) /\ bound_less_than(MaxKey, q.start)
=============================================================================
