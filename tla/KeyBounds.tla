----------------------------- MODULE KeyBounds ------------------------------
(***************************************************************************)
(* Ranges of keys with std::ops::Bound ends, and the comparisons           *)
(* range_lock.rs and lock_table.rs make between them.  Keys are byte       *)
(* strings compared lexicographically in the code; here they are numbers   *)
(* in the same order.  An Unbounded end has a key field nothing reads.     *)
(***************************************************************************)
EXTENDS Integers

Included(k) == [kind |-> "Included", key |-> k]
Excluded(k) == [kind |-> "Excluded", key |-> k]
Unbounded   == [kind |-> "Unbounded", key |-> 0]

Bounds(K) == [kind : {"Included", "Excluded"}, key : K] \cup {Unbounded}

KeyRanges(K) == [start : Bounds(K), end : Bounds(K)]

IsBounded(b) == b.kind # "Unbounded"

\* RangeLockEntry::contains_key, and key_in_range, which repeats it.
contains_key(r, k) ==
    /\ \/ ~IsBounded(r.start)
       \/ r.start.kind = "Included" /\ k >= r.start.key
       \/ r.start.kind = "Excluded" /\ k > r.start.key
    /\ \/ ~IsBounded(r.end)
       \/ r.end.kind = "Included" /\ k <= r.end.key
       \/ r.end.kind = "Excluded" /\ k < r.end.key

\* The two bounds are both closed: only then do they share their key.
BothIncluded(a, b) == a.kind = "Included" /\ b.kind = "Included"

\* RangeLockEntry::is_before: range r ends before a range that starts at s.
is_before(r, s) ==
    /\ IsBounded(r.end) /\ IsBounded(s)
    /\ IF BothIncluded(r.end, s) THEN r.end.key < s.key ELSE r.end.key <= s.key

\* RangeLockEntry::is_after: range r starts after a range that ends at e.
is_after(r, e) ==
    /\ IsBounded(r.start) /\ IsBounded(e)
    /\ IF BothIncluded(r.start, e) THEN r.start.key > e.key ELSE r.start.key >= e.key

\* RangeLockEntry::overlaps: what IntervalTree::find_overlapping selects.
overlaps(r, start, end) == ~is_before(r, start) /\ ~is_after(r, end)

\* IntervalTree::find_containing_key asks for the closed range of one key.
OverlapsKey(r, k) == overlaps(r, Included(k), Included(k))
=============================================================================
