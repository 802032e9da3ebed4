------------------------------ MODULE LsmScan -------------------------------
(***************************************************************************)
(* Scans of the LSM tree: the iterators of                                 *)
(* crates/crabstash-storage/src/iterator.rs, how build_scan_iterator of    *)
(* lsm.rs stacks them, and the iterators the facade hands out.             *)
(*                                                                         *)
(* A scan holds the read lock while it takes its sources and then goes     *)
(* over what it took, so it is the sequence of the entries it visits.      *)
(* A seek by binary search may stop at any of several equal keys; where it *)
(* does, an operator gives the set of the possible outcomes.               *)
(***************************************************************************)
EXTENDS Lsm, KeyBounds

-----------------------------------------------------------------------------
(***************************************************************************)
(* iterator.rs                                                             *)
(***************************************************************************)
KeysIn(s) == {s[i].key : i \in DOMAIN s}

FirstOf(s, k) == s[Min({i \in DOMAIN s : s[i].key = k})]

InOrder(S) == [i \in 1 .. Cardinality(S) |-> CHOOSE k \in S : Cardinality({j \in S : j < k}) = i - 1]

\* MergeIterator: one entry for each key, with the largest timestamp; of equal
\* ones that of the source with the largest index.
MergeIterator(sources) ==
    LET having(k) == {i \in DOMAIN sources : k \in KeysIn(sources[i])}
        newest(k) == Max({FirstOf(sources[i], k).ts : i \in having(k)})
        winner(k) == Max({i \in having(k) : FirstOf(sources[i], k).ts = newest(k)})
        keys      == InOrder(UNION {KeysIn(s) : s \in Range(sources)})
    IN  [j \in DOMAIN keys |-> FirstOf(sources[winner(keys[j])], keys[j])]

\* Faulty variant of TwoMergeIterator below: of equal keys b's goes first.
RECURSIVE TwoMergeSecondFirst(_, _)
TwoMergeSecondFirst(a, b) ==
    IF a = <<>> THEN b
    ELSE IF b = <<>> THEN a
    ELSE IF b[1].key <= a[1].key THEN <<b[1]>> \o TwoMergeSecondFirst(a, Tail(b))
    ELSE <<a[1]>> \o TwoMergeSecondFirst(Tail(a), b)

\* TwoMergeIterator: a goes first among equals and then one entry of b with the
\* same key is passed over; what else either has of the key comes through.
RECURSIVE TwoMergeIterator(_, _)
TwoMergeIterator(a, b) ==
    IF a = <<>> THEN b
    ELSE IF b = <<>> THEN a
    ELSE IF KeyLess(b[1], a[1]) THEN <<b[1]>> \o TwoMergeIterator(a, Tail(b))
    ELSE <<a[1]>> \o TwoMergeIterator(Tail(a), IF a[1].key = b[1].key THEN Tail(b) ELSE b)

\* s as far as the first of the positions.
UpTo(s, positions) == SubSeq(s, 1, Min(positions \cup {Len(s) + 1}) - 1)

BoundedIterator(s, end) ==
    UpTo(s, {i \in DOMAIN s : ~contains_key([start |-> Unbounded, end |-> end], s[i].key)})

\* Faulty variant of SnapshotIterator below: the last key is not kept.
SnapshotAllVersions(s, ts) == SelectSeq(s, LAMBDA e : e.ts <= ts)

\* SnapshotIterator: the first entry of a key decides.  If it is too new, the
\* older ones are passed over like those of a key that was visited.
SnapshotIterator(s, ts) ==
    LET first == {i \in DOMAIN s : s[i].ts <= ts /\ \A j \in 1 .. i - 1 : s[j].key # s[i].key}
        at    == InOrder(first)
    IN  [i \in DOMAIN at |-> s[at[i]]]

-----------------------------------------------------------------------------
(***************************************************************************)
(* build_scan_iterator                                                     *)
(***************************************************************************)
\* MemTableIterator::seek: any entry of the key, or the place where it belongs.
SeekMemtable(s, k) ==
    LET equal == {i \in DOMAIN s : s[i].key = k}
    IN  IF equal # {} THEN equal
        ELSE {Min({i \in DOMAIN s : s[i].key > k} \cup {Len(s) + 1})}

From(s, i) == SubSeq(s, i, Len(s))

\* build_memtable_iterator; there is no immutable memtable while Up.
MemtableIterators(start) ==
    LET s == InKeyOrder(memtable)
    IN  IF IsBounded(start)
        THEN {TwoMergeIterator(From(s, i), <<>>) : i \in SeekMemtable(s, start.key)}
        ELSE {TwoMergeIterator(s, <<>>)}

\* build_l0_iterator: the newest table is the first source.
Level0Iterators(start) ==
    LET tables == [i \in DOMAIN levels |-> sst_files[Reverse(levels)[i]]]
        seeks  == IF IsBounded(start) THEN UNION {SeekTable(t, start.key) : t \in Range(tables)}
                  ELSE {1}
    IN  {MergeIterator([i \in DOMAIN tables |-> From(tables[i], at[i])]) :
             at \in {f \in [DOMAIN tables -> seeks] :
                         IsBounded(start) =>
                             \A i \in DOMAIN tables : f[i] \in SeekTable(tables[i], start.key)}}

\* Faulty variant of SkipExcluded below: the entry at the start is passed over
\* once.
SkipExcludedOnce(s, start) ==
    IF start.kind = "Excluded" /\ s # <<>> /\ s[1].key = start.key THEN Tail(s) ELSE s

\* The loop that passes over the start when it is excluded.
SkipExcluded(s, start) ==
    IF start.kind = "Excluded"
    THEN From(s, Min({i \in DOMAIN s : s[i].key # start.key} \cup {Len(s) + 1}))
    ELSE s

\* build_scan_iterator before its bounds: the memtables over the tables.  Below
\* level 0 there is nothing.
full_iter(start) ==
    {TwoMergeIterator(mem, TwoMergeIterator(l0, <<>>)) :
         mem \in MemtableIterators(start), l0 \in Level0Iterators(start)}

WithBounds(s, start, end) == SkipExcluded(BoundedIterator(s, end), start)

\* Lsm::scan_range: what a scan may visit.
scan_range(start, end) == {WithBounds(s, start, end) : s \in full_iter(start)}

\* Lsm::scan_at_ts as a Snapshot calls it that Db::snapshot made just now.
scan_snapshot == {SnapshotIterator(s, next_ts) : s \in scan_range(Unbounded, Unbounded)}

\* DbIterator::next ends a scan at a tombstone.
DbIterator(s) == UpTo(s, {i \in DOMAIN s : ~s[i].live})

-----------------------------------------------------------------------------
InMemtable(k) == \E e \in memtable : e.key = k

TablesWith(k) == {i \in DOMAIN levels : HasKey(sst_files[levels[i]], k)}

Stored(k) == InMemtable(k) \/ TablesWith(k) # {}

\* A scan with any bounds goes over the keys within them in order, and over
\* every one that is stored: merging the memtable with the tables, seeking and
\* skipping the start lose no key.  The iterator of the facade stops short only
\* where the scan comes to a tombstone.
ScansAreComplete ==
    LET stored == {k \in Keys : Stored(k)}
    IN  Up => \A start \in Bounds(Keys) : \A full \in full_iter(start), end \in Bounds(Keys) :
            LET s       == WithBounds(full, start, end)
                within  == {k \in stored : contains_key([start |-> start, end |-> end], k)}
                missing == within \ KeysIn(DbIterator(s))
            IN  /\ KeysIn(s) = within
                /\ \A i \in 2 .. Len(s) : s[i - 1].key <= s[i].key
                /\ \A k \in missing : \E i \in DOMAIN s : s[i].key <= k /\ ~s[i].live

\* A key of which scans and reads may tell different versions: it is in no
\* memtable and in several tables, where a scan takes the oldest table's, or its
\* versions are in several blocks.
Ambiguous(k) ==
    \/ ~InMemtable(k) /\ Cardinality(TablesWith(k)) > 1
    \/ SplitKey(k)

\* The answers to a read are those of a scan that visits e: a tombstone is where
\* a read finds nothing.
Agree(e, answers) == answers = {e} \/ (~e.live /\ answers = {NotFound})

\* What a scan visits first of a key is what a read of it returns, except for
\* ambiguous keys and for the key the scan starts at, where its seek may stop at
\* an older version.
ScanAgreesWithGet ==
    Up => \A start \in Bounds(Keys) : \A s \in scan_range(start, Unbounded) :
        \A k \in KeysIn(s) :
            \/ Ambiguous(k)
            \/ IsBounded(start) /\ start.key = k
            \/ Agree(FirstOf(s, k), get_at_ts(k, EngineTs))

\* A snapshot visits every stored key once, with the answer of its own get
\* unless the key is ambiguous, as long as the memtable has no version of it that
\* is newer than the timestamps now given out, which only a reopen brings about.
SnapshotAgreesWithGet ==
    Up => \A s \in scan_snapshot :
        /\ \A i \in 2 .. Len(s) : s[i - 1].key < s[i].key
        /\ \A k \in Keys :
            \/ ~Stored(k)
            \/ \E e \in memtable : e.key = k /\ e.ts > next_ts
            \/ /\ k \in KeysIn(s)
               /\ Ambiguous(k) \/ Agree(FirstOf(s, k), get_at_ts(k, next_ts))
=============================================================================
