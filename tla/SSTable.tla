------------------------------ MODULE SSTable -------------------------------
(***************************************************************************)
(* Tables of crates/crabstash-storage/src/sstable.rs: how a builder lays   *)
(* entries out in blocks, and how a search and an iterator find their way  *)
(* back by the block index.                                                *)
(*                                                                         *)
(* A table is the sequence of its entries in the order of Key, without     *)
(* their timestamps.  A block is full at BLOCK_SIZE bytes in the code and  *)
(* at BlockLen entries here.  The Bloom filter never denies a key that is  *)
(* there, and a search denies the others as well.  The bytes of a block,   *)
(* its checksum and its compression are left out.                          *)
(***************************************************************************)
EXTENDS Integers, Sequences, FiniteSets, FiniteSetsExt

CONSTANT BlockLen

ASSUME BlockAssumption == BlockLen \in Nat \ {0}

\* Key::cmp: by the bytes of the key, then the newer version first.
KeyLess(e, f) == e.key < f.key \/ (e.key = f.key /\ e.ts > f.ts)

\* The entries of a memtable in the order its iterator gives them.
InKeyOrder(S) ==
    [i \in 1 .. Cardinality(S) |->
        CHOOSE e \in S : Cardinality({f \in S : KeyLess(f, e)}) = i - 1]

\* SSTableBuilder::add for each entry: the timestamp is not written, and
\* whoever reads the table back gets 0.
BuildTable(S) ==
    LET es == InKeyOrder(S) IN [i \in DOMAIN es |-> [es[i] EXCEPT !.ts = 0]]

\* The positions at which blocks start, in add and flush_block.
BlockStarts(table) == {i \in DOMAIN table : (i - 1) % BlockLen = 0}

BlockAt(table, i) == i .. Min({i + BlockLen - 1, Len(table)})

\* find_block: any block whose first key is k (binary_search promises no more),
\* otherwise the one before the place where k belongs, or the first.
find_block(table, k) ==
    LET starts == BlockStarts(table)
        equal  == {i \in starts : table[i].key = k}
        below  == {i \in starts : table[i].key < k}
    IN  IF equal # {} THEN equal
        ELSE IF below # {} THEN {Max(below)}
        ELSE {i \in starts : i = 1}

NotFound == [n |-> 0]

\* search_block: the first entry of the key in the block; a tombstone gets the
\* answer of a key that is not there.
search_block(table, i, k) ==
    LET at == {j \in BlockAt(table, i) : table[j].key = k}
    IN  IF at # {} /\ table[Min(at)].live THEN table[Min(at)] ELSE NotFound

\* SSTable::get: its possible answers.
get(table, k) ==
    IF table = <<>> THEN {NotFound}
    ELSE {search_block(table, i, k) : i \in find_block(table, k)}

\* SSTableIterator::seek: the positions it may stop at, one past the end if no
\* key is large enough.
SeekTable(table, k) ==
    LET from(i) == {j \in i .. Len(table) : table[j].key >= k} \cup {Len(table) + 1}
    IN  IF table = <<>> THEN {1} ELSE {Min(from(i)) : i \in find_block(table, k)}

HasKey(table, k) == \E i \in DOMAIN table : table[i].key = k

\* The versions of the key are in more than one block.
Split(table, k) ==
    Cardinality({i \in BlockStarts(table) :
                     \E j \in BlockAt(table, i) : table[j].key = k}) > 1
=============================================================================
