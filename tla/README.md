# crabstash: TLA+ models, checks and proofs

crabstash is an embedded key-value store: an LSM tree with a write-ahead log and a
manifest, multi-version transactions with snapshot and serializable isolation on top of
it, and a lock manager with range locks, escalation and deadlock detection. This
directory models its concurrency and recovery logic in TLA+, checks the models with TLC
and proves most of their safety properties with TLAPS, for every value of the constants.
`PROJECT.json` maps every definition to the lines it models and lists runs, faulty
variants, hazards, findings and theorems.

## 1. The system

| Part | State | Operations | Talks to |
|---|---|---|---|
| Lock modes (`lock_mode.rs`) | none | compatibility, upgrades | lock entries |
| Lock entry (`lock_entry.rs`) | holders, wait queue, condition variable of one key | try_acquire, acquire, upgrade, release | lock table |
| Lock table (`lock_table.rs`) | entries, interval tree, escalation states, wait-for graph | register, lock_key, lock_range, upgrade_lock, release_all | engine, through `LockManager` |
| Escalation (`escalation.rs`) | lock counter, keys, flag per transaction | check, bounding range | lock table |
| Interval tree (`range_lock.rs`) | tree of range locks with max_end | insert, find_overlapping, remove_by_txn | lock table |
| Wait-for graph, detector (`deadlock.rs`) | edges, TxnInfo, abort channel | edges, Tarjan's search, victims | lock table, its own thread |
| SSI manager (`ssi.rs`) | active transactions, write index, committed sets, writer counter, safe snapshot | begin, record, validate_and_commit, abort, wait_for_safe_snapshot | engine |
| Transactions (`transaction.rs`) | status, read and write sets, committed list | begin, prepare_commit, commit, abort | engine |
| Timestamp oracle (`timestamp.rs`) | last_physical, logical | get_timestamp | engine |
| MVCC engine (`mvcc.rs`) | the four above and storage | begin, get, put, delete, commit, abort | `Db`, `Txn` |
| LSM tree (`lsm.rs`) | memtable, immutable memtables, levels, next_ts | open, get_at_ts, put, delete, write_batch, rotate, flush, sync, scans | log, manifest, tables, compaction thread |
| Write-ahead log (`wal.rs`) | file, BufWriter, unsynced bytes | create, open, append, sync, recover | LSM tree |
| WAL manager (`wal.rs`) | current segment and size, first segment, archive | append, rotate, archive, recover from a timestamp or to a point in time | nothing in the engine; a public API |
| Manifest (`manifest.rs`) | file, levels, next ids | load, add_sst, add_wal, remove_sst, allocate | LSM tree, compaction thread |
| Compaction (`compaction.rs`) | its own manifest copy, open inputs | pick, merge, remove inputs, list the output | LSM tree, through files |
| SSTables (`sstable.rs`) | blocks, block index, Bloom filter | build, open, get, seek | LSM tree, iterators |
| Iterators (`iterator.rs`) | heaps and cursors | merge, bound, filter by timestamp | LSM tree, `Db` |
| Block cache, Bloom filter, SIMD helpers | | | SSTables |

What is hard in it:

- threads between two critical sections: a lock request checks one structure and inserts
  into another; a release removes a holder, drops the mutex and then notifies; commit
  takes a timestamp long before its writes reach storage;
- stale information: wait edges come from a snapshot of the holders; `start_ts` is
  compared with storage's own numbering; `max_end` is maintained by hand;
- timeouts that race grants, and deadlocks that only the timeout ends;
- error paths that leave early: failed validation, refused escalation, read-only commit;
- crashes between the steps of a rotation or a compaction, a torn log tail, ids and
  timestamps restarted at reopen;
- two threads with a manifest each over one file and one directory: lines written over
  each other or read half-written, ids given out twice, files removed under an open table,
  and panics that end the compaction thread for good;
- merges of sources that hold several versions of a key, or versions without timestamps.

What correctness means for each part: locks exclude, no wake-up is lost, nothing is left
behind and calls return (lock table); searches are exact (tree, detector); committed
serializable transactions have a serial order and reads see what was committed (engine);
reads are fresh, scans are complete and agree with reads, the manifest in memory is the
one on disk and durable data stays durable (storage); timestamps are ordered across
milliseconds (oracle).

## 2. Modules

| Module | Models |
|---|---|
| `LockMode` | the compatibility and upgrade tables |
| `KeyBounds` | bounds, containment and overlap of key ranges |
| `WaitForGraph` | wait edges, strongly connected components, choice of a victim |
| `KeyLocks` | abstract specification of key locks: a grant that respects the other holders and strengthens, or a release |
| `LockTable` | the lock table, one step per critical section of the code |
| `LockTableOverlap` | `LockTable` and a history of which transactions were inside calls together |
| `IntervalTree` | the tree as a vector of nodes that refer to their children: insertion, pruned search, removal with rebuild |
| `Tarjan` | the detector's search, one step per vertex or edge, over every graph and visiting order |
| `Timestamps` | abstract specification of `get_timestamp`: some millisecond of the call, some logical part |
| `TimestampOracle` | `get_timestamp`, one step per atomic operation |
| `Mvcc` | the engine with transaction manager and SSI manager; its locks are `KeyLocks`, its timestamps `Timestamps` |
| `SSTable` | operators: layout of a table in blocks, the block index, search and seek |
| `Lsm` | the LSM tree with log, manifest and tables, crash and reopen |
| `LsmScan` | `Lsm` and operators for its iterators, scans and snapshots |
| `Compaction` | the compaction thread beside the flushes: manifest file, table files, both copies of the manifest |
| `Wal` | the WAL manager: sync modes, segments, archive, crash, recovery |
| `LockTableProofs`, `IntervalTreeProofs`, `TarjanProofs`, `MvccProofs`, `TimestampOracleProofs`, `LsmProofs`, `CompactionProofs`, `WalProofs` | theorems |
| `MC*` | constants for TLC |

Names of operations and fields are the code's. Operators introduced by "Faulty variant
of" are not part of the model: each is a plausible bug in the operator defined after it,
and the property listed with it in `PROJECT.json` catches it.

**LockTable.** A transaction is one thread with a `pc`. `lock_key` goes through `try`
(first `try_acquire`), `snapshot` (`get_holders`), `edges` (`add_wait_edge`), `acquire`
(second try), `enqueue`, `loop`/`wait` (the condition-variable loop), `granted` or
`timedout` (edges removed), `record` and `count`. `upgrade_lock` enters at `enqueue`.
`lock_range` is `range_check`, one step per key in `range_keys`, then the insertion;
escalation enters it from `record` with the call still open and discards the result.
`release_all` is one `release` and one `notify` step per key, because the code drops the
mutex in between, then the ranges, then the graph. The detector is `DetectDeadlock`; its
channel has no receiver in the code, so `aborts` only grows. Keys are numbers in the order
of the byte strings. The wait queue is a set: the code never consults its order.

**Mvcc.** `commit` is split at each point another thread can observe: timestamp, SSI
validation (one critical section), `prepare_commit`, one storage write at a time, the
manager's record, release of each key. `get_timestamp` is a call and a return (`BeginCall`
and `BeginTs`, `CommitCall` and `CommitTs`), between which other threads go on, and what it
returns is whatever `Timestamps` allows: two calls may get equal timestamps, and a later
call a smaller one, which is what the separate atomics of the code do when a slow thread
resets `logical`, or when it wraps. `misordered` and `beganInCommit` record when that, or a
begin inside a commit, has happened. Storage is the list of versions of a key, each with
the timestamp `next_ts` gave it; `VisibleVersion` compares it with the reader's `start_ts`,
as `get_at_ts` does. Storage counts from 1 and the oracle's timestamps are milliseconds
shifted by 18 bits, so there is one bound: storage has given out fewer timestamps than the
oracle's least (`LeastTs`). `ApplyFails` is a storage error inside the write loop.
`Abandon` is a `Txn` that is dropped, or a `Db::put` that returns its lock error.

**Lsm.** A writer takes its timestamp (`TakeTs`) and later the write lock (`Apply`). A
rotation is `RotateSync`, `ListWal`, `CreateWal`, `WriteSst`, `ListSst`; it holds the
write lock, so only a crash can come between. `Crash` ends the process: synced records
stay, of the buffered ones a prefix stays, possibly cut inside a record. `Open` creates
the log of the next id first, truncating a file of that name, then replays the listed
logs, and fails on a cut record. The manifest is the ids it lists, of tables and of logs,
each in the order of its lines; `load` never compares the two. A table is the sequence of
its entries in key order, newest version first, without the timestamps, which its format
does not hold (`SSTable`). History variables record what was applied (`applied`), what a
client's `sync` covered (`synced`), and what is in a listed table or synced in a listed
log (`safe`). An entry carries the number of its application and how many entries were in
place when its request began, which orders non-overlapping requests.

**LsmScan.** An iterator is the sequence of entries it visits. Where a binary search may
stop at any of several equal keys, an operator gives the set of outcomes, and so do
`scan_range` and `get_at_ts`; the properties quantify over all of them and, in every
reachable state, over all pairs of bounds.

**Compaction.** Two threads of one process. A flush is `Rotate`, `CreateTable`,
`FinishTable`, `ListTable`, `OpenTable`; a compaction is `Pick`, `LoadAgain`,
`OpenInputs`, `CreateOutput`, `MergeInputs`, then `RemoveSst` and `RemoveFile` for each
input, then `AddSst`. Names lead to inodes, because an open table outlives its name and
`File::create` on an existing name truncates an inode someone may have open. MANIFEST is a
list of lines and a place in it: `Manifest::create` does not open for appending, so the
Lsm of a first session writes over the thread's lines (`LsmWrites`); lines are measured in
pairs of bytes, which is exact for one-digit ids. `writeln!` on an unbuffered file writes
a line in pieces: while one is under way (`LsmInLine`, `ThreadInLine`) a crash, a load or
the other thread's line may come. What that leaves in the file for good is `garbled`; a
load of half a line panics (`LoadPanics`), and so may opening a table file that both
threads wrote (`OpenInputsPanics`). The compaction thread then is `panicked` and stays so;
an `Open` that panics is status "failed". Three simplifications: the id and the newline,
the last pieces, are one; a load that meets the Lsm's line over older lines finds either
the old or the new; and what is left over of longer lines is measured as if the thread's
line were there first. The condition variable is `wait` and `woken` with a timed wait;
`Drop` notifies without the mutex.

**Wal.** A call appends one record or a batch; its steps are the size check with the
append under the read lock, the sync, and the count under the write lock; or rotation,
the five steps of archiving, and the append without a second check. A crash keeps what is
synced, a prefix of the rest, and possibly a fragment that ends in the header or the body
of a record. `recover_from_timestamp` and `recover_pitr` are operators on the files: the
places, segment and number, of the whole records in the readable segments, read in their
order.

**TimestampOracle.** One step for each load, store and fetch_add of a call; the clock may
jump to any value of `Clock`, back as well. It implements `Timestamps` with the caller's
clock reading as the millisecond a call began with.

**IntervalTree.** Keys are numbers and `MaxKey` is the one that the code's sentinel for an
unbounded end, 256 bytes 0xFF, stands for. It may be a key, and there may be greater ones.

## 3. Runs

Passing:

| Run | Instance | Shows |
|---|---|---|
| `locktable_calls` | 2 transactions, 2 keys, a range, escalation at the second lock, S and X, 2 calls each, fairness | types, what each thread knows (`ThreadState`), `GrantImpliesHeld`, `HoldersCompatible`, `NoLostWakeup`, `EdgesOnlyWhileBlocked`, refinement of `KeyLocks`, `CallsReturn` |
| `locktable_sequential` | 2 transactions, 3 keys, ranges, escalation at the second lock, X only, 3 calls each | `SequentialCallsExclude`, `DoneLeavesNothing`, `DeadlocksAreReal` |
| `interval_tree` | all trees of up to 3 ranges over 2 keys of which one is the sentinel, inclusive, exclusive and unbounded ends | `SearchIsExact` |
| `tarjan` | all graphs on 4 transactions, all visiting orders | `ReportsADeadlock`, `ComponentsAreExact` |
| `mvcc_engine` | 2 transactions, 2 keys, 2 operations each, serializable and deferrable, timestamps that tie, ascend or descend | `TypeOK`, `SerializableButForRaces`, `NoCircularInformationFlow`, `NoAbortedReads`, `CutShortStaysOnTop`, `ActiveWritersExact` |
| `lsm` | 3 requests, 2 writers at once, a batch, rotations at 2 entries, blocks of 2 entries, 2 crashes or closes | `SessionReadsFresh`, `ScansAreComplete`, `ScanAgreesWithGet`, `SnapshotAgreesWithGet`, `ManifestAgrees`, `SafeStaysOnDisk` |
| `compaction` | 3 flushes of 2 keys, compaction at 1 table, 1 crash or close, fairness | `ReadsStayFresh`, `LevelOneSingle`, `KeysStayListed`, `TakenUpOrPanicked`, `DropReturns` |
| `wal` | 2 threads, 5 records in calls of 1 or 2, segments of 2 records, 2 crashes or closes, modes Sync and GroupSync | `TypeOK`, `PitrIsComplete`, `RecentIsRecovered`, `LossIsBounded`, `SegmentsBounded`, `ArchiveIsOld`, `SyncedPartKept` |
| `timestamp_oracle` | 3 threads, 4 calls, 3 milliseconds, logical part that wraps at 2 | `OrderedAcrossMilliseconds`, refinement of `Timestamps` |

Violated, each a disagreement between the code and what the repository says of it
(quoted in `PROJECT.json`, "findings"):

| Run | What happens |
|---|---|
| `locktable_rangerace` (`RangeExclusion`) | a key lock and a range lock over it, requested together, are both granted |
| `mvcc_window` (`SerializableIfOrdered`) | a transaction that begins inside another's commit reads old data and passes validation, although every timestamp exceeds those given before it |
| `lsm_durable` (`SyncedIsRecovered`) | a synced write of a session that never rotated is truncated by the next open |

### What the code does that the properties step around

The models keep these behaviours; the properties name them as exceptions or the
instances leave them out.

- A commit timestamp that does not exceed the start timestamp of a transaction that began
  earlier hides the conflict from validation (`Misordered`). The first two timestamps of a
  millisecond are equal, a thread between the loads and stores of `get_timestamp` may set
  `logical` or `last_physical` back, the clock may be set back, and `logical` wraps
  (`timestamp.rs:23`): excused in `SerializableButForRaces`, with the window of
  `mvcc_window`.
- Storage versions and oracle timestamps are different clocks (`mvcc.rs:98`): every
  `start_ts` the oracle gave is above every version, so a snapshot transaction sees what is
  committed after it began, and can read two versions of a key. No property says that reads
  are repeatable.
- A deferrable transaction that begins before any serializable one gets the initial safe
  snapshot 0, which is below every version, and sees nothing; the u64::MAX of an idle
  manager sees everything (`ssi.rs:271`, `ssi.rs:532`). No property is about its reads.
- `Db::write_batch` (`lib.rs:115`) goes to storage without a transaction and takes no locks.
  The properties of `Mvcc` are about transactions; `CutShortStaysOnTop` and
  `NoCircularInformationFlow` do not extend to data that batches write as well.
- The commit of a read-only transaction returns TransactionAborted, because `commit_ts`
  is never set on that path (`mvcc.rs:170`, `transaction.rs:182`): `CommitTs`.
- A commit that fails returns before `release_all` (`mvcc.rs:183`): the locks stay, and
  later writers of those keys time out (`WriteRefused`). A transaction that is dropped, or
  whose `put` panics or returns on a lock timeout (`lib.rs:62`, `lib.rs:198`), is not
  aborted either: it stays registered and keeps its locks (`Abandon`).
- `lock_key` for a mode that the held one cannot be upgraded to (IX after S, X after SIX)
  succeeds without taking it (`lock_entry.rs:35`): `GrantImpliesHeld` is checked for S
  and X, the theorems hold for all modes.
- `upgrade_lock` does not look at range locks (`lock_table.rs:205`):
  `SequentialCallsExclude` is checked for exclusive requests, where no upgrade arises,
  and excuses requests that overlapped in time (`locktable_rangerace`).
- A wait edge goes to every holder of the snapshot, compatible ones included
  (`lock_table.rs:120`): with shared locks a cycle need not be a deadlock, so
  `DeadlocksAreReal` is checked for exclusive locks, the only mode the engine uses.
- A search that starts beyond 256 bytes 0xFF passes over range locks without an end, whose
  `max_end` that is (`range_lock.rs:206`): excused in `SearchIsExact`, which says that
  nothing else is missed.
- A record cut by a crash in a listed log makes this and every later open fail
  (`wal.rs:286`): `Open`'s status "failed".
- After a storage error in its write loop a commit leaves part of its writes in place and
  keeps its locks for good (`mvcc.rs:189`): `CutShortStaysOnTop` says that nobody writes on
  top of them; reads do see them.
- Timestamps restart at 1 after a reopen (`lsm.rs:146`), so a recovered entry can hide a
  newer write: excused in `SessionReadsFresh` and `SnapshotAgreesWithGet`.
- A table answers a lookup of a key it has a tombstone for as if it did not have the key
  (`sstable.rs:246`): `SessionReadsFresh` excuses keys with a flushed tombstone.
- The versions of a key may lie in several blocks, and the index finds any of them
  (`sstable.rs:174`): `SplitKey`, excused in the properties of reads and scans.
- A scan takes the oldest table's version of a key that is in no memtable
  (`iterator.rs:38`); one that starts at a key may begin at an older version of it
  (`memtable.rs:99`): excused in `ScanAgreesWithGet`.
- A plain scan visits a key once for each version in the memtable, and a `DbIterator` ends
  at the first tombstone (`lib.rs:247`): `ScansAreComplete` states exactly that.
- A snapshot has the timestamp that the next write will get (`lib.rs:119`) and does not
  see an older version once a newer one exists (`iterator.rs:248`): snapshots are compared
  with reads at the moment they are taken.
- Compaction keeps the oldest version of a key (`compaction.rs:167`), lists its output
  after it has removed its inputs (`compaction.rs:137`), and may get a table id that the
  Lsm gives out as well (`compaction.rs:104`): `ReadsStayFresh` is about one session and
  intact files, `KeysStayListed` excuses the window and reused ids (`orphaned`, `reused`).
- A scan opens its tables anew by their path (`lsm.rs:547`), so after a compaction it fails
  until the Lsm is reopened, while point reads go on. The two are separate models.
- A listed table that cannot be read makes every later open fail (`lsm.rs:95`):
  `Compaction`'s status "failed".
- A manifest line reaches the file in several writes (`manifest.rs:96`). A load that meets
  half of it panics (`manifest.rs:67`), and so may the opening of a table that both threads
  wrote (`sstable.rs:113`). Nothing catches that (`lsm.rs:156`): the compaction thread is
  gone and `work_available` stays true, hence `TakenUpOrPanicked`; after a crash inside a
  line the database does not open again. `LevelOneSingle` and `KeysStayListed` hold until a
  line is left in pieces (`garbled`). In `Lsm`, which has one thread, a line is one step:
  what it says of a reopen is said of a crash between lines.
- `finish` gives the last block the last key of the block before (`sstable.rs:542`), which
  only the compaction of deeper levels reads.
- A segment of the WAL that a crash cut inside a record is not readable once records
  follow, or if the cut is in a body (`wal.rs:286`); recovery leaves it out with a warning:
  excused in `PitrIsComplete` and `RecentIsRecovered`.
- The background thread of group commit does not sync (`wal.rs:124`): a group below its
  size can be lost at any later time, which `LossIsBounded` allows.

**Bounds.** Two transactions suffice for the pairwise properties of locks and for the
conflicts validation looks for (a reader and a writer); that several threads may sleep on
one condition variable is covered by the proof of `NoLostWakeup`. Two keys allow opposite
acquisition orders, write skew and a range that contains one key and not the other; three
keys give an escalated range with a key strictly inside. Two calls allow a lock and a
stronger lock or an upgrade; the proofs have no such bound. Three tree nodes are enough
for both children, a rebuild and every pruning decision at a root. A deferrable
transaction that times out is a read-only one, so that level needs no instance of its own.
In `mvcc_engine` the timestamps of a millisecond have one of two logical parts, in any
order: `Mvcc` only compares timestamps, so two values give ties, ascents and descents, and a
clock that moves would add no other order. Snapshot transactions are in the proofs, which
hold for all levels; an instance with all three (4.4 million states) passes too.

In `lsm` three requests, of which batches have three entries, with a memtable and blocks
of two entries give two tables and a memtable at once, tables of two blocks, and keys in
several tables; two crashes allow a crash during the work that follows a recovery.
`MaxSsts` stays below the four tables at which compaction starts. With four requests, one
crash, two batches of two entries and `SessionReadsFresh` alone the instance has 2.4 million
states and passes too.

In `compaction` the trigger is one table instead of four, so that three flushes give
several rounds, the later ones with an earlier one's output, flushes during each step of a
round, and a merge whose input is truncated under it. `MaxId` is above every id that these
flushes and rounds can give out. In `wal` five records in segments of two give two
rotations and more, by both threads at once, and archived segments; a group of two records
is full, or not, when a crash comes. A call may be longer than a segment, which the code
accepts and writes into one segment all the same; that is in the proofs, and with segments
of one record (3 million states) the properties hold as well. The mode NoSync is a group
that is never full. In `timestamp_oracle` a thread can sleep through two milliseconds
while others use both.

**Symmetry** is used where the constants treat transactions (and, in `Mvcc`, keys, whose
hash is then the identity) alike and no liveness is checked. **Deadlock** is checked in
every run that does not say otherwise; `AllDone` is the intended end of the lock table.

**Fairness.** `FairSpec` has weak fairness of each thread's steps and of each timed wait.
`LockManager` passes a timeout to every `lock_key` and `upgrade_lock`, threads are
scheduled by the operating system, and mutexes are held for single steps. Nothing forces
a caller to make another call. In `Compaction` fairness is given to the compaction
thread's steps, to its timed wait, and to the join of a drop: the operating system runs
the thread, `wait_for` returns after a second, and file operations end. Flushes, drops and
crashes need not happen.

## 4. Proofs

`LockTableProofs` proves, for any sets of transactions and keys, any modes, ranges and
thresholds and any number of calls, from `ConstantsAssumption` alone:

- `TypeCorrect`: `TypeOK` and `ThreadState` always hold. They are proved together, as one
  inductive invariant: an action's effect on the types depends on what the thread knows
  about its call, and that a waiting thread's request really strengthens what it holds
  (`~AlreadyHeld`) must survive the steps of all other threads. It does because only a
  thread itself changes its entry in a holders map.
- `KeyLocksImplemented`: `LockTable` refines `KeyLocks` with `held <- holders`. Each of
  the three places that insert a holder is shown to be a `Grant`; the waiting loop, which
  inserts without the test of `try_acquire`, needs `ThreadState`. Every other step is a
  stutter or a `Drop`.
- `Exclusion`: holders of a key are compatible. Inductive over the steps of the abstract
  locks, using the symmetry of the compatibility table.
- `WakeupsKept`: a thread asleep on a condition variable is blocked by a holder, or some
  thread that removed one is about to notify it. The delicate step is `ReleaseKey`, which
  may unblock a sleeper and itself becomes the witness.
- `ThreadsKnow`: `ThreadState` by itself, as the run checks it.
- Of `KeyBounds`: the overlap test is symmetric, never misses a shared key and agrees with
  `key_in_range` on single keys.

Its second half goes on from there. The invariants speak of one transaction at a
time, so each is kept in two parts: the transaction's own step, and the lemma
`OthersLeftAlone`, that nobody else's step changes what belongs to it, but for a wakeup
and for edges that go away.

- `EdgesTakenBack` and `NothingLeft`: `EdgesOnlyWhileBlocked` and `DoneLeavesNothing`, for
  any modes. `release_all` never touches a wait queue, so the second needs to know where
  a transaction can stand in one (`LeavesInv`).
- `GuardsHold`: `GrantImpliesHeld`, for modes of which any two are comparable
  (`ModesComparable`). S and IX are not, and there it is false: see the exception above.
  The invariant adds what a call under way has already been granted (`PromiseInv`); a
  grant keeps earlier promises because a held mode is only ever strengthened.
- `DeadlocksReal` and `SequentialExclusion`: `DeadlocksAreReal` and
  `SequentialCallsExclude`, for exclusive requests, the only ones the engine makes. With
  shared ones both are false, for the reasons in section 3 (edges to compatible holders;
  an upgrade that ignores ranges). The first needs that every edge leads to a transaction
  that holds the key waited for or is inside `release_all`, where it waits for nothing
  (`WaitsInv`); the second that what a call has checked so far, a range key by key, stays
  true unless somebody else's call overlaps it (`OverlapInv`).

`IntervalTreeProofs` proves, from `TreeAssumption`, for any owners, keys, ranges and
number of nodes, keys at and beyond the sentinel included, `SearchCorrect`
(`SearchIsExact`). The invariant (`TreeInv`) is that the vector is a tree (`Shape`): there
is an assignment of a subtree to each node under which children come later in the vector,
the subtrees of two children are apart, `max_end` is below no end in the subtree and
nothing in a right subtree starts before its root. Then both ways of pruning leave out
only ranges that do not overlap (`EndsBefore`, `StartsBehind`). An insertion puts the new
node into the subtrees along the path of its loop and into no other (`InsertedShape`); a
removal is a sequence of insertions. The search, the path and the rebuild are recursive
functions of indices, so each is shown to exist and then followed by induction over the
indices, which needs only that sets of naturals have least elements.

`TarjanProofs` proves, from `VAssumption` (finitely many transactions), for every graph and
every order in which transactions and edges are visited, `ComponentsCorrect`
(`ComponentsAreExact`) and `ReportCorrect` (`ReportsADeadlock`). The invariant
(`SearchInvariant`) speaks of the stack and of the active calls of `strongconnect`:

- indices ascend on the stack and along the active calls (`Numbered`), only active calls
  have edges left to visit, and no edge leads from a popped component back to the stack
  (`Explored`);
- an active call reaches everything above it on the stack, and each vertex of the stack
  reaches an active call not above it (`Connected`): all that is above a root is one strong
  component if nothing there reaches below the root;
- that is what the lowlinks decide: one is the index of a vertex on the stack that its call
  reaches (`LowReached`), and not above any edge seen so far from the vertices between its
  call and the next (`LowBounds`). For the second the caller has to take over the lowlink
  of a call that returns; the mutant of the run leaves that out.

A component popped is then a whole one (`PopInv`); the search has visited every vertex with
an edge when it reports, so a cycle lies in a component it popped (`FoundAll`).

`MvccProofs` proves, from `MvccAssumption`, for any transactions, keys, hashes and bounds:

- `MvccInv`: the inductive invariant `Inv`. It is made of the types, what a transaction has
  done by the step it is at, that X locks exclude each other and cover a write set until
  they are released (`LocksKept`), that each version belongs to a transaction that wrote it
  under such a lock (`VersionsOwned`), what the SSI manager has on record (`Registered`) and
  what was read (`ReadsRecorded`), that storage's timestamps are below the oracle's
  (`ClocksApart`) and that a begin and a commit that overlap are on record (`BeginsApart`).
  `MvccTypes`, `WritersCounted` (`ActiveWritersExact`), `AbortedNeverRead` and
  `CutShortOnTop` are read off from it.
- `DecisionOrderExists` and `FlowOneWay` (`NoCircularInformationFlow`). The serial order is
  the order in which transactions pass validation. No variable records it, so the invariant
  is that a strict order exists under which the versions of a key ascend and nobody reads
  from a later transaction; a step that decides a transaction puts it after those decided.
- `CyclesHaveExcuses` (`SerializableButForRaces`): of the transactions on a cycle of
  dependencies, one began inside the commit of another, or another's later commit timestamp
  does not exceed its `start_ts`. Nothing is assumed of timestamps but what `Timestamps`
  says, so the theorem covers every interleaving of the oracle's atomics, clocks that are
  set back and a logical part that wraps; such timestamps appear as the second excuse. By
  `SerialInv` (`ValidationHolds`) a decided transaction was compared with all that were
  decided before it, and one whose `start_ts` is not below another's commit timestamp, with
  neither excuse, reads all that the other wrote (`BeganAfter`); so without such a pair
  every dependency follows the order of decisions, and has no cycle.

`LsmProofs` proves, from `LsmAssumption`, for any keys, batches, memtable and block sizes
and any number of writers, requests and crashes, with fewer tables than the compactor waits
for:

- `LsmTypes`, `ManifestKept` (`ManifestAgrees`) and `SafeKept` (`SafeStaysOnDisk`), all from
  `LsmInv`. `Names` says, for each step of a rotation, how far the ids in memory are ahead of
  those listed, that tables and logs are numbered without a gap, and that there are no more
  logs than tables and crashes. `Kept` says where a safe entry is: in a listed table, or in
  the synced part of a listed log, and not in the log that was listed last while
  `Wal::create` is still to come, because that truncates it. `Memory` says that a version has
  one entry in the memtable, without which a table would not hold all of it. `TypeOK`
  is part of the invariant and in no run.
- `ReadsFresh` (`SessionReadsFresh`), from `FreshInv`, in three parts. Timestamps: entries
  are numbered as they are applied (`Counted`), no two of a session share a timestamp, and a
  request that began when an entry was in place has larger ones (`Ordered`), which holds of
  the requests that still wait for the lock as well (`Waiting`); so the newest of the
  superseding writes wins by timestamp whenever both are in the same place. Places: within a
  session the memtable is newer than the tables and a table newer than those of smaller index
  (`NewestInMemory`, `Layered`), and every entry of the session is in one of them
  (`NoneMissing`), also in the middle of a rotation (`Rotating`); so the place that is asked
  first has the right to answer. Tables: every table file is sorted by key and, within a key,
  newest first (`TablesSorted`). That a lookup then finds the first entry of a key whose
  versions lie in one block is `GetsFirst`, whichever block `binary_search` returns. The
  proof needs `Batches` to be finite, because `EngineTs`, the timestamp of a reader above
  all others, is computed from the longest batch.
- On the way: a table built from a memtable has every entry in it (`TableHolds`; the ranks by
  key and timestamp are a bijection), and `NextId` is the number after the last
  (`NextIdIs`).

`CompactionProofs` proves, from `CompactionAssumption`, for any keys, memtables, trigger
and bounds (`MaxId` up to 9: the pairs of `Skip` are those of one-digit ids):

- `CompactionTypes`: types, and where the two threads can be together (`Placed`).
- `FreshBesideCompaction` (`ReadsStayFresh`), from `Fresh`. While no flush of the session
  has failed and the files are as built, the newest version of a key is in the memtable of
  the flush under way (`InFlight`), or the last table of level 0 that has the key holds it
  (`Newest`). What the thread does to names, inodes and MANIFEST does not matter to that:
  an open Lsm never opens the thread's results. `Intact` says what does, the contents.
- `LevelOneHolds` (`LevelOneSingle`), from `Orderly`: until an id is given out twice, and
  as long as MANIFEST can be read, there is a number m such that the ids listed so far are
  1 to m (`Numbered`); what either copy of the manifest gives out next is at most m + 1,
  and only one thread has m + 1 (`Given`); a table is listed once and deleted after that
  (`InOrder`); the level 1 table is an input that is still to be removed (`Merging`). The
  hard part is `Overtaken`, about the Lsm of a first session, whose place in MANIFEST may
  lie behind lines of the thread. The first line there is then the removal of a level 0
  table, because `compact` removes level 0 first, and whole; a rotation that writes over
  it makes it unreadable, so one removed table is listed again, in level 0. The table of
  the same flush gets an id that has been given out, so no second line is ever lost before
  `reused` is set.
- `KeysListed` (`KeysStayListed`), from `Orderly` together with `InFiles` and `KeysKept`.
  `InFiles`: until an id is given out twice each name has an inode of its own, the thread's
  and the flush's are theirs alone, so what they build arrives whole, and opened inputs are
  as their files. `KeysKept`: before the first removal the listed tables hold every key;
  from the end of the merge on, the output and the listed tables that are no inputs do, so
  the removals and the listing of the output can come in any state of the flushes.

`WalProofs` proves, from `WalAssumption`, for any threads, sizes and modes and calls of any
bounded length, longer than a segment or not:

- `WalTypes` and `ArchiveSafe` (`ArchiveIsOld`), from the invariant `ArchiveInv`. Besides
  the types it says in which directory each segment is (`Placed`), and of a thread that is
  archiving that the `current_segment` it read, old as it may be by now, is not ahead of
  the present one and that all before its place in the loop is archived (`Archiving`).
- `SyncedIsKept` (`SyncedPartKept`), an action property, from the same invariant: appends
  extend the current file, a move copies what is there, a crash cuts behind `synced`.
- `LossSafe` (`LossIsBounded`), from `LossInv`: acknowledged records beyond `synced` are
  those counted for the group, and a thread between its write and its sync or count is
  accounted for; records are told apart by their timestamps (`Fresh`).
- `SegmentsSafe` (`SegmentsBounded`), from `SizeInv`: a segment has no more records than
  `current_size` says and threads between their append and its count will add, and always
  room within the bound for those who have rotated and will append without another check
  (`Room`). The bound is the longer of a segment and the longest call, and one more call
  for each other thread. Both are cardinalities, of the uncounted records and of the
  rotating threads.
- `PitrComplete` (`PitrIsComplete`), from the invariant `StoredInv`: the whole records of
  the files of both directories are the entries of the history, each at exactly one place,
  and places are read in the order of the entries (`StoredInOrder`). A write keeps it
  because the records of a call that has not written are new to the history
  (`NewRecords`); a crash, because what it may cut, the unsynced end of the current file,
  is what the history ends with (`UnsyncedLast`), so that file and history lose the same
  entries. Recovery is then an order-preserving bijection from entries to places
  (`PlacesInOrder`, `ReadEntries`).
- `RecentRecovered` (`RecentIsRecovered`), from the same invariant and `ArchivedFirst`: all
  archived segments are older than all others. A slower thread may archive by a stale
  number, but only a segment before which all are archived. So what wal_dir holds is the
  end of the whole list (`LastEntries`).

`TimestampOracleProofs` proves, from `OracleAssumption`, for any threads, clock values,
width of the logical part and number of calls:

- `OracleInv`: the invariant `Inv`. A timestamp is `ms * LogicalSpan + n` with `n` below
  the span and `ms` between the clock its call began with and the latest clock shown when
  it returned (`WithinCall`). For that, no clock may be in use that was not shown, and a
  thread on its way to `fetch_add` has loaded a millisecond not below its own
  (`ClocksShown`); the load and the comparison are one step of the thread, so another
  thread's store cannot come between them.
- `OracleImplemented`: `TimestampOracle` refines `Timestamps`. The reading of the clock is
  the `Call`, the reset or the `fetch_add` the `Return`, the steps between stutter; that
  the result is within the call is the invariant. This is what entitles `Mvcc` to the
  abstract oracle.
- `OracleOrdered`: `OrderedAcrossMilliseconds`, from `WithinCall` of both calls and the
  lemma that timestamps of different milliseconds are ordered as those are.

Only model-checked:

- liveness (`CallsReturn`, `TakenUpOrPanicked`, `DropReturns`): fairness and ENABLED are
  out of the prover's reach;
- the iterators (`LsmScan`): recursive operators.

## 5. Not modelled, and what could follow

Left out: file formats, encoding, compression, checksums, the block cache, the Bloom
filter, statistics, logging and the arithmetic of prefix bounds. Power failure: a crash
here keeps what the operating system was given, and a table that was listed but never
fsynced (`sstable.rs:573`) stays. I/O errors, except a storage error inside a commit and
errors that one thread's file operations cause in another. Lines of MANIFEST in pieces are
in `Compaction` and not in `Lsm`. `Db::write_batch` is in `Lsm` and not in `Mvcc`. The
deeper levels of compaction, which need more than ten tables in level 1. Of the SSI
manager: range reads with phantom detection (the engine records none), `advance_watermark`
(no caller). Of the transaction manager: `gc` (no caller). Scans over the levels below 0
(an Lsm opens such tables only after a reopen that follows a compaction).

What could follow:

1. The SSI manager on its own: range reads, watermark, the full dangerous-structure test
   with three transactions.
2. `Lsm` and `Compaction` composed: reads across a reopen after a compaction.
