-------------------------------- MODULE Lsm ---------------------------------
(***************************************************************************)
(* The LSM tree of crates/crabstash-storage/src/lsm.rs with its write-     *)
(* ahead log and its manifest: writes, rotation of the memtable, flush to  *)
(* a level-0 table, reads, and what a crash and a reopen leave.            *)
(*                                                                         *)
(* A crash ends the process between any two steps that touch a file: what  *)
(* was handed to the operating system stays, the tail of the log that was  *)
(* still in its BufWriter is lost and may be cut inside a record.  The     *)
(* whole rotation runs under the write lock, so only a crash can come      *)
(* between its steps.  The compaction thread acts on four level-0 tables;  *)
(* the bound MaxSsts keeps below that.                                     *)
(***************************************************************************)
EXTENDS SSTable, SequencesExt

CONSTANTS
    Keys,
    Batches,        \* the operation lists write_batch is called with
    MemtableLimit,  \* entries put in at which the memtable is full
    MaxPending,     \* bound: writers between their timestamp and the lock
    MaxWrites,      \* bound: requests made
    MaxSsts,        \* bound: level-0 tables, fewer than the compactor's four
    MaxCrashes      \* bound: crashes and closes

ASSUME LsmAssumption ==
    /\ Keys \subseteq Nat
    /\ IsFiniteSet(Batches) /\ \A b \in Batches : b \in Seq([key : Keys, live : BOOLEAN])
    /\ {MemtableLimit, MaxPending, MaxWrites, MaxCrashes} \subseteq Nat
    /\ MaxSsts \in 1 .. 3

VARIABLES
    \* Files.
    manifest,       \* the ids MANIFEST lists, each synced as it is written
    wal_files,      \* records, how many are synced, whether the tail is cut
    sst_files,      \* the entries of each table
    \* The process.
    status, pc,
    memtable, size, \* the entries, and how many were ever put in
    imm, levels, wal_id, next_sst_id, next_wal_id, next_ts,
    pending,        \* requests that have a timestamp and wait for the lock
    \* History and bounds.
    applied,        \* every entry ever written to a memtable by a request
    synced,         \* entries a caller's sync() covered
    safe,           \* entries in a listed table, or synced in a listed log
    requests, crashes

files   == <<manifest, wal_files, sst_files>>
inner   == <<memtable, size, imm, levels, wal_id, next_sst_id, next_wal_id>>
history == <<applied, synced, safe, requests, crashes>>
vars    == <<files, status, pc, inner, next_ts, pending, history>>

SstIds == 1 .. MaxSsts
WalIds == 1 .. MaxSsts + MaxCrashes + 1

EmptyWal == [recs |-> <<>>, synced |-> 0, torn |-> FALSE]

Init ==
    /\ manifest = [SST |-> <<>>, WAL |-> <<>>]
    /\ wal_files = [i \in WalIds |-> EmptyWal]
    /\ sst_files = [i \in SstIds |-> <<>>]
    /\ status = "up" /\ pc = "idle"
    /\ memtable = {} /\ size = 0 /\ imm = {} /\ levels = <<>>
    /\ wal_id = 1 /\ next_sst_id = 1 /\ next_wal_id = 1 /\ next_ts = 1
    /\ pending = {}
    /\ applied = {} /\ synced = {} /\ safe = {}
    /\ requests = 0 /\ crashes = 0

-----------------------------------------------------------------------------
\* Manifest::load: the next id of a kind of file.
NextId(ids) == Max({1} \cup {id + 1 : id \in Range(ids)})

\* The logs open reads back: those below the next id.
Listed(id) == id < NextId(manifest.WAL)

SameVersion(e, f) == e.key = f.key /\ e.ts = f.ts

\* MemTable::put and delete, for each entry in turn: one replaces an earlier
\* one with its key and timestamp.
InsertAll(mt, es) ==
    {e \in mt : \A i \in DOMAIN es : ~SameVersion(es[i], e)} \cup
    {es[i] : i \in {j \in DOMAIN es :
                      \A l \in j + 1 .. Len(es) : ~SameVersion(es[l], es[j])}}

Up == status = "up" /\ pc = "idle"

-----------------------------------------------------------------------------
\* BatchOperation: a put (live) or a delete of a key.
Op(k, live) == [key |-> k, live |-> live]

\* The timestamps of a request, taken before the lock.
TakeTs(kind, ops) ==
    /\ Up
    /\ requests < MaxWrites /\ Cardinality(pending) < MaxPending
    /\ pending' = pending \cup
           {[kind |-> kind, ops |-> ops, ts |-> next_ts, after |-> Cardinality(applied)]}
    /\ next_ts' = next_ts + Len(ops)
    /\ requests' = requests + 1
    /\ UNCHANGED <<files, status, pc, inner, applied, synced, safe, crashes>>

Put(k)         == TakeTs("put", <<Op(k, TRUE)>>)
Delete(k)      == TakeTs("delete", <<Op(k, FALSE)>>)
WriteBatch(b)  == TakeTs("batch", b)

\* The entries of a request, numbered in the order they are applied.
EntriesOf(r) ==
    [i \in DOMAIN r.ops |->
        [key |-> r.ops[i].key, live |-> r.ops[i].live, ts |-> r.ts + i - 1,
         n |-> Cardinality(applied) + i, after |-> r.after, session |-> crashes]]

\* Wal::append and append_batch with SyncMode::NoSync: into the BufWriter.
AppendWal(es) == wal_files' = [wal_files EXCEPT ![wal_id].recs = @ \o es]

\* Under the write lock: the log, the memtable and, except for a delete, the
\* test that starts a rotation.
Apply(r) ==
    LET es   == EntriesOf(r)
        mt   == InsertAll(memtable, es)
        full == r.kind # "delete" /\ size + Len(es) >= MemtableLimit
    IN  /\ Up
        /\ r \in pending
        /\ full => next_sst_id \in SstIds
        /\ pending' = pending \ {r}
        /\ applied' = applied \cup Range(es)
        /\ AppendWal(es)
        /\ \/ full /\ pc' = "rotate" /\ memtable' = {} /\ size' = 0 /\ imm' = mt
           \/ ~full /\ memtable' = mt /\ size' = size + Len(es) /\ UNCHANGED <<pc, imm>>
        /\ UNCHANGED <<manifest, sst_files, status, levels, wal_id, next_sst_id,
                       next_wal_id, next_ts, synced, safe, requests, crashes>>

\* Wal::sync: flush the BufWriter, fsync.
SyncWal ==
    LET recs == wal_files[wal_id].recs
    IN  /\ wal_files' = [wal_files EXCEPT ![wal_id].synced = Len(recs)]
        /\ safe' = IF Listed(wal_id) THEN safe \cup Range(recs) ELSE safe

\* Lsm::sync, called by a client.
Sync ==
    /\ Up
    /\ SyncWal
    /\ synced' = synced \cup Range(wal_files[wal_id].recs)
    /\ UNCHANGED <<manifest, sst_files, status, pc, inner, next_ts, pending, applied,
                   requests, crashes>>

-----------------------------------------------------------------------------
(***************************************************************************)
(* rotate_memtable and flush_immutable, a file at a time.                  *)
(***************************************************************************)
Goto(from, to) == status = "up" /\ pc = from /\ pc' = to

RotateSync ==
    /\ Goto("rotate", "list_wal")
    /\ SyncWal
    /\ UNCHANGED <<manifest, sst_files, status, inner, next_ts, pending, applied,
                   synced, requests, crashes>>

\* allocate_wal_id and add_wal.
ListWal ==
    /\ Goto("list_wal", "create_wal")
    /\ manifest' = [manifest EXCEPT !.WAL = Append(@, next_wal_id)]
    /\ next_wal_id' = next_wal_id + 1
    /\ UNCHANGED <<wal_files, sst_files, status, memtable, size, imm, levels, wal_id, next_sst_id,
                   next_ts, pending, history>>

\* Wal::create truncates; the first rotation of a session gets the id, and so
\* the file, of the log it rotates away from.
CreateWal ==
    /\ Goto("create_wal", "write_sst")
    /\ wal_id' = next_wal_id - 1
    /\ wal_files' = [wal_files EXCEPT ![next_wal_id - 1] = EmptyWal]
    /\ UNCHANGED <<manifest, sst_files, status, memtable, size, imm, levels, next_sst_id,
                   next_wal_id, next_ts, pending, history>>

\* allocate_sst_id and the SSTableBuilder up to finish.
WriteSst ==
    /\ Goto("write_sst", "list_sst")
    /\ sst_files' = [sst_files EXCEPT ![next_sst_id] = BuildTable(imm)]
    /\ next_sst_id' = next_sst_id + 1
    /\ UNCHANGED <<manifest, wal_files, status, memtable, size, imm, levels, wal_id,
                   next_wal_id, next_ts, pending, history>>

\* Faulty variant of ListSst below: the table joins the levels in memory and
\* is not written to the manifest.
ListSstInMemory ==
    /\ Goto("list_sst", "idle")
    /\ levels' = Append(levels, next_sst_id - 1)
    /\ imm' = {}
    /\ safe' = safe \cup imm
    /\ UNCHANGED <<manifest, wal_files, sst_files, status, memtable, size, wal_id,
                   next_sst_id, next_wal_id, next_ts, pending, applied, synced, requests,
                   crashes>>

\* add_sst, and the table takes the place of the immutable memtable.
ListSst ==
    /\ Goto("list_sst", "idle")
    /\ manifest' = [manifest EXCEPT !.SST = Append(@, next_sst_id - 1)]
    /\ levels' = Append(levels, next_sst_id - 1)
    /\ imm' = {}
    /\ safe' = safe \cup imm
    /\ UNCHANGED <<wal_files, sst_files, status, memtable, size, wal_id, next_sst_id, next_wal_id,
                   next_ts, pending, applied, synced, requests, crashes>>

-----------------------------------------------------------------------------
\* The log as a crash leaves it: a prefix that holds all that was synced.
CutWal(w, n, torn) ==
    [recs |-> SubSeq(w.recs, 1, n), synced |-> n, torn |-> torn]

\* The process and everything in its memory is gone.
Die ==
    /\ status = "up" /\ status' = "down"
    /\ crashes < MaxCrashes /\ crashes' = crashes + 1
    /\ pc' = "idle" /\ pending' = {}
    /\ memtable' = {} /\ size' = 0 /\ imm' = {} /\ levels' = <<>>
    /\ UNCHANGED <<manifest, sst_files, wal_id, next_sst_id, next_wal_id, next_ts,
                   applied, synced, safe, requests>>

Crash ==
    LET w == wal_files[wal_id]
    IN  /\ Die
        /\ \E n \in w.synced .. Len(w.recs), torn \in BOOLEAN :
            /\ torn => n < Len(w.recs)
            /\ wal_files' = [wal_files EXCEPT ![wal_id] = CutWal(w, n, torn)]

\* The drop of an Lsm that nobody is using: Wal::drop syncs.
Close ==
    /\ Up /\ pending = {}
    /\ Die
    /\ wal_files' = [wal_files EXCEPT ![wal_id].synced = Len(wal_files[wal_id].recs)]

\* Faulty variant of NewWal below: the last listed log is taken up again.
LastWal == Max({1, NextId(manifest.WAL) - 1})

\* The id open gives to its new log.
NewWal == NextId(manifest.WAL)

\* The places in the listed logs, and the order in which open replays them.
Replayed == UNION {{i} \X DOMAIN wal_files[i].recs : i \in 1 .. NextId(manifest.WAL) - 1}

RecordAt(p) == wal_files[p[1]].recs[p[2]]

ReplayedAfter(p, q) == p[1] > q[1] \/ (p[1] = q[1] /\ p[2] > q[2])

\* The memtable after Wal::recover of each: the last record of a version stays.
Recovered ==
    {RecordAt(p) : p \in {q \in Replayed : \A r \in Replayed :
                            ReplayedAfter(r, q) => ~SameVersion(RecordAt(r), RecordAt(q))}}

\* Lsm::open on an existing directory.  The log of the next id is created,
\* truncating a file of that name, before the listed ones are read; a record
\* cut short makes open return the error.
Open ==
    /\ status # "up"
    /\ wal_files' = [wal_files EXCEPT ![NewWal] = EmptyWal]
    /\ \/ /\ \E i \in WalIds : Listed(i) /\ wal_files[i].torn
          /\ status' = "failed"
          /\ UNCHANGED <<inner, next_ts>>
       \/ /\ \A i \in WalIds : Listed(i) => ~wal_files[i].torn
          /\ status' = "up"
          /\ memtable' = Recovered
          /\ size' = Cardinality(Replayed)
          /\ imm' = {}
          /\ levels' = manifest.SST
          /\ wal_id' = NewWal
          /\ next_wal_id' = NextId(manifest.WAL)
          /\ next_sst_id' = NextId(manifest.SST)
          /\ next_ts' = 1
    /\ UNCHANGED <<manifest, sst_files, pc, pending, history>>

Next ==
    \/ \E k \in Keys : Put(k) \/ Delete(k)
    \/ \E b \in Batches : WriteBatch(b)
    \/ \E r \in pending : Apply(r)
    \/ Sync
    \/ RotateSync \/ ListWal \/ CreateWal \/ WriteSst \/ ListSst
    \/ Crash \/ Close \/ Open

Spec == Init /\ [][Next]_vars

-----------------------------------------------------------------------------
(***************************************************************************)
(* Lsm::get_at_ts: the memtable, the immutable one, then the tables from   *)
(* the newest to the oldest, where a tombstone does not end the search.    *)
(***************************************************************************)
\* MemTable::get_at_ts: the newest of the versions that ts sees.
Visible(mt, k, ts) == {e \in mt : e.key = k /\ e.ts <= ts}

Newest(S) == CHOOSE e \in S : \A f \in S : f.ts <= e.ts

TableAnswers(i, k) == get(sst_files[levels[i]], k)

\* Faulty variant of SearchTables below: the oldest table is searched first.
SearchTablesOldestFirst(k) ==
    LET passed(i) == \A j \in 1 .. i - 1 : NotFound \in TableAnswers(j, k)
        found == UNION {TableAnswers(i, k) \ {NotFound} : i \in {j \in DOMAIN levels : passed(j)}}
    IN  found \cup (IF passed(Len(levels) + 1) THEN {NotFound} ELSE {})

\* The first answer of a table, or none.
SearchTables(k) ==
    LET passed(i) == \A j \in i + 1 .. Len(levels) : NotFound \in TableAnswers(j, k)
        found == UNION {TableAnswers(i, k) \ {NotFound} : i \in {j \in DOMAIN levels : passed(j)}}
    IN  found \cup (IF passed(0) THEN {NotFound} ELSE {})

\* What a read may answer.
get_at_ts(k, ts) ==
    IF Visible(memtable, k, ts) # {} THEN {Newest(Visible(memtable, k, ts))}
    ELSE IF Visible(imm, k, ts) # {} THEN {Newest(Visible(imm, k, ts))}
    ELSE SearchTables(k)

\* A timestamp of the engine's oracle, above all those of storage.
EngineTs == MaxWrites * (1 + Max({0} \cup {Len(b) : b \in Batches}))

-----------------------------------------------------------------------------
Ops      == [key : Keys, live : BOOLEAN]
Entries  == [key : Keys, live : BOOLEAN, ts : Nat, n : Nat, after : Nat, session : Nat]
Requests == [kind : {"put", "delete", "batch"}, ops : Seq(Ops), ts : Nat, after : Nat]
Logs     == [recs : Seq(Entries), synced : Nat, torn : BOOLEAN]

TypeOK ==
    /\ manifest \in [SST : Seq(SstIds), WAL : Seq(WalIds)]
    /\ wal_files \in [WalIds -> Logs]
    /\ \A i \in WalIds : wal_files[i].synced <= Len(wal_files[i].recs)
    /\ sst_files \in [SstIds -> Seq(Entries)]
    /\ status \in {"up", "down", "failed"}
    /\ pc \in {"idle", "rotate", "list_wal", "create_wal", "write_sst", "list_sst"}
    /\ memtable \in SUBSET Entries /\ imm \in SUBSET Entries /\ size \in Nat
    /\ IsFiniteSet(memtable) /\ IsFiniteSet(imm)
    /\ levels \in Seq(SstIds)
    /\ wal_id \in WalIds /\ next_wal_id \in WalIds
    /\ next_sst_id \in 1 .. MaxSsts + 1
    /\ next_ts \in Nat
    /\ pending \in SUBSET Requests
    /\ applied \in SUBSET Entries /\ IsFiniteSet(applied)
    /\ synced \in SUBSET Entries /\ safe \in SUBSET Entries
    /\ requests \in Nat /\ crashes \in 0 .. MaxCrashes

\* v was in place before the request of w took its timestamp.
Before(v, w) == v.n <= w.after

\* Tables keep no timestamp: the one an entry was written with.
WrittenTs(v) == (CHOOSE e \in applied : e.n = v.n).ts

InTable(e, id) == \E i \in DOMAIN sst_files[id] : sst_files[id][i].n = e.n

Flushed(e) == \E i \in DOMAIN levels : InTable(e, levels[i])

SplitKey(k) == \E i \in DOMAIN levels : Split(sst_files[levels[i]], k)

\* A read sees every write this session applied before: it returns no entry
\* that was in place when the request of such a write began, and nothing only
\* if the last of them was a delete.  Rotations, in whatever order concurrent
\* writers got their timestamps and the lock, neither hide a write nor bring an
\* older one back, with three exceptions: a tombstone of the key is in a table,
\* its versions are in several blocks of one, or a reopen has recovered an entry
\* with a larger timestamp than the new writes get.
SessionReadsFresh ==
    Up => \A k \in Keys : \A v \in get_at_ts(k, EngineTs) :
        LET later == {w \in applied : w.key = k /\ w.session = crashes /\ Before(v, w)}
        IN  \/ later = {}
            \/ v = NotFound /\ \E d \in later : ~d.live /\ \A w \in later : ~Before(d, w)
            \/ \E d \in applied : d.key = k /\ ~d.live /\ Flushed(d)
            \/ SplitKey(k)
            \/ /\ v # NotFound /\ v.session < crashes
               /\ \A w \in later : w.ts <= WrittenTs(v)

\* The manifest in memory is what its file says, so that the ids given out and
\* the tables searched are the ones a reopen would find.
ManifestAgrees ==
    Up => /\ levels = manifest.SST
          /\ next_sst_id = NextId(manifest.SST) /\ next_wal_id = NextId(manifest.WAL)

\* The entry is in a file that open reads.
OnDisk(e) ==
    \/ \E i \in WalIds : Listed(i) /\ e \in Range(wal_files[i].recs)
    \/ \E i \in DOMAIN manifest.SST : InTable(e, manifest.SST[i])

\* What was flushed to a table, or synced after the first rotation of its
\* session, stays in a file that open reads, whatever crashes later and when.
SafeStaysOnDisk == \A e \in safe : OnDisk(e)

\* After a reopen, what a sync() of an earlier session covered is back in the
\* memtable or in a table.
SyncedIsRecovered ==
    Up => \A e \in synced : e.session < crashes => e \in memtable \/ Flushed(e)
=============================================================================
