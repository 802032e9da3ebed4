-------------------------------- MODULE Wal ---------------------------------
(***************************************************************************)
(* WalManager of crates/crabstash-storage/src/wal.rs on top of Wal: appends *)
(* by several threads, the sync modes, rotation to a new segment, the      *)
(* archive, crash and reopen, and what the recovery functions return.      *)
(*                                                                         *)
(* A record is the timestamp its caller gave it and counts one unit of     *)
(* size.  The manager's RwLock is taken for single steps: a fast append    *)
(* holds the read lock, so it sees one size and one segment.  The mutex of *)
(* Wal is held from the write of a record to the end of its sync; only a   *)
(* crash can come in between.                                              *)
(***************************************************************************)
EXTENDS Integers, Sequences, SequencesExt, FiniteSets, FiniteSetsExt, Functions

CONSTANTS
    Threads,
    Modes,                  \* the sync modes configured
    BatchLens,              \* records per call; one is append, more append_batch
    segment_size,           \* WalManagerOptions::segment_size_bytes, in records
    min_segments_to_keep,
    group_commit_size,
    MaxRecords,             \* bound: records handed to append
    MaxCrashes              \* bound: crashes and closes

ASSUME WalAssumption ==
    /\ Threads # {} /\ IsFiniteSet(Threads)
    /\ Modes \subseteq {"NoSync", "Sync", "GroupSync"}    \* DataSync is as Sync
    /\ BatchLens \subseteq Nat /\ \E n \in BatchLens : \A m \in BatchLens : m <= n
    /\ {segment_size, min_segments_to_keep, group_commit_size, MaxRecords, MaxCrashes}
            \subseteq Nat

VARIABLES
    wal_dir, archive,       \* the files of the two directories, by segment id
    mode, status,
    current_segment, current_size, first_segment,
    pc, records,            \* per thread: where it is, what it appends
    old_current, next_id,   \* per thread: its place in archive_old_segments
    log,                    \* history: appended and not lost, in that order
    acked,                  \* history: records whose append returned Ok
    lost,                   \* history: acknowledged records the last crash lost
    requested, crashes

files   == <<wal_dir, archive>>
manager == <<current_segment, current_size, first_segment>>
locals  == <<pc, records, old_current, next_id>>
history == <<log, acked, lost, requested, crashes>>
vars    == <<files, mode, status, manager, locals, history>>

\* A record in a file is whole, or a crash cut it inside its header or its body.
Record(ts, part) == [ts |-> ts, part |-> part]

\* A file: what was written to it, and how much of that is synced.
EmptySegment == [recs |-> <<>>, synced |-> 0]

\* A directory of one file, and the files of two, d's where both have an id
\* (the :> and @@ of TLC, which a proof cannot expand).
File(id, seg) == [i \in {id} |-> seg]

Join(d, e) == [i \in DOMAIN d \cup DOMAIN e |-> IF i \in DOMAIN d THEN d[i] ELSE e[i]]

Records  == [ts : 1 .. MaxRecords, part : {"whole", "header", "body"}]
Segments == [recs : Seq(Records), synced : Nat]

Pcs == { "idle", "check", "fast_sync", "count", "rotate", "read_current", "load_first",
         "exists", "rename", "slow_append", "slow_sync" }

\* A directory: files with positive ids, of which no more is synced than is there.
IsDirectory(dir) ==
    /\ DOMAIN dir \subseteq Nat \ {0} /\ dir \in [DOMAIN dir -> Segments]
    /\ \A i \in DOMAIN dir : dir[i].synced <= Len(dir[i].recs)

TypeOK ==
    /\ IsDirectory(wal_dir) /\ IsDirectory(archive)
    /\ mode \in Modes /\ status \in {"up", "down"}
    /\ current_segment \in DOMAIN wal_dir
    /\ current_size \in Nat /\ first_segment \in Nat
    /\ pc \in [Threads -> Pcs]
    /\ records \in [Threads -> Seq(Records)]
    /\ old_current \in [Threads -> Nat] /\ next_id \in [Threads -> Nat]
    /\ log \in Seq([seg : Nat, ts : 1 .. MaxRecords])
    /\ acked \in SUBSET (1 .. MaxRecords) /\ lost \in SUBSET (1 .. MaxRecords)
    /\ requested \in 0 .. MaxRecords /\ crashes \in Nat

Init ==
    /\ wal_dir = File(1, EmptySegment) /\ archive = <<>>
    /\ mode \in Modes /\ status = "up"
    /\ current_segment = 1 /\ current_size = 0 /\ first_segment = 1
    /\ pc = [t \in Threads |-> "idle"] /\ records = [t \in Threads |-> <<>>]
    /\ old_current = [t \in Threads |-> 0] /\ next_id = [t \in Threads |-> 0]
    /\ log = <<>> /\ acked = {} /\ lost = {}
    /\ requested = 0 /\ crashes = 0

Current == wal_dir[current_segment]

Goto(t, from, to) == status = "up" /\ pc[t] = from /\ pc' = [pc EXCEPT ![t] = to]

\* The call of t returns; its locals are gone.
Return(t, from) ==
    /\ Goto(t, from, "idle")
    /\ records' = [records EXCEPT ![t] = <<>>]
    /\ old_current' = [old_current EXCEPT ![t] = 0]
    /\ next_id' = [next_id EXCEPT ![t] = 0]

\* The mutex of the current Wal is free.
WalFree == \A t \in Threads : pc[t] \notin {"fast_sync", "slow_sync"}

-----------------------------------------------------------------------------
\* append and append_batch: the call begins.
Call(t) ==
    \E n \in BatchLens :
        /\ Goto(t, "idle", "check")
        /\ requested + n <= MaxRecords /\ requested' = requested + n
        /\ records' = [records EXCEPT ![t] = [i \in 1 .. n |-> Record(requested + i, "whole")]]
        /\ UNCHANGED <<files, mode, status, manager, old_current, next_id, log, acked,
                       lost, crashes>>

\* Wal::append_internal and append_batch up to the sync: into the BufWriter.
Write(t) ==
    /\ WalFree
    /\ wal_dir' = [wal_dir EXCEPT ![current_segment].recs = @ \o records[t]]
    /\ log' = log \o [i \in DOMAIN records[t] |->
                         [seg |-> current_segment, ts |-> records[t][i].ts]]
    /\ UNCHANGED <<archive, mode, status, first_segment, records, old_current, next_id, acked,
                   lost, requested, crashes>>

\* The fast path, under the read lock.
FastAppend(t) ==
    /\ Goto(t, "check", "fast_sync")
    /\ current_size + Len(records[t]) <= segment_size
    /\ Write(t)
    /\ UNCHANGED <<current_segment, current_size>>

\* The segment is full.
NoRoom(t) ==
    /\ Goto(t, "check", "rotate")
    /\ current_size + Len(records[t]) > segment_size
    /\ UNCHANGED <<files, mode, status, manager, records, old_current, next_id, history>>

\* Faulty variant of Synced below: one record more than there is.
SyncedOneMore(s) == [s EXCEPT !.synced = Len(s.recs) + 1]

Synced(s) == [s EXCEPT !.synced = Len(s.recs)]

\* Faulty variant of MustSync below: the group is synced one record late.
MustSyncAbove ==
    \/ mode = "Sync"
    \/ mode = "GroupSync" /\ Len(Current.recs) - Current.synced > group_commit_size

\* maybe_sync_internal.  pending_bytes is what was written since the last sync.
MustSync ==
    \/ mode = "Sync"
    \/ mode = "GroupSync" /\ Len(Current.recs) - Current.synced >= group_commit_size

MaybeSync ==
    /\ wal_dir' = IF MustSync THEN [wal_dir EXCEPT ![current_segment] = Synced(@)] ELSE wal_dir
    /\ UNCHANGED <<archive, mode, status, current_segment, first_segment, log, lost, requested,
                   crashes>>

FastSync(t) ==
    /\ Goto(t, "fast_sync", "count")
    /\ MaybeSync
    /\ UNCHANGED <<current_size, records, old_current, next_id, acked>>

Timestamps(recs) == {recs[i].ts : i \in DOMAIN recs}

Ack(t) == acked' = acked \cup Timestamps(records[t])

\* Faulty variant of Count below: the size is not brought up to date.
CountNothing(t) ==
    /\ Return(t, "count")
    /\ Ack(t)
    /\ UNCHANGED <<files, mode, status, manager, log, lost, requested, crashes>>

\* The write lock is taken anew to add the size, to whatever segment is current
\* by then.
Count(t) ==
    /\ Return(t, "count")
    /\ current_size' = current_size + Len(records[t])
    /\ Ack(t)
    /\ UNCHANGED <<files, mode, status, current_segment, first_segment, log, lost, requested,
                   crashes>>

-----------------------------------------------------------------------------
(***************************************************************************)
(* rotate_segment and archive_old_segments.                                *)
(***************************************************************************)
\* Whether there still is no room is not asked again.
Rotate(t) ==
    /\ Goto(t, "rotate", "read_current")
    /\ WalFree
    /\ wal_dir' = Join(File(current_segment + 1, EmptySegment),
                       [wal_dir EXCEPT ![current_segment] = Synced(@)])
    /\ current_segment' = current_segment + 1
    /\ current_size' = 0
    /\ UNCHANGED <<archive, mode, status, first_segment, records, old_current, next_id, history>>

ReadCurrent(t) ==
    /\ Goto(t, "read_current", "load_first")
    /\ old_current' = [old_current EXCEPT ![t] = current_segment]
    /\ UNCHANGED <<files, mode, status, manager, records, next_id, history>>

\* Without an archive directory the code goes on to the append, as it does here
\* when all segments are to be kept.
LoadFirst(t) ==
    /\ Goto(t, "load_first",
            IF old_current[t] <= first_segment + min_segments_to_keep
            THEN "slow_append" ELSE "exists")
    /\ next_id' = [next_id EXCEPT ![t] = first_segment]
    /\ UNCHANGED <<files, mode, status, manager, records, old_current, history>>

\* Faulty variant of archive_up_to below: one segment too many, the current one
\* if none is to be kept.
archive_one_more(t) == old_current[t] - min_segments_to_keep + 1

archive_up_to(t) == old_current[t] - min_segments_to_keep

\* src_path.exists(), for the next segment of the loop.
Exists(t) ==
    /\ next_id[t] < archive_up_to(t)
    /\ Goto(t, "exists", IF next_id[t] \in DOMAIN wal_dir THEN "rename" ELSE "exists")
    /\ next_id' = [next_id EXCEPT ![t] = IF next_id[t] \in DOMAIN wal_dir THEN @ ELSE @ + 1]
    /\ UNCHANGED <<files, mode, status, manager, records, old_current, history>>

Rename(t) ==
    /\ next_id[t] \in DOMAIN wal_dir
    /\ Goto(t, "rename", "exists")
    /\ archive' = Join(File(next_id[t], wal_dir[next_id[t]]), archive)
    /\ wal_dir' = Restrict(wal_dir, DOMAIN wal_dir \ {next_id[t]})
    /\ next_id' = [next_id EXCEPT ![t] = @ + 1]
    /\ UNCHANGED <<mode, status, manager, records, old_current, history>>

\* Another thread moved the file after exists(): append returns the error, and
\* its records are not written.
RenameFails(t) ==
    /\ next_id[t] \notin DOMAIN wal_dir
    /\ Return(t, "rename")
    /\ UNCHANGED <<files, mode, status, manager, history>>

StoreFirst(t) ==
    /\ next_id[t] >= archive_up_to(t)
    /\ Goto(t, "exists", "slow_append")
    /\ first_segment' = archive_up_to(t)
    /\ UNCHANGED <<files, mode, status, current_segment, current_size, records, old_current,
                   next_id, history>>

\* The slow path, under the write lock up to SlowSync: no second look at the
\* size, and append_batch counts its records twice.
SlowAppend(t) ==
    /\ Goto(t, "slow_append", "slow_sync")
    /\ Write(t)
    /\ UNCHANGED <<current_segment, current_size>>

SlowSync(t) ==
    /\ Return(t, "slow_sync")
    /\ MaybeSync
    /\ current_size' = current_size +
           (IF Len(records[t]) = 1 THEN 1 ELSE 2 * Len(records[t]))
    /\ Ack(t)

\* WalManager::sync.
Sync ==
    /\ status = "up" /\ WalFree
    /\ wal_dir' = [wal_dir EXCEPT ![current_segment] = Synced(@)]
    /\ UNCHANGED <<archive, mode, status, manager, locals, history>>

-----------------------------------------------------------------------------
\* The process ends; the first n records of the current file are left, and a
\* fragment of the next.
End(n, fragment) ==
    LET gone == SubSeq(Current.recs, n + 1, Len(Current.recs))
        left == SubSeq(Current.recs, 1, n) \o fragment
    IN  /\ status = "up" /\ status' = "down"
        /\ crashes < MaxCrashes /\ crashes' = crashes + 1
        /\ wal_dir' = [wal_dir EXCEPT ![current_segment] =
               [recs |-> left, synced |-> Len(left)]]
        /\ log' = SubSeq(log, 1, Len(log) - Len(gone))
        /\ lost' = Timestamps(gone) \cap acked
        /\ pc' = [t \in Threads |-> "idle"] /\ records' = [t \in Threads |-> <<>>]
        /\ old_current' = [t \in Threads |-> 0] /\ next_id' = [t \in Threads |-> 0]
        /\ UNCHANGED <<archive, mode, manager, acked, requested>>

\* What was synced stays; of the rest a prefix.
Crash ==
    \E n \in Current.synced .. Len(Current.recs) :
        \/ End(n, <<>>)
        \/ /\ n < Len(Current.recs)
           /\ \E part \in {"header", "body"} :
                  End(n, <<Record(Current.recs[n + 1].ts, part)>>)

\* Wal::drop, when no call is running.
Close ==
    /\ \A t \in Threads : pc[t] = "idle"
    /\ End(Len(Current.recs), <<>>)

\* Faulty variant of TakeUp below: the file is created anew, as for a rotation.
TakeUpAnew(id) == wal_dir' = Join(File(id, EmptySegment), wal_dir)

\* Wal::open_with_options: created if it is not there, appended to if it is.
TakeUp(id) == wal_dir' = Join(wal_dir, File(id, EmptySegment))

\* find_latest_segment: the last id and the first.
Latest == IF DOMAIN wal_dir = {} THEN 1 ELSE Max(DOMAIN wal_dir)
First  == IF DOMAIN wal_dir = {} THEN 1 ELSE Min(DOMAIN wal_dir)

\* WalManager::open on an existing directory.
Open ==
    /\ status = "down" /\ status' = "up"
    /\ current_segment' = Latest /\ first_segment' = First
    /\ current_size' = IF Latest \in DOMAIN wal_dir THEN Len(wal_dir[Latest].recs) ELSE 0
    /\ TakeUp(Latest)
    /\ UNCHANGED <<archive, mode, locals, history>>

ThreadStep(t) ==
    \/ Call(t) \/ FastAppend(t) \/ FastSync(t) \/ Count(t)
    \/ NoRoom(t) \/ Rotate(t) \/ ReadCurrent(t) \/ LoadFirst(t) \/ Exists(t)
    \/ Rename(t) \/ RenameFails(t) \/ StoreFirst(t) \/ SlowAppend(t) \/ SlowSync(t)

Next == (\E t \in Threads : ThreadStep(t)) \/ Sync \/ Crash \/ Close \/ Open

Spec == Init /\ [][Next]_vars

-----------------------------------------------------------------------------
(***************************************************************************)
(* Recovery, from the files of a manager that is closed.                   *)
(***************************************************************************)
\* Wal::recover: a file that ends inside a header is read up to there; a record
\* cut in its body, or in front of others, is an error.
Readable(s) ==
    \A i \in DOMAIN s.recs :
        s.recs[i].part = "whole" \/ (s.recs[i].part = "header" /\ i = Len(s.recs))

\* Faulty variant of Recoverable below: the first segment that cannot be read
\* ends the recovery.
RecoverableUntilError(dir) ==
    {i \in DOMAIN dir : \A j \in DOMAIN dir : j <= i => Readable(dir[j])}

\* The segments of one or two directories that can be read; the others are left
\* out with a warning.
Recoverable(dir) == {i \in DOMAIN dir : Readable(dir[i])}

\* The places of the whole records in them: segment and place in the segment.
Places(dir) ==
    UNION {{<<i, q>> : q \in {q \in DOMAIN dir[i].recs : dir[i].recs[q].part = "whole"}} :
               i \in Recoverable(dir)}

At(dir, place) == dir[place[1]].recs[place[2]]

\* The files are read by segment id, and each from the front.
Before(p, r) == p[1] < r[1] \/ (p[1] = r[1] /\ p[2] < r[2])

Below(S, p) == {r \in S : Before(r, p)}

Nth(S, k) == CHOOSE p \in S : Cardinality(Below(S, p)) = k - 1

\* What is read at a set of places.
ReadInOrder(dir, S) == [k \in 1 .. Cardinality(S) |-> At(dir, Nth(S, k))]

\* Faulty variant of recover_from_timestamp below: the bound is exclusive.
recover_after_timestamp(min) ==
    ReadInOrder(wal_dir, {p \in Places(wal_dir) : At(wal_dir, p).ts > min})

recover_from_timestamp(min) ==
    ReadInOrder(wal_dir, {p \in Places(wal_dir) : At(wal_dir, p).ts >= min})

\* dedup_by_key keeps the first of two files with one id, the archived one.
AllFiles == Join(archive, wal_dir)

recover_pitr(target) ==
    ReadInOrder(AllFiles, {p \in Places(AllFiles) : At(AllFiles, p).ts <= target})

-----------------------------------------------------------------------------
\* Whatever was rotated, moved, crashed and reopened, and whoever raced whom:
\* recovery to a point in time returns every record up to it that was appended
\* and not lost with an unsynced tail, once, in the order they were appended.
\* Only the records of a file that a crash cut inside a record are missing.
PitrIsComplete ==
    status = "down" => \A target \in 0 .. MaxRecords :
        LET kept  == {p \in DOMAIN log :
                         log[p].ts <= target /\ Readable(AllFiles[log[p].seg])}
            found == recover_pitr(target)
        IN  /\ Len(found) = Cardinality(kept)
            /\ \A p \in kept :
                   found[Cardinality(kept \cap (1 .. p))] = Record(log[p].ts, "whole")

\* Recovery from a timestamp on, which does not look into the archive, returns
\* the end of what both directories hold, and the last segments are always part
\* of it.
RecentIsRecovered ==
    status = "down" => \A min \in 0 .. MaxRecords :
        LET found == recover_from_timestamp(min)
            all   == {p \in Places(AllFiles) : At(AllFiles, p).ts >= min}
        IN  /\ IsSuffix(found, ReadInOrder(AllFiles, all))
            /\ \A e \in Range(log) :
                   /\ e.ts >= min
                   /\ e.seg + min_segments_to_keep >= current_segment
                   /\ Readable(AllFiles[e.seg])
                   => e.ts \in Timestamps(found)

\* A crash loses no acknowledged record in the mode Sync and fewer than
\* group_commit_size of them in the mode GroupSync.
LossIsBounded ==
    /\ mode = "Sync" => lost = {}
    /\ mode = "GroupSync" => Cardinality(lost) < Max({group_commit_size, 1})

\* A segment takes what fits, or the one call that is longer than any segment.
\* Threads that check the size before others have counted theirs, or rotate one
\* after the other, overfill it by at most one call each but the first.
SegmentsBounded ==
    \A i \in DOMAIN AllFiles :
        Len(AllFiles[i].recs) <=
            Max({segment_size, Max(BatchLens)}) + (Cardinality(Threads) - 1) * Max(BatchLens)

\* Every segment up to the current one is in exactly one of the directories;
\* the last ones stay where recover_from_timestamp looks, and none before
\* first_segment, which a slower thread may set back, does.
ArchiveIsOld ==
    status = "up" =>
        /\ DOMAIN wal_dir \cup DOMAIN archive = 1 .. current_segment
        /\ DOMAIN wal_dir \cap DOMAIN archive = {}
        /\ \A i \in 1 .. current_segment :
               /\ i + min_segments_to_keep >= current_segment => i \in DOMAIN wal_dir
               /\ i < first_segment => i \in DOMAIN archive

\* What is synced is never taken back: no step of any thread, crash or reopen
\* shortens or changes the synced part of a segment.
SyncedPartKept ==
    [][\A i \in DOMAIN AllFiles :
           /\ i \in DOMAIN AllFiles'
           /\ IsPrefix(SubSeq(AllFiles[i].recs, 1, AllFiles[i].synced), AllFiles'[i].recs)]_vars
=============================================================================
