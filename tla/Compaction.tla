----------------------------- MODULE Compaction -----------------------------
(***************************************************************************)
(* The compaction thread of crates/crabstash-storage/src (compaction.rs    *)
(* and compaction_loop of lsm.rs) beside the flushes of the Lsm: two       *)
(* threads of one process that share a directory of tables and the file    *)
(* MANIFEST, each with a copy of the manifest of its own.                  *)
(*                                                                         *)
(* A table says for each key which flush its newest version is of, 0 if it *)
(* is not there.  The memtable and the logs are those of Lsm.tla and left  *)
(* out.  pick_compaction looks at deeper levels when level 1 has more than *)
(* ten tables, which the bound on the flushes keeps out of reach.          *)
(***************************************************************************)
EXTENDS Integers, Sequences, SequencesExt, FiniteSets, FiniteSetsExt

CONSTANTS
    Keys,
    FlushedKeys,    \* for each flush the sets of keys its memtable may hold
    Trigger,        \* LEVEL0_COMPACTION_TRIGGER
    MaxFlushes,     \* bound: rotations
    MaxCrashes,     \* bound: crashes and closes
    MaxId           \* bound: table ids, which have one digit

ASSUME CompactionAssumption ==
    /\ {MaxFlushes, MaxCrashes} \subseteq Nat /\ Trigger \in Nat \ {0}
    /\ FlushedKeys \in [1 .. MaxFlushes -> SUBSET SUBSET Keys]
    /\ MaxId \in 1 .. 9

VARIABLES
    \* Files.
    manifest,       \* the lines of MANIFEST
    garbled,        \* it also has a line no load can read
    dir,            \* the inode under each table's name, 0 if there is none
    disk,           \* the contents of each inode
    \* The Lsm.
    status,         \* "up", "closing", "down", "failed"
    cursor,         \* lines before its place in MANIFEST, -1 for the end
    fpc, flushing,  \* the flush under way: its step, its table, id and inode
    imms,           \* immutable memtables, oldest first
    levels,         \* its open tables
    next_sst_id, next_wal_id,
    \* The compaction thread.
    cpc,            \* its step, or "exited" or "panicked"
    work,           \* work_available
    own,            \* its copy of the manifest
    inputs, output, \* open inputs; the id, inode and contents of the result
    done,           \* how many inputs have been removed
    \* History and bounds.
    newest,         \* for each key its last flush in this session
    listed,         \* keys of the tables that were ever listed
    reused,         \* an id was given out twice
    orphaned,       \* a crash came between the first remove_sst and add_sst
    flushes, crashes

files   == <<manifest, garbled, dir, disk>>
lsm     == <<status, cursor, fpc, flushing, imms, levels, next_sst_id, next_wal_id>>
thread  == <<cpc, work, own, inputs, output, done>>
history == <<newest, listed, reused, orphaned, flushes, crashes>>
vars    == <<files, lsm, thread, history>>

Ids == 1 .. MaxId

NoTable == [k \in Keys |-> 0]

\* What a file holds: nothing yet, a table, or bytes of two tables.
Content(is, table) == [is |-> is, table |-> table]
Partial == Content("partial", NoTable)
Garbage == Content("garbage", NoTable)
Whole(table) == Content("whole", table)

\* An open table: what its file holds and what its builder wrote.
Handle(id, built) ==
    [id |-> id, inode |-> dir[id], content |-> disk[dir[id]], built |-> built]

Reopened(id) == Handle(id, disk[dir[id]])

NoFlush  == [id |-> 0, inode |-> 0, table |-> NoTable]
NoOwn    == [listed |-> [l \in 0 .. 1 |-> {}], next |-> 0]
NoOutput == [id |-> 0, inode |-> 0]

Init ==
    /\ manifest = <<>> /\ garbled = FALSE /\ dir = [i \in Ids |-> 0] /\ disk = <<>>
    /\ status = "up" /\ cursor = 0
    /\ fpc = "idle" /\ flushing = NoFlush
    /\ imms = <<>> /\ levels = [l \in 0 .. 1 |-> <<>>]
    /\ next_sst_id = 1 /\ next_wal_id = 1
    /\ cpc = "wait" /\ work = FALSE
    /\ own = NoOwn /\ inputs = <<>> /\ output = NoOutput /\ done = 0
    /\ newest = NoTable /\ listed = {}
    /\ reused = FALSE /\ orphaned = FALSE
    /\ flushes = 0 /\ crashes = 0

-----------------------------------------------------------------------------
(***************************************************************************)
(* MANIFEST.  Manifest::create does not open the file for appending, so    *)
(* the Lsm that created it writes where its last line ended and over what  *)
(* the compaction thread has appended since.                               *)
(*                                                                         *)
(* writeln! writes a line in pieces.  A line is in manifest from its last  *)
(* piece on; from the moment a thread is at the line, the others may be in *)
(* the file.  load unwraps every number of a line that starts with a       *)
(* keyword, so half a line makes it panic, as do for ever the pieces that  *)
(* two threads have appended among each other and those a crash leaves.    *)
(***************************************************************************)
SstLine(level, id) == [kind |-> "SST", level |-> level, id |-> id]
DelLine(level, id) == [kind |-> "DEL", level |-> level, id |-> id]
WalLine(id)        == [kind |-> "WAL", level |-> 0, id |-> id]

\* "SST:0:1\n" has eight bytes, "WAL:1\n" has six: four pairs, and three.  A line
\* in the file may have lost some of its first pairs to a line written over it.
Pairs(line) == IF line.kind = "WAL" THEN 3 ELSE 4

InFile(line) == [line |-> line, lost |-> 0]

\* The rest of a file n pairs further on, within its first line or its second:
\* every line that is written over has four pairs.
Skip(n, rest) ==
    LET left      == Pairs(Head(rest).line) - Head(rest).lost
        cut(r, k) == <<[Head(r) EXCEPT !.lost = @ + k]>> \o Tail(r)
    IN  IF rest = <<>> THEN <<>>
        ELSE IF n < left THEN cut(rest, n)
        ELSE IF n = left \/ Tail(rest) = <<>> THEN Tail(rest)
        ELSE cut(Tail(rest), n - left)

\* The Lsm may be at a line of add_wal or add_sst, the thread is at one of
\* remove_sst or add_sst.
LsmInLine    == fpc = "list" \/ (fpc = "idle" /\ status = "up" /\ flushes < MaxFlushes)
ThreadInLine == cpc = "delete"

\* Both append, and the pieces of the other's line come between those of this one.
\* Where the Lsm writes at its own place, its line is what stays there.
MayGarble(other) ==
    \/ UNCHANGED garbled
    \/ other /\ cursor = -1 /\ garbled' = TRUE

AtTheEnd(line) == manifest' = Append(manifest, InFile(line))

AppendLine(line) == AtTheEnd(line) /\ MayGarble(LsmInLine)

LsmWrites(line) ==
    /\ MayGarble(ThreadInLine)
    /\ \/ /\ cursor = -1
          /\ AtTheEnd(line)
          /\ UNCHANGED cursor
       \/ /\ cursor # -1
          /\ manifest' = SubSeq(manifest, 1, cursor) \o <<InFile(line)>>
                 \o Skip(Pairs(line), SubSeq(manifest, cursor + 1, Len(manifest)))
          /\ cursor' = cursor + 1

\* A line that load understands: the end of a line that was written over does not
\* start with a keyword and is passed over.
Complete(line) == {p \in DOMAIN manifest : manifest[p] = InFile(line)}

IdAt(p) == manifest[p].line.id

NextId(kind) ==
    Max({0} \cup {IdAt(p) : p \in {q \in DOMAIN manifest :
                                   manifest[q].lost = 0 /\ manifest[q].line.kind = kind}}) + 1

\* Manifest::load: a level has the tables listed for it and not deleted later,
\* in the order of their lines.
Listed(level) ==
    {p \in DOMAIN manifest :
        /\ p \in Complete(SstLine(level, IdAt(p)))
        /\ \A q \in Complete(DelLine(level, IdAt(p))) : q < p}

Below(S, p) == {q \in S : q < p}

Nth(S, n) == CHOOSE p \in S : Cardinality(Below(S, p)) = n - 1

IdsAt(S) == [n \in 1 .. Cardinality(S) |-> IdAt(Nth(S, n))]

ListedIds(level) == {IdAt(p) : p \in Listed(level)}

Load == [listed |-> [l \in 0 .. 1 |-> ListedIds(l)], next |-> NextId("SST")]

-----------------------------------------------------------------------------
(***************************************************************************)
(* Table files.                                                            *)
(***************************************************************************)
\* File::create: the file of that name is truncated, or a new one made.
Create(id) ==
    IF dir[id] # 0
    THEN disk' = [disk EXCEPT ![dir[id]] = Partial] /\ UNCHANGED dir
    ELSE disk' = Append(disk, Partial) /\ dir' = [dir EXCEPT ![id] = Len(disk) + 1]

InodeOf(id) == IF dir[id] # 0 THEN dir[id] ELSE Len(disk) + 1

\* SSTableBuilder::finish.  When the other thread builds in the same file, the
\* bytes of both may be left.
Finish(inode, other, table) ==
    \E c \in IF disk[inode] = Partial /\ inode # other
             THEN {Whole(table)} ELSE {Whole(table), Garbage} :
        disk' = [disk EXCEPT ![inode] = c]

\* SSTable::open.  In a file with bytes of two tables decode_metadata follows
\* lengths that are not lengths: an error or a panic.
CanOpen(id) == dir[id] # 0 /\ disk[dir[id]].is = "whole"

MayPanic(id) == dir[id] # 0 /\ disk[dir[id]] = Garbage

\* The id is, or has been, in the manifest, or the other thread is using it.
GivenOut(id) ==
    \/ \E i \in DOMAIN manifest : manifest[i].line.kind = "SST" /\ manifest[i].line.id = id
    \/ id \in {flushing.id, output.id}

-----------------------------------------------------------------------------
(***************************************************************************)
(* rotate_memtable and flush_immutable, under the write lock.              *)
(***************************************************************************)
Rotate ==
    /\ status = "up" /\ fpc = "idle" /\ fpc' = "create"
    /\ flushes < MaxFlushes /\ flushes' = flushes + 1
    /\ LsmWrites(WalLine(next_wal_id))
    /\ next_wal_id' = next_wal_id + 1
    /\ \E ks \in FlushedKeys[flushes + 1] :
        LET table == [k \in Keys |-> IF k \in ks THEN flushes + 1 ELSE 0]
        IN  /\ flushing' = [NoFlush EXCEPT !.table = table]
            /\ imms' = Append(imms, table)
            /\ newest' = [k \in Keys |-> IF k \in ks THEN flushes + 1 ELSE newest[k]]
    /\ UNCHANGED <<dir, disk, status, levels, next_sst_id, thread, listed, reused, orphaned,
                   crashes>>

CreateTable ==
    /\ fpc = "create" /\ fpc' = "finish"
    /\ next_sst_id \in Ids
    /\ Create(next_sst_id)
    /\ flushing' = [flushing EXCEPT !.id = next_sst_id, !.inode = InodeOf(next_sst_id)]
    /\ next_sst_id' = next_sst_id + 1
    /\ reused' = (reused \/ GivenOut(next_sst_id))
    /\ UNCHANGED <<manifest, garbled, status, cursor, imms, levels, next_wal_id, thread, newest,
                   listed, orphaned, flushes, crashes>>

FinishTable ==
    /\ fpc = "finish" /\ fpc' = "list"
    /\ Finish(flushing.inode, output.inode, flushing.table)
    /\ UNCHANGED <<manifest, garbled, dir, status, cursor, flushing, imms, levels, next_sst_id,
                   next_wal_id, thread, history>>

\* Manifest::add_sst.
ListTable ==
    /\ fpc = "list" /\ fpc' = "open"
    /\ LsmWrites(SstLine(0, flushing.id))
    /\ listed' = listed \cup {k \in Keys : flushing.table[k] # 0}
    /\ UNCHANGED <<dir, disk, status, flushing, imms, levels, next_sst_id, next_wal_id,
                   thread, newest, reused, orphaned, flushes, crashes>>

\* notify_compaction: a thread that is not waiting finds only the flag.
Notify ==
    /\ work' = TRUE
    /\ cpc' = IF cpc = "wait" THEN "woken" ELSE cpc

\* Faulty variant of OpenTable below: the levels are taken from the manifest,
\* the thread's results included.
OpenListed ==
    /\ fpc = "open" /\ fpc' = "idle"
    /\ CanOpen(flushing.id)
    /\ levels' = [l \in 0 .. 1 |->
           LET there == IdsAt({p \in Listed(l) : CanOpen(IdAt(p))})
           IN  [i \in DOMAIN there |-> Reopened(there[i])]]
    /\ imms' = Front(imms)
    /\ Notify
    /\ flushing' = NoFlush
    /\ UNCHANGED <<files, status, cursor, next_sst_id, next_wal_id, own, inputs, output, done,
                   history>>

\* The memtable it was made of is the last, for one flush ends before the next
\* begins.
OpenTable ==
    /\ fpc = "open" /\ fpc' = "idle"
    /\ CanOpen(flushing.id)
    /\ levels' = [levels EXCEPT ![0] = Append(@, Handle(flushing.id, Whole(flushing.table)))]
    /\ imms' = Front(imms)
    /\ Notify
    /\ flushing' = NoFlush
    /\ UNCHANGED <<files, status, cursor, next_sst_id, next_wal_id, own, inputs, output, done,
                   history>>

\* The error or panic goes to the caller of put; the immutable memtable stays.
OpenTableFails ==
    /\ fpc = "open" /\ fpc' = "idle"
    /\ ~CanOpen(flushing.id)
    /\ flushing' = NoFlush
    /\ UNCHANGED <<files, status, cursor, imms, levels, next_sst_id, next_wal_id, thread, history>>

-----------------------------------------------------------------------------
(***************************************************************************)
(* compaction_loop and Compactor::compact.                                 *)
(***************************************************************************)
Thread(from, to) == status \in {"up", "closing"} /\ cpc = from /\ cpc' = to

\* Faulty variant of Wake below: the shutdown flag is not looked at.
WakeToWork(timed_out) ==
    /\ cpc = IF timed_out THEN "wait" ELSE "woken"
    /\ status \in {"up", "closing"}
    /\ cpc' = IF timed_out /\ ~work THEN "wait" ELSE "pick"
    /\ work' = IF cpc' = "pick" THEN FALSE ELSE work
    /\ UNCHANGED <<files, lsm, own, inputs, output, done, history>>

\* wait_for returns, notified or after a second; shutdown comes first.
Wake(timed_out) ==
    /\ cpc = IF timed_out THEN "wait" ELSE "woken"
    /\ status \in {"up", "closing"}
    /\ cpc' = CASE status = "closing" -> "exited"
                [] timed_out /\ ~work -> "wait"
                [] OTHER -> "pick"
    /\ work' = IF cpc' = "pick" THEN FALSE ELSE work
    /\ UNCHANGED <<files, lsm, own, inputs, output, done, history>>

\* Faulty variant of TimeOut below: after a timeout the flag is not looked at.
TimeOutIdle ==
    /\ Thread("wait", IF status = "closing" THEN "exited" ELSE "wait")
    /\ UNCHANGED <<files, lsm, work, own, inputs, output, done, history>>

TimeOut == Wake(TRUE)

\* Faulty variant of Pick below: level 1 is not merged again.
PickLevelZero ==
    LET ids == IdsAt(Listed(0))
    IN  /\ ~garbled
        /\ Thread("pick", IF Len(ids) >= Trigger THEN "load" ELSE "wait")
        /\ inputs' = IF cpc' = "load" THEN [i \in DOMAIN ids |-> [id |-> ids[i]]] ELSE <<>>
        /\ UNCHANGED <<files, lsm, work, own, output, done, history>>

\* Manifest::open and pick_compaction.
Pick ==
    LET ids == IdsAt(Listed(0)) \o IdsAt(Listed(1))
    IN  /\ ~garbled
        /\ Thread("pick", IF Cardinality(Listed(0)) >= Trigger THEN "load" ELSE "wait")
        /\ inputs' = IF cpc' = "load" THEN [i \in DOMAIN ids |-> [id |-> ids[i]]] ELSE <<>>
        /\ UNCHANGED <<files, lsm, work, own, output, done, history>>

\* The second Manifest::open.
LoadAgain ==
    /\ ~garbled
    /\ Thread("load", "inputs")
    /\ own' = Load
    /\ UNCHANGED <<files, lsm, work, inputs, output, done, history>>

\* What the thread knows between two rounds: nothing.
Forget == own' = NoOwn /\ inputs' = <<>> /\ output' = NoOutput /\ done' = 0

\* Nothing catches a panic of the thread, and no other thread is started.
LoadPanics ==
    /\ garbled \/ LsmInLine
    /\ \E step \in {"pick", "load"} : Thread(step, "panicked")
    /\ Forget
    /\ UNCHANGED <<files, lsm, work, history>>

OpenInputs ==
    /\ Thread("inputs", "output")
    /\ \A i \in DOMAIN inputs : CanOpen(inputs[i].id)
    /\ inputs' = [i \in DOMAIN inputs |-> Reopened(inputs[i].id)]
    /\ UNCHANGED <<files, lsm, work, own, output, done, history>>

OpenInputsFails ==
    /\ Thread("inputs", "wait")
    /\ \E i \in DOMAIN inputs : ~CanOpen(inputs[i].id)
    /\ Forget
    /\ UNCHANGED <<files, lsm, work, history>>

OpenInputsPanics ==
    /\ Thread("inputs", "panicked")
    /\ \E i \in DOMAIN inputs :
           MayPanic(inputs[i].id) /\ \A j \in 1 .. i - 1 : CanOpen(inputs[j].id)
    /\ Forget
    /\ UNCHANGED <<files, lsm, work, history>>

\* allocate_sst_id from its own copy, SSTableBuilder::new.
CreateOutput ==
    /\ Thread("output", "merge")
    /\ own.next \in Ids
    /\ Create(own.next)
    /\ output' = [id |-> own.next, inode |-> InodeOf(own.next)]
    /\ reused' = (reused \/ GivenOut(own.next))
    /\ UNCHANGED <<manifest, garbled, lsm, work, own, inputs, done, newest, listed, orphaned, flushes,
                   crashes>>

Has(i, k) == inputs[i].content.table[k] # 0

\* Faulty variant of Merged below: the last input is left out.
MergedButLast ==
    [k \in Keys |->
        LET having == {i \in 1 .. Len(inputs) - 1 : Has(i, k)}
        IN  IF having = {} THEN 0 ELSE inputs[Min(having)].content.table[k]]

\* The merge: the tables keep no timestamps, so of equal keys the first input's
\* comes first, and the others are dropped.
Merged ==
    [k \in Keys |->
        LET having == {i \in DOMAIN inputs : Has(i, k)}
        IN  IF having = {} THEN 0 ELSE inputs[Min(having)].content.table[k]]

Unchanged(h) == disk[h.inode] = h.built

MergeInputs ==
    /\ Thread("merge", "delete")
    /\ \A i \in DOMAIN inputs : Unchanged(inputs[i])
    /\ Finish(output.inode, flushing.inode, Merged)
    /\ UNCHANGED <<manifest, garbled, dir, lsm, work, own, inputs, output, done, history>>

\* An input was written over: a checksum is wrong.  The output stays as it is.
MergeFails ==
    /\ Thread("merge", "wait")
    /\ \E i \in DOMAIN inputs : ~Unchanged(inputs[i])
    /\ Forget
    /\ UNCHANGED <<files, lsm, work, history>>

Input == inputs[done + 1].id

\* remove_sst for the next input.
RemoveSst ==
    LET level == IF Input \in own.listed[0] THEN 0 ELSE 1
    IN  /\ done < Len(inputs)
        /\ Thread("delete", "unlink")
        /\ AppendLine(DelLine(level, Input))
        /\ own' = [own EXCEPT !.listed[level] = @ \ {Input}]
        /\ UNCHANGED <<dir, disk, lsm, work, inputs, output, done, history>>

RemoveFile ==
    /\ Thread("unlink", "delete")
    /\ dir' = [dir EXCEPT ![Input] = 0]
    /\ done' = done + 1
    /\ UNCHANGED <<manifest, garbled, disk, lsm, work, own, inputs, output, history>>

AddSst ==
    /\ done = Len(inputs)
    /\ Thread("delete", "wait")
    /\ AppendLine(SstLine(1, output.id))
    /\ Forget
    /\ UNCHANGED <<dir, disk, lsm, work, history>>

-----------------------------------------------------------------------------
\* The memory of the process is gone.
Die ==
    /\ status' = "down"
    /\ cursor' = -1 /\ fpc' = "idle" /\ flushing' = NoFlush /\ imms' = <<>>
    /\ levels' = [l \in 0 .. 1 |-> <<>>]
    /\ next_sst_id' = 0 /\ next_wal_id' = 0
    /\ cpc' = "wait" /\ work' = FALSE
    /\ Forget
    /\ newest' = NoTable
    /\ UNCHANGED <<manifest, dir, disk, listed, reused, flushes>>

Crash ==
    /\ status \in {"up", "closing"}
    /\ crashes < MaxCrashes /\ crashes' = crashes + 1
    /\ Die
    /\ \/ UNCHANGED garbled
       \/ (LsmInLine \/ ThreadInLine) /\ garbled' = TRUE
    /\ orphaned' = (orphaned \/ cpc = "unlink" \/ done > 0)

\* Lsm::drop: shutdown is set and notified without the mutex, so a thread on
\* its way into wait_for misses it; then the thread is joined.
Drop ==
    /\ status = "up" /\ fpc = "idle" /\ status' = "closing"
    /\ crashes < MaxCrashes /\ crashes' = crashes + 1
    /\ \/ cpc' = IF cpc = "wait" THEN "woken" ELSE cpc
       \/ UNCHANGED cpc
    /\ UNCHANGED <<files, cursor, fpc, flushing, imms, levels, next_sst_id, next_wal_id, work,
                   own, inputs, output, done, newest, listed, reused, orphaned, flushes>>

Joined ==
    /\ status = "closing" /\ cpc \in {"exited", "panicked"}
    /\ Die
    /\ UNCHANGED <<garbled, orphaned, crashes>>

\* Lsm::open: a listed table that is not there is passed over; one that cannot
\* be read is an error or a panic, and so is a line.
Open ==
    LET there(l) == {p \in Listed(l) : dir[IdAt(p)] # 0}
    IN  /\ status = "down"
        /\ \/ /\ garbled \/ \E l \in 0 .. 1 : \E p \in there(l) : ~CanOpen(IdAt(p))
              /\ status' = "failed"
              /\ UNCHANGED <<levels, next_sst_id, next_wal_id>>
           \/ /\ ~garbled /\ \A l \in 0 .. 1 : \A p \in there(l) : CanOpen(IdAt(p))
              /\ status' = "up"
              /\ levels' = [l \in 0 .. 1 |->
                     LET ids == IdsAt(there(l)) IN [i \in DOMAIN ids |-> Reopened(ids[i])]]
              /\ next_sst_id' = NextId("SST") /\ next_wal_id' = NextId("WAL")
        /\ UNCHANGED <<files, cursor, fpc, flushing, imms, thread, history>>

\* Without a thread, or without an Lsm, the bounds may leave nothing to do.
Stopped == (status = "failed" \/ cpc = "panicked") /\ UNCHANGED vars

LsmStep ==
    Rotate \/ CreateTable \/ FinishTable \/ ListTable \/ OpenTable \/ OpenTableFails \/ Joined

CompactorStep ==
    \/ Wake(FALSE) \/ Pick \/ LoadAgain \/ LoadPanics
    \/ OpenInputs \/ OpenInputsFails \/ OpenInputsPanics \/ CreateOutput \/ MergeInputs
    \/ MergeFails \/ RemoveSst \/ RemoveFile \/ AddSst

Next == LsmStep \/ CompactorStep \/ TimeOut \/ Drop \/ Crash \/ Open \/ Stopped

Spec == Init /\ [][Next]_vars

\* The operating system runs the compaction thread, its timed wait ends, and
\* the drop returns once the thread has exited; nobody has to call the Lsm.
FairSpec ==
    /\ Spec
    /\ WF_vars(CompactorStep) /\ WF_vars(TimeOut) /\ WF_vars(Joined)

-----------------------------------------------------------------------------
\* Lsm::get in the immutable memtables and tables it has open, newest first.
Lookup(k) ==
    LET tables(l) == [i \in DOMAIN levels[l] |-> levels[l][i].content.table]
        sources   == Reverse(imms) \o Reverse(tables(0)) \o Reverse(tables(1))
        having    == {i \in DOMAIN sources : sources[i][k] # 0}
    IN  IF having = {} THEN 0 ELSE sources[Min(having)][k]

\* Every file the Lsm reads from was as it was built when it was opened and still
\* is, and no flush has failed.
Intact ==
    /\ \A l \in 0 .. 1 : \A i \in DOMAIN levels[l] :
           levels[l][i].content = levels[l][i].built /\ Unchanged(levels[l][i])
    /\ \A i \in DOMAIN imms : imms[i] = flushing.table

\* Compaction removes the files under an open Lsm, gives its ids out again and
\* keeps the oldest version of a key; still a read returns the newest version
\* this session flushed, from the files it keeps open, unless one of those was
\* truncated because the thread got its id as well.
ReadsStayFresh ==
    status = "up" /\ Intact =>
        \A k \in Keys : newest[k] # 0 => Lookup(k) = newest[k]

\* Until an id is given out twice, and as long as MANIFEST can be read, level 1
\* has at most one table: what one round puts there is an input of the next, and
\* the line that removes it survives the Lsm's writes.
LevelOneSingle == reused \/ garbled \/ \A p, q \in Listed(1) : p = q

\* Until an id is given out twice, as long as MANIFEST can be read, and unless a
\* crash comes while the inputs are removed and the output is not listed, every
\* key that was in a listed table is in a listed table that can be read.
KeysStayListed ==
    \/ reused \/ orphaned \/ garbled
    \/ cpc = "unlink" \/ done > 0
    \/ \A k \in listed : \E l \in 0 .. 1 : \E p \in Listed(l) :
           CanOpen(IdAt(p)) /\ disk[dir[IdAt(p)]].table[k] # 0

\* Work that a flush has announced is taken up, or the process ends, or the
\* thread has panicked, which nothing catches: a notify that comes while the
\* thread is busy is made good by the timed wait.
TakenUpOrPanicked == work ~> ~work \/ cpc = "panicked"

\* The drop of an Lsm comes to its end, whatever the thread was doing.
DropReturns == status = "closing" ~> status # "closing"
=============================================================================
