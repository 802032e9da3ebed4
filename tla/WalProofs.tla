----------------------------- MODULE WalProofs ------------------------------
(***************************************************************************)
(* Proofs about Wal, for any threads, batches, segment sizes and bounds.   *)
(***************************************************************************)
EXTENDS Wal, FiniteSetTheorems, SequenceTheorems, WellFoundedInduction, TLAPS

-----------------------------------------------------------------------------
(***************************************************************************)
(* What the operations do to the files, one lemma each.                    *)
(***************************************************************************)

\* What the current file is: one of the directory, with its records.
LEMMA CurrentFile ==
    ASSUME TypeOK
    PROVE  /\ Current \in Segments /\ Current.recs \in Seq(Records)
           /\ Current.synced \in 0 .. Len(Current.recs) /\ Len(Current.recs) \in Nat
BY DEF TypeOK, IsDirectory, Current, Segments

\* Wal::append_batch extends the current file and no other.
LEMMA WriteEffect ==
    ASSUME TypeOK, NEW t \in Threads,
           wal_dir' = [wal_dir EXCEPT ![current_segment].recs = @ \o records[t]]
    PROVE  /\ IsDirectory(wal_dir')
           /\ DOMAIN wal_dir' = DOMAIN wal_dir
           /\ \A i \in DOMAIN wal_dir \ {current_segment} : wal_dir'[i] = wal_dir[i]
           /\ wal_dir'[current_segment].synced = Current.synced
           /\ wal_dir'[current_segment].recs = Current.recs \o records[t]
           /\ Len(wal_dir'[current_segment].recs) = Len(Current.recs) + Len(records[t])
           /\ \A j \in 1 .. Len(Current.recs) :
                 wal_dir'[current_segment].recs[j] = Current.recs[j]
           /\ \A j \in 1 .. Len(records[t]) :
                 wal_dir'[current_segment].recs[Len(Current.recs) + j] = records[t][j]
<1>1. /\ Current.recs \in Seq(Records) /\ records[t] \in Seq(Records)
      /\ Current.synced \in Nat /\ Current.synced <= Len(Current.recs)
  BY CurrentFile DEF TypeOK
<1> DEFINE old == Current.recs
           new == records[t]
           both == old \o new
<1>2. /\ both \in Seq(Records)
      /\ Len(both) = Len(old) + Len(new)
      /\ Len(old) \in Nat /\ Len(new) \in Nat
      /\ \A j \in 1 .. Len(old) + Len(new) :
            both[j] = IF j <= Len(old) THEN old[j] ELSE new[j - Len(old)]
  BY <1>1, ConcatProperties, LenProperties
<1>3. /\ DOMAIN wal_dir' = DOMAIN wal_dir
      /\ \A i \in DOMAIN wal_dir \ {current_segment} : wal_dir'[i] = wal_dir[i]
      /\ wal_dir'[current_segment] = [Current EXCEPT !.recs = both]
  BY DEF TypeOK, Current
<1>4. /\ wal_dir'[current_segment].synced = Current.synced
      /\ wal_dir'[current_segment].recs = both
      /\ wal_dir'[current_segment] \in Segments
  <2> HIDE DEF both
  <2>1. Current \in [recs : Seq(Records), synced : Nat]
    BY CurrentFile DEF Segments
  <2> HIDE DEF Current
  <2>2. /\ [Current EXCEPT !.recs = both] \in [recs : Seq(Records), synced : Nat]
        /\ [Current EXCEPT !.recs = both].synced = Current.synced
        /\ [Current EXCEPT !.recs = both].recs = both
    BY <1>2, <2>1
  <2> QED BY <1>3, <2>2 DEF Segments
<1>5. IsDirectory(wal_dir')
  <2> HIDE DEF both
  <2>1. Current.synced <= Len(both)
    <3> DEFINE n == Current.synced
    <3>1. n \in Nat /\ n <= Len(old)
      BY <1>1
    <3>2. Len(both) = Len(old) + Len(new) /\ Len(old) \in Nat /\ Len(new) \in Nat
      BY <1>2
    <3> HIDE DEF n, old, new
    <3>3. n <= Len(both)
      BY <3>1, <3>2
    <3> QED BY <3>3 DEF n
  <2> QED BY <1>3, <1>4, <2>1 DEF TypeOK, IsDirectory
<1>6. /\ \A j \in 1 .. Len(old) : both[j] = old[j]
      /\ \A j \in 1 .. Len(new) : both[Len(old) + j] = new[j]
  <2> HIDE DEF both, old, new
  <2>1. ASSUME NEW j \in 1 .. Len(new) PROVE both[Len(old) + j] = new[j]
    <3>1. Len(old) + j \in 1 .. Len(old) + Len(new) /\ ~(Len(old) + j <= Len(old))
          /\ (Len(old) + j) - Len(old) = j
      BY <1>2
    <3> QED BY <1>2, <3>1
  <2>2. ASSUME NEW j \in 1 .. Len(old) PROVE both[j] = old[j]
    BY <1>2
  <2> QED BY <2>1, <2>2
<1> QED BY <1>2, <1>3, <1>4, <1>5, <1>6

\* A sync of the current file changes no record.
LEMMA SyncEffect ==
    ASSUME TypeOK, NEW d, d = [wal_dir EXCEPT ![current_segment] = Synced(@)]
    PROVE  /\ IsDirectory(d)
           /\ DOMAIN d = DOMAIN wal_dir
           /\ \A i \in DOMAIN wal_dir \ {current_segment} : d[i] = wal_dir[i]
           /\ d[current_segment].recs = Current.recs
           /\ d[current_segment].synced = Len(Current.recs)
<1>1. /\ DOMAIN d = DOMAIN wal_dir
      /\ \A i \in DOMAIN wal_dir \ {current_segment} : d[i] = wal_dir[i]
      /\ d[current_segment] = [Current EXCEPT !.synced = Len(Current.recs)]
  BY DEF TypeOK, Current, Synced
<1>2. d[current_segment].recs = Current.recs /\ d[current_segment].synced = Len(Current.recs)
      /\ d[current_segment] \in Segments
  BY <1>1, CurrentFile DEF Segments
<1> QED BY <1>1, <1>2, CurrentFile, SMTT(40) DEF TypeOK, IsDirectory

\* The new file of a rotation has an id of its own.
LEMMA RotateEffect ==
    ASSUME TypeOK, NEW t \in Threads, Rotate(t)
    PROVE  /\ IsDirectory(wal_dir')
           /\ DOMAIN wal_dir' = DOMAIN wal_dir \cup {current_segment + 1}
           /\ wal_dir'[current_segment + 1] = EmptySegment
           /\ current_segment + 1 \notin DOMAIN wal_dir =>
                 /\ \A i \in DOMAIN wal_dir \ {current_segment} : wal_dir'[i] = wal_dir[i]
                 /\ wal_dir'[current_segment].recs = Current.recs
                 /\ wal_dir'[current_segment].synced = Len(Current.recs)
<1> DEFINE d == [wal_dir EXCEPT ![current_segment] = Synced(@)]
<1>1. wal_dir' = Join(File(current_segment + 1, EmptySegment), d)
  BY DEF Rotate
<1>2. /\ IsDirectory(d) /\ DOMAIN d = DOMAIN wal_dir
      /\ \A i \in DOMAIN wal_dir \ {current_segment} : d[i] = wal_dir[i]
      /\ d[current_segment].recs = Current.recs
      /\ d[current_segment].synced = Len(Current.recs)
  <2> HIDE DEF d
  <2>1. d = [wal_dir EXCEPT ![current_segment] = Synced(@)]
    BY DEF d
  <2> QED BY <2>1, SyncEffect
<1>3. current_segment \in DOMAIN wal_dir /\ current_segment \in Nat \ {0}
  BY DEF TypeOK, IsDirectory
<1> HIDE DEF d
<1>4. /\ DOMAIN wal_dir' = DOMAIN wal_dir \cup {current_segment + 1}
      /\ wal_dir'[current_segment + 1] = EmptySegment
      /\ \A i \in DOMAIN wal_dir : i # current_segment + 1 => wal_dir'[i] = d[i]
  BY <1>1, <1>2, <1>3 DEF Join, File
<1>5. EmptySegment \in Segments /\ EmptySegment.synced <= Len(EmptySegment.recs)
  BY EmptySeq DEF EmptySegment, Segments
<1>6. wal_dir' = [i \in DOMAIN wal_dir' |-> wal_dir'[i]]
  BY <1>1 DEF Join
<1>7. wal_dir' \in [DOMAIN wal_dir' -> Segments]
  <2>1. \A i \in DOMAIN wal_dir' : wal_dir'[i] \in Segments
    BY <1>2, <1>4, <1>5 DEF IsDirectory
  <2> QED BY <1>6, <2>1
<1>8. IsDirectory(wal_dir')
  BY <1>2, <1>3, <1>4, <1>5, <1>7 DEF IsDirectory
<1> QED BY <1>2, <1>3, <1>4, <1>8

\* The archived file leaves the one directory for the other as it is.
LEMMA RenameEffect ==
    ASSUME TypeOK, NEW t \in Threads, Rename(t)
    PROVE  /\ IsDirectory(wal_dir') /\ IsDirectory(archive')
           /\ next_id[t] \in DOMAIN wal_dir
           /\ DOMAIN wal_dir' = DOMAIN wal_dir \ {next_id[t]}
           /\ \A i \in DOMAIN wal_dir' : wal_dir'[i] = wal_dir[i]
           /\ DOMAIN archive' = DOMAIN archive \cup {next_id[t]}
           /\ archive'[next_id[t]] = wal_dir[next_id[t]]
           /\ \A i \in DOMAIN archive : i # next_id[t] => archive'[i] = archive[i]
<1> DEFINE n == next_id[t]
<1>1. /\ n \in DOMAIN wal_dir
      /\ archive' = Join(File(n, wal_dir[n]), archive)
      /\ wal_dir' = Restrict(wal_dir, DOMAIN wal_dir \ {n})
  BY DEF Rename
<1> HIDE DEF n
<1>2. /\ DOMAIN archive' = DOMAIN archive \cup {n}
      /\ archive'[n] = wal_dir[n]
      /\ \A i \in DOMAIN archive : i # n => archive'[i] = archive[i]
  BY <1>1 DEF Join, File
<1>3. /\ DOMAIN wal_dir' = DOMAIN wal_dir \ {n}
      /\ \A i \in DOMAIN wal_dir' : wal_dir'[i] = wal_dir[i]
  BY <1>1 DEF Restrict
<1>4. /\ archive' = [i \in DOMAIN archive' |-> archive'[i]]
      /\ wal_dir' = [i \in DOMAIN wal_dir' |-> wal_dir'[i]]
  BY <1>1 DEF Join, Restrict
<1>5. archive' \in [DOMAIN archive' -> Segments] /\ wal_dir' \in [DOMAIN wal_dir' -> Segments]
  <2>1. /\ \A i \in DOMAIN archive' : archive'[i] \in Segments
        /\ \A i \in DOMAIN wal_dir' : wal_dir'[i] \in Segments
    BY <1>1, <1>2, <1>3 DEF TypeOK, IsDirectory
  <2> QED BY <1>4, <2>1
<1>6. IsDirectory(wal_dir') /\ IsDirectory(archive')
  BY <1>1, <1>2, <1>3, <1>5 DEF TypeOK, IsDirectory
<1> QED BY <1>1, <1>2, <1>3, <1>6 DEF n

\* The end of the process cuts the current file and no other, behind what is
\* synced.
LEMMA EndEffect ==
    ASSUME TypeOK, NEW n \in Current.synced .. Len(Current.recs),
           NEW fragment \in Seq(Records), End(n, fragment)
    PROVE  /\ IsDirectory(wal_dir')
           /\ DOMAIN wal_dir' = DOMAIN wal_dir
           /\ \A i \in DOMAIN wal_dir \ {current_segment} : wal_dir'[i] = wal_dir[i]
           /\ Len(wal_dir'[current_segment].recs) = n + Len(fragment)
           /\ wal_dir'[current_segment].synced = n + Len(fragment)
           /\ \A j \in 1 .. n : wal_dir'[current_segment].recs[j] = Current.recs[j]
<1> DEFINE old == Current.recs
           cut == SubSeq(old, 1, n)
           left == cut \o fragment
<1>1. /\ old \in Seq(Records) /\ Len(old) \in Nat /\ n \in 0 .. Len(old)
      /\ Current.synced \in 0 .. Len(old)
  BY CurrentFile
<1>2. cut \in Seq(Records) /\ Len(cut) = n /\ \A j \in 1 .. n : cut[j] = old[j]
  <2> HIDE DEF old
  <2>1. \A j \in 1 .. n : old[j] \in Records
    BY <1>1, ElementOfSeq
  <2>2. /\ SubSeq(old, 1, n) \in Seq(Records)
        /\ Len(SubSeq(old, 1, n)) = IF 1 <= n THEN n - 1 + 1 ELSE 0
        /\ \A j \in 1 .. n - 1 + 1 : SubSeq(old, 1, n)[j] = old[1 + j - 1]
    BY <1>1, <2>1, SubSeqProperties
  <2> HIDE DEF cut
  <2>3. cut \in Seq(Records) /\ Len(cut) = n
    BY <1>1, <2>2 DEF cut
  <2>4. ASSUME NEW j \in 1 .. n PROVE cut[j] = old[j]
    BY <1>1, <2>2, 1 + j - 1 = j, n - 1 + 1 = n DEF cut
  <2> QED BY <2>3, <2>4
<1>3. /\ left \in Seq(Records) /\ Len(left) = n + Len(fragment) /\ Len(fragment) \in Nat
      /\ \A j \in 1 .. n : left[j] = old[j]
  <2> HIDE DEF old, cut
  <2>1. /\ left \in Seq(Records) /\ Len(left) = Len(cut) + Len(fragment)
        /\ \A j \in 1 .. Len(cut) + Len(fragment) :
              left[j] = IF j <= Len(cut) THEN cut[j] ELSE fragment[j - Len(cut)]
    BY <1>2, ConcatProperties
  <2>2. Len(fragment) \in Nat
    BY LenProperties
  <2> HIDE DEF left
  <2> QED BY <1>1, <1>2, <2>1, <2>2
<1>4. wal_dir' = [wal_dir EXCEPT ![current_segment] = [recs |-> left, synced |-> Len(left)]]
  BY DEF End
<1> HIDE DEF left
<1>5. /\ DOMAIN wal_dir' = DOMAIN wal_dir
      /\ \A i \in DOMAIN wal_dir \ {current_segment} : wal_dir'[i] = wal_dir[i]
      /\ wal_dir'[current_segment] = [recs |-> left, synced |-> Len(left)]
  BY <1>4 DEF TypeOK
<1>6. wal_dir'[current_segment].recs = left /\ wal_dir'[current_segment].synced = Len(left)
      /\ wal_dir'[current_segment] \in Segments
  BY <1>1, <1>3, <1>5 DEF Segments
<1>7. IsDirectory(wal_dir')
  <2>1. Len(left) \in Nat /\ Len(left) <= Len(left)
    BY <1>1, <1>3
  <2>2. wal_dir' \in [DOMAIN wal_dir -> Segments]
    <3>1. wal_dir \in [DOMAIN wal_dir -> Segments] /\ current_segment \in DOMAIN wal_dir
      BY DEF TypeOK, IsDirectory
    <3>2. [recs |-> left, synced |-> Len(left)] \in Segments
      BY <1>5, <1>6
    <3> QED BY <1>4, <3>1, <3>2
  <2> QED BY <1>5, <1>6, <2>1, <2>2 DEF TypeOK, IsDirectory
<1> QED BY <1>3, <1>5, <1>6, <1>7

-----------------------------------------------------------------------------
(***************************************************************************)
(* Where the segments are.                                                 *)
(***************************************************************************)

\* Every segment is in one of the directories, those in the archive are older
\* than the ones to keep, and those before first_segment are in the archive.
Placed ==
    /\ DOMAIN wal_dir \cup DOMAIN archive = 1 .. current_segment
    /\ DOMAIN wal_dir \cap DOMAIN archive = {}
    /\ \A i \in DOMAIN archive : i + min_segments_to_keep < current_segment
    /\ \A i \in 1 .. current_segment : i < first_segment => i \in DOMAIN archive

\* A thread in archive_old_segments: what it read of current_segment is not
\* ahead of it, all before its place in the loop is in the archive, and the end
\* of the loop has not been passed when it is about to rename.
Archiving(t) ==
    /\ pc[t] \in {"load_first", "exists", "rename"} => old_current[t] <= current_segment
    /\ pc[t] \in {"exists", "rename"} =>
          /\ archive_up_to(t) \in Nat
          /\ \A i \in 1 .. current_segment : i < next_id[t] => i \in DOMAIN archive
    /\ pc[t] = "rename" => next_id[t] < archive_up_to(t)

ArchiveInv == TypeOK /\ Placed /\ \A t \in Threads : Archiving(t)

\* The numbers the model is given, and the type of where the manager is.
LEMMA Numbers ==
    ASSUME TypeOK
    PROVE  /\ min_segments_to_keep \in Nat /\ segment_size \in Nat
           /\ group_commit_size \in Nat /\ MaxRecords \in Nat
           /\ current_segment \in Nat \ {0} /\ first_segment \in Nat
           /\ current_size \in Nat
           /\ \A t \in Threads : old_current[t] \in Nat /\ next_id[t] \in Nat
BY WalAssumption DEF TypeOK, IsDirectory

\* Neither first_segment nor a place in the loop gets beyond the current segment.
LEMMA NotBeyond ==
    ASSUME ArchiveInv
    PROVE  /\ first_segment <= current_segment
           /\ \A t \in Threads : pc[t] \in {"exists", "rename"} =>
                 next_id[t] <= current_segment
BY Numbers DEF ArchiveInv, TypeOK, Placed, Archiving

\* A set of naturals with an element has a least one.
LEMMA LeastExists ==
    ASSUME NEW S \in SUBSET Nat, S # {}
    PROVE  \E s \in S : \A r \in S : s <= r
<1> DEFINE less == {ss \in Nat \X Nat : ss[1] < ss[2]}
<1>1. IsWellFoundedOn(less, Nat)
  BY NatLessThanWellFounded DEF OpToRel
<1>2. \E s \in S : \A r \in S : <<r, s>> \notin less
  <2> HIDE DEF less
  <2> QED BY <1>1, WFMin
<1>3. \A r, s \in S : <<r, s>> \notin less => s <= r
  OBVIOUS
<1> HIDE DEF less
<1> QED BY <1>2, <1>3

\* find_latest_segment finds the current segment, and no segment before the
\* first one it finds is in the directory.
LEMMA LatestIsCurrent ==
    ASSUME ArchiveInv
    PROVE  /\ Latest = current_segment
           /\ First \in DOMAIN wal_dir
           /\ \A i \in DOMAIN wal_dir : First <= i
<1>1. current_segment \in DOMAIN wal_dir /\ DOMAIN wal_dir \subseteq 1 .. current_segment
      /\ current_segment \in Nat \ {0}
  BY Numbers DEF ArchiveInv, TypeOK, Placed
<1>2. Max(DOMAIN wal_dir) = current_segment
  <2>1. \A x \in DOMAIN wal_dir : (\A y \in DOMAIN wal_dir : x >= y) <=> x = current_segment
    BY <1>1
  <2> QED BY <1>1, <2>1 DEF Max
<1>3. \E x \in DOMAIN wal_dir : \A y \in DOMAIN wal_dir : x <= y
  <2>1. DOMAIN wal_dir \in SUBSET Nat /\ DOMAIN wal_dir # {}
    BY <1>1
  <2> QED BY <2>1, LeastExists
<1>4. Min(DOMAIN wal_dir) \in DOMAIN wal_dir
      /\ \A i \in DOMAIN wal_dir : Min(DOMAIN wal_dir) <= i
  BY <1>3 DEF Min
<1> QED BY <1>1, <1>2, <1>4 DEF Latest, First

\* Reopening changes no file: the latest one is there and is appended to.
LEMMA OpenEffect ==
    ASSUME ArchiveInv, Open
    PROVE  /\ wal_dir' = wal_dir /\ archive' = archive
           /\ current_segment' = current_segment
           /\ first_segment' \in DOMAIN wal_dir
           /\ \A i \in DOMAIN wal_dir : first_segment' <= i
           /\ current_size' = Len(Current.recs)
<1>1. current_segment \in DOMAIN wal_dir
  BY DEF ArchiveInv, TypeOK
<1>2. Join(wal_dir, File(current_segment, EmptySegment)) = wal_dir
  <2>1. DOMAIN wal_dir \cup DOMAIN File(current_segment, EmptySegment) = DOMAIN wal_dir
    BY <1>1 DEF File
  <2>2. wal_dir = [i \in DOMAIN wal_dir |-> wal_dir[i]]
    BY DEF ArchiveInv, TypeOK, IsDirectory
  <2> QED BY <2>1, <2>2 DEF Join
<1> QED BY <1>1, <1>2, LatestIsCurrent DEF Open, TakeUp, Current

-----------------------------------------------------------------------------
(***************************************************************************)
(* Types and places are kept.                                              *)
(***************************************************************************)

\* The manager starts with one empty segment.
LEMMA ArchiveInit ==
    ASSUME Init
    PROVE  ArchiveInv
<1>1. EmptySegment \in Segments /\ EmptySegment.synced <= Len(EmptySegment.recs)
  BY EmptySeq DEF EmptySegment, Segments
<1>2. IsDirectory(wal_dir)
  BY <1>1 DEF Init, File, IsDirectory
<1>3. IsDirectory(archive) /\ DOMAIN archive = {}
  BY EmptySeq DEF Init, IsDirectory
<1>4. records \in [Threads -> Seq(Records)] /\ log \in Seq([seg : Nat, ts : 1 .. MaxRecords])
  BY EmptySeq DEF Init
<1>5. TypeOK
  BY <1>2, <1>3, <1>4, WalAssumption DEF Init, TypeOK, File, Pcs
<1> QED BY <1>3, <1>5, WalAssumption DEF Init, ArchiveInv, Placed, Archiving, File

\* What append and append_batch hand over are records.
LEMMA CallType ==
    ASSUME TypeOK, NEW t \in Threads, Call(t)
    PROVE  TypeOK'
<1>1. PICK n \in BatchLens :
         /\ Goto(t, "idle", "check")
         /\ requested + n <= MaxRecords /\ requested' = requested + n
         /\ records' = [records EXCEPT ![t] =
                           [i \in 1 .. n |-> Record(requested + i, "whole")]]
         /\ UNCHANGED <<files, mode, status, manager, old_current, next_id, log, acked,
                        lost, crashes>>
  BY DEF Call
<1>2. n \in Nat /\ requested \in Nat /\ MaxRecords \in Nat
  BY WalAssumption DEF TypeOK
<1>3. [i \in 1 .. n |-> Record(requested + i, "whole")] \in Seq(Records)
  <2>1. \A i \in 1 .. n : Record(requested + i, "whole") \in Records
    BY <1>1, <1>2 DEF Record, Records
  <2> QED BY <1>2, <2>1
<1>4. records' \in [Threads -> Seq(Records)]
  BY <1>1, <1>3 DEF TypeOK
<1> QED BY <1>1, <1>2, <1>4 DEF TypeOK, Goto, Pcs, files, manager

\* The history gets as many entries as the file gets records.
LEMMA WriteType ==
    ASSUME TypeOK, NEW t \in Threads, Write(t)
    PROVE  /\ IsDirectory(wal_dir') /\ DOMAIN wal_dir' = DOMAIN wal_dir
           /\ log' \in Seq([seg : Nat, ts : 1 .. MaxRecords])
<1> DEFINE new == [i \in DOMAIN records[t] |->
                      [seg |-> current_segment, ts |-> records[t][i].ts]]
           Entries == [seg : Nat, ts : 1 .. MaxRecords]
<1>1. /\ wal_dir' = [wal_dir EXCEPT ![current_segment].recs = @ \o records[t]]
      /\ log' = log \o new
  BY DEF Write
<1>2. records[t] \in Seq(Records) /\ log \in Seq(Entries)
  BY DEF TypeOK
<1>3. Len(records[t]) \in Nat /\ DOMAIN records[t] = 1 .. Len(records[t])
      /\ \A i \in 1 .. Len(records[t]) : records[t][i] \in Records
  BY <1>2, LenProperties, ElementOfSeq
<1>4. new \in Seq(Entries)
  <2>1. \A i \in 1 .. Len(records[t]) :
           [seg |-> current_segment, ts |-> records[t][i].ts] \in Entries
    BY <1>3, Numbers DEF Records
  <2> QED BY <1>3, <2>1
<1>5. log' \in Seq(Entries)
  <2> HIDE DEF new, Entries
  <2> QED BY <1>1, <1>2, <1>4, ConcatProperties
<1> QED BY <1>1, <1>5, WriteEffect

\* The end of the process cuts the history as it cuts the file.
LEMMA EndType ==
    ASSUME TypeOK, NEW n \in Current.synced .. Len(Current.recs),
           NEW fragment \in Seq(Records), End(n, fragment)
    PROVE  TypeOK'
<1> DEFINE gone == SubSeq(Current.recs, n + 1, Len(Current.recs))
           Entries == [seg : Nat, ts : 1 .. MaxRecords]
<1>1. Current.recs \in Seq(Records) /\ Len(Current.recs) \in Nat /\ n \in Nat
      /\ n <= Len(Current.recs)
  BY CurrentFile
<1>2. Len(gone) \in Nat
  <2>1. \A i \in n + 1 .. Len(Current.recs) : Current.recs[i] \in Records
    BY <1>1, ElementOfSeq
  <2>2. gone \in Seq(Records)
    BY <1>1, <2>1, SubSeqProperties
  <2> QED BY <2>2, LenProperties
<1>3. log \in Seq(Entries) /\ Len(log) \in Nat
  BY LenProperties DEF TypeOK
<1>4. log' \in Seq(Entries)
  <2> HIDE DEF gone, Entries
  <2>1. \A i \in 1 .. Len(log) - Len(gone) : log[i] \in Entries
    BY <1>2, <1>3, ElementOfSeq
  <2>2. SubSeq(log, 1, Len(log) - Len(gone)) \in Seq(Entries)
    BY <1>2, <1>3, <2>1, SubSeqProperties
  <2>3. log' = SubSeq(log, 1, Len(log) - Len(gone))
    BY DEF End, gone
  <2> QED BY <2>2, <2>3
<1>5. /\ pc' \in [Threads -> Pcs] /\ records' \in [Threads -> Seq(Records)]
      /\ old_current' \in [Threads -> Nat] /\ next_id' \in [Threads -> Nat]
  BY EmptySeq DEF End, Pcs
<1>6. /\ status' = "down" /\ crashes' = crashes + 1
      /\ lost' \subseteq acked
      /\ UNCHANGED <<archive, mode, manager, acked, requested>>
  BY DEF End
<1>7. IsDirectory(wal_dir') /\ DOMAIN wal_dir' = DOMAIN wal_dir
  BY EndEffect
<1> QED BY <1>4, <1>5, <1>6, <1>7 DEF TypeOK, manager

\* A crash leaves a prefix of the current file and a fragment that is a record.
LEMMA CrashIsEnd ==
    ASSUME TypeOK, Crash
    PROVE  \E n \in Current.synced .. Len(Current.recs), fragment \in Seq(Records) :
              /\ End(n, fragment)
              /\ n + Len(fragment) <= Len(Current.recs)
<1>1. PICK n \in Current.synced .. Len(Current.recs) :
         \/ End(n, <<>>)
         \/ /\ n < Len(Current.recs)
            /\ \E part \in {"header", "body"} :
                   End(n, <<Record(Current.recs[n + 1].ts, part)>>)
  BY DEF Crash
<1>2. Current.recs \in Seq(Records) /\ Len(Current.recs) \in Nat /\ n \in Nat
      /\ n <= Len(Current.recs)
  BY CurrentFile
<1>3. CASE End(n, <<>>)
  <2>1. <<>> \in Seq(Records) /\ Len(<<>>) = 0
    BY EmptySeq
  <2>2. n + Len(<<>>) <= Len(Current.recs)
    BY <1>2, <2>1
  <2> QED BY <1>3, <2>1, <2>2
<1>4. CASE /\ n < Len(Current.recs)
           /\ \E part \in {"header", "body"} :
                  End(n, <<Record(Current.recs[n + 1].ts, part)>>)
  <2>1. PICK part \in {"header", "body"} : End(n, <<Record(Current.recs[n + 1].ts, part)>>)
    BY <1>4
  <2> DEFINE r == Record(Current.recs[n + 1].ts, part)
  <2>2. Current.recs[n + 1] \in Records
    BY <1>2, <1>4, ElementOfSeq
  <2>3. r \in Records
    BY <2>2 DEF Record, Records
  <2> HIDE DEF r
  <2>4. <<r>> \in Seq(Records) /\ Len(<<r>>) = 1
    BY <2>3
  <2>5. n + Len(<<r>>) <= Len(Current.recs)
    BY <1>2, <1>4, <2>4
  <2> QED BY <2>1, <2>4, <2>5 DEF r
<1> QED BY <1>1, <1>3, <1>4

\* Wal::drop leaves the whole file.
LEMMA CloseIsEnd ==
    ASSUME TypeOK, Close
    PROVE  \E n \in Current.synced .. Len(Current.recs), fragment \in Seq(Records) :
              /\ End(n, fragment)
              /\ n + Len(fragment) <= Len(Current.recs)
<1>1. <<>> \in Seq(Records) /\ Len(<<>>) = 0
  BY EmptySeq
<1>2. /\ Len(Current.recs) \in Current.synced .. Len(Current.recs)
      /\ Len(Current.recs) + 0 <= Len(Current.recs)
  BY CurrentFile
<1> QED BY <1>1, <1>2 DEF Close

\* Every step keeps the types.
LEMMA TypeStep ==
    ASSUME ArchiveInv, [Next]_vars
    PROVE  TypeOK'
<1> USE DEF ArchiveInv
<1>1. CASE UNCHANGED vars
  BY <1>1 DEF vars, files, manager, locals, history, TypeOK, IsDirectory
<1>2. CASE Sync
  <2>1. IsDirectory(wal_dir') /\ DOMAIN wal_dir' = DOMAIN wal_dir
    BY <1>2, SyncEffect DEF Sync
  <2> QED BY <1>2, <2>1 DEF Sync, TypeOK, IsDirectory, manager, locals, history
<1>3. CASE Crash
  BY <1>3, CrashIsEnd, EndType
<1>4. CASE Close
  BY <1>4, CloseIsEnd, EndType
<1>5. CASE Open
  <2>1. /\ wal_dir' = wal_dir /\ archive' = archive
        /\ current_segment' = current_segment
        /\ first_segment' \in Nat /\ current_size' \in Nat
    BY <1>5, OpenEffect, CurrentFile DEF TypeOK, IsDirectory
  <2> QED BY <1>5, <2>1 DEF Open, TypeOK, IsDirectory, locals, history
<1>6. ASSUME NEW t \in Threads, ThreadStep(t) PROVE TypeOK'
  <2>1. CASE Call(t)
    BY <2>1, CallType
  <2>2. ASSUME Write(t), Goto(t, "check", "fast_sync") \/ Goto(t, "slow_append", "slow_sync"),
               UNCHANGED <<current_segment, current_size>>
        PROVE  TypeOK'
    <3>1. /\ IsDirectory(wal_dir') /\ DOMAIN wal_dir' = DOMAIN wal_dir
          /\ log' \in Seq([seg : Nat, ts : 1 .. MaxRecords])
      BY <2>2, WriteType
    <3> QED BY <2>2, <3>1 DEF Write, TypeOK, IsDirectory, Goto, Pcs
  <2>3. ASSUME MaybeSync PROVE IsDirectory(wal_dir') /\ DOMAIN wal_dir' = DOMAIN wal_dir
    BY <2>3, SyncEffect DEF MaybeSync, TypeOK
  <2>4. /\ Len(records[t]) \in Nat
        /\ current_size + Len(records[t]) \in Nat
        /\ current_size + (IF Len(records[t]) = 1 THEN 1 ELSE 2 * Len(records[t])) \in Nat
        /\ Timestamps(records[t]) \subseteq 1 .. MaxRecords
    <3>1. /\ Len(records[t]) \in Nat /\ DOMAIN records[t] = 1 .. Len(records[t])
          /\ \A i \in 1 .. Len(records[t]) : records[t][i] \in Records
      BY LenProperties, ElementOfSeq DEF TypeOK
    <3>2. \A i \in DOMAIN records[t] : records[t][i].ts \in 1 .. MaxRecords
      BY <3>1 DEF Records
    <3>3. Timestamps(records[t]) \subseteq 1 .. MaxRecords
      BY <3>2 DEF Timestamps
    <3> DEFINE n == Len(records[t])
    <3>4. n \in Nat /\ current_size \in Nat
      BY <3>1, Numbers
    <3> HIDE DEF n
    <3>5. /\ n \in Nat /\ current_size + n \in Nat
          /\ current_size + (IF n = 1 THEN 1 ELSE 2 * n) \in Nat
      BY <3>4
    <3> QED BY <3>3, <3>5 DEF n
  <2>5. ASSUME NEW from, Return(t, from)
        PROVE  /\ pc' \in [Threads -> Pcs] /\ records' \in [Threads -> Seq(Records)]
               /\ old_current' \in [Threads -> Nat] /\ next_id' \in [Threads -> Nat]
    <3>1. <<>> \in Seq(Records)
      BY EmptySeq
    <3> QED BY <2>5, <3>1 DEF Return, Goto, TypeOK, Pcs
  <2>6. CASE FastAppend(t)
    BY <2>2, <2>6 DEF FastAppend
  <2>7. CASE FastSync(t)
    BY <2>3, <2>7 DEF FastSync, MaybeSync, TypeOK, IsDirectory, Goto, Pcs
  <2>8. CASE Count(t)
    BY <2>4, <2>5, <2>8 DEF Count, Ack, TypeOK, IsDirectory, files
  <2>9. CASE NoRoom(t)
    BY <2>9 DEF NoRoom, TypeOK, IsDirectory, Goto, Pcs, files, manager, history
  <2>10. CASE Rotate(t)
    <3>1. /\ IsDirectory(wal_dir')
          /\ current_segment' = current_segment + 1 /\ current_segment' \in DOMAIN wal_dir'
          /\ current_size' = 0
      BY <2>10, RotateEffect DEF Rotate
    <3>2. pc' \in [Threads -> Pcs]
      BY <2>10 DEF Rotate, Goto, TypeOK, Pcs
    <3>3. UNCHANGED <<archive, mode, status, first_segment, records, old_current, next_id,
                      history>>
      BY <2>10 DEF Rotate, Goto
    <3> QED BY <3>1, <3>2, <3>3 DEF TypeOK, IsDirectory, history
  <2>11. CASE ReadCurrent(t)
    BY <2>11, Numbers DEF ReadCurrent, TypeOK, IsDirectory, Goto, Pcs, files, manager, history
  <2>12. CASE LoadFirst(t)
    BY <2>12 DEF LoadFirst, TypeOK, IsDirectory, Goto, Pcs, files, manager, history
  <2>13. CASE Exists(t)
    <3>1. next_id' \in [Threads -> Nat]
      BY <2>13, Numbers DEF Exists, TypeOK
    <3> QED BY <2>13, <3>1 DEF Exists, TypeOK, IsDirectory, Goto, Pcs, files, manager, history
  <2>14. CASE Rename(t)
    <3>1. /\ IsDirectory(wal_dir') /\ IsDirectory(archive')
          /\ DOMAIN wal_dir' = DOMAIN wal_dir \ {next_id[t]}
      BY <2>14, RenameEffect
    <3>2. next_id[t] # current_segment
      BY <2>14, Numbers DEF Rename, Goto, Archiving, archive_up_to
    <3>3. next_id' \in [Threads -> Nat]
      BY <2>14, Numbers DEF Rename, TypeOK
    <3> QED BY <2>14, <3>1, <3>2, <3>3 DEF Rename, TypeOK, Goto, Pcs, manager, history
  <2>15. CASE RenameFails(t)
    BY <2>5, <2>15 DEF RenameFails, TypeOK, IsDirectory, files, manager, history
  <2>16. CASE StoreFirst(t)
    <3>1. first_segment' \in Nat
      BY <2>16 DEF StoreFirst, Goto, Archiving
    <3> QED BY <2>16, <3>1 DEF StoreFirst, TypeOK, IsDirectory, Goto, Pcs, files, history
  <2>17. CASE SlowAppend(t)
    BY <2>2, <2>17 DEF SlowAppend
  <2>18. CASE SlowSync(t)
    <3>1. IsDirectory(wal_dir') /\ DOMAIN wal_dir' = DOMAIN wal_dir
      BY <2>3, <2>18 DEF SlowSync
    <3>2. current_size' \in Nat /\ acked' \subseteq 1 .. MaxRecords
      BY <2>4, <2>18 DEF SlowSync, Ack, TypeOK
    <3> QED BY <2>5, <2>18, <3>1, <3>2 DEF SlowSync, MaybeSync, TypeOK, IsDirectory
  <2> QED BY <1>6, <2>1, <2>6, <2>7, <2>8, <2>9, <2>10, <2>11, <2>12, <2>13, <2>14, <2>15,
             <2>16, <2>17, <2>18 DEF ThreadStep
<1> QED BY <1>1, <1>2, <1>3, <1>4, <1>5, <1>6 DEF Next

\* A step that neither rotates nor moves a file leaves every segment in its place.
StayInPlace ==
    /\ DOMAIN wal_dir' = DOMAIN wal_dir /\ archive' = archive
    /\ current_segment' = current_segment

\* Which steps move no segment, and what they do to first_segment.
LEMMA MostStayInPlace ==
    ASSUME ArchiveInv, [Next]_vars
    PROVE  \/ StayInPlace /\ first_segment' = first_segment
           \/ StayInPlace /\ Open
           \/ \E t \in Threads : Rotate(t) \/ Rename(t) \/ (StayInPlace /\ StoreFirst(t))
<1> USE DEF ArchiveInv, StayInPlace
<1> DEFINE Same == StayInPlace /\ first_segment' = first_segment
<1>1. CASE UNCHANGED vars
  BY <1>1 DEF vars, files, manager
<1>2. CASE Sync
  BY <1>2, SyncEffect DEF Sync, manager
<1>3. CASE Crash
  BY <1>3, CrashIsEnd, EndEffect DEF End, manager
<1>4. CASE Close
  BY <1>4, CloseIsEnd, EndEffect DEF End, manager
<1>5. CASE Open
  BY <1>5, OpenEffect
<1>6. ASSUME NEW t \in Threads, ThreadStep(t)
      PROVE  Same \/ Rotate(t) \/ Rename(t) \/ (StayInPlace /\ StoreFirst(t))
  <2>1. ASSUME Write(t), UNCHANGED current_segment PROVE Same
    BY <2>1, WriteEffect DEF Write
  <2>2. ASSUME MaybeSync PROVE Same
    BY <2>2, SyncEffect DEF MaybeSync
  <2>3. CASE FastAppend(t) \/ SlowAppend(t)
    BY <2>1, <2>3 DEF FastAppend, SlowAppend
  <2>4. CASE FastSync(t) \/ SlowSync(t)
    BY <2>2, <2>4 DEF FastSync, SlowSync
  <2>5. CASE Call(t) \/ NoRoom(t) \/ ReadCurrent(t) \/ LoadFirst(t) \/ Exists(t) \/ RenameFails(t)
    BY <2>5 DEF Call, NoRoom, ReadCurrent, LoadFirst, Exists, RenameFails, files, manager
  <2>6. CASE Count(t)
    BY <2>6 DEF Count, files
  <2>7. CASE StoreFirst(t)
    BY <2>7 DEF StoreFirst, files
  <2> QED BY <1>6, <2>3, <2>4, <2>5, <2>6, <2>7 DEF ThreadStep
<1> QED BY <1>1, <1>2, <1>3, <1>4, <1>5, <1>6 DEF Next

\* Every step leaves each segment in one of the directories.
LEMMA PlacedStep ==
    ASSUME ArchiveInv, [Next]_vars
    PROVE  Placed'
<1> USE DEF ArchiveInv
<1>1. CASE StayInPlace /\ first_segment' = first_segment
  BY <1>1 DEF StayInPlace, Placed
<1>2. CASE StayInPlace /\ Open
  <2>1. \A i \in DOMAIN wal_dir : first_segment' <= i
    BY <1>2, OpenEffect
  <2>2. first_segment' \in DOMAIN wal_dir /\ DOMAIN wal_dir \subseteq Nat
    BY <1>2, OpenEffect DEF TypeOK, IsDirectory
  <2> QED BY <1>2, <2>1, <2>2 DEF StayInPlace, Placed
<1>3. ASSUME NEW t \in Threads, StayInPlace, StoreFirst(t) PROVE Placed'
  <2>1. first_segment' = archive_up_to(t) /\ next_id[t] >= archive_up_to(t)
        /\ pc[t] = "exists" /\ archive_up_to(t) \in Nat
    BY <1>3 DEF StoreFirst, Goto, Archiving
  <2>2. \A i \in 1 .. current_segment : i < first_segment' => i \in DOMAIN archive
    BY <2>1, Numbers DEF Archiving
  <2> QED BY <1>3, <2>2 DEF StayInPlace, Placed
<1>4. ASSUME NEW t \in Threads, Rotate(t) PROVE Placed'
  <2>1. /\ DOMAIN wal_dir' = DOMAIN wal_dir \cup {current_segment + 1}
        /\ archive' = archive /\ current_segment' = current_segment + 1
        /\ first_segment' = first_segment
    BY <1>4, RotateEffect DEF Rotate
  <2> QED BY <2>1, Numbers, NotBeyond DEF Placed
<1>5. ASSUME NEW t \in Threads, Rename(t) PROVE Placed'
  <2>1. /\ next_id[t] \in DOMAIN wal_dir
        /\ DOMAIN wal_dir' = DOMAIN wal_dir \ {next_id[t]}
        /\ DOMAIN archive' = DOMAIN archive \cup {next_id[t]}
        /\ current_segment' = current_segment /\ first_segment' = first_segment
    BY <1>5, RenameEffect DEF Rename, manager
  <2>2. next_id[t] + min_segments_to_keep < current_segment
    BY <1>5, Numbers DEF Rename, Goto, Archiving, archive_up_to
  <2> QED BY <2>1, <2>2, Numbers DEF Placed
<1> QED BY <1>1, <1>2, <1>3, <1>4, <1>5, MostStayInPlace

\* What a step does to the archive and the current segment: neither shrinks.
LEMMA OnlyGrows ==
    ASSUME ArchiveInv, [Next]_vars
    PROVE  /\ DOMAIN archive \subseteq DOMAIN archive'
           /\ \/ current_segment' = current_segment
              \/ current_segment' = current_segment + 1 /\ archive' = archive
<1>1. ASSUME NEW t \in Threads, Rename(t) PROVE DOMAIN archive \subseteq DOMAIN archive'
                                           /\ current_segment' = current_segment
  BY <1>1, RenameEffect DEF ArchiveInv, Rename, manager
<1> QED BY <1>1, MostStayInPlace DEF StayInPlace, Rotate

\* A thread in archive_old_segments is disturbed by no other.
LEMMA ArchivingStep ==
    ASSUME ArchiveInv, [Next]_vars, NEW t \in Threads
    PROVE  Archiving(t)'
<1> USE DEF ArchiveInv
<1>1. CASE UNCHANGED <<pc[t], old_current[t], next_id[t]>>
  <2>1. archive_up_to(t)' = archive_up_to(t)
    BY <1>1 DEF archive_up_to
  <2>2. \A i \in 1 .. current_segment' : pc[t] \in {"exists", "rename"} /\ i < next_id[t]
            => i \in DOMAIN archive'
    BY OnlyGrows, NotBeyond, Numbers DEF Archiving
  <2> QED BY <1>1, <2>1, <2>2, OnlyGrows, Numbers DEF Archiving
<1>2. CASE pc'[t] \notin {"load_first", "exists", "rename"}
  BY <1>2 DEF Archiving
<1>3. CASE ReadCurrent(t)
  BY <1>3, Numbers DEF ReadCurrent, Goto, Archiving, TypeOK, manager
<1>4. CASE LoadFirst(t)
  <2>1. /\ next_id'[t] = first_segment /\ old_current'[t] = old_current[t]
        /\ pc[t] = "load_first" /\ old_current[t] <= current_segment
        /\ UNCHANGED <<archive, current_segment>>
    BY <1>4 DEF LoadFirst, Goto, Archiving, TypeOK, files, manager
  <2>2. \/ pc'[t] = "exists" /\ old_current[t] > first_segment + min_segments_to_keep
        \/ pc'[t] = "slow_append"
    BY <1>4, Numbers DEF LoadFirst, Goto, TypeOK
  <2> QED BY <2>1, <2>2, Numbers DEF Archiving, archive_up_to, Placed
<1>5. CASE Exists(t)
  <2>1. /\ pc[t] = "exists" /\ next_id[t] < archive_up_to(t)
        /\ old_current'[t] = old_current[t]
        /\ UNCHANGED <<wal_dir, archive, current_segment>>
    BY <1>5 DEF Exists, Goto, files, manager
  <2>2. archive_up_to(t)' = archive_up_to(t)
    BY <2>1 DEF archive_up_to
  <2>3. CASE next_id[t] \in DOMAIN wal_dir
    <3>1. pc'[t] = "rename" /\ next_id'[t] = next_id[t]
      BY <1>5, <2>3 DEF Exists, Goto, TypeOK
    <3> QED BY <2>1, <2>2, <3>1, Numbers DEF Archiving
  <2>4. CASE next_id[t] \notin DOMAIN wal_dir
    <3>1. pc'[t] = "exists" /\ next_id'[t] = next_id[t] + 1
      BY <1>5, <2>4 DEF Exists, Goto, TypeOK
    <3>2. \A i \in 1 .. current_segment : i < next_id[t] + 1 => i \in DOMAIN archive
      BY <2>1, <2>4, Numbers DEF Archiving, Placed
    <3> QED BY <2>1, <2>2, <3>1, <3>2, Numbers DEF Archiving
  <2> QED BY <2>3, <2>4
<1>6. CASE Rename(t)
  <2>1. /\ pc[t] = "rename" /\ pc'[t] = "exists" /\ next_id'[t] = next_id[t] + 1
        /\ old_current'[t] = old_current[t]
        /\ DOMAIN archive' = DOMAIN archive \cup {next_id[t]}
        /\ current_segment' = current_segment
    BY <1>6, RenameEffect DEF Rename, Goto, TypeOK, manager
  <2>2. archive_up_to(t)' = archive_up_to(t)
    BY <2>1 DEF archive_up_to
  <2>3. \A i \in 1 .. current_segment : i < next_id[t] + 1 => i \in DOMAIN archive'
    BY <2>1, Numbers DEF Archiving
  <2> QED BY <2>1, <2>2, <2>3, Numbers DEF Archiving
<1>7. CASE UNCHANGED vars
  BY <1>1, <1>7 DEF vars, locals
<1>8. CASE Sync
  BY <1>1, <1>8 DEF Sync, locals
<1>9. CASE Open
  BY <1>1, <1>9 DEF Open, locals
<1>10. CASE Crash \/ Close
  BY <1>2, <1>10 DEF Crash, Close, End
<1>11. ASSUME NEW u \in Threads \ {t}, ThreadStep(u)
       PROVE  UNCHANGED <<pc[t], old_current[t], next_id[t]>>
  <2>1. CASE Call(u)
    BY <1>11, <2>1 DEF Call, Goto, TypeOK
  <2>2. CASE FastAppend(u) \/ SlowAppend(u)
    BY <1>11, <2>2 DEF FastAppend, SlowAppend, Write, Goto, TypeOK
  <2>3. CASE FastSync(u) \/ NoRoom(u) \/ Rotate(u) \/ StoreFirst(u)
    BY <1>11, <2>3 DEF FastSync, NoRoom, Rotate, StoreFirst, Goto, TypeOK
  <2>4. CASE ReadCurrent(u) \/ LoadFirst(u) \/ Exists(u) \/ Rename(u)
    BY <1>11, <2>4 DEF ReadCurrent, LoadFirst, Exists, Rename, Goto, TypeOK
  <2>5. CASE Count(u) \/ RenameFails(u) \/ SlowSync(u)
    BY <1>11, <2>5 DEF Count, RenameFails, SlowSync, Return, Goto, TypeOK
  <2> QED BY <1>11, <2>1, <2>2, <2>3, <2>4, <2>5 DEF ThreadStep
<1>12. ASSUME ThreadStep(t)
       PROVE  \/ ReadCurrent(t) \/ LoadFirst(t) \/ Exists(t) \/ Rename(t)
              \/ pc'[t] \notin {"load_first", "exists", "rename"}
  <2>1. CASE Call(t)
    BY <2>1 DEF Call, Goto, TypeOK
  <2>2. CASE FastAppend(t) \/ SlowAppend(t)
    BY <2>2 DEF FastAppend, SlowAppend, Goto, TypeOK
  <2>3. CASE FastSync(t) \/ NoRoom(t) \/ Rotate(t) \/ StoreFirst(t)
    BY <2>3 DEF FastSync, NoRoom, Rotate, StoreFirst, Goto, TypeOK
  <2>4. CASE Count(t) \/ RenameFails(t) \/ SlowSync(t)
    BY <2>4 DEF Count, RenameFails, SlowSync, Return, Goto, TypeOK
  <2> QED BY <1>12, <2>1, <2>2, <2>3, <2>4 DEF ThreadStep
<1> QED BY <1>1, <1>2, <1>3, <1>4, <1>5, <1>6, <1>7, <1>8, <1>9, <1>10, <1>11, <1>12 DEF Next

\* The invariant of types and places.
THEOREM ArchiveInvariant == Spec => []ArchiveInv
<1>1. Init => ArchiveInv
  BY ArchiveInit
<1>2. ArchiveInv /\ [Next]_vars => ArchiveInv'
  <2> SUFFICES ASSUME ArchiveInv, [Next]_vars PROVE ArchiveInv'
    OBVIOUS
  <2>1. TypeOK' /\ Placed' /\ \A t \in Threads : Archiving(t)'
    BY TypeStep, PlacedStep, ArchivingStep
  <2> QED BY <2>1 DEF ArchiveInv
<1> QED BY <1>1, <1>2, PTL DEF Spec

\* TypeOK: the variables have the types the code's fields and files have,
\* and never is more of a file synced than is there.
THEOREM WalTypes == Spec => []TypeOK
BY ArchiveInvariant, PTL DEF ArchiveInv

\* ArchiveIsOld: rotation, archiving by several threads, crash and reopen leave
\* every segment in exactly one directory, the recent ones where
\* recover_from_timestamp looks.
THEOREM ArchiveSafe == Spec => []ArchiveIsOld
<1>1. ArchiveInv => ArchiveIsOld
  BY Numbers DEF ArchiveInv, Placed, ArchiveIsOld
<1> QED BY <1>1, ArchiveInvariant, PTL

-----------------------------------------------------------------------------
(***************************************************************************)
(* What is synced is kept.                                                 *)
(***************************************************************************)

\* The six ways a step treats the files.
LEMMA FileStep ==
    ASSUME ArchiveInv, [Next]_vars
    PROVE  \/ UNCHANGED <<wal_dir, archive, current_segment>>
           \/ \E t \in Threads : Write(t) /\ UNCHANGED current_segment
           \/ /\ wal_dir' = [wal_dir EXCEPT ![current_segment] = Synced(@)]
              /\ UNCHANGED <<archive, current_segment>>
           \/ \E t \in Threads : Rotate(t) \/ Rename(t)
           \/ \E n \in Current.synced .. Len(Current.recs), fragment \in Seq(Records) :
                 End(n, fragment) /\ n + Len(fragment) <= Len(Current.recs)
<1> USE DEF ArchiveInv
<1> DEFINE Unchanged == UNCHANGED <<wal_dir, archive, current_segment>>
           Syncs == /\ wal_dir' = [wal_dir EXCEPT ![current_segment] = Synced(@)]
                    /\ UNCHANGED <<archive, current_segment>>
<1>1. CASE UNCHANGED vars
  BY <1>1 DEF vars, files, manager
<1>2. CASE Sync
  BY <1>2 DEF Sync, manager
<1>3. CASE Crash
  BY <1>3, CrashIsEnd
<1>4. CASE Close
  BY <1>4, CloseIsEnd
<1>5. CASE Open
  BY <1>5, OpenEffect
<1>6. ASSUME NEW t \in Threads, ThreadStep(t)
      PROVE  Unchanged \/ (Write(t) /\ UNCHANGED current_segment) \/ Syncs
             \/ Rotate(t) \/ Rename(t)
  <2>1. CASE FastAppend(t) \/ SlowAppend(t)
    BY <2>1 DEF FastAppend, SlowAppend
  <2>2. CASE FastSync(t) \/ SlowSync(t)
    BY <2>2 DEF FastSync, SlowSync, MaybeSync
  <2>3. CASE Call(t) \/ NoRoom(t) \/ ReadCurrent(t) \/ LoadFirst(t) \/ Exists(t) \/ RenameFails(t)
    BY <2>3 DEF Call, NoRoom, ReadCurrent, LoadFirst, Exists, RenameFails, files, manager
  <2>4. CASE Count(t) \/ StoreFirst(t)
    BY <2>4 DEF Count, StoreFirst, files
  <2> QED BY <1>6, <2>1, <2>2, <2>3, <2>4 DEF ThreadStep
<1> QED BY <1>1, <1>2, <1>3, <1>4, <1>5, <1>6 DEF Next

\* The first n records of r are those of q.
Keeps(r, n, q) == n <= Len(q) /\ \A j \in 1 .. n : q[j] = r[j]

\* Keeps is what SyncedPartKept says of sequences.
LEMMA KeepsPrefix ==
    ASSUME NEW r \in Seq(Records), NEW q \in Seq(Records), NEW n \in 0 .. Len(r), Keeps(r, n, q)
    PROVE  IsPrefix(SubSeq(r, 1, n), q)
<1>1. /\ Len(r) \in Nat /\ Len(q) \in Nat /\ n \in Nat /\ n <= Len(r) /\ n <= Len(q)
      /\ \A j \in 1 .. Len(r) : r[j] \in Records
      /\ \A j \in 1 .. Len(q) : q[j] \in Records
  BY LenProperties, ElementOfSeq DEF Keeps
<1>2. ASSUME NEW s \in Seq(Records), n <= Len(s)
      PROVE  /\ SubSeq(s, 1, n) \in Seq(Records) /\ Len(SubSeq(s, 1, n)) = n
             /\ \A j \in 1 .. n : SubSeq(s, 1, n)[j] = s[j]
  <2>1. \A j \in 1 .. n : s[j] \in Records
    BY <1>1, <1>2, LenProperties, ElementOfSeq
  <2>2. /\ SubSeq(s, 1, n) \in Seq(Records)
        /\ Len(SubSeq(s, 1, n)) = IF 1 <= n THEN n - 1 + 1 ELSE 0
        /\ \A j \in 1 .. n - 1 + 1 : SubSeq(s, 1, n)[j] = s[1 + j - 1]
    BY <1>1, <2>1, SubSeqProperties
  <2>3. ASSUME NEW j \in 1 .. n PROVE SubSeq(s, 1, n)[j] = s[j]
    BY <1>1, <2>2, 1 + j - 1 = j, n - 1 + 1 = n
  <2> QED BY <1>1, <2>2, <2>3
<1> DEFINE p == SubSeq(r, 1, n)
<1>3. p \in Seq(Records) /\ Len(p) = n /\ \A j \in 1 .. n : p[j] = r[j]
  BY <1>1, <1>2
<1> HIDE DEF p
<1>4. /\ SubSeq(p, 1, n) \in Seq(Records) /\ Len(SubSeq(p, 1, n)) = n
      /\ \A j \in 1 .. n : SubSeq(p, 1, n)[j] = p[j]
  BY <1>1, <1>2, <1>3
<1>5. /\ SubSeq(q, 1, n) \in Seq(Records) /\ Len(SubSeq(q, 1, n)) = n
      /\ \A j \in 1 .. n : SubSeq(q, 1, n)[j] = q[j]
  BY <1>1, <1>2
<1>6. \A j \in 1 .. n : SubSeq(p, 1, n)[j] = SubSeq(q, 1, n)[j]
  BY <1>3, <1>4, <1>5 DEF Keeps
<1>7. SubSeq(p, 1, n) = SubSeq(q, 1, n)
  BY <1>4, <1>5, <1>6, SeqEqual
<1> QED BY <1>1, <1>3, <1>7 DEF IsPrefix, p

\* A directory's files and their records.
LEMMA FileType ==
    ASSUME NEW dir, IsDirectory(dir), NEW i \in DOMAIN dir
    PROVE  /\ i \in Nat \ {0} /\ dir[i] \in Segments
           /\ dir[i].recs \in Seq(Records) /\ Len(dir[i].recs) \in Nat
           /\ dir[i].synced \in 0 .. Len(dir[i].recs)
BY LenProperties DEF IsDirectory, Segments

\* No step touches a file of the archive.
LEMMA ArchiveStays ==
    ASSUME ArchiveInv, [Next]_vars, NEW i \in DOMAIN archive
    PROVE  i \in DOMAIN archive' /\ archive'[i] = archive[i]
<1>1. ASSUME NEW t \in Threads, Rename(t)
      PROVE  i \in DOMAIN archive' /\ archive'[i] = archive[i]
  BY <1>1, RenameEffect, ZenonT(40) DEF ArchiveInv, Placed
<1>2. ASSUME NEW t \in Threads, Write(t) \/ Rotate(t) PROVE UNCHANGED archive
  BY <1>2 DEF Write, Rotate
<1>3. ASSUME NEW n, NEW fragment, End(n, fragment) PROVE UNCHANGED archive
  BY <1>3 DEF End
<1> QED BY <1>1, <1>2, <1>3, FileStep

\* A file of the directory stays there or is archived, with what is synced.
LEMMA SyncedStays ==
    ASSUME ArchiveInv, [Next]_vars, NEW i \in DOMAIN wal_dir
    PROVE  \/ /\ i \in DOMAIN wal_dir'
              /\ Keeps(wal_dir[i].recs, wal_dir[i].synced, wal_dir'[i].recs)
           \/ i \in DOMAIN archive' /\ archive'[i] = wal_dir[i]
<1> USE DEF ArchiveInv
<1> DEFINE Goal == \/ /\ i \in DOMAIN wal_dir'
                      /\ Keeps(wal_dir[i].recs, wal_dir[i].synced, wal_dir'[i].recs)
                   \/ i \in DOMAIN archive' /\ archive'[i] = wal_dir[i]
<1>1. /\ Len(wal_dir[i].recs) \in Nat /\ wal_dir[i].synced \in 0 .. Len(wal_dir[i].recs)
      /\ Keeps(wal_dir[i].recs, wal_dir[i].synced, wal_dir[i].recs)
  BY FileType DEF TypeOK, Keeps
<1>2. CASE UNCHANGED wal_dir
  BY <1>1, <1>2
<1>3. ASSUME NEW t \in Threads, Write(t) PROVE Goal
  <2>1. /\ DOMAIN wal_dir' = DOMAIN wal_dir
        /\ i # current_segment => wal_dir'[i] = wal_dir[i]
        /\ Len(wal_dir'[current_segment].recs) = Len(Current.recs) + Len(records[t])
        /\ \A j \in 1 .. Len(Current.recs) :
              wal_dir'[current_segment].recs[j] = Current.recs[j]
    BY <1>3, WriteEffect DEF Write
  <2>2. Len(records[t]) \in Nat
    BY LenProperties DEF TypeOK
  <2>3. CASE i = current_segment
    <3> DEFINE m == Len(Current.recs)
               n == wal_dir[i].synced
    <3>1. m \in Nat /\ n \in Nat /\ n <= m /\ Len(wal_dir'[i].recs) = m + Len(records[t])
      <4>1. wal_dir[i] = Current
        BY <2>3 DEF Current
      <4>2. m \in Nat /\ n \in 0 .. m
        BY <1>1, <4>1
      <4>3. Len(wal_dir'[i].recs) = m + Len(records[t])
        BY <2>1, <2>3
      <4> HIDE DEF m, n
      <4> QED BY <4>2, <4>3
    <3> HIDE DEF m, n
    <3>2. n <= Len(wal_dir'[i].recs) /\ \A j \in 1 .. n : j \in 1 .. m
      BY <2>2, <3>1
    <3>3. \A j \in 1 .. m : wal_dir'[i].recs[j] = wal_dir[i].recs[j]
      BY <2>1, <2>3 DEF Current, m
    <3>4. Keeps(wal_dir[i].recs, n, wal_dir'[i].recs)
      BY <3>2, <3>3 DEF Keeps
    <3> QED BY <2>1, <2>3, <3>4 DEF n
  <2> QED BY <1>1, <2>1, <2>3
<1>4. CASE wal_dir' = [wal_dir EXCEPT ![current_segment] = Synced(@)]
  <2>1. i \in DOMAIN wal_dir' /\ wal_dir'[i].recs = wal_dir[i].recs
    BY <1>4, SyncEffect DEF Current
  <2> QED BY <1>1, <2>1 DEF Keeps
<1>5. ASSUME NEW t \in Threads, Rotate(t) PROVE Goal
  <2>1. current_segment + 1 \notin DOMAIN wal_dir
    BY Numbers DEF Placed
  <2>2. i \in DOMAIN wal_dir' /\ wal_dir'[i].recs = wal_dir[i].recs
    BY <1>5, <2>1, RotateEffect DEF Current
  <2> QED BY <1>1, <2>2 DEF Keeps
<1>6. ASSUME NEW t \in Threads, Rename(t) PROVE Goal
  <2>1. /\ DOMAIN wal_dir' = DOMAIN wal_dir \ {next_id[t]}
        /\ \A j \in DOMAIN wal_dir' : wal_dir'[j] = wal_dir[j]
        /\ DOMAIN archive' = DOMAIN archive \cup {next_id[t]}
        /\ archive'[next_id[t]] = wal_dir[next_id[t]]
    BY <1>6, RenameEffect
  <2>2. CASE i = next_id[t]
    BY <2>1, <2>2
  <2>3. CASE i # next_id[t]
    BY <1>1, <2>1, <2>3
  <2> QED BY <2>2, <2>3
<1>7. ASSUME NEW n \in Current.synced .. Len(Current.recs), NEW fragment \in Seq(Records),
             End(n, fragment)
      PROVE  Goal
  <2>1. /\ DOMAIN wal_dir' = DOMAIN wal_dir
        /\ i # current_segment => wal_dir'[i] = wal_dir[i]
        /\ Len(wal_dir'[current_segment].recs) = n + Len(fragment)
        /\ \A j \in 1 .. n : wal_dir'[current_segment].recs[j] = Current.recs[j]
    BY <1>7, EndEffect
  <2>2. Len(fragment) \in Nat
    BY LenProperties
  <2>3. CASE i = current_segment
    <3>1. n \in Nat /\ wal_dir[i].synced <= n /\ wal_dir[i].synced \in Nat
      BY <1>1, <2>3 DEF Current
    <3>2. /\ wal_dir[i].synced <= Len(wal_dir'[i].recs)
          /\ \A j \in 1 .. wal_dir[i].synced : j \in 1 .. n
      BY <2>1, <2>2, <2>3, <3>1
    <3> QED BY <2>1, <2>3, <3>2 DEF Keeps, Current
  <2> QED BY <1>1, <2>1, <2>3
<1> QED BY <1>2, <1>3, <1>4, <1>5, <1>6, <1>7, FileStep

\* AllFiles has the files of both directories.
BothDirectories ==
    /\ DOMAIN AllFiles = DOMAIN wal_dir \cup DOMAIN archive
    /\ \A i \in DOMAIN wal_dir : AllFiles[i] = wal_dir[i]
    /\ \A i \in DOMAIN archive : AllFiles[i] = archive[i]
    /\ \A i \in DOMAIN AllFiles :
          /\ AllFiles[i].recs \in Seq(Records) /\ Len(AllFiles[i].recs) \in Nat
          /\ AllFiles[i].synced \in 0 .. Len(AllFiles[i].recs)

\* It does when no id is in both directories.
LEMMA FilesOfBoth ==
    ASSUME ArchiveInv
    PROVE  BothDirectories
<1>1. /\ DOMAIN AllFiles = DOMAIN wal_dir \cup DOMAIN archive
      /\ \A i \in DOMAIN wal_dir : AllFiles[i] = wal_dir[i]
      /\ \A i \in DOMAIN archive : AllFiles[i] = archive[i]
  BY DEF ArchiveInv, Placed, AllFiles, Join
<1>2. \A i \in DOMAIN AllFiles :
         /\ AllFiles[i].recs \in Seq(Records) /\ Len(AllFiles[i].recs) \in Nat
         /\ AllFiles[i].synced \in 0 .. Len(AllFiles[i].recs)
  BY <1>1, FileType DEF ArchiveInv, TypeOK
<1> QED BY <1>1, <1>2 DEF BothDirectories

\* SyncedPartKept: no append, sync, rotation, move to the archive, crash or
\* reopen shortens or changes the synced part of a segment.
THEOREM SyncedIsKept == Spec => SyncedPartKept
<1> DEFINE Kept == \A i \in DOMAIN AllFiles :
               /\ i \in DOMAIN AllFiles'
               /\ IsPrefix(SubSeq(AllFiles[i].recs, 1, AllFiles[i].synced), AllFiles'[i].recs)
<1>1. ArchiveInv /\ BothDirectories' /\ [Next]_vars => [Kept]_vars
  <2> SUFFICES ASSUME ArchiveInv, BothDirectories', [Next]_vars, NEW i \in DOMAIN AllFiles
               PROVE  /\ i \in DOMAIN AllFiles'
                      /\ IsPrefix(SubSeq(AllFiles[i].recs, 1, AllFiles[i].synced),
                                  AllFiles'[i].recs)
    OBVIOUS
  <2>1. /\ DOMAIN AllFiles = DOMAIN wal_dir \cup DOMAIN archive
        /\ i \in DOMAIN wal_dir => AllFiles[i] = wal_dir[i]
        /\ i \in DOMAIN archive => AllFiles[i] = archive[i]
        /\ AllFiles[i].recs \in Seq(Records) /\ Len(AllFiles[i].recs) \in Nat
        /\ AllFiles[i].synced \in 0 .. Len(AllFiles[i].recs)
    BY FilesOfBoth DEF BothDirectories
  <2>2. /\ DOMAIN AllFiles' = DOMAIN wal_dir' \cup DOMAIN archive'
        /\ i \in DOMAIN wal_dir' => AllFiles'[i] = wal_dir'[i]
        /\ i \in DOMAIN archive' => AllFiles'[i] = archive'[i]
        /\ i \in DOMAIN AllFiles' => AllFiles'[i].recs \in Seq(Records)
    BY DEF BothDirectories
  <2>3. i \in DOMAIN AllFiles'
        /\ Keeps(AllFiles[i].recs, AllFiles[i].synced, AllFiles'[i].recs)
    <3>1. Keeps(AllFiles[i].recs, AllFiles[i].synced, AllFiles[i].recs)
      BY <2>1 DEF Keeps
    <3>2. CASE i \in DOMAIN archive
      BY <2>1, <2>2, <3>1, <3>2, ArchiveStays
    <3>3. CASE i \in DOMAIN wal_dir
      BY <2>1, <2>2, <3>1, <3>3, SyncedStays
    <3> QED BY <2>1, <3>2, <3>3
  <2> QED BY <2>1, <2>2, <2>3, KeepsPrefix
<1>2. ArchiveInv => BothDirectories
  BY FilesOfBoth
<1> QED BY <1>1, <1>2, ArchiveInvariant, PTL DEF Spec, SyncedPartKept

-----------------------------------------------------------------------------
(***************************************************************************)
(* What a crash can lose.                                                  *)
(***************************************************************************)

\* The records of the calls that run are new, acknowledged to nobody, and no
\* other call's.
Fresh ==
    /\ acked \subseteq 1 .. requested
    /\ \A t \in Threads : Timestamps(records[t]) \subseteq (1 .. requested) \ acked
    /\ \A t, u \in Threads :
          t # u => Timestamps(records[t]) \cap Timestamps(records[u]) = {}

\* Thread t holds the mutex of the Wal.
Holds(t) == pc[t] \in {"fast_sync", "slow_sync"}

\* As many records may be acknowledged and not synced.
Allowed(k) ==
    /\ k \in Nat
    /\ mode = "Sync" => k = 0
    /\ mode = "GroupSync" => k < Max({group_commit_size, 1})

\* What is not synced is no more than that, but for the records of the thread
\* between its write and its sync; those are at the end.
UnsyncedInv ==
    /\ \A t, u \in Threads : Holds(t) /\ Holds(u) => t = u
    /\ WalFree => Allowed(Len(Current.recs) - Current.synced)
    /\ \A t \in Threads : Holds(t) =>
          LET k == Len(Current.recs) - Len(records[t])
          IN  /\ Allowed(k - Current.synced)
              /\ \A j \in 1 .. Len(records[t]) : Current.recs[k + j] = records[t][j]

LossInv == ArchiveInv /\ Fresh /\ UnsyncedInv /\ LossIsBounded

\* A group of no or one record is one record.
LEMMA GroupRoom ==
    /\ Max({group_commit_size, 1}) \in Nat \ {0}
    /\ Max({group_commit_size, 1}) >= group_commit_size
<1> DEFINE m == IF group_commit_size >= 1 THEN group_commit_size ELSE 1
<1>1. /\ m \in {group_commit_size, 1} /\ \A y \in {group_commit_size, 1} : m >= y
      /\ \A x \in {group_commit_size, 1} :
            (\A y \in {group_commit_size, 1} : x >= y) => x = m
      /\ m \in Nat \ {0} /\ m >= group_commit_size
  BY WalAssumption
<1> HIDE DEF m
<1>2. Max({group_commit_size, 1}) = m
  BY <1>1 DEF Max
<1> QED BY <1>1, <1>2

\* A thread that returns leaves the other threads' records alone.
LEMMA ReturnEffect ==
    ASSUME TypeOK, NEW t \in Threads, NEW from, Return(t, from)
    PROVE  /\ Timestamps(records'[t]) = {} /\ pc'[t] = "idle" /\ pc[t] = from
           /\ \A u \in Threads \ {t} : records'[u] = records[u] /\ pc'[u] = pc[u]
<1>1. records'[t] = <<>> /\ pc'[t] = "idle" /\ pc[t] = from
      /\ \A u \in Threads \ {t} : records'[u] = records[u] /\ pc'[u] = pc[u]
  BY DEF Return, Goto, TypeOK
<1>2. DOMAIN <<>> = {}
  OBVIOUS
<1> QED BY <1>1, <1>2 DEF Timestamps

\* The timestamps of a new call are new.
LEMMA CallEffect ==
    ASSUME TypeOK, NEW t \in Threads, Call(t)
    PROVE  /\ requested' \in Nat /\ requested' >= requested
           /\ Timestamps(records'[t]) \subseteq requested + 1 .. requested'
           /\ pc[t] = "idle" /\ pc'[t] = "check"
           /\ \A u \in Threads \ {t} : records'[u] = records[u] /\ pc'[u] = pc[u]
<1>1. PICK n \in BatchLens :
         /\ requested' = requested + n
         /\ records' = [records EXCEPT ![t] =
                           [i \in 1 .. n |-> Record(requested + i, "whole")]]
  BY DEF Call
<1>2. n \in Nat /\ requested \in Nat
  BY WalAssumption DEF TypeOK
<1>3. records'[t] = [i \in 1 .. n |-> Record(requested + i, "whole")]
  BY <1>1 DEF TypeOK
<1>4. Timestamps(records'[t]) \subseteq requested + 1 .. requested + n
  <2>1. \A i \in 1 .. n : records'[t][i].ts = requested + i
    BY <1>3 DEF Record
  <2>2. DOMAIN records'[t] = 1 .. n
    BY <1>3
  <2> QED BY <1>2, <2>1, <2>2 DEF Timestamps
<1>5. /\ pc[t] = "idle" /\ pc'[t] = "check"
      /\ \A u \in Threads \ {t} : records'[u] = records[u] /\ pc'[u] = pc[u]
  BY <1>1 DEF Call, Goto, TypeOK
<1> QED BY <1>1, <1>2, <1>4, <1>5

\* Every step keeps the records of running calls new.
LEMMA FreshStep ==
    ASSUME ArchiveInv, Fresh, [Next]_vars
    PROVE  Fresh'
<1> USE DEF ArchiveInv
<1>0. \A t \in Threads : Timestamps(records[t])' = Timestamps(records'[t])
  BY DEF Timestamps
<1>1. CASE UNCHANGED <<records, acked, requested>>
  BY <1>0, <1>1 DEF Fresh
<1>2. CASE Crash \/ Close
  <2>1. /\ records' = [t \in Threads |-> <<>>] /\ UNCHANGED <<acked, requested>>
    BY <1>2 DEF Crash, Close, End
  <2>2. \A t \in Threads : Timestamps(records'[t]) = {}
    <3>1. DOMAIN <<>> = {}
      OBVIOUS
    <3> QED BY <2>1, <3>1 DEF Timestamps
  <2> QED BY <1>0, <2>1, <2>2 DEF Fresh
<1>3. ASSUME NEW t \in Threads, ThreadStep(t) PROVE Fresh'
  <2>1. CASE Call(t)
    <3>1. /\ requested \in Nat /\ requested' \in Nat /\ requested' >= requested
          /\ acked' = acked
      <4>1. acked' = acked
        BY <2>1 DEF Call
      <4>2. requested' \in Nat /\ requested' >= requested
        BY <2>1, CallEffect
      <4> QED BY <4>1, <4>2 DEF TypeOK
    <3>2. Timestamps(records'[t]) \subseteq requested + 1 .. requested'
      BY <2>1, CallEffect
    <3>3. \A u \in Threads \ {t} : Timestamps(records'[u]) = Timestamps(records[u])
      BY <2>1, CallEffect DEF Timestamps
    <3>4. \A u \in Threads : Timestamps(records'[u]) \subseteq (1 .. requested') \ acked
      BY <3>1, <3>2, <3>3 DEF Fresh
    <3>5. \A u \in Threads \ {t} : Timestamps(records'[t]) \cap Timestamps(records'[u]) = {}
      BY <3>1, <3>2, <3>3 DEF Fresh
    <3> QED BY <1>0, <3>1, <3>3, <3>4, <3>5 DEF Fresh
  <2>2. ASSUME NEW from, Return(t, from), UNCHANGED requested,
               acked' = acked \/ acked' = acked \cup Timestamps(records[t])
        PROVE  Fresh'
    <3>1. Timestamps(records'[t]) = {}
      BY <2>2, ReturnEffect
    <3>2. \A u \in Threads \ {t} : Timestamps(records'[u]) = Timestamps(records[u])
      BY <2>2, ReturnEffect DEF Timestamps
    <3> QED BY <1>0, <2>2, <3>1, <3>2 DEF Fresh
  <2>3. CASE Count(t) \/ SlowSync(t)
    BY <2>2, <2>3 DEF Count, SlowSync, MaybeSync, Ack
  <2>4. CASE RenameFails(t)
    BY <2>2, <2>4 DEF RenameFails, history
  <2>5. CASE FastAppend(t) \/ SlowAppend(t) \/ FastSync(t)
    BY <1>1, <2>5 DEF FastAppend, SlowAppend, FastSync, Write, MaybeSync
  <2>6. CASE NoRoom(t) \/ ReadCurrent(t) \/ LoadFirst(t) \/ Exists(t) \/ Rename(t)
             \/ StoreFirst(t) \/ Rotate(t)
    BY <1>1, <2>6 DEF NoRoom, ReadCurrent, LoadFirst, Exists, Rename, StoreFirst, Rotate, history
  <2> QED BY <1>3, <2>1, <2>3, <2>4, <2>5, <2>6 DEF ThreadStep
<1>4. CASE Sync \/ Open \/ UNCHANGED vars
  BY <1>1, <1>4 DEF Sync, Open, vars, locals, history
<1> QED BY <1>2, <1>3, <1>4 DEF Next

\* What of the files and threads UnsyncedInv is about stays as it is.
SameTail ==
    /\ Current' = Current /\ mode' = mode
    /\ \A t \in Threads : Holds(t)' = Holds(t) /\ (Holds(t) => records'[t] = records[t])

\* A step that leaves the current file and the mutex alone keeps UnsyncedInv.
LEMMA TailFrame ==
    ASSUME TypeOK, UnsyncedInv, SameTail
    PROVE  UnsyncedInv'
<1>1. WalFree' = WalFree
  BY DEF SameTail, WalFree, Holds
<1>2. WalFree => Allowed(Len(Current.recs) - Current.synced)'
  BY DEF UnsyncedInv, SameTail, Allowed
<1>3. ASSUME NEW t \in Threads, Holds(t)
      PROVE  /\ Allowed(Len(Current.recs) - Len(records[t]) - Current.synced)'
             /\ \A j \in 1 .. Len(records'[t]) :
                   Current'.recs[Len(Current'.recs) - Len(records'[t]) + j] = records'[t][j]
  <2>1. records'[t] = records[t] /\ Current' = Current /\ mode' = mode
    BY <1>3 DEF SameTail
  <2>2. Allowed(Len(Current.recs) - Len(records[t]) - Current.synced)
    BY <1>3 DEF UnsyncedInv
  <2>3. \A j \in 1 .. Len(records[t]) :
           Current.recs[Len(Current.recs) - Len(records[t]) + j] = records[t][j]
    BY <1>3 DEF UnsyncedInv
  <2>4. Allowed(Len(Current.recs) - Len(records[t]) - Current.synced)'
    BY <2>1, <2>2 DEF Allowed
  <2> QED BY <2>1, <2>3, <2>4
<1>4. \A t, u \in Threads : Holds(t)' /\ Holds(u)' => t = u
  BY DEF UnsyncedInv, SameTail
<1> QED BY <1>1, <1>2, <1>3, <1>4 DEF UnsyncedInv, SameTail

\* All is synced and no thread holds the mutex.
LEMMA AllSynced ==
    ASSUME TypeOK', \A t \in Threads : ~ Holds(t)',
           Current'.synced = Len(Current'.recs), Len(Current'.recs) \in Nat, mode' = mode
    PROVE  UnsyncedInv'
<1>1. Max({group_commit_size, 1}) \in Nat \ {0}
  BY GroupRoom
<1>2. Len(Current'.recs) - Current'.synced = 0
  OBVIOUS
<1>3. Allowed(Len(Current.recs) - Current.synced)'
  BY <1>1, <1>2 DEF Allowed
<1> QED BY <1>3 DEF UnsyncedInv

\* The writing of t's records: what was allowed before is what is not t's.
LEMMA WriteTail ==
    ASSUME TypeOK, UnsyncedInv, NEW t \in Threads, Write(t), UNCHANGED current_segment,
           Holds(t)', \A u \in Threads \ {t} : Holds(u)' = Holds(u)
    PROVE  UnsyncedInv'
<1>1. /\ Len(Current'.recs) = Len(Current.recs) + Len(records[t])
      /\ Current'.synced = Current.synced
      /\ \A j \in 1 .. Len(records[t]) :
            Current'.recs[Len(Current.recs) + j] = records[t][j]
      /\ records' = records /\ mode' = mode /\ WalFree
  BY WriteEffect DEF Write, Current
<1>2. /\ Len(Current.recs) \in Nat /\ Current.synced \in Nat /\ Len(records[t]) \in Nat
  BY CurrentFile, LenProperties DEF TypeOK
<1>3. Len(Current'.recs) - Len(records[t]) = Len(Current.recs)
  BY <1>1, <1>2
<1>4. \A u \in Threads : Holds(u)' => u = t
  BY <1>1 DEF WalFree, Holds
<1>5. Allowed(Len(Current.recs) - Current.synced)
  BY <1>1 DEF UnsyncedInv
<1>6. Allowed(Len(Current.recs) - Len(records[t]) - Current.synced)'
  BY <1>1, <1>3, <1>5 DEF Allowed
<1>7. \A j \in 1 .. Len(records'[t]) :
         Current'.recs[Len(Current'.recs) - Len(records'[t]) + j] = records'[t][j]
  BY <1>1, <1>3
<1>8. ~ WalFree'
  BY DEF WalFree, Holds
<1> QED BY <1>4, <1>6, <1>7, <1>8 DEF UnsyncedInv

\* maybe_sync_internal: what is not synced after it is allowed.
LEMMA SyncTail ==
    ASSUME TypeOK, UnsyncedInv, TypeOK', NEW t \in Threads, Holds(t), MaybeSync,
           ~ Holds(t)', \A u \in Threads \ {t} : Holds(u)' = Holds(u)
    PROVE  UnsyncedInv'
<1>1. \A u \in Threads : ~ Holds(u)'
  BY DEF UnsyncedInv
<1>2. mode' = mode /\ current_segment' = current_segment
  BY DEF MaybeSync
<1>3. CASE MustSync
  <2>1. /\ Current'.recs = Current.recs /\ Current'.synced = Len(Current.recs)
    BY <1>2, <1>3, SyncEffect DEF MaybeSync, Current
  <2>2. Len(Current.recs) \in Nat
    BY CurrentFile
  <2> QED BY <1>1, <1>2, <2>1, <2>2, AllSynced
<1>4. CASE ~ MustSync
  <2>1. Current' = Current
    BY <1>2, <1>4 DEF MaybeSync, Current
  <2> DEFINE k == Len(Current.recs) - Current.synced
  <2>2. /\ k \in Nat /\ mode # "Sync"
        /\ mode = "GroupSync" => k < group_commit_size
    <3>1. Len(Current.recs) \in Nat /\ Current.synced \in 0 .. Len(Current.recs)
          /\ group_commit_size \in Nat
      BY CurrentFile, Numbers
    <3>2. mode # "Sync" /\ (mode = "GroupSync" => ~(k >= group_commit_size))
      BY <1>4 DEF MustSync
    <3>3. k \in Nat
      BY <3>1
    <3> HIDE DEF k
    <3> QED BY <3>1, <3>2, <3>3
  <2>3. Allowed(k)
    <3> HIDE DEF k
    <3> QED BY <2>2, GroupRoom, Numbers DEF Allowed
  <2>4. Allowed(Len(Current.recs) - Current.synced)'
    BY <1>2, <2>1, <2>3 DEF Allowed
  <2> QED BY <1>1, <2>4 DEF UnsyncedInv
<1> QED BY <1>3, <1>4

\* Every step keeps UnsyncedInv.
LEMMA UnsyncedStep ==
    ASSUME ArchiveInv, ArchiveInv', UnsyncedInv, [Next]_vars
    PROVE  UnsyncedInv'
<1> USE DEF ArchiveInv
<1>1. ASSUME UNCHANGED <<wal_dir, current_segment, mode, pc, records>> PROVE UnsyncedInv'
  BY <1>1, TailFrame DEF SameTail, Current, Holds
<1>2. CASE UNCHANGED vars
  BY <1>1, <1>2 DEF vars, files, manager, locals
<1>3. CASE Sync
  <2>1. /\ Current'.recs = Current.recs /\ Current'.synced = Len(Current.recs)
    BY <1>3, SyncEffect DEF Sync, Current, manager
  <2>2. \A t \in Threads : ~ Holds(t)'
    BY <1>3 DEF Sync, WalFree, Holds, locals
  <2> QED BY <1>3, <2>1, <2>2, CurrentFile, AllSynced DEF Sync
<1>4. CASE Crash \/ Close
  <2>1. PICK n \in Current.synced .. Len(Current.recs), fragment \in Seq(Records) :
               End(n, fragment)
    BY <1>4, CrashIsEnd, CloseIsEnd
  <2>2. /\ Len(Current'.recs) = n + Len(fragment) /\ Current'.synced = n + Len(fragment)
        /\ Len(Current'.recs) \in Nat
    <3>1. current_segment' = current_segment
      BY <2>1 DEF End, manager
    <3>2. n \in Nat /\ Len(fragment) \in Nat
      BY CurrentFile, LenProperties
    <3> QED BY <2>1, <3>1, <3>2, EndEffect DEF Current
  <2>3. \A t \in Threads : ~ Holds(t)'
    BY <2>1 DEF End, Holds
  <2>4. mode' = mode
    BY <2>1 DEF End
  <2> QED BY <2>2, <2>3, <2>4, AllSynced
<1>5. CASE Open
  <2>1. UNCHANGED <<wal_dir, current_segment>>
    BY <1>5, OpenEffect
  <2> QED BY <1>1, <1>5, <2>1 DEF Open, locals
<1>6. ASSUME NEW t \in Threads, ThreadStep(t) PROVE UnsyncedInv'
  <2>1. ASSUME Current' = Current, mode' = mode, ~ Holds(t), ~ Holds(t)',
               \A u \in Threads \ {t} : pc'[u] = pc[u] /\ records'[u] = records[u]
        PROVE  UnsyncedInv'
    BY <2>1, TailFrame DEF SameTail, Holds
  <2>2. CASE Call(t)
    BY <2>1, <2>2, CallEffect DEF Call, Holds, Current, files, manager
  <2>3. CASE NoRoom(t) \/ ReadCurrent(t) \/ LoadFirst(t) \/ Exists(t) \/ StoreFirst(t)
    <3>1. /\ UNCHANGED <<wal_dir, current_segment, mode, records>>
          /\ ~ Holds(t) /\ ~ Holds(t)'
          /\ \A u \in Threads \ {t} : pc'[u] = pc[u]
      <4>1. CASE NoRoom(t)
        BY <4>1 DEF NoRoom, Goto, Holds, TypeOK, files, manager
      <4>2. CASE ReadCurrent(t)
        BY <4>2 DEF ReadCurrent, Goto, Holds, TypeOK, files, manager
      <4>3. CASE LoadFirst(t)
        BY <4>3 DEF LoadFirst, Goto, Holds, TypeOK, files, manager
      <4>4. CASE Exists(t)
        BY <4>4 DEF Exists, Goto, Holds, TypeOK, files, manager
      <4>5. CASE StoreFirst(t)
        BY <4>5 DEF StoreFirst, Goto, Holds, TypeOK, files
      <4> QED BY <2>3, <4>1, <4>2, <4>3, <4>4, <4>5
    <3> QED BY <2>1, <3>1 DEF Current
  <2>4. CASE Count(t) \/ RenameFails(t)
    <3>1. PICK from \in {"count", "rename"} : Return(t, from)
      BY <2>4 DEF Count, RenameFails
    <3>2. /\ ~ Holds(t) /\ ~ Holds(t)'
          /\ \A u \in Threads \ {t} : pc'[u] = pc[u] /\ records'[u] = records[u]
      BY <3>1, ReturnEffect DEF Holds
    <3>3. UNCHANGED <<wal_dir, current_segment, mode>>
      BY <2>4 DEF Count, RenameFails, files, manager
    <3> QED BY <2>1, <3>2, <3>3 DEF Current
  <2>5. CASE Rename(t)
    <3>1. next_id[t] # current_segment
      BY <2>5, Numbers DEF Rename, Goto, Archiving, archive_up_to
    <3>2. Current' = Current
      BY <2>5, <3>1, RenameEffect DEF Rename, Current, manager, TypeOK
    <3>3. /\ ~ Holds(t) /\ ~ Holds(t)' /\ UNCHANGED <<mode, records>>
          /\ \A u \in Threads \ {t} : pc'[u] = pc[u]
      BY <2>5 DEF Rename, Goto, Holds, TypeOK
    <3> QED BY <2>1, <3>2, <3>3
  <2>6. CASE Rotate(t)
    <3>1. \A u \in Threads : ~ Holds(u)'
      BY <2>6 DEF Rotate, Goto, WalFree, Holds, TypeOK
    <3>2. Current' = EmptySegment
      BY <2>6, RotateEffect DEF Rotate, Current
    <3>3. Current'.synced = Len(Current'.recs) /\ Len(Current'.recs) \in Nat
      BY <3>2, EmptySeq DEF EmptySegment
    <3> QED BY <2>6, <3>1, <3>3, AllSynced DEF Rotate
  <2>7. CASE FastAppend(t) \/ SlowAppend(t)
    <3>1. /\ Write(t) /\ UNCHANGED current_segment
          /\ Holds(t)' /\ \A u \in Threads \ {t} : Holds(u)' = Holds(u)
      BY <2>7 DEF FastAppend, SlowAppend, Goto, Holds, TypeOK
    <3> QED BY <3>1, WriteTail
  <2>8. CASE FastSync(t)
    <3>1. /\ MaybeSync /\ Holds(t) /\ ~ Holds(t)'
          /\ \A u \in Threads \ {t} : Holds(u)' = Holds(u)
      BY <2>8 DEF FastSync, Goto, Holds, TypeOK
    <3> QED BY <3>1, SyncTail
  <2>9. CASE SlowSync(t)
    <3>1. /\ MaybeSync /\ Holds(t) /\ ~ Holds(t)'
          /\ \A u \in Threads \ {t} : Holds(u)' = Holds(u)
      BY <2>9, ReturnEffect DEF SlowSync, Holds
    <3> QED BY <3>1, SyncTail
  <2> QED BY <1>6, <2>2, <2>3, <2>4, <2>5, <2>6, <2>7, <2>8, <2>9 DEF ThreadStep
<1> QED BY <1>2, <1>3, <1>4, <1>5, <1>6 DEF Next

\* As many records are acknowledged and lost as were allowed not to be synced.
LEMMA LostRecords ==
    ASSUME TypeOK, Fresh, UnsyncedInv, NEW n \in Current.synced .. Len(Current.recs),
           NEW fragment \in Seq(Records), End(n, fragment)
    PROVE  \E k \in Nat : Allowed(k) /\ IsFiniteSet(lost') /\ Cardinality(lost') <= k
<1> DEFINE old == Current.recs
           len == Len(Current.recs)
           s == Current.synced
<1>1. /\ old \in Seq(Records) /\ len \in Nat /\ s \in 0 .. len /\ n \in s .. len
      /\ len = Len(old)
  BY CurrentFile
<1>2. \E b \in s .. len : Allowed(b - s) /\ \A j \in b + 1 .. len : old[j].ts \notin acked
  <2>1. CASE WalFree
    <3>1. Allowed(len - s)
      BY <2>1 DEF UnsyncedInv
    <3> HIDE DEF old, len, s
    <3> QED BY <1>1, <3>1
  <2>2. CASE ~ WalFree
    <3>1. PICK t \in Threads : Holds(t)
      BY <2>2 DEF WalFree, Holds
    <3> DEFINE m == Len(records[t])
    <3>2. m \in Nat /\ DOMAIN records[t] = 1 .. m
      BY LenProperties DEF TypeOK
    <3>3. /\ Allowed(len - m - s)
          /\ \A j \in 1 .. m : old[len - m + j] = records[t][j]
      BY <3>1 DEF UnsyncedInv
    <3>4. \A j \in 1 .. m : records[t][j].ts \notin acked
      BY <3>2 DEF Fresh, Timestamps
    <3> HIDE DEF old, len, s, m
    <3>5. len - m \in s .. len
      BY <1>1, <3>2, <3>3 DEF Allowed
    <3>6. ASSUME NEW j \in len - m + 1 .. len PROVE old[j].ts \notin acked
      <4>1. j - (len - m) \in 1 .. m /\ len - m + (j - (len - m)) = j
        BY <1>1, <3>2
      <4> QED BY <3>3, <3>4, <4>1
    <3> QED BY <3>3, <3>5, <3>6
  <2> QED BY <2>1, <2>2
<1>3. PICK b \in s .. len : Allowed(b - s) /\ \A j \in b + 1 .. len : old[j].ts \notin acked
  BY <1>2
<1> DEFINE I == s + 1 .. b
           T == {old[j].ts : j \in I}
           gone == SubSeq(old, n + 1, len)
<1>4. lost' \subseteq T
  <2>1. lost' = Timestamps(gone) \cap acked
    BY DEF End
  <2> HIDE DEF old, len, s
  <2>2. \A j \in n + 1 .. len : old[j] \in Records
    BY <1>1, ElementOfSeq
  <2>3. /\ gone \in Seq(Records)
        /\ Len(gone) = IF n + 1 <= len THEN len - (n + 1) + 1 ELSE 0
        /\ \A i \in 1 .. len - (n + 1) + 1 : gone[i] = old[n + 1 + i - 1]
    BY <1>1, <2>2, SubSeqProperties
  <2> HIDE DEF gone
  <2>4. DOMAIN gone = 1 .. len - n
    BY <1>1, <2>3, LenProperties
  <2>5. ASSUME NEW i \in 1 .. len - n PROVE gone[i] = old[n + i]
    <3>1. i \in 1 .. len - (n + 1) + 1 /\ n + 1 + i - 1 = n + i
      BY <1>1
    <3> QED BY <2>3, <3>1
  <2>6. ASSUME NEW i \in 1 .. len - n, gone[i].ts \in acked
        PROVE  n + i \in I /\ gone[i].ts = old[n + i].ts
    <3>1. n + i \in 1 .. len /\ n + i >= s + 1 /\ n + i \in Int
      BY <1>1
    <3>2. n + i \notin b + 1 .. len
      BY <1>3, <2>5, <2>6
    <3> QED BY <1>1, <1>3, <2>5, <3>1, <3>2
  <2> HIDE DEF I
  <2> QED BY <2>1, <2>4, <2>6 DEF Timestamps
<1>5. IsFiniteSet(I) /\ Cardinality(I) = b - s
  <2> HIDE DEF old, len, s
  <2>1. s + 1 \in Int /\ b \in Int /\ s \in Int /\ s <= b
    BY <1>1, <1>3
  <2>2. IsFiniteSet(I) /\ Cardinality(I) = IF s + 1 > b THEN 0 ELSE b - (s + 1) + 1
    BY <2>1, FS_Interval
  <2> QED BY <2>1, <2>2
<1>6. IsFiniteSet(T) /\ Cardinality(T) <= Cardinality(I)
  <2> HIDE DEF I, old
  <2>1. [j \in I |-> old[j].ts] \in Surjection(I, T)
    BY DEF Surjection
  <2> QED BY <1>5, <2>1, FS_Surjection
<1>7. IsFiniteSet(lost') /\ Cardinality(lost') <= Cardinality(T)
  <2> HIDE DEF T
  <2> QED BY <1>4, <1>6, FS_Subset
<1>8. Cardinality(lost') <= b - s /\ b - s \in Nat
  <2> HIDE DEF T, I, old, len, s
  <2>1. Cardinality(lost') \in Nat /\ Cardinality(T) \in Nat
    BY <1>6, <1>7, FS_CardinalityType
  <2> QED BY <1>1, <1>3, <1>5, <1>6, <1>7, <2>1
<1> QED BY <1>3, <1>7, <1>8

\* Every step keeps what a crash lost within what was allowed.
LEMMA LossStep ==
    ASSUME LossInv, [Next]_vars
    PROVE  LossIsBounded'
<1> USE DEF LossInv, ArchiveInv
<1>1. CASE UNCHANGED <<mode, lost>>
  BY <1>1 DEF LossIsBounded
<1>2. CASE Crash \/ Close
  <2>1. PICK n \in Current.synced .. Len(Current.recs), fragment \in Seq(Records) :
               End(n, fragment)
    BY <1>2, CrashIsEnd, CloseIsEnd
  <2>2. PICK k \in Nat : Allowed(k) /\ IsFiniteSet(lost') /\ Cardinality(lost') <= k
    BY <2>1, LostRecords
  <2>3. mode' = mode
    BY <2>1 DEF End
  <2>4. Cardinality(lost') \in Nat
    BY <2>2, FS_CardinalityType
  <2>5. mode = "Sync" => lost' = {}
    <3> SUFFICES ASSUME mode = "Sync" PROVE lost' = {}
      OBVIOUS
    <3>1. Cardinality(lost') = 0
      BY <2>2, <2>4 DEF Allowed
    <3> QED BY <2>2, <3>1, FS_EmptySet
  <2>6. mode = "GroupSync" => Cardinality(lost') < Max({group_commit_size, 1})
    BY <2>2, <2>4, GroupRoom DEF Allowed
  <2> QED BY <2>3, <2>5, <2>6 DEF LossIsBounded
<1>3. ASSUME NEW t \in Threads, ThreadStep(t) PROVE UNCHANGED <<mode, lost>>
  <2>1. CASE Call(t)
    BY <2>1 DEF Call
  <2>2. CASE Count(t) \/ FastAppend(t) \/ SlowAppend(t) \/ FastSync(t) \/ SlowSync(t)
    BY <2>2 DEF Count, FastAppend, SlowAppend, FastSync, SlowSync, Write, MaybeSync
  <2>3. CASE NoRoom(t) \/ ReadCurrent(t) \/ LoadFirst(t) \/ Exists(t) \/ Rename(t)
             \/ RenameFails(t) \/ StoreFirst(t) \/ Rotate(t)
    BY <2>3 DEF NoRoom, ReadCurrent, LoadFirst, Exists, Rename, RenameFails, StoreFirst, Rotate,
                history
  <2> QED BY <1>3, <2>1, <2>2, <2>3 DEF ThreadStep
<1>4. CASE Sync \/ Open \/ UNCHANGED vars
  BY <1>1, <1>4 DEF Sync, Open, vars, history
<1> QED BY <1>1, <1>2, <1>3, <1>4 DEF Next

\* The manager starts with nothing unsynced.
LEMMA LossInit ==
    ASSUME Init
    PROVE  LossInv
<1>1. ArchiveInv
  BY ArchiveInit
<1>2. Timestamps(<<>>) = {}
  <2>1. DOMAIN <<>> = {}
    OBVIOUS
  <2> QED BY <2>1 DEF Timestamps
<1>3. Fresh
  BY <1>2 DEF Init, Fresh
<1>4. Current.recs = <<>> /\ Current.synced = 0 /\ Len(Current.recs) = 0
  BY EmptySeq DEF Init, Current, File, EmptySegment
<1>5. UnsyncedInv
  BY <1>4, GroupRoom DEF Init, UnsyncedInv, Holds, Allowed
<1>6. LossIsBounded
  BY FS_EmptySet, GroupRoom DEF Init, LossIsBounded
<1> QED BY <1>1, <1>3, <1>5, <1>6 DEF LossInv

\* The invariant of what is synced and what is acknowledged.
THEOREM LossInvariant == Spec => []LossInv
<1>1. Init => LossInv
  BY LossInit
<1>2. LossInv /\ ArchiveInv' /\ [Next]_vars => LossInv'
  BY FreshStep, UnsyncedStep, LossStep DEF LossInv
<1> QED BY <1>1, <1>2, ArchiveInvariant, PTL DEF Spec

\* LossIsBounded: a crash loses no record whose append returned in the mode
\* Sync, and fewer than group_commit_size in the mode GroupSync, whatever
\* thread is between its write and its sync.
THEOREM LossSafe == Spec => []LossIsBounded
BY LossInvariant, PTL DEF LossInv

-----------------------------------------------------------------------------
(***************************************************************************)
(* How far a segment can be overfilled.                                    *)
(***************************************************************************)

\* The longest call, what one thread can put into a segment, and what all can.
Longest == Max(BatchLens)
Room    == Max({segment_size, Longest})
Limit   == Room + (Cardinality(Threads) - 1) * Longest

\* One pair for each record written to the segment, or to one before it, and
\* not counted in current_size yet.
Counting(t) == pc[t] \in {"fast_sync", "slow_sync", "count"}

Uncounted == {p \in Threads \X (1 .. Longest) :
                  Counting(p[1]) /\ p[2] <= Len(records[p[1]])}

\* The threads that have rotated and will append to whatever is current then.
Rotating == {t \in Threads :
                 pc[t] \in {"read_current", "load_first", "exists", "rename", "slow_append"}}

\* A segment has no more records than are counted and will be counted, and room
\* for those of all who rotated.
SizeInv ==
    /\ \A t \in Threads : Len(records[t]) <= Longest
    /\ status = "up" => Len(Current.recs) <= current_size + Cardinality(Uncounted)
    /\ Len(Current.recs) + Cardinality(Rotating) * Longest <= Limit

\* There is a longest call, and a segment has room for it or is of no size that
\* matters.
LEMMA LongestCall ==
    /\ Longest \in Nat /\ segment_size \in Nat /\ Room \in Nat
    /\ Longest <= Room /\ segment_size <= Room
    /\ \A n \in BatchLens : n \in Nat /\ n <= Longest
<1>1. BatchLens \subseteq Nat /\ segment_size \in Nat
  BY WalAssumption
<1>2. \E x \in BatchLens : \A y \in BatchLens : x >= y
  BY WalAssumption
<1>3. Longest \in BatchLens /\ \A n \in BatchLens : Longest >= n
  BY <1>2 DEF Longest, Max
<1>4. \E x \in {segment_size, Longest} : \A y \in {segment_size, Longest} : x >= y
  BY <1>1, <1>3
<1>5. /\ Room \in {segment_size, Longest}
      /\ \A y \in {segment_size, Longest} : Room >= y
  BY <1>4 DEF Room, Max
<1> QED BY <1>1, <1>3, <1>5

\* A finite number of pairs, and n more of them.
LEMMA MorePairs ==
    ASSUME NEW S, IsFiniteSet(S), NEW t, NEW n \in Nat, S \cap ({t} \X (1 .. n)) = {}
    PROVE  /\ IsFiniteSet(S \cup ({t} \X (1 .. n)))
           /\ Cardinality(S \cup ({t} \X (1 .. n))) = Cardinality(S) + n
           /\ Cardinality(S) \in Nat
<1> DEFINE P == {t} \X (1 .. n)
<1>1. IsFiniteSet({t}) /\ Cardinality({t}) = 1
  BY FS_Singleton
<1>2. IsFiniteSet(1 .. n) /\ Cardinality(1 .. n) = n
  <2>1. IsFiniteSet(1 .. n) /\ Cardinality(1 .. n) = IF 1 > n THEN 0 ELSE n - 1 + 1
    BY FS_Interval
  <2> QED BY <2>1
<1>3. IsFiniteSet(P) /\ Cardinality(P) = n
  <2>1. IsFiniteSet(P) /\ Cardinality(P) = Cardinality({t}) * Cardinality(1 .. n)
    BY <1>1, <1>2, FS_Product
  <2> HIDE DEF P
  <2> QED BY <1>1, <1>2, <2>1
<1> HIDE DEF P
<1>4. /\ IsFiniteSet(S \cup P)
      /\ Cardinality(S \cup P) = Cardinality(S) + Cardinality(P) - Cardinality(S \cap P)
  BY <1>3, FS_Union
<1>5. Cardinality(S \cap P) = 0
  BY FS_EmptySet DEF P
<1>6. Cardinality(S) \in Nat
  BY FS_CardinalityType
<1> QED BY <1>3, <1>4, <1>5, <1>6 DEF P

\* There are finitely many records not counted and threads that rotate, and of
\* all but one thread no more than fit behind a full segment.
LEMMA PairsBounded ==
    /\ IsFiniteSet(Uncounted) /\ Cardinality(Uncounted) \in Nat
    /\ IsFiniteSet(Rotating) /\ Cardinality(Rotating) \in Nat
    /\ Cardinality(Rotating) <= Cardinality(Threads)
    /\ Cardinality(Threads) \in Nat \ {0}
    /\ \A t \in Threads : ~ Counting(t) /\ t \notin Rotating =>
          Cardinality(Uncounted) + Cardinality(Rotating) * Longest
              <= (Cardinality(Threads) - 1) * Longest
<1> DEFINE calls == 1 .. Longest
<1>1. IsFiniteSet(Threads) /\ Threads # {}
  BY WalAssumption
<1>2. IsFiniteSet(calls) /\ Cardinality(calls) = Longest
  <2>1. IsFiniteSet(calls) /\ Cardinality(calls) = IF 1 > Longest THEN 0 ELSE Longest - 1 + 1
    BY LongestCall, FS_Interval
  <2> QED BY <2>1, LongestCall
<1> HIDE DEF calls
<1>3. Cardinality(Threads) \in Nat \ {0}
  BY <1>1, FS_CardinalityType, FS_EmptySet
<1>4. IsFiniteSet(Threads \X calls)
  BY <1>1, <1>2, FS_Product
<1>5. Uncounted \in SUBSET (Threads \X calls) /\ Rotating \in SUBSET Threads
  BY DEF Uncounted, Rotating, calls
<1>6. IsFiniteSet(Uncounted) /\ Cardinality(Uncounted) \in Nat
  BY <1>4, <1>5, FS_Subset, FS_CardinalityType
<1>7. /\ IsFiniteSet(Rotating) /\ Cardinality(Rotating) \in Nat
      /\ Cardinality(Rotating) <= Cardinality(Threads)
  BY <1>1, <1>5, FS_Subset, FS_CardinalityType
<1>8. ASSUME NEW t \in Threads, ~ Counting(t), t \notin Rotating
      PROVE  Cardinality(Uncounted) + Cardinality(Rotating) * Longest
                 <= (Cardinality(Threads) - 1) * Longest
  <2> DEFINE R == Rotating \X calls
             O == (Threads \ {t}) \X calls
  <2>1. IsFiniteSet(R) /\ Cardinality(R) = Cardinality(Rotating) * Longest
    BY <1>2, <1>7, FS_Product
  <2>2. IsFiniteSet(O) /\ Cardinality(O) = (Cardinality(Threads) - 1) * Longest
    <3>1. IsFiniteSet(Threads \ {t}) /\ Cardinality(Threads \ {t}) = Cardinality(Threads) - 1
      BY <1>1, FS_RemoveElement
    <3> QED BY <1>2, <3>1, FS_Product
  <2>3. Uncounted \cup R \in SUBSET O
    <3>1. \A p \in Uncounted : p[1] # t
      BY <1>8 DEF Uncounted
    <3>2. \A p \in Uncounted : p \in Threads \X calls /\ p = <<p[1], p[2]>>
      BY <1>5
    <3> QED BY <1>5, <1>8, <3>1, <3>2
  <2>4. Uncounted \cap R = {}
    <3>1. \A p \in Uncounted : p[1] \notin Rotating
      BY DEF Uncounted, Counting, Rotating
    <3> QED BY <3>1
  <2> HIDE DEF R, O
  <2>5. /\ IsFiniteSet(Uncounted \cup R)
        /\ Cardinality(Uncounted \cup R) =
              Cardinality(Uncounted) + Cardinality(R) - Cardinality(Uncounted \cap R)
    BY <1>6, <2>1, FS_Union
  <2>6. Cardinality(Uncounted \cap R) = 0
    BY <2>4, FS_EmptySet
  <2>7. Cardinality(Uncounted \cup R) <= Cardinality(O)
    BY <2>2, <2>3, FS_Subset
  <2>8. Cardinality(R) \in Nat /\ Cardinality(O) \in Nat
    BY <2>1, <2>2, FS_CardinalityType
  <2>9. Cardinality(Uncounted) + Cardinality(R) <= Cardinality(O)
    BY <1>6, <2>5, <2>6, <2>7, <2>8
  <2> QED BY <2>1, <2>2, <2>9
<1> QED BY <1>3, <1>6, <1>7, <1>8

\* The same after a step.
LEMMA PairsBoundedNext ==
    /\ Cardinality(Uncounted)' \in Nat /\ Cardinality(Rotating)' \in Nat
    /\ Cardinality(Rotating)' <= Cardinality(Threads)
<1> DEFINE Bounded == /\ Cardinality(Uncounted) \in Nat /\ Cardinality(Rotating) \in Nat
                      /\ Cardinality(Rotating) <= Cardinality(Threads)
<1>1. Bounded
  BY PairsBounded
<1>2. Bounded'
  BY <1>1, PTL
<1> QED BY <1>2

\* What the sizes are made of stays as it is, or the segment gets shorter and
\* the size is counted anew.
SameSizes ==
    /\ \A t \in Threads : Len(records'[t]) <= Longest
    /\ Len(Current'.recs) <= Len(Current.recs)
    /\ status' = "up" => /\ status = "up" /\ current_size' = current_size
                         /\ Uncounted' = Uncounted
    /\ Rotating' \subseteq Rotating

\* Numbers in the order the invariant adds them.
LEMMA SizeArithmetic ==
    /\ \A k, m \in Nat : k * m \in Nat
    /\ \A k, l, m \in Nat : k <= l => k * m <= l * m
    /\ \A k, m \in Nat : (k + 1) * m = k * m + m
<1>1. \A k, l, m \in Nat : k <= l => k * m <= l * m
  <2> SUFFICES ASSUME NEW k \in Nat, NEW l \in Nat, NEW m \in Nat, k <= l PROVE k * m <= l * m
    OBVIOUS
  <2>1. l - k \in Nat /\ (l - k) * m \in Nat
    OBVIOUS
  <2>2. l * m = k * m + (l - k) * m
    OBVIOUS
  <2> QED BY <2>1, <2>2
<1> QED BY <1>1

\* A step that adds no record keeps SizeInv.
LEMMA SizeFrame ==
    ASSUME TypeOK, TypeOK', SizeInv, SameSizes
    PROVE  SizeInv'
<1>1. /\ Len(Current.recs) \in Nat /\ Len(Current'.recs) \in Nat
  <2>1. Len(Current.recs) \in Nat
    BY CurrentFile
  <2>2. Current'.recs \in Seq(Records)
    BY DEF TypeOK, IsDirectory, Current, Segments
  <2> QED BY <2>1, <2>2, LenProperties
<1>2. /\ current_size \in Nat /\ Longest \in Nat /\ Limit \in Int
      /\ Cardinality(Uncounted) \in Nat /\ Cardinality(Rotating) \in Nat
      /\ Cardinality(Rotating)' \in Nat
  BY Numbers, LongestCall, PairsBounded, PairsBoundedNext DEF Limit
<1>3. status' = "up" => Len(Current'.recs) <= current_size' + Cardinality(Uncounted')
  BY <1>1, <1>2 DEF SizeInv, SameSizes
<1>4. Cardinality(Rotating') <= Cardinality(Rotating)
  BY PairsBounded, FS_Subset DEF SameSizes
<1>5. Cardinality(Rotating') * Longest <= Cardinality(Rotating) * Longest
  BY <1>2, <1>4, SizeArithmetic
<1>6. Cardinality(Rotating') * Longest \in Nat /\ Cardinality(Rotating) * Longest \in Nat
  BY <1>2, SizeArithmetic
<1>7. Len(Current'.recs) + Cardinality(Rotating') * Longest <= Limit
  <2> DEFINE a == Len(Current'.recs)
             b == Len(Current.recs)
             c == Cardinality(Rotating') * Longest
             d == Cardinality(Rotating) * Longest
  <2>1. a \in Nat /\ b \in Nat /\ c \in Nat /\ d \in Nat /\ a <= b /\ c <= d /\ b + d <= Limit
    BY <1>1, <1>5, <1>6 DEF SizeInv, SameSizes
  <2> HIDE DEF a, b, c, d
  <2>2. a + c <= Limit
    BY <1>2, <2>1
  <2> QED BY <2>2 DEF a, c
<1> QED BY <1>3, <1>7 DEF SizeInv, SameSizes, Limit

\* The other threads' records and whether they are counted stay.
OthersCount(t) ==
    \A u \in Threads \ {t} : Counting(u)' = Counting(u) /\ records'[u] = records[u]

\* A thread that writes has its records to count.
LEMMA PairsAdded ==
    ASSUME TypeOK, NEW t \in Threads, OthersCount(t), records'[t] = records[t],
           Len(records[t]) <= Longest, ~ Counting(t), Counting(t)'
    PROVE  Cardinality(Uncounted') = Cardinality(Uncounted) + Len(records[t])
<1> DEFINE n == Len(records[t])
           new == {t} \X (1 .. n)
<1>1. n \in Nat /\ n <= Longest /\ Longest \in Nat
  BY LenProperties, LongestCall DEF TypeOK
<1>2. Uncounted \cap new = {}
  BY DEF Uncounted
<1>3. \A p \in Threads \X (1 .. Longest) : p \in Uncounted' <=> p \in Uncounted \cup new
  <2> SUFFICES ASSUME NEW u \in Threads, NEW i \in 1 .. Longest
               PROVE  <<u, i>> \in Uncounted' <=> <<u, i>> \in Uncounted \cup new
    OBVIOUS
  <2>1. CASE u = t
    BY <1>1, <2>1 DEF Uncounted
  <2>2. CASE u # t
    BY <2>2 DEF Uncounted, OthersCount
  <2> QED BY <2>1, <2>2
<1>4. Uncounted' = Uncounted \cup new
  <2>1. Uncounted' \subseteq Threads \X (1 .. Longest) /\ Uncounted \subseteq Threads \X (1 .. Longest)
    BY DEF Uncounted
  <2>2. new \subseteq Threads \X (1 .. Longest)
    BY <1>1
  <2> HIDE DEF new
  <2> QED BY <1>3, <2>1, <2>2
<1>5. Cardinality(Uncounted \cup new) = Cardinality(Uncounted) + n
  <2>1. IsFiniteSet(Uncounted)
    BY PairsBounded
  <2> HIDE DEF n
  <2> QED BY <1>1, <1>2, <2>1, MorePairs
<1> QED BY <1>4, <1>5

\* A thread that returns has counted its records.
LEMMA PairsDropped ==
    ASSUME TypeOK, NEW t \in Threads, OthersCount(t),
           Len(records[t]) <= Longest, Counting(t), ~ Counting(t)'
    PROVE  Cardinality(Uncounted) = Cardinality(Uncounted') + Len(records[t])
<1> DEFINE n == Len(records[t])
           new == {t} \X (1 .. n)
<1>1. n \in Nat /\ n <= Longest /\ Longest \in Nat
  BY LenProperties, LongestCall DEF TypeOK
<1>2. Uncounted' \cap new = {}
  BY DEF Uncounted
<1>3. \A p \in Threads \X (1 .. Longest) : p \in Uncounted <=> p \in Uncounted' \cup new
  <2> SUFFICES ASSUME NEW u \in Threads, NEW i \in 1 .. Longest
               PROVE  <<u, i>> \in Uncounted <=> <<u, i>> \in Uncounted' \cup new
    OBVIOUS
  <2>1. CASE u = t
    BY <1>1, <2>1 DEF Uncounted
  <2>2. CASE u # t
    BY <2>2 DEF Uncounted, OthersCount
  <2> QED BY <2>1, <2>2
<1>4. Uncounted = Uncounted' \cup new
  <2>1. Uncounted' \subseteq Threads \X (1 .. Longest) /\ Uncounted \subseteq Threads \X (1 .. Longest)
    BY DEF Uncounted
  <2>2. new \subseteq Threads \X (1 .. Longest)
    BY <1>1
  <2> HIDE DEF new
  <2> QED BY <1>3, <2>1, <2>2
<1>5. Cardinality(Uncounted' \cup new) = Cardinality(Uncounted') + n
  <2>1. IsFiniteSet(Uncounted')
    <3>1. /\ IsFiniteSet(Threads) /\ IsFiniteSet(1 .. Longest)
      BY WalAssumption, LongestCall, FS_Interval
    <3>2. IsFiniteSet(Threads \X (1 .. Longest))
      BY <3>1, FS_Product
    <3>3. Uncounted' \in SUBSET (Threads \X (1 .. Longest))
      BY DEF Uncounted
    <3> QED BY <3>2, <3>3, FS_Subset
  <2> HIDE DEF n
  <2> QED BY <1>1, <1>2, <2>1, MorePairs
<1> QED BY <1>4, <1>5

\* A fast append finds room by the size counted so far.
LEMMA FastSize ==
    ASSUME TypeOK, SizeInv, NEW t \in Threads, FastAppend(t)
    PROVE  SizeInv'
<1> DEFINE n == Len(records[t])
           len == Len(Current.recs)
           k == Cardinality(Uncounted)
           r == Cardinality(Rotating) * Longest
           others == (Cardinality(Threads) - 1) * Longest
<1>1. /\ status = "up" /\ current_size' = current_size /\ records' = records
      /\ pc[t] = "check" /\ pc' = [pc EXCEPT ![t] = "fast_sync"]
      /\ current_size + n <= segment_size
      /\ Len(Current'.recs) = len + n
    BY WriteEffect DEF FastAppend, Goto, Write, Current
<1>2. /\ n \in Nat /\ len \in Nat /\ k \in Nat /\ r \in Nat /\ others \in Nat
      /\ current_size \in Nat /\ segment_size \in Nat /\ Room \in Nat
      /\ segment_size <= Room
  <2>1. n \in Nat /\ len \in Nat
    BY CurrentFile, LenProperties DEF TypeOK
  <2>2. Cardinality(Threads) - 1 \in Nat
    BY PairsBounded
  <2> QED BY <2>1, <2>2, Numbers, LongestCall, PairsBounded, SizeArithmetic
<1>3. OthersCount(t) /\ ~ Counting(t) /\ Counting(t)' /\ t \notin Rotating
      /\ Rotating' = Rotating
  BY <1>1 DEF OthersCount, Counting, Rotating, TypeOK
<1>4. n <= Longest
  BY DEF SizeInv
<1>5. Cardinality(Uncounted') = k + n
  BY <1>1, <1>3, <1>4, PairsAdded
<1>6. k + r <= others
  BY <1>3, PairsBounded
<1>7. len <= current_size + k
  BY <1>1 DEF SizeInv
<1>8. Limit = Room + others
  BY DEF Limit
<1> HIDE DEF n, len, k, r, others
<1>9. Len(Current'.recs) <= current_size' + Cardinality(Uncounted')
  BY <1>1, <1>2, <1>5, <1>7
<1>10. Len(Current'.recs) + r <= Limit
  BY <1>1, <1>2, <1>6, <1>7, <1>8
<1>11. \A u \in Threads : Len(records'[u]) <= Longest
  BY <1>1 DEF SizeInv
<1>12. Cardinality(Rotating') * Longest = r
  BY <1>3 DEF r
<1> QED BY <1>9, <1>10, <1>11, <1>12 DEF SizeInv, Limit

\* A slow append takes the room kept for it since the rotation.
LEMMA SlowSize ==
    ASSUME TypeOK, SizeInv, NEW t \in Threads, SlowAppend(t)
    PROVE  SizeInv'
<1> DEFINE n == Len(records[t])
           len == Len(Current.recs)
           k == Cardinality(Uncounted)
           r == Cardinality(Rotating')
<1>1. /\ status = "up" /\ current_size' = current_size /\ records' = records
      /\ pc[t] = "slow_append" /\ pc' = [pc EXCEPT ![t] = "slow_sync"]
      /\ Len(Current'.recs) = len + n
    BY WriteEffect DEF SlowAppend, Goto, Write, Current
<1>2. /\ n \in Nat /\ len \in Nat /\ k \in Nat /\ r \in Nat /\ r * Longest \in Nat
      /\ current_size \in Nat /\ Longest \in Nat /\ Limit \in Int
  <2>1. n \in Nat /\ len \in Nat
    BY CurrentFile, LenProperties DEF TypeOK
  <2>2. k \in Nat /\ r \in Nat /\ Longest \in Nat /\ current_size \in Nat /\ Limit \in Int
    BY Numbers, LongestCall, PairsBounded, PairsBoundedNext DEF Limit
  <2>3. r * Longest \in Nat
    BY <2>2, SizeArithmetic
  <2> QED BY <2>1, <2>2, <2>3
<1>3. OthersCount(t) /\ ~ Counting(t) /\ Counting(t)'
      /\ t \in Rotating /\ Rotating' = Rotating \ {t}
  BY <1>1 DEF OthersCount, Counting, Rotating, TypeOK
<1>4. n <= Longest
  BY DEF SizeInv
<1>5. Cardinality(Uncounted') = k + n
  BY <1>1, <1>3, <1>4, PairsAdded
<1>6. Cardinality(Rotating) = r + 1
  <2>1. /\ IsFiniteSet(Rotating) /\ Cardinality(Rotating) \in Nat
        /\ Cardinality(Rotating \ {t}) = Cardinality(Rotating) - 1
    BY <1>3, PairsBounded, FS_RemoveElement
  <2>2. r = Cardinality(Rotating) - 1
    BY <1>3, <2>1
  <2> HIDE DEF r
  <2> QED BY <2>1, <2>2
<1>7. Cardinality(Rotating) * Longest = r * Longest + Longest
  <2> HIDE DEF r
  <2> QED BY <1>2, <1>6, SizeArithmetic
<1>8. len <= current_size + k /\ len + Cardinality(Rotating) * Longest <= Limit
  BY <1>1 DEF SizeInv
<1> HIDE DEF n, len, k, r
<1>9. Len(Current'.recs) <= current_size' + Cardinality(Uncounted')
  BY <1>1, <1>2, <1>5, <1>8
<1>10. Len(Current'.recs) + r * Longest <= Limit
  BY <1>1, <1>2, <1>4, <1>7, <1>8
<1>11. \A u \in Threads : Len(records'[u]) <= Longest
  BY <1>1 DEF SizeInv
<1> QED BY <1>9, <1>10, <1>11 DEF SizeInv, Limit, r

\* A thread that counts its records adds at least their number.
LEMMA CountSize ==
    ASSUME TypeOK, SizeInv, NEW t \in Threads, NEW from \in {"count", "slow_sync"},
           Return(t, from), status' = status, Len(Current'.recs) = Len(Current.recs),
           current_size' \in Nat, current_size' >= current_size + Len(records[t])
    PROVE  SizeInv'
<1> DEFINE n == Len(records[t])
           len == Len(Current.recs)
           k == Cardinality(Uncounted')
<1>1. /\ status = "up" /\ pc[t] = from /\ pc' = [pc EXCEPT ![t] = "idle"]
      /\ records' = [records EXCEPT ![t] = <<>>]
    BY DEF Return, Goto
<1>2. /\ n \in Nat /\ len \in Nat /\ k \in Nat /\ Longest \in Nat /\ current_size \in Nat
  <2>1. n \in Nat /\ len \in Nat
    BY CurrentFile, LenProperties DEF TypeOK
  <2> QED BY <2>1, Numbers, LongestCall, PairsBoundedNext
<1>3. OthersCount(t) /\ Counting(t) /\ ~ Counting(t)' /\ Rotating' = Rotating
  BY <1>1 DEF OthersCount, Counting, Rotating, TypeOK
<1>4. n <= Longest
  BY DEF SizeInv
<1>5. Cardinality(Uncounted) = k + n
  BY <1>3, <1>4, PairsDropped
<1>6. len <= current_size + Cardinality(Uncounted)
  BY <1>1 DEF SizeInv
<1>7. \A u \in Threads : Len(records'[u]) <= Longest
  <2>1. Len(<<>>) = 0
    OBVIOUS
  <2>2. records'[t] = <<>> /\ \A u \in Threads \ {t} : records'[u] = records[u]
    BY <1>1 DEF TypeOK
  <2> QED BY <1>2, <2>1, <2>2 DEF SizeInv
<1>8. Len(Current'.recs) <= current_size' + Cardinality(Uncounted')
  <2> DEFINE size == current_size'
  <2>1. size >= current_size + n /\ size \in Nat
    OBVIOUS
  <2>2. len <= current_size + (k + n)
    BY <1>5, <1>6
  <2> HIDE DEF n, len, k, size
  <2>3. len <= size + k
    BY <1>2, <2>1, <2>2
  <2> QED BY <2>3 DEF len, k, size
<1> QED BY <1>3, <1>7, <1>8 DEF SizeInv, Limit

\* A rotation gives an empty segment and room for one more that will append.
LEMMA RotateSize ==
    ASSUME TypeOK, SizeInv, NEW t \in Threads, Rotate(t)
    PROVE  SizeInv'
<1> DEFINE m == Cardinality(Threads)
           r == Cardinality(Rotating')
<1>1. Len(Current'.recs) = 0
  <2>1. Current' = EmptySegment
    BY RotateEffect DEF Rotate, Current
  <2> QED BY <2>1, EmptySeq DEF EmptySegment
<1>2. /\ current_size' = 0 /\ records' = records /\ Cardinality(Uncounted') \in Nat
  BY PairsBoundedNext DEF Rotate
<1>3. /\ r \in Nat /\ r <= m /\ m \in Nat \ {0} /\ Longest \in Nat
      /\ Longest <= Room /\ Room \in Nat
  BY LongestCall, PairsBounded, PairsBoundedNext
<1> HIDE DEF m, r
<1>4. /\ r * Longest <= m * Longest /\ r * Longest \in Nat
      /\ m * Longest = (m - 1) * Longest + Longest
      /\ (m - 1) * Longest \in Nat
  <2>1. m - 1 \in Nat /\ (m - 1) + 1 = m
    BY <1>3
  <2>2. ((m - 1) + 1) * Longest = (m - 1) * Longest + Longest
    BY <1>3, <2>1, SizeArithmetic
  <2> QED BY <1>3, <2>1, <2>2, SizeArithmetic
<1>5. r * Longest <= Room + (m - 1) * Longest
  BY <1>3, <1>4
<1>6. \A u \in Threads : Len(records'[u]) <= Longest
  BY <1>2 DEF SizeInv
<1> QED BY <1>1, <1>2, <1>4, <1>5, <1>6 DEF SizeInv, Limit, m, r

\* Every step keeps SizeInv.
LEMMA SizeStep ==
    ASSUME ArchiveInv, ArchiveInv', SizeInv, [Next]_vars
    PROVE  SizeInv'
<1> USE DEF ArchiveInv
<1>1. ASSUME Len(Current'.recs) = Len(Current.recs), UNCHANGED <<status, current_size, pc, records>>
      PROVE  SizeInv'
  <2>1. Len(Current.recs) \in Nat
    BY CurrentFile
  <2>2. Uncounted' = Uncounted /\ Rotating' = Rotating
    BY <1>1 DEF Uncounted, Counting, Rotating
  <2>3. SameSizes
    BY <1>1, <2>1, <2>2 DEF SameSizes, SizeInv
  <2> QED BY <2>3, SizeFrame
<1>2. CASE UNCHANGED vars
  BY <1>1, <1>2 DEF vars, files, manager, locals, Current
<1>3. CASE Sync
  <2>1. Current'.recs = Current.recs
    BY <1>3, SyncEffect DEF Sync, Current, manager
  <2> QED BY <1>1, <1>3, <2>1 DEF Sync, manager, locals
<1>4. CASE Crash \/ Close
  <2>1. PICK n \in Current.synced .. Len(Current.recs), fragment \in Seq(Records) :
               End(n, fragment) /\ n + Len(fragment) <= Len(Current.recs)
    BY <1>4, CrashIsEnd, CloseIsEnd
  <2>2. Len(Current'.recs) <= Len(Current.recs)
    BY <2>1, EndEffect DEF End, manager, Current
  <2>3. status' = "down" /\ Rotating' = {} /\ \A t \in Threads : records'[t] = <<>>
    BY <2>1 DEF End, Rotating
  <2>4. \A t \in Threads : Len(records'[t]) <= Longest
    <3>1. Len(<<>>) = 0
      OBVIOUS
    <3> QED BY <2>3, <3>1, LongestCall
  <2> QED BY <2>2, <2>3, <2>4, SizeFrame DEF SameSizes
<1>5. CASE Open
  <2>1. /\ Current' = Current /\ current_size' = Len(Current.recs)
    BY <1>5, OpenEffect DEF Current
  <2>2. /\ records' = records /\ Rotating' = Rotating
    BY <1>5 DEF Open, locals, Rotating
  <2>3. Len(Current'.recs) <= current_size' + Cardinality(Uncounted')
    BY <2>1, CurrentFile, PairsBoundedNext
  <2> QED BY <2>1, <2>2, <2>3 DEF SizeInv, Limit
<1>6. ASSUME NEW t \in Threads, ThreadStep(t) PROVE SizeInv'
  <2>1. CASE Call(t)
    <3>1. /\ Current' = Current /\ status' = status /\ current_size' = current_size
      BY <2>1 DEF Call, Goto, Current, files, manager
    <3>2. /\ \A u \in Threads : Counting(u)' = Counting(u)
          /\ \A u \in Threads : Counting(u) => records'[u] = records[u]
          /\ Rotating' = Rotating
      BY <2>1, CallEffect DEF Counting, Rotating
    <3>3. Uncounted' = Uncounted
      BY <3>2 DEF Uncounted
    <3>4. \A u \in Threads : Len(records'[u]) <= Longest
      <4>1. PICK n \in BatchLens :
               records' = [records EXCEPT ![t] =
                              [i \in 1 .. n |-> Record(requested + i, "whole")]]
        BY <2>1 DEF Call
      <4>2. n \in Nat /\ n <= Longest
        BY WalAssumption, LongestCall
      <4>3. records'[t] = [i \in 1 .. n |-> Record(requested + i, "whole")]
        BY <4>1 DEF TypeOK
      <4>4. Len(records'[t]) = n
        BY <4>2, <4>3
      <4>5. \A u \in Threads \ {t} : records'[u] = records[u]
        BY <4>1 DEF TypeOK
      <4> QED BY <4>2, <4>4, <4>5 DEF SizeInv
    <3>5. Len(Current.recs) \in Nat
      BY CurrentFile
    <3>6. SameSizes
      BY <3>1, <3>2, <3>3, <3>4, <3>5 DEF SameSizes
    <3> QED BY <3>6, SizeFrame
  <2>2. ASSUME Current'.recs = Current.recs, UNCHANGED <<status, current_size>>,
               \A u \in Threads : Counting(u)' = Counting(u),
               \A u \in Threads : Counting(u) => records'[u] = records[u],
               \A u \in Threads : records'[u] = records[u] \/ records'[u] = <<>>,
               Rotating' \subseteq Rotating
        PROVE  SizeInv'
    <3>1. Uncounted' = Uncounted
      BY <2>2 DEF Uncounted
    <3>2. \A u \in Threads : Len(records'[u]) <= Longest
      <4>1. Len(<<>>) = 0
        OBVIOUS
      <4> QED BY <2>2, <4>1, LongestCall DEF SizeInv
    <3>3. Len(Current.recs) \in Nat
      BY CurrentFile
    <3>4. SameSizes
      BY <2>2, <3>1, <3>2, <3>3 DEF SameSizes
    <3> QED BY <3>4, SizeFrame
  <2>3. CASE NoRoom(t) \/ ReadCurrent(t) \/ LoadFirst(t) \/ Exists(t) \/ StoreFirst(t)
    <3>1. UNCHANGED <<wal_dir, current_segment, current_size, status, records>>
      BY <2>3 DEF NoRoom, ReadCurrent, LoadFirst, Exists, StoreFirst, Goto, files, manager
    <3>2. /\ \A u \in Threads \ {t} : pc'[u] = pc[u]
          /\ ~ Counting(t) /\ ~ Counting(t)'
          /\ t \in Rotating \/ pc'[t] = "rotate"
      <4>1. CASE NoRoom(t)
        BY <4>1 DEF NoRoom, Goto, Counting, TypeOK
      <4>2. CASE ReadCurrent(t)
        BY <4>2 DEF ReadCurrent, Goto, Counting, Rotating, TypeOK
      <4>3. CASE LoadFirst(t)
        BY <4>3 DEF LoadFirst, Goto, Counting, Rotating, TypeOK
      <4>4. CASE Exists(t)
        BY <4>4 DEF Exists, Goto, Counting, Rotating, TypeOK
      <4>5. CASE StoreFirst(t)
        BY <4>5 DEF StoreFirst, Goto, Counting, Rotating, TypeOK
      <4> QED BY <2>3, <4>1, <4>2, <4>3, <4>4, <4>5
    <3>3. Rotating' \subseteq Rotating /\ \A u \in Threads : Counting(u)' = Counting(u)
      BY <3>2 DEF Rotating, Counting
    <3> QED BY <2>2, <3>1, <3>3 DEF Current
  <2>4. CASE RenameFails(t)
    <3>1. /\ Current' = Current /\ UNCHANGED <<status, current_size>>
      BY <2>4 DEF RenameFails, Return, Goto, Current, files, manager
    <3>2. /\ pc[t] = "rename" /\ pc'[t] = "idle" /\ records'[t] = <<>>
          /\ \A u \in Threads \ {t} : pc'[u] = pc[u] /\ records'[u] = records[u]
      BY <2>4 DEF RenameFails, Return, Goto, TypeOK
    <3>3. /\ Rotating' \subseteq Rotating
          /\ \A u \in Threads : Counting(u)' = Counting(u)
          /\ \A u \in Threads : Counting(u) => records'[u] = records[u]
      BY <3>2 DEF Rotating, Counting
    <3> QED BY <2>2, <3>1, <3>2, <3>3
  <2>5. CASE Rename(t)
    <3>1. next_id[t] # current_segment
      BY <2>5, Numbers DEF Rename, Goto, Archiving, archive_up_to
    <3>2. Current' = Current /\ UNCHANGED <<status, current_size, records>>
      BY <2>5, <3>1, RenameEffect DEF Rename, Goto, Current, manager, TypeOK
    <3>3. /\ pc[t] = "rename" /\ pc'[t] = "exists"
          /\ \A u \in Threads \ {t} : pc'[u] = pc[u]
      BY <2>5 DEF Rename, Goto, TypeOK
    <3>4. Rotating' \subseteq Rotating /\ \A u \in Threads : Counting(u)' = Counting(u)
      BY <3>3 DEF Rotating, Counting
    <3> QED BY <2>2, <3>2, <3>4
  <2>6. CASE FastSync(t)
    <3>1. Current'.recs = Current.recs /\ UNCHANGED <<status, current_size, records>>
      BY <2>6, SyncEffect DEF FastSync, MaybeSync, Goto, Current
    <3>2. /\ pc[t] = "fast_sync" /\ pc'[t] = "count"
          /\ \A u \in Threads \ {t} : pc'[u] = pc[u]
      BY <2>6 DEF FastSync, Goto, TypeOK
    <3>3. Rotating' \subseteq Rotating /\ \A u \in Threads : Counting(u)' = Counting(u)
      BY <3>2 DEF Rotating, Counting
    <3> QED BY <2>2, <3>1, <3>3
  <2>7. CASE Count(t)
    <3>1. /\ Return(t, "count") /\ Current' = Current /\ status' = status
          /\ current_size' = current_size + Len(records[t]) /\ current_size' \in Nat
      BY <2>7 DEF Count, Goto, Return, Current, files, TypeOK
    <3>2. current_size' >= current_size + Len(records[t])
      BY <3>1
    <3> QED BY <3>1, <3>2, CountSize
  <2>8. CASE SlowSync(t)
    <3>1. /\ Return(t, "slow_sync") /\ Current'.recs = Current.recs /\ status' = status
          /\ current_size' \in Nat
      BY <2>8, SyncEffect DEF SlowSync, MaybeSync, Goto, Return, Current, TypeOK
    <3>2. current_size' >= current_size + Len(records[t])
      <4> DEFINE n == Len(records[t])
      <4>1. n \in Nat /\ current_size \in Nat
        BY LenProperties, Numbers DEF TypeOK
      <4>2. current_size' = current_size + (IF n = 1 THEN 1 ELSE 2 * n)
        BY <2>8 DEF SlowSync
      <4> HIDE DEF n
      <4>3. current_size' >= current_size + n
        BY <4>1, <4>2
      <4> QED BY <4>3 DEF n
    <3> QED BY <3>1, <3>2, CountSize
  <2>9. CASE FastAppend(t)
    BY <2>9, FastSize
  <2>10. CASE SlowAppend(t)
    BY <2>10, SlowSize
  <2>11. CASE Rotate(t)
    BY <2>11, RotateSize
  <2> QED BY <1>6, <2>1, <2>3, <2>4, <2>5, <2>6, <2>7, <2>8, <2>9, <2>10, <2>11 DEF ThreadStep
<1> QED BY <1>2, <1>3, <1>4, <1>5, <1>6 DEF Next

\* The manager starts with an empty segment and nobody in a call.
LEMMA SizeInit ==
    ASSUME Init
    PROVE  SizeInv
<1>1. Len(Current.recs) = 0
  BY EmptySeq DEF Init, Current, File, EmptySegment
<1>2. Rotating = {} /\ Cardinality(Rotating) = 0
  BY FS_EmptySet DEF Init, Rotating
<1>3. \A t \in Threads : Len(records[t]) <= Longest
  <2>1. Len(<<>>) = 0
    OBVIOUS
  <2> QED BY <2>1, LongestCall DEF Init
<1>4. Len(Current.recs) <= current_size + Cardinality(Uncounted)
  BY <1>1, PairsBounded DEF Init
<1>5. Limit \in Nat
  <2>1. Cardinality(Threads) - 1 \in Nat
    BY PairsBounded
  <2>2. (Cardinality(Threads) - 1) * Longest \in Nat
    BY <2>1, LongestCall, SizeArithmetic
  <2> QED BY <2>2, LongestCall DEF Limit
<1>6. Len(Current.recs) + Cardinality(Rotating) * Longest <= Limit
  BY <1>1, <1>2, <1>5, LongestCall
<1> QED BY <1>3, <1>4, <1>6 DEF SizeInv

\* No file has more records than a segment can get.
FilesBounded ==
    /\ \A i \in DOMAIN wal_dir : Len(wal_dir[i].recs) <= Limit
    /\ \A i \in DOMAIN archive : Len(archive[i].recs) <= Limit

\* The current file is bounded by SizeInv, the others no longer change.
LEMMA FilesBoundedStep ==
    ASSUME ArchiveInv, ArchiveInv', SizeInv', FilesBounded, [Next]_vars
    PROVE  FilesBounded'
<1> USE DEF ArchiveInv
<1>0. Limit' = Limit
  BY DEF Limit, Longest
<1>1. Len(Current'.recs) <= Limit
  <2> DEFINE len == Len(Current'.recs)
             r == Cardinality(Rotating') * Longest
  <2>1. len \in Nat
    <3>1. Current'.recs \in Seq(Records)
      BY DEF TypeOK, IsDirectory, Current, Segments
    <3> QED BY <3>1, LenProperties
  <2>2. r \in Nat
    BY PairsBoundedNext, LongestCall, SizeArithmetic
  <2>3. len + r <= Limit
    BY <1>0 DEF SizeInv
  <2>4. Limit \in Int
    BY LongestCall, PairsBounded DEF Limit
  <2> HIDE DEF len, r
  <2>5. len <= Limit
    BY <2>1, <2>2, <2>3, <2>4
  <2> QED BY <2>5 DEF len
<1>2. ASSUME NEW i \in DOMAIN archive' PROVE Len(archive'[i].recs) <= Limit
  <2>1. CASE i \in DOMAIN archive
    BY <2>1, ArchiveStays DEF FilesBounded
  <2>2. CASE i \notin DOMAIN archive
    <3>1. PICK t \in Threads : Rename(t)
      BY <2>2, MostStayInPlace DEF StayInPlace, Rotate
    <3>2. i \in DOMAIN wal_dir /\ archive'[i] = wal_dir[i]
      <4>1. /\ DOMAIN archive' = DOMAIN archive \cup {next_id[t]}
            /\ next_id[t] \in DOMAIN wal_dir /\ archive'[next_id[t]] = wal_dir[next_id[t]]
        BY <3>1, RenameEffect
      <4>2. i = next_id[t]
        BY <1>2, <2>2, <4>1
      <4> QED BY <4>1, <4>2
    <3> QED BY <3>2 DEF FilesBounded
  <2> QED BY <2>1, <2>2
<1>3. ASSUME NEW i \in DOMAIN wal_dir', i # current_segment' PROVE Len(wal_dir'[i].recs) <= Limit
  <2>1. CASE UNCHANGED <<wal_dir, archive, current_segment>>
    BY <1>3, <2>1 DEF FilesBounded
  <2>2. ASSUME NEW t \in Threads, Write(t), UNCHANGED current_segment
        PROVE  Len(wal_dir'[i].recs) <= Limit
    BY <1>3, <2>2, WriteEffect DEF FilesBounded, Write
  <2>3. CASE /\ wal_dir' = [wal_dir EXCEPT ![current_segment] = Synced(@)]
             /\ UNCHANGED <<archive, current_segment>>
    BY <1>3, <2>3, SyncEffect DEF FilesBounded
  <2>4. ASSUME NEW t \in Threads, Rotate(t) PROVE Len(wal_dir'[i].recs) <= Limit
    <3>1. /\ current_segment' = current_segment + 1
          /\ i \in DOMAIN wal_dir
      BY <1>3, <2>4, RotateEffect DEF Rotate
    <3>2. current_segment + 1 \notin DOMAIN wal_dir
      BY Numbers DEF Placed
    <3>3. wal_dir'[i].recs = wal_dir[i].recs
      BY <2>4, <3>1, <3>2, RotateEffect DEF Current
    <3> QED BY <3>1, <3>3 DEF FilesBounded
  <2>5. ASSUME NEW t \in Threads, Rename(t) PROVE Len(wal_dir'[i].recs) <= Limit
    BY <1>3, <2>5, RenameEffect DEF FilesBounded
  <2>6. ASSUME NEW n \in Current.synced .. Len(Current.recs), NEW fragment \in Seq(Records),
               End(n, fragment)
        PROVE  Len(wal_dir'[i].recs) <= Limit
    <3>1. i \in DOMAIN wal_dir \ {current_segment} /\ wal_dir'[i] = wal_dir[i]
      BY <1>3, <2>6, EndEffect DEF End, manager
    <3> QED BY <3>1 DEF FilesBounded
  <2> QED BY <2>1, <2>2, <2>3, <2>4, <2>5, <2>6, FileStep
<1>4. \A i \in DOMAIN wal_dir' : Len(wal_dir'[i].recs) <= Limit
  BY <1>1, <1>3 DEF Current
<1> QED BY <1>0, <1>2, <1>4 DEF FilesBounded

\* The invariant of the sizes.
THEOREM SizeInvariant == Spec => [](SizeInv /\ FilesBounded)
<1>1. Init => SizeInv /\ FilesBounded
  <2> SUFFICES ASSUME Init PROVE SizeInv /\ FilesBounded
    OBVIOUS
  <2>1. SizeInv
    BY SizeInit
  <2>2. /\ \A i \in DOMAIN wal_dir : wal_dir[i].recs = <<>>
        /\ DOMAIN archive = {}
    BY DEF Init, File, EmptySegment
  <2>3. Len(<<>>) = 0
    OBVIOUS
  <2>4. 0 <= Limit
    <3>1. Cardinality(Threads) - 1 \in Nat
      BY PairsBounded
    <3>2. (Cardinality(Threads) - 1) * Longest \in Nat
      BY <3>1, LongestCall, SizeArithmetic
    <3> QED BY <3>2, LongestCall DEF Limit
  <2> QED BY <2>1, <2>2, <2>3, <2>4 DEF FilesBounded
<1>2. ArchiveInv /\ ArchiveInv' /\ SizeInv /\ FilesBounded /\ [Next]_vars
          => SizeInv' /\ FilesBounded'
  BY SizeStep, FilesBoundedStep
<1> QED BY <1>1, <1>2, ArchiveInvariant, PTL DEF Spec

\* SegmentsBounded: however many threads find room by the same size or rotate
\* one after the other, a segment gets one call too many from each of them but
\* the first.
THEOREM SegmentsSafe == Spec => []SegmentsBounded
<1>1. ArchiveInv /\ FilesBounded => SegmentsBounded
  BY FilesOfBoth DEF BothDirectories, FilesBounded, SegmentsBounded, Limit, Longest, Room
<1> QED BY <1>1, ArchiveInvariant, SizeInvariant, PTL

-----------------------------------------------------------------------------
(***************************************************************************)
(* What the files hold: the history, in the order in which it is read.     *)
(***************************************************************************)
\* Entry p of the history is record q of the file of its segment.
AtPlace(p, q) ==
    /\ log[p].seg \in DOMAIN AllFiles
    /\ q \in DOMAIN AllFiles[log[p].seg].recs
    /\ AllFiles[log[p].seg].recs[q] = Record(log[p].ts, "whole")

\* Record q of the file of entry p is read before record s of that of entry r:
\* segments by id, and in a segment from the front.
ReadBefore(p, q, r, s) ==
    log[p].seg < log[r].seg \/ (log[p].seg = log[r].seg /\ q < s)

\* The whole records of all files are the entries of the history, each at one
\* place, in the order in which recovery reads them.
StoredInOrder ==
    /\ \A p \in DOMAIN log : \E q \in Nat : AtPlace(p, q)
    /\ \A i \in DOMAIN AllFiles : \A q \in DOMAIN AllFiles[i].recs :
          AllFiles[i].recs[q].part = "whole" =>
              \E p \in DOMAIN log : log[p].seg = i /\ AtPlace(p, q)
    /\ \A p, r \in DOMAIN log : \A q, s \in Nat :
          AtPlace(p, q) /\ AtPlace(r, s) => (p < r <=> ReadBefore(p, q, r, s))

\* The call has yet to write its records.
Unwritten(t) == pc[t] \in {"check", "rotate", "read_current", "load_first", "exists",
                           "rename", "slow_append"}

\* The records of a call are whole, differ from each other and, until they are
\* written, from those of the history.
NewRecords ==
    /\ \A p \in DOMAIN log : log[p].ts <= requested
    /\ \A t \in Threads : \A i \in DOMAIN records[t] :
          /\ records[t][i].part = "whole"
          /\ \A j \in DOMAIN records[t] : records[t][j].ts = records[t][i].ts => j = i
          /\ Unwritten(t) => \A p \in DOMAIN log : log[p].ts # records[t][i].ts

\* What a crash may cut, the unsynced records of the current file, is what the
\* history ends with.
UnsyncedLast ==
    /\ Len(Current.recs) - Current.synced <= Len(log)
    /\ \A p \in DOMAIN log : \A j \in Current.synced + 1 .. Len(Current.recs) :
          Len(log) - p = Len(Current.recs) - j =>
              log[p].seg = current_segment /\ AtPlace(p, j)

StoredInv == LossInv /\ NewRecords /\ StoredInOrder /\ UnsyncedLast

\* The history and the current file.
LogShape ==
    /\ Len(log) \in Nat /\ DOMAIN log = 1 .. Len(log)
    /\ \A p \in 1 .. Len(log) : log[p].seg \in Nat /\ log[p].ts \in 1 .. MaxRecords
    /\ current_segment \in Nat \ {0} /\ current_segment \in DOMAIN AllFiles
    /\ current_segment \in DOMAIN wal_dir
    /\ AllFiles[current_segment] = Current /\ DOMAIN AllFiles = 1 .. current_segment
    /\ Len(Current.recs) \in Nat /\ DOMAIN Current.recs = 1 .. Len(Current.recs)
    /\ Current.synced \in 0 .. Len(Current.recs)
    /\ \A j \in 1 .. Len(Current.recs) : Current.recs[j] \in Records

\* They have it whenever the segments are in their places.
LEMMA LogType ==
    ASSUME ArchiveInv
    PROVE  LogShape
<1> USE DEF ArchiveInv
<1>1. BothDirectories
  BY FilesOfBoth
<1>2. current_segment \in DOMAIN wal_dir /\ current_segment \in Nat \ {0}
      /\ DOMAIN wal_dir \cup DOMAIN archive = 1 .. current_segment
  BY Numbers DEF TypeOK, Placed
<1>3. /\ DOMAIN AllFiles = 1 .. current_segment /\ AllFiles[current_segment] = Current
  BY <1>1, <1>2 DEF BothDirectories, Current
<1>4. /\ Current.recs \in Seq(Records) /\ Current.synced \in 0 .. Len(Current.recs)
  BY CurrentFile
<1>5. /\ Len(Current.recs) \in Nat /\ DOMAIN Current.recs = 1 .. Len(Current.recs)
      /\ \A j \in 1 .. Len(Current.recs) : Current.recs[j] \in Records
  BY <1>4, LenProperties, ElementOfSeq
<1>6. log \in Seq([seg : Nat, ts : 1 .. MaxRecords])
  BY DEF TypeOK
<1>7. /\ Len(log) \in Nat /\ DOMAIN log = 1 .. Len(log)
      /\ \A p \in 1 .. Len(log) : log[p] \in [seg : Nat, ts : 1 .. MaxRecords]
  BY <1>6, LenProperties, ElementOfSeq
<1> QED BY <1>2, <1>3, <1>4, <1>5, <1>7 DEF LogShape

\* What steps there are.
LEMMA LogStep ==
    ASSUME ArchiveInv, [Next]_vars
    PROVE  \/ log' = log /\ UNCHANGED <<wal_dir, archive, current_segment>>
           \/ /\ log' = log /\ wal_dir' = [wal_dir EXCEPT ![current_segment] = Synced(@)]
              /\ UNCHANGED <<archive, current_segment>>
           \/ log' = log /\ \E t \in Threads : Rotate(t) \/ Rename(t)
           \/ \E t \in Threads : FastAppend(t) \/ SlowAppend(t)
           \/ Crash \/ Close
<1> USE DEF ArchiveInv
<1>1. CASE UNCHANGED vars
  BY <1>1 DEF vars, files, manager, history
<1>2. CASE Sync
  BY <1>2 DEF Sync, manager, history
<1>3. CASE Open
  BY <1>3, OpenEffect DEF Open, history
<1>4. ASSUME NEW t \in Threads, ThreadStep(t), ~(FastAppend(t) \/ SlowAppend(t))
      PROVE  \/ log' = log /\ UNCHANGED <<wal_dir, archive, current_segment>>
             \/ /\ log' = log /\ wal_dir' = [wal_dir EXCEPT ![current_segment] = Synced(@)]
                /\ UNCHANGED <<archive, current_segment>>
             \/ log' = log /\ (Rotate(t) \/ Rename(t))
  <2>1. CASE FastSync(t) \/ SlowSync(t)
    BY <2>1 DEF FastSync, SlowSync, MaybeSync
  <2>2. CASE Call(t) \/ NoRoom(t) \/ ReadCurrent(t) \/ LoadFirst(t) \/ Exists(t) \/ RenameFails(t)
    BY <2>2 DEF Call, NoRoom, ReadCurrent, LoadFirst, Exists, RenameFails, files, manager, history
  <2>3. CASE Count(t) \/ StoreFirst(t)
    BY <2>3 DEF Count, StoreFirst, files, history
  <2>4. CASE Rotate(t) \/ Rename(t)
    BY <2>4 DEF Rotate, Rename, history
  <2> QED BY <1>4, <2>1, <2>2, <2>3, <2>4 DEF ThreadStep
<1> QED BY <1>1, <1>2, <1>3, <1>4 DEF Next

\* A step that writes nothing leaves the records of every file and adds at most
\* an empty one, which is then the current one.
QuietFiles ==
    /\ log' = log
    /\ \A i \in DOMAIN AllFiles : i \in DOMAIN AllFiles' /\ AllFiles'[i].recs = AllFiles[i].recs
    /\ \A i \in DOMAIN AllFiles' \ DOMAIN AllFiles : AllFiles'[i].recs = <<>>
    /\ \/ /\ current_segment' = current_segment
          /\ Current'.recs = Current.recs /\ Current.synced <= Current'.synced
       \/ Current'.recs = <<>> /\ Current'.synced = 0

\* Which steps do so.
LEMMA IsQuiet ==
    ASSUME ArchiveInv, ArchiveInv', log' = log,
           \/ UNCHANGED <<wal_dir, archive, current_segment>>
           \/ /\ wal_dir' = [wal_dir EXCEPT ![current_segment] = Synced(@)]
              /\ UNCHANGED <<archive, current_segment>>
           \/ \E t \in Threads : Rotate(t) \/ Rename(t)
    PROVE  QuietFiles
<1> USE DEF ArchiveInv
<1>1. /\ DOMAIN AllFiles = DOMAIN wal_dir \cup DOMAIN archive
      /\ \A i \in DOMAIN wal_dir : AllFiles[i] = wal_dir[i]
      /\ \A i \in DOMAIN archive : AllFiles[i] = archive[i]
  BY FilesOfBoth DEF BothDirectories
<1>2. BothDirectories'
  BY FilesOfBoth, PTL
<1>3. /\ DOMAIN AllFiles' = DOMAIN wal_dir' \cup DOMAIN archive'
      /\ \A i \in DOMAIN wal_dir' : AllFiles'[i] = wal_dir'[i]
      /\ \A i \in DOMAIN archive' : AllFiles'[i] = archive'[i]
  BY <1>2 DEF BothDirectories
<1>4. /\ current_segment \in DOMAIN wal_dir /\ Current.synced \in 0 .. Len(Current.recs)
      /\ Len(Current.recs) \in Nat
  BY LogType DEF LogShape
<1>5. CASE UNCHANGED <<wal_dir, archive, current_segment>>
  BY <1>1, <1>3, <1>4, <1>5 DEF QuietFiles, Current
<1>6. CASE /\ wal_dir' = [wal_dir EXCEPT ![current_segment] = Synced(@)]
           /\ UNCHANGED <<archive, current_segment>>
  <2>1. /\ DOMAIN wal_dir' = DOMAIN wal_dir
        /\ \A i \in DOMAIN wal_dir : wal_dir'[i].recs = wal_dir[i].recs
        /\ Current'.recs = Current.recs /\ Current'.synced = Len(Current.recs)
    BY <1>6, SyncEffect DEF Current
  <2> QED BY <1>1, <1>3, <1>4, <1>6, <2>1 DEF QuietFiles
<1>7. ASSUME NEW t \in Threads, Rotate(t) PROVE QuietFiles
  <2>1. current_segment + 1 \notin DOMAIN wal_dir
    BY Numbers DEF Placed
  <2>2. /\ DOMAIN wal_dir' = DOMAIN wal_dir \cup {current_segment + 1}
        /\ wal_dir'[current_segment + 1] = EmptySegment
        /\ \A i \in DOMAIN wal_dir : wal_dir'[i].recs = wal_dir[i].recs
    BY <1>7, <2>1, RotateEffect DEF Current
  <2>3. archive' = archive /\ current_segment' = current_segment + 1
    BY <1>7 DEF Rotate
  <2>4. EmptySegment.recs = <<>> /\ EmptySegment.synced = 0
    BY DEF EmptySegment
  <2>5. Current'.recs = <<>> /\ Current'.synced = 0
    BY <2>2, <2>3, <2>4 DEF Current
  <2>6. \A i \in DOMAIN AllFiles' \ DOMAIN AllFiles : i = current_segment + 1
    BY <1>1, <1>3, <2>2, <2>3
  <2> QED BY <1>1, <1>3, <2>2, <2>3, <2>4, <2>5, <2>6 DEF QuietFiles
<1>8. ASSUME NEW t \in Threads, Rename(t) PROVE QuietFiles
  <2>1. next_id[t] # current_segment
    BY <1>8, Numbers DEF Rename, Goto, Archiving, archive_up_to
  <2>2. /\ next_id[t] \in DOMAIN wal_dir
        /\ DOMAIN wal_dir' = DOMAIN wal_dir \ {next_id[t]}
        /\ \A i \in DOMAIN wal_dir' : wal_dir'[i] = wal_dir[i]
        /\ DOMAIN archive' = DOMAIN archive \cup {next_id[t]}
        /\ archive'[next_id[t]] = wal_dir[next_id[t]]
        /\ \A i \in DOMAIN archive : i # next_id[t] => archive'[i] = archive[i]
    BY <1>8, RenameEffect
  <2>3. current_segment' = current_segment
    BY <1>8 DEF Rename, manager
  <2>4. Current' = Current
    BY <1>4, <2>1, <2>2, <2>3 DEF Current
  <2>5. DOMAIN AllFiles' = DOMAIN AllFiles
    BY <1>1, <1>3, <2>2
  <2>6. \A i \in DOMAIN AllFiles : AllFiles'[i] = AllFiles[i]
    <3> TAKE i \in DOMAIN AllFiles
    <3>1. CASE i = next_id[t]
      BY <1>1, <1>3, <2>2, <3>1
    <3>2. CASE i # next_id[t] /\ i \in DOMAIN wal_dir
      BY <1>1, <1>3, <2>2, <3>2
    <3>3. CASE i # next_id[t] /\ i \in DOMAIN archive
      BY <1>1, <1>3, <2>2, <3>3
    <3> QED BY <1>1, <3>1, <3>2, <3>3
  <2> QED BY <1>4, <2>3, <2>4, <2>5, <2>6 DEF QuietFiles
<1> QED BY <1>5, <1>6, <1>7, <1>8

\* A place is a number.
LEMMA PlaceType ==
    ASSUME ArchiveInv, NEW p \in DOMAIN log, NEW q, AtPlace(p, q)
    PROVE  q \in Nat \ {0} /\ q \in DOMAIN AllFiles[log[p].seg].recs
<1>1. AllFiles[log[p].seg].recs \in Seq(Records)
  BY FilesOfBoth DEF AtPlace, BothDirectories
<1> QED BY <1>1, LenProperties DEF AtPlace

\* A step that leaves the places of the entries keeps StoredInOrder.
LEMMA PlacesKept ==
    ASSUME ArchiveInv, ArchiveInv', StoredInOrder, QuietFiles
    PROVE  /\ \A p \in DOMAIN log : \A q : AtPlace(p, q)' <=> AtPlace(p, q)
           /\ StoredInOrder'
<1>1. \A p \in DOMAIN log : log[p].seg \in DOMAIN AllFiles
  BY DEF StoredInOrder, AtPlace
<1>2. ASSUME NEW p \in DOMAIN log, NEW q PROVE AtPlace(p, q)' <=> AtPlace(p, q)
  BY <1>1 DEF AtPlace, QuietFiles
<1>3. log' = log /\ \A p, q, r, s : ReadBefore(p, q, r, s)' <=> ReadBefore(p, q, r, s)
  BY DEF ReadBefore, QuietFiles
<1>4. \A p \in DOMAIN log' : \E q \in Nat : AtPlace(p, q)'
  BY <1>2, <1>3 DEF StoredInOrder
<1>5. ASSUME NEW i \in DOMAIN AllFiles', NEW q \in DOMAIN AllFiles'[i].recs,
             AllFiles'[i].recs[q].part = "whole"
      PROVE  \E p \in DOMAIN log' : log'[p].seg = i /\ AtPlace(p, q)'
  <2>1. i \in DOMAIN AllFiles
    <3> SUFFICES ASSUME i \notin DOMAIN AllFiles PROVE FALSE
      OBVIOUS
    <3>1. AllFiles'[i].recs = <<>>
      BY <1>5 DEF QuietFiles
    <3>2. DOMAIN <<>> = {}
      OBVIOUS
    <3> QED BY <1>5, <3>1, <3>2
  <2>2. AllFiles'[i].recs = AllFiles[i].recs
    BY <2>1 DEF QuietFiles
  <2>3. PICK p \in DOMAIN log : log[p].seg = i /\ AtPlace(p, q)
    BY <1>5, <2>1, <2>2 DEF StoredInOrder
  <2> QED BY <1>2, <1>3, <2>3
<1>6. ASSUME NEW p \in DOMAIN log', NEW r \in DOMAIN log', NEW q \in Nat, NEW s \in Nat,
             AtPlace(p, q)', AtPlace(r, s)'
      PROVE  p < r <=> ReadBefore(p, q, r, s)'
  BY <1>2, <1>3, <1>6 DEF StoredInOrder
<1>7. StoredInOrder'
  BY <1>4, <1>5, <1>6 DEF StoredInOrder
<1> QED BY <1>2, <1>7

\* Such a step keeps what is not synced last.
LEMMA LastKept ==
    ASSUME ArchiveInv, ArchiveInv', StoredInOrder, UnsyncedLast, QuietFiles
    PROVE  UnsyncedLast'
<1>1. /\ Len(log) \in Nat /\ DOMAIN log = 1 .. Len(log) /\ log' = log
      /\ Len(Current.recs) \in Nat /\ Current.synced \in 0 .. Len(Current.recs)
  BY LogType DEF LogShape, QuietFiles
<1>2. Current'.synced \in 0 .. Len(Current'.recs) /\ Len(Current'.recs) \in Nat
  <2>1. LogShape'
    BY LogType, PTL
  <2> QED BY <2>1 DEF LogShape
<1>3. CASE Current'.recs = <<>> /\ Current'.synced = 0
  <2>1. Len(Current'.recs) = 0 /\ Len(log') \in Nat
    BY <1>1, <1>3, EmptySeq
  <2>2. /\ Len(Current'.recs) - Current'.synced <= Len(log')
        /\ Current'.synced + 1 .. Len(Current'.recs) = {}
    BY <1>3, <2>1
  <2> QED BY <2>2 DEF UnsyncedLast
<1>4. CASE /\ current_segment' = current_segment
           /\ Current'.recs = Current.recs /\ Current.synced <= Current'.synced
  <2>1. Len(Current'.recs) - Current'.synced <= Len(log')
    BY <1>1, <1>2, <1>4 DEF UnsyncedLast
  <2>2. ASSUME NEW p \in DOMAIN log', NEW j \in Current'.synced + 1 .. Len(Current'.recs),
               Len(log') - p = Len(Current'.recs) - j
        PROVE  log'[p].seg = current_segment' /\ AtPlace(p, j)'
    <3>1. p \in DOMAIN log /\ j \in Current.synced + 1 .. Len(Current.recs)
          /\ Len(log) - p = Len(Current.recs) - j
      BY <1>1, <1>2, <1>4, <2>2
    <3>2. AtPlace(p, j) /\ log[p].seg = current_segment
      BY <3>1 DEF UnsyncedLast
    <3>3. AtPlace(p, j)'
      BY <3>1, <3>2, PlacesKept
    <3> QED BY <1>1, <1>4, <3>2, <3>3
  <2> QED BY <2>1, <2>2 DEF UnsyncedLast
<1> QED BY <1>3, <1>4 DEF QuietFiles

\* A record that is whole is its timestamp.
LEMMA WholeRecord ==
    ASSUME NEW r \in Records, NEW ts
    PROVE  r = Record(ts, "whole") <=> r.part = "whole" /\ r.ts = ts
BY DEF Records, Record

\* The files and the history after a write of K records behind L, and N entries.
Wrote(t, N, L, K) ==
    /\ N \in Nat /\ L \in Nat /\ K \in Nat
    /\ N = Len(log) /\ DOMAIN log = 1 .. N
    /\ Len(log') = N + K /\ DOMAIN log' = 1 .. N + K
    /\ \A p \in 1 .. N : log'[p] = log[p]
    /\ \A j \in 1 .. K : /\ log'[N + j].seg = current_segment
                         /\ log'[N + j].ts = records[t][j].ts
    /\ L = Len(Current.recs) /\ Len(Current'.recs) = L + K
    /\ Current'.synced = Current.synced
    /\ DOMAIN AllFiles' = DOMAIN AllFiles
    /\ \A i \in DOMAIN AllFiles : i # current_segment => AllFiles'[i].recs = AllFiles[i].recs
    /\ DOMAIN AllFiles[current_segment].recs = 1 .. L
    /\ DOMAIN AllFiles'[current_segment].recs = 1 .. L + K
    /\ \A j \in 1 .. L :
          AllFiles'[current_segment].recs[j] = AllFiles[current_segment].recs[j]
    /\ \A j \in 1 .. K : AllFiles'[current_segment].recs[L + j] = records[t][j]
    /\ DOMAIN records[t] = 1 .. K /\ \A j \in 1 .. K : records[t][j] \in Records

\* Both append paths write so.
LEMMA WriteShape ==
    ASSUME ArchiveInv, ArchiveInv', NEW t \in Threads, Write(t), UNCHANGED current_segment
    PROVE  \E N, L, K \in Nat : Wrote(t, N, L, K)
<1> USE DEF ArchiveInv
<1>1. LogShape /\ LogShape' /\ BothDirectories /\ BothDirectories'
  BY LogType, FilesOfBoth, PTL
<1>2. PICK N \in Nat, L \in Nat, K \in Nat :
         N = Len(log) /\ L = Len(Current.recs) /\ K = Len(records[t])
  BY <1>1, LenProperties DEF LogShape, TypeOK
<1>3. DOMAIN records[t] = 1 .. K /\ \A j \in 1 .. K : records[t][j] \in Records
  BY <1>2, LenProperties, ElementOfSeq DEF TypeOK
<1>4. /\ wal_dir' = [wal_dir EXCEPT ![current_segment].recs = @ \o records[t]]
      /\ archive' = archive /\ current_segment' = current_segment
  BY DEF Write
<1>5. /\ DOMAIN wal_dir' = DOMAIN wal_dir
      /\ \A i \in DOMAIN wal_dir \ {current_segment} : wal_dir'[i] = wal_dir[i]
      /\ wal_dir'[current_segment].synced = Current.synced
      /\ Len(wal_dir'[current_segment].recs) = L + K
      /\ \A j \in 1 .. L : wal_dir'[current_segment].recs[j] = Current.recs[j]
      /\ \A j \in 1 .. K : wal_dir'[current_segment].recs[L + j] = records[t][j]
  <2>1. /\ DOMAIN wal_dir' = DOMAIN wal_dir
        /\ \A i \in DOMAIN wal_dir \ {current_segment} : wal_dir'[i] = wal_dir[i]
        /\ wal_dir'[current_segment].synced = Current.synced
        /\ Len(wal_dir'[current_segment].recs) = Len(Current.recs) + Len(records[t])
        /\ \A j \in 1 .. Len(Current.recs) :
              wal_dir'[current_segment].recs[j] = Current.recs[j]
        /\ \A j \in 1 .. Len(records[t]) :
              wal_dir'[current_segment].recs[Len(Current.recs) + j] = records[t][j]
    <3> HIDE DEF Current
    <3> QED BY <1>4, WriteEffect
  <2> HIDE DEF Current
  <2> QED BY <1>2, <2>1
<1>6. /\ DOMAIN log = 1 .. N /\ DOMAIN Current.recs = 1 .. L
      /\ current_segment \in DOMAIN wal_dir /\ AllFiles[current_segment] = Current
  BY <1>1, <1>2 DEF LogShape
<1>7. /\ DOMAIN Current'.recs = 1 .. Len(Current'.recs)
      /\ AllFiles'[current_segment] = Current' /\ Current' = wal_dir'[current_segment]
  BY <1>1, <1>4 DEF LogShape, Current
<1>8. /\ DOMAIN AllFiles' = DOMAIN AllFiles
      /\ \A i \in DOMAIN AllFiles : i # current_segment => AllFiles'[i] = AllFiles[i]
  BY <1>1, <1>4, <1>5 DEF BothDirectories
<1>9. /\ Len(log') = N + K /\ DOMAIN log' = 1 .. N + K
      /\ \A p \in 1 .. N : log'[p] = log[p]
      /\ \A j \in 1 .. K : /\ log'[N + j].seg = current_segment
                           /\ log'[N + j].ts = records[t][j].ts
  <2> DEFINE new == [i \in DOMAIN records[t] |->
                        [seg |-> current_segment, ts |-> records[t][i].ts]]
             Logged == [seg : Nat, ts : 1 .. MaxRecords]
  <2>1. log' = log \o new
    BY DEF Write
  <2>2. log \in Seq(Logged)
    BY DEF TypeOK
  <2>3. \A j \in 1 .. K : new[j].seg = current_segment /\ new[j].ts = records[t][j].ts
    BY <1>3
  <2>4. new \in Seq(Logged) /\ Len(new) = K
    <3>1. \A j \in 1 .. K : [seg |-> current_segment, ts |-> records[t][j].ts] \in Logged
      BY <1>3, Numbers DEF Records
    <3>2. new \in [1 .. K -> Logged]
      BY <1>3, <3>1
    <3> HIDE DEF new, Logged
    <3> QED BY <1>2, <3>2, LenProperties
  <2> HIDE DEF new, Logged
  <2>5. /\ Len(log \o new) = N + K
        /\ log \o new \in Seq(Logged)
        /\ \A i \in 1 .. N + K : (log \o new)[i] = IF i <= N THEN log[i] ELSE new[i - N]
    <3>1. /\ Len(log \o new) = Len(log) + Len(new)
          /\ log \o new \in Seq(Logged)
          /\ \A i \in 1 .. Len(log) + Len(new) :
                (log \o new)[i] = IF i <= Len(log) THEN log[i] ELSE new[i - Len(log)]
      BY <2>2, <2>4, ConcatProperties
    <3> QED BY <1>2, <2>4, <3>1
  <2>6. DOMAIN log' = 1 .. N + K /\ Len(log') = N + K
    BY <2>1, <2>5, LenProperties
  <2>7. \A p \in 1 .. N : log'[p] = log[p]
    BY <1>2, <2>1, <2>5
  <2>8. ASSUME NEW j \in 1 .. K PROVE log'[N + j] = new[j]
    <3>1. N + j \in 1 .. N + K /\ ~(N + j <= N) /\ (N + j) - N = j
      BY <1>2
    <3> QED BY <2>1, <2>5, <3>1
  <2> QED BY <2>3, <2>6, <2>7, <2>8
<1>10. /\ Len(Current'.recs) = L + K /\ Current'.synced = Current.synced
       /\ DOMAIN AllFiles[current_segment].recs = 1 .. L
       /\ DOMAIN AllFiles'[current_segment].recs = 1 .. L + K
       /\ \A j \in 1 .. L :
             AllFiles'[current_segment].recs[j] = AllFiles[current_segment].recs[j]
       /\ \A j \in 1 .. K : AllFiles'[current_segment].recs[L + j] = records[t][j]
  BY <1>5, <1>6, <1>7
<1>11. Wrote(t, N, L, K)
  BY <1>2, <1>3, <1>6, <1>8, <1>9, <1>10 DEF Wrote
<1> QED BY <1>11

\* Entries that a write leaves are where they were; the new ones are at its end.
LEMMA WrittenPlaces ==
    ASSUME ArchiveInv, ArchiveInv', StoredInOrder, NewRecords, NEW t \in Threads, Unwritten(t),
           current_segment' = current_segment,
           NEW N, NEW L, NEW K, Wrote(t, N, L, K)
    PROVE  /\ \A p \in 1 .. N : \A q : AtPlace(p, q)' <=> AtPlace(p, q)
           /\ \A j \in 1 .. K : \A q : AtPlace(N + j, q)' <=> q = L + j
           /\ \A j \in 1 .. K : N + j \in DOMAIN log'
<1>1. /\ current_segment \in DOMAIN AllFiles /\ N \in Nat /\ L \in Nat /\ K \in Nat
      /\ DOMAIN log = 1 .. N /\ DOMAIN log' = 1 .. N + K
  BY LogType DEF LogShape, Wrote
<1>2. \A p \in 1 .. N : log'[p] = log[p]
  BY DEF Wrote
<1>3. \A j \in 1 .. K : N + j \in 1 .. N + K
  BY <1>1
<1>4. ASSUME NEW q \in 1 .. L + K PROVE q \in 1 .. L \/ \E j \in 1 .. K : q = L + j
  <2>1. q > L => q - L \in 1 .. K /\ q = L + (q - L)
    BY <1>1
  <2> QED BY <1>1, <2>1
<1>5. \A j \in 1 .. K : /\ records[t][j] \in Records /\ records[t][j].part = "whole"
                        /\ log'[N + j].ts = records[t][j].ts
                        /\ log'[N + j].seg = current_segment
                        /\ AllFiles'[current_segment].recs[L + j] = records[t][j]
  BY DEF Wrote, NewRecords
<1>6. ASSUME NEW j \in 1 .. K PROVE \A p \in 1 .. N : log[p].ts # records[t][j].ts
  <2>1. j \in DOMAIN records[t]
    BY DEF Wrote
  <2> QED BY <1>1, <2>1 DEF NewRecords
<1>7. \A r, ts : r = Record(ts, "whole") => r.ts = ts /\ r.part = "whole"
  BY DEF Record
<1>8. ASSUME NEW p \in 1 .. N, NEW q PROVE AtPlace(p, q)' <=> AtPlace(p, q)
  <2> DEFINE i == log[p].seg
  <2>1. AtPlace(p, q)' <=> /\ i \in DOMAIN AllFiles' /\ q \in DOMAIN AllFiles'[i].recs
                           /\ AllFiles'[i].recs[q] = Record(log[p].ts, "whole")
    BY <1>2 DEF AtPlace
  <2>2. AtPlace(p, q) <=> /\ i \in DOMAIN AllFiles /\ q \in DOMAIN AllFiles[i].recs
                          /\ AllFiles[i].recs[q] = Record(log[p].ts, "whole")
    BY DEF AtPlace
  <2> HIDE DEF i
  <2>3. CASE i # current_segment
    BY <2>1, <2>2, <2>3 DEF Wrote
  <2>4. CASE i = current_segment
    <3>1. CASE q \in 1 .. L
      <4>1. q \in 1 .. L + K
        BY <1>1, <3>1
      <4> QED BY <1>1, <2>1, <2>2, <2>4, <3>1, <4>1 DEF Wrote
    <3>2. ASSUME NEW j \in 1 .. K, q = L + j PROVE ~ AtPlace(p, q)' /\ ~ AtPlace(p, q)
      <4>1. AtPlace(p, q)' => records[t][j].ts = log[p].ts
        BY <1>5, <1>7, <2>1, <2>4, <3>2
      <4>2. q \notin 1 .. L
        BY <1>1, <3>2
      <4> QED BY <1>6, <2>2, <2>4, <4>1, <4>2 DEF Wrote
    <3>3. AtPlace(p, q) \/ AtPlace(p, q)' => q \in 1 .. L + K
      <4>1. q \in 1 .. L => q \in 1 .. L + K
        BY <1>1
      <4> QED BY <2>1, <2>2, <2>4, <4>1 DEF Wrote
    <3> QED BY <1>4, <3>1, <3>2, <3>3
  <2> QED BY <2>3, <2>4
<1>9. ASSUME NEW j \in 1 .. K, NEW q PROVE AtPlace(N + j, q)' <=> q = L + j
  <2>1. AtPlace(N + j, q)' <=>
            /\ q \in 1 .. L + K
            /\ AllFiles'[current_segment].recs[q] = Record(records[t][j].ts, "whole")
    BY <1>1, <1>5 DEF AtPlace, Wrote
  <2>2. ASSUME q = L + j PROVE AtPlace(N + j, q)'
    <3>1. q \in 1 .. L + K
      BY <1>1, <2>2
    <3>2. records[t][j] = Record(records[t][j].ts, "whole")
      BY <1>5, WholeRecord
    <3> QED BY <1>5, <2>1, <2>2, <3>1, <3>2
  <2>3. ASSUME AtPlace(N + j, q)', q \in 1 .. L PROVE FALSE
    <3>1. AllFiles[current_segment].recs[q] = Record(records[t][j].ts, "whole")
      BY <2>1, <2>3 DEF Wrote
    <3>2. q \in DOMAIN AllFiles[current_segment].recs
      BY <2>3 DEF Wrote
    <3>3. PICK p \in DOMAIN log : log[p].seg = current_segment /\ AtPlace(p, q)
      BY <1>1, <1>7, <3>1, <3>2 DEF StoredInOrder
    <3>4. AllFiles[current_segment].recs[q] = Record(log[p].ts, "whole")
      BY <3>3 DEF AtPlace
    <3>5. log[p].ts = records[t][j].ts
      BY <1>7, <3>1, <3>4
    <3> QED BY <1>1, <1>6, <3>5
  <2>4. ASSUME AtPlace(N + j, q)', NEW k \in 1 .. K, q = L + k PROVE k = j
    <3>1. records[t][k].ts = records[t][j].ts
      BY <1>5, <1>7, <2>1, <2>4
    <3>2. j \in DOMAIN records[t] /\ k \in DOMAIN records[t]
      BY DEF Wrote
    <3> QED BY <3>1, <3>2 DEF NewRecords
  <2> QED BY <1>4, <2>1, <2>2, <2>3, <2>4
<1> QED BY <1>1, <1>3, <1>8, <1>9

\* So a write keeps the order and writes what is not synced last.
LEMMA Written ==
    ASSUME ArchiveInv, ArchiveInv', StoredInOrder, NewRecords, UnsyncedLast,
           NEW t \in Threads, Unwritten(t), current_segment' = current_segment,
           NEW N, NEW L, NEW K, Wrote(t, N, L, K)
    PROVE  StoredInOrder' /\ UnsyncedLast'
<1> DEFINE c == current_segment
<1>1. /\ c \in DOMAIN AllFiles /\ c \in Nat \ {0} /\ N \in Nat /\ L \in Nat /\ K \in Nat
      /\ DOMAIN log = 1 .. N /\ DOMAIN log' = 1 .. N + K
      /\ Len(log) = N /\ Len(log') = N + K
      /\ Len(Current.recs) = L /\ Len(Current'.recs) = L + K
      /\ Current.synced \in 0 .. L /\ Current'.synced = Current.synced
      /\ DOMAIN AllFiles = 1 .. c
  BY LogType DEF LogShape, Wrote
<1>2. /\ \A p \in 1 .. N : \A q : AtPlace(p, q)' <=> AtPlace(p, q)
      /\ \A j \in 1 .. K : \A q : AtPlace(N + j, q)' <=> q = L + j
  BY WrittenPlaces
<1>3. ASSUME NEW p \in 1 .. N + K PROVE p \in 1 .. N \/ \E j \in 1 .. K : p = N + j
  <2>1. p > N => p - N \in 1 .. K /\ p = N + (p - N)
    BY <1>1
  <2> QED BY <1>1, <2>1
<1>4. /\ \A p \in 1 .. N : log'[p].seg = log[p].seg
      /\ \A j \in 1 .. K : log'[N + j].seg = c /\ N + j \in 1 .. N + K
      /\ \A p \in 1 .. N : p \in 1 .. N + K
  <2>1. /\ \A j \in 1 .. K : N + j \in 1 .. N + K
        /\ \A p \in 1 .. N : p \in 1 .. N + K
    BY <1>1
  <2>2. /\ \A p \in 1 .. N : log'[p] = log[p]
        /\ \A j \in 1 .. K : log'[N + j].seg = c
    BY DEF Wrote
  <2> QED BY <2>1, <2>2
<1>5. ASSUME NEW p \in DOMAIN log' PROVE \E q \in Nat : AtPlace(p, q)'
  <2>1. CASE p \in 1 .. N
    BY <1>1, <1>2, <2>1 DEF StoredInOrder
  <2>2. ASSUME NEW j \in 1 .. K, p = N + j PROVE AtPlace(p, L + j)' /\ L + j \in Nat
    BY <1>1, <1>2, <2>2
  <2> QED BY <1>1, <1>3, <2>1, <2>2
<1>6. ASSUME NEW i \in DOMAIN AllFiles', NEW q \in DOMAIN AllFiles'[i].recs,
             AllFiles'[i].recs[q].part = "whole"
      PROVE  \E p \in DOMAIN log' : log'[p].seg = i /\ AtPlace(p, q)'
  <2>1. ASSUME q \in DOMAIN AllFiles[i].recs, AllFiles'[i].recs[q] = AllFiles[i].recs[q]
        PROVE  \E p \in DOMAIN log' : log'[p].seg = i /\ AtPlace(p, q)'
    <3>1. i \in DOMAIN AllFiles
      BY DEF Wrote
    <3>2. PICK p \in DOMAIN log : log[p].seg = i /\ AtPlace(p, q)
      BY <1>6, <2>1, <3>1 DEF StoredInOrder
    <3> QED BY <1>1, <1>2, <1>4, <3>2
  <2>2. CASE i # c
    BY <2>1, <2>2 DEF Wrote
  <2>3. CASE i = c /\ q \in 1 .. L
    BY <2>1, <2>3 DEF Wrote
  <2>4. CASE i = c /\ q \notin 1 .. L
    <3>1. q \in 1 .. L + K
      BY <2>4 DEF Wrote
    <3>2. q - L \in 1 .. K /\ q = L + (q - L)
      BY <1>1, <2>4, <3>1
    <3> QED BY <1>1, <1>2, <1>4, <2>4, <3>2
  <2> QED BY <2>2, <2>3, <2>4
<1>7. ASSUME NEW p \in DOMAIN log', NEW r \in DOMAIN log', NEW q \in Nat, NEW s \in Nat,
             AtPlace(p, q)', AtPlace(r, s)'
      PROVE  p < r <=> ReadBefore(p, q, r, s)'
  <2>1. \A x \in 1 .. N : /\ log[x].seg \in 1 .. c
                          /\ \A y : AtPlace(x, y) /\ log[x].seg = c => y \in 1 .. L
    <3>1. \A x \in 1 .. N : log[x].seg \in DOMAIN AllFiles
      BY <1>1 DEF StoredInOrder, AtPlace
    <3> QED BY <1>1, <3>1 DEF AtPlace, Wrote
  <2>2. ReadBefore(p, q, r, s)' <=>
            log'[p].seg < log'[r].seg \/ (log'[p].seg = log'[r].seg /\ q < s)
    BY DEF ReadBefore
  <2>3. CASE p \in 1 .. N /\ r \in 1 .. N
    <3>1. p < r <=> ReadBefore(p, q, r, s)
      BY <1>1, <1>2, <1>7, <2>3 DEF StoredInOrder
    <3> QED BY <1>4, <2>2, <2>3, <3>1 DEF ReadBefore
  <2>4. ASSUME p \in 1 .. N, NEW j \in 1 .. K, r = N + j
        PROVE  p < r /\ ReadBefore(p, q, r, s)'
    <3>1. s = L + j /\ log'[r].seg = c /\ log'[p].seg = log[p].seg
      BY <1>2, <1>4, <1>7, <2>4
    <3>2. log[p].seg \in 1 .. c /\ (log[p].seg = c => q \in 1 .. L)
      BY <1>2, <1>7, <2>1, <2>4
    <3>3. log'[p].seg < log'[r].seg \/ (log'[p].seg = log'[r].seg /\ q < s)
      BY <1>1, <3>1, <3>2
    <3> QED BY <1>1, <2>2, <2>4, <3>3
  <2>5. ASSUME r \in 1 .. N, NEW j \in 1 .. K, p = N + j
        PROVE  ~(p < r) /\ ~ ReadBefore(p, q, r, s)'
    <3>1. q = L + j /\ log'[p].seg = c /\ log'[r].seg = log[r].seg
      BY <1>2, <1>4, <1>7, <2>5
    <3>2. log[r].seg \in 1 .. c /\ (log[r].seg = c => s \in 1 .. L)
      BY <1>2, <1>7, <2>1, <2>5
    <3>3. ~(log'[p].seg < log'[r].seg \/ (log'[p].seg = log'[r].seg /\ q < s))
      BY <1>1, <3>1, <3>2
    <3> QED BY <1>1, <2>2, <2>5, <3>3
  <2>6. ASSUME NEW j \in 1 .. K, p = N + j, NEW k \in 1 .. K, r = N + k
        PROVE  p < r <=> ReadBefore(p, q, r, s)'
    <3>1. q = L + j /\ s = L + k /\ log'[p].seg = c /\ log'[r].seg = c
      BY <1>2, <1>4, <1>7, <2>6
    <3>2. p < r <=> q < s
      BY <1>1, <2>6, <3>1
    <3> QED BY <1>1, <2>2, <3>1, <3>2
  <2> QED BY <1>1, <1>3, <2>3, <2>4, <2>5, <2>6
<1>8. StoredInOrder'
  BY <1>5, <1>6, <1>7 DEF StoredInOrder
<1>9. ASSUME NEW p \in DOMAIN log', NEW j \in Current'.synced + 1 .. Len(Current'.recs),
             Len(log') - p = Len(Current'.recs) - j
      PROVE  log'[p].seg = current_segment' /\ AtPlace(p, j)'
  <2>1. CASE p \in 1 .. N
    <3>1. /\ j \in Current.synced + 1 .. Len(Current.recs)
          /\ Len(log) - p = Len(Current.recs) - j
      BY <1>1, <1>9, <2>1
    <3>2. log[p].seg = current_segment /\ AtPlace(p, j)
      BY <1>1, <2>1, <3>1 DEF UnsyncedLast
    <3> QED BY <1>2, <1>4, <2>1, <3>2
  <2>2. ASSUME NEW k \in 1 .. K, p = N + k
        PROVE  log'[p].seg = current_segment' /\ AtPlace(p, j)'
    <3>1. j = L + k
      BY <1>1, <1>9, <2>2
    <3> QED BY <1>2, <1>4, <2>2, <3>1
  <2> QED BY <1>1, <1>3, <2>1, <2>2
<1>10. Len(Current'.recs) - Current'.synced <= Len(log')
  BY <1>1 DEF UnsyncedLast
<1> QED BY <1>8, <1>9, <1>10 DEF UnsyncedLast

\* The files and the history after an end that leaves n records, and F that are
\* not whole, of L, and takes the last entries of the N.
WasCut(N, L, n, F) ==
    /\ N \in Nat /\ L \in Nat /\ F \in Nat /\ n \in Current.synced .. L
    /\ N = Len(log) /\ DOMAIN log = 1 .. N
    /\ DOMAIN log' = 1 .. N - (L - n) /\ Len(log') \in Nat
    /\ \A p \in 1 .. N - (L - n) : log'[p] = log[p]
    /\ L = Len(Current.recs) /\ Len(Current'.recs) = Current'.synced /\ Current'.synced \in Nat
    /\ DOMAIN AllFiles' = DOMAIN AllFiles
    /\ \A i \in DOMAIN AllFiles : i # current_segment => AllFiles'[i].recs = AllFiles[i].recs
    /\ DOMAIN AllFiles[current_segment].recs = 1 .. L
    /\ DOMAIN AllFiles'[current_segment].recs = 1 .. n + F
    /\ \A j \in 1 .. n :
          AllFiles'[current_segment].recs[j] = AllFiles[current_segment].recs[j]
    /\ \A j \in 1 .. F : AllFiles'[current_segment].recs[n + j].part # "whole"

\* A crash and a close leave a prefix and, at most, a record that is not whole.
LEMMA EndFragment ==
    ASSUME TypeOK, Crash \/ Close
    PROVE  \E n \in Current.synced .. Len(Current.recs), fragment \in Seq(Records) :
              /\ End(n, fragment)
              /\ \A j \in 1 .. Len(fragment) : fragment[j].part # "whole"
<1>1. <<>> \in Seq(Records) /\ \A j \in 1 .. Len(<<>>) : <<>>[j].part # "whole"
  BY EmptySeq
<1>2. Current.recs \in Seq(Records) /\ Len(Current.recs) \in Nat
      /\ Current.synced \in 0 .. Len(Current.recs)
  BY CurrentFile
<1>3. CASE Close
  <2>1. End(Len(Current.recs), <<>>)
    BY <1>3 DEF Close
  <2>2. Len(Current.recs) \in Current.synced .. Len(Current.recs)
    BY <1>2
  <2> QED BY <1>1, <2>1, <2>2
<1>4. CASE Crash
  <2>1. PICK n \in Current.synced .. Len(Current.recs) :
           \/ End(n, <<>>)
           \/ /\ n < Len(Current.recs)
              /\ \E part \in {"header", "body"} :
                     End(n, <<Record(Current.recs[n + 1].ts, part)>>)
    BY <1>4 DEF Crash
  <2>2. CASE End(n, <<>>)
    BY <1>1, <2>2
  <2>3. ASSUME n < Len(Current.recs), NEW part \in {"header", "body"},
               End(n, <<Record(Current.recs[n + 1].ts, part)>>)
        PROVE  \E fragment \in Seq(Records) :
                  /\ End(n, fragment)
                  /\ \A j \in 1 .. Len(fragment) : fragment[j].part # "whole"
    <3> DEFINE r == Record(Current.recs[n + 1].ts, part)
    <3>1. Current.recs[n + 1] \in Records
      BY <1>2, <2>3, ElementOfSeq
    <3>2. r \in Records /\ r.part # "whole"
      BY <3>1 DEF Record, Records
    <3> HIDE DEF r
    <3>3. <<r>> \in Seq(Records) /\ \A j \in 1 .. Len(<<r>>) : <<r>>[j].part # "whole"
      BY <3>2
    <3> QED BY <2>3, <3>3 DEF r
  <2> QED BY <2>1, <2>2, <2>3
<1> QED BY <1>3, <1>4

\* What such an end leaves.
LEMMA CutShape ==
    ASSUME ArchiveInv, ArchiveInv', UnsyncedLast, Crash \/ Close
    PROVE  /\ current_segment' = current_segment
           /\ \E N, L, n, F : WasCut(N, L, n, F)
<1> USE DEF ArchiveInv
<1>1. PICK n \in Current.synced .. Len(Current.recs), fragment \in Seq(Records) :
         /\ End(n, fragment)
         /\ \A j \in 1 .. Len(fragment) : fragment[j].part # "whole"
  BY EndFragment
<1>2. LogShape /\ LogShape' /\ BothDirectories /\ BothDirectories'
  BY LogType, FilesOfBoth, PTL
<1> DEFINE N == Len(log)
           L == Len(Current.recs)
           F == Len(fragment)
<1>3. /\ N \in Nat /\ L \in Nat /\ F \in Nat /\ n \in Current.synced .. L
      /\ Current.synced \in 0 .. L /\ L - Current.synced <= N
  BY <1>1, <1>2, LenProperties DEF LogShape, UnsyncedLast
<1>4. /\ current_segment' = current_segment /\ archive' = archive
      /\ wal_dir' = [wal_dir EXCEPT ![current_segment] =
                        [recs   |-> SubSeq(Current.recs, 1, n) \o fragment,
                         synced |-> Len(SubSeq(Current.recs, 1, n) \o fragment)]]
      /\ log' = SubSeq(log, 1, N - Len(SubSeq(Current.recs, n + 1, L)))
  BY <1>1 DEF End, manager
<1>5. Current.recs \in Seq(Records) /\ \A j \in 1 .. L : Current.recs[j] \in Records
  BY CurrentFile, ElementOfSeq
<1>6. /\ DOMAIN wal_dir' = DOMAIN wal_dir
      /\ \A i \in DOMAIN wal_dir \ {current_segment} : wal_dir'[i] = wal_dir[i]
      /\ Len(wal_dir'[current_segment].recs) = n + F
      /\ wal_dir'[current_segment].synced = n + F
      /\ \A j \in 1 .. n : wal_dir'[current_segment].recs[j] = Current.recs[j]
  <2> HIDE DEF N, L
  <2> QED BY <1>1, EndEffect
<1>7. \A j \in 1 .. F : wal_dir'[current_segment].recs[n + j] = fragment[j]
  <2> DEFINE old == Current.recs
             cut == SubSeq(old, 1, n)
  <2>1. cut \in Seq(Records) /\ Len(cut) = n
    <3> HIDE DEF old
    <3>1. old \in Seq(Records) /\ (\A j \in 1 .. n : old[j] \in Records) /\ n \in Nat
      BY <1>3, <1>5 DEF old
    <3>2. /\ SubSeq(old, 1, n) \in Seq(Records)
          /\ Len(SubSeq(old, 1, n)) = IF 1 <= n THEN n - 1 + 1 ELSE 0
      BY <3>1, SubSeqProperties
    <3> QED BY <3>1, <3>2
  <2>2. wal_dir'[current_segment].recs = cut \o fragment
    <3>1. current_segment \in DOMAIN wal_dir
      BY <1>2 DEF LogShape
    <3>2. wal_dir'[current_segment] = [recs |-> cut \o fragment, synced |-> Len(cut \o fragment)]
      <4> HIDE DEF cut
      <4> QED BY <1>4, <3>1 DEF cut
    <3> HIDE DEF cut
    <3> QED BY <3>2
  <2> HIDE DEF cut
  <2> TAKE j \in 1 .. F
  <2>3. \A k \in 1 .. Len(cut) + Len(fragment) :
           (cut \o fragment)[k] = IF k <= Len(cut) THEN cut[k] ELSE fragment[k - Len(cut)]
    BY <1>1, <2>1, ConcatProperties
  <2>4. n + j \in 1 .. Len(cut) + Len(fragment) /\ ~(n + j <= Len(cut)) /\ n + j - Len(cut) = j
    BY <1>3, <2>1
  <2>5. (cut \o fragment)[n + j] = fragment[n + j - Len(cut)]
    BY <2>3, <2>4
  <2>6. fragment[n + j - Len(cut)] = fragment[j]
    BY <2>4
  <2> QED BY <2>2, <2>5, <2>6
<1>8. Len(SubSeq(Current.recs, n + 1, L)) = L - n
  <2> DEFINE old == Current.recs
  <2> HIDE DEF old
  <2>1. old \in Seq(Records) /\ (\A j \in n + 1 .. L : old[j] \in Records)
        /\ n + 1 \in Nat /\ L \in Nat
    BY <1>3, <1>5 DEF old
  <2> HIDE DEF L
  <2>2. Len(SubSeq(old, n + 1, L)) = IF n + 1 <= L THEN L - (n + 1) + 1 ELSE 0
    BY <1>3, <2>1, SubSeqProperties
  <2> QED BY <1>3, <2>2 DEF old
<1>9. /\ DOMAIN log' = 1 .. N - (L - n) /\ Len(log') \in Nat
      /\ \A p \in 1 .. N - (L - n) : log'[p] = log[p]
  <2> DEFINE m == N - (L - n)
             Logged == [seg : Nat, ts : 1 .. MaxRecords]
  <2>1. m \in Nat /\ m <= N
    BY <1>3
  <2>2. log' = SubSeq(log, 1, m) /\ log \in Seq(Logged)
    BY <1>4, <1>8 DEF TypeOK
  <2> HIDE DEF m, Logged, N
  <2>3. \A i \in 1 .. m : log[i] \in Logged
    BY <2>1, <2>2, ElementOfSeq DEF N
  <2>4. /\ SubSeq(log, 1, m) \in Seq(Logged)
        /\ Len(SubSeq(log, 1, m)) = IF 1 <= m THEN m - 1 + 1 ELSE 0
        /\ \A j \in 1 .. m - 1 + 1 : SubSeq(log, 1, m)[j] = log[1 + j - 1]
    BY <2>1, <2>2, <2>3, SubSeqProperties
  <2>5. Len(log') = m /\ DOMAIN log' = 1 .. m
    BY <2>1, <2>2, <2>4, LenProperties
  <2>6. ASSUME NEW p \in 1 .. m PROVE log'[p] = log[p]
    BY <2>1, <2>2, <2>4, 1 + p - 1 = p, m - 1 + 1 = m
  <2> QED BY <2>1, <2>5, <2>6 DEF m
<1>10. /\ DOMAIN log = 1 .. N /\ DOMAIN Current.recs = 1 .. L
       /\ current_segment \in DOMAIN wal_dir /\ AllFiles[current_segment] = Current
  BY <1>2 DEF LogShape
<1>11. /\ DOMAIN Current'.recs = 1 .. Len(Current'.recs)
       /\ AllFiles'[current_segment] = Current' /\ Current' = wal_dir'[current_segment]
  BY <1>2, <1>4 DEF LogShape, Current
<1>12. /\ DOMAIN AllFiles' = DOMAIN AllFiles
       /\ \A i \in DOMAIN AllFiles : i # current_segment => AllFiles'[i] = AllFiles[i]
  BY <1>2, <1>4, <1>6 DEF BothDirectories
<1>13. n + F \in Nat
  BY <1>3
<1> HIDE DEF N, L, F
<1>14. WasCut(N, L, n, F)
  <2>1. /\ Len(Current'.recs) = Current'.synced /\ Current'.synced \in Nat
        /\ DOMAIN AllFiles[current_segment].recs = 1 .. L
        /\ DOMAIN AllFiles'[current_segment].recs = 1 .. n + F
    BY <1>6, <1>10, <1>11, <1>13
  <2>2. /\ \A j \in 1 .. n :
              AllFiles'[current_segment].recs[j] = AllFiles[current_segment].recs[j]
        /\ \A j \in 1 .. F : AllFiles'[current_segment].recs[n + j].part # "whole"
    BY <1>1, <1>6, <1>7, <1>10, <1>11 DEF F
  <2>3. N = Len(log) /\ L = Len(Current.recs)
    BY DEF N, L
  <2> QED BY <1>3, <1>9, <1>10, <1>12, <2>1, <2>2, <2>3 DEF WasCut
<1> QED BY <1>4, <1>14

\* An end keeps the order: the places it cuts are those of the entries it takes.
LEMMA Cut ==
    ASSUME ArchiveInv, ArchiveInv', StoredInOrder, UnsyncedLast,
           current_segment' = current_segment,
           NEW N, NEW L, NEW n, NEW F, WasCut(N, L, n, F)
    PROVE  StoredInOrder' /\ UnsyncedLast'
<1> DEFINE c == current_segment
           M == N - (L - n)
<1>1. /\ c \in DOMAIN AllFiles /\ c \in Nat /\ N \in Nat /\ L \in Nat /\ F \in Nat
      /\ Current.synced \in 0 .. L /\ n \in Current.synced .. L
      /\ DOMAIN log = 1 .. N /\ DOMAIN log' = 1 .. M /\ M \in Int /\ M <= N
      /\ L - Current.synced <= N
      /\ \A p \in 1 .. M : log'[p] = log[p]
  BY LogType DEF LogShape, WasCut, UnsyncedLast
<1> DEFINE synced == Current.synced
<1>0. /\ N \in Nat /\ L \in Nat /\ synced \in 0 .. L /\ n \in synced .. L
      /\ L - synced <= N
  BY <1>1
<1>last. \A p \in 1 .. N : \A j \in synced + 1 .. L :
           N - p = L - j => log[p].seg = c /\ AtPlace(p, j)
  <2>1. L = Len(Current.recs) /\ N = Len(log) /\ DOMAIN log = 1 .. N
    BY DEF WasCut
  <2> QED BY <2>1 DEF UnsyncedLast
<1> HIDE DEF synced
<1>2. ASSUME NEW p \in 1 .. N, p \notin 1 .. M
      PROVE  /\ L - (N - p) \in n + 1 .. L
             /\ log[p].seg = c /\ AtPlace(p, L - (N - p))
  <2>1. L - (N - p) \in n + 1 .. L /\ L - (N - p) \in synced + 1 .. L
        /\ N - p = L - (L - (N - p))
    BY <1>0, <1>2
  <2> QED BY <1>2, <1>last, <2>1
<1>3. ASSUME NEW q \in n + 1 .. L
      PROVE  /\ N - (L - q) \in 1 .. N /\ N - (L - q) > M
             /\ log[N - (L - q)].seg = c /\ AtPlace(N - (L - q), q)
  <2>1. N - (L - q) \in 1 .. N /\ N - (L - q) > M
        /\ q \in synced + 1 .. L /\ N - (N - (L - q)) = L - q
    BY <1>0
  <2> QED BY <1>3, <1>last, <2>1
<1>4. ASSUME NEW p \in 1 .. N, NEW r \in 1 .. N, NEW q \in Nat, NEW s \in Nat,
             AtPlace(p, q), AtPlace(r, s)
      PROVE  p < r <=> ReadBefore(p, q, r, s)
  BY <1>1, <1>4 DEF StoredInOrder
<1>5. \A r, ts : r = Record(ts, "whole") => r.part = "whole"
  BY DEF Record
<1>6. /\ 1 .. M \subseteq 1 .. N
      /\ \A q \in 1 .. n + F : q \in 1 .. n \/ (q - n \in 1 .. F /\ q = n + (q - n))
      /\ \A q \in 1 .. L : q \in 1 .. n \/ q \in n + 1 .. L
      /\ \A q \in 1 .. n : q \in 1 .. n + F /\ q \in 1 .. L
  BY <1>1
<1> HIDE DEF M
<1>7. ASSUME NEW p \in 1 .. M, NEW q PROVE AtPlace(p, q)' <=> AtPlace(p, q)
  <2> DEFINE i == log[p].seg
  <2>1. AtPlace(p, q)' <=> /\ i \in DOMAIN AllFiles' /\ q \in DOMAIN AllFiles'[i].recs
                           /\ AllFiles'[i].recs[q] = Record(log[p].ts, "whole")
    BY <1>1 DEF AtPlace
  <2>2. AtPlace(p, q) <=> /\ i \in DOMAIN AllFiles /\ q \in DOMAIN AllFiles[i].recs
                          /\ AllFiles[i].recs[q] = Record(log[p].ts, "whole")
    BY DEF AtPlace
  <2> HIDE DEF i
  <2>3. CASE i # c
    BY <2>1, <2>2, <2>3 DEF WasCut
  <2>4. CASE i = c
    <3>1. AtPlace(p, q)' => q \in 1 .. n
      <4>1. AtPlace(p, q)' => q \in 1 .. n + F /\ AllFiles'[c].recs[q].part = "whole"
        BY <1>5, <2>1, <2>4 DEF WasCut
      <4>2. \A j \in 1 .. F : AllFiles'[c].recs[n + j].part # "whole"
        BY DEF WasCut
      <4> QED BY <1>6, <4>1, <4>2
    <3>2. AtPlace(p, q) => q \in 1 .. n
      <4> SUFFICES ASSUME AtPlace(p, q), q \in n + 1 .. L PROVE FALSE
        BY <1>6, <2>2, <2>4 DEF WasCut
      <4> DEFINE r == N - (L - q)
      <4>1. r \in 1 .. N /\ r > M /\ log[r].seg = c /\ AtPlace(r, q)
        BY <1>3
      <4>2. p < r /\ p \in 1 .. N /\ log[p].seg = c /\ q \in Nat
        BY <1>1, <1>6, <2>4, <4>1 DEF i
      <4> HIDE DEF r
      <4>3. ReadBefore(p, q, r, q)
        BY <1>4, <4>1, <4>2
      <4> QED BY <1>1, <4>1, <4>2, <4>3 DEF ReadBefore
    <3>3. CASE q \in 1 .. n
      <4>1. q \in 1 .. n + F /\ q \in 1 .. L
        BY <1>6, <3>3
      <4>2. /\ q \in DOMAIN AllFiles'[c].recs /\ q \in DOMAIN AllFiles[c].recs
            /\ AllFiles'[c].recs[q] = AllFiles[c].recs[q] /\ DOMAIN AllFiles' = DOMAIN AllFiles
        BY <3>3, <4>1 DEF WasCut
      <4> QED BY <2>1, <2>2, <2>4, <4>2
    <3> QED BY <3>1, <3>2, <3>3
  <2> QED BY <2>3, <2>4
<1>8. ASSUME NEW p \in DOMAIN log' PROVE \E q \in Nat : AtPlace(p, q)'
  <2>1. p \in 1 .. M /\ p \in DOMAIN log
    BY <1>1, <1>6
  <2> QED BY <1>7, <2>1 DEF StoredInOrder
<1>9. ASSUME NEW i \in DOMAIN AllFiles', NEW q \in DOMAIN AllFiles'[i].recs,
             AllFiles'[i].recs[q].part = "whole"
      PROVE  \E p \in DOMAIN log' : log'[p].seg = i /\ AtPlace(p, q)'
  <2>1. i = c => q \in 1 .. n
    <3>1. i = c => q \in 1 .. n + F
      BY DEF WasCut
    <3>2. \A j \in 1 .. F : AllFiles'[c].recs[n + j].part # "whole"
      BY DEF WasCut
    <3> QED BY <1>6, <1>9, <3>1, <3>2
  <2>2. q \in DOMAIN AllFiles[i].recs /\ AllFiles'[i].recs[q] = AllFiles[i].recs[q]
        /\ i \in DOMAIN AllFiles
    <3>1. CASE i # c
      BY <3>1 DEF WasCut
    <3>2. CASE i = c
      <4>1. q \in 1 .. n /\ q \in 1 .. L
        BY <1>6, <2>1, <3>2
      <4> QED BY <1>1, <3>2, <4>1 DEF WasCut
    <3> QED BY <3>1, <3>2
  <2>3. PICK p \in DOMAIN log : log[p].seg = i /\ AtPlace(p, q)
    BY <1>9, <2>2 DEF StoredInOrder
  <2>4. p \in 1 .. M
    <3> SUFFICES ASSUME p \notin 1 .. M PROVE FALSE
      OBVIOUS
    <3> DEFINE j == L - (N - p)
    <3>1. p \in 1 .. N
      BY <1>1, <2>3
    <3>2. j \in n + 1 .. L /\ log[p].seg = c /\ AtPlace(p, j)
      BY <1>2, <3>1
    <3> HIDE DEF j
    <3>3. q \in 1 .. n
      BY <2>1, <2>3, <3>2
    <3>4. q < j /\ q \in Nat /\ j \in Nat
      BY <1>1, <3>2, <3>3
    <3>5. ReadBefore(p, q, p, j)
      BY <3>4 DEF ReadBefore
    <3>6. p < p
      BY <1>4, <2>3, <3>1, <3>2, <3>4, <3>5
    <3> QED BY <3>1, <3>6
  <2> QED BY <1>1, <1>7, <2>3, <2>4
<1>10. ASSUME NEW p \in DOMAIN log', NEW r \in DOMAIN log', NEW q \in Nat, NEW s \in Nat,
              AtPlace(p, q)', AtPlace(r, s)'
       PROVE  p < r <=> ReadBefore(p, q, r, s)'
  <2>1. p \in 1 .. M /\ r \in 1 .. M /\ p \in 1 .. N /\ r \in 1 .. N
    BY <1>1, <1>6
  <2>2. p < r <=> ReadBefore(p, q, r, s)
    BY <1>4, <1>7, <1>10, <2>1
  <2> QED BY <1>1, <2>1, <2>2 DEF ReadBefore
<1>11. StoredInOrder'
  BY <1>8, <1>9, <1>10 DEF StoredInOrder
<1>12. UnsyncedLast'
  <2>1. Len(Current'.recs) = Current'.synced /\ Current'.synced \in Nat /\ Len(log') \in Nat
    BY DEF WasCut
  <2>2. Len(Current'.recs) - Current'.synced <= Len(log')
    BY <2>1
  <2>3. \A j : j \notin Current'.synced + 1 .. Len(Current'.recs)
    BY <2>1
  <2> QED BY <2>2, <2>3 DEF UnsyncedLast
<1> QED BY <1>11, <1>12

\* Records that stay, or are dropped, stay new.
LEMMA NewFrame ==
    ASSUME NewRecords, log' = log, requested' = requested,
           \A u \in Threads : \/ records'[u] = <<>>
                              \/ /\ records'[u] = records[u]
                                 /\ Unwritten(u)' => Unwritten(u)
    PROVE  NewRecords'
<1>1. DOMAIN <<>> = {}
  OBVIOUS
<1>2. \A p \in DOMAIN log' : log'[p].ts <= requested'
  BY DEF NewRecords
<1>3. ASSUME NEW u \in Threads, NEW i \in DOMAIN records'[u]
      PROVE  /\ records'[u][i].part = "whole"
             /\ \A j \in DOMAIN records'[u] : records'[u][j].ts = records'[u][i].ts => j = i
             /\ Unwritten(u)' => \A p \in DOMAIN log' : log'[p].ts # records'[u][i].ts
  <2>1. records'[u] = records[u] /\ (Unwritten(u)' => Unwritten(u))
    BY <1>1, <1>3
  <2> HIDE DEF NewRecords
  <2>2. /\ records[u][i].part = "whole"
        /\ \A j \in DOMAIN records[u] : records[u][j].ts = records[u][i].ts => j = i
        /\ Unwritten(u) => \A p \in DOMAIN log : log[p].ts # records[u][i].ts
    BY <1>3, <2>1 DEF NewRecords
  <2> QED BY <2>1, <2>2
<1> QED BY <1>2, <1>3 DEF NewRecords

\* A call brings records that are new.
LEMMA NewCall ==
    ASSUME ArchiveInv, NewRecords, NEW t \in Threads, Call(t)
    PROVE  NewRecords'
<1> USE DEF ArchiveInv
<1>1. PICK n \in BatchLens :
         /\ requested' = requested + n /\ log' = log
         /\ records' = [records EXCEPT ![t] =
                           [i \in 1 .. n |-> Record(requested + i, "whole")]]
         /\ Goto(t, "idle", "check")
  BY DEF Call
<1>2. n \in Nat /\ requested \in Nat
  BY WalAssumption DEF TypeOK
<1>3. records'[t] = [i \in 1 .. n |-> Record(requested + i, "whole")]
      /\ \A u \in Threads \ {t} : records'[u] = records[u] /\ pc'[u] = pc[u]
  BY <1>1 DEF TypeOK, Goto
<1>4. /\ DOMAIN records'[t] = 1 .. n
      /\ \A i \in 1 .. n : records'[t][i].ts = requested + i /\ records'[t][i].part = "whole"
  BY <1>3 DEF Record
<1>5. /\ \A p \in DOMAIN log : log[p].ts <= requested
      /\ \A p \in DOMAIN log : log[p].ts \in Nat
  <2>1. \A p \in DOMAIN log : log[p].ts \in 1 .. MaxRecords
    BY LogType DEF LogShape
  <2> QED BY <2>1, Numbers DEF NewRecords
<1>6. \A p \in DOMAIN log' : log'[p].ts <= requested'
  BY <1>1, <1>2, <1>5
<1>7. ASSUME NEW u \in Threads, NEW i \in DOMAIN records'[u]
      PROVE  /\ records'[u][i].part = "whole"
             /\ \A j \in DOMAIN records'[u] : records'[u][j].ts = records'[u][i].ts => j = i
             /\ Unwritten(u)' => \A p \in DOMAIN log' : log'[p].ts # records'[u][i].ts
  <2>1. CASE u = t
    <3>1. i \in 1 .. n /\ records'[u][i].ts = requested + i /\ records'[u][i].part = "whole"
      BY <1>4, <1>7, <2>1
    <3>2. \A j \in DOMAIN records'[u] : records'[u][j].ts = records'[u][i].ts => j = i
      BY <1>2, <1>4, <2>1, <3>1
    <3>3. \A p \in DOMAIN log' : log'[p].ts # records'[u][i].ts
      BY <1>1, <1>2, <1>5, <3>1
    <3> QED BY <3>1, <3>2, <3>3
  <2>2. CASE u # t
    <3>1. records'[u] = records[u] /\ pc'[u] = pc[u]
      BY <1>3, <2>2
    <3>2. /\ records[u][i].part = "whole"
          /\ \A j \in DOMAIN records[u] : records[u][j].ts = records[u][i].ts => j = i
          /\ Unwritten(u) => \A p \in DOMAIN log : log[p].ts # records[u][i].ts
      BY <1>7, <3>1 DEF NewRecords
    <3> QED BY <1>1, <3>1, <3>2 DEF Unwritten
  <2> QED BY <2>1, <2>2
<1> QED BY <1>6, <1>7 DEF NewRecords

\* A write makes the records of its call no longer new, and no others.
LEMMA NewWritten ==
    ASSUME ArchiveInv, Fresh, NewRecords, NEW t \in Threads, FastAppend(t) \/ SlowAppend(t),
           NEW N, NEW L, NEW K, Wrote(t, N, L, K)
    PROVE  NewRecords'
<1>1. /\ N \in Nat /\ K \in Nat /\ DOMAIN log = 1 .. N /\ DOMAIN log' = 1 .. N + K
      /\ DOMAIN records[t] = 1 .. K /\ \A p \in 1 .. N : log'[p] = log[p]
      /\ \A j \in 1 .. K : log'[N + j].ts = records[t][j].ts
  BY DEF Wrote
<1>2. /\ records' = records /\ requested' = requested
      /\ pc'[t] \in {"fast_sync", "slow_sync"}
      /\ \A u \in Threads \ {t} : pc'[u] = pc[u]
  BY DEF FastAppend, SlowAppend, Goto, Write, ArchiveInv, TypeOK
<1>3. ASSUME NEW p \in 1 .. N + K PROVE p \in 1 .. N \/ \E j \in 1 .. K : p = N + j
  <2>1. p > N => p - N \in 1 .. K /\ p = N + (p - N)
    BY <1>1
  <2> QED BY <1>1, <2>1
<1>4. \A j \in 1 .. K : records[t][j].ts \in Timestamps(records[t])
  BY <1>1 DEF Timestamps
<1>5. ASSUME NEW p \in DOMAIN log' PROVE log'[p].ts <= requested'
  <2>1. CASE p \in 1 .. N
    BY <1>1, <1>2, <2>1 DEF NewRecords
  <2>2. ASSUME NEW j \in 1 .. K, p = N + j PROVE log'[p].ts <= requested'
    <3>1. records[t][j].ts \in 1 .. requested
      BY <1>4 DEF Fresh
    <3> QED BY <1>1, <1>2, <2>2, <3>1
  <2> QED BY <1>1, <1>3, <2>1, <2>2
<1>6. ASSUME NEW u \in Threads, NEW i \in DOMAIN records[u]
      PROVE  /\ records[u][i].part = "whole"
             /\ \A j \in DOMAIN records[u] : records[u][j].ts = records[u][i].ts => j = i
             /\ Unwritten(u)' => \A p \in DOMAIN log' : log'[p].ts # records[u][i].ts
  <2>1. /\ records[u][i].part = "whole"
        /\ \A j \in DOMAIN records[u] : records[u][j].ts = records[u][i].ts => j = i
        /\ Unwritten(u) => \A p \in DOMAIN log : log[p].ts # records[u][i].ts
    BY <1>6 DEF NewRecords
  <2>2. ASSUME Unwritten(u)', NEW p \in DOMAIN log' PROVE log'[p].ts # records[u][i].ts
    <3>1. u # t /\ Unwritten(u)
      BY <1>2, <2>2 DEF Unwritten
    <3>2. CASE p \in 1 .. N
      BY <1>1, <2>1, <3>1, <3>2
    <3>3. ASSUME NEW j \in 1 .. K, p = N + j PROVE log'[p].ts # records[u][i].ts
      <4>1. records[u][i].ts \in Timestamps(records[u])
        BY <1>6 DEF Timestamps
      <4>2. Timestamps(records[t]) \cap Timestamps(records[u]) = {}
        BY <3>1 DEF Fresh
      <4> QED BY <1>1, <1>4, <3>3, <4>1, <4>2
    <3> QED BY <1>1, <1>3, <3>2, <3>3
  <2> QED BY <2>1, <2>2
<1> QED BY <1>2, <1>5, <1>6 DEF NewRecords

\* An end leaves no records of calls.
LEMMA NewCut ==
    ASSUME ArchiveInv, NewRecords, Crash \/ Close, NEW N, NEW L, NEW n, NEW F, WasCut(N, L, n, F)
    PROVE  NewRecords'
<1>1. records' = [t \in Threads |-> <<>>] /\ requested' = requested
  BY DEF Crash, Close, End
<1>2. DOMAIN <<>> = {}
  OBVIOUS
<1>3. \A p \in DOMAIN log' : p \in DOMAIN log /\ log'[p] = log[p]
  <2>1. n \in Nat /\ n <= L
    BY LogType DEF WasCut, LogShape
  <2> QED BY <2>1 DEF WasCut
<1> QED BY <1>1, <1>2, <1>3 DEF NewRecords

\* The other steps.
LEMMA NewOther ==
    ASSUME ArchiveInv, NewRecords, [Next]_vars, ~(Crash \/ Close),
           \A t \in Threads : ~ Call(t) /\ ~ FastAppend(t) /\ ~ SlowAppend(t)
    PROVE  NewRecords'
<1> USE DEF ArchiveInv
<1>1. CASE UNCHANGED <<log, requested, records, pc>>
  BY <1>1, NewFrame DEF Unwritten
<1>2. CASE UNCHANGED vars \/ Sync \/ Open
  BY <1>1, <1>2 DEF vars, history, locals, Sync, Open
<1>3. ASSUME NEW t \in Threads, ThreadStep(t) PROVE NewRecords'
  <2>1. /\ log' = log /\ requested' = requested
        /\ \A u \in Threads \ {t} : records'[u] = records[u] /\ pc'[u] = pc[u]
        /\ records'[t] = <<>> \/ (records'[t] = records[t] /\ (Unwritten(t)' => Unwritten(t)))
    <3>1. CASE FastSync(t)
      BY <3>1 DEF FastSync, MaybeSync, Goto, Unwritten, TypeOK
    <3>2. CASE Count(t) \/ SlowSync(t) \/ RenameFails(t)
      BY <3>2 DEF Count, SlowSync, RenameFails, MaybeSync, Return, Goto, history, TypeOK
    <3>3. CASE NoRoom(t) \/ Rotate(t) \/ ReadCurrent(t) \/ LoadFirst(t)
      BY <3>3 DEF NoRoom, Rotate, ReadCurrent, LoadFirst, Goto, Unwritten, history, TypeOK
    <3>4. CASE Exists(t) \/ Rename(t) \/ StoreFirst(t)
      BY <3>4 DEF Exists, Rename, StoreFirst, Goto, Unwritten, history, TypeOK
    <3> QED BY <1>3, <3>1, <3>2, <3>3, <3>4 DEF ThreadStep
  <2>2. \A u \in Threads : \/ records'[u] = <<>>
                           \/ /\ records'[u] = records[u]
                              /\ Unwritten(u)' => Unwritten(u)
    <3>1. \A u \in Threads \ {t} : Unwritten(u)' => Unwritten(u)
      BY <2>1 DEF Unwritten
    <3> QED BY <2>1, <3>1
  <2> QED BY <2>1, <2>2, NewFrame
<1> QED BY <1>2, <1>3 DEF Next

\* At first there is nothing in the files, nor in the history.
LEMMA StoredInit ==
    ASSUME Init
    PROVE  NewRecords /\ StoredInOrder /\ UnsyncedLast
<1>1. ArchiveInv
  BY ArchiveInit
<1>2. BothDirectories
  BY <1>1, FilesOfBoth DEF ArchiveInv
<1>3. DOMAIN <<>> = {} /\ Len(<<>>) = 0
  OBVIOUS
<1>4. log = <<>> /\ DOMAIN log = {} /\ Len(log) = 0
      /\ \A t \in Threads : records[t] = <<>> /\ DOMAIN records[t] = {}
  BY <1>3 DEF Init
<1>5. Current.recs = <<>> /\ Current.synced = 0 /\ Len(Current.recs) = 0
  BY EmptySeq DEF Init, Current, File, EmptySegment
<1>6. \A i \in DOMAIN AllFiles : AllFiles[i].recs = <<>>
  <2>1. DOMAIN archive = {} /\ \A i \in DOMAIN wal_dir : wal_dir[i].recs = <<>>
    BY <1>3 DEF Init, File, EmptySegment
  <2> QED BY <1>2, <2>1 DEF BothDirectories
<1>7. NewRecords
  BY <1>4 DEF NewRecords
<1>8. StoredInOrder
  <2>1. \A i \in DOMAIN AllFiles : DOMAIN AllFiles[i].recs = {}
    BY <1>3, <1>6
  <2> QED BY <1>4, <2>1 DEF StoredInOrder
<1>9. UnsyncedLast
  BY <1>4, <1>5 DEF UnsyncedLast
<1> QED BY <1>7, <1>8, <1>9

\* Every step keeps the history stored in its order.
LEMMA StoredStep ==
    ASSUME StoredInv, LossInv', [Next]_vars
    PROVE  StoredInv'
<1> USE DEF StoredInv, LossInv
<1>1. CASE \E t \in Threads : FastAppend(t) \/ SlowAppend(t)
  <2>1. PICK t \in Threads : FastAppend(t) \/ SlowAppend(t)
    BY <1>1
  <2>2. Write(t) /\ current_segment' = current_segment /\ Unwritten(t)
    BY <2>1 DEF FastAppend, SlowAppend, Goto, Unwritten
  <2>3. PICK N \in Nat, L \in Nat, K \in Nat : Wrote(t, N, L, K)
    BY <2>2, WriteShape
  <2>4. StoredInOrder' /\ UnsyncedLast'
    BY <2>2, <2>3, Written
  <2>5. NewRecords'
    BY <2>1, <2>3, NewWritten
  <2> QED BY <2>4, <2>5
<1>2. CASE Crash \/ Close
  <2>1. /\ current_segment' = current_segment
        /\ \E N, L, n, F : WasCut(N, L, n, F)
    BY <1>2, CutShape
  <2>2. PICK N, L, n, F : WasCut(N, L, n, F)
    BY <2>1
  <2>3. StoredInOrder' /\ UnsyncedLast'
    BY <2>1, <2>2, Cut
  <2>4. NewRecords'
    BY <1>2, <2>2, NewCut
  <2> QED BY <2>3, <2>4
<1>3. CASE /\ ~(Crash \/ Close)
           /\ ~ \E t \in Threads : FastAppend(t) \/ SlowAppend(t)
  <2>1. log' = log
        /\ \/ UNCHANGED <<wal_dir, archive, current_segment>>
           \/ /\ wal_dir' = [wal_dir EXCEPT ![current_segment] = Synced(@)]
              /\ UNCHANGED <<archive, current_segment>>
           \/ \E t \in Threads : Rotate(t) \/ Rename(t)
    BY <1>3, LogStep
  <2>2. QuietFiles
    BY <2>1, IsQuiet
  <2>3. StoredInOrder' /\ UnsyncedLast'
    BY <2>2, PlacesKept, LastKept
  <2>4. NewRecords'
    <3>1. CASE \E t \in Threads : Call(t)
      BY <3>1, NewCall
    <3>2. CASE ~ \E t \in Threads : Call(t)
      BY <1>3, <3>2, NewOther
    <3> QED BY <3>1, <3>2
  <2> QED BY <2>3, <2>4
<1> QED BY <1>1, <1>2, <1>3

\* The invariant of what the files hold.
THEOREM StoredInvariant == Spec => []StoredInv
<1>1. Init => StoredInv
  BY StoredInit, LossInit DEF StoredInv
<1>2. StoredInv /\ LossInv' /\ [Next]_vars => StoredInv'
  BY StoredStep
<1> QED BY <1>1, <1>2, LossInvariant, PTL DEF Spec

-----------------------------------------------------------------------------
(***************************************************************************)
(* What the recovery functions return.                                     *)
(***************************************************************************)

\* The place with a number, if there is one such place.
LEMMA NthIs ==
    ASSUME NEW S, NEW k, NEW p \in S, \A r \in S : Cardinality(Below(S, r)) = k - 1 <=> r = p
    PROVE  Nth(S, k) = p
<1> DEFINE R(r) == Cardinality(Below(S, r)) = k - 1
<1>1. Nth(S, k) = CHOOSE r \in S : R(r)
  BY DEF Nth
<1> HIDE DEF R
<1>2. \A r \in S : R(r) <=> r = p
  BY DEF R
<1>3. (CHOOSE r \in S : R(r)) = p
  BY <1>2
<1> QED BY <1>1, <1>3

\* A place has as many places before it as its number says, and no other has.
LEMMA NthPlace ==
    ASSUME NEW S \in SUBSET (Nat \X Nat), IsFiniteSet(S), NEW p \in S
    PROVE  /\ Cardinality(S) \in Nat /\ Cardinality(Below(S, p)) \in Nat
           /\ Cardinality(Below(S, p)) + 1 \in 1 .. Cardinality(S)
           /\ Nth(S, Cardinality(Below(S, p)) + 1) = p
<1>1. \A r \in S : IsFiniteSet(Below(S, r)) /\ Cardinality(Below(S, r)) \in Nat
  <2> TAKE r \in S
  <2>1. Below(S, r) \in SUBSET S
    BY DEF Below
  <2> QED BY <2>1, FS_Subset, FS_CardinalityType
<1>2. /\ \A r \in S : ~ Before(r, r)
      /\ \A r, s \in S : r # s => Before(r, s) \/ Before(s, r)
      /\ \A q, r, s \in S : Before(q, r) /\ Before(r, s) => Before(q, s)
  <2>1. \A r \in S : r = <<r[1], r[2]>> /\ r[1] \in Nat /\ r[2] \in Nat
    OBVIOUS
  <2>2. \A r \in S : ~ Before(r, r)
    BY <2>1 DEF Before
  <2>3. \A r, s \in S : r # s => Before(r, s) \/ Before(s, r)
    BY <2>1 DEF Before
  <2>4. \A q, r, s \in S : Before(q, r) /\ Before(r, s) => Before(q, s)
    BY <2>1 DEF Before
  <2> QED BY <2>2, <2>3, <2>4
<1>3. ASSUME NEW r \in S, NEW T \in SUBSET S, IsFiniteSet(T), Below(S, r) \cup {r} \subseteq T
      PROVE  Cardinality(Below(S, r)) < Cardinality(T)
  <2>1. r \notin Below(S, r)
    BY <1>2 DEF Below
  <2>2. /\ IsFiniteSet(Below(S, r) \cup {r})
        /\ Cardinality(Below(S, r) \cup {r}) = Cardinality(Below(S, r)) + 1
    BY <1>1, <2>1, FS_AddElement
  <2>3. /\ Cardinality(Below(S, r) \cup {r}) <= Cardinality(T)
        /\ Cardinality(T) \in Nat
    BY <1>3, FS_Subset, FS_CardinalityType
  <2> QED BY <1>1, <2>2, <2>3
<1>4. \A r, s \in S : Before(r, s) => Cardinality(Below(S, r)) < Cardinality(Below(S, s))
  <2> SUFFICES ASSUME NEW r \in S, NEW s \in S, Before(r, s)
               PROVE  Cardinality(Below(S, r)) < Cardinality(Below(S, s))
    OBVIOUS
  <2>1. Below(S, r) \cup {r} \subseteq Below(S, s)
    BY <1>2 DEF Below
  <2>2. Below(S, s) \in SUBSET S
    BY DEF Below
  <2> QED BY <1>1, <1>3, <2>1, <2>2
<1>5. \A r \in S : Cardinality(Below(S, r)) = Cardinality(Below(S, p)) => r = p
  <2> TAKE r \in S
  <2>1. r # p => Before(r, p) \/ Before(p, r)
    BY <1>2
  <2>2. /\ Before(r, p) => Cardinality(Below(S, r)) < Cardinality(Below(S, p))
        /\ Before(p, r) => Cardinality(Below(S, p)) < Cardinality(Below(S, r))
    BY <1>4
  <2>3. Cardinality(Below(S, r)) \in Nat /\ Cardinality(Below(S, p)) \in Nat
    BY <1>1
  <2> QED BY <2>1, <2>2, <2>3
<1>6. Cardinality(Below(S, p)) < Cardinality(S) /\ Cardinality(S) \in Nat
  <2>1. Below(S, p) \cup {p} \subseteq S
    BY DEF Below
  <2> QED BY <1>3, <2>1, FS_CardinalityType
<1>7. Nth(S, Cardinality(Below(S, p)) + 1) = p
  <2> DEFINE k == Cardinality(Below(S, p)) + 1
  <2>1. Cardinality(Below(S, p)) = k - 1
    BY <1>1
  <2>2. \A r \in S : Cardinality(Below(S, r)) = k - 1 <=> r = p
    BY <1>5, <2>1
  <2> HIDE DEF k
  <2>3. Nth(S, k) = p
    BY <2>2, NthIs
  <2> QED BY <2>3 DEF k
<1> QED BY <1>1, <1>6, <1>7

\* The place of an entry of the history in the file of its segment.
PlaceIn(p) == CHOOSE q \in Nat : AtPlace(p, q)

PlaceOf(p) == <<log[p].seg, PlaceIn(p)>>

PlacesOf(K) == {PlaceOf(p) : p \in K}

\* It is the one place of the entry, and places are read in the order of the
\* entries.
LEMMA PlacesInOrder ==
    ASSUME ArchiveInv, StoredInOrder
    PROVE  /\ \A p \in DOMAIN log : AtPlace(p, PlaceIn(p)) /\ PlaceOf(p) \in Nat \X Nat
           /\ \A p \in DOMAIN log : \A q \in Nat : AtPlace(p, q) => q = PlaceIn(p)
           /\ \A p, r \in DOMAIN log : p < r <=> Before(PlaceOf(p), PlaceOf(r))
           /\ \A p, r \in DOMAIN log : PlaceOf(p) = PlaceOf(r) => p = r
<1>1. DOMAIN log = 1 .. Len(log) /\ Len(log) \in Nat
      /\ \A p \in DOMAIN log : p \in Nat /\ log[p].seg \in Nat
  BY LogType DEF LogShape
<1>2. ASSUME NEW p \in DOMAIN log PROVE PlaceIn(p) \in Nat /\ AtPlace(p, PlaceIn(p))
  <2>1. \E q \in Nat : AtPlace(p, q)
    BY DEF StoredInOrder
  <2> HIDE DEF AtPlace
  <2> QED BY <2>1 DEF PlaceIn
<1>3. \A p, r \in DOMAIN log : \A q, s \in Nat :
          AtPlace(p, q) /\ AtPlace(r, s) => (p < r <=> ReadBefore(p, q, r, s))
  BY DEF StoredInOrder
<1>4. ASSUME NEW p \in DOMAIN log, NEW q \in Nat, AtPlace(p, q) PROVE q = PlaceIn(p)
  <2>1. ~ ReadBefore(p, q, p, PlaceIn(p)) /\ ~ ReadBefore(p, PlaceIn(p), p, q)
    <3>1. ~(p < p)
      BY <1>1
    <3> QED BY <1>2, <1>3, <1>4, <3>1
  <2> QED BY <1>1, <1>2, <2>1 DEF ReadBefore
<1>5. ASSUME NEW p \in DOMAIN log, NEW r \in DOMAIN log
      PROVE  p < r <=> Before(PlaceOf(p), PlaceOf(r))
  <2>1. p < r <=> ReadBefore(p, PlaceIn(p), r, PlaceIn(r))
    BY <1>2, <1>3
  <2> QED BY <2>1 DEF ReadBefore, Before, PlaceOf
<1>6. ASSUME NEW p \in DOMAIN log, NEW r \in DOMAIN log, PlaceOf(p) = PlaceOf(r) PROVE p = r
  <2>1. log[p].seg = log[r].seg /\ PlaceIn(p) = PlaceIn(r)
    BY <1>6 DEF PlaceOf
  <2>2. ~ Before(PlaceOf(p), PlaceOf(r)) /\ ~ Before(PlaceOf(r), PlaceOf(p))
    BY <1>1, <1>2, <2>1 DEF Before, PlaceOf
  <2> QED BY <1>1, <1>5, <2>2
<1>7. \A p \in DOMAIN log : PlaceOf(p) \in Nat \X Nat
  BY <1>1, <1>2 DEF PlaceOf
<1> QED BY <1>2, <1>4, <1>5, <1>6, <1>7

\* A set of entries, as it is read at their places: as many records, and each at
\* the number of the entries up to its own.
LEMMA ReadEntries ==
    ASSUME ArchiveInv, StoredInOrder, NEW dir, NEW K \in SUBSET DOMAIN log, NEW S,
           S = PlacesOf(K),
           \A p \in K : At(dir, PlaceOf(p)) = Record(log[p].ts, "whole")
    PROVE  /\ IsFiniteSet(K) /\ Cardinality(K) \in Nat
           /\ DOMAIN ReadInOrder(dir, S) = 1 .. Cardinality(K)
           /\ Len(ReadInOrder(dir, S)) = Cardinality(K)
           /\ \A p \in K : /\ Cardinality(K \cap (1 .. p)) \in 1 .. Cardinality(K)
                           /\ ReadInOrder(dir, S)[Cardinality(K \cap (1 .. p))]
                                  = Record(log[p].ts, "whole")
<1> USE DEF PlacesOf
<1>1. /\ DOMAIN log = 1 .. Len(log) /\ Len(log) \in Nat
      /\ \A p \in K : p \in Nat \ {0} /\ p \in DOMAIN log
  BY LogType DEF LogShape
<1>2. IsFiniteSet(K) /\ Cardinality(K) \in Nat
  <2>1. IsFiniteSet(1 .. Len(log))
    BY <1>1, FS_Interval
  <2> QED BY <1>1, <2>1, FS_Subset, FS_CardinalityType
<1>3. /\ S \in SUBSET (Nat \X Nat)
      /\ \A p, r \in K : p < r <=> Before(PlaceOf(p), PlaceOf(r))
      /\ \A p, r \in K : PlaceOf(p) = PlaceOf(r) => p = r
  BY <1>1, PlacesInOrder
<1>4. ASSUME NEW T \in SUBSET K
      PROVE  /\ IsFiniteSet({PlaceOf(p) : p \in T})
             /\ Cardinality({PlaceOf(p) : p \in T}) = Cardinality(T)
  <2> DEFINE f == [p \in T |-> PlaceOf(p)]
             I == {PlaceOf(p) : p \in T}
  <2>1. IsFiniteSet(T)
    BY <1>2, FS_Subset
  <2>2. f \in [T -> I] /\ (\A x \in I : \E p \in T : f[p] = x)
        /\ \A p, r \in T : f[p] = f[r] => p = r
    BY <1>3
  <2> HIDE DEF f, I
  <2>3. f \in Bijection(T, I)
    BY <2>2 DEF Bijection, Injection, Surjection, IsInjective
  <2>4. IsFiniteSet(I) /\ Cardinality(I) = Cardinality(T)
    BY <2>1, <2>3, FS_Bijection DEF ExistsBijection
  <2> QED BY <2>4 DEF I
<1>5. IsFiniteSet(S) /\ Cardinality(S) = Cardinality(K)
  BY <1>4
<1>6. /\ DOMAIN ReadInOrder(dir, S) = 1 .. Cardinality(K)
      /\ \A k \in 1 .. Cardinality(K) : ReadInOrder(dir, S)[k] = At(dir, Nth(S, k))
  BY <1>5 DEF ReadInOrder
<1>7. Len(ReadInOrder(dir, S)) = Cardinality(K)
  BY <1>2, <1>6
<1>8. ASSUME NEW p \in K
      PROVE  /\ Cardinality(K \cap (1 .. p)) \in 1 .. Cardinality(K)
             /\ ReadInOrder(dir, S)[Cardinality(K \cap (1 .. p))] = Record(log[p].ts, "whole")
  <2> DEFINE T == {r \in K : r < p}
  <2>1. IsFiniteSet(T) /\ Cardinality(T) \in Nat
    BY <1>2, FS_Subset, FS_CardinalityType
  <2>2. K \cap (1 .. p) = T \cup {p} /\ p \notin T
    BY <1>1
  <2>3. Cardinality(K \cap (1 .. p)) = Cardinality(T) + 1
    <3> HIDE DEF T
    <3> QED BY <2>1, <2>2, FS_AddElement
  <2>4. Below(S, PlaceOf(p)) = {PlaceOf(r) : r \in T}
    BY <1>3 DEF Below
  <2>5. Cardinality(Below(S, PlaceOf(p))) = Cardinality(T)
    BY <1>4, <2>4
  <2>6. PlaceOf(p) \in S
    OBVIOUS
  <2> HIDE DEF T
  <2>7. /\ Cardinality(T) + 1 \in 1 .. Cardinality(S)
        /\ Nth(S, Cardinality(T) + 1) = PlaceOf(p)
    BY <1>3, <1>5, <2>5, <2>6, NthPlace
  <2> QED BY <1>5, <1>6, <2>3, <2>7
<1> QED BY <1>2, <1>6, <1>7, <1>8

\* The places of one directory, or of both, are those of the entries in their
\* readable segments.
LEMMA PlacesOfEntries ==
    ASSUME ArchiveInv, StoredInOrder, NEW dir, DOMAIN dir \subseteq DOMAIN AllFiles,
           \A i \in DOMAIN dir : dir[i] = AllFiles[i]
    PROVE  /\ \A x \in Places(dir) : \E p \in DOMAIN log :
                 x = PlaceOf(p) /\ log[p].seg \in DOMAIN dir /\ Readable(dir[log[p].seg])
           /\ \A p \in DOMAIN log : log[p].seg \in DOMAIN dir /\ Readable(dir[log[p].seg]) =>
                 PlaceOf(p) \in Places(dir)
           /\ \A p \in DOMAIN log : log[p].seg \in DOMAIN dir =>
                 At(dir, PlaceOf(p)) = Record(log[p].ts, "whole")
<1>1. ASSUME NEW x \in Places(dir)
      PROVE  \E p \in DOMAIN log :
                 x = PlaceOf(p) /\ log[p].seg \in DOMAIN dir /\ Readable(dir[log[p].seg])
  <2>1. PICK i \in Recoverable(dir) :
           x \in {<<i, q>> : q \in {q \in DOMAIN dir[i].recs : dir[i].recs[q].part = "whole"}}
    BY DEF Places
  <2>2. PICK q \in DOMAIN dir[i].recs : x = <<i, q>> /\ dir[i].recs[q].part = "whole"
    BY <2>1
  <2>3. i \in DOMAIN dir /\ Readable(dir[i]) /\ dir[i] = AllFiles[i]
    BY <2>1 DEF Recoverable
  <2>4. PICK p \in DOMAIN log : log[p].seg = i /\ AtPlace(p, q)
    BY <2>2, <2>3 DEF StoredInOrder
  <2>5. q = PlaceIn(p)
    BY <2>4, PlaceType, PlacesInOrder
  <2> QED BY <2>2, <2>3, <2>4, <2>5 DEF PlaceOf
<1>2. ASSUME NEW p \in DOMAIN log, log[p].seg \in DOMAIN dir
      PROVE  /\ At(dir, PlaceOf(p)) = Record(log[p].ts, "whole")
             /\ Readable(dir[log[p].seg]) => PlaceOf(p) \in Places(dir)
  <2>1. AtPlace(p, PlaceIn(p)) /\ dir[log[p].seg] = AllFiles[log[p].seg]
    BY <1>2, PlacesInOrder
  <2>2. /\ PlaceIn(p) \in DOMAIN dir[log[p].seg].recs
        /\ dir[log[p].seg].recs[PlaceIn(p)] = Record(log[p].ts, "whole")
    BY <2>1 DEF AtPlace
  <2>3. At(dir, PlaceOf(p)) = Record(log[p].ts, "whole")
    BY <2>2 DEF At, PlaceOf
  <2>4. dir[log[p].seg].recs[PlaceIn(p)].part = "whole"
    BY <2>2 DEF Record
  <2>5. ASSUME Readable(dir[log[p].seg]) PROVE PlaceOf(p) \in Places(dir)
    <3>1. log[p].seg \in Recoverable(dir)
      BY <1>2, <2>5 DEF Recoverable
    <3> QED BY <2>2, <2>4, <3>1 DEF Places, PlaceOf
  <2> QED BY <2>3, <2>5
<1> QED BY <1>1, <1>2

\* What each recovery function reads is what the history has in its directories.
LEMMA PitrHolds ==
    ASSUME StoredInv
    PROVE  PitrIsComplete
<1> USE DEF StoredInv, LossInv
<1> SUFFICES ASSUME NEW target \in 0 .. MaxRecords
             PROVE  LET kept  == {p \in DOMAIN log :
                                     log[p].ts <= target /\ Readable(AllFiles[log[p].seg])}
                        found == recover_pitr(target)
                    IN  /\ Len(found) = Cardinality(kept)
                        /\ \A p \in kept : found[Cardinality(kept \cap (1 .. p))]
                                               = Record(log[p].ts, "whole")
  BY DEF PitrIsComplete
<1> DEFINE kept == {p \in DOMAIN log : log[p].ts <= target /\ Readable(AllFiles[log[p].seg])}
           S == {x \in Places(AllFiles) : At(AllFiles, x).ts <= target}
<1>1. \A p \in DOMAIN log : log[p].seg \in DOMAIN AllFiles
  BY DEF StoredInOrder, AtPlace
<1>2. /\ \A x \in Places(AllFiles) : \E p \in DOMAIN log :
            x = PlaceOf(p) /\ Readable(AllFiles[log[p].seg])
      /\ \A p \in DOMAIN log : Readable(AllFiles[log[p].seg]) => PlaceOf(p) \in Places(AllFiles)
      /\ \A p \in DOMAIN log : At(AllFiles, PlaceOf(p)) = Record(log[p].ts, "whole")
  BY <1>1, PlacesOfEntries
<1>3. \A p \in DOMAIN log : At(AllFiles, PlaceOf(p)).ts = log[p].ts
  BY <1>2 DEF Record
<1>4. S = PlacesOf(kept)
  BY <1>2, <1>3 DEF PlacesOf
<1>5. kept \in SUBSET DOMAIN log /\ \A p \in kept : At(AllFiles, PlaceOf(p)) = Record(log[p].ts, "whole")
  BY <1>2
<1>6. recover_pitr(target) = ReadInOrder(AllFiles, S)
  BY DEF recover_pitr
<1> HIDE DEF kept, S
<1>7. /\ Len(ReadInOrder(AllFiles, S)) = Cardinality(kept)
      /\ \A p \in kept : ReadInOrder(AllFiles, S)[Cardinality(kept \cap (1 .. p))]
                             = Record(log[p].ts, "whole")
  BY <1>4, <1>5, ReadEntries
<1> QED BY <1>6, <1>7 DEF kept

\* PitrIsComplete: recovery to a point in time returns every record that was
\* appended up to it and not lost, once and in the order of the appends, for any
\* threads, batches, sync mode, rotations, moves, crashes and reopens.
THEOREM PitrComplete == Spec => []PitrIsComplete
BY StoredInvariant, PitrHolds, PTL

\* What is in the archive is older than what is not.
ArchivedFirst == \A i \in DOMAIN archive : \A j \in DOMAIN wal_dir : i < j

\* A segment moves to the archive when all before it are there, whichever
\* thread moves it.
LEMMA ArchivedFirstStep ==
    ASSUME ArchiveInv, ArchivedFirst, ArchiveInv', [Next]_vars
    PROVE  ArchivedFirst'
<1> USE DEF ArchiveInv
<1>0. /\ DOMAIN wal_dir \cup DOMAIN archive = 1 .. current_segment
      /\ DOMAIN wal_dir \cap DOMAIN archive = {} /\ current_segment \in Nat
      /\ current_segment \in DOMAIN wal_dir
  BY Numbers DEF Placed, TypeOK
<1>1. CASE archive' = archive /\ DOMAIN wal_dir' \subseteq DOMAIN wal_dir
  BY <1>1 DEF ArchivedFirst
<1>2. ASSUME NEW t \in Threads, Rotate(t) PROVE ArchivedFirst'
  <2>1. current_segment + 1 \notin DOMAIN wal_dir
    BY Numbers DEF Placed
  <2>2. DOMAIN wal_dir' = DOMAIN wal_dir \cup {current_segment + 1} /\ archive' = archive
    BY <1>2, <2>1, RotateEffect DEF Current, Rotate
  <2> QED BY <1>0, <2>2 DEF ArchivedFirst
<1>3. ASSUME NEW t \in Threads, Rename(t) PROVE ArchivedFirst'
  <2>1. /\ next_id[t] \in DOMAIN wal_dir
        /\ DOMAIN wal_dir' = DOMAIN wal_dir \ {next_id[t]}
        /\ DOMAIN archive' = DOMAIN archive \cup {next_id[t]}
    BY <1>3, RenameEffect
  <2>2. \A i \in 1 .. current_segment : i < next_id[t] => i \in DOMAIN archive
    BY <1>3 DEF Rename, Goto, Archiving
  <2>3. ASSUME NEW j \in DOMAIN wal_dir' PROVE next_id[t] < j
    <3>1. j \in 1 .. current_segment /\ next_id[t] \in 1 .. current_segment
          /\ j # next_id[t] /\ j \notin DOMAIN archive
      BY <1>0, <2>1
    <3> QED BY <2>2, <3>1
  <2> QED BY <2>1, <2>3 DEF ArchivedFirst
<1>4. ASSUME NEW t \in Threads, FastAppend(t) \/ SlowAppend(t)
      PROVE  archive' = archive /\ DOMAIN wal_dir' = DOMAIN wal_dir
  BY <1>4 DEF FastAppend, SlowAppend, Write
<1>5. ASSUME Crash \/ Close
      PROVE  archive' = archive /\ DOMAIN wal_dir' = DOMAIN wal_dir
  BY <1>5 DEF Crash, Close, End
<1>6. CASE wal_dir' = [wal_dir EXCEPT ![current_segment] = Synced(@)] /\ archive' = archive
  BY <1>1, <1>6
<1> QED BY <1>1, <1>2, <1>3, <1>4, <1>5, <1>6, LogStep

\* With it, the invariant of what recovery reads.
THEOREM ArchivedFirstInvariant == Spec => []ArchivedFirst
<1>1. Init => ArchivedFirst
  <2>1. DOMAIN <<>> = {}
    OBVIOUS
  <2> QED BY <2>1 DEF Init, ArchivedFirst
<1>2. ArchivedFirst /\ ArchiveInv /\ ArchiveInv' /\ [Next]_vars => ArchivedFirst'
  BY ArchivedFirstStep
<1> QED BY <1>1, <1>2, ArchiveInvariant, PTL DEF Spec

\* In a finite set of positive numbers every number of elements up to one of
\* them occurs.
LEMMA EveryNumber ==
    ASSUME NEW K \in SUBSET (Nat \ {0}), IsFiniteSet(K), NEW k \in 1 .. Cardinality(K)
    PROVE  \E p \in K : Cardinality(K \cap (1 .. p)) = k
<1> DEFINE f == [p \in K |-> Cardinality(K \cap (1 .. p))]
           I == 1 .. Cardinality(K)
<1>1. Cardinality(K) \in Nat
  BY FS_CardinalityType
<1>2. ASSUME NEW p \in K
      PROVE  /\ IsFiniteSet(K \cap (1 .. p)) /\ p \in K \cap (1 .. p)
             /\ Cardinality(K \cap (1 .. p)) \in I
  <2> DEFINE T == K \cap (1 .. p)
  <2>1. T \in SUBSET K /\ p \in T
    OBVIOUS
  <2> HIDE DEF T
  <2>2. IsFiniteSet(T) /\ Cardinality(T) <= Cardinality(K) /\ Cardinality(T) \in Nat
    BY <2>1, FS_Subset, FS_CardinalityType
  <2>3. Cardinality(T) # 0
    BY <2>1, <2>2, FS_EmptySet
  <2> QED BY <1>1, <2>1, <2>2, <2>3 DEF T
<1>3. ASSUME NEW p \in K, NEW r \in K, p < r
      PROVE  Cardinality(K \cap (1 .. p)) # Cardinality(K \cap (1 .. r))
  <2>1. K \cap (1 .. p) \in SUBSET (K \cap (1 .. r))
    BY <1>3
  <2>2. r \notin K \cap (1 .. p) /\ r \in K \cap (1 .. r)
    BY <1>2, <1>3
  <2> QED BY <1>2, <2>1, <2>2, FS_Subset
<1>4. f \in [K -> I] /\ \A p, r \in K : f[p] = f[r] => p = r
  <2>1. \A p, r \in K : p # r => p < r \/ r < p
    OBVIOUS
  <2> QED BY <1>2, <1>3, <2>1
<1>5. IsFiniteSet(I) /\ Cardinality(I) = Cardinality(K)
  BY <1>1, FS_Interval
<1>6. f \in Injection(K, I)
  <2> HIDE DEF f, I
  <2> QED BY <1>4 DEF Injection, IsInjective
<1>7. f \in Surjection(K, I)
  <2> HIDE DEF f, I
  <2> QED BY <1>5, <1>6, FS_Injection
<1>8. \E p \in K : f[p] = k
  <2>1. k \in I
    OBVIOUS
  <2> HIDE DEF f, I
  <2> QED BY <1>7, <2>1 DEF Surjection
<1> QED BY <1>8

\* Two lists of entries, one of them of the last ones of the other.
LEMMA LastEntries ==
    ASSUME NEW V, NEW s \in Seq(V), NEW t \in Seq(V), NEW J \in SUBSET (Nat \ {0}),
           NEW K \in SUBSET J, IsFiniteSet(J), \A p \in J \ K : \A r \in K : p < r,
           Len(s) = Cardinality(K), Len(t) = Cardinality(J),
           \A p \in K : s[Cardinality(K \cap (1 .. p))] = t[Cardinality(J \cap (1 .. p))]
    PROVE  IsSuffix(s, t)
<1> DEFINE D == J \ K
           d == Cardinality(D)
           n == Cardinality(K)
<1>1. IsFiniteSet(K) /\ IsFiniteSet(D) /\ d \in Nat /\ n \in Nat
  BY FS_Subset, FS_CardinalityType
<1>2. ASSUME NEW T \in SUBSET K
      PROVE  Cardinality(D \cup T) = d + Cardinality(T)
  <2>1. IsFiniteSet(T) /\ Cardinality(T) \in Nat /\ D \cap T = {}
    BY <1>1, FS_Subset, FS_CardinalityType
  <2>2. Cardinality(D \cap T) = 0
    BY <2>1, FS_EmptySet
  <2> HIDE DEF D
  <2>3. Cardinality(D \cup T) = Cardinality(D) + Cardinality(T) - Cardinality(D \cap T)
    BY <1>1, <2>1, FS_Union
  <2> QED BY <1>1, <2>1, <2>2, <2>3
<1>3. Len(t) = d + n
  <2>1. J = D \cup K
    OBVIOUS
  <2> QED BY <1>2, <2>1
<1>4. ASSUME NEW k \in 1 .. n PROVE s[k] = t[d + k]
  <2>1. PICK p \in K : Cardinality(K \cap (1 .. p)) = k
    BY <1>1, EveryNumber
  <2>2. J \cap (1 .. p) = D \cup (K \cap (1 .. p))
    <3>1. \A x \in D : x \in 1 .. p
      OBVIOUS
    <3>2. \A x \in J : x \in D \/ x \in K
      OBVIOUS
    <3>3. \A x \in D : x \in J
      OBVIOUS
    <3> HIDE DEF D
    <3> QED BY <3>1, <3>2, <3>3
  <2>3. Cardinality(J \cap (1 .. p)) = d + k
    <3>1. K \cap (1 .. p) \in SUBSET K
      OBVIOUS
    <3> QED BY <1>2, <2>1, <2>2, <3>1
  <2> QED BY <2>1, <2>3
<1> HIDE DEF d, n
<1>5. Len(s) = n
  BY DEF n
<1> DEFINE a == Reverse(s)
           b == Reverse(t)
<1>6. /\ a \in Seq(V) /\ Len(a) = n /\ \A i \in 1 .. n : a[i] = s[n - i + 1]
      /\ b \in Seq(V) /\ Len(b) = Len(t) /\ \A i \in 1 .. Len(t) : b[i] = t[Len(t) - i + 1]
  <2>1. ASSUME NEW q \in Seq(V)
        PROVE  /\ Reverse(q) \in Seq(V) /\ Len(Reverse(q)) = Len(q)
               /\ \A i \in 1 .. Len(q) : Reverse(q)[i] = q[Len(q) - i + 1]
    <3>1. Len(q) \in Nat /\ \A i \in 1 .. Len(q) : q[i] \in V
      BY LenProperties, ElementOfSeq
    <3>2. \A i \in 1 .. Len(q) : Len(q) - i + 1 \in 1 .. Len(q)
      BY <3>1
    <3>3. Reverse(q) = [i \in 1 .. Len(q) |-> q[Len(q) - i + 1]]
      BY DEF Reverse
    <3>4. Reverse(q) \in [1 .. Len(q) -> V]
      BY <3>1, <3>2, <3>3
    <3> QED BY <3>1, <3>3, <3>4, LenProperties
  <2>2. /\ a \in Seq(V) /\ Len(a) = Len(s)
        /\ \A i \in 1 .. Len(s) : a[i] = s[Len(s) - i + 1]
    BY <2>1
  <2>3. /\ b \in Seq(V) /\ Len(b) = Len(t)
        /\ \A i \in 1 .. Len(t) : b[i] = t[Len(t) - i + 1]
    BY <2>1
  <2> HIDE DEF a, b
  <2>4. Len(a) = n /\ \A i \in 1 .. n : a[i] = s[n - i + 1]
    BY <1>5, <2>2
  <2> QED BY <2>2, <2>3, <2>4
<1> HIDE DEF a, b
<1>7. \A i \in 1 .. n : a[i] = b[i]
  <2> TAKE i \in 1 .. n
  <2>1. /\ n - i + 1 \in 1 .. n /\ i \in 1 .. Len(t)
        /\ Len(t) - i + 1 = d + (n - i + 1)
    BY <1>1, <1>3
  <2> QED BY <1>4, <1>6, <2>1
<1>8. SubSeq(a, 1, n) = SubSeq(b, 1, n)
  <2>1. \A i \in 1 .. n : a[i] \in V /\ b[i] \in V
    BY <1>6, <1>7, ElementOfSeq
  <2>2. /\ SubSeq(a, 1, n) \in Seq(V) /\ SubSeq(b, 1, n) \in Seq(V)
        /\ Len(SubSeq(a, 1, n)) = IF 1 <= n THEN n - 1 + 1 ELSE 0
        /\ Len(SubSeq(b, 1, n)) = IF 1 <= n THEN n - 1 + 1 ELSE 0
        /\ \A i \in 1 .. n - 1 + 1 : SubSeq(a, 1, n)[i] = a[1 + i - 1]
        /\ \A i \in 1 .. n - 1 + 1 : SubSeq(b, 1, n)[i] = b[1 + i - 1]
    BY <1>1, <2>1, SubSeqProperties
  <2>3. Len(SubSeq(a, 1, n)) = n /\ Len(SubSeq(b, 1, n)) = n
    BY <1>1, <2>2
  <2>4. ASSUME NEW i \in 1 .. n PROVE SubSeq(a, 1, n)[i] = SubSeq(b, 1, n)[i]
    BY <1>1, <1>7, <2>2, 1 + i - 1 = i, n - 1 + 1 = n
  <2> QED BY <2>2, <2>3, <2>4, SeqEqual
<1>9. n <= Len(b) /\ n = Len(a)
  BY <1>1, <1>3, <1>6
<1> QED BY <1>8, <1>9 DEF IsSuffix, IsPrefix, a, b

\* Recovery from a timestamp on reads the entries of wal_dir, which are the last
\* of all and have the segments to keep among them.
LEMMA RecentHolds ==
    ASSUME StoredInv, ArchivedFirst
    PROVE  RecentIsRecovered
<1> USE DEF StoredInv, LossInv, ArchiveInv
<1> SUFFICES ASSUME NEW min \in 0 .. MaxRecords
             PROVE  LET found == recover_from_timestamp(min)
                        all   == {x \in Places(AllFiles) : At(AllFiles, x).ts >= min}
                    IN  /\ IsSuffix(found, ReadInOrder(AllFiles, all))
                        /\ \A e \in Range(log) :
                              /\ e.ts >= min
                              /\ e.seg + min_segments_to_keep >= current_segment
                              /\ Readable(AllFiles[e.seg])
                              => e.ts \in Timestamps(found)
  BY DEF RecentIsRecovered
<1> DEFINE all   == {x \in Places(AllFiles) : At(AllFiles, x).ts >= min}
           here  == {x \in Places(wal_dir) : At(wal_dir, x).ts >= min}
           J == {p \in DOMAIN log : log[p].ts >= min /\ Readable(AllFiles[log[p].seg])}
           K == {p \in J : log[p].seg \in DOMAIN wal_dir}
           found == ReadInOrder(wal_dir, here)
           total == ReadInOrder(AllFiles, all)
<1>1. recover_from_timestamp(min) = found
  BY DEF recover_from_timestamp
<1>2. /\ DOMAIN log = 1 .. Len(log) /\ Len(log) \in Nat
      /\ \A p \in DOMAIN log : p \in Nat \ {0} /\ log[p].seg \in Nat /\ log[p].ts \in 1 .. MaxRecords
  BY LogType DEF LogShape
<1>3. \A p \in DOMAIN log : log[p].seg \in DOMAIN AllFiles
  BY DEF StoredInOrder, AtPlace
<1>4. /\ DOMAIN AllFiles = DOMAIN wal_dir \cup DOMAIN archive
      /\ \A i \in DOMAIN wal_dir : wal_dir[i] = AllFiles[i]
  BY FilesOfBoth DEF BothDirectories
<1>5. \A r, ts : r = Record(ts, "whole") => r.ts = ts
  BY DEF Record
<1>6. all = PlacesOf(J) /\ \A p \in J : At(AllFiles, PlaceOf(p)) = Record(log[p].ts, "whole")
  <2>1. /\ \A x \in Places(AllFiles) : \E p \in DOMAIN log :
              x = PlaceOf(p) /\ Readable(AllFiles[log[p].seg])
        /\ \A p \in DOMAIN log : Readable(AllFiles[log[p].seg]) =>
              PlaceOf(p) \in Places(AllFiles)
        /\ \A p \in DOMAIN log : At(AllFiles, PlaceOf(p)) = Record(log[p].ts, "whole")
    BY <1>3, PlacesOfEntries
  <2>2. \A p \in DOMAIN log : At(AllFiles, PlaceOf(p)).ts = log[p].ts
    BY <1>5, <2>1
  <2> QED BY <2>1, <2>2 DEF PlacesOf
<1>7. here = PlacesOf(K) /\ \A p \in K : At(wal_dir, PlaceOf(p)) = Record(log[p].ts, "whole")
  <2>1. /\ \A x \in Places(wal_dir) : \E p \in DOMAIN log :
              /\ x = PlaceOf(p) /\ log[p].seg \in DOMAIN wal_dir
              /\ Readable(wal_dir[log[p].seg])
        /\ \A p \in DOMAIN log :
              log[p].seg \in DOMAIN wal_dir /\ Readable(wal_dir[log[p].seg]) =>
                  PlaceOf(p) \in Places(wal_dir)
        /\ \A p \in DOMAIN log : log[p].seg \in DOMAIN wal_dir =>
              At(wal_dir, PlaceOf(p)) = Record(log[p].ts, "whole")
    <3>1. DOMAIN wal_dir \subseteq DOMAIN AllFiles
      BY <1>4
    <3> QED BY <1>4, <3>1, PlacesOfEntries
  <2>2. \A p \in DOMAIN log : log[p].seg \in DOMAIN wal_dir =>
            /\ At(wal_dir, PlaceOf(p)).ts = log[p].ts
            /\ wal_dir[log[p].seg] = AllFiles[log[p].seg]
    BY <1>4, <1>5, <2>1
  <2>3. \A x \in here : \E p \in K : x = PlaceOf(p)
    BY <2>1, <2>2
  <2>4. \A p \in K : PlaceOf(p) \in here /\ At(wal_dir, PlaceOf(p)) = Record(log[p].ts, "whole")
    BY <2>1, <2>2
  <2> HIDE DEF here, K
  <2> QED BY <2>3, <2>4 DEF PlacesOf
<1>8. J \in SUBSET DOMAIN log /\ K \in SUBSET J /\ K \in SUBSET DOMAIN log
  OBVIOUS
<1>9. \A p \in J \ K : \A r \in K : p < r
  <2> TAKE p \in J \ K
  <2> TAKE r \in K
  <2>1. p \in DOMAIN log /\ r \in DOMAIN log
    BY <1>8
  <2>2. log[p].seg \in DOMAIN archive /\ log[r].seg \in DOMAIN wal_dir
    BY <1>3, <1>4, <2>1
  <2>3. log[p].seg < log[r].seg
    BY <2>2 DEF ArchivedFirst
  <2>4. Before(PlaceOf(p), PlaceOf(r))
    BY <2>3 DEF Before, PlaceOf
  <2> QED BY <2>1, <2>4, PlacesInOrder
<1>10. \A e \in Range(log) :
          /\ e.ts >= min
          /\ e.seg + min_segments_to_keep >= current_segment
          /\ Readable(AllFiles[e.seg])
          => \E p \in K : e = log[p]
  <2> SUFFICES ASSUME NEW e \in Range(log), e.ts >= min,
                      e.seg + min_segments_to_keep >= current_segment,
                      Readable(AllFiles[e.seg])
               PROVE  \E p \in K : e = log[p]
    OBVIOUS
  <2>1. PICK p \in DOMAIN log : e = log[p]
    BY DEF Range
  <2>2. log[p].seg \notin DOMAIN archive
    <3> SUFFICES ASSUME log[p].seg \in DOMAIN archive PROVE FALSE
      OBVIOUS
    <3>1. log[p].seg + min_segments_to_keep < current_segment
      BY DEF Placed
    <3>2. log[p].seg \in Nat
      BY <1>2
    <3> QED BY <2>1, <3>1, <3>2, Numbers
  <2>3. p \in K
    BY <1>3, <1>4, <2>1, <2>2
  <2> QED BY <2>1, <2>3
<1> HIDE DEF J, K, all, here
<1>11. /\ IsFiniteSet(J) /\ Cardinality(J) \in Nat /\ DOMAIN total = 1 .. Cardinality(J)
       /\ Len(total) = Cardinality(J)
       /\ \A p \in J : /\ Cardinality(J \cap (1 .. p)) \in 1 .. Cardinality(J)
                       /\ total[Cardinality(J \cap (1 .. p))] = Record(log[p].ts, "whole")
  BY <1>6, <1>8, ReadEntries
<1>12. /\ IsFiniteSet(K) /\ Cardinality(K) \in Nat /\ DOMAIN found = 1 .. Cardinality(K)
       /\ Len(found) = Cardinality(K)
       /\ \A p \in K : /\ Cardinality(K \cap (1 .. p)) \in 1 .. Cardinality(K)
                       /\ found[Cardinality(K \cap (1 .. p))] = Record(log[p].ts, "whole")
  BY <1>7, <1>8, ReadEntries
<1> HIDE DEF found, total
<1>13. J \in SUBSET (Nat \ {0}) /\ K \in SUBSET (Nat \ {0})
       /\ \A p \in J : Record(log[p].ts, "whole") \in Records
  <2>1. \A p \in J : log[p].ts \in 1 .. MaxRecords
    BY <1>2, <1>8
  <2>2. \A ts \in 1 .. MaxRecords : Record(ts, "whole") \in Records
    BY DEF Record, Records
  <2> QED BY <1>2, <1>8, <2>1, <2>2
<1>14. found \in Seq(Records) /\ total \in Seq(Records)
  <2>1. \A k \in 1 .. Cardinality(J) : total[k] \in Records
    <3> TAKE k \in 1 .. Cardinality(J)
    <3>1. PICK p \in J : Cardinality(J \cap (1 .. p)) = k
      BY <1>11, <1>13, EveryNumber
    <3> QED BY <1>11, <1>13, <3>1
  <2>2. \A k \in 1 .. Cardinality(K) : found[k] \in Records
    <3> TAKE k \in 1 .. Cardinality(K)
    <3>1. PICK p \in K : Cardinality(K \cap (1 .. p)) = k
      BY <1>12, <1>13, EveryNumber
    <3> QED BY <1>8, <1>12, <1>13, <3>1
  <2>3. /\ found = [k \in DOMAIN found |-> found[k]]
        /\ total = [k \in DOMAIN total |-> total[k]]
    BY DEF found, total, ReadInOrder
  <2>4. /\ found \in [1 .. Cardinality(K) -> Records]
        /\ total \in [1 .. Cardinality(J) -> Records]
    BY <1>11, <1>12, <2>1, <2>2, <2>3
  <2>5. Cardinality(K) \in Nat /\ Cardinality(J) \in Nat
    BY <1>11, <1>12
  <2>6. \A n \in Nat : \A q \in [1 .. n -> Records] : q \in Seq(Records)
    OBVIOUS
  <2> QED BY <2>4, <2>5, <2>6
<1>15. IsSuffix(found, total)
  <2>1. ASSUME NEW p \in K
        PROVE  found[Cardinality(K \cap (1 .. p))] = total[Cardinality(J \cap (1 .. p))]
    <3>1. p \in J
      BY <1>8
    <3>2. found[Cardinality(K \cap (1 .. p))] = Record(log[p].ts, "whole")
      BY <1>12
    <3>3. total[Cardinality(J \cap (1 .. p))] = Record(log[p].ts, "whole")
      BY <1>11, <3>1
    <3> QED BY <3>2, <3>3
  <2>2. IsFiniteSet(J) /\ Len(found) = Cardinality(K) /\ Len(total) = Cardinality(J)
    BY <1>11, <1>12
  <2>3. J \in SUBSET (Nat \ {0}) /\ K \in SUBSET J
    BY <1>8, <1>13
  <2> QED BY <1>9, <1>14, <2>1, <2>2, <2>3, LastEntries
<1>16. ASSUME NEW p \in K PROVE log[p].ts \in Timestamps(found)
  <2> DEFINE k == Cardinality(K \cap (1 .. p))
  <2>1. k \in DOMAIN found /\ found[k] = Record(log[p].ts, "whole")
    BY <1>12
  <2> HIDE DEF k
  <2>2. found[k].ts = log[p].ts
    BY <1>5, <2>1
  <2> QED BY <2>1, <2>2 DEF Timestamps
<1>17. \A e \in Range(log) :
          /\ e.ts >= min
          /\ e.seg + min_segments_to_keep >= current_segment
          /\ Readable(AllFiles[e.seg])
          => e.ts \in Timestamps(found)
  BY <1>10, <1>16
<1>18. IsSuffix(found, ReadInOrder(AllFiles, {x \in Places(AllFiles) : At(AllFiles, x).ts >= min}))
  BY <1>15 DEF total, all
<1> QED BY <1>1, <1>17, <1>18

\* RecentIsRecovered: recovery from a timestamp on, which does not look into the
\* archive, returns the end of what both directories hold, with all records of
\* the segments to keep.
THEOREM RecentRecovered == Spec => []RecentIsRecovered
BY StoredInvariant, ArchivedFirstInvariant, RecentHolds, PTL
=============================================================================
