----------------------------- MODULE LsmProofs ------------------------------
(***************************************************************************)
(* Proofs about Lsm, for any keys, batches, limits and number of crashes.  *)
(***************************************************************************)
EXTENDS Lsm, FiniteSetTheorems, SequenceTheorems, WellFoundedInduction, TLAPS

\* The names MANIFEST gives are 1, 2, 3 ..., tables and logs each.
Numbered(ids) == \A i \in DOMAIN ids : ids[i] = i

\* No two entries of a memtable have the same key and timestamp.
OneEach(S) == \A e, f \in S : SameVersion(e, f) => e = f

-----------------------------------------------------------------------------
(***************************************************************************)
(* Operators.                                                              *)
(***************************************************************************)

\* Manifest::load finds the number after the last.
LEMMA NextIdIs ==
    ASSUME NEW S \in SUBSET Nat, NEW ids \in Seq(S), Numbered(ids)
    PROVE  NextId(ids) = Len(ids) + 1
<1> DEFINE all == {1} \cup {id + 1 : id \in Range(ids)}
           n   == Len(ids) + 1
<1>1. n \in Nat /\ DOMAIN ids = 1 .. Len(ids) /\ Len(ids) \in Nat
  BY LenProperties
<1>2. Range(ids) = 1 .. Len(ids)
  BY <1>1 DEF Range, Numbered
<1>3. n \in all
  BY <1>1, <1>2
<1>4. \A x \in all : x \in Nat /\ x <= n
  BY <1>1, <1>2
<1>5. Max(all) = CHOOSE x \in all : \A y \in all : x >= y
  BY DEF Max
<1> HIDE DEF all
<1>6. \A x \in all : (\A y \in all : x >= y) => x = n
  BY <1>1, <1>3, <1>4
<1>7. \A y \in all : n >= y
  BY <1>1, <1>4
<1>8. (CHOOSE x \in all : \A y \in all : x >= y) = n
  BY <1>3, <1>6, <1>7
<1> QED BY <1>5, <1>8 DEF NextId, all

\* How many entries come before e in the order of keys.
Rank(S, e) == Cardinality({f \in S : KeyLess(f, e)})

\* Key::cmp orders the entries of a memtable strictly, so each has a rank of its
\* own and each rank is taken.
LEMMA RanksTaken ==
    ASSUME NEW S \in SUBSET Entries, IsFiniteSet(S), OneEach(S), Keys \subseteq Nat
    PROVE  /\ Cardinality(S) \in Nat
           /\ \A e \in S : Rank(S, e) \in 0 .. Cardinality(S) - 1
           /\ \A e, f \in S : Rank(S, e) = Rank(S, f) => e = f
           /\ \A r \in 0 .. Cardinality(S) - 1 : \E e \in S : Rank(S, e) = r
<1> DEFINE n == Cardinality(S)
           below(e) == {f \in S : KeyLess(f, e)}
           ranks == 0 .. n - 1
           rank  == [e \in S |-> Rank(S, e)]
<1>1. n \in Nat
  BY FS_CardinalityType
<1>2. \A e, f, g \in S : /\ ~KeyLess(e, e)
                         /\ KeyLess(e, f) /\ KeyLess(f, g) => KeyLess(e, g)
                         /\ e # f => KeyLess(e, f) \/ KeyLess(f, e)
  <2>1. \A e \in S : e.key \in Nat /\ e.ts \in Nat
    BY DEF Entries
  <2> QED BY <2>1 DEF KeyLess, OneEach, SameVersion
<1>3. \A e \in S : IsFiniteSet(below(e)) /\ Cardinality(below(e)) \in Nat
  <2> TAKE e \in S
  <2>1. below(e) \in SUBSET S
    OBVIOUS
  <2>2. IsFiniteSet(below(e))
    BY <2>1, FS_Subset
  <2> QED BY <2>2, FS_CardinalityType
<1>4. ASSUME NEW e \in S PROVE Rank(S, e) \in ranks
  <2>1. below(e) \in SUBSET S /\ e \notin below(e) /\ e \in S
    BY <1>2
  <2>2. Cardinality(below(e)) <= n /\ Cardinality(below(e)) # n
    BY <2>1, FS_Subset
  <2>3. Rank(S, e) = Cardinality(below(e)) /\ Cardinality(below(e)) \in Nat
    BY <1>3 DEF Rank
  <2> HIDE DEF below, n
  <2> QED BY <1>1, <2>2, <2>3
<1>5. ASSUME NEW e \in S, NEW f \in S, KeyLess(e, f) PROVE Rank(S, e) # Rank(S, f)
  <2>1. below(e) \in SUBSET below(f) /\ e \in below(f) /\ e \notin below(e)
    BY <1>2, <1>5
  <2>2. IsFiniteSet(below(f))
    BY <1>3
  <2>3. Cardinality(below(f)) # Cardinality(below(e))
    BY <2>1, <2>2, FS_Subset
  <2> QED BY <2>3 DEF Rank
<1>6. \A e, f \in S : Rank(S, e) = Rank(S, f) => e = f
  BY <1>2, <1>5
<1>7. IsFiniteSet(ranks) /\ Cardinality(ranks) = n
  <2>1. n - 1 \in Int /\ 0 \in Int /\ (0 > n - 1 <=> n = 0)
    BY <1>1
  <2> HIDE DEF n
  <2>2. Cardinality(0 .. n - 1) = IF 0 > n - 1 THEN 0 ELSE n - 1 - 0 + 1
    BY <2>1, FS_Interval
  <2> QED BY <1>1, <2>1, <2>2, FS_Interval
<1>8. rank \in Injection(S, ranks)
  BY <1>4, <1>6 DEF Injection, IsInjective
<1>9. rank \in Surjection(S, ranks)
  BY <1>7, <1>8, FS_Injection
<1>10. \A r \in ranks : \E e \in S : Rank(S, e) = r
  BY <1>9 DEF Surjection
<1> QED BY <1>1, <1>4, <1>6, <1>10

\* SSTableBuilder writes every entry of the memtable, and nothing else.
LEMMA TableHolds ==
    ASSUME NEW S \in SUBSET Entries, IsFiniteSet(S), OneEach(S), Keys \subseteq Nat
    PROVE  /\ BuildTable(S) \in Seq(Entries)
           /\ \A e \in S : \E i \in DOMAIN BuildTable(S) : BuildTable(S)[i].n = e.n
<1> DEFINE n  == Cardinality(S)
           at(i) == CHOOSE e \in S : Rank(S, e) = i - 1
           es == [i \in 1 .. n |-> at(i)]
<1>1. n \in Nat
  BY RanksTaken
<1>2. InKeyOrder(S) = es
  BY DEF InKeyOrder, Rank
<1>3. \A i \in 1 .. n : at(i) \in S
  <2> TAKE i \in 1 .. n
  <2>1. i - 1 \in 0 .. n - 1
    BY <1>1
  <2>2. \E e \in S : Rank(S, e) = i - 1
    BY <2>1, RanksTaken
  <2> QED BY <2>2
<1>4. ASSUME NEW e \in S PROVE \E i \in 1 .. n : at(i) = e
  <2>1. Rank(S, e) \in 0 .. n - 1
    BY RanksTaken
  <2> DEFINE i == Rank(S, e) + 1
  <2>2. i \in 1 .. n /\ i - 1 = Rank(S, e)
    BY <1>1, <2>1
  <2> HIDE DEF i
  <2>3. \A f \in S : Rank(S, f) = i - 1 => f = e
    BY <2>2, RanksTaken
  <2>4. at(i) = e
    BY <2>2, <2>3
  <2> QED BY <2>2, <2>4
<1> HIDE DEF at
<1>5. BuildTable(S) = [i \in 1 .. n |-> [at(i) EXCEPT !.ts = 0]]
  BY <1>2 DEF BuildTable
<1>6. \A e \in S : [e EXCEPT !.ts = 0] \in Entries /\ [e EXCEPT !.ts = 0].n = e.n
  BY DEF Entries
<1>7. \A i \in 1 .. n : [at(i) EXCEPT !.ts = 0] \in Entries
  BY <1>3, <1>6
<1>8. BuildTable(S) \in Seq(Entries)
  BY <1>1, <1>5, <1>7
<1>9. DOMAIN BuildTable(S) = 1 .. n /\ \A i \in 1 .. n : BuildTable(S)[i].n = at(i).n
  BY <1>3, <1>5, <1>6
<1> QED BY <1>4, <1>8, <1>9

\* The values of a function on a finite set are finitely many.
LEMMA FiniteImage ==
    ASSUME NEW S, IsFiniteSet(S), NEW f, DOMAIN f = S, f = [x \in S |-> f[x]]
    PROVE  IsFiniteSet({f[x] : x \in S})
<1> DEFINE T == {f[x] : x \in S}
<1>1. f \in [S -> T]
  OBVIOUS
<1>2. f \in Surjection(S, T)
  BY <1>1 DEF Surjection
<1> QED BY <1>2, FS_Surjection

\* put and delete leave one entry for each version.
LEMMA InsertAllType ==
    ASSUME NEW mt \in SUBSET Entries, IsFiniteSet(mt), OneEach(mt), NEW es \in Seq(Entries)
    PROVE  /\ InsertAll(mt, es) \in SUBSET Entries
           /\ IsFiniteSet(InsertAll(mt, es)) /\ OneEach(InsertAll(mt, es))
<1> DEFINE old  == {e \in mt : \A i \in DOMAIN es : ~SameVersion(es[i], e)}
           last == {j \in DOMAIN es : \A l \in j + 1 .. Len(es) : ~SameVersion(es[l], es[j])}
           new  == {es[i] : i \in last}
           all  == {es[i] : i \in DOMAIN es}
<1>1. DOMAIN es = 1 .. Len(es) /\ Len(es) \in Nat /\ es = [i \in DOMAIN es |-> es[i]]
      /\ \A i \in DOMAIN es : es[i] \in Entries
  BY LenProperties
<1>2. InsertAll(mt, es) = old \cup new
  BY DEF InsertAll
<1>3. IsFiniteSet(all)
  <2>1. IsFiniteSet(1 .. Len(es))
    BY <1>1, FS_Interval
  <2>2. IsFiniteSet(DOMAIN es)
    BY <1>1, <2>1
  <2> QED BY <1>1, <2>2, FiniteImage
<1>4. IsFiniteSet(old) /\ IsFiniteSet(new)
  <2>1. old \in SUBSET mt /\ new \in SUBSET all
    OBVIOUS
  <2> QED BY <1>3, <2>1, FS_Subset
<1>5. IsFiniteSet(old \cup new)
  BY <1>4, FS_Union
<1>6. \A e, f \in old \cup new : SameVersion(e, f) => e = f
  <2>1. \A i, j \in last : SameVersion(es[i], es[j]) => i = j
    <3> SUFFICES ASSUME NEW i \in last, NEW j \in last, SameVersion(es[i], es[j])
                 PROVE  i = j
      OBVIOUS
    <3>1. i \in 1 .. Len(es) /\ j \in 1 .. Len(es)
      BY <1>1
    <3>2. ~(j > i)
      BY <1>1, <3>1 DEF SameVersion
    <3>3. ~(i > j)
      BY <1>1, <3>1
    <3> QED BY <1>1, <3>1, <3>2, <3>3
  <2>2. \A e, f \in old : SameVersion(e, f) => e = f
    BY DEF OneEach
  <2>3. \A e \in old, i \in last : ~SameVersion(es[i], e) /\ ~SameVersion(e, es[i])
    BY DEF SameVersion
  <2> HIDE DEF old, last
  <2> QED BY <2>1, <2>2, <2>3
<1>7. old \cup new \in SUBSET Entries
  BY <1>1
<1> QED BY <1>2, <1>5, <1>6, <1>7 DEF OneEach

\* So does the recovery of the listed logs.
LEMMA RecoveredType ==
    ASSUME TypeOK, 1 .. NextId(manifest.WAL) - 1 \subseteq WalIds, NextId(manifest.WAL) \in Nat
    PROVE  /\ Recovered \in SUBSET Entries /\ Cardinality(Replayed) \in Nat
           /\ IsFiniteSet(Recovered) /\ OneEach(Recovered)
<1> DEFINE logs  == 1 .. NextId(manifest.WAL) - 1
           last  == {q \in Replayed : \A r \in Replayed :
                         ReplayedAfter(r, q) => ~SameVersion(RecordAt(r), RecordAt(q))}
           part(i) == {i} \X DOMAIN wal_files[i].recs
           all   == {RecordAt(p) : p \in Replayed}
<1>1. \A i \in logs : /\ i \in Nat /\ wal_files[i].recs \in Seq(Entries)
                      /\ Len(wal_files[i].recs) \in Nat
                      /\ DOMAIN wal_files[i].recs = 1 .. Len(wal_files[i].recs)
  <2> TAKE i \in logs
  <2>1. i \in WalIds /\ i \in Nat
    OBVIOUS
  <2>2. wal_files[i].recs \in Seq(Entries)
    BY <2>1 DEF TypeOK, Logs
  <2> QED BY <2>1, <2>2, LenProperties
<1>2. \A p \in Replayed : /\ p[1] \in logs /\ p[2] \in 1 .. Len(wal_files[p[1]].recs)
                          /\ p = <<p[1], p[2]>> /\ p[1] \in Nat /\ p[2] \in Nat
  <2>1. Replayed = UNION {part(i) : i \in logs}
    BY DEF Replayed
  <2>2. ASSUME NEW p \in Replayed
        PROVE  \E i \in logs : p \in {i} \X DOMAIN wal_files[i].recs
    BY <2>1
  <2> HIDE DEF logs
  <2> QED BY <1>1, <2>2
<1>3. IsFiniteSet(Replayed)
  <2> DEFINE f == [i \in logs |-> part(i)]
  <2>1. IsFiniteSet(logs)
    BY FS_Interval
  <2>2. \A i \in logs : IsFiniteSet(part(i))
    <3> TAKE i \in logs
    <3>0. 1 \in Int /\ Len(wal_files[i].recs) \in Int
      BY <1>1
    <3>1. IsFiniteSet(1 .. Len(wal_files[i].recs))
      BY <3>0, FS_Interval
    <3>2. IsFiniteSet({i})
      BY FS_Singleton
    <3> QED BY <1>1, <3>1, <3>2, FS_Product
  <2>3. IsFiniteSet({f[i] : i \in logs})
    <3>1. DOMAIN f = logs /\ f = [i \in logs |-> f[i]]
      OBVIOUS
    <3> HIDE DEF f, logs
    <3> QED BY <2>1, <3>1, FiniteImage
  <2>4. \A T \in {f[i] : i \in logs} : IsFiniteSet(T)
    BY <2>2
  <2>5. IsFiniteSet(UNION {f[i] : i \in logs})
    BY <2>3, <2>4, FS_UNION
  <2>6. Replayed = UNION {f[i] : i \in logs}
    BY DEF Replayed
  <2> QED BY <2>5, <2>6
<1>4. \A p \in Replayed : RecordAt(p) \in Entries
  BY <1>1, <1>2 DEF RecordAt
<1>5. Recovered = {RecordAt(p) : p \in last}
  BY DEF Recovered
<1>6. IsFiniteSet(Recovered)
  <2> DEFINE f == [p \in Replayed |-> RecordAt(p)]
  <2>1. DOMAIN f = Replayed /\ f = [p \in Replayed |-> f[p]]
    OBVIOUS
  <2>2. IsFiniteSet({f[p] : p \in Replayed})
    <3> HIDE DEF f
    <3> QED BY <1>3, <2>1, FiniteImage
  <2>3. Recovered \in SUBSET {f[p] : p \in Replayed}
    BY <1>5
  <2> QED BY <2>2, <2>3, FS_Subset
<1>7. OneEach(Recovered)
  <2> SUFFICES ASSUME NEW p \in last, NEW q \in last, SameVersion(RecordAt(p), RecordAt(q))
               PROVE  p = q
    BY <1>5 DEF OneEach
  <2>1. SameVersion(RecordAt(q), RecordAt(p))
    BY DEF SameVersion
  <2>2. ~ReplayedAfter(p, q) /\ ~ReplayedAfter(q, p)
    BY <2>1
  <2>3. p[1] = q[1] /\ p[2] = q[2]
    BY <1>2, <2>2 DEF ReplayedAfter
  <2> QED BY <1>2, <2>3
<1> QED BY <1>3, <1>4, <1>5, <1>6, <1>7, FS_CardinalityType

-----------------------------------------------------------------------------
(***************************************************************************)
(* Types and names.                                                        *)
(***************************************************************************)

\* What the manifest in memory and on disk say of each other at each step, and
\* how many names there are: a log for each table, and one for each rotation
\* that a crash cut short.
Names ==
    /\ Numbered(manifest.SST) /\ Numbered(manifest.WAL)
    /\ Len(manifest.SST) <= MaxSsts
    /\ Len(manifest.WAL) <= Len(manifest.SST) + crashes +
           (IF pc \in {"create_wal", "write_sst", "list_sst"} THEN 1 ELSE 0)
    /\ pc = "create_wal" => manifest.WAL # <<>>
    /\ pc # "idle" => status = "up" /\ Len(manifest.SST) < MaxSsts
    /\ status = "up" =>
          /\ levels = manifest.SST
          /\ next_wal_id = Len(manifest.WAL) + 1 /\ wal_id <= next_wal_id
          /\ next_sst_id = Len(manifest.SST) + (IF pc = "list_sst" THEN 2 ELSE 1)

Memory == OneEach(memtable) /\ OneEach(imm)

\* The table that open reads holds the entry.
InListedTable(e) == \E i \in DOMAIN manifest.SST : InTable(e, manifest.SST[i])

\* The entry is in the synced part of a log that open reads and that the
\* rotation under way is not about to truncate.
InListedLog(e) ==
    \E i \in 1 .. Len(manifest.WAL) :
        /\ pc = "create_wal" => i < Len(manifest.WAL)
        /\ \E p \in 1 .. wal_files[i].synced : wal_files[i].recs[p] = e

\* Nothing safe is only in memory, in a BufWriter, or in a file that is about to
\* be truncated; and the table about to be listed is complete.
Kept ==
    /\ \A e \in safe : InListedTable(e) \/ InListedLog(e)
    /\ pc = "list_sst" => \A e \in imm : InTable(e, next_sst_id - 1)

LsmInv == TypeOK /\ Names /\ Memory /\ Kept

\* The numbers of the instance, and the next names by the lengths of the lists.
LEMMA NamesBounded ==
    ASSUME TypeOK, Names
    PROVE  /\ MaxSsts \in Nat /\ MaxSsts >= 1 /\ MaxCrashes \in Nat /\ crashes \in Nat
           /\ Len(manifest.SST) \in Nat /\ Len(manifest.WAL) \in Nat
           /\ DOMAIN manifest.SST = 1 .. Len(manifest.SST)
           /\ DOMAIN manifest.WAL = 1 .. Len(manifest.WAL)
           /\ NextId(manifest.SST) = Len(manifest.SST) + 1
           /\ NextId(manifest.WAL) = Len(manifest.WAL) + 1
           /\ Len(manifest.WAL) + 1 \in WalIds
           /\ 1 .. Len(manifest.WAL) \subseteq WalIds
<1>1. /\ MaxSsts \in Nat /\ MaxSsts >= 1 /\ MaxCrashes \in Nat
      /\ crashes \in Nat /\ crashes <= MaxCrashes
  BY LsmAssumption DEF TypeOK
<1>2. manifest.SST \in Seq(SstIds) /\ manifest.WAL \in Seq(WalIds)
  BY DEF TypeOK
<1>3. SstIds \in SUBSET Nat /\ WalIds \in SUBSET Nat
  BY <1>1 DEF SstIds, WalIds
<1>4. /\ NextId(manifest.SST) = Len(manifest.SST) + 1
      /\ NextId(manifest.WAL) = Len(manifest.WAL) + 1
  BY <1>2, <1>3, NextIdIs DEF Names
<1>5. /\ Len(manifest.SST) \in Nat /\ Len(manifest.WAL) \in Nat
      /\ DOMAIN manifest.SST = 1 .. Len(manifest.SST)
      /\ DOMAIN manifest.WAL = 1 .. Len(manifest.WAL)
  BY <1>2, LenProperties
<1>6. Len(manifest.WAL) <= MaxSsts + MaxCrashes
  <2>1. CASE pc \in {"create_wal", "write_sst", "list_sst"}
    <3>1. Len(manifest.SST) < MaxSsts /\ Len(manifest.WAL) <= Len(manifest.SST) + crashes + 1
      BY <2>1 DEF Names
    <3> QED BY <1>1, <1>5, <3>1
  <2>2. CASE pc \notin {"create_wal", "write_sst", "list_sst"}
    <3>1. Len(manifest.SST) <= MaxSsts /\ Len(manifest.WAL) <= Len(manifest.SST) + crashes + 0
      BY <2>2 DEF Names
    <3> QED BY <1>1, <1>5, <3>1
  <2> QED BY <2>1, <2>2
<1> QED BY <1>1, <1>4, <1>5, <1>6 DEF WalIds

\* The entries a request puts into the log and the memtable.
LEMMA EntriesType ==
    ASSUME TypeOK, NEW r \in pending
    PROVE  /\ EntriesOf(r) \in Seq(Entries) /\ Len(EntriesOf(r)) \in Nat
           /\ Range(EntriesOf(r)) \in SUBSET Entries /\ IsFiniteSet(Range(EntriesOf(r)))
<1> DEFINE es == EntriesOf(r)
<1>1. /\ r.ops \in Seq(Ops) /\ r.ts \in Nat /\ r.after \in Nat /\ crashes \in Nat
      /\ Cardinality(applied) \in Nat
  <2>1. r \in Requests /\ crashes \in 0 .. MaxCrashes /\ IsFiniteSet(applied)
    BY DEF TypeOK
  <2>2. r.ops \in Seq(Ops) /\ r.ts \in Nat /\ r.after \in Nat
    BY <2>1 DEF Requests
  <2>3. crashes \in Nat /\ Cardinality(applied) \in Nat
    BY <2>1, FS_CardinalityType, LsmAssumption
  <2> QED BY <2>2, <2>3
<1>2. DOMAIN r.ops = 1 .. Len(r.ops) /\ Len(r.ops) \in Nat
  BY <1>1, LenProperties
<1>3. \A i \in 1 .. Len(r.ops) : r.ops[i].key \in Keys /\ r.ops[i].live \in BOOLEAN
  <2>1. \A i \in 1 .. Len(r.ops) : r.ops[i] \in Ops
    BY <1>1
  <2> QED BY <2>1 DEF Ops
<1>4. \A i \in 1 .. Len(r.ops) : r.ts + i - 1 \in Nat /\ Cardinality(applied) + i \in Nat
  BY <1>1, <1>2
<1>5. es \in [1 .. Len(r.ops) -> Entries]
  BY <1>1, <1>2, <1>3, <1>4 DEF EntriesOf, Entries
<1>6. es \in Seq(Entries) /\ DOMAIN es = 1 .. Len(r.ops)
  BY <1>2, <1>5
<1>7. IsFiniteSet({es[i] : i \in DOMAIN es})
  <2>1. IsFiniteSet(1 .. Len(r.ops))
    BY <1>2, FS_Interval
  <2>2. es = [i \in DOMAIN es |-> es[i]]
    BY <1>5
  <2> HIDE DEF es
  <2> QED BY <1>6, <2>1, <2>2, FiniteImage
<1> HIDE DEF es
<1>8. Range(es) = {es[i] : i \in DOMAIN es}
  BY DEF Range
<1>9. Range(es) \in SUBSET Entries
  BY <1>5, <1>6, <1>8
<1> QED BY <1>6, <1>7, <1>8, <1>9, LenProperties DEF es

-----------------------------------------------------------------------------
(***************************************************************************)
(* The log files.                                                          *)
(***************************************************************************)

LogKept(i) ==
    /\ wal_files[i].synced <= wal_files'[i].synced
    /\ \A p \in 1 .. wal_files[i].synced : wal_files'[i].recs[p] = wal_files[i].recs[p]

\* Wal::create makes an empty log.
Truncated(i) ==
    \/ CreateWal /\ i = Len(manifest.WAL)
    \/ Open /\ i = Len(manifest.WAL) + 1

LogsOK == /\ wal_files \in [WalIds -> Logs]
          /\ \A i \in WalIds : wal_files[i].synced <= Len(wal_files[i].recs)

\* One log is replaced by one that has its synced part.
LEMMA OneLogReplaced ==
    ASSUME TypeOK, NEW i \in WalIds, NEW w \in Logs, wal_files' = [wal_files EXCEPT ![i] = w],
           w.synced <= Len(w.recs), wal_files[i].synced <= w.synced,
           \A p \in 1 .. wal_files[i].synced : w.recs[p] = wal_files[i].recs[p]
    PROVE  LogsOK' /\ \A j \in WalIds : LogKept(j)
<1>1. \A j \in WalIds : wal_files'[j] = IF j = i THEN w ELSE wal_files[j]
  BY DEF TypeOK
<1>2. \A j \in WalIds : wal_files[j].synced \in Nat /\ wal_files[j].synced <= wal_files[j].synced
  BY DEF TypeOK, Logs
<1>3. LogsOK'
  <2>1. wal_files' \in [WalIds -> Logs]
    BY DEF TypeOK
  <2> QED BY <1>1, <2>1 DEF LogsOK, TypeOK, WalIds
<1> QED BY <1>1, <1>2, <1>3 DEF LogKept

\* A log is started anew.
LEMMA OneLogEmptied ==
    ASSUME TypeOK, NEW i \in WalIds, wal_files' = [wal_files EXCEPT ![i] = EmptyWal]
    PROVE  LogsOK' /\ \A j \in WalIds : j # i => LogKept(j)
<1>1. EmptyWal \in Logs /\ EmptyWal.synced = 0 /\ EmptyWal.recs = <<>>
  BY DEF EmptyWal, Logs
<1>2. \A j \in WalIds : wal_files'[j] = IF j = i THEN EmptyWal ELSE wal_files[j]
  BY DEF TypeOK
<1>3. \A j \in WalIds : wal_files[j].synced \in Nat /\ wal_files[j].synced <= wal_files[j].synced
  BY DEF TypeOK, Logs
<1>4. LogsOK'
  <2>1. wal_files' \in [WalIds -> Logs]
    BY <1>1 DEF TypeOK
  <2>2. 0 <= Len(<<>>)
    OBVIOUS
  <2> QED BY <1>1, <1>2, <2>1, <2>2 DEF LogsOK, TypeOK, WalIds
<1> QED BY <1>2, <1>3, <1>4 DEF LogKept

\* The log that is written to, and what append, sync and a crash make of it.
LEMMA WrittenLogs ==
    ASSUME TypeOK
    PROVE  LET w == wal_files[wal_id]
           IN  /\ w \in Logs /\ w.recs \in Seq(Entries) /\ Len(w.recs) \in Nat
               /\ w.synced \in Nat /\ w.synced <= Len(w.recs)
               /\ \A es \in Seq(Entries) :
                     /\ [w EXCEPT !.recs = @ \o es] \in Logs
                     /\ [w EXCEPT !.recs = @ \o es].synced = w.synced
                     /\ w.synced <= Len([w EXCEPT !.recs = @ \o es].recs)
                     /\ \A p \in 1 .. w.synced : [w EXCEPT !.recs = @ \o es].recs[p] = w.recs[p]
               /\ /\ [w EXCEPT !.synced = Len(w.recs)] \in Logs
                  /\ [w EXCEPT !.synced = Len(w.recs)].synced = Len(w.recs)
                  /\ [w EXCEPT !.synced = Len(w.recs)].recs = w.recs
               /\ \A n \in w.synced .. Len(w.recs), torn \in BOOLEAN :
                     /\ CutWal(w, n, torn) \in Logs
                     /\ CutWal(w, n, torn).synced = n /\ Len(CutWal(w, n, torn).recs) = n
                     /\ \A p \in 1 .. n : CutWal(w, n, torn).recs[p] = w.recs[p]
<1> DEFINE w == wal_files[wal_id]
<1>1. w \in Logs /\ w.synced <= Len(w.recs)
  BY DEF TypeOK
<1> HIDE DEF w
<1>2. /\ w.recs \in Seq(Entries) /\ w.synced \in Nat /\ w.torn \in BOOLEAN
      /\ Len(w.recs) \in Nat /\ DOMAIN w.recs = 1 .. Len(w.recs)
      /\ \A p \in 1 .. Len(w.recs) : w.recs[p] \in Entries
  <2>1. w.recs \in Seq(Entries) /\ w.synced \in Nat /\ w.torn \in BOOLEAN
    BY <1>1 DEF Logs
  <2> QED BY <2>1, LenProperties
<1>3. ASSUME NEW es \in Seq(Entries)
      PROVE  /\ [w EXCEPT !.recs = @ \o es] \in Logs
             /\ [w EXCEPT !.recs = @ \o es].synced = w.synced
             /\ w.synced <= Len([w EXCEPT !.recs = @ \o es].recs)
             /\ \A p \in 1 .. w.synced : [w EXCEPT !.recs = @ \o es].recs[p] = w.recs[p]
  <2> DEFINE both == w.recs \o es
  <2>1. /\ both \in Seq(Entries) /\ Len(both) = Len(w.recs) + Len(es) /\ Len(es) \in Nat
        /\ \A i \in 1 .. Len(w.recs) + Len(es) :
              both[i] = IF i <= Len(w.recs) THEN w.recs[i] ELSE es[i - Len(w.recs)]
    BY <1>2, ConcatProperties, LenProperties
  <2>2. \A p \in 1 .. w.synced : p \in 1 .. Len(w.recs) + Len(es) /\ p <= Len(w.recs)
    BY <1>1, <1>2, <2>1
  <2> HIDE DEF both
  <2>3. /\ [w EXCEPT !.recs = both] \in Logs
        /\ [w EXCEPT !.recs = both].synced = w.synced
        /\ [w EXCEPT !.recs = both].recs = both
    BY <1>1, <2>1 DEF Logs
  <2>4. w.synced <= Len(both) /\ \A p \in 1 .. w.synced : both[p] = w.recs[p]
    BY <1>1, <1>2, <2>1, <2>2
  <2> QED BY <2>3, <2>4 DEF both
<1>4. /\ [w EXCEPT !.synced = Len(w.recs)] \in Logs
      /\ [w EXCEPT !.synced = Len(w.recs)].synced = Len(w.recs)
      /\ [w EXCEPT !.synced = Len(w.recs)].recs = w.recs
  BY <1>1, <1>2 DEF Logs
<1>5. ASSUME NEW n \in w.synced .. Len(w.recs), NEW torn \in BOOLEAN
      PROVE  /\ CutWal(w, n, torn) \in Logs
             /\ CutWal(w, n, torn).synced = n /\ Len(CutWal(w, n, torn).recs) = n
             /\ \A p \in 1 .. n : CutWal(w, n, torn).recs[p] = w.recs[p]
  <2> DEFINE cut == SubSeq(w.recs, 1, n)
  <2>1. n \in Nat /\ n <= Len(w.recs)
    BY <1>2
  <2>2. /\ cut \in Seq(Entries) /\ Len(cut) = IF 1 <= n THEN n - 1 + 1 ELSE 0
        /\ \A i \in 1 .. n - 1 + 1 : cut[i] = w.recs[1 + i - 1]
    <3>1. \A i \in 1 .. n : w.recs[i] \in Entries
      BY <1>2, <2>1
    <3>2. 1 \in Int /\ n \in Int
      BY <2>1
    <3> QED BY <3>1, <3>2, SubSeqProperties
  <2>3. Len(cut) = n /\ \A p \in 1 .. n : cut[p] = w.recs[p]
    <3>1. \A p \in 1 .. n : p \in 1 .. n - 1 + 1 /\ 1 + p - 1 = p
      BY <2>1
    <3> HIDE DEF cut
    <3> QED BY <2>1, <2>2, <3>1
  <2> HIDE DEF cut
  <2>4. [recs |-> cut, synced |-> n, torn |-> torn] \in Logs
    BY <2>1, <2>2 DEF Logs
  <2> QED BY <2>3, <2>4 DEF CutWal, cut
<1> QED BY <1>1, <1>2, <1>3, <1>4, <1>5 DEF w

\* No step takes a synced record out of a log, but for those that create a log.
LEMMA LogsStep ==
    ASSUME TypeOK, Names, [Next]_vars
    PROVE  LogsOK' /\ \A i \in WalIds : LogKept(i) \/ Truncated(i)
<1> DEFINE w == wal_files[wal_id]
<1>1. wal_id \in WalIds
  BY DEF TypeOK
<1>2. CASE UNCHANGED wal_files
  <2>1. \A i \in WalIds : wal_files[i].synced \in Nat
    BY DEF TypeOK, Logs
  <2> QED BY <1>2, <2>1 DEF TypeOK, LogsOK, LogKept, WalIds
<1>3. ASSUME NEW r \in pending, Apply(r) PROVE LogsOK' /\ \A i \in WalIds : LogKept(i)
  <2> DEFINE es  == EntriesOf(r)
             new == [w EXCEPT !.recs = @ \o es]
  <2>1. wal_files' = [wal_files EXCEPT ![wal_id] = new]
    BY <1>3 DEF Apply, AppendWal
  <2>2. es \in Seq(Entries)
    BY EntriesType
  <2> HIDE DEF es
  <2>3. /\ new \in Logs /\ new.synced = w.synced /\ w.synced <= Len(new.recs)
        /\ \A p \in 1 .. w.synced : new.recs[p] = w.recs[p]
        /\ w.synced \in Nat
    BY <2>2, WrittenLogs
  <2>4. /\ new.synced <= Len(new.recs) /\ wal_files[wal_id].synced <= new.synced
        /\ \A p \in 1 .. wal_files[wal_id].synced : new.recs[p] = wal_files[wal_id].recs[p]
    BY <2>3
  <2> HIDE DEF new
  <2> QED BY <1>1, <2>1, <2>3, <2>4, OneLogReplaced
<1>4. CASE wal_files' = [wal_files EXCEPT ![wal_id].synced = Len(wal_files[wal_id].recs)]
  <2> DEFINE new == [w EXCEPT !.synced = Len(w.recs)]
  <2>1. wal_files' = [wal_files EXCEPT ![wal_id] = new]
    BY <1>4
  <2>2. /\ new \in Logs /\ new.synced = Len(w.recs) /\ new.recs = w.recs
        /\ w.synced <= Len(w.recs) /\ Len(w.recs) \in Nat
    BY WrittenLogs
  <2> HIDE DEF new
  <2>3. \A p \in 1 .. wal_files[wal_id].synced : new.recs[p] = wal_files[wal_id].recs[p]
    BY <2>2
  <2>4. new.synced <= Len(new.recs) /\ wal_files[wal_id].synced <= new.synced
    BY <2>2
  <2> QED BY <1>1, <2>1, <2>2, <2>3, <2>4, OneLogReplaced
<1>5. CASE Crash
  <2>1. PICK n \in w.synced .. Len(w.recs), torn \in BOOLEAN :
            wal_files' = [wal_files EXCEPT ![wal_id] = CutWal(w, n, torn)]
    BY <1>5 DEF Crash
  <2> DEFINE new == CutWal(w, n, torn)
  <2>2. /\ new \in Logs /\ new.synced = n /\ Len(new.recs) = n
        /\ \A p \in 1 .. n : new.recs[p] = w.recs[p]
        /\ w.synced \in Nat /\ Len(w.recs) \in Nat
    BY WrittenLogs
  <2>3. n \in Nat /\ w.synced <= n
    BY <2>2
  <2>4. wal_files' = [wal_files EXCEPT ![wal_id] = new]
    BY <2>1
  <2> HIDE DEF new
  <2>5. \A p \in 1 .. w.synced : p \in 1 .. n
    BY <2>2, <2>3
  <2>6. /\ new.synced <= Len(new.recs) /\ wal_files[wal_id].synced <= new.synced
        /\ \A p \in 1 .. wal_files[wal_id].synced : new.recs[p] = wal_files[wal_id].recs[p]
    BY <2>2, <2>3, <2>5
  <2> QED BY <1>1, <2>2, <2>4, <2>6, OneLogReplaced
<1>6. CASE CreateWal
  <2>1. /\ wal_files' = [wal_files EXCEPT ![next_wal_id - 1] = EmptyWal]
        /\ next_wal_id - 1 = Len(manifest.WAL) /\ Len(manifest.WAL) \in Nat
        /\ manifest.WAL # <<>>
    BY <1>6, NamesBounded DEF CreateWal, Goto, Names
  <2>2. Len(manifest.WAL) \in WalIds
    <3>1. Len(manifest.WAL) # 0
      BY <2>1, EmptySeq DEF TypeOK
    <3>2. Len(manifest.WAL) \in 1 .. Len(manifest.WAL)
      BY <2>1, <3>1
    <3> QED BY <3>2, NamesBounded
  <2>3. \A j \in WalIds : j # Len(manifest.WAL) => LogKept(j)
    BY <2>1, <2>2, OneLogEmptied
  <2>4. LogsOK'
    BY <2>1, <2>2, OneLogEmptied
  <2> QED BY <1>6, <2>3, <2>4 DEF Truncated
<1>7. CASE Open
  <2>1. /\ wal_files' = [wal_files EXCEPT ![Len(manifest.WAL) + 1] = EmptyWal]
        /\ Len(manifest.WAL) + 1 \in WalIds
    BY <1>7, NamesBounded DEF Open, NewWal
  <2>2. LogsOK' /\ \A j \in WalIds : j # Len(manifest.WAL) + 1 => LogKept(j)
    BY <2>1, OneLogEmptied
  <2> QED BY <1>7, <2>2 DEF Truncated
<1>8. CASE Sync
  BY <1>4, <1>8 DEF Sync, SyncWal
<1>9. CASE RotateSync
  BY <1>4, <1>9 DEF RotateSync, SyncWal
<1>10. CASE Close
  BY <1>4, <1>10 DEF Close
<1>11. CASE ListWal \/ WriteSst \/ ListSst
  BY <1>2, <1>11 DEF ListWal, WriteSst, ListSst
<1>12. ASSUME NEW kind, NEW ops, TakeTs(kind, ops) PROVE UNCHANGED wal_files
  BY <1>12 DEF TakeTs, files
<1>13. CASE \E k \in Keys : Put(k) \/ Delete(k)
  BY <1>2, <1>12, <1>13 DEF Put, Delete
<1>14. CASE \E b \in Batches : WriteBatch(b)
  BY <1>2, <1>12, <1>14 DEF WriteBatch
<1>15. CASE UNCHANGED vars
  BY <1>2, <1>15 DEF vars, files
<1> QED BY <1>3, <1>5, <1>6, <1>7, <1>8, <1>9, <1>10, <1>11, <1>13, <1>14, <1>15 DEF Next

-----------------------------------------------------------------------------
(***************************************************************************)
(* The invariant is kept.                                                  *)
(***************************************************************************)

\* add_sst and add_wal list the number after the last.
LEMMA ListedNext ==
    ASSUME NEW S, NEW ids \in Seq(S), Numbered(ids), NEW n \in S, n = Len(ids) + 1
    PROVE  /\ Append(ids, n) \in Seq(S) /\ Numbered(Append(ids, n))
           /\ Len(Append(ids, n)) = n /\ Append(ids, n) # <<>>
           /\ \A i \in DOMAIN ids : i \in DOMAIN Append(ids, n) /\ Append(ids, n)[i] = ids[i]
<1>1. Len(ids) \in Nat /\ DOMAIN ids = 1 .. Len(ids)
  BY LenProperties
<1>2. /\ Append(ids, n) \in Seq(S) /\ Len(Append(ids, n)) = Len(ids) + 1
      /\ DOMAIN Append(ids, n) = 1 .. Len(ids) + 1
      /\ \A i \in 1 .. Len(ids) : Append(ids, n)[i] = ids[i]
      /\ Append(ids, n)[Len(ids) + 1] = n
  BY <1>1
<1>3. \A i \in 1 .. Len(ids) + 1 : i \in 1 .. Len(ids) \/ i = Len(ids) + 1
  BY <1>1
<1>4. \A i \in 1 .. Len(ids) : i \in 1 .. Len(ids) + 1
  BY <1>1
<1>5. Append(ids, n) # <<>>
  BY <1>1, <1>2
<1> HIDE DEF Numbered
<1>6. Numbered(Append(ids, n))
  BY <1>1, <1>2, <1>3 DEF Numbered
<1> QED BY <1>1, <1>2, <1>4, <1>5, <1>6

\* The rotation lists and creates its files by the next names, and a reopen
\* finds the names that follow.
LEMMA NamesStep ==
    ASSUME TypeOK, Names, [Next]_vars
    PROVE  Names'
<1> DEFINE sst == Len(manifest.SST)
           wal == Len(manifest.WAL)
<1>1. /\ MaxSsts \in Nat /\ MaxCrashes \in Nat /\ crashes \in Nat
      /\ sst \in Nat /\ wal \in Nat
      /\ manifest.SST \in Seq(SstIds) /\ manifest.WAL \in Seq(WalIds)
      /\ NextId(manifest.SST) = sst + 1 /\ NextId(manifest.WAL) = wal + 1
      /\ wal_id \in Nat
  BY NamesBounded DEF TypeOK, WalIds
<1> USE DEF Names
<1>2. CASE UNCHANGED <<manifest, status, pc, levels, wal_id, next_sst_id, next_wal_id, crashes>>
  BY <1>2
<1>3. ASSUME NEW r \in pending, Apply(r) PROVE Names'
  <2>1. /\ status = "up" /\ pc = "idle"
        /\ UNCHANGED <<manifest, status, levels, wal_id, next_sst_id, next_wal_id, crashes>>
        /\ pc' = "idle" \/ (pc' = "rotate" /\ next_sst_id \in SstIds)
    BY <1>3 DEF Apply, Up
  <2>2. pc' # "idle" => sst < MaxSsts
    BY <1>1, <2>1 DEF SstIds
  <2>3. wal <= sst + crashes + 0 /\ next_sst_id = sst + 1
    BY <2>1
  <2> QED BY <1>1, <2>1, <2>2, <2>3
<1>4. CASE RotateSync
  <2>1. /\ status = "up" /\ pc = "rotate" /\ pc' = "list_wal"
        /\ UNCHANGED <<manifest, status, levels, wal_id, next_sst_id, next_wal_id, crashes>>
    BY <1>4 DEF RotateSync, Goto, inner
  <2> QED BY <1>1, <2>1
<1>5. CASE ListWal
  <2>1. /\ status = "up" /\ pc = "list_wal" /\ pc' = "create_wal"
        /\ manifest' = [manifest EXCEPT !.WAL = Append(@, next_wal_id)]
        /\ next_wal_id' = next_wal_id + 1
        /\ UNCHANGED <<status, levels, wal_id, next_sst_id, crashes>>
    BY <1>5 DEF ListWal, Goto, history
  <2>2. manifest'.WAL = Append(manifest.WAL, wal + 1) /\ manifest'.SST = manifest.SST
    BY <2>1 DEF TypeOK
  <2>3. /\ Len(manifest'.WAL) = wal + 1 /\ Numbered(manifest'.WAL) /\ manifest'.WAL # <<>>
    <3>1. wal + 1 \in WalIds /\ Numbered(manifest.WAL)
      BY NamesBounded
    <3> QED BY <1>1, <2>2, <3>1, ListedNext
  <2>4. wal <= sst + crashes + 0 /\ wal_id <= wal + 1 /\ next_sst_id = sst + 1
    BY <2>1
  <2>5. wal_id' <= next_wal_id' /\ next_wal_id' = Len(manifest'.WAL) + 1
    BY <1>1, <2>1, <2>3, <2>4
  <2>6. /\ Len(manifest'.WAL) <= Len(manifest'.SST) + crashes' + 1
        /\ levels' = manifest'.SST /\ next_sst_id' = Len(manifest'.SST) + 1
        /\ Numbered(manifest'.SST) /\ Len(manifest'.SST) < MaxSsts
    BY <1>1, <2>1, <2>2, <2>3, <2>4
  <2> QED BY <1>1, <2>1, <2>3, <2>5, <2>6
<1>6. CASE CreateWal
  <2>1. /\ status = "up" /\ pc = "create_wal" /\ pc' = "write_sst"
        /\ wal_id' = next_wal_id - 1
        /\ UNCHANGED <<manifest, status, levels, next_sst_id, next_wal_id, crashes>>
    BY <1>6 DEF CreateWal, Goto, history
  <2> QED BY <1>1, <2>1
<1>7. CASE WriteSst
  <2>1. /\ status = "up" /\ pc = "write_sst" /\ pc' = "list_sst"
        /\ next_sst_id' = next_sst_id + 1
        /\ UNCHANGED <<manifest, status, levels, wal_id, next_wal_id, crashes>>
    BY <1>7 DEF WriteSst, Goto, history
  <2> QED BY <1>1, <2>1
<1>8. CASE ListSst
  <2>1. /\ status = "up" /\ pc = "list_sst" /\ pc' = "idle"
        /\ manifest' = [manifest EXCEPT !.SST = Append(@, next_sst_id - 1)]
        /\ levels' = Append(levels, next_sst_id - 1)
        /\ UNCHANGED <<status, wal_id, next_sst_id, next_wal_id, crashes>>
    BY <1>8 DEF ListSst, Goto
  <2>2. sst < MaxSsts /\ next_sst_id = sst + 2 /\ levels = manifest.SST
        /\ wal <= sst + crashes + 1
    BY <2>1
  <2>3. next_sst_id - 1 = sst + 1 /\ sst + 1 \in SstIds
    BY <1>1, <2>2 DEF SstIds
  <2>4. /\ manifest'.SST = Append(manifest.SST, sst + 1) /\ manifest'.WAL = manifest.WAL
        /\ levels' = Append(manifest.SST, sst + 1)
    BY <2>1, <2>2, <2>3 DEF TypeOK
  <2>5. Len(manifest'.SST) = sst + 1 /\ Numbered(manifest'.SST)
    BY <1>1, <2>3, <2>4, ListedNext
  <2>6. /\ Len(manifest'.WAL) <= Len(manifest'.SST) + crashes' + 0
        /\ levels' = manifest'.SST /\ next_sst_id' = Len(manifest'.SST) + 1
        /\ next_wal_id' = Len(manifest'.WAL) + 1 /\ wal_id' <= next_wal_id'
        /\ Numbered(manifest'.WAL) /\ Len(manifest'.SST) <= MaxSsts
    BY <1>1, <2>1, <2>2, <2>4, <2>5
  <2> QED BY <2>1, <2>5, <2>6
<1>9. CASE Crash \/ Close
  <2>1. /\ status' = "down" /\ pc' = "idle" /\ crashes' = crashes + 1
        /\ UNCHANGED manifest
    BY <1>9 DEF Crash, Close, Die
  <2>2. wal <= sst + crashes + 1
    <3>1. CASE pc \in {"create_wal", "write_sst", "list_sst"}
      BY <3>1
    <3>2. CASE pc \notin {"create_wal", "write_sst", "list_sst"}
      <4>1. wal <= sst + crashes + 0
        BY <3>2
      <4> QED BY <1>1, <4>1
    <3> QED BY <3>1, <3>2
  <2> QED BY <1>1, <2>1, <2>2
<1>10. CASE Open
  <2>1. status # "up" /\ pc = "idle" /\ UNCHANGED <<manifest, pc, crashes>>
    BY <1>10 DEF Open, history
  <2>2. \/ status' = "failed"
        \/ /\ levels' = manifest.SST /\ wal_id' = wal + 1
           /\ next_wal_id' = wal + 1 /\ next_sst_id' = sst + 1
    BY <1>1, <1>10 DEF Open, NewWal
  <2> QED BY <1>1, <2>1, <2>2
<1>11. ASSUME NEW kind, NEW ops, TakeTs(kind, ops) PROVE Names'
  BY <1>2, <1>11 DEF TakeTs, files, inner
<1>12. CASE \E k \in Keys : Put(k) \/ Delete(k)
  BY <1>11, <1>12 DEF Put, Delete
<1>13. CASE \E b \in Batches : WriteBatch(b)
  BY <1>11, <1>13 DEF WriteBatch
<1>14. CASE Sync
  BY <1>2, <1>14 DEF Sync, inner
<1>15. CASE UNCHANGED vars
  BY <1>2, <1>15 DEF vars, files, inner, history
<1> HIDE DEF Names
<1> QED BY <1>3, <1>4, <1>5, <1>6, <1>7, <1>8, <1>9, <1>10, <1>12, <1>13, <1>14, <1>15 DEF Next

\* A request on its way to the lock.
LEMMA TakeTsType ==
    ASSUME TypeOK, Names, Memory, [Next]_vars, NEW kind \in {"put", "delete", "batch"},
           NEW ops \in Seq(Ops), TakeTs(kind, ops)
    PROVE  TypeOK' /\ Memory'
<1> DEFINE r == [kind |-> kind, ops |-> ops, ts |-> next_ts, after |-> Cardinality(applied)]
<1>1. /\ pending' = pending \cup {r} /\ next_ts' = next_ts + Len(ops)
      /\ requests' = requests + 1
      /\ UNCHANGED <<manifest, sst_files, status, pc, memtable, size, imm, levels, wal_id,
                     next_sst_id, next_wal_id, applied, synced, safe, crashes>>
  BY DEF TakeTs, files, inner
<1>2. Len(ops) \in Nat /\ Cardinality(applied) \in Nat
  BY LenProperties, FS_CardinalityType DEF TypeOK
<1>3. r \in Requests
  BY <1>2 DEF TypeOK, Requests
<1>4. LogsOK'
  BY LogsStep
<1> QED BY <1>1, <1>2, <1>3, <1>4 DEF TypeOK, LogsOK, Memory, WalIds, SstIds

\* The variables keep their types, and a version has one entry in memory.
LEMMA TypeStep ==
    ASSUME TypeOK, Names, Memory, [Next]_vars
    PROVE  TypeOK' /\ Memory'
<1>1. LogsOK'
  BY LogsStep
<1>2. wal_id \in WalIds /\ wal_files[wal_id].recs \in Seq(Entries)
  BY DEF TypeOK, Logs
<1>3. Range(wal_files[wal_id].recs) \in SUBSET Entries
  BY <1>2 DEF Range
<1>4. IsFiniteSet({}) /\ {} \in SUBSET Entries /\ OneEach({})
  BY FS_EmptySet DEF OneEach
<1>5. CASE UNCHANGED <<manifest, sst_files, status, memtable, size, imm, levels, wal_id,
                       next_sst_id, next_wal_id, next_ts, pending, applied, requests, crashes>>
           /\ pc' \in {"idle", "list_wal"}
           /\ synced' \in SUBSET Entries /\ safe' \in SUBSET Entries
  BY <1>1, <1>5 DEF TypeOK, LogsOK, Memory, WalIds, SstIds
<1>6. ASSUME NEW k \in Keys, Put(k) \/ Delete(k) PROVE TypeOK' /\ Memory'
  <2>1. <<Op(k, TRUE)>> \in Seq(Ops) /\ <<Op(k, FALSE)>> \in Seq(Ops)
    <3>1. Op(k, TRUE) \in Ops /\ Op(k, FALSE) \in Ops
      BY DEF Op, Ops
    <3>2. \A op \in Ops : <<op>> \in Seq(Ops)
      OBVIOUS
    <3> HIDE DEF Ops
    <3> QED BY <3>1, <3>2
  <2> QED BY <1>6, <2>1, TakeTsType DEF Put, Delete
<1>7. ASSUME NEW b \in Batches, WriteBatch(b) PROVE TypeOK' /\ Memory'
  <2>1. b \in Seq(Ops)
    BY LsmAssumption DEF Ops
  <2> QED BY <1>7, <2>1, TakeTsType DEF WriteBatch
<1>8. ASSUME NEW r \in pending, Apply(r) PROVE TypeOK' /\ Memory'
  <2> DEFINE es == EntriesOf(r)
             mt == InsertAll(memtable, es)
  <2>1. /\ es \in Seq(Entries) /\ Len(es) \in Nat
        /\ Range(es) \in SUBSET Entries /\ IsFiniteSet(Range(es))
    BY EntriesType
  <2>2. mt \in SUBSET Entries /\ IsFiniteSet(mt) /\ OneEach(mt)
    BY <2>1, InsertAllType DEF TypeOK, Memory
  <2>3. IsFiniteSet(applied \cup Range(es))
    BY <2>1, FS_Union DEF TypeOK
  <2> HIDE DEF es, mt
  <2>4. /\ pending' = pending \ {r} /\ applied' = applied \cup Range(es)
        /\ UNCHANGED <<manifest, sst_files, status, levels, wal_id, next_sst_id,
                       next_wal_id, next_ts, synced, safe, requests, crashes>>
        /\ \/ pc' = "rotate" /\ memtable' = {} /\ size' = 0 /\ imm' = mt
           \/ memtable' = mt /\ size' = size + Len(es) /\ UNCHANGED <<pc, imm>>
    BY <1>8 DEF Apply, es, mt
  <2>5. /\ memtable' \in SUBSET Entries /\ imm' \in SUBSET Entries /\ size' \in Nat
        /\ IsFiniteSet(memtable') /\ IsFiniteSet(imm') /\ OneEach(memtable') /\ OneEach(imm')
        /\ pc' \in {pc, "rotate"}
    <3>1. CASE pc' = "rotate" /\ memtable' = {} /\ size' = 0 /\ imm' = mt
      BY <1>4, <2>2, <3>1
    <3>2. CASE memtable' = mt /\ size' = size + Len(es) /\ UNCHANGED <<pc, imm>>
      <4>1. size + Len(es) \in Nat
        BY <2>1 DEF TypeOK
      <4> QED BY <2>2, <3>2, <4>1 DEF TypeOK, Memory
    <3> QED BY <2>4, <3>1, <3>2
  <2>6. /\ applied' \in SUBSET Entries /\ IsFiniteSet(applied') /\ pending' \in SUBSET Requests
    BY <2>1, <2>3, <2>4 DEF TypeOK
  <2>7. UNCHANGED <<manifest, sst_files, status, levels, wal_id, next_sst_id,
                    next_wal_id, next_ts, synced, safe, requests, crashes>>
    BY <2>4
  <2> QED BY <1>1, <2>5, <2>6, <2>7 DEF TypeOK, LogsOK, Memory, WalIds, SstIds
<1>9. CASE Sync
  BY <1>3, <1>5, <1>9 DEF Sync, SyncWal, inner, TypeOK, Up
<1>10. CASE RotateSync
  BY <1>3, <1>5, <1>10 DEF RotateSync, SyncWal, inner, TypeOK, Goto
<1>11. CASE ListWal
  <2>1. /\ manifest' = [manifest EXCEPT !.WAL = Append(@, next_wal_id)]
        /\ next_wal_id' = next_wal_id + 1 /\ pc' = "create_wal"
        /\ status = "up"
        /\ UNCHANGED <<sst_files, status, memtable, size, imm, levels, wal_id, next_sst_id,
                       next_ts, pending, applied, synced, safe, requests, crashes>>
    BY <1>11 DEF ListWal, Goto, history
  <2>2. next_wal_id \in WalIds /\ manifest.WAL \in Seq(WalIds)
    BY DEF TypeOK
  <2>3. manifest' \in [SST : Seq(SstIds), WAL : Seq(WalIds)]
    <3>1. Append(manifest.WAL, next_wal_id) \in Seq(WalIds)
      BY <2>2
    <3>2. manifest \in [SST : Seq(SstIds), WAL : Seq(WalIds)]
      BY DEF TypeOK
    <3> DEFINE ids == Append(manifest.WAL, next_wal_id)
    <3>3. manifest' = [manifest EXCEPT !.WAL = ids]
      BY <2>1
    <3> HIDE DEF ids
    <3> QED BY <3>1, <3>2, <3>3 DEF ids
  <2>4. next_wal_id + 1 \in WalIds
    <3> DEFINE n == Len(manifest.WAL)
    <3>1. /\ n <= Len(manifest.SST) + crashes + 0 /\ Len(manifest.SST) < MaxSsts
          /\ next_wal_id = n + 1
      BY <1>11 DEF ListWal, Goto, Names
    <3>2. crashes \in 0 .. MaxCrashes
      BY DEF TypeOK
    <3>3. /\ n \in Nat /\ Len(manifest.SST) \in Nat
          /\ MaxSsts \in Nat /\ MaxCrashes \in Nat
      BY NamesBounded
    <3> QED BY <3>1, <3>2, <3>3 DEF WalIds
  <2> QED BY <1>1, <2>1, <2>3, <2>4 DEF TypeOK, LogsOK, Memory, WalIds, SstIds
<1>12. CASE CreateWal
  <2>1. next_wal_id - 1 \in WalIds
    <3>1. next_wal_id - 1 = Len(manifest.WAL) /\ manifest.WAL # <<>> /\ Len(manifest.WAL) \in Nat
      BY <1>12, NamesBounded DEF CreateWal, Goto, Names
    <3>2. Len(manifest.WAL) # 0
      BY <3>1, EmptySeq DEF TypeOK
    <3>3. Len(manifest.WAL) \in 1 .. Len(manifest.WAL)
      BY <3>1, <3>2
    <3> QED BY <3>1, <3>3, NamesBounded
  <2>2. /\ wal_id' = next_wal_id - 1 /\ pc' = "write_sst"
        /\ UNCHANGED <<manifest, sst_files, status, memtable, size, imm, levels, next_sst_id,
                       next_wal_id, next_ts, pending, applied, synced, safe, requests, crashes>>
    BY <1>12 DEF CreateWal, Goto, history
  <2> QED BY <1>1, <2>1, <2>2 DEF TypeOK, LogsOK, Memory, WalIds, SstIds
<1>13. CASE WriteSst
  <2>1. BuildTable(imm) \in Seq(Entries)
    BY TableHolds, LsmAssumption DEF TypeOK, Memory
  <2>2. next_sst_id = Len(manifest.SST) + 1 /\ Len(manifest.SST) < MaxSsts
    BY <1>13 DEF WriteSst, Goto, Names
  <2>3. next_sst_id + 1 \in 1 .. MaxSsts + 1
    BY <2>2, NamesBounded
  <2>4. /\ sst_files' = [sst_files EXCEPT ![next_sst_id] = BuildTable(imm)]
        /\ next_sst_id' = next_sst_id + 1 /\ pc' = "list_sst"
        /\ UNCHANGED <<manifest, status, memtable, size, imm, levels, wal_id, next_wal_id,
                       next_ts, pending, applied, synced, safe, requests, crashes>>
    BY <1>13 DEF WriteSst, Goto, history
  <2>5. sst_files' \in [SstIds -> Seq(Entries)]
    BY <2>1, <2>4 DEF TypeOK
  <2> QED BY <1>1, <2>3, <2>4, <2>5 DEF TypeOK, LogsOK, Memory, WalIds, SstIds
<1>14. CASE ListSst
  <2>1. /\ manifest' = [manifest EXCEPT !.SST = Append(@, next_sst_id - 1)]
        /\ levels' = Append(levels, next_sst_id - 1) /\ imm' = {} /\ safe' = safe \cup imm
        /\ pc' = "idle"
        /\ UNCHANGED <<sst_files, status, memtable, size, wal_id, next_sst_id, next_wal_id,
                       next_ts, pending, applied, synced, requests, crashes>>
    BY <1>14 DEF ListSst, Goto
  <2>2. next_sst_id - 1 = Len(manifest.SST) + 1 /\ Len(manifest.SST) < MaxSsts
        /\ Len(manifest.SST) \in Nat
    BY <1>14, NamesBounded DEF ListSst, Goto, Names
  <2>3. next_sst_id - 1 \in SstIds
    BY <2>2, NamesBounded DEF SstIds
  <2>4. manifest' \in [SST : Seq(SstIds), WAL : Seq(WalIds)] /\ levels' \in Seq(SstIds)
    <3> DEFINE ids == Append(manifest.SST, next_sst_id - 1)
    <3>1. manifest.SST \in Seq(SstIds) /\ levels \in Seq(SstIds)
          /\ manifest \in [SST : Seq(SstIds), WAL : Seq(WalIds)]
      BY DEF TypeOK
    <3>2. ids \in Seq(SstIds) /\ levels' \in Seq(SstIds)
      BY <2>1, <2>3, <3>1
    <3>3. manifest' = [manifest EXCEPT !.SST = ids]
      BY <2>1
    <3> HIDE DEF ids
    <3> QED BY <3>1, <3>2, <3>3
  <2> QED BY <1>1, <1>4, <2>1, <2>4 DEF TypeOK, LogsOK, Memory, WalIds, SstIds
<1>15. CASE Crash \/ Close
  <2>1. /\ status' = "down" /\ crashes < MaxCrashes /\ crashes' = crashes + 1
        /\ pc' = "idle" /\ pending' = {}
        /\ memtable' = {} /\ size' = 0 /\ imm' = {} /\ levels' = <<>>
        /\ UNCHANGED <<manifest, sst_files, wal_id, next_sst_id, next_wal_id, next_ts,
                       applied, synced, safe, requests>>
    BY <1>15 DEF Crash, Close, Die
  <2>2. crashes + 1 \in 0 .. MaxCrashes /\ <<>> \in Seq(SstIds)
    BY <2>1, LsmAssumption DEF TypeOK
  <2> QED BY <1>1, <1>4, <2>1, <2>2 DEF TypeOK, LogsOK, Memory, WalIds, SstIds
<1>16. CASE Open
  <2>1. UNCHANGED <<manifest, sst_files, pc, pending, applied, synced, safe, requests, crashes>>
    BY <1>16 DEF Open, history
  <2>2. CASE status' = "failed" /\ UNCHANGED <<inner, next_ts>>
    BY <1>1, <2>1, <2>2 DEF TypeOK, LogsOK, Memory, inner, WalIds, SstIds
  <2>3. CASE /\ status' = "up" /\ memtable' = Recovered /\ size' = Cardinality(Replayed)
             /\ imm' = {} /\ levels' = manifest.SST /\ wal_id' = NewWal
             /\ next_wal_id' = NextId(manifest.WAL) /\ next_sst_id' = NextId(manifest.SST)
             /\ next_ts' = 1
    <3>1. NextId(manifest.WAL) \in WalIds /\ NextId(manifest.SST) \in 1 .. MaxSsts + 1
      <4>1. Len(manifest.SST) <= MaxSsts
        BY DEF Names
      <4> QED BY <4>1, NamesBounded
    <3>2. NextId(manifest.WAL) \in Nat /\ 1 .. NextId(manifest.WAL) - 1 \subseteq WalIds
      BY NamesBounded
    <3>3. /\ Recovered \in SUBSET Entries /\ Cardinality(Replayed) \in Nat
          /\ IsFiniteSet(Recovered) /\ OneEach(Recovered)
      BY <3>2, RecoveredType
    <3> QED BY <1>1, <1>4, <2>1, <2>3, <3>1, <3>3
            DEF TypeOK, LogsOK, Memory, NewWal, WalIds, SstIds
  <2> QED BY <1>16, <2>2, <2>3 DEF Open
<1>17. CASE UNCHANGED vars
  BY <1>1, <1>17
     DEF TypeOK, LogsOK, Memory, vars, files, inner, history, WalIds, SstIds
<1> QED BY <1>6, <1>7, <1>8, <1>9, <1>10, <1>11, <1>12, <1>13, <1>14, <1>15, <1>16, <1>17 DEF Next

\* The lists of the manifest only grow, and what is listed keeps its place.
LEMMA ListsGrow ==
    ASSUME TypeOK, Names, [Next]_vars
    PROVE  /\ Len(manifest.SST) <= Len(manifest'.SST) /\ Len(manifest.WAL) <= Len(manifest'.WAL)
           /\ Len(manifest'.SST) \in Nat /\ Len(manifest'.WAL) \in Nat
           /\ DOMAIN manifest'.SST = 1 .. Len(manifest'.SST)
           /\ ListWal => Len(manifest'.WAL) = Len(manifest.WAL) + 1
           /\ ListSst => Len(manifest'.SST) = Len(manifest.SST) + 1
<1>1. Len(manifest.SST) \in Nat /\ Len(manifest.WAL) \in Nat
  BY NamesBounded
<1>2. manifest.SST \in Seq(SstIds) /\ manifest.WAL \in Seq(WalIds)
  BY DEF TypeOK
<1>3. CASE ListWal
  <2>1. /\ manifest' = [manifest EXCEPT !.WAL = Append(@, next_wal_id)]
        /\ pc = "list_wal" /\ pc' = "create_wal"
    BY <1>3 DEF ListWal, Goto
  <2>2. manifest'.WAL = Append(manifest.WAL, next_wal_id) /\ manifest'.SST = manifest.SST
    BY <2>1 DEF TypeOK
  <2>3. Len(manifest'.WAL) = Len(manifest.WAL) + 1
    BY <1>2, <2>2
  <2>4. ~ListSst
    BY <2>1 DEF ListSst, Goto
  <2> QED BY <1>1, <1>2, <2>2, <2>3, <2>4, LenProperties
<1>4. CASE ListSst
  <2>1. /\ manifest' = [manifest EXCEPT !.SST = Append(@, next_sst_id - 1)]
        /\ pc = "list_sst"
    BY <1>4 DEF ListSst, Goto
  <2>2. next_sst_id - 1 \in SstIds
    BY <1>4, NamesBounded DEF ListSst, Goto, Names, SstIds
  <2>3. manifest'.SST = Append(manifest.SST, next_sst_id - 1) /\ manifest'.WAL = manifest.WAL
    BY <2>1 DEF TypeOK
  <2>4. /\ Len(manifest'.SST) = Len(manifest.SST) + 1
        /\ DOMAIN manifest'.SST = 1 .. Len(manifest'.SST)
    BY <1>2, <2>2, <2>3, LenProperties
  <2>5. ~ListWal
    BY <2>1 DEF ListWal, Goto
  <2> QED BY <1>1, <2>3, <2>4, <2>5
<1>5. CASE UNCHANGED manifest /\ ~ListWal /\ ~ListSst
  BY <1>1, <1>2, <1>5, LenProperties
<1>6. CASE ~ListWal /\ ~ListSst
  <2>1. UNCHANGED manifest
    <3>1. ASSUME NEW kind, NEW ops, TakeTs(kind, ops) PROVE UNCHANGED manifest
      BY <3>1 DEF TakeTs, files
    <3> QED BY <1>6, <3>1 DEF Next, Put, Delete, WriteBatch, Apply, Sync, RotateSync, CreateWal,
                          WriteSst, Crash, Close, Die, Open, vars, files
  <2> QED BY <1>5, <1>6, <2>1
<1> QED BY <1>3, <1>4, <1>6

\* A listed table is not written again.
LEMMA TablesStay ==
    ASSUME TypeOK, Names, Names', [Next]_vars, NEW e, InListedTable(e)
    PROVE  InListedTable(e)'
<1>1. PICK i \in 1 .. Len(manifest.SST) : InTable(e, i)
  BY NamesBounded DEF InListedTable, Names, Numbered
<1>2. i \in DOMAIN manifest'.SST /\ manifest'.SST[i] = i
  <2>1. /\ DOMAIN manifest'.SST = 1 .. Len(manifest'.SST) /\ Len(manifest.SST) \in Nat
        /\ Len(manifest'.SST) \in Nat /\ Len(manifest.SST) <= Len(manifest'.SST)
    BY ListsGrow, NamesBounded
  <2>2. i \in DOMAIN manifest'.SST
    BY <2>1
  <2>3. Numbered(manifest'.SST)
    BY DEF Names
  <2> QED BY <2>2, <2>3 DEF Numbered
<1>3. sst_files'[i] = sst_files[i]
  <2>1. CASE WriteSst
    <3>1. next_sst_id = Len(manifest.SST) + 1
          /\ sst_files' = [sst_files EXCEPT ![next_sst_id] = BuildTable(imm)]
      BY <2>1 DEF WriteSst, Goto, Names
    <3>2. i # next_sst_id /\ i \in SstIds
      <4>1. Len(manifest.SST) <= MaxSsts
        BY DEF Names
      <4> QED BY <3>1, <4>1, NamesBounded DEF SstIds
    <3> QED BY <3>1, <3>2 DEF TypeOK
  <2>2. CASE ~WriteSst
    <3>1. ASSUME NEW kind, NEW ops, TakeTs(kind, ops) PROVE UNCHANGED sst_files
      BY <3>1 DEF TakeTs, files
    <3>2. UNCHANGED sst_files
      BY <2>2, <3>1 DEF Next, Put, Delete, WriteBatch, Apply, Sync, RotateSync, ListWal, CreateWal,
                        ListSst, Crash, Close, Die, Open, vars, files
    <3> QED BY <3>2
  <2> QED BY <2>1, <2>2
<1> QED BY <1>1, <1>2, <1>3 DEF InListedTable, InTable

\* The synced part of a listed log stays, for the log that is truncated is the
\* one listed last.
LEMMA LogsStay ==
    ASSUME TypeOK, Names, [Next]_vars, NEW e, InListedLog(e)
    PROVE  InListedLog(e)'
<1>1. PICK i \in 1 .. Len(manifest.WAL) :
          /\ pc = "create_wal" => i < Len(manifest.WAL)
          /\ \E p \in 1 .. wal_files[i].synced : wal_files[i].recs[p] = e
  BY DEF InListedLog
<1>2. i \in WalIds /\ Len(manifest.WAL) \in Nat
  BY NamesBounded
<1>3. LogKept(i)
  <2>1. CreateWal => pc = "create_wal"
    BY DEF CreateWal, Goto
  <2>2. ~Truncated(i)
    BY <1>1, <1>2, <2>1 DEF Truncated
  <2> QED BY <1>2, <2>2, LogsStep
<1>4. \E p \in 1 .. wal_files'[i].synced : wal_files'[i].recs[p] = e
  <2>1. PICK p \in 1 .. wal_files[i].synced : wal_files[i].recs[p] = e
    BY <1>1
  <2>2. wal_files[i].synced \in Nat
    BY <1>2 DEF TypeOK, Logs
  <2>3. wal_files'[i].synced \in Nat
    BY <1>2, LogsStep DEF LogsOK, Logs, WalIds
  <2>4. p \in 1 .. wal_files'[i].synced /\ wal_files'[i].recs[p] = e
    BY <1>3, <2>1, <2>2, <2>3 DEF LogKept
  <2> QED BY <2>4
<1>5. i \in 1 .. Len(manifest'.WAL)
  BY <1>2, ListsGrow
<1>6. pc' = "create_wal" => i < Len(manifest'.WAL)
  <2>1. pc' = "create_wal" => ListWal \/ UNCHANGED vars \/ pc = "create_wal"
    <3>1. ASSUME NEW kind, NEW ops, TakeTs(kind, ops) PROVE pc = "create_wal" \/ pc' # "create_wal"
      BY <3>1 DEF TakeTs
    <3> QED BY <3>1 DEF Next, Put, Delete, WriteBatch, Apply, Sync, RotateSync, CreateWal, WriteSst,
                        ListSst, Crash, Close, Die, Open, Goto
  <2>2. CASE ListWal
    BY <1>2, <2>2, ListsGrow
  <2>3. CASE pc = "create_wal"
    BY <1>1, <1>2, <2>3, ListsGrow
  <2>4. CASE UNCHANGED vars
    BY <1>1, <2>4 DEF vars, files
  <2> QED BY <2>1, <2>2, <2>3, <2>4
<1> QED BY <1>4, <1>5, <1>6 DEF InListedLog

\* What is safe stays so, a sync makes safe only what it has brought to the disk,
\* and the table is listed when it holds the whole immutable memtable.
LEMMA KeptStep ==
    ASSUME LsmInv, Names', [Next]_vars
    PROVE  Kept'
<1> USE DEF LsmInv
<1>1. \A e : InListedTable(e) \/ InListedLog(e) => InListedTable(e)' \/ InListedLog(e)'
  BY TablesStay, LogsStay
<1>2. ASSUME SyncWal, UNCHANGED manifest, pc' # "create_wal", NEW e \in safe'
      PROVE  InListedTable(e)' \/ InListedLog(e)'
  <2> DEFINE recs == wal_files[wal_id].recs
  <2>1. CASE e \in safe
    BY <1>1, <2>1 DEF Kept
  <2>2. CASE e \notin safe
    <3>1. Listed(wal_id) /\ e \in Range(recs)
      BY <1>2, <2>2 DEF SyncWal
    <3>2. wal_id \in 1 .. Len(manifest.WAL) /\ wal_id \in WalIds
      <4>1. wal_id < Len(manifest.WAL) + 1
        BY <3>1, NamesBounded DEF Listed
      <4>2. wal_id \in WalIds /\ wal_id \in Nat /\ wal_id >= 1
        BY DEF TypeOK, WalIds
      <4> QED BY <4>1, <4>2, NamesBounded
    <3>3. wal_files'[wal_id].synced = Len(recs) /\ wal_files'[wal_id].recs = recs
      <4>1. wal_files' = [wal_files EXCEPT ![wal_id] = [wal_files[wal_id] EXCEPT !.synced = Len(recs)]]
        BY <1>2 DEF SyncWal
      <4>2. wal_files'[wal_id] = [wal_files[wal_id] EXCEPT !.synced = Len(recs)]
        BY <3>2, <4>1 DEF TypeOK
      <4> QED BY <4>2, WrittenLogs
    <3>4. PICK p \in DOMAIN recs : recs[p] = e
      BY <3>1 DEF Range
    <3>5. DOMAIN recs = 1 .. Len(recs)
      BY WrittenLogs, LenProperties
    <3>6. InListedLog(e)'
      BY <1>2, <3>2, <3>3, <3>4, <3>5 DEF InListedLog
    <3> QED BY <3>6
  <2> QED BY <2>1, <2>2
<1>3. ASSUME safe' = safe, pc' # "list_sst" PROVE Kept'
  BY <1>1, <1>3 DEF Kept
<1>4. CASE Sync
  <2>1. SyncWal /\ UNCHANGED manifest /\ pc = "idle" /\ pc' = "idle"
    BY <1>4 DEF Sync, Up
  <2> QED BY <1>2, <2>1 DEF Kept
<1>5. CASE RotateSync
  <2>1. SyncWal /\ UNCHANGED manifest /\ pc' = "list_wal"
    BY <1>5 DEF RotateSync, Goto
  <2> QED BY <1>2, <2>1 DEF Kept
<1>6. CASE WriteSst
  <2>1. /\ next_sst_id = Len(manifest.SST) + 1 /\ Len(manifest.SST) < MaxSsts
        /\ sst_files' = [sst_files EXCEPT ![next_sst_id] = BuildTable(imm)]
        /\ next_sst_id' = next_sst_id + 1 /\ imm' = imm /\ safe' = safe
    BY <1>6 DEF WriteSst, Goto, Names, history
  <2>2. next_sst_id \in SstIds /\ next_sst_id' - 1 = next_sst_id
    BY <2>1, NamesBounded DEF SstIds
  <2>3. sst_files'[next_sst_id] = BuildTable(imm)
    BY <2>1, <2>2 DEF TypeOK
  <2>4. \A e \in imm : \E j \in DOMAIN BuildTable(imm) : BuildTable(imm)[j].n = e.n
    BY TableHolds, LsmAssumption DEF TypeOK, Memory
  <2>5. \A e \in imm' : InTable(e, next_sst_id - 1)'
    BY <2>1, <2>2, <2>3, <2>4 DEF InTable
  <2> QED BY <1>1, <2>1, <2>5 DEF Kept
<1>7. CASE ListSst
  <2>1. /\ next_sst_id - 1 = Len(manifest.SST) + 1 /\ safe' = safe \cup imm
        /\ sst_files' = sst_files /\ pc = "list_sst" /\ pc' = "idle"
    BY <1>7, NamesBounded DEF ListSst, Goto, Names
  <2>2. /\ next_sst_id - 1 \in DOMAIN manifest'.SST
        /\ manifest'.SST[next_sst_id - 1] = next_sst_id - 1
    <3>1. /\ DOMAIN manifest'.SST = 1 .. Len(manifest'.SST)
          /\ Len(manifest'.SST) = Len(manifest.SST) + 1 /\ Len(manifest.SST) \in Nat
      BY <1>7, ListsGrow, NamesBounded
    <3>2. Numbered(manifest'.SST)
      BY DEF Names
    <3> QED BY <2>1, <3>1, <3>2 DEF Numbered
  <2>3. ASSUME NEW e \in imm PROVE InListedTable(e)'
    <3>1. InTable(e, next_sst_id - 1)
      BY <2>1 DEF Kept
    <3>2. InTable(e, next_sst_id - 1) <=>
              \E j \in DOMAIN sst_files'[next_sst_id - 1] : sst_files'[next_sst_id - 1][j].n = e.n
      BY <2>1 DEF InTable
    <3> QED BY <2>2, <3>1, <3>2 DEF InListedTable, InTable
  <2> QED BY <1>1, <2>1, <2>3 DEF Kept
<1>8. CASE ListWal \/ CreateWal
  BY <1>3, <1>8 DEF ListWal, CreateWal, Goto, history
<1>9. CASE Crash \/ Close
  BY <1>3, <1>9 DEF Crash, Close, Die
<1>10. CASE Open
  BY <1>3, <1>10 DEF Open, Names, history
<1>11. ASSUME NEW r \in pending, Apply(r) PROVE Kept'
  BY <1>3, <1>11 DEF Apply, Up
<1>12. ASSUME NEW kind, NEW ops, TakeTs(kind, ops) PROVE Kept'
  BY <1>3, <1>12 DEF TakeTs, Up
<1>13. CASE \E k \in Keys : Put(k) \/ Delete(k)
  BY <1>12, <1>13 DEF Put, Delete
<1>14. CASE \E b \in Batches : WriteBatch(b)
  BY <1>12, <1>14 DEF WriteBatch
<1>15. CASE UNCHANGED vars
  <2>1. UNCHANGED <<safe, pc, imm, next_sst_id, sst_files>>
    BY <1>15 DEF vars, files, inner, history
  <2>2. \A e : InTable(e, next_sst_id - 1)' <=> InTable(e, next_sst_id - 1)
    BY <2>1 DEF InTable
  <2> QED BY <1>1, <2>1, <2>2 DEF Kept
<1> QED BY <1>4, <1>5, <1>6, <1>7, <1>8, <1>9, <1>10, <1>11, <1>13, <1>14, <1>15 DEF Next

\* Before the first request there is nothing to lose.
LEMMA LsmInit == Init => LsmInv
<1> SUFFICES ASSUME Init PROVE LsmInv
  OBVIOUS
<1>1. /\ MaxSsts \in Nat /\ MaxSsts >= 1 /\ MaxCrashes \in Nat
  BY LsmAssumption
<1>2. 1 \in WalIds /\ 1 \in 1 .. MaxSsts + 1 /\ 0 \in 0 .. MaxCrashes
  BY <1>1 DEF WalIds
<1>3. IsFiniteSet({}) /\ OneEach({})
  BY FS_EmptySet DEF OneEach
<1>4. EmptyWal \in Logs /\ EmptyWal.synced = 0 /\ EmptyWal.recs = <<>> /\ 0 <= Len(<<>>)
  BY DEF EmptyWal, Logs
<1>5. manifest = [SST |-> <<>>, WAL |-> <<>>] /\ Len(<<>>) = 0 /\ DOMAIN <<>> = {}
  BY DEF Init
<1>6. TypeOK
  BY <1>2, <1>3, <1>4, <1>5 DEF Init, TypeOK
<1>7. Names
  BY <1>1, <1>5 DEF Init, Names, Numbered
<1>8. Memory /\ Kept
  BY <1>3 DEF Init, Memory, Kept
<1> QED BY <1>6, <1>7, <1>8 DEF LsmInv

\* The invariant of the files, the manifest and the memory.
THEOREM LsmInvariant == Spec => []LsmInv
<1>1. Init => LsmInv
  BY LsmInit
<1>2. LsmInv /\ [Next]_vars => LsmInv'
  <2> SUFFICES ASSUME LsmInv, [Next]_vars PROVE LsmInv'
    OBVIOUS
  <2>1. TypeOK' /\ Memory'
    BY TypeStep DEF LsmInv
  <2>2. Names'
    BY NamesStep DEF LsmInv
  <2>3. Kept'
    BY <2>2, KeptStep
  <2> QED BY <2>1, <2>2, <2>3 DEF LsmInv
<1> QED BY <1>1, <1>2, PTL DEF Spec

\* Every variable keeps its type.
THEOREM LsmTypes == Spec => []TypeOK
BY LsmInvariant, PTL DEF LsmInv

\* What the process knows of tables, and the ids it gives out, are what a reopen
\* would find in MANIFEST.
THEOREM ManifestKept == Spec => []ManifestAgrees
<1>1. LsmInv => ManifestAgrees
  BY NamesBounded DEF LsmInv, Names, ManifestAgrees, Up
<1> QED BY <1>1, LsmInvariant, PTL

\* A flushed entry, and one synced after the first rotation of its session, is at
\* every moment in a file that a reopen reads, across any number of rotations,
\* crashes and reopens, whatever step of a rotation a crash cuts off.
THEOREM SafeKept == Spec => []SafeStaysOnDisk
<1>1. LsmInv => SafeStaysOnDisk
  <2> SUFFICES ASSUME LsmInv, NEW e \in safe PROVE OnDisk(e)
    BY DEF SafeStaysOnDisk
  <2> USE DEF LsmInv
  <2>1. CASE InListedTable(e)
    BY <2>1 DEF InListedTable, OnDisk
  <2>2. CASE InListedLog(e)
    <3>1. PICK i \in 1 .. Len(manifest.WAL) :
              \E p \in 1 .. wal_files[i].synced : wal_files[i].recs[p] = e
      BY <2>2 DEF InListedLog
    <3>2. i \in WalIds /\ Listed(i)
      BY NamesBounded DEF Listed
    <3>3. PICK p \in 1 .. wal_files[i].synced : wal_files[i].recs[p] = e
      BY <3>1
    <3>4. /\ wal_files[i].recs \in Seq(Entries) /\ wal_files[i].synced \in Nat
          /\ wal_files[i].synced <= Len(wal_files[i].recs)
      BY <3>2 DEF TypeOK, Logs
    <3>5. p \in DOMAIN wal_files[i].recs
      BY <3>4, LenProperties
    <3>6. e \in Range(wal_files[i].recs)
      BY <3>3, <3>5 DEF Range
    <3> QED BY <3>2, <3>6 DEF OnDisk
  <2> QED BY <2>1, <2>2 DEF Kept
<1> QED BY <1>1, LsmInvariant, PTL

-----------------------------------------------------------------------------
(***************************************************************************)
(* SessionReadsFresh.  Within a session the entries come out in the order  *)
(* they went in: the memtable is newer than the tables, a table newer than *)
(* those of smaller index, and a table is sorted by key, the newest first. *)
(***************************************************************************)

\* A set of numbers that is not empty has a least member.
LEMMA LeastMember ==
    ASSUME NEW T \in SUBSET Nat, T # {}
    PROVE  \E i \in T : \A j \in T : i <= j
<1> DEFINE less == {p \in Nat \X Nat : p[1] < p[2]}
<1>1. IsWellFoundedOn(less, Nat)
  BY NatLessThanWellFounded DEF OpToRel
<1>2. \E i \in T : \A j \in T : <<j, i>> \notin less
  <2> HIDE DEF less
  <2> QED BY <1>1, WFMin
<1>3. \A i, j \in T : <<j, i>> \notin less => i <= j
  OBVIOUS
<1> HIDE DEF less
<1> QED BY <1>2, <1>3

\* What Min gives.
LEMMA MinIs ==
    ASSUME NEW T \in SUBSET Nat, T # {}
    PROVE  Min(T) \in T /\ \A j \in T : Min(T) <= j
<1>1. \E i \in T : \A j \in T : i <= j
  BY LeastMember
<1> QED BY <1>1 DEF Min

\* What Max gives, of numbers with a bound.
LEMMA MaxIs ==
    ASSUME NEW n \in Nat, NEW T \in SUBSET 0 .. n, T # {}
    PROVE  Max(T) \in T /\ \A j \in T : j <= Max(T)
<1> DEFINE U == {n - t : t \in T}
<1>0. \A t \in T : t \in Nat /\ t <= n /\ n - t \in Nat
  OBVIOUS
<1>1. U \in SUBSET Nat /\ U # {}
  BY <1>0
<1>2. PICK u \in U : \A j \in U : u <= j
  BY <1>1, LeastMember
<1>3. PICK t \in T : u = n - t
  BY <1>2
<1>4. \A j \in T : j \in Nat /\ n - t <= n - j
  BY <1>0, <1>2, <1>3
<1>5. \A j \in T : t >= j
  BY <1>0, <1>4
<1> QED BY <1>5 DEF Max

\* A finite set of numbers has a bound.
LEMMA FiniteBounded ==
    ASSUME NEW S \in SUBSET Nat, IsFiniteSet(S)
    PROVE  \E n \in Nat : \A x \in S : x <= n
<1> DEFINE bounded(U) == \E n \in Nat : \A x \in U : x <= n
           bad == {U \in SUBSET S : ~bounded(U)}
<1> SUFFICES ASSUME bad # {} PROVE FALSE
  OBVIOUS
<1>1. IsWellFoundedOn(StrictSubsetOrdering(S), SUBSET S)
  BY FS_StrictSubsetOrderingWellFounded, FS_FiniteSubsetsOfFinite
<1>2. bad \subseteq SUBSET S
  OBVIOUS
<1>3. PICK U \in bad : \A W \in bad : <<W, U>> \notin StrictSubsetOrdering(S)
  <2> HIDE DEF bad
  <2> QED BY <1>1, <1>2, WFMin
<1>4. PICK u \in U : u \in Nat
  <2>1. U # {}
    <3>1. 0 \in Nat /\ (U = {} => bounded(U))
      OBVIOUS
    <3> QED BY <3>1
  <2> QED BY <2>1
<1> DEFINE W == U \ {u}
<1>5. W \in SUBSET S /\ <<W, U>> \in StrictSubsetOrdering(S)
  BY <1>4 DEF StrictSubsetOrdering
<1>6. bounded(W)
  BY <1>3, <1>5
<1>7. PICK n \in Nat : \A x \in W : x <= n
  BY <1>6
<1>8. n + u \in Nat /\ \A x \in U : x <= n + u
  <2>1. \A x \in U : x \in Nat /\ (x \in W \/ x = u)
    OBVIOUS
  <2> QED BY <1>4, <1>7, <2>1
<1> QED BY <1>8

-----------------------------------------------------------------------------
(***************************************************************************)
(* The block index.                                                        *)
(***************************************************************************)

\* The keys of a table ascend.
KeysAscend(t) == \A p, q \in DOMAIN t : p < q => t[p].key <= t[q].key

\* The first entry of k.
First(t, k, p) ==
    /\ p \in DOMAIN t /\ t[p].key = k
    /\ \A q \in DOMAIN t : t[q].key = k => p <= q

\* Blocks start at the multiples of their length.
LEMMA Multiples ==
    ASSUME NEW L \in Nat \ {0}, NEW a \in Nat, NEW b \in Nat, a % L = 0
    PROVE  (a + L) % L = 0 /\ (b % L = 0 /\ a < b => a + L <= b)
<1>1. \A c \in Nat : c % L = 0 => c = L * (c \div L) /\ c \div L \in Int
  <2> TAKE c \in Nat
  <2>1. c = L * (c \div L) + (c % L)
    OBVIOUS
  <2>2. c \div L \in Int
    OBVIOUS
  <2> QED BY <2>1, <2>2
<1>2. PICK p \in Int : a = L * p
  BY <1>1
<1>3. (a + L) % L = 0
  <2>1. a + L = L * (p + 1)
    BY <1>2
  <2>2. p + 1 \in Int
    OBVIOUS
  <2>3. \A q \in Int : (L * q) % L = 0
    OBVIOUS
  <2> QED BY <2>1, <2>2, <2>3
<1>4. ASSUME b % L = 0, a < b PROVE a + L <= b
  <2>1. PICK q \in Int : b = L * q
    BY <1>1, <1>4
  <2>2. L * p < L * q
    BY <1>2, <1>4, <2>1
  <2>3. p < q
    BY <2>2
  <2>4. p + 1 <= q
    BY <2>3
  <2>5. L * (p + 1) <= L * q
    BY <2>4
  <2>6. L * (p + 1) = L * p + L
    OBVIOUS
  <2> QED BY <1>2, <2>1, <2>5, <2>6
<1> QED BY <1>3, <1>4

\* Products of a larger number.
LEMMA ProductGrows ==
    ASSUME NEW a \in Nat, NEW b \in Nat, NEW w \in Nat, a <= b
    PROVE  a * w \in Nat /\ b * w \in Nat /\ a * w <= b * w
<1>1. PICK d \in Nat : b = a + d
  <2>1. b - a \in Nat /\ b = a + (b - a)
    OBVIOUS
  <2> QED BY <2>1
<1>2. a * w \in Nat /\ d * w \in Nat /\ b * w \in Nat
  OBVIOUS
<1>3. (a + d) * w = a * w + d * w
  OBVIOUS
<1> QED BY <1>1, <1>2, <1>3

\* The positions of a block.
LEMMA BlockIs ==
    ASSUME NEW t \in Seq(Entries), NEW i \in BlockStarts(t)
    PROVE  /\ i \in DOMAIN t /\ i \in Nat \ {0} /\ (i - 1) % BlockLen = 0
           /\ BlockAt(t, i) = {j \in DOMAIN t : i <= j /\ j < i + BlockLen}
           /\ i \in BlockAt(t, i)
<1>1. BlockLen \in Nat \ {0} /\ DOMAIN t = 1 .. Len(t) /\ Len(t) \in Nat
  BY BlockAssumption, LenProperties
<1>2. i \in 1 .. Len(t) /\ (i - 1) % BlockLen = 0
  BY <1>1 DEF BlockStarts
<1> DEFINE ends == {i + BlockLen - 1, Len(t)}
<1>3. ends \in SUBSET Nat /\ ends # {}
  BY <1>1, <1>2
<1>4. Min(ends) \in ends /\ \A e \in ends : Min(ends) <= e
  BY <1>3, MinIs
<1>5. \A j \in Nat : j <= Min(ends) <=> j < i + BlockLen /\ j <= Len(t)
  BY <1>1, <1>2, <1>4
<1>6. BlockAt(t, i) = i .. Min(ends) /\ Min(ends) \in Nat
  BY <1>3, <1>4 DEF BlockAt
<1> HIDE DEF ends
<1>7. BlockAt(t, i) = {j \in DOMAIN t : i <= j /\ j < i + BlockLen}
  BY <1>1, <1>2, <1>5, <1>6
<1> QED BY <1>1, <1>2, <1>7

\* Every position is in a block, and in one only.
LEMMA InOneBlock ==
    ASSUME NEW t \in Seq(Entries), NEW p \in DOMAIN t
    PROVE  /\ \E i \in BlockStarts(t) : p \in BlockAt(t, i)
           /\ \A i, j \in BlockStarts(t) : p \in BlockAt(t, i) /\ j <= p => j <= i
<1>1. BlockLen \in Nat \ {0} /\ DOMAIN t = 1 .. Len(t) /\ Len(t) \in Nat /\ p \in 1 .. Len(t)
  BY BlockAssumption, LenProperties
<1> DEFINE T == {i \in BlockStarts(t) : i <= p}
<1>2. T \in SUBSET 0 .. Len(t)
  BY <1>1 DEF BlockStarts
<1>3. 1 \in T
  <2>1. 0 % BlockLen = 0
    BY <1>1
  <2>2. 1 \in 1 .. Len(t) /\ 1 <= p /\ 1 - 1 = 0
    BY <1>1
  <2>3. (1 - 1) % BlockLen = 0
    BY <2>1, <2>2
  <2> QED BY <1>1, <2>2, <2>3 DEF BlockStarts
<1>4. Max(T) \in T /\ \A j \in T : j <= Max(T)
  BY <1>1, <1>2, <1>3, MaxIs
<1> DEFINE i == Max(T)
<1>5. i \in BlockStarts(t) /\ i <= p
  BY <1>4
<1>6. i \in Nat \ {0} /\ (i - 1) % BlockLen = 0
      /\ BlockAt(t, i) = {j \in DOMAIN t : i <= j /\ j < i + BlockLen}
  BY <1>5, BlockIs
<1> HIDE DEF T, i
<1>7. p < i + BlockLen
  <2> SUFFICES ASSUME ~(p < i + BlockLen) PROVE FALSE
    OBVIOUS
  <2>1. i + BlockLen \in DOMAIN t /\ i - 1 \in Nat /\ i + BlockLen - 1 = i - 1 + BlockLen
        /\ i + BlockLen <= p
    BY <1>1, <1>6
  <2>2. (i + BlockLen - 1) % BlockLen = 0
    BY <1>1, <1>6, <2>1, Multiples
  <2>3. i + BlockLen \in T
    BY <1>1, <1>6, <2>1, <2>2 DEF T, BlockStarts
  <2>4. i + BlockLen <= i
    BY <1>4, <2>3 DEF i
  <2> QED BY <1>1, <1>6, <2>4
<1>8. ASSUME NEW a \in BlockStarts(t), NEW b \in BlockStarts(t), p \in BlockAt(t, a), b <= p
      PROVE  b <= a
  <2>1. /\ a \in Nat \ {0} /\ (a - 1) % BlockLen = 0 /\ p < a + BlockLen
        /\ b \in Nat \ {0} /\ (b - 1) % BlockLen = 0
    BY <1>8, BlockIs
  <2> SUFFICES ASSUME a < b PROVE FALSE
    BY <2>1
  <2>2. a - 1 \in Nat /\ b - 1 \in Nat /\ a - 1 < b - 1
    BY <2>1
  <2>3. a - 1 + BlockLen <= b - 1
    BY <1>1, <2>1, <2>2, Multiples
  <2> QED BY <1>1, <1>8, <2>1, <2>3
<1> QED BY <1>1, <1>5, <1>6, <1>7, <1>8

\* A search finds the first entry of a key whose entries are all in one block.
LEMMA GetsFirst ==
    ASSUME NEW t \in Seq(Entries), KeysAscend(t), Keys \subseteq Nat,
           NEW k, NEW p, First(t, k, p), ~Split(t, k)
    PROVE  get(t, k) = {IF t[p].live THEN t[p] ELSE NotFound}
<1>1. DOMAIN t = 1 .. Len(t) /\ Len(t) \in Nat /\ p \in DOMAIN t /\ t[p].key = k
      /\ \A q \in DOMAIN t : t[q].key \in Nat /\ q \in Nat
  <2>1. DOMAIN t = 1 .. Len(t) /\ Len(t) \in Nat /\ \A q \in 1 .. Len(t) : t[q] \in Entries
    BY LenProperties
  <2>2. \A e \in Entries : e.key \in Nat
    BY DEF Entries
  <2> HIDE DEF Entries
  <2> QED BY <2>1, <2>2 DEF First
<1>2. PICK s \in BlockStarts(t) : p \in BlockAt(t, s)
  BY <1>1, InOneBlock
<1> DEFINE has == {i \in BlockStarts(t) : \E j \in BlockAt(t, i) : t[j].key = k}
<1>3. \A i \in has : i = s
  <2> SUFFICES ASSUME NEW i \in has, i # s PROVE FALSE
    OBVIOUS
  <2>1. IsFiniteSet(has)
    <3>1. has \in SUBSET (1 .. Len(t))
      BY <1>1 DEF BlockStarts
    <3>2. IsFiniteSet(1 .. Len(t))
      BY <1>1, FS_Interval
    <3> QED BY <3>1, <3>2, FS_Subset
  <2>2. s \in has
    BY <1>1, <1>2
  <2>3. {s, i} \in SUBSET has
    BY <2>2
  <2>4. Cardinality({s, i}) = 2
    <3>1. IsFiniteSet({s}) /\ Cardinality({s}) = 1 /\ i \notin {s}
      BY FS_Singleton
    <3>2. Cardinality({s} \cup {i}) = Cardinality({s}) + 1
      BY <3>1, FS_AddElement
    <3>3. {s} \cup {i} = {s, i}
      OBVIOUS
    <3>4. Cardinality({s, i}) = 1 + 1
      BY <3>1, <3>2, <3>3
    <3> QED BY <3>4
  <2>5. Cardinality({s, i}) <= Cardinality(has) /\ Cardinality(has) \in Nat
    BY <2>1, <2>3, FS_Subset, FS_CardinalityType
  <2>6. ~(Cardinality(has) > 1)
    BY DEF Split
  <2> HIDE DEF has
  <2> QED BY <2>4, <2>5, <2>6
<1>4. s \in DOMAIN t /\ s <= p /\ s \in Nat /\ p \in Nat
  BY <1>1, <1>2, BlockIs
<1> DEFINE equal == {i \in BlockStarts(t) : t[i].key = k}
           below == {i \in BlockStarts(t) : t[i].key < k}
<1>5. \A i \in equal : i = s
  BY <1>3, BlockIs
<1>6. find_block(t, k) = {s}
  <2>1. CASE t[s].key = k
    BY <1>2, <1>5, <2>1 DEF find_block
  <2>2. CASE t[s].key # k
    <3>1. equal = {}
      BY <1>5, <2>2
    <3>2. t[s].key < k
      <4>1. t[s].key <= k
        BY <1>1, <1>4, <2>2 DEF KeysAscend
      <4> QED BY <1>1, <1>4, <2>2, <4>1
    <3>3. s \in below /\ below \in SUBSET 0 .. Len(t)
      BY <1>1, <1>2, <3>2 DEF BlockStarts
    <3> DEFINE m == Max(below)
    <3>4. m \in below /\ s <= m
      BY <1>1, <3>3, MaxIs
    <3> HIDE DEF m
    <3>5. m \in BlockStarts(t) /\ t[m].key < k /\ m \in DOMAIN t
      BY <3>4 DEF BlockStarts
    <3>6. m <= p
      <4> SUFFICES ASSUME p < m PROVE FALSE
        BY <1>1, <3>5
      <4>1. t[p].key <= t[m].key
        BY <1>1, <3>5 DEF KeysAscend
      <4> QED BY <1>1, <3>5, <4>1
    <3>7. m <= s
      BY <1>1, <1>2, <3>5, <3>6, InOneBlock
    <3>8. m = s
      BY <1>1, <1>4, <3>4, <3>5, <3>7
    <3>9. below # {}
      BY <3>3
    <3> QED BY <3>1, <3>8, <3>9 DEF find_block, m
  <2> QED BY <2>1, <2>2
<1>7. search_block(t, s, k) = IF t[p].live THEN t[p] ELSE NotFound
  <2> DEFINE at == {j \in BlockAt(t, s) : t[j].key = k}
  <2>1. p \in at /\ at \in SUBSET DOMAIN t
    BY <1>1, <1>2, BlockIs
  <2>2. at \in SUBSET Nat /\ at # {}
    BY <1>1, <2>1
  <2>3. Min(at) \in at /\ \A j \in at : Min(at) <= j
    BY <2>2, MinIs
  <2>4. p <= Min(at) /\ Min(at) <= p
    BY <2>1, <2>3 DEF First
  <2>5. Min(at) = p
    BY <1>4, <2>2, <2>3, <2>4
  <2> QED BY <2>2, <2>5 DEF search_block
<1>8. t # <<>>
  BY <1>1
<1> QED BY <1>6, <1>7, <1>8 DEF get

\* Whatever else a search answers is an entry of the key.
LEMMA GetsAnEntry ==
    ASSUME NEW t \in Seq(Entries), NEW k, NEW v \in get(t, k), v # NotFound
    PROVE  \E p \in DOMAIN t : t[p] = v /\ t[p].key = k
<1>1. t # <<>>
  BY DEF get
<1>2. PICK i \in find_block(t, k) : v = search_block(t, i, k)
  BY <1>1 DEF get
<1> DEFINE at == {j \in BlockAt(t, i) : t[j].key = k}
<1>3. at # {} /\ v = t[Min(at)]
  BY <1>2 DEF search_block
<1>4. i \in BlockStarts(t)
  <2> DEFINE below == {j \in BlockStarts(t) : t[j].key < k}
  <2>1. i \in BlockStarts(t) \/ (below # {} /\ i = Max(below))
    BY <1>2 DEF find_block
  <2>2. Len(t) \in Nat /\ DOMAIN t = 1 .. Len(t)
    BY LenProperties
  <2>3. below \in SUBSET 0 .. Len(t)
    BY <2>2 DEF BlockStarts
  <2>4. below # {} => Max(below) \in below
    BY <2>2, <2>3, MaxIs
  <2> QED BY <2>1, <2>4
<1>5. at \in SUBSET DOMAIN t
  BY <1>4, BlockIs
<1>6. at \in SUBSET Nat
  BY <1>5, LenProperties
<1>7. Min(at) \in at
  BY <1>3, <1>6, MinIs
<1> QED BY <1>3, <1>5, <1>7

\* A key that is in the table has a first entry.
LEMMA FirstExists ==
    ASSUME NEW t \in Seq(Entries), NEW k, HasKey(t, k)
    PROVE  \E p \in DOMAIN t : First(t, k, p)
<1> DEFINE T == {p \in DOMAIN t : t[p].key = k}
<1>1. T \in SUBSET Nat /\ T # {}
  BY LenProperties DEF HasKey
<1>2. PICK p \in T : \A j \in T : p <= j
  BY <1>1, LeastMember
<1> QED BY <1>2 DEF First

-----------------------------------------------------------------------------
(***************************************************************************)
(* What makes reads fresh.                                                 *)
(***************************************************************************)

\* The most timestamps a request takes, and one more.
Width == 1 + Max({0} \cup {Len(b) : b \in Batches})

\* The entries this session has applied.
Current == {e \in applied : e.session = crashes}

\* Entries are numbered as they are applied; a request of the instance takes
\* fewer than Width timestamps, and a new session has applied nothing.
Counted ==
    /\ \A e \in applied : /\ e.n \in 1 .. Cardinality(applied) /\ e.session <= crashes
                          /\ e.ts <= requests * Width /\ e.after < e.n
    /\ \A e, f \in applied : e.n = f.n => e = f
    /\ status # "up" => Current = {} /\ pending = {}
    /\ requests <= MaxWrites /\ next_ts <= 1 + requests * Width

\* Within a session timestamps are not used twice, and a request that began when
\* an entry was in place has larger ones.
Ordered ==
    /\ \A e \in Current : e.ts < next_ts
    /\ \A e, f \in Current : e.ts = f.ts => e = f
    /\ \A e, f \in Current : e.n <= f.after => e.ts < f.ts

\* So will the entries of the requests that wait for the lock.
Waiting ==
    /\ \A r \in pending :
          /\ r.ts + Len(r.ops) <= next_ts /\ r.after <= Cardinality(applied)
          /\ \A e \in Current : /\ e.ts < r.ts \/ r.ts + Len(r.ops) <= e.ts
                                /\ e.n <= r.after => e.ts < r.ts
    /\ \A r, s \in pending :
          r # s => r.ts + Len(r.ops) <= s.ts \/ s.ts + Len(s.ops) <= r.ts

\* What is in memory and in the logs was applied.
FromApplied ==
    /\ memtable \subseteq applied /\ imm \subseteq applied
    /\ \A i \in WalIds : Range(wal_files[i].recs) \subseteq applied

\* A table holds entries of A, by key and, for a key, from the newest to the
\* oldest, although it has lost their timestamps.
SortedTable(t, A) ==
    /\ \A p \in DOMAIN t : \E e \in A : t[p] = [e EXCEPT !.ts = 0]
    /\ \A p, q \in DOMAIN t : p < q =>
          \/ t[p].key < t[q].key
          \/ /\ t[p].key = t[q].key
             /\ \A e, f \in A : e.n = t[p].n /\ f.n = t[q].n => e.ts > f.ts

TablesSorted == \A i \in SstIds : SortedTable(sst_files[i], applied)

\* The memtable has everything this session applied since its oldest entry.
NewestInMemory == \A u \in memtable, w \in Current : u.n <= w.n => w \in memtable

\* All this session applied is in memory or in a table.
NoneMissing == \A w \in Current : w \in memtable \/ w \in imm \/ Flushed(w)

\* The entry at a place of a table.
At(i, p) == sst_files[levels[i]][p]

\* What lies above an entry of this session in a table was applied later.
Layered ==
    \A i \in DOMAIN levels : \A p \in DOMAIN sst_files[levels[i]] :
        At(i, p).session = crashes =>
            /\ \A x \in memtable \cup imm : x \in Current /\ At(i, p).n < x.n
            /\ \A j \in i + 1 .. Len(levels) : \A q \in DOMAIN sst_files[levels[j]] :
                  At(j, q).session = crashes /\ At(i, p).n < At(j, q).n

Placed == NewestInMemory /\ NoneMissing /\ Layered

\* The two memtables during a rotation, and the table it writes.
Rotating ==
    /\ pc = "idle" => imm = {}
    /\ pc # "idle" => memtable = {}
    /\ pc = "list_sst" => sst_files[next_sst_id - 1] = BuildTable(imm)

FreshInv ==
    /\ LsmInv /\ Counted /\ Ordered /\ Waiting
    /\ FromApplied /\ TablesSorted /\ Placed /\ Rotating

\* No batch is longer than the longest.
LEMMA WidthIs == Width \in Nat \ {0} /\ \A b \in Batches : Len(b) < Width
<1> DEFINE lens == {Len(b) : b \in Batches}
           all  == {0} \cup lens
<1>1. IsFiniteSet(Batches) /\ \A b \in Batches : Len(b) \in Nat
  BY LsmAssumption, LenProperties
<1>2. IsFiniteSet(lens)
  <2> DEFINE f == [b \in Batches |-> Len(b)]
  <2>1. DOMAIN f = Batches /\ f = [b \in Batches |-> f[b]] /\ lens = {f[b] : b \in Batches}
    OBVIOUS
  <2> HIDE DEF f, lens
  <2>2. IsFiniteSet({f[b] : b \in Batches})
    BY <1>1, <2>1, FiniteImage
  <2> QED BY <2>1, <2>2
<1>3. IsFiniteSet(all) /\ all \in SUBSET Nat /\ all # {}
  <2>1. IsFiniteSet({0})
    BY FS_Singleton
  <2>2. IsFiniteSet(all)
    BY <1>2, <2>1, FS_Union
  <2> QED BY <1>1, <2>2
<1> HIDE DEF all
<1>4. \E m \in all : \A x \in all : m >= x
  <2>1. PICK n \in Nat : \A x \in all : x <= n
    BY <1>3, FiniteBounded
  <2>2. all \in SUBSET 0 .. n
    BY <1>3, <2>1
  <2>3. Max(all) \in all /\ \A x \in all : x <= Max(all)
    BY <1>3, <2>2, MaxIs
  <2>4. Max(all) \in Nat
    BY <1>3, <2>3
  <2>5. \A x \in all : Max(all) >= x
    BY <1>3, <2>3, <2>4
  <2> QED BY <2>3, <2>5
<1>5. Max(all) \in all /\ \A x \in all : Max(all) >= x
  BY <1>4 DEF Max
<1>6. Max(all) \in Nat /\ Width = 1 + Max(all)
  BY <1>3, <1>5 DEF Width, all
<1>7. ASSUME NEW b \in Batches PROVE Len(b) < Width
  <2>1. Len(b) \in all /\ Len(b) \in Nat
    BY <1>1 DEF all
  <2> QED BY <1>5, <1>6, <2>1
<1> QED BY <1>6, <1>7

\* SSTableBuilder gets the entries in the order of Key.
LEMMA TableOrder ==
    ASSUME NEW S \in SUBSET Entries, IsFiniteSet(S), OneEach(S), Keys \subseteq Nat
    PROVE  \E at \in [1 .. Cardinality(S) -> S] :
              /\ BuildTable(S) = [i \in 1 .. Cardinality(S) |-> [at[i] EXCEPT !.ts = 0]]
              /\ \A p, q \in 1 .. Cardinality(S) : p < q => KeyLess(at[p], at[q])
<1> DEFINE n  == Cardinality(S)
           at == [i \in 1 .. n |-> CHOOSE e \in S : Rank(S, e) = i - 1]
           below(e) == {f \in S : KeyLess(f, e)}
<1>1. n \in Nat
  BY RanksTaken
<1>2. \A i \in 1 .. n : at[i] \in S /\ Rank(S, at[i]) = i - 1
  <2> TAKE i \in 1 .. n
  <2>1. i - 1 \in 0 .. n - 1
    BY <1>1
  <2>2. \E e \in S : Rank(S, e) = i - 1
    BY <2>1, RanksTaken
  <2> QED BY <2>2
<1>3. InKeyOrder(S) = at
  BY DEF InKeyOrder, Rank
<1>4. BuildTable(S) = [i \in 1 .. n |-> [at[i] EXCEPT !.ts = 0]]
  BY <1>3 DEF BuildTable
<1> HIDE DEF at
<1>5. \A e, f \in S : KeyLess(e, f) \/ KeyLess(f, e) \/ e = f
  <2>1. \A e \in S : e.key \in Nat /\ e.ts \in Nat
    BY DEF Entries
  <2> QED BY <2>1 DEF KeyLess, OneEach, SameVersion
<1>6. ASSUME NEW e \in S, NEW f \in S, KeyLess(f, e) PROVE Rank(S, f) <= Rank(S, e)
  <2>1. \A g \in S : KeyLess(g, f) => KeyLess(g, e)
    <3>1. \A g \in S : g.key \in Nat /\ g.ts \in Nat
      BY DEF Entries
    <3> QED BY <1>6, <3>1 DEF KeyLess
  <2>2. below(f) \in SUBSET below(e) /\ below(e) \in SUBSET S
    BY <2>1
  <2>3. IsFiniteSet(below(e))
    BY <2>2, FS_Subset
  <2>4. Cardinality(below(f)) <= Cardinality(below(e))
    BY <2>2, <2>3, FS_Subset
  <2> QED BY <2>4 DEF Rank
<1>7. ASSUME NEW p \in 1 .. n, NEW q \in 1 .. n, p < q PROVE KeyLess(at[p], at[q])
  <2>1. Rank(S, at[p]) = p - 1 /\ Rank(S, at[q]) = q - 1 /\ p \in Nat /\ q \in Nat
    BY <1>1, <1>2
  <2>2. ~(Rank(S, at[q]) <= Rank(S, at[p]))
    BY <1>7, <2>1
  <2>3. at[p] # at[q]
    BY <1>7, <2>1
  <2> QED BY <1>2, <1>5, <1>6, <2>2, <2>3
<1>8. at \in [1 .. n -> S]
  BY <1>2 DEF at
<1> QED BY <1>4, <1>7, <1>8

\* Nothing else is in it.
LEMMA TableOf ==
    ASSUME NEW S \in SUBSET Entries, IsFiniteSet(S), OneEach(S), Keys \subseteq Nat,
           NEW q \in DOMAIN BuildTable(S)
    PROVE  \E x \in S : BuildTable(S)[q].session = x.session /\ BuildTable(S)[q].n = x.n
<1>1. PICK at \in [1 .. Cardinality(S) -> S] :
          BuildTable(S) = [i \in 1 .. Cardinality(S) |-> [at[i] EXCEPT !.ts = 0]]
  BY TableOrder
<1>2. q \in 1 .. Cardinality(S) /\ BuildTable(S)[q] = [at[q] EXCEPT !.ts = 0]
  BY <1>1
<1>3. at[q] \in S /\ at[q] \in Entries
  BY <1>2
<1>4. /\ [at[q] EXCEPT !.ts = 0].session = at[q].session
      /\ [at[q] EXCEPT !.ts = 0].n = at[q].n
  BY <1>3 DEF Entries
<1> QED BY <1>2, <1>3, <1>4

\* A table of applied entries is sorted.
LEMMA BuiltSorted ==
    ASSUME NEW A \in SUBSET Entries, NEW S \in SUBSET A, IsFiniteSet(S), OneEach(S),
           Keys \subseteq Nat, \A e, f \in A : e.n = f.n => e = f
    PROVE  SortedTable(BuildTable(S), A)
<1> DEFINE n == Cardinality(S)
           t == BuildTable(S)
<1>1. S \in SUBSET Entries /\ n \in Nat
  BY FS_CardinalityType
<1>2. PICK at \in [1 .. n -> S] :
          /\ t = [i \in 1 .. n |-> [at[i] EXCEPT !.ts = 0]]
          /\ \A p, q \in 1 .. n : p < q => KeyLess(at[p], at[q])
  BY <1>1, TableOrder
<1> HIDE DEF n, t
<1>3. /\ DOMAIN t = 1 .. n
      /\ \A i \in 1 .. n : at[i] \in A /\ at[i] \in Entries /\ t[i] = [at[i] EXCEPT !.ts = 0]
  BY <1>1, <1>2
<1>4. \A e \in Entries : [e EXCEPT !.ts = 0].key = e.key /\ [e EXCEPT !.ts = 0].n = e.n
  BY DEF Entries
<1>5. \A i \in 1 .. n : t[i].key = at[i].key /\ t[i].n = at[i].n
  BY <1>3, <1>4
<1>6. ASSUME NEW p \in 1 .. n, NEW q \in 1 .. n, p < q
      PROVE  \/ t[p].key < t[q].key
             \/ /\ t[p].key = t[q].key
                /\ \A e, f \in A : e.n = t[p].n /\ f.n = t[q].n => e.ts > f.ts
  <2>1. KeyLess(at[p], at[q])
    BY <1>2, <1>6
  <2>2. \A e, f \in A : e.n = t[p].n /\ f.n = t[q].n => e = at[p] /\ f = at[q]
    BY <1>3, <1>5
  <2> QED BY <1>5, <2>1, <2>2 DEF KeyLess
<1>7. SortedTable(t, A)
  BY <1>3, <1>6 DEF SortedTable
<1> QED BY <1>7 DEF t

\* Entries applied later, with other numbers, do not change that.
LEMMA StaysSorted ==
    ASSUME NEW A \in SUBSET Entries, NEW B, NEW t, A \subseteq B, SortedTable(t, A),
           \A e \in B, a \in A : e.n = a.n => e \in A
    PROVE  SortedTable(t, B)
<1>1. \A p \in DOMAIN t : \E e \in A : t[p].n = e.n
  <2> TAKE p \in DOMAIN t
  <2>1. PICK e \in A : t[p] = [e EXCEPT !.ts = 0]
    BY DEF SortedTable
  <2>2. [e EXCEPT !.ts = 0].n = e.n
    BY DEF Entries
  <2> QED BY <2>1, <2>2
<1>2. \A p \in DOMAIN t : \A e \in B : e.n = t[p].n => e \in A
  BY <1>1
<1> QED BY <1>2 DEF SortedTable

\* The entries of a request follow all others in number, and each other in
\* number and timestamp.
LEMMA NewEntries ==
    ASSUME TypeOK, NEW r \in pending
    PROVE  LET es == EntriesOf(r)
               N  == Cardinality(applied)
           IN  /\ N \in Nat /\ Len(r.ops) \in Nat /\ r.ts \in Nat /\ r.after \in Nat
               /\ DOMAIN es = 1 .. Len(r.ops) /\ Len(es) = Len(r.ops)
               /\ \A i \in 1 .. Len(r.ops) :
                     /\ es[i] \in Range(es) /\ es[i] \in Entries
                     /\ es[i].n = N + i /\ es[i].ts = r.ts + i - 1
                     /\ es[i].after = r.after /\ es[i].session = crashes
               /\ \A e \in Range(es) : \E i \in 1 .. Len(r.ops) : e = es[i]
               /\ IsFiniteSet(Range(es)) /\ Cardinality(Range(es)) = Len(r.ops)
<1> DEFINE es == EntriesOf(r)
           N  == Cardinality(applied)
           L  == Len(r.ops)
<1>1. /\ r.ops \in Seq(Ops) /\ r.ts \in Nat /\ r.after \in Nat /\ crashes \in Nat /\ N \in Nat
  <2>1. r \in Requests /\ crashes \in 0 .. MaxCrashes /\ IsFiniteSet(applied)
    BY DEF TypeOK
  <2>2. r.ops \in Seq(Ops) /\ r.ts \in Nat /\ r.after \in Nat
    BY <2>1 DEF Requests
  <2>3. crashes \in Nat /\ Cardinality(applied) \in Nat
    BY <2>1, FS_CardinalityType, LsmAssumption
  <2> QED BY <2>2, <2>3
<1>2. DOMAIN r.ops = 1 .. L /\ L \in Nat
  BY <1>1, LenProperties
<1>3. /\ DOMAIN es = 1 .. L
      /\ \A i \in 1 .. L : /\ es[i].n = N + i /\ es[i].ts = r.ts + i - 1
                           /\ es[i].after = r.after /\ es[i].session = crashes
  BY <1>2 DEF EntriesOf
<1>4. es \in Seq(Entries) /\ IsFiniteSet(Range(es))
  BY EntriesType
<1> HIDE DEF es, L, N
<1>5. Len(es) = L /\ \A i \in 1 .. L : es[i] \in Entries
  BY <1>2, <1>3, <1>4, LenProperties
<1>6. Range(es) = {es[i] : i \in 1 .. L}
  BY <1>3 DEF Range
<1>7. Cardinality(Range(es)) = L
  <2>1. es \in [1 .. L -> Range(es)]
    <3>1. es = [i \in 1 .. L |-> es[i]]
      BY <1>3, <1>4
    <3> QED BY <1>6, <3>1
  <2>2. \A i, j \in 1 .. L : es[i] = es[j] => i = j
    <3> SUFFICES ASSUME NEW i \in 1 .. L, NEW j \in 1 .. L, es[i] = es[j] PROVE i = j
      OBVIOUS
    <3>1. N + i = N + j
      BY <1>3
    <3>2. N \in Nat /\ i \in Nat /\ j \in Nat
      BY <1>1, <1>2 DEF N
    <3> QED BY <3>1, <3>2
  <2>3. es \in Bijection(1 .. L, Range(es))
    BY <1>6, <2>1, <2>2 DEF Bijection, Injection, Surjection, IsInjective
  <2> QED BY <1>2, <2>3, FS_CountingElements DEF ExistsBijection
<1> QED BY <1>1, <1>2, <1>3, <1>4, <1>5, <1>6, <1>7 DEF es, L, N

\* The kinds of steps.
LEMMA Steps ==
    ASSUME [Next]_vars
    PROVE  \/ \E kind \in {"put", "delete", "batch"}, ops \in Seq(Ops) :
                 TakeTs(kind, ops) /\ Len(ops) <= Width /\ Len(ops) \in Nat
           \/ \E r \in pending : Apply(r)
           \/ WriteSst \/ ListSst \/ Crash \/ Close \/ Open
           \/ Sync \/ RotateSync \/ ListWal \/ CreateWal
           \/ UNCHANGED vars
<1>1. ASSUME NEW k \in Keys, NEW live \in BOOLEAN
      PROVE  /\ <<Op(k, live)>> \in Seq(Ops) /\ Len(<<Op(k, live)>>) <= Width
             /\ Len(<<Op(k, live)>>) \in Nat
  <2>1. Op(k, live) \in Ops
    BY DEF Op, Ops
  <2>2. \A op \in Ops : <<op>> \in Seq(Ops) /\ Len(<<op>>) = 1
    OBVIOUS
  <2>3. <<Op(k, live)>> \in Seq(Ops) /\ Len(<<Op(k, live)>>) = 1
    BY <2>1, <2>2
  <2>4. 1 <= Width /\ 1 \in Nat
    BY WidthIs
  <2> QED BY <2>3, <2>4
<1>2. ASSUME NEW b \in Batches PROVE b \in Seq(Ops) /\ Len(b) <= Width /\ Len(b) \in Nat
  <2>1. b \in Seq(Ops)
    BY LsmAssumption DEF Ops
  <2> QED BY <2>1, WidthIs, LenProperties
<1>3. CASE \E k \in Keys : Put(k) \/ Delete(k)
  BY <1>1, <1>3 DEF Put, Delete
<1>4. CASE \E b \in Batches : WriteBatch(b)
  BY <1>2, <1>4 DEF WriteBatch
<1> QED BY <1>3, <1>4 DEF Next

\* Most steps leave the requests, the clock and the history alone.
LEMMA HistoryKept ==
    ASSUME \/ WriteSst \/ ListSst \/ Sync \/ RotateSync \/ ListWal \/ CreateWal
           \/ UNCHANGED vars
    PROVE  UNCHANGED <<applied, crashes, requests, next_ts, pending, status>>
BY DEF WriteSst, ListSst, Sync, RotateSync, ListWal, CreateWal, vars, history

\* What a request finds and leaves when it gets the lock.
LEMMA Applying ==
    ASSUME TypeOK, Counted, Waiting, NEW r \in pending, Apply(r)
    PROVE  LET es == EntriesOf(r)
               N  == Cardinality(applied)
           IN  /\ applied' = applied \cup Range(es) /\ pending' = pending \ {r}
               /\ UNCHANGED <<status, next_ts, requests, crashes>> /\ Up
               /\ Cardinality(applied') = N + Len(r.ops)
               /\ \A e \in applied : /\ e \in Entries /\ e.n \in Nat /\ e.n <= N
                                     /\ e.ts \in Nat /\ e.after \in Nat
               /\ \A e \in Range(es) :
                     /\ e \in Entries /\ e.n \in Nat /\ N < e.n /\ e.n <= N + Len(r.ops)
                     /\ e.ts \in Nat /\ r.ts <= e.ts /\ e.ts < r.ts + Len(r.ops)
                     /\ e.after = r.after /\ e.session = crashes /\ e \in Current'
               /\ \A e, f \in Range(es) : /\ e.n = f.n => e = f
                                          /\ e.ts = f.ts => e = f
               /\ \A e \in Current' : e \in Current \/ e \in Range(es)
               /\ Current \subseteq Current'
<1> DEFINE es == EntriesOf(r)
           N  == Cardinality(applied)
           L  == Len(r.ops)
<1>1. /\ applied' = applied \cup Range(es) /\ pending' = pending \ {r}
      /\ UNCHANGED <<status, next_ts, requests, crashes>> /\ Up
  BY DEF Apply
<1>2. /\ N \in Nat /\ L \in Nat /\ r.ts \in Nat
      /\ \A i \in 1 .. L : /\ es[i] \in Range(es) /\ es[i] \in Entries
                           /\ es[i].n = N + i /\ es[i].ts = r.ts + i - 1
                           /\ es[i].after = r.after /\ es[i].session = crashes
      /\ \A e \in Range(es) : \E i \in 1 .. L : e = es[i]
      /\ IsFiniteSet(Range(es)) /\ Cardinality(Range(es)) = L
  BY NewEntries
<1> HIDE DEF es, N, L
<1>3. \A e \in applied : /\ e \in Entries /\ e.n \in Nat /\ e.n <= N
                         /\ e.ts \in Nat /\ e.after \in Nat
  <2>1. applied \in SUBSET Entries
    BY DEF TypeOK
  <2> QED BY <1>2, <2>1 DEF Counted, Entries, N
<1>4. \A e \in Range(es) :
          /\ e \in Entries /\ e.n \in Nat /\ N < e.n /\ e.n <= N + L
          /\ e.ts \in Nat /\ r.ts <= e.ts /\ e.ts < r.ts + L
          /\ e.after = r.after /\ e.session = crashes
  <2> TAKE e \in Range(es)
  <2>1. PICK i \in 1 .. L : e = es[i]
    BY <1>2
  <2>2. i \in Nat /\ 1 <= i /\ i <= L
    BY <1>2
  <2> QED BY <1>2, <2>1, <2>2
<1>5. \A e, f \in Range(es) : (e.n = f.n => e = f) /\ (e.ts = f.ts => e = f)
  <2> TAKE e, f \in Range(es)
  <2>1. PICK i \in 1 .. L : e = es[i]
    BY <1>2
  <2>2. PICK j \in 1 .. L : f = es[j]
    BY <1>2
  <2>3. i \in Nat /\ j \in Nat
    BY <1>2
  <2>4. e.n = N + i /\ f.n = N + j /\ e.ts = r.ts + i - 1 /\ f.ts = r.ts + j - 1
    BY <1>2, <2>1, <2>2
  <2>5. e.n = f.n \/ e.ts = f.ts => i = j
    BY <1>2, <2>3, <2>4
  <2> QED BY <2>1, <2>2, <2>5
<1>6. Cardinality(applied') = N + L
  <2>1. applied \cap Range(es) = {}
    BY <1>2, <1>3, <1>4
  <2>2. IsFiniteSet(applied)
    BY DEF TypeOK
  <2>3. Cardinality(applied \cup Range(es))
            = Cardinality(applied) + Cardinality(Range(es)) - Cardinality(applied \cap Range(es))
    BY <1>2, <2>2, FS_Union
  <2>4. Cardinality(applied \cap Range(es)) = 0
    BY <2>1, FS_EmptySet
  <2> QED BY <1>1, <1>2, <2>3, <2>4 DEF N
<1>7. /\ \A e \in Current' : e \in Current \/ e \in Range(es)
      /\ Current \subseteq Current' /\ \A e \in Range(es) : e \in Current'
  BY <1>1, <1>4 DEF Current
<1> QED BY <1>1, <1>3, <1>4, <1>5, <1>6, <1>7 DEF es, N, L

\* Entries are numbered as they are applied.
LEMMA CountedStep ==
    ASSUME TypeOK, Counted, Waiting, [Next]_vars
    PROVE  Counted'
<1>1. /\ Width \in Nat \ {0} /\ requests \in Nat /\ MaxWrites \in Nat /\ crashes \in Nat
      /\ next_ts \in Nat /\ applied \in SUBSET Entries
  <2>1. crashes \in 0 .. MaxCrashes /\ MaxCrashes \in Nat /\ MaxWrites \in Nat
    BY LsmAssumption DEF TypeOK
  <2> QED BY <2>1, WidthIs DEF TypeOK
<1>2. CASE UNCHANGED <<applied, crashes, requests, next_ts, pending, status>>
  BY <1>2 DEF Counted, Current
<1>3. ASSUME NEW kind, NEW ops \in Seq(Ops), TakeTs(kind, ops),
             Len(ops) <= Width, Len(ops) \in Nat
      PROVE  Counted'
  <2>1. /\ applied' = applied /\ crashes' = crashes /\ status' = status /\ status = "up"
        /\ requests' = requests + 1 /\ requests < MaxWrites /\ next_ts' = next_ts + Len(ops)
    BY <1>3 DEF TakeTs, Up
  <2>2. requests' * Width = requests * Width + Width /\ requests * Width \in Nat
    BY <1>1, <2>1
  <2>3. requests' <= MaxWrites /\ next_ts' <= 1 + requests' * Width
    <3>1. next_ts <= 1 + requests * Width
      BY DEF Counted
    <3> QED BY <1>1, <1>3, <2>1, <2>2, <3>1
  <2>4. \A e \in applied : e.ts <= requests' * Width
    <3>1. \A e \in applied : e.ts \in Nat /\ e.ts <= requests * Width
      BY <1>1 DEF Counted, Entries
    <3> QED BY <1>1, <2>2, <3>1
  <2> QED BY <2>1, <2>3, <2>4 DEF Counted
<1>4. ASSUME NEW r \in pending, Apply(r) PROVE Counted'
  <2> DEFINE es == EntriesOf(r)
             N  == Cardinality(applied)
             L  == Len(r.ops)
  <2>1. /\ applied' = applied \cup Range(es)
        /\ UNCHANGED <<status, next_ts, requests, crashes>> /\ Up
        /\ Cardinality(applied') = N + L
        /\ \A e \in applied : e.n \in Nat /\ e.n <= N
        /\ \A e \in Range(es) :
              /\ e.n \in Nat /\ N < e.n /\ e.n <= N + L
              /\ e.ts \in Nat /\ e.ts < r.ts + L /\ e.session = crashes
              /\ e.after = r.after
        /\ \A e, f \in Range(es) : e.n = f.n => e = f
    BY <1>4, Applying
  <2>2. N \in Nat /\ L \in Nat /\ r.ts \in Nat /\ r.after \in Nat /\ r.after <= N
    BY NewEntries DEF Waiting
  <2> HIDE DEF es, N, L
  <2>3. r.ts + L <= next_ts /\ next_ts <= 1 + requests * Width /\ requests * Width \in Nat
    BY <1>1 DEF Waiting, Counted, L
  <2>4. \A e \in applied' : /\ e.n \in 1 .. N + L /\ e.session <= crashes
                            /\ e.ts <= requests * Width /\ e.after < e.n
    <3>1. \A e \in applied : /\ e.n \in 1 .. N /\ e.session <= crashes
                              /\ e.ts <= requests * Width /\ e.after < e.n
      BY DEF Counted, N
    <3>2. \A e \in Range(es) : /\ e.n \in 1 .. N + L /\ e.session <= crashes
                                /\ e.ts <= requests * Width /\ e.after < e.n
      BY <1>1, <2>1, <2>2, <2>3
    <3> QED BY <2>1, <2>2, <3>1, <3>2
  <2>5. \A e, f \in applied' : e.n = f.n => e = f
    <3>1. \A e \in applied, f \in Range(es) : e.n # f.n
      BY <2>1, <2>2
    <3>2. \A e, f \in applied : e.n = f.n => e = f
      BY DEF Counted
    <3> QED BY <2>1, <3>1, <3>2
  <2>6. requests' <= MaxWrites /\ next_ts' <= 1 + requests' * Width /\ status' = "up"
    BY <2>1 DEF Counted, Up
  <2> QED BY <2>1, <2>4, <2>5, <2>6 DEF Counted
<1>5. CASE Crash \/ Close
  <2>1. /\ crashes' = crashes + 1 /\ pending' = {}
        /\ UNCHANGED <<applied, requests, next_ts>>
    BY <1>5 DEF Crash, Close, Die
  <2>2. \A e \in applied : e.session \in Nat /\ e.session <= crashes
    BY <1>1 DEF Counted, Entries
  <2>3. \A e \in applied : e.session <= crashes' /\ e.session # crashes'
    BY <1>1, <2>1, <2>2
  <2>4. Current' = {}
    BY <2>1, <2>3 DEF Current
  <2> QED BY <2>1, <2>3, <2>4 DEF Counted
<1>6. CASE Open
  <2>1. /\ UNCHANGED <<applied, requests, crashes, pending>> /\ status # "up"
        /\ next_ts' \in {1, next_ts}
    BY <1>6 DEF Open, history
  <2>2. Current' = {} /\ pending' = {}
    BY <2>1 DEF Counted, Current
  <2>3. 1 <= 1 + requests * Width
    BY <1>1
  <2>4. next_ts' <= 1 + requests' * Width
    BY <2>1, <2>3 DEF Counted
  <2> QED BY <2>1, <2>2, <2>4 DEF Counted
<1> QED BY <1>2, <1>3, <1>4, <1>5, <1>6, Steps, HistoryKept

\* Timestamps are taken in the order requests begin.
LEMMA OrderedStep ==
    ASSUME TypeOK, Counted, Counted', Ordered, Waiting, [Next]_vars
    PROVE  Ordered'
<1>1. /\ next_ts \in Nat /\ \A e \in Current : /\ e.ts \in Nat /\ e.n \in Nat /\ e.after \in Nat
                                               /\ e \in applied
  BY DEF TypeOK, Current, Entries
<1>2. CASE UNCHANGED <<applied, crashes, requests, next_ts, pending, status>>
  BY <1>2 DEF Ordered, Current
<1>3. ASSUME NEW kind, NEW ops \in Seq(Ops), TakeTs(kind, ops), Len(ops) \in Nat
      PROVE  Ordered'
  <2>1. applied' = applied /\ crashes' = crashes /\ next_ts' = next_ts + Len(ops)
    BY <1>3 DEF TakeTs
  <2>2. Current' = Current
    BY <2>1 DEF Current
  <2>3. \A e \in Current : e.ts < next_ts'
    BY <1>1, <1>3, <2>1 DEF Ordered
  <2> QED BY <2>2, <2>3 DEF Ordered
<1>4. ASSUME NEW r \in pending, Apply(r) PROVE Ordered'
  <2> DEFINE new == Range(EntriesOf(r))
             N   == Cardinality(applied)
             L   == Len(r.ops)
  <2>1. /\ next_ts' = next_ts
        /\ \A e \in applied : e.n \in Nat /\ e.n <= N
        /\ \A e \in new :
              /\ e.n \in Nat /\ N < e.n /\ e.ts \in Nat /\ r.ts <= e.ts
              /\ e.ts < r.ts + L /\ e.after = r.after
        /\ \A e, f \in new : e.ts = f.ts => e = f
        /\ \A e \in Current' : e \in Current \/ e \in new
    BY <1>4, Applying
  <2>2. N \in Nat /\ L \in Nat /\ r.ts \in Nat /\ r.after \in Nat
    BY NewEntries
  <2>3. /\ r.ts + L <= next_ts /\ r.after <= N
        /\ \A e \in Current : /\ e.ts < r.ts \/ r.ts + L <= e.ts
                              /\ e.n <= r.after => e.ts < r.ts
    BY DEF Waiting
  <2>4. \A e \in Current : e.after < e.n
    BY <1>1 DEF Counted
  <2> HIDE DEF new, N, L
  <2>5. \A e \in Current' : e.ts < next_ts'
    BY <1>1, <2>1, <2>2, <2>3 DEF Ordered
  <2>6. \A e \in Current, f \in new : e.ts # f.ts
    BY <1>1, <2>1, <2>2, <2>3
  <2>7. \A e, f \in Current' : e.ts = f.ts => e = f
    BY <2>1, <2>6 DEF Ordered
  <2>8. ASSUME NEW e \in Current', NEW f \in Current', e.n <= f.after PROVE e.ts < f.ts
    <3>1. CASE e \in Current /\ f \in Current
      BY <1>4, <2>1, <2>8, <3>1 DEF Ordered
    <3>2. CASE e \in Current /\ f \in new
      <4>1. e.ts < r.ts /\ r.ts <= f.ts
        BY <2>1, <2>3, <2>8, <3>2
      <4> QED BY <1>1, <2>1, <2>2, <3>2, <4>1
    <3>3. CASE e \in new /\ f \in new
      BY <2>1, <2>2, <2>3, <2>8, <3>3
    <3>4. CASE e \in new /\ f \in Current
      <4>1. N < e.n /\ e.n \in Nat /\ f.n <= N /\ f.after < f.n /\ f.n \in Nat /\ f.after \in Nat
        BY <1>1, <2>1, <2>4, <3>4
      <4> QED BY <2>2, <2>8, <4>1
    <3> QED BY <2>1, <3>1, <3>2, <3>3, <3>4
  <2> QED BY <2>5, <2>7, <2>8 DEF Ordered
<1>5. CASE status' # "up"
  <2>1. Current' = {}
    BY <1>5 DEF Counted
  <2> QED BY <2>1 DEF Ordered
<1>6. CASE Crash \/ Close
  BY <1>5, <1>6 DEF Crash, Close, Die
<1>7. CASE Open
  <2>1. UNCHANGED <<applied, crashes>> /\ status # "up"
    BY <1>7 DEF Open, history
  <2>2. Current' = {}
    BY <2>1 DEF Counted, Current
  <2> QED BY <2>2 DEF Ordered
<1> QED BY <1>2, <1>3, <1>4, <1>6, <1>7, Steps, HistoryKept

\* Whoever waits for the lock has timestamps of his own, behind those of all that
\* was in place when he took them.
LEMMA WaitingStep ==
    ASSUME TypeOK, Counted, Counted', Ordered, Waiting, [Next]_vars
    PROVE  Waiting'
<1>1. /\ next_ts \in Nat /\ Cardinality(applied) \in Nat
      /\ \A e \in Current : e.ts \in Nat /\ e.n \in Nat /\ e \in applied
      /\ \A s \in pending : s.ts \in Nat /\ s.after \in Nat /\ Len(s.ops) \in Nat
  <2>1. \A s \in pending : s.ts \in Nat /\ s.after \in Nat /\ s.ops \in Seq(Ops)
    BY DEF TypeOK, Requests
  <2>2. \A s \in pending : Len(s.ops) \in Nat
    BY <2>1, LenProperties
  <2> QED BY <2>1, <2>2, FS_CardinalityType DEF TypeOK, Current, Entries
<1>2. CASE UNCHANGED <<applied, crashes, requests, next_ts, pending, status>>
  BY <1>2 DEF Waiting, Current
<1>3. ASSUME NEW kind, NEW ops \in Seq(Ops), TakeTs(kind, ops), Len(ops) \in Nat
      PROVE  Waiting'
  <2> DEFINE new == [kind |-> kind, ops |-> ops, ts |-> next_ts, after |-> Cardinality(applied)]
  <2>1. /\ applied' = applied /\ crashes' = crashes /\ next_ts' = next_ts + Len(ops)
        /\ pending' = pending \cup {new}
    BY <1>3 DEF TakeTs
  <2>2. Current' = Current
    BY <2>1 DEF Current
  <2>3. new.ts = next_ts /\ new.after = Cardinality(applied) /\ new.ops = ops
    OBVIOUS
  <2> HIDE DEF new
  <2>4. ASSUME NEW r \in pending'
        PROVE  /\ r.ts + Len(r.ops) <= next_ts' /\ r.after <= Cardinality(applied)
               /\ \A e \in Current : /\ e.ts < r.ts \/ r.ts + Len(r.ops) <= e.ts
                                     /\ e.n <= r.after => e.ts < r.ts
    <3>1. CASE r = new
      <4>1. \A e \in Current : e.ts < next_ts
        BY DEF Ordered
      <4> QED BY <1>1, <1>3, <2>1, <2>3, <3>1, <4>1
    <3>2. CASE r \in pending
      <4>1. r.ts + Len(r.ops) <= next_ts
        BY <3>2 DEF Waiting
      <4>2. r.ts + Len(r.ops) <= next_ts'
        BY <1>1, <1>3, <2>1, <3>2, <4>1
      <4> QED BY <3>2, <4>2 DEF Waiting
    <3> QED BY <2>1, <3>1, <3>2
  <2>5. ASSUME NEW r \in pending', NEW s \in pending', r # s
        PROVE  r.ts + Len(r.ops) <= s.ts \/ s.ts + Len(s.ops) <= r.ts
    <3>1. \A q \in pending : q.ts + Len(q.ops) <= new.ts
      BY <2>3 DEF Waiting
    <3> QED BY <2>1, <2>5, <3>1 DEF Waiting
  <2>6. Cardinality(applied') = Cardinality(applied)
    BY <2>1
  <2> QED BY <2>2, <2>4, <2>5, <2>6 DEF Waiting
<1>4. ASSUME NEW r \in pending, Apply(r) PROVE Waiting'
  <2> DEFINE new == Range(EntriesOf(r))
             N   == Cardinality(applied)
             L   == Len(r.ops)
  <2>1. /\ next_ts' = next_ts /\ pending' = pending \ {r} /\ Cardinality(applied') = N + L
        /\ \A e \in new : /\ e.n \in Nat /\ N < e.n /\ e.ts \in Nat /\ r.ts <= e.ts
                          /\ e.ts < r.ts + L
        /\ \A e \in Current' : e \in Current \/ e \in new
    BY <1>4, Applying
  <2>2. N \in Nat /\ L \in Nat /\ r.ts \in Nat
    BY NewEntries
  <2> HIDE DEF new
  <2>3. ASSUME NEW s \in pending'
        PROVE  /\ s.ts + Len(s.ops) <= next_ts' /\ s.after <= Cardinality(applied')
               /\ \A e \in Current' : /\ e.ts < s.ts \/ s.ts + Len(s.ops) <= e.ts
                                      /\ e.n <= s.after => e.ts < s.ts
    <3>1. s \in pending /\ s # r
      BY <2>1
    <3>2. /\ s.ts + Len(s.ops) <= next_ts /\ s.after <= N
          /\ r.ts + L <= s.ts \/ s.ts + Len(s.ops) <= r.ts
          /\ \A e \in Current : /\ e.ts < s.ts \/ s.ts + Len(s.ops) <= e.ts
                                /\ e.n <= s.after => e.ts < s.ts
      BY <3>1 DEF Waiting
    <3>3. s.ts \in Nat /\ Len(s.ops) \in Nat /\ s.after \in Nat
      BY <1>1, <3>1
    <3> HIDE DEF N, L
    <3>4. \A e \in new : e.ts < s.ts \/ s.ts + Len(s.ops) <= e.ts
      BY <2>1, <2>2, <3>2, <3>3
    <3>5. \A e \in new : ~(e.n <= s.after)
      BY <2>1, <2>2, <3>2, <3>3
    <3>6. s.after <= N + L
      BY <2>2, <3>2, <3>3
    <3> QED BY <2>1, <3>2, <3>4, <3>5, <3>6
  <2>4. \A q, s \in pending' : q # s => q.ts + Len(q.ops) <= s.ts \/ s.ts + Len(s.ops) <= q.ts
    BY <2>1 DEF Waiting
  <2> QED BY <2>3, <2>4 DEF Waiting
<1>5. CASE Crash \/ Close
  <2>1. pending' = {}
    BY <1>5 DEF Crash, Close, Die
  <2> QED BY <2>1 DEF Waiting
<1>6. CASE Open
  <2>1. pending' = pending /\ status # "up"
    BY <1>6 DEF Open
  <2>2. pending' = {}
    BY <2>1 DEF Counted
  <2> QED BY <2>2 DEF Waiting
<1> QED BY <1>2, <1>3, <1>4, <1>5, <1>6, Steps, HistoryKept

\* A log whose records were applied takes the place of another.
LEMMA LogsFrom ==
    ASSUME TypeOK, FromApplied, NEW i \in WalIds, NEW w, wal_files' = [wal_files EXCEPT ![i] = w],
           applied \subseteq applied', Range(w.recs) \subseteq applied'
    PROVE  \A j \in WalIds : Range(wal_files'[j].recs) \subseteq applied'
<1> TAKE j \in WalIds
<1>1. wal_files'[j] = IF j = i THEN w ELSE wal_files[j]
  BY DEF TypeOK
<1> QED BY <1>1 DEF FromApplied

\* Put and delete of a request's entries keep what this session has in the
\* memtable, and put all of them there.
LEMMA Inserted ==
    ASSUME TypeOK, Counted, Waiting, NEW r \in pending
    PROVE  LET es == EntriesOf(r)
               mt == InsertAll(memtable, es)
           IN  /\ mt \subseteq memtable \cup Range(es) /\ Range(es) \subseteq mt
               /\ \A e \in memtable : e \in Current => e \in mt
<1> DEFINE es == EntriesOf(r)
           mt == InsertAll(memtable, es)
           L  == Len(r.ops)
<1>1. /\ L \in Nat /\ r.ts \in Nat /\ DOMAIN es = 1 .. L /\ Len(es) = L
      /\ \A i \in 1 .. L : es[i] \in Range(es) /\ es[i].ts = r.ts + i - 1
      /\ \A e \in Range(es) : \E i \in 1 .. L : e = es[i]
  BY NewEntries
<1> HIDE DEF es, L
<1>2. mt \subseteq memtable \cup Range(es)
  BY <1>1 DEF InsertAll
<1>3. ASSUME NEW e \in Range(es) PROVE e \in mt
  <2>1. PICK i \in 1 .. L : e = es[i]
    BY <1>1, <1>3
  <2>2. \A l \in i + 1 .. Len(es) : l \in 1 .. L /\ es[l].ts # es[i].ts
    <3> TAKE l \in i + 1 .. Len(es)
    <3>1. i \in Nat /\ 1 <= i /\ l \in 1 .. L /\ l \in Nat /\ i < l
      BY <1>1
    <3>2. es[l].ts = r.ts + l - 1 /\ es[i].ts = r.ts + i - 1
      BY <1>1, <3>1
    <3> QED BY <1>1, <3>1, <3>2
  <2>3. \A l \in i + 1 .. Len(es) : ~SameVersion(es[l], es[i])
    BY <2>2 DEF SameVersion
  <2> QED BY <1>1, <2>1, <2>3 DEF InsertAll
<1>4. ASSUME NEW e \in memtable, e \in Current PROVE e \in mt
  <2>1. (e.ts < r.ts \/ r.ts + L <= e.ts) /\ e.ts \in Nat
    <3>1. e \in Entries
      BY <1>4 DEF TypeOK
    <3>2. e.ts \in Nat
      BY <3>1 DEF Entries
    <3> QED BY <1>4, <3>2 DEF Waiting, L
  <2>2. \A i \in 1 .. L : es[i].ts # e.ts
    <3> TAKE i \in 1 .. L
    <3>1. /\ es[i].ts = r.ts + i - 1 /\ i \in Nat /\ 1 <= i /\ i <= L
          /\ r.ts \in Nat /\ L \in Nat
      BY <1>1
    <3>2. r.ts <= es[i].ts /\ es[i].ts < r.ts + L /\ es[i].ts \in Int
      BY <3>1
    <3>3. CASE e.ts < r.ts
      BY <2>1, <3>1, <3>2, <3>3
    <3>4. CASE r.ts + L <= e.ts
      BY <2>1, <3>1, <3>2, <3>4
    <3> QED BY <2>1, <3>3, <3>4
  <2>3. \A i \in DOMAIN es : ~SameVersion(es[i], e)
    BY <1>1, <2>2 DEF SameVersion
  <2> QED BY <2>3 DEF InsertAll
<1> QED BY <1>2, <1>3, <1>4 DEF es

\* Nothing is in memory or in a log that was not applied.
LEMMA FromAppliedStep ==
    ASSUME LsmInv, Counted, Waiting, FromApplied, [Next]_vars
    PROVE  FromApplied'
<1> USE DEF LsmInv
<1> DEFINE w == wal_files[wal_id]
<1>1. /\ wal_id \in WalIds /\ w.recs \in Seq(Entries) /\ Range(w.recs) \subseteq applied
      /\ WalIds' = WalIds
  BY DEF TypeOK, Logs, FromApplied, WalIds
<1>2. Range(EmptyWal.recs) = {}
  BY DEF EmptyWal, Range
<1>3. CASE UNCHANGED <<applied, memtable, imm, wal_files>>
  BY <1>1, <1>3 DEF FromApplied
<1>4. ASSUME NEW kind, NEW ops, TakeTs(kind, ops) PROVE FromApplied'
  BY <1>3, <1>4 DEF TakeTs, files, inner
<1>5. ASSUME NEW r \in pending, Apply(r) PROVE FromApplied'
  <2> DEFINE es  == EntriesOf(r)
             new == [w EXCEPT !.recs = @ \o es]
             mt  == InsertAll(memtable, es)
  <2>1. /\ applied' = applied \cup Range(es)
        /\ wal_files' = [wal_files EXCEPT ![wal_id] = new]
        /\ \/ memtable' = {} /\ imm' = mt
           \/ memtable' = mt /\ imm' = imm
    BY <1>5 DEF Apply, AppendWal
  <2>2. mt \subseteq memtable \cup Range(es)
    BY Inserted
  <2>3. es \in Seq(Entries)
    BY EntriesType
  <2> HIDE DEF es, mt
  <2>4. new.recs = w.recs \o es
    BY <1>1 DEF TypeOK, Logs
  <2>5. Range(w.recs \o es) \subseteq Range(w.recs) \cup Range(es)
    <3> DEFINE a == w.recs
    <3> HIDE DEF a
    <3>1. a \in Seq(Entries)
      BY <1>1 DEF a
    <3>2. /\ Len(a \o es) = Len(a) + Len(es) /\ Len(a) \in Nat /\ Len(es) \in Nat
          /\ a \o es \in Seq(Entries)
          /\ \A i \in 1 .. Len(a) + Len(es) :
                (a \o es)[i] = IF i <= Len(a) THEN a[i] ELSE es[i - Len(a)]
      BY <2>3, <3>1, ConcatProperties, LenProperties
    <3>3. DOMAIN (a \o es) = 1 .. Len(a) + Len(es) /\ DOMAIN a = 1 .. Len(a)
          /\ DOMAIN es = 1 .. Len(es)
      BY <2>3, <3>1, <3>2, LenProperties
    <3>4. \A i \in 1 .. Len(a) + Len(es) : IF i <= Len(a) THEN i \in 1 .. Len(a)
                                           ELSE i - Len(a) \in 1 .. Len(es)
      BY <3>2
    <3>5. \A i \in 1 .. Len(a) + Len(es) : (a \o es)[i] \in Range(a) \cup Range(es)
      BY <3>2, <3>3, <3>4 DEF Range
    <3>6. Range(a \o es) \subseteq Range(a) \cup Range(es)
      BY <3>3, <3>5 DEF Range
    <3> QED BY <3>6 DEF a
  <2>6. Range(new.recs) \subseteq applied'
    BY <1>1, <2>1, <2>4, <2>5
  <2> HIDE DEF new
  <2>7. \A j \in WalIds : Range(wal_files'[j].recs) \subseteq applied'
    BY <1>1, <2>1, <2>6, LogsFrom
  <2>8. memtable' \subseteq applied' /\ imm' \subseteq applied'
    BY <2>1, <2>2 DEF FromApplied
  <2> QED BY <1>1, <2>7, <2>8 DEF FromApplied
<1>6. ASSUME UNCHANGED applied, memtable' \subseteq applied, imm' \subseteq applied,
             NEW i \in WalIds, NEW v, wal_files' = [wal_files EXCEPT ![i] = v],
             Range(v.recs) \subseteq applied
      PROVE  FromApplied'
  <2>1. \A j \in WalIds : Range(wal_files'[j].recs) \subseteq applied'
    BY <1>6, LogsFrom
  <2> QED BY <1>1, <1>6, <2>1 DEF FromApplied
<1>7. CASE Sync \/ RotateSync
  <2>1. /\ UNCHANGED <<applied, memtable, imm>>
        /\ wal_files' = [wal_files EXCEPT ![wal_id] = [w EXCEPT !.synced = Len(w.recs)]]
    BY <1>7 DEF Sync, RotateSync, SyncWal, inner
  <2>2. [w EXCEPT !.synced = Len(w.recs)].recs = w.recs
    BY WrittenLogs
  <2> QED BY <1>1, <1>6, <2>1, <2>2 DEF FromApplied
<1>8. CASE ListWal \/ WriteSst
  BY <1>3, <1>8 DEF ListWal, WriteSst, history
<1>9. CASE ListSst
  <2>1. UNCHANGED <<applied, memtable, wal_files>> /\ imm' = {}
    BY <1>9 DEF ListSst
  <2> QED BY <1>1, <2>1 DEF FromApplied
<1>10. CASE CreateWal
  <2>1. /\ UNCHANGED <<applied, memtable, imm>>
        /\ wal_files' = [wal_files EXCEPT ![next_wal_id - 1] = EmptyWal]
    BY <1>10 DEF CreateWal, history
  <2>2. next_wal_id - 1 \in WalIds
    <3>1. manifest.WAL # <<>> /\ next_wal_id - 1 = Len(manifest.WAL)
      BY <1>10, NamesBounded DEF CreateWal, Goto, Names
    <3>2. Len(manifest.WAL) # 0 /\ Len(manifest.WAL) \in Nat
      BY <3>1, EmptySeq, NamesBounded DEF TypeOK
    <3>3. Len(manifest.WAL) \in 1 .. Len(manifest.WAL)
      BY <3>2
    <3> QED BY <3>1, <3>3, NamesBounded
  <2> QED BY <1>2, <1>6, <2>1, <2>2 DEF FromApplied
<1>11. CASE Crash
  <2>1. PICK n \in w.synced .. Len(w.recs), torn \in BOOLEAN :
            wal_files' = [wal_files EXCEPT ![wal_id] = CutWal(w, n, torn)]
    BY <1>11 DEF Crash
  <2> DEFINE cut == CutWal(w, n, torn)
  <2>2. /\ Len(cut.recs) = n /\ \A p \in 1 .. n : cut.recs[p] = w.recs[p]
        /\ cut \in Logs /\ w.synced \in Nat /\ Len(w.recs) \in Nat
    BY WrittenLogs
  <2>3. \A p \in DOMAIN cut.recs : p \in DOMAIN w.recs /\ cut.recs[p] = w.recs[p]
    <3>1. cut.recs \in Seq(Entries)
      BY <2>2 DEF Logs
    <3> HIDE DEF cut
    <3>2. DOMAIN cut.recs = 1 .. n /\ DOMAIN w.recs = 1 .. Len(w.recs)
      BY <1>1, <2>2, <3>1, LenProperties
    <3>3. n \in Nat /\ n <= Len(w.recs)
      BY <2>2
    <3> QED BY <2>2, <3>2, <3>3
  <2> HIDE DEF cut
  <2>4. Range(cut.recs) \subseteq applied
    BY <1>1, <2>3 DEF Range
  <2>5. UNCHANGED applied /\ memtable' = {} /\ imm' = {}
    BY <1>11 DEF Crash, Die
  <2>6. wal_files' = [wal_files EXCEPT ![wal_id] = cut]
    BY <2>1 DEF cut
  <2> QED BY <1>1, <1>6, <2>4, <2>5, <2>6
<1>12. CASE Close
  <2>1. /\ UNCHANGED applied /\ memtable' = {} /\ imm' = {}
        /\ wal_files' = [wal_files EXCEPT ![wal_id] = [w EXCEPT !.synced = Len(w.recs)]]
    BY <1>12 DEF Close, Die
  <2>2. [w EXCEPT !.synced = Len(w.recs)].recs = w.recs
    BY WrittenLogs
  <2> QED BY <1>1, <1>6, <2>1, <2>2
<1>13. CASE Open
  <2>1. /\ UNCHANGED applied
        /\ wal_files' = [wal_files EXCEPT ![Len(manifest.WAL) + 1] = EmptyWal]
        /\ Len(manifest.WAL) + 1 \in WalIds
        /\ \/ memtable' = memtable /\ imm' = imm
           \/ memtable' = Recovered /\ imm' = {}
    BY <1>13, NamesBounded DEF Open, NewWal, history, inner
  <2>2. Recovered \subseteq applied
    <3> SUFFICES ASSUME NEW p \in Replayed PROVE RecordAt(p) \in applied
      BY DEF Recovered
    <3>1. PICK i \in 1 .. NextId(manifest.WAL) - 1 : p \in {i} \X DOMAIN wal_files[i].recs
      BY DEF Replayed
    <3>2. i \in WalIds
      BY <3>1, NamesBounded
    <3>3. p[1] = i /\ p[2] \in DOMAIN wal_files[i].recs
      BY <3>1
    <3>4. wal_files[i].recs[p[2]] \in Range(wal_files[i].recs)
      BY <3>3 DEF Range
    <3> QED BY <3>2, <3>3, <3>4 DEF RecordAt, FromApplied
  <2> QED BY <1>2, <1>6, <2>1, <2>2 DEF FromApplied
<1>14. CASE UNCHANGED vars
  BY <1>3, <1>14 DEF vars, files, inner, history
<1> QED BY <1>4, <1>5, <1>7, <1>8, <1>9, <1>10, <1>11, <1>12, <1>13, <1>14, Steps

\* The tables written are sorted, and those of the past stay so.
LEMMA TablesStep ==
    ASSUME LsmInv, Counted, Waiting, FromApplied, TablesSorted, [Next]_vars
    PROVE  TablesSorted'
<1> USE DEF LsmInv
<1>1. SstIds' = SstIds /\ applied \in SUBSET Entries
  BY DEF SstIds, TypeOK
<1>2. CASE UNCHANGED <<applied, sst_files>>
  BY <1>1, <1>2 DEF TablesSorted
<1>3. CASE Sync \/ RotateSync \/ ListWal \/ CreateWal \/ ListSst \/ Crash \/ Close \/ Open
           \/ UNCHANGED vars
  BY <1>2, <1>3 DEF Sync, RotateSync, ListWal, CreateWal, ListSst, Crash, Close, Die, Open,
                    vars, files, history
<1>4. ASSUME NEW kind, NEW ops, TakeTs(kind, ops) PROVE TablesSorted'
  BY <1>2, <1>4 DEF TakeTs, files
<1>5. ASSUME NEW r \in pending, Apply(r) PROVE TablesSorted'
  <2> DEFINE new == Range(EntriesOf(r))
             N   == Cardinality(applied)
  <2>1. /\ applied' = applied \cup new /\ N \in Nat
        /\ \A e \in applied : e.n \in Nat /\ e.n <= N
        /\ \A e \in new : e.n \in Nat /\ N < e.n
    BY <1>5, Applying, NewEntries
  <2>2. sst_files' = sst_files
    BY <1>5 DEF Apply
  <2> HIDE DEF new, N
  <2>3. \A e \in applied', a \in applied : e.n = a.n => e \in applied
    BY <2>1
  <2>4. ASSUME NEW i \in SstIds PROVE SortedTable(sst_files[i], applied')
    <3>1. SortedTable(sst_files[i], applied) /\ applied \subseteq applied'
      BY <2>1 DEF TablesSorted
    <3> QED BY <1>1, <2>3, <3>1, StaysSorted
  <2> QED BY <1>1, <2>2, <2>4 DEF TablesSorted
<1>6. CASE WriteSst
  <2>1. /\ sst_files' = [sst_files EXCEPT ![next_sst_id] = BuildTable(imm)]
        /\ applied' = applied
    BY <1>6 DEF WriteSst, history
  <2>2. SortedTable(BuildTable(imm), applied)
    <3>1. imm \in SUBSET applied /\ IsFiniteSet(imm) /\ OneEach(imm) /\ Keys \subseteq Nat
          /\ \A e, f \in applied : e.n = f.n => e = f
      BY LsmAssumption DEF FromApplied, TypeOK, Memory, Counted
    <3> QED BY <1>1, <3>1, BuiltSorted
  <2>3. \A i \in SstIds : sst_files'[i] = sst_files[i] \/ sst_files'[i] = BuildTable(imm)
    BY <2>1 DEF TypeOK
  <2> QED BY <1>1, <2>1, <2>2, <2>3 DEF TablesSorted
<1> QED BY <1>3, <1>4, <1>5, <1>6, Steps

\* One memtable is empty at each step of a rotation.
LEMMA RotatingStep ==
    ASSUME LsmInv, Rotating, [Next]_vars
    PROVE  Rotating'
<1> USE DEF LsmInv
<1>1. CASE UNCHANGED <<pc, memtable, imm, sst_files, next_sst_id>>
  BY <1>1 DEF Rotating
<1>2. CASE Sync \/ UNCHANGED vars
  BY <1>1, <1>2 DEF Sync, Up, vars, files, inner
<1>3. ASSUME NEW kind, NEW ops, TakeTs(kind, ops) PROVE Rotating'
  BY <1>1, <1>3 DEF TakeTs, files, inner
<1>4. ASSUME NEW r \in pending, Apply(r) PROVE Rotating'
  <2>1. /\ pc = "idle"
        /\ \/ pc' = "rotate" /\ memtable' = {}
           \/ pc' = pc /\ imm' = imm
    BY <1>4 DEF Apply, Up
  <2> QED BY <2>1 DEF Rotating
<1>5. CASE RotateSync \/ ListWal \/ CreateWal
  <2>1. /\ memtable' = memtable /\ pc # "idle"
        /\ pc' \in {"list_wal", "create_wal", "write_sst"}
    BY <1>5 DEF RotateSync, ListWal, CreateWal, Goto, inner
  <2> QED BY <2>1 DEF Rotating
<1>6. CASE WriteSst
  <2>1. /\ sst_files' = [sst_files EXCEPT ![next_sst_id] = BuildTable(imm)]
        /\ next_sst_id' = next_sst_id + 1 /\ pc = "write_sst" /\ pc' = "list_sst"
        /\ memtable' = memtable /\ imm' = imm
    BY <1>6 DEF WriteSst, Goto
  <2>2. next_sst_id \in SstIds /\ next_sst_id' - 1 = next_sst_id
    <3>1. status = "up" /\ Len(manifest.SST) < MaxSsts /\ next_sst_id = Len(manifest.SST) + 1
      BY <1>6, <2>1 DEF WriteSst, Goto, Names
    <3> QED BY <2>1, <3>1, NamesBounded DEF SstIds
  <2>3. sst_files'[next_sst_id] = BuildTable(imm)
    BY <2>1, <2>2 DEF TypeOK
  <2> QED BY <2>1, <2>2, <2>3 DEF Rotating
<1>7. CASE ListSst
  BY <1>7 DEF ListSst, Goto, Rotating
<1>8. CASE Crash \/ Close
  BY <1>8 DEF Crash, Close, Die, Rotating
<1>9. CASE Open
  <2>1. pc = "idle" /\ pc' = "idle" /\ imm' \in {imm, {}}
    BY <1>9 DEF Open, Names, inner
  <2> QED BY <2>1 DEF Rotating
<1> QED BY <1>2, <1>3, <1>4, <1>5, <1>6, <1>7, <1>8, <1>9, Steps

\* What a session's first steps find is of earlier sessions.
LEMMA NothingPlaced ==
    ASSUME TypeOK', TablesSorted', Current' = {}
    PROVE  Placed'
<1>1. NewestInMemory' /\ NoneMissing'
  BY DEF NewestInMemory, NoneMissing
<1>2. ASSUME NEW i \in DOMAIN levels', NEW p \in DOMAIN sst_files'[levels'[i]]
      PROVE  At(i, p)'.session # crashes'
  <2>1. levels'[i] \in SstIds' /\ applied' \in SUBSET Entries
    BY DEF TypeOK
  <2>2. PICK e \in applied' : sst_files'[levels'[i]][p] = [e EXCEPT !.ts = 0]
    BY <2>1 DEF TablesSorted, SortedTable
  <2>3. [e EXCEPT !.ts = 0].session = e.session
    BY <2>1 DEF Entries
  <2>4. e.session # crashes'
    BY DEF Current
  <2> QED BY <2>2, <2>3, <2>4 DEF At
<1>3. Layered'
  BY <1>2 DEF Layered
<1> QED BY <1>1, <1>3 DEF Placed

\* What is in a table keeps its number and its session.
LEMMA TableFacts ==
    ASSUME TypeOK, TablesSorted, NEW i \in DOMAIN levels, NEW p \in DOMAIN sst_files[levels[i]]
    PROVE  /\ \E e \in applied : At(i, p) = [e EXCEPT !.ts = 0]
           /\ \E e \in applied : /\ At(i, p).n = e.n /\ At(i, p).key = e.key
                                 /\ At(i, p).session = e.session /\ At(i, p).live = e.live
<1>1. levels[i] \in SstIds /\ applied \in SUBSET Entries
  BY DEF TypeOK
<1>2. PICK e \in applied : sst_files[levels[i]][p] = [e EXCEPT !.ts = 0]
  BY <1>1 DEF TablesSorted, SortedTable
<1>3. /\ [e EXCEPT !.ts = 0].session = e.session /\ [e EXCEPT !.ts = 0].n = e.n
      /\ [e EXCEPT !.ts = 0].key = e.key /\ [e EXCEPT !.ts = 0].live = e.live
  BY <1>1 DEF Entries
<1> QED BY <1>2, <1>3 DEF At

\* Writes go on top of what is there, and a flush puts the immutable memtable on
\* top of the tables.
LEMMA PlacedStep ==
    ASSUME LsmInv, LsmInv', Counted, Counted', Waiting, FromApplied, TablesSorted, TablesSorted',
           Placed, Rotating, [Next]_vars
    PROVE  Placed'
<1> USE DEF LsmInv
<1>1. CASE UNCHANGED <<memtable, imm, levels, sst_files, applied, crashes>>
  BY <1>1 DEF Placed, NewestInMemory, NoneMissing, Layered, At, Current, Flushed, InTable
<1>2. CASE Sync \/ RotateSync \/ ListWal \/ CreateWal \/ UNCHANGED vars
  BY <1>1, <1>2 DEF Sync, RotateSync, ListWal, CreateWal, vars, files, inner, history
<1>3. ASSUME NEW kind, NEW ops, TakeTs(kind, ops) PROVE Placed'
  BY <1>1, <1>3 DEF TakeTs, files, inner
<1>4. ASSUME NEW r \in pending, Apply(r) PROVE Placed'
  <2> DEFINE new == Range(EntriesOf(r))
             N   == Cardinality(applied)
             mt  == InsertAll(memtable, EntriesOf(r))
  <2>1. /\ applied' = applied \cup new /\ N \in Nat /\ crashes' = crashes
        /\ \A e \in applied : e.n \in Nat /\ e.n <= N
        /\ \A e \in new : e.n \in Nat /\ N < e.n /\ e \in Current'
        /\ \A e \in Current' : e \in Current \/ e \in new
        /\ Current \subseteq Current'
    BY <1>4, Applying, NewEntries
  <2>2. /\ mt \subseteq memtable \cup new /\ new \subseteq mt
        /\ \A e \in memtable : e \in Current => e \in mt
    BY Inserted
  <2> HIDE DEF new, N, mt
  <2>3. /\ imm = {} /\ UNCHANGED <<levels, sst_files>>
        /\ \/ memtable' = {} /\ imm' = mt
           \/ memtable' = mt /\ imm' = imm
    BY <1>4 DEF Apply, Up, Rotating, mt
  <2>4. memtable \subseteq applied /\ Current \subseteq applied
    BY DEF FromApplied, Current
  <2>5. NewestInMemory'
    <3>1. CASE memtable' = {}
      BY <3>1 DEF NewestInMemory
    <3>2. CASE memtable' = mt
      <4> SUFFICES ASSUME NEW u \in mt, NEW e \in Current', u.n <= e.n PROVE e \in mt
        BY <3>2 DEF NewestInMemory
      <4>1. CASE e \in new
        BY <2>2, <4>1
      <4>2. CASE e \in Current
        <5>1. u \notin new
          BY <2>1, <2>4, <4>2
        <5>2. u \in memtable
          BY <2>2, <5>1
        <5>3. e \in memtable
          BY <4>2, <5>2 DEF Placed, NewestInMemory
        <5> QED BY <2>2, <4>2, <5>3
      <4> QED BY <2>1, <4>1, <4>2
    <3> QED BY <2>3, <3>1, <3>2
  <2>6. NoneMissing'
    <3> SUFFICES ASSUME NEW e \in Current' PROVE e \in mt \/ Flushed(e)'
      BY <2>3 DEF NoneMissing
    <3>1. CASE e \in new
      BY <2>2, <3>1
    <3>2. CASE e \in Current
      <4>1. e \in memtable \/ Flushed(e)
        BY <2>3, <3>2 DEF Placed, NoneMissing
      <4>2. Flushed(e) => Flushed(e)'
        BY <2>3 DEF Flushed, InTable
      <4> QED BY <2>2, <3>2, <4>1, <4>2
    <3> QED BY <2>1, <3>1, <3>2
  <2>7. Layered'
    <3>1. UNCHANGED <<levels, sst_files, crashes>> /\ memtable' \cup imm' = mt
      BY <2>1, <2>3
    <3>0. \A i, p : At(i, p)' = At(i, p)
      BY <3>1 DEF At
    <3> SUFFICES ASSUME NEW i \in DOMAIN levels, NEW p \in DOMAIN sst_files[levels[i]],
                        At(i, p).session = crashes
                 PROVE  /\ \A x \in mt : x \in Current' /\ At(i, p).n < x.n
                        /\ \A j \in i + 1 .. Len(levels) : \A q \in DOMAIN sst_files[levels[j]] :
                              At(j, q).session = crashes /\ At(i, p).n < At(j, q).n
      BY <3>0, <3>1 DEF Layered
    <3>2. /\ \A x \in memtable : x \in Current /\ At(i, p).n < x.n
          /\ \A j \in i + 1 .. Len(levels) : \A q \in DOMAIN sst_files[levels[j]] :
                At(j, q).session = crashes /\ At(i, p).n < At(j, q).n
      BY DEF Placed, Layered
    <3>3. \E e \in applied : At(i, p).n = e.n
      BY TableFacts
    <3>4. \A x \in new : At(i, p).n < x.n
      BY <2>1, <3>3
    <3>5. \A x \in mt : x \in Current' /\ At(i, p).n < x.n
      BY <2>1, <2>2, <3>2, <3>4
    <3> QED BY <3>2, <3>5
  <2> QED BY <2>5, <2>6, <2>7 DEF Placed
<1>5. CASE WriteSst
  <2>1. /\ sst_files' = [sst_files EXCEPT ![next_sst_id] = BuildTable(imm)]
        /\ UNCHANGED <<memtable, imm, levels, applied, crashes>>
    BY <1>5 DEF WriteSst, history
  <2>2. levels = manifest.SST /\ next_sst_id = Len(manifest.SST) + 1
    BY <1>5 DEF WriteSst, Goto, Names
  <2>3. \A i \in DOMAIN levels : levels[i] # next_sst_id /\ levels[i] \in SstIds
    <3>1. \A i \in DOMAIN levels : levels[i] = i /\ i <= Len(manifest.SST) /\ i \in Nat
      BY <2>2, NamesBounded DEF Names, Numbered
    <3>2. \A i \in DOMAIN levels : levels[i] \in SstIds
      BY DEF TypeOK
    <3> QED BY <2>2, <3>1, <3>2, NamesBounded
  <2>4. \A i \in DOMAIN levels : sst_files'[levels[i]] = sst_files[levels[i]]
    BY <2>1, <2>3 DEF TypeOK
  <2>5. \A j \in 1 .. Len(levels) : j \in DOMAIN levels
    BY LenProperties DEF TypeOK
  <2>6. NewestInMemory' /\ NoneMissing'
    BY <2>1, <2>4 DEF Placed, NewestInMemory, NoneMissing, Current, Flushed, InTable
  <2>7. Layered'
    <3>0. /\ Current' = Current /\ levels' = levels /\ crashes' = crashes
          /\ memtable' = memtable /\ imm' = imm
          /\ \A i \in DOMAIN levels : \A p : At(i, p)' = At(i, p)
      BY <2>1, <2>4 DEF Current, At
    <3> SUFFICES ASSUME NEW i \in DOMAIN levels, NEW p \in DOMAIN sst_files[levels[i]],
                        At(i, p).session = crashes
                 PROVE  /\ \A x \in memtable \cup imm : x \in Current /\ At(i, p).n < x.n
                        /\ \A j \in i + 1 .. Len(levels) : \A q \in DOMAIN sst_files'[levels[j]] :
                              At(j, q)'.session = crashes /\ At(i, p).n < At(j, q)'.n
      BY <2>4, <3>0 DEF Layered
    <3>1. /\ \A x \in memtable \cup imm : x \in Current /\ At(i, p).n < x.n
          /\ \A j \in i + 1 .. Len(levels) : \A q \in DOMAIN sst_files[levels[j]] :
                At(j, q).session = crashes /\ At(i, p).n < At(j, q).n
      BY DEF Placed, Layered
    <3>2. \A j \in i + 1 .. Len(levels) : /\ sst_files'[levels[j]] = sst_files[levels[j]]
                                          /\ j \in DOMAIN levels
      <4>0. levels \in Seq(SstIds)
        BY DEF TypeOK
      <4>1. i \in Nat /\ Len(levels) \in Nat /\ i >= 1
        BY <4>0, LenProperties
      <4>2. \A j \in i + 1 .. Len(levels) : j \in 1 .. Len(levels)
        BY <4>1
      <4> QED BY <2>4, <2>5, <4>2
    <3> QED BY <3>0, <3>1, <3>2
  <2> QED BY <2>6, <2>7 DEF Placed
<1>6. CASE ListSst
  <2> DEFINE n == Len(levels)
  <2>1. /\ levels' = Append(levels, next_sst_id - 1) /\ imm' = {} /\ memtable' = memtable
        /\ UNCHANGED <<sst_files, applied, crashes>> /\ pc = "list_sst"
    BY <1>6 DEF ListSst, Goto
  <2>2. memtable = {} /\ sst_files[next_sst_id - 1] = BuildTable(imm)
    BY <2>1 DEF Rotating
  <2>3. /\ n \in Nat /\ DOMAIN levels = 1 .. n /\ DOMAIN levels' = 1 .. n + 1
        /\ Len(levels') = n + 1 /\ levels'[n + 1] = next_sst_id - 1
        /\ \A i \in 1 .. n : levels'[i] = levels[i]
    <3>1. levels = manifest.SST /\ next_sst_id - 1 = Len(manifest.SST) + 1
          /\ Len(manifest.SST) < MaxSsts
      BY <1>6, <2>1, NamesBounded DEF ListSst, Goto, Names
    <3>2. levels \in Seq(SstIds)
      BY DEF TypeOK
    <3>3. next_sst_id - 1 \in SstIds
      BY <3>1, NamesBounded DEF SstIds
    <3> QED BY <2>1, <3>2, <3>3
  <2>4. \A i \in 1 .. n : sst_files'[levels'[i]] = sst_files[levels[i]]
    BY <2>1, <2>3
  <2>5. sst_files'[levels'[n + 1]] = BuildTable(imm)
    BY <2>1, <2>2, <2>3
  <2> HIDE DEF n
  <2>6. NewestInMemory'
    BY <2>1, <2>2 DEF NewestInMemory
  <2>7. NoneMissing'
    <3> SUFFICES ASSUME NEW e \in Current PROVE Flushed(e)'
      BY <2>1 DEF NoneMissing, Current
    <3>1. CASE Flushed(e)
      <4>1. PICK i \in 1 .. n : InTable(e, levels[i])
        BY <2>3, <3>1 DEF Flushed
      <4>2. i \in DOMAIN levels'
        BY <2>3
      <4> QED BY <2>4, <4>1, <4>2 DEF Flushed, InTable
    <3>2. CASE e \in imm
      <4>1. \E q \in DOMAIN BuildTable(imm) : BuildTable(imm)[q].n = e.n
        BY <3>2, TableHolds, LsmAssumption DEF TypeOK, Memory
      <4>2. n + 1 \in DOMAIN levels'
        BY <2>3
      <4> QED BY <2>5, <4>1, <4>2 DEF Flushed, InTable
    <3> QED BY <2>2, <3>1, <3>2 DEF Placed, NoneMissing
  <2>8. Layered'
    <3> SUFFICES ASSUME NEW i \in 1 .. n + 1, NEW p \in DOMAIN sst_files'[levels'[i]],
                        At(i, p)'.session = crashes,
                        NEW j \in i + 1 .. n + 1, NEW q \in DOMAIN sst_files'[levels'[j]]
                 PROVE  At(j, q)'.session = crashes /\ At(i, p)'.n < At(j, q)'.n
      BY <2>1, <2>2, <2>3 DEF Layered
    <3>1. i \in 1 .. n /\ (j \in i + 1 .. n \/ j = n + 1)
      BY <2>3
    <3>2. i \in DOMAIN levels /\ p \in DOMAIN sst_files[levels[i]] /\ At(i, p)' = At(i, p)
      BY <2>3, <2>4, <3>1 DEF At
    <3>3. /\ \A x \in imm : x \in Current /\ At(i, p).n < x.n
          /\ \A k \in i + 1 .. n : \A l \in DOMAIN sst_files[levels[k]] :
                At(k, l).session = crashes /\ At(i, p).n < At(k, l).n
      BY <3>2 DEF Placed, Layered, n
    <3>4. CASE j \in i + 1 .. n
      <4>1. j \in 1 .. n
        BY <2>3, <3>1, <3>4
      <4>2. q \in DOMAIN sst_files[levels[j]] /\ At(j, q)' = At(j, q)
        BY <2>4, <4>1 DEF At
      <4> QED BY <3>2, <3>3, <3>4, <4>2
    <3>5. CASE j = n + 1
      <4>1. q \in DOMAIN BuildTable(imm) /\ At(j, q)' = BuildTable(imm)[q]
        BY <2>5, <3>5 DEF At
      <4>2. \E x \in imm : /\ BuildTable(imm)[q].session = x.session
                           /\ BuildTable(imm)[q].n = x.n
        BY <4>1, TableOf, LsmAssumption DEF TypeOK, Memory
      <4>3. \A x \in imm : x.session = crashes
        BY <3>3 DEF Current
      <4> QED BY <3>2, <3>3, <4>1, <4>2, <4>3
    <3> QED BY <3>1, <3>4, <3>5
  <2> QED BY <2>6, <2>7, <2>8 DEF Placed
<1>7. CASE Crash \/ Close \/ Open
  <2>1. Current' = {}
    <3>1. CASE Crash \/ Close
      <4>1. status' = "down"
        BY <3>1 DEF Crash, Close, Die
      <4> QED BY <4>1 DEF Counted
    <3>2. CASE Open
      <4>1. status # "up" /\ UNCHANGED <<applied, crashes>>
        BY <3>2 DEF Open, history
      <4> QED BY <4>1 DEF Counted, Current
    <3> QED BY <1>7, <3>1, <3>2
  <2> QED BY <2>1, NothingPlaced
<1> QED BY <1>2, <1>3, <1>4, <1>5, <1>6, <1>7, Steps

\* Newest finds the largest timestamp.
LEMMA NewestIs ==
    ASSUME NEW n \in Nat, NEW S, S # {}, \A e \in S : e.ts \in Nat /\ e.ts <= n
    PROVE  Newest(S) \in S /\ \A f \in S : f.ts <= Newest(S).ts
<1> DEFINE T == {e.ts : e \in S}
<1>1. T \in SUBSET 0 .. n /\ T # {}
  OBVIOUS
<1>2. Max(T) \in T /\ \A j \in T : j <= Max(T)
  BY <1>1, MaxIs
<1>3. PICK e \in S : e.ts = Max(T)
  BY <1>2
<1>4. \A f \in S : f.ts <= e.ts
  BY <1>2, <1>3
<1> QED BY <1>4 DEF Newest

\* A read in the memtable has the newest version in place there, in a table the
\* one on top.
LEMMA FreshReads == FreshInv => SessionReadsFresh
<1> SUFFICES ASSUME FreshInv, Up, NEW k \in Keys, NEW v \in get_at_ts(k, EngineTs),
                    NEW w \in Current, w.key = k, Before(v, w),
                    ~SplitKey(k), ~(\E d \in applied : d.key = k /\ ~d.live /\ Flushed(d))
             PROVE  /\ v # NotFound /\ v.session < crashes
                    /\ \A x \in Current : x.key = k /\ Before(v, x) => x.ts <= WrittenTs(v)
  <2> SUFFICES ASSUME FreshInv, Up, NEW k \in Keys, NEW v \in get_at_ts(k, EngineTs),
                      NEW w \in Current, w.key = k, Before(v, w),
                      ~SplitKey(k), ~(\E d \in applied : d.key = k /\ ~d.live /\ Flushed(d))
               PROVE  /\ v # NotFound /\ v.session < crashes
                      /\ \A x \in applied : x.key = k /\ x.session = crashes /\ Before(v, x)
                            => x.ts <= WrittenTs(v)
    BY DEF SessionReadsFresh, Current
  <2> QED BY DEF Current
<1> USE DEF FreshInv, LsmInv
<1>1. /\ applied \in SUBSET Entries /\ memtable \in SUBSET applied /\ imm = {}
      /\ crashes \in Nat /\ levels \in Seq(SstIds)
      /\ \A e \in applied : /\ e.ts \in Nat /\ e.n \in Nat /\ e.after \in Nat /\ e.session \in Nat
                            /\ e.n >= 1 /\ e.session <= crashes /\ e.after < e.n
                            /\ e.live \in BOOLEAN
      /\ Current \in SUBSET applied
  <2>1. /\ applied \in SUBSET Entries /\ memtable \in SUBSET applied /\ imm = {}
        /\ levels \in Seq(SstIds) /\ Current \in SUBSET applied
    BY DEF TypeOK, FromApplied, Up, Rotating, Current
  <2>2. crashes \in Nat
    BY LsmAssumption DEF TypeOK
  <2>3. \A e \in Entries : /\ e.ts \in Nat /\ e.n \in Nat /\ e.after \in Nat /\ e.session \in Nat
                           /\ e.live \in BOOLEAN
    BY DEF Entries
  <2> QED BY <2>1, <2>2, <2>3 DEF Counted
<1>2. EngineTs \in Nat /\ \A e \in applied : e.ts <= EngineTs
  <2>1. /\ EngineTs = MaxWrites * Width /\ Width \in Nat /\ MaxWrites \in Nat
        /\ requests \in Nat /\ requests <= MaxWrites
    BY WidthIs, LsmAssumption DEF EngineTs, Width, TypeOK, Counted
  <2>2. /\ requests * Width \in Nat /\ MaxWrites * Width \in Nat
        /\ requests * Width <= MaxWrites * Width
    BY <2>1, ProductGrows
  <2>3. \A e \in applied : e.ts <= requests * Width
    BY DEF Counted
  <2> QED BY <1>1, <2>1, <2>2, <2>3
<1>3. \A e \in applied : \A x : x.n = e.n => WrittenTs(x) = e.ts
  BY DEF WrittenTs, Counted
<1>4. CASE Visible(memtable, k, EngineTs) # {}
  <2> DEFINE S == Visible(memtable, k, EngineTs)
  <2>1. \A e \in S : e \in memtable /\ e.ts \in Nat /\ e.ts <= EngineTs
    BY <1>1 DEF Visible
  <2>2. v = Newest(S)
    BY <1>4 DEF get_at_ts
  <2>3. v \in S /\ \A f \in S : f.ts <= v.ts
    BY <1>2, <1>4, <2>1, <2>2, NewestIs
  <2>4. v \in memtable /\ v \in applied
    BY <1>1, <2>1, <2>3
  <2>5. \A x \in Current : x.key = k /\ Before(v, x) => x.ts <= v.ts
    <3> SUFFICES ASSUME NEW x \in Current, x.key = k, Before(v, x) PROVE x.ts <= v.ts
      OBVIOUS
    <3>1. v.n <= x.n
      BY <1>1, <2>4 DEF Before
    <3>2. x \in memtable
      BY <2>4, <3>1 DEF Placed, NewestInMemory
    <3>3. x \in S
      BY <1>1, <1>2, <3>2 DEF Visible
    <3> QED BY <2>3, <3>3
  <2>6. v \notin Current
    <3> SUFFICES ASSUME v \in Current PROVE FALSE
      OBVIOUS
    <3>1. v.ts < w.ts
      BY DEF Ordered, Before
    <3>2. w.ts <= v.ts
      BY <2>5
    <3> QED BY <1>1, <2>4, <3>1, <3>2
  <2>7. v.session < crashes
    BY <1>1, <2>4, <2>6 DEF Current
  <2>8. v # NotFound
    BY <1>1, <2>4 DEF NotFound
  <2> QED BY <1>3, <2>4, <2>5, <2>7, <2>8
<1>5. CASE Visible(memtable, k, EngineTs) = {}
  <2>1. \A x \in Current : x.key = k => Flushed(x)
    <3> SUFFICES ASSUME NEW x \in Current, x.key = k PROVE Flushed(x)
      OBVIOUS
    <3>1. x \notin memtable
      BY <1>1, <1>2, <1>5 DEF Visible
    <3> QED BY <1>1, <3>1 DEF Placed, NoneMissing
  <2>2. v \in SearchTables(k)
    BY <1>1, <1>5 DEF get_at_ts, Visible
  <2> DEFINE n == Len(levels)
             t(i) == sst_files[levels[i]]
             passed(i) == \A j \in i + 1 .. Len(levels) : NotFound \in TableAnswers(j, k)
  <2>3. /\ n \in Nat /\ DOMAIN levels = 1 .. n
        /\ \A i \in 1 .. n : t(i) \in Seq(Entries) /\ SortedTable(t(i), applied) /\ ~Split(t(i), k)
    <3>1. n \in Nat /\ DOMAIN levels = 1 .. n /\ \A i \in 1 .. n : levels[i] \in SstIds
      BY <1>1, LenProperties
    <3> QED BY <3>1 DEF TypeOK, TablesSorted, SplitKey
  <2>4. ASSUME NEW i \in 1 .. n, NEW p \in DOMAIN t(i)
        PROVE  \E e \in applied : /\ t(i)[p].n = e.n /\ t(i)[p].key = e.key
                                  /\ t(i)[p].session = e.session /\ t(i)[p].live = e.live
    BY <2>3, TableFacts DEF At
  <2>5. ASSUME NEW i \in 1 .. n PROVE KeysAscend(t(i))
    <3>1. \A p \in DOMAIN t(i) : t(i)[p].key \in Nat
      <4>1. t(i) \in Seq(Entries)
        BY <2>3
      <4>2. \A e \in Entries : e.key \in Nat
        BY LsmAssumption DEF Entries
      <4> QED BY <4>1, <4>2, LenProperties
    <3> QED BY <2>3, <3>1 DEF KeysAscend, SortedTable
  <2>6. ASSUME NEW i \in 1 .. n, NEW p \in DOMAIN t(i), First(t(i), k, p)
        PROVE  TableAnswers(i, k) = {t(i)[p]} /\ t(i)[p] # NotFound
    <3>1. TableAnswers(i, k) = {IF t(i)[p].live THEN t(i)[p] ELSE NotFound}
      BY <2>3, <2>5, <2>6, GetsFirst, LsmAssumption DEF TableAnswers
    <3>2. PICK e \in applied : /\ t(i)[p].n = e.n /\ t(i)[p].key = e.key
                               /\ t(i)[p].live = e.live
      BY <2>4
    <3>3. t(i)[p].live
      <4> SUFFICES ASSUME ~t(i)[p].live PROVE FALSE
        OBVIOUS
      <4>1. e.key = k /\ ~e.live
        BY <2>6, <3>2 DEF First
      <4>2. Flushed(e)
        BY <2>3, <3>2 DEF Flushed, InTable
      <4> QED BY <4>1, <4>2
    <3>4. t(i)[p] # NotFound
      BY <1>1, <3>2 DEF NotFound
    <3> QED BY <3>1, <3>3, <3>4
  <2>7. ASSUME NEW x \in Current, x.key = k
        PROVE  \E i \in 1 .. n : \E q \in DOMAIN t(i) :
                   t(i)[q].n = x.n /\ t(i)[q].key = k /\ t(i)[q].session = crashes
    <3>1. PICK i \in 1 .. n : InTable(x, levels[i])
      BY <2>1, <2>3, <2>7 DEF Flushed
    <3>2. PICK q \in DOMAIN t(i) : t(i)[q].n = x.n
      BY <3>1 DEF InTable
    <3>3. PICK e \in applied : /\ t(i)[q].n = e.n /\ t(i)[q].key = e.key
                               /\ t(i)[q].session = e.session
      BY <2>4
    <3>4. e = x
      BY <1>1, <3>2, <3>3 DEF Counted
    <3> QED BY <2>7, <3>2, <3>3, <3>4 DEF Current
  <2>8. \A i \in 1 .. n : HasKey(t(i), k) => NotFound \notin TableAnswers(i, k)
    BY <2>3, <2>6, FirstExists
  <2>9. v # NotFound
    <3> SUFFICES ASSUME v = NotFound PROVE FALSE
      OBVIOUS
    <3>1. passed(0)
      BY <2>2 DEF SearchTables
    <3>2. PICK i \in 1 .. n : \E q \in DOMAIN t(i) : t(i)[q].key = k
      BY <2>7
    <3>3. NotFound \notin TableAnswers(i, k)
      BY <2>8, <3>2 DEF HasKey
    <3>4. i \in 0 + 1 .. n
      BY <3>2
    <3> QED BY <3>1, <3>3, <3>4
  <2>10. PICK i \in 1 .. n : passed(i) /\ v \in TableAnswers(i, k)
    <3> DEFINE reached == {i \in DOMAIN levels : passed(i)}
    <3>1. \/ v \in UNION {TableAnswers(i, k) \ {NotFound} : i \in reached}
          \/ v \in IF passed(0) THEN {NotFound} ELSE {}
      BY <2>2 DEF SearchTables
    <3>2. v \in UNION {TableAnswers(i, k) \ {NotFound} : i \in reached}
      BY <2>9, <3>1
    <3>3. PICK i \in reached : v \in TableAnswers(i, k)
      <4> HIDE DEF reached
      <4> QED BY <3>2
    <3>4. i \in 1 .. n /\ passed(i)
      BY <2>3, <3>3
    <3> QED BY <3>3, <3>4
  <2>11. HasKey(t(i), k)
    BY <2>3, <2>9, <2>10, GetsAnEntry DEF HasKey, TableAnswers
  <2>12. PICK p \in DOMAIN t(i) : First(t(i), k, p)
    BY <2>3, <2>11, FirstExists
  <2>13. v = t(i)[p]
    BY <2>6, <2>10, <2>12
  <2>14. PICK e \in applied : v.n = e.n /\ v.session = e.session /\ v.key = e.key
    BY <2>4, <2>13
  <2>15. ASSUME NEW x \in Current, x.key = k, Before(v, x)
         PROVE  x.ts <= e.ts
    <3>1. PICK j \in 1 .. n : \E q \in DOMAIN t(j) :
                   t(j)[q].n = x.n /\ t(j)[q].key = k /\ t(j)[q].session = crashes
      BY <2>7, <2>15
    <3>2. PICK q \in DOMAIN t(j) : /\ t(j)[q].n = x.n /\ t(j)[q].key = k
                                   /\ t(j)[q].session = crashes
      BY <3>1
    <3>3. e.n < x.n
      BY <1>1, <2>14, <2>15 DEF Before
    <3>4. ~(j > i)
      <4> SUFFICES ASSUME j > i PROVE FALSE
        OBVIOUS
      <4>1. NotFound \notin TableAnswers(j, k)
        BY <2>8, <3>2 DEF HasKey
      <4>2. j \in i + 1 .. n
        BY <2>3
      <4> QED BY <2>10, <4>1, <4>2
    <3>5. ~(j < i)
      <4> SUFFICES ASSUME j < i PROVE FALSE
        OBVIOUS
      <4>1. i \in j + 1 .. n
        BY <2>3
      <4>2. At(j, q).session = crashes /\ j \in DOMAIN levels
        BY <2>3, <3>2 DEF At
      <4>3. At(j, q).n < At(i, p).n
        BY <4>1, <4>2 DEF Placed, Layered
      <4>4. x.n < e.n
        BY <2>13, <2>14, <3>2, <4>3 DEF At
      <4> QED BY <1>1, <3>3, <4>4
    <3>6. j = i
      BY <2>3, <3>4, <3>5
    <3>7. p <= q /\ p # q
      <4>1. p <= q
        BY <2>12, <3>2, <3>6 DEF First
      <4>2. t(i)[p].n # t(i)[q].n
        BY <1>1, <2>13, <2>14, <3>2, <3>3, <3>6
      <4> QED BY <4>1, <4>2
    <3>8. p < q /\ t(i)[p].key = k /\ t(i)[q].key = k /\ k \in Nat
      <4>1. p \in Nat /\ q \in Nat
        BY <2>3, <3>2, <3>6, LenProperties
      <4> QED BY <2>12, <3>2, <3>6, <3>7, <4>1, LsmAssumption DEF First
    <3>9. SortedTable(t(i), applied) /\ q \in DOMAIN t(i)
      BY <2>3, <3>6
    <3>10. \A a, b \in applied : a.n = t(i)[p].n /\ b.n = t(i)[q].n => a.ts > b.ts
      BY <3>8, <3>9 DEF SortedTable
    <3>11. e.ts > x.ts
      BY <1>1, <2>13, <2>14, <3>2, <3>6, <3>10
    <3> QED BY <1>1, <3>11
  <2>16. v.session < crashes
    <3> SUFFICES ASSUME ~(v.session < crashes) PROVE FALSE
      OBVIOUS
    <3>1. e \in Current
      BY <1>1, <2>14 DEF Current
    <3>2. e.ts < w.ts
      BY <2>14, <3>1 DEF Ordered, Before
    <3>3. w.ts <= e.ts
      BY <2>15
    <3> QED BY <1>1, <3>2, <3>3
  <2>17. WrittenTs(v) = e.ts
    BY <1>3, <2>14
  <2> QED BY <2>9, <2>15, <2>16, <2>17
<1> QED BY <1>4, <1>5

\* An empty tree has nothing to be read.
LEMMA FreshInit == Init => FreshInv
<1> SUFFICES ASSUME Init PROVE FreshInv
  OBVIOUS
<1>1. LsmInv
  BY LsmInit
<1>2. /\ applied = {} /\ memtable = {} /\ imm = {} /\ pending = {} /\ levels = <<>>
      /\ status = "up" /\ pc = "idle" /\ requests = 0 /\ next_ts = 1
      /\ sst_files = [i \in SstIds |-> <<>>] /\ wal_files = [i \in WalIds |-> EmptyWal]
  BY DEF Init
<1>3. Current = {} /\ Width \in Nat /\ MaxWrites \in Nat
  BY <1>2, WidthIs, LsmAssumption DEF Current
<1>4. Counted
  BY <1>2, <1>3 DEF Counted
<1>5. Ordered /\ Waiting
  BY <1>2, <1>3 DEF Ordered, Waiting
<1>6. FromApplied
  BY <1>2 DEF FromApplied, EmptyWal, Range
<1>7. TablesSorted
  BY <1>2 DEF TablesSorted, SortedTable
<1>8. Placed /\ Rotating
  BY <1>2, <1>3 DEF Placed, NewestInMemory, NoneMissing, Layered, Rotating
<1> QED BY <1>1, <1>4, <1>5, <1>6, <1>7, <1>8 DEF FreshInv

\* A read misses nothing its session wrote before the latest write began, however
\* rotations and crashes fall among the requests of concurrent writers, unless a
\* tombstone of the key was flushed, its versions are in several blocks of a
\* table, or what it returns was recovered with a larger timestamp.
THEOREM ReadsFresh == Spec => []SessionReadsFresh
<1>1. Init => FreshInv
  BY FreshInit
<1>2. FreshInv /\ [Next]_vars => FreshInv'
  <2> SUFFICES ASSUME FreshInv, [Next]_vars PROVE FreshInv'
    OBVIOUS
  <2>1. LsmInv'
    <3>1. TypeOK' /\ Memory'
      BY TypeStep DEF FreshInv, LsmInv
    <3>2. Names'
      BY NamesStep DEF FreshInv, LsmInv
    <3>3. Kept'
      BY <3>2, KeptStep DEF FreshInv
    <3> QED BY <3>1, <3>2, <3>3 DEF LsmInv
  <2>2. Counted'
    BY CountedStep DEF FreshInv, LsmInv
  <2>3. Ordered' /\ Waiting'
    BY <2>2, OrderedStep, WaitingStep DEF FreshInv, LsmInv
  <2>4. FromApplied' /\ TablesSorted' /\ Rotating'
    BY FromAppliedStep, TablesStep, RotatingStep DEF FreshInv
  <2>5. Placed'
    BY <2>1, <2>2, <2>4, PlacedStep DEF FreshInv
  <2> QED BY <2>1, <2>2, <2>3, <2>4, <2>5 DEF FreshInv
<1> QED BY <1>1, <1>2, FreshReads, PTL DEF Spec

=============================================================================
