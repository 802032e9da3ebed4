----------------------------- MODULE MvccProofs -----------------------------
(***************************************************************************)
(* Proofs about Mvcc, for any transactions, keys, hashes and bounds.       *)
(*                                                                         *)
(* A transaction is decided when commit goes on to prepare_commit.  The    *)
(* order in which transactions are decided is the serial order that the    *)
(* theorems need; no variable records it, so the invariant says that such  *)
(* an order exists.                                                        *)
(***************************************************************************)
EXTENDS Mvcc, FiniteSetTheorems, SequenceTheorems, WellFoundedInduction, TLAPS

Undecided(t) == pc[t] \in {"new", "begin_ts", "begin", "active", "commit_ts", "validate"}
Decided(t)   == pc[t] \in {"prepare", "apply", "release", "committed", "cut_short"}
Writing(t)   == pc[t] \in {"apply", "release", "committed", "cut_short"}
GivesUp(t)   == pc[t] \in {"release", "committed", "aborting", "aborted"}

\* What a transaction has done by the step it is at.
Progress ==
    \A t \in Txns :
        /\ pc[t] \in {"new", "begin_ts", "begin"} => WriteKeys(t) = {} /\ observed[t] = {}
        /\ Decided(t) \/ pc[t] = "validate" => commit_ts[t] # NoTs
        /\ commit_ts[t] # NoTs => Decided(t) \/ pc[t] \in {"validate", "failed"}

\* X locks exclude each other, and a write set is locked until the locks go.
LocksKept ==
    /\ \A k \in Keys : \A t, u \in Txns : held[k][t] = "X" /\ held[k][u] = "X" => t = u
    /\ \A t \in Txns : \A k \in WriteKeys(t) : GivesUp(t) \/ held[k][t] = "X"

\* Versions are written inside commit, of keys of the write set, and stay the
\* newest while their writer has its locks.
VersionsOwned ==
    \A k \in Keys : \A i \in DOMAIN versions[k] :
        /\ Writing(Writer(k, i)) /\ k \in WriteKeys(Writer(k, i))
        /\ pc[Writer(k, i)] \in {"apply", "cut_short"} => i = Len(versions[k])

\* What SSI has in its books.
Registered ==
    /\ IsFiniteSet(active_txns)
    /\ ActiveWritersExact
    /\ \A t \in active_txns : /\ active_start_ts[t] = start_ts[t]
                              /\ isolation[t] = "Serializable"
                              /\ pc[t] \in {"active", "commit_ts", "validate", "failed"}

\* What a transaction has read.
ReadsRecorded ==
    \A t \in Txns : \A o \in observed[t] :
        /\ o[2] <= Len(versions[o[1]])
        /\ isolation[t] = "Serializable" => o[1] \in read_set[t]

\* Storage counts from 1 and has not reached the oracle's least timestamp, so a
\* serializable transaction began above every version.
ClocksApart ==
    /\ \A k \in Keys : \A i \in DOMAIN versions[k] : versions[k][i].ts <= LeastTs
    /\ FirstMs <= now
    /\ \A t \in Txns :
          /\ began[t] = NoTs \/ FirstMs <= began[t]
          /\ isolation[t] = "Serializable" =>
                pc[t] \in {"new", "begin_ts"} \/ LeastTs <= start_ts[t]

\* A begin and a commit that overlap are on record as such.
BeginsApart ==
    \A t, u \in Txns : pc[t] = "begin_ts" /\ InCommit(u) => BeganInside(t, u)

Inv == /\ TypeOK /\ Progress /\ LocksKept /\ VersionsOwned /\ Registered
       /\ ClocksApart /\ BeginsApart /\ ReadsRecorded

-----------------------------------------------------------------------------
\* R is the order in which the transactions that did not fail were decided; the
\* undecided ones come after all of them.
DecisionOrder(R) ==
    /\ \A t, u \in Txns : <<t, u>> \in R => Decided(t) /\ t # u
    /\ \A t, u, v \in Txns : <<t, u>> \in R /\ <<u, v>> \in R => <<t, v>> \in R
    /\ \A t, u \in Txns : Decided(t) /\ Undecided(u) => <<t, u>> \in R
    /\ \A t, u \in Txns : Decided(t) /\ Decided(u) /\ t # u => <<t, u>> \in R \/ <<u, t>> \in R

\* Who writes a key after others, or has it locked for that, and who reads what
\* others wrote is decided after them.
FlowInOrder(R) ==
    /\ \A k \in Keys : \A i, j \in DOMAIN versions[k] :
          i < j /\ Writer(k, i) # Writer(k, j) => <<Writer(k, i), Writer(k, j)>> \in R
    /\ \A u \in Txns : \A k \in WriteKeys(u) : \A i \in DOMAIN versions[k] :
          ~GivesUp(u) /\ Writer(k, i) # u => <<Writer(k, i), u>> \in R
    /\ \A u \in Txns : \A o \in observed[u] :
          o[2] # 0 => <<Writer(o[1], o[2]), u>> \in R

OrderExists == \E R \in SUBSET (Txns \X Txns) : DecisionOrder(R) /\ FlowInOrder(R)

-----------------------------------------------------------------------------
\* SSI has the writes of a decided transaction in its index.
WritesIndexed ==
    \A t \in Txns : isolation[t] = "Serializable" /\ Decided(t) =>
        \A k \in WriteKeys(t) :
            [hash |-> hash_key[k], commit_ts |-> commit_ts[t], start_ts |-> start_ts[t]]
                \in write_index

\* What validation has made sure of: whoever was decided before t and wrote what t
\* read was committed when t began, or began when t was committing.
Validated(R) ==
    \A t, u \in Txns :
        /\ isolation[t] = "Serializable" /\ isolation[u] = "Serializable"
        /\ Decided(t) /\ Decided(u) /\ <<u, t>> \in R
        /\ read_set[t] \cap WriteKeys(u) # {}
        => commit_ts[u] <= start_ts[t] \/ start_ts[u] >= commit_ts[t]

\* A transaction whose start_ts is not below u's commit_ts began inside u's commit,
\* or before it with the timestamps misordered, or after all u's writes, so that
\* it reads none older.
BeganAfter(R) ==
    \A t, u \in Txns :
        /\ isolation[t] = "Serializable" /\ pc[t] \notin {"new", "begin_ts"}
        /\ commit_ts[u] # NoTs /\ commit_ts[u] <= start_ts[t]
        /\ ~BeganInside(t, u) /\ ~Misordered(t, u)
        => \/ pc[u] = "failed"
           \/ /\ pc[u] \in {"release", "committed", "cut_short"}
              /\ <<u, t>> \in R
              /\ \A o \in observed[t] : \A i \in DOMAIN versions[o[1]] :
                    Writer(o[1], i) = u => i <= o[2]

SerialOrderExists ==
    \E R \in SUBSET (Txns \X Txns) :
        DecisionOrder(R) /\ FlowInOrder(R) /\ Validated(R) /\ BeganAfter(R)

SerialInv == WritesIndexed /\ SerialOrderExists

-----------------------------------------------------------------------------
(***************************************************************************)
(* Types.                                                                  *)
(***************************************************************************)

\* A set of naturals with an element has a least one.
LEMMA LeastExists ==
    ASSUME NEW S \in SUBSET Nat, S # {}
    PROVE  \E s \in S : \A r \in S : s <= r
<1> DEFINE less == {ss \in Nat \X Nat : ss[1] < ss[2]}
<1>1. IsWellFoundedOn(less, Nat)
  BY NatLessThanWellFounded DEF OpToRel
<1>2. \E s \in S : \A r \in S : <<r, s>> \notin less
  <2> HIDE DEF less
  <2> QED BY <1>1, WFMin
<1>3. \A r, s \in S : <<r, s>> \notin less => s <= r
  OBVIOUS
<1> HIDE DEF less
<1> QED BY <1>2, <1>3

\* update_safe_snapshot computes a timestamp.
LEMMA SafeSnapshotType ==
    ASSUME UpdateSafeSnapshot, active_start_ts' \in [Txns -> Nat \cup {NoTs}]
    PROVE  safe_snapshot' \in Nat
<1> DEFINE starts == {active_start_ts'[t] : t \in Txns} \ {NoTs}
<1>1. starts \in SUBSET Nat
  OBVIOUS
<1>2. safe_snapshot' = IF starts = {} THEN MaxTs
                       ELSE CHOOSE s \in starts : \A r \in starts : s <= r
  BY DEF UpdateSafeSnapshot
<1> HIDE DEF starts
<1>3. CASE starts = {}
  BY <1>2, <1>3 DEF MaxTs
<1>4. CASE starts # {}
  <2>1. \E s \in starts : \A r \in starts : s <= r
    BY <1>1, <1>4, LeastExists
  <2> QED BY <1>1, <1>2, <1>4, <2>1
<1> QED BY <1>3, <1>4

\* A millisecond that is not before the first makes timestamps that are not below
\* the least.
LEMMA TimestampsAboveLeast ==
    ASSUME NEW ms \in Nat, FirstMs <= ms, NEW n \in Nat
    PROVE  /\ ms * LogicalSpan + n \in Nat
           /\ LeastTs \in Nat /\ LeastTs <= ms * LogicalSpan + n
<1>1. ms - FirstMs \in Nat /\ ms = FirstMs + (ms - FirstMs)
  BY MvccAssumption
<1> DEFINE d == ms - FirstMs
<1> HIDE DEF d
<1>2. d \in Nat /\ ms = FirstMs + d
  BY <1>1 DEF d
<1>3. d * LogicalSpan \in Nat /\ FirstMs * LogicalSpan \in Nat
  BY <1>2, MvccAssumption
<1>4. ms * LogicalSpan = FirstMs * LogicalSpan + d * LogicalSpan
  BY <1>2, MvccAssumption
<1> QED BY <1>3, <1>4 DEF LeastTs

\* What the oracle may answer is a number, and not below the least timestamp.
LEMMA AnswersAboveLeast ==
    ASSUME TypeOK, ClocksApart, NEW t \in Txns, began[t] # NoTs,
           NEW ts \in Oracle!Answers(t)
    PROVE  ts \in Nat /\ LeastTs <= ts
<1>1. began[t] \in Nat /\ FirstMs <= began[t] /\ highest \in Nat
  BY DEF TypeOK, ClocksApart
<1>2. PICK ms \in began[t] .. highest, n \in Logicals : ts = ms * LogicalSpan + n
  BY DEF Oracle!Answers
<1>3. ms \in Nat /\ FirstMs <= ms /\ n \in Nat
  BY <1>1, <1>2, MvccAssumption
<1> QED BY <1>2, <1>3, TimestampsAboveLeast

\* Locking a key for a write, or finding it locked.
LEMMA LockXType ==
    ASSUME TypeOK, NEW t \in Txns, NEW k \in Keys, LockX(t, k)
    PROVE  /\ held' \in [Keys -> [Txns -> {"none", "X"}]]
           /\ \A j \in Keys : \A u \in Txns :
                 held'[j][u] = IF j = k /\ u = t THEN "X" ELSE held[j][u]
           /\ \A u \in Txns \ {t} : held[k][u] = "none" \/ held[k][t] = "X"
<1> USE DEF TypeOK
<1>1. CASE Locks!Grant(t, k, "X")
  <2>1. held' = [held EXCEPT ![k][t] = "X"]
    BY <1>1 DEF Locks!Grant
  <2>2. \A u \in Txns \ {t} : held[k][u] = "none"
    BY <1>1 DEF Locks!Grant, Locks!None, Locks!is_compatible, Locks!CompatiblePairs
  <2> QED BY <2>1, <2>2
<1>2. CASE held[k][t] = "X" /\ UNCHANGED held
  BY <1>2
<1> QED BY <1>1, <1>2 DEF LockX

\* Finitely many transactions have written; one of them less leaves no fewer than
\* none.
LEMMA WritersDecrease ==
    ASSUME Registered, NEW t \in active_txns, WriteKeys(t) # {}
    PROVE  active_writers - 1 \in Nat
<1> DEFINE W == {u \in active_txns : WriteKeys(u) # {}}
<1>1. IsFiniteSet(W) /\ active_writers = Cardinality(W)
  BY FS_Subset DEF Registered, ActiveWritersExact
<1>2. Cardinality(W) \in Nat /\ (Cardinality(W) = 0 <=> W = {}) /\ W # {}
  BY <1>1, FS_CardinalityType, FS_EmptySet
<1> QED BY <1>1, <1>2

\* storage.put or delete adds one version of one key.
LEMMA ApplyEffect ==
    ASSUME TypeOK, NEW t \in Txns, NEW k \in Keys, Apply(t, k)
    PROVE  /\ versions' \in [Keys -> Seq([writer : Txns, live : BOOLEAN, ts : Nat])]
           /\ Len(versions'[k]) = Len(versions[k]) + 1
           /\ versions'[k][Len(versions[k]) + 1].writer = t
           /\ versions'[k][Len(versions[k]) + 1].ts <= LeastTs
           /\ \A i \in 1 .. Len(versions[k]) : versions'[k][i] = versions[k][i]
           /\ \A j \in Keys \ {k} : versions'[j] = versions[j]
<1> DEFINE new == [writer |-> t, live |-> k \in puts[t], ts |-> next_ts]
<1>1. /\ new \in [writer : Txns, live : BOOLEAN, ts : Nat] 
      /\ new.writer = t /\ new.ts = next_ts
  BY DEF TypeOK
<1>2. versions' = [versions EXCEPT ![k] = Append(@, new)] /\ next_ts <= LeastTs
  BY DEF Apply, Store
<1> HIDE DEF new
<1>3. versions \in [Keys -> Seq([writer : Txns, live : BOOLEAN, ts : Nat])]
  BY DEF TypeOK
<1>4. versions'[k] = Append(versions[k], new) /\ \A j \in Keys \ {k} : versions'[j] = versions[j]
  BY <1>2, <1>3
<1>5. versions' \in [Keys -> Seq([writer : Txns, live : BOOLEAN, ts : Nat])]
  <2>1. Append(versions[k], new) \in Seq([writer : Txns, live : BOOLEAN, ts : Nat])
    <3> HIDE DEF new
    <3> QED BY <1>1, <1>3, AppendProperties
  <2> QED BY <1>2, <1>3, <2>1
<1>6. /\ Len(versions'[k]) = Len(versions[k]) + 1
      /\ versions'[k][Len(versions[k]) + 1] = new
      /\ \A i \in 1 .. Len(versions[k]) : versions'[k][i] = versions[k][i]
  BY <1>3, <1>4
<1> QED BY <1>1, <1>2, <1>4, <1>5, <1>6

\* A set of naturals with an upper bound has a greatest one.
LEMMA GreatestExists ==
    ASSUME NEW n \in Nat, NEW S \in SUBSET (0 .. n), S # {}
    PROVE  \E s \in S : \A r \in S : r <= s
<1> DEFINE T == {n - s : s \in S}
<1>1. T \in SUBSET Nat /\ T # {}
  <2>1. \A s \in S : s \in Nat /\ s <= n
    OBVIOUS
  <2>2. \A s \in S : n - s \in Nat
    BY <2>1
  <2> QED BY <2>2
<1>2. PICK m \in T : \A r \in T : m <= r
  <2> HIDE DEF T
  <2> QED BY <1>1, LeastExists
<1>3. PICK s \in S : m = n - s
  BY <1>2
<1>4. \A r \in S : n - s <= n - r
  BY <1>2, <1>3
<1>5. \A r \in S : r <= s
  BY <1>4
<1> QED BY <1>5

\* get_at_ts finds one of the versions or none, and the newest if all are old
\* enough for the reader.
LEMMA VisibleVersionIs ==
    ASSUME TypeOK, NEW k \in Keys, NEW ts \in Nat
    PROVE  /\ VisibleVersion(k, ts) \in Nat
           /\ VisibleVersion(k, ts) <= Len(versions[k])
           /\ (\A i \in DOMAIN versions[k] : versions[k][i].ts <= ts) =>
                 VisibleVersion(k, ts) = Len(versions[k])
<1> DEFINE n    == Len(versions[k])
           seen == {i \in DOMAIN versions[k] : versions[k][i].ts <= ts}
           v    == VisibleVersion(k, ts)
<1>1. n \in Nat /\ DOMAIN versions[k] = 1 .. n
  BY DEF TypeOK
<1>2. seen \in SUBSET (1 .. n) /\ seen \in SUBSET (0 .. n)
  BY <1>1
<1>3. v = IF seen = {} THEN 0 ELSE CHOOSE i \in seen : \A j \in seen : j <= i
  BY DEF VisibleVersion
<1>4. ASSUME \A i \in DOMAIN versions[k] : versions[k][i].ts <= ts PROVE seen = 1 .. n
  BY <1>1, <1>4
<1> HIDE DEF n, seen, v
<1>5. CASE seen = {}
  <2>1. v = 0
    BY <1>3, <1>5
  <2>2. seen = 1 .. n => n = 0
    BY <1>1, <1>5
  <2>3. v \in Nat /\ v <= n /\ ((\A i \in DOMAIN versions[k] : versions[k][i].ts <= ts) => v = n)
    BY <1>1, <1>4, <2>1, <2>2
  <2> QED BY <2>3 DEF v, n
<1>6. CASE seen # {}
  <2>1. \E i \in seen : \A j \in seen : j <= i
    BY <1>1, <1>2, <1>6, GreatestExists
  <2>2. v \in seen /\ \A j \in seen : j <= v
    BY <1>3, <1>6, <2>1
  <2>3. v \in Nat /\ v <= n /\ n >= 1
    BY <1>1, <1>2, <2>2
  <2>4. seen = 1 .. n => v = n
    BY <1>1, <2>2, <2>3
  <2>5. (\A i \in DOMAIN versions[k] : versions[k][i].ts <= ts) => v = n
    BY <1>4, <2>4
  <2> QED BY <2>3, <2>5 DEF v, n
<1> QED BY <1>5, <1>6

\* Every operation of the engine, the SSI manager and the transactions keeps
\* the types.
LEMMA TypeStep ==
    ASSUME Inv, [Next]_vars
    PROVE  TypeOK'
<1>0. TypeOK
  BY DEF Inv
<1> USE MvccAssumption DEF TypeOK, oracle, storage, ssi, writes, txnVars, history, vars, Goto,
                           CountOp
<1>01. ASSUME NEW t \in Txns, Oracle!Call(t)
       PROVE  began' \in [Txns -> Nat \cup {NoTs}] /\ UNCHANGED <<now, highest, answer>>
  BY <1>0, <1>01 DEF Oracle!Call
<1>02. ASSUME NEW t \in Txns, NEW ts \in Oracle!Answers(t), Oracle!Return(t, ts)
       PROVE  /\ ts \in Nat /\ UNCHANGED <<now, highest>>
              /\ began' \in [Txns -> Nat \cup {NoTs}] /\ answer' \in [Txns -> Nat]
  <2>1. began[t] # NoTs
    BY <1>02 DEF Oracle!Return, Oracle!NoCall, NoTs
  <2>2. ts \in Nat
    BY <2>1, AnswersAboveLeast DEF Inv
  <2>3. began' = [began EXCEPT ![t] = NoTs] /\ answer' = [answer EXCEPT ![t] = ts]
    BY <1>02 DEF Oracle!Return, Oracle!NoCall, NoTs
  <2>4. began' \in [Txns -> Nat \cup {NoTs}]
    BY <1>0, <2>3
  <2>5. answer' \in [Txns -> Nat]
    BY <1>0, <2>2, <2>3
  <2> QED BY <1>02, <2>2, <2>4, <2>5 DEF Oracle!Return
<1>1. ASSUME NEW t \in Txns, NEW level \in Levels, BeginCall(t, level) PROVE TypeOK'
  <2>1. isolation' \in [Txns -> IsolationLevels] /\ pc' \in [Txns -> Pcs]
    BY <1>0, <1>1 DEF BeginCall, Pcs
  <2>2. beganInCommit' \subseteq Txns \X Txns
    BY <1>0, <1>1 DEF BeginCall
  <2>3. began' \in [Txns -> Nat \cup {NoTs}] /\ UNCHANGED <<now, highest, answer>>
    BY <1>1, <1>01 DEF BeginCall
  <2> QED BY <1>0, <1>1, <2>1, <2>2, <2>3 DEF BeginCall
<1>18. ASSUME NEW t \in Txns, NEW ts \in Oracle!Answers(t), BeginTs(t, ts) PROVE TypeOK'
  <2>1. /\ ts \in Nat /\ UNCHANGED <<now, highest>>
        /\ began' \in [Txns -> Nat \cup {NoTs}] /\ answer' \in [Txns -> Nat]
    BY <1>02, <1>18 DEF BeginTs
  <2>2. start_ts' \in [Txns -> Nat]
    BY <1>0, <1>18, <2>1 DEF BeginTs
  <2>3. pc' \in [Txns -> Pcs]
    BY <1>0, <1>18 DEF BeginTs, Pcs
  <2> QED BY <1>0, <1>18, <2>1, <2>2, <2>3 DEF BeginTs
<1>2. ASSUME NEW t \in Txns, DeferToSafeSnapshot(t) PROVE TypeOK'
  BY <1>0, <1>2 DEF DeferToSafeSnapshot
<1>3. ASSUME NEW t \in Txns, BeginRegister(t) PROVE TypeOK'
  <2>1. pc' \in [Txns -> Pcs]
    BY <1>0, <1>3 DEF BeginRegister, Pcs
  <2>2. CASE isolation[t] = "Snapshot"
    BY <1>0, <1>3, <2>1, <2>2 DEF BeginRegister
  <2>3. CASE isolation[t] # "Snapshot"
    <3>1. SsiBegin(t)
      BY <1>3, <2>3 DEF BeginRegister
    <3>2. active_start_ts' \in [Txns -> Nat \cup {NoTs}]
      BY <1>0, <3>1 DEF SsiBegin
    <3>3. safe_snapshot' \in Nat
      BY <3>1, <3>2, SafeSnapshotType DEF SsiBegin
    <3> QED BY <1>0, <1>3, <2>1, <3>1, <3>2, <3>3 DEF BeginRegister, SsiBegin
  <2> QED BY <2>2, <2>3
<1>4. ASSUME NEW t \in Txns, NEW k \in Keys, Get(t, k) PROVE TypeOK'
  <2>1. VisibleVersion(k, start_ts[t]) \in Nat
    BY <1>0, VisibleVersionIs
  <2>2. observed' \in [Txns -> SUBSET (Keys \X Nat)]
    BY <1>0, <1>4, <2>1 DEF Get
  <2>3. read_set' \in [Txns -> SUBSET Keys] /\ ops' \in [Txns -> Nat]
    BY <1>0, <1>4 DEF Get
  <2> QED BY <1>0, <1>4, <2>2, <2>3 DEF Get
<1>5. ASSUME NEW t \in Txns, NEW k \in Keys, Put(t, k) PROVE TypeOK'
  <2>1. held' \in [Keys -> [Txns -> {"none", "X"}]]
    BY <1>0, <1>5, LockXType DEF Put
  <2>2. active_writers' \in Nat
    BY <1>0, <1>5 DEF Put, RecordWrite
  <2>3. /\ puts' \in [Txns -> SUBSET Keys] /\ deletes' \in [Txns -> SUBSET Keys]
        /\ \A u \in Txns : puts'[u] \cap deletes'[u] = {}
    BY <1>0, <1>5 DEF Put
  <2>4. ops' \in [Txns -> Nat]
    BY <1>0, <1>5 DEF Put
  <2> QED BY <1>0, <1>5, <2>1, <2>2, <2>3, <2>4 DEF Put, RecordWrite
<1>6. ASSUME NEW t \in Txns, NEW k \in Keys, Delete(t, k) PROVE TypeOK'
  <2>1. held' \in [Keys -> [Txns -> {"none", "X"}]]
    BY <1>0, <1>6, LockXType DEF Delete
  <2>2. active_writers' \in Nat
    BY <1>0, <1>6 DEF Delete, RecordWrite
  <2>3. /\ puts' \in [Txns -> SUBSET Keys] /\ deletes' \in [Txns -> SUBSET Keys]
        /\ \A u \in Txns : puts'[u] \cap deletes'[u] = {}
    BY <1>0, <1>6 DEF Delete
  <2>4. ops' \in [Txns -> Nat]
    BY <1>0, <1>6 DEF Delete
  <2> QED BY <1>0, <1>6, <2>1, <2>2, <2>3, <2>4 DEF Delete, RecordWrite
<1>7. ASSUME NEW t \in Txns, NEW k \in Keys, WriteRefused(t, k) PROVE TypeOK'
  <2>1. ops' \in [Txns -> Nat]
    BY <1>0, <1>7 DEF WriteRefused
  <2> QED BY <1>0, <1>7, <2>1 DEF WriteRefused
<1>8. ASSUME NEW t \in Txns, CommitCall(t) PROVE TypeOK'
  <2>1. pc' \in [Txns -> Pcs]
    BY <1>0, <1>8 DEF CommitCall, Pcs
  <2>2. beganInCommit' \subseteq Txns \X Txns
    BY <1>0, <1>8 DEF CommitCall
  <2>3. began' \in [Txns -> Nat \cup {NoTs}] /\ UNCHANGED <<now, highest, answer>>
    BY <1>8, <1>01 DEF CommitCall
  <2> QED BY <1>0, <1>8, <2>1, <2>2, <2>3 DEF CommitCall
<1>19. ASSUME NEW t \in Txns, NEW ts \in Oracle!Answers(t), CommitTs(t, ts) PROVE TypeOK'
  <2>1. /\ ts \in Nat /\ UNCHANGED <<now, highest>>
        /\ began' \in [Txns -> Nat \cup {NoTs}] /\ answer' \in [Txns -> Nat]
    BY <1>02, <1>19 DEF CommitTs
  <2>2. commit_ts' \in [Txns -> Nat \cup {NoTs}]
    <3>1. commit_ts' = commit_ts \/ commit_ts' = [commit_ts EXCEPT ![t] = ts]
      BY <1>19 DEF CommitTs
    <3> QED BY <1>0, <2>1, <3>1
  <2>3. misordered' \subseteq Txns \X Txns
    <3>1. misordered' \subseteq misordered \cup {<<u, t>> : u \in NotBelow(t, ts)}
      BY <1>19 DEF CommitTs
    <3>2. NotBelow(t, ts) \subseteq Txns
      BY DEF NotBelow
    <3> QED BY <1>0, <3>1, <3>2
  <2>4. \E to \in {"failed", "validate", "prepare"} : pc' = [pc EXCEPT ![t] = to]
    BY <1>19 DEF CommitTs
  <2>5. pc' \in [Txns -> Pcs]
    BY <1>0, <2>4 DEF Pcs
  <2> QED BY <1>0, <1>19, <2>1, <2>2, <2>3, <2>5 DEF CommitTs
<1>9. ASSUME NEW t \in Txns, ValidateOk(t) PROVE TypeOK'
  <2>1. active_start_ts' \in [Txns -> Nat \cup {NoTs}]
    BY <1>0, <1>9 DEF ValidateOk
  <2>2. safe_snapshot' \in Nat
    BY <1>9, <2>1, SafeSnapshotType DEF ValidateOk
  <2>3. active_writers' \in Nat
    BY <1>9, WritersDecrease DEF ValidateOk, Inv
  <2>4. commit_ts[t] \in Nat /\ active_start_ts[t] \in Nat
    BY <1>0, <1>9 DEF ValidateOk, Inv, Registered, Progress
  <2>5. \A e \in write_index' : e.commit_ts \in Nat /\ e.start_ts \in Nat
    BY <1>0, <1>9, <2>4 DEF ValidateOk
  <2>6. pc' \in [Txns -> Pcs]
    BY <1>0, <1>9 DEF ValidateOk, Pcs
  <2> QED BY <1>0, <1>9, <2>1, <2>2, <2>3, <2>5, <2>6 DEF ValidateOk
<1>10. ASSUME NEW t \in Txns, ValidateFails(t) \/ Prepare(t) \/ ApplyFails(t) \/ Abandon(t)
       PROVE  TypeOK'
  <2>1. pc' \in [Txns -> Pcs]
    BY <1>0, <1>10 DEF ValidateFails, Prepare, ApplyFails, Abandon, Pcs
  <2> QED BY <1>0, <1>10, <2>1 DEF ValidateFails, Prepare, ApplyFails, Abandon
<1>11. ASSUME NEW t \in Txns, NEW k \in Keys, Apply(t, k) PROVE TypeOK'
  <2>1. versions' \in [Keys -> Seq([writer : Txns, live : BOOLEAN, ts : Nat])]
    BY <1>0, <1>11, ApplyEffect
  <2>2. next_ts' \in Nat
    BY <1>0, <1>11 DEF Apply, Store
  <2> QED BY <1>0, <1>11, <2>1, <2>2 DEF Apply
<1>12. ASSUME NEW t \in Txns, ManagerCommit(t) PROVE TypeOK'
  <2>1. commit_ts[t] \in Nat /\ WriteKeys(t) \subseteq Keys
    BY <1>0, <1>12 DEF ManagerCommit, Inv, Progress, Decided, WriteKeys
  <2>2. committed_txns' \subseteq [commit_ts : Nat, start_ts : Nat, writes : SUBSET Keys]
    BY <1>0, <1>12, <2>1 DEF ManagerCommit
  <2>3. pc' \in [Txns -> Pcs]
    BY <1>0, <1>12 DEF ManagerCommit, Pcs
  <2> QED BY <1>0, <1>12, <2>2, <2>3 DEF ManagerCommit
<1>13. ASSUME NEW t \in Txns, NEW k \in Keys, ReleaseKey(t, k) PROVE TypeOK'
  <2>1. held' \in [Keys -> [Txns -> {"none", "X"}]]
    BY <1>0, <1>13 DEF ReleaseKey, Locks!Drop, Locks!None
  <2> QED BY <1>0, <1>13, <2>1 DEF ReleaseKey
<1>14. ASSUME NEW t \in Txns, ReleaseEnd(t) PROVE TypeOK'
  <2>1. pc' \in [Txns -> Pcs]
    BY <1>0, <1>14 DEF ReleaseEnd, Pcs
  <2> QED BY <1>0, <1>14, <2>1 DEF ReleaseEnd
<1>15. ASSUME NEW t \in Txns, Abort(t) PROVE TypeOK'
  <2>1. pc' \in [Txns -> Pcs]
    BY <1>0, <1>15 DEF Abort, Pcs
  <2>2. CASE isolation[t] = "Snapshot"
    BY <1>0, <1>15, <2>1, <2>2 DEF Abort
  <2>3. CASE isolation[t] # "Snapshot"
    <3>1. SsiAbort(t)
      BY <1>15, <2>3 DEF Abort
    <3>2. active_start_ts' \in [Txns -> Nat \cup {NoTs}]
      BY <1>0, <3>1 DEF SsiAbort
    <3>3. safe_snapshot' \in Nat
      BY <3>1, <3>2, SafeSnapshotType DEF SsiAbort
    <3>4. active_writers' \in Nat
      BY <1>0, <3>1, WritersDecrease DEF SsiAbort, Inv
    <3> QED BY <1>0, <1>15, <2>1, <3>1, <3>2, <3>3, <3>4 DEF Abort, SsiAbort
  <2> QED BY <2>2, <2>3
<1>16. CASE Tick
  <2>1. now' \in Nat /\ highest' \in Nat /\ UNCHANGED <<began, answer>>
    BY <1>0, <1>16 DEF Tick, Oracle!Tick
  <2> QED BY <1>0, <1>16, <2>1 DEF Tick
<1>17. CASE UNCHANGED vars
  BY <1>0, <1>17
<1> QED
  BY <1>1, <1>2, <1>3, <1>4, <1>5, <1>6, <1>7, <1>8, <1>9, <1>10, <1>11, <1>12, <1>13,
     <1>14, <1>15, <1>16, <1>17, <1>18, <1>19 DEF Next, Step, AllOver

-----------------------------------------------------------------------------
(***************************************************************************)
(* What a transaction has done by the step it is at.                       *)
(***************************************************************************)

\* A transaction writes nothing before begin returns, and commit takes
\* the commit timestamp before anything is validated.
LEMMA ProgressStep ==
    ASSUME Inv, [Next]_vars
    PROVE  Progress'
<1>0. TypeOK /\ Progress
  BY DEF Inv
<1> USE DEF TypeOK, Progress, WriteKeys, Decided, oracle, storage, ssi, writes, txnVars,
            history, vars, Goto, CountOp
<1>1. ASSUME NEW t \in Txns, NEW level \in Levels, BeginCall(t, level) PROVE Progress'
  BY <1>0, <1>1 DEF BeginCall
<1>16. ASSUME NEW t \in Txns, NEW ts \in Oracle!Answers(t), BeginTs(t, ts) PROVE Progress'
  BY <1>0, <1>16 DEF BeginTs
<1>2. ASSUME NEW t \in Txns, DeferToSafeSnapshot(t) PROVE Progress'
  BY <1>0, <1>2 DEF DeferToSafeSnapshot
<1>3. ASSUME NEW t \in Txns, BeginRegister(t) PROVE Progress'
  BY <1>0, <1>3 DEF BeginRegister
<1>4. ASSUME NEW t \in Txns, NEW k \in Keys, Get(t, k) PROVE Progress'
  BY <1>0, <1>4 DEF Get
<1>5. ASSUME NEW t \in Txns, NEW k \in Keys, Put(t, k) PROVE Progress'
  BY <1>0, <1>5 DEF Put, RecordWrite
<1>6. ASSUME NEW t \in Txns, NEW k \in Keys, Delete(t, k) PROVE Progress'
  BY <1>0, <1>6 DEF Delete, RecordWrite
<1>7. ASSUME NEW t \in Txns, NEW k \in Keys, WriteRefused(t, k) PROVE Progress'
  BY <1>0, <1>7 DEF WriteRefused
<1>8. ASSUME NEW t \in Txns, CommitCall(t) PROVE Progress'
  BY <1>0, <1>8 DEF CommitCall
<1>17. ASSUME NEW t \in Txns, NEW ts \in Oracle!Answers(t), CommitTs(t, ts) PROVE Progress'
  <2>1. began[t] # NoTs
    BY <1>17 DEF CommitTs, Oracle!Return, Oracle!NoCall, NoTs
  <2>2. ts \in Nat
    BY <2>1, AnswersAboveLeast DEF Inv
  <2>3. pc[t] = "commit_ts" /\ UNCHANGED <<puts, deletes, observed>>
    BY <1>17 DEF CommitTs
  <2>4. CASE is_read_only(isolation[t])
    <3>1. commit_ts' = commit_ts /\ pc' = [pc EXCEPT ![t] = "failed"]
      BY <1>17, <2>4 DEF CommitTs
    <3> QED BY <1>0, <2>3, <3>1
  <2>5. CASE ~is_read_only(isolation[t])
    <3>1. commit_ts' = [commit_ts EXCEPT ![t] = ts] /\ ts # NoTs
      BY <1>17, <2>2, <2>5 DEF CommitTs, NoTs
    <3>2. \E to \in {"validate", "prepare"} : pc' = [pc EXCEPT ![t] = to]
      BY <1>17, <2>5 DEF CommitTs
    <3> QED BY <1>0, <2>3, <3>1, <3>2
  <2> QED BY <2>4, <2>5
<1>9. ASSUME NEW t \in Txns, ValidateOk(t) PROVE Progress'
  BY <1>0, <1>9 DEF ValidateOk
<1>10. ASSUME NEW t \in Txns, ValidateFails(t) \/ Prepare(t) \/ ApplyFails(t)
       PROVE  Progress'
  <2>1. UNCHANGED <<puts, deletes, observed, commit_ts>>
    BY <1>10 DEF ValidateFails, Prepare, ApplyFails
  <2>2. /\ pc[t] \in {"validate", "prepare", "apply"}
        /\ \E to \in {"apply", "failed", "cut_short"} : pc' = [pc EXCEPT ![t] = to]
    BY <1>10 DEF ValidateFails, Prepare, ApplyFails
  <2>3. commit_ts[t] # NoTs
    BY <1>0, <2>2
  <2> QED BY <1>0, <2>1, <2>2, <2>3
<1>11. ASSUME NEW t \in Txns, NEW k \in Keys, Apply(t, k) PROVE Progress'
  BY <1>0, <1>11 DEF Apply
<1>12. ASSUME NEW t \in Txns, ManagerCommit(t) PROVE Progress'
  BY <1>0, <1>12 DEF ManagerCommit
<1>13. ASSUME NEW t \in Txns, NEW k \in Keys, ReleaseKey(t, k) PROVE Progress'
  BY <1>0, <1>13 DEF ReleaseKey
<1>14. ASSUME NEW t \in Txns, ReleaseEnd(t) \/ Abort(t) \/ Abandon(t) PROVE Progress'
  <2>1. UNCHANGED <<puts, deletes, observed, commit_ts>>
    BY <1>14 DEF ReleaseEnd, Abort, Abandon
  <2>2. CASE ReleaseEnd(t)
    <3>1. \/ pc[t] = "release" /\ pc' = [pc EXCEPT ![t] = "committed"]
          \/ pc[t] = "aborting" /\ pc' = [pc EXCEPT ![t] = "aborted"]
      BY <2>2 DEF ReleaseEnd
    <3>2. CASE pc[t] = "release" /\ pc' = [pc EXCEPT ![t] = "committed"]
      BY <1>0, <2>1, <3>2
    <3>3. CASE pc[t] = "aborting" /\ pc' = [pc EXCEPT ![t] = "aborted"]
      BY <1>0, <2>1, <3>3
    <3> QED BY <3>1, <3>2, <3>3
  <2>3. CASE Abort(t) \/ Abandon(t)
    <3>1. pc[t] \in {"aborting", "active"}
      BY <2>3 DEF Abort, Abandon
    <3>2. \E to \in {"aborted", "aborting", "failed"} : pc' = [pc EXCEPT ![t] = to]
      BY <2>3 DEF Abort, Abandon
    <3>3. commit_ts[t] = NoTs
      BY <1>0, <3>1
    <3> QED BY <1>0, <2>1, <3>2, <3>3
  <2> QED BY <1>14, <2>2, <2>3
<1>15. CASE Tick \/ UNCHANGED vars
  BY <1>0, <1>15 DEF Tick
<1> QED
  BY <1>1, <1>2, <1>3, <1>4, <1>5, <1>6, <1>7, <1>8, <1>9, <1>10, <1>11, <1>12, <1>13,
     <1>14, <1>15, <1>16, <1>17 DEF Next, Step, AllOver

-----------------------------------------------------------------------------
(***************************************************************************)
(* Locks and the versions they protect.                                    *)
(***************************************************************************)

\* put and delete lock before they write, and the locks go at the end of
\* commit or abort only.
LEMMA LocksStep ==
    ASSUME Inv, [Next]_vars
    PROVE  LocksKept'
<1>0. TypeOK /\ Progress /\ LocksKept
  BY DEF Inv
<1> DEFINE Kept == /\ UNCHANGED <<held, puts, deletes>>
                   /\ \A u \in Txns : GivesUp(u) => GivesUp(u)'
<1>1. ASSUME Kept PROVE LocksKept'
  BY <1>0, <1>1 DEF LocksKept, WriteKeys
<1> USE DEF oracle, storage, ssi, writes, txnVars, history, vars, Goto, CountOp
<1>2. ASSUME NEW t \in Txns,
             \/ \E level \in Levels : BeginCall(t, level)
             \/ \E ts \in Oracle!Answers(t) : BeginTs(t, ts)
             \/ DeferToSafeSnapshot(t) \/ BeginRegister(t)
             \/ \E k \in Keys : Get(t, k) \/ WriteRefused(t, k) \/ Apply(t, k)
      PROVE  Kept
  BY <1>0, <1>2 DEF TypeOK, GivesUp, BeginCall, BeginTs, DeferToSafeSnapshot, BeginRegister,
                    Get, WriteRefused, Apply
<1>3. ASSUME NEW t \in Txns,
             \/ CommitCall(t) \/ (\E ts \in Oracle!Answers(t) : CommitTs(t, ts))
             \/ ValidateOk(t) \/ ValidateFails(t) \/ Prepare(t) \/ ApplyFails(t)
             \/ ManagerCommit(t) \/ ReleaseEnd(t) \/ Abort(t) \/ Abandon(t)
      PROVE  Kept
  BY <1>0, <1>3 DEF TypeOK, GivesUp, CommitCall, CommitTs, ValidateOk, ValidateFails, Prepare,
                    ApplyFails, ManagerCommit, ReleaseEnd, Abort, Abandon
<1>4. ASSUME NEW t \in Txns, NEW k \in Keys, Put(t, k) \/ Delete(t, k) PROVE LocksKept'
  <2>1. LockX(t, k) /\ UNCHANGED pc
    BY <1>4 DEF Put, Delete
  <2>2. /\ \A j \in Keys : \A u \in Txns :
                 held'[j][u] = IF j = k /\ u = t THEN "X" ELSE held[j][u]
        /\ \A u \in Txns \ {t} : held[k][u] = "none" \/ held[k][t] = "X"
    BY <1>0, <2>1, LockXType
  <2>3. \A u \in Txns : puts'[u] \cup deletes'[u] \subseteq
            IF u = t THEN puts[u] \cup deletes[u] \cup {k} ELSE puts[u] \cup deletes[u]
    BY <1>0, <1>4 DEF TypeOK, Put, Delete
  <2>4. \A j \in Keys : \A u, v \in Txns : held'[j][u] = "X" /\ held'[j][v] = "X" => u = v
    BY <1>0, <2>2 DEF LocksKept
  <2>5. ASSUME NEW u \in Txns, NEW j \in puts'[u] \cup deletes'[u]
        PROVE  GivesUp(u)' \/ held'[j][u] = "X"
    <3>1. j \in Keys
      BY <1>0, <1>4, <2>3, <2>5 DEF TypeOK
    <3> QED BY <1>0, <2>1, <2>2, <2>3, <2>5, <3>1 DEF LocksKept, WriteKeys, GivesUp
  <2> QED BY <2>4, <2>5 DEF LocksKept, WriteKeys
<1>5. ASSUME NEW t \in Txns, NEW k \in Keys, ReleaseKey(t, k) PROVE LocksKept'
  <2>1. \A j \in Keys : \A u \in Txns :
            held'[j][u] = IF j = k /\ u = t THEN "none" ELSE held[j][u]
    BY <1>0, <1>5 DEF ReleaseKey, Locks!Drop, Locks!None, TypeOK
  <2>2. GivesUp(t) /\ UNCHANGED <<pc, puts, deletes>>
    BY <1>5 DEF ReleaseKey, GivesUp
  <2>3. \A u \in Txns : WriteKeys(u) \subseteq Keys
    BY <1>0 DEF TypeOK, WriteKeys
  <2> QED BY <1>0, <2>1, <2>2, <2>3 DEF LocksKept, WriteKeys, GivesUp
<1>6. CASE Tick \/ UNCHANGED vars
  <2>1. Kept
    BY <1>6 DEF Tick, GivesUp
  <2> QED BY <1>1, <2>1
<1> HIDE DEF Kept
<1> QED
  BY <1>1, <1>2, <1>3, <1>4, <1>5, <1>6 DEF Next, Step, AllOver

\* Every version has a transaction that wrote it.
LEMMA WriterType ==
    ASSUME TypeOK, NEW k \in Keys, NEW i \in DOMAIN versions[k]
    PROVE  Writer(k, i) \in Txns /\ i \in 1 .. Len(versions[k]) /\ versions[k][i].ts \in Nat
<1> DEFINE V == [writer : Txns, live : BOOLEAN, ts : Nat]
<1>1. versions[k] \in Seq(V)
  BY DEF TypeOK
<1>2. versions[k][i] \in V /\ i \in 1 .. Len(versions[k])
  <2> HIDE DEF V
  <2> QED BY <1>1
<1> QED BY <1>2 DEF Writer

\* commit applies keys it has locked, so nobody puts a version on top of one
\* whose writer is still applying.
LEMMA VersionsStep ==
    ASSUME Inv, [Next]_vars
    PROVE  VersionsOwned'
<1>0. TypeOK /\ Progress /\ LocksKept /\ VersionsOwned
  BY DEF Inv
<1>01. \A k \in Keys : versions[k] \in Seq([writer : Txns, live : BOOLEAN, ts : Nat])
  BY <1>0 DEF TypeOK
<1>02. \A k \in Keys : \A i \in DOMAIN versions[k] : Writer(k, i) \in Txns
  BY <1>0, WriterType
<1> DEFINE Kept == /\ UNCHANGED <<versions, puts, deletes>>
                   /\ \A u \in Txns : Writing(u) =>
                         /\ Writing(u)'
                         /\ pc'[u] \in {"apply", "cut_short"} => pc[u] \in {"apply", "cut_short"}
<1>1. ASSUME Kept PROVE VersionsOwned'
  BY <1>0, <1>02, <1>1 DEF VersionsOwned, WriteKeys, Writer
<1> USE DEF oracle, storage, ssi, writes, txnVars, history, vars, Goto, CountOp
<1>2. ASSUME NEW t \in Txns,
             \/ \E level \in Levels : BeginCall(t, level)
             \/ \E ts \in Oracle!Answers(t) : BeginTs(t, ts)
             \/ DeferToSafeSnapshot(t) \/ BeginRegister(t)
             \/ \E k \in Keys : Get(t, k) \/ WriteRefused(t, k) \/ ReleaseKey(t, k)
      PROVE  Kept
  BY <1>0, <1>2 DEF TypeOK, Writing, BeginCall, BeginTs, DeferToSafeSnapshot, BeginRegister,
                    Get, WriteRefused, ReleaseKey
<1>3. ASSUME NEW t \in Txns,
             \/ CommitCall(t) \/ (\E ts \in Oracle!Answers(t) : CommitTs(t, ts))
             \/ ValidateOk(t) \/ ValidateFails(t) \/ Prepare(t) \/ ApplyFails(t)
             \/ ManagerCommit(t) \/ ReleaseEnd(t) \/ Abort(t) \/ Abandon(t)
      PROVE  Kept
  BY <1>0, <1>3 DEF TypeOK, Writing, CommitCall, CommitTs, ValidateOk, ValidateFails, Prepare,
                    ApplyFails, ManagerCommit, ReleaseEnd, Abort, Abandon
<1>4. ASSUME NEW t \in Txns, NEW k \in Keys, Put(t, k) \/ Delete(t, k) PROVE VersionsOwned'
  <2>1. UNCHANGED <<pc, versions>> /\ ~Writing(t)
    BY <1>4 DEF Put, Delete, Writing
  <2>2. \A u \in Txns \ {t} : puts'[u] = puts[u] /\ deletes'[u] = deletes[u]
    BY <1>0, <1>4 DEF TypeOK, Put, Delete
  <2> QED BY <1>0, <1>02, <2>1, <2>2 DEF VersionsOwned, WriteKeys, Writer, Writing
<1>5. ASSUME NEW t \in Txns, NEW k \in Keys, Apply(t, k) PROVE VersionsOwned'
  <2> SUFFICES ASSUME NEW j \in Keys, NEW i \in DOMAIN versions'[j]
               PROVE  /\ Writing(versions'[j][i].writer)
                      /\ j \in WriteKeys(versions'[j][i].writer)
                      /\ pc[versions'[j][i].writer] \in {"apply", "cut_short"}
                            => i = Len(versions'[j])
    BY <1>5 DEF Apply, VersionsOwned, Writing, WriteKeys, Writer
  <2>1. pc[t] = "apply" /\ k \in WriteKeys(t) \ Applied(t)
    BY <1>5 DEF Apply
  <2>2. /\ Len(versions'[k]) = Len(versions[k]) + 1
        /\ versions'[k][Len(versions[k]) + 1].writer = t
        /\ \A n \in 1 .. Len(versions[k]) : versions'[k][n] = versions[k][n]
        /\ \A n \in Keys \ {k} : versions'[n] = versions[n]
        /\ versions' \in [Keys -> Seq([writer : Txns, live : BOOLEAN, ts : Nat])]
    BY <1>0, <1>5, ApplyEffect
  <2>3. CASE j # k
    BY <1>0, <2>2, <2>3 DEF VersionsOwned, Writer
  <2>4. CASE j = k /\ i = Len(versions[k]) + 1
    BY <2>1, <2>2, <2>4 DEF Writing
  <2>5. CASE j = k /\ i # Len(versions[k]) + 1
    <3>0. DOMAIN versions'[k] = 1 .. Len(versions'[k]) /\ Len(versions[k]) \in Nat
      BY <1>01, <2>2
    <3>01. i \in 1 .. Len(versions[k])
      BY <2>2, <2>5, <3>0
    <3>02. DOMAIN versions[k] = 1 .. Len(versions[k])
      BY <1>01
    <3>03. versions'[k][i] = versions[k][i]
      BY <2>2, <3>01
    <3>1. i \in DOMAIN versions[k] /\ versions'[j][i] = versions[k][i]
      BY <2>5, <3>01, <3>02, <3>03
    <3>2. Writer(k, i) # t
      BY <2>1, <3>1 DEF Applied, Writer
    <3>3. Writing(Writer(k, i)) /\ k \in WriteKeys(Writer(k, i)) /\ Writer(k, i) \in Txns
      BY <1>0, <1>02, <3>1 DEF VersionsOwned
    <3>4. pc[Writer(k, i)] \notin {"apply", "cut_short"}
      BY <1>0, <2>1, <3>2, <3>3 DEF LocksKept, GivesUp
    <3> QED BY <2>5, <3>1, <3>3, <3>4 DEF Writer
  <2> QED BY <2>3, <2>4, <2>5
<1>6. CASE Tick \/ UNCHANGED vars
  <2>1. Kept
    BY <1>6 DEF Tick, Writing
  <2> QED BY <1>1, <2>1
<1> HIDE DEF Kept
<1> QED
  BY <1>1, <1>2, <1>3, <1>4, <1>5, <1>6 DEF Next, Step, AllOver

-----------------------------------------------------------------------------
(***************************************************************************)
(* The books of SSI.                                                       *)
(***************************************************************************)

\* One transaction starts being one that has written.
LEMMA CountAdd ==
    ASSUME NEW S, NEW x, IsFiniteSet(S), x \notin S
    PROVE  Cardinality(S \cup {x}) = Cardinality(S) + 1
  BY FS_AddElement

\* One transaction stops being one that has written.
LEMMA CountRemove ==
    ASSUME NEW S, NEW x \in S, IsFiniteSet(S)
    PROVE  Cardinality(S \ {x}) = Cardinality(S) - 1
  BY FS_RemoveElement

\* register and unregister, on every way out of a transaction, and the write
\* recorded by put or delete keep the books of the SSI manager exact.
LEMMA RegisteredStep ==
    ASSUME Inv, [Next]_vars
    PROVE  Registered'
<1>0. TypeOK /\ Progress /\ Registered
  BY DEF Inv
<1> DEFINE W == {u \in active_txns : WriteKeys(u) # {}}
<1> DEFINE Kept == /\ UNCHANGED <<active_txns, active_writers, active_start_ts, puts, deletes>>
                   /\ \A u \in active_txns :
                         /\ start_ts'[u] = start_ts[u] /\ isolation'[u] = isolation[u]
                         /\ pc'[u] \in {"active", "commit_ts", "validate", "failed"}
<1>01. IsFiniteSet(W) /\ IsFiniteSet(active_txns) /\ active_writers = Cardinality(W)
  BY <1>0, FS_Subset DEF Registered, ActiveWritersExact
<1>1. ASSUME Kept PROVE Registered'
  <2>1. {u \in active_txns' : WriteKeys(u)' # {}} = W
    BY <1>1 DEF WriteKeys
  <2> QED BY <1>0, <1>01, <1>1, <2>1 DEF Registered, ActiveWritersExact
<1> HIDE DEF W
<1> USE DEF oracle, storage, ssi, writes, txnVars, history, vars, Goto, CountOp
<1>2. ASSUME NEW t \in Txns,
             \/ \E level \in Levels : BeginCall(t, level)
             \/ \E ts \in Oracle!Answers(t) : BeginTs(t, ts)
             \/ DeferToSafeSnapshot(t)
             \/ \E k \in Keys : Get(t, k) \/ WriteRefused(t, k) \/ ReleaseKey(t, k) \/ Apply(t, k)
      PROVE  Kept
  BY <1>0, <1>2 DEF TypeOK, Registered, BeginCall, BeginTs, DeferToSafeSnapshot, Get,
                    WriteRefused, ReleaseKey, Apply
<1>3. ASSUME NEW t \in Txns,
             \/ CommitCall(t) \/ (\E ts \in Oracle!Answers(t) : CommitTs(t, ts))
             \/ ValidateFails(t) \/ Prepare(t) \/ ApplyFails(t)
             \/ ManagerCommit(t) \/ ReleaseEnd(t) \/ Abandon(t)
      PROVE  Kept
  BY <1>0, <1>3 DEF TypeOK, Registered, CommitCall, CommitTs, ValidateFails, Prepare,
                    ApplyFails, ManagerCommit, ReleaseEnd, Abandon
<1>4. ASSUME NEW t \in Txns, BeginRegister(t) PROVE Registered'
  <2>1. t \notin active_txns /\ WriteKeys(t) = {}
    BY <1>0, <1>4 DEF BeginRegister, Registered, Progress
  <2>2. CASE isolation[t] = "Snapshot"
    <3>1. Kept
      BY <1>0, <1>4, <2>2 DEF BeginRegister, Registered, TypeOK
    <3> QED BY <1>1, <3>1
  <2>3. CASE isolation[t] # "Snapshot"
    <3>1. SsiBegin(t)
      BY <1>4, <2>3 DEF BeginRegister
    <3>2. /\ active_txns' \subseteq active_txns \cup {t}
          /\ t \in active_txns' => isolation[t] = "Serializable"
          /\ active_txns \subseteq active_txns'
      BY <1>0, <2>1, <2>3, <3>1 DEF SsiBegin, is_read_only, TypeOK, IsolationLevels
    <3>3. IsFiniteSet(active_txns')
      <4>1. IsFiniteSet(active_txns \cup {t})
        BY <1>01, FS_AddElement
      <4> QED BY <3>2, <4>1, FS_Subset
    <3>4. {u \in active_txns' : WriteKeys(u)' # {}} = W
      BY <1>4, <2>1, <3>2 DEF W, WriteKeys, BeginRegister
    <3>5. active_writers' = active_writers
      BY <3>1 DEF SsiBegin
    <3>6. \A u \in active_txns' : /\ active_start_ts'[u] = start_ts'[u]
                                  /\ isolation'[u] = "Serializable"
                                  /\ pc'[u] \in {"active", "commit_ts", "validate", "failed"}
      BY <1>0, <1>4, <3>1, <3>2 DEF SsiBegin, BeginRegister, Registered, TypeOK
    <3> QED BY <1>01, <3>3, <3>4, <3>5, <3>6 DEF Registered, ActiveWritersExact
  <2> QED BY <2>2, <2>3
<1>5. ASSUME NEW t \in Txns, NEW k \in Keys, Put(t, k) \/ Delete(t, k) PROVE Registered'
  <2>1. /\ UNCHANGED <<pc, active_txns, active_start_ts, start_ts, isolation>>
        /\ active_writers' = IF t \in active_txns /\ WriteKeys(t) = {}
                             THEN active_writers + 1 ELSE active_writers
    BY <1>5 DEF Put, Delete, RecordWrite
  <2>2. \A u \in Txns : WriteKeys(u)' # {} <=> (u = t \/ WriteKeys(u) # {})
    <3>1. CASE Put(t, k)
      BY <1>0, <3>1 DEF TypeOK, Put, WriteKeys
    <3>2. CASE Delete(t, k)
      BY <1>0, <3>2 DEF TypeOK, Delete, WriteKeys
    <3> QED BY <1>5, <3>1, <3>2
  <2>3. active_txns \subseteq Txns
    BY <1>0 DEF TypeOK
  <2>4. CASE t \in active_txns /\ WriteKeys(t) = {}
    <3>1. {u \in active_txns' : WriteKeys(u)' # {}} = W \cup {t} /\ t \notin W
      BY <2>1, <2>2, <2>3, <2>4 DEF W
    <3> QED BY <1>0, <1>01, <2>1, <2>4, <3>1, CountAdd DEF Registered, ActiveWritersExact
  <2>5. CASE ~(t \in active_txns /\ WriteKeys(t) = {})
    <3>1. {u \in active_txns' : WriteKeys(u)' # {}} = W
      BY <2>1, <2>2, <2>3, <2>5 DEF W
    <3> QED BY <1>0, <1>01, <2>1, <2>5, <3>1 DEF Registered, ActiveWritersExact
  <2> QED BY <2>4, <2>5
<1>6. ASSUME NEW t \in Txns, ValidateOk(t) \/ (Abort(t) /\ isolation[t] # "Snapshot")
      PROVE  Registered'
  <2>1. /\ active_txns' = active_txns \ {t}
        /\ active_start_ts' = [active_start_ts EXCEPT ![t] = NoTs]
        /\ active_writers' = IF t \in active_txns /\ WriteKeys(t) # {}
                             THEN active_writers - 1 ELSE active_writers
        /\ UNCHANGED <<puts, deletes, start_ts, isolation>>
        /\ \E to : pc' = [pc EXCEPT ![t] = to]
    BY <1>6 DEF ValidateOk, Abort, SsiAbort
  <2>2. IsFiniteSet(active_txns')
    BY <1>01, <2>1, FS_Subset
  <2>3. \A u \in active_txns' : /\ active_start_ts'[u] = start_ts'[u]
                                /\ isolation'[u] = "Serializable"
                                /\ pc'[u] \in {"active", "commit_ts", "validate", "failed"}
    BY <1>0, <2>1 DEF Registered, TypeOK
  <2>4. {u \in active_txns' : WriteKeys(u)' # {}} = W \ {t}
    BY <2>1 DEF W, WriteKeys
  <2>5. active_writers' = Cardinality(W \ {t})
    <3>1. CASE t \in W
      BY <1>01, <2>1, <3>1, CountRemove DEF W
    <3>2. CASE t \notin W
      <4>1. W \ {t} = W
        BY <3>2
      <4> QED BY <1>01, <2>1, <3>2, <4>1 DEF W
    <3> QED BY <3>1, <3>2
  <2> QED BY <2>2, <2>3, <2>4, <2>5 DEF Registered, ActiveWritersExact
<1>7. ASSUME NEW t \in Txns, Abort(t), isolation[t] = "Snapshot" PROVE Kept
  BY <1>0, <1>7 DEF Abort, Registered, TypeOK
<1>8. CASE Tick \/ UNCHANGED vars
  <2>1. Kept
    BY <1>0, <1>8 DEF Tick, Registered
  <2> QED BY <1>1, <2>1
<1> HIDE DEF Kept
<1> QED
  BY <1>1, <1>2, <1>3, <1>4, <1>5, <1>6, <1>7, <1>8 DEF Next, Step, AllOver

-----------------------------------------------------------------------------
(***************************************************************************)
(* What is read.                                                           *)
(***************************************************************************)

\* get records the key it read and reads the newest version there is.
LEMMA ReadsStep ==
    ASSUME Inv, [Next]_vars
    PROVE  ReadsRecorded'
<1>0. TypeOK /\ Progress /\ ReadsRecorded
  BY DEF Inv
<1>01. \A t \in Txns : \A o \in observed[t] : o[1] \in Keys /\ o[2] \in Nat
  BY <1>0 DEF TypeOK
<1>02. \A k \in Keys : Len(versions[k]) \in Nat
  BY <1>0 DEF TypeOK
<1> DEFINE Kept == /\ UNCHANGED <<observed, read_set>>
                   /\ \A k \in Keys : Len(versions'[k]) >= Len(versions[k])
                   /\ \A k \in Keys : Len(versions'[k]) \in Nat
                   /\ \A t \in Txns : observed[t] = {} \/ isolation'[t] = isolation[t]
<1>1. ASSUME Kept PROVE ReadsRecorded'
  BY <1>0, <1>01, <1>02, <1>1 DEF ReadsRecorded
<1> USE DEF oracle, storage, ssi, writes, txnVars, history, vars, Goto, CountOp
<1>2. ASSUME NEW t \in Txns, NEW level \in Levels, BeginCall(t, level) PROVE Kept
  <2>1. observed[t] = {}
    BY <1>0, <1>2 DEF BeginCall, Progress
  <2>2. /\ UNCHANGED <<observed, read_set, versions, start_ts>>
        /\ \A u \in Txns \ {t} : isolation'[u] = isolation[u]
    BY <1>0, <1>2 DEF BeginCall, TypeOK
  <2> QED BY <1>02, <2>1, <2>2
<1>9. ASSUME NEW t \in Txns, NEW ts \in Oracle!Answers(t), BeginTs(t, ts) PROVE Kept
  BY <1>0, <1>02, <1>9 DEF BeginTs
<1>3. ASSUME NEW t \in Txns, DeferToSafeSnapshot(t) PROVE Kept
  BY <1>0, <1>02, <1>3 DEF TypeOK, DeferToSafeSnapshot, Progress
<1>4. ASSUME NEW t \in Txns,
             \/ BeginRegister(t)
             \/ \E k \in Keys : Put(t, k) \/ Delete(t, k) \/ WriteRefused(t, k) \/ ReleaseKey(t, k)
      PROVE  Kept
  BY <1>0, <1>02, <1>4 DEF BeginRegister, Put, Delete, WriteRefused, ReleaseKey
<1>5. ASSUME NEW t \in Txns,
             \/ CommitCall(t) \/ (\E ts \in Oracle!Answers(t) : CommitTs(t, ts))
             \/ ValidateOk(t) \/ ValidateFails(t) \/ Prepare(t) \/ ApplyFails(t)
             \/ ManagerCommit(t) \/ ReleaseEnd(t) \/ Abort(t) \/ Abandon(t)
      PROVE  Kept
  BY <1>0, <1>02, <1>5 DEF CommitCall, CommitTs, ValidateOk, ValidateFails, Prepare, ApplyFails,
                    ManagerCommit, ReleaseEnd, Abort, Abandon
<1>6. ASSUME NEW t \in Txns, NEW k \in Keys, Apply(t, k) PROVE Kept
  <2>1. UNCHANGED <<observed, read_set, isolation>>
    BY <1>6 DEF Apply
  <2>2. /\ Len(versions'[k]) = Len(versions[k]) + 1
        /\ \A j \in Keys \ {k} : versions'[j] = versions[j]
    BY <1>0, <1>6, ApplyEffect
  <2>3. ASSUME NEW j \in Keys
        PROVE  Len(versions'[j]) \in Nat /\ Len(versions'[j]) >= Len(versions[j])
    <3>1. Len(versions[k]) \in Nat /\ Len(versions[j]) \in Nat
      BY <1>02
    <3>2. CASE j = k
      BY <2>2, <3>1, <3>2
    <3>3. CASE j # k
      BY <2>2, <3>1, <3>3
    <3> QED BY <3>2, <3>3
  <2> QED BY <2>1, <2>3
<1>7. ASSUME NEW t \in Txns, NEW k \in Keys, Get(t, k) PROVE ReadsRecorded'
  <2> DEFINE i == VisibleVersion(k, start_ts[t])
  <2>1. UNCHANGED <<versions, isolation>>
    BY <1>7 DEF Get
  <2>2. /\ observed'[t] = observed[t] \cup {<<k, i>>}
        /\ \A u \in Txns \ {t} : observed'[u] = observed[u] /\ read_set'[u] = read_set[u]
    BY <1>0, <1>7 DEF Get, TypeOK
  <2>3. /\ read_set[t] \subseteq read_set'[t]
        /\ isolation[t] = "Serializable" => k \in read_set'[t]
    BY <1>0, <1>7 DEF Get, TypeOK
  <2>4. i \in Nat /\ i <= Len(versions[k])
    BY <1>0, VisibleVersionIs DEF TypeOK
  <2> HIDE DEF i
  <2>5. \A o \in observed'[t] :
           o[2] <= Len(versions[o[1]]) /\ (isolation[t] = "Serializable" => o[1] \in read_set'[t])
    BY <1>0, <2>2, <2>3, <2>4 DEF ReadsRecorded
  <2> QED BY <1>0, <2>1, <2>2, <2>5 DEF ReadsRecorded
<1>8. CASE Tick \/ UNCHANGED vars
  <2>1. Kept
    BY <1>02, <1>8 DEF Tick
  <2> QED BY <1>1, <2>1
<1> HIDE DEF Kept
<1> QED
  BY <1>1, <1>2, <1>3, <1>4, <1>5, <1>6, <1>7, <1>8, <1>9 DEF Next, Step, AllOver

-----------------------------------------------------------------------------
(***************************************************************************)
(* Timestamps of storage and of the oracle.                                *)
(***************************************************************************)

\* What a step may do to the clocks: nothing, or the one thing the oracle does.
LEMMA ClockCases ==
    ASSUME [Next]_vars
    PROVE  \/ UNCHANGED oracle
           \/ Oracle!Tick
           \/ \E t \in Txns : Oracle!Call(t) \/ \E ts \in Oracle!Answers(t) : Oracle!Return(t, ts)
<1> DEFINE Called(t)   == Oracle!Call(t)
           Returned(t) == \E ts \in Oracle!Answers(t) : Oracle!Return(t, ts)
<1>1. ASSUME NEW t \in Txns,
             (\E level \in Levels : BeginCall(t, level)) \/ CommitCall(t)
      PROVE  Called(t)
  BY <1>1 DEF BeginCall, CommitCall
<1>2. ASSUME NEW t \in Txns, \E ts \in Oracle!Answers(t) : BeginTs(t, ts) \/ CommitTs(t, ts)
      PROVE  Returned(t)
  BY <1>2 DEF BeginTs, CommitTs
<1>3. ASSUME NEW t \in Txns,
             \/ DeferToSafeSnapshot(t) \/ BeginRegister(t)
             \/ \E k \in Keys : Get(t, k) \/ Put(t, k) \/ Delete(t, k) \/ WriteRefused(t, k)
      PROVE  UNCHANGED oracle
  BY <1>3 DEF DeferToSafeSnapshot, BeginRegister, Get, Put, Delete, WriteRefused
<1>4. ASSUME NEW t \in Txns,
             \/ ValidateOk(t) \/ ValidateFails(t) \/ Prepare(t)
             \/ (\E k \in Keys : Apply(t, k)) \/ ApplyFails(t)
      PROVE  UNCHANGED oracle
  BY <1>4 DEF ValidateOk, ValidateFails, Prepare, Apply, ApplyFails
<1>5. ASSUME NEW t \in Txns,
             \/ ManagerCommit(t) \/ (\E k \in Keys : ReleaseKey(t, k)) \/ ReleaseEnd(t)
             \/ Abort(t) \/ Abandon(t)
      PROVE  UNCHANGED oracle
  BY <1>5 DEF ManagerCommit, ReleaseKey, ReleaseEnd, Abort, Abandon
<1>6. ASSUME Tick PROVE Oracle!Tick
  BY <1>6 DEF Tick
<1>7. ASSUME UNCHANGED vars PROVE UNCHANGED oracle
  BY <1>7 DEF vars
<1> HIDE DEF Called, Returned
<1>8. ASSUME NEW t \in Txns, Step(t) PROVE Called(t) \/ Returned(t) \/ UNCHANGED oracle
  BY <1>1, <1>2, <1>3, <1>4, <1>5, <1>8 DEF Step
<1>9. (\E t \in Txns : Called(t) \/ Returned(t)) \/ UNCHANGED oracle \/ Oracle!Tick
  BY <1>6, <1>7, <1>8 DEF Next, AllOver
<1> QED BY <1>9 DEF Called, Returned

\* begin takes a level and later a start_ts; nobody else changes those of a
\* serializable transaction.
LEMMA BeginCases ==
    ASSUME TypeOK, [Next]_vars, NEW t \in Txns
    PROVE  \/ \E level \in Levels : BeginCall(t, level)
           \/ \E ts \in Oracle!Answers(t) : BeginTs(t, ts)
           \/ /\ isolation'[t] = isolation[t]
              /\ pc[t] \notin {"new", "begin_ts"} <=> pc'[t] \notin {"new", "begin_ts"}
              /\ pc[t] = "begin_ts" <=> pc'[t] = "begin_ts"
              /\ isolation[t] = "Serializable" => start_ts'[t] = start_ts[t]
<1> DEFINE Same == /\ isolation'[t] = isolation[t]
                   /\ pc[t] \notin {"new", "begin_ts"} <=> pc'[t] \notin {"new", "begin_ts"}
                   /\ pc[t] = "begin_ts" <=> pc'[t] = "begin_ts"
                   /\ isolation[t] = "Serializable" => start_ts'[t] = start_ts[t]
<1> USE DEF oracle, storage, ssi, writes, txnVars, history, vars, Goto, CountOp
<1> DEFINE Begins(u) == \/ \E level \in Levels : BeginCall(u, level)
                        \/ \E ts \in Oracle!Answers(u) : BeginTs(u, ts)
<1>1. ASSUME NEW u \in Txns, Begins(u) PROVE Begins(t) \/ Same
  <2>1. CASE u = t
    BY <1>1, <2>1
  <2>2. CASE u # t
    BY <1>1, <2>2 DEF TypeOK, BeginCall, BeginTs
  <2> QED BY <2>1, <2>2
<1>2. ASSUME NEW u \in Txns,
             \/ DeferToSafeSnapshot(u) \/ BeginRegister(u)
             \/ \E k \in Keys : \/ Get(u, k) \/ Put(u, k) \/ Delete(u, k) \/ WriteRefused(u, k)
                                \/ Apply(u, k) \/ ReleaseKey(u, k)
      PROVE  Same
  BY <1>2, ZenonT(40) DEF TypeOK, DeferToSafeSnapshot, BeginRegister, Get, Put, Delete,
                          WriteRefused, Apply, ReleaseKey
<1>3. ASSUME NEW u \in Txns,
             \/ CommitCall(u) \/ (\E ts \in Oracle!Answers(u) : CommitTs(u, ts))
             \/ ValidateOk(u) \/ ValidateFails(u) \/ Prepare(u) \/ ApplyFails(u)
             \/ ManagerCommit(u) \/ ReleaseEnd(u) \/ Abort(u) \/ Abandon(u)
      PROVE  Same
  <2>1. UNCHANGED <<isolation, start_ts>>
    BY <1>3 DEF CommitCall, CommitTs, ValidateOk, ValidateFails, Prepare, ApplyFails,
                ManagerCommit, ReleaseEnd, Abort, Abandon
  <2>2. /\ pc[u] \notin {"new", "begin_ts"}
        /\ \E to \in Pcs \ {"new", "begin_ts"} : pc' = [pc EXCEPT ![u] = to]
    BY <1>3 DEF CommitCall, CommitTs, ValidateOk, ValidateFails, Prepare, ApplyFails,
                ManagerCommit, ReleaseEnd, Abort, Abandon, Pcs
  <2> QED BY <2>1, <2>2 DEF TypeOK
<1>4. ASSUME Tick \/ UNCHANGED vars PROVE Same
  BY <1>4 DEF Tick
<1> HIDE DEF Same
<1>5. ASSUME NEW u \in Txns, Step(u) PROVE Begins(t) \/ Same
  BY <1>1, <1>2, <1>3, <1>5 DEF Step
<1> HIDE DEF Begins
<1>6. Begins(t) \/ Same
  BY <1>4, <1>5 DEF Next, AllOver
<1> QED BY <1>6 DEF Same, Begins

\* Only apply adds versions.
LEMMA VersionsCases ==
    ASSUME [Next]_vars
    PROVE  UNCHANGED versions \/ \E t \in Txns : \E j \in Keys : Apply(t, j)
  BY DEF Next, Step, AllOver, storage, vars, BeginCall, BeginTs, DeferToSafeSnapshot,
         BeginRegister, Get, Put, Delete, WriteRefused, CommitCall, CommitTs, ValidateOk,
         ValidateFails, Prepare, ApplyFails, Tick, ManagerCommit, ReleaseKey, ReleaseEnd,
         Abort, Abandon

\* The history of begins inside a commit and of misordered timestamps only grows.
LEMMA BeganGrows ==
    ASSUME [Next]_vars
    PROVE  beganInCommit \subseteq beganInCommit' /\ misordered \subseteq misordered'
<1> DEFINE Grow == beganInCommit \subseteq beganInCommit' /\ misordered \subseteq misordered'
<1>1. ASSUME NEW t \in Txns, \E level \in Levels : BeginCall(t, level) PROVE Grow
  BY <1>1 DEF BeginCall
<1>2. ASSUME NEW t \in Txns, \E ts \in Oracle!Answers(t) : BeginTs(t, ts) \/ CommitTs(t, ts)
      PROVE  Grow
  BY <1>2 DEF BeginTs, CommitTs
<1>3. ASSUME NEW t \in Txns,
             \/ DeferToSafeSnapshot(t) \/ BeginRegister(t)
             \/ \E k \in Keys : Get(t, k) \/ Put(t, k) \/ Delete(t, k) \/ WriteRefused(t, k)
      PROVE  Grow
  BY <1>3 DEF DeferToSafeSnapshot, BeginRegister, Get, Put, Delete, WriteRefused, history
<1>4. ASSUME NEW t \in Txns, CommitCall(t) PROVE Grow
  BY <1>4 DEF CommitCall, history
<1>5. ASSUME NEW t \in Txns,
             \/ ValidateOk(t) \/ ValidateFails(t) \/ Prepare(t)
             \/ (\E k \in Keys : Apply(t, k)) \/ ApplyFails(t)
      PROVE  Grow
  BY <1>5 DEF ValidateOk, ValidateFails, Prepare, Apply, ApplyFails, history
<1>6. ASSUME NEW t \in Txns,
             \/ ManagerCommit(t) \/ (\E k \in Keys : ReleaseKey(t, k)) \/ ReleaseEnd(t)
             \/ Abort(t) \/ Abandon(t)
      PROVE  Grow
  BY <1>6 DEF ManagerCommit, ReleaseKey, ReleaseEnd, Abort, Abandon, history
<1>7. ASSUME Tick \/ UNCHANGED vars PROVE Grow
  BY <1>7 DEF Tick, vars, history
<1> HIDE DEF Grow
<1>8. ASSUME NEW t \in Txns, Step(t) PROVE Grow
  BY <1>1, <1>2, <1>3, <1>4, <1>5, <1>6, <1>8 DEF Step
<1>9. Grow
  BY <1>7, <1>8 DEF Next, AllOver
<1> QED BY <1>9 DEF Grow

\* commit is entered by its first step alone.
LEMMA CommitEntered ==
    ASSUME TypeOK, [Next]_vars, NEW u \in Txns, InCommit(u)'
    PROVE  InCommit(u) \/ CommitCall(u)
<1> USE DEF oracle, storage, ssi, writes, txnVars, history, vars, Goto, CountOp
<1>1. ASSUME NEW t \in Txns,
             \/ \E level \in Levels : BeginCall(t, level)
             \/ \E ts \in Oracle!Answers(t) : BeginTs(t, ts)
             \/ DeferToSafeSnapshot(t) \/ BeginRegister(t)
             \/ \E k \in Keys : \/ Get(t, k) \/ Put(t, k) \/ Delete(t, k) \/ WriteRefused(t, k)
                                \/ Apply(t, k) \/ ReleaseKey(t, k)
      PROVE  InCommit(u)
  BY <1>1, ZenonT(40) DEF TypeOK, InCommit, BeginCall, BeginTs, DeferToSafeSnapshot,
                          BeginRegister, Get, Put, Delete, WriteRefused, Apply, ReleaseKey
<1>2. ASSUME NEW t \in Txns,
             \/ \E ts \in Oracle!Answers(t) : CommitTs(t, ts)
             \/ ValidateOk(t) \/ ValidateFails(t) \/ Prepare(t) \/ ApplyFails(t)
             \/ ManagerCommit(t) \/ ReleaseEnd(t) \/ Abort(t) \/ Abandon(t)
      PROVE  InCommit(u)
  <2>1. \/ /\ pc[t] \in {"commit_ts", "validate", "prepare", "apply"}
           /\ \E to : pc' = [pc EXCEPT ![t] = to]
        \/ \E to \in {"committed", "aborted", "aborting", "failed"} : pc' = [pc EXCEPT ![t] = to]
    BY <1>2 DEF CommitTs, ValidateOk, ValidateFails, Prepare, ApplyFails, ManagerCommit,
                ReleaseEnd, Abort, Abandon
  <2> QED BY <2>1 DEF TypeOK, InCommit
<1>3. ASSUME NEW t \in Txns, CommitCall(t) PROVE InCommit(u) \/ CommitCall(u)
  <2>1. CASE u = t
    BY <1>3, <2>1
  <2>2. CASE u # t
    <3>1. pc'[u] = pc[u]
      BY <1>3, <2>2 DEF TypeOK, CommitCall
    <3> QED BY <3>1 DEF InCommit
  <2> QED BY <2>1, <2>2
<1>4. CASE Tick \/ UNCHANGED vars
  BY <1>4 DEF Tick, InCommit
<1> QED
  BY <1>1, <1>2, <1>3, <1>4 DEF Next, Step, AllOver

\* Storage gives its next version a timestamp it has not reached the oracle's
\* least with, and the oracle's come from milliseconds that were shown.
LEMMA ClocksStep ==
    ASSUME Inv, [Next]_vars
    PROVE  ClocksApart'
<1>0. TypeOK /\ ClocksApart
  BY DEF Inv
<1>1. \A k \in Keys : \A i \in DOMAIN versions'[k] : versions'[k][i].ts <= LeastTs
  <2>1. CASE UNCHANGED versions
    BY <1>0, <2>1 DEF ClocksApart
  <2>2. ASSUME NEW t \in Txns, NEW j \in Keys, Apply(t, j),
               NEW k \in Keys, NEW i \in DOMAIN versions'[k]
        PROVE  versions'[k][i].ts <= LeastTs
    <3>1. /\ Len(versions'[j]) = Len(versions[j]) + 1
          /\ versions'[j][Len(versions[j]) + 1].ts <= LeastTs
          /\ \A n \in 1 .. Len(versions[j]) : versions'[j][n] = versions[j][n]
          /\ \A n \in Keys \ {j} : versions'[n] = versions[n]
          /\ versions' \in [Keys -> Seq([writer : Txns, live : BOOLEAN, ts : Nat])]
      BY <1>0, <2>2, ApplyEffect
    <3>2. /\ DOMAIN versions'[j] = 1 .. Len(versions[j]) + 1
          /\ DOMAIN versions[j] = 1 .. Len(versions[j]) /\ Len(versions[j]) \in Nat
      BY <1>0, <3>1 DEF TypeOK
    <3>3. CASE k # j
      BY <1>0, <3>1, <3>3 DEF ClocksApart
    <3>4. CASE k = j /\ i = Len(versions[j]) + 1
      BY <3>1, <3>4
    <3>5. CASE k = j /\ i # Len(versions[j]) + 1
      <4>1. i \in 1 .. Len(versions[j])
        BY <3>2, <3>5
      <4> QED BY <1>0, <3>1, <3>2, <3>5, <4>1 DEF ClocksApart
    <3> QED BY <3>3, <3>4, <3>5
  <2>3. UNCHANGED versions \/ \E t \in Txns : \E j \in Keys : Apply(t, j)
    BY VersionsCases
  <2> QED BY <2>1, <2>2, <2>3
<1>2. FirstMs <= now'
  <2>1. CASE Oracle!Tick
    BY <2>1, MvccAssumption DEF Oracle!Tick
  <2>2. CASE now' = now
    BY <1>0, <2>2 DEF ClocksApart
  <2> QED BY <2>1, <2>2, ClockCases DEF oracle, Oracle!Call, Oracle!Return
<1>3. ASSUME NEW t \in Txns PROVE began'[t] = NoTs \/ FirstMs <= began'[t]
  <2>1. ASSUME NEW u \in Txns, Oracle!Call(u) PROVE began'[t] = began[t] \/ began'[t] = now
    BY <1>0, <2>1 DEF TypeOK, Oracle!Call
  <2>2. ASSUME NEW u \in Txns, NEW ts \in Oracle!Answers(u), Oracle!Return(u, ts)
        PROVE  began'[t] = began[t] \/ began'[t] = NoTs
    BY <1>0, <2>2 DEF TypeOK, Oracle!Return, Oracle!NoCall, NoTs
  <2>3. CASE UNCHANGED oracle \/ Oracle!Tick
    BY <1>0, <2>3 DEF ClocksApart, oracle, Oracle!Tick
  <2> QED BY <1>0, <2>1, <2>2, <2>3, ClockCases DEF ClocksApart
<1>4. ASSUME NEW t \in Txns, isolation'[t] = "Serializable", pc'[t] \notin {"new", "begin_ts"}
      PROVE  LeastTs <= start_ts'[t]
  <2>1. CASE \E level \in Levels : BeginCall(t, level)
    BY <1>0, <1>4, <2>1 DEF TypeOK, BeginCall, Goto
  <2>2. ASSUME NEW ts \in Oracle!Answers(t), BeginTs(t, ts) PROVE LeastTs <= start_ts'[t]
    <3>1. began[t] # NoTs
      BY <2>2 DEF BeginTs, Oracle!Return, Oracle!NoCall, NoTs
    <3>2. LeastTs <= ts
      BY <1>0, <3>1, AnswersAboveLeast
    <3>3. start_ts'[t] = ts
      BY <1>0, <2>2 DEF TypeOK, BeginTs
    <3> QED BY <3>2, <3>3
  <2>3. CASE /\ isolation'[t] = isolation[t]
             /\ pc[t] \notin {"new", "begin_ts"} <=> pc'[t] \notin {"new", "begin_ts"}
             /\ isolation[t] = "Serializable" => start_ts'[t] = start_ts[t]
    BY <1>0, <1>4, <2>3 DEF ClocksApart
  <2> QED BY <1>0, <2>1, <2>2, <2>3, BeginCases
<1> QED BY <1>1, <1>2, <1>3, <1>4 DEF ClocksApart

\* Whoever calls first of a begin and a commit, the other's call finds it.
LEMMA BeginsStep ==
    ASSUME Inv, [Next]_vars
    PROVE  BeginsApart'
<1>0. TypeOK /\ BeginsApart
  BY DEF Inv
<1> SUFFICES ASSUME NEW t \in Txns, NEW u \in Txns, pc'[t] = "begin_ts", InCommit(u)'
             PROVE  <<t, u>> \in beganInCommit'
  BY DEF BeginsApart, BeganInside
<1>1. ASSUME NEW level \in Levels, BeginCall(t, level) PROVE <<t, u>> \in beganInCommit'
  <2>1. pc'[t] = "begin_ts" /\ \A v \in Txns \ {t} : pc'[v] = pc[v]
    BY <1>0, <1>1 DEF TypeOK, BeginCall, Goto
  <2>2. InCommit(u)
    BY <2>1 DEF InCommit
  <2> QED BY <1>1, <2>2 DEF BeginCall
<1>2. ASSUME NEW ts \in Oracle!Answers(t), BeginTs(t, ts) PROVE FALSE
  BY <1>0, <1>2 DEF TypeOK, BeginTs, Goto
<1>3. CASE pc[t] = "begin_ts"
  <2>1. CASE InCommit(u)
    BY <1>0, <1>3, <2>1, BeganGrows DEF BeginsApart, BeganInside
  <2>2. CASE CommitCall(u)
    BY <1>3, <2>2 DEF CommitCall
  <2> QED BY <1>0, <2>1, <2>2, CommitEntered
<1> QED BY <1>0, <1>1, <1>2, <1>3, BeginCases

-----------------------------------------------------------------------------
(***************************************************************************)
(* The invariant, and what it says of the engine.                          *)
(***************************************************************************)

\* A fresh engine is in order.
LEMMA InitInv == Init => Inv
<1> SUFFICES ASSUME Init PROVE Inv
  OBVIOUS
<1> USE DEF Init
<1>1. TypeOK
  <2>1. versions \in [Keys -> Seq([writer : Txns, live : BOOLEAN, ts : Nat])]
    <3>1. <<>> \in Seq([writer : Txns, live : BOOLEAN, ts : Nat])
      BY EmptySeq
    <3> QED BY <3>1
  <2>2. held \in [Keys -> [Txns -> {"none", "X"}]]
    BY DEF Locks!Init, Locks!None
  <2>3. now \in Nat /\ highest \in Nat /\ answer \in [Txns -> Nat]
    BY MvccAssumption DEF Oracle!Init
  <2>4. began \in [Txns -> Nat \cup {NoTs}]
    BY DEF Oracle!Init, Oracle!NoCall, NoTs
  <2> QED BY <2>1, <2>2, <2>3, <2>4 DEF TypeOK, Pcs, IsolationLevels
<1>2. Progress /\ LocksKept
  BY DEF Progress, LocksKept, WriteKeys, Decided, Locks!Init, Locks!None, NoTs
<1>3. VersionsOwned /\ ReadsRecorded
  BY DEF VersionsOwned, ReadsRecorded
<1>4. Registered
  <2>1. {t \in active_txns : WriteKeys(t) # {}} = {}
    OBVIOUS
  <2> QED BY <2>1, FS_EmptySet DEF Registered, ActiveWritersExact
<1>5. ClocksApart
  BY MvccAssumption DEF ClocksApart, Oracle!Init, Oracle!NoCall, NoTs
<1>6. BeginsApart
  BY DEF BeginsApart
<1> QED BY <1>1, <1>2, <1>3, <1>4, <1>5, <1>6 DEF Inv

\* The types, the progress of each transaction, the locks, who owns which version,
\* SSI's books, the timestamps of storage and oracle and what was read, whatever the
\* transactions do.
THEOREM MvccInv == Spec => []Inv
<1>1. Inv /\ [Next]_vars => Inv'
  BY TypeStep, ProgressStep, LocksStep, VersionsStep, RegisteredStep, ClocksStep, BeginsStep,
     ReadsStep DEF Inv
<1> QED BY <1>1, InitInv, PTL DEF Spec

\* Every variable keeps its type.
THEOREM MvccTypes == Spec => []TypeOK
<1>1. Inv => TypeOK
  BY DEF Inv
<1> QED BY <1>1, MvccInv, PTL

\* The count of active writers is exact on every path of commit and abort.
THEOREM WritersCounted == Spec => []ActiveWritersExact
<1>1. Inv => ActiveWritersExact
  BY DEF Inv, Registered
<1> QED BY <1>1, MvccInv, PTL

\* Storage never holds a version of a transaction that aborted or whose commit
\* failed before storage did.
THEOREM AbortedNeverRead == Spec => []NoAbortedReads
<1>1. Inv => NoAbortedReads
  BY DEF Inv, VersionsOwned, NoAbortedReads, Writing
<1> QED BY <1>1, MvccInv, PTL

\* What a commit wrote before storage failed stays the newest version of its keys.
THEOREM CutShortOnTop == Spec => []CutShortStaysOnTop
<1>1. Inv => CutShortStaysOnTop
  <2> SUFFICES ASSUME Inv, NEW t \in Txns, pc[t] = "cut_short", NEW k \in Applied(t)
               PROVE  Writer(k, Len(versions[k])) = t
    BY DEF CutShortStaysOnTop
  <2>1. PICK i \in DOMAIN versions[k] : Writer(k, i) = t
    BY DEF Applied, Writer
  <2>2. k \in Keys
    BY DEF Applied
  <2> QED BY <2>1, <2>2 DEF Inv, VersionsOwned
<1> QED BY <1>1, MvccInv, PTL

-----------------------------------------------------------------------------
(***************************************************************************)
(* The order of decisions.                                                 *)
(***************************************************************************)

\* The order after a step: who is decided by it follows everyone decided and
\* precedes everyone undecided; who fails precedes nobody any more.
NextOrder(R) ==
    {p \in Txns \X Txns :
        /\ p[1] # p[2] /\ Decided(p[1])'
        /\ p \in R \/ (Undecided(p[1]) /\ Undecided(p[2])')}

\* How a step may change who is decided: nobody is, t is, t no longer is.
SameDecided ==
    \A u \in Txns : (Decided(u)' <=> Decided(u)) /\ (Undecided(u)' => Undecided(u))

OthersSame(t) == \A u \in Txns \ {t} : pc'[u] = pc[u]

Decides(t) == Undecided(t) /\ Decided(t)' /\ OthersSame(t)

Undoes(t) ==
    pc[t] = "prepare" /\ ~Decided(t)' /\ ~Undecided(t)' /\ OthersSame(t)

\* Only commit decides a transaction, and only a failed prepare_commit undoes
\* that.
LEMMA DecisionCases ==
    ASSUME TypeOK, [Next]_vars
    PROVE  SameDecided \/ \E t \in Txns : Decides(t) \/ Undoes(t)
<1> USE DEF oracle, storage, ssi, writes, txnVars, history, vars, Goto, CountOp
<1>1. ASSUME NEW t \in Txns,
             \/ \E level \in Levels : BeginCall(t, level)
             \/ \E ts \in Oracle!Answers(t) : BeginTs(t, ts)
             \/ DeferToSafeSnapshot(t) \/ BeginRegister(t)
             \/ \E k \in Keys : \/ Get(t, k) \/ Put(t, k) \/ Delete(t, k) \/ WriteRefused(t, k)
                                \/ Apply(t, k) \/ ReleaseKey(t, k)
      PROVE  SameDecided
  BY <1>1, ZenonT(40) DEF TypeOK, SameDecided, Decided, Undecided, BeginCall, BeginTs,
                          DeferToSafeSnapshot, BeginRegister, Get, Put, Delete, WriteRefused,
                          Apply, ReleaseKey
<1>2. ASSUME NEW t \in Txns,
             \/ ValidateFails(t) \/ ApplyFails(t) \/ ManagerCommit(t) \/ ReleaseEnd(t)
             \/ Abort(t) \/ Abandon(t)
      PROVE  SameDecided
  <2>1. CASE ValidateFails(t) \/ ApplyFails(t) \/ ManagerCommit(t)
    BY <2>1 DEF TypeOK, SameDecided, Decided, Undecided, ValidateFails, ApplyFails,
                ManagerCommit
  <2>2. CASE ReleaseEnd(t) \/ Abort(t) \/ Abandon(t)
    BY <2>2 DEF TypeOK, SameDecided, Decided, Undecided, ReleaseEnd, Abort, Abandon
  <2> QED BY <1>2, <2>1, <2>2
<1>3. ASSUME NEW t \in Txns, NEW ts \in Oracle!Answers(t), CommitTs(t, ts)
      PROVE  SameDecided \/ Decides(t)
  <2>1. \E to \in {"failed", "validate", "prepare"} :
            pc[t] = "commit_ts" /\ pc' = [pc EXCEPT ![t] = to]
    BY <1>3 DEF CommitTs
  <2> QED BY <2>1 DEF TypeOK, SameDecided, Decides, OthersSame, Decided, Undecided
<1>7. ASSUME NEW t \in Txns, CommitCall(t) PROVE SameDecided
  BY <1>7 DEF TypeOK, CommitCall, SameDecided, Decided, Undecided
<1>4. ASSUME NEW t \in Txns, ValidateOk(t) PROVE Decides(t)
  BY <1>4 DEF TypeOK, ValidateOk, Decides, OthersSame, Decided, Undecided
<1>5. ASSUME NEW t \in Txns, Prepare(t) PROVE SameDecided \/ Undoes(t)
  BY <1>5 DEF TypeOK, Prepare, SameDecided, Undoes, OthersSame, Decided, Undecided
<1>6. CASE Tick \/ UNCHANGED vars
  BY <1>6 DEF Tick, SameDecided, Decided, Undecided
<1> QED
  BY <1>1, <1>2, <1>3, <1>4, <1>5, <1>6, <1>7 DEF Next, Step, AllOver

\* The decision order after a step: it grows by the transaction decided, and
\* keeps every pair whose first member may have written.
LEMMA DecisionStep ==
    ASSUME TypeOK, [Next]_vars,
           NEW R \in SUBSET (Txns \X Txns), DecisionOrder(R),
           NEW R2, R2 = NextOrder(R)
    PROVE  /\ DecisionOrder(R2)'
           /\ \A a, b \in Txns : <<a, b>> \in R /\ Writing(a) => <<a, b>> \in R2
<1>0. \A a, b \in Txns : <<a, b>> \in R2 <=>
          /\ a # b /\ Decided(a)'
          /\ <<a, b>> \in R \/ (Undecided(a) /\ Undecided(b)')
  BY DEF NextOrder
<1> HIDE DEF NextOrder
<1>01. \A a \in Txns : /\ ~(Decided(a) /\ Undecided(a)) /\ ~(Decided(a)' /\ Undecided(a)')
                       /\ Writing(a) => Decided(a) /\ pc[a] # "prepare"
  BY DEF Decided, Undecided, Writing
<1>1. CASE SameDecided
  BY <1>0, <1>01, <1>1 DEF SameDecided, DecisionOrder
<1>2. ASSUME NEW t \in Txns, Decides(t)
      PROVE  /\ DecisionOrder(R2)'
             /\ \A a, b \in Txns : <<a, b>> \in R /\ Writing(a) => <<a, b>> \in R2
  <2>1. \A u \in Txns \ {t} : (Decided(u)' <=> Decided(u)) /\ (Undecided(u)' <=> Undecided(u))
    BY <1>2 DEF Decides, OthersSame, Decided, Undecided
  <2>2. Undecided(t) /\ Decided(t)'
    BY <1>2 DEF Decides
  <2> QED BY <1>0, <1>01, <2>1, <2>2 DEF DecisionOrder
<1>3. ASSUME NEW t \in Txns, Undoes(t)
      PROVE  /\ DecisionOrder(R2)'
             /\ \A a, b \in Txns : <<a, b>> \in R /\ Writing(a) => <<a, b>> \in R2
  <2>1. \A u \in Txns \ {t} : (Decided(u)' <=> Decided(u)) /\ (Undecided(u)' <=> Undecided(u))
    BY <1>3 DEF Undoes, OthersSame, Decided, Undecided
  <2>2. pc[t] = "prepare" /\ ~Decided(t)' /\ ~Undecided(t)'
    BY <1>3 DEF Undoes
  <2> QED BY <1>0, <1>01, <2>1, <2>2 DEF DecisionOrder
<1> QED BY <1>1, <1>2, <1>3, DecisionCases

\* What storage holds and what was read follows the order of decisions: a version
\* goes on top of versions of writers that released the key, a write is locked
\* while its transaction is undecided, and so is a read answered.
LEMMA FlowStep ==
    ASSUME Inv, Inv', [Next]_vars,
           NEW R \in SUBSET (Txns \X Txns), DecisionOrder(R), FlowInOrder(R),
           NEW R2, \A a, b \in Txns : <<a, b>> \in R /\ Writing(a) => <<a, b>> \in R2
    PROVE  FlowInOrder(R2)'
<1>0. /\ TypeOK /\ VersionsOwned /\ ReadsRecorded
      /\ TypeOK' /\ VersionsOwned' /\ LocksKept' /\ ReadsRecorded'
  BY DEF Inv
<1>01. \A k \in Keys : \A i \in DOMAIN versions[k] :
          Writer(k, i) \in Txns /\ Writing(Writer(k, i)) /\ i \in 1 .. Len(versions[k])
  BY <1>0, WriterType DEF VersionsOwned
<1>02. \A t, u \in Txns : Writing(t) /\ Undecided(u) => <<t, u>> \in R
  BY DEF Writing, Decided, DecisionOrder
<1>03. \A u \in Txns : \A o \in observed[u] :
          /\ o[1] \in Keys /\ o[2] \in Nat /\ o[2] <= Len(versions[o[1]])
          /\ o[2] # 0 => o[2] \in DOMAIN versions[o[1]]
  <2>1. \A u \in Txns : \A o \in observed[u] : o \in Keys \X Nat
    BY <1>0 DEF TypeOK
  <2>2. \A u \in Txns : \A o \in observed[u] : o[1] \in Keys /\ o[2] \in Nat
    BY <2>1
  <2>3. \A u \in Txns : \A o \in observed[u] : o[2] <= Len(versions[o[1]])
    BY <1>0 DEF ReadsRecorded
  <2>4. \A k \in Keys : /\ Len(versions[k]) \in Nat
                       /\ DOMAIN versions[k] = 1 .. Len(versions[k])
    BY <1>0 DEF TypeOK
  <2> QED BY <2>2, <2>3, <2>4
<1>04. \A u \in Txns : WriteKeys(u) \subseteq Keys
  BY <1>0 DEF TypeOK, WriteKeys
<1> DEFINE Kept == /\ UNCHANGED <<versions, observed, puts, deletes>>
                   /\ \A u \in Txns : GivesUp(u) => GivesUp(u)'
<1>1. ASSUME Kept PROVE FlowInOrder(R2)'
  <2>1. \A k \in Keys : \A i, j \in DOMAIN versions[k] :
            i < j /\ Writer(k, i) # Writer(k, j) => <<Writer(k, i), Writer(k, j)>> \in R2
    BY <1>01 DEF FlowInOrder
  <2>2. \A u \in Txns : \A k \in WriteKeys(u) : \A i \in DOMAIN versions[k] :
            ~GivesUp(u) /\ Writer(k, i) # u => <<Writer(k, i), u>> \in R2
    BY <1>01, <1>04 DEF FlowInOrder
  <2>3. \A u \in Txns : \A o \in observed[u] : o[2] # 0 => <<Writer(o[1], o[2]), u>> \in R2
    BY <1>01, <1>03 DEF FlowInOrder
  <2> QED BY <1>1, <2>1, <2>2, <2>3 DEF FlowInOrder, Writer, WriteKeys
<1> USE DEF oracle, storage, ssi, writes, txnVars, history, vars, Goto, CountOp
<1>2. ASSUME NEW t \in Txns,
             \/ \E level \in Levels : BeginCall(t, level)
             \/ \E ts \in Oracle!Answers(t) : BeginTs(t, ts)
             \/ DeferToSafeSnapshot(t) \/ BeginRegister(t)
             \/ \E k \in Keys : WriteRefused(t, k) \/ ReleaseKey(t, k)
      PROVE  Kept
  <2>1. UNCHANGED <<versions, observed, puts, deletes>>
    BY <1>2 DEF BeginCall, BeginTs, DeferToSafeSnapshot, BeginRegister, WriteRefused, ReleaseKey
  <2>2. UNCHANGED pc \/ (~GivesUp(t) /\ \E to \in Pcs : pc' = [pc EXCEPT ![t] = to])
    BY <1>2 DEF GivesUp, Pcs, BeginCall, BeginTs, DeferToSafeSnapshot, BeginRegister,
                WriteRefused, ReleaseKey
  <2> QED BY <1>0, <2>1, <2>2 DEF TypeOK, GivesUp
<1>3. ASSUME NEW t \in Txns,
             \/ CommitCall(t) \/ (\E ts \in Oracle!Answers(t) : CommitTs(t, ts))
             \/ ValidateOk(t) \/ ValidateFails(t) \/ Prepare(t) \/ ApplyFails(t)
             \/ ManagerCommit(t) \/ ReleaseEnd(t) \/ Abort(t) \/ Abandon(t)
      PROVE  Kept
  <2>1. UNCHANGED <<versions, observed, puts, deletes>>
    BY <1>3 DEF CommitCall, CommitTs, ValidateOk, ValidateFails, Prepare, ApplyFails,
                ManagerCommit, ReleaseEnd, Abort, Abandon
  <2>2. CASE \/ CommitCall(t) \/ (\E ts \in Oracle!Answers(t) : CommitTs(t, ts))
             \/ ValidateOk(t) \/ ValidateFails(t) \/ Prepare(t) \/ ApplyFails(t)
             \/ ManagerCommit(t) \/ Abandon(t)
    <3>1. ~GivesUp(t) /\ \E to \in Pcs : pc' = [pc EXCEPT ![t] = to]
      BY <2>2 DEF GivesUp, Pcs, CommitCall, CommitTs, ValidateOk, ValidateFails, Prepare,
                  ApplyFails, ManagerCommit, Abandon
    <3> QED BY <1>0, <2>1, <3>1 DEF TypeOK, GivesUp
  <2>3. CASE ReleaseEnd(t) \/ Abort(t)
    <3>1. \E to \in {"committed", "aborting", "aborted"} : pc' = [pc EXCEPT ![t] = to]
      BY <2>3 DEF ReleaseEnd, Abort
    <3> QED BY <1>0, <2>1, <3>1 DEF TypeOK, GivesUp
  <2> QED BY <1>3, <2>2, <2>3
<1>4. ASSUME NEW t \in Txns, NEW k \in Keys, Put(t, k) \/ Delete(t, k) PROVE FlowInOrder(R2)'
  <2>1. UNCHANGED <<pc, versions, observed>> /\ Undecided(t)
    BY <1>4 DEF Put, Delete, Undecided
  <2>2. \A u \in Txns \ {t} : WriteKeys(u)' = WriteKeys(u)
    BY <1>0, <1>4, ZenonT(40) DEF TypeOK, Put, Delete, WriteKeys
  <2>3. \A i \in DOMAIN versions[k] : <<Writer(k, i), t>> \in R2
    BY <1>01, <1>02, <2>1
  <2>4. \A j \in WriteKeys(t)' : j \in Keys
    BY <1>0 DEF TypeOK, WriteKeys
  <2>5. \A j \in Keys : \A i \in DOMAIN versions[j] : <<Writer(j, i), t>> \in R2
    BY <1>01, <1>02, <2>1
  <2>6. \A j \in Keys : \A i, l \in DOMAIN versions[j] :
            i < l /\ Writer(j, i) # Writer(j, l) => <<Writer(j, i), Writer(j, l)>> \in R2
    BY <1>01 DEF FlowInOrder
  <2>7. \A u \in Txns : \A j \in WriteKeys(u)' : \A i \in DOMAIN versions[j] :
            ~GivesUp(u) /\ Writer(j, i) # u => <<Writer(j, i), u>> \in R2
    BY <1>01, <1>04, <2>2, <2>4, <2>5 DEF FlowInOrder
  <2>8. \A u \in Txns : \A o \in observed[u] : o[2] # 0 => <<Writer(o[1], o[2]), u>> \in R2
    BY <1>01, <1>03 DEF FlowInOrder
  <2> QED BY <2>1, <2>6, <2>7, <2>8 DEF FlowInOrder, Writer, GivesUp
<1>5. ASSUME NEW t \in Txns, NEW k \in Keys, Get(t, k) PROVE FlowInOrder(R2)'
  <2>1. UNCHANGED <<pc, versions, puts, deletes>> /\ Undecided(t)
    BY <1>5 DEF Get, Undecided
  <2>2. \A u \in Txns \ {t} : observed'[u] = observed[u]
    BY <1>0, <1>5 DEF TypeOK, Get
  <2>3. \A o \in observed'[t] : o[1] \in Keys /\ (o[2] # 0 => o[2] \in DOMAIN versions[o[1]])
    BY <1>0, <2>1, SMTT(40) DEF TypeOK, ReadsRecorded
  <2>4. \A u \in Txns : \A o \in observed'[u] : o[2] # 0 => <<Writer(o[1], o[2]), u>> \in R2
    BY <1>01, <1>02, <1>03, <2>1, <2>2, <2>3 DEF FlowInOrder
  <2>5. \A j \in Keys : \A i, l \in DOMAIN versions[j] :
            i < l /\ Writer(j, i) # Writer(j, l) => <<Writer(j, i), Writer(j, l)>> \in R2
    BY <1>01 DEF FlowInOrder
  <2>6. \A u \in Txns : \A j \in WriteKeys(u) : \A i \in DOMAIN versions[j] :
            ~GivesUp(u) /\ Writer(j, i) # u => <<Writer(j, i), u>> \in R2
    BY <1>01, <1>04 DEF FlowInOrder
  <2> QED BY <2>1, <2>4, <2>5, <2>6 DEF FlowInOrder, Writer, GivesUp, WriteKeys
<1>6. ASSUME NEW t \in Txns, NEW k \in Keys, Apply(t, k) PROVE FlowInOrder(R2)'
  <2> DEFINE n == Len(versions[k]) + 1
  <2>1. UNCHANGED <<pc, observed, puts, deletes, held>> /\ k \in WriteKeys(t) /\ ~GivesUp(t)
    BY <1>6 DEF Apply, GivesUp
  <2>2. /\ Len(versions'[k]) = n
        /\ versions'[k][n].writer = t
        /\ \A i \in 1 .. Len(versions[k]) : versions'[k][i] = versions[k][i]
        /\ \A j \in Keys \ {k} : versions'[j] = versions[j]
    BY <1>0, <1>6, ApplyEffect
  <2>3. DOMAIN versions'[k] = 1 .. n /\ DOMAIN versions[k] = 1 .. Len(versions[k])
        /\ Len(versions[k]) \in Nat
    BY <1>0, <2>2 DEF TypeOK
  <2>4. ASSUME NEW j \in Keys, NEW i \in DOMAIN versions'[j]
        PROVE  \/ j = k /\ i = n /\ versions'[j][i].writer = t
               \/ i \in DOMAIN versions[j] /\ versions'[j][i].writer = Writer(j, i)
    BY <2>2, <2>3, SMTT(40) DEF Writer
  <2>5. \A i \in DOMAIN versions[k] : Writer(k, i) # t => <<Writer(k, i), t>> \in R2
    BY <1>01, <2>1 DEF FlowInOrder
  <2>6. ASSUME NEW j \in Keys, NEW i \in DOMAIN versions'[j], NEW l \in DOMAIN versions'[j],
               i < l, versions'[j][i].writer # versions'[j][l].writer
        PROVE  <<versions'[j][i].writer, versions'[j][l].writer>> \in R2
    <3>1. i \in DOMAIN versions[j] /\ versions'[j][i].writer = Writer(j, i)
      BY <2>3, <2>4, <2>6
    <3>2. CASE j = k /\ l = n
      BY <2>2, <2>5, <2>6, <3>1, <3>2
    <3>3. CASE l \in DOMAIN versions[j] /\ versions'[j][l].writer = Writer(j, l)
      BY <1>01, <2>6, <3>1, <3>3 DEF FlowInOrder
    <3> QED BY <2>4, <3>2, <3>3
  <2>7. ASSUME NEW u \in Txns, NEW j \in WriteKeys(u), NEW i \in DOMAIN versions'[j],
               ~GivesUp(u), versions'[j][i].writer # u
        PROVE  <<versions'[j][i].writer, u>> \in R2
    <3>1. j \in Keys
      BY <1>04
    <3>2. CASE i \in DOMAIN versions[j] /\ versions'[j][i].writer = Writer(j, i)
      BY <1>01, <2>7, <3>1, <3>2 DEF FlowInOrder
    <3>3. CASE j = k /\ versions'[j][i].writer = t
      <4>1. held'[k][t] = "X" /\ held'[k][u] = "X"
        BY <1>0, <2>1, <2>7, <3>3 DEF LocksKept, WriteKeys, GivesUp
      <4> QED BY <1>0, <2>7, <3>3, <4>1 DEF LocksKept
    <3> QED BY <2>4, <3>1, <3>2, <3>3
  <2>8. ASSUME NEW u \in Txns, NEW o \in observed[u], o[2] # 0
        PROVE  <<versions'[o[1]][o[2]].writer, u>> \in R2
    <3>1. o[1] \in Keys /\ o[2] \in DOMAIN versions[o[1]]
      BY <1>03, <2>8
    <3>2. versions'[o[1]][o[2]].writer = Writer(o[1], o[2])
      BY <2>2, <2>3, <3>1 DEF Writer
    <3> QED BY <1>01, <2>8, <3>1, <3>2 DEF FlowInOrder
  <2> QED BY <2>1, <2>6, <2>7, <2>8 DEF FlowInOrder, Writer, WriteKeys, GivesUp
<1>7. CASE Tick \/ UNCHANGED vars
  <2>1. Kept
    BY <1>7 DEF Tick, GivesUp
  <2> QED BY <1>1, <2>1
<1> HIDE DEF Kept
<1> QED
  BY <1>1, <1>2, <1>3, <1>4, <1>5, <1>6, <1>7 DEF Next, Step, AllOver

\* An order of decisions that everything in storage follows exists at every step.
THEOREM DecisionOrderExists == Spec => []OrderExists
<1>1. Init => OrderExists
  <2> SUFFICES ASSUME Init PROVE DecisionOrder({}) /\ FlowInOrder({})
    BY DEF OrderExists
  <2>1. DecisionOrder({})
    BY DEF Init, DecisionOrder, Decided
  <2>2. \A t \in Txns : WriteKeys(t) = {} /\ observed[t] = {}
    BY DEF Init, WriteKeys
  <2>3. \A k \in Keys : DOMAIN versions[k] = {}
    BY DEF Init
  <2> QED BY <2>1, <2>2, <2>3 DEF FlowInOrder
<1>2. Inv /\ Inv' /\ OrderExists /\ [Next]_vars => OrderExists'
  <2> SUFFICES ASSUME Inv, Inv', OrderExists, [Next]_vars PROVE OrderExists'
    OBVIOUS
  <2>1. PICK R \in SUBSET (Txns \X Txns) : DecisionOrder(R) /\ FlowInOrder(R)
    BY DEF OrderExists
  <2> DEFINE R2 == NextOrder(R)
  <2>2. R2 \in SUBSET (Txns \X Txns)
    BY DEF NextOrder
  <2>3. \E Q \in SUBSET (Txns \X Txns) : (DecisionOrder(Q) /\ FlowInOrder(Q))'
    <3>1. \A Q : Q = NextOrder(R) => (DecisionOrder(Q) /\ FlowInOrder(Q))'
      <4> SUFFICES ASSUME NEW Q, Q = NextOrder(R) PROVE (DecisionOrder(Q) /\ FlowInOrder(Q))'
        OBVIOUS
      <4>1. TypeOK
        BY DEF Inv
      <4>2. /\ DecisionOrder(Q)'
            /\ \A a, b \in Txns : <<a, b>> \in R /\ Writing(a) => <<a, b>> \in Q
        BY <2>1, <4>1, DecisionStep
      <4> QED BY <2>1, <4>2, FlowStep
    <3> HIDE DEF R2
    <3> QED BY <2>2, <3>1 DEF R2
  <2> QED BY <2>3 DEF OrderExists
<1> QED BY <1>1, <1>2, MvccInv, PTL DEF Spec

\* No cycle of overwrites and reads, at any isolation level: both follow the order
\* of decisions.
THEOREM FlowOneWay == Spec => []NoCircularInformationFlow
<1>1. Inv /\ OrderExists => NoCircularInformationFlow
  <2> SUFFICES ASSUME Inv, OrderExists PROVE NoCircularInformationFlow
    OBVIOUS
  <2>1. PICK R \in SUBSET (Txns \X Txns) : DecisionOrder(R) /\ FlowInOrder(R)
    BY DEF OrderExists
  <2>2. \A t, u \in Txns : t # u /\ (Overwrites(t, u) \/ ReadsFrom(t, u)) => <<t, u>> \in R
    BY <2>1 DEF FlowInOrder, Overwrites, ReadsFrom
  <2> DEFINE E == GraphOn(Txns, LAMBDA t, u : Overwrites(t, u) \/ ReadsFrom(t, u))
  <2>3. DOMAIN E = Txns /\ \A t \in Txns : E[t] \subseteq Txns
    BY DEF GraphOn
  <2>4. \A t \in Txns : \A u \in E[t] : <<t, u>> \in R
    BY <2>2 DEF GraphOn
  <2> HIDE DEF E
  <2>5. ASSUME NEW t \in Txns, Reaches(E, t, t) PROVE FALSE
    <3> DEFINE C == {u \in Txns : <<t, u>> \in R}
    <3>1. E[t] \subseteq C /\ \A u \in C : E[u] \subseteq C
      BY <2>1, <2>3, <2>4 DEF DecisionOrder
    <3>2. t \in C
      BY <2>3, <2>5, <3>1 DEF Reaches
    <3> QED BY <2>1, <3>2 DEF DecisionOrder
  <2> QED BY <2>3, <2>5 DEF NoCircularInformationFlow, Acyclic, E
<1> QED BY <1>1, MvccInv, DecisionOrderExists, PTL

-----------------------------------------------------------------------------
(***************************************************************************)
(* What a step leaves alone.                                               *)
(***************************************************************************)

\* What a decided transaction has asked for, read and been given stays, and so does
\* what is in the books about it.
Settled(t) ==
    /\ isolation'[t] = isolation[t] /\ start_ts'[t] = start_ts[t]
    /\ commit_ts'[t] = commit_ts[t] /\ read_set'[t] = read_set[t]
    /\ puts'[t] = puts[t] /\ deletes'[t] = deletes[t]

\* Once decided, a transaction keeps what it was decided with.
LEMMA SettledStays ==
    ASSUME TypeOK, [Next]_vars, NEW t \in Txns, Decided(t)
    PROVE  Settled(t)
<1> USE DEF oracle, storage, ssi, writes, txnVars, history, vars, Goto, CountOp
<1>1. ASSUME NEW u \in Txns,
             \/ \E level \in Levels : BeginCall(u, level)
             \/ \E ts \in Oracle!Answers(u) : BeginTs(u, ts)
             \/ DeferToSafeSnapshot(u) \/ BeginRegister(u)
             \/ \E k \in Keys : Get(u, k) \/ WriteRefused(u, k) \/ Apply(u, k) \/ ReleaseKey(u, k)
      PROVE  Settled(t)
  BY <1>1, ZenonT(40)
  DEF TypeOK, Settled, Decided, BeginCall, BeginTs, DeferToSafeSnapshot, BeginRegister, Get,
      WriteRefused, Apply, ReleaseKey
<1>2. ASSUME NEW u \in Txns, NEW k \in Keys, Put(u, k) \/ Delete(u, k) PROVE Settled(t)
  BY <1>2 DEF TypeOK, Settled, Decided, Put, Delete
<1>3. ASSUME NEW u \in Txns,
             \/ CommitCall(u) \/ (\E ts \in Oracle!Answers(u) : CommitTs(u, ts))
             \/ ValidateOk(u) \/ ValidateFails(u) \/ Prepare(u) \/ ApplyFails(u)
             \/ ManagerCommit(u) \/ ReleaseEnd(u) \/ Abort(u) \/ Abandon(u)
      PROVE  Settled(t)
  BY <1>3 DEF TypeOK, Settled, Decided, CommitCall, CommitTs, ValidateOk, ValidateFails,
              Prepare, ApplyFails, ManagerCommit, ReleaseEnd, Abort, Abandon
<1>4. CASE Tick \/ UNCHANGED vars
  BY <1>4 DEF Tick, Settled
<1> QED
  BY <1>1, <1>2, <1>3, <1>4 DEF Next, Step, AllOver

\* A serializable transaction is decided by validation alone.
LEMMA DecidedByValidation ==
    ASSUME TypeOK, [Next]_vars, NEW t \in Txns, ~Decided(t), Decided(t)',
           isolation'[t] = "Serializable"
    PROVE  ValidateOk(t)
<1> USE DEF oracle, storage, ssi, writes, txnVars, history, vars, Goto, CountOp
<1>1. ASSUME NEW u \in Txns,
             \/ \E level \in Levels : BeginCall(u, level)
             \/ \E ts \in Oracle!Answers(u) : BeginTs(u, ts)
             \/ DeferToSafeSnapshot(u) \/ BeginRegister(u)
             \/ \E k \in Keys : \/ Get(u, k) \/ Put(u, k) \/ Delete(u, k) \/ WriteRefused(u, k)
                                \/ Apply(u, k) \/ ReleaseKey(u, k)
      PROVE  FALSE
  BY <1>1, ZenonT(40)
  DEF TypeOK, Decided, BeginCall, BeginTs, DeferToSafeSnapshot, BeginRegister, Get, Put, Delete,
      WriteRefused, Apply, ReleaseKey
<1>2. ASSUME NEW u \in Txns,
             \/ ValidateFails(u) \/ Prepare(u) \/ ApplyFails(u)
             \/ ManagerCommit(u) \/ ReleaseEnd(u) \/ Abort(u) \/ Abandon(u)
      PROVE  FALSE
  BY <1>2 DEF TypeOK, Decided, ValidateFails, Prepare, ApplyFails,
              ManagerCommit, ReleaseEnd, Abort, Abandon
<1>3. ASSUME NEW u \in Txns, NEW ts \in Oracle!Answers(u), CommitTs(u, ts) PROVE FALSE
  <2>1. UNCHANGED isolation /\ \E to : pc' = [pc EXCEPT ![u] = to]
    BY <1>3 DEF CommitTs
  <2>2. u = t
    BY <2>1 DEF TypeOK, Decided
  <2>3. pc'[t] \in {"failed", "validate"}
    BY <1>3, <2>1, <2>2 DEF TypeOK, CommitTs
  <2> QED BY <2>3 DEF Decided
<1>6. ASSUME NEW u \in Txns, CommitCall(u) PROVE FALSE
  BY <1>6 DEF TypeOK, Decided, CommitCall
<1>4. ASSUME NEW u \in Txns, ValidateOk(u) PROVE u = t
  BY <1>4 DEF TypeOK, Decided, ValidateOk
<1>5. CASE Tick \/ UNCHANGED vars
  BY <1>5 DEF Tick, Decided
<1> QED
  BY <1>1, <1>2, <1>3, <1>4, <1>5, <1>6 DEF Next, Step, AllOver

\* The index only grows, and the commit timestamp is set once in commit.
LEMMA IndexStays ==
    ASSUME TypeOK, [Next]_vars
    PROVE  /\ write_index \subseteq write_index'
           /\ \A t \in Txns : (\E ts \in Oracle!Answers(t) : CommitTs(t, ts))
                              \/ commit_ts'[t] = commit_ts[t]
<1> USE DEF oracle, storage, ssi, writes, txnVars, history, vars, Goto, CountOp
<1>1. ASSUME NEW u \in Txns,
             \/ \E level \in Levels : BeginCall(u, level)
             \/ \E ts \in Oracle!Answers(u) : BeginTs(u, ts)
             \/ DeferToSafeSnapshot(u) \/ BeginRegister(u)
             \/ \E k \in Keys : \/ Get(u, k) \/ Put(u, k) \/ Delete(u, k) \/ WriteRefused(u, k)
                                \/ Apply(u, k) \/ ReleaseKey(u, k)
      PROVE  UNCHANGED <<write_index, commit_ts>>
  BY <1>1, ZenonT(40) DEF BeginCall, BeginTs, DeferToSafeSnapshot, BeginRegister, SsiBegin,
                          Get, Put, Delete, RecordWrite, WriteRefused, Apply, ReleaseKey
<1>2. ASSUME NEW u \in Txns,
             \/ CommitCall(u) \/ ValidateOk(u) \/ ValidateFails(u) \/ Prepare(u)
             \/ ApplyFails(u) \/ ManagerCommit(u) \/ ReleaseEnd(u) \/ Abort(u) \/ Abandon(u)
      PROVE  write_index \subseteq write_index' /\ UNCHANGED commit_ts
  BY <1>2, ZenonT(40) DEF CommitCall, ValidateOk, ValidateFails, Prepare, ApplyFails,
              ManagerCommit, ReleaseEnd, Abort, SsiAbort, Abandon
<1>3. ASSUME NEW u \in Txns, NEW ts \in Oracle!Answers(u), CommitTs(u, ts)
      PROVE  UNCHANGED write_index /\ \A t \in Txns \ {u} : commit_ts'[t] = commit_ts[t]
  <2>1. commit_ts' = commit_ts \/ commit_ts' = [commit_ts EXCEPT ![u] = ts]
    BY <1>3 DEF CommitTs
  <2>2. UNCHANGED write_index
    BY <1>3 DEF CommitTs
  <2> QED BY <2>1, <2>2 DEF TypeOK
<1>4. CASE Tick \/ UNCHANGED vars
  BY <1>4 DEF Tick
<1> QED
  BY <1>1, <1>2, <1>3, <1>4 DEF Next, Step, AllOver

-----------------------------------------------------------------------------
(***************************************************************************)
(* What validation leaves behind.                                          *)
(***************************************************************************)

\* validate_and_commit enters every written key into the write index before
\* the transaction counts as decided, and no entry of the index goes.
LEMMA IndexedStep ==
    ASSUME TypeOK, Registered, WritesIndexed, [Next]_vars
    PROVE  WritesIndexed'
<1> SUFFICES ASSUME NEW t \in Txns, isolation'[t] = "Serializable", Decided(t)',
                    NEW k \in puts'[t] \cup deletes'[t]
             PROVE  [hash |-> hash_key[k], commit_ts |-> commit_ts'[t], start_ts |-> start_ts'[t]]
                        \in write_index'
  BY DEF WritesIndexed, WriteKeys
<1>1. CASE Decided(t)
  <2>1. Settled(t)
    BY <1>1, SettledStays
  <2>2. write_index \subseteq write_index'
    BY IndexStays
  <2> QED BY <1>1, <2>1, <2>2 DEF WritesIndexed, WriteKeys, Settled
<1>2. CASE ~Decided(t)
  <2>1. ValidateOk(t)
    BY <1>2, DecidedByValidation
  <2>2. /\ active_start_ts[t] = start_ts[t] /\ k \in WriteKeys(t)
        /\ commit_ts'[t] = commit_ts[t] /\ start_ts'[t] = start_ts[t]
    BY <2>1 DEF Registered, ValidateOk, txnVars, writes, WriteKeys
  <2>3. hash_key[k] \in Hashes(WriteKeys(t))
    BY <2>2 DEF Hashes
  <2> QED BY <2>1, <2>2, <2>3 DEF ValidateOk
<1> QED BY <1>1, <1>2

\* A validation that succeeds has found every entry that a transaction decided
\* before left for a key it read.
LEMMA ValidatedStep ==
    ASSUME TypeOK, Progress, WritesIndexed, [Next]_vars,
           NEW R \in SUBSET (Txns \X Txns), DecisionOrder(R), Validated(R),
           NEW R2, R2 = NextOrder(R)
    PROVE  Validated(R2)'
<1> SUFFICES ASSUME NEW t \in Txns, NEW u \in Txns,
                    isolation'[t] = "Serializable", isolation'[u] = "Serializable",
                    Decided(t)', Decided(u)', <<u, t>> \in R2,
                    read_set'[t] \cap (puts'[u] \cup deletes'[u]) # {}
             PROVE  commit_ts'[u] <= start_ts'[t] \/ start_ts'[u] >= commit_ts'[t]
  BY DEF Validated, WriteKeys
<1>1. <<u, t>> \in R \/ (Undecided(u) /\ Undecided(t)')
  BY DEF NextOrder
<1>2. <<u, t>> \in R /\ u # t
  <2>1. ~Undecided(t)'
    BY DEF Decided, Undecided
  <2>2. u # t
    BY DEF NextOrder
  <2> QED BY <1>1, <2>1, <2>2
<1>3. CASE Decided(u) /\ Decided(t)
  <2>1. Settled(u) /\ Settled(t)
    BY <1>3, SettledStays
  <2> QED BY <1>2, <1>3, <2>1 DEF Validated, WriteKeys, Settled
<1>4. CASE Decided(u) /\ ~Decided(t)
  <2>1. ValidateOk(t) /\ Settled(u)
    BY <1>4, DecidedByValidation, SettledStays
  <2>2. /\ InboundConflicts(t) = {}
        /\ read_set'[t] = read_set[t] /\ start_ts'[t] = start_ts[t] /\ commit_ts'[t] = commit_ts[t]
    BY <2>1 DEF ValidateOk, txnVars
  <2>3. PICK k \in read_set[t] : k \in WriteKeys(u)
    BY <2>1, <2>2 DEF Settled, WriteKeys
  <2> DEFINE e == [hash |-> hash_key[k], commit_ts |-> commit_ts[u], start_ts |-> start_ts[u]]
  <2>4. e \in write_index
    BY <1>4, <2>1, <2>3 DEF WritesIndexed, Settled
  <2>5. hash_key[k] \in Hashes(read_set[t])
    BY <2>3 DEF Hashes
  <2>6. ~(commit_ts[u] > start_ts[t] /\ start_ts[u] < commit_ts[t])
    BY <2>2, <2>4, <2>5 DEF InboundConflicts
  <2>7. /\ start_ts[t] \in Nat /\ start_ts[u] \in Nat
        /\ commit_ts[u] \in Nat /\ commit_ts[t] \in Nat
    <3>1. pc[t] = "validate"
      BY <2>1 DEF ValidateOk, Goto
    <3> QED BY <1>4, <3>1 DEF TypeOK, Progress
  <2> QED BY <2>1, <2>2, <2>6, <2>7 DEF Settled
<1>5. CASE ~Decided(u)
  BY <1>2, <1>5 DEF DecisionOrder
<1> QED BY <1>3, <1>4, <1>5

\* A transaction that is finishing goes on to the end; one that failed stays.
LEMMA FinishedStays ==
    ASSUME TypeOK, [Next]_vars, NEW u \in Txns
    PROVE  /\ pc[u] = "failed" => pc'[u] = "failed"
           /\ pc[u] \in {"release", "committed", "cut_short"} =>
                 pc'[u] \in {"release", "committed", "cut_short"}
<1> USE DEF oracle, storage, ssi, writes, txnVars, history, vars, Goto, CountOp
<1>1. ASSUME NEW t \in Txns,
             \/ \E level \in Levels : BeginCall(t, level)
             \/ \E ts \in Oracle!Answers(t) : BeginTs(t, ts)
             \/ DeferToSafeSnapshot(t) \/ BeginRegister(t)
             \/ \E k \in Keys : \/ Get(t, k) \/ Put(t, k) \/ Delete(t, k) \/ WriteRefused(t, k)
                                \/ Apply(t, k) \/ ReleaseKey(t, k)
      PROVE  pc[u] \in {"failed", "release", "committed", "cut_short"} => pc'[u] = pc[u]
  BY <1>1 DEF TypeOK, BeginCall, BeginTs, DeferToSafeSnapshot, BeginRegister, Get, Put, Delete,
              WriteRefused, Apply, ReleaseKey
<1>2. ASSUME NEW t \in Txns,
             \/ CommitCall(t) \/ (\E ts \in Oracle!Answers(t) : CommitTs(t, ts))
             \/ ValidateOk(t) \/ ValidateFails(t) \/ Prepare(t) \/ ApplyFails(t)
             \/ ManagerCommit(t) \/ Abort(t) \/ Abandon(t)
      PROVE  pc[u] \in {"failed", "release", "committed", "cut_short"} => pc'[u] = pc[u]
  BY <1>2 DEF TypeOK, CommitCall, CommitTs, ValidateOk, ValidateFails, Prepare, ApplyFails,
              ManagerCommit, Abort, Abandon
<1>3. ASSUME NEW t \in Txns, ReleaseEnd(t)
      PROVE  /\ pc[u] = "failed" => pc'[u] = "failed"
             /\ pc[u] \in {"release", "committed", "cut_short"} =>
                   pc'[u] \in {"release", "committed", "cut_short"}
  BY <1>3 DEF TypeOK, ReleaseEnd
<1>4. CASE Tick \/ UNCHANGED vars
  BY <1>4 DEF Tick
<1> QED
  BY <1>1, <1>2, <1>3, <1>4 DEF Next, Step, AllOver

\* Storage only gains versions, and gains them from transactions that apply.
LEMMA VersionsGrow ==
    ASSUME TypeOK, [Next]_vars, NEW k \in Keys, NEW i \in DOMAIN versions'[k]
    PROVE  \/ i \in DOMAIN versions[k] /\ versions'[k][i].writer = Writer(k, i)
           \/ pc[versions'[k][i].writer] = "apply"
<1>1. ASSUME NEW t \in Txns, NEW j \in Keys, Apply(t, j)
      PROVE  \/ i \in DOMAIN versions[k] /\ versions'[k][i].writer = Writer(k, i)
             \/ pc[versions'[k][i].writer] = "apply"
  <2>1. /\ Len(versions'[j]) = Len(versions[j]) + 1
        /\ versions'[j][Len(versions[j]) + 1].writer = t
        /\ \A n \in 1 .. Len(versions[j]) : versions'[j][n] = versions[j][n]
        /\ \A n \in Keys \ {j} : versions'[n] = versions[n]
        /\ versions' \in [Keys -> Seq([writer : Txns, live : BOOLEAN, ts : Nat])]
    BY <1>1, ApplyEffect
  <2>2. /\ DOMAIN versions'[j] = 1 .. Len(versions[j]) + 1
        /\ DOMAIN versions[j] = 1 .. Len(versions[j])
        /\ Len(versions[j]) \in Nat
    BY <2>1 DEF TypeOK
  <2>3. pc[t] = "apply"
    BY <1>1 DEF Apply
  <2>4. CASE k # j
    BY <2>1, <2>4 DEF Writer
  <2>5. CASE k = j /\ i = Len(versions[j]) + 1
    BY <2>1, <2>3, <2>5
  <2>6. CASE k = j /\ i # Len(versions[j]) + 1
    <3>1. i \in 1 .. Len(versions[j])
      BY <2>2, <2>6
    <3> QED BY <2>1, <2>2, <2>6, <3>1 DEF Writer
  <2> QED BY <2>4, <2>5, <2>6
<1>2. CASE UNCHANGED versions
  BY <1>2 DEF Writer
<1> QED BY <1>1, <1>2, VersionsCases

\* What a serializable transaction reads is the newest version there is.
LEMMA ObservedCases ==
    ASSUME Inv, [Next]_vars, NEW t \in Txns, isolation[t] = "Serializable"
    PROVE  \/ observed'[t] = observed[t]
           \/ \E k \in Keys :
                  /\ observed'[t] = observed[t] \cup {<<k, Len(versions[k])>>}
                  /\ UNCHANGED versions
<1>0. TypeOK
  BY DEF Inv
<1>1. ASSUME NEW u \in Txns, NEW k \in Keys, Get(u, k), u = t
      PROVE  /\ observed'[t] = observed[t] \cup {<<k, Len(versions[k])>>}
             /\ UNCHANGED versions
  <2>1. LeastTs <= start_ts[t] /\ start_ts[t] \in Nat /\ LeastTs \in Nat
    <3>1. pc[t] = "active"
      BY <1>1 DEF Get, CountOp
    <3>2. LeastTs <= start_ts[t]
      BY <3>1 DEF Inv, ClocksApart
    <3> QED BY <1>0, <3>2, MvccAssumption DEF TypeOK, LeastTs
  <2>2. ASSUME NEW j \in DOMAIN versions[k] PROVE versions[k][j].ts <= start_ts[t]
    <3>1. versions[k][j].ts <= LeastTs
      BY DEF Inv, ClocksApart
    <3>2. versions[k][j].ts \in Nat
      BY <1>0, WriterType
    <3> QED BY <2>1, <3>1, <3>2
  <2>3. VisibleVersion(k, start_ts[t]) = Len(versions[k])
    BY <1>0, <2>1, <2>2, VisibleVersionIs
  <2> QED BY <1>0, <1>1, <2>3 DEF Get, TypeOK, storage
<1>2. ASSUME NEW u \in Txns, NEW k \in Keys, Get(u, k), u # t PROVE observed'[t] = observed[t]
  BY <1>0, <1>2 DEF Get, TypeOK
<1>3. (\A u \in Txns : \A k \in Keys : ~Get(u, k)) => observed'[t] = observed[t]
  BY DEF Next, Step, AllOver, vars, history, BeginCall, BeginTs, DeferToSafeSnapshot,
         BeginRegister, Put, Delete, WriteRefused, CommitCall, CommitTs, ValidateOk,
         ValidateFails, Prepare, Apply, ApplyFails, Tick, ManagerCommit, ReleaseKey, ReleaseEnd,
         Abort, Abandon
<1> QED BY <1>1, <1>2, <1>3

\* A start_ts that is not below another transaction's commit timestamp was drawn
\* while that transaction was inside commit, or before it by misordered
\* timestamps, or after all its writes.
LEMMA BeganAfterStep ==
    ASSUME Inv, [Next]_vars,
           NEW R \in SUBSET (Txns \X Txns), DecisionOrder(R), BeganAfter(R),
           NEW R2, R2 = NextOrder(R),
           \A a, b \in Txns : <<a, b>> \in R /\ Writing(a) => <<a, b>> \in R2
    PROVE  BeganAfter(R2)'
<1>0. TypeOK /\ Progress
  BY DEF Inv
<1>01. \A k \in Keys : \A i \in DOMAIN versions[k] :
          Writer(k, i) \in Txns /\ i \in 1 .. Len(versions[k])
  BY <1>0, WriterType
<1> SUFFICES ASSUME NEW t \in Txns, NEW u \in Txns,
                    isolation'[t] = "Serializable", pc'[t] \notin {"new", "begin_ts"},
                    commit_ts'[u] # NoTs, commit_ts'[u] <= start_ts'[t],
                    <<t, u>> \notin beganInCommit', <<t, u>> \notin misordered'
             PROVE  \/ pc'[u] = "failed"
                    \/ /\ pc'[u] \in {"release", "committed", "cut_short"}
                       /\ <<u, t>> \in R2
                       /\ \A o \in observed'[t] : \A i \in DOMAIN versions'[o[1]] :
                             versions'[o[1]][i].writer = u => i <= o[2]
  BY DEF BeganAfter, BeganInside, Misordered, Writer
<1>02. <<t, u>> \notin beganInCommit /\ <<t, u>> \notin misordered
  BY BeganGrows
<1>1. ASSUME NEW ts \in Oracle!Answers(t), BeginTs(t, ts)
      PROVE  \/ pc'[u] = "failed"
             \/ /\ pc'[u] \in {"release", "committed", "cut_short"}
                /\ <<u, t>> \in R2
                /\ observed'[t] = {}
  <2>1. /\ UNCHANGED <<versions, commit_ts, observed>>
        /\ pc[t] = "begin_ts" /\ pc'[t] = "begin" /\ \A v \in Txns \ {t} : pc'[v] = pc[v]
    BY <1>0, <1>1 DEF TypeOK, BeginTs, Goto, storage, txnVars
  <2>2. ~InCommit(u)
    BY <1>02, <2>1 DEF Inv, BeginsApart, BeganInside
  <2>3. u # t
    BY <1>0, <2>1 DEF Progress, Decided
  <2>4. pc[u] \in {"release", "committed", "cut_short", "failed"} /\ pc'[u] = pc[u]
    BY <1>0, <2>1, <2>2, <2>3 DEF Progress, Decided, InCommit
  <2>5. ASSUME pc[u] # "failed" PROVE <<u, t>> \in R2
    <3>1. <<u, t>> \in R /\ Writing(u)
      BY <2>1, <2>4, <2>5 DEF DecisionOrder, Decided, Undecided, Writing
    <3> QED BY <3>1
  <2>6. observed'[t] = {}
    BY <1>0, <2>1 DEF Progress
  <2> QED BY <2>4, <2>5, <2>6
<1>2. CASE ~\E ts \in Oracle!Answers(t) : BeginTs(t, ts)
  <2>1. /\ isolation[t] = "Serializable" /\ start_ts'[t] = start_ts[t]
        /\ pc[t] \notin {"new", "begin_ts"}
    <3>1. ~\E level \in Levels : BeginCall(t, level)
      BY <1>0 DEF TypeOK, BeginCall, Goto
    <3> QED BY <1>0, <1>2, <3>1, BeginCases
  <2>2. ASSUME NEW ts \in Oracle!Answers(u), CommitTs(u, ts) PROVE commit_ts'[u] = commit_ts[u]
    <3>1. CASE is_read_only(isolation[u])
      BY <2>2, <3>1 DEF CommitTs
    <3>2. CASE ~is_read_only(isolation[u])
      <4>1. /\ commit_ts'[u] = ts
            /\ misordered' = misordered \cup {<<v, u>> : v \in NotBelow(u, ts)}
        BY <1>0, <2>2, <3>2 DEF TypeOK, CommitTs
      <4>2. start_ts[t] >= ts
        BY <1>0, <2>1, <4>1 DEF TypeOK
      <4>3. t \in NotBelow(u, ts)
        BY <1>02, <2>1, <4>2 DEF NotBelow
      <4> QED BY <4>1, <4>3
    <3> QED BY <3>1, <3>2
  <2>3. commit_ts'[u] = commit_ts[u]
    BY <1>0, <2>2, IndexStays
  <2>4. \/ pc[u] = "failed"
        \/ /\ pc[u] \in {"release", "committed", "cut_short"}
           /\ <<u, t>> \in R
           /\ \A o \in observed[t] : \A i \in DOMAIN versions[o[1]] :
                 Writer(o[1], i) = u => i <= o[2]
    BY <1>02, <2>1, <2>3 DEF BeganAfter, BeganInside, Misordered
  <2>5. CASE pc[u] = "failed"
    BY <1>0, <2>5, FinishedStays
  <2>6. CASE pc[u] # "failed"
    <3>1. pc'[u] \in {"release", "committed", "cut_short"}
      BY <1>0, <2>4, <2>6, FinishedStays
    <3>2. <<u, t>> \in R2
      BY <2>4, <2>6 DEF Writing
    <3>3. ASSUME NEW o \in observed'[t], NEW i \in DOMAIN versions'[o[1]],
                 versions'[o[1]][i].writer = u
          PROVE  i <= o[2]
      <4>1. CASE o \in observed[t]
        <5>1. o[1] \in Keys
          BY <1>0, <4>1 DEF TypeOK
        <5> QED BY <1>0, <2>4, <2>6, <3>3, <4>1, <5>1, VersionsGrow
      <4>2. CASE o \notin observed[t]
        <5>1. PICK k \in Keys : o = <<k, Len(versions[k])>> /\ UNCHANGED versions
          BY <2>1, <3>3, <4>2, ObservedCases
        <5> QED BY <1>01, <3>3, <5>1
      <4> QED BY <4>1, <4>2
    <3> QED BY <3>1, <3>2, <3>3
  <2> QED BY <2>5, <2>6
<1> QED BY <1>1, <1>2

\* Validation has compared each decided transaction with all that were decided
\* before it, whatever timestamps the oracle gave them.
THEOREM ValidationHolds == Spec => []SerialInv
<1>1. Init => SerialInv
  <2> SUFFICES ASSUME Init PROVE SerialInv
    OBVIOUS
  <2>1. WritesIndexed
    BY DEF Init, WritesIndexed
  <2>2. DecisionOrder({})
    BY DEF Init, DecisionOrder, Decided
  <2>3. \A t \in Txns : WriteKeys(t) = {} /\ observed[t] = {}
    BY DEF Init, WriteKeys
  <2>4. FlowInOrder({})
    BY <2>3 DEF Init, FlowInOrder
  <2>5. Validated({}) /\ BeganAfter({})
    BY DEF Init, Validated, BeganAfter
  <2> QED BY <2>1, <2>2, <2>4, <2>5 DEF SerialInv, SerialOrderExists
<1>2. Inv /\ Inv' /\ SerialInv /\ [Next]_vars => SerialInv'
  <2> SUFFICES ASSUME Inv, Inv', SerialInv, [Next]_vars PROVE SerialInv'
    OBVIOUS
  <2>1. TypeOK /\ TypeOK' /\ Progress /\ Registered
    BY DEF Inv
  <2>2. WritesIndexed
    BY DEF SerialInv
  <2>3. WritesIndexed'
    BY <2>1, <2>2, IndexedStep
  <2>4. PICK R \in SUBSET (Txns \X Txns) :
            DecisionOrder(R) /\ FlowInOrder(R) /\ Validated(R) /\ BeganAfter(R)
    BY DEF SerialInv, SerialOrderExists
  <2>5. \A Q : Q = NextOrder(R) =>
            (DecisionOrder(Q) /\ FlowInOrder(Q) /\ Validated(Q) /\ BeganAfter(Q))'
    <3> SUFFICES ASSUME NEW Q, Q = NextOrder(R)
                 PROVE  (DecisionOrder(Q) /\ FlowInOrder(Q) /\ Validated(Q) /\ BeganAfter(Q))'
      OBVIOUS
    <3>1. /\ DecisionOrder(Q)'
          /\ \A a, b \in Txns : <<a, b>> \in R /\ Writing(a) => <<a, b>> \in Q
      BY <2>1, <2>4, DecisionStep
    <3>2. FlowInOrder(Q)'
      BY <2>4, <3>1, FlowStep
    <3>3. Validated(Q)'
      BY <2>1, <2>2, <2>4, ValidatedStep
    <3>4. BeganAfter(Q)'
      BY <2>4, <3>1, BeganAfterStep
    <3> QED BY <3>1, <3>2, <3>3, <3>4
  <2>6. NextOrder(R) \in SUBSET (Txns \X Txns)
    BY DEF NextOrder
  <2>7. SerialOrderExists'
    BY <2>5, <2>6 DEF SerialOrderExists
  <2> QED BY <2>3, <2>7 DEF SerialInv
<1> QED BY <1>1, <1>2, MvccInv, PTL DEF Spec

-----------------------------------------------------------------------------
\* A successor is reached.
LEMMA ReachesEdge ==
    ASSUME NEW E, NEW a, NEW b \in E[a]
    PROVE  Reaches(E, a, b)
  BY DEF Reaches

\* So is what is reached from a successor.
LEMMA ReachesAfterEdge ==
    ASSUME NEW E, NEW a, NEW b \in E[a], NEW c, Reaches(E, b, c)
    PROVE  Reaches(E, a, c)
  BY DEF Reaches

\* And a successor of what is reached.
LEMMA ReachesBeforeEdge ==
    ASSUME NEW E, NEW a, NEW b, NEW c \in E[b], Reaches(E, a, b)
    PROVE  Reaches(E, a, c)
  BY DEF Reaches

\* A transitive, irreflexive relation that holds along the edges inside a strongly
\* connected component leaves no cycle in it.
LEMMA NoCycleInOrder ==
    ASSUME NEW E, NEW t \in DOMAIN E, \A a \in DOMAIN E : E[a] \subseteq DOMAIN E,
           NEW R,
           \A a, b, c \in DOMAIN E : <<a, b>> \in R /\ <<b, c>> \in R => <<a, c>> \in R,
           <<t, t>> \notin R,
           \A a, b \in Scc(E, t) : b \in E[a] => <<a, b>> \in R
    PROVE  ~Reaches(E, t, t)
<1> SUFFICES ASSUME Reaches(E, t, t) PROVE FALSE
  OBVIOUS
<1> DEFINE C == {x \in DOMAIN E : Reaches(E, t, x) /\ (Reaches(E, x, t) => <<t, x>> \in R)}
<1>1. ASSUME NEW x \in E[t] PROVE x \in C
  <2>1. Reaches(E, t, x) /\ x \in DOMAIN E
    BY ReachesEdge
  <2>2. ASSUME Reaches(E, x, t) PROVE <<t, x>> \in R
    BY <2>1, <2>2 DEF Scc
  <2> QED BY <2>1, <2>2
<1>2. ASSUME NEW x \in C, NEW y \in E[x] PROVE y \in C
  <2>1. Reaches(E, t, y) /\ y \in DOMAIN E
    BY ReachesBeforeEdge
  <2>2. ASSUME Reaches(E, y, t) PROVE <<t, y>> \in R
    <3>1. Reaches(E, x, t)
      BY <2>2, ReachesAfterEdge
    <3>2. x \in Scc(E, t) /\ y \in Scc(E, t)
      BY <2>1, <2>2, <3>1 DEF Scc
    <3> QED BY <2>1, <3>1, <3>2
  <2> QED BY <2>1, <2>2
<1>3. t \in C
  <2> HIDE DEF C
  <2>1. C \in SUBSET DOMAIN E
    BY DEF C
  <2> QED BY <1>1, <1>2, <2>1 DEF Reaches
<1> QED BY <1>3

\* Every cycle of dependencies between committed serializable transactions has a
\* transaction that began inside the commit of another, or whose start_ts was not
\* exceeded by a commit timestamp given after it: what validation compares leaves
\* no other way, however the oracle's calls interleave and its clock is set.
THEOREM CyclesHaveExcuses == Spec => []SerializableButForRaces
<1>1. Inv /\ SerialInv => SerializableButForRaces
  <2> SUFFICES ASSUME Inv, SerialInv, NEW t \in Txns,
                      Reaches(SerializationGraph, t, t),
                      \A u, v \in Scc(SerializationGraph, t) :
                          u # v => ~BeganInside(u, v) /\ ~Misordered(u, v)
               PROVE  FALSE
    BY DEF SerializableButForRaces, CycleWithout
  <2> DEFINE G == SerializationGraph
  <2>1. PICK R \in SUBSET (Txns \X Txns) :
            DecisionOrder(R) /\ FlowInOrder(R) /\ Validated(R) /\ BeganAfter(R)
    BY DEF SerialInv, SerialOrderExists
  <2>2. DOMAIN G = Txns /\ \A u \in Txns : G[u] \subseteq Txns
    BY DEF SerializationGraph, GraphOn, SerializableCommitted, Committed
  <2>3. \A u \in Txns : \A v \in G[u] :
            /\ u \in SerializableCommitted /\ v \in SerializableCommitted
            /\ u # v /\ Dependency(u, v)
    BY DEF SerializationGraph, GraphOn
  <2>4. ASSUME NEW u \in Scc(G, t), NEW v \in Scc(G, t), v \in G[u]
        PROVE  <<u, v>> \in R
    <3>1. u \in Txns /\ v \in Txns
      BY <2>2 DEF Scc
    <3>2. /\ pc[u] \in {"release", "committed"} /\ pc[v] \in {"release", "committed"}
          /\ isolation[u] = "Serializable" /\ isolation[v] = "Serializable"
          /\ u # v /\ Dependency(u, v)
      BY <2>3, <2>4, <3>1 DEF SerializableCommitted, Committed
    <3>3. CASE Overwrites(u, v) \/ ReadsFrom(u, v)
      BY <2>1, <3>1, <3>2, <3>3 DEF FlowInOrder, Overwrites, ReadsFrom
    <3>4. CASE AntiDepends(u, v)
      <4>1. PICK o \in observed[u] : \E j \in DOMAIN versions[o[1]] :
                                         j > o[2] /\ Writer(o[1], j) = v
        BY <3>4 DEF AntiDepends
      <4>2. PICK j \in DOMAIN versions[o[1]] : j > o[2] /\ Writer(o[1], j) = v
        BY <4>1
      <4>3. /\ o[1] \in Keys /\ o[2] \in Nat
            /\ start_ts[u] \in Nat /\ start_ts[v] \in Nat
        <5>1. observed[u] \subseteq Keys \X Nat
          BY <3>1 DEF Inv, TypeOK
        <5>2. o[1] \in Keys /\ o[2] \in Nat
          BY <5>1
        <5>3. start_ts[u] \in Nat /\ start_ts[v] \in Nat
          BY <3>1 DEF Inv, TypeOK
        <5> QED BY <5>2, <5>3
      <4>4. commit_ts[u] \in Nat /\ commit_ts[v] \in Nat
            /\ commit_ts[u] # NoTs /\ commit_ts[v] # NoTs
        BY <3>1, <3>2 DEF Inv, TypeOK, Progress, Decided
      <4>5. j \in Nat
        BY <4>2, <4>3, WriterType DEF Inv
      <4>6. o[1] \in read_set[u] \cap WriteKeys(v)
        BY <3>1, <3>2, <4>2, <4>3 DEF Inv, ReadsRecorded, VersionsOwned
      <4> SUFFICES ASSUME <<u, v>> \notin R PROVE FALSE
        OBVIOUS
      <4>8. <<v, u>> \in R
        BY <2>1, <3>1, <3>2 DEF DecisionOrder, Decided
      <4>9. commit_ts[v] <= start_ts[u] \/ start_ts[v] >= commit_ts[u]
        BY <2>1, <3>1, <3>2, <4>6, <4>8 DEF Validated, Decided
      <4>10. /\ ~BeganInside(u, v) /\ ~Misordered(u, v)
             /\ ~BeganInside(v, u) /\ ~Misordered(v, u)
        BY <3>2
      <4>11. CASE commit_ts[v] <= start_ts[u]
        <5>1. j <= o[2]
          BY <2>1, <3>1, <3>2, <4>2, <4>3, <4>4, <4>10, <4>11 DEF BeganAfter
        <5> QED BY <4>2, <4>3, <4>5, <5>1
      <4>12. CASE start_ts[v] >= commit_ts[u]
        <5>1. commit_ts[u] <= start_ts[v]
          BY <4>3, <4>4, <4>12
        <5> QED BY <2>1, <3>1, <3>2, <4>4, <4>10, <5>1 DEF BeganAfter
      <4> QED BY <4>9, <4>11, <4>12
    <3> QED BY <3>2, <3>3, <3>4 DEF Dependency
  <2>5. <<t, t>> \notin R /\ \A a, b, c \in Txns :
            <<a, b>> \in R /\ <<b, c>> \in R => <<a, c>> \in R
    BY <2>1 DEF DecisionOrder
  <2> HIDE DEF G
  <2>6. ~Reaches(G, t, t)
    BY <2>2, <2>4, <2>5, NoCycleInOrder
  <2> QED BY <2>6 DEF G
<1> QED BY <1>1, MvccInv, ValidationHolds, PTL
=============================================================================
