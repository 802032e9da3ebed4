-------------------------------- MODULE Mvcc --------------------------------
(***************************************************************************)
(* The transaction engine of crates/crabstash-txn (MvccEngine with its     *)
(* TransactionManager and TimestampOracle) and the SSIManager of           *)
(* crates/crabstash-lock it validates with.                                *)
(*                                                                         *)
(* Key locks are the ones KeyLocks specifies and LockTable implements; the *)
(* engine asks for mode X only and keeps a lock until the transaction      *)
(* ends.  Timestamps are the ones Timestamps specifies and TimestampOracle *)
(* implements.  Storage is a memtable: it keeps every version of a key,    *)
(* with the timestamp storage gave it.  A transaction is driven by one     *)
(* thread, whose steps are the calls of the engine's API; commit is split  *)
(* at every point where another thread can see the difference.             *)
(***************************************************************************)
EXTENDS Integers, Sequences, FiniteSets, WaitForGraph

CONSTANTS
    Txns,           \* transaction ids
    Keys,
    Levels,         \* the isolation levels callers ask for
    hash_key,       \* the hash SSI stores instead of a key; it may collide
    Clock,          \* the milliseconds the clock may show
    FirstMs,        \* a millisecond none of them is before
    LogicalSpan,    \* 2^18 in the code: logical ticks in a millisecond
    Logicals,       \* the logical parts a timestamp may have
    MaxOps          \* bound: gets, puts and deletes of a transaction

IsolationLevels ==
    {"Snapshot", "Serializable", "SerializableReadOnly", "SerializableDeferrable"}

ASSUME MvccAssumption ==
    /\ Levels \subseteq IsolationLevels
    /\ DOMAIN hash_key = Keys
    /\ FirstMs \in Nat \ {0}
    /\ Clock \subseteq Nat /\ \A ms \in Clock : FirstMs <= ms
    /\ LogicalSpan \in Nat \ {0}
    /\ Logicals \subseteq 0 .. LogicalSpan - 1
    /\ MaxOps \in Nat

is_read_only(level) == level \in {"SerializableReadOnly", "SerializableDeferrable"}

VARIABLES
    \* The timestamp oracle and the clock it reads, as Timestamps has them.
    now, highest, began, answer,
    \* LockManager, as KeyLocks has it.
    held,
    \* Storage: the versions of each key, oldest first, and Lsm::next_ts.
    versions, next_ts,
    \* TransactionManager::committed_txns.
    committed_txns,
    \* SSIManager.  A transaction's ReadWriteSet is read off its own sets.
    active_txns, active_start_ts, active_writers, write_index, ssi_committed, safe_snapshot,
    \* Transaction, and the step its thread is at.
    pc, isolation, start_ts, commit_ts, read_set, puts, deletes, ops,
    \* History.
    observed,       \* <<k, i>>: the transaction read the i-th version of k, or none (0)
    beganInCommit,  \* <<t, u>>: t called for its start_ts while u was inside commit
    misordered      \* <<t, u>>: u's commit_ts is not above t's start_ts, given earlier

oracle  == <<now, highest, began, answer>>
storage == <<versions, next_ts>>
ssi     == <<active_txns, active_start_ts, active_writers, write_index, ssi_committed, safe_snapshot>>
writes  == <<puts, deletes>>
txnVars == <<isolation, start_ts, commit_ts, read_set, writes, ops>>
history == <<observed, beganInCommit, misordered>>
vars    == <<oracle, held, storage, committed_txns, ssi, pc, txnVars, history>>

Locks  == INSTANCE KeyLocks
Oracle == INSTANCE Timestamps WITH Callers <- Txns

NoTs  == -1             \* Option::None, and no entry in active_start_ts
MaxTs == 1000000        \* u64::MAX

\* No oracle timestamp is below this one.
LeastTs == FirstMs * LogicalSpan

Pcs == { "new", "begin_ts", "begin", "active", "commit_ts", "validate", "prepare", "apply",
         "release", "committed", "aborting", "aborted", "failed", "cut_short" }

WriteKeys(t) == puts[t] \cup deletes[t]

TypeOK ==
    /\ now \in Nat /\ highest \in Nat
    /\ began \in [Txns -> Nat \cup {NoTs}] /\ answer \in [Txns -> Nat]
    /\ held \in [Keys -> [Txns -> {"none", "X"}]]
    /\ versions \in [Keys -> Seq([writer : Txns, live : BOOLEAN, ts : Nat])]
    /\ next_ts \in Nat
    /\ committed_txns \subseteq [commit_ts : Nat, start_ts : Nat, writes : SUBSET Keys]
    /\ active_txns \subseteq Txns
    /\ active_start_ts \in [Txns -> Nat \cup {NoTs}]
    /\ active_writers \in Nat
    /\ \A e \in write_index : e.commit_ts \in Nat /\ e.start_ts \in Nat
    /\ safe_snapshot \in Nat
    /\ pc \in [Txns -> Pcs]
    /\ isolation \in [Txns -> IsolationLevels]
    /\ start_ts \in [Txns -> Nat] /\ commit_ts \in [Txns -> Nat \cup {NoTs}]
    /\ read_set \in [Txns -> SUBSET Keys]
    /\ puts \in [Txns -> SUBSET Keys] /\ deletes \in [Txns -> SUBSET Keys]
    /\ \A t \in Txns : puts[t] \cap deletes[t] = {}
    /\ ops \in [Txns -> Nat]
    /\ observed \in [Txns -> SUBSET (Keys \X Nat)]
    /\ beganInCommit \subseteq Txns \X Txns /\ misordered \subseteq Txns \X Txns

Init ==
    /\ Oracle!Init
    /\ Locks!Init
    /\ versions = [k \in Keys |-> <<>>] /\ next_ts = 1
    /\ committed_txns = {}
    /\ active_txns = {}
    /\ active_start_ts = [t \in Txns |-> NoTs]
    /\ active_writers = 0
    /\ write_index = {}
    /\ ssi_committed = {}
    /\ safe_snapshot = 0
    /\ pc = [t \in Txns |-> "new"]
    /\ isolation = [t \in Txns |-> "Snapshot"]
    /\ start_ts = [t \in Txns |-> 0]
    /\ commit_ts = [t \in Txns |-> NoTs]
    /\ read_set = [t \in Txns |-> {}]
    /\ puts = [t \in Txns |-> {}]
    /\ deletes = [t \in Txns |-> {}]
    /\ ops = [t \in Txns |-> 0]
    /\ observed = [t \in Txns |-> {}]
    /\ beganInCommit = {} /\ misordered = {}

Goto(t, from, to) == pc[t] = from /\ pc' = [pc EXCEPT ![t] = to]

-----------------------------------------------------------------------------
\* The wall clock.  Bound: it stands still once nobody will read it again.
Tick ==
    /\ \E t \in Txns : pc[t] \in {"new", "begin_ts", "begin", "active", "commit_ts"}
    /\ Oracle!Tick
    /\ UNCHANGED <<held, storage, committed_txns, ssi, pc, txnVars, history>>

\* SSIManager::update_safe_snapshot, over the active_start_ts of the next state.
UpdateSafeSnapshot ==
    LET starts == {active_start_ts'[t] : t \in Txns} \ {NoTs}
    IN  safe_snapshot' = IF starts = {} THEN MaxTs
                         ELSE CHOOSE s \in starts : \A r \in starts : s <= r

-----------------------------------------------------------------------------
(***************************************************************************)
(* MvccEngine::begin_with_isolation: the call of get_timestamp and its     *)
(* return, then the registrations with the lock table (no visible effect   *)
(* here), SSI and the manager.                                             *)
(***************************************************************************)
InCommit(t) == pc[t] \in {"commit_ts", "validate", "prepare", "apply"}

BeginCall(t, level) ==
    /\ Goto(t, "new", "begin_ts")
    /\ Oracle!Call(t)
    /\ isolation' = [isolation EXCEPT ![t] = level]
    /\ beganInCommit' = beganInCommit \cup {<<t, u>> : u \in {u \in Txns : InCommit(u)}}
    /\ UNCHANGED <<held, storage, committed_txns, ssi, start_ts, commit_ts, read_set, writes,
                   ops, observed, misordered>>

BeginTs(t, ts) ==
    /\ Goto(t, "begin_ts", "begin")
    /\ Oracle!Return(t, ts)
    /\ start_ts' = [start_ts EXCEPT ![t] = ts]
    /\ UNCHANGED <<held, storage, committed_txns, ssi, isolation, commit_ts, read_set, writes,
                   ops, observed, beganInCommit, misordered>>

\* wait_for_safe_snapshot finds no active writer; its timeout, which keeps the
\* oracle's start_ts, is BeginRegister without this step.
DeferToSafeSnapshot(t) ==
    /\ pc[t] = "begin"
    /\ isolation[t] = "SerializableDeferrable"
    /\ active_writers = 0
    /\ start_ts' = [start_ts EXCEPT ![t] = safe_snapshot]
    /\ UNCHANGED <<oracle, held, storage, committed_txns, ssi, pc, isolation, commit_ts,
                   read_set, writes, ops, history>>

\* SSIManager::begin_txn_with_ts and begin_read_only_txn.
SsiBegin(t) ==
    /\ active_start_ts' = [active_start_ts EXCEPT ![t] = start_ts[t]]
    /\ active_txns' = IF is_read_only(isolation[t]) THEN active_txns ELSE active_txns \cup {t}
    /\ UpdateSafeSnapshot
    /\ UNCHANGED <<active_writers, write_index, ssi_committed>>

BeginRegister(t) ==
    /\ Goto(t, "begin", "active")
    /\ IF isolation[t] = "Snapshot" THEN UNCHANGED ssi ELSE SsiBegin(t)
    /\ UNCHANGED <<oracle, held, storage, committed_txns, txnVars, history>>

-----------------------------------------------------------------------------
CountOp(t) ==
    /\ pc[t] = "active"
    /\ ops[t] < MaxOps
    /\ ops' = [ops EXCEPT ![t] = @ + 1]

\* Lsm::get_at_ts: the newest version whose timestamp, which storage gave it, is
\* not above the reader's, which the oracle gave it; 0 if there is none.
VisibleVersion(k, ts) ==
    LET seen == {i \in DOMAIN versions[k] : versions[k][i].ts <= ts}
    IN  IF seen = {} THEN 0 ELSE CHOOSE i \in seen : \A j \in seen : j <= i

\* MvccEngine::get of a key the transaction did not write: both read sets,
\* then storage.  A key of its own write set is answered from there.
Get(t, k) ==
    /\ CountOp(t)
    /\ k \notin WriteKeys(t)
    /\ read_set' = [read_set EXCEPT ![t] = IF isolation[t] = "Serializable" THEN @ \cup {k} ELSE @]
    /\ observed' = [observed EXCEPT ![t] = @ \cup {<<k, VisibleVersion(k, start_ts[t])>>}]
    /\ UNCHANGED <<oracle, held, storage, committed_txns, ssi, pc, isolation, start_ts,
                   commit_ts, writes, beganInCommit, misordered>>

\* Faulty variant of LockX below: the write is not locked.
NoLock(t, k) == t \in Txns /\ k \in Keys /\ UNCHANGED held

\* lock_key(X) succeeds: the key is free, or the transaction has it already.
LockX(t, k) == Locks!Grant(t, k, "X") \/ (held[k][t] = "X" /\ UNCHANGED held)

\* SSIManager::record_write: the first write makes the transaction a writer.
RecordWrite(t) ==
    /\ active_writers' = IF t \in active_txns /\ WriteKeys(t) = {}
                         THEN active_writers + 1 ELSE active_writers
    /\ UNCHANGED <<active_txns, active_start_ts, write_index, ssi_committed, safe_snapshot>>

\* Faulty variant of Put below: a put after a delete keeps both.
PutKeepingDelete(t, k) ==
    /\ CountOp(t)
    /\ ~is_read_only(isolation[t])
    /\ LockX(t, k)
    /\ RecordWrite(t)
    /\ puts' = [puts EXCEPT ![t] = @ \cup {k}]
    /\ UNCHANGED <<oracle, storage, committed_txns, pc, isolation, start_ts, commit_ts,
                   read_set, deletes, history>>

\* MvccEngine::put and delete, after the lock was granted.
Put(t, k) ==
    /\ CountOp(t)
    /\ ~is_read_only(isolation[t])
    /\ LockX(t, k)
    /\ RecordWrite(t)
    /\ puts' = [puts EXCEPT ![t] = @ \cup {k}]
    /\ deletes' = [deletes EXCEPT ![t] = @ \ {k}]
    /\ UNCHANGED <<oracle, storage, committed_txns, pc, isolation, start_ts, commit_ts,
                   read_set, history>>

Delete(t, k) ==
    /\ CountOp(t)
    /\ ~is_read_only(isolation[t])
    /\ LockX(t, k)
    /\ RecordWrite(t)
    /\ puts' = [puts EXCEPT ![t] = @ \ {k}]
    /\ deletes' = [deletes EXCEPT ![t] = @ \cup {k}]
    /\ UNCHANGED <<oracle, storage, committed_txns, pc, isolation, start_ts, commit_ts,
                   read_set, history>>

\* Either call refused: a read-only transaction, or a lock wait that timed out.
WriteRefused(t, k) ==
    /\ CountOp(t)
    /\ is_read_only(isolation[t]) \/ \E u \in Txns \ {t} : held[k][u] = "X"
    /\ UNCHANGED <<oracle, held, storage, committed_txns, ssi, pc, isolation, start_ts,
                   commit_ts, read_set, writes, history>>

-----------------------------------------------------------------------------
(***************************************************************************)
(* MvccEngine::commit.  On an error it returns without releasing anything; *)
(* Txn::commit has consumed the transaction, so nobody can abort it.       *)
(***************************************************************************)

\* commit calls get_timestamp first.
CommitCall(t) ==
    /\ Goto(t, "active", "commit_ts")
    /\ Oracle!Call(t)
    /\ beganInCommit' = beganInCommit \cup {<<u, t>> : u \in {u \in Txns : pc[u] = "begin_ts"}}
    /\ UNCHANGED <<held, storage, committed_txns, ssi, txnVars, observed, misordered>>

\* Those that have a start_ts which ts, given to t after it, does not exceed.
NotBelow(t, ts) ==
    {u \in Txns : /\ pc[u] \notin {"new", "begin_ts"} /\ <<u, t>> \notin beganInCommit
                 /\ start_ts[u] >= ts}

\* The commit timestamp.  For a read-only transaction TransactionManager's
\* commit then finds no commit_ts and returns Err(TransactionAborted).
CommitTs(t, ts) ==
    /\ pc[t] = "commit_ts"
    /\ Oracle!Return(t, ts)
    /\ \/ /\ is_read_only(isolation[t])
          /\ pc' = [pc EXCEPT ![t] = "failed"]
          /\ UNCHANGED <<commit_ts, misordered>>
       \/ /\ ~is_read_only(isolation[t])
          /\ pc' = [pc EXCEPT ![t] = IF isolation[t] = "Serializable" THEN "validate" ELSE "prepare"]
          /\ commit_ts' = [commit_ts EXCEPT ![t] = ts]
          /\ misordered' = misordered \cup {<<u, t>> : u \in NotBelow(t, ts)}
    /\ UNCHANGED <<held, storage, committed_txns, ssi, isolation, start_ts, read_set, writes,
                   ops, observed, beganInCommit>>

Hashes(ks) == {hash_key[k] : k \in ks}

\* Faulty variant of InboundConflicts below: only commits after t's own count.
LateConflicts(t) ==
    {e \in write_index : /\ e.hash \in Hashes(read_set[t])
                         /\ e.commit_ts > commit_ts[t] /\ e.start_ts < commit_ts[t]}

\* The read-write conflicts validation finds: indexed writes of hashed read
\* keys, by transactions that committed after t began.
InboundConflicts(t) ==
    {e \in write_index : /\ e.hash \in Hashes(read_set[t])
                         /\ e.commit_ts > start_ts[t] /\ e.start_ts < commit_ts[t]}

\* SSIManager::validate_and_commit, one critical section of commit_lock.  A
\* dangerous structure needs an inbound conflict, which is an error by itself;
\* no range is ever recorded as read, so no phantom is found.
ValidateOk(t) ==
    /\ Goto(t, "validate", "prepare")
    /\ t \in active_txns
    /\ InboundConflicts(t) = {}
    /\ write_index' = write_index \cup
           {[hash |-> h, commit_ts |-> commit_ts[t], start_ts |-> active_start_ts[t]]
                : h \in Hashes(WriteKeys(t))}
    /\ ssi_committed' = {c \in ssi_committed : c.commit_ts # commit_ts[t]} \cup
           {[commit_ts |-> commit_ts[t], reads |-> Hashes(read_set[t])]}
    /\ active_txns' = active_txns \ {t}
    /\ active_start_ts' = [active_start_ts EXCEPT ![t] = NoTs]
    /\ active_writers' = IF WriteKeys(t) # {} THEN active_writers - 1 ELSE active_writers
    /\ UpdateSafeSnapshot
    /\ UNCHANGED <<oracle, held, storage, committed_txns, txnVars, history>>

ValidateFails(t) ==
    /\ Goto(t, "validate", "failed")
    /\ t \notin active_txns \/ InboundConflicts(t) # {}
    /\ UNCHANGED <<oracle, held, storage, committed_txns, ssi, txnVars, history>>

\* TransactionManager::validate_serializable: a key t read was written by a
\* transaction, of any isolation level, that committed after t began.
ManagerConflict(t) ==
    \E c \in committed_txns :
        /\ c.commit_ts > start_ts[t] /\ c.start_ts < commit_ts[t]
        /\ c.writes \cap read_set[t] # {}

\* TransactionManager::prepare_commit.  Only now is the Transaction's
\* commit_ts set; SSI has t down as committed already.
Prepare(t) ==
    /\ \/ /\ isolation[t] = "Serializable" => ~ManagerConflict(t)
          /\ Goto(t, "prepare", "apply")
       \/ /\ isolation[t] = "Serializable" /\ ManagerConflict(t)
          /\ Goto(t, "prepare", "failed")
    /\ UNCHANGED <<oracle, held, storage, committed_txns, ssi, txnVars, history>>

Applied(t) == {k \in Keys : \E i \in DOMAIN versions[k] : versions[k][i].writer = t}

\* Lsm::put and delete.  Bound: storage has given out fewer timestamps than the
\* oracle's least, 2^18 times the milliseconds since 1970.
Store(t, k) ==
    /\ next_ts <= LeastTs
    /\ next_ts' = next_ts + 1
    /\ versions' = [versions EXCEPT ![k] =
                       Append(@, [writer |-> t, live |-> k \in puts[t], ts |-> next_ts])]

\* Faulty variant of Apply below: it does not wait for prepare_commit.
ApplyEarly(t, k) ==
    /\ pc[t] \in {"prepare", "apply"}
    /\ k \in WriteKeys(t) \ Applied(t)
    /\ Store(t, k)
    /\ UNCHANGED <<oracle, held, committed_txns, ssi, pc, txnVars, history>>

\* storage.put for every put, then storage.delete for every delete.
Apply(t, k) ==
    /\ pc[t] = "apply"
    /\ k \in WriteKeys(t) \ Applied(t)
    /\ k \in deletes[t] => puts[t] \subseteq Applied(t)
    /\ Store(t, k)
    /\ UNCHANGED <<oracle, held, committed_txns, ssi, pc, txnVars, history>>

\* Faulty variant of ApplyFails below: the locks are given back.
ApplyFailsUnlocking(t) ==
    /\ Goto(t, "apply", "cut_short")
    /\ WriteKeys(t) \ Applied(t) # {}
    /\ held' = [k \in Keys |-> [held[k] EXCEPT ![t] = "none"]]
    /\ UNCHANGED <<oracle, storage, committed_txns, ssi, txnVars, history>>

\* storage.put or delete returns an error and so does commit: what was written
\* stays, SSI has t down as committed, its locks are kept.
ApplyFails(t) ==
    /\ Goto(t, "apply", "cut_short")
    /\ WriteKeys(t) \ Applied(t) # {}
    /\ UNCHANGED <<oracle, held, storage, committed_txns, ssi, txnVars, history>>

\* TransactionManager::commit.
ManagerCommit(t) ==
    /\ Goto(t, "apply", "release")
    /\ WriteKeys(t) \subseteq Applied(t)
    /\ committed_txns' = committed_txns \cup
           {[commit_ts |-> commit_ts[t], start_ts |-> start_ts[t], writes |-> WriteKeys(t)]}
    /\ UNCHANGED <<oracle, held, storage, ssi, txnVars, history>>

\* LockManager::release_all, a key at a time, and the return of the call.
ReleaseKey(t, k) ==
    /\ pc[t] \in {"release", "aborting"}
    /\ Locks!Drop(t, k)
    /\ UNCHANGED <<oracle, storage, committed_txns, ssi, pc, txnVars, history>>

ReleaseEnd(t) ==
    /\ \A k \in Keys : held[k][t] = "none"
    /\ Goto(t, "release", "committed") \/ Goto(t, "aborting", "aborted")
    /\ UNCHANGED <<oracle, held, storage, committed_txns, ssi, txnVars, history>>

\* Faulty variant of Abort below: the writer is still counted.
AbortStillCounted(t) ==
    /\ Goto(t, "active", "aborting")
    /\ active_txns' = active_txns \ {t}
    /\ active_start_ts' = [active_start_ts EXCEPT ![t] = NoTs]
    /\ UpdateSafeSnapshot
    /\ UNCHANGED <<active_writers, write_index, ssi_committed>>
    /\ UNCHANGED <<oracle, held, storage, committed_txns, txnVars, history>>

\* SSIManager::abort_txn.
SsiAbort(t) ==
    /\ active_txns' = active_txns \ {t}
    /\ active_start_ts' = [active_start_ts EXCEPT ![t] = NoTs]
    /\ active_writers' = IF t \in active_txns /\ WriteKeys(t) # {}
                         THEN active_writers - 1 ELSE active_writers
    /\ UpdateSafeSnapshot
    /\ UNCHANGED <<write_index, ssi_committed>>

\* MvccEngine::abort; the locks go next.
Abort(t) ==
    /\ Goto(t, "active", "aborting")
    /\ IF isolation[t] = "Snapshot" THEN UNCHANGED ssi ELSE SsiAbort(t)
    /\ UNCHANGED <<oracle, held, storage, committed_txns, txnVars, history>>

\* A Txn goes out of scope, or Db::put returns the error of its lock: neither
\* aborts, so the transaction stays registered and keeps its locks.
Abandon(t) ==
    /\ Goto(t, "active", "failed")
    /\ UNCHANGED <<oracle, held, storage, committed_txns, ssi, txnVars, history>>

-----------------------------------------------------------------------------
Step(t) ==
    \/ (\E level \in Levels : BeginCall(t, level))
    \/ (\E ts \in Oracle!Answers(t) : BeginTs(t, ts) \/ CommitTs(t, ts))
    \/ DeferToSafeSnapshot(t) \/ BeginRegister(t)
    \/ (\E k \in Keys : Get(t, k) \/ Put(t, k) \/ Delete(t, k) \/ WriteRefused(t, k))
    \/ CommitCall(t) \/ ValidateOk(t) \/ ValidateFails(t) \/ Prepare(t)
    \/ (\E k \in Keys : Apply(t, k)) \/ ApplyFails(t) \/ ManagerCommit(t)
    \/ (\E k \in Keys : ReleaseKey(t, k)) \/ ReleaseEnd(t)
    \/ Abort(t) \/ Abandon(t)

Over(t) == pc[t] \in {"committed", "aborted", "failed", "cut_short"}

AllOver == (\A t \in Txns : Over(t)) /\ UNCHANGED vars

Next == (\E t \in Txns : Step(t)) \/ Tick \/ AllOver

Spec == Init /\ [][Next]_vars

-----------------------------------------------------------------------------
(***************************************************************************)
(* The dependencies of a history: u overwrites t, u reads t, t read what u *)
(* overwrote.                                                              *)
(***************************************************************************)
Writer(k, i) == versions[k][i].writer

Overwrites(t, u) ==
    \E k \in Keys : \E i, j \in DOMAIN versions[k] : i < j /\ Writer(k, i) = t /\ Writer(k, j) = u

ReadsFrom(t, u) == \E o \in observed[u] : o[2] # 0 /\ Writer(o[1], o[2]) = t

AntiDepends(t, u) ==
    \E o \in observed[t] : \E j \in DOMAIN versions[o[1]] : j > o[2] /\ Writer(o[1], j) = u

\* The graph of a relation between the transactions of S.
GraphOn(S, R(_, _)) == [t \in Txns |-> {u \in S : t \in S /\ t # u /\ R(t, u)}]

Acyclic(E) == \A t \in DOMAIN E : ~Reaches(E, t, t)

Committed == {t \in Txns : pc[t] \in {"release", "committed"}}

SerializableCommitted == {t \in Committed : isolation[t] = "Serializable"}

Dependency(t, u) == Overwrites(t, u) \/ ReadsFrom(t, u) \/ AntiDepends(t, u)

SerializationGraph == GraphOn(SerializableCommitted, Dependency)

\* The committed serializable transactions are equivalent to some serial order
\* of them.
Serializable == Acyclic(SerializationGraph)

\* A cycle of committed serializable transactions through t, none of which ...
CycleWithout(t, Excuse(_, _)) ==
    /\ Reaches(SerializationGraph, t, t)
    /\ \A u, v \in Scc(SerializationGraph, t) : u # v => ~Excuse(u, v)

\* ... called for its start_ts while another was between the call for its
\* commit_ts and its last write to storage,
BeganInside(u, v) == <<u, v>> \in beganInCommit

\* ... or had been given its start_ts when another called for a commit_ts and got
\* one that is not greater.
Misordered(u, v) == <<u, v>> \in misordered

\* What validation does achieve: every cycle has one of the two excuses.
SerializableButForRaces ==
    \A t \in Txns : ~CycleWithout(t, LAMBDA u, v : BeganInside(u, v) \/ Misordered(u, v))

\* The same claim without the first excuse, when the oracle never misorders.
SerializableIfOrdered == misordered = {} => Serializable

\* Writes are buffered until commit and locks kept until all are applied, so
\* at every isolation level information flows one way: no cycle of overwrites
\* and reads, whether its members have committed or not.
NoCircularInformationFlow ==
    Acyclic(GraphOn(Txns, LAMBDA t, u : Overwrites(t, u) \/ ReadsFrom(t, u)))

\* Nothing a transaction wrote is visible unless it can no longer fail: no
\* transaction reads from one that aborts or whose commit returns an error,
\* unless the error is one of storage in the middle of the writes.
NoAbortedReads ==
    \A k \in Keys : \A i \in DOMAIN versions[k] :
        pc[Writer(k, i)] \notin {"aborting", "aborted", "failed"}

\* What a commit that storage cut short has written stays the newest version of
\* its keys: the transaction keeps its locks, so nobody overwrites one half of it
\* while the other half is missing.
CutShortStaysOnTop ==
    \A t \in Txns : pc[t] = "cut_short" =>
        \A k \in Applied(t) : Writer(k, Len(versions[k])) = t

\* The counter deferrable transactions wait on is the number of transactions
\* SSI knows that have written: no path of commit or abort forgets it, and it
\* never goes below zero.
ActiveWritersExact ==
    active_writers = Cardinality({t \in active_txns : WriteKeys(t) # {}})
=============================================================================
