----------------------------- MODULE LockTable ------------------------------
(***************************************************************************)
(* The lock table of crates/crabstash-lock: per-key lock entries with a    *)
(* condition variable each, range locks, the wait-for graph with its       *)
(* detector thread, and lock escalation.                                   *)
(*                                                                         *)
(* A transaction issues its calls one at a time, so it is one thread.      *)
(* Every mutex of the code (an entry's holders, the range-lock tree, the   *)
(* wait-for graph) is held only inside one step of pc; whatever the code   *)
(* does between two critical sections can be interleaved with every other  *)
(* thread here.                                                            *)
(***************************************************************************)
EXTENDS Integers, FiniteSets, LockMode, KeyBounds, WaitForGraph

CONSTANTS
    Txns,                   \* transaction ids
    Keys,                   \* keys, numbers in the order of the byte strings
    Modes,                  \* the modes callers ask for
    Ranges,                 \* the ranges callers ask for
    enable_range_locks,     \* LockConfig::enable_range_locks
    StartTs, Priority,      \* what each transaction registers with
    warning_threshold, auto_escalate_threshold, emergency_threshold,
    MaxCalls                \* bound: calls a transaction makes before release_all

ASSUME ConstantsAssumption ==
    /\ Keys \subseteq Nat
    /\ Modes \subseteq LockModes
    /\ Ranges \subseteq KeyRanges(Keys)
    /\ enable_range_locks \in BOOLEAN
    /\ StartTs \in [Txns -> Nat]
    /\ Priority \in [Txns -> Nat]
    /\ {warning_threshold, auto_escalate_threshold, emergency_threshold} \subseteq Nat
    /\ MaxCalls \in Nat

VARIABLES
    \* Shared state.
    holders,        \* key_locks[k].holders; None: no entry for the transaction
    wait_queue,     \* key_locks[k].wait_queue; its order is never consulted
    range_locks,    \* the entries of the interval tree
    edges,          \* waiter_graph.edges
    txn_info,       \* the transactions with a TxnInfo (and an EscalationState)
    lock_count,     \* TxnInfo::lock_count
    aborts,         \* the victims sent to the abort channel
    \* EscalationState, which only its own transaction touches.
    key_lock_count, locked_keys, escalated,
    \* The thread of each transaction.
    pc, call, scan, seen, todo,
    calls,          \* calls made, for the bound MaxCalls
    guards          \* history: the key locks the caller was told it holds

shared   == <<holders, wait_queue, range_locks, edges, txn_info, lock_count, aborts>>
escState == <<key_lock_count, locked_keys, escalated>>
locals   == <<call, scan, seen, todo>>
history  == <<calls, guards>>
vars     == <<shared, escState, pc, locals, history>>

-----------------------------------------------------------------------------
(***************************************************************************)
(* Types.  call is the key, the mode and the operation of a lock_key, an   *)
(* upgrade_lock or (while it wakes the waiters of a key) a release_all;    *)
(* scan is the request of a lock_range.  Both are set at once when         *)
(* lock_key escalates and calls lock_range.                                *)
(***************************************************************************)
NoCall == [op |-> "none"]
NoScan == [mode |-> None]

Calls      == [op : {"lock", "upgrade", "release"}, key : Keys, mode : LockModes]
Scans      == [range : KeyRanges(Keys), mode : LockModes]
RangeLocks == [txn : Txns, range : KeyRanges(Keys), mode : LockModes]
Guards     == [key : Keys, mode : LockModes]

Pcs == { "new", "idle", "try", "snapshot", "edges", "acquire", "enqueue",
         "loop", "wait", "granted", "timedout", "record", "count",
         "range_check", "range_keys", "release", "notify", "unregister", "done" }

TypeOK ==
    /\ holders \in [Keys -> [Txns -> LockModes \cup {None}]]
    /\ wait_queue \in [Keys -> SUBSET Txns]
    /\ range_locks \in SUBSET RangeLocks
    /\ edges \in [Txns -> SUBSET Txns]
    /\ txn_info \in SUBSET Txns
    /\ lock_count \in [Txns -> Nat]
    /\ aborts \in SUBSET Txns
    /\ key_lock_count \in [Txns -> Nat]
    /\ locked_keys \in [Txns -> SUBSET Keys]
    /\ escalated \in [Txns -> BOOLEAN]
    /\ pc \in [Txns -> Pcs]
    /\ call \in [Txns -> Calls \cup {NoCall}]
    /\ scan \in [Txns -> Scans \cup {NoScan}]
    /\ seen \in [Txns -> SUBSET Txns]
    /\ todo \in [Txns -> SUBSET Keys]
    /\ calls \in [Txns -> Nat]
    /\ guards \in [Txns -> SUBSET Guards]

Init ==
    /\ holders = [k \in Keys |-> [t \in Txns |-> None]]
    /\ wait_queue = [k \in Keys |-> {}]
    /\ range_locks = {}
    /\ edges = [t \in Txns |-> {}]
    /\ txn_info = {}
    /\ lock_count = [t \in Txns |-> 0]
    /\ aborts = {}
    /\ key_lock_count = [t \in Txns |-> 0]
    /\ locked_keys = [t \in Txns |-> {}]
    /\ escalated = [t \in Txns |-> FALSE]
    /\ pc = [t \in Txns |-> "new"]
    /\ call = [t \in Txns |-> NoCall]
    /\ scan = [t \in Txns |-> NoScan]
    /\ seen = [t \in Txns |-> {}]
    /\ todo = [t \in Txns |-> {}]
    /\ calls = [t \in Txns |-> 0]
    /\ guards = [t \in Txns |-> {}]

-----------------------------------------------------------------------------
\* Thread t moves from one step to another.
Goto(t, from, to) == pc[t] = from /\ pc' = [pc EXCEPT ![t] = to]

\* A call returns to the caller and its locals go out of scope.
Return(t) ==
    /\ pc' = [pc EXCEPT ![t] = "idle"]
    /\ call' = [call EXCEPT ![t] = NoCall]
    /\ seen' = [seen EXCEPT ![t] = {}]

\* The caller makes one more call.
CountCall(t) ==
    /\ pc[t] = "idle"
    /\ calls[t] < MaxCalls
    /\ calls' = [calls EXCEPT ![t] = @ + 1]

HeldKeys(t) == {k \in Keys : holders[k][t] # None}

HoldersOf(k) == {u \in Txns : holders[k][u] # None}

\* LockEntry::is_compatible_with_holders.
is_compatible_with_holders(k, t, m) ==
    \A u \in HoldersOf(k) : u = t \/ is_compatible(m, holders[k][u])

\* A range lock of another transaction, over k, that shuts mode m out.
RangeBlocksKey(t, k, m) ==
    \E e \in range_locks :
        e.txn # t /\ OverlapsKey(e.range, k) /\ ~is_compatible(m, e.mode)

\* A range lock of another transaction, over part of r, that shuts mode m out.
RangeBlocksRange(t, r, m) ==
    \E e \in range_locks :
        e.txn # t /\ overlaps(e.range, r.start, r.end) /\ ~is_compatible(m, e.mode)

\* LockTable::register_txn: a fresh TxnInfo and a fresh EscalationState.
Register(t) ==
    /\ Goto(t, "new", "idle")
    /\ txn_info' = txn_info \cup {t}
    /\ lock_count' = [lock_count EXCEPT ![t] = 0]
    /\ key_lock_count' = [key_lock_count EXCEPT ![t] = 0]
    /\ locked_keys' = [locked_keys EXCEPT ![t] = {}]
    /\ escalated' = [escalated EXCEPT ![t] = FALSE]
    /\ UNCHANGED <<holders, wait_queue, range_locks, edges, aborts, locals, history>>

-----------------------------------------------------------------------------
(***************************************************************************)
(* LockTable::lock_key.                                                    *)
(***************************************************************************)

\* The range check refuses the request: Err(RangeConflict).
LockKeyRefused(t, k, m) ==
    /\ CountCall(t)
    /\ enable_range_locks
    /\ RangeBlocksKey(t, k, m)
    /\ UNCHANGED <<shared, escState, pc, locals, guards>>

\* The range check, under the read lock of the tree, finds nothing.
LockKey(t, k, m) ==
    /\ CountCall(t)
    /\ enable_range_locks => ~RangeBlocksKey(t, k, m)
    /\ pc' = [pc EXCEPT ![t] = "try"]
    /\ call' = [call EXCEPT ![t] = [op |-> "lock", key |-> k, mode |-> m]]
    /\ UNCHANGED <<shared, escState, scan, seen, todo, guards>>

\* Faulty variants of AlreadyHeld below: any mode will do; only the same mode
\* will do.
AlreadyHeldInAnyMode(t, k, m) == holders[k][t] # None

AlreadyHeldExactly(t, k, m) == m \in LockModes /\ holders[k][t] = m

\* LockEntry::try_acquire's early success: t holds the key already, in the
\* requested mode or in one that cannot be upgraded to it.
AlreadyHeld(t, k, m) ==
    LET held == holders[k][t]
    IN  held # None /\ (held = m \/ ~can_upgrade_to(held, m))

\* LockEntry::try_acquire, once from lock_key and once more from acquire.
TryAcquire(t, from, onTrue, onFalse) ==
    LET k == call[t].key
        m == call[t].mode
    IN  /\ pc[t] = from
        /\ \/ /\ AlreadyHeld(t, k, m)
              /\ Goto(t, from, onTrue)
              /\ UNCHANGED holders
           \/ /\ ~AlreadyHeld(t, k, m)
              /\ is_compatible_with_holders(k, t, m)
              /\ Goto(t, from, onTrue)
              /\ holders' = [holders EXCEPT ![k][t] = m]
           \/ /\ ~AlreadyHeld(t, k, m)
              /\ ~is_compatible_with_holders(k, t, m)
              /\ Goto(t, from, onFalse)
              /\ UNCHANGED holders
        /\ UNCHANGED <<wait_queue, range_locks, edges, txn_info, lock_count, aborts,
                       escState, locals, history>>

LockKeyTry(t) == TryAcquire(t, "try", "record", "snapshot")

\* entry.get_holders(), after the holders mutex was released and retaken.
GetHolders(t) ==
    /\ Goto(t, "snapshot", "edges")
    /\ seen' = [seen EXCEPT ![t] = HoldersOf(call[t].key)]
    /\ UNCHANGED <<shared, escState, call, scan, todo, history>>

\* One edge to every holder of the snapshot, compatible or not.
AddEdges(t) ==
    /\ Goto(t, "edges", "acquire")
    /\ edges' = AddWaitEdges(edges, t, seen[t])
    /\ UNCHANGED <<holders, wait_queue, range_locks, txn_info, lock_count, aborts,
                   escState, locals, history>>

\* LockEntry::acquire: a second try_acquire before it queues.
AcquireTry(t) == TryAcquire(t, "acquire", "granted", "enqueue")

\* The push to the wait queue (push_back in acquire, push_front in upgrade).
Enqueue(t) ==
    /\ Goto(t, "enqueue", "loop")
    /\ wait_queue' = [wait_queue EXCEPT ![call[t].key] = @ \cup {t}]
    /\ UNCHANGED <<holders, range_locks, edges, txn_info, lock_count, aborts,
                   escState, locals, history>>

\* LockEntry::remove_from_queue.
RemoveFromQueue(t) ==
    wait_queue' = [wait_queue EXCEPT ![call[t].key] = @ \ {t}]

\* Faulty variant of LoopGrant below: a woken thread takes the lock unchecked.
LoopGrantUnchecked(t) ==
    /\ Goto(t, "loop", "granted")
    /\ call[t].op = "lock"
    /\ holders' = [holders EXCEPT ![call[t].key][t] = call[t].mode]
    /\ RemoveFromQueue(t)
    /\ UNCHANGED <<range_locks, edges, txn_info, lock_count, aborts,
                   escState, locals, history>>

(***************************************************************************)
(* The loop of LockEntry::acquire and of LockEntry::upgrade.  The check,   *)
(* the insertion and the start of the wait are one critical section.       *)
(***************************************************************************)
LoopGrant(t) ==
    LET k == call[t].key
        m == call[t].mode
    IN  /\ pc[t] = "loop"
        /\ is_compatible_with_holders(k, t, m)
        /\ holders' = [holders EXCEPT ![k][t] = m]
        /\ RemoveFromQueue(t)
        /\ \/ /\ call[t].op = "lock"
              /\ Goto(t, "loop", "granted")
              /\ UNCHANGED <<call, seen, guards>>
           \/ /\ call[t].op = "upgrade"
              /\ Return(t)
              /\ guards' = [guards EXCEPT ![t] = @ \cup {[key |-> k, mode |-> m]}]
        /\ UNCHANGED <<range_locks, edges, txn_info, lock_count, aborts,
                       escState, scan, todo, calls>>

LoopWait(t) ==
    /\ Goto(t, "loop", "wait")
    /\ ~is_compatible_with_holders(call[t].key, t, call[t].mode)
    /\ UNCHANGED <<shared, escState, locals, history>>

\* Faulty variants of TimeOut below: the waiter stays queued; the deadline
\* starts over.
TimeOutStaysQueued(t) ==
    /\ call[t] # NoCall /\ call[t].op = "lock"
    /\ Goto(t, "wait", "timedout")
    /\ UNCHANGED <<shared, escState, locals, history>>

TimeOutStartsOver(t) ==
    /\ Goto(t, "wait", "loop")
    /\ UNCHANGED <<shared, escState, locals, history>>

\* Err(Timeout): the deadline is found passed, or wait_for reports it.
\* After a timed-out wait the holders are not looked at again.
TimeOut(t) ==
    /\ \/ pc[t] = "wait"
       \/ pc[t] = "loop" /\ ~is_compatible_with_holders(call[t].key, t, call[t].mode)
    /\ RemoveFromQueue(t)
    /\ \/ /\ call[t].op = "lock"
          /\ pc' = [pc EXCEPT ![t] = "timedout"]
          /\ UNCHANGED <<call, seen>>
       \/ /\ call[t].op = "upgrade"
          /\ Return(t)
    /\ UNCHANGED <<holders, range_locks, edges, txn_info, lock_count, aborts,
                   escState, scan, todo, history>>

\* Faulty variant of RemoveEdges below: a timeout leaves the edges behind.
RemoveEdgesOnGrant(t) ==
    /\ \/ /\ Goto(t, "granted", "record")
          /\ edges' = RemoveWaitEdges(edges, t, seen[t])
          /\ UNCHANGED <<call, seen>>
       \/ /\ pc[t] = "timedout"
          /\ Return(t)
          /\ UNCHANGED edges
    /\ UNCHANGED <<holders, wait_queue, range_locks, txn_info, lock_count, aborts,
                   escState, scan, todo, history>>

\* Back in lock_key: the edges of the snapshot go, whatever the result was.
RemoveEdges(t) ==
    /\ edges' = RemoveWaitEdges(edges, t, seen[t])
    /\ \/ Goto(t, "granted", "record") /\ UNCHANGED <<call, seen>>
       \/ pc[t] = "timedout" /\ Return(t)
    /\ UNCHANGED <<holders, wait_queue, range_locks, txn_info, lock_count, aborts,
                   escState, scan, todo, history>>

\* check_escalation: the action for a number of locks.
check_escalation(n) ==
    IF n >= emergency_threshold THEN "ForceEscalate"
    ELSE IF n >= auto_escalate_threshold THEN "Escalate"
    ELSE IF n >= warning_threshold THEN "Warn"
    ELSE "None"

\* EscalationState::compute_bounding_range: the closed range from the least to
\* the greatest of the keys; a set with one element, or none for no keys.
compute_bounding_range(ks) ==
    LET ends == {Included(k) : k \in ks}
    IN  {r \in [start : ends, end : ends] : \A k \in ks : contains_key(r, k)}

\* record_lock_acquired up to its call of lock_range.  Warn only logs.  The
\* escalated flag is set before, and whatever becomes of, the range request.
Record(t) ==
    /\ pc[t] = "record"
    /\ key_lock_count' = [key_lock_count EXCEPT ![t] = @ + 1]
    /\ locked_keys' = [locked_keys EXCEPT ![t] = @ \cup {call[t].key}]
    /\ LET escalate == /\ check_escalation(key_lock_count'[t]) \in {"Escalate", "ForceEscalate"}
                       /\ ~escalated[t]
       IN  /\ escalated' = [escalated EXCEPT ![t] = @ \/ escalate]
           /\ \/ /\ escalate /\ enable_range_locks
                 /\ Goto(t, "record", "range_check")
                 /\ \E r \in compute_bounding_range(locked_keys'[t]) :
                        scan' = [scan EXCEPT ![t] = [range |-> r, mode |-> "X"]]
              \/ /\ ~(escalate /\ enable_range_locks)
                 /\ Goto(t, "record", "count")
                 /\ UNCHANGED scan
    /\ UNCHANGED <<shared, call, seen, todo, history>>

\* The end of record_lock_acquired and of a successful lock_key.
CountLock(t) ==
    /\ pc[t] = "count"
    /\ lock_count' = [lock_count EXCEPT ![t] = IF t \in txn_info THEN @ + 1 ELSE @]
    /\ guards' = [guards EXCEPT ![t] = @ \cup {[key |-> call[t].key, mode |-> call[t].mode]}]
    /\ Return(t)
    /\ UNCHANGED <<holders, wait_queue, range_locks, edges, txn_info, aborts,
                   escState, scan, todo, calls>>

-----------------------------------------------------------------------------
(***************************************************************************)
(* LockTable::lock_range, called by a client or by an escalation.          *)
(***************************************************************************)

\* A client's call; with range locks disabled it fails at once.
LockRange(t, r, m) ==
    /\ CountCall(t)
    /\ \/ /\ enable_range_locks
          /\ pc' = [pc EXCEPT ![t] = "range_check"]
          /\ scan' = [scan EXCEPT ![t] = [range |-> r, mode |-> m]]
       \/ /\ ~enable_range_locks
          /\ UNCHANGED <<pc, scan>>
    /\ UNCHANGED <<shared, escState, call, seen, todo, guards>>

\* lock_range returns; an escalation discards the result and goes on.
RangeReturn(t) ==
    /\ pc' = [pc EXCEPT ![t] = IF call[t] = NoCall THEN "idle" ELSE "count"]
    /\ scan' = [scan EXCEPT ![t] = NoScan]
    /\ todo' = [todo EXCEPT ![t] = {}]

\* Faulty variant of RangeCheck below: key locks in the range are not looked at.
RangeCheckWithoutKeys(t) ==
    /\ Goto(t, "range_check", "range_keys")
    /\ ~RangeBlocksRange(t, scan[t].range, scan[t].mode)
    /\ UNCHANGED <<shared, escState, locals, history>>

\* First critical section: the range locks, under the read lock of the tree.
RangeCheck(t) ==
    /\ pc[t] = "range_check"
    /\ \/ /\ RangeBlocksRange(t, scan[t].range, scan[t].mode)
          /\ RangeReturn(t)
       \/ /\ ~RangeBlocksRange(t, scan[t].range, scan[t].mode)
          /\ Goto(t, "range_check", "range_keys")
          /\ todo' = [todo EXCEPT ![t] = {k \in Keys : contains_key(scan[t].range, k)}]
          /\ UNCHANGED scan
    /\ UNCHANGED <<shared, escState, call, seen, history>>

\* Then one critical section for each key in the range, in the map's order.
RangeScanKey(t, k) ==
    /\ pc[t] = "range_keys"
    /\ k \in todo[t]
    /\ \/ /\ ~is_compatible_with_holders(k, t, scan[t].mode)
          /\ RangeReturn(t)
       \/ /\ is_compatible_with_holders(k, t, scan[t].mode)
          /\ todo' = [todo EXCEPT ![t] = @ \ {k}]
          /\ UNCHANGED <<pc, scan>>
    /\ UNCHANGED <<shared, escState, call, seen, history>>

\* Last, the insertion under the write lock of the tree.
RangeInsert(t) ==
    /\ pc[t] = "range_keys"
    /\ todo[t] = {}
    /\ range_locks' = range_locks \cup {[txn |-> t, range |-> scan[t].range, mode |-> scan[t].mode]}
    /\ RangeReturn(t)
    /\ UNCHANGED <<holders, wait_queue, edges, txn_info, lock_count, aborts,
                   escState, call, seen, history>>

-----------------------------------------------------------------------------
\* Faulty variant of UpgradeLock below: it queues without looking at its mode.
UpgradeLockUnchecked(t, k) ==
    /\ CountCall(t)
    /\ pc' = [pc EXCEPT ![t] = "enqueue"]
    /\ call' = [call EXCEPT ![t] = [op |-> "upgrade", key |-> k, mode |-> "X"]]
    /\ UNCHANGED <<shared, escState, scan, seen, todo, guards>>

(***************************************************************************)
(* LockTable::upgrade_lock, always to X.  It adds no wait edge.            *)
(***************************************************************************)
UpgradeLock(t, k) ==
    LET held == holders[k][t]
    IN  /\ CountCall(t)
        /\ \/ /\ can_upgrade_to(held, "X")
              /\ pc' = [pc EXCEPT ![t] = "enqueue"]
              /\ call' = [call EXCEPT ![t] = [op |-> "upgrade", key |-> k, mode |-> "X"]]
              /\ UNCHANGED guards
           \/ /\ held = "X"
              /\ guards' = [guards EXCEPT ![t] = @ \cup {[key |-> k, mode |-> "X"]}]
              /\ UNCHANGED <<pc, call>>
           \* Err(NotHeld) when held is None, else Err(InvalidUpgrade).
           \/ /\ held # "X" /\ ~can_upgrade_to(held, "X")
              /\ UNCHANGED <<pc, call, guards>>
        /\ UNCHANGED <<shared, escState, scan, seen, todo>>

-----------------------------------------------------------------------------
\* Faulty variant of ReleaseAll below: it gives up keys it does not hold too.
ReleaseAllKeys(t) ==
    /\ Goto(t, "idle", "release")
    /\ todo' = [todo EXCEPT ![t] = Keys]
    /\ guards' = [guards EXCEPT ![t] = {}]
    /\ UNCHANGED <<shared, escState, call, scan, seen, calls>>

(***************************************************************************)
(* LockTable::release_all.  The loop visits every entry; release does      *)
(* something only on those t holds, and only t adds or removes itself.     *)
(***************************************************************************)
ReleaseAll(t) ==
    /\ Goto(t, "idle", "release")
    /\ todo' = [todo EXCEPT ![t] = HeldKeys(t)]
    /\ guards' = [guards EXCEPT ![t] = {}]
    /\ UNCHANGED <<shared, escState, call, scan, seen, calls>>

\* LockEntry::release up to drop(holders).
ReleaseKey(t, k) ==
    /\ Goto(t, "release", "notify")
    /\ k \in todo[t]
    /\ todo' = [todo EXCEPT ![t] = @ \ {k}]
    /\ call' = [call EXCEPT ![t] = [op |-> "release", key |-> k, mode |-> holders[k][t]]]
    /\ holders' = [holders EXCEPT ![k][t] = None]
    /\ UNCHANGED <<wait_queue, range_locks, edges, txn_info, lock_count, aborts,
                   escState, scan, seen, history>>

\* Faulty variant of NotifyAll below: only the release of an exclusive lock
\* wakes anybody.
NotifyAfterExclusive(t) ==
    /\ pc[t] = "notify"
    /\ pc' = [u \in Txns |-> IF u = t THEN "release"
                             ELSE IF /\ pc[u] = "wait" /\ call[u].key = call[t].key
                                     /\ call[t].mode = "X" THEN "loop"
                             ELSE pc[u]]
    /\ call' = [call EXCEPT ![t] = NoCall]
    /\ UNCHANGED <<shared, escState, scan, seen, todo, history>>

\* condvar.notify_all(), outside the mutex.
NotifyAll(t) ==
    /\ pc[t] = "notify"
    /\ pc' = [u \in Txns |-> IF u = t THEN "release"
                             ELSE IF pc[u] = "wait" /\ call[u].key = call[t].key THEN "loop"
                             ELSE pc[u]]
    /\ call' = [call EXCEPT ![t] = NoCall]
    /\ UNCHANGED <<shared, escState, scan, seen, todo, history>>

\* IntervalTree::remove_by_txn.
ReleaseRanges(t) ==
    /\ Goto(t, "release", "unregister")
    /\ todo[t] = {}
    /\ range_locks' = {e \in range_locks : e.txn # t}
    /\ UNCHANGED <<holders, wait_queue, edges, txn_info, lock_count, aborts,
                   escState, locals, history>>

\* remove_all_waits and unregister_txn; the second repeats the first.
Unregister(t) ==
    /\ Goto(t, "unregister", "done")
    /\ edges' = DropTxn(edges, t)
    /\ txn_info' = txn_info \ {t}
    /\ lock_count' = [lock_count EXCEPT ![t] = 0]
    /\ key_lock_count' = [key_lock_count EXCEPT ![t] = 0]
    /\ locked_keys' = [locked_keys EXCEPT ![t] = {}]
    /\ escalated' = [escalated EXCEPT ![t] = FALSE]
    /\ UNCHANGED <<holders, wait_queue, range_locks, aborts, locals, history>>

\* One round of the DeadlockDetector thread.  Nobody receives from the
\* channel, so what was sent stays in it.
DetectDeadlock ==
    /\ \E C \in Deadlocks(edges) :
        \E v \in select_victims(C, txn_info, Priority, StartTs, lock_count) :
            aborts' = aborts \cup {v}
    /\ UNCHANGED <<holders, wait_queue, range_locks, edges, txn_info, lock_count,
                   escState, pc, locals, history>>

-----------------------------------------------------------------------------
\* What the caller of transaction t decides to do.
Caller(t) ==
    \/ Register(t)
    \/ \E k \in Keys, m \in Modes : LockKeyRefused(t, k, m) \/ LockKey(t, k, m)
    \/ \E r \in Ranges, m \in Modes : LockRange(t, r, m)
    \/ \E k \in Keys : UpgradeLock(t, k)
    \/ ReleaseAll(t)

\* What a call does once made, up to its return.
Thread(t) ==
    \/ LockKeyTry(t) \/ GetHolders(t) \/ AddEdges(t) \/ AcquireTry(t)
    \/ Enqueue(t) \/ LoopGrant(t) \/ LoopWait(t) \/ RemoveEdges(t)
    \/ Record(t) \/ CountLock(t)
    \/ RangeCheck(t) \/ (\E k \in Keys : RangeScanKey(t, k)) \/ RangeInsert(t)
    \/ (\E k \in Keys : ReleaseKey(t, k)) \/ NotifyAll(t)
    \/ ReleaseRanges(t) \/ Unregister(t)

\* Every transaction is over.
AllDone == (\A t \in Txns : pc[t] = "done") /\ UNCHANGED vars

Next ==
    \/ \E t \in Txns : Caller(t) \/ Thread(t) \/ TimeOut(t)
    \/ DetectDeadlock
    \/ AllDone

Spec == Init /\ [][Next]_vars

(***************************************************************************)
(* Threads are scheduled and timed waits end: LockManager passes a timeout *)
(* to every lock_key and upgrade_lock.  Nothing makes a caller call.       *)
(***************************************************************************)
FairSpec == Spec /\ \A t \in Txns : WF_vars(Thread(t)) /\ WF_vars(TimeOut(t))
-----------------------------------------------------------------------------
(***************************************************************************)
(* Safety.                                                                 *)
(***************************************************************************)

(***************************************************************************)
(* What a thread knows at each step.  A thread that goes to queue has no   *)
(* mode on its key, or one its request really strengthens: the waiting     *)
(* loop, unlike try_acquire, inserts without asking again.                 *)
(***************************************************************************)
LockSteps   == {"try", "snapshot", "edges", "acquire", "granted", "timedout", "record", "count"}
QueueSteps  == {"enqueue", "loop", "wait"}
RangeSteps  == {"range_check", "range_keys"}

ThreadOK(t) ==
    /\ pc[t] \in {"new", "idle", "release", "unregister", "done"} => call[t] = NoCall
    /\ pc[t] \in LockSteps => call[t] \in Calls /\ call[t].op = "lock"
    /\ pc[t] \in QueueSteps => call[t] \in Calls /\ call[t].op \in {"lock", "upgrade"}
    /\ pc[t] = "notify" => call[t] \in Calls /\ call[t].op = "release"
    /\ pc[t] \in RangeSteps => scan[t] \in Scans
    /\ (pc[t] \in RangeSteps /\ call[t] # NoCall) => call[t] \in Calls /\ call[t].op = "lock"
    /\ pc[t] \in QueueSteps \cup {"snapshot", "edges", "acquire"} =>
           ~AlreadyHeld(t, call[t].key, call[t].mode)
    /\ pc[t] \in {"release", "notify"} => todo[t] = HeldKeys(t)

ThreadState == \A t \in Txns : ThreadOK(t)

\* Two transactions never hold one key in incompatible modes, whichever of
\* try_acquire, the waiting loop and upgrade inserted them.
HoldersCompatible ==
    \A k \in Keys : \A t, u \in HoldersOf(k) :
        t # u => is_compatible(holders[k][t], holders[k][u])

\* A thread sleeps on a key's condition variable only while its request is
\* blocked, or while a thread that gave the key up is about to notify:
\* release drops the mutex between the removal and notify_all.
NoLostWakeup ==
    \A t \in Txns :
        (pc[t] = "wait" /\ is_compatible_with_holders(call[t].key, t, call[t].mode))
            => \E u \in Txns : pc[u] = "notify" /\ call[u].key = call[t].key

\* What lock_key and upgrade_lock answered stays true until release_all: the
\* transaction holds the key in a mode at least as strong as its LockGuard says.
GrantImpliesHeld ==
    \A t \in Txns : \A g \in guards[t] : Covers(holders[g.key][t], g.mode)

\* A transaction that is not inside a blocked lock_key waits for nobody in the
\* graph: lock_key takes back every edge it added, on success and on timeout.
EdgesOnlyWhileBlocked ==
    \A t \in Txns : edges[t] # {} => pc[t] \in {"acquire", "enqueue", "loop", "wait",
                                                "granted", "timedout"}

\* A transaction that left holds no key and no range, sits in no wait queue
\* and has no TxnInfo, whatever happened to its calls.
DoneLeavesNothing ==
    \A t \in Txns : pc[t] = "done" =>
        /\ HeldKeys(t) = {}
        /\ t \notin txn_info
        /\ edges[t] = {}
        /\ \A k \in Keys : t \notin wait_queue[k]
        /\ \A e \in range_locks : e.txn # t

\* Every cycle the detector can report is made of real conflicts: each member
\* waits for a key some other member holds in a mode that shuts it out.
DeadlocksAreReal ==
    \A C \in Deadlocks(edges) : \A t \in C :
        /\ call[t] # NoCall
        /\ \E u \in C \ {t} : LET held == holders[call[t].key][u]
                              IN  held # None /\ ~is_compatible(call[t].mode, held)

\* No two transactions hold overlapping range locks in incompatible modes, and
\* none holds a key in a mode that another one's range lock shuts out.
RangeExclusion ==
    \A e \in range_locks :
        /\ \A f \in range_locks :
            (e.txn # f.txn /\ overlaps(e.range, f.range.start, f.range.end))
                => is_compatible(e.mode, f.mode)
        /\ \A k \in Keys : \A t \in HoldersOf(k) :
            (e.txn # t /\ contains_key(e.range, k)) => is_compatible(holders[k][t], e.mode)

\* The key locks behave as KeyLocks says: every change of a holders map is one
\* grant that respects the others, or one release.
Abstract == INSTANCE KeyLocks WITH held <- holders

ImplementsKeyLocks == Abstract!Spec

\* Liveness: a call that was made returns, because every wait has a deadline.
CallsReturn == \A t \in Txns : pc[t] \notin {"new", "idle", "done"} ~> pc[t] \in {"idle", "done"}
=============================================================================
