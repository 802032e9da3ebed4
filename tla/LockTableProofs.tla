-------------------------- MODULE LockTableProofs ---------------------------
(***************************************************************************)
(* Proofs about LockTable, for any transactions, keys, modes and ranges:   *)
(* first of the bounds and of the locks themselves, then of what the calls *)
(* leave behind and what they promise: wait edges, queue entries and locks *)
(* after a call or a release_all, the mode a LockGuard stands for, the     *)
(* cycles the detector finds, and the exclusion between range locks and    *)
(* key locks of calls that do not overlap in time.                         *)
(***************************************************************************)
EXTENDS LockTableOverlap, FiniteSetTheorems, TLAPS

-----------------------------------------------------------------------------
(***************************************************************************)
(* The comparisons of range_lock.rs, for every range with ends in Int.     *)
(***************************************************************************)

\* IntervalTree::find_containing_key, which asks for overlaps with the closed
\* range of one key, selects exactly the ranges that contain the key, although
\* overlaps and contains_key are written independently of each other.
THEOREM OverlapsKeyIsContainsKey ==
    ASSUME NEW r \in KeyRanges(Int), NEW k \in Int
    PROVE  OverlapsKey(r, k) <=> contains_key(r, k)
BY DEF OverlapsKey, overlaps, is_before, is_after, contains_key, BothIncluded, IsBounded,
       KeyRanges, Bounds, Included, Unbounded

\* No conflict is missed: two ranges that share a key overlap, so lock_range
\* sees every range lock that covers a key of its own range.
THEOREM SharedKeyImpliesOverlap ==
    ASSUME NEW r \in KeyRanges(Int), NEW q \in KeyRanges(Int), NEW k \in Int,
           contains_key(r, k), contains_key(q, k)
    PROVE  overlaps(r, q.start, q.end)
BY DEF overlaps, is_before, is_after, contains_key, BothIncluded, IsBounded,
       KeyRanges, Bounds, Unbounded

\* overlaps does not depend on which of the two ranges is already in the tree.
THEOREM OverlapSymmetric ==
    ASSUME NEW r \in KeyRanges(Int), NEW q \in KeyRanges(Int)
    PROVE  overlaps(r, q.start, q.end) <=> overlaps(q, r.start, r.end)
BY DEF overlaps, is_before, is_after, BothIncluded, IsBounded, KeyRanges, Bounds, Unbounded

-----------------------------------------------------------------------------
(***************************************************************************)
(* Facts about the mode matrices, each a finite check over the five modes. *)
(***************************************************************************)

\* The compatibility matrix is symmetric, so it does not matter that the
\* waiting loop of acquire asks mode.is_compatible(held) and the one of
\* upgrade asks held.is_compatible(mode).
LEMMA CompatibleSymmetric ==
    ASSUME NEW m, NEW n, is_compatible(m, n)
    PROVE  is_compatible(n, m)
BY DEF is_compatible, CompatiblePairs

\* An upgrade only strengthens: a mode shut out before is shut out after.
LEMMA UpgradeStrengthens ==
    ASSUME NEW a, NEW b, NEW m, can_upgrade_to(a, b), is_compatible(m, b)
    PROVE  is_compatible(m, a)
BY DEF can_upgrade_to, UpgradePairs, is_compatible, CompatiblePairs

\* No lock mode is the absence of a lock.
LEMMA NoneIsNoMode == None \notin LockModes
BY DEF None, LockModes

-----------------------------------------------------------------------------
(***************************************************************************)
(* Types and thread states.  Neither is inductive without the other: the   *)
(* loop inserts the mode of call[t], which is a mode only because of the   *)
(* step the thread is at.                                                  *)
(***************************************************************************)

\* What inserting into, or removing from, one holders map does to all of them.
LEMMA HoldersUpdate ==
    ASSUME TypeOK, NEW t \in Txns, NEW k \in Keys, NEW m \in LockModes \cup {None},
           holders' = [holders EXCEPT ![k][t] = m]
    PROVE  /\ holders' \in [Keys -> [Txns -> LockModes \cup {None}]]
           /\ \A j \in Keys : \A u \in Txns :
                 holders'[j][u] = IF j = k /\ u = t THEN m ELSE holders[j][u]
BY DEF TypeOK

\* The bounding range of a set of keys is a range of keys.
LEMMA BoundingRangeType ==
    ASSUME NEW ks \in SUBSET Keys, NEW r \in compute_bounding_range(ks)
    PROVE  [range |-> r, mode |-> "X"] \in Scans
<1>1. r \in KeyRanges(Keys)
  BY DEF compute_bounding_range, KeyRanges, Bounds, Included
<1> QED
  BY <1>1 DEF Scans, LockModes

\* A fresh LockTable, before any register_txn, is well formed.
LEMMA InitTypes == Init => TypeOK /\ ThreadState
BY DEF Init, TypeOK, ThreadState, ThreadOK, Pcs, LockSteps, QueueSteps, RangeSteps

\* Every operation of the lock table keeps the types.
LEMMA TypeStep ==
    ASSUME TypeOK, ThreadState, [Next]_vars
    PROVE  TypeOK'
<1> USE ConstantsAssumption
    DEF TypeOK, shared, escState, locals, history, vars, Goto, Return, CountCall
<1>1. ASSUME NEW t \in Txns, Register(t) PROVE TypeOK'
  BY <1>1 DEF Register, Pcs
<1>2. ASSUME NEW t \in Txns, NEW k \in Keys, NEW m \in Modes, LockKeyRefused(t, k, m)
      PROVE TypeOK'
  BY <1>2 DEF LockKeyRefused
<1>3. ASSUME NEW t \in Txns, NEW k \in Keys, NEW m \in Modes, LockKey(t, k, m)
      PROVE TypeOK'
  BY <1>3 DEF LockKey, Calls, Pcs
<1>4. ASSUME NEW t \in Txns, NEW r \in Ranges, NEW m \in Modes, LockRange(t, r, m)
      PROVE TypeOK'
  BY <1>4, SMTT(30) DEF LockRange, Scans, Pcs
<1>5. ASSUME NEW t \in Txns, NEW k \in Keys, UpgradeLock(t, k) PROVE TypeOK'
  BY <1>5, SMTT(30) DEF UpgradeLock, Calls, Guards, LockModes, Pcs
<1>6. ASSUME NEW t \in Txns, ReleaseAll(t) PROVE TypeOK'
  BY <1>6 DEF ReleaseAll, HeldKeys, Pcs
<1>7. ASSUME NEW t \in Txns, LockKeyTry(t) PROVE TypeOK'
  <2>1. call[t].key \in Keys /\ call[t].mode \in LockModes
    BY <1>7 DEF LockKeyTry, TryAcquire, ThreadState, ThreadOK, LockSteps, Calls
  <2>2. holders' \in [Keys -> [Txns -> LockModes \cup {None}]]
    BY <1>7, <2>1, HoldersUpdate DEF LockKeyTry, TryAcquire
  <2> QED
    BY <1>7, <2>2 DEF LockKeyTry, TryAcquire, Pcs
<1>8. ASSUME NEW t \in Txns, GetHolders(t) PROVE TypeOK'
  BY <1>8 DEF GetHolders, HoldersOf, Pcs
<1>9. ASSUME NEW t \in Txns, AddEdges(t) PROVE TypeOK'
  BY <1>9 DEF AddEdges, AddWaitEdges, Pcs
<1>10. ASSUME NEW t \in Txns, AcquireTry(t) PROVE TypeOK'
  <2>1. call[t].key \in Keys /\ call[t].mode \in LockModes
    BY <1>10 DEF AcquireTry, TryAcquire, ThreadState, ThreadOK, LockSteps, Calls
  <2>2. holders' \in [Keys -> [Txns -> LockModes \cup {None}]]
    BY <1>10, <2>1, HoldersUpdate DEF AcquireTry, TryAcquire
  <2> QED
    BY <1>10, <2>2 DEF AcquireTry, TryAcquire, Pcs
<1>11. ASSUME NEW t \in Txns, Enqueue(t) PROVE TypeOK'
  BY <1>11 DEF Enqueue, ThreadState, ThreadOK, QueueSteps, Calls, Pcs
<1>12. ASSUME NEW t \in Txns, LoopGrant(t) PROVE TypeOK'
  <2>1. call[t].key \in Keys /\ call[t].mode \in LockModes
    BY <1>12 DEF LoopGrant, ThreadState, ThreadOK, QueueSteps, Calls
  <2>2. holders' \in [Keys -> [Txns -> LockModes \cup {None}]]
    BY <1>12, <2>1, HoldersUpdate DEF LoopGrant
  <2>3. wait_queue' \in [Keys -> SUBSET Txns]
    BY <1>12 DEF LoopGrant, RemoveFromQueue
  <2>4. CASE call[t].op = "lock"
    BY <1>12, <2>2, <2>3, <2>4 DEF LoopGrant, Pcs
  <2>5. CASE call[t].op = "upgrade"
    <3>1. [key |-> call[t].key, mode |-> call[t].mode] \in Guards
      BY <2>1 DEF Guards
    <3>2. /\ Return(t)
          /\ guards' = [guards EXCEPT ![t] = @ \cup {[key |-> call[t].key, mode |-> call[t].mode]}]
          /\ UNCHANGED <<range_locks, edges, txn_info, lock_count, aborts,
                         escState, scan, todo, calls>>
      BY <1>12, <2>5 DEF LoopGrant
    <3>3. guards' \in [Txns -> SUBSET Guards]
      BY <3>1, <3>2
    <3> QED
      BY <2>2, <2>3, <3>2, <3>3 DEF Pcs
  <2> QED
    BY <1>12, <2>4, <2>5 DEF LoopGrant
<1>13. ASSUME NEW t \in Txns, LoopWait(t) PROVE TypeOK'
  BY <1>13 DEF LoopWait, Pcs
<1>14. ASSUME NEW t \in Txns, TimeOut(t) PROVE TypeOK'
  <2>1. wait_queue' \in [Keys -> SUBSET Txns]
    BY <1>14 DEF TimeOut, RemoveFromQueue
  <2>2. CASE pc' = [pc EXCEPT ![t] = "timedout"] /\ UNCHANGED <<call, seen>>
    BY <1>14, <2>1, <2>2 DEF TimeOut, Pcs
  <2>3. CASE Return(t)
    BY <1>14, <2>1, <2>3 DEF TimeOut, Pcs
  <2> QED BY <1>14, <2>2, <2>3 DEF TimeOut
<1>15. ASSUME NEW t \in Txns, RemoveEdges(t) PROVE TypeOK'
  BY <1>15 DEF RemoveEdges, RemoveWaitEdges, Pcs
<1>16. ASSUME NEW t \in Txns, Record(t) PROVE TypeOK'
  <2>1. call[t].key \in Keys
    BY <1>16 DEF Record, ThreadState, ThreadOK, LockSteps, Calls
  <2>2. locked_keys' \in [Txns -> SUBSET Keys]
    BY <1>16, <2>1 DEF Record
  <2>3. scan' \in [Txns -> Scans \cup {NoScan}]
    <3>1. CASE UNCHANGED scan
      BY <3>1
    <3>2. ASSUME NEW r \in compute_bounding_range(locked_keys'[t]),
                 scan' = [scan EXCEPT ![t] = [range |-> r, mode |-> "X"]]
          PROVE  scan' \in [Txns -> Scans \cup {NoScan}]
      BY <2>2, <3>2, BoundingRangeType
    <3> QED
      BY <1>16, <3>1, <3>2 DEF Record
  <2> QED
    BY <1>16, <2>2, <2>3 DEF Record, Pcs
<1>17. ASSUME NEW t \in Txns, CountLock(t) PROVE TypeOK'
  BY <1>17 DEF CountLock, ThreadState, ThreadOK, LockSteps, Calls, Guards, Pcs
<1>18. ASSUME NEW t \in Txns, RangeCheck(t) PROVE TypeOK'
  BY <1>18 DEF RangeCheck, RangeReturn, Pcs
<1>19. ASSUME NEW t \in Txns, NEW k \in Keys, RangeScanKey(t, k) PROVE TypeOK'
  BY <1>19, SMTT(30) DEF RangeScanKey, RangeReturn, Pcs
<1>20. ASSUME NEW t \in Txns, RangeInsert(t) PROVE TypeOK'
  BY <1>20 DEF RangeInsert, RangeReturn, ThreadState, ThreadOK, RangeSteps, Scans, RangeLocks, Pcs
<1>21. ASSUME NEW t \in Txns, NEW k \in Keys, ReleaseKey(t, k) PROVE TypeOK'
  BY <1>21 DEF ReleaseKey, ThreadState, ThreadOK, HeldKeys, Calls, Pcs
<1>22. ASSUME NEW t \in Txns, NotifyAll(t) PROVE TypeOK'
  BY <1>22 DEF NotifyAll, Pcs
<1>23. ASSUME NEW t \in Txns, ReleaseRanges(t) PROVE TypeOK'
  BY <1>23 DEF ReleaseRanges, Pcs
<1>24. ASSUME NEW t \in Txns, Unregister(t) PROVE TypeOK'
  BY <1>24 DEF Unregister, DropTxn, Pcs
<1>25. ASSUME DetectDeadlock PROVE TypeOK'
  BY <1>25 DEF DetectDeadlock, Deadlocks, Scc, select_victims
<1>26. CASE UNCHANGED vars
  BY <1>26
<1> QED
  BY <1>1, <1>2, <1>3, <1>4, <1>5, <1>6, <1>7, <1>8, <1>9, <1>10, <1>11, <1>12, <1>13,
     <1>14, <1>15, <1>16, <1>17, <1>18, <1>19, <1>20, <1>21, <1>22, <1>23, <1>24, <1>25, <1>26
  DEF Next, Caller, Thread, AllDone

\* A step of thread t keeps what every other thread knows, when it leaves
\* their locals and their own holdings alone.
LEMMA ThreadFrame ==
    ASSUME ThreadState, NEW t \in Txns, ThreadOK(t)',
           \A u \in Txns \ {t} :
               /\ pc'[u] = pc[u] /\ call'[u] = call[u]
               /\ scan'[u] = scan[u] /\ todo'[u] = todo[u]
               /\ \A k \in Keys : holders'[k][u] = holders[k][u]
    PROVE  ThreadState'
<1> SUFFICES ASSUME NEW u \in Txns \ {t} PROVE ThreadOK(u)'
  BY DEF ThreadState
<1>1. ThreadOK(u)
  BY DEF ThreadState
<1>2. HeldKeys(u)' = HeldKeys(u)
  BY DEF HeldKeys
<1>3. call[u] \in Calls =>
        (AlreadyHeld(u, call[u].key, call[u].mode)' <=> AlreadyHeld(u, call[u].key, call[u].mode))
  BY DEF AlreadyHeld, Calls
<1> QED
  BY <1>1, <1>2, <1>3 DEF ThreadOK, LockSteps, QueueSteps, RangeSteps

\* Every step of a call leaves its thread knowing what ThreadOK says of the
\* place it goes to.
LEMMA ThreadStep ==
    ASSUME TypeOK, ThreadState, [Next]_vars
    PROVE  ThreadState'
<1> USE ConstantsAssumption
    DEF shared, escState, locals, history, vars, Goto, Return, CountCall
<1>0. ASSUME NEW t \in Txns PROVE ThreadOK(t)
  BY DEF ThreadState
<1>1. ASSUME NEW t \in Txns, Register(t) PROVE ThreadState'
  <2>1. ThreadOK(t)'
    BY <1>0, <1>1 DEF TypeOK, ThreadOK, LockSteps, QueueSteps, RangeSteps, Register
  <2> QED
    BY <1>1, <2>1, ThreadFrame DEF TypeOK, Register
<1>2. ASSUME NEW t \in Txns, NEW k \in Keys, NEW m \in Modes, LockKeyRefused(t, k, m) PROVE ThreadState'
  <2>1. ThreadOK(t)'
    BY <1>0, <1>2 DEF TypeOK, ThreadOK, LockSteps, QueueSteps, RangeSteps, LockKeyRefused, AlreadyHeld, HeldKeys
  <2> QED
    BY <1>2, <2>1, ThreadFrame DEF TypeOK, LockKeyRefused
<1>3. ASSUME NEW t \in Txns, NEW k \in Keys, NEW m \in Modes, LockKey(t, k, m) PROVE ThreadState'
  <2>1. ThreadOK(t)'
    BY <1>0, <1>3 DEF TypeOK, ThreadOK, LockSteps, QueueSteps, RangeSteps, LockKey, Calls
  <2> QED
    BY <1>3, <2>1, ThreadFrame DEF TypeOK, LockKey
<1>4. ASSUME NEW t \in Txns, NEW r \in Ranges, NEW m \in Modes, LockRange(t, r, m) PROVE ThreadState'
  <2>1. ThreadOK(t)'
    BY <1>0, <1>4 DEF TypeOK, ThreadOK, LockSteps, QueueSteps, RangeSteps, LockRange, Scans
  <2> QED
    BY <1>4, <2>1, ThreadFrame DEF TypeOK, LockRange
<1>5. ASSUME NEW t \in Txns, NEW k \in Keys, UpgradeLock(t, k) PROVE ThreadState'
  <2>1. ThreadOK(t)'
    <3>1. CASE UNCHANGED <<pc, call>>
      BY <1>0, <1>5, <3>1 DEF ThreadOK, UpgradeLock, LockSteps, QueueSteps, RangeSteps
    <3>2. CASE can_upgrade_to(holders[k][t], "X") /\ pc'[t] = "enqueue"
               /\ call'[t] = [op |-> "upgrade", key |-> k, mode |-> "X"]
      <4>1. call'[t] \in Calls
        BY <3>2 DEF Calls, LockModes
      <4>2. holders[k][t] # "X"
        BY <3>2 DEF can_upgrade_to, UpgradePairs
      <4> QED
        BY <1>5, <3>2, <4>1, <4>2
        DEF UpgradeLock, ThreadOK, AlreadyHeld, LockSteps, QueueSteps, RangeSteps
    <3> QED
      BY <1>5, <3>1, <3>2 DEF TypeOK, UpgradeLock
  <2> QED
    BY <1>5, <2>1, ThreadFrame DEF TypeOK, UpgradeLock
<1>6. ASSUME NEW t \in Txns, ReleaseAll(t) PROVE ThreadState'
  <2>1. ThreadOK(t)'
    BY <1>0, <1>6 DEF TypeOK, ThreadOK, LockSteps, QueueSteps, RangeSteps, ReleaseAll, HeldKeys
  <2> QED
    BY <1>6, <2>1, ThreadFrame DEF TypeOK, ReleaseAll
<1>7. ASSUME NEW t \in Txns, LockKeyTry(t) PROVE ThreadState'
  <2>1. ThreadOK(t)'
    BY <1>0, <1>7 DEF TypeOK, ThreadOK, LockSteps, QueueSteps, RangeSteps, LockKeyTry, TryAcquire, AlreadyHeld
  <2> QED
    BY <1>7, <2>1, ThreadFrame DEF TypeOK, LockKeyTry, TryAcquire
<1>8. ASSUME NEW t \in Txns, GetHolders(t) PROVE ThreadState'
  <2>1. ThreadOK(t)'
    BY <1>0, <1>8 DEF TypeOK, ThreadOK, LockSteps, QueueSteps, RangeSteps, GetHolders, AlreadyHeld
  <2> QED
    BY <1>8, <2>1, ThreadFrame DEF TypeOK, GetHolders
<1>9. ASSUME NEW t \in Txns, AddEdges(t) PROVE ThreadState'
  <2>1. ThreadOK(t)'
    BY <1>0, <1>9 DEF TypeOK, ThreadOK, LockSteps, QueueSteps, RangeSteps, AddEdges, AlreadyHeld
  <2> QED
    BY <1>9, <2>1, ThreadFrame DEF TypeOK, AddEdges
<1>10. ASSUME NEW t \in Txns, AcquireTry(t) PROVE ThreadState'
  <2>1. ThreadOK(t)'
    BY <1>0, <1>10 DEF TypeOK, ThreadOK, LockSteps, QueueSteps, RangeSteps, AcquireTry, TryAcquire, AlreadyHeld
  <2> QED
    BY <1>10, <2>1, ThreadFrame DEF TypeOK, AcquireTry, TryAcquire
<1>11. ASSUME NEW t \in Txns, Enqueue(t) PROVE ThreadState'
  <2>1. ThreadOK(t)'
    BY <1>0, <1>11 DEF TypeOK, ThreadOK, LockSteps, QueueSteps, RangeSteps, Enqueue, AlreadyHeld
  <2> QED
    BY <1>11, <2>1, ThreadFrame DEF TypeOK, Enqueue
<1>12. ASSUME NEW t \in Txns, LoopGrant(t) PROVE ThreadState'
  <2>1. ThreadOK(t)'
    BY <1>0, <1>12 DEF TypeOK, ThreadOK, LockSteps, QueueSteps, RangeSteps, LoopGrant
  <2> QED
    BY <1>12, <2>1, ThreadFrame DEF TypeOK, LoopGrant
<1>13. ASSUME NEW t \in Txns, LoopWait(t) PROVE ThreadState'
  <2>1. ThreadOK(t)'
    BY <1>0, <1>13 DEF TypeOK, ThreadOK, LockSteps, QueueSteps, RangeSteps, LoopWait, AlreadyHeld
  <2> QED
    BY <1>13, <2>1, ThreadFrame DEF TypeOK, LoopWait
<1>14. ASSUME NEW t \in Txns, TimeOut(t) PROVE ThreadState'
  <2>1. ThreadOK(t)'
    BY <1>0, <1>14 DEF TypeOK, ThreadOK, LockSteps, QueueSteps, RangeSteps, TimeOut
  <2> QED
    BY <1>14, <2>1, ThreadFrame DEF TypeOK, TimeOut
<1>15. ASSUME NEW t \in Txns, RemoveEdges(t) PROVE ThreadState'
  <2>1. ThreadOK(t)'
    BY <1>0, <1>15 DEF TypeOK, ThreadOK, LockSteps, QueueSteps, RangeSteps, RemoveEdges
  <2> QED
    BY <1>15, <2>1, ThreadFrame DEF TypeOK, RemoveEdges
<1>16. ASSUME NEW t \in Txns, Record(t) PROVE ThreadState'
  <2>1. ThreadOK(t)'
    <3>1. call[t] \in Calls /\ call[t].op = "lock"
      BY <1>0, <1>16 DEF ThreadOK, LockSteps, Record
    <3>2. locked_keys'[t] \in SUBSET Keys
      BY <1>16, <3>1 DEF TypeOK, Record, Calls
    <3>3. pc'[t] = "range_check" => scan'[t] \in Scans
      BY <1>16, <3>2, BoundingRangeType DEF TypeOK, Record
    <3>4. pc'[t] \in {"range_check", "count"} /\ call'[t] = call[t]
      BY <1>16 DEF TypeOK, Record
    <3> QED
      BY <3>1, <3>3, <3>4 DEF ThreadOK, LockSteps, QueueSteps, RangeSteps
  <2> QED
    BY <1>16, <2>1, ThreadFrame DEF TypeOK, Record
<1>17. ASSUME NEW t \in Txns, CountLock(t) PROVE ThreadState'
  <2>1. ThreadOK(t)'
    BY <1>0, <1>17 DEF TypeOK, ThreadOK, LockSteps, QueueSteps, RangeSteps, CountLock
  <2> QED
    BY <1>17, <2>1, ThreadFrame DEF TypeOK, CountLock
<1>18. ASSUME NEW t \in Txns, RangeCheck(t) PROVE ThreadState'
  <2>1. ThreadOK(t)'
    BY <1>0, <1>18 DEF TypeOK, ThreadOK, LockSteps, QueueSteps, RangeSteps, RangeCheck, RangeReturn
  <2> QED
    BY <1>18, <2>1, ThreadFrame DEF TypeOK, RangeCheck, RangeReturn
<1>19. ASSUME NEW t \in Txns, NEW k \in Keys, RangeScanKey(t, k) PROVE ThreadState'
  <2>1. ThreadOK(t)'
    BY <1>0, <1>19 DEF TypeOK, ThreadOK, LockSteps, QueueSteps, RangeSteps, RangeScanKey, RangeReturn
  <2> QED
    BY <1>19, <2>1, ThreadFrame DEF TypeOK, RangeScanKey, RangeReturn
<1>20. ASSUME NEW t \in Txns, RangeInsert(t) PROVE ThreadState'
  <2>1. ThreadOK(t)'
    BY <1>0, <1>20 DEF TypeOK, ThreadOK, LockSteps, QueueSteps, RangeSteps, RangeInsert, RangeReturn
  <2> QED
    BY <1>20, <2>1, ThreadFrame DEF TypeOK, RangeInsert, RangeReturn
<1>21. ASSUME NEW t \in Txns, NEW k \in Keys, ReleaseKey(t, k) PROVE ThreadState'
  <2>1. ThreadOK(t)'
    BY <1>0, <1>21 DEF TypeOK, ThreadOK, LockSteps, QueueSteps, RangeSteps, ReleaseKey, HeldKeys, Calls
  <2> QED
    BY <1>21, <2>1, ThreadFrame DEF TypeOK, ReleaseKey
<1>22. ASSUME NEW t \in Txns, NotifyAll(t) PROVE ThreadState'
  <2> SUFFICES ASSUME NEW u \in Txns PROVE ThreadOK(u)'
    BY DEF ThreadState
  <2>1. CASE u = t
    BY <1>0, <1>22, <2>1
    DEF TypeOK, NotifyAll, ThreadOK, HeldKeys, LockSteps, QueueSteps, RangeSteps
  <2>2. CASE u # t
    <3>1. pc'[u] = pc[u] \/ (pc[u] = "wait" /\ pc'[u] = "loop")
      BY <1>22, <2>2 DEF TypeOK, NotifyAll
    <3> QED
      BY <1>0, <1>22, <2>2, <3>1
      DEF TypeOK, NotifyAll, ThreadOK, AlreadyHeld, HeldKeys, LockSteps, QueueSteps, RangeSteps
  <2> QED
    BY <2>1, <2>2
<1>23. ASSUME NEW t \in Txns, ReleaseRanges(t) PROVE ThreadState'
  <2>1. ThreadOK(t)'
    BY <1>0, <1>23 DEF TypeOK, ThreadOK, LockSteps, QueueSteps, RangeSteps, ReleaseRanges
  <2> QED
    BY <1>23, <2>1, ThreadFrame DEF TypeOK, ReleaseRanges
<1>24. ASSUME NEW t \in Txns, Unregister(t) PROVE ThreadState'
  <2>1. ThreadOK(t)'
    BY <1>0, <1>24 DEF TypeOK, ThreadOK, LockSteps, QueueSteps, RangeSteps, Unregister
  <2> QED
    BY <1>24, <2>1, ThreadFrame DEF TypeOK, Unregister
<1>25. CASE DetectDeadlock \/ UNCHANGED vars
  BY <1>25 DEF DetectDeadlock, ThreadState, ThreadOK, AlreadyHeld, HeldKeys
<1> QED
  BY <1>1, <1>2, <1>3, <1>4, <1>5, <1>6, <1>7, <1>8, <1>9, <1>10, <1>11, <1>12,
     <1>13, <1>14, <1>15, <1>16, <1>17, <1>18, <1>19, <1>20, <1>21, <1>22, <1>23, <1>24, <1>25
  DEF Next, Caller, Thread, AllDone

\* Every variable keeps its type, and at each step of its thread a transaction
\* knows what ThreadOK says, for any number of transactions, keys and calls.
THEOREM TypeCorrect == Spec => [](TypeOK /\ ThreadState)
<1>1. Init => TypeOK /\ ThreadState
  BY InitTypes
<1>2. TypeOK /\ ThreadState /\ [Next]_vars => (TypeOK /\ ThreadState)'
  BY TypeStep, ThreadStep
<1> QED
  BY <1>1, <1>2, PTL DEF Spec

\* In particular a thread that goes to queue, in acquire or in upgrade, really
\* asks for more than it holds: the waiting loop may insert without looking.
THEOREM ThreadsKnow == Spec => []ThreadState
BY TypeCorrect, PTL

-----------------------------------------------------------------------------
(***************************************************************************)
(* LockTable implements KeyLocks, and the exclusion of incompatible        *)
(* holders follows from the grants and releases of KeyLocks alone.         *)
(***************************************************************************)

\* try_acquire and the waiting loop grant only what KeyLocks grants.
LEMMA GrantMaps ==
    ASSUME TypeOK, NEW t \in Txns, NEW k \in Keys, NEW m \in LockModes,
           ~AlreadyHeld(t, k, m), is_compatible_with_holders(k, t, m),
           holders' = [holders EXCEPT ![k][t] = m]
    PROVE  Abstract!Next
<1>1. Abstract!Grant(t, k, m)
  BY DEF Abstract!Grant, Abstract!None, Abstract!can_upgrade_to, Abstract!UpgradePairs,
         Abstract!is_compatible, Abstract!CompatiblePairs, None, can_upgrade_to, UpgradePairs,
         is_compatible, CompatiblePairs, AlreadyHeld, is_compatible_with_holders, HoldersOf
<1> QED
  BY <1>1 DEF Abstract!Next, Abstract!LockModes, LockModes

\* The holders maps change in try_acquire, the waiting loop and release only,
\* and there as KeyLocks says.
LEMMA HoldersStep ==
    ASSUME TypeOK, ThreadState, [Next]_vars
    PROVE  [Abstract!Next]_holders
<1> USE DEF shared, escState, locals, history, vars, Goto, Return, CountCall
<1>0. ASSUME NEW t \in Txns PROVE ThreadOK(t)
  BY DEF ThreadState
<1>1. ASSUME NEW t \in Txns, LockKeyTry(t) \/ AcquireTry(t) PROVE [Abstract!Next]_holders
  <2>1. call[t].key \in Keys /\ call[t].mode \in LockModes
    BY <1>0, <1>1 DEF LockKeyTry, AcquireTry, TryAcquire, ThreadOK, LockSteps, Calls
  <2> QED
    BY <1>1, <2>1, GrantMaps DEF LockKeyTry, AcquireTry, TryAcquire
<1>2. ASSUME NEW t \in Txns, LoopGrant(t) PROVE [Abstract!Next]_holders
  <2>1. /\ call[t].key \in Keys /\ call[t].mode \in LockModes
        /\ ~AlreadyHeld(t, call[t].key, call[t].mode)
    BY <1>0, <1>2 DEF LoopGrant, ThreadOK, QueueSteps, Calls
  <2> QED
    BY <1>2, <2>1, GrantMaps DEF LoopGrant
<1>3. ASSUME NEW t \in Txns, NEW k \in Keys, ReleaseKey(t, k) PROVE [Abstract!Next]_holders
  <2>1. holders[k][t] # None
    BY <1>0, <1>3 DEF ReleaseKey, ThreadOK, HeldKeys
  <2> QED
    BY <1>3, <2>1 DEF ReleaseKey, Abstract!Next, Abstract!Drop, Abstract!None, None
<1>4. ASSUME NEW t \in Txns,
             \/ Caller(t) \/ TimeOut(t)
             \/ GetHolders(t) \/ AddEdges(t) \/ Enqueue(t) \/ LoopWait(t) \/ RemoveEdges(t)
             \/ Record(t) \/ CountLock(t)
             \/ RangeCheck(t) \/ (\E k \in Keys : RangeScanKey(t, k)) \/ RangeInsert(t)
             \/ NotifyAll(t) \/ ReleaseRanges(t) \/ Unregister(t)
      PROVE UNCHANGED holders
  BY <1>4 DEF Caller, Register, LockKeyRefused, LockKey, LockRange, UpgradeLock, ReleaseAll,
              TimeOut, GetHolders, AddEdges, Enqueue, LoopWait, RemoveEdges, Record, CountLock,
              RangeCheck, RangeScanKey, RangeInsert, NotifyAll, ReleaseRanges, Unregister
<1>5. CASE DetectDeadlock \/ UNCHANGED vars
  BY <1>5 DEF DetectDeadlock
<1> QED
  BY <1>1, <1>2, <1>3, <1>4, <1>5 DEF Next, Thread, AllDone

\* The holders maps change only by the grants and releases of KeyLocks.
THEOREM KeyLocksImplemented == Spec => ImplementsKeyLocks
<1>1. Init => Abstract!Init
  BY DEF Init, Abstract!Init, Abstract!None, None
<1>2. TypeOK /\ ThreadState /\ [Next]_vars => [Abstract!Next]_holders
  BY HoldersStep
<1> QED
  BY <1>1, <1>2, TypeCorrect, PTL DEF Spec, ImplementsKeyLocks, Abstract!Spec

\* Exclusion is an invariant of grants and releases.
LEMMA ExclusionStep ==
    ASSUME TypeOK, HoldersCompatible, [Abstract!Next]_holders
    PROVE  HoldersCompatible'
<1>1. CASE UNCHANGED holders
  BY <1>1 DEF HoldersCompatible, HoldersOf
<1>2. ASSUME NEW t \in Txns, NEW k \in Keys, NEW m \in LockModes, Abstract!Grant(t, k, m)
      PROVE  HoldersCompatible'
  <2>1. \A j \in Keys : \A u \in Txns :
          holders'[j][u] = IF j = k /\ u = t THEN m ELSE holders[j][u]
    BY <1>2, HoldersUpdate DEF Abstract!Grant
  <2>2. \A u \in Txns \ {t} : holders[k][u] # None => is_compatible(m, holders[k][u])
    BY <1>2 DEF Abstract!Grant, Abstract!None, None, Abstract!is_compatible,
                Abstract!CompatiblePairs, is_compatible, CompatiblePairs
  <2> QED
    BY <2>1, <2>2, CompatibleSymmetric DEF HoldersCompatible, HoldersOf
<1>3. ASSUME NEW t \in Txns, NEW k \in Keys, Abstract!Drop(t, k) PROVE HoldersCompatible'
  <2>1. \A j \in Keys : \A u \in Txns :
          holders'[j][u] = IF j = k /\ u = t THEN None ELSE holders[j][u]
    BY <1>3, HoldersUpdate DEF Abstract!Drop, Abstract!None, None
  <2> QED
    BY <2>1 DEF HoldersCompatible, HoldersOf
<1> QED
  BY <1>1, <1>2, <1>3 DEF Abstract!Next, Abstract!LockModes, LockModes

\* No two transactions ever hold a key in incompatible modes.
THEOREM Exclusion == Spec => []HoldersCompatible
<1>1. Init => HoldersCompatible
  BY DEF Init, HoldersCompatible, HoldersOf
<1>2. TypeOK /\ ThreadState /\ HoldersCompatible /\ [Next]_vars => HoldersCompatible'
  BY HoldersStep, ExclusionStep
<1> QED
  BY <1>1, <1>2, TypeCorrect, PTL DEF Spec

-----------------------------------------------------------------------------
(***************************************************************************)
(* No wakeup is lost.  A grant only makes requests harder to satisfy, so a *)
(* sleeping request becomes satisfiable only by a release, whose thread    *)
(* then stands at notify_all.                                              *)
(***************************************************************************)

\* Granting and upgrading leave a blocked request blocked.
LEMMA GrantKeepsBlocked ==
    ASSUME TypeOK, NEW t \in Txns, NEW k \in Keys, NEW m \in LockModes,
           ~AlreadyHeld(t, k, m),
           holders' = [holders EXCEPT ![k][t] = m],
           NEW u \in Txns, NEW j \in Keys, NEW n \in LockModes,
           is_compatible_with_holders(j, u, n)'
    PROVE  is_compatible_with_holders(j, u, n)
<1>1. \A i \in Keys : \A v \in Txns :
        holders'[i][v] = IF i = k /\ v = t THEN m ELSE holders[i][v]
  BY HoldersUpdate, ZenonT(30)
<1>2. holders[k][t] = None \/ can_upgrade_to(holders[k][t], m)
  BY DEF AlreadyHeld
<1> SUFFICES ASSUME NEW v \in Txns, holders[j][v] # None, v # u
             PROVE  is_compatible(n, holders[j][v])
  BY DEF is_compatible_with_holders, HoldersOf
<1>3. holders'[j][v] # None /\ is_compatible(n, holders'[j][v])
  <2>1. holders'[j][v] # None
    BY <1>1, NoneIsNoMode
  <2> QED
    BY <2>1 DEF is_compatible_with_holders, HoldersOf
<1> QED
  BY <1>1, <1>2, <1>3, UpgradeStrengthens

\* A step of t that neither sleeps nor leaves notify_all, and after which every
\* request that is satisfiable was so before.
LEMMA WakeFrame ==
    ASSUME ThreadState, NoLostWakeup, NEW t \in Txns,
           pc[t] # "notify", pc'[t] # "wait",
           \A u \in Txns \ {t} : pc'[u] = pc[u] /\ call'[u] = call[u],
           \A u \in Txns, j \in Keys, n \in LockModes :
               is_compatible_with_holders(j, u, n)' => is_compatible_with_holders(j, u, n)
    PROVE  NoLostWakeup'
<1> SUFFICES ASSUME NEW u \in Txns, pc'[u] = "wait",
                    is_compatible_with_holders(call[u].key, u, call[u].mode)'
             PROVE  \E v \in Txns : pc'[v] = "notify" /\ call'[v].key = call'[u].key
  BY DEF NoLostWakeup
<1>1. u # t /\ pc[u] = "wait" /\ call'[u] = call[u]
  OBVIOUS
<1>2. call[u].key \in Keys /\ call[u].mode \in LockModes
  BY <1>1 DEF ThreadState, ThreadOK, QueueSteps, Calls
<1>3. is_compatible_with_holders(call[u].key, u, call[u].mode)
  BY <1>1, <1>2 DEF is_compatible_with_holders, HoldersOf
<1> QED
  BY <1>1, <1>3 DEF NoLostWakeup

\* No step of the lock table leaves a satisfiable request asleep, but between
\* the removal of a holder and its notify_all.
LEMMA WakeStep ==
    ASSUME TypeOK, ThreadState, NoLostWakeup, [Next]_vars
    PROVE  NoLostWakeup'
<1> USE DEF shared, escState, locals, history, vars, Goto, Return, CountCall
<1>0. ASSUME NEW t \in Txns PROVE ThreadOK(t)
  BY DEF ThreadState
<1>u. ASSUME UNCHANGED holders, NEW u \in Txns, NEW j \in Keys, NEW n \in LockModes
      PROVE  is_compatible_with_holders(j, u, n)' <=> is_compatible_with_holders(j, u, n)
  BY <1>u DEF is_compatible_with_holders, HoldersOf
<1>1. ASSUME NEW t \in Txns, LockKeyTry(t) \/ AcquireTry(t) PROVE NoLostWakeup'
  <2>1. call[t].key \in Keys /\ call[t].mode \in LockModes
    BY <1>0, <1>1 DEF LockKeyTry, AcquireTry, TryAcquire, ThreadOK, LockSteps, Calls
  <2>2. /\ pc[t] # "notify" /\ pc'[t] # "wait"
        /\ \A u \in Txns \ {t} : pc'[u] = pc[u] /\ call'[u] = call[u]
    BY <1>1 DEF TypeOK, LockKeyTry, AcquireTry, TryAcquire
  <2>3. CASE UNCHANGED holders
    BY <1>u, <2>2, <2>3, WakeFrame
  <2>4. CASE /\ ~AlreadyHeld(t, call[t].key, call[t].mode)
             /\ holders' = [holders EXCEPT ![call[t].key][t] = call[t].mode]
    BY <2>1, <2>2, <2>4, GrantKeepsBlocked, WakeFrame
  <2> QED
    BY <1>1, <2>3, <2>4 DEF LockKeyTry, AcquireTry, TryAcquire
<1>2. ASSUME NEW t \in Txns, LoopGrant(t) PROVE NoLostWakeup'
  <2>1. /\ call[t].key \in Keys /\ call[t].mode \in LockModes
        /\ ~AlreadyHeld(t, call[t].key, call[t].mode)
    BY <1>0, <1>2 DEF LoopGrant, ThreadOK, QueueSteps, Calls
  <2>2. /\ pc[t] # "notify" /\ pc'[t] # "wait"
        /\ \A u \in Txns \ {t} : pc'[u] = pc[u] /\ call'[u] = call[u]
        /\ holders' = [holders EXCEPT ![call[t].key][t] = call[t].mode]
    BY <1>2 DEF TypeOK, LoopGrant
  <2> QED
    BY <2>1, <2>2, GrantKeepsBlocked, WakeFrame
<1>3. ASSUME NEW t \in Txns, LoopWait(t) PROVE NoLostWakeup'
  <2> SUFFICES ASSUME NEW u \in Txns, pc'[u] = "wait",
                      is_compatible_with_holders(call[u].key, u, call[u].mode)'
               PROVE  \E v \in Txns : pc'[v] = "notify" /\ call'[v].key = call'[u].key
    BY DEF NoLostWakeup
  <2>1. is_compatible_with_holders(call[u].key, u, call[u].mode)
    BY <1>3 DEF LoopWait, is_compatible_with_holders, HoldersOf
  <2>2. u # t
    BY <1>3, <2>1 DEF LoopWait
  <2> QED
    BY <1>3, <2>1, <2>2 DEF TypeOK, LoopWait, NoLostWakeup
<1>4. ASSUME NEW t \in Txns, NEW k \in Keys, ReleaseKey(t, k) PROVE NoLostWakeup'
  <2> SUFFICES ASSUME NEW u \in Txns, pc'[u] = "wait",
                      is_compatible_with_holders(call[u].key, u, call[u].mode)'
               PROVE  \E v \in Txns : pc'[v] = "notify" /\ call'[v].key = call'[u].key
    BY DEF NoLostWakeup
  <2>1. /\ pc[t] = "release" /\ pc'[t] = "notify" /\ call'[t].key = k
        /\ \A v \in Txns \ {t} : pc'[v] = pc[v] /\ call'[v] = call[v]
    BY <1>4 DEF TypeOK, ReleaseKey
  <2>2. CASE call[u].key = k
    BY <2>1, <2>2
  <2>3. CASE call[u].key # k
    <3>1. call[u].key \in Keys
      BY <1>0, <2>1 DEF ThreadOK, QueueSteps, Calls
    <3>2. \A v \in Txns : holders'[call[u].key][v] = holders[call[u].key][v]
      BY <1>4, <2>3, <3>1 DEF TypeOK, ReleaseKey
    <3>3. is_compatible_with_holders(call[u].key, u, call[u].mode)
      BY <2>1, <3>2 DEF is_compatible_with_holders, HoldersOf
    <3> QED
      BY <2>1, <3>3 DEF NoLostWakeup
  <2> QED
    BY <2>2, <2>3
<1>5. ASSUME NEW t \in Txns, NotifyAll(t) PROVE NoLostWakeup'
  <2> SUFFICES ASSUME NEW u \in Txns, pc'[u] = "wait",
                      is_compatible_with_holders(call[u].key, u, call[u].mode)'
               PROVE  \E v \in Txns : pc'[v] = "notify" /\ call'[v].key = call'[u].key
    BY DEF NoLostWakeup
  <2>1. pc[u] = "wait" /\ u # t /\ call'[u] = call[u] /\ call[u].key # call[t].key
    BY <1>5 DEF TypeOK, NotifyAll
  <2>2. is_compatible_with_holders(call[u].key, u, call[u].mode)
    BY <1>5, <2>1 DEF NotifyAll, is_compatible_with_holders, HoldersOf
  <2> QED
    BY <1>5, <2>1, <2>2 DEF TypeOK, NotifyAll, NoLostWakeup
<1>6. ASSUME NEW t \in Txns,
             \/ Caller(t) \/ TimeOut(t)
             \/ GetHolders(t) \/ AddEdges(t) \/ Enqueue(t) \/ RemoveEdges(t)
             \/ Record(t) \/ CountLock(t)
             \/ RangeCheck(t) \/ (\E k \in Keys : RangeScanKey(t, k)) \/ RangeInsert(t)
             \/ ReleaseRanges(t) \/ Unregister(t)
      PROVE NoLostWakeup'
  <2>1. UNCHANGED holders
    BY <1>6 DEF Caller, Register, LockKeyRefused, LockKey, LockRange, UpgradeLock, ReleaseAll,
                TimeOut, GetHolders, AddEdges, Enqueue, RemoveEdges, Record, CountLock,
                RangeCheck, RangeScanKey, RangeInsert, ReleaseRanges, Unregister
  <2>2. pc[t] # "notify" /\ pc'[t] # "wait"
    BY <1>6 DEF TypeOK, Caller, Register, LockKeyRefused, LockKey, LockRange, UpgradeLock,
                ReleaseAll, TimeOut, GetHolders, AddEdges, Enqueue, RemoveEdges, Record, CountLock,
                RangeCheck, RangeReturn, RangeScanKey, RangeInsert, ReleaseRanges, Unregister
  <2>3. \A u \in Txns \ {t} : pc'[u] = pc[u] /\ call'[u] = call[u]
    BY <1>6 DEF TypeOK, Caller, Register, LockKeyRefused, LockKey, LockRange, UpgradeLock,
                ReleaseAll, TimeOut, GetHolders, AddEdges, Enqueue, RemoveEdges, Record, CountLock,
                RangeCheck, RangeReturn, RangeScanKey, RangeInsert, ReleaseRanges, Unregister
  <2> QED
    BY <1>u, <2>1, <2>2, <2>3, WakeFrame
<1>7. CASE DetectDeadlock \/ UNCHANGED vars
  BY <1>7 DEF DetectDeadlock, NoLostWakeup, is_compatible_with_holders, HoldersOf
<1> QED
  BY <1>1, <1>2, <1>3, <1>4, <1>5, <1>6, <1>7 DEF Next, Thread, AllDone

\* A thread never sleeps on a request that could be granted, unless a release
\* of that key is on its way to notify_all.
THEOREM WakeupsKept == Spec => []NoLostWakeup
<1>1. Init => NoLostWakeup
  BY DEF Init, NoLostWakeup
<1>2. TypeOK /\ ThreadState /\ NoLostWakeup /\ [Next]_vars => NoLostWakeup'
  BY WakeStep
<1> QED
  BY <1>1, <1>2, TypeCorrect, PTL DEF Spec

-----------------------------------------------------------------------------
(***************************************************************************)
(* Whose step it is.  A thread changes what belongs to its own transaction *)
(* and, beyond that, only wakes sleepers (notify_all) and drops edges to   *)
(* itself (unregister_txn); every invariant below rests on this.           *)
(***************************************************************************)
Own(t) == Caller(t) \/ Thread(t) \/ TimeOut(t)

LeftAlone(u) ==
    /\ pc'[u] = pc[u] \/ (pc[u] = "wait" /\ pc'[u] = "loop")
    /\ call'[u] = call[u] /\ scan'[u] = scan[u]
    /\ seen'[u] = seen[u] /\ todo'[u] = todo[u]
    /\ guards'[u] = guards[u]
    /\ edges'[u] \subseteq edges[u]
    /\ u \in txn_info' <=> u \in txn_info
    /\ \A k \in Keys : /\ holders'[k][u] = holders[k][u]
                       /\ u \in wait_queue'[k] <=> u \in wait_queue[k]
    /\ \A e \in RangeLocks : e.txn = u => (e \in range_locks' <=> e \in range_locks)

\* No operation of the lock table writes into another transaction's state, but
\* for the wakeups of notify_all and the edges remove_all_waits drops.
LEMMA OthersLeftAlone ==
    ASSUME TypeOK, ThreadState, NEW t \in Txns, Own(t), NEW u \in Txns \ {t}
    PROVE  LeftAlone(u)
<1> USE DEF TypeOK, shared, escState, locals, history, Goto, Return, CountCall, LeftAlone
<1>1. CASE Caller(t)
  BY <1>1 DEF Caller, Register, LockKeyRefused, LockKey, LockRange, UpgradeLock, ReleaseAll
<1>2. CASE LockKeyTry(t) \/ AcquireTry(t)
  <2>1. call[t].key \in Keys /\ call[t].mode \in LockModes
    BY <1>2 DEF LockKeyTry, AcquireTry, TryAcquire, ThreadState, ThreadOK, LockSteps, Calls
  <2>2. \/ UNCHANGED holders
        \/ holders' = [holders EXCEPT ![call[t].key][t] = call[t].mode]
    BY <1>2 DEF LockKeyTry, AcquireTry, TryAcquire
  <2>3. \A k \in Keys : holders'[k][u] = holders[k][u]
    BY <2>1, <2>2, HoldersUpdate
  <2> QED
    BY <1>2, <2>3 DEF LockKeyTry, AcquireTry, TryAcquire
<1>3. CASE GetHolders(t) \/ AddEdges(t) \/ Enqueue(t)
  BY <1>3, SMTT(40) DEF GetHolders, AddEdges, AddWaitEdges, Enqueue
<1>8. CASE LoopGrant(t)
  <2>1. call[t].key \in Keys /\ call[t].mode \in LockModes
    BY <1>8 DEF LoopGrant, ThreadState, ThreadOK, QueueSteps, Calls
  <2>2. /\ \A k \in Keys : holders'[k][u] = holders[k][u]
        /\ \A k \in Keys : u \in wait_queue'[k] <=> u \in wait_queue[k]
    BY <1>8, <2>1, HoldersUpdate DEF LoopGrant, RemoveFromQueue
  <2> QED
    BY <1>8, <2>2 DEF LoopGrant
<1>9. CASE LoopWait(t) \/ RemoveEdges(t)
  BY <1>9 DEF LoopWait, RemoveEdges, RemoveWaitEdges
<1>10. CASE TimeOut(t)
  <2>1. \A k \in Keys : u \in wait_queue'[k] <=> u \in wait_queue[k]
    BY <1>10 DEF TimeOut, RemoveFromQueue
  <2> QED
    BY <1>10, <2>1 DEF TimeOut
<1>4. CASE Record(t) \/ CountLock(t)
  BY <1>4 DEF Record, CountLock
<1>5. CASE RangeCheck(t) \/ (\E k \in Keys : RangeScanKey(t, k)) \/ RangeInsert(t)
  BY <1>5 DEF RangeCheck, RangeScanKey, RangeInsert, RangeReturn
<1>6. CASE (\E k \in Keys : ReleaseKey(t, k)) \/ NotifyAll(t)
  BY <1>6 DEF ReleaseKey, NotifyAll
<1>7. CASE ReleaseRanges(t) \/ Unregister(t)
  BY <1>7 DEF ReleaseRanges, Unregister, DropTxn
<1> QED
  BY <1>1, <1>2, <1>3, <1>4, <1>5, <1>6, <1>7, <1>8, <1>9, <1>10 DEF Own, Thread

\* The steps that are no thread's change nothing but the abort channel.
LEMMA OtherSteps ==
    ASSUME [Next]_vars
    PROVE  \/ \E t \in Txns : Own(t)
           \/ UNCHANGED <<holders, wait_queue, range_locks, edges, txn_info, lock_count,
                          escState, pc, locals, history>>
BY DEF Next, DetectDeadlock, AllDone, Own, vars, shared

-----------------------------------------------------------------------------
(***************************************************************************)
(* Wait edges.  lock_key adds one edge to each holder of its snapshot and  *)
(* takes back the same ones; what makes the property inductive is that the *)
(* snapshot (the local seen) survives until then, although an upgrade uses *)
(* the same waiting loop and returns from inside it.                       *)
(***************************************************************************)
Blocked(t) ==
    \/ pc[t] \in {"acquire", "granted", "timedout"}
    \/ pc[t] \in QueueSteps /\ call[t].op = "lock"

EdgesOK(t) ==
    /\ IF Blocked(t) THEN edges[t] \subseteq seen[t] ELSE edges[t] = {}
    /\ t \notin edges[t]

EdgesInv == \A t \in Txns : EdgesOK(t)

\* AddEdges, RemoveEdges and the returns of the waiting loop keep the edges
\* of a transaction inside the snapshot it is blocked on.
LEMMA EdgesStep ==
    ASSUME TypeOK, ThreadState, EdgesInv, [Next]_vars
    PROVE  EdgesInv'
<1> USE DEF shared, escState, locals, history, Goto, Return, CountCall
<1>1. ASSUME NEW t \in Txns, Own(t) PROVE EdgesOK(t)'
  <2>0. EdgesOK(t) /\ ThreadOK(t)
    BY DEF EdgesInv, ThreadState
  <2> USE DEF TypeOK
  <2>1. CASE Caller(t)
    BY <1>1, <2>0, <2>1 DEF Caller, Register, LockKeyRefused, LockKey, LockRange, UpgradeLock,
       ReleaseAll, EdgesOK, Blocked, QueueSteps
  <2>2. CASE LockKeyTry(t) \/ AcquireTry(t)
    BY <2>0, <2>2 DEF LockKeyTry, AcquireTry, TryAcquire, EdgesOK, Blocked, QueueSteps,
       ThreadOK, LockSteps
  <2>3. CASE GetHolders(t) \/ AddEdges(t)
    BY <2>0, <2>3 DEF GetHolders, AddEdges, AddWaitEdges, EdgesOK, Blocked, QueueSteps
  <2>4. CASE Enqueue(t) \/ LoopWait(t)
    BY <2>0, <2>4 DEF Enqueue, LoopWait, EdgesOK, Blocked, QueueSteps
  <2>5. CASE LoopGrant(t) \/ TimeOut(t)
    BY <2>0, <2>5 DEF LoopGrant, TimeOut, EdgesOK, Blocked, QueueSteps, ThreadOK, Calls
  <2>6. CASE RemoveEdges(t)
    BY <2>0, <2>6 DEF RemoveEdges, RemoveWaitEdges, EdgesOK, Blocked, QueueSteps
  <2>7. CASE Record(t) \/ CountLock(t) \/ RangeCheck(t)
             \/ (\E k \in Keys : RangeScanKey(t, k)) \/ RangeInsert(t)
    BY <2>0, <2>7 DEF Record, CountLock, RangeCheck, RangeScanKey, RangeInsert, RangeReturn,
       EdgesOK, Blocked, QueueSteps
  <2>8. CASE (\E k \in Keys : ReleaseKey(t, k)) \/ NotifyAll(t) \/ ReleaseRanges(t)
             \/ Unregister(t)
    BY <2>0, <2>8 DEF ReleaseKey, NotifyAll, ReleaseRanges, Unregister, DropTxn,
       EdgesOK, Blocked, QueueSteps
  <2> QED
    BY <1>1, <2>1, <2>2, <2>3, <2>4, <2>5, <2>6, <2>7, <2>8 DEF Own, Thread
<1>2. ASSUME NEW t \in Txns, Own(t), NEW u \in Txns \ {t} PROVE EdgesOK(u)'
  BY <1>2, OthersLeftAlone DEF EdgesInv, EdgesOK, Blocked, QueueSteps, LeftAlone
<1>3. CASE UNCHANGED <<edges, seen, pc, call>>
  BY <1>3 DEF EdgesInv, EdgesOK, Blocked, QueueSteps
<1> QED
  BY <1>1, <1>2, <1>3, OtherSteps DEF EdgesInv

\* EdgesInv holds in every reachable state.
LEMMA EdgesInvariant == Spec => []EdgesInv
<1>1. Init => EdgesInv
  BY DEF Init, EdgesInv, EdgesOK, Blocked, QueueSteps
<1>2. TypeOK /\ ThreadState /\ EdgesInv /\ [Next]_vars => EdgesInv'
  BY EdgesStep
<1> QED
  BY <1>1, <1>2, TypeCorrect, PTL DEF Spec

\* A transaction waits for somebody in the graph only while it is inside a
\* blocked lock_key: every edge is taken back on success and on timeout.
THEOREM EdgesTakenBack == Spec => []EdgesOnlyWhileBlocked
<1>1. EdgesInv => EdgesOnlyWhileBlocked
  BY DEF EdgesInv, EdgesOK, Blocked, QueueSteps, EdgesOnlyWhileBlocked
<1> QED
  BY <1>1, EdgesInvariant, PTL

-----------------------------------------------------------------------------
(***************************************************************************)
(* What release_all leaves.  It never touches a wait queue and looks for   *)
(* locks once, so that nothing is left rests on where a transaction can    *)
(* stand in a queue, and on its holdings growing only inside its calls.    *)
(***************************************************************************)
LeavesOK(t) ==
    /\ \A k \in Keys : t \in wait_queue[k] => pc[t] \in {"loop", "wait"} /\ call[t].key = k
    /\ pc[t] \in {"unregister", "done"} =>
          HeldKeys(t) = {} /\ \A e \in range_locks : e.txn # t
    /\ pc[t] = "done" => t \notin txn_info

LeavesInv == \A t \in Txns : LeavesOK(t)

\* A queue entry goes when its wait ends, granted or timed out, and a
\* transaction that gave its locks back acquires no more.
LEMMA LeavesStep ==
    ASSUME TypeOK, ThreadState, LeavesInv, [Next]_vars
    PROVE  LeavesInv'
<1> USE DEF shared, escState, locals, history, Goto, Return, CountCall
<1>1. ASSUME NEW t \in Txns, Own(t) PROVE LeavesOK(t)'
  <2>0. LeavesOK(t) /\ ThreadOK(t)
    BY DEF LeavesInv, ThreadState
  <2> USE DEF TypeOK
  <2>1. CASE Caller(t)
    <3>1. pc[t] \in {"new", "idle"} /\ pc'[t] \notin {"unregister", "done"}
      BY <2>1 DEF Caller, Register, LockKeyRefused, LockKey, LockRange, UpgradeLock, ReleaseAll
    <3>2. UNCHANGED wait_queue
      BY <2>1 DEF Caller, Register, LockKeyRefused, LockKey, LockRange, UpgradeLock, ReleaseAll
    <3> QED BY <2>0, <3>1, <3>2 DEF LeavesOK
  <2>2. CASE LockKeyTry(t) \/ AcquireTry(t)
    BY <2>0, <2>2 DEF LockKeyTry, AcquireTry, TryAcquire, LeavesOK
  <2>3. CASE GetHolders(t) \/ AddEdges(t) \/ RemoveEdges(t)
    BY <2>0, <2>3, SMTT(40) DEF GetHolders, AddEdges, RemoveEdges, LeavesOK
  <2>4. CASE Enqueue(t) \/ LoopWait(t)
    BY <2>0, <2>4 DEF Enqueue, LoopWait, LeavesOK, ThreadOK, QueueSteps, Calls
  <2>5. CASE LoopGrant(t) \/ TimeOut(t)
    <3>1. \A k \in Keys : t \notin wait_queue'[k]
      BY <2>0, <2>5, SMTT(40) DEF LoopGrant, TimeOut, RemoveFromQueue, LeavesOK
    <3>2. pc'[t] \notin {"unregister", "done"}
      BY <2>5 DEF LoopGrant, TimeOut
    <3> QED BY <3>1, <3>2 DEF LeavesOK
  <2>7. CASE Record(t) \/ CountLock(t) \/ RangeCheck(t)
             \/ (\E k \in Keys : RangeScanKey(t, k)) \/ RangeInsert(t)
    BY <2>0, <2>7 DEF Record, CountLock, RangeCheck, RangeScanKey, RangeInsert, RangeReturn,
       LeavesOK
  <2>8. CASE (\E k \in Keys : ReleaseKey(t, k)) \/ NotifyAll(t)
    BY <2>0, <2>8, SMTT(40) DEF ReleaseKey, NotifyAll, LeavesOK
  <2>9. CASE ReleaseRanges(t)
    BY <2>0, <2>9 DEF ReleaseRanges, LeavesOK, ThreadOK, HeldKeys
  <2>10. CASE Unregister(t)
    BY <2>0, <2>10 DEF Unregister, LeavesOK, HeldKeys
  <2> QED
    BY <1>1, <2>1, <2>2, <2>3, <2>4, <2>5, <2>7, <2>8, <2>9, <2>10 DEF Own, Thread
<1>2. ASSUME NEW t \in Txns, Own(t), NEW u \in Txns \ {t} PROVE LeavesOK(u)'
  <2>1. LeavesOK(u) /\ LeftAlone(u) /\ range_locks' \subseteq RangeLocks
    BY <1>2, OthersLeftAlone, TypeStep DEF LeavesInv, TypeOK
  <2> QED
    BY <2>1 DEF LeavesOK, LeftAlone, HeldKeys
<1>3. CASE UNCHANGED <<holders, wait_queue, range_locks, txn_info, pc, call>>
  BY <1>3 DEF LeavesInv, LeavesOK, HeldKeys
<1> QED
  BY <1>1, <1>2, <1>3, OtherSteps DEF LeavesInv

\* LeavesInv holds in every reachable state.
LEMMA LeavesInvariant == Spec => []LeavesInv
<1>1. Init => LeavesInv
  BY DEF Init, LeavesInv, LeavesOK
<1>2. TypeOK /\ ThreadState /\ LeavesInv /\ [Next]_vars => LeavesInv'
  BY LeavesStep
<1> QED
  BY <1>1, <1>2, TypeCorrect, PTL DEF Spec

\* After release_all nothing of a transaction is left in the lock table, the
\* range tree, the wait queues or the wait-for graph, however its calls ended.
THEOREM NothingLeft == Spec => []DoneLeavesNothing
<1>1. LeavesInv /\ EdgesInv => DoneLeavesNothing
  BY DEF LeavesInv, LeavesOK, EdgesInv, EdgesOK, Blocked, QueueSteps, DoneLeavesNothing
<1> QED
  BY <1>1, LeavesInvariant, EdgesInvariant, PTL

-----------------------------------------------------------------------------
(***************************************************************************)
(* What a LockGuard is worth.  try_acquire reports success without a grant *)
(* when the mode held cannot be upgraded to the one requested; that is     *)
(* sound only if the mode held is then the stronger of the two.  S and IX  *)
(* are the pair for which it is not, so callers must not mix them.         *)
(***************************************************************************)
ModesComparable ==
    \A m, n \in Modes \cup {"X"} : can_upgrade_to(m, n) \/ Covers(m, n)

\* A stronger mode still covers what the weaker one did.
LEMMA UpgradeCovers ==
    ASSUME NEW a \in LockModes, NEW b \in LockModes, can_upgrade_to(a, b),
           NEW n, Covers(a, n)
    PROVE  Covers(b, n)
BY UpgradeStrengthens DEF Covers

\* The modes in a transaction's holdings and requests are those callers may
\* ask for, and where lock_key has succeeded the key is held accordingly.
PromiseOK(t) ==
    /\ \A k \in Keys : holders[k][t] \in Modes \cup {"X", None}
    /\ (pc[t] \in LockSteps \cup QueueSteps \/ (pc[t] \in RangeSteps /\ call[t] # NoCall)) =>
           call[t].mode \in Modes \cup {"X"}
    /\ (pc[t] \in {"granted", "record", "count"} \/ (pc[t] \in RangeSteps /\ call[t] # NoCall)) =>
           Covers(holders[call[t].key][t], call[t].mode)
    /\ \A g \in guards[t] : Covers(holders[g.key][t], g.mode)
    /\ pc[t] \in {"release", "notify", "unregister", "done"} => guards[t] = {}

PromiseInv == \A t \in Txns : PromiseOK(t)

\* A grant keeps the earlier promises of the same transaction.
LEMMA GrantKeepsPromises ==
    ASSUME TypeOK, NEW t \in Txns, NEW k \in Keys, NEW m \in LockModes,
           ~AlreadyHeld(t, k, m), holders' = [holders EXCEPT ![k][t] = m],
           NEW j \in Keys, NEW n, Covers(holders[j][t], n)
    PROVE  Covers(holders'[j][t], n)
<1>1. holders'[j][t] = IF j = k THEN m ELSE holders[j][t]
  BY HoldersUpdate
<1>2. holders[j][t] \in LockModes
  BY DEF Covers
<1> QED
  BY <1>1, <1>2, UpgradeCovers, NoneIsNoMode DEF AlreadyHeld

\* With comparable modes the early success of try_acquire is a kept promise.
LEMMA AlreadyHeldCovers ==
    ASSUME ModesComparable, NEW t \in Txns, NEW k \in Keys, NEW m \in Modes \cup {"X"},
           PromiseOK(t), AlreadyHeld(t, k, m)
    PROVE  Covers(holders[k][t], m)
<1>1. holders[k][t] \in Modes \cup {"X"}
  BY DEF PromiseOK, AlreadyHeld
<1>2. CASE holders[k][t] = m
  BY <1>2, ConstantsAssumption DEF Covers, LockModes
<1>3. CASE ~can_upgrade_to(holders[k][t], m)
  BY <1>1, <1>3 DEF ModesComparable
<1> QED
  BY <1>2, <1>3 DEF AlreadyHeld

\* Every answer is backed by a holders entry, and no later grant weakens it.
LEMMA PromiseStep ==
    ASSUME ModesComparable, TypeOK, ThreadState, PromiseInv, [Next]_vars
    PROVE  PromiseInv'
<1> USE DEF shared, escState, locals, history, Goto, Return, CountCall
<1>1. ASSUME NEW t \in Txns, Own(t) PROVE PromiseOK(t)'
  <2>0. PromiseOK(t) /\ ThreadOK(t) /\ guards[t] \subseteq Guards
    BY DEF PromiseInv, ThreadState, TypeOK
  <2>a. ASSUME NEW k \in Keys, NEW m \in Modes \cup {"X"},
               ~AlreadyHeld(t, k, m), holders' = [holders EXCEPT ![k][t] = m]
        PROVE  /\ \A j \in Keys : holders'[j][t] \in Modes \cup {"X", None}
               /\ Covers(holders'[k][t], m)
               /\ \A g \in guards[t] : Covers(holders'[g.key][t], g.mode)
    <3>1. m \in LockModes
      BY ConstantsAssumption DEF LockModes
    <3>2. \A j \in Keys : holders'[j][t] = IF j = k THEN m ELSE holders[j][t]
      BY <2>a, <3>1, HoldersUpdate
    <3>3. \A g \in guards[t] : Covers(holders'[g.key][t], g.mode)
      BY <2>0, <2>a, <3>1, GrantKeepsPromises DEF PromiseOK, Guards
    <3> QED BY <2>0, <3>1, <3>2, <3>3 DEF PromiseOK, Covers
  <2>1. CASE Caller(t)
    <3>1. ASSUME NEW k \in Keys, UpgradeLock(t, k) PROVE PromiseOK(t)'
      <4>1. CASE pc'[t] = "enqueue" /\ call'[t].mode = "X" /\ UNCHANGED <<holders, guards>>
        BY <2>0, <4>1 DEF PromiseOK, LockSteps, QueueSteps, RangeSteps
      <4>2. CASE /\ pc'[t] = "idle" /\ UNCHANGED holders /\ holders[k][t] = "X"
                 /\ guards'[t] = guards[t] \cup {[key |-> k, mode |-> "X"]}
        BY <2>0, <4>2 DEF PromiseOK, LockSteps, QueueSteps, RangeSteps, Covers, LockModes
      <4>3. CASE UNCHANGED <<holders, pc, call, guards>>
        BY <2>0, <4>3 DEF PromiseOK
      <4> QED
        BY <3>1, <4>1, <4>2, <4>3 DEF TypeOK, UpgradeLock
    <3>2. CASE Register(t) \/ ReleaseAll(t)
      BY <2>0, <3>2 DEF TypeOK, Register, ReleaseAll, PromiseOK, LockSteps, QueueSteps, RangeSteps
    <3>3. ASSUME NEW k \in Keys, NEW m \in Modes, LockKeyRefused(t, k, m) \/ LockKey(t, k, m)
          PROVE  PromiseOK(t)'
      BY <2>0, <3>3 DEF TypeOK, LockKeyRefused, LockKey,
         PromiseOK, LockSteps, QueueSteps, RangeSteps
    <3>4. ASSUME NEW r \in Ranges, NEW m \in Modes, LockRange(t, r, m) PROVE PromiseOK(t)'
      BY <2>0, <3>4 DEF TypeOK, LockRange, ThreadOK, PromiseOK, LockSteps, QueueSteps, RangeSteps
    <3> QED BY <2>1, <3>1, <3>2, <3>3, <3>4 DEF Caller
  <2>2. CASE LockKeyTry(t) \/ AcquireTry(t)
    <3>1. call[t].key \in Keys /\ call[t].mode \in Modes \cup {"X"}
      BY <2>0, <2>2 DEF LockKeyTry, AcquireTry, TryAcquire, ThreadOK, LockSteps, Calls, PromiseOK
    <3>2. /\ UNCHANGED <<call, guards>>
          /\ pc'[t] \in {"record", "granted", "snapshot", "enqueue"}
      BY <2>2 DEF TypeOK, LockKeyTry, AcquireTry, TryAcquire
    <3>3. CASE AlreadyHeld(t, call[t].key, call[t].mode) /\ UNCHANGED holders
      BY <2>0, <3>1, <3>2, <3>3, AlreadyHeldCovers
      DEF PromiseOK, LockSteps, QueueSteps, RangeSteps
    <3>4. CASE /\ ~AlreadyHeld(t, call[t].key, call[t].mode)
               /\ holders' = [holders EXCEPT ![call[t].key][t] = call[t].mode]
      BY <2>0, <2>a, <3>1, <3>2, <3>4 DEF PromiseOK, LockSteps, QueueSteps, RangeSteps
    <3>5. CASE pc'[t] \in {"snapshot", "enqueue"} /\ UNCHANGED holders
      BY <2>0, <3>1, <3>2, <3>5 DEF PromiseOK, LockSteps, QueueSteps, RangeSteps
    <3> QED
      BY <2>2, <3>3, <3>4, <3>5 DEF TypeOK, LockKeyTry, AcquireTry, TryAcquire
  <2>3. CASE GetHolders(t) \/ AddEdges(t) \/ Enqueue(t) \/ LoopWait(t)
    BY <2>0, <2>3 DEF TypeOK, GetHolders, AddEdges, Enqueue, LoopWait,
       PromiseOK, LockSteps, QueueSteps, RangeSteps
  <2>4. CASE RemoveEdges(t) \/ TimeOut(t)
    BY <2>0, <2>4 DEF TypeOK, RemoveEdges, TimeOut, PromiseOK, LockSteps, QueueSteps, RangeSteps
  <2>5. CASE LoopGrant(t)
    <3>1. /\ call[t].key \in Keys /\ call[t].mode \in Modes \cup {"X"}
          /\ ~AlreadyHeld(t, call[t].key, call[t].mode)
      BY <2>0, <2>5 DEF LoopGrant, ThreadOK, QueueSteps, Calls, PromiseOK
    <3>2. /\ \A j \in Keys : holders'[j][t] \in Modes \cup {"X", None}
          /\ Covers(holders'[call[t].key][t], call[t].mode)
          /\ \A g \in guards[t] : Covers(holders'[g.key][t], g.mode)
      BY <2>5, <3>1, <2>a DEF LoopGrant
    <3>3. CASE pc'[t] = "granted" /\ UNCHANGED <<call, guards>>
      BY <3>1, <3>2, <3>3 DEF PromiseOK, LockSteps, QueueSteps, RangeSteps
    <3>4. CASE /\ pc'[t] = "idle"
               /\ guards'[t] = guards[t] \cup {[key |-> call[t].key, mode |-> call[t].mode]}
      BY <3>2, <3>4 DEF PromiseOK, LockSteps, QueueSteps, RangeSteps
    <3> QED
      BY <2>5, <3>3, <3>4 DEF TypeOK, LoopGrant
  <2>6. CASE Record(t)
    BY <2>0, <2>6 DEF TypeOK, Record, PromiseOK, LockSteps, QueueSteps, RangeSteps
  <2>7. CASE CountLock(t)
    <3>1. Covers(holders[call[t].key][t], call[t].mode)
      BY <2>0, <2>7 DEF CountLock, PromiseOK
    <3> QED
      BY <2>0, <2>7, <3>1 DEF TypeOK, CountLock, PromiseOK, LockSteps, QueueSteps, RangeSteps
  <2>8. CASE RangeCheck(t) \/ (\E k \in Keys : RangeScanKey(t, k)) \/ RangeInsert(t)
    BY <2>0, <2>8 DEF TypeOK, RangeCheck, RangeScanKey, RangeInsert, RangeReturn,
       PromiseOK, LockSteps, QueueSteps, RangeSteps
  <2>9. ASSUME NEW k \in Keys, ReleaseKey(t, k) PROVE PromiseOK(t)'
    <3>1. \A j \in Keys : holders'[j][t] = IF j = k THEN None ELSE holders[j][t]
      BY <2>9, HoldersUpdate DEF ReleaseKey
    <3>2. /\ pc[t] = "release" /\ pc'[t] = "notify" /\ UNCHANGED guards
      BY <2>9 DEF TypeOK, ReleaseKey
    <3> QED
      BY <2>0, <3>1, <3>2 DEF PromiseOK, LockSteps, QueueSteps, RangeSteps
  <2>10. CASE NotifyAll(t) \/ ReleaseRanges(t) \/ Unregister(t)
    BY <2>0, <2>10 DEF TypeOK, NotifyAll, ReleaseRanges, Unregister,
       PromiseOK, LockSteps, QueueSteps, RangeSteps
  <2> QED
    BY <1>1, <2>1, <2>2, <2>3, <2>4, <2>5, <2>6, <2>7, <2>8, <2>9, <2>10 DEF Own, Thread
<1>2. ASSUME NEW t \in Txns, Own(t), NEW u \in Txns \ {t} PROVE PromiseOK(u)'
  <2>1. PromiseOK(u) /\ ThreadOK(u) /\ LeftAlone(u) /\ guards[u] \subseteq Guards
    BY <1>2, OthersLeftAlone DEF PromiseInv, ThreadState, TypeOK
  <2> QED
    BY <2>1 DEF PromiseOK, LeftAlone, Guards, ThreadOK, LockSteps, QueueSteps, RangeSteps, Calls
<1>3. CASE UNCHANGED <<holders, pc, call, guards>>
  BY <1>3 DEF PromiseInv, PromiseOK
<1> QED
  BY <1>1, <1>2, <1>3, OtherSteps DEF PromiseInv

\* What lock_key and upgrade_lock answered stays true until release_all, for
\* callers whose modes are comparable: the key is held in a mode at least as
\* strong as the LockGuard says.
THEOREM GuardsHold ==
    ASSUME ModesComparable
    PROVE  Spec => []GrantImpliesHeld
<1>1. Init => PromiseInv
  BY DEF Init, PromiseInv, PromiseOK, LockSteps, QueueSteps, RangeSteps
<1>2. TypeOK /\ ThreadState /\ PromiseInv /\ [Next]_vars => PromiseInv'
  BY PromiseStep
<1>3. PromiseInv => GrantImpliesHeld
  BY DEF PromiseInv, PromiseOK, GrantImpliesHeld
<1> QED
  BY <1>1, <1>2, <1>3, TypeCorrect, PTL DEF Spec

-----------------------------------------------------------------------------
(***************************************************************************)
(* The cycles the detector finds, when every request is exclusive.  The    *)
(* snapshot lock_key makes its edges from is stale when it is used, so an  *)
(* edge can name a transaction that gave the key up since; but by then it  *)
(* is inside release_all and waits for nobody, and is in no cycle.  With   *)
(* shared requests this fails: the snapshot can hold an edge to a new,     *)
(* compatible holder, between the failed try_acquire and the one acquire   *)
(* begins with.                                                            *)
(***************************************************************************)
Leaving(u) == pc[u] \in {"release", "notify", "unregister", "done"}

HeldOrLeaving(k, u) == holders[k][u] # None \/ Leaving(u)

WaitsOK(t) ==
    /\ \A u \in edges[t] : HeldOrLeaving(call[t].key, u)
    /\ pc[t] = "edges" => \A u \in seen[t] : u # t => HeldOrLeaving(call[t].key, u)

WaitsInv == \A t \in Txns : WaitsOK(t)

\* A transaction gives a key up only inside release_all, and does not come back.
LEMMA HeldOrLeavingKept ==
    ASSUME TypeOK, ThreadState, NEW t \in Txns, Own(t), NEW k \in Keys, HeldOrLeaving(k, t)
    PROVE  HeldOrLeaving(k, t)'
<1> USE DEF TypeOK, shared, escState, locals, history, Goto, Return, CountCall,
            HeldOrLeaving, Leaving
<1>0. ThreadOK(t)
  BY DEF ThreadState
<1>1. CASE Caller(t)
  BY <1>1 DEF Caller, Register, LockKeyRefused, LockKey, LockRange, UpgradeLock, ReleaseAll
<1>2. CASE LockKeyTry(t) \/ AcquireTry(t) \/ LoopGrant(t)
  <2>1. call[t].key \in Keys /\ call[t].mode \in LockModes
    BY <1>0, <1>2 DEF LockKeyTry, AcquireTry, TryAcquire, LoopGrant, ThreadOK, LockSteps,
       QueueSteps, Calls
  <2>2. \/ UNCHANGED holders
        \/ holders' = [holders EXCEPT ![call[t].key][t] = call[t].mode]
    BY <1>2 DEF LockKeyTry, AcquireTry, TryAcquire, LoopGrant
  <2>3. holders'[k][t] = holders[k][t] \/ holders'[k][t] = call[t].mode
    BY <2>1, <2>2, HoldersUpdate, SMTT(40)
  <2>4. ~Leaving(t)
    BY <1>2 DEF LockKeyTry, AcquireTry, TryAcquire, LoopGrant
  <2> QED BY <2>1, <2>3, <2>4, NoneIsNoMode
<1>3. CASE GetHolders(t) \/ AddEdges(t) \/ Enqueue(t) \/ LoopWait(t) \/ RemoveEdges(t)
  BY <1>3 DEF GetHolders, AddEdges, Enqueue, LoopWait, RemoveEdges
<1>4. CASE TimeOut(t)
  BY <1>4 DEF TimeOut
<1>5. CASE Record(t) \/ CountLock(t)
  BY <1>5 DEF Record, CountLock
<1>6. CASE RangeCheck(t) \/ (\E j \in Keys : RangeScanKey(t, j)) \/ RangeInsert(t)
  BY <1>6 DEF RangeCheck, RangeScanKey, RangeInsert, RangeReturn
<1>7. CASE (\E j \in Keys : ReleaseKey(t, j)) \/ NotifyAll(t) \/ ReleaseRanges(t)
           \/ Unregister(t)
  BY <1>7 DEF ReleaseKey, NotifyAll, ReleaseRanges, Unregister
<1> QED
  BY <1>1, <1>2, <1>3, <1>4, <1>5, <1>6, <1>7 DEF Own, Thread

\* An edge names a holder of the key waited for, or a transaction inside
\* release_all.
LEMMA WaitsStep ==
    ASSUME TypeOK, ThreadState, EdgesInv, WaitsInv, [Next]_vars
    PROVE  WaitsInv'
<1>1. ASSUME NEW t \in Txns, Own(t), NEW k \in Keys, NEW u \in Txns, HeldOrLeaving(k, u)
      PROVE  HeldOrLeaving(k, u)'
  <2>1. CASE u = t
    BY <1>1, <2>1, HeldOrLeavingKept
  <2>2. CASE u # t
    BY <1>1, <2>2, OthersLeftAlone DEF LeftAlone, HeldOrLeaving, Leaving
  <2> QED BY <2>1, <2>2
<1>2. ASSUME NEW t \in Txns, Own(t), NEW u \in Txns \ {t} PROVE WaitsOK(u)'
  <2>1. /\ LeftAlone(u) /\ WaitsOK(u) /\ EdgesOK(u) /\ ThreadOK(u)
        /\ edges[u] \in SUBSET Txns /\ seen[u] \in SUBSET Txns
    BY <1>2, OthersLeftAlone DEF WaitsInv, EdgesInv, ThreadState, TypeOK
  <2>2. (edges[u] # {} \/ pc[u] = "edges") => call[u].key \in Keys
    BY <2>1 DEF EdgesOK, Blocked, ThreadOK, LockSteps, QueueSteps, Calls
  <2>3. ASSUME NEW v \in edges'[u] PROVE HeldOrLeaving(call[u].key, v)'
    <3>1. v \in edges[u] /\ v \in Txns /\ call'[u] = call[u]
      BY <2>1 DEF LeftAlone
    <3>2. HeldOrLeaving(call[u].key, v)
      BY <2>1, <3>1 DEF WaitsOK
    <3> QED BY <1>1, <1>2, <2>2, <3>1, <3>2 DEF HeldOrLeaving
  <2>4. ASSUME pc'[u] = "edges", NEW v \in seen'[u], v # u PROVE HeldOrLeaving(call[u].key, v)'
    <3>1. pc[u] = "edges" /\ v \in seen[u] /\ v \in Txns /\ call'[u] = call[u]
      BY <2>1, <2>4 DEF LeftAlone
    <3>2. HeldOrLeaving(call[u].key, v)
      BY <2>1, <2>4, <3>1 DEF WaitsOK
    <3> QED BY <1>1, <1>2, <2>2, <3>1, <3>2 DEF HeldOrLeaving
  <2> QED BY <2>3, <2>4 DEF WaitsOK, HeldOrLeaving
<1>3. ASSUME NEW t \in Txns, Own(t) PROVE WaitsOK(t)'
  <2> USE DEF shared, escState, locals, history, Goto, Return, CountCall
  <2>0. /\ WaitsOK(t) /\ EdgesOK(t) /\ ThreadOK(t)
        /\ edges[t] \in SUBSET Txns /\ seen[t] \in SUBSET Txns
    BY DEF WaitsInv, EdgesInv, ThreadState, TypeOK
  <2>1. CASE GetHolders(t)
    <3>1. /\ pc'[t] = "edges" /\ UNCHANGED <<edges, call, holders>> /\ edges[t] = {}
          /\ seen'[t] = HoldersOf(call[t].key)
      BY <2>0, <2>1 DEF TypeOK, GetHolders, EdgesOK, Blocked, QueueSteps
    <3> QED BY <3>1 DEF WaitsOK, HoldersOf, HeldOrLeaving
  <2>2. CASE AddEdges(t)
    <3>1. /\ pc[t] = "edges" /\ pc'[t] = "acquire" /\ UNCHANGED <<call, holders>>
          /\ edges[t] = {} /\ edges'[t] = seen[t] \ {t}
          /\ \A u \in Txns \ {t} : pc'[u] = pc[u]
      BY <2>0, <2>2 DEF TypeOK, AddEdges, AddWaitEdges, EdgesOK, Blocked, QueueSteps
    <3> QED BY <2>0, <3>1 DEF WaitsOK, HeldOrLeaving, Leaving
  <2>3. ASSUME /\ pc'[t] # "edges" /\ edges'[t] \subseteq edges[t]
               /\ edges'[t] # {} => call'[t] = call[t]
        PROVE  WaitsOK(t)'
    <3> SUFFICES ASSUME NEW v \in edges'[t] PROVE HeldOrLeaving(call[t].key, v)'
      BY <2>3 DEF WaitsOK, HeldOrLeaving
    <3>1. v \in edges[t] /\ v \in Txns /\ call'[t] = call[t] /\ call[t].key \in Keys
      BY <2>0, <2>3 DEF EdgesOK, Blocked, ThreadOK, LockSteps, QueueSteps, Calls
    <3>2. HeldOrLeaving(call[t].key, v)
      BY <2>0, <3>1 DEF WaitsOK
    <3> QED BY <1>1, <1>3, <3>1, <3>2 DEF HeldOrLeaving
  <2>4. CASE Caller(t)
    <3>1. edges' = edges /\ edges[t] = {} /\ pc'[t] # "edges"
      BY <2>0, <2>4 DEF TypeOK, Caller, Register, LockKeyRefused, LockKey, LockRange, UpgradeLock,
         ReleaseAll, EdgesOK, Blocked, QueueSteps
    <3> QED BY <2>3, <3>1
  <2>5. CASE LockKeyTry(t) \/ AcquireTry(t) \/ Enqueue(t) \/ LoopWait(t) \/ Record(t)
             \/ RangeCheck(t) \/ (\E k \in Keys : RangeScanKey(t, k)) \/ RangeInsert(t)
    <3>1. edges' = edges /\ call' = call /\ pc'[t] # "edges"
      BY <2>5 DEF TypeOK, LockKeyTry, AcquireTry, TryAcquire, Enqueue, LoopWait, Record,
         RangeCheck, RangeScanKey, RangeInsert, RangeReturn
    <3> QED BY <2>3, <3>1
  <2>6. CASE LoopGrant(t) \/ TimeOut(t)
    <3>1. edges' = edges /\ pc'[t] # "edges" /\ (edges[t] # {} => call'[t] = call[t])
      BY <2>0, <2>6 DEF TypeOK, LoopGrant, TimeOut, EdgesOK, Blocked, QueueSteps, ThreadOK
    <3> QED BY <2>3, <3>1
  <2>7. CASE RemoveEdges(t)
    <3>1. edges'[t] = {} /\ pc'[t] # "edges"
      BY <2>0, <2>7 DEF TypeOK, RemoveEdges, RemoveWaitEdges, EdgesOK, Blocked, QueueSteps
    <3> QED BY <2>3, <3>1
  <2>8. CASE CountLock(t) \/ (\E k \in Keys : ReleaseKey(t, k)) \/ NotifyAll(t)
             \/ ReleaseRanges(t) \/ Unregister(t)
    <3>1. edges'[t] = {} /\ pc'[t] # "edges"
      BY <2>0, <2>8 DEF TypeOK, CountLock, ReleaseKey, NotifyAll, ReleaseRanges, Unregister,
         DropTxn, EdgesOK, Blocked, QueueSteps
    <3> QED BY <2>3, <3>1
  <2> QED
    BY <1>3, <2>1, <2>2, <2>4, <2>5, <2>6, <2>7, <2>8 DEF Own, Thread
<1>4. CASE UNCHANGED <<holders, edges, seen, pc, call>>
  BY <1>4 DEF WaitsInv, WaitsOK, HeldOrLeaving, Leaving
<1> QED
  BY <1>2, <1>3, <1>4, OtherSteps DEF WaitsInv, shared, escState, locals, history

\* A successor is reached.
LEMMA ReachesEdge ==
    ASSUME NEW E, NEW a, NEW b \in E[a]
    PROVE  Reaches(E, a, b)
  BY DEF Reaches

\* And a successor of what is reached.
LEMMA ReachesBeforeEdge ==
    ASSUME NEW E, NEW a, NEW b, NEW c \in E[b], Reaches(E, a, b)
    PROVE  Reaches(E, a, c)
  BY DEF Reaches

\* Reaching is transitive.
LEMMA ReachesTransitive ==
    ASSUME NEW E, NEW a, NEW b, NEW c, Reaches(E, a, b), Reaches(E, b, c)
    PROVE  Reaches(E, a, c)
  BY DEF Reaches

\* What a reaches it reaches through one of its successors.
LEMMA ReachesFirstStep ==
    ASSUME NEW E, NEW a \in DOMAIN E, \A x \in DOMAIN E : E[x] \subseteq DOMAIN E,
           NEW b, Reaches(E, a, b)
    PROVE  \E u \in E[a] : u = b \/ Reaches(E, u, b)
<1> DEFINE C == {x \in DOMAIN E : \E u \in E[a] : u = x \/ Reaches(E, u, x)}
<1>1. \A x \in E[a] : x \in C
  OBVIOUS
<1>2. ASSUME NEW x \in C, NEW y \in E[x] PROVE y \in C
  <2>1. PICK u \in E[a] : u = x \/ Reaches(E, u, x)
    OBVIOUS
  <2>2. Reaches(E, u, y)
    BY <2>1, ReachesEdge, ReachesBeforeEdge
  <2> QED BY <2>2
<1>3. b \in C
  <2> HIDE DEF C
  <2>1. C \in SUBSET DOMAIN E
    BY DEF C
  <2> QED BY <1>1, <1>2, <2>1 DEF Reaches
<1> QED BY <1>3

\* In a strongly connected component every member that has company has a
\* successor in the component, which has successors itself.
LEMMA SccHasEdge ==
    ASSUME NEW E, \A x \in DOMAIN E : E[x] \subseteq DOMAIN E,
           NEW a \in DOMAIN E, NEW t \in Scc(E, a), NEW b \in Scc(E, a), b # t
    PROVE  \E u \in E[t] \cap Scc(E, a) : E[u] # {}
<1>1. t \in DOMAIN E /\ b \in DOMAIN E
  BY DEF Scc
<1>2. Reaches(E, t, b) /\ Reaches(E, b, t)
  BY ReachesTransitive DEF Scc
<1>3. PICK u \in E[t] : u = b \/ Reaches(E, u, b)
  BY <1>1, <1>2, ReachesFirstStep
<1>4. Reaches(E, u, t) /\ Reaches(E, t, u) /\ u \in DOMAIN E
  BY <1>1, <1>2, <1>3, ReachesTransitive, ReachesEdge
<1>5. u \in Scc(E, a)
  <2>1. CASE t = a
    BY <1>4, <2>1 DEF Scc
  <2>2. CASE t # a
    BY <1>4, <2>2, ReachesTransitive DEF Scc
  <2> QED BY <2>1, <2>2
<1>6. E[u] # {}
  <2>1. ASSUME E[u] = {} PROVE t \in {}
    BY <1>4, <2>1 DEF Reaches
  <2> QED BY <2>1
<1> QED BY <1>3, <1>5, <1>6

\* A set with more than one element has two.
LEMMA TwoMembers ==
    ASSUME NEW C, Cardinality(C) > 1, NEW t \in C
    PROVE  \E b \in C : b # t
<1> SUFFICES ASSUME C = {t} PROVE FALSE
  OBVIOUS
<1>1. Cardinality({t}) = 1
  BY FS_Singleton
<1> QED BY <1>1

\* With exclusive requests only, every mode is comparable to every other.
LEMMA ExclusiveComparable ==
    ASSUME Modes \subseteq {"X"}
    PROVE  ModesComparable
BY DEF ModesComparable, Covers, LockModes

\* In a cycle of the wait-for graph every member waits for a key that another
\* member holds in a mode that shuts it out.
LEMMA CyclesAreReal ==
    ASSUME Modes \subseteq {"X"}, TypeOK, ThreadState, EdgesInv, WaitsInv, PromiseInv
    PROVE  DeadlocksAreReal
<1> SUFFICES ASSUME NEW a \in Txns, Cardinality(Scc(edges, a)) > 1, NEW t \in Scc(edges, a)
             PROVE  /\ call[t] # NoCall
                    /\ \E u \in Scc(edges, a) \ {t} :
                          LET held == holders[call[t].key][u]
                          IN  held # None /\ ~is_compatible(call[t].mode, held)
  BY DEF DeadlocksAreReal, Deadlocks, TypeOK
<1>1. PICK b \in Scc(edges, a) : b # t
  BY TwoMembers
<1>2. DOMAIN edges = Txns /\ \A x \in Txns : edges[x] \subseteq Txns
  BY DEF TypeOK
<1>3. PICK u \in edges[t] \cap Scc(edges, a) : edges[u] # {}
  BY <1>1, <1>2, SccHasEdge
<1>4. t \in Txns /\ u \in Txns /\ u # t
  BY <1>2, <1>3 DEF Scc, EdgesInv, EdgesOK
<1>5. /\ call[t] \in Calls /\ call[t].mode = "X"
  BY <1>3, <1>4 DEF EdgesInv, EdgesOK, Blocked, ThreadState, ThreadOK, LockSteps, QueueSteps,
     PromiseInv, PromiseOK
<1>6. ~Leaving(u)
  BY <1>3, <1>4 DEF EdgesInv, EdgesOK, Blocked, Leaving, QueueSteps
<1>7. holders[call[t].key][u] # None
  BY <1>3, <1>4, <1>6 DEF WaitsInv, WaitsOK, HeldOrLeaving
<1>8. ~is_compatible("X", holders[call[t].key][u])
  BY <1>4, <1>5 DEF is_compatible, CompatiblePairs
<1>9. call[t] # NoCall
  BY <1>5 DEF Calls, NoCall
<1> QED BY <1>3, <1>4, <1>5, <1>7, <1>8, <1>9

\* Every deadlock the detector can report between exclusive requests is one.
THEOREM DeadlocksReal ==
    ASSUME Modes \subseteq {"X"}
    PROVE  Spec => []DeadlocksAreReal
<1>1. ModesComparable
  BY ExclusiveComparable
<1>2. Init => WaitsInv /\ PromiseInv
  BY DEF Init, WaitsInv, WaitsOK, PromiseInv, PromiseOK, LockSteps, QueueSteps, RangeSteps
<1>3. TypeOK /\ ThreadState /\ EdgesInv /\ WaitsInv /\ PromiseInv /\ [Next]_vars
        => (WaitsInv /\ PromiseInv)'
  BY <1>1, WaitsStep, PromiseStep
<1>4. TypeOK /\ ThreadState /\ EdgesInv /\ WaitsInv /\ PromiseInv => DeadlocksAreReal
  BY CyclesAreReal
<1> QED
  BY <1>2, <1>3, <1>4, TypeCorrect, EdgesInvariant, PTL DEF Spec

-----------------------------------------------------------------------------
(***************************************************************************)
(* Range locks against key locks.  lock_key and lock_range each look at    *)
(* one structure, let go of it and insert into the other, so all that can  *)
(* be shown of one call is what it knew when it looked: a conflict that    *)
(* arose since is another call's, made while this one was under way.       *)
(* Clash collects those moments for two transactions; the invariant says   *)
(* that each needs overlapping calls.  Requests are exclusive: an upgrade, *)
(* which only a shared holder can ask for, does not look at range locks.   *)
(***************************************************************************)

\* Between the range check of lock_key and its insertion into the holders.
Asking(t) == pc[t] \in {"try", "snapshot", "edges", "acquire", "enqueue", "loop", "wait"}

Clash(t, u) ==
    \/ InCall(t) /\ InCall(u)
    \/ /\ pc[t] = "range_keys"
       /\ \/ \E f \in range_locks :
                f.txn = u /\ overlaps(f.range, scan[t].range.start, scan[t].range.end)
          \/ \E k \in Keys \ todo[t] : contains_key(scan[t].range, k) /\ holders[k][u] # None
    \/ /\ Asking(t)
       /\ \E e \in range_locks : e.txn = u /\ OverlapsKey(e.range, call[t].key)
    \/ RangeConflict(t, u)

OverlapInv == \A t, u \in Txns : (t # u /\ Clash(t, u)) => {t, u} \in overlapped

\* With exclusive requests every lock is exclusive and nobody queues to upgrade.
ExclusiveOK(t) ==
    /\ pc[t] \in RangeSteps => scan[t].mode = "X" /\ enable_range_locks
    /\ pc[t] \in QueueSteps => call[t].op = "lock"

ExclusiveInv ==
    /\ \A t \in Txns : ExclusiveOK(t)
    /\ \A e \in range_locks : e.mode = "X" /\ enable_range_locks

\* Only lock_range and escalation make range requests, and only a holder of a
\* weaker mode queues to upgrade.
LEMMA ExclusiveStep ==
    ASSUME Modes \subseteq {"X"}, TypeOK, ThreadState, PromiseInv, ExclusiveInv, [Next]_vars
    PROVE  ExclusiveInv'
<1> USE DEF shared, escState, locals, history, Goto, Return, CountCall
<1>1. ASSUME NEW t \in Txns, Own(t)
      PROVE  ExclusiveOK(t)' /\ \A e \in range_locks' : e.mode = "X" /\ enable_range_locks
  <2>0. /\ ExclusiveOK(t) /\ ThreadOK(t) /\ PromiseOK(t)
        /\ \A e \in range_locks : e.mode = "X" /\ enable_range_locks
    BY DEF ExclusiveInv, ThreadState, PromiseInv
  <2> USE DEF TypeOK
  <2>1. CASE Register(t) \/ ReleaseAll(t)
    BY <2>0, <2>1 DEF Register, ReleaseAll, ExclusiveOK, RangeSteps, QueueSteps
  <2>2. ASSUME NEW k \in Keys, NEW m \in Modes, LockKeyRefused(t, k, m) \/ LockKey(t, k, m)
        PROVE  ExclusiveOK(t)' /\ range_locks' = range_locks
    BY <2>0, <2>2 DEF LockKeyRefused, LockKey, ExclusiveOK, RangeSteps, QueueSteps
  <2>3. ASSUME NEW r \in Ranges, NEW m \in Modes, LockRange(t, r, m)
        PROVE  ExclusiveOK(t)' /\ range_locks' = range_locks
    BY <2>0, <2>3 DEF LockRange, ExclusiveOK, RangeSteps, QueueSteps
  <2>4. ASSUME NEW k \in Keys, UpgradeLock(t, k)
        PROVE  ExclusiveOK(t)' /\ range_locks' = range_locks
    <3>1. ~can_upgrade_to(holders[k][t], "X")
      BY <2>0 DEF PromiseOK, can_upgrade_to, UpgradePairs, None
    <3> QED BY <2>0, <2>4, <3>1 DEF UpgradeLock, ExclusiveOK, RangeSteps, QueueSteps
  <2>5. CASE LockKeyTry(t) \/ AcquireTry(t) \/ GetHolders(t) \/ AddEdges(t) \/ Enqueue(t)
    BY <2>0, <2>5 DEF LockKeyTry, AcquireTry, TryAcquire, GetHolders, AddEdges, Enqueue,
       ExclusiveOK, RangeSteps, QueueSteps, ThreadOK, LockSteps, PromiseOK
  <2>6. CASE LoopGrant(t) \/ LoopWait(t) \/ TimeOut(t) \/ RemoveEdges(t)
    BY <2>0, <2>6 DEF LoopGrant, LoopWait, TimeOut, RemoveEdges, ExclusiveOK, RangeSteps,
       QueueSteps
  <2>7. CASE Record(t) \/ CountLock(t)
    BY <2>0, <2>7 DEF Record, CountLock, ExclusiveOK, RangeSteps, QueueSteps
  <2>8. CASE RangeCheck(t) \/ (\E k \in Keys : RangeScanKey(t, k)) \/ RangeInsert(t)
    BY <2>0, <2>8 DEF RangeCheck, RangeScanKey, RangeInsert, RangeReturn,
       ExclusiveOK, RangeSteps, QueueSteps
  <2>9. CASE (\E k \in Keys : ReleaseKey(t, k)) \/ NotifyAll(t) \/ ReleaseRanges(t)
             \/ Unregister(t)
    BY <2>0, <2>9 DEF ReleaseKey, NotifyAll, ReleaseRanges, Unregister,
       ExclusiveOK, RangeSteps, QueueSteps
  <2> QED
    BY <1>1, <2>0, <2>1, <2>2, <2>3, <2>4, <2>5, <2>6, <2>7, <2>8, <2>9 DEF Own, Caller, Thread
<1>2. ASSUME NEW t \in Txns, Own(t), NEW u \in Txns \ {t} PROVE ExclusiveOK(u)'
  BY <1>2, OthersLeftAlone DEF ExclusiveInv, ExclusiveOK, LeftAlone, RangeSteps, QueueSteps
<1>3. CASE UNCHANGED <<range_locks, scan, pc, call>>
  BY <1>3 DEF ExclusiveInv, ExclusiveOK
<1> QED
  BY <1>1, <1>2, <1>3, OtherSteps DEF ExclusiveInv

\* What a step of t does to what t itself holds and knows, in the terms of
\* Clash: how it gains a key, how it gains a range lock, ...
GainsKey(t) ==
    \A k \in Keys : holders'[k][t] # None =>
        \/ holders[k][t] # None
        \/ Asking(t) /\ call[t].key = k

GainsRange(t) ==
    \A e \in range_locks' : e.txn = t =>
        \/ e \in range_locks
        \/ pc[t] = "range_keys" /\ todo[t] = {} /\ e.range = scan[t].range

\* ... what it knows of the range locks when it asks for a key ...
AsksKey(t) ==
    Asking(t)' => \/ Asking(t) /\ call'[t] = call[t]
                  \/ \A e \in range_locks : e.txn # t => ~OverlapsKey(e.range, call'[t].key)

\* ... and of the range locks and the keys when it asks for a range.
AsksRange(t) ==
    pc'[t] = "range_keys" =>
        \/ /\ pc[t] = "range_keys" /\ scan'[t] = scan[t]
           /\ \A k \in Keys \ todo'[t] :
                 k \in todo[t] => \A u \in Txns \ {t} : holders[k][u] = None
        \/ /\ \A f \in range_locks :
                 f.txn # t => ~overlaps(f.range, scan'[t].range.start, scan'[t].range.end)
           /\ \A k \in Keys : contains_key(scan'[t].range, k) => k \in todo'[t]

\* Keys are taken by try_acquire and the waiting loop, ranges by the insertion
\* that ends lock_range; each after the checks that lead there.
LEMMA OwnEffects ==
    ASSUME Modes \subseteq {"X"}, TypeOK, ThreadState, PromiseInv, ExclusiveInv,
           NEW t \in Txns, Own(t)
    PROVE  GainsKey(t) /\ GainsRange(t) /\ AsksKey(t) /\ AsksRange(t)
<1> USE DEF shared, escState, locals, history, Goto, Return, CountCall, TypeOK
<1>0. /\ ExclusiveOK(t) /\ ThreadOK(t)
      /\ \A e \in range_locks : e.mode = "X" /\ enable_range_locks
      /\ \A k \in Keys, u \in Txns : holders[k][u] \in {"X", None}
  BY DEF ExclusiveInv, ThreadState, PromiseInv, PromiseOK
<1>x. ~is_compatible("X", "X")
  BY DEF is_compatible, CompatiblePairs
<1>1. ASSUME UNCHANGED <<holders, range_locks>>, ~Asking(t)', pc'[t] # "range_keys"
      PROVE  GainsKey(t) /\ GainsRange(t) /\ AsksKey(t) /\ AsksRange(t)
  BY <1>1 DEF GainsKey, GainsRange, AsksKey, AsksRange
<1>2. CASE Register(t) \/ ReleaseAll(t)
  BY <1>1, <1>2 DEF Register, ReleaseAll, Asking
<1>3. ASSUME NEW k \in Keys, NEW m \in Modes, LockKeyRefused(t, k, m)
      PROVE  GainsKey(t) /\ GainsRange(t) /\ AsksKey(t) /\ AsksRange(t)
  BY <1>1, <1>3 DEF LockKeyRefused, Asking
<1>4. ASSUME NEW k \in Keys, NEW m \in Modes, LockKey(t, k, m)
      PROVE  GainsKey(t) /\ GainsRange(t) /\ AsksKey(t) /\ AsksRange(t)
  <2>1. /\ UNCHANGED <<holders, range_locks>> /\ pc'[t] = "try" /\ call'[t].key = k /\ m = "X"
        /\ enable_range_locks => ~RangeBlocksKey(t, k, m)
    BY <1>4 DEF LockKey
  <2>2. \A e \in range_locks : e.txn # t => ~OverlapsKey(e.range, k)
    BY <1>0, <1>x, <2>1 DEF RangeBlocksKey
  <2> QED BY <2>1, <2>2 DEF GainsKey, GainsRange, AsksKey, AsksRange
<1>5. ASSUME NEW r \in Ranges, NEW m \in Modes, LockRange(t, r, m)
      PROVE  GainsKey(t) /\ GainsRange(t) /\ AsksKey(t) /\ AsksRange(t)
  BY <1>1, <1>5 DEF LockRange, Asking
<1>6. ASSUME NEW k \in Keys, UpgradeLock(t, k)
      PROVE  GainsKey(t) /\ GainsRange(t) /\ AsksKey(t) /\ AsksRange(t)
  <2>1. ~can_upgrade_to(holders[k][t], "X")
    BY <1>0 DEF can_upgrade_to, UpgradePairs, None
  <2> QED BY <1>1, <1>6, <2>1 DEF UpgradeLock, Asking
<1>7. CASE LockKeyTry(t) \/ AcquireTry(t) \/ LoopGrant(t)
  <2>1. /\ call[t].key \in Keys /\ call[t].mode \in LockModes
        /\ Asking(t) /\ (Asking(t)' => call'[t] = call[t])
        /\ pc'[t] # "range_keys" /\ UNCHANGED range_locks
    BY <1>0, <1>7 DEF LockKeyTry, AcquireTry, TryAcquire, LoopGrant, ThreadOK, LockSteps,
       QueueSteps, Calls, Asking
  <2>2. \/ UNCHANGED holders
        \/ holders' = [holders EXCEPT ![call[t].key][t] = call[t].mode]
    BY <1>7 DEF LockKeyTry, AcquireTry, TryAcquire, LoopGrant
  <2>3. GainsKey(t)
    BY <2>1, <2>2, HoldersUpdate DEF GainsKey
  <2> QED BY <2>1, <2>3 DEF GainsRange, AsksKey, AsksRange
<1>8. CASE GetHolders(t) \/ AddEdges(t) \/ Enqueue(t) \/ LoopWait(t)
  BY <1>8 DEF GetHolders, AddEdges, Enqueue, LoopWait, Asking, GainsKey, GainsRange, AsksKey,
     AsksRange
<1>9. CASE TimeOut(t) \/ RemoveEdges(t) \/ Record(t) \/ CountLock(t)
  BY <1>1, <1>9 DEF TimeOut, RemoveEdges, Record, CountLock, Asking
<1>10. CASE RangeCheck(t)
  <2>1. scan[t].mode = "X" /\ scan[t] \in Scans
    BY <1>0, <1>10 DEF RangeCheck, ExclusiveOK, ThreadOK, RangeSteps
  <2>2. CASE RangeReturn(t)
    BY <1>1, <1>10, <2>2 DEF RangeCheck, RangeReturn, Asking
  <2>3. CASE /\ ~RangeBlocksRange(t, scan[t].range, scan[t].mode)
             /\ pc'[t] = "range_keys" /\ UNCHANGED <<holders, range_locks, scan>>
             /\ todo'[t] = {k \in Keys : contains_key(scan[t].range, k)}
    <3>1. \A f \in range_locks :
            f.txn # t => ~overlaps(f.range, scan[t].range.start, scan[t].range.end)
      BY <1>0, <1>x, <2>1, <2>3 DEF RangeBlocksRange
    <3> QED BY <2>3, <3>1 DEF Asking, GainsKey, GainsRange, AsksKey, AsksRange
  <2> QED BY <1>10, <2>2, <2>3 DEF RangeCheck
<1>11. ASSUME NEW k \in Keys, RangeScanKey(t, k)
       PROVE  GainsKey(t) /\ GainsRange(t) /\ AsksKey(t) /\ AsksRange(t)
  <2>1. scan[t].mode = "X" /\ pc[t] = "range_keys"
    BY <1>0, <1>11 DEF RangeScanKey, ExclusiveOK, RangeSteps
  <2>2. CASE RangeReturn(t)
    BY <1>1, <1>11, <2>2 DEF RangeScanKey, RangeReturn, Asking
  <2>3. CASE /\ is_compatible_with_holders(k, t, scan[t].mode)
             /\ todo'[t] = todo[t] \ {k} /\ UNCHANGED <<pc, scan, holders, range_locks>>
    <3>1. \A u \in Txns \ {t} : holders[k][u] = None
      BY <1>0, <1>x, <2>1, <2>3 DEF is_compatible_with_holders, HoldersOf
    <3> QED BY <2>1, <2>3, <3>1 DEF Asking, GainsKey, GainsRange, AsksKey, AsksRange
  <2> QED BY <1>11, <2>2, <2>3 DEF RangeScanKey
<1>12. CASE RangeInsert(t)
  BY <1>12 DEF RangeInsert, RangeReturn, Asking, GainsKey, GainsRange, AsksKey, AsksRange
<1>13. ASSUME NEW k \in Keys, ReleaseKey(t, k)
       PROVE  GainsKey(t) /\ GainsRange(t) /\ AsksKey(t) /\ AsksRange(t)
  <2>1. \A j \in Keys : holders'[j][t] = IF j = k THEN None ELSE holders[j][t]
    BY <1>13, HoldersUpdate DEF ReleaseKey
  <2> QED BY <1>13, <2>1 DEF ReleaseKey, Asking, GainsKey, GainsRange, AsksKey, AsksRange
<1>14. CASE NotifyAll(t) \/ ReleaseRanges(t) \/ Unregister(t)
  BY <1>14 DEF NotifyAll, ReleaseRanges, Unregister, Asking, GainsKey, GainsRange, AsksKey,
     AsksRange
<1> QED
  BY <1>2, <1>3, <1>4, <1>5, <1>6, <1>7, <1>8, <1>9, <1>10, <1>11, <1>12, <1>13, <1>14
  DEF Own, Caller, Thread

\* The ranges of the lock table are ranges of integers.
LEMMA RangesOfIntegers ==
    /\ \A r \in KeyRanges(Keys) : r \in KeyRanges(Int)
    /\ \A k \in Keys : k \in Int
<1>1. Keys \subseteq Int
  BY ConstantsAssumption
<1>2. Bounds(Keys) \subseteq Bounds(Int)
  BY <1>1 DEF Bounds
<1> QED BY <1>1, <1>2 DEF KeyRanges

\* One step of t brings it into no clash with a transaction whose calls never
\* overlapped its own.
LEMMA ClashStep ==
    ASSUME Modes \subseteq {"X"}, TypeOK, ThreadState, PromiseInv, ExclusiveInv, OverlapInv,
           TypeOK', PromiseInv',
           NEW t \in Txns, Own(t), NEW u \in Txns \ {t},
           {t, u} \notin overlapped, ~(InCall(t)' /\ InCall(u)')
    PROVE  ~Clash(t, u)' /\ ~Clash(u, t)'
<1>0. /\ GainsKey(t) /\ GainsRange(t) /\ AsksKey(t) /\ AsksRange(t)
      /\ LeftAlone(u)
  BY OwnEffects, OthersLeftAlone
<1>1. ~Clash(t, u) /\ ~Clash(u, t)
  <2>1. {u, t} = {t, u}
    OBVIOUS
  <2> QED BY <2>1 DEF OverlapInv
<1>2. /\ \A k \in Keys, v \in Txns : holders[k][v] \in {"X", None}
      /\ \A e \in range_locks : e.mode = "X"
      /\ ~is_compatible("X", "X")
  BY DEF PromiseInv, PromiseOK, ExclusiveInv, is_compatible, CompatiblePairs
<1>3. \A e \in range_locks' : e.txn = u => e \in range_locks
  BY <1>0 DEF TypeOK, LeftAlone
<1>4. \A k \in Keys : holders'[k][u] = holders[k][u]
  BY <1>0 DEF LeftAlone
<1>5. \A e \in range_locks : e.range \in KeyRanges(Int)
  BY RangesOfIntegers DEF TypeOK, RangeLocks
<1>6. InCall(u)' <=> InCall(u)
  BY <1>0 DEF LeftAlone, InCall
<1>7. ~(pc'[t] = "range_keys" /\ \E f \in range_locks' :
          f.txn = u /\ overlaps(f.range, scan'[t].range.start, scan'[t].range.end))
  BY <1>0, <1>1, <1>3 DEF AsksRange, Clash
<1>8. ~(pc'[t] = "range_keys" /\ \E k \in Keys \ todo'[t] :
          contains_key(scan'[t].range, k) /\ holders'[k][u] # None)
  BY <1>0, <1>1, <1>4 DEF AsksRange, Clash
<1>9. ~(Asking(t)' /\ \E e \in range_locks' : e.txn = u /\ OverlapsKey(e.range, call'[t].key))
  BY <1>0, <1>1, <1>3 DEF AsksKey, Clash
<1>10. ~RangeConflict(t, u)'
  <2> SUFFICES ASSUME NEW e \in range_locks', e.txn = t,
                      \/ \E f \in range_locks' :
                            f.txn = u /\ overlaps(e.range, f.range.start, f.range.end)
                      \/ \E k \in Keys : holders'[k][u] # None /\ contains_key(e.range, k)
               PROVE  FALSE
    BY DEF RangeConflict, HeldKeys
  <2>1. ASSUME NEW f \in range_locks', f.txn = u, overlaps(e.range, f.range.start, f.range.end)
        PROVE  FALSE
    <3>1. f \in range_locks
      BY <1>3, <2>1
    <3>2. CASE e \in range_locks
      BY <1>1, <1>2, <2>1, <3>1, <3>2 DEF Clash, RangeConflict
    <3>3. CASE pc[t] = "range_keys" /\ e.range = scan[t].range
      <4>1. e.range \in KeyRanges(Int)
        BY RangesOfIntegers DEF TypeOK, RangeLocks
      <4>2. overlaps(f.range, e.range.start, e.range.end)
        BY <1>5, <2>1, <3>1, <4>1, OverlapSymmetric
      <4> QED BY <1>1, <2>1, <3>1, <3>3, <4>2 DEF Clash
    <3> QED BY <1>0, <3>2, <3>3 DEF GainsRange
  <2>2. ASSUME NEW k \in Keys, holders'[k][u] # None, contains_key(e.range, k) PROVE FALSE
    <3>1. holders[k][u] # None
      BY <1>4, <2>2
    <3>2. CASE e \in range_locks
      BY <1>1, <1>2, <2>2, <3>1, <3>2 DEF Clash, RangeConflict, HeldKeys
    <3>3. CASE pc[t] = "range_keys" /\ todo[t] = {} /\ e.range = scan[t].range
      BY <1>1, <2>2, <3>1, <3>3 DEF Clash
    <3> QED BY <1>0, <3>2, <3>3 DEF GainsRange
  <2> QED BY <2>1, <2>2
<1>11. ~RangeConflict(u, t)'
  <2> SUFFICES ASSUME NEW e \in range_locks', e.txn = u,
                      \/ \E f \in range_locks' :
                            f.txn = t /\ overlaps(e.range, f.range.start, f.range.end)
                      \/ \E k \in Keys : holders'[k][t] # None /\ contains_key(e.range, k)
               PROVE  FALSE
    BY DEF RangeConflict, HeldKeys
  <2>0. e \in range_locks
    BY <1>3
  <2>1. ASSUME NEW f \in range_locks', f.txn = t, overlaps(e.range, f.range.start, f.range.end)
        PROVE  FALSE
    <3>1. CASE f \in range_locks
      BY <1>1, <1>2, <2>0, <2>1, <3>1 DEF Clash, RangeConflict
    <3>2. CASE pc[t] = "range_keys" /\ f.range = scan[t].range
      BY <1>1, <2>0, <2>1, <3>2 DEF Clash
    <3> QED BY <1>0, <2>1, <3>1, <3>2 DEF GainsRange
  <2>2. ASSUME NEW k \in Keys, holders'[k][t] # None, contains_key(e.range, k) PROVE FALSE
    <3>1. CASE holders[k][t] # None
      BY <1>1, <1>2, <2>0, <2>2, <3>1 DEF Clash, RangeConflict, HeldKeys
    <3>2. CASE Asking(t) /\ call[t].key = k
      <4>1. OverlapsKey(e.range, k)
        BY <1>5, <2>0, <2>2, RangesOfIntegers, OverlapsKeyIsContainsKey
      <4> QED BY <1>1, <2>0, <3>2, <4>1 DEF Clash
    <3> QED BY <1>0, <2>2, <3>1, <3>2 DEF GainsKey
  <2> QED BY <2>1, <2>2
<1>12. ASSUME InCall(u)
       PROVE  /\ \A e \in range_locks' : e.txn = t => e \in range_locks
              /\ \A k \in Keys : holders'[k][t] # None => holders[k][t] # None
  <2>1. ~InCall(t)
    BY <1>1, <1>12 DEF Clash
  <2> QED BY <1>0, <2>1 DEF GainsRange, GainsKey, InCall, Asking
<1>13. ~(pc'[u] = "range_keys" /\ \E f \in range_locks' :
          f.txn = t /\ overlaps(f.range, scan'[u].range.start, scan'[u].range.end))
  BY <1>0, <1>1, <1>12 DEF LeftAlone, Clash, InCall
<1>14. ~(pc'[u] = "range_keys" /\ \E k \in Keys \ todo'[u] :
          contains_key(scan'[u].range, k) /\ holders'[k][t] # None)
  BY <1>0, <1>1, <1>12 DEF LeftAlone, Clash, InCall
<1>15. ~(Asking(u)' /\ \E e \in range_locks' : e.txn = t /\ OverlapsKey(e.range, call'[u].key))
  BY <1>0, <1>1, <1>12 DEF LeftAlone, Clash, InCall, Asking
<1> QED
  BY <1>7, <1>8, <1>9, <1>10, <1>11, <1>13, <1>14, <1>15 DEF Clash

\* A pair has two elements: what ONext asks of the sets it records.
LEMMA PairHasTwo ==
    ASSUME NEW a, NEW b, a # b
    PROVE  Cardinality({a, b}) = 2
<1>1. IsFiniteSet({a}) /\ Cardinality({a}) = 1
  BY FS_Singleton
<1>2. {a, b} = {a} \cup {b} /\ b \notin {a}
  OBVIOUS
<1> QED BY <1>1, <1>2, FS_AddElement

\* Two transactions clash only when their calls overlapped.
LEMMA OverlapStep ==
    ASSUME Modes \subseteq {"X"}, TypeOK, ThreadState, PromiseInv, ExclusiveInv, OverlapInv,
           [ONext]_<<vars, overlapped>>
    PROVE  OverlapInv'
<1>0. /\ [Next]_vars /\ overlapped \subseteq overlapped'
      /\ UNCHANGED <<vars, overlapped>> \/ \A t, u \in Txns :
            (t # u /\ InCall(t)' /\ InCall(u)') => {t, u} \in overlapped'
  <2>1. CASE UNCHANGED <<vars, overlapped>>
    BY <2>1 DEF vars
  <2>2. CASE ONext
    <3> SUFFICES ASSUME NEW t \in Txns, NEW u \in Txns, t # u, InCall(t)', InCall(u)'
                 PROVE  {t, u} \in overlapped'
      BY <2>2 DEF ONext
    <3>1. {t, u} \in SUBSET Txns /\ Cardinality({t, u}) = 2 /\ \A p \in {t, u} : InCall(p)'
      BY PairHasTwo
    <3> QED BY <2>2, <3>1 DEF ONext
  <2> QED BY <2>1, <2>2
<1>1. TypeOK' /\ PromiseInv'
  BY <1>0, TypeStep, PromiseStep, ExclusiveComparable
<1>2. CASE UNCHANGED <<holders, range_locks, pc, call, scan, todo>>
  <2>1. \A t, u \in Txns : Clash(t, u)' <=> Clash(t, u) \/ (InCall(t)' /\ InCall(u)')
    BY <1>2 DEF Clash, InCall, Asking, RangeConflict, HeldKeys
  <2>2. \A t, u \in Txns : InCall(t)' <=> InCall(t)
    BY <1>2 DEF InCall
  <2> QED BY <1>0, <2>1, <2>2 DEF OverlapInv, Clash
<1>3. ASSUME NEW t \in Txns, Own(t), NEW a \in Txns, NEW b \in Txns, a # b, Clash(a, b)'
      PROVE  {a, b} \in overlapped'
  <2> SUFFICES ASSUME {a, b} \notin overlapped'
               PROVE  FALSE
    OBVIOUS
  <2>0. {a, b} \notin overlapped /\ {b, a} = {a, b}
    BY <1>0
  <2>1. ~(InCall(a)' /\ InCall(b)')
    <3>1. CASE UNCHANGED <<vars, overlapped>>
      <4>1. (InCall(a)' <=> InCall(a)) /\ (InCall(b)' <=> InCall(b))
        BY <3>1 DEF InCall, vars
      <4>2. (InCall(a) /\ InCall(b)) => Clash(a, b)
        BY DEF Clash
      <4> QED BY <1>3, <2>0, <4>1, <4>2 DEF OverlapInv
    <3>2. CASE ~UNCHANGED <<vars, overlapped>>
      BY <1>0, <1>3, <3>2
    <3> QED BY <3>1, <3>2
  <2>2. CASE a = t
    BY <1>1, <1>3, <2>0, <2>1, <2>2, ClashStep
  <2>3. CASE b = t
    BY <1>1, <1>3, <2>0, <2>1, <2>3, ClashStep
  <2>4. CASE a # t /\ b # t
    <3>1. LeftAlone(a) /\ LeftAlone(b)
      BY <1>3, <2>4, OthersLeftAlone
    <3>2. Clash(a, b)
      BY <1>1, <1>3, <2>1, <3>1 DEF Clash, LeftAlone, InCall, Asking, RangeConflict, HeldKeys, TypeOK
    <3> QED BY <1>3, <2>0, <3>2 DEF OverlapInv
  <2> QED BY <2>2, <2>3, <2>4
<1> QED
  BY <1>0, <1>2, <1>3, OtherSteps DEF OverlapInv, locals, escState, history

\* Transactions whose calls never overlapped in time never hold a range lock
\* against each other's locks, escalation included.
THEOREM SequentialExclusion ==
    ASSUME Modes \subseteq {"X"}
    PROVE  OSpec => []SequentialCallsExclude
<1>1. ModesComparable
  BY ExclusiveComparable
<1>2. OInit => /\ TypeOK /\ ThreadState /\ PromiseInv /\ ExclusiveInv /\ OverlapInv
  <2>1. OInit => TypeOK /\ ThreadState
    BY InitTypes DEF OInit
  <2>2. OInit => PromiseInv /\ ExclusiveInv /\ OverlapInv
    BY DEF OInit, Init, PromiseInv, PromiseOK, LockSteps, QueueSteps, RangeSteps, ExclusiveInv,
       ExclusiveOK, OverlapInv, Clash, InCall, Asking, RangeConflict
  <2> QED BY <2>1, <2>2
<1>3. TypeOK /\ ThreadState /\ PromiseInv /\ ExclusiveInv /\ OverlapInv
        /\ [ONext]_<<vars, overlapped>>
      => (TypeOK /\ ThreadState /\ PromiseInv /\ ExclusiveInv /\ OverlapInv)'
  <2>1. [ONext]_<<vars, overlapped>> => [Next]_vars
    BY DEF ONext
  <2> QED BY <1>1, <2>1, TypeStep, ThreadStep, PromiseStep, ExclusiveStep, OverlapStep
<1>4. OverlapInv => SequentialCallsExclude
  BY DEF OverlapInv, Clash, SequentialCallsExclude
<1> QED
  BY <1>2, <1>3, <1>4, PTL DEF OSpec
=============================================================================
