-------------------------- MODULE TimestampOracle ---------------------------
(***************************************************************************)
(* get_timestamp of crates/crabstash-txn/src/timestamp.rs, one step per    *)
(* atomic operation, so that calls of several threads interleave.          *)
(*                                                                         *)
(* The clock is the system's, which may be set back; highest is the latest *)
(* millisecond it has shown.                                               *)
(***************************************************************************)
EXTENDS Integers, FiniteSets

CONSTANTS
    Threads,
    Clock,          \* the milliseconds the clock may show
    LogicalSpan,    \* the values of the logical part, 2^18 in the code
    MaxCalls        \* bound: calls

ASSUME OracleAssumption ==
    /\ Clock \subseteq Nat
    /\ LogicalSpan \in Nat \ {0}
    /\ MaxCalls \in Nat

VARIABLES
    now,
    last_physical, logical,     \* the two atomics
    pc, physical, last,         \* per thread: where it is, what it has read
    answer,                     \* per thread: what its latest call returned
    highest, calls, issued      \* history: calls that returned, and when

locals == <<pc, physical, last, answer>>
vars   == <<now, last_physical, logical, locals, highest, calls, issued>>

Init ==
    /\ now \in Clock /\ highest = now
    /\ last_physical = 0 /\ logical = 0
    /\ pc = [t \in Threads |-> "idle"]
    /\ physical = [t \in Threads |-> 0]
    /\ last = [t \in Threads |-> 0]
    /\ answer = [t \in Threads |-> 0]
    /\ calls = 0
    /\ issued = {}

\* SystemTime::now shows another millisecond.
Tick ==
    \E ms \in Clock :
        /\ now' = ms
        /\ highest' = IF ms > highest THEN ms ELSE highest
        /\ UNCHANGED <<last_physical, logical, locals, calls, issued>>

\* Faulty variant of Timestamp below: without the mask the logical part runs
\* into the milliseconds.
TimestampUnmasked(ms, n) == ms * LogicalSpan + n

\* (ms << 18) | (n & 0x3FFFF)
Timestamp(ms, n) == ms * LogicalSpan + (n % LogicalSpan)

\* The call of t returns: its timestamp, the clock it read first and the
\* latest clock anybody could have read by now.
Return(t, ts) ==
    /\ pc' = [pc EXCEPT ![t] = "idle"]
    /\ answer' = [answer EXCEPT ![t] = ts]
    /\ issued' = issued \cup {[began |-> physical[t], ended |-> highest, ts |-> ts]}

ReadClock(t) ==
    /\ pc[t] = "idle" /\ calls < MaxCalls
    /\ calls' = calls + 1
    /\ physical' = [physical EXCEPT ![t] = now]
    /\ pc' = [pc EXCEPT ![t] = "load"]
    /\ UNCHANGED <<now, last_physical, logical, last, answer, highest, issued>>

LoadLast(t) ==
    /\ pc[t] = "load"
    /\ last' = [last EXCEPT ![t] = last_physical]
    /\ pc' = [pc EXCEPT ![t] = IF physical[t] > last_physical THEN "store" ELSE "add"]
    /\ UNCHANGED <<now, last_physical, logical, physical, answer, highest, calls, issued>>

StorePhysical(t) ==
    /\ pc[t] = "store"
    /\ last_physical' = physical[t]
    /\ pc' = [pc EXCEPT ![t] = "reset"]
    /\ UNCHANGED <<now, logical, physical, last, answer, highest, calls, issued>>

ResetLogical(t) ==
    /\ pc[t] = "reset"
    /\ logical' = 0
    /\ Return(t, Timestamp(physical[t], 0))
    /\ UNCHANGED <<now, last_physical, physical, last, highest, calls>>

FetchAdd(t) ==
    /\ pc[t] = "add"
    /\ logical' = logical + 1
    /\ Return(t, Timestamp(last[t], logical))
    /\ UNCHANGED <<now, last_physical, physical, last, highest, calls>>

Next ==
    \/ Tick
    \/ \E t \in Threads : ReadClock(t) \/ LoadLast(t) \/ StorePhysical(t)
                          \/ ResetLogical(t) \/ FetchAdd(t)

Spec == Init /\ [][Next]_vars

-----------------------------------------------------------------------------
TypeOK ==
    /\ now \in Nat /\ highest \in Nat
    /\ last_physical \in Nat /\ logical \in Nat
    /\ pc \in [Threads -> {"idle", "load", "store", "reset", "add"}]
    /\ physical \in [Threads -> Nat] /\ last \in [Threads -> Nat]
    /\ answer \in [Threads -> Nat] /\ calls \in Nat
    /\ \A r \in issued : r.began \in Nat /\ r.ended \in Nat /\ r.ts \in Nat

\* Two calls may get the same timestamp, or a later call a smaller one, but
\* only within a millisecond: a call that starts when the clock has passed all
\* it had shown until another call returned gets a larger timestamp, whatever
\* the threads did to the two atomics in between.
OrderedAcrossMilliseconds ==
    \A r, s \in issued : r.ended < s.began => r.ts < s.ts

\* The two atomics implement the oracle the engine is modelled with: whatever
\* is stored and reset in between, a call answers with a millisecond from the
\* one it read to the latest shown.
Began == [t \in Threads |-> IF pc[t] = "idle" THEN -1 ELSE physical[t]]

Promise == INSTANCE Timestamps
    WITH Callers <- Threads, Logicals <- 0 .. LogicalSpan - 1, began <- Began

ImplementsTimestamps == Promise!Spec

-----------------------------------------------------------------------------
(***************************************************************************)
(* What makes it so: no clock is used that was not shown, and a call never *)
(* answers with an earlier millisecond than the one it read.               *)
(***************************************************************************)
ClocksShown ==
    /\ now <= highest /\ last_physical <= highest
    /\ \A t \in Threads : physical[t] <= highest /\ last[t] <= highest
    /\ \A t \in Threads : pc[t] = "add" => physical[t] <= last[t]

WithinCall ==
    \A r \in issued :
        \E ms \in Nat, n \in 0 .. LogicalSpan - 1 :
            r.ts = ms * LogicalSpan + n /\ r.began <= ms /\ ms <= r.ended

Inv == TypeOK /\ ClocksShown /\ WithinCall
=============================================================================
