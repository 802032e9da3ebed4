------------------------ MODULE TimestampOracleProofs ------------------------
(***************************************************************************)
(* The oracle orders calls of different milliseconds and implements what   *)
(* Timestamps promises, for every set of threads, every clock and every    *)
(* width of the logical part.                                              *)
(***************************************************************************)
EXTENDS TimestampOracle, TLAPS

\* The logical part stays below its span.
LEMMA LogicalInSpan ==
    \A n \in Nat : n % LogicalSpan \in 0 .. LogicalSpan - 1
  BY OracleAssumption

\* A product with the span respects the order of the milliseconds, with room
\* for the logical part.
LEMMA MillisecondsApart ==
    ASSUME NEW a \in Nat, NEW b \in Nat, a < b
    PROVE  a * LogicalSpan + LogicalSpan <= b * LogicalSpan
<1>1. PICK d \in Nat : b = a + 1 + d
  <2>1. b - a - 1 \in Nat /\ b = a + 1 + (b - a - 1)
    OBVIOUS
  <2> QED BY <2>1
<1>2. b * LogicalSpan = a * LogicalSpan + LogicalSpan + d * LogicalSpan
  BY <1>1, OracleAssumption
<1>3. d * LogicalSpan \in Nat /\ a * LogicalSpan \in Nat
  BY OracleAssumption
<1> QED BY <1>2, <1>3, OracleAssumption

\* A timestamp made of a millisecond that was shown, no earlier than the one the
\* call read, keeps WithinCall.
LEMMA ReturnWithinCall ==
    ASSUME Inv, NEW t \in Threads, NEW ms \in Nat, NEW n \in Nat,
           physical[t] <= ms, ms <= highest, highest' = highest,
           Return(t, Timestamp(ms, n))
    PROVE  /\ WithinCall'
           /\ \A r \in issued' : r.began \in Nat /\ r.ended \in Nat /\ r.ts \in Nat
           /\ answer' \in [Threads -> Nat]
<1> DEFINE new == [began |-> physical[t], ended |-> highest, ts |-> Timestamp(ms, n)]
<1>1. issued' = issued \cup {new}
  BY DEF Return
<1>2. /\ n % LogicalSpan \in 0 .. LogicalSpan - 1
      /\ Timestamp(ms, n) = ms * LogicalSpan + (n % LogicalSpan)
  BY LogicalInSpan DEF Timestamp
<1>3. ms * LogicalSpan \in Nat
  BY OracleAssumption
<1>4. /\ new.began \in Nat /\ new.ended \in Nat
      /\ new.ts = ms * LogicalSpan + (n % LogicalSpan)
      /\ new.began <= ms /\ ms <= new.ended
  BY <1>2 DEF Inv, TypeOK
<1>5. new.ts \in Nat
  BY <1>2, <1>3, <1>4, OracleAssumption
<1>6. \E i \in Nat, j \in 0 .. LogicalSpan - 1 :
          new.ts = i * LogicalSpan + j /\ new.began <= i /\ i <= new.ended
  BY <1>2, <1>4
<1>7. answer' = [answer EXCEPT ![t] = new.ts] /\ answer \in [Threads -> Nat]
  BY DEF Return, Inv, TypeOK
<1> HIDE DEF new
<1>8. answer' \in [Threads -> Nat]
  BY <1>5, <1>7
<1> QED BY <1>1, <1>4, <1>5, <1>6, <1>8 DEF Inv, TypeOK, WithinCall

\* The clock shown, the stored millisecond and the ones the threads have read are
\* all at most highest, and the timestamps issued lie within their calls.
THEOREM OracleInv == Spec => []Inv
<1>1. Init => Inv
  BY OracleAssumption DEF Init, Inv, TypeOK, ClocksShown, WithinCall
<1>2. Inv /\ [Next]_vars => Inv'
  <2> SUFFICES ASSUME Inv, [Next]_vars PROVE Inv'
    OBVIOUS
  <2> USE DEF Inv, TypeOK, ClocksShown, WithinCall, locals
  <2>1. CASE Tick
    BY <2>1, OracleAssumption DEF Tick
  <2>2. ASSUME NEW t \in Threads, ReadClock(t) PROVE Inv'
    BY <2>2 DEF ReadClock
  <2>3. ASSUME NEW t \in Threads, LoadLast(t) PROVE Inv'
    BY <2>3 DEF LoadLast
  <2>4. ASSUME NEW t \in Threads, StorePhysical(t) PROVE Inv'
    BY <2>4 DEF StorePhysical
  <2>5. ASSUME NEW t \in Threads, ResetLogical(t) PROVE Inv'
    <3>1. physical[t] \in Nat /\ physical[t] <= highest /\ highest' = highest
      BY <2>5 DEF ResetLogical
    <3>2. Return(t, Timestamp(physical[t], 0))
      BY <2>5 DEF ResetLogical
    <3>3. /\ WithinCall' /\ answer' \in [Threads -> Nat]
          /\ \A r \in issued' : r.began \in Nat /\ r.ended \in Nat /\ r.ts \in Nat
      <4> HIDE DEF Inv, WithinCall
      <4> QED BY <3>1, <3>2, ReturnWithinCall
    <3>4. pc' = [pc EXCEPT ![t] = "idle"]
      BY <3>2 DEF Return
    <3> QED BY <2>5, <3>3, <3>4 DEF ResetLogical
  <2>6. ASSUME NEW t \in Threads, FetchAdd(t) PROVE Inv'
    <3>1. last[t] \in Nat /\ physical[t] <= last[t] /\ last[t] <= highest /\ highest' = highest
      BY <2>6 DEF FetchAdd
    <3>2. Return(t, Timestamp(last[t], logical)) /\ logical \in Nat
      BY <2>6 DEF FetchAdd
    <3>3. /\ WithinCall' /\ answer' \in [Threads -> Nat]
          /\ \A r \in issued' : r.began \in Nat /\ r.ended \in Nat /\ r.ts \in Nat
      <4> HIDE DEF Inv, WithinCall
      <4> QED BY <3>1, <3>2, ReturnWithinCall
    <3>4. pc' = [pc EXCEPT ![t] = "idle"]
      BY <3>2 DEF Return
    <3> QED BY <2>6, <3>3, <3>4 DEF FetchAdd
  <2>7. CASE UNCHANGED vars
    BY <2>7 DEF vars
  <2> QED BY <2>1, <2>2, <2>3, <2>4, <2>5, <2>6, <2>7 DEF Next
<1> QED BY <1>1, <1>2, PTL DEF Spec

\* Whatever the threads do to the two atomics of get_timestamp, a call that starts
\* after the clock has passed all it had shown until another call returned gets
\* the larger timestamp.
THEOREM OracleOrdered == Spec => []OrderedAcrossMilliseconds
<1>1. Inv => OrderedAcrossMilliseconds
  <2> SUFFICES ASSUME Inv, NEW r \in issued, NEW s \in issued, r.ended < s.began
               PROVE  r.ts < s.ts
    BY DEF OrderedAcrossMilliseconds
  <2>1. /\ r.ended \in Nat /\ s.began \in Nat
    BY DEF Inv, TypeOK
  <2>2. PICK i \in Nat, j \in 0 .. LogicalSpan - 1 :
            r.ts = i * LogicalSpan + j /\ i <= r.ended
    BY DEF Inv, WithinCall
  <2>3. PICK k \in Nat, l \in 0 .. LogicalSpan - 1 :
            s.ts = k * LogicalSpan + l /\ s.began <= k
    BY DEF Inv, WithinCall
  <2>4. i < k
    BY <2>1, <2>2, <2>3
  <2>5. i * LogicalSpan + LogicalSpan <= k * LogicalSpan
    BY <2>4, MillisecondsApart
  <2>6. i * LogicalSpan \in Nat /\ k * LogicalSpan \in Nat
    BY OracleAssumption
  <2> QED BY <2>2, <2>3, <2>5, <2>6, OracleAssumption
<1> QED BY <1>1, OracleInv, PTL

\* A returning call is one Return of the oracle promised.
LEMMA ReturnAnswers ==
    ASSUME Inv, NEW t \in Threads, NEW ms \in Nat, NEW n \in Nat,
           pc[t] # "idle", physical[t] <= ms, ms <= highest,
           Return(t, Timestamp(ms, n)), UNCHANGED <<now, highest, physical>>
    PROVE  \E ts \in Promise!Answers(t) : Promise!Return(t, ts)
<1> DEFINE ts == Timestamp(ms, n)
<1>1. ts = ms * LogicalSpan + (n % LogicalSpan) /\ n % LogicalSpan \in 0 .. LogicalSpan - 1
  BY LogicalInSpan DEF Timestamp
<1>2. Began[t] = physical[t] /\ physical[t] \in Nat /\ highest \in Nat
  BY DEF Began, Inv, TypeOK
<1>3. ms \in Began[t] .. highest
  BY <1>2
<1>4. ts \in Promise!Answers(t)
  BY <1>1, <1>3 DEF Promise!Answers
<1>5. Began[t] # -1
  BY <1>2
<1>6. Began' = [Began EXCEPT ![t] = -1]
  BY DEF Began, Return, Inv, TypeOK
<1>7. answer' = [answer EXCEPT ![t] = ts]
  BY DEF Return
<1> HIDE DEF ts
<1> QED BY <1>4, <1>5, <1>6, <1>7 DEF Promise!Return, Promise!NoCall

\* The atomic operations of get_timestamp, whatever other threads do in between,
\* add up to calls that answer with a millisecond from the one they read to the
\* latest the clock has shown.
THEOREM OracleImplemented == Spec => ImplementsTimestamps
<1>1. Init => Promise!Init
  BY DEF Init, Promise!Init, Promise!NoCall, Began
<1>2. Inv /\ [Next]_vars => [Promise!Next]_<<now, highest, Began, answer>>
  <2> SUFFICES ASSUME Inv, [Next]_vars
               PROVE  Promise!Next \/ UNCHANGED <<now, highest, Began, answer>>
    OBVIOUS
  <2> USE DEF locals
  <2>1. CASE Tick
    BY <2>1 DEF Tick, Promise!Next, Promise!Tick, Began
  <2>2. ASSUME NEW t \in Threads, ReadClock(t) PROVE Promise!Call(t)
    BY <2>2 DEF ReadClock, Promise!Call, Promise!NoCall, Began, Inv, TypeOK
  <2>3. ASSUME NEW t \in Threads, LoadLast(t) \/ StorePhysical(t)
        PROVE  UNCHANGED <<now, highest, Began, answer>>
    BY <2>3 DEF LoadLast, StorePhysical, Began, Inv, TypeOK
  <2>4. ASSUME NEW t \in Threads, ResetLogical(t) \/ FetchAdd(t)
        PROVE  \E ts \in Promise!Answers(t) : Promise!Return(t, ts)
    <3>1. CASE ResetLogical(t)
      <4>1. physical[t] \in Nat /\ physical[t] <= highest /\ 0 \in Nat
        BY DEF Inv, TypeOK, ClocksShown
      <4>2. /\ pc[t] # "idle" /\ Return(t, Timestamp(physical[t], 0))
            /\ UNCHANGED <<now, highest, physical>>
        BY <3>1 DEF ResetLogical
      <4>3. physical[t] <= physical[t]
        BY <4>1
      <4> QED BY <4>1, <4>2, <4>3, ReturnAnswers
    <3>2. CASE FetchAdd(t)
      <4>1. /\ last[t] \in Nat /\ last[t] <= highest /\ logical \in Nat
            /\ physical[t] <= last[t]
        BY <3>2 DEF Inv, TypeOK, ClocksShown, FetchAdd
      <4>2. /\ pc[t] # "idle" /\ Return(t, Timestamp(last[t], logical))
            /\ UNCHANGED <<now, highest, physical>>
        BY <3>2 DEF FetchAdd
      <4> QED BY <4>1, <4>2, ReturnAnswers
    <3> QED BY <2>4, <3>1, <3>2
  <2>5. CASE UNCHANGED vars
    BY <2>5 DEF vars, Began
  <2> QED BY <2>1, <2>2, <2>3, <2>4, <2>5 DEF Next, Promise!Next
<1> QED BY <1>1, <1>2, OracleInv, PTL DEF Spec, ImplementsTimestamps, Promise!Spec
=============================================================================
