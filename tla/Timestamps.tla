----------------------------- MODULE Timestamps -----------------------------
(***************************************************************************)
(* What get_timestamp promises, with no atomics: a timestamp is made of a  *)
(* millisecond between the one the call read and the latest one the clock  *)
(* has shown when it returns, and of any logical part at all.  Two calls   *)
(* of one millisecond may get equal timestamps, or the later call the      *)
(* smaller one.  TimestampOracle implements this; Mvcc is built on it.     *)
(***************************************************************************)
EXTENDS Integers

CONSTANTS
    Callers,
    Clock,          \* the milliseconds the clock may show
    LogicalSpan,    \* 2^18 in the code: logical ticks in a millisecond
    Logicals        \* the logical parts there may be

VARIABLES
    now, highest,   \* the clock, which may be set back, and the latest it has shown
    began,          \* the millisecond read by the call under way, or NoCall
    answer          \* what the latest call returned

NoCall == -1

Init ==
    /\ now \in Clock /\ highest = now
    /\ began = [c \in Callers |-> NoCall]
    /\ answer = [c \in Callers |-> 0]

Tick ==
    \E ms \in Clock :
        /\ now' = ms
        /\ highest' = IF ms > highest THEN ms ELSE highest
        /\ UNCHANGED <<began, answer>>

Call(c) ==
    /\ began[c] = NoCall
    /\ began' = [began EXCEPT ![c] = now]
    /\ UNCHANGED <<now, highest, answer>>

Answers(c) == {ms * LogicalSpan + n : ms \in began[c] .. highest, n \in Logicals}

Return(c, ts) ==
    /\ began[c] # NoCall
    /\ ts \in Answers(c)
    /\ began' = [began EXCEPT ![c] = NoCall]
    /\ answer' = [answer EXCEPT ![c] = ts]
    /\ UNCHANGED <<now, highest>>

Next == Tick \/ \E c \in Callers : Call(c) \/ \E ts \in Answers(c) : Return(c, ts)

Spec == Init /\ [][Next]_<<now, highest, began, answer>>
=============================================================================
