---------------------------- MODULE TarjanProofs ----------------------------
(***************************************************************************)
(* Proofs about Tarjan, for every finite set of transactions, every graph  *)
(* and every visiting order.                                               *)
(***************************************************************************)
EXTENDS Tarjan, FiniteSetTheorems, SequenceTheorems, WellFoundedInduction, TLAPS

\* v is on Tarjan's stack.
OnStack(v) == \E i \in 1 .. Len(stack) : stack[i] = v
\* The vertices that have an index, and those of them that were popped.
Seen == {v \in V : Visited(v)}
Popped == {v \in V : Visited(v) /\ ~OnStack(v)}

\* A path of any length, none included.
Path(a, b) == a = b \/ Reaches(edges, a, b)

\* The vertex of an active call.
Of(i) == frames[i].v

\* v's call has not come to its successor w.
ToGo(v, w) == \E i \in 1 .. Len(frames) : Of(i) = v /\ w \in frames[i].todo

\* A call of strongconnect and the successors it has still to visit.
Frame == [v : V, todo : SUBSET V]

\* The types of the search's state.
TypeOK ==
    /\ edges \in [V -> SUBSET V]
    /\ indices \in [V -> Nat] /\ lowlinks \in [V -> Nat]
    /\ stack \in Seq(V)
    /\ frames \in Seq(Frame)
    /\ sccs \in Seq(SUBSET V)
    /\ over \in BOOLEAN

\* Indices count the vertices visited; they ascend on the stack, and so do those
\* of the active calls, whose vertices are on it.
Numbered ==
    /\ \A v \in V : indices[v] <= Cardinality(Seen)
    /\ \A i \in 1 .. Len(stack) : Visited(stack[i])
    /\ \A i, j \in 1 .. Len(stack) : i < j => indices[stack[i]] < indices[stack[j]]
    /\ \A i \in 1 .. Len(frames) : OnStack(Of(i))
    /\ \A i, j \in 1 .. Len(frames) : i < j => indices[Of(i)] < indices[Of(j)]

\* Only active calls have successors to go; all others lead to visited vertices,
\* and out of a popped component no edge leads back to the stack.
Explored ==
    /\ \A i \in 1 .. Len(frames) : frames[i].todo \subseteq edges[Of(i)]
    /\ \A v \in V : Visited(v) => \A w \in edges[v] : ToGo(v, w) \/ Visited(w)
    /\ \A v \in Popped : edges[v] \subseteq Popped

\* An active call reaches all that is above it on the stack, and each vertex of
\* the stack reaches an active call that is not above it.
Connected ==
    /\ \A i \in 1 .. Len(frames) : \A v \in V :
           OnStack(v) /\ indices[Of(i)] <= indices[v] => Path(Of(i), v)
    /\ \A v \in V : OnStack(v) =>
           \E i \in 1 .. Len(frames) : indices[Of(i)] <= indices[v] /\ Path(v, Of(i))

\* The lowlink of an active call is the index of a vertex of the stack it reaches.
LowReached ==
    \A i \in 1 .. Len(frames) :
        /\ lowlinks[Of(i)] <= indices[Of(i)]
        /\ \E u \in V : OnStack(u) /\ indices[u] = lowlinks[Of(i)] /\ Path(Of(i), u)

\* It is a lower bound for the edges seen so far, from the vertices between its
\* call and the next, back into the stack.
LowBounds ==
    \A i \in 1 .. Len(frames) : \A v, w \in V :
        /\ OnStack(v) /\ indices[Of(i)] <= indices[v]
        /\ i < Len(frames) => indices[v] < indices[Of(i + 1)]
        /\ w \in edges[v] /\ OnStack(w) /\ ~ToGo(v, w)
        => lowlinks[Of(i)] <= indices[w]

\* The components found are what was visited and has left the stack, each once.
PoppedOnce ==
    /\ \A i \in 1 .. Len(sccs) : sccs[i] # {} /\ sccs[i] \subseteq Popped
    /\ \A v \in Popped : \E i \in 1 .. Len(sccs) : v \in sccs[i]
    /\ \A i, j \in 1 .. Len(sccs) : i # j => sccs[i] \cap sccs[j] = {}

\* Each component found is a whole strongly connected component.
Exact == \A i \in 1 .. Len(sccs) : \A v \in sccs[i] : sccs[i] = Scc(edges, v)

\* A search that has returned has no active call.
Returned == over => frames = <<>>

Inv ==
    /\ TypeOK /\ Numbered /\ Explored /\ Connected /\ LowReached /\ LowBounds
    /\ PoppedOnce /\ Exact /\ Returned

-----------------------------------------------------------------------------
(***************************************************************************)
(* What the parts of the invariant say, in the form the steps need.        *)
(***************************************************************************)
\* A prefix of a sequence.
LEMMA Prefix ==
    ASSUME NEW S, NEW s \in Seq(S), NEW n \in 0 .. Len(s)
    PROVE  /\ SubSeq(s, 1, n) \in Seq(S) /\ Len(SubSeq(s, 1, n)) = n
           /\ \A i \in 1 .. n : SubSeq(s, 1, n)[i] = s[i]
<1>1. n \in Int /\ n - 1 + 1 = n /\ \A i \in 1 .. n : s[i] \in S /\ 1 + i - 1 = i
  OBVIOUS
<1>2. /\ SubSeq(s, 1, n) \in Seq(S)
      /\ Len(SubSeq(s, 1, n)) = IF 1 <= n THEN n - 1 + 1 ELSE 0
      /\ \A i \in 1 .. n - 1 + 1 : SubSeq(s, 1, n)[i] = s[1 + i - 1]
  BY <1>1, SubSeqProperties
<1> QED BY <1>1, <1>2

\* What Last and Front of a stack of calls are.
LEMMA LastFront ==
    ASSUME NEW S, NEW s \in Seq(S), s # <<>>
    PROVE  /\ Len(s) \in Nat \ {0} /\ Last(s) = s[Len(s)] /\ Last(s) \in S
           /\ Front(s) \in Seq(S) /\ Len(Front(s)) = Len(s) - 1
           /\ \A i \in 1 .. Len(s) - 1 : Front(s)[i] = s[i]
<1>1. Len(s) \in Nat \ {0} /\ Last(s) = s[Len(s)] /\ Last(s) \in S
  BY DEF Last
<1>2. Len(s) - 1 \in 0 .. Len(s)
  BY <1>1
<1> QED BY <1>1, <1>2, Prefix DEF Front

\* A vertex on the stack has been visited and has an index of its own.
LEMMA OnStackFacts ==
    ASSUME TypeOK, Numbered, NEW u \in V, OnStack(u)
    PROVE  /\ Visited(u) /\ indices[u] \in Nat
           /\ \A w \in V : OnStack(w) /\ indices[w] = indices[u] => w = u
<1>1. PICK i \in 1 .. Len(stack) : stack[i] = u
  BY DEF OnStack
<1>2. Visited(u) /\ indices[u] \in Nat
  BY <1>1 DEF Numbered, TypeOK
<1>3. ASSUME NEW w \in V, OnStack(w), indices[w] = indices[u] PROVE w = u
  <2>1. PICK j \in 1 .. Len(stack) : stack[j] = w
    BY <1>3 DEF OnStack
  <2>2. i \in Nat /\ j \in Nat /\ indices[w] \in Nat
    BY DEF TypeOK
  <2>3. CASE i < j
    BY <1>1, <1>2, <1>3, <2>1, <2>2, <2>3 DEF Numbered
  <2>4. CASE j < i
    BY <1>1, <1>2, <1>3, <2>1, <2>2, <2>4 DEF Numbered
  <2> QED BY <1>1, <2>1, <2>2, <2>3, <2>4
<1> QED BY <1>2, <1>3

\* The vertex of an active call is on the stack.
LEMMA CallFacts ==
    ASSUME TypeOK, Numbered, NEW i \in 1 .. Len(frames)
    PROVE  /\ Of(i) \in V /\ OnStack(Of(i)) /\ Visited(Of(i))
           /\ indices[Of(i)] \in Nat /\ lowlinks[Of(i)] \in Nat
           /\ \A j \in 1 .. Len(frames) : Of(j) = Of(i) => j = i
<1>1. Of(i) \in V /\ OnStack(Of(i))
  <2>1. frames[i] \in Frame
    BY DEF TypeOK
  <2> QED BY <2>1 DEF Of, Frame, Numbered
<1>2. indices[Of(i)] \in Nat /\ lowlinks[Of(i)] \in Nat
  BY <1>1 DEF TypeOK
<1>3. Visited(Of(i))
  BY <1>1, OnStackFacts
<1>4. ASSUME NEW j \in 1 .. Len(frames), Of(j) = Of(i) PROVE j = i
  <2>1. i \in Nat /\ j \in Nat
    BY DEF TypeOK
  <2>2. ~(i < j) /\ ~(j < i)
    BY <1>2, <1>4 DEF Numbered
  <2> QED BY <2>1, <2>2
<1> QED BY <1>1, <1>2, <1>3, <1>4

\* Paths can be put together.
LEMMA PathTransitive ==
    ASSUME NEW a, NEW b, NEW c, Path(a, b), Path(b, c)
    PROVE  Path(a, c)
  BY DEF Path, Reaches

\* An edge is a path.
LEMMA PathEdge ==
    ASSUME NEW a, NEW b \in edges[a]
    PROVE  Path(a, b)
  BY DEF Path, Reaches

\* Paths are those of the graph, which a step leaves alone.
LEMMA PathsStay ==
    ASSUME UNCHANGED edges
    PROVE  \A a, b : Path(a, b)' <=> Path(a, b)
  BY DEF Path, Reaches

\* The active calls once the one on top has taken its successor w.
Taken(w) == Append(Front(frames), [v |-> Last(frames).v, todo |-> Last(frames).todo \ {w}])

\* Nothing but w is gone from what the calls have to do.
LEMMA TakeSuccessor ==
    ASSUME TypeOK, frames # <<>>, NEW w
    PROVE  /\ Taken(w) \in Seq(Frame) /\ Len(Taken(w)) = Len(frames)
           /\ \A i \in 1 .. Len(frames) :
                  /\ Taken(w)[i].v = Of(i)
                  /\ Taken(w)[i].todo = IF i = Len(frames) THEN frames[i].todo \ {w}
                                    ELSE frames[i].todo
<1> DEFINE n == Len(frames)
           f == [v |-> Last(frames).v, todo |-> Last(frames).todo \ {w}]
<1>1. n \in Nat \ {0} /\ Last(frames) = frames[n] /\ Last(frames) \in Frame
  BY LastFront DEF TypeOK
<1>2. f \in Frame
  BY <1>1 DEF Frame
<1>3. /\ Front(frames) \in Seq(Frame) /\ Len(Front(frames)) = n - 1
      /\ \A i \in 1 .. n - 1 : Front(frames)[i] = frames[i]
  BY LastFront DEF TypeOK
<1> HIDE DEF f
<1>4. /\ Taken(w) \in Seq(Frame) /\ Len(Taken(w)) = n
      /\ \A i \in 1 .. n - 1 : Taken(w)[i] = frames[i]
      /\ Taken(w)[n] = f
  <2>1. Taken(w) = Append(Front(frames), f)
    BY DEF Taken, f
  <2> QED BY <1>1, <1>2, <1>3, <2>1
<1>5. f.v = Of(n) /\ f.todo = frames[n].todo \ {w}
  BY <1>1 DEF f, Of
<1>6. ASSUME NEW i \in 1 .. n
      PROVE  /\ Taken(w)[i].v = Of(i)
             /\ Taken(w)[i].todo = IF i = n THEN frames[i].todo \ {w} ELSE frames[i].todo
  <2>1. CASE i = n
    BY <1>4, <1>5, <2>1
  <2>2. CASE i # n
    <3>1. i \in 1 .. n - 1
      BY <1>1, <2>2
    <3> QED BY <1>4, <2>2, <3>1 DEF Of
  <2> QED BY <2>1, <2>2
<1> QED BY <1>4, <1>6

-----------------------------------------------------------------------------
(***************************************************************************)
(* The steps.                                                              *)
(***************************************************************************)
\* Before the search nothing is visited.
LEMMA InitInv == Init => Inv
<1> SUFFICES ASSUME Init PROVE Inv
  OBVIOUS
<1>1. stack = <<>> /\ frames = <<>> /\ sccs = <<>> /\ over = FALSE
  BY DEF Init
<1>2. Len(stack) = 0 /\ Len(frames) = 0 /\ Len(sccs) = 0
  BY <1>1
<1>3. TypeOK
  <2>1. edges \in [V -> SUBSET V] /\ indices \in [V -> Nat] /\ lowlinks \in [V -> Nat]
    BY DEF Init
  <2>2. \A S : <<>> \in Seq(S)
    OBVIOUS
  <2> QED BY <1>1, <2>1, <2>2 DEF TypeOK
<1>4. \A v \in V : indices[v] = 0
  BY DEF Init
<1>5. Numbered
  <2>1. Seen = {}
    BY <1>4 DEF Visited, Seen
  <2>2. Cardinality(Seen) = 0
    BY <2>1, FS_EmptySet
  <2> QED BY <1>2, <1>4, <2>2 DEF Numbered
<1>6. \A v \in V : ~Visited(v) /\ ~OnStack(v)
  BY <1>2, <1>4 DEF Visited, OnStack
<1>7. Explored /\ Connected /\ LowReached /\ LowBounds
  BY <1>2, <1>6 DEF Explored, Connected, LowReached, LowBounds, Popped
<1>8. PoppedOnce /\ Exact /\ Returned
  BY <1>1, <1>2, <1>6 DEF PoppedOnce, Exact, Returned, Popped
<1> QED BY <1>3, <1>5, <1>7, <1>8 DEF Inv

\* A vertex is entered, by the loop of detect_deadlock or from a caller that has
\* it as its next successor.
LEMMA EnterInv ==
    ASSUME Inv, ~over, NEW x \in V, ~Visited(x),
           NEW base \in Seq(Frame), Len(base) = Len(frames),
           \A i \in 1 .. Len(frames) :
               /\ base[i].v = Of(i)
               /\ base[i].todo = IF i = Len(frames) THEN frames[i].todo \ {x}
                                 ELSE frames[i].todo,
           Len(frames) > 0 => x \in edges[Of(Len(frames))],
           Enter(x, base)
    PROVE  Inv'
<1> PICK n \in Nat : n = Len(frames)
  BY DEF Inv, TypeOK
<1> DEFINE c == 1 + Cardinality(Seen)
           f == [v |-> x, todo |-> edges[x]]
<1> USE DEF Inv
<1>1. /\ indices' = [indices EXCEPT ![x] = c] /\ lowlinks' = [lowlinks EXCEPT ![x] = c]
      /\ stack' = Append(stack, x) /\ frames' = Append(base, f)
      /\ UNCHANGED <<edges, sccs, over, reported>>
  <2>1. 1 + Cardinality({u \in V : Visited(u)}) = c
    BY DEF Seen
  <2> HIDE DEF c
  <2> QED BY <2>1 DEF Enter
<1>2. IsFiniteSet(Seen) /\ Cardinality(Seen) \in Nat /\ c \in Nat \ {0}
  <2>1. IsFiniteSet(Seen)
    BY VAssumption, FS_Subset DEF Seen
  <2> QED BY <2>1, FS_CardinalityType
<1>3. \A u \in V : indices'[u] = IF u = x THEN c ELSE indices[u]
  BY <1>1 DEF TypeOK
<1>4. \A u \in V : lowlinks'[u] = IF u = x THEN c ELSE lowlinks[u]
  BY <1>1 DEF TypeOK
<1> HIDE DEF c
<1>5. \A u \in V : Visited(u)' <=> Visited(u) \/ u = x
  BY <1>2, <1>3 DEF Visited
<1>6. Cardinality(Seen') = c
  <2>1. Seen' = Seen \cup {x}
    BY <1>5 DEF Seen
  <2>2. x \notin Seen
    BY DEF Seen
  <2>3. Cardinality(Seen \cup {x}) = Cardinality(Seen) + 1
    BY <1>2, <2>2, FS_AddElement
  <2> QED BY <1>2, <2>1, <2>3 DEF c
<1>7. \A u \in V : indices[u] \in Nat /\ indices[u] < c
  BY <1>2 DEF TypeOK, Numbered, c
<1>8. /\ stack' \in Seq(V) /\ Len(stack') = Len(stack) + 1
      /\ \A i \in 1 .. Len(stack) : stack'[i] = stack[i]
      /\ stack'[Len(stack) + 1] = x /\ Len(stack) \in Nat
  <2>1. stack \in Seq(V) /\ indices \in [V -> Nat]
    BY DEF TypeOK
  <2> QED BY <1>1, <2>1
<1>9. \A u \in V : OnStack(u)' <=> OnStack(u) \/ u = x
  BY <1>8 DEF OnStack
<1>10. ~OnStack(x)
  BY OnStackFacts
<1>19. edges[x] \subseteq V /\ \A u \in V : edges[u] \subseteq V
  BY DEF TypeOK
<1>11. f \in Frame /\ n \in Nat
  BY <1>19 DEF Frame
<1>12. f.v = x /\ f.todo = edges[x]
  OBVIOUS
<1> HIDE DEF f
<1>13. /\ frames' \in Seq(Frame) /\ Len(frames') = n + 1
       /\ \A i \in 1 .. n : frames'[i] = base[i]
       /\ frames'[n + 1] = f
  BY <1>1, <1>11
<1>14. /\ \A i \in 1 .. n : Of(i)' = Of(i) /\ Of(i) \in V /\ Of(i) # x
       /\ Of(n + 1)' = x
  BY <1>12, <1>13, CallFacts DEF Of
<1>15. \A i \in 1 .. n + 1 : frames'[i].todo =
           IF i = n + 1 THEN edges[x] ELSE IF i = n THEN frames[i].todo \ {x} ELSE frames[i].todo
  <2> SUFFICES ASSUME NEW i \in 1 .. n + 1
               PROVE  frames'[i].todo = IF i = n + 1 THEN edges[x]
                                        ELSE IF i = n THEN frames[i].todo \ {x} ELSE frames[i].todo
    OBVIOUS
  <2>1. CASE i = n + 1
    BY <1>12, <1>13, <2>1
  <2>2. CASE i # n + 1
    <3>1. i \in 1 .. n
      BY <1>11, <2>2
    <3> QED BY <1>13, <2>2, <3>1
  <2> QED BY <2>1, <2>2
<1>16. \A u, w : ToGo(u, w) => w = x \/ ToGo(u, w)'
  <2> SUFFICES ASSUME NEW u, NEW w, ToGo(u, w), w # x PROVE ToGo(u, w)'
    OBVIOUS
  <2>1. PICK i \in 1 .. n : Of(i) = u /\ w \in frames[i].todo
    BY DEF ToGo
  <2>2. i \in 1 .. n + 1 /\ i # n + 1
    BY <1>11
  <2>3. Of(i)' = u /\ w \in frames'[i].todo
    BY <1>14, <1>15, <2>1, <2>2
  <2> QED BY <1>13, <2>2, <2>3 DEF ToGo
<1>17. \A w \in edges[x] : ToGo(x, w)'
  <2>1. n + 1 \in 1 .. n + 1
    BY <1>11
  <2> QED BY <1>13, <1>14, <1>15, <2>1 DEF ToGo
<1>18. \A a, b : Path(a, b)' <=> Path(a, b)
  BY <1>1, PathsStay
<1>20. Popped' = Popped
  BY <1>5, <1>9, <1>10 DEF Popped
<1>21. TypeOK'
  BY <1>1, <1>2, <1>8, <1>13 DEF TypeOK
<1>22. Numbered'
  <2>1. \A v \in V : indices'[v] <= c
    BY <1>2, <1>3, <1>7
  <2>2. \A i \in 1 .. Len(stack) : stack'[i] = stack[i] /\ stack[i] \in V /\ stack[i] # x
    <3>1. \A i \in 1 .. Len(stack) : stack[i] \in V
      BY DEF TypeOK
    <3>2. \A i \in 1 .. Len(stack) : stack[i] # x
      BY <1>10 DEF OnStack
    <3> QED BY <1>8, <3>1, <3>2
  <2>3. \A i \in 1 .. Len(stack) + 1 : indices'[stack'[i]] # 0
    <3> SUFFICES ASSUME NEW i \in 1 .. Len(stack) + 1 PROVE indices'[stack'[i]] # 0
      OBVIOUS
    <3>1. CASE i = Len(stack) + 1
      BY <1>2, <1>3, <1>8, <3>1
    <3>2. CASE i # Len(stack) + 1
      <4>1. i \in 1 .. Len(stack)
        BY <1>8, <3>2
      <4> QED BY <1>3, <2>2, <4>1 DEF Numbered, Visited
    <3> QED BY <3>1, <3>2
  <2>6. \A i, j \in 1 .. Len(stack) + 1 : i < j => indices'[stack'[i]] < indices'[stack'[j]]
    <3> SUFFICES ASSUME NEW i \in 1 .. Len(stack) + 1, NEW j \in 1 .. Len(stack) + 1, i < j
                 PROVE  indices'[stack'[i]] < indices'[stack'[j]]
      OBVIOUS
    <3>1. i \in 1 .. Len(stack)
      BY <1>8
    <3>2. CASE j = Len(stack) + 1
      BY <1>3, <1>7, <1>8, <2>2, <3>1, <3>2
    <3>3. CASE j # Len(stack) + 1
      <4>1. j \in 1 .. Len(stack)
        BY <1>8, <3>3
      <4> QED BY <1>3, <2>2, <3>1, <4>1 DEF Numbered
    <3> QED BY <3>2, <3>3
  <2>4. \A i \in 1 .. n + 1 : OnStack(Of(i))'
    <3> SUFFICES ASSUME NEW i \in 1 .. n + 1 PROVE OnStack(Of(i))'
      OBVIOUS
    <3>1. CASE i = n + 1
      BY <1>9, <1>14, <3>1 DEF OnStack
    <3>2. CASE i # n + 1
      <4>1. i \in 1 .. n
        BY <1>11, <3>2
      <4> QED BY <1>9, <1>14, <4>1 DEF OnStack, Numbered
    <3> QED BY <3>1, <3>2
  <2>5. \A i, j \in 1 .. n + 1 : i < j => indices'[Of(i)'] < indices'[Of(j)']
    <3> SUFFICES ASSUME NEW i \in 1 .. n + 1, NEW j \in 1 .. n + 1, i < j
                 PROVE  indices'[Of(i)'] < indices'[Of(j)']
      OBVIOUS
    <3>1. i \in 1 .. n
      BY <1>11
    <3>2. CASE j = n + 1
      BY <1>3, <1>7, <1>14, <3>1, <3>2
    <3>3. CASE j # n + 1
      <4>1. j \in 1 .. n
        BY <1>11, <3>3
      <4> QED BY <1>3, <1>14, <3>1, <4>1 DEF Numbered
    <3> QED BY <3>2, <3>3
  <2> QED BY <1>6, <1>8, <1>13, <2>1, <2>3, <2>4, <2>5, <2>6 DEF Numbered, Visited
<1>23. Explored'
  <2>1. ASSUME NEW i \in 1 .. n + 1 PROVE frames'[i].todo \subseteq edges[Of(i)']
    <3>1. CASE i = n + 1
      BY <1>14, <1>15, <3>1
    <3>2. CASE i # n + 1
      <4>1. i \in 1 .. n
        BY <1>11, <3>2
      <4> QED BY <1>14, <1>15, <3>2, <4>1 DEF Explored
    <3> QED BY <3>1, <3>2
  <2>2. ASSUME NEW v \in V, Visited(v)', NEW w \in edges[v] PROVE ToGo(v, w)' \/ Visited(w)'
    <3>1. CASE v = x
      BY <1>17, <3>1
    <3>2. CASE v # x
      BY <1>5, <1>16, <1>19, <2>2, <3>2 DEF Explored
    <3> QED BY <3>1, <3>2
  <2>3. \A v \in Popped : edges[v] \subseteq Popped
    BY DEF Explored
  <2> QED BY <1>1, <1>13, <1>20, <2>1, <2>2, <2>3 DEF Explored
<1>24. Connected'
  <2>1. ASSUME NEW i \in 1 .. n, NEW v \in V, OnStack(v)', indices'[Of(i)'] <= indices'[v]
        PROVE  Path(Of(i), v)
    <3>1. CASE v # x
      BY <1>3, <1>9, <1>14, <2>1, <3>1 DEF Connected
    <3>2. CASE v = x
      <4>1. n \in 1 .. n /\ indices[Of(i)] <= indices[Of(n)]
        <5>1. n \in 1 .. n
          BY <1>11
        <5>2. CASE i = n
          BY <1>7, <1>14, <5>2
        <5>3. CASE i # n
          BY <1>7, <1>11, <1>14, <5>1, <5>3 DEF Numbered
        <5> QED BY <5>1, <5>2, <5>3
      <4>2. Path(Of(i), Of(n))
        BY <1>14, <4>1 DEF Connected, Numbered
      <4>3. Path(Of(n), x)
        BY <4>1, PathEdge
      <4> QED BY <3>2, <4>2, <4>3, PathTransitive
    <3> QED BY <3>1, <3>2
  <2>2. ASSUME NEW v \in V, OnStack(v)', indices'[x] <= indices'[v]
        PROVE  Path(x, v)
    <3>1. v = x
      BY <1>2, <1>3, <1>7, <2>2
    <3> QED BY <3>1 DEF Path
  <2>3. ASSUME NEW v \in V, OnStack(v)'
        PROVE  \E i \in 1 .. n + 1 : indices'[Of(i)'] <= indices'[v] /\ Path(v, Of(i)')
    <3>1. CASE v = x
      <4>1. n + 1 \in 1 .. n + 1 /\ indices'[x] <= indices'[x] /\ Path(x, x)
        BY <1>2, <1>3, <1>11 DEF Path
      <4> QED BY <1>14, <3>1, <4>1
    <3>2. CASE v # x
      <4>1. PICK i \in 1 .. n : indices[Of(i)] <= indices[v] /\ Path(v, Of(i))
        BY <1>9, <2>3, <3>2 DEF Connected
      <4>2. i \in 1 .. n + 1
        BY <1>11
      <4> QED BY <1>3, <1>14, <3>2, <4>1, <4>2
    <3> QED BY <3>1, <3>2
  <2>4. ASSUME NEW i \in 1 .. n + 1, NEW v \in V, OnStack(v)', indices'[Of(i)'] <= indices'[v]
        PROVE  Path(Of(i)', v)
    <3>1. CASE i = n + 1
      BY <1>14, <2>2, <2>4, <3>1
    <3>2. CASE i # n + 1
      <4>1. i \in 1 .. n
        BY <1>11, <3>2
      <4> QED BY <1>14, <2>1, <2>4, <4>1
    <3> QED BY <3>1, <3>2
  <2> QED BY <1>13, <1>18, <2>3, <2>4 DEF Connected
<1>25. LowReached'
  <2> SUFFICES ASSUME NEW i \in 1 .. n + 1
               PROVE  /\ lowlinks'[Of(i)'] <= indices'[Of(i)']
                      /\ \E u \in V : /\ OnStack(u)' /\ indices'[u] = lowlinks'[Of(i)']
                                      /\ Path(Of(i)', u)
    BY <1>13, <1>18 DEF LowReached
  <2>1. CASE i = n + 1
    <3>1. lowlinks'[x] = c /\ indices'[x] = c /\ OnStack(x)' /\ Path(x, x)
      BY <1>3, <1>4, <1>9 DEF Path
    <3> QED BY <1>2, <1>14, <2>1, <3>1
  <2>2. CASE i # n + 1
    <3>1. i \in 1 .. n
      BY <1>11, <2>2
    <3>2. PICK u \in V : OnStack(u) /\ indices[u] = lowlinks[Of(i)] /\ Path(Of(i), u)
      BY <3>1 DEF LowReached
    <3>3. lowlinks[Of(i)] <= indices[Of(i)]
      BY <3>1 DEF LowReached
    <3> QED BY <1>3, <1>4, <1>9, <1>10, <1>14, <3>1, <3>2, <3>3
  <2> QED BY <2>1, <2>2
<1>26. LowBounds'
  <2> SUFFICES ASSUME NEW i \in 1 .. n + 1, NEW v \in V, NEW w \in V,
                      OnStack(v)', indices'[Of(i)'] <= indices'[v],
                      i < n + 1 => indices'[v] < indices'[Of(i + 1)'],
                      w \in edges[v], OnStack(w)', ~ToGo(v, w)'
               PROVE  lowlinks'[Of(i)'] <= indices'[w]
    BY <1>1, <1>13 DEF LowBounds
  <2>1. v # x
    BY <1>17
  <2>2. i \in 1 .. n
    <3>1. i # n + 1
      BY <1>2, <1>3, <1>7, <1>14, <2>1
    <3> QED BY <1>11, <3>1
  <2>3. lowlinks'[Of(i)'] = lowlinks[Of(i)] /\ lowlinks[Of(i)] <= indices[Of(i)]
    BY <1>4, <1>14, <2>2 DEF LowReached
  <2>4. lowlinks[Of(i)] \in Nat /\ indices[Of(i)] \in Nat
    BY <2>2, CallFacts
  <2>5. CASE w = x
    BY <1>2, <1>3, <1>7, <1>14, <2>2, <2>3, <2>4, <2>5
  <2>6. CASE w # x
    <3>1. OnStack(v) /\ OnStack(w) /\ ~ToGo(v, w)
      BY <1>9, <1>16, <2>1, <2>6
    <3>2. indices[Of(i)] <= indices[v]
      BY <1>3, <1>14, <2>1, <2>2
    <3>3. ASSUME i < n PROVE indices[v] < indices[Of(i + 1)]
      <4>1. i + 1 \in 1 .. n /\ i < n + 1
        BY <1>11, <2>2, <3>3
      <4> QED BY <1>3, <1>14, <2>1, <4>1
    <3>4. lowlinks[Of(i)] <= indices[w]
      BY <2>2, <3>1, <3>2, <3>3 DEF LowBounds
    <3> QED BY <1>3, <2>3, <2>6, <3>4
  <2> QED BY <2>5, <2>6
<1>27. PoppedOnce' /\ Exact'
  BY <1>1, <1>20 DEF PoppedOnce, Exact
<1>28. Returned'
  BY <1>1 DEF Returned
<1> QED BY <1>21, <1>22, <1>23, <1>24, <1>25, <1>26, <1>27, <1>28

\* A successor that has been visited is passed over, and its index taken over if
\* it is on the stack.
LEMMA VisitedInv ==
    ASSUME Inv, frames # <<>>, NEW x \in Last(frames).todo, Visited(x),
           frames' = Taken(x),
           lowlinks' = IF Contains(stack, x) /\ indices[x] < lowlinks[Last(frames).v]
                       THEN [lowlinks EXCEPT ![Last(frames).v] = indices[x]] ELSE lowlinks,
           UNCHANGED <<edges, indices, stack, sccs, over, reported>>
    PROVE  Inv'
<1> PICK n \in Nat : n = Len(frames)
  BY DEF Inv, TypeOK
<1> PICK rest : rest = Taken(x)
  OBVIOUS
<1> USE DEF Inv
<1>1. /\ rest \in Seq(Frame) /\ Len(rest) = n
      /\ \A i \in 1 .. n : /\ rest[i].v = Of(i)
                           /\ rest[i].todo = IF i = n THEN frames[i].todo \ {x}
                                             ELSE frames[i].todo
  BY TakeSuccessor
<1>2. n \in 1 .. n /\ Last(frames) = frames[n]
  <2>1. frames \in Seq(Frame)
    BY DEF TypeOK
  <2>2. Len(frames) \in Nat \ {0} /\ Last(frames) = frames[Len(frames)]
    BY <2>1, LastFront
  <2> QED BY <2>2
<1>3. \A i \in 1 .. n : Of(i)' = Of(i)
  BY <1>1 DEF Of
<1>4. \A i \in 1 .. n : /\ Of(i) \in V /\ OnStack(Of(i))
                        /\ indices[Of(i)] \in Nat /\ lowlinks[Of(i)] \in Nat
  BY CallFacts
<1>5. Last(frames).v = Of(n) /\ x \in edges[Of(n)] /\ x \in V
  <2>1. Last(frames).v = Of(n) /\ x \in edges[Of(n)]
    BY <1>2 DEF Of, Explored
  <2> QED BY <1>2, <1>4, <2>1 DEF TypeOK
<1>6. \A u : /\ OnStack(u)' <=> OnStack(u)
             /\ Visited(u)' <=> Visited(u)
  BY DEF OnStack, Visited
<1>7. Seen' = Seen /\ Popped' = Popped
  BY <1>6 DEF Seen, Popped
<1>8. \A a, b : Path(a, b)' <=> Path(a, b)
  BY PathsStay
<1>9. \A u, w : ToGo(u, w) => (u = Of(n) /\ w = x) \/ ToGo(u, w)'
  <2> SUFFICES ASSUME NEW u, NEW w, ToGo(u, w), ~(u = Of(n) /\ w = x) PROVE ToGo(u, w)'
    OBVIOUS
  <2>1. PICK i \in 1 .. n : Of(i) = u /\ w \in frames[i].todo
    BY DEF ToGo
  <2>2. w \in frames'[i].todo
    <3>1. CASE i = n
      BY <1>1, <2>1, <3>1
    <3>2. CASE i # n
      BY <1>1, <2>1, <3>2
    <3> QED BY <3>1, <3>2
  <2>3. Of(i)' = u /\ Len(frames') = n
    BY <1>1, <1>3, <2>1
  <2> QED BY <2>2, <2>3 DEF ToGo
<1>10. Contains(stack, x) <=> OnStack(x)
  BY DEF Contains, OnStack
<1>11. /\ lowlinks' \in [V -> Nat]
       /\ \A u \in V \ {Of(n)} : lowlinks'[u] = lowlinks[u]
       /\ lowlinks'[Of(n)] <= lowlinks[Of(n)]
       /\ OnStack(x) => lowlinks'[Of(n)] <= indices[x]
       /\ lowlinks'[Of(n)] = lowlinks[Of(n)]
              \/ (OnStack(x) /\ lowlinks'[Of(n)] = indices[x])
  <2>1. lowlinks \in [V -> Nat] /\ indices[x] \in Nat /\ Of(n) \in V /\ lowlinks[Of(n)] \in Nat
    BY <1>2, <1>4, <1>5 DEF TypeOK
  <2>2. CASE OnStack(x) /\ indices[x] < lowlinks[Of(n)]
    <3>1. lowlinks' = [lowlinks EXCEPT ![Of(n)] = indices[x]]
      BY <1>5, <1>10, <2>2
    <3> QED BY <2>1, <2>2, <3>1
  <2>3. CASE ~(OnStack(x) /\ indices[x] < lowlinks[Of(n)])
    <3>1. lowlinks' = lowlinks
      BY <1>5, <1>10, <2>3
    <3>2. OnStack(x) => lowlinks[Of(n)] <= indices[x]
      BY <2>1, <2>3
    <3>3. lowlinks[Of(n)] <= lowlinks[Of(n)]
      BY <2>1
    <3> HIDE DEF Inv
    <3> QED BY <2>1, <3>1, <3>2, <3>3
  <2> QED BY <2>2, <2>3
<1>12. TypeOK'
  BY <1>1, <1>11 DEF TypeOK
<1>13. Numbered'
  <2>1. \A v \in V : indices'[v] <= Cardinality(Seen')
    BY <1>7 DEF Numbered
  <2>2. \A i \in 1 .. n : OnStack(Of(i))'
    BY <1>3, <1>4, <1>6 DEF OnStack
  <2>3. \A i, j \in 1 .. n : i < j => indices'[Of(i)'] < indices'[Of(j)']
    BY <1>3 DEF Numbered
  <2> QED BY <1>1, <2>1, <2>2, <2>3 DEF Numbered, Visited
<1>14. Explored'
  <2>1. \A i \in 1 .. n : frames'[i].todo \subseteq edges'[Of(i)']
    <3> SUFFICES ASSUME NEW i \in 1 .. n PROVE frames'[i].todo \subseteq edges'[Of(i)']
      OBVIOUS
    <3>1. frames'[i].todo \subseteq frames[i].todo
      BY <1>1
    <3> QED BY <1>3, <3>1 DEF Explored
  <2>2. \A v \in V : Visited(v)' => \A w \in edges'[v] : ToGo(v, w)' \/ Visited(w)'
    BY <1>6, <1>9 DEF Explored
  <2>3. \A v \in Popped : edges[v] \subseteq Popped
    BY DEF Explored
  <2> QED BY <1>1, <1>7, <2>1, <2>2, <2>3 DEF Explored
<1>15. Connected'
  <2>1. \A i \in 1 .. n : \A v \in V : OnStack(v)' /\ indices'[Of(i)'] <= indices'[v] => Path(Of(i)', v)
    BY <1>3, <1>6 DEF Connected
  <2>2. \A v \in V : OnStack(v)' =>
            \E i \in 1 .. n : indices'[Of(i)'] <= indices'[v] /\ Path(v, Of(i)')
    <3> SUFFICES ASSUME NEW v \in V, OnStack(v)'
                 PROVE  \E i \in 1 .. n : indices'[Of(i)'] <= indices'[v] /\ Path(v, Of(i)')
      OBVIOUS
    <3>1. PICK i \in 1 .. n : indices[Of(i)] <= indices[v] /\ Path(v, Of(i))
      BY <1>6 DEF Connected
    <3> QED BY <1>3, <3>1
  <2> QED BY <1>1, <1>8, <2>1, <2>2 DEF Connected
<1>16. LowReached'
  <2> SUFFICES ASSUME NEW i \in 1 .. n
               PROVE  /\ lowlinks'[Of(i)] <= indices[Of(i)]
                      /\ \E u \in V : /\ OnStack(u) /\ indices[u] = lowlinks'[Of(i)]
                                      /\ Path(Of(i), u)
    BY <1>1, <1>3, <1>6, <1>8 DEF LowReached
  <2>1. /\ lowlinks[Of(i)] <= indices[Of(i)]
        /\ \E u \in V : OnStack(u) /\ indices[u] = lowlinks[Of(i)] /\ Path(Of(i), u)
    BY DEF LowReached
  <2>2. CASE lowlinks'[Of(i)] = lowlinks[Of(i)]
    BY <2>1, <2>2
  <2>3. CASE lowlinks'[Of(i)] # lowlinks[Of(i)]
    <3>1. Of(i) = Of(n) /\ OnStack(x) /\ lowlinks'[Of(i)] = indices[x]
      BY <1>4, <1>11, <2>3
    <3>2. lowlinks'[Of(i)] <= indices[Of(i)]
      <4>1. lowlinks'[Of(n)] \in Nat
        BY <1>2, <1>4, <1>11
      <4> QED BY <1>2, <1>4, <1>11, <2>1, <3>1, <4>1
    <3>3. Path(Of(i), x)
      BY <1>5, <3>1, PathEdge
    <3> QED BY <1>5, <3>1, <3>2, <3>3
  <2> QED BY <2>2, <2>3
<1>17. LowBounds'
  <2> SUFFICES ASSUME NEW i \in 1 .. n, NEW v \in V, NEW w \in V,
                      OnStack(v), indices[Of(i)] <= indices[v],
                      i < n => indices[v] < indices[Of(i + 1)'],
                      w \in edges[v], OnStack(w), ~ToGo(v, w)'
               PROVE  lowlinks'[Of(i)] <= indices[w]
    BY <1>1, <1>3, <1>6 DEF LowBounds
  <2>1. i < n => indices[v] < indices[Of(i + 1)]
    <3> SUFFICES ASSUME i < n PROVE indices[v] < indices[Of(i + 1)]
      OBVIOUS
    <3>1. i + 1 \in 1 .. n
      OBVIOUS
    <3> QED BY <1>3, <3>1
  <2>2. lowlinks'[Of(i)] \in Nat /\ lowlinks[Of(i)] \in Nat /\ indices[w] \in Nat
    BY <1>4, <1>11 DEF TypeOK
  <2>3. lowlinks'[Of(i)] <= lowlinks[Of(i)]
    BY <1>4, <1>11, <2>2
  <2>4. CASE ~ToGo(v, w)
    <3>1. lowlinks[Of(i)] <= indices[w]
      BY <2>1, <2>4 DEF LowBounds
    <3> QED BY <2>2, <2>3, <3>1
  <2>5. CASE ToGo(v, w)
    <3>1. v = Of(n) /\ w = x
      BY <1>9, <2>5
    <3>2. i = n
      <4>1. ASSUME i < n PROVE FALSE
        <5>1. indices[Of(n)] < indices[Of(i + 1)] /\ i + 1 \in 1 .. n
          BY <2>1, <3>1, <4>1
        <5>2. CASE i + 1 = n
          BY <1>2, <1>4, <5>1, <5>2
        <5>3. CASE i + 1 # n
          <6>1. i + 1 < n
            BY <5>1, <5>3
          <6>2. indices[Of(i + 1)] < indices[Of(n)]
            BY <1>2, <5>1, <6>1 DEF Numbered
          <6>3. indices[Of(i + 1)] \in Nat /\ indices[Of(n)] \in Nat
            BY <1>2, <1>4, <5>1
          <6> QED BY <5>1, <6>2, <6>3
        <5> QED BY <5>2, <5>3
      <4> QED BY <4>1
    <3> QED BY <1>11, <3>1, <3>2
  <2> QED BY <2>4, <2>5
<1>18. PoppedOnce' /\ Exact'
  BY <1>7 DEF PoppedOnce, Exact
<1>19. Returned'
  <2>1. ~over
    BY DEF Returned
  <2> QED BY <2>1 DEF Returned
<1> QED BY <1>12, <1>13, <1>14, <1>15, <1>16, <1>17, <1>18, <1>19

\* A call returns, and its caller takes the lowlink over.
Returns ==
    /\ frames # <<>> /\ Last(frames).todo = {}
    /\ frames' = Front(frames)
    /\ lowlinks' = IF frames' # <<>> /\ lowlinks[Last(frames).v] < lowlinks[Last(frames').v]
                   THEN [lowlinks EXCEPT ![Last(frames').v] = lowlinks[Last(frames).v]]
                   ELSE lowlinks
    /\ UNCHANGED <<edges, indices, over, reported>>

\* What a return does to the active calls.
LEMMA ReturnFacts ==
    ASSUME Inv, Returns, NEW n \in Nat, n = Len(frames)
    PROVE  /\ n \in 1 .. n /\ Last(frames).v = Of(n) /\ frames[n].todo = {}
           /\ frames' \in Seq(Frame) /\ Len(frames') = n - 1
           /\ \A i \in 1 .. n - 1 : frames'[i] = frames[i] /\ Of(i)' = Of(i) /\ i \in 1 .. n
           /\ \A u, w : ToGo(u, w) => ToGo(u, w)'
           /\ lowlinks' \in [V -> Nat]
           /\ \A i \in 1 .. n - 1 : i # n - 1 => lowlinks'[Of(i)] = lowlinks[Of(i)]
           /\ n > 1 => /\ lowlinks'[Of(n - 1)] <= lowlinks[Of(n - 1)]
                       /\ lowlinks'[Of(n - 1)] <= lowlinks[Of(n)]
                       /\ lowlinks'[Of(n - 1)] \in {lowlinks[Of(n - 1)], lowlinks[Of(n)]}
<1> USE DEF Inv
<1>1. /\ Len(frames) \in Nat \ {0} /\ Last(frames) = frames[Len(frames)]
      /\ Front(frames) \in Seq(Frame) /\ Len(Front(frames)) = Len(frames) - 1
      /\ \A i \in 1 .. Len(frames) - 1 : Front(frames)[i] = frames[i]
  <2>1. frames \in Seq(Frame) /\ frames # <<>>
    BY DEF TypeOK, Returns
  <2> QED BY <2>1, LastFront
<1>2. n \in 1 .. n /\ Last(frames).v = Of(n) /\ frames[n].todo = {}
  BY <1>1 DEF Of, Returns
<1>3. /\ frames' \in Seq(Frame) /\ Len(frames') = n - 1
      /\ \A i \in 1 .. n - 1 : frames'[i] = frames[i] /\ Of(i)' = Of(i) /\ i \in 1 .. n
  BY <1>1 DEF Returns, Of
<1>4. ASSUME NEW u, NEW w, ToGo(u, w) PROVE ToGo(u, w)'
  <2>1. PICK i \in 1 .. n : Of(i) = u /\ w \in frames[i].todo
    BY <1>4 DEF ToGo
  <2>2. i \in 1 .. n - 1
    BY <1>2, <2>1
  <2>3. Of(i)' = u /\ w \in frames'[i].todo
    BY <1>3, <2>1, <2>2
  <2> QED BY <1>3, <2>2, <2>3 DEF ToGo
<1>5. \A i \in 1 .. n : Of(i) \in V /\ lowlinks[Of(i)] \in Nat
  BY CallFacts
<1>6. \A i, j \in 1 .. n : Of(i) = Of(j) => i = j
  BY CallFacts
<1>7. CASE n = 1
  <2>1. frames' = <<>>
    BY <1>3, <1>7
  <2>2. lowlinks' = lowlinks
    BY <2>1 DEF Returns
  <2>3. lowlinks' \in [V -> Nat]
    BY <2>2 DEF TypeOK
  <2> QED BY <1>2, <1>3, <1>4, <1>7, <2>3
<1>8. CASE n # 1
  <2>1. n - 1 \in 1 .. n - 1 /\ n - 1 \in 1 .. n /\ n > 1
    BY <1>2, <1>8
  <2>2. frames' # <<>> /\ Last(frames').v = Of(n - 1)
    <3>1. frames' # <<>>
      BY <1>3, <2>1
    <3>2. Last(frames') = frames'[n - 1]
      BY <1>3, <3>1 DEF Last
    <3>3. frames'[n - 1] = frames[n - 1]
      BY <1>3, <2>1
    <3> QED BY <3>1, <3>2, <3>3 DEF Of
  <2>3. CASE lowlinks[Of(n)] < lowlinks[Of(n - 1)]
    <3>1. lowlinks' = [lowlinks EXCEPT ![Of(n - 1)] = lowlinks[Of(n)]]
      BY <1>2, <2>2, <2>3 DEF Returns
    <3>2. lowlinks \in [V -> Nat]
      BY DEF TypeOK
    <3>3. /\ lowlinks' \in [V -> Nat] /\ lowlinks'[Of(n - 1)] = lowlinks[Of(n)]
          /\ \A u \in V : u # Of(n - 1) => lowlinks'[u] = lowlinks[u]
      BY <1>2, <1>5, <2>1, <3>1, <3>2
    <3>4. \A i \in 1 .. n - 1 : i # n - 1 => lowlinks'[Of(i)] = lowlinks[Of(i)]
      BY <1>3, <1>5, <1>6, <2>1, <3>3
    <3>5. lowlinks'[Of(n - 1)] <= lowlinks[Of(n)] /\ lowlinks'[Of(n - 1)] <= lowlinks[Of(n - 1)]
      BY <1>2, <1>5, <2>1, <2>3, <3>3
    <3> QED BY <1>2, <1>3, <1>4, <3>3, <3>4, <3>5
  <2>4. CASE ~(lowlinks[Of(n)] < lowlinks[Of(n - 1)])
    <3>1. lowlinks' = lowlinks
      BY <1>2, <2>2, <2>4 DEF Returns
    <3>2. lowlinks' \in [V -> Nat]
      BY <3>1 DEF TypeOK
    <3>3. lowlinks[Of(n - 1)] <= lowlinks[Of(n)] /\ lowlinks[Of(n - 1)] <= lowlinks[Of(n - 1)]
      BY <1>2, <1>5, <2>1, <2>4
    <3> QED BY <1>2, <1>3, <1>4, <3>1, <3>2, <3>3
  <2> QED BY <2>3, <2>4
<1> QED BY <1>7, <1>8

\* A return that pops nothing: what reached the vertex reaches the stack below it.
LEMMA KeepInv ==
    ASSUME Inv, Returns, UNCHANGED <<sccs, stack>>,
           lowlinks[Last(frames).v] # indices[Last(frames).v]
    PROVE  Inv'
<1> PICK n \in Nat : n = Len(frames)
  BY DEF Inv, TypeOK
<1> USE DEF Inv
<1>1. /\ n \in 1 .. n /\ Last(frames).v = Of(n) /\ frames[n].todo = {}
      /\ frames' \in Seq(Frame) /\ Len(frames') = n - 1
      /\ \A i \in 1 .. n - 1 : frames'[i] = frames[i] /\ Of(i)' = Of(i) /\ i \in 1 .. n
      /\ lowlinks' \in [V -> Nat]
      /\ UNCHANGED <<edges, indices, over, reported>>
  BY ReturnFacts DEF Returns
<1>2. \A u, w : ToGo(u, w) => ToGo(u, w)'
  BY ReturnFacts
<1>3. /\ \A i \in 1 .. n - 1 : i # n - 1 => lowlinks'[Of(i)] = lowlinks[Of(i)]
      /\ n > 1 => /\ lowlinks'[Of(n - 1)] <= lowlinks[Of(n - 1)]
                  /\ lowlinks'[Of(n - 1)] <= lowlinks[Of(n)]
                  /\ lowlinks'[Of(n - 1)] \in {lowlinks[Of(n - 1)], lowlinks[Of(n)]}
  BY ReturnFacts
<1>4. \A i \in 1 .. n : /\ Of(i) \in V /\ OnStack(Of(i))
                        /\ indices[Of(i)] \in Nat /\ lowlinks[Of(i)] \in Nat
  BY CallFacts
<1>5. \A i, j \in 1 .. n : i < j => indices[Of(i)] < indices[Of(j)]
  BY DEF Numbered
<1>6. \A u : /\ OnStack(u)' <=> OnStack(u)
             /\ Visited(u)' <=> Visited(u)
  BY <1>1 DEF OnStack, Visited
<1>7. Seen' = Seen /\ Popped' = Popped
  BY <1>6 DEF Seen, Popped
<1>8. \A a, b : Path(a, b)' <=> Path(a, b)
  BY <1>1, PathsStay
<1>9. TypeOK'
  BY <1>1 DEF TypeOK
<1>10. Numbered'
  <2>1. \A v \in V : indices'[v] <= Cardinality(Seen')
    BY <1>1, <1>7 DEF Numbered
  <2>2. \A i \in 1 .. n - 1 : OnStack(Of(i))'
    <3> SUFFICES ASSUME NEW i \in 1 .. n - 1 PROVE OnStack(Of(i))'
      OBVIOUS
    <3>1. OnStack(Of(i)) /\ Of(i)' = Of(i)
      BY <1>1, <1>4
    <3> QED BY <3>1 DEF OnStack
  <2>3. \A i, j \in 1 .. n - 1 : i < j => indices'[Of(i)'] < indices'[Of(j)']
    BY <1>1, <1>5
  <2> QED BY <1>1, <2>1, <2>2, <2>3 DEF Numbered, Visited
<1>11. Explored'
  <2>1. \A i \in 1 .. n - 1 : frames'[i].todo \subseteq edges'[Of(i)']
    BY <1>1 DEF Explored
  <2>2. \A v \in V : Visited(v)' => \A w \in edges'[v] : ToGo(v, w)' \/ Visited(w)'
    BY <1>1, <1>2, <1>6 DEF Explored
  <2>3. \A v \in Popped : edges[v] \subseteq Popped
    BY DEF Explored
  <2> QED BY <1>1, <1>7, <2>1, <2>2, <2>3 DEF Explored
<1>12. Connected'
  <2>1. \A i \in 1 .. n - 1 : \A v \in V :
            OnStack(v)' /\ indices'[Of(i)'] <= indices'[v] => Path(Of(i)', v)
    BY <1>1, <1>6 DEF Connected
  <2>2. ASSUME NEW v \in V, OnStack(v)
        PROVE  \E i \in 1 .. n - 1 : indices[Of(i)] <= indices[v] /\ Path(v, Of(i))
    <3>1. PICK i \in 1 .. n : indices[Of(i)] <= indices[v] /\ Path(v, Of(i))
      BY <2>2 DEF Connected
    <3>2. CASE i # n
      <4>1. i \in 1 .. n - 1
        BY <3>2
      <4> QED BY <3>1, <4>1
    <3>3. CASE i = n
      <4>1. PICK u \in V : OnStack(u) /\ indices[u] = lowlinks[Of(n)] /\ Path(Of(n), u)
        BY <1>1 DEF LowReached
      <4>2. lowlinks[Of(n)] <= indices[Of(n)] /\ lowlinks[Of(n)] # indices[Of(n)]
        BY <1>1 DEF LowReached
      <4>3. PICK j \in 1 .. n : indices[Of(j)] <= indices[u] /\ Path(u, Of(j))
        BY <4>1 DEF Connected
      <4>4. j \in 1 .. n - 1
        <5>1. indices[Of(j)] \in Nat /\ indices[Of(n)] \in Nat /\ lowlinks[Of(n)] \in Nat
          BY <1>1, <1>4
        <5>2. indices[Of(j)] # indices[Of(n)]
          BY <4>1, <4>2, <4>3, <5>1
        <5> QED BY <5>2
      <4>5. indices[Of(j)] <= indices[v]
        <5>1. /\ indices[v] \in Nat /\ indices[u] \in Nat
              /\ indices[Of(j)] \in Nat /\ indices[Of(n)] \in Nat
          BY <1>1, <1>4 DEF TypeOK
        <5> QED BY <3>1, <3>3, <4>1, <4>2, <4>3, <5>1
      <4>6. Path(v, Of(j))
        BY <3>1, <3>3, <4>1, <4>3, PathTransitive
      <4> QED BY <4>4, <4>5, <4>6
    <3> QED BY <3>2, <3>3
  <2>3. \A v \in V : OnStack(v)' =>
            \E i \in 1 .. n - 1 : indices'[Of(i)'] <= indices'[v] /\ Path(v, Of(i)')
    <3> SUFFICES ASSUME NEW v \in V, OnStack(v)'
                 PROVE  \E i \in 1 .. n - 1 : indices'[Of(i)'] <= indices'[v] /\ Path(v, Of(i)')
      OBVIOUS
    <3>1. PICK i \in 1 .. n - 1 : indices[Of(i)] <= indices[v] /\ Path(v, Of(i))
      BY <1>6, <2>2
    <3> QED BY <1>1, <3>1
  <2> QED BY <1>1, <1>8, <2>1, <2>3 DEF Connected
<1>13. LowReached'
  <2> SUFFICES ASSUME NEW i \in 1 .. n - 1
               PROVE  /\ lowlinks'[Of(i)] <= indices[Of(i)]
                      /\ \E u \in V : /\ OnStack(u) /\ indices[u] = lowlinks'[Of(i)]
                                      /\ Path(Of(i), u)
    BY <1>1, <1>6, <1>8 DEF LowReached
  <2>1. i \in 1 .. n /\ i < n
    BY <1>1
  <2>2. /\ lowlinks[Of(i)] <= indices[Of(i)]
        /\ \E u \in V : OnStack(u) /\ indices[u] = lowlinks[Of(i)] /\ Path(Of(i), u)
    BY <2>1 DEF LowReached
  <2>3. CASE lowlinks'[Of(i)] = lowlinks[Of(i)]
    BY <2>2, <2>3
  <2>4. CASE lowlinks'[Of(i)] # lowlinks[Of(i)]
    <3>1. i = n - 1 /\ n > 1
      BY <1>3, <2>1, <2>4
    <3>2. lowlinks'[Of(i)] = lowlinks[Of(n)] /\ lowlinks'[Of(i)] <= lowlinks[Of(i)]
      BY <1>3, <2>4, <3>1
    <3>3. lowlinks'[Of(i)] <= indices[Of(i)]
      BY <1>1, <1>4, <2>1, <2>2, <3>2
    <3>4. PICK u \in V : OnStack(u) /\ indices[u] = lowlinks[Of(n)] /\ Path(Of(n), u)
      BY <1>1 DEF LowReached
    <3>5. Path(Of(i), Of(n))
      <4>1. indices[Of(i)] <= indices[Of(n)]
        BY <1>1, <1>4, <1>5, <2>1
      <4> QED BY <1>1, <1>4, <2>1, <4>1 DEF Connected
    <3>6. Path(Of(i), u)
      BY <3>4, <3>5, PathTransitive
    <3> QED BY <3>2, <3>3, <3>4, <3>6
  <2> QED BY <2>3, <2>4
<1>14. LowBounds'
  <2> SUFFICES ASSUME NEW i \in 1 .. n - 1, NEW v \in V, NEW w \in V,
                      OnStack(v), indices[Of(i)] <= indices[v],
                      i < n - 1 => indices[v] < indices[Of(i + 1)'],
                      w \in edges[v], OnStack(w), ~ToGo(v, w)'
               PROVE  lowlinks'[Of(i)] <= indices[w]
    <3>1. Len(frames') = n - 1 /\ indices' = indices /\ edges' = edges
      BY <1>1
    <3>2. \A i \in 1 .. n - 1 : Of(i)' = Of(i)
      BY <1>1
    <3> QED BY <1>6, <3>1, <3>2 DEF LowBounds
  <2>1. i \in 1 .. n /\ i < n /\ n > 1 /\ ~ToGo(v, w)
    BY <1>1, <1>2
  <2>2. indices[v] \in Nat /\ indices[w] \in Nat
    BY DEF TypeOK
  <2>3. CASE i # n - 1
    <3>1. i + 1 \in 1 .. n - 1
      BY <2>1, <2>3
    <3>2. indices[v] < indices[Of(i + 1)]
      BY <1>1, <2>1, <2>3, <3>1
    <3>3. lowlinks[Of(i)] <= indices[w]
      BY <2>1, <3>2 DEF LowBounds
    <3> QED BY <1>3, <2>3, <3>3
  <2>4. CASE i = n - 1
    <3>1. /\ lowlinks'[Of(i)] <= lowlinks[Of(i)] /\ lowlinks'[Of(i)] <= lowlinks[Of(n)]
          /\ lowlinks'[Of(i)] \in Nat
      BY <1>1, <1>3, <1>4, <2>1, <2>4
    <3>2. CASE indices[v] < indices[Of(n)]
      <4>1. i + 1 = n
        BY <2>4
      <4>2. i < Len(frames) => indices[v] < indices[Of(i + 1)]
        BY <3>2, <4>1
      <4>3. lowlinks[Of(i)] <= indices[w]
        BY <2>1, <4>2 DEF LowBounds
      <4> QED BY <1>4, <2>1, <2>2, <3>1, <4>3
    <3>3. CASE ~(indices[v] < indices[Of(n)])
      <4>1. indices[Of(n)] <= indices[v]
        BY <1>1, <1>4, <2>2, <3>3, SMTT(30)
      <4>2. n \in 1 .. Len(frames) /\ ~(n < Len(frames))
        BY <1>1
      <4>3. lowlinks[Of(n)] <= indices[w]
        BY <2>1, <4>1, <4>2 DEF LowBounds
      <4>4. lowlinks[Of(n)] \in Nat /\ indices[w] \in Nat
        BY <1>1, <1>4, <2>2
      <4>5. lowlinks'[Of(i)] <= indices[w]
        BY <3>1, <4>3, <4>4
      <4> QED BY <1>4, <2>2, <4>5
    <3> QED BY <3>2, <3>3
  <2> QED BY <2>3, <2>4
<1>15. PoppedOnce' /\ Exact'
  BY <1>1, <1>7 DEF PoppedOnce, Exact
<1>16. Returned'
  <2>1. ~over
    BY DEF Returned, Returns
  <2> QED BY <1>1, <2>1 DEF Returned
<1> QED BY <1>9, <1>10, <1>11, <1>12, <1>13, <1>14, <1>15, <1>16

\* A return that pops a component: it is the whole of the stack above the vertex,
\* whose members reach each other and have no edge that leads below it.
LEMMA PopInv ==
    ASSUME Inv, Returns, lowlinks[Last(frames).v] = indices[Last(frames).v],
           NEW from \in 1 .. Len(stack), stack[from] = Last(frames).v,
           sccs' = Append(sccs, {stack[i] : i \in from .. Len(stack)}),
           stack' = SubSeq(stack, 1, from - 1)
    PROVE  Inv'
<1> PICK n \in Nat : n = Len(frames)
  BY DEF Inv, TypeOK
<1> PICK x : x = Of(n)
  OBVIOUS
<1> PICK C : C = {stack[i] : i \in from .. Len(stack)}
  OBVIOUS
<1> USE DEF Inv
<1>1. /\ n \in 1 .. n /\ Last(frames).v = x /\ frames[n].todo = {}
      /\ frames' \in Seq(Frame) /\ Len(frames') = n - 1
      /\ lowlinks' \in [V -> Nat]
      /\ UNCHANGED <<edges, indices, over, reported>>
  BY ReturnFacts DEF Returns
<1>2. /\ \A u, w : ToGo(u, w) => ToGo(u, w)'
      /\ \A i \in 1 .. n - 1 : frames'[i] = frames[i] /\ Of(i)' = Of(i) /\ i \in 1 .. n
  BY ReturnFacts
<1>3. \A i \in 1 .. n : /\ Of(i) \in V /\ OnStack(Of(i))
                        /\ indices[Of(i)] \in Nat /\ lowlinks[Of(i)] \in Nat
  BY CallFacts
<1>4. \A i, j \in 1 .. n : i < j => indices[Of(i)] < indices[Of(j)]
  BY DEF Numbered
<1>5. x \in V /\ OnStack(x) /\ indices[x] \in Nat /\ lowlinks[x] = indices[x]
  BY <1>1, <1>3
<1>6. \A i \in 1 .. n - 1 : lowlinks'[Of(i)] = lowlinks[Of(i)]
  <2> SUFFICES ASSUME NEW i \in 1 .. n - 1 PROVE lowlinks'[Of(i)] = lowlinks[Of(i)]
    OBVIOUS
  <2>1. CASE i # n - 1
    BY <2>1, ReturnFacts
  <2>2. CASE i = n - 1
    <3>1. /\ lowlinks'[Of(i)] <= lowlinks[Of(i)]
          /\ lowlinks'[Of(i)] \in {lowlinks[Of(i)], lowlinks[Of(n)]}
      <4>1. n > 1
        OBVIOUS
      <4> QED BY <2>2, <4>1, ReturnFacts
    <3>2. i \in 1 .. n /\ i < n
      BY <1>2
    <3>3. lowlinks[Of(i)] <= indices[Of(i)] /\ indices[Of(i)] < indices[Of(n)]
      BY <1>1, <1>4, <3>2 DEF LowReached
    <3>4. lowlinks[Of(i)] \in Nat /\ indices[Of(i)] \in Nat
      BY <1>3, <3>2
    <3> QED BY <1>5, <3>1, <3>3, <3>4
  <2> QED BY <2>1, <2>2
<1>7. \A i \in 1 .. n : indices[Of(i)] <= indices[x] /\ (i # n => indices[Of(i)] < indices[x])
  <2> SUFFICES ASSUME NEW i \in 1 .. n
               PROVE  indices[Of(i)] <= indices[x] /\ (i # n => indices[Of(i)] < indices[x])
    OBVIOUS
  <2>1. CASE i = n
    BY <1>5, <2>1
  <2>2. CASE i # n
    <3>1. i < n
      BY <2>2
    <3>2. indices[Of(i)] < indices[Of(n)]
      BY <1>1, <1>4, <3>1
    <3> QED BY <1>3, <1>5, <3>2
  <2> QED BY <2>1, <2>2
<1>8. /\ \A i \in 1 .. Len(stack) : stack[i] \in V /\ indices[stack[i]] \in Nat
      /\ Len(stack) \in Nat /\ from \in Nat \ {0} /\ stack[from] = x
  <2>1. stack \in Seq(V) /\ indices \in [V -> Nat]
    BY DEF TypeOK
  <2>2. Len(stack) \in Nat /\ \A i \in 1 .. Len(stack) : stack[i] \in V
    BY <2>1
  <2>3. \A i \in 1 .. Len(stack) : indices[stack[i]] \in Nat
    BY <2>1, <2>2
  <2>4. stack[from] = x
    BY <1>1
  <2>5. from \in Nat \ {0}
    OBVIOUS
  <2> QED BY <2>2, <2>3, <2>4, <2>5
<1>9. \A i, j \in 1 .. Len(stack) : i < j => indices[stack[i]] < indices[stack[j]]
  BY DEF Numbered
<1>10. \A i \in 1 .. Len(stack) : i < from <=> indices[stack[i]] < indices[x]
  <2> SUFFICES ASSUME NEW i \in 1 .. Len(stack)
               PROVE  i < from <=> indices[stack[i]] < indices[x]
    OBVIOUS
  <2>1. CASE i < from
    BY <1>8, <1>9, <2>1
  <2>2. CASE i = from
    BY <1>8, <2>2
  <2>3. CASE from < i
    <3>1. indices[x] < indices[stack[i]]
      BY <1>8, <1>9, <2>3
    <3> QED BY <1>5, <1>8, <2>3, <3>1
  <2> QED BY <1>8, <2>1, <2>2, <2>3
<1>11. /\ stack' \in Seq(V) /\ Len(stack') = from - 1
       /\ \A i \in 1 .. from - 1 : stack'[i] = stack[i] /\ i \in 1 .. Len(stack) /\ i < from
  <2>1. stack \in Seq(V) /\ from - 1 \in 0 .. Len(stack)
    BY <1>8 DEF TypeOK
  <2>2. /\ SubSeq(stack, 1, from - 1) \in Seq(V) /\ Len(SubSeq(stack, 1, from - 1)) = from - 1
        /\ \A i \in 1 .. from - 1 : SubSeq(stack, 1, from - 1)[i] = stack[i]
    BY <2>1, Prefix
  <2> QED BY <1>8, <2>2
<1>12. \A u : u \in C <=> OnStack(u) /\ indices[x] <= indices[u]
  <2>1. ASSUME NEW u \in C PROVE OnStack(u) /\ indices[x] <= indices[u]
    <3>1. PICK i \in from .. Len(stack) : stack[i] = u
      OBVIOUS
    <3>2. i \in 1 .. Len(stack) /\ ~(i < from)
      BY <1>8
    <3> QED BY <1>5, <1>8, <1>10, <3>1, <3>2 DEF OnStack
  <2>2. ASSUME NEW u, OnStack(u), indices[x] <= indices[u] PROVE u \in C
    <3>1. PICK i \in 1 .. Len(stack) : stack[i] = u
      BY <2>2 DEF OnStack
    <3>2. ~(i < from)
      BY <1>5, <1>8, <1>10, <2>2, <3>1
    <3>3. i \in from .. Len(stack)
      BY <1>8, <3>2
    <3> QED BY <3>1, <3>3
  <2> QED BY <2>1, <2>2
<1>13. \A u : OnStack(u)' <=> OnStack(u) /\ indices[u] < indices[x]
  <2>1. ASSUME NEW u, OnStack(u)' PROVE OnStack(u) /\ indices[u] < indices[x]
    <3>1. PICK i \in 1 .. from - 1 : stack'[i] = u
      BY <1>11, <2>1 DEF OnStack
    <3> QED BY <1>10, <1>11, <3>1 DEF OnStack
  <2>2. ASSUME NEW u, OnStack(u), indices[u] < indices[x] PROVE OnStack(u)'
    <3>1. PICK i \in 1 .. Len(stack) : stack[i] = u
      BY <2>2 DEF OnStack
    <3>2. i \in 1 .. from - 1
      BY <1>8, <1>10, <2>2, <3>1
    <3> QED BY <1>11, <3>1, <3>2 DEF OnStack
  <2> QED BY <2>1, <2>2
<1>14. C \subseteq V /\ x \in C /\ sccs' = Append(sccs, C)
  BY <1>5, <1>8, <1>12
<1>15. \A u \in V : OnStack(u) => Visited(u) /\ indices[u] \in Nat
  BY OnStackFacts
<1>16. \A u : Visited(u)' <=> Visited(u)
  BY <1>1 DEF Visited
<1>17. Seen' = Seen
  BY <1>16 DEF Seen
<1>18. Popped' = Popped \cup C
  <2> SUFFICES ASSUME NEW u \in V PROVE u \in Popped' <=> u \in Popped \/ u \in C
    BY <1>14 DEF Popped
  <2>1. u \in Popped' <=> Visited(u) /\ ~(OnStack(u) /\ indices[u] < indices[x])
    BY <1>13, <1>16 DEF Popped
  <2>2. u \in Popped <=> Visited(u) /\ ~OnStack(u)
    BY DEF Popped
  <2>3. CASE OnStack(u)
    BY <1>5, <1>12, <1>15, <2>1, <2>2, <2>3
  <2>4. CASE ~OnStack(u)
    BY <1>12, <2>1, <2>2, <2>4
  <2> QED BY <2>3, <2>4
<1>19. Popped \cap C = {}
  BY <1>12 DEF Popped
<1>20. \A a, b : Path(a, b)' <=> Path(a, b)
  BY <1>1, PathsStay
<1>21. TypeOK'
  <2>1. C \in SUBSET V
    BY <1>14
  <2>2. sccs' \in Seq(SUBSET V)
    <3>1. sccs \in Seq(SUBSET V)
      BY DEF TypeOK
    <3> QED BY <1>14, <2>1, <3>1
  <2> QED BY <1>1, <1>11, <2>2 DEF TypeOK
<1>22. Numbered'
  <2>1. \A v \in V : indices'[v] <= Cardinality(Seen')
    BY <1>1, <1>17 DEF Numbered
  <2>2. \A i \in 1 .. from - 1 : indices'[stack'[i]] # 0
    <3>1. \A i \in 1 .. Len(stack) : indices[stack[i]] # 0
      BY DEF Numbered, Visited
    <3> QED BY <1>1, <1>11, <3>1
  <2>3. \A i, j \in 1 .. from - 1 : i < j => indices'[stack'[i]] < indices'[stack'[j]]
    BY <1>1, <1>9, <1>11
  <2>4. \A i \in 1 .. n - 1 : OnStack(Of(i))'
    <3> SUFFICES ASSUME NEW i \in 1 .. n - 1 PROVE OnStack(Of(i))'
      OBVIOUS
    <3>1. i \in 1 .. n /\ i # n /\ Of(i)' = Of(i)
      BY <1>2
    <3>2. OnStack(Of(i)) /\ indices[Of(i)] < indices[x]
      BY <1>3, <1>7, <3>1
    <3>3. PICK u : u = Of(i)
      OBVIOUS
    <3>4. OnStack(u)' /\ Of(i)' = u
      BY <1>13, <3>1, <3>2, <3>3
    <3> QED BY <3>4 DEF OnStack
  <2>5. \A i, j \in 1 .. n - 1 : i < j => indices'[Of(i)'] < indices'[Of(j)']
    BY <1>1, <1>2, <1>4
  <2> QED BY <1>1, <1>11, <2>1, <2>2, <2>3, <2>4, <2>5 DEF Numbered, Visited
\* No edge leads out of the component but to a component popped before.
<1>23. ASSUME NEW u \in C, NEW w \in edges[u] PROVE w \in Popped \cup C
  <2>1. u \in V /\ w \in V /\ OnStack(u) /\ indices[x] <= indices[u]
    BY <1>12, <1>14 DEF TypeOK
  <2>2. ~ToGo(u, w)
    <3> SUFFICES ASSUME ToGo(u, w) PROVE FALSE
      OBVIOUS
    <3>1. PICK i \in 1 .. n : Of(i) = u /\ w \in frames[i].todo
      BY DEF ToGo
    <3>2. i # n
      BY <1>1, <3>1
    <3>3. indices[u] < indices[x] /\ indices[u] \in Nat
      BY <1>3, <1>7, <3>1, <3>2
    <3> QED BY <1>5, <2>1, <3>3
  <2>3. Visited(w)
    BY <1>15, <2>1, <2>2 DEF Explored
  <2>4. CASE ~OnStack(w)
    BY <2>1, <2>3, <2>4 DEF Popped
  <2>5. CASE OnStack(w)
    <3>1. n \in 1 .. Len(frames) /\ ~(n < Len(frames))
      BY <1>1
    <3>2. lowlinks[Of(n)] <= indices[w]
      BY <2>1, <2>2, <2>5, <3>1 DEF LowBounds
    <3> QED BY <1>5, <1>12, <2>5, <3>2
  <2> QED BY <2>4, <2>5
\* Its members reach each other.
<1>24. ASSUME NEW u \in C PROVE Path(x, u) /\ Path(u, x)
  <2>1. u \in V /\ OnStack(u) /\ indices[x] <= indices[u]
    BY <1>12, <1>14
  <2>2. Path(x, u)
    BY <1>1, <2>1 DEF Connected
  <2>3. PICK i \in 1 .. n : indices[Of(i)] <= indices[u] /\ Path(u, Of(i))
    BY <2>1 DEF Connected
  <2>4. Path(Of(i), x)
    BY <1>5, <1>7 DEF Connected
  <2> QED BY <2>2, <2>3, <2>4, PathTransitive
<1>25. \A u \in Popped \cup C : edges[u] \subseteq Popped \cup C
  BY <1>23 DEF Explored
<1>26. DOMAIN edges = V /\ Popped \subseteq V
  BY DEF TypeOK, Popped
<1>27. ASSUME NEW u \in C PROVE C = Scc(edges, u)
  <2>1. ASSUME NEW b \in C PROVE b \in Scc(edges, u)
    <3>1. Path(u, b) /\ Path(b, u)
      BY <1>24, PathTransitive
    <3> QED BY <1>14, <1>26, <3>1 DEF Scc, Path
  <2>2. ASSUME NEW b \in Scc(edges, u), b # u PROVE b \in C
    <3>1. Reaches(edges, u, b) /\ Reaches(edges, b, u)
      BY <2>2 DEF Scc
    <3>2. edges[u] \subseteq Popped \cup C
      BY <1>25
    <3>3. Popped \cup C \in SUBSET DOMAIN edges
      BY <1>14, <1>26
    <3>4. b \in Popped \cup C
      BY <1>25, <3>1, <3>2, <3>3 DEF Reaches
    <3>5. b \notin Popped
      <4> SUFFICES ASSUME b \in Popped PROVE FALSE
        OBVIOUS
      <4>1. \A a \in Popped : edges[a] \subseteq Popped
        BY DEF Explored
      <4>2. u \in Popped
        BY <1>26, <3>1, <4>1 DEF Reaches
      <4> QED BY <1>19, <4>2
    <3> QED BY <3>4, <3>5
  <2> QED BY <2>1, <2>2
<1>28. Explored'
  <2>1. \A i \in 1 .. n - 1 : frames'[i].todo \subseteq edges'[Of(i)']
    BY <1>1, <1>2 DEF Explored
  <2>2. \A v \in V : Visited(v)' => \A w \in edges'[v] : ToGo(v, w)' \/ Visited(w)'
    BY <1>1, <1>2, <1>16 DEF Explored
  <2> QED BY <1>1, <1>18, <1>25, <2>1, <2>2 DEF Explored
<1>29. Connected'
  <2>1. \A i \in 1 .. n - 1 : \A v \in V :
            OnStack(v)' /\ indices'[Of(i)'] <= indices'[v] => Path(Of(i)', v)
    BY <1>1, <1>2, <1>13 DEF Connected
  <2>2. \A v \in V : OnStack(v)' =>
            \E i \in 1 .. n - 1 : indices'[Of(i)'] <= indices'[v] /\ Path(v, Of(i)')
    <3> SUFFICES ASSUME NEW v \in V, OnStack(v)'
                 PROVE  \E i \in 1 .. n - 1 : indices'[Of(i)'] <= indices'[v] /\ Path(v, Of(i)')
      OBVIOUS
    <3>1. OnStack(v) /\ indices[v] < indices[x] /\ indices[v] \in Nat
      BY <1>13, <1>15
    <3>2. PICK i \in 1 .. n : indices[Of(i)] <= indices[v] /\ Path(v, Of(i))
      BY <3>1 DEF Connected
    <3>3. Of(i) # x
      BY <1>3, <1>5, <3>1, <3>2
    <3>4. i \in 1 .. n - 1
      BY <3>3
    <3> QED BY <1>1, <1>2, <3>2, <3>4
  <2> QED BY <1>1, <1>20, <2>1, <2>2 DEF Connected
<1>30. LowReached'
  <2> SUFFICES ASSUME NEW i \in 1 .. n - 1
               PROVE  /\ lowlinks[Of(i)] <= indices[Of(i)]
                      /\ \E u \in V : /\ OnStack(u)' /\ indices[u] = lowlinks[Of(i)]
                                      /\ Path(Of(i), u)
    BY <1>1, <1>2, <1>6, <1>20 DEF LowReached
  <2>1. i \in 1 .. n /\ i # n
    BY <1>2
  <2>2. PICK u \in V : OnStack(u) /\ indices[u] = lowlinks[Of(i)] /\ Path(Of(i), u)
    BY <2>1 DEF LowReached
  <2>3. lowlinks[Of(i)] <= indices[Of(i)]
    BY <2>1 DEF LowReached
  <2>4. indices[u] < indices[x]
    BY <1>3, <1>5, <1>7, <2>1, <2>2, <2>3
  <2> QED BY <1>13, <2>2, <2>3, <2>4
<1>31. LowBounds'
  <2> SUFFICES ASSUME NEW i \in 1 .. n - 1, NEW v \in V, NEW w \in V,
                      OnStack(v)', indices[Of(i)] <= indices[v],
                      i < n - 1 => indices[v] < indices[Of(i + 1)'],
                      w \in edges[v], OnStack(w)', ~ToGo(v, w)'
               PROVE  lowlinks[Of(i)] <= indices[w]
    <3>1. Len(frames') = n - 1 /\ indices' = indices /\ edges' = edges
      BY <1>1
    <3>2. \A i \in 1 .. n - 1 : Of(i)' = Of(i)
      BY <1>2
    <3> QED BY <1>6, <3>1, <3>2 DEF LowBounds
  <2>1. OnStack(v) /\ OnStack(w) /\ ~ToGo(v, w) /\ indices[v] < indices[x] /\ i \in 1 .. n
    BY <1>2, <1>13
  <2>2. indices[v] < indices[Of(i + 1)]
    <3>1. CASE i = n - 1
      <4>1. i + 1 = n
        BY <3>1
      <4> QED BY <2>1, <4>1
    <3>2. CASE i # n - 1
      <4>1. i < n - 1 /\ i + 1 \in 1 .. n - 1
        BY <3>2
      <4> QED BY <1>2, <4>1
    <3> QED BY <3>1, <3>2
  <2>3. i \in 1 .. Len(frames) /\ indices[Of(i)] <= indices[v] /\ w \in edges[v]
    BY <2>1
  <2>4. lowlinks[Of(i)] <= indices[w]
    BY <2>1, <2>2, <2>3 DEF LowBounds
  <2> QED BY <2>4
<1>32. Len(sccs') = Len(sccs) + 1 /\ sccs'[Len(sccs) + 1] = C /\ Len(sccs) \in Nat
       /\ \A i \in 1 .. Len(sccs) : sccs'[i] = sccs[i]
  <2>1. sccs \in Seq(SUBSET V) /\ C \in SUBSET V
    BY <1>14 DEF TypeOK
  <2>2. Len(sccs) \in Nat /\ Append(sccs, C) \in Seq(SUBSET V)
    BY <2>1
  <2>3. Len(Append(sccs, C)) = Len(sccs) + 1 /\ Append(sccs, C)[Len(sccs) + 1] = C
    BY <2>1
  <2>4. \A i \in 1 .. Len(sccs) : Append(sccs, C)[i] = sccs[i]
    BY <2>1
  <2> QED BY <1>14, <2>2, <2>3, <2>4
<1>33. \A i \in 1 .. Len(sccs') : i \in 1 .. Len(sccs) \/ i = Len(sccs) + 1
  BY <1>32
<1>34. PoppedOnce'
  <2>1. ASSUME NEW i \in 1 .. Len(sccs')
        PROVE  sccs'[i] # {} /\ sccs'[i] \subseteq Popped \cup C
    BY <1>14, <1>32, <1>33 DEF PoppedOnce
  <2>2. ASSUME NEW v \in Popped \cup C PROVE \E i \in 1 .. Len(sccs') : v \in sccs'[i]
    <3>1. CASE v \in C
      <4>1. Len(sccs) + 1 \in 1 .. Len(sccs') /\ sccs'[Len(sccs) + 1] = C
        BY <1>32
      <4> QED BY <3>1, <4>1
    <3>2. CASE v \in Popped
      <4>1. PICK i \in 1 .. Len(sccs) : v \in sccs[i]
        BY <3>2 DEF PoppedOnce
      <4>2. i \in 1 .. Len(sccs')
        BY <1>32
      <4> QED BY <1>32, <4>1, <4>2
    <3> QED BY <3>1, <3>2
  <2>3. ASSUME NEW i \in 1 .. Len(sccs'), NEW j \in 1 .. Len(sccs'), i # j
        PROVE  sccs'[i] \cap sccs'[j] = {}
    <3>1. \A k \in 1 .. Len(sccs) : sccs'[k] \cap C = {}
      BY <1>19, <1>32 DEF PoppedOnce
    <3>2. CASE i = Len(sccs) + 1 \/ j = Len(sccs) + 1
      BY <1>32, <1>33, <2>3, <3>1, <3>2
    <3>3. CASE i \in 1 .. Len(sccs) /\ j \in 1 .. Len(sccs)
      BY <1>32, <2>3, <3>3 DEF PoppedOnce
    <3> QED BY <1>33, <3>2, <3>3
  <2> QED BY <1>18, <2>1, <2>2, <2>3 DEF PoppedOnce
<1>35. Exact'
  <2> SUFFICES ASSUME NEW i \in 1 .. Len(sccs'), NEW v \in sccs'[i]
               PROVE  sccs'[i] = Scc(edges, v)
    BY <1>1 DEF Exact
  <2>1. CASE i = Len(sccs) + 1
    BY <1>27, <1>32, <2>1
  <2>2. CASE i \in 1 .. Len(sccs)
    BY <1>32, <2>2 DEF Exact
  <2> QED BY <1>33, <2>1, <2>2
<1>36. Returned'
  <2>1. ~over
    BY DEF Returned, Returns
  <2> QED BY <1>1, <2>1 DEF Returned
<1> QED BY <1>21, <1>22, <1>28, <1>29, <1>30, <1>31, <1>34, <1>35, <1>36

\* The frames and the stack decide which of these a step of Next is.
LEMMA NextInv == Inv /\ [Next]_vars => Inv'
<1> SUFFICES ASSUME Inv, [Next]_vars PROVE Inv'
  OBVIOUS
<1>1. ASSUME NEW x \in V, Start(x) PROVE Inv'
  <2>1. frames = <<>> /\ ~over /\ ~Visited(x) /\ Enter(x, <<>>)
    BY <1>1 DEF Start
  <2>2. <<>> \in Seq(Frame) /\ Len(<<>>) = Len(frames) /\ Len(frames) = 0
    BY <2>1
  <2>3. \A i \in 1 .. Len(frames) : FALSE
    BY <2>2
  <2>4. ~(Len(frames) > 0)
    BY <2>2
  <2> QED BY <2>1, <2>2, <2>3, <2>4, EnterInv
<1>2. ASSUME NEW x \in V, Visit(x) PROVE Inv'
  <2>1. frames # <<>> /\ x \in Last(frames).todo
    BY <1>2 DEF Visit
  <2>2. CASE ~Visited(x) /\ Enter(x, Taken(x))
    <3>1. ~over
      BY <2>1 DEF Inv, Returned
    <3>2. /\ Taken(x) \in Seq(Frame) /\ Len(Taken(x)) = Len(frames)
          /\ \A i \in 1 .. Len(frames) :
                 /\ Taken(x)[i].v = Of(i)
                 /\ Taken(x)[i].todo = IF i = Len(frames) THEN frames[i].todo \ {x}
                                       ELSE frames[i].todo
      BY <2>1, TakeSuccessor DEF Inv
    <3>3. frames \in Seq(Frame)
      BY DEF Inv, TypeOK
    <3>4. Len(frames) \in Nat \ {0} /\ Last(frames) = frames[Len(frames)]
      BY <2>1, <3>3, LastFront
    <3>5. x \in edges[Of(Len(frames))]
      BY <2>1, <3>4 DEF Inv, Explored
    <3> HIDE DEF Inv
    <3> QED BY <2>2, <3>1, <3>2, <3>5, EnterInv
  <2>3. CASE /\ Visited(x) /\ frames' = Taken(x)
             /\ lowlinks' = IF Contains(stack, x) /\ indices[x] < lowlinks[Last(frames).v]
                            THEN [lowlinks EXCEPT ![Last(frames).v] = indices[x]] ELSE lowlinks
             /\ UNCHANGED <<edges, indices, stack, sccs, over, reported>>
    BY <2>1, <2>3, VisitedInv
  <2> QED BY <1>2, <2>2, <2>3 DEF Visit, Taken
<1>3. ASSUME Finish PROVE Inv'
  <2>1. Returns
    BY <1>3 DEF Finish, Returns
  <2>2. CASE lowlinks[Last(frames).v] # indices[Last(frames).v]
    <3>1. UNCHANGED <<sccs, stack>>
      BY <1>3, <2>2 DEF Finish
    <3> QED BY <2>1, <2>2, <3>1, KeepInv
  <2>3. CASE lowlinks[Last(frames).v] = indices[Last(frames).v]
    <3> DEFINE from == CHOOSE i \in DOMAIN stack : stack[i] = Last(frames).v
    <3>1. /\ sccs' = Append(sccs, {stack[i] : i \in from .. Len(stack)})
          /\ stack' = SubSeq(stack, 1, from - 1)
      BY <1>3, <2>3 DEF Finish
    <3>2. from \in 1 .. Len(stack) /\ stack[from] = Last(frames).v
      <4>1. frames \in Seq(Frame) /\ frames # <<>> /\ stack \in Seq(V)
        BY <2>1 DEF Inv, TypeOK, Returns
      <4>2. Len(frames) \in 1 .. Len(frames) /\ Last(frames).v = Of(Len(frames))
        <5>1. Len(frames) \in Nat \ {0} /\ Last(frames) = frames[Len(frames)]
          BY <4>1, LastFront
        <5> QED BY <5>1 DEF Of
      <4>3. OnStack(Last(frames).v)
        BY <4>2, CallFacts DEF Inv
      <4>4. \E i \in DOMAIN stack : stack[i] = Last(frames).v
        BY <4>1, <4>3 DEF OnStack
      <4> QED BY <4>1, <4>4
    <3> HIDE DEF from
    <3> QED BY <2>1, <2>3, <3>1, <3>2, PopInv
  <2> QED BY <2>2, <2>3
<1>4. ASSUME UNCHANGED <<edges, indices, lowlinks, stack, frames, sccs>>,
             over' \in BOOLEAN, over' => frames = <<>>
      PROVE  Inv'
  <2>1. TypeOK'
    BY <1>4 DEF Inv, TypeOK
  <2>2. \A u : (OnStack(u)' <=> OnStack(u)) /\ (Visited(u)' <=> Visited(u))
    BY <1>4 DEF OnStack, Visited
  <2>3. \A u, w : ToGo(u, w)' <=> ToGo(u, w)
    BY <1>4 DEF ToGo, Of
  <2>4. Popped' = Popped /\ Seen' = Seen /\ \A i : Of(i)' = Of(i)
    BY <1>4, <2>2 DEF Popped, Seen, Of
  <2>5. \A a, b : Path(a, b)' <=> Path(a, b)
    BY <1>4, PathsStay
  <2>6. Numbered'
    BY <1>4, <2>4 DEF Inv, Numbered, Visited, OnStack, Of
  <2>7. Explored' /\ PoppedOnce' /\ Exact'
    BY <1>4, <2>2, <2>3, <2>4 DEF Inv, Explored, PoppedOnce, Exact
  <2>8. Connected' /\ LowReached' /\ LowBounds'
    BY <1>4, <2>2, <2>3, <2>4, <2>5 DEF Inv, Connected, LowReached, LowBounds
  <2> QED BY <1>4, <2>1, <2>6, <2>7, <2>8 DEF Inv, Returned
<1>5. CASE Report
  BY <1>4, <1>5 DEF Report
<1>6. CASE Finished \/ UNCHANGED vars
  BY <1>4, <1>6 DEF Finished, vars, Inv, Returned, TypeOK
<1> QED BY <1>1, <1>2, <1>3, <1>5, <1>6 DEF Next

\* The search keeps its invariant, whatever the graph and the order it is searched in.
THEOREM SearchInvariant == Spec => []Inv
  BY InitInv, NextInv, PTL DEF Spec

\* Types of the variables.
THEOREM TypeCorrect == Spec => []TypeOK
<1>1. Inv => TypeOK
  BY DEF Inv
<1> QED BY <1>1, SearchInvariant, PTL

\* strongconnect pops whole strongly connected components, each of them once.
THEOREM ComponentsCorrect == Spec => []ComponentsAreExact
<1>1. Inv => ComponentsAreExact
  <2> SUFFICES ASSUME Inv PROVE ComponentsAreExact
    OBVIOUS
  <2>1. DOMAIN sccs = 1 .. Len(sccs)
    BY DEF Inv, TypeOK
  <2>2. \A i \in 1 .. Len(sccs) : \A v \in sccs[i] : sccs[i] = Scc(edges, v)
    BY DEF Inv, Exact
  <2>3. \A i, j \in 1 .. Len(sccs) : i # j => sccs[i] # sccs[j]
    BY DEF Inv, PoppedOnce
  <2> QED BY <2>1, <2>2, <2>3 DEF ComponentsAreExact
<1> QED BY <1>1, SearchInvariant, PTL

\* When the search is over there is a component of more than one member among
\* those found exactly if the graph has one.
LEMMA FoundAll ==
    ASSUME Inv, frames = <<>>, \A v \in V : edges[v] # {} => Visited(v)
    PROVE  /\ \A i \in DOMAIN sccs : Cardinality(sccs[i]) > 1 => sccs[i] \in Deadlocks(edges)
           /\ \A C \in Deadlocks(edges) :
                  \E i \in DOMAIN sccs : Cardinality(sccs[i]) > 1
<1> USE DEF Inv
<1>1. DOMAIN sccs = 1 .. Len(sccs) /\ DOMAIN edges = V /\ \A v \in V : edges[v] \subseteq V
  BY DEF TypeOK
<1>2. ASSUME NEW i \in 1 .. Len(sccs), Cardinality(sccs[i]) > 1
      PROVE  sccs[i] \in Deadlocks(edges)
  <2>1. PICK v \in sccs[i] : v \in V
    BY DEF PoppedOnce, Popped
  <2>2. sccs[i] = Scc(edges, v)
    BY DEF Exact
  <2> QED BY <1>1, <1>2, <2>1, <2>2 DEF Deadlocks
<1>3. ASSUME NEW C \in Deadlocks(edges)
      PROVE  \E i \in 1 .. Len(sccs) : Cardinality(sccs[i]) > 1
  <2>1. PICK a \in V : C = Scc(edges, a) /\ Cardinality(C) > 1
    BY <1>1 DEF Deadlocks
  <2>2. a \in C
    BY <2>1 DEF Scc
  <2>3. PICK b \in C : b # a
    <3>1. C # {a}
      <4> SUFFICES ASSUME C = {a} PROVE FALSE
        OBVIOUS
      <4>1. Cardinality(C) = 1
        BY FS_Singleton
      <4> QED BY <2>1, <4>1
    <3> QED BY <2>2, <3>1
  <2>4. edges[a] # {}
    <3>1. Reaches(edges, a, b)
      BY <2>1, <2>3 DEF Scc
    <3>2. ASSUME edges[a] = {} PROVE b \in {}
      BY <3>1, <3>2 DEF Reaches
    <3> QED BY <3>2
  <2>5. ~OnStack(a)
    <3>1. Len(frames) = 0
      OBVIOUS
    <3> QED BY <3>1 DEF Connected
  <2>6. a \in Popped
    BY <2>4, <2>5 DEF Popped
  <2>7. PICK i \in 1 .. Len(sccs) : a \in sccs[i]
    BY <2>6 DEF PoppedOnce
  <2>8. sccs[i] = C
    BY <2>1, <2>7 DEF Exact
  <2> QED BY <2>1, <2>8
<1> QED BY <1>1, <1>2, <1>3

\* A set of numbers that is not empty has a least member.
LEMMA LeastMember ==
    ASSUME NEW T \in SUBSET Nat, T # {}
    PROVE  \E i \in T : \A j \in T : i <= j
<1> DEFINE less == {p \in Nat \X Nat : p[1] < p[2]}
<1>1. IsWellFoundedOn(less, Nat)
  BY NatLessThanWellFounded DEF OpToRel
<1>2. \E i \in T : \A j \in T : <<j, i>> \notin less
  <2> HIDE DEF less
  <2> QED BY <1>1, WFMin
<1>3. \A i, j \in T : <<j, i>> \notin less => i <= j
  OBVIOUS
<1> HIDE DEF less
<1> QED BY <1>2, <1>3

\* detect_deadlock returns a victim exactly when there is a cycle, of a component
\* that is one.
THEOREM ReportCorrect == Spec => []ReportsADeadlock
<1>1. Init => ReportsADeadlock
  BY DEF Init, ReportsADeadlock
<1>2. Inv /\ ReportsADeadlock /\ [Next]_vars => ReportsADeadlock'
  <2> SUFFICES ASSUME Inv, ReportsADeadlock, [Next]_vars, over' PROVE ReportsADeadlock'
    BY DEF ReportsADeadlock
  <2>1. CASE over
    <3>1. frames = <<>>
      BY <2>1 DEF Inv, Returned
    <3>2. UNCHANGED <<edges, reported>>
      BY <2>1, <3>1 DEF Next, Start, Visit, Finish, Report, Finished, vars
    <3> QED BY <2>1, <3>2 DEF ReportsADeadlock
  <2>2. CASE ~over
    <3>1. Report
      BY <2>2 DEF Next, Start, Visit, Enter, Finish, Finished, vars
    <3> DEFINE found == {i \in DOMAIN sccs : Cardinality(sccs[i]) > 1}
               first == {j \in found : \A k \in found : j <= k}
    <3>2. reported' = {sccs[i] : i \in first} /\ edges' = edges /\ frames = <<>>
      BY <3>1 DEF Report
    <3>3. \A v \in V : edges[v] # {} => Visited(v)
      BY <3>1 DEF Report
    <3>4. /\ \A i \in found : sccs[i] \in Deadlocks(edges)
          /\ \A C \in Deadlocks(edges) : found # {}
      BY <3>2, <3>3, FoundAll
    <3>5. reported' \subseteq Deadlocks(edges)
      BY <3>2, <3>4
    <3>6. ASSUME reported' = {} PROVE Deadlocks(edges) = {}
      <4>1. found \in SUBSET Nat
        BY DEF Inv, TypeOK
      <4>2. found # {} => first # {}
        <5> HIDE DEF found
        <5> QED BY <4>1, LeastMember
      <4>3. first = {}
        BY <3>2, <3>6
      <4> QED BY <3>4, <4>2, <4>3
    <3> QED BY <3>2, <3>5, <3>6 DEF ReportsADeadlock
  <2> QED BY <2>1, <2>2
<1> QED BY <1>1, <1>2, SearchInvariant, PTL DEF Spec
=============================================================================
