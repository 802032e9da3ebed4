------------------------- MODULE IntervalTreeProofs -------------------------
(***************************************************************************)
(* Proofs about IntervalTree, for any owners, ranges and number of nodes.  *)
(***************************************************************************)
EXTENDS IntervalTree, SequenceTheorems, WellFoundedInduction, TLAPS

-----------------------------------------------------------------------------
(***************************************************************************)
(* Bounds and the comparisons of the search.                               *)
(***************************************************************************)

\* A node of the vector.
Node == [txn : Txns, range : KeyRanges(Keys), max_end : Int, left : Nat, right : Nat]

\* What a bound of a range is.
LEMMA BoundType ==
    ASSUME NEW b \in Bounds(Keys)
    PROVE  /\ b.kind \in {"Included", "Excluded", "Unbounded"}
           /\ b.key \in Int
<1>1. CASE b = Unbounded
  BY <1>1 DEF Unbounded, IsBounded
<1>2. CASE b \in [kind : {"Included", "Excluded"}, key : Keys]
  <2>1. b.key \in Keys /\ b.kind \in {"Included", "Excluded"}
    BY <1>2
  <2>2. b.key \in Nat
    BY <2>1, TreeAssumption
  <2>3. b.key \in Int
    BY <2>2
  <2> QED BY <2>1, <2>3
<1> QED BY <1>1, <1>2 DEF Bounds

\* A subtree is left out only if its greatest end lies before the range asked for:
\* then every range in it does, unless it has no end and the one asked for starts
\* beyond the key that stands for that.
LEMMA EndsBefore ==
    ASSUME NEW r \in KeyRanges(Keys), NEW q \in KeyRanges(Keys), NEW max_end \in Int,
           IsBounded(r.end) \/ ~bound_less_than(MaxKey, q.start),
           bound_to_bytes(r.end) <= max_end, bound_less_than(max_end, q.start)
    PROVE  ~overlaps(r, q.start, q.end)
<1>1. r.end \in Bounds(Keys) /\ q.start \in Bounds(Keys) /\ MaxKey \in Nat
  BY TreeAssumption DEF KeyRanges
<1>2. /\ r.end.kind \in {"Included", "Excluded", "Unbounded"} /\ r.end.key \in Int
      /\ q.start.kind \in {"Included", "Excluded", "Unbounded"} /\ q.start.key \in Int
  BY <1>1, BoundType
<1> QED BY <1>1, <1>2 DEF bound_to_bytes, bound_less_than, overlaps, is_before, BothIncluded,
            IsBounded

\* A right subtree is left out only if its root starts behind the range asked for:
\* then every range in it does.
LEMMA StartsBehind ==
    ASSUME NEW r \in KeyRanges(Keys), NEW s \in KeyRanges(Keys), NEW q \in KeyRanges(Keys),
           ~StartsBefore(s.start, r.start), bound_greater_than(r.start, q.end)
    PROVE  ~overlaps(s, q.start, q.end)
<1>1. r.start \in Bounds(Keys) /\ s.start \in Bounds(Keys) /\ q.end \in Bounds(Keys)
  BY DEF KeyRanges
<1>2. /\ r.start.kind \in {"Included", "Excluded", "Unbounded"} /\ r.start.key \in Int
      /\ s.start.kind \in {"Included", "Excluded", "Unbounded"} /\ s.start.key \in Int
      /\ q.end.kind \in {"Included", "Excluded", "Unbounded"} /\ q.end.key \in Int
  BY <1>1, BoundType
<1> QED BY <1>2 DEF StartsBefore, bound_greater_than, overlaps, is_after, BothIncluded, IsBounded

-----------------------------------------------------------------------------
(***************************************************************************)
(* The shape of the tree.                                                  *)
(***************************************************************************)

\* D gives the nodes of the subtree at each node, none for Nil.  A node's children
\* come later in the vector and their subtrees are apart; its max_end is below
\* no end in its subtree, and what is in its right subtree does not start before it.
Shape(ns, D) ==
    /\ ns \in Seq(Node)
    /\ D \in [0 .. Len(ns) -> SUBSET (1 .. Len(ns))]
    /\ D[Nil] = {} /\ (ns # <<>> => D[1] = 1 .. Len(ns))
    /\ \A i \in 1 .. Len(ns) :
          /\ ns[i].left \in {Nil} \cup i + 1 .. Len(ns)
          /\ ns[i].right \in {Nil} \cup i + 1 .. Len(ns)
          /\ D[i] = {i} \cup D[ns[i].left] \cup D[ns[i].right]
          /\ D[ns[i].left] \cap D[ns[i].right] = {}
          /\ D[i] \subseteq i .. Len(ns)
          /\ \A j \in D[i] : /\ D[j] \subseteq D[i]
                             /\ bound_to_bytes(ns[j].range.end) <= ns[i].max_end
          /\ \A j \in D[ns[i].right] : ~StartsBefore(ns[j].range.start, ns[i].range.start)

\* The least of the numbers, of which there is one.
LEMMA LeastExists ==
    ASSUME NEW S \in SUBSET Nat, S # {}
    PROVE  \E s \in S : \A r \in S : s <= r
<1> DEFINE less == {ss \in Nat \X Nat : ss[1] < ss[2]}
<1>1. IsWellFoundedOn(less, Nat)
  BY NatLessThanWellFounded DEF OpToRel
<1>2. \E s \in S : \A r \in S : <<r, s>> \notin less
  <2> HIDE DEF less
  <2> QED BY <1>1, WFMin
<1>3. \A r, s \in S : <<r, s>> \notin less => s <= r
  OBVIOUS
<1> HIDE DEF less
<1> QED BY <1>2, <1>3

\* A set of numbers up to n is all of them if it has each whose successors it has.
LEMMA DownwardInduction ==
    ASSUME NEW n \in Nat, NEW S,
           \A i \in 1 .. n : (\A j \in i + 1 .. n : j \in S) => i \in S
    PROVE  1 .. n \subseteq S
<1> SUFFICES ASSUME NEW m \in 1 .. n, m \notin S PROVE FALSE
  OBVIOUS
<1> DEFINE Missing == {k \in Nat : k \in 0 .. n - 1 /\ n - k \notin S}
<1>1. n - m \in Missing /\ Missing \in SUBSET Nat
  OBVIOUS
<1>2. PICK k \in Missing : \A r \in Missing : k <= r
  <2> HIDE DEF Missing
  <2> QED BY <1>1, LeastExists
<1>3. n - k \in 1 .. n /\ n - k \notin S
  OBVIOUS
<1>4. ASSUME NEW j \in n - k + 1 .. n PROVE j \in S
  <2>1. n - j \in Nat /\ n - j < k /\ n - j \in 0 .. n - 1 /\ n - (n - j) = j
    OBVIOUS
  <2> QED BY <1>2, <2>1
<1> QED BY <1>3, <1>4

\* A node and its children.
LEMMA ShapeAt ==
    ASSUME NEW ns, NEW D, Shape(ns, D), NEW i \in 1 .. Len(ns)
    PROVE  /\ Len(ns) \in Nat /\ ns[i] \in Node /\ i \in D[i] /\ D[i] \subseteq i .. Len(ns)
           /\ D[Nil] = {} /\ D[i] = {i} \cup D[ns[i].left] \cup D[ns[i].right]
           /\ i \notin D[ns[i].left] /\ i \notin D[ns[i].right]
           /\ D[ns[i].left] \cap D[ns[i].right] = {}
           /\ \A c \in {ns[i].left, ns[i].right} \ {Nil} :
                 /\ c \in i + 1 .. Len(ns) /\ c \in 1 .. Len(ns)
                 /\ c \in D[c] /\ D[c] \subseteq D[i]
           /\ \A j \in D[i] : j \in 1 .. Len(ns) /\ D[j] \subseteq D[i]
<1> DEFINE n == Len(ns)
<1>1. n \in Nat /\ ns[i] \in Node
  BY LenProperties, ElementOfSeq DEF Shape
<1>2. \A k \in 1 .. n :
         /\ k \in D[k] /\ D[k] \subseteq k .. n
         /\ ns[k].left \in {Nil} \cup k + 1 .. n /\ ns[k].right \in {Nil} \cup k + 1 .. n
  BY DEF Shape
<1>3. D[Nil] = {} /\ D[i] = {i} \cup D[ns[i].left] \cup D[ns[i].right]
      /\ D[ns[i].left] \cap D[ns[i].right] = {} /\ \A j \in D[i] : D[j] \subseteq D[i]
  BY DEF Shape
<1> HIDE DEF n
<1>4. ASSUME NEW c \in {ns[i].left, ns[i].right} \ {Nil}
      PROVE  /\ c \in i + 1 .. n /\ c \in 1 .. n
             /\ c \in D[c] /\ D[c] \subseteq D[i] /\ i \notin D[c]
  <2>1. c \in i + 1 .. n /\ i \in 1 .. n
    BY <1>2 DEF n
  <2>2. c \in 1 .. n
    BY <1>1, <2>1 DEF n
  <2>3. c \in D[c] /\ D[c] \subseteq c .. n /\ D[c] \subseteq D[i]
    BY <1>2, <1>3, <2>2
  <2>4. i \notin c .. n
    BY <1>1, <2>1 DEF n
  <2> QED BY <2>1, <2>2, <2>3, <2>4
<1>5. \A j \in D[i] : j \in 1 .. n
  <2>1. D[i] \subseteq i .. n
    BY <1>2 DEF n
  <2> QED BY <1>1, <2>1 DEF n
<1>6. ASSUME NEW c \in {ns[i].left, ns[i].right} PROVE i \notin D[c]
  BY <1>3, <1>4
<1>7. i \in D[i] /\ D[i] \subseteq i .. n
  BY <1>2 DEF n
<1> QED BY <1>1, <1>3, <1>4, <1>5, <1>6, <1>7 DEF n

-----------------------------------------------------------------------------
(***************************************************************************)
(* The search.                                                             *)
(***************************************************************************)

\* The pruned search returns nodes whose ranges overlap the one asked for, and all
\* of them that have an end or where the one asked for starts before MaxKey.
LEMMA SearchFinds ==
    ASSUME NEW ns, NEW D, Shape(ns, D), NEW q \in KeyRanges(Keys)
    PROVE  /\ find_overlapping(ns, q.start, q.end)
                  \subseteq {j \in 1 .. Len(ns) : overlaps(ns[j].range, q.start, q.end)}
           /\ \A j \in 1 .. Len(ns) :
                  /\ overlaps(ns[j].range, q.start, q.end)
                  /\ IsBounded(ns[j].range.end) \/ ~bound_less_than(MaxKey, q.start)
                  => j \in find_overlapping(ns, q.start, q.end)
<1> DEFINE n == Len(ns)
           Found(j) == overlaps(ns[j].range, q.start, q.end)
           Passed(a, j) == /\ ~bound_less_than(ns[a].max_end, q.start)
                           /\ j \in D[ns[a].right] =>
                                 ~bound_greater_than(ns[a].range.start, q.end)
           Reached(i) == {j \in D[i] : Found(j) /\ \A a \in D[i] : j \in D[a] => Passed(a, j)}
           Step(f) == [i \in 0 .. n |->
                          IF i = Nil \/ bound_less_than(ns[i].max_end, q.start) THEN {}
                          ELSE f[ns[i].left]
                               \cup {j \in {i} : overlaps(ns[j].range, q.start, q.end)}
                               \cup (IF bound_greater_than(ns[i].range.start, q.end) THEN {}
                                     ELSE f[ns[i].right])]
           below == [i \in 0 .. n |-> Reached(i)]
           find == CHOOSE f : f = Step(f)
<1>1. n \in Nat /\ \A i \in 1 .. n : ns[i] \in Node
  BY LenProperties, ElementOfSeq DEF Shape
<1>2. ASSUME NEW i \in 1 .. n, bound_less_than(ns[i].max_end, q.start),
             NEW j \in D[i], IsBounded(ns[j].range.end) \/ ~bound_less_than(MaxKey, q.start)
      PROVE  ~Found(j)
  <2>1. bound_to_bytes(ns[j].range.end) <= ns[i].max_end /\ j \in 1 .. n
    BY ShapeAt DEF Shape
  <2>2. ns[i] \in Node /\ ns[j] \in Node
    BY <1>1, <2>1
  <2>3. ns[i].max_end \in Int /\ ns[j].range \in KeyRanges(Keys)
    BY <2>2 DEF Node
  <2> QED BY <1>2, <2>1, <2>3, EndsBefore
<1>3. ASSUME NEW i \in 1 .. n, bound_greater_than(ns[i].range.start, q.end),
             NEW j \in D[ns[i].right]
      PROVE  ~Found(j)
  <2>1. ~StartsBefore(ns[j].range.start, ns[i].range.start)
    BY DEF Shape
  <2>2. j \in 1 .. n
    BY ShapeAt
  <2>3. ns[i] \in Node /\ ns[j] \in Node
    BY <1>1, <2>2
  <2>4. ns[i].range \in KeyRanges(Keys) /\ ns[j].range \in KeyRanges(Keys)
    BY <2>3 DEF Node
  <2> QED BY <1>3, <2>1, <2>4, StartsBehind
<1>4. ASSUME NEW i \in 1 .. n
      PROVE  /\ ns[i].left \in 0 .. n /\ ns[i].right \in 0 .. n
             /\ ns[i].left # Nil => ns[i].left \in i + 1 .. n
             /\ ns[i].right # Nil => ns[i].right \in i + 1 .. n
             /\ Reached(i) =
                   IF bound_less_than(ns[i].max_end, q.start) THEN {}
                   ELSE Reached(ns[i].left) \cup {j \in {i} : Found(j)}
                        \cup (IF bound_greater_than(ns[i].range.start, q.end) THEN {}
                              ELSE Reached(ns[i].right))
  <2> DEFINE l == ns[i].left
             r == ns[i].right
  <2>1. /\ l \in {Nil} \cup i + 1 .. n /\ r \in {Nil} \cup i + 1 .. n
        /\ D[i] = {i} \cup D[l] \cup D[r] /\ D[l] \cap D[r] = {}
        /\ i \notin D[l] /\ i \notin D[r] /\ i \in D[i]
    BY ShapeAt DEF Shape
  <2>2. /\ l \in 0 .. n /\ r \in 0 .. n
        /\ l # Nil => l \in i + 1 .. n
        /\ r # Nil => r \in i + 1 .. n
    BY <1>1, <2>1 DEF Nil
  <2>3. /\ \A a \in D[l] : D[a] \subseteq D[l]
        /\ \A a \in D[r] : D[a] \subseteq D[r]
    <3>1. \A c \in 1 .. n : \A a \in D[c] : D[a] \subseteq D[c]
      BY ShapeAt
    <3>2. D[Nil] = {}
      BY DEF Shape
    <3>3. \A c \in {l, r} : c = Nil \/ c \in 1 .. n
      BY <1>1, <2>2
    <3> HIDE DEF l, r
    <3> QED BY <3>1, <3>2, <3>3
  <2>4. ASSUME NEW j \in D[l]
        PROVE  j \in Reached(i) <=>
                  j \in Reached(l) /\ ~bound_less_than(ns[i].max_end, q.start)
    <3>1. j \in D[i] /\ j \notin D[r] /\ \A a \in D[r] : j \notin D[a]
      BY <2>1, <2>3, <2>4
    <3>2. Passed(i, j) <=> ~bound_less_than(ns[i].max_end, q.start)
      BY <3>1
    <3> HIDE DEF Found, Passed, l, r
    <3> QED BY <2>1, <2>4, <3>1, <3>2
  <2>5. ASSUME NEW j \in D[r]
        PROVE  j \in Reached(i) <=>
                  /\ j \in Reached(r) /\ ~bound_less_than(ns[i].max_end, q.start)
                  /\ ~bound_greater_than(ns[i].range.start, q.end)
    <3>1. j \in D[i] /\ \A a \in D[l] : j \notin D[a]
      BY <2>1, <2>3, <2>5
    <3>2. Passed(i, j) <=> /\ ~bound_less_than(ns[i].max_end, q.start)
                           /\ ~bound_greater_than(ns[i].range.start, q.end)
      BY <2>5
    <3> HIDE DEF Found, Passed, l, r
    <3> QED BY <2>1, <2>5, <3>1, <3>2
  <2>6. i \in Reached(i) <=> Found(i) /\ ~bound_less_than(ns[i].max_end, q.start)
    <3>1. Passed(i, i) <=> ~bound_less_than(ns[i].max_end, q.start)
      BY <2>1
    <3>2. \A a \in D[i] \ {i} : i \notin D[a]
      <4> HIDE DEF l, r
      <4> QED BY <2>1, <2>3
    <3> HIDE DEF Found, Passed, l, r
    <3> QED BY <2>1, <3>1, <3>2
  <2>7. Reached(i) \subseteq D[i] /\ Reached(l) \subseteq D[l] /\ Reached(r) \subseteq D[r]
    OBVIOUS
  <2>8. Reached(i) =
           IF bound_less_than(ns[i].max_end, q.start) THEN {}
           ELSE Reached(l) \cup {j \in {i} : Found(j)}
                \cup (IF bound_greater_than(ns[i].range.start, q.end) THEN {} ELSE Reached(r))
    <3> HIDE DEF Found, Reached, l, r
    <3> QED BY <2>1, <2>4, <2>5, <2>6, <2>7
  <2> QED BY <2>2, <2>8
<1>5. below = Step(below)
  <2>1. D[Nil] = {}
    BY DEF Shape
  <2>2. ASSUME NEW i \in 0 .. n PROVE below[i] = Step(below)[i]
    <3> HIDE DEF Found, Passed
    <3>1. CASE i = Nil
      BY <2>1, <3>1
    <3>2. CASE i # Nil
      <4>1. i \in 1 .. n
        BY <1>1, <3>2 DEF Nil
      <4>2. /\ below[i] = Reached(i)
            /\ below[ns[i].left] = Reached(ns[i].left)
            /\ below[ns[i].right] = Reached(ns[i].right)
        BY <1>4, <4>1
      <4> DEFINE left == IF bound_greater_than(ns[i].range.start, q.end) THEN {}
                         ELSE below[ns[i].right]
      <4>3. Step(below)[i] = IF i = Nil \/ bound_less_than(ns[i].max_end, q.start) THEN {}
                             ELSE below[ns[i].left] \cup {j \in {i} : Found(j)} \cup left
        <5> HIDE DEF below
        <5> QED BY <1>1 DEF Found
      <4> HIDE DEF Step, below, Reached
      <4> QED BY <1>4, <3>2, <4>1, <4>2, <4>3
    <3> QED BY <3>1, <3>2
  <2> QED BY <2>2
<1>6. find = Step(find)
  <2> HIDE DEF below
  <2> QED BY <1>5
<1>7. \A i \in 1 .. n : find[i] = below[i]
  <2> DEFINE Same == {i \in 1 .. n : find[i] = below[i]}
  <2>0. find[Nil] = {} /\ below[Nil] = {}
    <3> HIDE DEF find, Found, Passed
    <3> QED BY <1>1, <1>6 DEF Nil, Shape
  <2>1. ASSUME NEW i \in 1 .. n, \A j \in i + 1 .. n : j \in Same PROVE i \in Same
    <3>1. find[ns[i].left] = below[ns[i].left] /\ find[ns[i].right] = below[ns[i].right]
      BY <1>4, <2>0, <2>1
    <3>2. find[i] = Step(find)[i] /\ below[i] = Step(below)[i]
      <4> HIDE DEF find, below, Step
      <4> QED BY <1>5, <1>6
    <3>3. Step(find)[i] = Step(below)[i]
      <4>1. i \in 0 .. n
        BY <1>1
      <4> HIDE DEF find, below
      <4> QED BY <3>1, <4>1
    <3> HIDE DEF find, below, Step
    <3> QED BY <3>2, <3>3
  <2>2. 1 .. n \subseteq Same
    <3> HIDE DEF Same
    <3> QED BY <1>1, <2>1, DownwardInduction
  <2> QED BY <2>2
<1>8. CASE ns = <<>>
  BY <1>8 DEF find_overlapping
<1>9. CASE ns # <<>>
  <2>1. n # 0
    BY <1>9, EmptySeq DEF Shape
  <2>2. find_overlapping(ns, q.start, q.end) = find[1]
    BY <1>9 DEF find_overlapping
  <2>3. 1 \in 1 .. n /\ 1 \in 0 .. n /\ D[1] = 1 .. n
    BY <1>1, <1>9, <2>1 DEF Shape
  <2>4. find[1] = Reached(1)
    <3>1. below[1] = Reached(1)
      BY <2>3
    <3> HIDE DEF find, below
    <3> QED BY <1>7, <2>3, <3>1
  <2>5. ASSUME NEW j \in 1 .. n, Found(j),
               IsBounded(ns[j].range.end) \/ ~bound_less_than(MaxKey, q.start)
        PROVE  j \in Reached(1)
    <3>1. \A a \in 1 .. n : j \in D[a] => Passed(a, j)
      BY <1>2, <1>3, <2>5
    <3> HIDE DEF Found, Passed
    <3> QED BY <2>3, <2>5, <3>1
  <2>6. Reached(1) \subseteq {j \in 1 .. n : Found(j)}
    BY <2>3
  <2> HIDE DEF find, Reached
  <2> QED BY <2>2, <2>4, <2>5, <2>6
<1> QED BY <1>8, <1>9

-----------------------------------------------------------------------------
(***************************************************************************)
(* Insertion.                                                              *)
(***************************************************************************)

\* The nodes P that the descent from the root of a subtree for a range that starts
\* at start visits: it follows one child at each of them, to a node without one,
\* and visits all nodes above those it visits.
Descent(ns, D, start, i, P) ==
    /\ i \in P /\ P \subseteq D[i]
    /\ \A y \in P : Child(ns, y, start) = Nil \/ Child(ns, y, start) \in P
    /\ \A y \in P : \A x \in {ns[y].left, ns[y].right} \cap P : x = Child(ns, y, start)
    /\ \A y \in D[i] : D[y] \cap P # {} => y \in P
    /\ \E y \in P : \A z \in P : Child(ns, z, start) = Nil <=> z = y

\* One step of the descent goes on in the child's subtree.
LEMMA DescentStep ==
    ASSUME NEW ns, NEW D, Shape(ns, D), NEW start, NEW i \in 1 .. Len(ns), NEW P,
           Child(ns, i, start) = Nil => P = {},
           Child(ns, i, start) # Nil => Descent(ns, D, start, Child(ns, i, start), P)
    PROVE  Descent(ns, D, start, i, {i} \cup P)
<1> DEFINE c == Child(ns, i, start)
           o == IF c = ns[i].left THEN ns[i].right ELSE ns[i].left
           All == {i} \cup P
<1>1. {c, o} = {ns[i].left, ns[i].right} /\ c \in {ns[i].left, ns[i].right}
      /\ D[i] = {i} \cup D[c] \cup D[o]
      /\ D[c] \cap D[o] = {} /\ i \notin D[c] /\ i \notin D[o]
  <2>1. /\ D[i] = {i} \cup D[ns[i].left] \cup D[ns[i].right]
        /\ i \notin D[ns[i].left] /\ i \notin D[ns[i].right]
        /\ D[ns[i].left] \cap D[ns[i].right] = {}
    BY ShapeAt
  <2>2. c \in {ns[i].left, ns[i].right}
    BY DEF Child
  <2> HIDE DEF c
  <2>3. \/ c = ns[i].left /\ o = ns[i].right
        \/ c = ns[i].right /\ o = ns[i].left
    BY <2>2
  <2> HIDE DEF o
  <2> QED BY <2>1, <2>3
<1>2. P \subseteq D[c] /\ \A y \in D[i] : y \in 1 .. Len(ns) /\ D[y] \subseteq D[i]
  BY ShapeAt DEF Descent
<1>3. i \in D[i] /\ D[Nil] = {}
  BY ShapeAt
<1> HIDE DEF c, o
<1>4. i \in All /\ All \subseteq D[i]
  BY <1>1, <1>2
<1>5. ASSUME NEW y \in All PROVE Child(ns, y, start) = Nil \/ Child(ns, y, start) \in All
  BY <1>5 DEF Descent, c
<1>6. ASSUME NEW y \in All, NEW x \in {ns[y].left, ns[y].right} \cap All
      PROVE  x = Child(ns, y, start)
  <2>1. y \in 1 .. Len(ns) /\ D[Nil] = {} /\ x \in 1 .. Len(ns)
    BY <1>2, <1>3, <1>4
  <2>2. x # Nil /\ x \in D[x] /\ x \in D[y]
    BY <2>1, ShapeAt DEF Nil
  <2>3. CASE y = i
    <3>1. x # i
      BY <1>1, <2>2, <2>3, ShapeAt
    <3>2. x \in D[c]
      BY <1>2, <3>1
    <3> QED BY <1>1, <2>2, <2>3, <3>2 DEF c
  <2>4. CASE y # i
    <3>1. y \in P /\ c # Nil
      BY <2>4 DEF c
    <3>2. c \in 1 .. Len(ns)
      BY <1>1, <3>1, ShapeAt
    <3>3. y \in D[c] /\ D[y] \subseteq D[c]
      BY <1>2, <3>1, <3>2, ShapeAt
    <3>4. x # i
      BY <1>1, <2>2, <3>3
    <3> QED BY <3>1, <3>4 DEF Descent, c
  <2> QED BY <2>3, <2>4
<1>7. ASSUME NEW y \in D[i], D[y] \cap All # {} PROVE y \in All
  <2>1. CASE y = i
    BY <2>1
  <2>2. CASE y \in D[c]
    <3>1. c # Nil /\ c \in 1 .. Len(ns)
      BY <1>1, <1>3, <2>2, ShapeAt
    <3>2. i \notin D[y]
      BY <1>1, <2>2, <3>1, ShapeAt
    <3> QED BY <1>7, <2>2, <3>1, <3>2 DEF Descent, c
  <2>3. CASE y \in D[o]
    <3>1. o # Nil /\ o \in 1 .. Len(ns)
      BY <1>1, <1>3, <2>3, ShapeAt
    <3>2. D[y] \subseteq D[o]
      BY <2>3, <3>1, ShapeAt
    <3> QED BY <1>1, <1>2, <1>7, <3>2
  <2> QED BY <1>1, <2>1, <2>2, <2>3
<1>8. \E y \in All : \A z \in All : Child(ns, z, start) = Nil <=> z = y
  <2>1. CASE c = Nil
    BY <2>1 DEF c
  <2>2. CASE c # Nil
    BY <1>1, <1>2, <2>2 DEF Descent, c
  <2> QED BY <2>1, <2>2
<1> QED BY <1>4, <1>5, <1>6, <1>7, <1>8 DEF Descent

\* The path of the loop of insert is such a descent from the root.
LEMMA PathShape ==
    ASSUME NEW ns, NEW D, Shape(ns, D), ns # <<>>, NEW start
    PROVE  Descent(ns, D, start, 1, InsertPath(ns, start))
<1> DEFINE n == Len(ns)
           c(i) == Child(ns, i, start)
           Step(f) == [i \in 1 .. n |->
                          LET d == Child(ns, i, start)
                          IN  {i} \cup (IF d = Nil THEN {} ELSE f[d])]
           Closed(S) == \A y \in S : c(y) = Nil \/ c(y) \in S
           From(i) == {x \in 1 .. n : \A S \in SUBSET (1 .. n) : i \in S /\ Closed(S) => x \in S}
           path == CHOOSE f : f = Step(f)
<1>1. n \in Nat
  BY LenProperties DEF Shape
<1>2. ASSUME NEW i \in 1 .. n, c(i) # Nil PROVE c(i) \in 1 .. n /\ c(i) \in i + 1 .. n
  <2>1. c(i) \in {ns[i].left, ns[i].right} \ {Nil}
    BY <1>2 DEF Child
  <2> HIDE DEF c
  <2> QED BY <2>1, ShapeAt
<1>3. ASSUME NEW i \in 1 .. n
      PROVE  i \in From(i) /\ Closed(From(i)) /\ From(i) \subseteq 1 .. n
  <2>1. ASSUME NEW y \in From(i), c(y) # Nil PROVE c(y) \in From(i)
    <3>1. c(y) \in 1 .. n
      BY <1>2, <2>1
    <3> HIDE DEF c
    <3> QED BY <2>1, <3>1
  <2> HIDE DEF c
  <2> QED BY <2>1
<1>4. ASSUME NEW i \in 1 .. n PROVE From(i) = {i} \cup (IF c(i) = Nil THEN {} ELSE From(c(i)))
  <2> DEFINE Rest == IF c(i) = Nil THEN {} ELSE From(c(i))
  <2>1. Rest \subseteq From(i)
    <3> HIDE DEF c
    <3> QED BY DEF Rest
  <2>2. Closed({i} \cup Rest) /\ {i} \cup Rest \in SUBSET (1 .. n)
    <3>1. CASE c(i) = Nil
      BY <3>1
    <3>2. CASE c(i) # Nil
      <4>1. c(i) \in From(c(i)) /\ Closed(From(c(i))) /\ From(c(i)) \subseteq 1 .. n
        BY <1>2, <1>3, <3>2
      <4> HIDE DEF c, From
      <4> QED BY <3>2, <4>1
    <3> QED BY <3>1, <3>2
  <2>3. From(i) \subseteq {i} \cup Rest
    <3> HIDE DEF c, Rest, Closed
    <3> QED BY <2>2
  <2>4. i \in From(i)
    BY <1>3
  <2> HIDE DEF From, c
  <2>5. From(i) = {i} \cup Rest
    BY <2>1, <2>3, <2>4
  <2> QED BY <2>5
<1>5. path = Step(path)
  <2> DEFINE all == [i \in 1 .. n |-> From(i)]
  <2>1. ASSUME NEW i \in 1 .. n PROVE all[i] = Step(all)[i]
    <3>1. c(i) # Nil => all[c(i)] = From(c(i))
      BY <1>2
    <3>2. Step(all)[i] = {i} \cup (IF c(i) = Nil THEN {} ELSE all[c(i)])
      <4> HIDE DEF all
      <4> QED OBVIOUS
    <3>3. all[i] = From(i)
      OBVIOUS
    <3> HIDE DEF all, From, Step, c
    <3> QED BY <1>4, <3>1, <3>2, <3>3
  <2>2. all = Step(all)
    <3>1. all = [i \in 1 .. n |-> all[i]] /\ Step(all) = [i \in 1 .. n |-> Step(all)[i]]
      OBVIOUS
    <3> HIDE DEF all, Step
    <3> QED BY <2>1, <3>1
  <2> HIDE DEF all
  <2> QED BY <2>2
<1>6. ASSUME NEW i \in 1 .. n
      PROVE  path[i] = {i} \cup (IF c(i) = Nil THEN {} ELSE path[c(i)])
  <2>1. path[i] = Step(path)[i]
    <3> HIDE DEF path, Step
    <3> QED BY <1>5
  <2>2. Step(path)[i] = {i} \cup (IF c(i) = Nil THEN {} ELSE path[c(i)])
    <3> HIDE DEF path
    <3> QED OBVIOUS
  <2> HIDE DEF path, Step, c
  <2> QED BY <2>1, <2>2
<1> HIDE DEF path
<1>7. 1 .. n \subseteq {i \in 1 .. n : Descent(ns, D, start, i, path[i])}
  <2> DEFINE Good == {i \in 1 .. n : Descent(ns, D, start, i, path[i])}
  <2>1. ASSUME NEW i \in 1 .. n, \A j \in i + 1 .. n : j \in Good PROVE i \in Good
    <3> DEFINE P == IF c(i) = Nil THEN {} ELSE path[c(i)]
    <3>1. c(i) # Nil => Descent(ns, D, start, c(i), path[c(i)])
      BY <1>2, <2>1
    <3>2. Descent(ns, D, start, i, {i} \cup P)
      <4>1. /\ Child(ns, i, start) = Nil => P = {}
            /\ Child(ns, i, start) # Nil => Descent(ns, D, start, Child(ns, i, start), P)
        BY <3>1
      <4> HIDE DEF P, c
      <4> QED BY <4>1, DescentStep
    <3>3. path[i] = {i} \cup P
      BY <1>6
    <3> HIDE DEF P
    <3> QED BY <3>2, <3>3
  <2> HIDE DEF Good
  <2>2. 1 .. n \subseteq Good
    BY <1>1, <2>1, DownwardInduction
  <2> QED BY <2>2 DEF Good
<1>8. 1 \in 1 .. n
  <2>1. n # 0
    BY EmptySeq DEF Shape
  <2> QED BY <1>1, <2>1
<1>9. InsertPath(ns, start) = path[1]
  BY DEF InsertPath, path
<1> QED BY <1>7, <1>8, <1>9

\* The vector ms after the insertion of a range lock e into ns along the path P:
\* the old nodes keep their place, no max_end falls, those on the path do not stay
\* below the new end, and the end of the path gets the new node as its child.
Inserted(ns, P, e, ms) ==
    LET new == Len(ns) + 1
        before(i) == StartsBefore(e.range.start, ns[i].range.start)
        linked(i) == i \in P /\ Child(ns, i, e.range.start) = Nil
    IN  /\ ms \in Seq(Node) /\ Len(ms) = new /\ ms[new] = Leaf(e)
        /\ \A i \in 1 .. Len(ns) :
              /\ ms[i].txn = ns[i].txn /\ ms[i].range = ns[i].range
              /\ ns[i].max_end <= ms[i].max_end
              /\ i \in P => bound_to_bytes(e.range.end) <= ms[i].max_end
              /\ ms[i].left = IF linked(i) /\ before(i) THEN new ELSE ns[i].left
              /\ ms[i].right = IF linked(i) /\ ~before(i) THEN new ELSE ns[i].right

\* The node for a range lock is a node.
LEMMA LeafType ==
    ASSUME NEW e, e.txn \in Txns, e.range \in KeyRanges(Keys)
    PROVE  Leaf(e) \in Node /\ bound_to_bytes(e.range.end) \in Int
<1>1. e.range.end \in Bounds(Keys)
  BY DEF KeyRanges
<1>2. bound_to_bytes(e.range.end) \in Int
  BY <1>1, BoundType, TreeAssumption DEF bound_to_bytes
<1> QED BY <1>2 DEF Leaf, Node, Nil

\* That is what insert does.
LEMMA InsertDoes ==
    ASSUME NEW ns, NEW D, Shape(ns, D), ns # <<>>,
           NEW e, e.txn \in Txns, e.range \in KeyRanges(Keys)
    PROVE  Inserted(ns, InsertPath(ns, e.range.start), e, insert(ns, e))
<1> DEFINE n == Len(ns)
           P == InsertPath(ns, e.range.start)
           parent == CHOOSE i \in P : Child(ns, i, e.range.start) = Nil
           max_end == bound_to_bytes(e.range.end)
           raised == [i \in 1 .. n |-> IF i \in P /\ max_end > ns[i].max_end
                                       THEN [ns[i] EXCEPT !.max_end = max_end] ELSE ns[i]]
           before(i) == StartsBefore(e.range.start, ns[i].range.start)
           linked == IF before(parent) THEN [raised EXCEPT ![parent].left = n + 1]
                     ELSE [raised EXCEPT ![parent].right = n + 1]
<1>1. insert(ns, e) = Append(linked, Leaf(e))
  BY DEF insert
<1>2. /\ n \in Nat /\ \A i \in 1 .. n : ns[i] \in Node
      /\ Leaf(e) \in Node /\ max_end \in Int
  BY LenProperties, ElementOfSeq, LeafType DEF Shape
<1>3. /\ P \subseteq 1 .. n /\ parent \in P
      /\ \A i \in P : Child(ns, i, e.range.start) = Nil <=> i = parent
  <2>1. Descent(ns, D, e.range.start, 1, P)
    BY PathShape
  <2>2. 1 \in 1 .. n
    <3>1. n # 0
      BY EmptySeq DEF Shape
    <3> QED BY <1>2, <3>1
  <2>3. P \subseteq 1 .. n
    BY <2>1, <2>2, ShapeAt DEF Descent
  <2>4. PICK y \in P : \A z \in P : Child(ns, z, e.range.start) = Nil <=> z = y
    BY <2>1 DEF Descent
  <2> HIDE DEF P
  <2>5. parent = y
    BY <2>4
  <2> QED BY <2>3, <2>4, <2>5
<1> HIDE DEF parent, P
<1>4. ASSUME NEW i \in 1 .. n
      PROVE  /\ raised[i] \in Node
             /\ raised[i].txn = ns[i].txn /\ raised[i].range = ns[i].range
             /\ raised[i].left = ns[i].left /\ raised[i].right = ns[i].right
             /\ ns[i].max_end <= raised[i].max_end
             /\ i \in P => max_end <= raised[i].max_end
  <2> HIDE DEF max_end
  <2>1. raised[i] = IF i \in P /\ max_end > ns[i].max_end
                    THEN [ns[i] EXCEPT !.max_end = max_end] ELSE ns[i]
    OBVIOUS
  <2>2. ns[i] \in Node /\ max_end \in Int /\ ns[i].max_end \in Int
    BY <1>2 DEF Node
  <2> HIDE DEF raised
  <2>3. CASE i \in P /\ max_end > ns[i].max_end
    BY <2>1, <2>2, <2>3 DEF Node
  <2>4. CASE ~(i \in P /\ max_end > ns[i].max_end)
    BY <2>1, <2>2, <2>4
  <2> QED BY <2>3, <2>4
<1>5. raised \in [1 .. n -> Node]
  BY <1>4
<1> HIDE DEF raised
<1>6. linked \in [1 .. n -> Node]
  <2>1. raised[parent] \in Node /\ n + 1 \in Nat
    BY <1>2, <1>3, <1>4
  <2>2. /\ [raised[parent] EXCEPT !.left = n + 1] \in Node
        /\ [raised[parent] EXCEPT !.right = n + 1] \in Node
    BY <2>1 DEF Node
  <2> HIDE DEF before
  <2> QED BY <1>3, <1>5, <2>2
<1>7. ASSUME NEW i \in 1 .. n
      PROVE  /\ linked[i].txn = raised[i].txn /\ linked[i].range = raised[i].range
             /\ linked[i].max_end = raised[i].max_end
             /\ linked[i].left = IF i = parent /\ before(i) THEN n + 1 ELSE raised[i].left
             /\ linked[i].right = IF i = parent /\ ~before(i) THEN n + 1 ELSE raised[i].right
  <2>1. raised[i] \in [txn : Txns, range : KeyRanges(Keys), max_end : Int, left : Nat, right : Nat]
    BY <1>4 DEF Node
  <2>2. CASE i = parent
    <3> HIDE DEF before
    <3> QED BY <1>5, <2>1, <2>2
  <2>3. CASE i # parent
    <3>1. linked[i] = raised[i]
      <4> HIDE DEF before
      <4> QED BY <1>5, <2>3
    <3> HIDE DEF linked, before
    <3> QED BY <2>3, <3>1
  <2> QED BY <2>2, <2>3
<1> HIDE DEF linked
<1>8. /\ linked \in Seq(Node) /\ Len(linked) = n
  BY <1>2, <1>6, LenProperties
<1>9. /\ Append(linked, Leaf(e)) \in Seq(Node) /\ Len(Append(linked, Leaf(e))) = n + 1
      /\ Append(linked, Leaf(e))[n + 1] = Leaf(e)
      /\ \A i \in 1 .. n : Append(linked, Leaf(e))[i] = linked[i]
  BY <1>2, <1>8, AppendProperties
<1>10. ASSUME NEW i \in 1 .. n
       PROVE  /\ insert(ns, e)[i].txn = ns[i].txn /\ insert(ns, e)[i].range = ns[i].range
              /\ ns[i].max_end <= insert(ns, e)[i].max_end
              /\ i \in P => max_end <= insert(ns, e)[i].max_end
              /\ insert(ns, e)[i].left = IF i = parent /\ before(i) THEN n + 1 ELSE ns[i].left
              /\ insert(ns, e)[i].right = IF i = parent /\ ~before(i) THEN n + 1 ELSE ns[i].right
  <2> HIDE DEF before, max_end
  <2> QED BY <1>1, <1>4, <1>7, <1>9
<1>11. \A i \in 1 .. n : i = parent <=> (i \in P /\ Child(ns, i, e.range.start) = Nil)
  BY <1>3
<1> QED BY <1>1, <1>9, <1>10, <1>11 DEF Inserted, P

\* The subtrees after it: those on the path have the new node in them.
NewSubtrees(n, D, P) ==
    [i \in 0 .. n + 1 |-> IF i = Nil THEN {}
                          ELSE IF i = n + 1 THEN {n + 1}
                          ELSE IF i \in P THEN D[i] \cup {n + 1} ELSE D[i]]

\* The children's subtrees then: the new node is on the side on which it starts.
LEMMA NewChildren ==
    ASSUME NEW ns, NEW D, Shape(ns, D), NEW e, NEW P, NEW ms, Inserted(ns, P, e, ms),
           NEW i \in 1 .. Len(ns), Descent(ns, D, e.range.start, 1, P), ns # <<>>
    PROVE  LET new == Len(ns) + 1
               before == StartsBefore(e.range.start, ns[i].range.start)
               E == NewSubtrees(Len(ns), D, P)
           IN  /\ E[ms[i].left] = D[ns[i].left] \cup {x \in {new} : i \in P /\ before}
               /\ E[ms[i].right] = D[ns[i].right] \cup {x \in {new} : i \in P /\ ~before}
               /\ ms[i].left \in {Nil} \cup i + 1 .. new
               /\ ms[i].right \in {Nil} \cup i + 1 .. new
<1> DEFINE n == Len(ns)
           before == StartsBefore(e.range.start, ns[i].range.start)
           c == Child(ns, i, e.range.start)
           l == ns[i].left
           r == ns[i].right
           E == NewSubtrees(n, D, P)
<1>1. /\ n \in Nat /\ D[Nil] = {} /\ D[l] \cap D[r] = {}
      /\ \A x \in {l, r} \ {Nil} : x \in i + 1 .. n /\ x \in D[x] /\ D[x] \subseteq D[i]
  BY ShapeAt
<1>2. c = IF before THEN l ELSE r
  BY DEF Child
<1>3. /\ c = Nil \/ c \in P \/ i \notin P
      /\ \A x \in {l, r} \cap P : i \in P => x = c
      /\ P \subseteq 1 .. n
  <2>1. 1 \in 1 .. n
    <3>1. n # 0
      BY EmptySeq DEF Shape
    <3> QED BY <1>1, <3>1
  <2>2. P \subseteq 1 .. n
    BY <2>1, ShapeAt DEF Descent
  <2> QED BY <2>2 DEF Descent
<1>4. \A x \in {l, r} : x \in P => i \in P
  <2>1. D[1] = 1 .. n
    BY DEF Shape
  <2>2. ASSUME NEW x \in {l, r}, x \in P PROVE D[i] \cap P # {}
    <3>1. x # Nil
      BY <1>1, <1>3, <2>2 DEF Nil
    <3> QED BY <1>1, <2>2, <3>1
  <2> QED BY <2>1, <2>2 DEF Descent
<1>5. /\ ms[i].left = IF i \in P /\ c = Nil /\ before THEN n + 1 ELSE l
      /\ ms[i].right = IF i \in P /\ c = Nil /\ ~before THEN n + 1 ELSE r
  BY DEF Inserted
<1>6. \A x \in {l, r} : E[x] = IF x \in P THEN D[x] \cup {n + 1} ELSE D[x]
  <2>1. ASSUME NEW x \in {l, r} PROVE x \in 0 .. n + 1 /\ x # n + 1
    BY <1>1 DEF Nil
  <2>2. Nil \notin P
    BY <1>1, <1>3 DEF Nil
  <2> QED BY <1>1, <2>1, <2>2 DEF NewSubtrees
<1>7. E[n + 1] = {n + 1}
  <2>1. n + 1 \in 0 .. n + 1 /\ n + 1 # Nil
    BY <1>1 DEF Nil
  <2> QED BY <2>1 DEF NewSubtrees
<1>8. ms[i].left \in {Nil} \cup i + 1 .. n + 1 /\ ms[i].right \in {Nil} \cup i + 1 .. n + 1
  <2>0. \A x \in {Nil} \cup i + 1 .. n : x \in {Nil} \cup i + 1 .. n + 1
    <3> HIDE DEF n
    <3> QED BY <1>1
  <2>1. \A x \in {l, r} : x \in {Nil} \cup i + 1 .. n + 1
    <3> HIDE DEF l, r, n
    <3> QED BY <1>1, <2>0
  <2>2. n + 1 \in i + 1 .. n + 1
    BY <1>1
  <2> HIDE DEF l, r, n, c, before
  <2> QED BY <1>5, <2>1, <2>2
<1>9. Nil \notin P
  BY <1>1, <1>3 DEF Nil
<1> HIDE DEF n, before, c, l, r, E
<1>10. E[ms[i].left] = D[l] \cup {x \in {n + 1} : i \in P /\ before}
  <2>1. CASE i \in P /\ c = Nil /\ before
    <3>1. D[l] = {} /\ ms[i].left = n + 1
      BY <1>1, <1>2, <1>5, <2>1
    <3> QED BY <1>7, <2>1, <3>1
  <2>2. CASE i \in P /\ c # Nil /\ before
    BY <1>2, <1>3, <1>5, <1>6, <2>2
  <2>3. CASE i \in P /\ ~before
    <3>1. l \notin P
      <4>1. CASE l = Nil
        BY <1>9, <4>1
      <4>2. CASE l # Nil
        <5>1. l \in P => l = r
          BY <1>2, <1>3, <2>3
        <5> QED BY <1>1, <4>2, <5>1
      <4> QED BY <4>1, <4>2
    <3> QED BY <1>5, <1>6, <2>3, <3>1
  <2>4. CASE i \notin P
    BY <1>4, <1>5, <1>6, <2>4
  <2> QED BY <2>1, <2>2, <2>3, <2>4
<1>11. E[ms[i].right] = D[r] \cup {x \in {n + 1} : i \in P /\ ~before}
  <2>1. CASE i \in P /\ c = Nil /\ ~before
    <3>1. D[r] = {} /\ ms[i].right = n + 1
      BY <1>1, <1>2, <1>5, <2>1
    <3> QED BY <1>7, <2>1, <3>1
  <2>2. CASE i \in P /\ c # Nil /\ ~before
    BY <1>2, <1>3, <1>5, <1>6, <2>2
  <2>3. CASE i \in P /\ before
    <3>1. r \notin P
      <4>1. CASE r = Nil
        BY <1>9, <4>1
      <4>2. CASE r # Nil
        <5>1. r \in P => r = l
          BY <1>2, <1>3, <2>3
        <5> QED BY <1>1, <4>2, <5>1
      <4> QED BY <4>1, <4>2
    <3> QED BY <1>5, <1>6, <2>3, <3>1
  <2>4. CASE i \notin P
    BY <1>4, <1>5, <1>6, <2>4
  <2> QED BY <2>1, <2>2, <2>3, <2>4
<1> QED BY <1>8, <1>10, <1>11 DEF n, before, l, r, E

\* The insertion keeps the shape.
LEMMA InsertedShape ==
    ASSUME NEW ns, NEW D, Shape(ns, D), ns # <<>>, NEW P, NEW ms,
           NEW e, e.txn \in Txns, e.range \in KeyRanges(Keys),
           Descent(ns, D, e.range.start, 1, P), Inserted(ns, P, e, ms)
    PROVE  Shape(ms, NewSubtrees(Len(ns), D, P))
<1> DEFINE n == Len(ns)
           E == NewSubtrees(n, D, P)
           before(i) == StartsBefore(e.range.start, ns[i].range.start)
<1>1. /\ ms \in Seq(Node) /\ Len(ms) = n + 1 /\ n \in Nat
      /\ \A i \in 1 .. n + 1 : ms[i] \in Node
  <2>1. ms \in Seq(Node) /\ Len(ms) = n + 1
    BY DEF Inserted
  <2> QED BY <2>1, LenProperties, ElementOfSeq DEF Shape
<1>2. 1 \in 1 .. n /\ D[1] = 1 .. n /\ 1 \in P /\ P \subseteq 1 .. n
  <2>1. n # 0
    BY EmptySeq DEF Shape
  <2> QED BY <1>1, <2>1 DEF Shape, Descent
<1>3. E[Nil] = {} /\ E[n + 1] = {n + 1}
  BY <1>1 DEF NewSubtrees, Nil
<1>4. ASSUME NEW i \in 1 .. n
      PROVE  /\ E[i] = IF i \in P THEN D[i] \cup {n + 1} ELSE D[i]
             /\ i # n + 1 /\ n + 1 \notin D[i] /\ D[i] \subseteq i .. n
             /\ D[i] \subseteq 1 .. n
  <2>1. i \in 0 .. n + 1 /\ i # Nil /\ i # n + 1
    BY <1>1 DEF Nil
  <2>2. D[i] \subseteq i .. n
    BY ShapeAt
  <2> QED BY <1>1, <2>1, <2>2 DEF NewSubtrees
<1>5. E \in [0 .. n + 1 -> SUBSET (1 .. n + 1)]
  <2>1. ASSUME NEW i \in 0 .. n + 1 PROVE E[i] \in SUBSET (1 .. n + 1)
    <3>1. i = Nil \/ i = n + 1 \/ i \in 1 .. n
      BY <1>1 DEF Nil
    <3>2. n + 1 \in 1 .. n + 1 /\ \A x \in 1 .. n : x \in 1 .. n + 1
      BY <1>1
    <3> HIDE DEF E, n
    <3>3. CASE i \in 1 .. n
      <4>1. E[i] \subseteq D[i] \cup {n + 1} /\ D[i] \subseteq 1 .. n
        BY <1>4, <3>3
      <4> QED BY <3>2, <4>1
    <3> QED BY <1>3, <3>1, <3>2, <3>3
  <2>2. E = [i \in 0 .. n + 1 |-> E[i]]
    BY DEF NewSubtrees
  <2> HIDE DEF E
  <2> QED BY <2>1, <2>2
<1>6. E[1] = 1 .. n + 1
  <2>1. E[1] = 1 .. n \cup {n + 1}
    BY <1>2, <1>4
  <2>2. 1 .. n \cup {n + 1} = 1 .. n + 1
    BY <1>1
  <2> HIDE DEF E
  <2> QED BY <2>1, <2>2
<1>7. ASSUME NEW i \in 1 .. n
      PROVE  /\ ms[i].left \in {Nil} \cup i + 1 .. n + 1
             /\ ms[i].right \in {Nil} \cup i + 1 .. n + 1
             /\ E[i] = {i} \cup E[ms[i].left] \cup E[ms[i].right]
             /\ E[ms[i].left] \cap E[ms[i].right] = {}
             /\ \A j \in E[ms[i].right] : ~StartsBefore(ms[j].range.start, ms[i].range.start)
  <2>1. /\ ms[i].left \in {Nil} \cup i + 1 .. n + 1 /\ ms[i].right \in {Nil} \cup i + 1 .. n + 1
        /\ E[ms[i].left] = D[ns[i].left] \cup {x \in {n + 1} : i \in P /\ before(i)}
        /\ E[ms[i].right] = D[ns[i].right] \cup {x \in {n + 1} : i \in P /\ ~before(i)}
    BY NewChildren
  <2>2. /\ D[i] = {i} \cup D[ns[i].left] \cup D[ns[i].right]
        /\ D[ns[i].left] \cap D[ns[i].right] = {}
    BY ShapeAt
  <2>3. D[ns[i].left] \subseteq 1 .. n /\ D[ns[i].right] \subseteq 1 .. n
    BY <1>4, <2>2
  <2>4. n + 1 \notin 1 .. n
    BY <1>1
  <2>5. ASSUME NEW j \in E[ms[i].right]
        PROVE  ~StartsBefore(ms[j].range.start, ms[i].range.start)
    <3>1. ms[i].range = ns[i].range /\ ms[n + 1].range = e.range
      BY DEF Inserted, Leaf
    <3>2. CASE j = n + 1
      <4>1. ~before(i)
        BY <2>1, <2>3, <2>4, <3>2
      <4> QED BY <3>1, <3>2, <4>1
    <3>3. CASE j # n + 1
      <4>1. j \in D[ns[i].right] /\ j \in 1 .. n
        BY <2>1, <2>3, <3>3
      <4>2. ms[j].range = ns[j].range
        BY <4>1 DEF Inserted
      <4>3. ~StartsBefore(ns[j].range.start, ns[i].range.start)
        BY <4>1 DEF Shape
      <4> QED BY <3>1, <4>2, <4>3
    <3> QED BY <3>2, <3>3
  <2>6. E[ms[i].left] \cap E[ms[i].right] = {}
    <3> HIDE DEF E, before, n
    <3> QED BY <2>1, <2>2, <2>3, <2>4
  <2>7. E[i] = {i} \cup E[ms[i].left] \cup E[ms[i].right]
    <3>1. E[i] = IF i \in P THEN D[i] \cup {n + 1} ELSE D[i]
      BY <1>4
    <3> HIDE DEF E, before, n
    <3> QED BY <2>1, <2>2, <3>1
  <2> HIDE DEF E
  <2> QED BY <2>1, <2>5, <2>6, <2>7
<1>8. ASSUME NEW i \in 1 .. n, NEW j \in E[i]
      PROVE  E[j] \subseteq E[i] /\ bound_to_bytes(ms[j].range.end) <= ms[i].max_end
  <2>1. ns[i].max_end <= ms[i].max_end /\ i \in P => bound_to_bytes(e.range.end) <= ms[i].max_end
    BY DEF Inserted
  <2>2. ns[i].max_end <= ms[i].max_end
    BY DEF Inserted
  <2>3. CASE j = n + 1
    <3>1. i \in P
      BY <1>4, <1>8, <2>3
    <3>2. ms[j].range = e.range
      BY <2>3 DEF Inserted, Leaf
    <3>3. bound_to_bytes(e.range.end) <= ms[i].max_end
      BY <3>1 DEF Inserted
    <3> HIDE DEF E
    <3> QED BY <1>3, <1>4, <2>3, <3>1, <3>2, <3>3
  <2>4. CASE j # n + 1
    <3>1. j \in D[i]
      BY <1>4, <2>4
    <3>2. j \in 1 .. n /\ D[j] \subseteq D[i]
      BY <3>1, ShapeAt
    <3>3. j \in P => i \in P
      <4>1. ASSUME j \in P PROVE D[i] \cap P # {}
        BY <3>1, <4>1
      <4> QED BY <1>2, <4>1 DEF Descent
    <3>4. E[j] \subseteq E[i]
      <4> HIDE DEF E
      <4> QED BY <1>4, <3>2, <3>3
    <3>5. bound_to_bytes(ns[j].range.end) <= ns[i].max_end
      BY <3>1 DEF Shape
    <3>6. ms[j].range = ns[j].range
      BY <3>2 DEF Inserted
    <3>7. /\ bound_to_bytes(ns[j].range.end) \in Int
          /\ ns[i].max_end \in Int /\ ms[i].max_end \in Int
      <4>1. ns[j] \in Node /\ ns[i] \in Node /\ ms[i] \in Node
        BY <1>1, <3>2, ShapeAt
      <4>2. ns[j].txn \in Txns /\ ns[j].range \in KeyRanges(Keys)
        BY <4>1 DEF Node
      <4> QED BY <4>1, <4>2, LeafType DEF Node
    <3> QED BY <2>2, <3>4, <3>5, <3>6, <3>7
  <2> QED BY <2>3, <2>4
<1>9. LET i == n + 1
      IN  /\ ms[i].left = Nil /\ ms[i].right = Nil
          /\ bound_to_bytes(ms[i].range.end) <= ms[i].max_end
  <2>1. ms[n + 1] = Leaf(e) /\ bound_to_bytes(e.range.end) \in Int
    BY LeafType DEF Inserted
  <2> QED BY <2>1 DEF Leaf
<1> HIDE DEF E
<1>10. ASSUME NEW i \in 1 .. n + 1
       PROVE  /\ ms[i].left \in {Nil} \cup i + 1 .. n + 1
              /\ ms[i].right \in {Nil} \cup i + 1 .. n + 1
              /\ E[i] = {i} \cup E[ms[i].left] \cup E[ms[i].right]
              /\ E[ms[i].left] \cap E[ms[i].right] = {}
              /\ E[i] \subseteq i .. n + 1
              /\ \A j \in E[i] : /\ E[j] \subseteq E[i]
                                 /\ bound_to_bytes(ms[j].range.end) <= ms[i].max_end
              /\ \A j \in E[ms[i].right] : ~StartsBefore(ms[j].range.start, ms[i].range.start)
  <2>1. CASE i \in 1 .. n
    <3>1. E[i] \subseteq i .. n + 1
      <4>1. E[i] \subseteq D[i] \cup {n + 1} /\ D[i] \subseteq i .. n
        BY <1>4, <2>1
      <4>2. n + 1 \in i .. n + 1 /\ i .. n \subseteq i .. n + 1
        BY <1>1, <2>1
      <4> QED BY <4>1, <4>2
    <3> QED BY <1>7, <1>8, <2>1, <3>1
  <2>2. CASE i = n + 1
    <3>1. n + 1 \in n + 1 .. n + 1
      BY <1>1
    <3> QED BY <1>3, <1>9, <2>2, <3>1
  <2>3. i \in 1 .. n \/ i = n + 1
    BY <1>1
  <2> QED BY <2>1, <2>2, <2>3
<1> QED BY <1>1, <1>3, <1>5, <1>6, <1>10 DEF Shape, E

\* A vector of nodes that is a tree, and the range locks it holds.
IsTree(ns) == \E D : Shape(ns, D)

Lock(e) == [txn |-> e.txn, range |-> e.range]

LocksOf(ns) == {Lock(ns[i]) : i \in 1 .. Len(ns)}

\* The vector without nodes is one.
LEMMA EmptyTree ==
    IsTree(<<>>) /\ LocksOf(<<>>) = {}
<1>1. <<>> \in Seq(Node) /\ Len(<<>>) = 0
  BY EmptySeq
<1>2. Shape(<<>>, [i \in 0 .. 0 |-> {}])
  BY <1>1 DEF Shape, Nil
<1> QED BY <1>1, <1>2 DEF IsTree, LocksOf

\* IntervalTree::insert adds the range lock to a tree.
LEMMA InsertKeeps ==
    ASSUME NEW ns, IsTree(ns), NEW e, e.txn \in Txns, e.range \in KeyRanges(Keys)
    PROVE  IsTree(insert(ns, e)) /\ LocksOf(insert(ns, e)) = LocksOf(ns) \cup {Lock(e)}
<1>1. PICK D : Shape(ns, D)
  BY DEF IsTree
<1>2. CASE ns = <<>>
  <2> DEFINE ms == <<Leaf(e)>>
             E == [i \in 0 .. 1 |-> IF i = Nil THEN {} ELSE {1}]
  <2>1. insert(ns, e) = ms
    BY <1>2 DEF insert
  <2>2. Leaf(e) \in Node /\ bound_to_bytes(e.range.end) \in Int
    BY LeafType
  <2>3. ms \in Seq(Node) /\ Len(ms) = 1 /\ ms[1] = Leaf(e)
    BY <2>2
  <2>4. E[0] = {} /\ E[1] = {1} /\ E \in [0 .. 1 -> SUBSET (1 .. 1)]
    BY DEF Nil
  <2> HIDE DEF ms, E
  <2>5. /\ ms[1].left = 0 /\ ms[1].right = 0
        /\ bound_to_bytes(ms[1].range.end) <= ms[1].max_end
    BY <2>2, <2>3 DEF Leaf, Nil
  <2>6. 1 .. Len(ms) = {1} /\ 0 .. Len(ms) = 0 .. 1
    BY <2>3
  <2>7. Shape(ms, E)
    BY <2>3, <2>4, <2>5, <2>6 DEF Shape, Nil
  <2>8. LocksOf(ms) = {Lock(e)}
    BY <2>3, <2>6 DEF LocksOf, Lock, Leaf
  <2> QED BY <1>2, <2>1, <2>7, <2>8, EmptyTree DEF IsTree
<1>3. CASE ns # <<>>
  <2> DEFINE P == InsertPath(ns, e.range.start)
             ms == insert(ns, e)
  <2>1. Descent(ns, D, e.range.start, 1, P) /\ Inserted(ns, P, e, ms)
    BY <1>1, <1>3, PathShape, InsertDoes
  <2> HIDE DEF P, ms
  <2>2. IsTree(ms)
    BY <1>1, <1>3, <2>1, InsertedShape DEF IsTree
  <2>3. LocksOf(ms) = LocksOf(ns) \cup {Lock(e)}
    <3>1. Len(ns) \in Nat
      BY <1>1, LenProperties DEF Shape
    <3>2. /\ Len(ms) = Len(ns) + 1 /\ Lock(ms[Len(ns) + 1]) = Lock(e)
          /\ \A i \in 1 .. Len(ns) : Lock(ms[i]) = Lock(ns[i])
      BY <2>1 DEF Inserted, Leaf, Lock
    <3>3. 1 .. Len(ms) = 1 .. Len(ns) \cup {Len(ns) + 1}
      BY <3>1, <3>2
    <3> QED BY <3>2, <3>3 DEF LocksOf
  <2> QED BY <2>2, <2>3 DEF ms
<1> QED BY <1>2, <1>3

-----------------------------------------------------------------------------
(***************************************************************************)
(* Removal.                                                                *)
(***************************************************************************)

\* A set of numbers is all of those up to n if it has 0 and no gap.
LEMMA UpwardInduction ==
    ASSUME NEW n \in Nat, NEW S, 0 \in S, \A i \in 0 .. n - 1 : i \in S => i + 1 \in S
    PROVE  0 .. n \subseteq S
<1> SUFFICES ASSUME NEW m \in 0 .. n, m \notin S PROVE FALSE
  OBVIOUS
<1> DEFINE Missing == {k \in Nat : k \in 0 .. n /\ k \notin S}
<1>1. m \in Missing /\ Missing \in SUBSET Nat
  OBVIOUS
<1>2. PICK k \in Missing : \A r \in Missing : k <= r
  <2> HIDE DEF Missing
  <2> QED BY <1>1, LeastExists
<1>3. k - 1 \in 0 .. n - 1 /\ (k - 1) + 1 = k
  OBVIOUS
<1>4. k - 1 \in S
  <2>1. k - 1 \in Nat /\ k - 1 \in 0 .. n /\ ~(k <= k - 1)
    BY <1>3
  <2> QED BY <1>2, <2>1
<1> QED BY <1>3, <1>4

\* The loop of rebuild.
Rebuilt(ns, txn, f, m) ==
    \A n \in 0 .. m :
        f[n] = IF n = 0 THEN <<>>
               ELSE IF ns[n].txn = txn THEN f[n - 1]
               ELSE insert(f[n - 1], ns[n])

\* It is defined up to every place of the vector.
LEMMA RebuiltExists ==
    ASSUME NEW ns, NEW txn, NEW m \in Nat
    PROVE  \E f : f = [n \in 0 .. m |-> f[n]] /\ Rebuilt(ns, txn, f, m)
<1> DEFINE Defined == {k \in 0 .. m : \E f : /\ f = [n \in 0 .. k |-> f[n]]
                                             /\ Rebuilt(ns, txn, f, k)}
<1>1. 0 \in Defined
  <2> DEFINE f == [n \in 0 .. 0 |-> <<>>]
  <2>1. Rebuilt(ns, txn, f, 0)
    BY DEF Rebuilt
  <2>2. f = [n \in 0 .. 0 |-> f[n]]
    OBVIOUS
  <2> HIDE DEF f
  <2> QED BY <2>1, <2>2
<1>2. ASSUME NEW k \in 0 .. m - 1, k \in Defined PROVE k + 1 \in Defined
  <2>1. PICK f : f = [n \in 0 .. k |-> f[n]] /\ Rebuilt(ns, txn, f, k)
    BY <1>2
  <2> DEFINE last == IF ns[k + 1].txn = txn THEN f[k] ELSE insert(f[k], ns[k + 1])
             g == [n \in 0 .. k + 1 |-> IF n = k + 1 THEN last ELSE f[n]]
  <2>2. g = [n \in 0 .. k + 1 |-> g[n]]
    OBVIOUS
  <2>3. /\ \A n \in 0 .. k : g[n] = f[n] /\ n \in 0 .. k + 1
        /\ g[k + 1] = last
    OBVIOUS
  <2> HIDE DEF g, last
  <2>4. ASSUME NEW n \in 0 .. k + 1
        PROVE  g[n] = IF n = 0 THEN <<>>
                      ELSE IF ns[n].txn = txn THEN g[n - 1]
                      ELSE insert(g[n - 1], ns[n])
    <3>1. CASE n = k + 1
      <4>1. n # 0 /\ n - 1 = k /\ k \in 0 .. k
        BY <3>1
      <4>2. g[n] = last /\ g[n - 1] = f[k]
        BY <2>3, <3>1, <4>1
      <4> QED BY <3>1, <4>1, <4>2 DEF last
    <3>2. CASE n # k + 1
      <4>1. n \in 0 .. k /\ (n # 0 => n - 1 \in 0 .. k)
        BY <3>2
      <4> QED BY <2>1, <2>3, <4>1 DEF Rebuilt
    <3> QED BY <3>1, <3>2
  <2>5. Rebuilt(ns, txn, g, k + 1) /\ k + 1 \in 0 .. m
    BY <2>4 DEF Rebuilt
  <2> QED BY <2>2, <2>5
<1>3. m \in Defined
  <2>1. 0 .. m \subseteq Defined /\ m \in 0 .. m
    <3> HIDE DEF Defined
    <3> QED BY <1>1, <1>2, UpwardInduction
  <2> HIDE DEF Defined
  <2> QED BY <2>1
<1> QED BY <1>3

\* IntervalTree::remove_by_txn leaves a tree of the other owners' range locks.
LEMMA RemoveKeeps ==
    ASSUME NEW ns, IsTree(ns), NEW txn
    PROVE  /\ IsTree(remove_by_txn(ns, txn))
           /\ LocksOf(remove_by_txn(ns, txn)) = {e \in LocksOf(ns) : e.txn # txn}
<1> DEFINE m == Len(ns)
           Step(f) == [n \in 0 .. m |-> IF n = 0 THEN <<>>
                                        ELSE IF ns[n].txn = txn THEN f[n - 1]
                                        ELSE insert(f[n - 1], ns[n])]
           rebuilt == CHOOSE f : f = Step(f)
           Left(n) == {Lock(ns[i]) : i \in {j \in 1 .. n : ns[j].txn # txn}}
<1>1. m \in Nat /\ \A i \in 1 .. m : ns[i].txn \in Txns /\ ns[i].range \in KeyRanges(Keys)
  <2>1. PICK D : Shape(ns, D)
    BY DEF IsTree
  <2>2. ns \in Seq(Node)
    BY <2>1 DEF Shape
  <2>3. m \in Nat /\ \A i \in 1 .. m : ns[i] \in Node
    BY <2>2, LenProperties, ElementOfSeq
  <2> HIDE DEF m
  <2> QED BY <2>3 DEF Node
<1>2. remove_by_txn(ns, txn) = rebuilt[m]
  BY DEF remove_by_txn
<1>3. rebuilt = Step(rebuilt)
  <2>1. PICK f : f = [n \in 0 .. m |-> f[n]] /\ Rebuilt(ns, txn, f, m)
    <3> HIDE DEF m
    <3> QED BY <1>1, RebuiltExists
  <2>2. f = Step(f)
    <3>1. \A n \in 0 .. m : f[n] = Step(f)[n]
      BY <2>1 DEF Rebuilt
    <3>2. Step(f) = [n \in 0 .. m |-> Step(f)[n]]
      OBVIOUS
    <3> HIDE DEF Step
    <3> QED BY <2>1, <3>1, <3>2
  <2> QED BY <2>2
<1>4. ASSUME NEW n \in 0 .. m
      PROVE  rebuilt[n] = IF n = 0 THEN <<>>
                          ELSE IF ns[n].txn = txn THEN rebuilt[n - 1]
                          ELSE insert(rebuilt[n - 1], ns[n])
  <2>1. rebuilt[n] = Step(rebuilt)[n]
    <3> HIDE DEF rebuilt, Step
    <3> QED BY <1>3
  <2> HIDE DEF rebuilt
  <2> QED BY <2>1
<1> HIDE DEF rebuilt, m
<1> DEFINE Good == {n \in 0 .. m : IsTree(rebuilt[n]) /\ LocksOf(rebuilt[n]) = Left(n)}
<1>5. 0 \in Good
  <2>1. rebuilt[0] = <<>> /\ Left(0) = {}
    BY <1>1, <1>4
  <2> QED BY <1>1, <2>1, EmptyTree
<1>6. ASSUME NEW n \in 0 .. m - 1, n \in Good PROVE n + 1 \in Good
  <2>1. n + 1 \in 1 .. m /\ n + 1 \in 0 .. m /\ n + 1 # 0 /\ (n + 1) - 1 = n
        /\ 1 .. n + 1 = 1 .. n \cup {n + 1}
    BY <1>1
  <2>2. rebuilt[n + 1] = IF ns[n + 1].txn = txn THEN rebuilt[n]
                         ELSE insert(rebuilt[n], ns[n + 1])
    BY <1>4, <2>1
  <2>3. CASE ns[n + 1].txn = txn
    <3>1. Left(n + 1) = Left(n)
      BY <2>1, <2>3
    <3> QED BY <1>6, <2>1, <2>2, <2>3, <3>1
  <2>4. CASE ns[n + 1].txn # txn
    <3>1. Left(n + 1) = Left(n) \cup {Lock(ns[n + 1])}
      BY <2>1, <2>4
    <3>2. ns[n + 1].txn \in Txns /\ ns[n + 1].range \in KeyRanges(Keys)
      BY <1>1, <2>1
    <3>3. IsTree(rebuilt[n]) /\ LocksOf(rebuilt[n]) = Left(n)
      BY <1>6
    <3> HIDE DEF Left
    <3>4. /\ IsTree(insert(rebuilt[n], ns[n + 1]))
          /\ LocksOf(insert(rebuilt[n], ns[n + 1])) = Left(n) \cup {Lock(ns[n + 1])}
      BY <3>2, <3>3, InsertKeeps
    <3> QED BY <2>1, <2>2, <2>4, <3>1, <3>4
  <2> QED BY <2>3, <2>4
<1>7. m \in Good
  <2>1. 0 .. m \subseteq Good /\ m \in 0 .. m
    <3> HIDE DEF Good
    <3> QED BY <1>1, <1>5, <1>6, UpwardInduction
  <2> HIDE DEF Good
  <2> QED BY <2>1
<1>8. Left(m) = {e \in LocksOf(ns) : e.txn # txn}
  BY DEF LocksOf, Lock, m
<1> QED BY <1>2, <1>7, <1>8

-----------------------------------------------------------------------------
\* The vector is a tree of the range locks in force.
TreeInv == IsTree(nodes) /\ locked = LocksOf(nodes)

\* It always is.
THEOREM TreeInvariant == Spec => []TreeInv
<1>1. Init => TreeInv
  BY EmptyTree DEF Init, TreeInv
<1>2. TreeInv /\ [Next]_<<nodes, locked>> => TreeInv'
  <2> SUFFICES ASSUME TreeInv, [Next]_<<nodes, locked>> PROVE TreeInv'
    OBVIOUS
  <2>1. ASSUME NEW txn \in Txns, RemoveByTxn(txn) PROVE TreeInv'
    BY <2>1, RemoveKeeps DEF RemoveByTxn, TreeInv
  <2>2. ASSUME NEW txn \in Txns, NEW r \in EntryRanges, Insert(txn, r) PROVE TreeInv'
    <3> DEFINE e == [txn |-> txn, range |-> r]
    <3>1. r \in KeyRanges(Keys)
      BY TreeAssumption
    <3>2. nodes' = insert(nodes, e) /\ locked' = locked \cup {e}
      BY <2>2 DEF Insert
    <3>3. e.txn \in Txns /\ e.range \in KeyRanges(Keys) /\ Lock(e) = e
      BY <3>1 DEF Lock
    <3> HIDE DEF e
    <3> QED BY <3>2, <3>3, InsertKeeps DEF TreeInv
  <2>3. CASE UNCHANGED <<nodes, locked>>
    BY <2>3 DEF TreeInv
  <2> QED BY <2>1, <2>2, <2>3 DEF Next
<1> QED BY <1>1, <1>2, PTL DEF Spec

\* SearchIsExact: whatever was inserted and removed, the search that prunes by
\* max_end and by the start of a node finds range locks in force that overlap the
\* range asked for, and misses none but ranges without an end, asked for from
\* beyond the key that stands for it.
THEOREM SearchCorrect == Spec => []SearchIsExact
<1>1. TreeInv => SearchIsExact
  <2> SUFFICES ASSUME TreeInv, NEW q \in KeyRanges(Keys)
               PROVE  LET found == {[txn |-> nodes[i].txn, range |-> nodes[i].range] :
                                        i \in find_overlapping(nodes, q.start, q.end)}
                          overlapping == {e \in locked : overlaps(e.range, q.start, q.end)}
                      IN  /\ found \subseteq overlapping
                          /\ \A e \in overlapping \ found :
                                 ~IsBounded(e.range.end) /\ bound_less_than(MaxKey, q.start)
    BY DEF SearchIsExact
  <2>1. PICK D : Shape(nodes, D)
    BY DEF TreeInv, IsTree
  <2>2. /\ find_overlapping(nodes, q.start, q.end)
               \subseteq {j \in 1 .. Len(nodes) : overlaps(nodes[j].range, q.start, q.end)}
        /\ \A j \in 1 .. Len(nodes) :
               /\ overlaps(nodes[j].range, q.start, q.end)
               /\ IsBounded(nodes[j].range.end) \/ ~bound_less_than(MaxKey, q.start)
               => j \in find_overlapping(nodes, q.start, q.end)
    BY <2>1, SearchFinds
  <2>3. locked = {[txn |-> nodes[i].txn, range |-> nodes[i].range] : i \in 1 .. Len(nodes)}
    BY DEF TreeInv, LocksOf, Lock
  <2> QED BY <2>2, <2>3
<1> QED BY <1>1, TreeInvariant, PTL
=============================================================================
