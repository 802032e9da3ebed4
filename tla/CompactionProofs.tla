-------------------------- MODULE CompactionProofs --------------------------
(***************************************************************************)
(* Proofs about Compaction, for any keys, memtables, trigger and bounds.   *)
(***************************************************************************)
EXTENDS Compaction, FiniteSetTheorems, SequenceTheorems, WellFoundedInduction, TLAPS

Tables   == [Keys -> Nat]
Contents == [is : {"partial", "whole", "garbage"}, table : Tables]
Handles  == [id : Ids, inode : Nat, content : Contents, built : Contents]

\* Lines of the manifest.  What has been written over is the front of a line.
TableLine(kind) == [kind : {kind}, level : 0 .. 1, id : Ids]
Written == TableLine("SST") \cup TableLine("DEL") \cup [kind : {"WAL"}, level : {0}, id : Nat]
ManifestLine == [line : Written, lost : Nat]

\* The thread has picked its inputs; it has opened them; its output is created.
Working  == cpc \in {"load", "inputs", "output", "merge", "delete", "unlink"}
Opened   == cpc \in {"output", "merge", "delete", "unlink"}
Building == cpc \in {"merge", "delete", "unlink"}

\* The types of the state.
FilesOK ==
    /\ manifest \in Seq(ManifestLine)
    /\ dir \in [Ids -> Nat] /\ disk \in Seq(Contents)
    /\ \A x \in Ids : dir[x] <= Len(disk)

LsmOK ==
    /\ status \in {"up", "closing", "down", "failed"}
    /\ cursor \in Int /\ -1 <= cursor /\ cursor <= Len(manifest)
    /\ fpc \in {"idle", "create", "finish", "list", "open"}
    /\ flushing \in [id : 0 .. MaxId, inode : Nat, table : Tables]
    /\ imms \in Seq(Tables) /\ levels \in [0 .. 1 -> Seq(Handles)]
    /\ next_sst_id \in Nat /\ next_wal_id \in Nat

\* The steps of the compaction thread.
Steps == {"wait", "woken", "pick", "load", "inputs", "output", "merge", "delete", "unlink",
          "exited", "panicked"}

ThreadOK ==
    /\ cpc \in Steps
    /\ own \in [listed : [0 .. 1 -> SUBSET Ids], next : Nat]
    /\ inputs \in Seq(IF Opened THEN Handles ELSE [id : Ids])
    /\ output \in [id : 0 .. MaxId, inode : Nat]
    /\ done \in Nat

HistoryOK ==
    /\ newest \in Tables /\ listed \in SUBSET Keys
    /\ reused \in BOOLEAN /\ orphaned \in BOOLEAN
    /\ flushes \in 0 .. MaxFlushes /\ crashes \in Nat

TypeOK == FilesOK /\ LsmOK /\ ThreadOK /\ HistoryOK

\* Where the two threads can be together, and what they hold there.
Placed ==
    /\ status \in {"down", "failed"} => fpc = "idle" /\ cpc = "wait" /\ cursor = -1
    /\ fpc # "idle" => status = "up" /\ imms # <<>>
    /\ fpc \in {"idle", "create"} <=> flushing.id = 0
    /\ flushing.inode <= Len(disk) /\ output.inode <= Len(disk)
    /\ fpc \in {"finish", "list", "open"} => flushing.inode # 0
    /\ Building <=> output.id # 0
    /\ Building => output.inode # 0
    /\ cpc \notin {"delete", "unlink"} => done = 0
    /\ Working => inputs # <<>>
    /\ done <= Len(inputs) /\ (cpc = "unlink" => done < Len(inputs))

TypeInv == TypeOK /\ Placed /\ garbled \in BOOLEAN

-----------------------------------------------------------------------------
(***************************************************************************)
(* Lists of ids in the order of their lines.                               *)
(***************************************************************************)

\* The place with a number, if there is one such place.
LEMMA NthIs ==
    ASSUME NEW S, NEW n, NEW p \in S, \A q \in S : Cardinality(Below(S, q)) = n - 1 <=> q = p
    PROVE  Nth(S, n) = p
<1> DEFINE R(q) == Cardinality(Below(S, q)) = n - 1
<1>1. Nth(S, n) = CHOOSE q \in S : R(q)
  BY DEF Nth
<1> HIDE DEF R
<1>2. \A q \in S : R(q) <=> q = p
  BY DEF R
<1>3. (CHOOSE q \in S : R(q)) = p
  BY <1>2
<1> QED BY <1>1, <1>3

\* A place has as many places before it as its number says, and every number is
\* that of a place.
LEMMA Numbering ==
    ASSUME NEW S \in SUBSET Nat, IsFiniteSet(S)
    PROVE  /\ Cardinality(S) \in Nat
           /\ \A p \in S : \E n \in 1 .. Cardinality(S) : Nth(S, n) = p
           /\ \A n \in 1 .. Cardinality(S) : Nth(S, n) \in S
<1> DEFINE rank == [p \in S |-> Cardinality(Below(S, p)) + 1]
<1>0. \A p \in S : rank[p] = Cardinality(Below(S, p)) + 1 /\ p \in Nat
  OBVIOUS
<1>9. (\A p \in S : rank[p] \in 1 .. Cardinality(S)) => rank \in [S -> 1 .. Cardinality(S)]
  OBVIOUS
<1> HIDE DEF rank
<1>1. Cardinality(S) \in Nat
  BY FS_CardinalityType
<1>2. ASSUME NEW p \in S
      PROVE  /\ Cardinality(Below(S, p)) \in Nat
             /\ Cardinality(Below(S, p)) + 1 <= Cardinality(S)
             /\ \A q \in S : p < q => Cardinality(Below(S, p)) + 1 <= Cardinality(Below(S, q))
  <2>1. Below(S, p) \in SUBSET S /\ p \notin Below(S, p) /\ Below(S, p) \cup {p} \in SUBSET S
    BY DEF Below
  <2>2. IsFiniteSet(Below(S, p)) /\ Cardinality(Below(S, p)) \in Nat
    BY <2>1, FS_Subset, FS_CardinalityType
  <2>3. /\ IsFiniteSet(Below(S, p) \cup {p})
        /\ Cardinality(Below(S, p) \cup {p}) = Cardinality(Below(S, p)) + 1
    BY <2>1, <2>2, FS_AddElement
  <2>4. Cardinality(Below(S, p) \cup {p}) <= Cardinality(S)
    BY <2>1, FS_Subset
  <2>5. ASSUME NEW q \in S, p < q
        PROVE  Cardinality(Below(S, p) \cup {p}) <= Cardinality(Below(S, q))
    <3>1. Below(S, p) \cup {p} \in SUBSET Below(S, q)
      <4>1. p \in Nat /\ q \in Nat /\ \A x \in S : x \in Nat
        OBVIOUS
      <4>2. \A x \in Below(S, p) \cup {p} : x \in Below(S, q)
        BY <2>5, <4>1 DEF Below
      <4> QED BY <4>2
    <3>2. IsFiniteSet(Below(S, q))
      <4>1. Below(S, q) \in SUBSET S
        BY DEF Below
      <4> QED BY <4>1, FS_Subset
    <3> QED BY <3>1, <3>2, FS_Subset
  <2> QED BY <2>2, <2>3, <2>4, <2>5
<1>3. ASSUME NEW p \in S, NEW q \in S, p < q PROVE rank[p] < rank[q]
  BY <1>0, <1>2, <1>3
<1>4. ASSUME NEW p \in S, NEW q \in S, rank[p] = rank[q] PROVE p = q
  <2>1. p \in Nat /\ q \in Nat /\ rank[p] \in Nat /\ rank[q] \in Nat
    BY <1>0, <1>2
  <2>2. ~(p < q) /\ ~(q < p)
    BY <1>3, <1>4, <2>1
  <2> QED BY <2>1, <2>2
<1>5. rank \in [S -> 1 .. Cardinality(S)]
  <2>1. \A p \in S : rank[p] \in 1 .. Cardinality(S)
    BY <1>0, <1>1, <1>2
  <2> QED BY <1>9, <2>1
<1>6. rank \in Surjection(S, 1 .. Cardinality(S))
  <2>1. rank \in Injection(S, 1 .. Cardinality(S))
    BY <1>4, <1>5 DEF Injection, IsInjective
  <2>2. IsFiniteSet(1 .. Cardinality(S)) /\ Cardinality(1 .. Cardinality(S)) = Cardinality(S)
    <3>1. /\ IsFiniteSet(1 .. Cardinality(S))
          /\ Cardinality(1 .. Cardinality(S)) =
                IF 1 > Cardinality(S) THEN 0 ELSE Cardinality(S) - 1 + 1
      BY <1>1, FS_Interval
    <3> QED BY <1>1, <3>1
  <2> QED BY <2>1, <2>2, FS_Injection
<1>7. ASSUME NEW p \in S PROVE Nth(S, rank[p]) = p
  <2> DEFINE n == rank[p]
  <2>1. n \in Nat
    BY <1>5
  <2>2. ASSUME NEW q \in S PROVE Cardinality(Below(S, q)) = n - 1 <=> q = p
    <3>1. Cardinality(Below(S, q)) = n - 1 <=> rank[q] = n
      BY <1>0, <1>2, <2>1
    <3> QED BY <1>4, <3>1
  <2> HIDE DEF n
  <2>3. Nth(S, n) = p
    BY <2>2, NthIs
  <2> QED BY <2>3 DEF n
<1>8. ASSUME NEW n \in 1 .. Cardinality(S) PROVE \E p \in S : rank[p] = n
  BY <1>6 DEF Surjection
<1> QED BY <1>1, <1>5, <1>7, <1>8

\* Places in the manifest.
LEMMA PlacesInManifest ==
    ASSUME TypeOK, NEW S \in SUBSET DOMAIN manifest
    PROVE  S \in SUBSET Nat /\ IsFiniteSet(S)
<1>1. DOMAIN manifest = 1 .. Len(manifest) /\ Len(manifest) \in Nat
  BY DEF TypeOK, FilesOK
<1>2. IsFiniteSet(DOMAIN manifest)
  BY <1>1, FS_Interval
<1> QED BY <1>1, <1>2, FS_Subset

\* The ids at some places, each of them.
LEMMA IdsAtPlaces ==
    ASSUME TypeOK, NEW S \in SUBSET DOMAIN manifest, NEW T, \A p \in S : IdAt(p) \in T
    PROVE  /\ IdsAt(S) \in Seq(T) /\ Len(IdsAt(S)) = Cardinality(S)
           /\ Cardinality(S) \in Nat
           /\ \A n \in 1 .. Len(IdsAt(S)) : \E p \in S : IdsAt(S)[n] = IdAt(p)
           /\ \A p \in S : \E n \in 1 .. Len(IdsAt(S)) : IdsAt(S)[n] = IdAt(p)
<1>1. S \in SUBSET Nat /\ IsFiniteSet(S)
  BY PlacesInManifest
<1>2. /\ Cardinality(S) \in Nat
      /\ \A p \in S : \E n \in 1 .. Cardinality(S) : Nth(S, n) = p
      /\ \A n \in 1 .. Cardinality(S) : Nth(S, n) \in S
  BY <1>1, Numbering
<1>3. IdsAt(S) \in Seq(T) /\ Len(IdsAt(S)) = Cardinality(S)
  BY <1>2 DEF IdsAt
<1>4. \A n \in 1 .. Cardinality(S) : IdsAt(S)[n] = IdAt(Nth(S, n))
  BY DEF IdsAt
<1> QED BY <1>2, <1>3, <1>4

-----------------------------------------------------------------------------
(***************************************************************************)
(* The types.                                                              *)
(***************************************************************************)

\* The three kinds of lines.
LEMMA LineTypes ==
    /\ \A l \in 0 .. 1 : \A x \in Ids : SstLine(l, x) \in Written /\ DelLine(l, x) \in Written
    /\ \A n \in Nat : WalLine(n) \in Written
    /\ \A ln \in Written : InFile(ln) \in ManifestLine /\ Pairs(ln) \in {3, 4}
                           /\ (ln.kind # "WAL" => Pairs(ln) = 4 /\ ln.id \in Ids)
BY DEF SstLine, DelLine, WalLine, Written, TableLine, InFile, ManifestLine, Pairs

\* What is left behind the lines that were written over.
LEMMA SkipType ==
    ASSUME NEW rest \in Seq(ManifestLine), NEW n \in Nat
    PROVE  Skip(n, rest) \in Seq(ManifestLine)
<1> DEFINE left      == Pairs(Head(rest).line) - Head(rest).lost
           cut(r, k) == <<[Head(r) EXCEPT !.lost = @ + k]>> \o Tail(r)
<1>1. ASSUME NEW r \in Seq(ManifestLine), r # <<>>, NEW k \in Nat
      PROVE  cut(r, k) \in Seq(ManifestLine)
  <2>1. Head(r) \in ManifestLine /\ Tail(r) \in Seq(ManifestLine)
    BY <1>1, HeadTailProperties
  <2>2. [Head(r) EXCEPT !.lost = @ + k] \in ManifestLine
    <3>1. Head(r).lost \in Nat /\ Head(r).lost + k \in Nat
      BY <2>1 DEF ManifestLine
    <3> QED BY <2>1, <3>1 DEF ManifestLine
  <2>3. <<[Head(r) EXCEPT !.lost = @ + k]>> \in Seq(ManifestLine)
    BY <2>2
  <2> QED BY <2>1, <2>3, ConcatProperties
<1>2. CASE rest = <<>>
  BY <1>2 DEF Skip
<1>3. CASE rest # <<>>
  <2>1. Head(rest) \in ManifestLine /\ Tail(rest) \in Seq(ManifestLine)
    BY <1>3, HeadTailProperties
  <2>2. left \in Int
    <3>1. Head(rest).line \in Written /\ Head(rest).lost \in Nat
      BY <2>1 DEF ManifestLine
    <3>2. Pairs(Head(rest).line) \in {3, 4}
      BY <3>1, LineTypes
    <3> QED BY <3>1, <3>2
  <2>3. Skip(n, rest) = IF n < left THEN cut(rest, n)
                        ELSE IF n = left \/ Tail(rest) = <<>> THEN Tail(rest)
                        ELSE cut(Tail(rest), n - left)
    BY <1>3 DEF Skip
  <2> HIDE DEF left, cut
  <2>4. CASE n < left
    BY <1>1, <1>3, <2>3, <2>4
  <2>5. CASE ~(n < left) /\ (n = left \/ Tail(rest) = <<>>)
    BY <2>1, <2>3, <2>5
  <2>6. CASE ~(n < left) /\ ~(n = left \/ Tail(rest) = <<>>)
    <3>1. n - left \in Nat
      BY <2>2, <2>6
    <3> QED BY <1>1, <2>1, <2>3, <2>6, <3>1
  <2> QED BY <2>4, <2>5, <2>6
<1> QED BY <1>2, <1>3

\* A line of the Lsm.
LEMMA WriteType ==
    ASSUME TypeOK, NEW ln \in Written, LsmWrites(ln)
    PROVE  /\ manifest' \in Seq(ManifestLine)
           /\ cursor' \in Int /\ -1 <= cursor' /\ cursor' <= Len(manifest')
           /\ (cursor = -1 => cursor' = -1)
<1>1. InFile(ln) \in ManifestLine /\ Pairs(ln) \in Nat
  BY LineTypes
<1>2. CASE cursor = -1
  <2>1. manifest' = Append(manifest, InFile(ln)) /\ cursor' = cursor
    BY <1>2 DEF LsmWrites, AtTheEnd
  <2> QED BY <1>1, <1>2, <2>1 DEF TypeOK, FilesOK, LsmOK
<1>3. CASE cursor # -1
  <2> DEFINE front == SubSeq(manifest, 1, cursor)
             rest  == SubSeq(manifest, cursor + 1, Len(manifest))
             tail  == Skip(Pairs(ln), rest)
  <2>1. /\ manifest' = front \o <<InFile(ln)>> \o tail /\ cursor' = cursor + 1
    BY <1>3 DEF LsmWrites
  <2>2. cursor \in 0 .. Len(manifest) /\ Len(manifest) \in Nat
    BY <1>3 DEF TypeOK, FilesOK, LsmOK
  <2>3. front \in Seq(ManifestLine) /\ Len(front) = cursor
    BY <2>2, SubSeqProperties DEF TypeOK, FilesOK, LsmOK
  <2>4. rest \in Seq(ManifestLine)
    BY <2>2, SubSeqProperties DEF TypeOK, FilesOK, LsmOK
  <2>5. tail \in Seq(ManifestLine)
    BY <1>1, <2>4, SkipType
  <2>6. <<InFile(ln)>> \in Seq(ManifestLine) /\ Len(<<InFile(ln)>>) = 1
    BY <1>1
  <2> HIDE DEF front, tail
  <2>7. /\ front \o <<InFile(ln)>> \in Seq(ManifestLine)
        /\ Len(front \o <<InFile(ln)>>) = cursor + 1
    BY <2>2, <2>3, <2>6, ConcatProperties
  <2>8. /\ manifest' \in Seq(ManifestLine)
        /\ Len(manifest') = cursor + 1 + Len(tail) /\ Len(tail) \in Nat
    <3> DEFINE both == front \o <<InFile(ln)>>
    <3>1. manifest' = both \o tail /\ both \in Seq(ManifestLine) /\ Len(both) = cursor + 1
      BY <2>1, <2>7
    <3> HIDE DEF both
    <3>2. both \in Seq(ManifestLine) /\ tail \in Seq(ManifestLine)
      BY <2>5, <3>1
    <3>3. both \o tail \in Seq(ManifestLine) /\ Len(both \o tail) = Len(both) + Len(tail)
      BY <3>2, ConcatProperties
    <3>4. Len(tail) \in Nat
      BY <3>2
    <3> QED BY <3>1, <3>3, <3>4
  <2> QED BY <1>3, <2>1, <2>2, <2>8
<1> QED BY <1>2, <1>3

\* A set of naturals with an element has a least one.
LEMMA LeastExists ==
    ASSUME NEW S \in SUBSET Nat, S # {}
    PROVE  \E s \in S : \A r \in S : s <= r
<1> DEFINE less == {ss \in Nat \X Nat : ss[1] < ss[2]}
<1>1. IsWellFoundedOn(less, Nat)
  BY NatLessThanWellFounded DEF OpToRel
<1>2. \E s \in S : \A r \in S : <<r, s>> \notin less
  <2> HIDE DEF less
  <2> QED BY <1>1, WFMin
<1>3. \A r, s \in S : <<r, s>> \notin less => s <= r
  OBVIOUS
<1> HIDE DEF less
<1> QED BY <1>2, <1>3

\* A set of naturals that is bounded has a greatest element.
LEMMA MaxExists ==
    ASSUME NEW S \in SUBSET Nat, S # {}, NEW b \in Nat, \A x \in S : x <= b
    PROVE  Max(S) \in S /\ \A x \in S : x <= Max(S)
<1> DEFINE B == {c \in Nat : \A x \in S : x <= c}
<1>1. PICK c \in B : \A d \in B : c <= d
  BY LeastExists
<1>2. c \in S
  <2> SUFFICES ASSUME c \notin S PROVE FALSE
    OBVIOUS
  <2>1. PICK x \in S : x \in Nat
    OBVIOUS
  <2>2. x <= c /\ x # c /\ c \in Nat
    OBVIOUS
  <2>3. c - 1 \in Nat
    BY <2>1, <2>2
  <2>4. ASSUME NEW y \in S PROVE y <= c - 1
    <3>1. y \in Nat /\ y <= c /\ y # c
      OBVIOUS
    <3> QED BY <2>2, <3>1
  <2>5. c - 1 \in B
    BY <2>3, <2>4
  <2>6. c <= c - 1
    BY <1>1, <2>5
  <2> QED BY <2>2, <2>6
<1>3. \A x \in S : x <= c
  OBVIOUS
<1> HIDE DEF B
<1>4. \E m \in S : \A x \in S : m >= x
  BY <1>2, <1>3
<1>5. Max(S) \in S /\ \A x \in S : Max(S) >= x
  BY <1>4 DEF Max
<1> QED BY <1>5

\* The lines of a manifest.
LEMMA LinesOf ==
    ASSUME NEW m \in Seq(ManifestLine)
    PROVE  /\ Len(m) \in Nat /\ DOMAIN m = 1 .. Len(m)
           /\ \A p \in 1 .. Len(m) : /\ m[p] \in ManifestLine /\ m[p].line \in Written
                                     /\ m[p].lost \in Nat /\ m[p].line.id \in Nat
<1>1. \A ln \in Written : ln.id \in Nat
  BY CompactionAssumption DEF Written, TableLine, Ids
<1>2. Len(m) \in Nat /\ DOMAIN m = 1 .. Len(m) /\ \A p \in 1 .. Len(m) : m[p] \in ManifestLine
  OBVIOUS
<1>3. \A e \in ManifestLine : e.line \in Written /\ e.lost \in Nat
  BY DEF ManifestLine
<1> QED BY <1>1, <1>2, <1>3

\* The numbers in a manifest are bounded.
LEMMA IdsBounded ==
    ASSUME TypeOK
    PROVE  \E b \in Nat : \A p \in DOMAIN manifest : IdAt(p) \in Nat /\ IdAt(p) <= b
<1> DEFINE Bounds(b, n) == \A p \in 1 .. n : IdAt(p) <= b
           F == {n \in 0 .. Len(manifest) : \A b \in Nat : ~Bounds(b, n)}
<1>1. /\ Len(manifest) \in Nat /\ DOMAIN manifest = 1 .. Len(manifest)
      /\ \A p \in 1 .. Len(manifest) : IdAt(p) \in Nat
  <2>1. manifest \in Seq(ManifestLine)
    BY DEF TypeOK, FilesOK
  <2> QED BY <2>1, LinesOf DEF IdAt
<1>2. F = {}
  <2> SUFFICES ASSUME F # {} PROVE FALSE
    OBVIOUS
  <2>1. F \in SUBSET Nat
    BY <1>1
  <2>2. PICK n \in F : \A m \in F : n <= m
    <3> HIDE DEF F
    <3> QED BY <2>1, LeastExists
  <2>3. n \in Nat /\ n <= Len(manifest)
    BY <1>1
  <2>9. \A b \in Nat : ~Bounds(b, n)
    OBVIOUS
  <2>4. n # 0
    <3>1. Bounds(0, 0)
      OBVIOUS
    <3> HIDE DEF Bounds
    <3> QED BY <2>9, <3>1
  <2>5. n - 1 \in 0 .. Len(manifest) /\ n - 1 \notin F
    <3> HIDE DEF F
    <3> QED BY <1>1, <2>2, <2>3, <2>4
  <2>6. PICK b \in Nat : Bounds(b, n - 1)
    BY <2>5
  <2>7. IdAt(n) \in Nat /\ b + IdAt(n) \in Nat
    <3>1. n \in 1 .. Len(manifest)
      BY <1>1, <2>3, <2>4
    <3> HIDE DEF F, Bounds
    <3> QED BY <1>1, <3>1
  <2>8. Bounds(b + IdAt(n), n)
    <3> SUFFICES ASSUME NEW p \in 1 .. n PROVE IdAt(p) <= b + IdAt(n)
      OBVIOUS
    <3>1. CASE p = n
      BY <2>7, <3>1
    <3>2. CASE p # n
      <4>1. p \in 1 .. n - 1 /\ p \in 1 .. Len(manifest)
        BY <1>1, <2>3, <3>2
      <4>2. IdAt(p) <= b /\ IdAt(p) \in Nat
        BY <1>1, <2>6, <4>1
      <4> HIDE DEF F, Bounds
      <4> QED BY <2>7, <4>2
    <3> QED BY <3>1, <3>2
  <2> QED BY <2>7, <2>8, <2>9
<1>3. Len(manifest) \notin F
  <2> HIDE DEF F
  <2> QED BY <1>2
<1>4. \E b \in Nat : Bounds(b, Len(manifest))
  BY <1>1, <1>3
<1> QED BY <1>1, <1>4

\* The next id is one more than the greatest of the complete lines.
LEMMA NextIdIs ==
    ASSUME TypeOK, NEW kind
    PROVE  LET I == {IdAt(p) : p \in {q \in DOMAIN manifest :
                                manifest[q].lost = 0 /\ manifest[q].line.kind = kind}}
           IN  /\ NextId(kind) \in Nat \ {0}
               /\ NextId(kind) - 1 \in {0} \cup I
               /\ \A x \in I : x < NextId(kind)
<1> DEFINE I == {IdAt(p) : p \in {q \in DOMAIN manifest :
                          manifest[q].lost = 0 /\ manifest[q].line.kind = kind}}
<1>1. PICK b \in Nat : \A p \in DOMAIN manifest : IdAt(p) \in Nat /\ IdAt(p) <= b
  BY IdsBounded
<1>2. \A x \in {0} \cup I : x \in Nat /\ x <= b
  BY <1>1
<1>3. NextId(kind) = Max({0} \cup I) + 1
  BY DEF NextId
<1> HIDE DEF I
<1>4. Max({0} \cup I) \in {0} \cup I /\ \A x \in {0} \cup I : x <= Max({0} \cup I)
  <2> DEFINE S == {0} \cup I
  <2>1. S \in SUBSET Nat /\ S # {} /\ \A x \in S : x <= b
    BY <1>2
  <2> HIDE DEF S
  <2>2. Max(S) \in S /\ \A x \in S : x <= Max(S)
    BY <2>1, MaxExists
  <2> QED BY <2>2 DEF S
<1>5. NextId(kind) \in Nat \ {0} /\ NextId(kind) - 1 \in {0} \cup I
      /\ \A x \in I : x < NextId(kind)
  <2> DEFINE m == Max({0} \cup I)
  <2>1. m \in Nat /\ m \in {0} \cup I /\ NextId(kind) = m + 1
        /\ \A x \in I : x \in Nat /\ x <= m
    BY <1>2, <1>3, <1>4
  <2> HIDE DEF m
  <2> QED BY <2>1
<1> QED BY <1>5 DEF I

\* A listed table has a line of its own.
LEMMA ListedLines ==
    ASSUME TypeOK, NEW l \in 0 .. 1
    PROVE  /\ Listed(l) \in SUBSET DOMAIN manifest
           /\ \A p \in Listed(l) : /\ IdAt(p) \in Ids
                                   /\ manifest[p].line = SstLine(l, IdAt(p))
                                   /\ manifest[p].lost = 0
<1>1. Listed(l) \in SUBSET DOMAIN manifest
  BY DEF Listed
<1>2. manifest \in Seq(ManifestLine)
  BY DEF TypeOK, FilesOK
<1> SUFFICES ASSUME NEW p \in Listed(l)
             PROVE  /\ IdAt(p) \in Ids /\ manifest[p].line = SstLine(l, IdAt(p))
                    /\ manifest[p].lost = 0
  BY <1>1
<1>3. manifest[p] = InFile(SstLine(l, IdAt(p)))
  BY DEF Listed, Complete
<1>4. manifest[p].line \in Written
  BY <1>1, <1>2, LinesOf
<1>5. manifest[p].line = SstLine(l, IdAt(p)) /\ manifest[p].lost = 0
  BY <1>3 DEF InFile
<1>6. IdAt(p) \in Ids
  <2>1. manifest[p].line.kind = "SST"
    BY <1>5 DEF SstLine
  <2> QED BY <1>4, <2>1, LineTypes DEF IdAt
<1> QED BY <1>5, <1>6

\* The ids listed for a level, in order.
LEMMA ListedType ==
    ASSUME TypeOK, NEW l \in 0 .. 1, NEW S \in SUBSET Listed(l)
    PROVE  IdsAt(S) \in Seq(Ids) /\ Len(IdsAt(S)) = Cardinality(S) /\ Cardinality(S) \in Nat
BY ListedLines, IdsAtPlaces

\* What the functions on files do to the types.
LEMMA CreateType ==
    ASSUME TypeOK, NEW x \in Ids, Create(x)
    PROVE  /\ dir' \in [Ids -> Nat] /\ disk' \in Seq(Contents)
           /\ Len(disk) <= Len(disk') /\ Len(disk) \in Nat /\ Len(disk') \in Nat
           /\ \A y \in Ids : dir'[y] <= Len(disk') /\ dir'[y] \in Nat
           /\ InodeOf(x) \in 1 .. Len(disk') /\ dir'[x] = InodeOf(x)
           /\ disk'[InodeOf(x)] = Partial
           /\ \A y \in Ids \ {x} : dir'[y] = dir[y]
           /\ dir[x] # 0 => dir' = dir
           /\ \A i \in 1 .. Len(disk) : i # InodeOf(x) => disk'[i] = disk[i]
           /\ dir[x] = 0 => InodeOf(x) = Len(disk) + 1
<1>1. /\ dir \in [Ids -> Nat] /\ disk \in Seq(Contents) /\ \A y \in Ids : dir[y] <= Len(disk)
      /\ Len(disk) \in Nat
  BY DEF TypeOK, FilesOK
<1>2. Partial \in Contents
  BY DEF Partial, Content, Contents, Tables, NoTable
<1>3. CASE dir[x] # 0
  <2>1. dir[x] \in 1 .. Len(disk)
    BY <1>1, <1>3
  <2>2. disk' = [disk EXCEPT ![dir[x]] = Partial] /\ dir' = dir /\ InodeOf(x) = dir[x]
    BY <1>3 DEF Create, InodeOf
  <2>3. disk' \in Seq(Contents) /\ Len(disk') = Len(disk)
    BY <1>1, <1>2, <2>1, <2>2, ExceptSeq
  <2>4. \A i \in 1 .. Len(disk) : disk'[i] = IF i = dir[x] THEN Partial ELSE disk[i]
    BY <1>1, <2>2
  <2> QED BY <1>1, <1>3, <2>1, <2>2, <2>3, <2>4
<1>4. CASE dir[x] = 0
  <2>1. /\ disk' = Append(disk, Partial) /\ dir' = [dir EXCEPT ![x] = Len(disk) + 1]
        /\ InodeOf(x) = Len(disk) + 1
    BY <1>4 DEF Create, InodeOf
  <2>2. /\ disk' \in Seq(Contents) /\ Len(disk') = Len(disk) + 1
        /\ disk'[Len(disk) + 1] = Partial
        /\ \A i \in 1 .. Len(disk) : disk'[i] = disk[i]
    BY <1>1, <1>2, <2>1, AppendProperties
  <2>3. /\ dir' \in [Ids -> Nat] /\ dir'[x] = Len(disk) + 1
        /\ \A y \in Ids \ {x} : dir'[y] = dir[y]
    BY <1>1, <2>1
  <2> QED BY <1>1, <1>4, <2>1, <2>2, <2>3
<1> QED BY <1>3, <1>4

LEMMA FinishType ==
    ASSUME TypeOK, NEW i \in 1 .. Len(disk), NEW other, NEW table \in Tables,
           Finish(i, other, table)
    PROVE  /\ disk' \in Seq(Contents) /\ Len(disk') = Len(disk)
           /\ disk'[i] \in {Whole(table), Garbage}
           /\ disk[i] = Partial /\ i # other => disk'[i] = Whole(table)
           /\ \A j \in 1 .. Len(disk) : j # i => disk'[j] = disk[j]
<1>1. disk \in Seq(Contents)
  BY DEF TypeOK, FilesOK
<1>2. PICK c \in IF disk[i] = Partial /\ i # other
                 THEN {Whole(table)} ELSE {Whole(table), Garbage} :
          disk' = [disk EXCEPT ![i] = c]
  BY DEF Finish
<1>3. Whole(table) \in Contents /\ Garbage \in Contents
  BY DEF Whole, Garbage, Content, Contents, Tables, NoTable
<1>4. c \in Contents /\ c \in {Whole(table), Garbage}
      /\ (disk[i] = Partial /\ i # other => c = Whole(table))
  BY <1>2, <1>3
<1>5. disk' \in Seq(Contents) /\ Len(disk') = Len(disk)
  BY <1>1, <1>2, <1>4, ExceptSeq
<1>6. disk'[i] = c /\ \A j \in 1 .. Len(disk) : j # i => disk'[j] = disk[j]
  BY <1>1, <1>2
<1> QED BY <1>4, <1>5, <1>6

LEMMA HandleType ==
    ASSUME TypeOK, NEW x \in Ids, dir[x] # 0
    PROVE  /\ dir[x] \in 1 .. Len(disk) /\ disk[dir[x]] \in Contents
           /\ Reopened(x) \in Handles
           /\ Reopened(x) = [id |-> x, inode |-> dir[x], content |-> disk[dir[x]],
                             built |-> disk[dir[x]]]
           /\ \A table \in Tables : Handle(x, Whole(table)) \in Handles
<1>1. dir[x] \in 1 .. Len(disk) /\ disk \in Seq(Contents)
  BY DEF TypeOK, FilesOK
<1>2. disk[dir[x]] \in Contents
  BY <1>1
<1>3. \A table \in Tables : Whole(table) \in Contents
  BY DEF Whole, Content, Contents
<1> QED BY <1>1, <1>2, <1>3 DEF Handle, Reopened, Handles

\* Everything that a step leaves alone keeps its type.
LEMMA FilesStay == ASSUME FilesOK, UNCHANGED files PROVE FilesOK'
BY DEF FilesOK, files

LEMMA ThreadStays ==
    ASSUME ThreadOK, UNCHANGED <<own, inputs, output, done>>, cpc' \in Steps,
           Opened' <=> Opened
    PROVE  ThreadOK'
<1>1. (IF Opened THEN Handles ELSE [id : Ids])' = IF Opened THEN Handles ELSE [id : Ids]
  BY DEF Handles, Contents, Tables, Ids
<1> QED BY <1>1 DEF ThreadOK

\* What a flush announces.
LEMMA NotifyType ==
    ASSUME ThreadOK, Notify, UNCHANGED <<own, inputs, output, done>>
    PROVE  ThreadOK'
<1>1. cpc' \in Steps
  BY DEF Notify, ThreadOK, Steps
<1>2. Opened' <=> Opened
  BY DEF Notify, Opened
<1> QED BY <1>1, <1>2, ThreadStays

\* The process ends.
LEMMA DieType ==
    ASSUME TypeOK, Die
    PROVE  FilesOK' /\ LsmOK' /\ ThreadOK' /\ newest' \in Tables /\ UNCHANGED <<listed, reused, flushes>>
<1>1. FilesOK'
  BY DEF Die, TypeOK, FilesOK
<1>2. LsmOK'
  <2>1. Len(manifest') \in Nat
    BY LinesOf DEF Die, TypeOK, FilesOK
  <2>2. NoFlush \in [id : 0 .. MaxId, inode : Nat, table : Tables] /\ NoTable \in Tables
    BY CompactionAssumption DEF NoFlush, NoTable, Tables
  <2>3. <<>> \in Seq(Tables) /\ [l \in 0 .. 1 |-> <<>>] \in [0 .. 1 -> Seq(Handles)]
    OBVIOUS
  <2> QED BY <2>1, <2>2, <2>3 DEF Die, LsmOK
<1>3. ThreadOK'
  <2>1. NoOwn \in [listed : [0 .. 1 -> SUBSET Ids], next : Nat]
        /\ NoOutput \in [id : 0 .. MaxId, inode : Nat]
    BY CompactionAssumption DEF NoOwn, NoOutput
  <2>2. inputs' \in Seq((IF Opened THEN Handles ELSE [id : Ids])')
    BY DEF Die, Forget
  <2> QED BY <2>1, <2>2 DEF Die, Forget, ThreadOK, Steps
<1>4. newest' \in Tables /\ UNCHANGED <<listed, reused, flushes>>
  BY DEF Die, NoTable, Tables
<1> QED BY <1>1, <1>2, <1>3, <1>4

\* What a flush does keeps the types.
LEMMA FlushTypes ==
    ASSUME TypeOK, Placed,
           Rotate \/ CreateTable \/ FinishTable \/ ListTable \/ OpenTable \/ OpenTableFails
    PROVE  TypeOK'
<1> USE DEF TypeOK
<1>0. \A ln \in Written : LsmWrites(ln) /\ UNCHANGED <<dir, disk>> =>
          FilesOK' /\ cursor' \in Int /\ -1 <= cursor' /\ cursor' <= Len(manifest')
  BY WriteType DEF FilesOK
<1>1. CASE Rotate
  <2>1. WalLine(next_wal_id) \in Written /\ LsmWrites(WalLine(next_wal_id))
        /\ UNCHANGED <<dir, disk>>
    BY <1>1, LineTypes DEF Rotate, LsmOK
  <2>2. flushes' \in 0 .. MaxFlushes /\ flushes + 1 \in Nat
    BY <1>1, CompactionAssumption DEF Rotate, HistoryOK
  <2>3. PICK ks \in FlushedKeys[flushes + 1] :
          /\ flushing' = [NoFlush EXCEPT !.table =
                             [k \in Keys |-> IF k \in ks THEN flushes + 1 ELSE 0]]
          /\ imms' = Append(imms, [k \in Keys |-> IF k \in ks THEN flushes + 1 ELSE 0])
          /\ newest' = [k \in Keys |-> IF k \in ks THEN flushes + 1 ELSE newest[k]]
    BY <1>1 DEF Rotate
  <2>4. [k \in Keys |-> IF k \in ks THEN flushes + 1 ELSE 0] \in Tables /\ newest' \in Tables
    BY <2>2, <2>3 DEF Tables, HistoryOK
  <2>5. flushing' \in [id : 0 .. MaxId, inode : Nat, table : Tables] /\ imms' \in Seq(Tables)
    <3>1. NoFlush = [id |-> 0, inode |-> 0, table |-> NoTable]
      BY DEF NoFlush
    <3>2. flushing' = [id |-> 0, inode |-> 0,
                       table |-> [k \in Keys |-> IF k \in ks THEN flushes + 1 ELSE 0]]
      BY <2>3, <3>1
    <3>3. imms \in Seq(Tables)
      BY DEF LsmOK
    <3>4. 0 \in 0 .. MaxId
      BY CompactionAssumption
    <3>5. imms' \in Seq(Tables)
      BY <2>3, <2>4, <3>3, AppendProperties
    <3> QED BY <2>4, <3>2, <3>4, <3>5
  <2>6. LsmOK'
    <3>1. cursor' \in Int /\ -1 <= cursor' /\ cursor' <= Len(manifest')
      BY <1>0, <2>1
    <3>2. /\ fpc' = "create" /\ next_wal_id' = next_wal_id + 1
          /\ UNCHANGED <<status, levels, next_sst_id>>
      BY <1>1 DEF Rotate
    <3>3. next_wal_id' \in Nat
      BY <3>2 DEF LsmOK
    <3>4. status' \in {"up", "closing", "down", "failed"}
      BY <3>2 DEF LsmOK
    <3>5. levels' \in [0 .. 1 -> Seq(Handles)] /\ next_sst_id' \in Nat
      BY <3>2 DEF LsmOK
    <3>6. fpc' \in {"idle", "create", "finish", "list", "open"}
      BY <3>2
    <3> QED BY <2>5, <3>1, <3>3, <3>4, <3>5, <3>6 DEF LsmOK
  <2>7. ThreadOK'
    BY <1>1, ThreadStays DEF Rotate, thread, ThreadOK, Opened
  <2>8. HistoryOK'
    BY <1>1, <2>2, <2>4 DEF Rotate, HistoryOK
  <2> QED BY <1>0, <2>1, <2>6, <2>7, <2>8
<1>2. CASE CreateTable
  <2>1. next_sst_id \in Ids /\ Create(next_sst_id)
    BY <1>2 DEF CreateTable
  <2>2. FilesOK'
    BY <1>2, <2>1, CreateType DEF CreateTable, FilesOK
  <2>3. InodeOf(next_sst_id) \in Nat
    BY <2>1, CreateType
  <2>4. flushing' \in [id : 0 .. MaxId, inode : Nat, table : Tables]
    <3>1. flushing \in [id : 0 .. MaxId, inode : Nat, table : Tables]
          /\ flushing' = [flushing EXCEPT !.id = next_sst_id, !.inode = InodeOf(next_sst_id)]
      BY <1>2 DEF CreateTable, LsmOK
    <3>2. flushing' = [id |-> next_sst_id, inode |-> InodeOf(next_sst_id),
                       table |-> flushing.table]
      BY <3>1
    <3>3. next_sst_id \in 0 .. MaxId /\ flushing.table \in Tables
      BY <2>1, <3>1 DEF Ids
    <3> QED BY <2>3, <3>2, <3>3
  <2>5. LsmOK'
    BY <1>2, <2>4 DEF CreateTable, LsmOK
  <2>6. ThreadOK'
    BY <1>2, ThreadStays DEF CreateTable, thread, ThreadOK, Opened
  <2>7. HistoryOK'
    BY <1>2 DEF CreateTable, HistoryOK
  <2> QED BY <2>2, <2>5, <2>6, <2>7
<1>3. CASE FinishTable
  <2>1. flushing.inode \in 1 .. Len(disk) /\ flushing.table \in Tables
    BY <1>3 DEF FinishTable, Placed, LsmOK, FilesOK
  <2>2. disk' \in Seq(Contents) /\ Len(disk') = Len(disk)
    BY <1>3, <2>1, FinishType DEF FinishTable
  <2>3. FilesOK'
    BY <1>3, <2>2 DEF FinishTable, FilesOK
  <2>4. LsmOK'
    BY <1>3 DEF FinishTable, LsmOK
  <2>5. ThreadOK'
    BY <1>3, ThreadStays DEF FinishTable, thread, ThreadOK, Opened
  <2>6. HistoryOK'
    BY <1>3 DEF FinishTable, HistoryOK, history
  <2> QED BY <2>3, <2>4, <2>5, <2>6
<1>4. CASE ListTable
  <2>1. flushing.id \in Ids
    BY <1>4 DEF ListTable, Placed, LsmOK, Ids
  <2>2. SstLine(0, flushing.id) \in Written /\ LsmWrites(SstLine(0, flushing.id))
        /\ UNCHANGED <<dir, disk>>
    BY <1>4, <2>1, LineTypes DEF ListTable
  <2>3. LsmOK'
    BY <1>0, <1>4, <2>2 DEF ListTable, LsmOK
  <2>4. ThreadOK'
    BY <1>4, ThreadStays DEF ListTable, thread, ThreadOK, Opened
  <2>5. HistoryOK'
    BY <1>4 DEF ListTable, HistoryOK
  <2> QED BY <1>0, <2>2, <2>3, <2>4, <2>5
<1>5. CASE OpenTable
  <2>1. flushing.id \in Ids /\ dir[flushing.id] # 0 /\ flushing.table \in Tables
    BY <1>5 DEF OpenTable, Placed, LsmOK, Ids, CanOpen
  <2>2. Handle(flushing.id, Whole(flushing.table)) \in Handles
    BY <2>1, HandleType
  <2>3. levels' \in [0 .. 1 -> Seq(Handles)]
    BY <1>5, <2>2 DEF OpenTable, LsmOK
  <2>4. imms' \in Seq(Tables)
    <3>1. imms \in Seq(Tables) /\ imms # <<>>
      BY <1>5 DEF OpenTable, Placed, LsmOK
    <3>2. Len(imms) - 1 \in 0 .. Len(imms)
      BY <3>1, EmptySeq
    <3>3. SubSeq(imms, 1, Len(imms) - 1) \in Seq(Tables)
      BY <3>1, <3>2, SubSeqProperties
    <3> QED BY <1>5, <3>3 DEF OpenTable, Front
  <2>5. LsmOK'
    <3>1. NoFlush \in [id : 0 .. MaxId, inode : Nat, table : Tables]
      BY CompactionAssumption DEF NoFlush, NoTable, Tables
    <3> QED BY <1>5, <2>3, <2>4, <3>1 DEF OpenTable, LsmOK, files
  <2>6. ThreadOK'
    BY <1>5, NotifyType DEF OpenTable
  <2>7. FilesOK' /\ HistoryOK'
    BY <1>5, FilesStay DEF OpenTable, HistoryOK, history
  <2> QED BY <2>5, <2>6, <2>7
<1>6. CASE OpenTableFails
  <2>1. LsmOK'
    <3>1. NoFlush \in [id : 0 .. MaxId, inode : Nat, table : Tables]
      BY CompactionAssumption DEF NoFlush, NoTable, Tables
    <3> QED BY <1>6, <3>1 DEF OpenTableFails, LsmOK, files
  <2>2. ThreadOK'
    BY <1>6, ThreadStays DEF OpenTableFails, thread, ThreadOK, Opened
  <2>3. FilesOK' /\ HistoryOK'
    BY <1>6, FilesStay DEF OpenTableFails, HistoryOK, history
  <2> QED BY <2>1, <2>2, <2>3
<1> QED BY <1>1, <1>2, <1>3, <1>4, <1>5, <1>6

\* What the compaction thread forgets.
LEMMA ForgetType ==
    ASSUME Forget, cpc' \in {"wait", "pick", "panicked"}
    PROVE  ThreadOK'
<1>1. NoOwn \in [listed : [0 .. 1 -> SUBSET Ids], next : Nat]
      /\ NoOutput \in [id : 0 .. MaxId, inode : Nat]
  BY CompactionAssumption DEF NoOwn, NoOutput
<1>2. inputs' \in Seq((IF Opened THEN Handles ELSE [id : Ids])')
  BY DEF Forget
<1> QED BY <1>1, <1>2 DEF Forget, ThreadOK, Steps

\* The thread dies of a line it cannot read or of a file with bytes of two tables.
Panics == LoadPanics \/ OpenInputsPanics

LEMMA PanicIs ==
    ASSUME Panics
    PROVE  /\ cpc \in {"pick", "load", "inputs"} /\ cpc' = "panicked"
           /\ status \in {"up", "closing"} /\ Forget
           /\ UNCHANGED <<files, lsm, work, history>>
<1>1. CASE LoadPanics
  BY <1>1 DEF LoadPanics, Thread
<1>2. CASE OpenInputsPanics
  BY <1>2 DEF OpenInputsPanics, Thread
<1> QED BY <1>1, <1>2 DEF Panics

\* Steps of the compaction thread before it builds a table.
LEMMA WakeTypes ==
    ASSUME TypeOK, NEW b, Wake(b)
    PROVE  TypeOK'
<1> USE DEF TypeOK
<1>1. cpc' \in {"exited", "wait", "pick"} /\ cpc \in {"wait", "woken"}
  BY DEF Wake
<1>2. ThreadOK'
  BY <1>1, ThreadStays DEF Wake, Opened, Steps
<1>3. FilesOK' /\ LsmOK' /\ HistoryOK'
  BY FilesStay DEF Wake, LsmOK, HistoryOK, lsm, files, history
<1> QED BY <1>2, <1>3

LEMMA CompactorTypes ==
    ASSUME TypeOK, Placed,
           \/ Pick \/ LoadAgain \/ OpenInputs \/ OpenInputsFails \/ Panics \/ CreateOutput
           \/ MergeInputs \/ MergeFails \/ RemoveSst \/ RemoveFile \/ AddSst
    PROVE  TypeOK'
<1> USE DEF TypeOK
<1>0. /\ UNCHANGED <<files, lsm, history>> => FilesOK' /\ LsmOK' /\ HistoryOK'
      /\ UNCHANGED <<manifest, lsm, listed, newest, orphaned, flushes, crashes>> /\ reused' \in BOOLEAN
            => LsmOK' /\ HistoryOK'
  BY FilesStay DEF LsmOK, HistoryOK, lsm, files, history
<1>1. CASE Pick
  <2>1. \A l \in 0 .. 1 : IdsAt(Listed(l)) \in Seq(Ids)
    BY ListedType
  <2> DEFINE ids == IdsAt(Listed(0)) \o IdsAt(Listed(1))
  <2>2. ids \in Seq(Ids)
    BY <2>1, ConcatProperties
  <2>3. /\ cpc' \in {"load", "wait"} /\ UNCHANGED <<own, output, done, files, lsm, history>>
        /\ inputs' = IF cpc' = "load" THEN [i \in DOMAIN ids |-> [id |-> ids[i]]] ELSE <<>>
    BY <1>1 DEF Pick, Thread
  <2> HIDE DEF ids
  <2>4. inputs' \in Seq([id : Ids])
    <3>1. DOMAIN ids = 1 .. Len(ids) /\ Len(ids) \in Nat /\ \A i \in DOMAIN ids : ids[i] \in Ids
      BY <2>2
    <3>2. [i \in DOMAIN ids |-> [id |-> ids[i]]] \in Seq([id : Ids])
      BY <3>1
    <3> QED BY <2>3, <3>2
  <2>5. ThreadOK'
    BY <2>3, <2>4 DEF ThreadOK, Opened, Steps
  <2> QED BY <1>0, <2>3, <2>5
<1>2. CASE LoadAgain
  <2>1. Load \in [listed : [0 .. 1 -> SUBSET Ids], next : Nat]
    <3>1. \A l \in 0 .. 1 : ListedIds(l) \in SUBSET Ids
      BY ListedLines DEF ListedIds
    <3>2. NextId("SST") \in Nat
      BY NextIdIs
    <3> QED BY <3>1, <3>2 DEF Load
  <2>2. ThreadOK'
    BY <1>2, <2>1 DEF LoadAgain, Thread, ThreadOK, Opened, Steps
  <2> QED BY <1>0, <1>2, <2>2 DEF LoadAgain
<1>3. CASE OpenInputs
  <2>1. cpc = "inputs" /\ cpc' = "output" /\ UNCHANGED <<files, lsm, own, output, done, history>>
        /\ inputs \in Seq([id : Ids])
    BY <1>3 DEF OpenInputs, Thread, ThreadOK, Opened
  <2>2. ASSUME NEW i \in DOMAIN inputs PROVE Reopened(inputs[i].id) \in Handles
    <3>1. inputs[i].id \in Ids /\ CanOpen(inputs[i].id)
      <4> DEFINE T == [id : Ids]
      <4>2. inputs \in Seq(T)
        BY <2>1
      <4>1. inputs[i] \in T
        <5> HIDE DEF T
        <5> QED BY <4>2
      <4> QED BY <1>3, <4>1 DEF OpenInputs
    <3> QED BY <3>1, HandleType DEF CanOpen
  <2>3. inputs' \in Seq(Handles)
    <3>1. inputs' = [i \in DOMAIN inputs |-> Reopened(inputs[i].id)]
      BY <1>3 DEF OpenInputs
    <3>2. DOMAIN inputs = 1 .. Len(inputs) /\ Len(inputs) \in Nat
      BY <2>1
    <3> QED BY <2>2, <3>1, <3>2
  <2>4. ThreadOK'
    BY <2>1, <2>3 DEF ThreadOK, Opened, Steps
  <2> QED BY <1>0, <2>1, <2>4
<1>4. CASE OpenInputsFails \/ MergeFails
  <2>1. ThreadOK'
    BY <1>4, ForgetType DEF OpenInputsFails, MergeFails, Thread
  <2> QED BY <1>0, <1>4, <2>1 DEF OpenInputsFails, MergeFails
<1>9. CASE Panics
  BY <1>0, <1>9, PanicIs, ForgetType
<1>5. CASE CreateOutput
  <2>1. own.next \in Ids /\ Create(own.next)
    BY <1>5 DEF CreateOutput
  <2>2. FilesOK'
    BY <1>5, <2>1, CreateType DEF CreateOutput, FilesOK
  <2>3. output' \in [id : 0 .. MaxId, inode : Nat]
    <3>1. InodeOf(own.next) \in Nat /\ own.next \in 0 .. MaxId
      BY <2>1, CreateType DEF Ids
    <3> QED BY <1>5, <3>1 DEF CreateOutput
  <2>4. reused' \in BOOLEAN
    BY <1>5 DEF CreateOutput, HistoryOK
  <2>5. ThreadOK'
    <3>1. inputs' \in Seq(Handles)
      BY <1>5 DEF CreateOutput, Thread, ThreadOK, Opened
    <3> QED BY <1>5, <2>3, <3>1 DEF CreateOutput, Thread, ThreadOK, Opened, Steps
  <2> QED BY <1>0, <1>5, <2>2, <2>4, <2>5 DEF CreateOutput
<1>6. CASE MergeInputs
  <2>1. cpc = "merge" /\ cpc' = "delete" /\ inputs \in Seq(Handles)
    BY <1>6 DEF MergeInputs, Thread, ThreadOK, Opened
  <2>2. Merged \in Tables
    <3> SUFFICES ASSUME NEW k \in Keys, {i \in DOMAIN inputs : Has(i, k)} # {}
                 PROVE  inputs[Min({i \in DOMAIN inputs : Has(i, k)})].content.table[k] \in Nat
      BY DEF Merged, Tables
    <3> DEFINE H == {i \in DOMAIN inputs : Has(i, k)}
    <3>1. H \in SUBSET Nat /\ H # {}
      BY <2>1
    <3>2. PICK m \in H : \A j \in H : m <= j
      BY <3>1, LeastExists
    <3> HIDE DEF H
    <3>3. Min(H) \in H
      BY <3>2 DEF Min
    <3>4. Min(H) \in DOMAIN inputs
      BY <3>3 DEF H
    <3>5. inputs[Min(H)] \in Handles
      BY <2>1, <3>4
    <3> QED BY <3>5 DEF H, Handles, Contents, Tables
  <2>3. output.inode \in 1 .. Len(disk)
    BY <2>1 DEF Placed, ThreadOK, Building, FilesOK
  <2>4. disk' \in Seq(Contents) /\ Len(disk') = Len(disk)
    BY <1>6, <2>2, <2>3, FinishType DEF MergeInputs
  <2>5. FilesOK'
    BY <1>6, <2>4 DEF MergeInputs, FilesOK
  <2>6. ThreadOK'
    BY <1>6, <2>1, ThreadStays DEF MergeInputs, Opened, Steps
  <2> QED BY <1>0, <1>6, <2>5, <2>6 DEF MergeInputs, history, HistoryOK, LsmOK, lsm
<1>7. CASE RemoveSst \/ AddSst
  <2>1. \E l \in 0 .. 1 : \E x \in Ids :
            AppendLine(SstLine(l, x)) \/ AppendLine(DelLine(l, x))
    <3>1. CASE RemoveSst
      <4>1. Input \in Ids
        <5>1. done + 1 \in DOMAIN inputs /\ inputs \in Seq(Handles)
          BY <3>1 DEF RemoveSst, Thread, ThreadOK, Opened
        <5>2. inputs[done + 1] \in Handles
          BY <5>1
        <5> QED BY <5>2 DEF Input, Handles
      <4> QED BY <3>1, <4>1 DEF RemoveSst
    <3>2. CASE AddSst
      <4>1. output.id \in Ids
        BY <3>2 DEF AddSst, Thread, Placed, Building, ThreadOK, Ids
      <4> QED BY <3>2, <4>1 DEF AddSst
    <3> QED BY <1>7, <3>1, <3>2
  <2>2. PICK ln \in Written : AppendLine(ln)
    BY <2>1, LineTypes
  <2>3. manifest' \in Seq(ManifestLine) /\ Len(manifest') = Len(manifest) + 1
        /\ Len(manifest) \in Nat
    <3>1. InFile(ln) \in ManifestLine
      BY LineTypes
    <3> QED BY <2>2, <3>1, AppendProperties DEF AppendLine, AtTheEnd, FilesOK
  <2>4. FilesOK' /\ LsmOK' /\ HistoryOK'
    <3>1. UNCHANGED <<dir, disk, lsm, history>>
      BY <1>7 DEF RemoveSst, AddSst
    <3>2. FilesOK'
      BY <2>3, <3>1 DEF FilesOK
    <3>3. LsmOK'
      <4>1. cursor <= Len(manifest) /\ cursor \in Int
        BY DEF LsmOK
      <4>2. cursor <= Len(manifest')
        BY <2>3, <4>1
      <4> QED BY <3>1, <4>2 DEF LsmOK, lsm
    <3>4. HistoryOK'
      BY <3>1 DEF HistoryOK, history
    <3> QED BY <3>2, <3>3, <3>4
  <2>5. ThreadOK'
    <3>1. CASE RemoveSst
      <4>1. own' \in [listed : [0 .. 1 -> SUBSET Ids], next : Nat]
        <5>1. PICK l \in 0 .. 1 : own' = [own EXCEPT !.listed[l] = @ \ {Input}]
          <6> DEFINE level == IF Input \in own.listed[0] THEN 0 ELSE 1
          <6>1. level \in 0 .. 1 /\ own' = [own EXCEPT !.listed[level] = @ \ {Input}]
            BY <3>1 DEF RemoveSst
          <6> HIDE DEF level
          <6> QED BY <6>1
        <5>2. own \in [listed : [0 .. 1 -> SUBSET Ids], next : Nat]
          BY DEF ThreadOK
        <5>3. own' = [listed |-> [own.listed EXCEPT ![l] = @ \ {Input}], next |-> own.next]
          BY <5>1, <5>2
        <5> QED BY <5>2, <5>3
      <4>2. inputs' \in Seq(Handles)
        BY <3>1 DEF RemoveSst, Thread, ThreadOK, Opened
      <4> QED BY <3>1, <4>1, <4>2 DEF RemoveSst, Thread, ThreadOK, Opened, Steps
    <3>2. CASE AddSst
      BY <3>2, ForgetType DEF AddSst, Thread
    <3> QED BY <1>7, <3>1, <3>2
  <2> QED BY <2>4, <2>5
<1>8. CASE RemoveFile
  <2>1. cpc = "unlink" /\ cpc' = "delete" /\ inputs \in Seq(Handles)
    BY <1>8 DEF RemoveFile, Thread, ThreadOK, Opened
  <2>2. FilesOK'
    <3>1. dir' = [dir EXCEPT ![Input] = 0] /\ UNCHANGED <<manifest, disk>> /\ Len(disk) \in Nat
      BY <1>8 DEF RemoveFile, FilesOK
    <3>2. dir' \in [Ids -> Nat] /\ \A x \in Ids : dir'[x] \in {0, dir[x]}
      BY <3>1 DEF FilesOK
    <3> QED BY <3>1, <3>2 DEF FilesOK
  <2>3. ThreadOK'
    BY <1>8, <2>1 DEF RemoveFile, ThreadOK, Opened, Steps
  <2> QED BY <1>0, <1>8, <2>2, <2>3 DEF RemoveFile, history, HistoryOK, LsmOK, lsm
<1> QED BY <1>1, <1>2, <1>3, <1>4, <1>5, <1>6, <1>7, <1>8, <1>9

LEMMA OtherTypes ==
    ASSUME TypeOK, Placed, Drop \/ Crash \/ Joined \/ Open \/ Stopped
    PROVE  TypeOK'
<1> USE DEF TypeOK
<1>1. CASE Drop
  <2>1. cpc' \in {"woken", cpc}
    BY <1>1 DEF Drop
  <2>2. ThreadOK'
    <3>1. cpc' \in Steps
      BY <2>1 DEF ThreadOK, Steps
    <3>2. Opened' <=> Opened
      BY <1>1 DEF Drop, Opened
    <3> QED BY <1>1, <3>1, <3>2, ThreadStays DEF Drop
  <2>3. FilesOK' /\ LsmOK' /\ HistoryOK'
    BY <1>1, FilesStay DEF Drop, LsmOK, HistoryOK, files
  <2> QED BY <2>2, <2>3
<1>2. CASE Crash \/ Joined
  <2>1. Die /\ crashes' \in Nat
    BY <1>2 DEF Crash, Joined, HistoryOK
  <2>2. orphaned' \in BOOLEAN
    <3>1. orphaned \in BOOLEAN
      BY DEF HistoryOK
    <3>2. CASE Crash
      <4>1. orphaned' = (orphaned \/ cpc = "unlink" \/ done > 0)
        BY <3>2 DEF Crash
      <4> QED BY <4>1
    <3>3. CASE Joined
      BY <3>1, <3>3 DEF Joined
    <3> QED BY <1>2, <3>2, <3>3
  <2> QED BY <2>1, <2>2, DieType DEF HistoryOK
<1>3. CASE Open
  <2>1. UNCHANGED <<files, cursor, fpc, flushing, imms, thread, history>>
        /\ status' \in {"up", "failed"}
    BY <1>3 DEF Open
  <2>2. FilesOK' /\ HistoryOK'
    BY <2>1, FilesStay DEF HistoryOK, history
  <2>3. ThreadOK'
    BY <2>1, ThreadStays DEF thread, ThreadOK, Opened
  <2>4. levels' \in [0 .. 1 -> Seq(Handles)] /\ next_sst_id' \in Nat /\ next_wal_id' \in Nat
    <3> DEFINE there(l) == {p \in Listed(l) : dir[IdAt(p)] # 0}
               up == /\ levels' = [l \in 0 .. 1 |-> LET ids == IdsAt(there(l))
                                    IN [i \in DOMAIN ids |-> Reopened(ids[i])]]
                     /\ next_sst_id' = NextId("SST") /\ next_wal_id' = NextId("WAL")
    <3>1. UNCHANGED <<levels, next_sst_id, next_wal_id>> \/ up
      BY <1>3 DEF Open
    <3>2. ASSUME NEW l \in 0 .. 1
          PROVE  LET ids == IdsAt(there(l)) IN [i \in DOMAIN ids |-> Reopened(ids[i])] \in Seq(Handles)
      <4> DEFINE T == there(l)
      <4>1. T \in SUBSET Listed(l)
        OBVIOUS
      <4>2. IdsAt(T) \in Seq(Ids)
        <5> HIDE DEF T
        <5> QED BY <4>1, ListedType
      <4>3. ASSUME NEW i \in 1 .. Len(IdsAt(T)) PROVE Reopened(IdsAt(T)[i]) \in Handles
        <5>1. PICK p \in T : IdsAt(T)[i] = IdAt(p)
          <6>1. T \in SUBSET DOMAIN manifest /\ \A p \in T : IdAt(p) \in Ids
            BY ListedLines
          <6> HIDE DEF T
          <6> QED BY <4>3, <6>1, IdsAtPlaces
        <5>2. IdAt(p) \in Ids /\ dir[IdAt(p)] # 0
          BY ListedLines
        <5> QED BY <5>1, <5>2, HandleType
      <4> DEFINE ids == IdsAt(T)
      <4>4. ids \in Seq(Ids) /\ \A i \in 1 .. Len(ids) : Reopened(ids[i]) \in Handles
        BY <4>2, <4>3
      <4> HIDE DEF ids
      <4>5. [i \in DOMAIN ids |-> Reopened(ids[i])] \in Seq(Handles)
        <5>1. DOMAIN ids = 1 .. Len(ids) /\ Len(ids) \in Nat
          BY <4>4
        <5> QED BY <4>4, <5>1
      <4> QED BY <4>5 DEF ids
    <3>3. up => levels' \in [0 .. 1 -> Seq(Handles)]
      BY <3>2
    <3>4. NextId("SST") \in Nat /\ NextId("WAL") \in Nat
      BY NextIdIs
    <3> QED BY <3>1, <3>3, <3>4 DEF LsmOK
  <2>5. LsmOK'
    BY <2>1, <2>4 DEF LsmOK, files
  <2> QED BY <2>2, <2>3, <2>5
<1>4. CASE Stopped
  <2>1. UNCHANGED <<files, lsm, thread, history>>
    BY <1>4 DEF Stopped, vars
  <2>2. ThreadOK'
    BY <2>1, ThreadStays DEF thread, ThreadOK, Opened
  <2> QED BY <2>1, <2>2, FilesStay DEF LsmOK, HistoryOK, lsm, history, files
<1> QED BY <1>1, <1>2, <1>3, <1>4

\* Where the threads are.
LEMMA PlacedStep ==
    ASSUME TypeOK, TypeOK', Placed, [Next]_vars
    PROVE  Placed'
<1> USE DEF Working, Building
<1>0. MaxId \in Nat \ {0} /\ Len(disk) \in Nat /\ Len(disk') \in Nat /\ Len(inputs) \in Nat
  <2>1. MaxId \in Nat \ {0}
    BY CompactionAssumption
  <2>2. Len(disk) \in Nat /\ Len(disk') \in Nat
    BY DEF TypeOK, FilesOK
  <2>3. Len(inputs) \in Nat
    BY DEF TypeOK, ThreadOK
  <2> QED BY <2>1, <2>2, <2>3
<1>1. ASSUME UNCHANGED vars PROVE Placed'
  BY <1>1 DEF Placed, vars, files, lsm, thread
<1>2. CASE Rotate
  <2>1. PICK ks \in FlushedKeys[flushes + 1] :
          /\ flushing' = [NoFlush EXCEPT !.table =
                             [k \in Keys |-> IF k \in ks THEN flushes + 1 ELSE 0]]
          /\ imms' = Append(imms, [k \in Keys |-> IF k \in ks THEN flushes + 1 ELSE 0])
    BY <1>2 DEF Rotate
  <2>2. flushing'.id = 0 /\ flushing'.inode = 0 /\ imms' # <<>>
    <3>1. imms \in Seq(Tables)
      BY DEF TypeOK, LsmOK
    <3> QED BY <2>1, <3>1 DEF NoFlush
  <2> QED BY <1>0, <1>2, <2>2 DEF Rotate, Placed, thread
<1>3. CASE CreateTable
  <2>1. /\ InodeOf(next_sst_id) \in 1 .. Len(disk') /\ Len(disk) <= Len(disk')
        /\ next_sst_id \in Ids
    BY <1>3, CreateType DEF CreateTable
  <2>2. flushing'.id = next_sst_id /\ flushing'.inode = InodeOf(next_sst_id)
    BY <1>3 DEF CreateTable, TypeOK, LsmOK
  <2>3. output.inode \in Nat
    BY DEF TypeOK, ThreadOK
  <2> QED BY <1>0, <1>3, <2>1, <2>2, <2>3 DEF CreateTable, Placed, thread, Ids
<1>4. CASE FinishTable
  <2>1. Len(disk') = Len(disk)
    <3>1. flushing.inode \in 1 .. Len(disk) /\ flushing.table \in Tables
      BY <1>4 DEF FinishTable, Placed, TypeOK, LsmOK, FilesOK
    <3> QED BY <1>4, <3>1, FinishType DEF FinishTable
  <2> QED BY <1>4, <2>1 DEF FinishTable, Placed, thread
<1>5. CASE ListTable
  BY <1>5 DEF ListTable, Placed, thread
<1>6. CASE OpenTable \/ OpenTableFails
  <2>1. flushing' = NoFlush /\ cpc' \in {cpc, "woken"} /\ (cpc' # cpc => cpc = "wait")
        /\ fpc' = "idle" /\ UNCHANGED <<files, status, cursor, own, inputs, output, done>>
    BY <1>6 DEF OpenTable, OpenTableFails, Notify, thread
  <2>2. NoFlush.id = 0 /\ NoFlush.inode = 0
    BY DEF NoFlush
  <2>3. fpc = "open"
    BY <1>6 DEF OpenTable, OpenTableFails
  <2> QED BY <1>0, <2>1, <2>2, <2>3 DEF Placed, files
<1>7. CASE Joined \/ Crash
  <2>1. Die
    BY <1>7 DEF Joined, Crash
  <2>2. /\ status' = "down" /\ cursor' = -1 /\ fpc' = "idle" /\ cpc' = "wait" /\ done' = 0
        /\ flushing'.id = 0 /\ flushing'.inode = 0 /\ output'.id = 0 /\ output'.inode = 0
        /\ Len(inputs') = 0
    BY <2>1 DEF Die, Forget, NoFlush, NoOutput
  <2> QED BY <1>0, <2>2 DEF Placed
<1>8. ASSUME NEW b \in BOOLEAN, Wake(b) PROVE Placed'
  BY <1>8 DEF Wake, Placed, files, lsm
<1>9. CASE Pick
  <2> DEFINE ids == IdsAt(Listed(0)) \o IdsAt(Listed(1))
  <2>1. /\ cpc = "pick" /\ cpc' = (IF Cardinality(Listed(0)) >= Trigger THEN "load" ELSE "wait")
        /\ status \in {"up", "closing"}
        /\ inputs' = IF cpc' = "load" THEN [i \in DOMAIN ids |-> [id |-> ids[i]]] ELSE <<>>
        /\ UNCHANGED <<files, lsm, work, own, output, done, history>>
    BY <1>9 DEF Pick, Thread
  <2>2. /\ IdsAt(Listed(0)) \in Seq(Ids) /\ IdsAt(Listed(1)) \in Seq(Ids)
        /\ Len(IdsAt(Listed(0))) = Cardinality(Listed(0)) /\ Cardinality(Listed(0)) \in Nat
    BY ListedType
  <2>3. cpc' = "load" => inputs' # <<>>
    <3> SUFFICES ASSUME cpc' = "load" PROVE inputs' # <<>>
      OBVIOUS
    <3>1. Cardinality(Listed(0)) >= Trigger /\ Trigger \in Nat \ {0}
      BY <2>1, CompactionAssumption
    <3>2. 1 \in DOMAIN ids
      <4>1. ids \in Seq(Ids) /\ Len(ids) = Len(IdsAt(Listed(0))) + Len(IdsAt(Listed(1)))
            /\ Len(IdsAt(Listed(1))) \in Nat
        BY <2>2, ConcatProperties
      <4> HIDE DEF ids
      <4> QED BY <2>2, <3>1, <4>1
    <3> HIDE DEF ids
    <3>3. 1 \in DOMAIN inputs'
      BY <2>1, <3>2
    <3> QED BY <3>3
  <2>4. Len(inputs') \in Nat
    BY DEF TypeOK, ThreadOK
  <2> HIDE DEF ids
  <2> QED BY <2>1, <2>3, <2>4 DEF Placed, files, lsm
<1>10. CASE LoadAgain
  BY <1>10 DEF LoadAgain, Thread, Placed, files, lsm
<1>11. CASE OpenInputs
  <2>1. inputs' # <<>> /\ Len(inputs') \in Nat
    <3>1. inputs # <<>> /\ inputs' = [i \in DOMAIN inputs |-> Reopened(inputs[i].id)]
      BY <1>11 DEF OpenInputs, Thread, Placed
    <3>2. 1 \in DOMAIN inputs
      BY <3>1, EmptySeq DEF TypeOK, ThreadOK
    <3>3. 1 \in DOMAIN inputs'
      BY <3>1, <3>2
    <3> QED BY <3>3 DEF TypeOK, ThreadOK
  <2> QED BY <1>11, <2>1 DEF OpenInputs, Thread, Placed, files, lsm
<1>12. CASE OpenInputsFails \/ Panics \/ MergeFails \/ AddSst
  <2>1. /\ cpc' \in {"wait", "panicked"} /\ Forget /\ status \in {"up", "closing"}
        /\ UNCHANGED <<dir, disk, lsm>>
    BY <1>12, PanicIs DEF OpenInputsFails, MergeFails, AddSst, Thread, files
  <2>2. done' = 0 /\ output'.id = 0 /\ output'.inode = 0 /\ Len(inputs') = 0
    BY <2>1 DEF Forget, NoOutput
  <2> QED BY <1>0, <2>1, <2>2 DEF Placed, lsm
<1>13. CASE CreateOutput
  <2>1. /\ InodeOf(own.next) \in 1 .. Len(disk') /\ Len(disk) <= Len(disk')
        /\ own.next \in Ids
    BY <1>13, CreateType DEF CreateOutput
  <2>2. output'.id = own.next /\ output'.inode = InodeOf(own.next)
    BY <1>13 DEF CreateOutput
  <2>3. flushing.inode \in Nat
    BY DEF TypeOK, LsmOK
  <2> QED BY <1>0, <1>13, <2>1, <2>2, <2>3 DEF CreateOutput, Thread, Placed, lsm, Ids
<1>14. CASE MergeInputs
  <2>1. Len(disk') = Len(disk)
    <3>1. output.inode \in 1 .. Len(disk)
      BY <1>14 DEF MergeInputs, Thread, Placed, TypeOK, ThreadOK, FilesOK
    <3>2. PICK c : disk' = [disk EXCEPT ![output.inode] = c]
      BY <1>14 DEF MergeInputs, Finish
    <3>3. DOMAIN disk' = DOMAIN disk
      BY <3>2
    <3> QED BY <3>3 DEF TypeOK, FilesOK
  <2> QED BY <1>14, <2>1 DEF MergeInputs, Thread, Placed, lsm
<1>15. CASE RemoveSst
  BY <1>15 DEF RemoveSst, Thread, Placed, lsm
<1>16. CASE RemoveFile
  <2>1. done \in Nat /\ done < Len(inputs)
    BY <1>16 DEF RemoveFile, Thread, Placed, TypeOK, ThreadOK
  <2> QED BY <1>0, <1>16, <2>1 DEF RemoveFile, Thread, Placed, lsm
<1>17. CASE Drop
  BY <1>17 DEF Drop, Placed, files
<1>18. CASE Open
  BY <1>18 DEF Open, Placed, files, thread
<1>19. CASE Stopped
  BY <1>1, <1>19 DEF Stopped
<1> QED
  BY <1>1, <1>2, <1>3, <1>4, <1>5, <1>6, <1>7, <1>8, <1>9, <1>10, <1>11, <1>12, <1>13, <1>14,
     <1>15, <1>16, <1>17, <1>18, <1>19 DEF Next, LsmStep, CompactorStep, Panics, TimeOut

\* A mark that only lines and crashes set.
LEMMA GarbledType ==
    ASSUME TypeInv, [Next]_vars
    PROVE  garbled' \in BOOLEAN
<1>1. garbled' \in {garbled, TRUE}
  <2>1. ASSUME NEW other, MayGarble(other) PROVE garbled' \in {garbled, TRUE}
    BY <2>1 DEF MayGarble
  <2>2. CASE Rotate \/ ListTable \/ RemoveSst \/ AddSst
    BY <2>1, <2>2 DEF Rotate, ListTable, RemoveSst, AddSst, LsmWrites, AppendLine
  <2>3. CASE CreateTable \/ FinishTable \/ OpenTable \/ OpenTableFails \/ Drop \/ Joined \/ Open
    BY <2>3 DEF CreateTable, FinishTable, OpenTable, OpenTableFails, Drop, Joined, Open, files
  <2>4. CASE Crash
    BY <2>4 DEF Crash
  <2>5. ASSUME NEW b, Wake(b) PROVE garbled' = garbled
    BY <2>5 DEF Wake, files
  <2>6. CASE \/ Pick \/ LoadAgain \/ Panics \/ OpenInputs \/ OpenInputsFails \/ CreateOutput
             \/ MergeInputs \/ MergeFails \/ RemoveFile
    BY <2>6, PanicIs DEF Pick, LoadAgain, OpenInputs, OpenInputsFails, CreateOutput, MergeInputs,
                         MergeFails, RemoveFile, files
  <2>7. CASE Stopped \/ UNCHANGED vars
    BY <2>7 DEF Stopped, vars, files
  <2> QED
    BY <2>2, <2>3, <2>4, <2>5, <2>6, <2>7 DEF Next, LsmStep, CompactorStep, Panics, TimeOut
<1> QED BY <1>1 DEF TypeInv

LEMMA TypeStep ==
    ASSUME TypeInv, [Next]_vars
    PROVE  TypeInv'
<1>1. ASSUME UNCHANGED vars PROVE TypeOK'
  <2>1. UNCHANGED <<files, lsm, thread, history>>
    BY <1>1 DEF vars
  <2>2. ThreadOK'
    BY <2>1, ThreadStays DEF thread, ThreadOK, Opened, TypeInv, TypeOK
  <2> QED BY <2>1, <2>2, FilesStay DEF TypeInv, TypeOK, LsmOK, HistoryOK, lsm, history, files
<1>2. TypeOK'
  BY <1>1, FlushTypes, CompactorTypes, WakeTypes, OtherTypes
     DEF TypeInv, Next, LsmStep, CompactorStep, Panics, TimeOut
<1> QED BY <1>2, PlacedStep, GarbledType DEF TypeInv

LEMMA TypeInit == Init => TypeInv
<1> SUFFICES ASSUME Init PROVE TypeInv
  OBVIOUS
<1>1. Len(manifest) = 0 /\ Len(disk) = 0 /\ Len(inputs) = 0
  BY DEF Init
<1>2. FilesOK
  BY <1>1 DEF Init, FilesOK
<1>3. LsmOK
  <2>1. flushing \in [id : 0 .. MaxId, inode : Nat, table : Tables]
    BY CompactionAssumption DEF Init, NoFlush, NoTable, Tables
  <2> QED BY <1>1, <2>1 DEF Init, LsmOK
<1>4. ThreadOK
  <2>1. own \in [listed : [0 .. 1 -> SUBSET Ids], next : Nat]
    BY DEF Init, NoOwn
  <2>2. output \in [id : 0 .. MaxId, inode : Nat]
    BY CompactionAssumption DEF Init, NoOutput
  <2> QED BY <2>1, <2>2 DEF Init, ThreadOK, Steps
<1>5. HistoryOK
  <2>1. MaxFlushes \in Nat
    BY CompactionAssumption
  <2>2. NoTable \in Tables
    BY DEF NoTable, Tables
  <2>3. FALSE \in BOOLEAN /\ 0 \in 0 .. MaxFlushes
    BY <2>1
  <2> QED BY <2>2, <2>3 DEF Init, HistoryOK
<1>6. Placed
  <2>1. flushing.id = 0 /\ flushing.inode = 0 /\ output.id = 0 /\ output.inode = 0
    BY DEF Init, NoFlush, NoOutput
  <2> QED BY <1>1, <2>1 DEF Init, Placed, Building, Working
<1>7. garbled \in BOOLEAN
  BY DEF Init
<1> QED BY <1>2, <1>3, <1>4, <1>5, <1>6, <1>7 DEF TypeInv, TypeOK

\* Every variable keeps its type, and the two threads are where the code can
\* take them: a flush runs on an open Lsm alone and the thread of a closed or
\* crashed Lsm is gone, the output of compact has its id and inode from the
\* moment it is created to the end of the round, and the inputs removed are no
\* more than there are.
THEOREM CompactionTypes == Spec => []TypeInv
<1> QED BY TypeInit, TypeStep, PTL DEF Spec

-----------------------------------------------------------------------------
(***************************************************************************)
(* Reads are fresh.                                                        *)
(***************************************************************************)

\* The table of the flush under way is the last immutable memtable and has the
\* newest versions of its keys.  Tables hold the numbers of past flushes.
InFlight ==
    /\ fpc # "idle" =>
          /\ imms # <<>> /\ imms[Len(imms)] = flushing.table
          /\ \A k \in Keys : flushing.table[k] \in {0, newest[k]}
    /\ fpc = "idle" => flushing.table = NoTable
    /\ \A i \in DOMAIN imms : \A k \in Keys : imms[i][k] <= flushes
    /\ status = "down" => newest = NoTable

\* A level 0 table was built with the newest version of a key, and those after it
\* without the key.
InLevelZero(k) ==
    \E i \in DOMAIN levels[0] :
        /\ levels[0][i].built.table[k] = newest[k]
        /\ \A j \in DOMAIN levels[0] : j > i => levels[0][j].built.table[k] = 0

\* Until a flush has failed, the newest versions are in the table being flushed or
\* in level 0.
Newest ==
    status = "up" =>
        \/ \E i \in DOMAIN imms : imms[i] \notin {NoTable, flushing.table}
        \/ \A k \in Keys : newest[k] # 0 => flushing.table[k] = newest[k] \/ InLevelZero(k)

Fresh == InFlight /\ Newest

\* A step that leaves the tables in memory alone.
LEMMA FreshStays ==
    ASSUME Fresh, UNCHANGED <<status, fpc, imms, levels, newest, flushes>>,
           flushing'.table = flushing.table
    PROVE  Fresh'
<1>1. InFlight'
  BY DEF Fresh, InFlight, NoTable
<1>2. \A k : InLevelZero(k)' <=> InLevelZero(k)
  BY DEF InLevelZero
<1>3. Newest'
  BY <1>2 DEF Fresh, Newest, NoTable
<1> QED BY <1>1, <1>3 DEF Fresh

\* Rotation: the table has numbers that no earlier one has.
LEMMA FreshRotate ==
    ASSUME TypeOK, Fresh, Rotate
    PROVE  Fresh'
<1>0. /\ imms \in Seq(Tables) /\ Len(imms) \in Nat /\ flushes \in Nat
      /\ fpc = "idle" /\ fpc' = "create" /\ status' = "up" /\ status = "up"
      /\ flushes' = flushes + 1 /\ levels' = levels
      /\ flushing.table = NoTable
  BY DEF TypeOK, LsmOK, HistoryOK, Rotate, Fresh, InFlight
<1>1. PICK ks :
        /\ flushing' = [NoFlush EXCEPT !.table =
                           [k \in Keys |-> IF k \in ks THEN flushes + 1 ELSE 0]]
        /\ imms' = Append(imms, [k \in Keys |-> IF k \in ks THEN flushes + 1 ELSE 0])
        /\ newest' = [k \in Keys |-> IF k \in ks THEN flushes + 1 ELSE newest[k]]
  BY DEF Rotate
<1> DEFINE T == [k \in Keys |-> IF k \in ks THEN flushes + 1 ELSE 0]
<1>2. /\ \A k \in Keys : T[k] \in Nat /\ T[k] = IF k \in ks THEN flushes + 1 ELSE 0
      /\ T \in Tables
  BY <1>0 DEF Tables
<1>3. flushing'.table = T /\ imms' = Append(imms, T)
  BY <1>1 DEF NoFlush
<1> HIDE DEF T
<1>4. /\ imms' # <<>> /\ Len(imms') = Len(imms) + 1 /\ imms'[Len(imms')] = T
      /\ \A i \in 1 .. Len(imms) : i \in DOMAIN imms' /\ imms'[i] = imms[i]
      /\ DOMAIN imms' = 1 .. Len(imms) + 1
  BY <1>0, <1>2, <1>3
<1>5. InFlight'
  <2>1. \A k \in Keys : T[k] \in {0, newest'[k]}
    BY <1>1, <1>2
  <2>2. ASSUME NEW i \in DOMAIN imms', NEW k \in Keys PROVE imms'[i][k] <= flushes'
    <3>1. CASE i = Len(imms) + 1
      BY <1>0, <1>2, <1>4, <3>1
    <3>2. CASE i \in 1 .. Len(imms)
      <4>1. imms[i] \in Tables /\ imms[i][k] <= flushes
        BY <1>0, <3>2 DEF Fresh, InFlight
      <4>2. imms[i][k] \in Nat
        BY <4>1 DEF Tables
      <4> QED BY <1>0, <1>4, <3>2, <4>1, <4>2
    <3> QED BY <1>0, <1>4, <3>1, <3>2
  <2> QED BY <1>0, <1>3, <1>4, <2>1, <2>2 DEF InFlight
<1>6. Newest'
  <2>1. CASE \E i \in DOMAIN imms : imms[i] \notin {NoTable, flushing.table}
    <3>1. PICK i \in 1 .. Len(imms) : imms[i] # NoTable
      BY <1>0, <2>1
    <3>2. imms[i] \in Tables
      BY <1>0
    <3>3. PICK k \in Keys : imms[i][k] # 0
      BY <3>1, <3>2 DEF Tables, NoTable
    <3>4. imms[i][k] \in Nat /\ imms[i][k] <= flushes
      BY <1>0, <3>2 DEF Tables, Fresh, InFlight
    <3>5. imms[i] # T
      BY <1>0, <1>2, <3>3, <3>4
    <3>6. NoTable' = NoTable
      BY DEF NoTable
    <3> QED BY <1>3, <1>4, <3>1, <3>5, <3>6 DEF Newest
  <2>2. CASE \A k \in Keys :
               newest[k] # 0 => flushing.table[k] = newest[k] \/ InLevelZero(k)
    <3>1. ASSUME NEW k \in Keys, newest'[k] # 0
          PROVE  flushing'.table[k] = newest'[k] \/ InLevelZero(k)'
      <4>1. CASE k \in ks
        BY <1>1, <1>2, <1>3, <4>1
      <4>2. CASE k \notin ks
        <5>1. newest'[k] = newest[k]
          BY <1>1, <4>2
        <5>2. flushing.table[k] = 0
          BY <1>0 DEF NoTable
        <5>3. InLevelZero(k)
          BY <2>2, <3>1, <5>1, <5>2
        <5> QED BY <1>0, <5>1, <5>3 DEF InLevelZero
      <4> QED BY <4>1, <4>2
    <3> QED BY <3>1 DEF Newest
  <2> QED BY <1>0, <2>1, <2>2 DEF Fresh, Newest
<1> QED BY <1>5, <1>6 DEF Fresh

\* The end of a flush: its table goes from the memtables to level 0.
LEMMA FreshOpen ==
    ASSUME TypeOK, Fresh, OpenTable
    PROVE  Fresh'
<1>0. /\ imms \in Seq(Tables) /\ Len(imms) \in Nat \ {0} /\ imms[Len(imms)] = flushing.table
      /\ \A k \in Keys : flushing.table[k] \in {0, newest[k]}
      /\ fpc' = "idle" /\ UNCHANGED <<status, newest, flushes>>
      /\ flushing' = NoFlush /\ imms' = Front(imms)
      /\ levels[0] \in Seq(Handles) /\ newest \in Tables
    BY DEF TypeOK, LsmOK, HistoryOK, OpenTable, Fresh, InFlight, history
<1> DEFINE h == Handle(flushing.id, Whole(flushing.table))
           L == levels[0]
<1>1. levels'[0] = Append(L, h) /\ h.built.table = flushing.table
  <2>1. levels \in [0 .. 1 -> Seq(Handles)]
    BY DEF TypeOK, LsmOK
  <2> QED BY <2>1 DEF OpenTable, Handle, Whole, Content
<1>2. /\ DOMAIN imms' = 1 .. Len(imms) - 1 /\ \A i \in 1 .. Len(imms) - 1 : imms'[i] = imms[i]
      /\ flushing'.table = NoTable
  <2>1. imms' = [i \in 1 .. Len(imms) - 1 |-> imms[i]]
    BY <1>0 DEF Front
  <2> QED BY <1>0, <2>1 DEF NoFlush
<1> HIDE DEF h, L
<1>3. L \in Seq(Handles) /\ Len(L) \in Nat
  BY <1>0 DEF L
<1>4. /\ DOMAIN levels'[0] = 1 .. Len(L) + 1
      /\ levels'[0][Len(L) + 1] = h
      /\ \A i \in 1 .. Len(L) : levels'[0][i] = levels[0][i]
      /\ DOMAIN levels[0] = 1 .. Len(L)
  <2>0. L \in Seq(Handles \cup {h})
    BY <1>3
  <2>1. /\ DOMAIN Append(L, h) = 1 .. Len(L) + 1 /\ Append(L, h)[Len(L) + 1] = h
        /\ \A i \in 1 .. Len(L) : Append(L, h)[i] = L[i]
    BY <1>3, <2>0, AppendProperties
  <2>2. \A i \in 1 .. Len(L) : i # Len(L) + 1
    BY <1>3
  <2>3. DOMAIN L = 1 .. Len(L)
    BY <1>3
  <2> QED BY <1>1, <2>1, <2>2, <2>3, <1>3 DEF L
<1>5. InFlight'
  BY <1>0, <1>2 DEF Fresh, InFlight, NoTable, OpenTable
<1>6. Newest'
  <2> SUFFICES ASSUME status = "up" PROVE Newest'
    BY <1>0 DEF Newest
  <2>1. CASE \E i \in DOMAIN imms : imms[i] \notin {NoTable, flushing.table}
    <3>1. PICK i \in 1 .. Len(imms) : imms[i] \notin {NoTable, flushing.table}
      BY <1>0, <2>1
    <3>2. i \in 1 .. Len(imms) - 1
      BY <1>0, <3>1
    <3>3. NoTable' = NoTable
      BY DEF NoTable
    <3> QED BY <1>2, <3>1, <3>2, <3>3 DEF Newest
  <2>2. CASE \A k \in Keys :
               newest[k] # 0 => flushing.table[k] = newest[k] \/ InLevelZero(k)
    <3>1. ASSUME NEW k \in Keys, newest[k] # 0 PROVE InLevelZero(k)'
      <4>1. CASE flushing.table[k] = newest[k]
        <5>1. levels'[0][Len(L) + 1].built.table[k] = newest'[k]
          BY <1>0, <1>1, <1>4, <4>1
        <5>2. \A j \in DOMAIN levels'[0] : ~(j > Len(L) + 1)
          BY <1>3, <1>4
        <5>3. Len(L) + 1 \in DOMAIN levels'[0]
          BY <1>3, <1>4
        <5> QED BY <5>1, <5>2, <5>3 DEF InLevelZero
      <4>2. CASE flushing.table[k] = 0 /\ InLevelZero(k)
        <5>0. DOMAIN levels[0] = 1 .. Len(L)
          BY <1>4
        <5>1. PICK i \in 1 .. Len(L) :
                /\ levels[0][i].built.table[k] = newest[k]
                /\ \A j \in 1 .. Len(L) : j > i => levels[0][j].built.table[k] = 0
          BY <4>2, <5>0 DEF InLevelZero
        <5>2. ASSUME NEW j \in DOMAIN levels'[0], j > i
              PROVE  levels'[0][j].built.table[k] = 0
          <6>1. CASE j = Len(L) + 1
            BY <1>1, <1>4, <4>2, <6>1
          <6>2. CASE j \in 1 .. Len(L)
            BY <1>4, <5>1, <5>2, <6>2
          <6> QED BY <1>3, <1>4, <6>1, <6>2
        <5>3. i \in DOMAIN levels'[0] /\ levels'[0][i].built.table[k] = newest'[k]
          BY <1>0, <1>3, <1>4, <5>1
        <5> QED BY <5>2, <5>3 DEF InLevelZero
      <4>3. flushing.table[k] \in {0, newest[k]}
        BY <1>0
      <4>4. flushing.table[k] = newest[k] \/ InLevelZero(k)
        BY <2>2, <3>1
      <4> QED BY <4>1, <4>2, <4>3, <4>4
    <3> QED BY <1>0, <3>1 DEF Newest
  <2> QED BY <2>1, <2>2 DEF Fresh, Newest
<1> QED BY <1>5, <1>6 DEF Fresh

\* A flush that has failed leaves its memtable.
LEMMA FreshOpenFails ==
    ASSUME TypeOK, Fresh, OpenTableFails
    PROVE  Fresh'
<1>0. /\ imms \in Seq(Tables) /\ Len(imms) \in Nat \ {0} /\ imms[Len(imms)] = flushing.table
      /\ fpc' = "idle" /\ UNCHANGED <<status, newest, flushes, imms, levels>>
      /\ flushing'.table = NoTable
  BY DEF TypeOK, LsmOK, OpenTableFails, Fresh, InFlight, history, NoFlush
<1>1. NoTable' = NoTable /\ \A k : InLevelZero(k)' <=> InLevelZero(k)
  BY <1>0 DEF NoTable, InLevelZero
<1>2. InFlight'
  BY <1>0, <1>1 DEF Fresh, InFlight
<1>3. Newest'
  <2> SUFFICES ASSUME status = "up" PROVE Newest'
    BY <1>0 DEF Newest
  <2>1. CASE \E i \in DOMAIN imms : imms[i] \notin {NoTable, flushing.table}
    BY <1>0, <1>1, <2>1 DEF Newest
  <2>2. CASE flushing.table # NoTable
    <3>1. Len(imms) \in DOMAIN imms /\ imms[Len(imms)] # NoTable
      BY <1>0, <2>2
    <3> QED BY <1>0, <1>1, <3>1 DEF Newest
  <2>3. CASE /\ flushing.table = NoTable
             /\ \A k \in Keys : newest[k] # 0 => flushing.table[k] = newest[k] \/ InLevelZero(k)
    BY <1>0, <1>1, <2>3 DEF Newest
  <2> QED BY <2>1, <2>2, <2>3 DEF Fresh, Newest
<1> QED BY <1>2, <1>3 DEF Fresh

LEMMA FreshStep ==
    ASSUME TypeInv, Fresh, [Next]_vars
    PROVE  Fresh'
<1> USE DEF TypeInv
<1>1. CASE Rotate
  BY <1>1, FreshRotate
<1>2. CASE OpenTable
  BY <1>2, FreshOpen
<1>3. CASE OpenTableFails
  BY <1>3, FreshOpenFails
<1>4. CASE CreateTable \/ FinishTable \/ ListTable
  <2>1. fpc # "idle" /\ fpc' # "idle" /\ UNCHANGED <<status, imms, levels, newest, flushes>>
    BY <1>4 DEF CreateTable, FinishTable, ListTable, history
  <2>2. flushing'.table = flushing.table
    BY <1>4 DEF CreateTable, FinishTable, ListTable, TypeOK, LsmOK
  <2>3. NoTable' = NoTable /\ \A k : InLevelZero(k)' <=> InLevelZero(k)
    BY <2>1 DEF NoTable, InLevelZero
  <2>4. InFlight' /\ Newest'
    BY <2>1, <2>2, <2>3 DEF Fresh, InFlight, Newest
  <2> QED BY <2>4 DEF Fresh
<1>5. CASE Joined \/ Crash
  <2>1. Die
    BY <1>5 DEF Joined, Crash
  <2>2. /\ status' = "down" /\ fpc' = "idle" /\ imms' = <<>> /\ flushing'.table = NoTable
        /\ newest' = NoTable
    BY <2>1 DEF Die, NoFlush
  <2> QED BY <2>2 DEF Fresh, InFlight, Newest, NoTable
<1>6. CASE Drop
  <2>1. InFlight'
    BY <1>6 DEF Drop, Fresh, InFlight, NoTable
  <2>2. Newest'
    BY <1>6 DEF Drop, Newest
  <2> QED BY <2>1, <2>2 DEF Fresh
<1>7. CASE Open
  <2>1. /\ status' # "down" /\ newest' = NoTable
        /\ UNCHANGED <<fpc, flushing, imms, flushes, newest>>
    BY <1>7 DEF Open, Fresh, InFlight, history
  <2>2. InFlight'
    BY <2>1 DEF Fresh, InFlight, NoTable
  <2>3. Newest'
    BY <2>1 DEF Newest, NoTable
  <2> QED BY <2>2, <2>3 DEF Fresh
<1>8. CASE CompactorStep \/ TimeOut \/ UNCHANGED vars
  <2>1. UNCHANGED <<lsm, newest, flushes>>
    BY <1>8 DEF CompactorStep, Wake, TimeOut, Pick, LoadAgain, LoadPanics, OpenInputs,
       OpenInputsFails, OpenInputsPanics, CreateOutput, MergeInputs, MergeFails, RemoveSst,
       RemoveFile, AddSst, history, vars
  <2> QED BY <2>1, FreshStays DEF lsm
<1>9. CASE Stopped
  BY <1>9, FreshStays DEF Stopped, vars, lsm, history
<1> QED
  BY <1>1, <1>2, <1>3, <1>4, <1>5, <1>6, <1>7, <1>8, <1>9 DEF Next, LsmStep

LEMMA ReversedIs ==
    ASSUME NEW T, NEW s \in Seq(T)
    PROVE  /\ Reverse(s) \in Seq(T) /\ Len(Reverse(s)) = Len(s)
           /\ \A i \in 1 .. Len(s) : Reverse(s)[i] = s[Len(s) - i + 1]
<1>1. Reverse(s) = [i \in 1 .. Len(s) |-> s[(Len(s) - i) + 1]]
  BY DEF Reverse
<1>2. Len(s) \in Nat /\ \A i \in 1 .. Len(s) : Len(s) - i + 1 \in 1 .. Len(s)
  BY LenProperties
<1>3. \A i \in 1 .. Len(s) : s[Len(s) - i + 1] \in T
  BY <1>2, ElementOfSeq
<1> QED BY <1>1, <1>2, <1>3

LEMMA TablesOf ==
    ASSUME NEW s \in Seq(Handles)
    PROVE  LET tables == [i \in DOMAIN s |-> s[i].content.table]
           IN  /\ tables \in Seq(Tables) /\ Len(tables) = Len(s)
               /\ \A i \in 1 .. Len(s) : tables[i] = s[i].content.table
<1>1. Len(s) \in Nat /\ DOMAIN s = 1 .. Len(s)
  BY LenProperties
<1>2. \A i \in 1 .. Len(s) : s[i].content.table \in Tables
  <2>1. \A h \in Handles : h.content.table \in Tables
    BY DEF Handles, Contents
  <2> QED BY <2>1, ElementOfSeq
<1> QED BY <1>1, <1>2

LEMMA ConcatIs ==
    ASSUME NEW T, NEW s \in Seq(T), NEW t \in Seq(T)
    PROVE  /\ s \o t \in Seq(T) /\ Len(s \o t) = Len(s) + Len(t)
           /\ \A i \in 1 .. Len(s) : (s \o t)[i] = s[i]
           /\ \A i \in 1 .. Len(t) : (s \o t)[Len(s) + i] = t[i]
<1>0. Len(s) \in Nat /\ Len(t) \in Nat
  BY LenProperties
<1>1. /\ s \o t \in Seq(T) /\ Len(s \o t) = Len(s) + Len(t)
      /\ \A i \in 1 .. Len(s) + Len(t) : (s \o t)[i] =
                   IF i <= Len(s) THEN s[i] ELSE t[i - Len(s)]
  BY ConcatProperties
<1>2. \A i \in 1 .. Len(s) : i \in 1 .. Len(s) + Len(t) /\ i <= Len(s)
  BY <1>0
<1>3. \A i \in 1 .. Len(t) : /\ Len(s) + i \in 1 .. Len(s) + Len(t)
                            /\ ~(Len(s) + i <= Len(s)) /\ Len(s) + i - Len(s) = i
  BY <1>0
<1> QED BY <1>1, <1>2, <1>3

\* What the first of some tables that has a key holds for it.
FirstVersion(sources, k) ==
    LET having == {i \in DOMAIN sources : sources[i][k] # 0}
    IN  IF having = {} THEN 0 ELSE sources[Min(having)][k]

LEMMA FirstThatHas ==
    ASSUME NEW sources, NEW k, NEW m \in Nat, DOMAIN sources = 1 .. m,
           NEW n \in 1 .. m, sources[n][k] # 0, \A i \in 1 .. n - 1 : sources[i][k] = 0
    PROVE  FirstVersion(sources, k) = sources[n][k]
<1> DEFINE having == {i \in DOMAIN sources : sources[i][k] # 0}
<1>1. n \in having /\ \A i \in having : n <= i /\ i \in Nat
  OBVIOUS
<1>2. Min(having) = n
  <2> HIDE DEF having
  <2>1. \A x \in having : (\A y \in having : x <= y) => x = n
    BY <1>1
  <2> QED BY <1>1, <2>1 DEF Min
<1> QED BY <1>1, <1>2 DEF FirstVersion

LEMMA FreshReads ==
    ASSUME TypeInv, Fresh
    PROVE  ReadsStayFresh
<1> SUFFICES ASSUME status = "up", Intact, NEW k \in Keys, newest[k] # 0
             PROVE  Lookup(k) = newest[k]
  BY DEF ReadsStayFresh
<1> DEFINE L == levels[0]
           R == levels[1]
           a == Len(imms)
           b == Len(L)
           c == Len(R)
           tables(l) == [i \in DOMAIN levels[l] |-> levels[l][i].content.table]
           sources == Reverse(imms) \o Reverse(tables(0)) \o Reverse(tables(1))
<1>1. /\ imms \in Seq(Tables) /\ L \in Seq(Handles) /\ R \in Seq(Handles)
      /\ a \in Nat /\ b \in Nat /\ c \in Nat /\ newest \in Tables
  BY DEF TypeInv, TypeOK, LsmOK, HistoryOK
<1>2. /\ DOMAIN sources = 1 .. a + b + c
      /\ \A i \in 1 .. a : sources[i] = imms[a - i + 1]
      /\ \A i \in 1 .. b : sources[a + i] = L[b - i + 1].content.table
  <2> DEFINE X == Reverse(imms)
             Y == Reverse(tables(0))
             Z == Reverse(tables(1))
  <2>1. X \in Seq(Tables) /\ Len(X) = a /\ \A i \in 1 .. a : X[i] = imms[a - i + 1]
    BY <1>1, ReversedIs
  <2>3. tables(0) \in Seq(Tables) /\ Len(tables(0)) = b
        /\ \A i \in 1 .. b : tables(0)[i] = L[i].content.table
    BY <1>1, TablesOf
  <2>4. tables(1) \in Seq(Tables) /\ Len(tables(1)) = c
    BY <1>1, TablesOf
  <2>5. Y \in Seq(Tables) /\ Len(Y) = b /\ \A i \in 1 .. b : Y[i] = L[b - i + 1].content.table
    <3> HIDE DEF tables
    <3>1. /\ Y \in Seq(Tables) /\ Len(Y) = b
          /\ \A i \in 1 .. b : Y[i] = tables(0)[b - i + 1]
      BY <2>3, ReversedIs
    <3> HIDE DEF b, L, Y
    <3>2. \A i \in 1 .. b : b - i + 1 \in 1 .. b
      BY <1>1
    <3> QED BY <2>3, <3>1, <3>2
  <2>6. Z \in Seq(Tables) /\ Len(Z) = c
    <3> HIDE DEF tables
    <3> QED BY <2>4, ReversedIs
  <2> HIDE DEF X, Y, Z, a, b, c, L
  <2>7. /\ X \o Y \in Seq(Tables) /\ Len(X \o Y) = a + b
        /\ \A i \in 1 .. a : (X \o Y)[i] = X[i]
        /\ \A i \in 1 .. b : (X \o Y)[a + i] = Y[i]
    <3>1. Len(X) = a /\ Len(Y) = b
      BY <2>1, <2>5
    <3>2. X \in Seq(Tables) /\ Y \in Seq(Tables)
      BY <2>1, <2>5
    <3>3. /\ X \o Y \in Seq(Tables) /\ Len(X \o Y) = Len(X) + Len(Y)
          /\ \A i \in 1 .. Len(X) : (X \o Y)[i] = X[i]
          /\ \A i \in 1 .. Len(Y) : (X \o Y)[Len(X) + i] = Y[i]
      BY <3>2, ConcatIs
    <3> QED BY <3>1, <3>3
  <2> DEFINE W == X \o Y
  <2> HIDE DEF W
  <2>8. /\ W \o Z \in Seq(Tables) /\ Len(W \o Z) = a + b + c
        /\ \A i \in 1 .. a + b : (W \o Z)[i] = W[i]
    <3>1. W \in Seq(Tables) /\ Len(W) = a + b
      BY <2>7 DEF W
    <3>2. W \in Seq(Tables) /\ Z \in Seq(Tables)
      BY <2>6, <3>1
    <3>3. W \o Z \in Seq(Tables) /\ Len(W \o Z) = Len(W) + Len(Z)
          /\ \A i \in 1 .. Len(W) : (W \o Z)[i] = W[i]
      BY <3>2, ConcatIs
    <3> QED BY <2>6, <3>1, <3>3
  <2>9. sources = W \o Z
    BY DEF W, X, Y, Z
  <2> HIDE DEF sources
  <2>10. \A i \in 1 .. a : i \in 1 .. a + b
    BY <1>1
  <2>11. \A i \in 1 .. b : a + i \in 1 .. a + b
    BY <1>1
  <2>12. DOMAIN sources = 1 .. a + b + c
    BY <2>8, <2>9, LenProperties
  <2>13. \A i \in 1 .. a : sources[i] = imms[a - i + 1]
    BY <2>1, <2>7, <2>8, <2>9, <2>10 DEF W
  <2>14. ASSUME NEW i \in 1 .. b PROVE sources[a + i] = L[b - i + 1].content.table
    <3>1. sources[a + i] = W[a + i]
      BY <2>8, <2>9, <2>11
    <3>2. W[a + i] = Y[i]
      BY <2>7 DEF W
    <3> QED BY <2>5, <3>1, <3>2
  <2> QED BY <2>12, <2>13, <2>14
<1>3. Lookup(k) = FirstVersion(sources, k)
  BY DEF Lookup, FirstVersion
<1>4. /\ \A i \in 1 .. a : imms[i] = flushing.table
      /\ \A i \in 1 .. b : L[i].content = L[i].built
  <2>1. DOMAIN imms = 1 .. a /\ DOMAIN L = 1 .. b
    BY <1>1
  <2> QED BY <2>1 DEF Intact
<1>5. flushing.table[k] = newest[k] \/ InLevelZero(k)
  BY <1>1, <1>4 DEF Fresh, Newest
<1> HIDE DEF a, b, c, sources, L
<1>6. CASE flushing.table[k] # 0
  <2>1. fpc # "idle" /\ flushing.table[k] = newest[k]
    BY <1>6 DEF Fresh, InFlight, NoTable
  <2>2. a >= 1
    <3>1. imms # <<>>
      BY <2>1 DEF Fresh, InFlight
    <3> QED BY <1>1, <3>1, EmptySeq DEF a
  <2>3. sources[1] = flushing.table
    BY <1>1, <1>2, <1>4, <2>2
  <2>4. a + b + c \in Nat /\ 1 \in 1 .. a + b + c /\ 1 .. 1 - 1 = {}
    BY <1>1, <2>2
  <2>5. FirstVersion(sources, k) = sources[1][k]
    <3>1. sources[1][k] # 0 /\ \A i \in 1 .. 1 - 1 : sources[i][k] = 0
      BY <1>6, <2>3, <2>4
    <3> DEFINE m == a + b + c
    <3>2. m \in Nat /\ 1 \in 1 .. m /\ DOMAIN sources = 1 .. m
      BY <1>2, <2>4
    <3> HIDE DEF m
    <3> QED BY <3>1, <3>2, FirstThatHas
  <2> QED BY <1>3, <2>1, <2>3, <2>5
<1>7. CASE flushing.table[k] = 0
  <2>1. InLevelZero(k)
    BY <1>5, <1>7
  <2>2. PICK i \in 1 .. b : /\ L[i].built.table[k] = newest[k]
                            /\ \A j \in 1 .. b : j > i => L[j].built.table[k] = 0
    <3>1. DOMAIN L = 1 .. b
      BY <1>1 DEF b
    <3> QED BY <2>1, <3>1 DEF InLevelZero, L
  <2> DEFINE n == a + (b - i + 1)
  <2>3. n \in 1 .. a + b + c /\ a + b + c \in Nat
    BY <1>1
  <2>4. sources[n][k] = newest[k]
    <3>1. b - i + 1 \in 1 .. b /\ b - (b - i + 1) + 1 = i
      BY <1>1
    <3> QED BY <1>2, <1>4, <2>2, <3>1
  <2>5. ASSUME NEW x \in 1 .. n - 1 PROVE sources[x][k] = 0
    <3>1. CASE x \in 1 .. a
      <4>1. a - x + 1 \in 1 .. a
        BY <1>1, <3>1
      <4> QED BY <1>2, <1>4, <1>7, <3>1, <4>1
    <3>2. CASE x > a
      <4> DEFINE y == x - a
      <4>1. y \in 1 .. b /\ x = a + y /\ b - y + 1 \in 1 .. b /\ b - y + 1 > i
        BY <1>1, <3>2
      <4> HIDE DEF y
      <4> QED BY <1>2, <1>4, <2>2, <4>1
    <3> QED BY <1>1, <3>1, <3>2
  <2> HIDE DEF n
  <2>6. FirstVersion(sources, k) = sources[n][k]
    <3> DEFINE m == a + b + c
    <3>1. m \in Nat /\ n \in 1 .. m /\ DOMAIN sources = 1 .. m /\ sources[n][k] # 0
      BY <1>2, <2>3, <2>4
    <3> HIDE DEF m
    <3> QED BY <2>5, <3>1, FirstThatHas
  <2> QED BY <1>3, <2>4, <2>6
<1> QED BY <1>6, <1>7

\* While compaction merges, removes and gives out ids beside an open Lsm whose
\* files are as they were built, a read returns the newest version this session
\* flushed: rotate_memtable, flush_immutable and the order of the sources in get
\* see to it, whatever the compaction thread does to the manifest.
THEOREM FreshBesideCompaction == Spec => []ReadsStayFresh
<1>1. Init => TypeInv /\ Fresh
  <2>1. Init => Fresh
    BY DEF Init, Fresh, InFlight, Newest, NoFlush, NoTable
  <2> QED BY <2>1, TypeInit
<1>2. TypeInv /\ Fresh /\ [Next]_vars => (TypeInv /\ Fresh)'
  BY TypeStep, FreshStep
<1>3. TypeInv /\ Fresh => ReadsStayFresh
  BY FreshReads
<1> QED BY <1>1, <1>2, <1>3, PTL DEF Spec

-----------------------------------------------------------------------------
(***************************************************************************)
(* The manifest while no id is given out twice.  The lines that load       *)
(* understands are then a set: a table is listed by one line, and a line   *)
(* that removes it comes after.                                            *)
(***************************************************************************)
Lines  == {manifest[p].line : p \in {q \in DOMAIN manifest : manifest[q].lost = 0}}
SstIds == {x \in Ids : \E l \in 0 .. 1 : SstLine(l, x) \in Lines}
Live(l) == {x \in Ids : SstLine(l, x) \in Lines /\ DelLine(l, x) \notin Lines}

InOrder ==
    /\ \A p \in DOMAIN manifest : manifest[p].lost # 0 => manifest[p].line.kind = "DEL"
    /\ \A p, q \in DOMAIN manifest :
          /\ manifest[p].line.kind = "SST" /\ manifest[q].line.kind \in {"SST", "DEL"}
          /\ manifest[q].lost = 0 /\ IdAt(p) = IdAt(q)
          => p = q \/ (p < q /\ manifest[q].line.kind = "DEL")

\* The parts of a line.
LEMMA LineParts ==
    /\ \A l, x : /\ SstLine(l, x).kind = "SST" /\ SstLine(l, x).level = l /\ SstLine(l, x).id = x
                 /\ DelLine(l, x).kind = "DEL" /\ DelLine(l, x).level = l /\ DelLine(l, x).id = x
                 /\ WalLine(x).kind = "WAL"
    /\ \A e \in ManifestLine : e.lost = 0 => e = InFile(e.line)
    /\ \A ln : InFile(ln).line = ln /\ InFile(ln).lost = 0
    /\ \A ln \in Written : /\ ln.kind = "SST" => ln = SstLine(ln.level, ln.id)
                           /\ ln.kind = "DEL" => ln = DelLine(ln.level, ln.id)
                           /\ ln.kind \in {"SST", "DEL"} => ln.level \in 0 .. 1 /\ ln.id \in Ids
<1>1. \A l, x : /\ SstLine(l, x).kind = "SST" /\ SstLine(l, x).level = l /\ SstLine(l, x).id = x
                /\ DelLine(l, x).kind = "DEL" /\ DelLine(l, x).level = l /\ DelLine(l, x).id = x
                /\ WalLine(x).kind = "WAL"
  BY DEF SstLine, DelLine, WalLine
<1>2. /\ \A e \in ManifestLine : e.lost = 0 => e = InFile(e.line)
      /\ \A ln : InFile(ln).line = ln /\ InFile(ln).lost = 0
  BY DEF ManifestLine, InFile
<1>3. \A ln \in Written : /\ ln.kind = "SST" => ln = SstLine(ln.level, ln.id)
                          /\ ln.kind = "DEL" => ln = DelLine(ln.level, ln.id)
                          /\ ln.kind \in {"SST", "DEL"} => ln.level \in 0 .. 1 /\ ln.id \in Ids
  BY DEF Written, TableLine, SstLine, DelLine
<1> QED BY <1>1, <1>2, <1>3

\* The places of the lines.
LEMMA InLines ==
    /\ \A ln : ln \in Lines <=> \E p \in DOMAIN manifest : manifest[p].line = ln /\ manifest[p].lost = 0
    /\ \A ln : ln \in Lines' <=>
                  \E p \in DOMAIN manifest' : manifest'[p].line = ln /\ manifest'[p].lost = 0
BY DEF Lines

\* A table has one line, of one level.
LEMMA OneLevel ==
    ASSUME InOrder, NEW x, SstLine(0, x) \in Lines
    PROVE  SstLine(1, x) \notin Lines
<1> SUFFICES ASSUME SstLine(1, x) \in Lines PROVE FALSE
  OBVIOUS
<1>1. PICK p \in DOMAIN manifest : manifest[p].line = SstLine(0, x) /\ manifest[p].lost = 0
  BY InLines
<1>2. PICK q \in DOMAIN manifest : manifest[q].line = SstLine(1, x) /\ manifest[q].lost = 0
  BY InLines
<1>3. p = q
  BY <1>1, <1>2, LineParts DEF InOrder, IdAt
<1> QED BY <1>1, <1>2, <1>3, LineParts

LEMMA LiveIsListed ==
    ASSUME TypeOK, InOrder, NEW l \in 0 .. 1
    PROVE  /\ ListedIds(l) = Live(l)
           /\ \A p, q \in Listed(l) : IdAt(p) = IdAt(q) => p = q
<1>0. /\ Listed(l) \in SUBSET DOMAIN manifest
      /\ \A p \in Listed(l) : /\ IdAt(p) \in Ids /\ manifest[p].line = SstLine(l, IdAt(p))
                              /\ manifest[p].lost = 0
  BY ListedLines
<1>1. \A p \in DOMAIN manifest : p \in Nat /\ manifest[p] \in ManifestLine
  BY DEF TypeOK, FilesOK
<1>2. ASSUME NEW p \in Listed(l) PROVE IdAt(p) \in Live(l)
  <2> SUFFICES ASSUME DelLine(l, IdAt(p)) \in Lines PROVE FALSE
    BY <1>0, InLines DEF Live
  <2>1. PICK q \in DOMAIN manifest : manifest[q].line = DelLine(l, IdAt(p)) /\ manifest[q].lost = 0
    BY InLines
  <2>2. manifest[q] = InFile(DelLine(l, IdAt(p)))
    BY <1>1, <2>1, LineParts
  <2>3. q < p
    BY <2>2 DEF Listed, Complete
  <2>4. p = q \/ p < q
    BY <1>0, <2>1, LineParts DEF InOrder, IdAt
  <2> QED BY <1>0, <1>1, <2>3, <2>4
<1>3. ASSUME NEW x \in Live(l) PROVE x \in ListedIds(l)
  <2>1. PICK p \in DOMAIN manifest : manifest[p].line = SstLine(l, x) /\ manifest[p].lost = 0
    BY InLines DEF Live
  <2>2. IdAt(p) = x /\ manifest[p] = InFile(SstLine(l, x))
    BY <1>1, <2>1, LineParts DEF IdAt
  <2>3. \A q \in Complete(DelLine(l, x)) : DelLine(l, x) \in Lines
    BY InLines, LineParts DEF Complete
  <2>4. p \in Listed(l)
    BY <2>2, <2>3 DEF Listed, Complete, Live
  <2> QED BY <2>2, <2>4 DEF ListedIds
<1>4. ListedIds(l) = Live(l)
  BY <1>2, <1>3 DEF ListedIds
<1>5. ASSUME NEW p \in Listed(l), NEW q \in Listed(l), IdAt(p) = IdAt(q) PROVE p = q
  <2>1. manifest[p].line.kind = "SST" /\ manifest[q].line.kind = "SST"
    BY <1>0, LineParts
  <2> QED BY <1>0, <1>5, <2>1 DEF InOrder
<1> QED BY <1>4, <1>5

\* Lines of the thread behind the place where the Lsm writes next.
Behind == 0 <= cursor /\ cursor < Len(manifest)

LEMMA AppendedLines ==
    ASSUME TypeOK, InOrder, NEW ln \in Written, manifest' = Append(manifest, InFile(ln)),
           ln.kind = "SST" => ln.id \notin SstIds /\ \A l \in 0 .. 1 : DelLine(l, ln.id) \notin Lines
    PROVE  /\ Lines' = Lines \cup {ln} /\ InOrder'
           /\ Len(manifest') = Len(manifest) + 1 /\ Len(manifest) \in Nat
           /\ \A p \in 1 .. Len(manifest) : manifest'[p] = manifest[p]
<1> DEFINE n == Len(manifest)
<1>1. /\ manifest \in Seq(ManifestLine) /\ n \in Nat /\ DOMAIN manifest = 1 .. n
      /\ \A p \in 1 .. n : /\ manifest[p] \in ManifestLine /\ manifest[p].line \in Written
                           /\ manifest[p].lost \in Nat
  BY LinesOf DEF TypeOK, FilesOK
<1>2. InFile(ln) \in ManifestLine /\ InFile(ln).line = ln /\ InFile(ln).lost = 0
  BY LineTypes, LineParts
<1>3. /\ Len(manifest') = n + 1 /\ DOMAIN manifest' = 1 .. n + 1
      /\ \A p \in 1 .. n : manifest'[p] = manifest[p]
      /\ manifest'[n + 1] = InFile(ln)
  BY <1>1, <1>2, AppendProperties
<1> HIDE DEF n
<1>4. \A p \in DOMAIN manifest' : p \in DOMAIN manifest \/ p = n + 1
  BY <1>1, <1>3
<1>5. Lines' = Lines \cup {ln}
  <2>1. ASSUME NEW e \in Lines' PROVE e \in Lines \cup {ln}
    BY <1>1, <1>2, <1>3, <1>4, <2>1, InLines
  <2>2. ASSUME NEW e \in Lines PROVE e \in Lines'
    <3>1. PICK p \in 1 .. n : manifest[p].line = e /\ manifest[p].lost = 0
      BY <1>1, InLines
    <3>2. p \in DOMAIN manifest' /\ manifest'[p].line = e /\ manifest'[p].lost = 0
      BY <1>1, <1>3, <3>1
    <3> QED BY <3>2, InLines
  <2>3. ln \in Lines'
    <3>1. n + 1 \in DOMAIN manifest' /\ manifest'[n + 1].line = ln /\ manifest'[n + 1].lost = 0
      BY <1>1, <1>2, <1>3
    <3> QED BY <3>1, InLines
  <2> QED BY <2>1, <2>2, <2>3
<1>6. InOrder'
  <2>1. \A p \in DOMAIN manifest' : manifest'[p].lost # 0 => manifest'[p].line.kind = "DEL"
    BY <1>1, <1>2, <1>3, <1>4 DEF InOrder
  <2>2. ASSUME NEW p \in DOMAIN manifest', NEW q \in DOMAIN manifest',
               manifest'[p].line.kind = "SST", manifest'[q].line.kind \in {"SST", "DEL"},
               manifest'[q].lost = 0, manifest'[p].line.id = manifest'[q].line.id
        PROVE  p = q \/ (p < q /\ manifest'[q].line.kind = "DEL")
    <3>1. CASE p \in 1 .. n /\ q \in 1 .. n
      BY <1>1, <1>3, <2>2, <3>1 DEF InOrder, IdAt
    <3>2. CASE p = n + 1 /\ q \in 1 .. n
      <4>1. /\ manifest[q].line \in Lines /\ ln.kind = "SST" /\ manifest[q].line.id = ln.id
            /\ manifest[q].line \in Written /\ manifest[q].line.kind \in {"SST", "DEL"}
        BY <1>1, <1>2, <1>3, <2>2, <3>2, InLines
      <4>2. /\ manifest[q].line.level \in 0 .. 1 /\ manifest[q].line.id \in Ids
            /\ \/ manifest[q].line = SstLine(manifest[q].line.level, ln.id)
               \/ manifest[q].line = DelLine(manifest[q].line.level, ln.id)
        BY <4>1, LineParts
      <4> QED BY <4>1, <4>2 DEF SstIds
    <3>3. CASE p \in 1 .. n /\ q = n + 1
      <4>1. /\ manifest[p].line \in Lines /\ manifest[p].line.id = ln.id
            /\ manifest[p].line.kind = "SST" /\ manifest[p].line \in Written
        <5>1. manifest[p].line.kind = "SST" /\ manifest[p].line.id = ln.id
          BY <1>2, <1>3, <2>2, <3>3
        <5>2. manifest[p].lost = 0
          BY <1>1, <3>3, <5>1 DEF InOrder
        <5> QED BY <1>1, <3>3, <5>1, <5>2, InLines
      <4>2. ln.id \in SstIds
        <5>1. manifest[p].line = SstLine(manifest[p].line.level, ln.id)
              /\ manifest[p].line.level \in 0 .. 1 /\ ln.id \in Ids
          BY <4>1, LineParts
        <5> QED BY <4>1, <5>1 DEF SstIds
      <4>3. ln.kind \in {"SST", "DEL"}
        BY <1>2, <1>3, <2>2, <3>3
      <4>4. ln.kind = "DEL"
        BY <4>2, <4>3
      <4> QED BY <1>1, <1>2, <1>3, <3>3, <4>4
    <3> QED BY <1>1, <1>4, <3>1, <3>2, <3>3
  <2> QED BY <2>1, <2>2 DEF InOrder, IdAt
<1> QED BY <1>1, <1>3, <1>5, <1>6 DEF n

\* The Lsm at the end of the file.
LEMMA LsmAppends ==
    ASSUME TypeOK, ~Behind, NEW ln, LsmWrites(ln)
    PROVE  /\ manifest' = Append(manifest, InFile(ln))
           /\ \/ cursor = -1 /\ cursor' = -1
              \/ cursor = Len(manifest) /\ cursor' = Len(manifest) + 1
<1>1. /\ manifest \in Seq(ManifestLine) /\ Len(manifest) \in Nat
      /\ cursor \in Int /\ -1 <= cursor /\ cursor <= Len(manifest)
  BY DEF TypeOK, FilesOK, LsmOK
<1>2. CASE cursor = -1
  BY <1>2 DEF LsmWrites, AtTheEnd
<1>3. CASE cursor # -1
  <2>1. cursor = Len(manifest)
    BY <1>1, <1>3 DEF Behind
  <2>2. /\ cursor' = cursor + 1
        /\ manifest' = SubSeq(manifest, 1, cursor) \o <<InFile(ln)>>
              \o Skip(Pairs(ln), SubSeq(manifest, cursor + 1, Len(manifest)))
    BY <1>3 DEF LsmWrites
  <2>3. SubSeq(manifest, 1, cursor) = manifest
    BY <1>1, <2>1
  <2>4. SubSeq(manifest, cursor + 1, Len(manifest)) = <<>>
    BY <1>1, <2>1
  <2>5. Skip(Pairs(ln), <<>>) = <<>>
    BY DEF Skip
  <2>6. manifest' = manifest \o <<InFile(ln)>> \o <<>>
    BY <2>2, <2>3, <2>4, <2>5
  <2>7. manifest' = Append(manifest, InFile(ln))
    <3> DEFINE T == ManifestLine \cup {InFile(ln)}
    <3>1. manifest \in Seq(T) /\ <<InFile(ln)>> \in Seq(T) /\ InFile(ln) \in T
      BY <1>1
    <3> HIDE DEF T
    <3>2. Append(manifest, InFile(ln)) = manifest \o <<InFile(ln)>>
      BY <3>1, AppendIsConcat
    <3>3. manifest \o <<InFile(ln)>> \in Seq(T)
      BY <3>1, ConcatProperties
    <3> QED BY <2>6, <3>2, <3>3, ConcatEmptySeq
  <2> QED BY <2>1, <2>2, <2>7
<1> QED BY <1>2, <1>3

\* The Lsm writes the name of a log over the first line of the thread.
LEMMA OverwritingPlaces ==
    ASSUME TypeOK, Behind, NEW x \in Ids, manifest[cursor + 1] = InFile(DelLine(0, x)),
           NEW n \in Nat, LsmWrites(WalLine(n))
    PROVE  /\ cursor' = cursor + 1 /\ Len(manifest') = Len(manifest) + 1
           /\ \A p \in 1 .. cursor : manifest'[p] = manifest[p]
           /\ manifest'[cursor + 1] = InFile(WalLine(n))
           /\ manifest'[cursor + 2] = [line |-> DelLine(0, x), lost |-> 3]
           /\ \A p \in cursor + 2 .. Len(manifest) : manifest'[p + 1] = manifest[p]
<1> DEFINE N     == Len(manifest)
           c     == cursor
           front == SubSeq(manifest, 1, c)
           rest  == SubSeq(manifest, c + 1, N)
           h     == [line |-> DelLine(0, x), lost |-> 3]
           tail  == <<h>> \o Tail(rest)
           T     == ManifestLine \cup {h}
<1>1. /\ manifest \in Seq(ManifestLine) /\ N \in Nat /\ DOMAIN manifest = 1 .. N
      /\ c \in Nat /\ c < N
      /\ \A p \in 1 .. N : manifest[p] \in ManifestLine
  BY LinesOf DEF TypeOK, FilesOK, LsmOK, Behind
<1>2. /\ front \in Seq(T) /\ Len(front) = c /\ \A p \in 1 .. c : front[p] = manifest[p]
  <2>1. \A p \in 1 .. c : manifest[p] \in T
    BY <1>1
  <2>2. /\ front \in Seq(T) /\ Len(front) = (IF 1 <= c THEN c - 1 + 1 ELSE 0)
        /\ \A p \in 1 .. c - 1 + 1 : front[p] = manifest[1 + p - 1]
    <3> HIDE DEF T, c
    <3> QED BY <1>1, <2>1, SubSeqProperties
  <2> QED BY <1>1, <2>2
<1>3. /\ rest \in Seq(ManifestLine) /\ Len(rest) = N - c
      /\ \A p \in 1 .. N - c : rest[p] = manifest[c + p]
  <2>1. \A p \in c + 1 .. N : manifest[p] \in ManifestLine
    BY <1>1
  <2>2. /\ rest \in Seq(ManifestLine)
        /\ Len(rest) = (IF c + 1 <= N THEN N - (c + 1) + 1 ELSE 0)
        /\ \A p \in 1 .. N - (c + 1) + 1 : rest[p] = manifest[c + 1 + p - 1]
    <3> DEFINE d == c + 1
    <3>1. d \in Int /\ N \in Int /\ \A p \in d .. N : manifest[p] \in ManifestLine
      BY <1>1, <2>1
    <3>2. /\ SubSeq(manifest, d, N) \in Seq(ManifestLine)
          /\ Len(SubSeq(manifest, d, N)) = (IF d <= N THEN N - d + 1 ELSE 0)
          /\ \A p \in 1 .. N - d + 1 : SubSeq(manifest, d, N)[p] = manifest[d + p - 1]
      <4> HIDE DEF d, c, N
      <4> QED BY <3>1, SubSeqProperties
    <3> QED BY <3>2
  <2> HIDE DEF c, N, rest
  <2>3. \A p \in 1 .. N - c : c + 1 + p - 1 = c + p /\ p \in 1 .. N - (c + 1) + 1
    BY <1>1
  <2>4. Len(rest) = N - c
    BY <1>1, <2>2
  <2> QED BY <2>2, <2>3, <2>4
<1>4. /\ rest # <<>> /\ Head(rest) = InFile(DelLine(0, x))
      /\ Tail(rest) \in Seq(ManifestLine) /\ Len(Tail(rest)) = N - c - 1
      /\ \A p \in 1 .. N - c - 1 : Tail(rest)[p] = manifest[c + p + 1]
  <2> HIDE DEF rest, N, c
  <2>1. Len(rest) \in Nat /\ Len(rest) >= 1
    BY <1>1, <1>3
  <2>2. rest # <<>>
    BY <2>1
  <2>3. Head(rest) = InFile(DelLine(0, x))
    <3>1. rest[1] = manifest[c + 1]
      BY <1>1, <1>3
    <3> QED BY <1>3, <2>2, <3>1 DEF c
  <2>4. /\ Tail(rest) \in Seq(ManifestLine) /\ Len(Tail(rest)) = Len(rest) - 1
        /\ \A i \in 1 .. Len(Tail(rest)) : Tail(rest)[i] = rest[i + 1]
    BY <1>3, <2>2, HeadTailProperties
  <2>5. \A p \in 1 .. N - c - 1 : Tail(rest)[p] = manifest[c + p + 1]
    <3>1. \A p \in 1 .. N - c - 1 : p + 1 \in 1 .. N - c /\ c + (p + 1) = c + p + 1
      BY <1>1
    <3> QED BY <1>3, <2>4, <3>1
  <2> QED BY <1>3, <2>2, <2>3, <2>4, <2>5
<1>5. Skip(Pairs(WalLine(n)), rest) = tail
  <2>1. Pairs(WalLine(n)) = 3 /\ Pairs(DelLine(0, x)) = 4
    BY DEF Pairs, WalLine, DelLine
  <2>2. Head(rest).line = DelLine(0, x) /\ Head(rest).lost = 0
    BY <1>4, LineParts
  <2>3. [Head(rest) EXCEPT !.lost = @ + 3] = h
    <3>1. Head(rest) = [line |-> DelLine(0, x), lost |-> 0]
      BY <1>4 DEF InFile
    <3> DEFINE d == DelLine(0, x)
    <3>2. Head(rest) = [line |-> d, lost |-> 0]
      BY <3>1
    <3> HIDE DEF d, rest
    <3>3. [Head(rest) EXCEPT !.lost = @ + 3] = [line |-> d, lost |-> 3]
      BY <3>2
    <3> QED BY <3>3 DEF d
  <2> DEFINE left      == Pairs(Head(rest).line) - Head(rest).lost
             cut(r, k) == <<[Head(r) EXCEPT !.lost = @ + k]>> \o Tail(r)
  <2> HIDE DEF rest, h
  <2>4. Skip(3, rest) = IF 3 < left THEN cut(rest, 3)
                        ELSE IF 3 = left \/ Tail(rest) = <<>> THEN Tail(rest)
                        ELSE cut(Tail(rest), 3 - left)
    BY <1>4 DEF Skip
  <2>5. left = 4
    BY <2>1, <2>2
  <2>6. cut(rest, 3) = tail
    BY <2>3
  <2> HIDE DEF left, cut, tail
  <2> QED BY <2>1, <2>4, <2>5, <2>6
<1>6. manifest' = front \o <<InFile(WalLine(n))>> \o tail /\ cursor' = c + 1
  <2>1. /\ cursor' = cursor + 1
        /\ manifest' = SubSeq(manifest, 1, cursor) \o <<InFile(WalLine(n))>>
              \o Skip(Pairs(WalLine(n)), SubSeq(manifest, cursor + 1, Len(manifest)))
    BY <1>1 DEF LsmWrites
  <2> QED BY <1>5, <2>1
<1>7. /\ tail \in Seq(T) /\ Len(tail) = N - c /\ tail[1] = h
      /\ \A p \in 1 .. N - c - 1 : tail[p + 1] = manifest[c + p + 1]
  <2> DEFINE t == Tail(rest)
  <2>1. <<h>> \in Seq(T) /\ t \in Seq(T) /\ Len(<<h>>) = 1 /\ <<h>>[1] = h
    BY <1>4
  <2>2. Len(t) = N - c - 1 /\ \A p \in 1 .. N - c - 1 : t[p] = manifest[c + p + 1]
    BY <1>4
  <2> HIDE DEF h, T, N, c, t
  <2> DEFINE u == <<h>>
  <2> HIDE DEF u
  <2>3. u \in Seq(T) /\ Len(u) = 1 /\ u[1] = h
    BY <2>1 DEF u
  <2>4. /\ u \o t \in Seq(T) /\ Len(u \o t) = Len(u) + Len(t)
        /\ \A i \in 1 .. Len(u) : (u \o t)[i] = u[i]
        /\ \A i \in 1 .. Len(t) : (u \o t)[Len(u) + i] = t[i]
    <3>1. u \in Seq(T) /\ t \in Seq(T)
      BY <2>1, <2>3
    <3> QED BY <3>1, ConcatIs
  <2>5. \A p \in 1 .. N - c - 1 : 1 + p = p + 1
    BY <1>1
  <2>6. \A p \in 1 .. N - c - 1 : (u \o t)[p + 1] = manifest[c + p + 1]
    BY <2>2, <2>3, <2>4, <2>5
  <2>7. Len(u \o t) = N - c /\ (u \o t)[1] = h
    BY <1>1, <2>2, <2>3, <2>4
  <2> QED BY <2>4, <2>6, <2>7 DEF u, t
<1> DEFINE w == <<InFile(WalLine(n))>>
           v == front \o w
<1>8. /\ v \in Seq(T) /\ Len(v) = c + 1
      /\ \A p \in 1 .. c : v[p] = manifest[p]
      /\ v[c + 1] = InFile(WalLine(n))
  <2>1. w \in Seq(T) /\ Len(w) = 1 /\ w[1] = InFile(WalLine(n))
    BY LineTypes
  <2> HIDE DEF w, T, front, c
  <2>2. /\ front \o w \in Seq(T) /\ Len(front \o w) = Len(front) + Len(w)
        /\ \A i \in 1 .. Len(front) : (front \o w)[i] = front[i]
        /\ \A i \in 1 .. Len(w) : (front \o w)[Len(front) + i] = w[i]
    <3>1. front \in Seq(T) /\ w \in Seq(T)
      BY <1>2, <2>1
    <3> QED BY <3>1, ConcatIs
  <2> QED BY <1>1, <1>2, <2>1, <2>2
<1> HIDE DEF w, v, T, front, tail, c, N, h
<1>9. /\ v \o tail \in Seq(T) /\ Len(v \o tail) = Len(v) + Len(tail)
      /\ \A i \in 1 .. Len(v) : (v \o tail)[i] = v[i]
      /\ \A i \in 1 .. Len(tail) : (v \o tail)[Len(v) + i] = tail[i]
  <2>1. v \in Seq(T) /\ tail \in Seq(T)
    BY <1>7, <1>8
  <2> QED BY <2>1, ConcatIs
<1>10. manifest' = v \o tail
  BY <1>6 DEF v, w
<1>11. Len(manifest') = N + 1
  <2>1. c + 1 + (N - c) = N + 1
    BY <1>1
  <2>2. Len(v \o tail) = c + 1 + (N - c)
    BY <1>7, <1>8, <1>9
  <2> QED BY <1>10, <2>1, <2>2
<1>12. \A p \in 1 .. c : manifest'[p] = manifest[p]
  <2>1. \A p \in 1 .. c : p \in 1 .. c + 1
    BY <1>1
  <2> QED BY <1>8, <1>9, <1>10, <2>1
<1>13. manifest'[c + 1] = InFile(WalLine(n))
  <2>1. c + 1 \in 1 .. c + 1
    BY <1>1
  <2> QED BY <1>8, <1>9, <1>10, <2>1
<1>14. manifest'[c + 2] = h
  <2>1. 1 \in 1 .. N - c /\ c + 1 + 1 = c + 2
    BY <1>1
  <2> QED BY <1>7, <1>8, <1>9, <1>10, <2>1
<1>15. ASSUME NEW p \in c + 2 .. N PROVE manifest'[p + 1] = manifest[p]
  <2> DEFINE i == p - c - 1
  <2>1. /\ i \in 1 .. N - c - 1 /\ i + 1 \in 1 .. N - c /\ c + 1 + (i + 1) = p + 1
        /\ c + i + 1 = p
    BY <1>1
  <2> HIDE DEF i
  <2>2. (v \o tail)[c + 1 + (i + 1)] = tail[i + 1]
    BY <1>7, <1>8, <1>9, <2>1
  <2> QED BY <1>7, <1>10, <2>1, <2>2
<1> QED BY <1>6, <1>11, <1>12, <1>13, <1>14, <1>15 DEF c, N, h

\* Only the line it was written over is lost.
LEMMA OverwrittenLines ==
    ASSUME TypeOK, InOrder, Behind, NEW x \in Ids, manifest[cursor + 1] = InFile(DelLine(0, x)),
           NEW n \in Nat, LsmWrites(WalLine(n))
    PROVE  /\ InOrder' /\ WalLine(n) \in Lines'
           /\ \A ln \in Lines' : ln = WalLine(n) \/ ln \in Lines
           /\ \A ln \in Lines : ln = DelLine(0, x) \/ ln \in Lines'
           /\ cursor' = cursor + 1 /\ Len(manifest') = Len(manifest) + 1
           /\ manifest'[cursor' + 1].line = DelLine(0, x)
<1> DEFINE N == Len(manifest)
           c == cursor
           h == [line |-> DelLine(0, x), lost |-> 3]
<1>1. /\ N \in Nat /\ DOMAIN manifest = 1 .. N /\ c \in Nat /\ c < N
      /\ \A p \in 1 .. N : manifest[p] \in ManifestLine
  BY LinesOf DEF TypeOK, FilesOK, LsmOK, Behind
<1>2. /\ cursor' = c + 1 /\ Len(manifest') = N + 1
      /\ \A p \in 1 .. c : manifest'[p] = manifest[p]
      /\ manifest'[c + 1] = InFile(WalLine(n))
      /\ manifest'[c + 2] = h
      /\ \A p \in c + 2 .. N : manifest'[p + 1] = manifest[p]
  BY OverwritingPlaces
<1>3. DOMAIN manifest' = 1 .. N + 1
  <2>1. manifest' \in Seq(ManifestLine)
    BY WriteType, LineTypes
  <2> QED BY <1>2, <2>1
<1>4. /\ h.lost = 3 /\ h.line = DelLine(0, x) /\ h.line.kind = "DEL"
      /\ InFile(WalLine(n)).lost = 0 /\ InFile(WalLine(n)).line = WalLine(n)
      /\ WalLine(n).kind = "WAL"
  BY LineParts
<1>5. manifest[c + 1].line = DelLine(0, x)
  BY LineParts
<1> HIDE DEF N, c, h
\* Where a line that is not the first of these two was before.
<1> DEFINE Was(p) == IF p <= c THEN p ELSE p - 1
<1>6. ASSUME NEW p \in 1 .. N + 1, p # c + 1, p # c + 2
      PROVE  /\ Was(p) \in 1 .. N /\ Was(p) # c + 1 /\ manifest'[p] = manifest[Was(p)]
  <2>1. CASE p <= c
    BY <1>1, <1>2, <2>1
  <2>2. CASE p > c + 2
    <3> DEFINE q == p - 1
    <3>1. q \in c + 2 .. N /\ q + 1 = p /\ ~(p <= c) /\ q \in 1 .. N /\ q # c + 1
      BY <1>1, <2>2
    <3>2. manifest'[q + 1] = manifest[q]
      <4> HIDE DEF q
      <4> QED BY <1>2, <3>1
    <3> QED BY <3>1, <3>2
  <2>3. p <= c \/ p > c + 2
    BY <1>1, <1>6
  <2> QED BY <2>1, <2>2, <2>3
<1>7. \A p, q \in 1 .. N + 1 : p \notin {c + 1, c + 2} /\ q \notin {c + 1, c + 2} =>
          (Was(p) < Was(q) => p < q) /\ (Was(p) = Was(q) => p = q)
  BY <1>1
<1>8. ASSUME NEW p \in 1 .. N, p # c + 1
      PROVE  \E q \in 1 .. N + 1 : manifest'[q] = manifest[p]
  <2>1. CASE p <= c
    BY <1>1, <1>2, <2>1
  <2>2. CASE p > c + 1
    <3>1. p \in c + 2 .. N /\ p + 1 \in 1 .. N + 1
      BY <1>1, <2>2
    <3> QED BY <1>2, <3>1
  <2> QED BY <1>1, <1>8, <2>1, <2>2
<1> HIDE DEF Was
<1>9. \A ln \in Lines' : ln = WalLine(n) \/ ln \in Lines
  <2> SUFFICES ASSUME NEW ln \in Lines' PROVE ln = WalLine(n) \/ ln \in Lines
    OBVIOUS
  <2>1. PICK p \in 1 .. N + 1 : manifest'[p].line = ln /\ manifest'[p].lost = 0
    BY <1>3, InLines
  <2>2. CASE p = c + 1
    BY <1>2, <1>4, <2>1, <2>2
  <2>3. CASE p # c + 1
    <3>1. p # c + 2
      BY <1>2, <1>4, <2>1
    <3>2. Was(p) \in DOMAIN manifest /\ manifest[Was(p)].line = ln /\ manifest[Was(p)].lost = 0
      BY <1>1, <1>6, <2>1, <2>3, <3>1
    <3> QED BY <3>2, InLines
  <2> QED BY <2>2, <2>3
<1>10. \A ln \in Lines : ln = DelLine(0, x) \/ ln \in Lines'
  <2> SUFFICES ASSUME NEW ln \in Lines, ln # DelLine(0, x) PROVE ln \in Lines'
    OBVIOUS
  <2>1. PICK p \in 1 .. N : manifest[p].line = ln /\ manifest[p].lost = 0
    BY <1>1, InLines
  <2>2. p # c + 1
    BY <1>5, <2>1
  <2>3. PICK q \in 1 .. N + 1 : manifest'[q] = manifest[p]
    BY <1>8, <2>2
  <2> QED BY <1>3, <2>1, <2>3, InLines
<1>11. WalLine(n) \in Lines'
  <2>1. c + 1 \in DOMAIN manifest'
    BY <1>1, <1>3
  <2> QED BY <1>2, <1>4, <2>1, InLines
<1>12. InOrder'
  <2>1. ASSUME NEW p \in DOMAIN manifest', manifest'[p].lost # 0
        PROVE  manifest'[p].line.kind = "DEL"
    <3>1. CASE p = c + 2
      BY <1>2, <1>4, <3>1
    <3>2. CASE p # c + 2
      <4>1. p # c + 1
        BY <1>2, <1>4, <2>1
      <4>2. Was(p) \in DOMAIN manifest /\ manifest'[p] = manifest[Was(p)]
        BY <1>1, <1>3, <1>6, <3>2, <4>1
      <4> QED BY <2>1, <4>2 DEF InOrder
    <3> QED BY <3>1, <3>2
  <2>2. ASSUME NEW p \in DOMAIN manifest', NEW q \in DOMAIN manifest',
               manifest'[p].line.kind = "SST", manifest'[q].line.kind \in {"SST", "DEL"},
               manifest'[q].lost = 0, manifest'[p].line.id = manifest'[q].line.id
        PROVE  p = q \/ (p < q /\ manifest'[q].line.kind = "DEL")
    <3>1. p \notin {c + 1, c + 2} /\ q \notin {c + 1, c + 2}
      BY <1>2, <1>4, <2>2
    <3>2. /\ Was(p) \in DOMAIN manifest /\ manifest'[p] = manifest[Was(p)]
          /\ Was(q) \in DOMAIN manifest /\ manifest'[q] = manifest[Was(q)]
      BY <1>1, <1>3, <1>6, <3>1
    <3>3. Was(p) = Was(q) \/ (Was(p) < Was(q) /\ manifest[Was(q)].line.kind = "DEL")
      BY <2>2, <3>2 DEF InOrder, IdAt
    <3> QED BY <1>3, <1>7, <3>1, <3>2, <3>3
  <2> QED BY <2>1, <2>2 DEF InOrder, IdAt
<1>13. manifest'[cursor' + 1].line = DelLine(0, x)
  <2>1. cursor' + 1 = c + 2
    BY <1>1, <1>2
  <2> QED BY <1>2, <1>4, <2>1
<1> QED BY <1>2, <1>9, <1>10, <1>11, <1>12, <1>13 DEF c, N

\* The Lsm is building a table.
Writing == fpc \in {"finish", "list"}

\* Ids are given out in order: m have been listed.
Numbered(m) ==
    /\ \A x \in Ids : x \in SstIds <=> x <= m
    /\ \A l \in 0 .. 1 : \A x \in Ids : DelLine(l, x) \in Lines => x <= m

\* What the two copies of the manifest give out next, and have given out.
Given(m) ==
    /\ status \in {"up", "closing"} => 1 <= next_sst_id /\ (next_sst_id <= m + 1 \/ Writing)
    /\ Writing => flushing.id = m + 1 /\ next_sst_id = m + 2 /\ ~Building
    /\ fpc = "open" => flushing.id <= m
    /\ cpc \in {"inputs", "output"} => 1 <= own.next /\ own.next <= m + 1
    /\ Building => output.id = m + 1

\* The first line that the Lsm will write over removes a level 0 table and is
\* whole, but for one that its last rotation has shortened, and then the id it
\* gives out next is taken.
Overtaken(m) ==
    /\ Behind =>
          /\ \E x \in Ids : manifest[cursor + 1].line = DelLine(0, x)
          /\ fpc # "create" => manifest[cursor + 1].lost = 0
          /\ next_sst_id <= m \/ cpc \in {"delete", "unlink"}
    /\ 0 <= cursor /\ (cpc = "unlink" \/ done > 0) => Behind

\* The level 1 table is an input that has not been removed.
Merging(m) ==
    /\ Working => \A n \in DOMAIN inputs : inputs[n].id <= m
    /\ Working => \A x \in Live(1) : \E n \in DOMAIN inputs :
                     inputs[n].id = x /\ n > done /\ (cpc = "unlink" => n > done + 1)
    /\ cpc = "load" => inputs[1].id \in Live(0)
    /\ Working /\ cpc # "load" => \A x \in own.listed[0] : SstLine(0, x) \in Lines
    /\ Working /\ cpc \notin {"load", "unlink"} /\ done = 0 => inputs[1].id \in own.listed[0]
    /\ \A x, y \in Live(1) : x = y

Sound(m) == InOrder /\ Numbered(m) /\ Given(m) /\ Overtaken(m) /\ Merging(m)

\* The types that the steps below use.
LEMMA SoundTypes ==
    ASSUME TypeInv
    PROVE  /\ next_sst_id \in Nat /\ flushing.id \in 0 .. MaxId /\ output.id \in 0 .. MaxId
           /\ own.next \in Nat /\ done \in Nat /\ Len(inputs) \in Nat /\ done <= Len(inputs)
           /\ DOMAIN inputs = 1 .. Len(inputs) /\ \A n \in DOMAIN inputs : inputs[n].id \in Ids
           /\ cursor \in Int /\ -1 <= cursor /\ cursor <= Len(manifest) /\ Len(manifest) \in Nat
           /\ MaxId \in Nat /\ own.listed[0] \in SUBSET Ids
           /\ status \in {"up", "closing", "down", "failed"}
           /\ MaxId \in Nat \ {0} /\ Ids = 1 .. MaxId
<1> USE DEF TypeInv, TypeOK
<1>1. \A n \in DOMAIN inputs : inputs[n].id \in Ids
  <2>1. \A h \in Handles : h.id \in Ids
    BY DEF Handles
  <2>2. \A h \in [id : Ids] : h.id \in Ids
    OBVIOUS
  <2> DEFINE T == IF Opened THEN Handles ELSE [id : Ids]
  <2>3. \A h \in T : h.id \in Ids
    BY <2>1, <2>2
  <2>4. inputs \in Seq(T)
    BY DEF ThreadOK
  <2> HIDE DEF T
  <2> QED BY <2>3, <2>4
<1>2. DOMAIN inputs = 1 .. Len(inputs) /\ Len(inputs) \in Nat
  BY DEF ThreadOK
<1>3. MaxId \in Nat \ {0} /\ Ids = 1 .. MaxId
  BY CompactionAssumption DEF Ids
<1>4. own.listed[0] \in SUBSET Ids /\ own.next \in Nat /\ output.id \in 0 .. MaxId /\ done \in Nat
  BY DEF ThreadOK
<1>5. /\ next_sst_id \in Nat /\ flushing.id \in 0 .. MaxId
      /\ cursor \in Int /\ -1 <= cursor /\ cursor <= Len(manifest)
      /\ status \in {"up", "closing", "down", "failed"}
  BY DEF LsmOK
<1>6. Len(manifest) \in Nat
  BY DEF FilesOK
<1> QED BY <1>1, <1>2, <1>3, <1>4, <1>5, <1>6 DEF Placed

\* A step that leaves the manifest alone.
LEMMA SameLines ==
    ASSUME UNCHANGED manifest
    PROVE  /\ Lines' = Lines /\ SstIds' = SstIds /\ \A l : Live(l)' = Live(l)
           /\ InOrder => InOrder'
           /\ \A m : Numbered(m) => Numbered(m)'
<1>1. Lines' = Lines
  BY DEF Lines
<1>2. SstIds' = SstIds /\ \A l : Live(l)' = Live(l)
  BY <1>1 DEF SstIds, Live, SstLine, DelLine
<1>3. InOrder => InOrder'
  BY DEF InOrder, IdAt
<1> QED BY <1>1, <1>2, <1>3 DEF Numbered, DelLine

\* The ids that load counts on from are those that have been listed, and the next
\* is the one after them.
LEMMA NextSstId ==
    ASSUME TypeInv, InOrder, NEW m \in Nat, Numbered(m), m <= MaxId
    PROVE  NextId("SST") = m + 1
<1> DEFINE I == {IdAt(p) : p \in {q \in DOMAIN manifest :
                          manifest[q].lost = 0 /\ manifest[q].line.kind = "SST"}}
<1>1. /\ NextId("SST") \in Nat \ {0} /\ NextId("SST") - 1 \in {0} \cup I
      /\ \A x \in I : x < NextId("SST")
  BY NextIdIs DEF TypeInv, TypeOK
<1>2. \A p \in DOMAIN manifest : manifest[p].line \in Written
  BY LinesOf DEF TypeInv, TypeOK, FilesOK
<1>3. ASSUME NEW x \in I PROVE x \in SstIds
  <2>1. PICK p \in DOMAIN manifest : /\ manifest[p].lost = 0 /\ manifest[p].line.kind = "SST"
                                     /\ x = manifest[p].line.id
    BY DEF IdAt
  <2>2. manifest[p].line \in Lines
    BY <2>1, InLines
  <2> QED BY <1>2, <2>1, <2>2, LineParts DEF SstIds
<1>4. ASSUME NEW x \in SstIds PROVE x \in I
  <2>1. PICK l : SstLine(l, x) \in Lines
    BY DEF SstIds
  <2>2. PICK p \in DOMAIN manifest : manifest[p].line = SstLine(l, x) /\ manifest[p].lost = 0
    BY <2>1, InLines
  <2> QED BY <2>2, LineParts DEF IdAt
<1> HIDE DEF I
<1>5. MaxId \in Nat \ {0} /\ Ids = 1 .. MaxId
  BY SoundTypes
<1>6. \A x \in I : x \in Nat /\ x <= m
  BY <1>3, <1>5 DEF Numbered, SstIds
<1>7. m = 0 \/ m \in I
  BY <1>4, <1>5 DEF Numbered
<1> DEFINE k == NextId("SST")
<1>8. k \in Nat /\ k >= 1 /\ (k - 1 = 0 \/ k - 1 <= m) /\ (m = 0 \/ m < k)
  BY <1>1, <1>6, <1>7
<1> HIDE DEF k
<1>9. k = m + 1
  BY <1>8
<1> QED BY <1>9 DEF k

\* Every listed id has been given out.
LEMMA ListedGivenOut ==
    ASSUME NEW x \in SstIds
    PROVE  GivenOut(x)
<1>1. PICK l : SstLine(l, x) \in Lines
  BY DEF SstIds
<1>2. PICK p \in DOMAIN manifest : manifest[p].line = SstLine(l, x)
  BY <1>1, InLines
<1> QED BY <1>2, LineParts DEF GivenOut

\* A round goes back to waiting.
LEMMA SoundWaits ==
    ASSUME TypeInv, NEW m \in Nat, Sound(m), UNCHANGED <<manifest, lsm>>,
           cpc \notin {"delete", "unlink"}, cpc' \in {"wait", "woken", "pick", "exited", "panicked"},
           done' = 0
    PROVE  Sound(m)'
<1> USE DEF Working, Building, Writing
<1>1. InOrder' /\ Numbered(m)' /\ Live(1)' = Live(1)
  BY SameLines DEF Sound
<1>2. Given(m)'
  BY DEF Sound, Given, lsm
<1>3. Overtaken(m)'
  <2>1. /\ Behind' <=> Behind
        /\ UNCHANGED <<manifest, cursor, fpc, next_sst_id>>
    BY DEF Behind, lsm
  <2>2. done' = 0 /\ ~(0 > 0) /\ cpc' # "unlink"
    OBVIOUS
  <2>3. Behind => /\ \E x \in Ids : manifest[cursor + 1].line = DelLine(0, x)
                  /\ fpc # "create" => manifest[cursor + 1].lost = 0
                  /\ next_sst_id <= m
    BY DEF Sound, Overtaken
  <2> QED BY <2>1, <2>2, <2>3 DEF Overtaken, DelLine
<1>4. Merging(m)'
  BY <1>1 DEF Sound, Merging
<1> QED BY <1>1, <1>2, <1>3, <1>4 DEF Sound

\* Pick: every level 1 table is among the inputs, and a level 0 table is the first.
LEMMA SoundPick ==
    ASSUME TypeInv, TypeInv', NEW m \in Nat, Sound(m), Pick
    PROVE  Sound(m)'
<1> USE DEF Working, Building, Writing
<1> DEFINE a   == IdsAt(Listed(0))
           b   == IdsAt(Listed(1))
           ids == a \o b
<1>1. /\ cpc = "pick" /\ cpc' = (IF Cardinality(Listed(0)) >= Trigger THEN "load" ELSE "wait")
      /\ inputs' = IF cpc' = "load" THEN [i \in DOMAIN ids |-> [id |-> ids[i]]] ELSE <<>>
      /\ UNCHANGED <<files, lsm, own, output, done>>
  BY DEF Pick, Thread
<1>2. InOrder' /\ Numbered(m)' /\ Lines' = Lines /\ \A l : Live(l)' = Live(l)
  BY <1>1, SameLines DEF Sound, files
<1>3. Given(m)' /\ Overtaken(m)'
  BY <1>1 DEF Sound, Given, Overtaken, Behind, lsm, files, DelLine
<1>4. done' = 0
  BY <1>1 DEF TypeInv, Placed
<1>5. Merging(m)'
  <2>1. CASE cpc' = "wait"
    BY <1>2, <1>4, <2>1 DEF Sound, Merging
  <2>2. CASE cpc' = "load"
    <3>1. /\ a \in Seq(Ids) /\ Len(a) = Cardinality(Listed(0)) /\ Len(a) \in Nat
          /\ \A n \in 1 .. Len(a) : \E p \in Listed(0) : a[n] = IdAt(p)
      <4>1. Listed(0) \in SUBSET DOMAIN manifest /\ \A p \in Listed(0) : IdAt(p) \in Ids
        BY ListedLines DEF TypeInv
      <4> QED BY <4>1, IdsAtPlaces DEF TypeInv
    <3>2. /\ b \in Seq(Ids) /\ Len(b) \in Nat
          /\ \A n \in 1 .. Len(b) : \E p \in Listed(1) : b[n] = IdAt(p)
          /\ \A p \in Listed(1) : \E n \in 1 .. Len(b) : b[n] = IdAt(p)
      <4>1. Listed(1) \in SUBSET DOMAIN manifest /\ \A p \in Listed(1) : IdAt(p) \in Ids
        BY ListedLines DEF TypeInv
      <4> QED BY <4>1, IdsAtPlaces DEF TypeInv
    <3>3. Len(a) >= 1
      BY <1>1, <2>2, <3>1, CompactionAssumption
    <3>4. /\ ListedIds(0) = Live(0) /\ ListedIds(1) = Live(1)
      BY LiveIsListed DEF TypeInv, Sound
    <3> HIDE DEF a, b
    <3>5. /\ ids \in Seq(Ids) /\ Len(ids) = Len(a) + Len(b)
          /\ \A i \in 1 .. Len(a) : ids[i] = a[i]
          /\ \A i \in 1 .. Len(b) : ids[Len(a) + i] = b[i]
      <4>1. a \in Seq(Ids) /\ b \in Seq(Ids)
        BY <3>1, <3>2
      <4> QED BY <4>1, ConcatIs
    <3> HIDE DEF ids
    <3>6. /\ DOMAIN inputs' = 1 .. Len(a) + Len(b)
          /\ \A n \in 1 .. Len(a) + Len(b) : inputs'[n].id = ids[n]
      <4>1. DOMAIN ids = 1 .. Len(a) + Len(b)
        BY <3>5
      <4> QED BY <1>1, <2>2, <4>1
    <3>7. inputs'[1].id \in Live(0)
      <4>1. 1 \in 1 .. Len(a) /\ 1 \in 1 .. Len(a) + Len(b)
        BY <3>1, <3>2, <3>3
      <4>2. PICK p \in Listed(0) : a[1] = IdAt(p)
        BY <3>1, <4>1
      <4>3. inputs'[1].id = IdAt(p)
        BY <3>5, <3>6, <4>1, <4>2
      <4> QED BY <3>4, <4>3 DEF ListedIds
    <3>8. ASSUME NEW n \in DOMAIN inputs' PROVE inputs'[n].id <= m
      <4>1. ids[n] \in Live(0) \cup Live(1)
        <5>1. CASE n <= Len(a)
          <6>1. n \in 1 .. Len(a)
            BY <3>1, <3>6, <5>1
          <6>2. PICK p \in Listed(0) : a[n] = IdAt(p)
            BY <3>1, <6>1
          <6> QED BY <3>4, <3>5, <6>1, <6>2 DEF ListedIds
        <5>2. CASE n > Len(a)
          <6> DEFINE i == n - Len(a)
          <6>1. i \in 1 .. Len(b) /\ Len(a) + i = n
            BY <3>1, <3>2, <3>6, <5>2
          <6> HIDE DEF i
          <6>2. PICK p \in Listed(1) : b[i] = IdAt(p)
            BY <3>2, <6>1
          <6>3. ids[Len(a) + i] = b[i]
            BY <3>5, <6>1
          <6> QED BY <3>4, <6>1, <6>2, <6>3 DEF ListedIds
        <5> QED BY <3>1, <3>6, <5>1, <5>2
      <4>2. inputs'[n].id \in Ids /\ inputs'[n].id \in SstIds
        BY <3>6, <4>1 DEF Live, SstIds
      <4> QED BY <4>2 DEF Sound, Numbered
    <3>9. ASSUME NEW x \in Live(1) PROVE \E n \in DOMAIN inputs' : inputs'[n].id = x /\ n > 0
      <4>1. PICK p \in Listed(1) : x = IdAt(p)
        BY <3>4 DEF ListedIds
      <4>2. PICK i \in 1 .. Len(b) : b[i] = IdAt(p)
        BY <3>2
      <4>3. Len(a) + i \in DOMAIN inputs' /\ Len(a) + i > 0 /\ Len(a) + i \in 1 .. Len(a) + Len(b)
        BY <3>1, <3>2, <3>6
      <4>4. inputs'[Len(a) + i].id = x
        BY <3>5, <3>6, <4>1, <4>2, <4>3
      <4> QED BY <4>3, <4>4
    <3>10. \A x, y \in Live(1) : x = y
      BY DEF Sound, Merging
    <3> QED BY <1>2, <1>4, <2>2, <3>7, <3>8, <3>9, <3>10 DEF Merging
  <2> QED BY <1>1, <2>1, <2>2
<1> QED BY <1>2, <1>3, <1>5 DEF Sound

\* LoadAgain: the id that the thread will give its output is at most the next.
LEMMA SoundLoad ==
    ASSUME TypeInv, TypeInv', NEW m \in 0 .. MaxId, Sound(m), LoadAgain
    PROVE  Sound(m)'
<1> USE DEF Working, Building, Writing
<1>1. /\ cpc = "load" /\ cpc' = "inputs" /\ own' = Load
      /\ UNCHANGED <<files, lsm, inputs, output, done>>
  BY DEF LoadAgain, Thread
<1>2. InOrder' /\ Numbered(m)' /\ Lines' = Lines /\ \A l : Live(l)' = Live(l)
  BY <1>1, SameLines DEF Sound, files
<1>3. own'.next = NextId("SST") /\ own'.listed[0] = Live(0)
  <2>1. own'.next = NextId("SST") /\ own'.listed = [l \in 0 .. 1 |-> ListedIds(l)]
    BY <1>1 DEF Load
  <2>2. own'.listed[0] = ListedIds(0)
    BY <2>1
  <2> QED BY <2>1, <2>2, LiveIsListed DEF TypeInv, Sound
<1>6. 1 <= own'.next /\ own'.next <= m + 1
  BY <1>3, NextSstId DEF Sound
<1>7. Given(m)' /\ Overtaken(m)'
  BY <1>1, <1>6 DEF Sound, Given, Overtaken, Behind, lsm, files, DelLine
<1>8. done' = 0
  BY <1>1 DEF TypeInv, Placed
<1>9. Merging(m)'
  <2>1. \A x \in own'.listed[0] : SstLine(0, x) \in Lines'
    BY <1>2, <1>3 DEF Live
  <2>2. \A x \in own'.listed[0] : (SstLine(0, x) \in Lines)'
    BY <2>1 DEF SstLine
  <2>3. inputs'[1].id \in own'.listed[0]
    BY <1>1, <1>3 DEF Sound, Merging
  <2>4. /\ \A n \in DOMAIN inputs : inputs[n].id <= m
        /\ \A x \in Live(1) : \E n \in DOMAIN inputs : inputs[n].id = x /\ n > done
        /\ \A x, y \in Live(1) : x = y
    BY <1>1 DEF Sound, Merging
  <2> QED BY <1>1, <1>2, <2>2, <2>3, <2>4 DEF Merging
<1> QED BY <1>2, <1>7, <1>9 DEF Sound

\* OpenInputs and MergeInputs: the ids stay.
LEMMA SoundInputs ==
    ASSUME TypeInv, TypeInv', NEW m \in 0 .. MaxId, Sound(m), OpenInputs \/ MergeInputs
    PROVE  Sound(m)'
<1> USE DEF Working, Building, Writing
<1>1. /\ \/ cpc = "inputs" /\ cpc' = "output"
         \/ cpc = "merge" /\ cpc' = "delete"
      /\ UNCHANGED <<manifest, lsm, own, output, done>>
  BY DEF OpenInputs, MergeInputs, Thread, files
<1>2. InOrder' /\ Numbered(m)' /\ Lines' = Lines /\ \A l : Live(l)' = Live(l)
  BY <1>1, SameLines DEF Sound
<1>3. done = 0 /\ inputs # <<>>
  BY <1>1 DEF TypeInv, Placed
<1>4. /\ DOMAIN inputs' = DOMAIN inputs /\ 1 \in DOMAIN inputs
      /\ \A n \in DOMAIN inputs : inputs'[n].id = inputs[n].id
  <2>1. 1 \in DOMAIN inputs
    BY <1>3, EmptySeq DEF TypeInv, TypeOK, ThreadOK
  <2>2. CASE MergeInputs
    BY <2>1, <2>2 DEF MergeInputs
  <2>3. CASE OpenInputs
    BY <2>1, <2>3 DEF OpenInputs, Reopened, Handle
  <2> QED BY <2>2, <2>3
<1>5. Given(m)'
  BY <1>1 DEF Sound, Given, lsm
<1>6. Overtaken(m)'
  <2>1. Behind' <=> Behind
    BY <1>1 DEF Behind, lsm
  <2> QED BY <1>1, <1>3, <2>1 DEF Sound, Overtaken, lsm, DelLine
<1>7. Merging(m)'
  <2>1. \A x \in own'.listed[0] : (SstLine(0, x) \in Lines)'
    BY <1>1, <1>2 DEF Sound, Merging, SstLine
  <2>2. inputs'[1].id \in own'.listed[0]
    BY <1>1, <1>3, <1>4 DEF Sound, Merging
  <2>3. /\ \A n \in DOMAIN inputs : inputs[n].id <= m
        /\ \A x \in Live(1) : \E n \in DOMAIN inputs : inputs[n].id = x /\ n > done
        /\ \A x, y \in Live(1) : x = y
    BY <1>1 DEF Sound, Merging
  <2>4. \A n \in DOMAIN inputs' : inputs'[n].id <= m
    BY <1>4, <2>3
  <2>5. \A x \in Live(1) : \E n \in DOMAIN inputs' : inputs'[n].id = x /\ n > done'
    BY <1>1, <1>4, <2>3
  <2> QED BY <1>1, <1>2, <2>1, <2>2, <2>3, <2>4, <2>5 DEF Merging
<1> QED BY <1>2, <1>5, <1>6, <1>7 DEF Sound

\* CreateOutput: the id was not given out, so the Lsm is not building.
LEMMA SoundCreateOutput ==
    ASSUME TypeInv, TypeInv', NEW m \in 0 .. MaxId, Sound(m), CreateOutput, ~reused'
    PROVE  Sound(m)'
<1> USE DEF Working, Building, Writing
<1>1. /\ cpc = "output" /\ cpc' = "merge" /\ own.next \in Ids
      /\ output'.id = own.next /\ ~GivenOut(own.next)
      /\ UNCHANGED <<manifest, lsm, own, inputs, done>>
  BY DEF CreateOutput, Thread
<1>2. InOrder' /\ Numbered(m)' /\ Lines' = Lines /\ \A l : Live(l)' = Live(l)
  BY <1>1, SameLines DEF Sound
<1>3. own.next = m + 1 /\ ~Writing
  <2>1. own.next \notin SstIds
    BY <1>1, ListedGivenOut
  <2>2. ~(own.next <= m)
    BY <1>1, <2>1 DEF Sound, Numbered
  <2>3. own.next <= m + 1
    BY <1>1 DEF Sound, Given
  <2>4. own.next = m + 1
    BY <2>2, <2>3, SoundTypes
  <2>5. flushing.id # own.next
    BY <1>1 DEF GivenOut
  <2> QED BY <2>4, <2>5 DEF Sound, Given
<1>4. Given(m)'
  BY <1>1, <1>3 DEF Sound, Given, lsm
<1>5. Overtaken(m)'
  <2>1. Behind' <=> Behind
    BY <1>1 DEF Behind, lsm
  <2> QED BY <1>1, <2>1 DEF Sound, Overtaken, lsm, DelLine
<1>6. Merging(m)'
  BY <1>1, <1>2 DEF Sound, Merging, SstLine
<1> QED BY <1>2, <1>4, <1>5, <1>6 DEF Sound

\* RemoveSst: the line is of the level that the input is listed for.
LEMMA SoundRemoveSst ==
    ASSUME TypeInv, TypeInv', NEW m \in 0 .. MaxId, Sound(m), RemoveSst
    PROVE  Sound(m)' /\ \A l \in 0 .. 1 : \A y \in Live(l) : y # Input => y \in Live(l)'
<1> USE DEF Working, Building, Writing
<1> DEFINE level == IF Input \in own.listed[0] THEN 0 ELSE 1
           x     == Input
<1>0. /\ done \in Nat /\ DOMAIN inputs = 1 .. Len(inputs) /\ Len(inputs) \in Nat
      /\ \A n \in DOMAIN inputs : inputs[n].id \in Ids
      /\ cursor \in Int /\ -1 <= cursor /\ cursor <= Len(manifest) /\ Len(manifest) \in Nat
  BY SoundTypes
<1>1. /\ cpc = "delete" /\ cpc' = "unlink" /\ done < Len(inputs)
      /\ manifest' = Append(manifest, InFile(DelLine(level, x)))
      /\ UNCHANGED <<lsm, inputs, output, done>>
  BY DEF RemoveSst, Thread, AppendLine, AtTheEnd
<1>2. done + 1 \in DOMAIN inputs /\ x \in Ids /\ level \in 0 .. 1 /\ x <= m
  BY <1>0, <1>1 DEF Input, Sound, Merging
<1>3. own'.listed[0] \in SUBSET own.listed[0] /\ own'.next = own.next
  <2>1. own' = [own EXCEPT !.listed[level] = @ \ {Input}]
    BY DEF RemoveSst
  <2>2. own \in [listed : [0 .. 1 -> SUBSET Ids], next : Nat]
    BY DEF TypeInv, TypeOK, ThreadOK
  <2> HIDE DEF level
  <2>3. own'.listed = [own.listed EXCEPT ![level] = @ \ {Input}] /\ own'.next = own.next
    BY <2>1, <2>2
  <2> QED BY <1>2, <2>2, <2>3
<1> HIDE DEF level, x
<1>4. /\ Lines' = Lines \cup {DelLine(level, x)} /\ InOrder'
      /\ Len(manifest') = Len(manifest) + 1
      /\ \A p \in 1 .. Len(manifest) : manifest'[p] = manifest[p]
  <2>1. DelLine(level, x) \in Written /\ DelLine(level, x).kind # "SST"
    BY <1>2, LineTypes, LineParts
  <2> QED BY <1>1, <2>1, AppendedLines DEF TypeInv, Sound
<1>5. /\ \A l, y : SstLine(l, y) \in Lines' <=> SstLine(l, y) \in Lines
      /\ \A l, y : DelLine(l, y) \in Lines' <=> DelLine(l, y) \in Lines \/ (l = level /\ y = x)
  BY <1>4, LineParts
<1>6. Numbered(m)'
  <2>1. SstIds' = SstIds
    BY <1>5 DEF SstIds, SstLine
  <2>2. \A l \in 0 .. 1 : \A y \in Ids : (DelLine(l, y) \in Lines)' => y <= m
    BY <1>2, <1>5 DEF Sound, Numbered, DelLine
  <2> QED BY <2>1, <2>2 DEF Sound, Numbered
<1>7. Live(1)' \in SUBSET Live(1) /\ (level = 1 => x \notin Live(1)')
  BY <1>5 DEF Live, SstLine, DelLine
<1>8. Given(m)'
  BY <1>1 DEF Sound, Given, lsm
<1>9. Overtaken(m)'
  <2>0. UNCHANGED <<cursor, fpc, next_sst_id>> /\ (Behind' <=> 0 <= cursor)
    BY <1>0, <1>1, <1>4 DEF Behind, lsm
  <2>1. CASE Behind
    <3>1. cursor + 1 \in 1 .. Len(manifest)
      BY <1>0, <2>1 DEF Behind
    <3>2. manifest'[cursor' + 1] = manifest[cursor + 1]
      BY <1>4, <2>0, <3>1
    <3>3. (\E y \in Ids : manifest'[cursor' + 1].line = DelLine(0, y))
          /\ (fpc # "create" => manifest'[cursor' + 1].lost = 0)
      BY <2>1, <3>2 DEF Sound, Overtaken
    <3> QED BY <1>1, <2>0, <3>3 DEF Overtaken, DelLine
  <2>2. CASE ~Behind /\ 0 <= cursor
    <3>1. cursor = Len(manifest) /\ done = 0
      <4>1. cursor = Len(manifest)
        BY <1>0, <2>2 DEF Behind
      <4>2. ~(done > 0)
        BY <2>2 DEF Sound, Overtaken
      <4> QED BY <1>0, <4>1, <4>2
    <3>2. level = 0
      <4>1. inputs[1].id \in own.listed[0]
        BY <1>1, <3>1 DEF Sound, Merging
      <4> QED BY <3>1, <4>1 DEF level, Input
    <3>3. manifest'[cursor' + 1] = InFile(DelLine(0, x))
      <4>1. DelLine(level, x) \in Written
        BY <1>2, LineTypes
      <4>2. InFile(DelLine(level, x)) \in ManifestLine /\ manifest \in Seq(ManifestLine)
        BY <4>1, LineTypes DEF TypeInv, TypeOK, FilesOK
      <4>3. manifest'[Len(manifest) + 1] = InFile(DelLine(level, x))
        BY <1>1, <4>2, AppendProperties
      <4> QED BY <2>0, <3>1, <3>2, <4>3
    <3>4. manifest'[cursor' + 1].line = DelLine(0, x) /\ manifest'[cursor' + 1].lost = 0
      BY <3>3, LineParts
    <3> QED BY <1>1, <1>2, <2>0, <3>4 DEF Overtaken, DelLine
  <2>3. CASE ~(0 <= cursor)
    BY <2>0, <2>3 DEF Overtaken
  <2> QED BY <2>1, <2>2, <2>3
<1>10. Merging(m)'
  <2>1. \A y \in own'.listed[0] : (SstLine(0, y) \in Lines)'
    BY <1>1, <1>3, <1>5 DEF Sound, Merging, SstLine
  <2>2. ASSUME NEW y \in Live(1)'
        PROVE  \E n \in DOMAIN inputs : inputs[n].id = y /\ n > done /\ n > done + 1
    <3>1. PICK n \in DOMAIN inputs : inputs[n].id = y /\ n > done
      BY <1>1, <1>7, <2>2 DEF Sound, Merging
    <3>2. n # done + 1
      <4> SUFFICES ASSUME n = done + 1 PROVE FALSE
        OBVIOUS
      <4>1. y = x
        BY <3>1 DEF x, Input
      <4>2. x \in Live(1)
        BY <1>7, <4>1
      <4>3. x \notin own.listed[0]
        <5> SUFFICES ASSUME x \in own.listed[0] PROVE FALSE
          OBVIOUS
        <5>1. SstLine(0, x) \in Lines
          BY <1>1 DEF Sound, Merging
        <5> QED BY <4>2, <5>1, OneLevel DEF Sound, Live
      <4>4. level = 1
        BY <4>3 DEF level, x
      <4> QED BY <1>7, <2>2, <4>1, <4>4
    <3>3. n > done + 1
      BY <1>0, <3>1, <3>2
    <3> QED BY <3>1, <3>3
  <2>3. /\ \A n \in DOMAIN inputs : inputs[n].id <= m
        /\ \A y, z \in Live(1) : y = z
    BY <1>1 DEF Sound, Merging
  <2> QED BY <1>1, <1>7, <2>1, <2>2, <2>3 DEF Merging
<1>11. \A l \in 0 .. 1 : \A y \in Live(l) : y # Input => y \in Live(l)'
  BY <1>5 DEF Live, SstLine, DelLine, x
<1> QED BY <1>4, <1>6, <1>8, <1>9, <1>10, <1>11 DEF Sound

\* RemoveFile: one input fewer.
LEMMA SoundRemoveFile ==
    ASSUME TypeInv, TypeInv', NEW m \in 0 .. MaxId, Sound(m), RemoveFile
    PROVE  Sound(m)'
<1> USE DEF Working, Building, Writing
<1>1. /\ cpc = "unlink" /\ cpc' = "delete" /\ done' = done + 1 /\ done \in Nat
      /\ UNCHANGED <<manifest, lsm, own, inputs, output>>
  BY SoundTypes DEF RemoveFile, Thread
<1>2. InOrder' /\ Numbered(m)' /\ Lines' = Lines /\ \A l : Live(l)' = Live(l)
  BY <1>1, SameLines DEF Sound
<1>3. Given(m)'
  BY <1>1 DEF Sound, Given, lsm
<1>4. Overtaken(m)'
  <2>1. Behind' <=> Behind
    BY <1>1 DEF Behind, lsm
  <2> QED BY <1>1, <2>1 DEF Sound, Overtaken, lsm, DelLine
<1>5. Merging(m)'
  BY <1>1, <1>2 DEF Sound, Merging, SstLine
<1> QED BY <1>2, <1>3, <1>4, <1>5 DEF Sound

\* AddSst: no level 1 table is left, and the next id is taken for the Lsm too.
LEMMA SoundAddSst ==
    ASSUME TypeInv, TypeInv', NEW m \in 0 .. MaxId, Sound(m), AddSst
    PROVE  /\ m + 1 \in 0 .. MaxId /\ Sound(m + 1)'
           /\ output.id \in Live(1)' /\ \A l \in 0 .. 1 : \A y \in Live(l) : y \in Live(l)'
<1> USE DEF Working, Building, Writing
<1>0. /\ done \in Nat /\ DOMAIN inputs = 1 .. Len(inputs) /\ Len(inputs) \in Nat
      /\ cursor \in Int /\ -1 <= cursor /\ cursor <= Len(manifest) /\ Len(manifest) \in Nat
      /\ next_sst_id \in Nat /\ output.id \in 0 .. MaxId /\ MaxId \in Nat /\ Ids = 1 .. MaxId
      /\ flushing.id \in 0 .. MaxId
  BY SoundTypes
<1>1. /\ cpc = "delete" /\ cpc' = "wait" /\ done = Len(inputs) /\ done' = 0
      /\ manifest' = Append(manifest, InFile(SstLine(1, output.id)))
      /\ status \in {"up", "closing"} /\ UNCHANGED lsm
  BY DEF AddSst, Thread, AppendLine, AtTheEnd, Forget
<1>2. output.id = m + 1 /\ m + 1 \in 0 .. MaxId /\ m + 1 \in Ids /\ ~Writing
      /\ next_sst_id <= m + 1
  <2>1. output.id = m + 1 /\ ~Writing /\ (next_sst_id <= m + 1 \/ Writing)
    BY <1>1 DEF Sound, Given
  <2> QED BY <1>0, <2>1
<1>3. m + 1 \notin SstIds /\ \A l \in 0 .. 1 : DelLine(l, m + 1) \notin Lines
  BY <1>0, <1>2 DEF Sound, Numbered
<1>4. /\ Lines' = Lines \cup {SstLine(1, m + 1)} /\ InOrder'
      /\ Len(manifest') = Len(manifest) + 1
      /\ \A p \in 1 .. Len(manifest) : manifest'[p] = manifest[p]
  <2>1. SstLine(1, m + 1) \in Written /\ SstLine(1, m + 1).id = m + 1
    BY <1>2, LineTypes, LineParts
  <2> QED BY <1>1, <1>2, <1>3, <2>1, AppendedLines DEF TypeInv, Sound
<1>5. /\ \A l, y : SstLine(l, y) \in Lines' <=> SstLine(l, y) \in Lines \/ (l = 1 /\ y = m + 1)
      /\ \A l, y : DelLine(l, y) \in Lines' <=> DelLine(l, y) \in Lines
  BY <1>4, LineParts
<1>6. Numbered(m + 1)'
  <2>1. \A y \in Ids : y \in SstIds' <=> y \in SstIds \/ y = m + 1
    BY <1>5 DEF SstIds, SstLine
  <2>2. \A y \in Ids : y \in SstIds' <=> y <= m + 1
    BY <1>0, <2>1 DEF Sound, Numbered
  <2>3. \A l \in 0 .. 1 : \A y \in Ids : (DelLine(l, y) \in Lines)' => y <= m + 1
    BY <1>0, <1>5 DEF Sound, Numbered, DelLine
  <2> QED BY <2>2, <2>3 DEF Numbered
<1>7. \A y \in Live(1)' : y = m + 1
  <2>1. Live(1) = {}
    BY <1>0, <1>1 DEF Sound, Merging
  <2>2. \A y \in Live(1)' : y \in Live(1) \/ y = m + 1
    BY <1>5 DEF Live, SstLine, DelLine
  <2> QED BY <2>1, <2>2
<1>8. Given(m + 1)'
  <2>1. /\ status \in {"up", "closing"} => 1 <= next_sst_id
        /\ fpc = "open" => flushing.id <= m
    BY DEF Sound, Given
  <2>2. next_sst_id <= m + 1 + 1 /\ (fpc = "open" => flushing.id <= m + 1)
    BY <1>0, <1>2, <2>1
  <2> QED BY <1>1, <1>2, <2>1, <2>2 DEF Given, lsm
<1>9. Overtaken(m + 1)'
  <2>0. UNCHANGED <<cursor, fpc, next_sst_id>>
    BY <1>1 DEF lsm
  <2>1. CASE Behind
    <3>1. cursor + 1 \in 1 .. Len(manifest)
      BY <1>0, <2>1 DEF Behind
    <3>2. manifest'[cursor' + 1] = manifest[cursor + 1]
      BY <1>4, <2>0, <3>1
    <3>3. (\E y \in Ids : manifest'[cursor' + 1].line = DelLine(0, y))
          /\ (fpc # "create" => manifest'[cursor' + 1].lost = 0)
      BY <2>1, <3>2 DEF Sound, Overtaken
    <3>4. cpc' # "unlink" /\ ~(done' > 0)
      BY <1>1
    <3> QED BY <1>2, <2>0, <3>3, <3>4 DEF Overtaken, DelLine
  <2>2. CASE ~Behind
    <3>1. done > 0
      <4>1. inputs # <<>>
        BY <1>1 DEF TypeInv, Placed
      <4>2. Len(inputs) # 0
        BY <4>1, EmptySeq DEF TypeInv, TypeOK, ThreadOK
      <4> QED BY <1>0, <1>1, <4>2
    <3>2. ~(0 <= cursor)
      BY <2>2, <3>1 DEF Sound, Overtaken
    <3> QED BY <2>0, <3>2 DEF Overtaken, Behind
  <2> QED BY <2>1, <2>2
<1>10. Merging(m + 1)'
  BY <1>1, <1>7 DEF Merging
<1>11. output.id \in Live(1)' /\ \A l \in 0 .. 1 : \A y \in Live(l) : y \in Live(l)'
  <2>1. \A l \in 0 .. 1 : \A y \in Live(l) : y \in Live(l)'
    BY <1>5 DEF Live, SstLine, DelLine
  <2>2. output.id \in Live(1)'
    BY <1>2, <1>3, <1>5 DEF Live, SstLine, DelLine
  <2> QED BY <2>1, <2>2
<1> QED BY <1>2, <1>4, <1>6, <1>8, <1>9, <1>10, <1>11 DEF Sound

\* Rotate: the log's name may be written over the first line of the thread.
LEMMA SoundRotate ==
    ASSUME TypeInv, TypeInv', NEW m \in 0 .. MaxId, Sound(m), Rotate
    PROVE  Sound(m)' /\ Live(0) \in SUBSET Live(0)' /\ Live(1)' = Live(1)
<1> USE DEF Working, Building, Writing
<1> DEFINE ln == WalLine(next_wal_id)
<1>0. /\ cursor \in Int /\ -1 <= cursor /\ cursor <= Len(manifest) /\ Len(manifest) \in Nat
      /\ next_wal_id \in Nat
  BY SoundTypes DEF TypeInv, TypeOK, LsmOK
<1>1. /\ status = "up" /\ status' = "up" /\ fpc = "idle" /\ fpc' = "create" /\ LsmWrites(ln)
      /\ UNCHANGED <<dir, disk, next_sst_id, cpc, own, inputs, output, done>>
  BY DEF Rotate, thread
<1>2. /\ InOrder'
      /\ \A l, y : SstLine(l, y) \in Lines' <=> SstLine(l, y) \in Lines
      /\ \A y : DelLine(1, y) \in Lines' <=> DelLine(1, y) \in Lines
      /\ \A y : DelLine(0, y) \in Lines' => DelLine(0, y) \in Lines
      /\ Behind' <=> Behind
      /\ cursor' >= 0 => cursor >= 0
      /\ Behind => \E y \in Ids : manifest'[cursor' + 1].line = DelLine(0, y)
  <2>1. CASE Behind
    <3>1. PICK y \in Ids : manifest[cursor + 1].line = DelLine(0, y)
      BY <2>1 DEF Sound, Overtaken
    <3>2. manifest[cursor + 1].lost = 0
      BY <1>1, <2>1 DEF Sound, Overtaken
    <3>3. manifest[cursor + 1] \in ManifestLine
      <4>1. cursor + 1 \in 1 .. Len(manifest)
        BY <1>0, <2>1 DEF Behind
      <4> QED BY <4>1, LinesOf DEF TypeInv, TypeOK, FilesOK
    <3>4. manifest[cursor + 1] = InFile(DelLine(0, y))
      BY <3>1, <3>2, <3>3, LineParts
    <3>5. /\ InOrder'
          /\ \A e \in Lines' : e = ln \/ e \in Lines
          /\ \A e \in Lines : e = DelLine(0, y) \/ e \in Lines'
          /\ cursor' = cursor + 1 /\ Len(manifest') = Len(manifest) + 1
          /\ manifest'[cursor' + 1].line = DelLine(0, y)
      BY <1>0, <1>1, <2>1, <3>4, OverwrittenLines DEF TypeInv, Sound
    <3>6. Behind'
      BY <1>0, <2>1, <3>5 DEF Behind
    <3>7. \A l, z : SstLine(l, z) # ln /\ DelLine(l, z) # ln /\ SstLine(l, z) # DelLine(0, y)
                    /\ DelLine(1, z) # DelLine(0, y)
      BY LineParts
    <3> HIDE DEF ln
    <3> QED BY <2>1, <3>5, <3>6, <3>7 DEF Behind
  <2>2. CASE ~Behind
    <3>1. /\ manifest' = Append(manifest, InFile(ln))
          /\ \/ cursor = -1 /\ cursor' = -1
             \/ cursor = Len(manifest) /\ cursor' = Len(manifest) + 1
      BY <1>1, <2>2, LsmAppends DEF TypeInv
    <3>2. ln \in Written /\ ln.kind # "SST"
      BY <1>0, LineTypes, LineParts
    <3>3. Lines' = Lines \cup {ln} /\ InOrder' /\ Len(manifest') = Len(manifest) + 1
      BY <3>1, <3>2, AppendedLines DEF TypeInv, Sound
    <3>4. \A l, z : SstLine(l, z) # ln /\ DelLine(l, z) # ln
      BY LineParts
    <3>5. ~Behind' /\ (cursor' >= 0 => cursor >= 0)
      BY <1>0, <3>1, <3>3 DEF Behind
    <3> HIDE DEF ln
    <3> QED BY <2>2, <3>3, <3>4, <3>5
  <2> QED BY <2>1, <2>2
<1>3. Numbered(m)'
  <2>1. SstIds' = SstIds
    BY <1>2 DEF SstIds, SstLine
  <2>2. \A l \in 0 .. 1 : l = 0 \/ l = 1
    OBVIOUS
  <2>3. \A l \in 0 .. 1 : \A y \in Ids : (DelLine(l, y) \in Lines)' => y <= m
    BY <1>2, <2>2 DEF Sound, Numbered, DelLine
  <2> QED BY <2>1, <2>3 DEF Sound, Numbered
<1>4. Live(0) \in SUBSET Live(0)' /\ Live(1)' = Live(1)
  BY <1>2 DEF Live, SstLine, DelLine
<1>5. Given(m)'
  BY <1>1 DEF Sound, Given
<1>6. Overtaken(m)'
  <2>1. Behind => next_sst_id <= m \/ cpc \in {"delete", "unlink"}
    BY DEF Sound, Overtaken
  <2>2. cursor' \in Int
    BY DEF TypeInv, TypeOK, LsmOK
  <2>3. 0 <= cursor' /\ (cpc = "unlink" \/ done > 0) => Behind
    BY <1>0, <1>2, <2>2 DEF Sound, Overtaken
  <2> QED BY <1>1, <1>2, <2>1, <2>3 DEF Overtaken, DelLine
<1>7. Merging(m)'
  BY <1>1, <1>2, <1>4 DEF Sound, Merging, SstLine
<1> QED BY <1>2, <1>3, <1>4, <1>5, <1>6, <1>7 DEF Sound

\* CreateTable: the id was not given out, so the thread is not building and has
\* no line where the Lsm will write.
LEMMA SoundCreateTable ==
    ASSUME TypeInv, TypeInv', NEW m \in 0 .. MaxId, Sound(m), CreateTable, ~reused'
    PROVE  Sound(m)' /\ next_sst_id = m + 1 /\ ~Building
<1> USE DEF Working, Building, Writing
<1>0. /\ next_sst_id \in Nat /\ cursor \in Int /\ Len(manifest) \in Nat
  BY SoundTypes
<1>1. /\ fpc = "create" /\ fpc' = "finish" /\ next_sst_id \in Ids /\ ~GivenOut(next_sst_id)
      /\ next_sst_id' = next_sst_id + 1
      /\ UNCHANGED <<manifest, status, cursor, cpc, own, inputs, output, done>>
  BY DEF CreateTable, thread
<1>2. InOrder' /\ Numbered(m)' /\ Lines' = Lines /\ \A l : Live(l)' = Live(l)
  BY <1>1, SameLines DEF Sound
<1>3. flushing'.id = next_sst_id
  BY DEF CreateTable, TypeInv, TypeOK, LsmOK
<1>4. next_sst_id = m + 1 /\ ~Building
  <2>1. ~(next_sst_id <= m)
    BY <1>1, ListedGivenOut DEF Sound, Numbered
  <2>2. status = "up"
    BY <1>1 DEF TypeInv, Placed
  <2>3. next_sst_id <= m + 1
    BY <1>1, <2>2 DEF Sound, Given
  <2>4. output.id # next_sst_id
    BY <1>1 DEF GivenOut
  <2>5. next_sst_id = m + 1
    BY <1>0, <2>1, <2>3
  <2> QED BY <2>4, <2>5 DEF Sound, Given
<1>5. Given(m)'
  <2>1. next_sst_id' = m + 2 /\ 1 <= next_sst_id'
    BY <1>1, <1>4
  <2> QED BY <1>1, <1>3, <1>4, <2>1 DEF Sound, Given
<1>6. Overtaken(m)'
  <2>1. ~Behind
    BY <1>0, <1>4 DEF Sound, Overtaken
  <2>2. Behind' <=> Behind
    BY <1>1 DEF Behind
  <2> QED BY <1>1, <2>1, <2>2 DEF Sound, Overtaken
<1>7. Merging(m)'
  BY <1>1, <1>2 DEF Sound, Merging, SstLine
<1> QED BY <1>2, <1>4, <1>5, <1>6, <1>7 DEF Sound

\* ListTable: the line is the last of the manifest.
LEMMA SoundListTable ==
    ASSUME TypeInv, TypeInv', NEW m \in 0 .. MaxId, Sound(m), ListTable
    PROVE  /\ m + 1 \in 0 .. MaxId /\ Sound(m + 1)'
           /\ flushing.id \in Live(0)' /\ Live(0) \in SUBSET Live(0)' /\ Live(1)' = Live(1)
<1> USE DEF Working, Building, Writing
<1> DEFINE x == flushing.id
<1>0. /\ cursor \in Int /\ -1 <= cursor /\ cursor <= Len(manifest) /\ Len(manifest) \in Nat
      /\ next_sst_id \in Nat /\ x \in 0 .. MaxId /\ MaxId \in Nat /\ Ids = 1 .. MaxId
      /\ output.id \in 0 .. MaxId /\ own.next \in Nat
      /\ DOMAIN inputs = 1 .. Len(inputs) /\ \A n \in DOMAIN inputs : inputs[n].id \in Ids
  BY SoundTypes
<1>1. /\ fpc = "list" /\ fpc' = "open" /\ LsmWrites(SstLine(0, x)) /\ UNCHANGED flushing
      /\ UNCHANGED <<dir, disk, status, next_sst_id, cpc, own, inputs, output, done>>
  BY DEF ListTable, thread
<1>2. x = m + 1 /\ next_sst_id = m + 2 /\ ~Building /\ m + 1 \in 0 .. MaxId /\ m + 1 \in Ids
  <2>1. x = m + 1 /\ next_sst_id = m + 2 /\ ~Building
    BY <1>1 DEF Sound, Given
  <2> QED BY <1>0, <2>1
<1>3. ~Behind
  BY <1>0, <1>2 DEF Sound, Overtaken
<1>4. /\ manifest' = Append(manifest, InFile(SstLine(0, x)))
      /\ \/ cursor = -1 /\ cursor' = -1
         \/ cursor = Len(manifest) /\ cursor' = Len(manifest) + 1
  BY <1>1, <1>3, LsmAppends DEF TypeInv
<1>5. m + 1 \notin SstIds /\ \A l \in 0 .. 1 : DelLine(l, m + 1) \notin Lines
  BY <1>0, <1>2 DEF Sound, Numbered
<1>6. /\ Lines' = Lines \cup {SstLine(0, m + 1)} /\ InOrder'
      /\ Len(manifest') = Len(manifest) + 1
  <2>1. SstLine(0, m + 1) \in Written /\ SstLine(0, m + 1).id = m + 1
    BY <1>2, LineTypes, LineParts
  <2> QED BY <1>2, <1>4, <1>5, <2>1, AppendedLines DEF TypeInv, Sound
<1>7. /\ \A l, y : SstLine(l, y) \in Lines' <=> SstLine(l, y) \in Lines \/ (l = 0 /\ y = m + 1)
      /\ \A l, y : DelLine(l, y) \in Lines' <=> DelLine(l, y) \in Lines
  BY <1>6, LineParts
<1>8. Numbered(m + 1)'
  <2>1. \A y \in Ids : y \in SstIds' <=> y \in SstIds \/ y = m + 1
    BY <1>7 DEF SstIds, SstLine
  <2>2. \A y \in Ids : y \in SstIds' <=> y <= m + 1
    BY <1>0, <2>1 DEF Sound, Numbered
  <2>3. \A l \in 0 .. 1 : \A y \in Ids : (DelLine(l, y) \in Lines)' => y <= m + 1
    BY <1>0, <1>7 DEF Sound, Numbered, DelLine
  <2> QED BY <2>2, <2>3 DEF Numbered
<1>9. x \in Live(0)' /\ Live(0) \in SUBSET Live(0)' /\ Live(1)' = Live(1)
  BY <1>2, <1>5, <1>7 DEF Live, SstLine, DelLine
<1>10. Given(m + 1)'
  <2>1. /\ status \in {"up", "closing"} => 1 <= next_sst_id
        /\ cpc \in {"inputs", "output"} => 1 <= own.next /\ own.next <= m + 1 + 1
    BY <1>0 DEF Sound, Given
  <2>2. next_sst_id <= m + 1 + 1
    BY <1>2
  <2> QED BY <1>1, <1>2, <2>1, <2>2 DEF Given
<1>11. Overtaken(m + 1)'
  <2>1. ~Behind' /\ (0 <= cursor' => 0 <= cursor)
    BY <1>0, <1>4, <1>6 DEF Behind
  <2>2. ~(0 <= cursor /\ (cpc = "unlink" \/ done > 0))
    BY <1>3 DEF Sound, Overtaken
  <2> QED BY <1>1, <2>1, <2>2 DEF Overtaken
<1>12. Merging(m + 1)'
  <2>1. Working => \A n \in DOMAIN inputs : inputs[n].id <= m + 1
    <3>1. Working => \A n \in DOMAIN inputs : inputs[n].id <= m
      BY DEF Sound, Merging
    <3> QED BY <1>0, <3>1
  <2> QED BY <1>1, <1>7, <1>9, <2>1 DEF Sound, Merging, SstLine
<1> QED BY <1>2, <1>6, <1>8, <1>9, <1>10, <1>11, <1>12 DEF Sound

\* The other steps of the Lsm.
LEMMA SoundLsm ==
    ASSUME TypeInv, TypeInv', NEW m \in 0 .. MaxId, Sound(m),
           FinishTable \/ OpenTable \/ OpenTableFails \/ Drop \/ UNCHANGED vars
    PROVE  Sound(m)'
<1> USE DEF Working, Building, Writing
<1>1. /\ UNCHANGED <<manifest, cursor, next_sst_id, own, inputs, output, done>>
      /\ status' = status \/ (status = "up" /\ status' = "closing")
      /\ cpc' = cpc \/ (cpc = "wait" /\ cpc' = "woken")
      /\ \/ fpc = "finish" /\ fpc' = "list" /\ UNCHANGED flushing
         \/ fpc = "open" /\ fpc' = "idle"
         \/ UNCHANGED <<fpc, flushing>>
  BY DEF FinishTable, OpenTable, OpenTableFails, Drop, Notify, files, thread, history, vars, lsm
<1>2. InOrder' /\ Numbered(m)' /\ Lines' = Lines /\ \A l : Live(l)' = Live(l)
  BY <1>1, SameLines DEF Sound
<1>3. Given(m)'
  BY <1>1 DEF Sound, Given
<1>4. Overtaken(m)'
  <2>1. Behind' <=> Behind
    BY <1>1 DEF Behind
  <2>2. fpc' # "create" => fpc # "create"
    BY <1>1
  <2> QED BY <1>1, <2>1, <2>2 DEF Sound, Overtaken, DelLine
<1>5. Merging(m)'
  BY <1>1, <1>2 DEF Sound, Merging, SstLine
<1> QED BY <1>2, <1>3, <1>4, <1>5 DEF Sound

\* The end of the process, and the next one.
LEMMA SoundProcess ==
    ASSUME TypeInv, TypeInv', NEW m \in 0 .. MaxId, Sound(m), Crash \/ Joined \/ Open
    PROVE  Sound(m)'
<1> USE DEF Working, Building, Writing
<1>1. CASE Crash \/ Joined
  <2>1. /\ manifest' = manifest /\ status' = "down" /\ cursor' = -1 /\ fpc' = "idle"
        /\ cpc' = "wait" /\ done' = 0
    BY <1>1 DEF Crash, Joined, Die, Forget
  <2>2. InOrder' /\ Numbered(m)' /\ Lines' = Lines /\ \A l : Live(l)' = Live(l)
    BY <2>1, SameLines DEF Sound
  <2>3. Given(m)' /\ Overtaken(m)'
    BY <2>1 DEF Given, Overtaken, Behind
  <2>4. Merging(m)'
    BY <2>1, <2>2 DEF Sound, Merging
  <2> QED BY <2>2, <2>3, <2>4 DEF Sound
<1>2. CASE Open
  <2>1. /\ UNCHANGED <<files, cursor, fpc, flushing, imms, thread>>
        /\ status = "down" /\ status' \in {"up", "failed"}
        /\ status' = "up" => next_sst_id' = NextId("SST")
    BY <1>2 DEF Open
  <2>2. fpc = "idle" /\ cpc = "wait" /\ cursor = -1
    BY <2>1 DEF TypeInv, Placed
  <2>3. InOrder' /\ Numbered(m)' /\ Lines' = Lines /\ \A l : Live(l)' = Live(l)
    BY <2>1, SameLines DEF Sound, files
  <2>4. NextId("SST") = m + 1
    BY NextSstId DEF Sound
  <2>5. Given(m)'
    BY <2>1, <2>2, <2>4 DEF Given, thread
  <2>6. Overtaken(m)'
    BY <2>1, <2>2 DEF Overtaken, Behind
  <2>7. Merging(m)'
    BY <2>1, <2>2, <2>3 DEF Sound, Merging, thread
  <2> QED BY <2>3, <2>5, <2>6, <2>7 DEF Sound
<1> QED BY <1>1, <1>2

\* Until an id is given out twice.
Orderly == reused \/ \E m \in 0 .. MaxId : Sound(m)

LEMMA OrderlyStep ==
    ASSUME TypeInv, TypeInv', Orderly, [Next]_vars
    PROVE  Orderly'
<1> SUFFICES ASSUME ~reused' PROVE Orderly'
  BY DEF Orderly
<1>1. ~reused
  <2>1. UNCHANGED reused \/ CreateTable \/ CreateOutput
    BY DEF Next, LsmStep, CompactorStep, Rotate, FinishTable, ListTable, OpenTable,
       OpenTableFails, Joined, Wake, Pick, LoadAgain, LoadPanics, OpenInputs,
       OpenInputsFails, OpenInputsPanics,
       MergeInputs, MergeFails, RemoveSst, RemoveFile, AddSst, TimeOut, Drop, Crash, Open,
       Stopped, Die, history, vars
  <2>2. CreateTable \/ CreateOutput => (reused => reused')
    BY DEF CreateTable, CreateOutput
  <2> QED BY <2>1, <2>2
<1>2. PICK m \in 0 .. MaxId : Sound(m)
  BY <1>1 DEF Orderly
<1>3. CASE Sound(m)'
  BY <1>3 DEF Orderly
<1>4. CASE m + 1 \in 0 .. MaxId /\ Sound(m + 1)'
  BY <1>4 DEF Orderly
<1>5. CASE ListTable \/ AddSst
  BY <1>2, <1>4, <1>5, SoundListTable, SoundAddSst
<1>6. ASSUME NEW b, Wake(b) PROVE Sound(m)'
  <2>1. /\ UNCHANGED <<manifest, lsm, done>> /\ cpc' \in {"exited", "wait", "pick"}
        /\ cpc \in {"wait", "woken"}
    BY <1>6 DEF Wake, files
  <2>2. done' = 0
    BY <2>1 DEF TypeInv, Placed
  <2> QED BY <1>2, <2>1, <2>2, SoundWaits
<1>7. CASE OpenInputsFails \/ MergeFails \/ Panics
  <2>1. /\ UNCHANGED <<manifest, lsm>> /\ cpc' \in {"wait", "panicked"} /\ done' = 0
        /\ cpc \in {"pick", "load", "inputs", "merge"}
    BY <1>7, PanicIs DEF OpenInputsFails, MergeFails, Thread, Forget, files
  <2> QED BY <1>2, <1>3, <2>1, SoundWaits
<1>8. CASE Pick \/ LoadAgain \/ OpenInputs \/ MergeInputs \/ CreateOutput \/ RemoveSst \/ RemoveFile
  BY <1>2, <1>3, <1>8, SoundPick, SoundLoad, SoundInputs, SoundCreateOutput, SoundRemoveSst,
     SoundRemoveFile
<1>9. CASE Rotate \/ CreateTable \/ FinishTable \/ OpenTable \/ OpenTableFails \/ Drop
  BY <1>2, <1>3, <1>9, SoundRotate, SoundCreateTable, SoundLsm
<1>10. CASE Crash \/ Joined \/ Open
  BY <1>2, <1>3, <1>10, SoundProcess
<1>11. CASE Stopped \/ UNCHANGED vars
  BY <1>2, <1>3, <1>11, SoundLsm DEF Stopped
<1> QED
  BY <1>3, <1>5, <1>6, <1>7, <1>8, <1>9, <1>10, <1>11 DEF Next, LsmStep, CompactorStep, Panics,
     TimeOut

LEMMA OrderlyInit == Init => Orderly
<1> SUFFICES ASSUME Init PROVE Sound(0) /\ 0 \in 0 .. MaxId
  BY DEF Orderly
<1>0. 0 \in 0 .. MaxId /\ Ids = 1 .. MaxId
  BY CompactionAssumption DEF Ids
<1>1. manifest = <<>> /\ DOMAIN manifest = {} /\ Len(manifest) = 0
  BY DEF Init
<1>2. Lines = {}
  BY <1>1 DEF Lines
<1>3. InOrder
  BY <1>1 DEF InOrder
<1>4. Numbered(0)
  BY <1>0, <1>2 DEF Numbered, SstIds
<1>5. Given(0) /\ Overtaken(0)
  BY <1>1 DEF Init, Given, Overtaken, Behind, Writing, Building
<1>6. Merging(0)
  BY <1>2 DEF Init, Merging, Working, Live
<1> QED BY <1>0, <1>3, <1>4, <1>5, <1>6 DEF Sound

\* Until an id is given out twice, and as long as MANIFEST can be read, level 1
\* has at most one table: add_sst follows
\* the removal of every level 1 table that pick_compaction found, and no other
\* step lists one or writes over the line that removes it.
THEOREM LevelOneHolds == Spec => []LevelOneSingle
<1>1. TypeInv /\ Orderly => LevelOneSingle
  <2> SUFFICES ASSUME TypeInv, Orderly, ~reused, ~garbled, NEW p \in Listed(1), NEW q \in Listed(1)
               PROVE  p = q
    BY DEF LevelOneSingle
  <2>1. PICK m \in 0 .. MaxId : Sound(m)
    BY DEF Orderly
  <2>2. /\ ListedIds(1) = Live(1)
        /\ \A r, s \in Listed(1) : IdAt(r) = IdAt(s) => r = s
    BY <2>1, LiveIsListed DEF TypeInv, Sound
  <2>3. IdAt(p) \in Live(1) /\ IdAt(q) \in Live(1)
    BY <2>2 DEF ListedIds
  <2>4. IdAt(p) = IdAt(q)
    BY <2>1, <2>3 DEF Sound, Merging
  <2> QED BY <2>2, <2>4
<1>2. Init => TypeInv /\ Orderly
  BY TypeInit, OrderlyInit
<1>3. TypeInv /\ Orderly /\ [Next]_vars => (TypeInv /\ Orderly)'
  BY TypeStep, OrderlyStep
<1> QED BY <1>1, <1>2, <1>3, PTL DEF Spec

-----------------------------------------------------------------------------
(***************************************************************************)
(* The files while no id is given out twice: each table has a file of its  *)
(* own, nobody else writes it, and no key is lost.                         *)
(***************************************************************************)
InFiles ==
    /\ \A x, y \in Ids : dir[x] = dir[y] /\ dir[x] # 0 => x = y
    /\ \A x \in Ids : dir[x] = flushing.inode /\ dir[x] # 0 => x = flushing.id
    /\ fpc \in {"idle", "create"} => flushing.inode = 0
    /\ Writing => dir[flushing.id] = flushing.inode
    /\ fpc = "finish" => disk[flushing.inode] = Partial
    /\ fpc = "list" => disk[flushing.inode] = Whole(flushing.table)
    /\ IF Building THEN dir[output.id] = output.inode ELSE output.inode = 0
    /\ cpc = "merge" => disk[output.inode] = Partial
    /\ cpc \in {"delete", "unlink"} => disk[output.inode].is = "whole"
    /\ cpc \in {"output", "merge"} => \A n \in DOMAIN inputs :
          /\ inputs[n].inode = dir[inputs[n].id] /\ inputs[n].inode # 0
          /\ inputs[n].content = inputs[n].built

\* Create for an id that neither thread has: a new file, or one that an earlier
\* process left.
LEMMA CreateKeeps ==
    ASSUME TypeInv, NEW x \in Ids, Create(x), InFiles
    PROVE  /\ \A y, z \in Ids : dir'[y] = dir'[z] /\ dir'[y] # 0 => y = z
           /\ dir'[x] = InodeOf(x) /\ InodeOf(x) # 0 /\ disk'[InodeOf(x)] = Partial
           /\ \A y \in Ids : y # x => /\ dir'[y] = dir[y]
                                      /\ dir[y] # 0 => disk'[dir[y]] = disk[dir[y]]
           /\ \A i \in 1 .. Len(disk) : (dir'[x] = i => dir[x] = i)
<1>1. /\ dir' \in [Ids -> Nat]
      /\ Len(disk) \in Nat /\ InodeOf(x) \in 1 .. Len(disk') /\ Len(disk') \in Nat
      /\ dir'[x] = InodeOf(x) /\ disk'[InodeOf(x)] = Partial
      /\ \A y \in Ids \ {x} : dir'[y] = dir[y]
      /\ dir[x] # 0 => dir' = dir
      /\ \A i \in 1 .. Len(disk) : i # InodeOf(x) => disk'[i] = disk[i]
      /\ dir[x] = 0 => InodeOf(x) = Len(disk) + 1
  BY CreateType DEF TypeInv
<1>2. /\ \A y \in Ids : dir[y] \in Nat /\ dir[y] <= Len(disk)
      /\ \A y, z \in Ids : dir[y] = dir[z] /\ dir[y] # 0 => y = z
  BY DEF TypeInv, TypeOK, FilesOK, InFiles
<1>3. \A y \in Ids : y # x => InodeOf(x) # dir[y]
  <2> SUFFICES ASSUME NEW y \in Ids, y # x, InodeOf(x) = dir[y] PROVE FALSE
    OBVIOUS
  <2>1. CASE dir[x] = 0
    BY <1>1, <1>2, <2>1
  <2>2. CASE dir[x] # 0
    <3>1. dir'[x] = dir[x] /\ dir[x] = InodeOf(x)
      BY <1>1, <2>2
    <3> QED BY <1>2, <2>2, <3>1
  <2> QED BY <2>1, <2>2
<1>4. \A y \in Ids : y # x => /\ dir'[y] = dir[y]
                              /\ dir[y] # 0 => disk'[dir[y]] = disk[dir[y]]
  <2> SUFFICES ASSUME NEW y \in Ids, y # x, dir[y] # 0 PROVE disk'[dir[y]] = disk[dir[y]]
    BY <1>1
  <2>1. dir[y] \in 1 .. Len(disk)
    BY <1>1, <1>2
  <2> QED BY <1>1, <1>3, <2>1
<1>5. \A y, z \in Ids : dir'[y] = dir'[z] /\ dir'[y] # 0 => y = z
  <2> SUFFICES ASSUME NEW y \in Ids, NEW z \in Ids, dir'[y] = dir'[z], dir'[y] # 0 PROVE y = z
    OBVIOUS
  <2>1. CASE y # x /\ z # x
    BY <1>2, <1>4, <2>1
  <2>2. CASE y = x /\ z # x
    BY <1>1, <1>3, <1>4, <2>2
  <2>3. CASE y # x /\ z = x
    BY <1>1, <1>3, <1>4, <2>3
  <2> QED BY <2>1, <2>2, <2>3
<1>6. \A i \in 1 .. Len(disk) : (dir'[x] = i => dir[x] = i)
  <2> SUFFICES ASSUME NEW i \in 1 .. Len(disk), dir'[x] = i PROVE dir[x] = i
    OBVIOUS
  <2>1. dir[x] # 0
    BY <1>1
  <2> QED BY <1>1, <2>1
<1> QED BY <1>1, <1>4, <1>5, <1>6

LEMMA InFilesCreateTable ==
    ASSUME TypeInv, TypeInv', NEW m \in 0 .. MaxId, Sound(m), InFiles, CreateTable, ~reused'
    PROVE  InFiles'
<1> USE DEF Writing, Building
<1> DEFINE x == next_sst_id
<1>1. /\ fpc = "create" /\ fpc' = "finish" /\ x \in Ids /\ Create(x)
      /\ UNCHANGED <<cpc, own, inputs, output, done>>
  BY DEF CreateTable, thread
<1>2. x = m + 1 /\ ~Building
  BY SoundCreateTable
<1>3. flushing'.id = x /\ flushing'.inode = InodeOf(x)
  BY DEF CreateTable, TypeInv, TypeOK, LsmOK
<1>4. /\ \A y, z \in Ids : dir'[y] = dir'[z] /\ dir'[y] # 0 => y = z
      /\ dir'[x] = InodeOf(x) /\ InodeOf(x) # 0 /\ disk'[InodeOf(x)] = Partial
      /\ \A y \in Ids : y # x => dir'[y] = dir[y]
  BY <1>1, CreateKeeps
<1>5. cpc = "output" => \A n \in DOMAIN inputs : inputs[n].id \in Ids /\ inputs[n].id # x
  <2>1. cpc = "output" => \A n \in DOMAIN inputs : inputs[n].id <= m
    BY DEF Sound, Merging, Working
  <2>2. \A n \in DOMAIN inputs : inputs[n].id \in Nat /\ inputs[n].id \in Ids
    BY SoundTypes
  <2> QED BY <1>2, <2>1, <2>2
<1>6. Partial' = Partial
  BY DEF Partial, Content, NoTable
<1> HIDE DEF x
<1>7. \A y \in Ids : dir'[y] = flushing'.inode /\ dir'[y] # 0 => y = flushing'.id
  BY <1>1, <1>3, <1>4
<1>8. dir'[flushing'.id] = flushing'.inode /\ disk'[flushing'.inode] = Partial
  BY <1>3, <1>4
<1>9. cpc # "merge" /\ cpc \notin {"delete", "unlink"} /\ output.inode = 0
  BY <1>2 DEF InFiles
<1>10. cpc = "output" => \A n \in DOMAIN inputs :
          /\ inputs[n].inode = dir'[inputs[n].id] /\ inputs[n].inode # 0
          /\ inputs[n].content = inputs[n].built
  BY <1>4, <1>5 DEF InFiles
<1> QED BY <1>1, <1>4, <1>6, <1>7, <1>8, <1>9, <1>10 DEF InFiles

LEMMA InFilesCreateOutput ==
    ASSUME TypeInv, TypeInv', NEW m \in 0 .. MaxId, Sound(m), InFiles, CreateOutput, ~reused'
    PROVE  InFiles' /\ own.next = m + 1
<1> USE DEF Writing, Building
<1> DEFINE x == own.next
<1>1. /\ cpc = "output" /\ cpc' = "merge" /\ x \in Ids /\ Create(x)
      /\ output'.id = x /\ output'.inode = InodeOf(x)
      /\ UNCHANGED <<lsm, own, inputs, done>>
  BY DEF CreateOutput, Thread
<1>2. x = m + 1 /\ ~Writing
  <2>1. Sound(m)'
    BY SoundCreateOutput
  <2> QED BY <1>1, <2>1 DEF Sound, Given, lsm
<1>4. /\ \A y, z \in Ids : dir'[y] = dir'[z] /\ dir'[y] # 0 => y = z
      /\ dir'[x] = InodeOf(x) /\ InodeOf(x) # 0 /\ disk'[InodeOf(x)] = Partial
      /\ \A y \in Ids : y # x => dir'[y] = dir[y]
      /\ \A i \in 1 .. Len(disk) : (dir'[x] = i => dir[x] = i)
  BY <1>1, CreateKeeps
<1>5. \A n \in DOMAIN inputs : inputs[n].id \in Ids /\ inputs[n].id # x
  <2>1. \A n \in DOMAIN inputs : inputs[n].id <= m
    BY <1>1 DEF Sound, Merging, Working
  <2>2. \A n \in DOMAIN inputs : inputs[n].id \in Nat /\ inputs[n].id \in Ids
    BY SoundTypes
  <2> QED BY <1>2, <2>1, <2>2
<1>6. \A y \in Ids : dir'[y] = flushing.inode /\ dir'[y] # 0 => y = flushing.id
  <2> SUFFICES ASSUME NEW y \in Ids, dir'[y] = flushing.inode, dir'[y] # 0 PROVE y = flushing.id
    OBVIOUS
  <2>1. flushing.inode \in 1 .. Len(disk)
    <3>1. flushing.inode \in Nat
      BY DEF TypeInv, TypeOK, LsmOK
    <3>2. flushing.inode <= Len(disk) /\ Len(disk) \in Nat
      BY DEF TypeInv, TypeOK, FilesOK, Placed
    <3> QED BY <3>1, <3>2
  <2>2. dir[y] = flushing.inode
    BY <1>4, <2>1
  <2> QED BY <2>2 DEF InFiles
<1>7. Partial' = Partial
  BY DEF Partial, Content, NoTable
<1> HIDE DEF x
<1>8. UNCHANGED <<fpc, flushing>>
  BY <1>1 DEF lsm
<1>9. InFiles'
  BY <1>1, <1>2, <1>4, <1>5, <1>6, <1>7, <1>8 DEF InFiles
<1> QED BY <1>2, <1>9 DEF x

\* The merge succeeds only while every input is what it was: what it reads is a
\* table for every key.
LEMMA MergedType ==
    ASSUME TypeInv, MergeInputs
    PROVE  /\ Merged \in Tables /\ output.inode \in 1 .. Len(disk)
           /\ \A k \in Keys : Merged[k] # 0 <=> \E n \in DOMAIN inputs : Has(n, k)
<1>1. inputs \in Seq(Handles) /\ output.inode \in 1 .. Len(disk)
  BY DEF TypeInv, TypeOK, MergeInputs, Thread, ThreadOK, Opened, Placed, Building, FilesOK
<1>2. ASSUME NEW k \in Keys
      PROVE  /\ (IF {i \in DOMAIN inputs : Has(i, k)} = {} THEN 0
                 ELSE inputs[Min({i \in DOMAIN inputs : Has(i, k)})].content.table[k]) \in Nat
             /\ (IF {i \in DOMAIN inputs : Has(i, k)} = {} THEN 0
                 ELSE inputs[Min({i \in DOMAIN inputs : Has(i, k)})].content.table[k]) # 0
                <=> \E n \in DOMAIN inputs : Has(n, k)
  <2> DEFINE having == {i \in DOMAIN inputs : Has(i, k)}
  <2>1. CASE having = {}
    BY <2>1
  <2>2. CASE having # {}
    <3>1. having \in SUBSET Nat /\ having \in SUBSET DOMAIN inputs
      BY <1>1
    <3> DEFINE n == Min(having)
    <3>2. n \in having
      <4> HIDE DEF having
      <4>1. \E s \in having : \A r \in having : s <= r
        BY <2>2, <3>1, LeastExists
      <4> QED BY <4>1 DEF Min
    <3>3. n \in DOMAIN inputs /\ Has(n, k)
      BY <3>2
    <3>4. inputs[n] \in Handles
      BY <1>1, <3>3
    <3> HIDE DEF n
    <3>5. inputs[n].content.table[k] \in Nat /\ inputs[n].content.table[k] # 0
      BY <3>3, <3>4 DEF Handles, Contents, Tables, Has
    <3> QED BY <2>2, <3>3, <3>5 DEF n
  <2> QED BY <2>1, <2>2
<1>3. Merged \in Tables
  BY <1>2 DEF Merged, Tables
<1>4. \A k \in Keys : Merged[k] # 0 <=> \E n \in DOMAIN inputs : Has(n, k)
  BY <1>2 DEF Merged
<1> QED BY <1>1, <1>3, <1>4

\* MergeInputs: nobody else writes the output.
LEMMA InFilesMerge ==
    ASSUME TypeInv, TypeInv', NEW m \in 0 .. MaxId, Sound(m), InFiles, MergeInputs
    PROVE  /\ InFiles' /\ disk'[output.inode] = Whole(Merged)
           /\ output.inode \in 1 .. Len(disk) /\ output.id = m + 1 /\ output.id \in Ids
           /\ \A j \in 1 .. Len(disk) : j # output.inode => disk'[j] = disk[j]
<1> USE DEF Writing, Building
<1>1. /\ cpc = "merge" /\ cpc' = "delete" /\ Finish(output.inode, flushing.inode, Merged)
      /\ UNCHANGED <<dir, lsm, own, inputs, output, done>>
  BY DEF MergeInputs, Thread
<1>2. Merged \in Tables /\ output.inode \in 1 .. Len(disk)
  BY MergedType
<1>3. output.id = m + 1 /\ ~Writing /\ output.id \in Ids /\ (fpc = "open" => flushing.id <= m)
  <2>1. output.id = m + 1 /\ ~Writing /\ (fpc = "open" => flushing.id <= m)
    BY <1>1 DEF Sound, Given
  <2> QED BY <2>1, SoundTypes
<1>4. dir[output.id] = output.inode /\ output.inode # 0 /\ disk[output.inode] = Partial
  BY <1>1, <1>2 DEF InFiles
<1>5. output.inode # flushing.inode
  <2> SUFFICES ASSUME output.inode = flushing.inode PROVE FALSE
    OBVIOUS
  <2>1. output.id = flushing.id
    BY <1>3, <1>4 DEF InFiles
  <2>2. fpc \notin {"idle", "create"}
    BY <1>4 DEF InFiles
  <2>3. fpc = "open"
    BY <1>3, <2>2 DEF TypeInv, TypeOK, LsmOK
  <2> QED BY <1>3, <2>1, <2>3
<1>6. /\ disk'[output.inode] = Whole(Merged)
      /\ \A j \in 1 .. Len(disk) : j # output.inode => disk'[j] = disk[j]
  BY <1>1, <1>2, <1>4, <1>5, FinishType DEF TypeInv
<1>7. Whole(Merged).is = "whole"
  BY DEF Whole, Content
<1>8. UNCHANGED <<fpc, flushing>>
  BY <1>1 DEF lsm
<1>9. InFiles'
  BY <1>1, <1>3, <1>6, <1>7, <1>8 DEF InFiles
<1> QED BY <1>2, <1>3, <1>6, <1>9

\* FinishTable: nobody else writes the table.
LEMMA InFilesFinish ==
    ASSUME TypeInv, TypeInv', NEW m \in 0 .. MaxId, Sound(m), InFiles, FinishTable
    PROVE  /\ InFiles' /\ flushing.inode \in 1 .. Len(disk) /\ ~Building
           /\ flushing.id = m + 1 /\ flushing.id \in Ids /\ dir[flushing.id] = flushing.inode
           /\ \A j \in 1 .. Len(disk) : j # flushing.inode => disk'[j] = disk[j]
<1> USE DEF Writing, Building
<1>1. /\ fpc = "finish" /\ fpc' = "list" /\ Finish(flushing.inode, output.inode, flushing.table)
      /\ UNCHANGED <<dir, flushing, cpc, own, inputs, output, done>>
  BY DEF FinishTable, thread
<1>2. flushing.inode \in 1 .. Len(disk) /\ flushing.table \in Tables
  <2>1. flushing.inode \in Nat /\ flushing.table \in Tables
    BY DEF TypeInv, TypeOK, LsmOK
  <2>2. flushing.inode <= Len(disk) /\ flushing.inode # 0
    BY <1>1 DEF TypeInv, Placed
  <2>3. Len(disk) \in Nat
    BY DEF TypeInv, TypeOK, FilesOK
  <2> QED BY <2>1, <2>2, <2>3
<1>3. flushing.id = m + 1 /\ ~Building /\ flushing.id \in Ids
  <2>1. flushing.id = m + 1 /\ ~Building
    BY <1>1 DEF Sound, Given
  <2> QED BY <2>1, SoundTypes
<1>4. dir[flushing.id] = flushing.inode /\ disk[flushing.inode] = Partial /\ output.inode = 0
  BY <1>1, <1>3 DEF InFiles
<1>5. /\ disk'[flushing.inode] = Whole(flushing.table)
      /\ \A j \in 1 .. Len(disk) : j # flushing.inode => disk'[j] = disk[j]
  BY <1>1, <1>2, <1>4, FinishType DEF TypeInv
<1>6. Whole(flushing.table)' = Whole(flushing.table)
  BY <1>1 DEF Whole, Content
<1>7. InFiles'
  BY <1>1, <1>3, <1>5, <1>6 DEF InFiles
<1> QED BY <1>2, <1>3, <1>4, <1>5, <1>7

\* The steps that change no file.
LEMMA InFilesStay ==
    ASSUME TypeInv, InFiles, UNCHANGED <<dir, disk>>,
           \/ UNCHANGED <<fpc, flushing>>
           \/ fpc' = "idle" /\ flushing' = NoFlush
           \/ fpc = "list" /\ fpc' = "open" /\ UNCHANGED flushing
           \/ fpc = "idle" /\ fpc' = "create" /\ flushing'.inode = 0,
           \/ UNCHANGED <<cpc, inputs, output>>
           \/ cpc' \notin {"output", "merge", "delete", "unlink"} /\ output' = NoOutput
           \/ cpc' \notin {"output", "merge", "delete", "unlink"} /\ ~Building /\ output' = output
           \/ cpc = "delete" /\ cpc' = "unlink" /\ UNCHANGED output
    PROVE  InFiles'
<1> USE DEF Writing, Building
<1>1. Partial' = Partial /\ Whole(flushing.table)' = Whole(flushing'.table)
  BY DEF Partial, Whole, Content, NoTable
<1>2. /\ fpc' \in {"idle", "create"} => flushing'.inode = 0
      /\ \A x \in Ids : dir[x] = flushing'.inode /\ dir[x] # 0 => x = flushing'.id
      /\ fpc' \in {"finish", "list"} => /\ UNCHANGED <<fpc, flushing>>
  BY DEF InFiles, NoFlush
<1>3. /\ IF Building' THEN UNCHANGED output ELSE output'.inode = 0
      /\ cpc' = "merge" => UNCHANGED cpc
      /\ cpc' \in {"delete", "unlink"} => cpc \in {"delete", "unlink"}
      /\ cpc' \in {"output", "merge"} => UNCHANGED <<cpc, inputs>>
      /\ Building' => Building
  BY DEF InFiles, NoOutput
<1>4. /\ \A x, y \in Ids : dir'[x] = dir'[y] /\ dir'[x] # 0 => x = y
      /\ \A x \in Ids : dir'[x] = flushing'.inode /\ dir'[x] # 0 => x = flushing'.id
      /\ fpc' \in {"idle", "create"} => flushing'.inode = 0
      /\ Writing' => dir'[flushing'.id] = flushing'.inode
      /\ fpc' = "finish" => disk'[flushing'.inode] = Partial'
      /\ fpc' = "list" => disk'[flushing'.inode] = Whole(flushing.table)'
  BY <1>1, <1>2 DEF InFiles
<1>5. /\ IF Building' THEN dir'[output'.id] = output'.inode ELSE output'.inode = 0
      /\ cpc' = "merge" => disk'[output'.inode] = Partial'
      /\ cpc' \in {"delete", "unlink"} => disk'[output'.inode].is = "whole"
      /\ cpc' \in {"output", "merge"} => \A n \in DOMAIN inputs' :
            /\ inputs'[n].inode = dir'[inputs'[n].id] /\ inputs'[n].inode # 0
            /\ inputs'[n].content = inputs'[n].built
  BY <1>1, <1>3 DEF InFiles
<1> QED BY <1>4, <1>5 DEF InFiles

\* OpenInputs: every input has a file.
LEMMA InFilesOpenInputs ==
    ASSUME TypeInv, InFiles, OpenInputs
    PROVE  InFiles'
<1> USE DEF Writing, Building
<1>1. /\ cpc = "inputs" /\ cpc' = "output" /\ UNCHANGED <<dir, disk, lsm, output>>
      /\ inputs' = [i \in DOMAIN inputs |-> Reopened(inputs[i].id)]
      /\ \A i \in DOMAIN inputs : CanOpen(inputs[i].id)
  BY DEF OpenInputs, Thread, files
<1>2. UNCHANGED <<fpc, flushing>> /\ Partial' = Partial
      /\ Whole(flushing.table)' = Whole(flushing.table)
  BY <1>1 DEF lsm, Partial, Whole, Content, NoTable
<1>3. \A n \in DOMAIN inputs' : /\ inputs'[n].inode = dir'[inputs'[n].id] /\ inputs'[n].inode # 0
                                /\ inputs'[n].content = inputs'[n].built
  BY <1>1 DEF Reopened, Handle, CanOpen
<1> QED BY <1>1, <1>2, <1>3 DEF InFiles

\* RemoveFile: the output is not an input.
LEMMA InFilesRemoveFile ==
    ASSUME TypeInv, NEW m \in 0 .. MaxId, Sound(m), InFiles, RemoveFile
    PROVE  InFiles'
<1> USE DEF Writing, Building
<1>1. /\ cpc = "unlink" /\ cpc' = "delete" /\ dir' = [dir EXCEPT ![Input] = 0]
      /\ UNCHANGED <<disk, lsm, inputs, output>>
  BY DEF RemoveFile, Thread
<1>2. UNCHANGED <<fpc, flushing>> /\ Partial' = Partial
      /\ Whole(flushing.table)' = Whole(flushing.table)
  BY <1>1 DEF lsm, Partial, Whole, Content, NoTable
<1>3. Input \in Ids /\ Input <= m /\ output.id = m + 1 /\ output.id \in Ids /\ ~Writing
  <2>1. done + 1 \in DOMAIN inputs
    BY <1>1, SoundTypes DEF TypeInv, Placed
  <2>2. output.id = m + 1 /\ ~Writing
    BY <1>1 DEF Sound, Given
  <2>3. Input <= m
    BY <1>1, <2>1 DEF Sound, Merging, Working, Input
  <2> QED BY <2>1, <2>2, <2>3, SoundTypes DEF Input
<1>4. /\ dir'[Input] = 0 /\ \A y \in Ids : y # Input => dir'[y] = dir[y]
  BY <1>1, <1>3 DEF TypeInv, TypeOK, FilesOK
<1>5. Input # output.id
  BY <1>3, SoundTypes
<1> QED BY <1>1, <1>2, <1>3, <1>4, <1>5 DEF InFiles

\* Every step that gives out no id a second time; most write no table's file.
LEMMA InFilesStep ==
    ASSUME TypeInv, TypeInv', NEW m \in 0 .. MaxId, Sound(m), InFiles, [Next]_vars, ~reused'
    PROVE  InFiles'
<1> USE DEF Building
<1>1. CASE Rotate \/ ListTable \/ OpenTable \/ OpenTableFails
  <2>1. CASE Rotate
    <3>1. UNCHANGED <<dir, disk, thread>> /\ fpc = "idle" /\ fpc' = "create"
      BY <2>1 DEF Rotate
    <3>2. flushing'.inode = 0
      BY <2>1 DEF Rotate, NoFlush
    <3> QED BY <3>1, <3>2, InFilesStay DEF thread
  <2>2. CASE ListTable
    <3>1. UNCHANGED <<dir, disk, flushing, thread>> /\ fpc = "list" /\ fpc' = "open"
      BY <2>2 DEF ListTable
    <3> QED BY <3>1, InFilesStay DEF thread
  <2>3. CASE OpenTable
    <3>1. UNCHANGED <<dir, disk, inputs, output>> /\ fpc' = "idle" /\ flushing' = NoFlush
      BY <2>3 DEF OpenTable, files
    <3>2. cpc' = cpc \/ (cpc = "wait" /\ cpc' = "woken")
      BY <2>3 DEF OpenTable, Notify
    <3> QED BY <3>1, <3>2, InFilesStay
  <2>4. CASE OpenTableFails
    <3>1. UNCHANGED <<dir, disk, thread>> /\ fpc' = "idle" /\ flushing' = NoFlush
      BY <2>4 DEF OpenTableFails, files
    <3> QED BY <3>1, InFilesStay DEF thread
  <2> QED BY <1>1, <2>1, <2>2, <2>3, <2>4
<1>2. ASSUME NEW b, Wake(b) PROVE InFiles'
  <2>1. /\ UNCHANGED <<dir, disk, lsm, inputs, output>> /\ cpc' \in {"exited", "wait", "pick"}
        /\ cpc \in {"wait", "woken"}
    BY <1>2 DEF Wake, files
  <2> QED BY <2>1, InFilesStay DEF lsm
<1>3. CASE Pick \/ LoadAgain
  <2>1. /\ UNCHANGED <<dir, disk, lsm, output>> /\ cpc' \in {"load", "wait", "inputs"}
        /\ cpc \in {"pick", "load"}
    BY <1>3 DEF Pick, LoadAgain, Thread, files
  <2> QED BY <2>1, InFilesStay DEF lsm
<1>4. CASE OpenInputsFails \/ Panics \/ MergeFails \/ AddSst
  <2>1. UNCHANGED <<dir, disk, lsm>> /\ cpc' \in {"wait", "panicked"} /\ output' = NoOutput
    BY <1>4, PanicIs DEF OpenInputsFails, MergeFails, AddSst, Thread, Forget, files
  <2> QED BY <2>1, InFilesStay DEF lsm
<1>5. CASE RemoveSst
  <2>1. UNCHANGED <<dir, disk, lsm, output>> /\ cpc = "delete" /\ cpc' = "unlink"
    BY <1>5 DEF RemoveSst, Thread
  <2> QED BY <2>1, InFilesStay DEF lsm
<1>6. CASE Crash \/ Joined
  <2>1. /\ UNCHANGED <<dir, disk>> /\ fpc' = "idle" /\ flushing' = NoFlush /\ cpc' = "wait"
        /\ output' = NoOutput
    BY <1>6 DEF Crash, Joined, Die, Forget, files
  <2> QED BY <2>1, InFilesStay
<1>7. CASE Drop
  <2>1. /\ UNCHANGED <<dir, disk, fpc, flushing, inputs, output>>
        /\ cpc' = cpc \/ (cpc = "wait" /\ cpc' = "woken")
    BY <1>7 DEF Drop, files
  <2> QED BY <2>1, InFilesStay
<1>8. CASE Open \/ Stopped \/ UNCHANGED vars
  <2>1. UNCHANGED <<dir, disk, fpc, flushing, cpc, inputs, output>>
    BY <1>8 DEF Open, Stopped, vars, files, lsm, thread
  <2> QED BY <2>1, InFilesStay
<1>9. CASE CreateTable \/ FinishTable
  BY <1>9, InFilesCreateTable, InFilesFinish
<1>10. CASE OpenInputs \/ CreateOutput \/ MergeInputs \/ RemoveFile
  BY <1>10, InFilesOpenInputs, InFilesCreateOutput, InFilesMerge, InFilesRemoveFile
<1> QED
  BY <1>1, <1>2, <1>3, <1>4, <1>5, <1>6, <1>7, <1>8, <1>9, <1>10
     DEF Next, LsmStep, CompactorStep, Panics, TimeOut

LEMMA InFilesInit == Init => InFiles
BY DEF Init, InFiles, Writing, Building, NoFlush, NoOutput

-----------------------------------------------------------------------------
(***************************************************************************)
(* No key is lost: before the thread removes its inputs the listed tables  *)
(* hold every key, and then its output holds what the inputs did.          *)
(***************************************************************************)
LiveIds  == Live(0) \cup Live(1)
InputIds == {inputs[n].id : n \in DOMAIN inputs}

Holds(x, k) == CanOpen(x) /\ disk[dir[x]].table[k] # 0

Removing == cpc \in {"delete", "unlink"}

KeysKept ==
    ~orphaned =>
        /\ cpc # "unlink" /\ done = 0 => \A k \in listed : \E x \in LiveIds : Holds(x, k)
        /\ Removing => \A k \in listed :
              disk[output.inode].table[k] # 0 \/ \E x \in LiveIds \ InputIds : Holds(x, k)

LEMMA LiveAreGiven ==
    ASSUME NEW m, Sound(m), NEW x \in LiveIds
    PROVE  x \in Ids /\ x <= m
BY DEF Sound, Numbered, LiveIds, Live, SstIds

\* A step that leaves every listed table listed and as it is.
LEMMA KeptStays ==
    ASSUME KeysKept, UNCHANGED listed, orphaned => orphaned',
           \A x \in LiveIds : x \in LiveIds' /\ \A k \in listed : Holds(x, k) => Holds(x, k)',
           \/ ~Removing' /\ (~orphaned' => cpc # "unlink" /\ done = 0)
           \/ UNCHANGED <<cpc, inputs, output, done>> /\ (Removing => UNCHANGED disk)
    PROVE  KeysKept'
<1> SUFFICES ASSUME ~orphaned' PROVE KeysKept'
  BY DEF KeysKept
<1>1. ASSUME cpc # "unlink", done = 0, NEW k \in listed
      PROVE  \E x \in LiveIds' : Holds(x, k)'
  BY <1>1 DEF KeysKept
<1>2. CASE ~Removing' /\ (~orphaned' => cpc # "unlink" /\ done = 0)
  BY <1>1, <1>2 DEF KeysKept
<1>3. CASE UNCHANGED <<cpc, inputs, output, done>> /\ (Removing => UNCHANGED disk)
  <2>1. InputIds' = InputIds /\ (Removing' <=> Removing)
    BY <1>3 DEF InputIds, Removing
  <2>2. ASSUME Removing, NEW k \in listed
        PROVE  (disk[output.inode].table[k] # 0)' \/ \E x \in LiveIds' \ InputIds' : Holds(x, k)'
    BY <1>3, <2>1, <2>2 DEF KeysKept
  <2> QED BY <1>1, <1>3, <2>1, <2>2 DEF KeysKept
<1> QED BY <1>2, <1>3

\* What is the same when no line and no file changes.
LEMMA HeldAlike ==
    ASSUME UNCHANGED <<manifest, dir, disk>>
    PROVE  /\ LiveIds' = LiveIds
           /\ \A x \in LiveIds : \A k \in listed : Holds(x, k) => Holds(x, k)'
<1>1. LiveIds' = LiveIds
  BY SameLines DEF LiveIds
<1>2. \A x, k : Holds(x, k)' <=> Holds(x, k)
  BY DEF Holds, CanOpen
<1> QED BY <1>1, <1>2

\* The other file is written to.
LEMMA HeldBeside ==
    ASSUME TypeInv, NEW x \in Ids, InFiles, UNCHANGED dir,
           \A j \in 1 .. Len(disk) : j # dir[x] => disk'[j] = disk[j],
           NEW y \in Ids, y # x, NEW k, Holds(y, k)
    PROVE  Holds(y, k)'
<1>1. dir[y] # 0 /\ dir[y] # dir[x]
  BY DEF Holds, CanOpen, InFiles
<1>2. dir[y] \in 1 .. Len(disk)
  <2>1. dir[y] \in Nat /\ dir[y] <= Len(disk) /\ Len(disk) \in Nat
    BY DEF TypeInv, TypeOK, FilesOK
  <2> QED BY <1>1, <2>1
<1>3. disk'[dir[y]] = disk[dir[y]]
  BY <1>1, <1>2
<1> QED BY <1>3 DEF Holds, CanOpen

\* A table is begun, or a flush ends its own: it is not listed yet.
LEMMA KeptBuilding ==
    ASSUME TypeInv, TypeInv', NEW m \in 0 .. MaxId, Sound(m), InFiles, KeysKept,
           CreateTable \/ CreateOutput \/ FinishTable, ~reused'
    PROVE  KeysKept'
<1>1. UNCHANGED <<manifest, listed, orphaned>>
  BY DEF CreateTable, CreateOutput, FinishTable, history
<1>2. LiveIds' = LiveIds
  BY <1>1, SameLines DEF LiveIds
<1>3. ASSUME NEW x \in LiveIds, NEW k \in listed, Holds(x, k) PROVE Holds(x, k)'
  <2>1. x \in Ids /\ x <= m /\ x # m + 1
    BY <1>3, LiveAreGiven DEF Ids
  <2>2. ASSUME NEW y \in Ids, y = m + 1, Create(y) PROVE Holds(x, k)'
    <3>1. dir'[x] = dir[x] /\ dir[x] # 0 /\ disk'[dir[x]] = disk[dir[x]]
      BY <1>3, <2>1, <2>2, CreateKeeps DEF Holds, CanOpen
    <3> QED BY <1>3, <3>1 DEF Holds, CanOpen
  <2>3. CASE CreateTable
    BY <2>2, <2>3, SoundCreateTable DEF CreateTable
  <2>4. CASE CreateOutput
    BY <2>2, <2>4, InFilesCreateOutput DEF CreateOutput
  <2>5. CASE FinishTable
    BY <1>3, <2>1, <2>5, HeldBeside, InFilesFinish DEF FinishTable
  <2> QED BY <2>3, <2>4, <2>5
<1>4. \/ ~Removing' /\ cpc # "unlink" /\ done = 0
      \/ UNCHANGED <<cpc, inputs, output, done>> /\ ~Removing
  <2>1. CASE CreateTable
    BY <2>1, SoundCreateTable DEF CreateTable, thread, Building, Removing
  <2>2. CASE FinishTable
    BY <2>2, InFilesFinish DEF FinishTable, thread, Building, Removing
  <2>3. CASE CreateOutput
    BY <2>3 DEF CreateOutput, Thread, Removing, TypeInv, Placed
  <2> QED BY <2>1, <2>2, <2>3
<1> QED BY <1>1, <1>2, <1>3, <1>4, KeptStays

\* ListTable: the flushed keys are in a table that can be read.
LEMMA KeptListTable ==
    ASSUME TypeInv, TypeInv', NEW m \in 0 .. MaxId, Sound(m), InFiles, KeysKept, ListTable
    PROVE  KeysKept'
<1>1. /\ fpc = "list" /\ listed' = listed \cup {k \in Keys : flushing.table[k] # 0}
      /\ UNCHANGED <<dir, disk, flushing, thread, orphaned>>
  BY DEF ListTable
<1>2. LiveIds \in SUBSET LiveIds' /\ flushing.id \in LiveIds'
  BY <1>1, SoundListTable DEF LiveIds
<1>3. \A x, k : Holds(x, k)' <=> Holds(x, k)
  BY <1>1 DEF Holds, CanOpen
<1>4. ~Removing'
  BY <1>1 DEF Sound, Given, Writing, Building, Removing, thread
<1>5. ASSUME NEW k \in Keys, flushing.table[k] # 0 PROVE Holds(flushing.id, k)
  <2>1. /\ dir[flushing.id] = flushing.inode /\ flushing.inode # 0
        /\ disk[flushing.inode] = Whole(flushing.table)
    BY <1>1 DEF InFiles, Writing, TypeInv, Placed
  <2> QED BY <1>5, <2>1 DEF Holds, CanOpen, Whole, Content
<1> SUFFICES ASSUME ~orphaned, cpc # "unlink", done = 0, NEW k \in listed'
             PROVE  \E x \in LiveIds' : Holds(x, k)'
  BY <1>1, <1>4 DEF KeysKept, thread
<1> QED BY <1>1, <1>2, <1>3, <1>5 DEF KeysKept

\* MergeInputs: a key of an input is in the output.
LEMMA KeptMerge ==
    ASSUME TypeInv, TypeInv', NEW m \in 0 .. MaxId, Sound(m), InFiles, KeysKept, MergeInputs
    PROVE  KeysKept'
<1>1. /\ cpc = "merge" /\ cpc' = "delete" /\ \A n \in DOMAIN inputs : Unchanged(inputs[n])
      /\ UNCHANGED <<manifest, dir, inputs, output, done, listed, orphaned>>
  BY DEF MergeInputs, Thread, history
<1>2. LiveIds' = LiveIds /\ InputIds' = InputIds
  BY <1>1, SameLines DEF LiveIds, InputIds
<1>3. /\ disk'[output.inode] = Whole(Merged) /\ output.id = m + 1 /\ output.id \in Ids
      /\ \A j \in 1 .. Len(disk) : j # output.inode => disk'[j] = disk[j]
      /\ dir[output.id] = output.inode
  BY <1>1, InFilesMerge DEF InFiles, Building
<1>4. ASSUME NEW x \in LiveIds, NEW k \in listed, Holds(x, k) PROVE Holds(x, k)'
  <2>1. x \in Ids /\ x <= m /\ x # m + 1
    BY LiveAreGiven DEF Ids
  <2> QED BY <1>1, <1>3, <1>4, <2>1, HeldBeside
<1>5. ASSUME NEW k \in listed, NEW x \in InputIds, Holds(x, k)
      PROVE  disk'[output.inode].table[k] # 0
  <2>1. PICK n \in DOMAIN inputs : inputs[n].id = x
    BY <1>5 DEF InputIds
  <2>2. inputs[n].inode = dir[x] /\ inputs[n].content = inputs[n].built
    BY <1>1, <2>1 DEF InFiles
  <2>3. disk[dir[x]] = inputs[n].content
    BY <1>1, <2>2 DEF Unchanged
  <2>4. Has(n, k) /\ k \in Keys
    BY <1>5, <2>3 DEF Holds, Has, TypeInv, TypeOK, HistoryOK
  <2>5. Merged[k] # 0
    BY <2>4, MergedType
  <2> QED BY <1>3, <2>5 DEF Whole, Content
<1> SUFFICES ASSUME ~orphaned, NEW k \in listed
             PROVE  /\ \E x \in LiveIds : Holds(x, k)'
                    /\ \/ disk'[output.inode].table[k] # 0
                       \/ \E x \in LiveIds \ InputIds : Holds(x, k)'
  BY <1>1, <1>2 DEF KeysKept
<1>6. PICK x \in LiveIds : Holds(x, k)
  BY <1>1 DEF KeysKept, TypeInv, Placed
<1> QED BY <1>4, <1>5, <1>6

\* The input to remove is one.
LEMMA InputIsOne ==
    ASSUME TypeInv, done < Len(inputs)
    PROVE  Input \in InputIds
<1>1. done + 1 \in DOMAIN inputs
  BY SoundTypes
<1> QED BY <1>1 DEF Input, InputIds

\* RemoveSst: an input is no longer listed.
LEMMA KeptRemoveSst ==
    ASSUME TypeInv, TypeInv', NEW m \in 0 .. MaxId, Sound(m), KeysKept, RemoveSst
    PROVE  KeysKept'
<1>1. /\ cpc = "delete" /\ cpc' = "unlink" /\ done < Len(inputs)
      /\ UNCHANGED <<dir, disk, inputs, output, done, listed, orphaned>>
  BY DEF RemoveSst, Thread, history
<1>2. InputIds' = InputIds /\ \A x, k : Holds(x, k)' <=> Holds(x, k)
  BY <1>1 DEF InputIds, Holds, CanOpen
<1>3. Input \in InputIds
  BY <1>1, InputIsOne
<1>4. \A x \in LiveIds : x \notin InputIds => x \in LiveIds'
  BY <1>3, SoundRemoveSst DEF LiveIds
<1> QED BY <1>1, <1>2, <1>4 DEF KeysKept, Removing

\* RemoveFile: it was the file of an input.
LEMMA KeptRemoveFile ==
    ASSUME TypeInv, TypeInv', KeysKept, RemoveFile
    PROVE  KeysKept'
<1>1. /\ cpc = "unlink" /\ cpc' = "delete" /\ done' = done + 1 /\ done \in Nat
      /\ dir' = [dir EXCEPT ![Input] = 0] /\ done < Len(inputs)
      /\ UNCHANGED <<manifest, disk, inputs, output, listed, orphaned>>
  BY SoundTypes DEF RemoveFile, Thread, history, TypeInv, Placed
<1>2. InputIds' = InputIds /\ LiveIds' = LiveIds
  BY <1>1, SameLines DEF InputIds, LiveIds
<1>3. Input \in InputIds
  BY <1>1, InputIsOne
<1>4. ASSUME NEW x \in LiveIds \ InputIds, NEW k, Holds(x, k) PROVE Holds(x, k)'
  <2>1. dir \in [Ids -> Nat] /\ x \in Ids /\ x # Input
    BY <1>3, <1>4 DEF TypeInv, TypeOK, FilesOK, LiveIds, Live
  <2>2. dir'[x] = dir[x]
    BY <1>1, <2>1
  <2> QED BY <1>1, <1>4, <2>2 DEF Holds, CanOpen
<1>5. done' # 0
  BY <1>1
<1>6. ASSUME ~orphaned, NEW k \in listed
      PROVE  (disk[output.inode].table[k] # 0)' \/ \E x \in LiveIds' \ InputIds' : Holds(x, k)'
  BY <1>1, <1>2, <1>4, <1>6 DEF KeysKept, Removing
<1> QED BY <1>1, <1>5, <1>6 DEF KeysKept

\* AddSst: the output is listed, with what the inputs held.
LEMMA KeptAddSst ==
    ASSUME TypeInv, TypeInv', NEW m \in 0 .. MaxId, Sound(m), InFiles, KeysKept, AddSst
    PROVE  KeysKept'
<1>1. /\ cpc = "delete" /\ cpc' = "wait" /\ UNCHANGED <<dir, disk, listed, orphaned>>
  BY DEF AddSst, Thread, history
<1>2. LiveIds \in SUBSET LiveIds' /\ output.id \in LiveIds'
  BY SoundAddSst DEF LiveIds
<1>3. \A x, k : Holds(x, k)' <=> Holds(x, k)
  BY <1>1 DEF Holds, CanOpen
<1>4. ASSUME NEW k, disk[output.inode].table[k] # 0 PROVE Holds(output.id, k)
  BY <1>1, <1>4 DEF Holds, CanOpen, InFiles, Building, TypeInv, Placed
<1>5. ~Removing'
  BY <1>1 DEF Removing
<1>6. ASSUME ~orphaned, NEW k \in listed PROVE \E x \in LiveIds' : Holds(x, k)'
  BY <1>1, <1>2, <1>3, <1>4, <1>6 DEF KeysKept, Removing
<1> QED BY <1>1, <1>5, <1>6 DEF KeysKept

\* Every step; those not treated above change no file, and what was listed stays so.
LEMMA KeptStep ==
    ASSUME TypeInv, TypeInv', NEW m \in 0 .. MaxId, Sound(m), InFiles, KeysKept, [Next]_vars,
           ~reused'
    PROVE  KeysKept'
<1>1. CASE CreateTable \/ CreateOutput \/ FinishTable
  BY <1>1, KeptBuilding
<1>2. CASE ListTable \/ MergeInputs \/ RemoveSst \/ RemoveFile \/ AddSst
  BY <1>2, KeptListTable, KeptMerge, KeptRemoveSst, KeptRemoveFile, KeptAddSst
<1>3. CASE Rotate
  <2>1. UNCHANGED <<dir, disk, thread, listed, orphaned>>
    BY <1>3 DEF Rotate
  <2>2. LiveIds \in SUBSET LiveIds'
    BY <1>3, SoundRotate DEF LiveIds
  <2>3. \A x, k : Holds(x, k)' <=> Holds(x, k)
    BY <2>1 DEF Holds, CanOpen
  <2> QED BY <2>1, <2>2, <2>3, KeptStays DEF thread
<1>4. ASSUME UNCHANGED <<manifest, dir, disk, listed, orphaned>>,
             ~Removing' /\ cpc # "unlink" /\ done = 0
      PROVE  KeysKept'
  BY <1>4, HeldAlike, KeptStays
<1>5. ASSUME UNCHANGED <<manifest, dir, disk, listed, orphaned, cpc, inputs, output, done>>
      PROVE  KeysKept'
  BY <1>5, HeldAlike, KeptStays
<1>6. ASSUME NEW b, Wake(b) PROVE KeysKept'
  <2>1. /\ UNCHANGED <<manifest, dir, disk, listed, orphaned>>
        /\ cpc' \in {"exited", "wait", "pick"} /\ cpc \in {"wait", "woken"}
    BY <1>6 DEF Wake, files, history
  <2> QED BY <1>4, <2>1 DEF Removing, TypeInv, Placed
<1>7. CASE Pick \/ LoadAgain \/ Panics \/ OpenInputs \/ OpenInputsFails \/ MergeFails
  <2>1. /\ UNCHANGED <<manifest, dir, disk, listed, orphaned>>
        /\ cpc' \in {"load", "inputs", "output", "wait", "panicked"}
        /\ cpc \in {"pick", "load", "inputs", "merge"}
    BY <1>7, PanicIs DEF Pick, LoadAgain, OpenInputs, OpenInputsFails, MergeFails, Thread, files,
                         history
  <2> QED BY <1>4, <2>1 DEF Removing, TypeInv, Placed
<1>8. CASE OpenTable \/ Drop
  <2>1. /\ UNCHANGED <<manifest, dir, disk, listed, orphaned, inputs, output, done>>
        /\ cpc' = cpc \/ (cpc = "wait" /\ cpc' = "woken")
    BY <1>8 DEF OpenTable, Drop, Notify, files, history
  <2>2. CASE cpc = "wait" /\ cpc' = "woken"
    BY <1>4, <2>1, <2>2 DEF Removing, TypeInv, Placed
  <2> QED BY <1>5, <2>1, <2>2
<1>9. CASE OpenTableFails \/ Open \/ Stopped \/ UNCHANGED vars
  BY <1>5, <1>9 DEF OpenTableFails, Open, Stopped, vars, files, thread, history
<1>10. CASE Crash
  <2>1. /\ UNCHANGED <<manifest, dir, disk, listed>> /\ cpc' = "wait"
        /\ orphaned' = (orphaned \/ cpc = "unlink" \/ done > 0)
    BY <1>10 DEF Crash, Die
  <2>2. (orphaned => orphaned') /\ (~orphaned' => cpc # "unlink" /\ ~(done > 0))
    BY <2>1
  <2>3. ~(done > 0) => done = 0
    BY SoundTypes
  <2> QED BY <2>1, <2>2, <2>3, HeldAlike, KeptStays DEF Removing
<1>11. CASE Joined
  <2>1. /\ UNCHANGED <<manifest, dir, disk, listed, orphaned>> /\ cpc' = "wait"
        /\ cpc \in {"exited", "panicked"}
    BY <1>11 DEF Joined, Die
  <2> QED BY <1>4, <2>1 DEF Removing, TypeInv, Placed
<1> QED
  BY <1>1, <1>2, <1>3, <1>6, <1>7, <1>8, <1>9, <1>10, <1>11
     DEF Next, LsmStep, CompactorStep, Panics, TimeOut

LEMMA KeptInit == Init => KeysKept
BY DEF Init, KeysKept, Removing

\* The invariant of what is proved here.
Kept == Orderly /\ (reused \/ (InFiles /\ KeysKept))

LEMMA KeptHolds ==
    ASSUME TypeInv, TypeInv', Kept, [Next]_vars
    PROVE  Kept'
<1>1. Orderly'
  BY OrderlyStep DEF Kept
<1> SUFFICES ASSUME ~reused' PROVE InFiles' /\ KeysKept'
  BY <1>1 DEF Kept
<1>2. reused => reused'
  <2>1. UNCHANGED reused \/ CreateTable \/ CreateOutput
    BY DEF Next, LsmStep, CompactorStep, Rotate, FinishTable, ListTable, OpenTable,
       OpenTableFails, Joined, Wake, Pick, LoadAgain, LoadPanics, OpenInputs,
       OpenInputsFails, OpenInputsPanics,
       MergeInputs, MergeFails, RemoveSst, RemoveFile, AddSst, TimeOut, Drop, Crash, Open,
       Stopped, Die, history, vars
  <2> QED BY <2>1 DEF CreateTable, CreateOutput
<1>3. PICK m \in 0 .. MaxId : Sound(m)
  BY <1>2 DEF Kept, Orderly
<1> QED BY <1>2, <1>3, InFilesStep, KeptStep DEF Kept

\* Until an id is given out twice, as long as MANIFEST can be read, and unless a
\* crash comes while the inputs are removed and the output is not listed, every
\* key that was in a listed table is in a listed table that can be read: compact finishes its output before the
\* first remove_sst, and neither thread writes a file whose table is listed.
THEOREM KeysListed == Spec => []KeysStayListed
<1>1. TypeInv /\ Kept => KeysStayListed
  <2> SUFFICES ASSUME TypeInv, Kept, ~reused, ~orphaned, ~garbled, cpc # "unlink", ~(done > 0),
                      NEW k \in listed
               PROVE  \E l \in 0 .. 1 : \E p \in Listed(l) :
                          CanOpen(IdAt(p)) /\ disk[dir[IdAt(p)]].table[k] # 0
    BY DEF KeysStayListed
  <2>1. PICK m \in 0 .. MaxId : Sound(m)
    BY DEF Kept, Orderly
  <2>2. done = 0
    BY SoundTypes
  <2>3. PICK l \in 0 .. 1 : \E x \in Live(l) : Holds(x, k)
    BY <2>2 DEF Kept, KeysKept, LiveIds
  <2>4. ListedIds(l) = Live(l)
    BY <2>1, LiveIsListed DEF TypeInv, Sound
  <2>5. PICK x \in ListedIds(l) : Holds(x, k)
    BY <2>3, <2>4
  <2>6. PICK p \in Listed(l) : IdAt(p) = x
    BY <2>5 DEF ListedIds
  <2> QED BY <2>5, <2>6 DEF Holds
<1>2. Init => TypeInv /\ Kept
  BY TypeInit, OrderlyInit, InFilesInit, KeptInit DEF Kept
<1>3. TypeInv /\ Kept /\ [Next]_vars => (TypeInv /\ Kept)'
  BY TypeStep, KeptHolds
<1> QED BY <1>1, <1>2, <1>3, PTL DEF Spec
=============================================================================
