----------------------------- MODULE MapStoreProofs -----------------------------
(****************************************************************************)
(* The server has the map that was drawn, with its links, and draws targets *)
(* that are in it, for every set of drawings and every number of runs of    *)
(* the builder, whatever the builder does while the server reads.           *)
(****************************************************************************)
EXTENDS MapStore, FiniteSetTheorems, SequenceTheorems, TLAPS

--------------------------------------------------------------------------------
(* Numbers, finite sets and sequences. *)

\* Every nonempty set of natural numbers has a least member.
LEMMA LeastMember ==
    ASSUME NEW S \in SUBSET Nat, S # {}
    PROVE  \E n \in S : \A m \in S : n <= m
<1> DEFINE Less == OpToRel(<, Nat)
<1>1. IsWellFoundedOn(Less, Nat)
  BY NatLessThanWellFounded
<1> HIDE DEF Less
<1>2. PICK n \in S : \A m \in S : ~ (<<m, n>> \in Less)
  BY <1>1, WFMin
<1>3. \A m \in S : m < n => <<m, n>> \in Less
  BY DEF Less, OpToRel
<1>4. \A m \in S : ~ (m < n)
  BY <1>2, <1>3
<1> QED
  BY <1>4

\* Induction over the natural numbers up to N, for sets instead of predicates.
LEMMA InductionUpTo ==
    ASSUME NEW N \in Nat, NEW T, 0 \in T, \A n \in 0 .. N - 1 : n \in T => n + 1 \in T
    PROVE  \A n \in 0 .. N : n \in T
<1> DEFINE Out == {n \in 0 .. N : n \notin T}
<1> SUFFICES ASSUME Out # {} PROVE FALSE
  OBVIOUS
<1>1. Out \in SUBSET Nat
  OBVIOUS
<1> HIDE DEF Out
<1>2. PICK n \in Out : \A m \in Out : n <= m
  BY <1>1, LeastMember
<1> USE DEF Out
<1>3. n # 0 /\ n - 1 \in 0 .. N - 1 /\ n - 1 \notin Out
  BY <1>2
<1> QED
  BY <1>3

\* The greatest member of a finite set of natural numbers is in it, and no member is greater.
LEMMA GreatestMember ==
    ASSUME NEW n \in Nat, NEW S \in SUBSET (0 .. n), S # {}
    PROVE  Max(S) \in S /\ \A m \in S : Max(S) >= m
<1> DEFINE Above == {n - m : m \in S}
<1>1. Above \in SUBSET Nat /\ Above # {}
  <2>1. PICK m \in S : TRUE
    OBVIOUS
  <2>2. n - m \in Above
    OBVIOUS
  <2> QED
    BY <2>2
<1>2. PICK a \in Above : \A b \in Above : a <= b
  <2> HIDE DEF Above
  <2> QED
    BY <1>1, LeastMember
<1>3. PICK x \in S : a = n - x
  BY <1>2
<1>4. \A m \in S : n - x <= n - m
  BY <1>2, <1>3
<1>5. \A m \in S : x >= m
  BY <1>4
<1> QED
  BY <1>5 DEF Max

\* Of two members of S one is below the other, with all that is below it.
Ordered(S, below) ==
    /\ below \in [S -> SUBSET S]
    /\ \A c \in S : c \notin below[c]
    /\ \A c, d \in S : c # d => \/ below[c] \union {c} \subseteq below[d]
                                 \/ below[d] \union {d} \subseteq below[c]

\* Each member of S has a rank of its own, and each rank a member.
Ranked(S, below) ==
    /\ \A c \in S : Cardinality(below[c]) \in 0 .. Cardinality(S) - 1
    /\ \A c, d \in S : Cardinality(below[c]) = Cardinality(below[d]) => c = d
    /\ \A n \in 0 .. Cardinality(S) - 1 : \E c \in S : Cardinality(below[c]) = n

\* The number of members below a member is its rank, in every finite set.
LEMMA Ranks ==
    ASSUME NEW S, IsFiniteSet(S), NEW below, Ordered(S, below)
    PROVE  Ranked(S, below)
<1> USE DEF Ordered
<1> DEFINE rank == [c \in S |-> Cardinality(below[c])]
           N == Cardinality(S)
<1>1. N \in Nat
  BY FS_CardinalityType
<1>2. ASSUME NEW T \in SUBSET S, NEW c \in S, below[c] \union {c} \subseteq T
      PROVE  Cardinality(below[c]) \in Nat /\ Cardinality(below[c]) < Cardinality(T) /\ Cardinality(T) \in Nat
  <2>1. IsFiniteSet(T) /\ IsFiniteSet(below[c])
    BY FS_Subset
  <2>2. Cardinality(below[c] \union {c}) = Cardinality(below[c]) + 1
    BY <2>1, FS_AddElement
  <2>3. Cardinality(below[c] \union {c}) <= Cardinality(T)
    BY <1>2, <2>1, FS_Subset
  <2>4. Cardinality(below[c]) \in Nat /\ Cardinality(T) \in Nat
    BY <2>1, FS_CardinalityType
  <2> QED
    BY <2>2, <2>3, <2>4
<1>3. \A c \in S : rank[c] \in 0 .. N - 1
  <2> SUFFICES ASSUME NEW c \in S PROVE rank[c] \in 0 .. N - 1
    OBVIOUS
  <2>1. below[c] \union {c} \subseteq S
    OBVIOUS
  <2>2. Cardinality(below[c]) \in Nat /\ Cardinality(below[c]) < N
    BY <1>2, <2>1
  <2> QED
    BY <1>1, <2>2
<1>4. \A c, d \in S : rank[c] = rank[d] => c = d
  <2> SUFFICES ASSUME NEW c \in S, NEW d \in S, c # d PROVE rank[c] # rank[d]
    OBVIOUS
  <2>1. CASE below[c] \union {c} \subseteq below[d]
    <3>1. Cardinality(below[c]) < Cardinality(below[d])
      BY <1>2, <2>1
    <3> QED
      BY <1>3, <3>1
  <2>2. CASE below[d] \union {d} \subseteq below[c]
    <3>1. Cardinality(below[d]) < Cardinality(below[c])
      BY <1>2, <2>2
    <3> QED
      BY <1>3, <3>1
  <2> QED
    BY <2>1, <2>2
<1>5. rank \in Injection(S, 0 .. N - 1)
  BY <1>3, <1>4 DEF Injection, IsInjective
<1>6. IsFiniteSet(0 .. N - 1) /\ Cardinality(0 .. N - 1) = N
  BY <1>1, FS_Interval
<1>7. rank \in Surjection(S, 0 .. N - 1)
  <2> HIDE DEF rank
  <2> QED
    BY <1>5, <1>6, FS_Injection
<1>8. \A n \in 0 .. N - 1 : \E c \in S : rank[c] = n
  BY <1>7 DEF Surjection
<1> QED
  BY <1>3, <1>4, <1>8 DEF Ranked

\* The sequences of the first i members, one after the other.
LEMMA FlatteningExists ==
    ASSUME NEW T, NEW ss \in Seq(Seq(T)), ss # <<>>
    PROVE  \E f \in [1 .. Len(ss) -> Seq(T)] :
              f = [i \in 1 .. Len(ss) |-> IF i = 1 THEN ss[i] ELSE f[i - 1] \o ss[i]]
<1> DEFINE N == Len(ss)
           Solves(m, f) == \A i \in 1 .. m : f[i] = IF i = 1 THEN ss[i] ELSE f[i - 1] \o ss[i]
           Ok == {m \in 0 .. N : \E f \in [1 .. m -> Seq(T)] : Solves(m, f)}
<1>1. N \in Nat /\ \A i \in 1 .. N : ss[i] \in Seq(T)
  OBVIOUS
<1>2. 0 \in Ok
  <2>1. [i \in 1 .. 0 |-> <<>>] \in [1 .. 0 -> Seq(T)] /\ Solves(0, [i \in 1 .. 0 |-> <<>>])
    OBVIOUS
  <2> HIDE DEF Solves
  <2>2. \E f \in [1 .. 0 -> Seq(T)] : Solves(0, f)
    BY <2>1
  <2>3. 0 \in 0 .. N
    BY <1>1
  <2> HIDE DEF N
  <2> QED
    BY <2>2, <2>3
<1>3. ASSUME NEW m \in 0 .. N - 1, m \in Ok PROVE m + 1 \in Ok
  <2>1. PICK f \in [1 .. m -> Seq(T)] : Solves(m, f)
    BY <1>3
  <2> DEFINE g == [i \in 1 .. m + 1 |->
                      IF i <= m THEN f[i] ELSE IF m = 0 THEN ss[m + 1] ELSE f[m] \o ss[m + 1]]
  <2>2. m + 1 \in 1 .. N /\ (m # 0 => m \in 1 .. m /\ f[m] \in Seq(T))
    BY <1>1
  <2>3. g \in [1 .. m + 1 -> Seq(T)]
    <3> SUFFICES ASSUME NEW i \in 1 .. m + 1
                 PROVE  (IF i <= m THEN f[i] ELSE IF m = 0 THEN ss[m + 1] ELSE f[m] \o ss[m + 1]) \in Seq(T)
      OBVIOUS
    <3>1. ss[m + 1] \in Seq(T)
      BY <1>1, <2>2
    <3>2. m # 0 => f[m] \o ss[m + 1] \in Seq(T)
      BY <2>2, <3>1, ConcatProperties
    <3>3. i <= m => f[i] \in Seq(T)
      OBVIOUS
    <3> QED
      BY <3>1, <3>2, <3>3
  <2>4. ASSUME NEW i \in 1 .. m + 1
        PROVE  g[i] = IF i = 1 THEN ss[i] ELSE g[i - 1] \o ss[i]
    <3>1. CASE i <= m
      <4>1. i \in 1 .. m /\ g[i] = f[i] /\ (i # 1 => g[i - 1] = f[i - 1])
        BY <3>1
      <4> QED
        BY <2>1, <4>1
    <3>2. CASE i = m + 1
      <4>1. g[i] = IF m = 0 THEN ss[m + 1] ELSE f[m] \o ss[m + 1]
        BY <3>2
      <4>2. m # 0 => g[i - 1] = f[m]
        BY <3>2
      <4> QED
        BY <3>2, <4>1, <4>2
    <3> QED
      BY <3>1, <3>2
  <2>5. Solves(m + 1, g)
    BY <2>4
  <2> HIDE DEF g, Solves
  <2> QED
    BY <2>2, <2>3, <2>5, <1>1
<1>4. N \in Ok
  <2> HIDE DEF Ok
  <2>1. \A m \in 0 .. N : m \in Ok
    BY <1>1, <1>2, <1>3, InductionUpTo
  <2> QED
    BY <1>1, <2>1
<1>5. PICK f \in [1 .. N -> Seq(T)] : Solves(N, f)
  BY <1>4
<1>6. f = [i \in 1 .. N |-> IF i = 1 THEN ss[i] ELSE f[i - 1] \o ss[i]]
  BY <1>5
<1> QED
  BY <1>6

\* What two sequences in a row hold.
LEMMA ConcatRange ==
    ASSUME NEW T, NEW s \in Seq(T), NEW t \in Seq(T)
    PROVE  s \o t \in Seq(T) /\ Range(s \o t) = Range(s) \union Range(t)
<1>1. /\ s \o t \in Seq(T) /\ Len(s \o t) = Len(s) + Len(t)
      /\ \A i \in 1 .. Len(s) + Len(t) : (s \o t)[i] = IF i <= Len(s) THEN s[i] ELSE t[i - Len(s)]
  BY ConcatProperties
<1>2. Len(s) \in Nat /\ Len(t) \in Nat /\ DOMAIN s = 1 .. Len(s) /\ DOMAIN t = 1 .. Len(t)
  OBVIOUS
<1>3. DOMAIN (s \o t) = 1 .. Len(s) + Len(t)
  BY <1>1
<1>4. ASSUME NEW x \in Range(s \o t) PROVE x \in Range(s) \union Range(t)
  <2>1. PICK i \in 1 .. Len(s) + Len(t) : x = (s \o t)[i]
    BY <1>3 DEF Range
  <2>2. CASE i <= Len(s)
    BY <1>1, <1>2, <2>1, <2>2 DEF Range
  <2>3. CASE i > Len(s)
    <3>1. i - Len(s) \in 1 .. Len(t) /\ x = t[i - Len(s)]
      BY <1>1, <1>2, <2>1, <2>3
    <3> QED
      BY <1>2, <3>1 DEF Range
  <2> QED
    BY <1>2, <2>2, <2>3
<1>5. ASSUME NEW x \in Range(s) PROVE x \in Range(s \o t)
  <2>1. PICK i \in 1 .. Len(s) : x = s[i]
    BY <1>2 DEF Range
  <2>2. i \in 1 .. Len(s) + Len(t) /\ x = (s \o t)[i]
    BY <1>1, <1>2, <2>1
  <2> QED
    BY <1>3, <2>2 DEF Range
<1>6. ASSUME NEW x \in Range(t) PROVE x \in Range(s \o t)
  <2>1. PICK i \in 1 .. Len(t) : x = t[i]
    BY <1>2 DEF Range
  <2>2. Len(s) + i \in 1 .. Len(s) + Len(t) /\ ~ (Len(s) + i <= Len(s)) /\ Len(s) + i - Len(s) = i
    BY <1>2
  <2>3. (s \o t)[Len(s) + i] = t[Len(s) + i - Len(s)]
    BY <1>1, <2>2
  <2> QED
    BY <1>3, <2>1, <2>2, <2>3 DEF Range
<1> QED
  BY <1>1, <1>4, <1>5, <1>6

\* A sequence of sequences made into one holds what they hold, and nothing else.
LEMMA FlattenRange ==
    ASSUME NEW T, NEW ss \in Seq(Seq(T))
    PROVE  /\ FlattenSeq(ss) \in Seq(T)
           /\ Range(FlattenSeq(ss)) = UNION {Range(ss[i]) : i \in 1 .. Len(ss)}
<1> DEFINE N == Len(ss)
<1>1. N \in Nat /\ \A i \in 1 .. N : ss[i] \in Seq(T)
  OBVIOUS
<1>2. CASE ss = <<>>
  <2>1. FlattenSeq(ss) = <<>>
    BY <1>2 DEF FlattenSeq
  <2>2. Range(<<>>) = {} /\ 1 .. Len(ss) = {}
    BY <1>2 DEF Range
  <2>3. UNION {Range(ss[i]) : i \in 1 .. Len(ss)} = {}
    BY <2>2
  <2>4. <<>> \in Seq(T)
    OBVIOUS
  <2> QED
    BY <2>1, <2>2, <2>3, <2>4
<1>3. CASE ss # <<>>
  <2> DEFINE F == CHOOSE f : f = [i \in 1 .. Len(ss) |-> IF i = 1 THEN ss[i] ELSE f[i - 1] \o ss[i]]
  <2>0. \E f : f = [i \in 1 .. Len(ss) |-> IF i = 1 THEN ss[i] ELSE f[i - 1] \o ss[i]]
    <3>1. PICK f \in [1 .. Len(ss) -> Seq(T)] :
              f = [i \in 1 .. Len(ss) |-> IF i = 1 THEN ss[i] ELSE f[i - 1] \o ss[i]]
      BY <1>3, FlatteningExists
    <3> QED
      BY <3>1
  <2>1. F = [i \in 1 .. N |-> IF i = 1 THEN ss[i] ELSE F[i - 1] \o ss[i]]
    BY <2>0
  <2>2. N # 0
    BY <1>3
  <2>3. FlattenSeq(ss) = F[N]
    BY <2>2 DEF FlattenSeq
  <2> HIDE DEF F
  <2> DEFINE Ok == {m \in 0 .. N : m # 0 => /\ F[m] \in Seq(T)
                                           /\ Range(F[m]) = UNION {Range(ss[i]) : i \in 1 .. m}}
  <2>4. 0 \in Ok
    BY <1>1
  <2>5. ASSUME NEW m \in 0 .. N - 1, m \in Ok PROVE m + 1 \in Ok
    <3>1. m + 1 \in 1 .. N /\ ss[m + 1] \in Seq(T)
      BY <1>1
    <3>2. CASE m = 0
      <4>1. F[m + 1] = ss[m + 1]
        BY <2>1, <3>1, <3>2
      <4>2. UNION {Range(ss[i]) : i \in 1 .. m + 1} = Range(ss[m + 1])
        BY <3>2
      <4> QED
        BY <3>1, <4>1, <4>2
    <3>3. CASE m # 0
      <4>1. F[m + 1] = F[m] \o ss[m + 1]
        <5>1. m + 1 # 1 /\ (m + 1) - 1 = m
          BY <3>3
        <5>2. F[m + 1] = IF m + 1 = 1 THEN ss[m + 1] ELSE F[(m + 1) - 1] \o ss[m + 1]
          BY <2>1, <3>1, Zenon
        <5> QED
          BY <5>1, <5>2, Zenon
      <4>2. F[m] \in Seq(T) /\ Range(F[m]) = UNION {Range(ss[i]) : i \in 1 .. m}
        BY <2>5, <3>3
      <4>3. F[m + 1] \in Seq(T) /\ Range(F[m + 1]) = Range(F[m]) \union Range(ss[m + 1])
        BY <3>1, <4>1, <4>2, ConcatRange
      <4>4. 1 .. m + 1 = (1 .. m) \union {m + 1}
        OBVIOUS
      <4>5. UNION {Range(ss[i]) : i \in 1 .. m + 1} = (UNION {Range(ss[i]) : i \in 1 .. m}) \union Range(ss[m + 1])
        <5> DEFINE R1 == {Range(ss[i]) : i \in 1 .. m + 1}
                   R0 == {Range(ss[i]) : i \in 1 .. m}
        <5>1. R1 = R0 \union {Range(ss[m + 1])}
          BY <4>4
        <5> HIDE DEF R1, R0
        <5>2. UNION R1 = (UNION R0) \union Range(ss[m + 1])
          BY <5>1
        <5> QED
          BY <5>2 DEF R1, R0
      <4> QED
        <5>1. Range(F[m + 1]) = UNION {Range(ss[i]) : i \in 1 .. m + 1}
          BY <4>2, <4>3, <4>5
        <5>2. m + 1 \in 0 .. N
          BY <1>1
        <5> QED
          BY <4>3, <5>1, <5>2
    <3> QED
      BY <3>2, <3>3
  <2>6. N \in Ok
    <3> HIDE DEF Ok
    <3>1. \A m \in 0 .. N : m \in Ok
      BY <1>1, <2>4, <2>5, InductionUpTo
    <3> QED
      BY <1>1, <3>1
  <2> QED
    BY <2>2, <2>3, <2>6
<1> QED
  BY <1>2, <1>3

--------------------------------------------------------------------------------
(* What smallmap.py makes of a drawing. *)

PhysicalNode ==
    [physical_node_id : Nat, x : Nat, y : Nat, phy_adjacent_nodes : Seq(Nat), lock_nodes : Seq(Nat)]

PhysicalLink == [from_physical_node : Nat, to_physical_node : Nat, lock_nodes : Seq(Nat)]

\* The cell that a node was drawn in.
Cell(n) == <<n.x, n.y>>

\* The instance of the roadmap counts as this module does.
LEMMA SameCardinality ==
    ASSUME NEW S
    PROVE  R!Cardinality(S) = Cardinality(S)
BY DEF R!Cardinality, Cardinality

\* The cells are those that are drawn, finitely many.
LEMMA CellsAreDrawn ==
    ASSUME drawing \in Seq(Seq(Nat))
    PROVE  R!Cells = Drawn /\ IsFiniteSet(R!Cells) /\ R!Cells \subseteq Nat \X Nat
<1> DEFINE Row(i) == {<<i, j>> : j \in {c \in DOMAIN drawing[i] : drawing[i][c] # 0}}
           Rows == {Row(i) : i \in DOMAIN drawing}
<1>1. R!Cells = UNION Rows /\ R!Cells = Drawn
  BY DEF R!Cells, Drawn
<1>2. ASSUME NEW i \in DOMAIN drawing
      PROVE  Row(i) \subseteq Nat \X Nat /\ IsFiniteSet(Row(i))
  <2>1. /\ i \in Nat /\ Len(drawing[i]) \in Nat
        /\ DOMAIN drawing[i] = 1 .. Len(drawing[i])
    OBVIOUS
  <2>2. Row(i) \subseteq {i} \X (1 .. Len(drawing[i]))
    BY <2>1
  <2>3. IsFiniteSet({i}) /\ IsFiniteSet(1 .. Len(drawing[i]))
    <3>1. IsFiniteSet(1 .. Len(drawing[i]))
      <4> HIDE DEF Row
      <4>1. 1 \in Int /\ Len(drawing[i]) \in Int
        BY <2>1
      <4> QED
        BY <4>1, FS_Interval
    <3> QED
      BY <3>1, FS_Singleton
  <2>4. IsFiniteSet({i} \X (1 .. Len(drawing[i])))
    BY <2>3, FS_Product
  <2>5. IsFiniteSet(Row(i))
    BY <2>2, <2>4, FS_Subset
  <2> QED
    BY <2>1, <2>2, <2>5
<1>3. IsFiniteSet(Rows)
  <2>1. DOMAIN drawing = 1 .. Len(drawing) /\ Len(drawing) \in Nat
    OBVIOUS
  <2>2. IsFiniteSet(DOMAIN drawing)
    BY <2>1, FS_Interval
  <2> DEFINE f == [i \in DOMAIN drawing |-> Row(i)]
  <2>3. f \in Surjection(DOMAIN drawing, Rows)
    BY DEF Surjection
  <2> QED
    BY <2>2, <2>3, FS_Surjection
<1>4. (\A T \in Rows : IsFiniteSet(T)) /\ UNION Rows \subseteq Nat \X Nat
  <2> HIDE DEF Row
  <2> QED
    BY <1>2
<1>5. IsFiniteSet(UNION Rows)
  <2> HIDE DEF Rows
  <2> QED
    BY <1>3, <1>4, FS_UNION
<1> QED
  BY <1>1, <1>4, <1>5

\* The cells are numbered row by row: each has a number, and each number a cell.
LEMMA CellsAreNumbered ==
    ASSUME drawing \in Seq(Seq(Nat))
    PROVE  /\ \A c \in R!Cells : R!nodeIndex(c) \in 0 .. Cardinality(R!Cells) - 1
           /\ \A c, d \in R!Cells : R!nodeIndex(c) = R!nodeIndex(d) => c = d
           /\ \A n \in 0 .. Cardinality(R!Cells) - 1 : \E c \in R!Cells : R!nodeIndex(c) = n
<1> DEFINE C == R!Cells
           Before(c) == {d \in C : d[1] < c[1] \/ (d[1] = c[1] /\ d[2] < c[2])}
           below == [c \in C |-> Before(c)]
<1>1. IsFiniteSet(C) /\ C \subseteq Nat \X Nat
  BY CellsAreDrawn
<1>2. \A c \in C : R!nodeIndex(c) = Cardinality(below[c])
  <2> SUFFICES ASSUME NEW c \in C PROVE R!nodeIndex(c) = Cardinality(Before(c))
    OBVIOUS
  <2>1. R!nodeIndex(c) = R!Cardinality(Before(c))
    BY DEF R!nodeIndex
  <2> QED
    BY <2>1, SameCardinality
<1> HIDE DEF C
<1>3. below \in [C -> SUBSET C]
  OBVIOUS
<1>4. \A c \in C : c \in Nat \X Nat /\ c[1] \in Nat /\ c[2] \in Nat /\ c = <<c[1], c[2]>>
  BY <1>1
<1>5. \A c \in C : c \notin below[c]
  BY <1>4
<1>6. ASSUME NEW c \in C, NEW d \in C, c # d
      PROVE  below[c] \union {c} \subseteq below[d] \/ below[d] \union {d} \subseteq below[c]
  <2>1. c[1] # d[1] \/ c[2] # d[2]
    BY <1>4, <1>6
  <2>2. CASE c[1] < d[1] \/ (c[1] = d[1] /\ c[2] < d[2])
    <3>1. c \in Before(d) /\ \A e \in Before(c) : e \in Before(d)
      BY <1>4, <2>2
    <3> QED
      BY <3>1
  <2>3. CASE d[1] < c[1] \/ (d[1] = c[1] /\ d[2] < c[2])
    <3>1. d \in Before(c) /\ \A e \in Before(d) : e \in Before(c)
      BY <1>4, <2>3
    <3> QED
      BY <3>1
  <2> QED
    BY <1>4, <2>1, <2>2, <2>3
<1> HIDE DEF below
<1>7. Ordered(C, below)
  BY <1>3, <1>5, <1>6 DEF Ordered
<1>8. Ranked(C, below)
  BY <1>1, <1>7, Ranks
<1> QED
  BY <1>2, <1>8 DEF C, Ranked

\* The scan of a set of numbers has each of them once.
LEMMA ScanOf ==
    ASSUME NEW S \in SUBSET Nat, IsFiniteSet(S)
    PROVE  R!Scan(S) \in Seq(S) /\ IsInjective(R!Scan(S)) /\ Range(R!Scan(S)) = S
<1> DEFINE N == Cardinality(S)
           below == [n \in S |-> {m \in S : m < n}]
           scan == R!Scan(S)
           Nth(r) == CHOOSE n \in S : Cardinality({m \in S : m < n}) = r - 1
<1>1. N \in Nat
  BY FS_CardinalityType
<1>2. /\ \A c \in S : Cardinality(below[c]) \in 0 .. N - 1
      /\ \A c, d \in S : Cardinality(below[c]) = Cardinality(below[d]) => c = d
      /\ \A n \in 0 .. N - 1 : \E c \in S : Cardinality(below[c]) = n
  <2>1. below \in [S -> SUBSET S] /\ \A c \in S : c \notin below[c]
    OBVIOUS
  <2>2. ASSUME NEW c \in S, NEW d \in S, c # d
        PROVE  below[c] \union {c} \subseteq below[d] \/ below[d] \union {d} \subseteq below[c]
    <3>1. c \in Nat /\ d \in Nat /\ (c < d \/ d < c)
      BY <2>2
    <3>2. CASE c < d
      <4>1. \A m \in S : m < c => m < d
        BY <3>1, <3>2
      <4> QED
        BY <3>2, <4>1
    <3>3. CASE d < c
      <4>1. \A m \in S : m < d => m < c
        BY <3>1, <3>3
      <4> QED
        BY <3>3, <4>1
    <3> QED
      BY <3>1, <3>2, <3>3
  <2> HIDE DEF below
  <2>3. \A c, d \in S : c # d => below[c] \union {c} \subseteq below[d] \/ below[d] \union {d} \subseteq below[c]
    BY <2>2
  <2>4. Ordered(S, below)
    BY <2>1, <2>3 DEF Ordered
  <2>5. Ranked(S, below)
    BY <2>4, Ranks
  <2> QED
    BY <2>5 DEF Ranked
<1>3. ASSUME NEW r \in 1 .. N
      PROVE  Nth(r) \in S /\ Cardinality(below[Nth(r)]) = r - 1
  <2>1. r - 1 \in 0 .. N - 1
    BY <1>1
  <2>2. \E n \in S : Cardinality(below[n]) = r - 1
    BY <1>2, <2>1
  <2>3. \E n \in S : Cardinality({m \in S : m < n}) = r - 1
    BY <2>2
  <2>4. Nth(r) \in S /\ Cardinality({m \in S : m < Nth(r)}) = r - 1
    BY <2>3
  <2> QED
    BY <2>4
<1>4. scan = [r \in 1 .. N |-> Nth(r)]
  <2>1. \A T : R!Cardinality(T) = Cardinality(T)
    BY SameCardinality
  <2>2. R!Scan(S) = [r \in 1 .. R!Cardinality(S) |->
                       CHOOSE n \in S : R!Cardinality({m \in S : m < n}) = r - 1]
    BY DEF R!Scan
  <2> QED
    BY <2>1, <2>2
<1> HIDE DEF below, Nth, N, scan
<1>5. scan \in Seq(S) /\ DOMAIN scan = 1 .. N
  BY <1>1, <1>3, <1>4
<1>6. IsInjective(scan)
  BY <1>1, <1>3, <1>4, <1>5 DEF IsInjective
<1>7. Range(scan) = S
  <2>1. ASSUME NEW n \in S PROVE n \in Range(scan)
    <3> DEFINE r == Cardinality(below[n]) + 1
    <3>1. r \in 1 .. N /\ r - 1 = Cardinality(below[n])
      BY <1>1, <1>2
    <3>2. Nth(r) = n
      BY <1>2, <1>3, <3>1
    <3> QED
      BY <1>4, <1>5, <3>1, <3>2 DEF Range
  <2>2. Range(scan) \subseteq S
    BY <1>3, <1>4, <1>5 DEF Range
  <2> QED
    BY <2>1, <2>2
<1> QED
  BY <1>5, <1>6, <1>7 DEF scan

\* The nodes are numbered from 0, and each stands on a drawn cell of its own.
LEMMA NodesHaveCells ==
    ASSUME drawing \in Seq(Seq(Nat))
    PROVE  LET N == Cardinality(R!Cells)
               place == R!physical_node_list
           IN /\ N \in Nat /\ R!PhysicalNodes = 0 .. N - 1 /\ Cardinality(R!PhysicalNodes) = N
              /\ \A n \in 0 .. N - 1 : place[n].x \in Nat /\ place[n].y \in Nat /\ Cell(place[n]) \in R!Cells
              /\ \A n, m \in 0 .. N - 1 : Cell(place[n]) = Cell(place[m]) => n = m
              /\ \A c \in R!Cells : \E n \in 0 .. N - 1 : Cell(place[n]) = c
<1> DEFINE C == R!Cells
           N == Cardinality(C)
           place == R!physical_node_list
           cell(n) == CHOOSE d \in C : R!nodeIndex(d) = n
<1>1. IsFiniteSet(C) /\ C \subseteq Nat \X Nat /\ N \in Nat
  BY CellsAreDrawn, FS_CardinalityType
<1>2. /\ \A c \in C : R!nodeIndex(c) \in 0 .. N - 1
      /\ \A c, d \in C : R!nodeIndex(c) = R!nodeIndex(d) => c = d
      /\ \A n \in 0 .. N - 1 : \E c \in C : R!nodeIndex(c) = n
  BY CellsAreNumbered
<1>3. R!PhysicalNodes = {R!nodeIndex(c) : c \in C}
  BY DEF R!PhysicalNodes
<1>4. place = [n \in R!PhysicalNodes |-> [x |-> cell(n)[1], y |-> cell(n)[2]]]
  BY DEF R!physical_node_list
<1> HIDE DEF C, place
<1>5. R!PhysicalNodes = 0 .. N - 1
  BY <1>2, <1>3
<1>6. Cardinality(R!PhysicalNodes) = N
  BY <1>1, <1>5, FS_Interval
<1>7. ASSUME NEW n \in 0 .. N - 1 PROVE cell(n) \in C /\ R!nodeIndex(cell(n)) = n
  BY <1>2
<1> HIDE DEF cell
<1>8. ASSUME NEW n \in 0 .. N - 1
      PROVE  place[n].x \in Nat /\ place[n].y \in Nat /\ Cell(place[n]) = cell(n)
  <2>1. cell(n) \in Nat \X Nat
    BY <1>1, <1>7
  <2>2. place[n] = [x |-> cell(n)[1], y |-> cell(n)[2]]
    BY <1>4, <1>5
  <2> QED
    BY <2>1, <2>2 DEF Cell
<1>9. \A c \in C : cell(R!nodeIndex(c)) = c
  BY <1>2, <1>7
<1>10. \A c \in C : \E n \in 0 .. N - 1 : Cell(place[n]) = c
  BY <1>2, <1>8, <1>9
<1>11. \A n, m \in 0 .. N - 1 : Cell(place[n]) = Cell(place[m]) => n = m
  BY <1>7, <1>8
<1> QED
  BY <1>1, <1>5, <1>6, <1>7, <1>8, <1>10, <1>11 DEF C, place

\* A list of nodes that is the drawing: numbered in the order of the list, one for each drawn
\* cell, with the nodes on the cells beside it as neighbours, and locking itself.
NodesAreDrawn(nodes, cells) ==
    /\ nodes \in Seq(PhysicalNode)
    /\ \A k \in DOMAIN nodes : nodes[k].physical_node_id = k - 1
    /\ {Cell(nodes[k]) : k \in DOMAIN nodes} = cells
    /\ \A k, l \in DOMAIN nodes : Cell(nodes[k]) = Cell(nodes[l]) => k = l
    /\ \A k \in DOMAIN nodes :
          /\ IsInjective(nodes[k].phy_adjacent_nodes)
          /\ Range(nodes[k].phy_adjacent_nodes) =
                {m \in 0 .. Len(nodes) - 1 : Distance(Cell(nodes[m + 1]), Cell(nodes[k])) = 1}
          /\ Range(nodes[k].lock_nodes) = {k - 1}

\* A list of links of such nodes: one at least to each neighbour of each node, none to another,
\* and each locks both ends.
LinksAreDrawn(nodes, links) ==
    /\ links \in Seq(PhysicalLink)
    /\ \A l \in DOMAIN links :
          Range(links[l].lock_nodes) = {links[l].from_physical_node, links[l].to_physical_node}
    /\ \A k \in DOMAIN nodes : \A m \in Range(nodes[k].phy_adjacent_nodes) :
          \E l \in DOMAIN links : links[l].from_physical_node = k - 1 /\ links[l].to_physical_node = m

\* How far two coordinates are apart.
LEMMA AbsDifference ==
    ASSUME NEW u \in Nat, NEW v \in Nat
    PROVE  /\ R!abs(u - v) = IF v > u THEN v - u ELSE u - v
           /\ R!abs(u - v) \in Nat
           /\ R!abs(u - v) = 0 <=> u = v
BY DEF R!abs

\* The nodes of smallmap.py are the drawing.
LEMMA NumberedNodesAreDrawn ==
    ASSUME drawing \in Seq(Seq(Nat))
    PROVE  NodesAreDrawn(NumberedNodes, Drawn)
<1> DEFINE N == Cardinality(R!Cells)
           place == R!physical_node_list
           nodes == NumberedNodes
           Beside(n) == {m \in R!PhysicalNodes : m # n /\ R!dx(n, m) + R!dy(n, m) = 1}
           Same(n) == {m \in R!PhysicalNodes : R!dx(n, m) <= 0 /\ R!dy(n, m) <= 0}
<1>1. /\ N \in Nat /\ R!PhysicalNodes = 0 .. N - 1 /\ Cardinality(R!PhysicalNodes) = N
      /\ \A n \in 0 .. N - 1 : place[n].x \in Nat /\ place[n].y \in Nat /\ Cell(place[n]) \in R!Cells
      /\ \A n, m \in 0 .. N - 1 : Cell(place[n]) = Cell(place[m]) => n = m
      /\ \A c \in R!Cells : \E n \in 0 .. N - 1 : Cell(place[n]) = c
  BY NodesHaveCells
<1>2. ASSUME NEW n \in 0 .. N - 1
      PROVE  /\ R!phy_adjacent_nodes(n) \in Seq(Nat) /\ IsInjective(R!phy_adjacent_nodes(n))
             /\ Range(R!phy_adjacent_nodes(n)) = Beside(n)
             /\ R!l_lock_nodes(n) \in Seq(Nat) /\ Range(R!l_lock_nodes(n)) = Same(n)
  <2>1. R!phy_adjacent_nodes(n) = R!Scan(Beside(n)) /\ R!l_lock_nodes(n) = R!Scan(Same(n))
    BY DEF R!phy_adjacent_nodes, R!l_lock_nodes
  <2>2. Beside(n) \in SUBSET (0 .. N - 1) /\ Same(n) \in SUBSET (0 .. N - 1)
    BY <1>1
  <2> HIDE DEF Beside, Same
  <2>3. IsFiniteSet(0 .. N - 1)
    <3>1. 0 \in Int /\ N - 1 \in Int
      BY <1>1
    <3> QED
      BY <3>1, FS_Interval
  <2>4. IsFiniteSet(Beside(n)) /\ IsFiniteSet(Same(n)) /\ Beside(n) \in SUBSET Nat /\ Same(n) \in SUBSET Nat
    <3>1. IsFiniteSet(Beside(n)) /\ IsFiniteSet(Same(n))
      BY <2>2, <2>3, FS_Subset
    <3>2. 0 .. N - 1 \subseteq Nat
      BY <1>1
    <3> QED
      BY <2>2, <3>1, <3>2
  <2>5. /\ R!Scan(Beside(n)) \in Seq(Beside(n)) /\ IsInjective(R!Scan(Beside(n)))
        /\ Range(R!Scan(Beside(n))) = Beside(n)
        /\ R!Scan(Same(n)) \in Seq(Same(n)) /\ Range(R!Scan(Same(n))) = Same(n)
    BY <2>4, ScanOf
  <2>6. R!Scan(Beside(n)) \in Seq(Nat) /\ R!Scan(Same(n)) \in Seq(Nat)
    BY <2>4, <2>5, SeqMonotonic
  <2> QED
    BY <2>1, <2>5, <2>6
<1>3. nodes = [k \in 1 .. N |->
        [physical_node_id |-> k - 1, x |-> place[k - 1].x, y |-> place[k - 1].y,
         phy_adjacent_nodes |-> R!phy_adjacent_nodes(k - 1), lock_nodes |-> R!l_lock_nodes(k - 1)]]
  BY <1>1 DEF NumberedNodes
<1>4. ASSUME NEW n \in 0 .. N - 1, NEW m \in 0 .. N - 1
      PROVE  /\ R!dx(n, m) + R!dy(n, m) = Distance(Cell(place[m]), Cell(place[n]))
             /\ R!dx(n, m) \in Nat /\ R!dy(n, m) \in Nat
             /\ R!dx(n, m) + R!dy(n, m) = 0 <=> n = m
  <2>1. place[n].x \in Nat /\ place[n].y \in Nat /\ place[m].x \in Nat /\ place[m].y \in Nat
    BY <1>1
  <2>2. /\ R!dx(n, m) = R!abs(place[n].x - place[m].x)
        /\ R!dy(n, m) = R!abs(place[n].y - place[m].y)
    BY DEF R!dx, R!dy
  <2> HIDE DEF place
  <2>3. /\ R!dx(n, m) = IF place[m].x > place[n].x THEN place[m].x - place[n].x ELSE place[n].x - place[m].x
        /\ R!dx(n, m) \in Nat
        /\ R!dx(n, m) = 0 <=> place[n].x = place[m].x
    <3> DEFINE u == place[n].x
               v == place[m].x
    <3>1. u \in Nat /\ v \in Nat /\ R!dx(n, m) = R!abs(u - v)
      BY <2>1, <2>2
    <3> HIDE DEF u, v
    <3>2. /\ R!abs(u - v) = IF v > u THEN v - u ELSE u - v
          /\ R!abs(u - v) \in Nat
          /\ R!abs(u - v) = 0 <=> u = v
      BY <3>1, AbsDifference
    <3> QED
      BY <3>1, <3>2 DEF u, v
  <2>4. /\ R!dy(n, m) = IF place[m].y > place[n].y THEN place[m].y - place[n].y ELSE place[n].y - place[m].y
        /\ R!dy(n, m) \in Nat
        /\ R!dy(n, m) = 0 <=> place[n].y = place[m].y
    <3> DEFINE u == place[n].y
               v == place[m].y
    <3>1. u \in Nat /\ v \in Nat /\ R!dy(n, m) = R!abs(u - v)
      BY <2>1, <2>2
    <3> HIDE DEF u, v
    <3>2. /\ R!abs(u - v) = IF v > u THEN v - u ELSE u - v
          /\ R!abs(u - v) \in Nat
          /\ R!abs(u - v) = 0 <=> u = v
      BY <3>1, AbsDifference
    <3> QED
      BY <3>1, <3>2 DEF u, v
  <2>5. R!dx(n, m) + R!dy(n, m) = 0 <=> (place[n].x = place[m].x /\ place[n].y = place[m].y)
    <3>1. R!dx(n, m) + R!dy(n, m) = 0 <=> (R!dx(n, m) = 0 /\ R!dy(n, m) = 0)
      BY <2>3, <2>4
    <3> QED
      BY <2>3, <2>4, <3>1
  <2>6. (place[n].x = place[m].x /\ place[n].y = place[m].y) <=> n = m
    BY <1>1 DEF Cell
  <2>7. Distance(Cell(place[m]), Cell(place[n])) =
          (IF place[m].x > place[n].x THEN place[m].x - place[n].x ELSE place[n].x - place[m].x)
          + (IF place[m].y > place[n].y THEN place[m].y - place[n].y ELSE place[n].y - place[m].y)
    BY Zenon DEF Distance, Cell
  <2> QED
    BY <2>3, <2>4, <2>5, <2>6, <2>7
<1>5. ASSUME NEW n \in 0 .. N - 1
      PROVE  /\ Beside(n) = {m \in 0 .. N - 1 : Distance(Cell(place[m]), Cell(place[n])) = 1}
             /\ Same(n) = {n}
  <2> HIDE DEF place, N
  <2>1. \A m \in 0 .. N - 1 : (m # n /\ R!dx(n, m) + R!dy(n, m) = 1)
                                <=> Distance(Cell(place[m]), Cell(place[n])) = 1
    BY <1>4
  <2>2. \A m \in 0 .. N - 1 : (R!dx(n, m) <= 0 /\ R!dy(n, m) <= 0) <=> m = n
    BY <1>4
  <2> QED
    BY <1>1, <2>1, <2>2
<1>6. R!Cells = Drawn
  BY CellsAreDrawn
<1> HIDE DEF N, place, nodes, Beside, Same
<1>7. ASSUME NEW k \in 1 .. N
      PROVE  /\ k - 1 \in 0 .. N - 1
             /\ nodes[k].physical_node_id = k - 1
             /\ nodes[k].x = place[k - 1].x /\ nodes[k].y = place[k - 1].y
             /\ Cell(nodes[k]) = Cell(place[k - 1])
             /\ nodes[k].phy_adjacent_nodes = R!phy_adjacent_nodes(k - 1)
             /\ nodes[k].lock_nodes = R!l_lock_nodes(k - 1)
             /\ nodes[k] \in PhysicalNode
  <2>1. k - 1 \in 0 .. N - 1 /\ k - 1 \in Nat
    BY <1>1
  <2>2. nodes[k] = [physical_node_id |-> k - 1, x |-> place[k - 1].x, y |-> place[k - 1].y,
                    phy_adjacent_nodes |-> R!phy_adjacent_nodes(k - 1), lock_nodes |-> R!l_lock_nodes(k - 1)]
    BY <1>3
  <2>3. place[k - 1].x \in Nat /\ place[k - 1].y \in Nat
    BY <1>1, <2>1
  <2>4. R!phy_adjacent_nodes(k - 1) \in Seq(Nat) /\ R!l_lock_nodes(k - 1) \in Seq(Nat)
    BY <1>2, <2>1
  <2> QED
    BY <2>1, <2>2, <2>3, <2>4 DEF PhysicalNode, Cell
<1>8. nodes \in Seq(PhysicalNode) /\ DOMAIN nodes = 1 .. N /\ Len(nodes) = N
  <2>1. DOMAIN nodes = 1 .. N
    BY <1>3
  <2>2. nodes = [k \in 1 .. N |-> nodes[k]]
    BY <1>3
  <2> QED
    BY <1>1, <1>7, <2>1, <2>2
<1>9. {Cell(nodes[k]) : k \in 1 .. N} = Drawn
  <2>1. \A k \in 1 .. N : Cell(nodes[k]) \in Drawn
    BY <1>1, <1>6, <1>7
  <2>2. ASSUME NEW c \in Drawn PROVE \E k \in 1 .. N : Cell(nodes[k]) = c
    <3>1. PICK n \in 0 .. N - 1 : Cell(place[n]) = c
      BY <1>1, <1>6
    <3>2. n + 1 \in 1 .. N /\ (n + 1) - 1 = n
      BY <1>1
    <3> QED
      BY <1>7, <3>1, <3>2
  <2> QED
    BY <2>1, <2>2
<1>10. \A k, l \in 1 .. N : Cell(nodes[k]) = Cell(nodes[l]) => k = l
  <2> SUFFICES ASSUME NEW k \in 1 .. N, NEW l \in 1 .. N, Cell(nodes[k]) = Cell(nodes[l]) PROVE k = l
    OBVIOUS
  <2>1. k - 1 = l - 1
    BY <1>1, <1>7
  <2> QED
    BY <2>1
<1>11. ASSUME NEW k \in 1 .. N
       PROVE  /\ IsInjective(nodes[k].phy_adjacent_nodes)
              /\ Range(nodes[k].phy_adjacent_nodes) =
                    {m \in 0 .. N - 1 : Distance(Cell(nodes[m + 1]), Cell(nodes[k])) = 1}
              /\ Range(nodes[k].lock_nodes) = {k - 1}
  <2>1. \A m \in 0 .. N - 1 : Cell(nodes[m + 1]) = Cell(place[m])
    <3> SUFFICES ASSUME NEW m \in 0 .. N - 1 PROVE Cell(nodes[m + 1]) = Cell(place[m])
      OBVIOUS
    <3>1. m + 1 \in 1 .. N /\ (m + 1) - 1 = m
      BY <1>1
    <3> QED
      BY <1>7, <3>1
  <2>2. k - 1 \in 0 .. N - 1 /\ Cell(nodes[k]) = Cell(place[k - 1])
    BY <1>7
  <2>3. Beside(k - 1) = {m \in 0 .. N - 1 : Distance(Cell(nodes[m + 1]), Cell(nodes[k])) = 1}
    BY <1>5, <2>1, <2>2
  <2> QED
    BY <1>2, <1>5, <1>7, <2>2, <2>3
<1>12. NodesAreDrawn(nodes, Drawn)
  BY <1>7, <1>8, <1>9, <1>10, <1>11 DEF NodesAreDrawn
<1> QED
  BY <1>12 DEF nodes

\* The lesser and the greater of two numbers are the two.
LEMMA BothEnds ==
    ASSUME NEW m \in Nat, NEW n \in Nat
    PROVE  {Min({m, n}), Max({m, n})} = {m, n}
<1>1. \E a \in {m, n} : \A b \in {m, n} : a <= b
  BY SMT
<1>2. \E a \in {m, n} : \A b \in {m, n} : a >= b
  BY SMT
<1>3. Min({m, n}) \in {m, n} /\ \A b \in {m, n} : Min({m, n}) <= b
  BY <1>1 DEF Min
<1>4. Max({m, n}) \in {m, n} /\ \A b \in {m, n} : Max({m, n}) >= b
  BY <1>2 DEF Max
<1> QED
  BY <1>3, <1>4

\* The links that smallmap.py makes of the nodes.
LEMMA LinksOfAreDrawn ==
    ASSUME NEW nodes, NEW cells, NodesAreDrawn(nodes, cells)
    PROVE  LinksAreDrawn(nodes, LinksOf(nodes))
<1> DEFINE N == Len(nodes)
           adj(k) == nodes[k].phy_adjacent_nodes
           Link(from, to) == [from_physical_node |-> from, to_physical_node |-> to,
                              lock_nodes |-> LinkLocks(nodes, from, to)]
           ss == [k \in 1 .. N |-> [l \in DOMAIN adj(k) |-> Link(k - 1, adj(k)[l])]]
           links == LinksOf(nodes)
<1>1. /\ N \in Nat /\ DOMAIN nodes = 1 .. N
      /\ \A k \in 1 .. N : nodes[k] \in PhysicalNode
  BY DEF NodesAreDrawn
<1>2. \A k \in 1 .. N : /\ nodes[k].physical_node_id = k - 1
                        /\ Range(nodes[k].lock_nodes) = {k - 1}
                        /\ Range(adj(k)) \subseteq 0 .. N - 1
                        /\ adj(k) \in Seq(Nat) /\ nodes[k].lock_nodes \in Seq(Nat)
  <2> SUFFICES ASSUME NEW k \in 1 .. N
               PROVE  /\ nodes[k].physical_node_id = k - 1
                      /\ Range(nodes[k].lock_nodes) = {k - 1}
                      /\ Range(adj(k)) \subseteq 0 .. N - 1
                      /\ adj(k) \in Seq(Nat) /\ nodes[k].lock_nodes \in Seq(Nat)
    OBVIOUS
  <2>1. adj(k) \in Seq(Nat) /\ nodes[k].lock_nodes \in Seq(Nat)
    BY <1>1 DEF PhysicalNode
  <2>2. nodes[k].physical_node_id = k - 1
    BY <1>1 DEF NodesAreDrawn
  <2>3. /\ Range(nodes[k].lock_nodes) = {k - 1}
        /\ Range(adj(k)) = {m \in 0 .. N - 1 : Distance(Cell(nodes[m + 1]), Cell(nodes[k])) = 1}
    BY <1>1 DEF NodesAreDrawn
  <2> QED
    BY <2>1, <2>2, <2>3
<1>3. ASSUME NEW from \in 0 .. N - 1, NEW to \in 0 .. N - 1
      PROVE  /\ Link(from, to) \in PhysicalLink
             /\ Range(Link(from, to).lock_nodes) = {from, to}
  <2> DEFINE lo == Min({from, to})
             hi == Max({from, to})
  <2>1. {lo, hi} = {from, to}
    <3>1. from \in Nat /\ to \in Nat
      BY <1>1
    <3> QED
      BY <3>1, BothEnds
  <2> HIDE DEF lo, hi
  <2>2. lo + 1 \in 1 .. N /\ hi + 1 \in 1 .. N /\ (lo + 1) - 1 = lo /\ (hi + 1) - 1 = hi
    <3>1. lo \in 0 .. N - 1 /\ hi \in 0 .. N - 1
      <4> HIDE DEF N
      <4> QED
        BY <2>1
    <3> QED
      BY <1>1, <3>1
  <2>3. LinkLocks(nodes, from, to) = nodes[lo + 1].lock_nodes \o nodes[hi + 1].lock_nodes
    BY DEF LinkLocks, lo, hi
  <2>4. /\ nodes[lo + 1].lock_nodes \in Seq(Nat) /\ Range(nodes[lo + 1].lock_nodes) = {lo}
        /\ nodes[hi + 1].lock_nodes \in Seq(Nat) /\ Range(nodes[hi + 1].lock_nodes) = {hi}
    BY <1>2, <2>2
  <2>5. LinkLocks(nodes, from, to) \in Seq(Nat) /\ Range(LinkLocks(nodes, from, to)) = {lo} \union {hi}
    BY <2>3, <2>4, ConcatRange
  <2> QED
    BY <2>1, <2>5 DEF PhysicalLink
<1>4. links = FlattenSeq(ss)
  <2>1. \A k \in 1 .. N : ss[k] =
            LET from == nodes[k].physical_node_id
            IN [l \in DOMAIN adj(k) |->
                  LET to == adj(k)[l]
                  IN [from_physical_node |-> from, to_physical_node |-> to, lock_nodes |-> LinkLocks(nodes, from, to)]]
    BY <1>2
  <2> QED
    BY <1>1, <2>1 DEF LinksOf
<1>5. \A k \in 1 .. N : \A l \in DOMAIN adj(k) : k - 1 \in 0 .. N - 1 /\ adj(k)[l] \in 0 .. N - 1
  <2> SUFFICES ASSUME NEW k \in 1 .. N, NEW l \in DOMAIN adj(k)
               PROVE  k - 1 \in 0 .. N - 1 /\ adj(k)[l] \in 0 .. N - 1
    OBVIOUS
  <2>1. adj(k)[l] \in Range(adj(k))
    BY DEF Range
  <2> QED
    BY <1>1, <1>2, <2>1
<1> HIDE DEF links, Link, adj
<1>6. \A k \in 1 .. N : ss[k] \in Seq(PhysicalLink)
  <2> SUFFICES ASSUME NEW k \in 1 .. N PROVE ss[k] \in Seq(PhysicalLink)
    OBVIOUS
  <2>1. DOMAIN adj(k) = 1 .. Len(adj(k)) /\ Len(adj(k)) \in Nat
    BY <1>2
  <2>2. \A l \in 1 .. Len(adj(k)) : Link(k - 1, adj(k)[l]) \in PhysicalLink
    BY <1>3, <1>5, <2>1
  <2> QED
    BY <2>1, <2>2
<1>7. ss \in Seq(Seq(PhysicalLink)) /\ Len(ss) = N
  <2> HIDE DEF N
  <2>1. ss = [k \in 1 .. N |-> ss[k]] /\ DOMAIN ss = 1 .. N
    OBVIOUS
  <2> HIDE DEF ss
  <2> QED
    BY <1>1, <1>6, <2>1
<1>8. links \in Seq(PhysicalLink) /\ Range(links) = UNION {Range(ss[k]) : k \in 1 .. N}
  <2> HIDE DEF ss
  <2> QED
    BY <1>4, <1>7, FlattenRange
<1>9. \A k \in 1 .. N : Range(ss[k]) = {Link(k - 1, adj(k)[l]) : l \in DOMAIN adj(k)}
  BY DEF Range
<1> HIDE DEF ss
<1>10. ASSUME NEW l \in DOMAIN links
       PROVE  Range(links[l].lock_nodes) = {links[l].from_physical_node, links[l].to_physical_node}
  <2>1. links[l] \in Range(links)
    BY DEF Range
  <2>2. PICK k \in 1 .. N : links[l] \in Range(ss[k])
    BY <1>8, <2>1
  <2>3. PICK j \in DOMAIN adj(k) : links[l] = Link(k - 1, adj(k)[j])
    BY <1>9, <2>2
  <2>4. Range(links[l].lock_nodes) = {k - 1, adj(k)[j]}
    BY <1>3, <1>5, <2>3
  <2> QED
    BY <2>3, <2>4 DEF Link
<1>11. ASSUME NEW k \in 1 .. N, NEW m \in Range(adj(k))
       PROVE  \E l \in DOMAIN links : links[l].from_physical_node = k - 1 /\ links[l].to_physical_node = m
  <2>1. PICK j \in DOMAIN adj(k) : m = adj(k)[j]
    BY DEF Range
  <2>2. Link(k - 1, m) \in Range(ss[k])
    BY <1>9, <2>1
  <2>3. Link(k - 1, m) \in Range(links)
    BY <1>8, <2>2
  <2>4. PICK l \in DOMAIN links : links[l] = Link(k - 1, m)
    BY <2>3 DEF Range
  <2> QED
    BY <2>4 DEF Link
<1> QED
  BY <1>1, <1>8, <1>10, <1>11 DEF LinksAreDrawn, links, adj

--------------------------------------------------------------------------------
(* What LMap::ReadMap makes of the lists in Redis. *)

\* A list that begins with another and repeats its members.
Covers(read, list) ==
    /\ read \in Seq(Range(list))
    /\ Len(read) >= Len(list)
    /\ \A k \in DOMAIN list : read[k] = list[k]

\* A map of the planner whose nodes are the drawing, with their neighbours and lock nodes.
IsTheDrawing(m, cells) ==
    LET place == m.node_list
        PlacesOf(ids) == [k \in DOMAIN ids |-> place[ids[k]]]
    IN /\ Range(place) = cells
       /\ \A n \in DOMAIN place :
             /\ Range(PlacesOf(m.neighbour_node_list[n])) = {c \in cells : Distance(c, place[n]) = 1}
             /\ IsInjective(PlacesOf(m.neighbour_node_list[n]))
             /\ \A k \in DOMAIN m.travel_time_list[n] : m.travel_time_list[n][k] = 1
             /\ Range(PlacesOf(m.lock_node_list[n])) = {place[n]}

\* A map whose links go from each of the nodes that were read to each of its neighbours.
HasItsLinks(m, nodes) ==
    \A n \in DOMAIN m.node_list :
        LET id == nodes[n + 1].physical_node_id
        IN \A to \in Range(m.neighbour_node_list[n]) :
              /\ <<id, to>> \in DOMAIN m.link_id_map
              /\ Range(m.link_lock_node_list[m.link_id_map[<<id, to>>]]) = {id, to}

\* Nodes that were read where list was written: no other than those of list, each of these at
\* its place, and the id of each names a place with a node on the same cell.
AreNodesOf(nodes, list) ==
    /\ Len(list) \in Nat /\ Len(nodes) \in Nat /\ Len(list) <= Len(nodes)
    /\ DOMAIN list = 1 .. Len(list) /\ DOMAIN nodes = 1 .. Len(nodes)
    /\ \A k \in 1 .. Len(nodes) : \E j \in 1 .. Len(list) :
          /\ nodes[k] = list[j]
          /\ nodes[k].physical_node_id = j - 1
    /\ \A j \in 1 .. Len(list) : nodes[j] = list[j]
    /\ \A i \in 0 .. Len(nodes) - 1 : At(nodes, i) = Cell(nodes[i + 1])

\* So it is with a list that covers the nodes of the drawing.
LEMMA NodesRead ==
    ASSUME NEW list, NEW cells, NodesAreDrawn(list, cells), NEW nodes, Covers(nodes, list)
    PROVE  AreNodesOf(nodes, list)
<1>1. /\ list \in Seq(PhysicalNode) /\ Len(list) \in Nat /\ DOMAIN list = 1 .. Len(list)
      /\ \A k \in 1 .. Len(list) : list[k].physical_node_id = k - 1
  BY DEF NodesAreDrawn
<1>2. /\ nodes \in Seq(Range(list)) /\ Len(nodes) \in Nat /\ DOMAIN nodes = 1 .. Len(nodes)
      /\ Len(list) <= Len(nodes) /\ \A j \in 1 .. Len(list) : nodes[j] = list[j]
  BY <1>1 DEF Covers
<1>3. ASSUME NEW k \in 1 .. Len(nodes)
      PROVE  \E j \in 1 .. Len(list) : nodes[k] = list[j] /\ nodes[k].physical_node_id = j - 1
  <2>1. nodes[k] \in Range(list)
    BY <1>2
  <2>2. PICK j \in 1 .. Len(list) : nodes[k] = list[j]
    BY <1>1, <2>1 DEF Range
  <2> QED
    BY <1>1, <2>2
<1>4. ASSUME NEW i \in 0 .. Len(nodes) - 1
      PROVE  At(nodes, i) = Cell(nodes[i + 1])
  <2>1. i + 1 \in 1 .. Len(nodes)
    BY <1>2
  <2>2. PICK j \in 1 .. Len(list) : nodes[i + 1] = list[j] /\ nodes[i + 1].physical_node_id = j - 1
    BY <1>3, <2>1
  <2>3. nodes[i + 1].physical_node_id + 1 = j
    BY <2>2
  <2>4. nodes[j] = nodes[i + 1]
    BY <1>2, <2>2
  <2> QED
    BY <2>3, <2>4 DEF At, Cell
<1> QED
  BY <1>1, <1>2, <1>3, <1>4 DEF AreNodesOf

\* Distances are the same both ways.
LEMMA DistanceSymmetric ==
    ASSUME NEW a \in Nat, NEW b \in Nat, NEW c \in Nat, NEW d \in Nat
    PROVE  Distance(<<a, b>>, <<c, d>>) = Distance(<<c, d>>, <<a, b>>)
BY DEF Distance

\* The lists of a map of these nodes and links.
HasListsOf(m, nodes, links) ==
    /\ m.node_list = [i \in 0 .. Len(nodes) - 1 |-> At(nodes, i)]
    /\ \A i \in 0 .. Len(nodes) - 1 :
          /\ m.neighbour_node_list[i] = nodes[i + 1].phy_adjacent_nodes
          /\ m.lock_node_list[i] = nodes[i + 1].lock_nodes
          /\ DOMAIN m.travel_time_list[i] = DOMAIN nodes[i + 1].phy_adjacent_nodes
          /\ \A k \in DOMAIN nodes[i + 1].phy_adjacent_nodes :
                m.travel_time_list[i][k] = TravelTime(nodes, i, nodes[i + 1].phy_adjacent_nodes[k])
    /\ m.link_lock_node_list = Vector([k \in DOMAIN links |-> links[k].lock_nodes])
    /\ m.link_id_map = LinkIdMap(links)

\* ReadMap fills them.
LEMMA ReadMapFills ==
    ASSUME NEW nodes, NEW links
    PROVE  HasListsOf(ReadMap(nodes, links), nodes, links)
BY DEF ReadMap, HasListsOf

\* The nodes that the planner reads are the drawing.
LEMMA NodesReadAreTheDrawing ==
    ASSUME NEW list, NEW cells, NodesAreDrawn(list, cells), NEW nodes, Covers(nodes, list), NEW links
    PROVE  IsTheDrawing(ReadMap(nodes, links), cells)
<1> DEFINE N == Len(list)
           L == Len(nodes)
           m == ReadMap(nodes, links)
           place == m.node_list
           PlacesOf(ids) == [k \in DOMAIN ids |-> place[ids[k]]]
<1>1. /\ N \in Nat /\ L \in Nat /\ N <= L /\ DOMAIN list = 1 .. N /\ DOMAIN nodes = 1 .. L
      /\ \A k \in 1 .. L : \E j \in 1 .. N : nodes[k] = list[j] /\ nodes[k].physical_node_id = j - 1
      /\ \A j \in 1 .. N : nodes[j] = list[j]
      /\ \A i \in 0 .. L - 1 : At(nodes, i) = Cell(nodes[i + 1])
  <2> HIDE DEF m
  <2>1. AreNodesOf(nodes, list)
    BY NodesRead
  <2> QED
    BY <2>1 DEF AreNodesOf
<1>2. /\ {Cell(list[j]) : j \in 1 .. N} = cells
      /\ \A j, l \in 1 .. N : Cell(list[j]) = Cell(list[l]) => j = l
      /\ \A j \in 1 .. N :
            /\ list[j] \in PhysicalNode
            /\ IsInjective(list[j].phy_adjacent_nodes)
            /\ Range(list[j].phy_adjacent_nodes) = {n \in 0 .. N - 1 : Distance(Cell(list[n + 1]), Cell(list[j])) = 1}
            /\ Range(list[j].lock_nodes) = {j - 1}
  <2>1. \A j \in 1 .. N : list[j] \in PhysicalNode
    BY <1>1 DEF NodesAreDrawn
  <2>2. DOMAIN list = 1 .. N
    BY <1>1
  <2> HIDE DEF m
  <2>3. /\ {Cell(list[j]) : j \in DOMAIN list} = cells
        /\ \A j, l \in DOMAIN list : Cell(list[j]) = Cell(list[l]) => j = l
    BY DEF NodesAreDrawn
  <2>4. ASSUME NEW j \in DOMAIN list
        PROVE  /\ IsInjective(list[j].phy_adjacent_nodes)
               /\ Range(list[j].phy_adjacent_nodes) =
                     {n \in 0 .. N - 1 : Distance(Cell(list[n + 1]), Cell(list[j])) = 1}
               /\ Range(list[j].lock_nodes) = {j - 1}
    BY DEF NodesAreDrawn
  <2> HIDE DEF N
  <2> QED
    BY <2>1, <2>2, <2>3, <2>4
<1>3. /\ place = [i \in 0 .. L - 1 |-> At(nodes, i)]
      /\ \A i \in 0 .. L - 1 :
            /\ m.neighbour_node_list[i] = nodes[i + 1].phy_adjacent_nodes
            /\ m.lock_node_list[i] = nodes[i + 1].lock_nodes
            /\ DOMAIN m.travel_time_list[i] = DOMAIN nodes[i + 1].phy_adjacent_nodes
            /\ \A k \in DOMAIN nodes[i + 1].phy_adjacent_nodes :
                  m.travel_time_list[i][k] = TravelTime(nodes, i, nodes[i + 1].phy_adjacent_nodes[k])
  <2>1. HasListsOf(m, nodes, links)
    BY ReadMapFills
  <2> HIDE DEF m
  <2> QED
    BY <2>1 DEF HasListsOf
<1> HIDE DEF m, N, L
<1>4. /\ DOMAIN place = 0 .. L - 1
      /\ \A i \in 0 .. L - 1 : place[i] = Cell(nodes[i + 1])
  BY <1>1, <1>3
<1>5. \A i \in 0 .. L - 1 : \E j \in 1 .. N : nodes[i + 1] = list[j]
  <2> SUFFICES ASSUME NEW i \in 0 .. L - 1 PROVE \E j \in 1 .. N : nodes[i + 1] = list[j]
    OBVIOUS
  <2>1. i + 1 \in 1 .. L
    BY <1>1
  <2> QED
    BY <1>1, <2>1
<1>6. ASSUME NEW n \in 0 .. N - 1
      PROVE  n \in 0 .. L - 1 /\ n + 1 \in 1 .. N /\ place[n] = Cell(list[n + 1])
  <2>1. n \in 0 .. L - 1 /\ n + 1 \in 1 .. N
    BY <1>1
  <2> QED
    BY <1>1, <1>4, <2>1
<1>7. \A j \in 1 .. N : j - 1 \in 0 .. N - 1 /\ place[j - 1] = Cell(list[j])
  <2> SUFFICES ASSUME NEW j \in 1 .. N PROVE j - 1 \in 0 .. N - 1 /\ place[j - 1] = Cell(list[j])
    OBVIOUS
  <2>1. j - 1 \in 0 .. N - 1 /\ (j - 1) + 1 = j
    BY <1>1
  <2> QED
    BY <1>6, <2>1
<1> HIDE DEF place
<1>8. Range(place) = cells
  <2>1. ASSUME NEW i \in 0 .. L - 1 PROVE place[i] \in cells
    BY <1>2, <1>4, <1>5
  <2>2. ASSUME NEW c \in cells PROVE c \in Range(place)
    <3>1. PICK j \in 1 .. N : c = Cell(list[j])
      BY <1>2
    <3>2. j - 1 \in 0 .. L - 1 /\ place[j - 1] = c
      BY <1>6, <1>7, <3>1
    <3> QED
      BY <1>4, <3>2 DEF Range
  <2> QED
    BY <1>4, <2>1, <2>2 DEF Range
<1>9. ASSUME NEW i \in 0 .. L - 1
      PROVE  /\ Range(PlacesOf(m.neighbour_node_list[i])) = {c \in cells : Distance(c, place[i]) = 1}
             /\ IsInjective(PlacesOf(m.neighbour_node_list[i]))
             /\ \A k \in DOMAIN m.travel_time_list[i] : m.travel_time_list[i][k] = 1
             /\ Range(PlacesOf(m.lock_node_list[i])) = {place[i]}
  <2>1. PICK j \in 1 .. N : nodes[i + 1] = list[j]
    BY <1>5
  <2> DEFINE adj == list[j].phy_adjacent_nodes
             lock == list[j].lock_nodes
  <2>2. place[i] = Cell(list[j]) /\ m.neighbour_node_list[i] = adj /\ m.lock_node_list[i] = lock
    BY <1>3, <1>4, <2>1
  <2>3. /\ IsInjective(adj) /\ Range(lock) = {j - 1}
        /\ Range(adj) = {n \in 0 .. N - 1 : Distance(Cell(list[n + 1]), Cell(list[j])) = 1}
    BY <1>2
  <2> HIDE DEF adj, lock
  <2>4. ASSUME NEW k \in DOMAIN adj
        PROVE  /\ adj[k] \in 0 .. N - 1 /\ place[adj[k]] = Cell(list[adj[k] + 1])
               /\ Distance(place[adj[k]], place[i]) = 1
    <3>1. adj[k] \in Range(adj)
      BY DEF Range
    <3> QED
      BY <1>6, <2>2, <2>3, <3>1
  <2>5. Range(PlacesOf(adj)) = {c \in cells : Distance(c, place[i]) = 1}
    <3>1. ASSUME NEW k \in DOMAIN adj PROVE place[adj[k]] \in cells
      <4>1. place[adj[k]] \in Range(place)
        BY <1>4, <1>6, <2>4 DEF Range
      <4> QED
        BY <1>8, <4>1
    <3>2. ASSUME NEW c \in cells, Distance(c, place[i]) = 1
          PROVE  \E k \in DOMAIN adj : place[adj[k]] = c
      <4>1. PICK l \in 1 .. N : c = Cell(list[l])
        BY <1>2
      <4>2. l - 1 \in 0 .. N - 1 /\ (l - 1) + 1 = l
        BY <1>7
      <4>3. l - 1 \in Range(adj)
        BY <2>2, <2>3, <3>2, <4>1, <4>2
      <4>4. PICK k \in DOMAIN adj : adj[k] = l - 1
        BY <4>3 DEF Range
      <4> QED
        BY <1>7, <4>1, <4>4
    <3> QED
      BY <2>4, <3>1, <3>2 DEF Range
  <2>6. IsInjective(PlacesOf(adj))
    <3> SUFFICES ASSUME NEW a \in DOMAIN adj, NEW b \in DOMAIN adj, place[adj[a]] = place[adj[b]]
                 PROVE  a = b
      BY DEF IsInjective
    <3>1. adj[a] + 1 \in 1 .. N /\ adj[b] + 1 \in 1 .. N
      BY <1>6, <2>4
    <3>2. adj[a] + 1 = adj[b] + 1
      BY <1>2, <2>4, <3>1
    <3>3. adj[a] = adj[b]
      BY <2>4, <3>2
    <3> QED
      BY <2>3, <3>3 DEF IsInjective
  <2>7. ASSUME NEW k \in DOMAIN adj PROVE TravelTime(nodes, i, adj[k]) = 1
    <3>1. At(nodes, i) = place[i] /\ At(nodes, adj[k]) = place[adj[k]]
      BY <1>3, <1>6, <2>4
    <3>2. adj[k] + 1 \in 1 .. N
      BY <1>6, <2>4
    <3>3. Distance(Cell(list[j]), Cell(list[adj[k] + 1])) = Distance(Cell(list[adj[k] + 1]), Cell(list[j]))
      <4>1. list[j].x \in Nat /\ list[j].y \in Nat /\ list[adj[k] + 1].x \in Nat /\ list[adj[k] + 1].y \in Nat
        BY <1>2, <3>2 DEF PhysicalNode
      <4> QED
        BY <4>1, DistanceSymmetric DEF Cell
    <3>4. Distance(At(nodes, i), At(nodes, adj[k])) = 1
      BY <2>2, <2>4, <3>1, <3>3
    <3> QED
      BY <3>4 DEF TravelTime
  <2>8. \A k \in DOMAIN m.travel_time_list[i] : m.travel_time_list[i][k] = 1
    BY <1>3, <2>1, <2>7 DEF adj
  <2>9. Range(PlacesOf(lock)) = {place[i]}
    <3>1. \A k \in DOMAIN lock : lock[k] = j - 1
      BY <2>3 DEF Range
    <3>2. \E k \in DOMAIN lock : TRUE
      BY <2>3 DEF Range
    <3>3. place[j - 1] = place[i]
      BY <1>7, <2>2
    <3> QED
      BY <3>1, <3>2, <3>3 DEF Range
  <2> QED
    BY <2>2, <2>5, <2>6, <2>8, <2>9
<1> QED
  BY <1>4, <1>8, <1>9 DEF IsTheDrawing, place, m

\* The link that link_id_map gives for two nodes with a link is one between the two.
LEMMA LinkIdMapFinds ==
    ASSUME NEW links \in Seq(PhysicalLink), NEW k \in DOMAIN links
    PROVE  LET p == <<links[k].from_physical_node, links[k].to_physical_node>>
           IN /\ p \in DOMAIN LinkIdMap(links)
              /\ LinkIdMap(links)[p] \in 0 .. Len(links) - 1
              /\ <<links[LinkIdMap(links)[p] + 1].from_physical_node,
                   links[LinkIdMap(links)[p] + 1].to_physical_node>> = p
<1> DEFINE Ends(l) == <<links[l].from_physical_node, links[l].to_physical_node>>
           p == Ends(k)
           Pairs == {Ends(l) : l \in DOMAIN links}
           Between(q) == {l \in DOMAIN links : q = Ends(l)}
<1>1. Len(links) \in Nat /\ DOMAIN links = 1 .. Len(links)
  OBVIOUS
<1>2. LinkIdMap(links) = [q \in Pairs |-> Max(Between(q)) - 1]
  BY DEF LinkIdMap
<1>3. Between(p) \in SUBSET (0 .. Len(links)) /\ Between(p) # {} /\ Between(p) \subseteq 1 .. Len(links)
  BY <1>1
<1>4. Max(Between(p)) \in Between(p)
  <2> HIDE DEF Between, p
  <2> QED
    BY <1>1, <1>3, GreatestMember
<1>5. p \in Pairs
  OBVIOUS
<1> DEFINE l == Max(Between(p))
<1>6. l \in 1 .. Len(links) /\ Ends(l) = p
  BY <1>3, <1>4
<1>7. LinkIdMap(links)[p] = l - 1
  BY <1>2, <1>5
<1>8. p \in DOMAIN LinkIdMap(links)
  BY <1>2, <1>5
<1> HIDE DEF l
<1>9. l - 1 \in 0 .. Len(links) - 1 /\ (l - 1) + 1 = l
  BY <1>1, <1>6
<1> QED
  BY <1>6, <1>7, <1>8, <1>9

\* What a list holds that was read where another was written.
LEMMA LinksRead ==
    ASSUME NEW nodes, NEW list, LinksAreDrawn(nodes, list), NEW links, Covers(links, list)
    PROVE  LinksAreDrawn(nodes, links)
<1>1. /\ list \in Seq(PhysicalLink) /\ Len(list) \in Nat /\ DOMAIN list = 1 .. Len(list)
      /\ \A l \in DOMAIN list : Range(list[l].lock_nodes) = {list[l].from_physical_node, list[l].to_physical_node}
  <2>1. list \in Seq(PhysicalLink)
    BY DEF LinksAreDrawn
  <2>2. \A l \in DOMAIN list : Range(list[l].lock_nodes) = {list[l].from_physical_node, list[l].to_physical_node}
    BY DEF LinksAreDrawn
  <2>3. Len(list) \in Nat /\ DOMAIN list = 1 .. Len(list)
    BY <2>1, LenProperties
  <2> QED
    BY <2>1, <2>2, <2>3
<1>2. /\ links \in Seq(Range(list)) /\ Len(links) \in Nat /\ DOMAIN links = 1 .. Len(links)
      /\ Len(list) <= Len(links) /\ \A l \in 1 .. Len(list) : links[l] = list[l]
  BY <1>1 DEF Covers
<1>3. Range(list) \subseteq PhysicalLink
  BY <1>1 DEF Range
<1>4. links \in Seq(PhysicalLink)
  BY <1>2, <1>3, SeqMonotonic
<1>5. ASSUME NEW l \in DOMAIN links
      PROVE  Range(links[l].lock_nodes) = {links[l].from_physical_node, links[l].to_physical_node}
  <2>1. links[l] \in Range(list)
    BY <1>2
  <2>2. PICK j \in DOMAIN list : links[l] = list[j]
    BY <2>1 DEF Range
  <2> QED
    BY <1>1, <2>2
<1>6. ASSUME NEW k \in DOMAIN nodes, NEW m \in Range(nodes[k].phy_adjacent_nodes)
      PROVE  \E l \in DOMAIN links : links[l].from_physical_node = k - 1 /\ links[l].to_physical_node = m
  <2>1. PICK l \in DOMAIN list : list[l].from_physical_node = k - 1 /\ list[l].to_physical_node = m
    BY DEF LinksAreDrawn
  <2>2. l \in DOMAIN links /\ links[l] = list[l]
    BY <1>1, <1>2
  <2> QED
    BY <2>1, <2>2
<1> QED
  BY <1>4, <1>5, <1>6 DEF LinksAreDrawn

\* The links that the planner reads are found for each two neighbours among the nodes that it read before.
LEMMA LinksReadAreFound ==
    ASSUME NEW list, NEW cells, NodesAreDrawn(list, cells), NEW nodes, Covers(nodes, list),
           NEW linkList, LinksAreDrawn(list, linkList), NEW links, Covers(links, linkList)
    PROVE  HasItsLinks(ReadMap(nodes, links), nodes)
<1> DEFINE m == ReadMap(nodes, links)
           L == Len(nodes)
<1>1. AreNodesOf(nodes, list)
  BY NodesRead
<1>2. LinksAreDrawn(list, links)
  BY LinksRead
<1>3. HasListsOf(m, nodes, links)
  BY ReadMapFills
<1> HIDE DEF m
<1>4. L \in Nat /\ DOMAIN m.node_list = 0 .. L - 1
  BY <1>1, <1>3 DEF AreNodesOf, HasListsOf
<1> SUFFICES ASSUME NEW n \in 0 .. L - 1, NEW to \in Range(m.neighbour_node_list[n])
             PROVE  LET id == nodes[n + 1].physical_node_id
                    IN /\ <<id, to>> \in DOMAIN m.link_id_map
                       /\ Range(m.link_lock_node_list[m.link_id_map[<<id, to>>]]) = {id, to}
  BY <1>4 DEF HasItsLinks, m
<1> DEFINE id == nodes[n + 1].physical_node_id
<1>5. n + 1 \in 1 .. L
  BY <1>4
<1>6. PICK j \in DOMAIN list : nodes[n + 1] = list[j] /\ id = j - 1
  BY <1>1, <1>5 DEF AreNodesOf
<1>7. to \in Range(list[j].phy_adjacent_nodes)
  BY <1>3, <1>6 DEF HasListsOf
<1> HIDE DEF id, L
<1>8. links \in Seq(PhysicalLink)
  BY <1>2 DEF LinksAreDrawn
<1>9. PICK k \in DOMAIN links : links[k].from_physical_node = id /\ links[k].to_physical_node = to
  BY <1>2, <1>6, <1>7 DEF LinksAreDrawn
<1> DEFINE at == LinkIdMap(links)[<<id, to>>]
<1>10. /\ <<id, to>> \in DOMAIN LinkIdMap(links) /\ at \in 0 .. Len(links) - 1
       /\ <<links[at + 1].from_physical_node, links[at + 1].to_physical_node>> = <<id, to>>
  BY <1>8, <1>9, LinkIdMapFinds
<1>11. m.link_id_map = LinkIdMap(links) /\ m.link_lock_node_list = Vector([l \in DOMAIN links |-> links[l].lock_nodes])
  BY <1>3 DEF HasListsOf
<1> HIDE DEF at
<1>12. Len(links) \in Nat /\ DOMAIN links = 1 .. Len(links)
  BY <1>8
<1>13. at + 1 \in DOMAIN links
  BY <1>10, <1>12
<1>14. m.link_lock_node_list[at] = links[at + 1].lock_nodes
  <2> DEFINE locks == [l \in DOMAIN links |-> links[l].lock_nodes]
  <2>1. Len(locks) = Len(links) /\ locks[at + 1] = links[at + 1].lock_nodes
    <3>1. locks = [l \in 1 .. Len(links) |-> links[l].lock_nodes]
      BY <1>12
    <3>2. DOMAIN locks = 1 .. Len(links)
      BY <3>1
    <3> QED
      BY <1>12, <1>13, <3>2
  <2> HIDE DEF locks
  <2>2. Vector(locks)[at] = locks[at + 1]
    BY <1>10, <2>1 DEF Vector
  <2> QED
    BY <1>11, <2>1, <2>2 DEF locks
<1>15. Range(links[at + 1].lock_nodes) = {links[at + 1].from_physical_node, links[at + 1].to_physical_node}
  BY <1>2, <1>13 DEF LinksAreDrawn
<1>16. links[at + 1].from_physical_node = id /\ links[at + 1].to_physical_node = to
  BY <1>10
<1> QED
  BY <1>10, <1>11, <1>14, <1>15, <1>16 DEF at, id

--------------------------------------------------------------------------------
(* The inductive invariant. *)

\* What smallmap.py writes is the drawing.
CsvOK ==
    /\ NodesAreDrawn(PhysicalNodeList, Drawn)
    /\ LinksAreDrawn(PhysicalNodeList, PhysicalLinkList)

\* A list in Redis after n of the writes of a first run, or after at least one whole run.
WrittenAs(read, list, n, runs) ==
    /\ read \in Seq(Range(list))
    /\ \A k \in DOMAIN list : k <= Len(read) => read[k] = list[k]
    /\ IF runs = 0 THEN Len(read) = n ELSE Len(read) >= Len(list)

\* The commands are given in the order of the lists, the nodes before the links.
RedisOK ==
    /\ builds \in Nat /\ pushed \in 0 .. Commands
    /\ WrittenAs(physical_node_list, PhysicalNodeList,
                 IF pushed <= Len(PhysicalNodeList) THEN pushed ELSE Len(PhysicalNodeList), builds)
    /\ WrittenAs(physical_link_list, PhysicalLinkList,
                 IF pushed <= Len(PhysicalNodeList) THEN 0 ELSE pushed - Len(PhysicalNodeList), builds)

\* What the server has read after each of its reading steps.
ServerOK ==
    /\ line \in {"off", "links", "targets", "running"}
    /\ line # "off" => builds >= 1 /\ Covers(physical_nodes, PhysicalNodeList)
    /\ Loaded => lmap.node_list = [i \in 0 .. Len(physical_nodes) - 1 |-> At(physical_nodes, i)]

Inv == CsvOK /\ RedisOK /\ ServerOK /\ MapIsWhole

\* The lengths of what smallmap.py writes.
LEMMA CsvLengths ==
    ASSUME CsvOK
    PROVE  /\ Len(PhysicalNodeList) \in Nat /\ Len(PhysicalLinkList) \in Nat
           /\ DOMAIN PhysicalNodeList = 1 .. Len(PhysicalNodeList)
           /\ DOMAIN PhysicalLinkList = 1 .. Len(PhysicalLinkList)
           /\ Commands = Len(PhysicalNodeList) + Len(PhysicalLinkList)
<1>1. PhysicalNodeList \in Seq(PhysicalNode) /\ PhysicalLinkList \in Seq(PhysicalLink)
  BY DEF CsvOK, NodesAreDrawn, LinksAreDrawn
<1> QED
  BY <1>1 DEF Commands

\* The next member of the list at the end of what was written of it, or of any longer list.
LEMMA WriteNext ==
    ASSUME NEW list, Len(list) \in Nat, DOMAIN list = 1 .. Len(list),
           NEW read, NEW n \in 0 .. Len(list) - 1, NEW runs, WrittenAs(read, list, n, runs)
    PROVE  WrittenAs(Append(read, list[n + 1]), list, n + 1, runs)
<1> DEFINE new == Append(read, list[n + 1])
<1>1. read \in Seq(Range(list)) /\ Len(read) \in Nat
  <2>1. read \in Seq(Range(list))
    BY DEF WrittenAs
  <2> QED
    BY <2>1
<1>2. n + 1 \in 1 .. Len(list) /\ list[n + 1] \in Range(list)
  BY DEF Range
<1>3. /\ new \in Seq(Range(list)) /\ Len(new) = Len(read) + 1
      /\ \A k \in 1 .. Len(read) : new[k] = read[k]
      /\ new[Len(read) + 1] = list[n + 1]
  BY <1>1, <1>2, AppendProperties
<1> HIDE DEF new
<1>4. \A k \in DOMAIN list : k <= Len(read) => read[k] = list[k]
  BY DEF WrittenAs
<1>5. CASE runs = 0
  <2>1. Len(read) = n
    BY <1>5 DEF WrittenAs
  <2>2. ASSUME NEW k \in DOMAIN list, k <= Len(new) PROVE new[k] = list[k]
    BY <1>1, <1>2, <1>3, <1>4, <2>1, <2>2
  <2> QED
    BY <1>3, <1>5, <2>1, <2>2 DEF WrittenAs, new
<1>6. CASE runs # 0
  <2>1. Len(read) >= Len(list)
    BY <1>6 DEF WrittenAs
  <2>2. ASSUME NEW k \in DOMAIN list PROVE new[k] = list[k]
    BY <1>1, <1>3, <1>4, <2>1, <2>2
  <2> QED
    BY <1>1, <1>3, <1>6, <2>1, <2>2 DEF WrittenAs, new
<1> QED
  BY <1>5, <1>6

\* What is in Redis after the first run covers what smallmap.py wrote.
LEMMA BuiltCovers ==
    ASSUME NEW list, Len(list) \in Nat, DOMAIN list = 1 .. Len(list),
           NEW read, NEW n, NEW runs, WrittenAs(read, list, n, runs), runs # 0
    PROVE  Covers(read, list)
<1>1. read \in Seq(Range(list)) /\ Len(read) >= Len(list)
  BY DEF WrittenAs
<1>2. Len(read) \in Nat
  BY <1>1
<1>3. \A k \in DOMAIN list : k <= Len(read)
  BY <1>1, <1>2
<1> QED
  BY <1>1, <1>3 DEF WrittenAs, Covers

\* At the start nothing is written and nothing read.
LEMMA InitInv == Init => Inv
<1> SUFFICES ASSUME Init PROVE Inv
  OBVIOUS
<1>1. drawing \in Seq(Seq(Nat))
  BY MapStoreAssumption DEF Init
<1>2. NodesAreDrawn(PhysicalNodeList, Drawn)
  BY <1>1, NumberedNodesAreDrawn DEF Init
<1>3. LinksAreDrawn(PhysicalNodeList, PhysicalLinkList)
  BY <1>2, LinksOfAreDrawn DEF Init
<1>4. CsvOK
  BY <1>2, <1>3 DEF CsvOK
<1>5. /\ Len(PhysicalNodeList) \in Nat /\ Len(PhysicalLinkList) \in Nat
      /\ DOMAIN PhysicalNodeList = 1 .. Len(PhysicalNodeList)
      /\ DOMAIN PhysicalLinkList = 1 .. Len(PhysicalLinkList)
      /\ Commands = Len(PhysicalNodeList) + Len(PhysicalLinkList)
  BY <1>4, CsvLengths
<1>6. \A list : Len(list) \in Nat /\ DOMAIN list = 1 .. Len(list) => WrittenAs(<<>>, list, 0, 0)
  BY DEF WrittenAs
<1>7. RedisOK
  <2>1. builds = 0 /\ pushed = 0 /\ physical_node_list = <<>> /\ physical_link_list = <<>>
    BY DEF Init
  <2>2. pushed \in 0 .. Commands /\ pushed <= Len(PhysicalNodeList)
    BY <1>5, <2>1
  <2> QED
    BY <1>5, <1>6, <2>1, <2>2 DEF RedisOK
<1>8. ServerOK /\ MapIsWhole
  BY DEF Init, ServerOK, Loaded, MapIsWhole, MapIsDrawing, LinksAreFound, TargetsAreNodes
<1> QED
  BY <1>4, <1>7, <1>8 DEF Inv

\* Targets that are nodes of a map, at the places that they were read with.
HasTargets(m, points) ==
    \A k \in DOMAIN points :
        LET target == points[k]
        IN target.id \in DOMAIN m.node_list /\ m.node_list[target.id] = <<target.node.x, target.node.y>>

\* The property in terms of the three.
LEMMA MapIsWholeIs ==
    /\ MapIsWhole <=> /\ Loaded => IsTheDrawing(lmap, Drawn) /\ HasItsLinks(lmap, physical_nodes)
                      /\ line = "running" => HasTargets(lmap, yardPoints)
    /\ MapIsWhole' <=> /\ Loaded' => IsTheDrawing(lmap', Drawn') /\ HasItsLinks(lmap', physical_nodes')
                       /\ line' = "running" => HasTargets(lmap', yardPoints')
<1>1. (MapIsDrawing <=> (Loaded => IsTheDrawing(lmap, Drawn)))
      /\ (MapIsDrawing' <=> (Loaded' => IsTheDrawing(lmap', Drawn')))
  BY DEF MapIsDrawing, IsTheDrawing
<1>2. (LinksAreFound <=> (Loaded => HasItsLinks(lmap, physical_nodes)))
      /\ (LinksAreFound' <=> (Loaded' => HasItsLinks(lmap', physical_nodes')))
  BY DEF LinksAreFound, HasItsLinks
<1>3. (TargetsAreNodes <=> (line = "running" => HasTargets(lmap, yardPoints)))
      /\ (TargetsAreNodes' <=> (line' = "running" => HasTargets(lmap', yardPoints')))
  BY DEF TargetsAreNodes, HasTargets
<1> QED
  BY <1>1, <1>2, <1>3 DEF MapIsWhole

\* The builder changes nothing of what was drawn or read, nor of the number of whole runs but
\* to one more.
LEMMA BuilderKeeps ==
    ASSUME Inv, UNCHANGED <<csv, server>>, builds' \in Nat, builds' >= builds, RedisOK'
    PROVE  Inv'
<1>1. CsvOK'
  <2>1. /\ drawing' = drawing /\ PhysicalNodeList' = PhysicalNodeList /\ PhysicalLinkList' = PhysicalLinkList
        /\ Drawn' = Drawn
    BY DEF csv, Drawn
  <2> QED
    BY <2>1 DEF Inv, CsvOK
<1>2. ServerOK'
  BY DEF Inv, ServerOK, RedisOK, csv, server, Loaded, Covers
<1>3. MapIsWhole'
  <2>1. Drawn' = Drawn /\ line' = line /\ physical_nodes' = physical_nodes /\ lmap' = lmap /\ yardPoints' = yardPoints
    BY DEF csv, server, Drawn
  <2> QED
    BY <2>1, MapIsWholeIs DEF Inv, Loaded
<1> QED
  BY <1>1, <1>2, <1>3 DEF Inv

\* A node more in Redis.
LEMMA PushNodeInv == Inv /\ PushNode => Inv'
<1> SUFFICES ASSUME Inv, PushNode PROVE Inv'
  OBVIOUS
<1> DEFINE N == Len(PhysicalNodeList)
           M == Len(PhysicalLinkList)
<1>1. /\ N \in Nat /\ M \in Nat /\ Commands = N + M
      /\ DOMAIN PhysicalNodeList = 1 .. N /\ DOMAIN PhysicalLinkList = 1 .. M
  BY CsvLengths DEF Inv
<1>2. /\ pushed \in 0 .. N + M /\ pushed < N /\ pushed' = pushed + 1 /\ builds' = builds /\ builds \in Nat
      /\ UNCHANGED <<csv, server>> /\ physical_link_list' = physical_link_list
      /\ PhysicalNodeList' = PhysicalNodeList /\ PhysicalLinkList' = PhysicalLinkList
      /\ physical_node_list' = Append(physical_node_list, PhysicalNodeList[pushed + 1])
  BY <1>1 DEF Inv, RedisOK, PushNode, csv
<1>3. /\ WrittenAs(physical_node_list, PhysicalNodeList, pushed, builds)
      /\ WrittenAs(physical_link_list, PhysicalLinkList, 0, builds)
  <2>1. pushed <= N
    BY <1>1, <1>2
  <2> QED
    BY <2>1 DEF Inv, RedisOK
<1>4. WrittenAs(physical_node_list', PhysicalNodeList, pushed + 1, builds)
  <2>1. pushed \in 0 .. N - 1
    BY <1>1, <1>2
  <2>2. WrittenAs(Append(physical_node_list, PhysicalNodeList[pushed + 1]), PhysicalNodeList, pushed + 1, builds)
    BY <1>1, <1>3, <2>1, WriteNext
  <2> QED
    BY <1>2, <2>2
<1>5. /\ WrittenAs(physical_node_list', PhysicalNodeList', pushed', builds')
      /\ WrittenAs(physical_link_list', PhysicalLinkList', 0, builds')
  BY <1>2, <1>3, <1>4
<1>6. RedisOK'
  <2>1. pushed' \in 0 .. Commands' /\ pushed' <= Len(PhysicalNodeList')
    BY <1>1, <1>2 DEF Commands
  <2> QED
    BY <1>2, <1>5, <2>1 DEF RedisOK
<1> QED
  BY <1>2, <1>6, BuilderKeeps

\* A link more in Redis, after the nodes.
LEMMA PushLinkInv == Inv /\ PushLink => Inv'
<1> SUFFICES ASSUME Inv, PushLink PROVE Inv'
  OBVIOUS
<1> DEFINE N == Len(PhysicalNodeList)
           M == Len(PhysicalLinkList)
<1>1. /\ N \in Nat /\ M \in Nat /\ Commands = N + M
      /\ DOMAIN PhysicalNodeList = 1 .. N /\ DOMAIN PhysicalLinkList = 1 .. M
  BY CsvLengths DEF Inv
<1>2. /\ pushed \in N .. N + M - 1 /\ pushed' = pushed + 1 /\ builds' = builds /\ builds \in Nat
      /\ UNCHANGED <<csv, server>> /\ physical_node_list' = physical_node_list
      /\ PhysicalNodeList' = PhysicalNodeList /\ PhysicalLinkList' = PhysicalLinkList
      /\ physical_link_list' = Append(physical_link_list, PhysicalLinkList[pushed + 1 - N])
  BY <1>1 DEF Inv, RedisOK, PushLink, csv
<1> DEFINE n == pushed - N
<1>3. n \in 0 .. M - 1 /\ pushed + 1 - N = n + 1
  BY <1>1, <1>2
<1>4. /\ WrittenAs(physical_node_list, PhysicalNodeList, N, builds)
      /\ WrittenAs(physical_link_list, PhysicalLinkList, n, builds)
  <2>1. CASE pushed <= N
    <3>1. pushed = N
      <4>1. pushed \in Int /\ pushed >= N /\ N \in Nat
        BY <1>1, <1>2
      <4> QED
        BY <2>1, <4>1
    <3>2. n = 0
      BY <1>1, <3>1
    <3> HIDE DEF n
    <3> QED
      BY <2>1, <3>1, <3>2 DEF Inv, RedisOK
  <2>2. CASE ~ (pushed <= N)
    BY <2>2 DEF Inv, RedisOK
  <2> QED
    BY <2>1, <2>2
<1> HIDE DEF n
<1>5. WrittenAs(physical_link_list', PhysicalLinkList, n + 1, builds)
  <2>1. WrittenAs(Append(physical_link_list, PhysicalLinkList[n + 1]), PhysicalLinkList, n + 1, builds)
    BY <1>1, <1>3, <1>4, WriteNext
  <2> QED
    BY <1>2, <1>3, <2>1
<1>6. /\ WrittenAs(physical_node_list', PhysicalNodeList', N, builds')
      /\ WrittenAs(physical_link_list', PhysicalLinkList', n + 1, builds')
  BY <1>2, <1>4, <1>5
<1>7. RedisOK'
  <2>1. /\ pushed' \in 0 .. Commands' /\ ~ (pushed' <= Len(PhysicalNodeList'))
        /\ pushed' - Len(PhysicalNodeList') = n + 1 /\ Len(PhysicalNodeList') = N
    BY <1>1, <1>2, <1>3 DEF Commands, n
  <2> QED
    BY <1>2, <1>6, <2>1 DEF RedisOK
<1> QED
  BY <1>2, <1>7, BuilderKeeps

\* The end of a run: now all is written, once at least.
LEMMA BuilderEndsInv == Inv /\ BuilderEnds => Inv'
<1> SUFFICES ASSUME Inv, BuilderEnds PROVE Inv'
  OBVIOUS
<1> DEFINE N == Len(PhysicalNodeList)
           M == Len(PhysicalLinkList)
<1>1. /\ N \in Nat /\ M \in Nat /\ Commands = N + M
      /\ DOMAIN PhysicalNodeList = 1 .. N /\ DOMAIN PhysicalLinkList = 1 .. M
  BY CsvLengths DEF Inv
<1>2. /\ pushed = N + M /\ pushed' = 0 /\ builds' = builds + 1 /\ builds \in Nat
      /\ UNCHANGED <<csv, server>>
      /\ physical_node_list' = physical_node_list /\ physical_link_list' = physical_link_list
      /\ PhysicalNodeList' = PhysicalNodeList /\ PhysicalLinkList' = PhysicalLinkList
  BY <1>1 DEF Inv, RedisOK, BuilderEnds, csv, redis
<1>3. Len(physical_node_list) >= N /\ Len(physical_link_list) >= M
  <2>1. CASE builds = 0
    <3>1. CASE M = 0
      <4>1. pushed <= N /\ pushed = N
        BY <1>1, <1>2, <3>1
      <4>2. Len(physical_node_list) = N /\ Len(physical_link_list) = 0
        BY <2>1, <4>1 DEF Inv, RedisOK, WrittenAs
      <4> QED
        BY <1>1, <3>1, <4>2
    <3>2. CASE M # 0
      <4>1. ~ (pushed <= N) /\ pushed - N = M
        BY <1>1, <1>2, <3>2
      <4>2. Len(physical_node_list) = N /\ Len(physical_link_list) = M
        BY <2>1, <4>1 DEF Inv, RedisOK, WrittenAs
      <4> QED
        BY <1>1, <4>2
    <3> QED
      BY <3>1, <3>2
  <2>2. CASE builds # 0
    BY <2>2 DEF Inv, RedisOK, WrittenAs
  <2> QED
    BY <2>1, <2>2
<1>4. builds' # 0 /\ builds' \in Nat /\ builds' >= builds
  BY <1>2
<1>5. /\ physical_node_list \in Seq(Range(PhysicalNodeList))
      /\ \A k \in DOMAIN PhysicalNodeList : k <= Len(physical_node_list) => physical_node_list[k] = PhysicalNodeList[k]
      /\ physical_link_list \in Seq(Range(PhysicalLinkList))
      /\ \A k \in DOMAIN PhysicalLinkList : k <= Len(physical_link_list) => physical_link_list[k] = PhysicalLinkList[k]
  BY DEF Inv, RedisOK, WrittenAs
<1>6. RedisOK'
  <2>1. pushed' \in 0 .. Commands'
    BY <1>1, <1>2 DEF Commands
  <2> QED
    BY <1>2, <1>3, <1>4, <1>5, <2>1 DEF RedisOK, WrittenAs
<1> QED
  BY <1>2, <1>4, <1>6, BuilderKeeps

\* The server starts: the nodes in Redis cover those of the drawing.
LEMMA ReadPhysicalNodesInv == Inv /\ ReadPhysicalNodes => Inv'
<1> SUFFICES ASSUME Inv, ReadPhysicalNodes PROVE Inv'
  OBVIOUS
<1>1. /\ line' = "links" /\ physical_nodes' = physical_node_list /\ builds >= 1 /\ ~ Loaded'
      /\ builds' = builds /\ pushed' = pushed /\ drawing' = drawing
      /\ PhysicalNodeList' = PhysicalNodeList /\ PhysicalLinkList' = PhysicalLinkList
      /\ physical_node_list' = physical_node_list /\ physical_link_list' = physical_link_list
      /\ Drawn' = Drawn
  BY DEF ReadPhysicalNodes, Loaded, csv, redis, builder, Drawn
<1>2. Covers(physical_node_list, PhysicalNodeList)
  <2>1. builds # 0
    BY <1>1 DEF Inv, RedisOK
  <2>2. \E n : WrittenAs(physical_node_list, PhysicalNodeList, n, builds)
    BY DEF Inv, RedisOK
  <2>3. Len(PhysicalNodeList) \in Nat /\ DOMAIN PhysicalNodeList = 1 .. Len(PhysicalNodeList)
    BY CsvLengths DEF Inv
  <2> QED
    BY <2>1, <2>2, <2>3, BuiltCovers
<1>3. CsvOK' /\ RedisOK'
  BY <1>1 DEF Inv, CsvOK, RedisOK, Commands
<1>4. ServerOK'
  BY <1>1, <1>2 DEF ServerOK
<1>5. MapIsWhole'
  BY <1>1, MapIsWholeIs
<1> QED
  BY <1>3, <1>4, <1>5 DEF Inv

\* The links in Redis cover those of the drawing, whatever was written since the nodes were read.
LEMMA ReadPhysicalLinksInv == Inv /\ ReadPhysicalLinks => Inv'
<1> SUFFICES ASSUME Inv, ReadPhysicalLinks PROVE Inv'
  OBVIOUS
<1>1. /\ line = "links" /\ line' = "targets" /\ lmap' = ReadMap(physical_nodes, physical_link_list)
      /\ physical_nodes' = physical_nodes /\ yardPoints' = yardPoints
      /\ builds' = builds /\ pushed' = pushed /\ drawing' = drawing
      /\ PhysicalNodeList' = PhysicalNodeList /\ PhysicalLinkList' = PhysicalLinkList
      /\ physical_node_list' = physical_node_list /\ physical_link_list' = physical_link_list
      /\ Drawn' = Drawn
  BY DEF ReadPhysicalLinks, csv, redis, builder, Drawn
<1>2. /\ builds >= 1 /\ builds \in Nat /\ Covers(physical_nodes, PhysicalNodeList)
      /\ NodesAreDrawn(PhysicalNodeList, Drawn) /\ LinksAreDrawn(PhysicalNodeList, PhysicalLinkList)
  BY <1>1 DEF Inv, ServerOK, RedisOK, CsvOK
<1>3. Covers(physical_link_list, PhysicalLinkList)
  <2>1. builds # 0
    BY <1>2
  <2>2. \E n : WrittenAs(physical_link_list, PhysicalLinkList, n, builds)
    BY DEF Inv, RedisOK
  <2>3. Len(PhysicalLinkList) \in Nat /\ DOMAIN PhysicalLinkList = 1 .. Len(PhysicalLinkList)
    BY CsvLengths DEF Inv
  <2> QED
    BY <2>1, <2>2, <2>3, BuiltCovers
<1>4. IsTheDrawing(lmap', Drawn)
  BY <1>1, <1>2, NodesReadAreTheDrawing
<1>5. HasItsLinks(lmap', physical_nodes)
  BY <1>1, <1>2, <1>3, LinksReadAreFound
<1>6. MapIsWhole'
  BY <1>1, <1>4, <1>5, MapIsWholeIs
<1>7. CsvOK' /\ RedisOK'
  BY <1>1 DEF Inv, CsvOK, RedisOK, Commands
<1>8. ServerOK'
  <2>1. lmap'.node_list = [i \in 0 .. Len(physical_nodes) - 1 |-> At(physical_nodes, i)]
    BY <1>1, ReadMapFills DEF HasListsOf
  <2> QED
    BY <1>1, <1>2, <2>1 DEF ServerOK
<1> QED
  BY <1>6, <1>7, <1>8 DEF Inv

\* The nodes in Redis, more of them perhaps than the planner read, are nodes of its map.
LEMMA TSReadMapInv == Inv /\ TSReadMap => Inv'
<1> SUFFICES ASSUME Inv, TSReadMap PROVE Inv'
  OBVIOUS
<1> DEFINE Point(k) == [id |-> YardPoint(physical_node_list, k), node |-> physical_node_list[k]]
<1>1. /\ line = "targets" /\ line' = "running" /\ Loaded
      /\ yardPoints' = [k \in DOMAIN physical_node_list |-> Point(k)]
      /\ physical_nodes' = physical_nodes /\ lmap' = lmap
      /\ builds' = builds /\ pushed' = pushed /\ drawing' = drawing
      /\ PhysicalNodeList' = PhysicalNodeList /\ PhysicalLinkList' = PhysicalLinkList
      /\ physical_node_list' = physical_node_list /\ physical_link_list' = physical_link_list
      /\ Drawn' = Drawn
  BY DEF TSReadMap, csv, redis, builder, Drawn, Loaded
<1>2. /\ builds >= 1 /\ Covers(physical_nodes, PhysicalNodeList)
      /\ NodesAreDrawn(PhysicalNodeList, Drawn)
      /\ lmap.node_list = [i \in 0 .. Len(physical_nodes) - 1 |-> At(physical_nodes, i)]
      /\ physical_node_list \in Seq(Range(PhysicalNodeList))
  BY <1>1 DEF Inv, ServerOK, CsvOK, RedisOK, WrittenAs
<1>3. AreNodesOf(physical_nodes, PhysicalNodeList)
  BY <1>2, NodesRead
<1>4. ASSUME NEW k \in DOMAIN yardPoints'
      PROVE  /\ yardPoints'[k].id \in DOMAIN lmap.node_list
             /\ lmap.node_list[yardPoints'[k].id] = <<yardPoints'[k].node.x, yardPoints'[k].node.y>>
  <2>1. k \in DOMAIN physical_node_list /\ yardPoints'[k] = Point(k)
    BY <1>1
  <2>2. physical_node_list[k] \in Range(PhysicalNodeList)
    BY <1>2, <2>1
  <2>3. PICK j \in DOMAIN PhysicalNodeList : physical_node_list[k] = PhysicalNodeList[j]
    BY <2>2 DEF Range
  <2>4. yardPoints'[k].id = j - 1 /\ yardPoints'[k].node = PhysicalNodeList[j]
    <3>1. PhysicalNodeList[j].physical_node_id = j - 1
      BY <1>2 DEF NodesAreDrawn
    <3> QED
      BY <2>1, <2>3, <3>1 DEF YardPoint
  <2>5. /\ j - 1 \in 0 .. Len(physical_nodes) - 1 /\ (j - 1) + 1 = j
        /\ physical_nodes[j] = PhysicalNodeList[j]
    BY <1>3, <2>3 DEF AreNodesOf
  <2>6. At(physical_nodes, j - 1) = Cell(physical_nodes[(j - 1) + 1])
    BY <1>3, <2>5 DEF AreNodesOf
  <2>7. lmap.node_list[j - 1] = Cell(PhysicalNodeList[j])
    BY <1>2, <2>5, <2>6
  <2>8. j - 1 \in DOMAIN lmap.node_list
    BY <1>2, <2>5
  <2> QED
    BY <2>4, <2>7, <2>8 DEF Cell
<1>5. HasTargets(lmap', yardPoints')
  <2> HIDE DEF Point
  <2> QED
    BY <1>1, <1>4 DEF HasTargets
<1>6. MapIsWhole'
  <2>1. IsTheDrawing(lmap, Drawn) /\ HasItsLinks(lmap, physical_nodes)
    BY <1>1, MapIsWholeIs DEF Inv
  <2> QED
    BY <1>1, <1>5, <2>1, MapIsWholeIs
<1>7. CsvOK' /\ RedisOK'
  BY <1>1 DEF Inv, CsvOK, RedisOK, Commands
<1>8. ServerOK'
  BY <1>1, <1>2 DEF ServerOK
<1> QED
  BY <1>6, <1>7, <1>8 DEF Inv

\* Nothing changes, nothing is lost.
LEMMA StutterInv == Inv /\ UNCHANGED vars => Inv'
<1> SUFFICES ASSUME Inv, UNCHANGED vars PROVE Inv'
  OBVIOUS
<1>1. UNCHANGED <<csv, server>> /\ builds' = builds /\ builds \in Nat
  BY DEF vars, builder, Inv, RedisOK
<1>2. RedisOK'
  <2>1. /\ pushed' = pushed /\ builds' = builds
        /\ PhysicalNodeList' = PhysicalNodeList /\ PhysicalLinkList' = PhysicalLinkList
        /\ physical_node_list' = physical_node_list /\ physical_link_list' = physical_link_list
    BY DEF vars, csv, redis, builder
  <2> QED
    BY <2>1 DEF Inv, RedisOK, Commands
<1> QED
  BY <1>1, <1>2, BuilderKeeps

\* Every step of the builder and of the server preserves the invariant.
LEMMA NextInv == Inv /\ [Next]_vars => Inv'
BY PushNodeInv, PushLinkInv, BuilderEndsInv, ReadPhysicalNodesInv, ReadPhysicalLinksInv, TSReadMapInv, StutterInv
   DEF Next

\* Whatever the builder does while the server reads (main.cpp:12-14 with smallmap.py), the
\* server has the map that was drawn, finds the link of every two neighbours, and draws targets
\* that are nodes of its map: for every set of drawings and every number of runs of the builder.
THEOREM MapAlwaysWhole == Spec => []MapIsWhole
<1>1. Inv => MapIsWhole
  BY DEF Inv
<1> QED
  BY <1>1, InitInv, NextInv, PTL DEF Spec

================================================================================
