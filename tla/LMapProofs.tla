------------------------------- MODULE LMapProofs -------------------------------
(****************************************************************************)
(* What the operators of TimeWindows and LMap compute, the inductive        *)
(* invariant of the planner, and that serve and every step of the planner   *)
(* preserve it; then the same for the routes it returns.  The modules that  *)
(* call serve prove their theorems from it.                                 *)
(****************************************************************************)
EXTENDS LMap, FiniteSetTheorems, SequenceTheorems, TLAPS

--------------------------------------------------------------------------------
(* What the operators of TimeWindows return, for all lists of windows. *)

\* The least-number principle, for sets instead of predicates.
LEMMA LeastNumber ==
    ASSUME NEW T \in SUBSET Nat, T # {}
    PROVE  \E n \in T : \A m \in T : n <= m
<1> DEFINE R == OpToRel(<, Nat)
<1>1. IsWellFoundedOn(R, Nat)
  BY NatLessThanWellFounded
<1> HIDE DEF R
<1>2. PICK n \in T : \A m \in T : ~ (<<m, n>> \in R)
  BY <1>1, WFMin
<1>3. \A m \in T : m < n => <<m, n>> \in R
  BY DEF R, OpToRel
<1>4. \A m \in T : n <= m
  <2> SUFFICES ASSUME NEW m \in T PROVE n <= m
    OBVIOUS
  <2>1. m \in Nat /\ n \in Nat /\ ~ (m < n)
    BY <1>2, <1>3
  <2> QED
    BY <2>1
<1> QED
  BY <1>4

\* Induction over the natural numbers up to N, for sets instead of predicates.
LEMMA FiniteInduction ==
    ASSUME NEW N \in Nat, NEW T, 0 \in T, \A n \in 0 .. N - 1 : n \in T => n + 1 \in T
    PROVE  \A n \in 0 .. N : n \in T
<1> DEFINE Out == {n \in 0 .. N : n \notin T}
<1> SUFFICES ASSUME Out # {} PROVE FALSE
  OBVIOUS
<1>0. Out \in SUBSET Nat
  OBVIOUS
<1> HIDE DEF Out
<1>1. PICK n \in Out : \A m \in Out : n <= m
  BY <1>0, LeastNumber
<1> USE DEF Out
<1>2. n # 0 /\ n - 1 \in 0 .. N - 1 /\ n - 1 \notin Out
  BY <1>1
<1> QED
  BY <1>2

--------------------------------------------------------------------------------
(* Ranks in a finite set of numbers: the elements have the ranks from 1 to the
   number of elements, in their order. *)

\* A rank is at least 1 and at most the number of elements.
LEMMA RankBounds ==
    ASSUME NEW K \in SUBSET Int, IsFiniteSet(K), NEW i \in K
    PROVE  Rank(K, i) \in 1 .. Cardinality(K)
<1> DEFINE below == {j \in K : j <= i}
<1>1. /\ IsFiniteSet(below)
      /\ Cardinality(below) \in Nat
      /\ Cardinality(K) \in Nat
      /\ Cardinality(below) <= Cardinality(K)
  BY FS_Subset, FS_CardinalityType
<1>2. Cardinality(below) # 0
  BY <1>1, FS_EmptySet
<1> QED
  BY <1>1, <1>2 DEF Rank

\* A greater element has a greater rank.
LEMMA RankMonotonic ==
    ASSUME NEW K \in SUBSET Int, IsFiniteSet(K), NEW i \in K, NEW j \in K, i < j
    PROVE  Rank(K, i) < Rank(K, j)
<1> DEFINE A == {n \in K : n <= i}
           B == {n \in K : n <= j}
<1>1. A \subseteq B /\ A # B
  <2>1. \A n \in K : n \in Int
    OBVIOUS
  <2>2. A \subseteq B
    <3> SUFFICES ASSUME NEW n \in K, n <= i PROVE n <= j
      OBVIOUS
    <3> QED
      BY <2>1
  <2>3. j \in B /\ j \notin A
    BY <2>1
  <2> QED
    BY <2>2, <2>3
<1>2. IsFiniteSet(B)
  BY FS_Subset
<1>3. /\ IsFiniteSet(A)
      /\ Cardinality(A) <= Cardinality(B)
      /\ Cardinality(A) # Cardinality(B)
  BY <1>1, <1>2, FS_Subset
<1>4. Cardinality(A) \in Nat /\ Cardinality(B) \in Nat
  BY <1>2, <1>3, FS_CardinalityType
<1> QED
  BY <1>3, <1>4 DEF Rank

\* Two elements of the same rank are the same.
LEMMA RankUnique ==
    ASSUME NEW K \in SUBSET Int, IsFiniteSet(K), NEW i \in K, NEW j \in K,
           Rank(K, i) = Rank(K, j)
    PROVE  i = j
<1>1. Rank(K, i) \in Int
  BY RankBounds
<1>2. ~ (i < j) /\ ~ (j < i)
  BY <1>1, RankMonotonic
<1> QED
  BY <1>2

\* There is an element of every rank.
LEMMA RankExists ==
    ASSUME NEW K \in SUBSET Int, IsFiniteSet(K), NEW r \in 1 .. Cardinality(K)
    PROVE  \E i \in K : Rank(K, i) = r
<1> DEFINE n == Cardinality(K)
           rank == [i \in K |-> Rank(K, i)]
<1>1. n \in Nat
  BY FS_CardinalityType
<1>2. IsFiniteSet(1 .. n) /\ Cardinality(1 .. n) = n
  BY <1>1, FS_Interval
<1>3. rank \in [K -> 1 .. n]
  BY RankBounds
<1>4. \A i, j \in K : rank[i] = rank[j] => i = j
  BY RankUnique
<1>5. rank \in Injection(K, 1 .. n)
  BY <1>3, <1>4 DEF Injection, IsInjective
<1>6. rank \in Surjection(K, 1 .. n)
  BY <1>2, <1>5, FS_Injection
<1> QED
  BY <1>6 DEF Surjection

--------------------------------------------------------------------------------
(* Extreme elements of finite sets of numbers. *)

\* Max of a finite set is its greatest element.
LEMMA MaxOfFinite ==
    ASSUME NEW S \in SUBSET Int, IsFiniteSet(S), S # {}
    PROVE  Max(S) \in S /\ \A x \in S : x <= Max(S)
<1> DEFINE n == Cardinality(S)
<1>1. n \in Nat /\ n # 0
  BY FS_CardinalityType, FS_EmptySet
<1>2. PICK m \in S : Rank(S, m) = n
  BY <1>1, RankExists
<1>3. {j \in S : j <= m} = S
  BY <1>2, FS_Subset DEF Rank
<1>4. \A x \in S : m >= x
  BY <1>3
<1> QED
  BY <1>4 DEF Max

\* Min of a finite set is its least element.
LEMMA MinOfFinite ==
    ASSUME NEW S \in SUBSET Int, IsFiniteSet(S), S # {}
    PROVE  Min(S) \in S /\ \A x \in S : Min(S) <= x
<1>1. Cardinality(S) \in Nat /\ Cardinality(S) # 0
  BY FS_CardinalityType, FS_EmptySet
<1>2. PICK m \in S : Rank(S, m) = 1
  BY <1>1, RankExists
<1>3. \A x \in S : x < m => Rank(S, x) \in Nat /\ Rank(S, x) >= 1 /\ Rank(S, x) < 1
  BY <1>2, RankMonotonic, RankBounds
<1>4. \A x \in S : m <= x
  BY <1>3
<1> QED
  BY <1>4 DEF Min

\* Max and Min of two numbers, without the CHOOSE.
LEMMA MaxOfPair ==
    ASSUME NEW a \in Int, NEW b \in Int
    PROVE  /\ Max({a, b}) \in Int
           /\ Max({a, b}) = IF a >= b THEN a ELSE b
<1> DEFINE m == IF a >= b THEN a ELSE b
<1>1. m \in {a, b} /\ \A y \in {a, b} : m >= y
  OBVIOUS
<1>2. \A x \in {a, b} : (\A y \in {a, b} : x >= y) => x = m
  OBVIOUS
<1>3. Max({a, b}) = m
  BY <1>1, <1>2 DEF Max
<1> QED
  BY <1>3

\* The same for Min.
LEMMA MinOfPair ==
    ASSUME NEW a \in Int, NEW b \in Int
    PROVE  /\ Min({a, b}) \in Int
           /\ Min({a, b}) = IF a <= b THEN a ELSE b
<1> DEFINE m == IF a <= b THEN a ELSE b
<1>1. m \in {a, b} /\ \A y \in {a, b} : m <= y
  OBVIOUS
<1>2. \A x \in {a, b} : (\A y \in {a, b} : x <= y) => x = m
  OBVIOUS
<1>3. Min({a, b}) = m
  BY <1>1, <1>2 DEF Min
<1> QED
  BY <1>3

--------------------------------------------------------------------------------
(* Subsequences. *)

\* Each place holds the element of s whose index has that rank in K.
LEMMA SubsequenceElements ==
    ASSUME NEW s, NEW K \in SUBSET Int, IsFiniteSet(K), NEW r \in 1 .. Cardinality(K)
    PROVE  \E i \in K : Rank(K, i) = r /\ Subsequence(s, K)[r] = s[i]
<1> DEFINE i == CHOOSE i \in K : Rank(K, i) = r
<1>1. i \in K /\ Rank(K, i) = r
  BY RankExists
<1>2. Subsequence(s, K)[r] = s[i]
  BY DEF Subsequence
<1> QED
  BY <1>1, <1>2

\* Each element with index in K is there.
LEMMA SubsequenceHas ==
    ASSUME NEW s, NEW K \in SUBSET Int, IsFiniteSet(K), NEW i \in K
    PROVE  \E r \in DOMAIN Subsequence(s, K) : Subsequence(s, K)[r] = s[i]
<1>1. DOMAIN Subsequence(s, K) = 1 .. Cardinality(K)
  BY DEF Subsequence
<1>2. Rank(K, i) \in 1 .. Cardinality(K)
  BY RankBounds
<1>3. Subsequence(s, K)[Rank(K, i)] = s[i]
  BY <1>2, SubsequenceElements, RankUnique
<1> QED
  BY <1>1, <1>2, <1>3

\* A subsequence is a sequence over the same set, one element for each index.
LEMMA SubsequenceType ==
    ASSUME NEW S, NEW s \in Seq(S), NEW K \in SUBSET DOMAIN s
    PROVE  /\ IsFiniteSet(K) /\ K \in SUBSET Int
           /\ Subsequence(s, K) \in Seq(S)
           /\ Len(Subsequence(s, K)) = Cardinality(K)
           /\ Cardinality(K) \in Nat /\ Cardinality(K) <= Len(s)
           /\ DOMAIN Subsequence(s, K) = 1 .. Cardinality(K)
<1> DEFINE n == Len(s)
<1>0. n \in Nat /\ DOMAIN s = 1 .. n
  OBVIOUS
<1> HIDE DEF n
<1>1. IsFiniteSet(1 .. n) /\ Cardinality(1 .. n) = n
  BY <1>0, FS_Interval
<1>2. /\ IsFiniteSet(K) /\ K \in SUBSET Int
      /\ Cardinality(K) <= Len(s) /\ Cardinality(K) \in Nat
  BY <1>0, <1>1, FS_Subset, FS_CardinalityType
<1> USE DEF n
<1>3. \A r \in 1 .. Cardinality(K) : Subsequence(s, K)[r] \in S
  BY <1>2, SubsequenceElements
<1>4. Subsequence(s, K) \in [1 .. Cardinality(K) -> S]
  BY <1>3 DEF Subsequence
<1> QED
  BY <1>2, <1>4

\* What is in a subsequence is in the sequence.
LEMMA SubsequenceRange ==
    ASSUME NEW S, NEW s \in Seq(S), NEW K \in SUBSET DOMAIN s
    PROVE  \A r \in DOMAIN Subsequence(s, K) : \E i \in K : Subsequence(s, K)[r] = s[i]
  BY SubsequenceType, SubsequenceElements

--------------------------------------------------------------------------------
(* Merging of feasible windows. *)

\* Row by row: the number of each place, and back.
LEMMA RowAndColumn ==
    ASSUME NEW rows \in Nat, NEW columns \in Nat, NEW n \in 1 .. rows * columns
    PROVE  /\ ((n - 1) \div columns) + 1 \in 1 .. rows
           /\ ((n - 1) % columns) + 1 \in 1 .. columns
<1> DEFINE q == (n - 1) \div columns
           r == (n - 1) % columns
<1>0. rows * columns \in Nat /\ n \in Nat /\ n >= 1 /\ n <= rows * columns
  OBVIOUS
<1>1. columns > 0
  BY <1>0
<1>2. q \in Int /\ r \in 0 .. columns - 1 /\ n - 1 = columns * q + r
  BY <1>0, <1>1
<1> HIDE DEF q, r
<1>3. q >= 0
  BY <1>0, <1>1, <1>2
<1>4. q < rows
  BY <1>0, <1>1, <1>2, <1>3
<1> QED
  BY <1>2, <1>3, <1>4 DEF q, r

\* The ends of a window are numbers.
LEMMA WindowParts == \A w \in TimeWindow : w.first \in Int /\ w.second \in Int
  BY DEF TimeWindow, Instant

\* The intersection of two windows lies in both; it may be reversed.
LEMMA MergedWindow ==
    ASSUME NEW v \in TimeWindow, NEW w \in TimeWindow
    PROVE  LET m == merge_feasible_arrtime_helper(v, w)
           IN  /\ m \in TimeWindow
               /\ m.first >= v.first /\ m.first >= w.first
               /\ m.second <= v.second /\ m.second <= w.second
  BY MaxOfPair, MinOfPair DEF merge_feasible_arrtime_helper, TimeWindow, Instant

\* Every entry is the intersection of a window of a and a window of b.
LEMMA AllPairsElements ==
    ASSUME NEW a \in Seq(TimeWindow), NEW b \in Seq(TimeWindow)
    PROVE  /\ AllPairs(a, b) \in Seq(TimeWindow)
           /\ \A n \in DOMAIN AllPairs(a, b) : \E i \in DOMAIN a, j \in DOMAIN b :
                 AllPairs(a, b)[n] = merge_feasible_arrtime_helper(a[i], b[j])
<1> DEFINE N == Len(a) * Len(b)
           row(n) == ((n - 1) \div Len(b)) + 1
           column(n) == ((n - 1) % Len(b)) + 1
<1>1. /\ Len(a) \in Nat /\ Len(b) \in Nat /\ N \in Nat
      /\ DOMAIN a = 1 .. Len(a) /\ DOMAIN b = 1 .. Len(b)
  OBVIOUS
<1>2. AllPairs(a, b) = [n \in 1 .. N |-> merge_feasible_arrtime_helper(a[row(n)], b[column(n)])]
  BY DEF AllPairs
<1>3. \A n \in 1 .. N : row(n) \in DOMAIN a /\ column(n) \in DOMAIN b
  BY <1>1, RowAndColumn
<1> HIDE DEF N, row, column
<1>4. \A n \in 1 .. N : a[row(n)] \in TimeWindow /\ b[column(n)] \in TimeWindow
  BY <1>3
<1>5. \A n \in 1 .. N : AllPairs(a, b)[n] \in TimeWindow
  BY <1>2, <1>4, MergedWindow
<1>6. AllPairs(a, b) \in [1 .. N -> TimeWindow]
  BY <1>2, <1>5
<1> QED
  BY <1>1, <1>2, <1>3, <1>6

\* A merged window lies in a window of each list, and is not empty.
LEMMA MergeElements ==
    ASSUME NEW a \in Seq(TimeWindow), NEW b \in Seq(TimeWindow)
    PROVE  /\ merge_feasible_arrtime(a, b) \in Seq(TimeWindow)
           /\ \A n \in DOMAIN merge_feasible_arrtime(a, b) :
                 LET m == merge_feasible_arrtime(a, b)[n]
                 IN  /\ m.first < m.second
                     /\ \E i \in DOMAIN a : a[i].first <= m.first /\ m.second <= a[i].second
                     /\ \E j \in DOMAIN b : b[j].first <= m.first /\ m.second <= b[j].second
<1> DEFINE pairs == AllPairs(a, b)
           K == {n \in DOMAIN pairs : pairs[n].first < pairs[n].second}
           kept == Subsequence(pairs, K)
           C == {i \in DOMAIN kept : i + 1 \in DOMAIN kept => kept[i + 1].first > kept[i].second}
<1>1. pairs \in Seq(TimeWindow)
  BY AllPairsElements
<1>2. kept \in Seq(TimeWindow)
  BY <1>1, SubsequenceType
<1>3. \A n \in DOMAIN kept : \E p \in K : kept[n] = pairs[p]
  <2>1. K \in SUBSET DOMAIN pairs
    OBVIOUS
  <2> HIDE DEF pairs, K
  <2> QED
    BY <1>1, <2>1, SubsequenceRange
<1>4. merge_feasible_arrtime(a, b) = Subsequence(kept, C)
  BY DEF merge_feasible_arrtime, combine_intervals
<1>5. \A p \in K : /\ pairs[p].first < pairs[p].second
                   /\ \E i \in DOMAIN a, j \in DOMAIN b :
                        pairs[p] = merge_feasible_arrtime_helper(a[i], b[j])
  BY AllPairsElements
<1> HIDE DEF pairs, K, kept
<1>6. Subsequence(kept, C) \in Seq(TimeWindow)
  BY <1>2, SubsequenceType
<1>7. \A n \in DOMAIN Subsequence(kept, C) : \E q \in DOMAIN kept :
          Subsequence(kept, C)[n] = kept[q]
  <2>1. C \in SUBSET DOMAIN kept
    OBVIOUS
  <2> HIDE DEF C
  <2> QED
    BY <1>2, <2>1, SubsequenceRange
<1> HIDE DEF C
<1> SUFFICES ASSUME NEW n \in DOMAIN Subsequence(kept, C), NEW m, m = Subsequence(kept, C)[n]
             PROVE  /\ m.first < m.second
                    /\ \E i \in DOMAIN a : a[i].first <= m.first /\ m.second <= a[i].second
                    /\ \E j \in DOMAIN b : b[j].first <= m.first /\ m.second <= b[j].second
  BY <1>4, <1>6
<1>8. PICK p \in K : m = pairs[p]
  BY <1>3, <1>7
<1>9. PICK i \in DOMAIN a, j \in DOMAIN b : m = merge_feasible_arrtime_helper(a[i], b[j])
  BY <1>5, <1>8
<1>10. a[i] \in TimeWindow /\ b[j] \in TimeWindow
  OBVIOUS
<1>11. /\ m.first >= a[i].first /\ m.first >= b[j].first
       /\ m.second <= a[i].second /\ m.second <= b[j].second
       /\ m \in TimeWindow
  BY <1>9, <1>10, MergedWindow
<1>12. m.first < m.second
  BY <1>5, <1>8
<1>13. a[i].first <= m.first /\ b[j].first <= m.first
  BY <1>10, <1>11 DEF TimeWindow, Instant
<1> QED
  BY <1>11, <1>12, <1>13

--------------------------------------------------------------------------------
(* The legal intervals. *)

\* The legal intervals of a node are windows.
LEMMA LegalType ==
    ASSUME NEW w \in Seq(TimeWindow)
    PROVE  getLegalInterVals4Node(w) \in Seq(TimeWindow)
<1>1. CASE w = <<>>
  BY <1>1, InfAssumption DEF getLegalInterVals4Node, TimeWindow, Instant
<1>2. CASE w # <<>>
  <2> DEFINE size == Len(w)
             before == [first |-> 0, second |-> w[1].first]
             after == [first |-> w[size].second, second |-> INF]
             gaps == [i \in 1 .. size - 1 |->
                        [first |-> w[i].second, second |-> w[i + 1].first]]
  <2>1. size \in Nat \ {0} /\ \A i \in 1 .. size : w[i] \in TimeWindow
    BY <1>2
  <2>2. \A i \in 1 .. size : w[i].first \in Int /\ w[i].second \in Int
    BY <2>1 DEF TimeWindow, Instant
  <2>3. before \in TimeWindow /\ after \in TimeWindow
    BY <2>1, <2>2, InfAssumption DEF TimeWindow, Instant
  <2>4. \A i \in 1 .. size - 1 : gaps[i] \in TimeWindow
    BY <2>1, <2>2 DEF TimeWindow, Instant
  <2>5. gaps \in Seq(TimeWindow)
    BY <2>1, <2>4
  <2>6. getLegalInterVals4Node(w) =
            (IF w[1].first > 0 THEN <<before>> ELSE <<>>) \o gaps
                \o (IF w[size].second # INF THEN <<after>> ELSE <<>>)
    BY <1>2 DEF getLegalInterVals4Node
  <2> HIDE DEF size, before, after, gaps
  <2>7. <<before>> \in Seq(TimeWindow) /\ <<after>> \in Seq(TimeWindow)
        /\ <<>> \in Seq(TimeWindow)
    BY <2>3
  <2> QED
    BY <2>5, <2>6, <2>7
<1> QED
  BY <1>1, <1>2

--------------------------------------------------------------------------------
(* The reduction in closed form. *)

\* The windows that the piece ending at p spans.
Members(w, p) == {j \in 1 .. p : \A c \in j .. p - 1 : ~ IsCut(w, c)}

\* A piece spans its last window, no more than its windows span, and starts and
\* ends with one of them.
LEMMA PieceBounds ==
    ASSUME NEW w \in Seq(TimeWindow), NEW p \in DOMAIN w
    PROVE  /\ p \in Members(w, p) /\ Members(w, p) \subseteq DOMAIN w
           /\ Piece(w, p).first \in Int /\ Piece(w, p).second \in Int
           /\ \E j \in Members(w, p) : Piece(w, p).first = w[j].first
           /\ \E j \in Members(w, p) : Piece(w, p).second = w[j].second
           /\ \A j \in Members(w, p) :
                Piece(w, p).first <= w[j].first /\ w[j].second <= Piece(w, p).second
<1> DEFINE starts == {w[j].first : j \in Members(w, p)}
           ends == {w[j].second : j \in Members(w, p)}
<1>1. p \in Nat /\ p >= 1 /\ DOMAIN w = 1 .. Len(w) /\ Len(w) \in Nat /\ p <= Len(w)
  OBVIOUS
<1>2. p \in Members(w, p) /\ Members(w, p) \subseteq 1 .. p /\ Members(w, p) \subseteq DOMAIN w
  BY <1>1 DEF Members
<1>3. IsFiniteSet(Members(w, p))
  <2>1. IsFiniteSet(1 .. p)
    BY <1>1, FS_Interval
  <2> QED
    BY <1>2, <2>1, FS_Subset
<1>4. IsFiniteSet(starts) /\ IsFiniteSet(ends)
  <2>1. [j \in Members(w, p) |-> w[j].first] \in Surjection(Members(w, p), starts)
    BY DEF Surjection
  <2>2. [j \in Members(w, p) |-> w[j].second] \in Surjection(Members(w, p), ends)
    BY DEF Surjection
  <2> QED
    BY <1>3, <2>1, <2>2, FS_Surjection
<1>5. \A j \in Members(w, p) : w[j].first \in Int /\ w[j].second \in Int
  BY <1>2, WindowParts
<1>6. starts \in SUBSET Int /\ starts # {} /\ ends \in SUBSET Int /\ ends # {}
  BY <1>2, <1>5
<1>7. /\ Min(starts) \in starts /\ \A x \in starts : Min(starts) <= x
      /\ Max(ends) \in ends /\ \A x \in ends : x <= Max(ends)
  BY <1>4, <1>6, MinOfFinite, MaxOfFinite
<1>8. Piece(w, p).first = Min(starts) /\ Piece(w, p).second = Max(ends)
  BY DEF Piece, Members
<1> HIDE DEF starts, ends
<1>9. Min(starts) \in Int /\ Max(ends) \in Int
  BY <1>6, <1>7
<1> QED
  BY <1>2, <1>7, <1>8, <1>9 DEF starts, ends

\* So it is a window, and spans every window without a cut in between.
LEMMA PieceSpans ==
    ASSUME NEW w \in Seq(TimeWindow), NEW i \in DOMAIN w
    PROVE  /\ Piece(w, i) \in TimeWindow
           /\ \A j \in 1 .. i : (\A c \in j .. i - 1 : ~ IsCut(w, c)) =>
                 Piece(w, i).first <= w[j].first /\ w[j].second <= Piece(w, i).second
<1>1. Piece(w, i).first \in Int /\ Piece(w, i).second \in Int
  BY PieceBounds
<1>2. Piece(w, i) \in TimeWindow
  BY <1>1 DEF Piece, TimeWindow, Instant
<1> QED
  BY <1>2, PieceBounds DEF Members

\* A reduced list is a list of windows.
LEMMA ReductionType ==
    ASSUME NEW w \in Seq(TimeWindow)
    PROVE  TimeWindowReduction4NodeHelper(w) \in Seq(TimeWindow)
<1> DEFINE pieces == [i \in DOMAIN w |-> Piece(w, i)]
<1>1. \A i \in 1 .. Len(w) : pieces[i] \in TimeWindow
  BY PieceSpans
<1>2. pieces \in [1 .. Len(w) -> TimeWindow] /\ Len(w) \in Nat
  <2>1. DOMAIN w = 1 .. Len(w) /\ Len(w) \in Nat
    OBVIOUS
  <2> QED
    BY <1>1, <2>1
<1>3. pieces \in Seq(TimeWindow) /\ DOMAIN pieces = DOMAIN w
  BY <1>2
<1>4. TimeWindowReduction4NodeHelper(w) =
          Subsequence(pieces, {i \in DOMAIN w : IsCut(w, i)})
  BY DEF TimeWindowReduction4NodeHelper
<1> HIDE DEF pieces
<1> QED
  BY <1>3, <1>4, SubsequenceType

\* Every window of the list lies within a window of the reduced list.
LEMMA ReductionCovers ==
    ASSUME NEW w \in Seq(TimeWindow), NEW j \in DOMAIN w
    PROVE  \E r \in DOMAIN TimeWindowReduction4NodeHelper(w) :
              /\ TimeWindowReduction4NodeHelper(w)[r].first <= w[j].first
              /\ w[j].second <= TimeWindowReduction4NodeHelper(w)[r].second
<1> DEFINE pieces == [i \in DOMAIN w |-> Piece(w, i)]
           K == {i \in DOMAIN w : IsCut(w, i)}
           later == {i \in K : j <= i}
<1>1. /\ Len(w) \in Nat /\ DOMAIN w = 1 .. Len(w) /\ j \in 1 .. Len(w)
      /\ K \in SUBSET DOMAIN w
  OBVIOUS
<1>2. Len(w) \in later /\ later \in SUBSET Nat
  BY <1>1 DEF IsCut
<1>3. PICK c \in later : \A d \in later : c <= d
  <2> HIDE DEF later
  <2> QED
    BY <1>2, LeastNumber
<1>4. \A d \in j .. c - 1 : ~ IsCut(w, d)
  BY <1>1, <1>3
<1>5. c \in K /\ c \in DOMAIN w /\ j \in 1 .. c
  BY <1>1, <1>3
<1>6. Piece(w, c).first <= w[j].first /\ w[j].second <= Piece(w, c).second
  BY <1>4, <1>5, PieceSpans
<1>7. TimeWindowReduction4NodeHelper(w) = Subsequence(pieces, K)
  BY DEF TimeWindowReduction4NodeHelper
<1>8. IsFiniteSet(K) /\ K \in SUBSET Int
  <2> HIDE DEF K
  <2> QED
    BY <1>1, SubsequenceType
<1>9. pieces[c] = Piece(w, c)
  BY <1>5
<1> HIDE DEF pieces, K
<1>10. \E r \in DOMAIN Subsequence(pieces, K) : Subsequence(pieces, K)[r] = pieces[c]
  BY <1>5, <1>8, SubsequenceHas
<1> QED
  BY <1>6, <1>7, <1>9, <1>10

--------------------------------------------------------------------------------
(* Lists in order of time. *)

\* Every window ends before any later one starts, or as it starts.
Sequential(w) == \A i, j \in DOMAIN w : i < j => w[i].second <= w[j].first

\* Well-formed windows with a gap between neighbours: there is a gap between
\* any two of them.
LEMMA SeparatedAll ==
    ASSUME NEW w \in Seq(TimeWindow), Separated(w), WellFormed(w)
    PROVE  \A i, j \in DOMAIN w : i < j => w[i].second < w[j].first
<1> SUFFICES ASSUME NEW i \in DOMAIN w
             PROVE  \A j \in DOMAIN w : i < j => w[i].second < w[j].first
  OBVIOUS
<1> DEFINE N == Len(w)
           T == {m \in 0 .. N : m > i => w[i].second < w[m].first}
<1>1. /\ N \in Nat /\ DOMAIN w = 1 .. N /\ i \in 1 .. N
      /\ \A j \in 1 .. N : w[j].first \in Int /\ w[j].second \in Int
                         /\ w[j].first <= w[j].second
  BY WindowParts DEF WellFormed
<1> HIDE DEF N
<1>2. 0 \in T
  BY <1>1
<1>3. ASSUME NEW m \in 0 .. N - 1, m \in T PROVE m + 1 \in T
  <2>1. m + 1 \in 1 .. N /\ m + 1 \in 0 .. N
    BY <1>1
  <2>2. CASE m < i
    <3>1. ~ m + 1 > i
      BY <1>1, <2>2
    <3> QED
      BY <2>1, <3>1
  <2>3. CASE m >= i
    <3>1. m \in 1 .. N
      BY <1>1, <2>3
    <3>2. w[m].second < w[m + 1].first
      BY <1>1, <2>1, <3>1 DEF Separated
    <3>3. w[i].second <= w[m].second
      <4>1. CASE m = i
        BY <1>1, <4>1
      <4>2. CASE m > i
        BY <1>1, <1>3, <3>1, <4>2
      <4> QED
        BY <1>1, <2>3, <3>1, <4>1, <4>2
    <3>4. w[i].second < w[m + 1].first
      BY <1>1, <2>1, <3>1, <3>2, <3>3
    <3> QED
      BY <2>1, <3>4
  <2> QED
    BY <1>1, <2>2, <2>3
<1> HIDE DEF T
<1>4. \A m \in 0 .. N : m \in T
  BY <1>1, <1>2, <1>3, FiniteInduction
<1> QED
  BY <1>1, <1>4 DEF T

\* What is left out of a list that is in order leaves it in order.
LEMMA SubsequenceSequential ==
    ASSUME NEW w \in Seq(TimeWindow), NEW K \in SUBSET DOMAIN w,
           \A i, j \in K : i < j => w[i].second <= w[j].first
    PROVE  Sequential(Subsequence(w, K))
<1>1. /\ IsFiniteSet(K) /\ K \in SUBSET Int /\ Cardinality(K) \in Nat
      /\ DOMAIN Subsequence(w, K) = 1 .. Cardinality(K)
  BY SubsequenceType
<1> SUFFICES ASSUME NEW a \in 1 .. Cardinality(K), NEW b \in 1 .. Cardinality(K), a < b
             PROVE  Subsequence(w, K)[a].second <= Subsequence(w, K)[b].first
  BY <1>1 DEF Sequential
<1>2. PICK i \in K : Rank(K, i) = a /\ Subsequence(w, K)[a] = w[i]
  BY <1>1, SubsequenceElements
<1>3. PICK j \in K : Rank(K, j) = b /\ Subsequence(w, K)[b] = w[j]
  BY <1>1, SubsequenceElements
<1>4. i < j
  <2>1. i \in Int /\ j \in Int /\ i # j
    BY <1>1, <1>2, <1>3
  <2>2. ~ j < i
    BY <1>1, <1>2, <1>3, RankMonotonic
  <2> QED
    BY <2>1, <2>2
<1> QED
  BY <1>2, <1>3, <1>4

\* An earlier place is in an earlier row, or to the left in the same row.
LEMMA RowByRow ==
    ASSUME NEW rows \in Nat, NEW columns \in Nat,
           NEW m \in 1 .. rows * columns, NEW n \in 1 .. rows * columns, m < n
    PROVE  \/ ((m - 1) \div columns) + 1 < ((n - 1) \div columns) + 1
           \/ /\ ((m - 1) \div columns) + 1 = ((n - 1) \div columns) + 1
              /\ ((m - 1) % columns) + 1 < ((n - 1) % columns) + 1
<1> DEFINE p == (m - 1) \div columns
           r == (m - 1) % columns
           q == (n - 1) \div columns
           s == (n - 1) % columns
<1>0. rows * columns \in Nat /\ m \in Nat /\ n \in Nat /\ m >= 1 /\ n <= rows * columns
  OBVIOUS
<1>1. columns > 0
  BY <1>0
<1>2. /\ p \in Int /\ r \in 0 .. columns - 1 /\ m - 1 = columns * p + r
      /\ q \in Int /\ s \in 0 .. columns - 1 /\ n - 1 = columns * q + s
  BY <1>0, <1>1
<1> HIDE DEF p, q, r, s
<1>3. p <= q
  <2> SUFFICES ASSUME p >= q + 1 PROVE FALSE
    BY <1>2
  <2>1. columns * p >= columns * (q + 1)
    BY <1>1, <1>2
  <2>2. columns * (q + 1) = columns * q + columns
    BY <1>1, <1>2
  <2> QED
    BY <1>0, <1>1, <1>2, <2>1, <2>2
<1>4. p = q => r < s
  BY <1>0, <1>2
<1> QED
  BY <1>2, <1>3, <1>4 DEF p, q, r, s

\* The common parts of two lists in order are in order.
LEMMA PairsSequential ==
    ASSUME NEW a \in Seq(TimeWindow), NEW b \in Seq(TimeWindow), Sequential(a), Sequential(b)
    PROVE  Sequential(AllPairs(a, b))
<1> DEFINE N == Len(a) * Len(b)
           row(n) == ((n - 1) \div Len(b)) + 1
           column(n) == ((n - 1) % Len(b)) + 1
<1>1. /\ Len(a) \in Nat /\ Len(b) \in Nat
      /\ DOMAIN a = 1 .. Len(a) /\ DOMAIN b = 1 .. Len(b)
  OBVIOUS
<1>2. AllPairs(a, b) = [n \in 1 .. N |-> merge_feasible_arrtime_helper(a[row(n)], b[column(n)])]
  BY DEF AllPairs
<1>3. \A n \in 1 .. N : row(n) \in DOMAIN a /\ column(n) \in DOMAIN b
  BY <1>1, RowAndColumn
<1>4. \A m, n \in 1 .. N : m < n => \/ row(m) < row(n)
                                    \/ row(m) = row(n) /\ column(m) < column(n)
  BY <1>1, RowByRow
<1> HIDE DEF N, row, column
<1> SUFFICES ASSUME NEW m \in 1 .. N, NEW n \in 1 .. N, m < n
             PROVE  AllPairs(a, b)[m].second <= AllPairs(a, b)[n].first
  BY <1>2 DEF Sequential
<1> DEFINE v == AllPairs(a, b)[m]
           w == AllPairs(a, b)[n]
<1>5. /\ v = merge_feasible_arrtime_helper(a[row(m)], b[column(m)])
      /\ w = merge_feasible_arrtime_helper(a[row(n)], b[column(n)])
  BY <1>2
<1> HIDE DEF v, w
<1>6. /\ a[row(m)] \in TimeWindow /\ b[column(m)] \in TimeWindow
      /\ a[row(n)] \in TimeWindow /\ b[column(n)] \in TimeWindow
  BY <1>3
<1>7. /\ v \in TimeWindow /\ v.second <= a[row(m)].second /\ v.second <= b[column(m)].second
      /\ w \in TimeWindow /\ w.first >= a[row(n)].first /\ w.first >= b[column(n)].first
  BY <1>5, <1>6, MergedWindow
<1>8. \/ a[row(m)].second <= a[row(n)].first
      \/ b[column(m)].second <= b[column(n)].first
  BY <1>3, <1>4 DEF Sequential
<1>9. v.second <= w.first
  BY <1>6, <1>7, <1>8, WindowParts
<1> QED
  BY <1>9 DEF v, w

\* Merging two lists in order gives a list in order.
LEMMA MergeSequential ==
    ASSUME NEW a \in Seq(TimeWindow), NEW b \in Seq(TimeWindow), Sequential(a), Sequential(b)
    PROVE  Sequential(merge_feasible_arrtime(a, b))
<1> DEFINE pairs == AllPairs(a, b)
           K == {n \in DOMAIN pairs : pairs[n].first < pairs[n].second}
           kept == Subsequence(pairs, K)
           C == {i \in DOMAIN kept : i + 1 \in DOMAIN kept => kept[i + 1].first > kept[i].second}
<1>1. pairs \in Seq(TimeWindow) /\ Sequential(pairs)
  BY AllPairsElements, PairsSequential
<1>2. K \in SUBSET DOMAIN pairs /\ C \in SUBSET DOMAIN kept
  OBVIOUS
<1>3. merge_feasible_arrtime(a, b) = Subsequence(kept, C)
  BY DEF merge_feasible_arrtime, combine_intervals
<1> HIDE DEF pairs, K, C
<1>4. kept \in Seq(TimeWindow) /\ Sequential(kept)
  BY <1>1, <1>2, SubsequenceType, SubsequenceSequential DEF Sequential
<1> HIDE DEF kept
<1> QED
  BY <1>2, <1>3, <1>4, SubsequenceSequential DEF Sequential

--------------------------------------------------------------------------------
(* The legal intervals as the gaps of the list of locks. *)

\* The instants between window g and window g + 1.
Gap(w, g) ==
    [first  |-> IF g = 0 THEN 0 ELSE w[g].second,
     second |-> IF g = Len(w) THEN INF ELSE w[g + 1].first]

\* The places of one list after another.
LEMMA ConcatenationElements ==
    ASSUME NEW S, NEW u \in Seq(S), NEW v \in Seq(S), NEW m, m = Len(u)
    PROVE  /\ u \o v \in Seq(S) /\ Len(u \o v) = m + Len(v)
           /\ DOMAIN (u \o v) = 1 .. m + Len(v)
           /\ \A i \in 1 .. m + Len(v) : (u \o v)[i] = IF i <= m THEN u[i] ELSE v[i - m]
  OBVIOUS

\* The legal intervals are the gaps one after the other, except that the one
\* before the first window is left out when there is nothing in it, and the
\* last one when the last window is for ever.
LEMMA LegalGaps ==
    ASSUME NEW w \in Seq(TimeWindow)
    PROVE  \E skip \in {0, 1} :
              /\ \A i \in DOMAIN getLegalInterVals4Node(w) :
                   /\ i + skip - 1 \in 0 .. Len(w)
                   /\ getLegalInterVals4Node(w)[i] = Gap(w, i + skip - 1)
              /\ \A g \in 0 .. Len(w) :
                   \/ g + 1 - skip \in DOMAIN getLegalInterVals4Node(w)
                   \/ g = 0 /\ w # <<>> /\ w[1].first <= 0
                   \/ g = Len(w) /\ w # <<>> /\ w[Len(w)].second = INF
<1>1. CASE w = <<>>
  <2>1. /\ getLegalInterVals4Node(w) = <<[first |-> 0, second |-> INF]>> /\ Len(w) = 0
        /\ Gap(w, 0) = [first |-> 0, second |-> INF]
    BY <1>1 DEF getLegalInterVals4Node, Gap
  <2>2. 0 \in {0, 1} /\ 1 + 0 - 1 = 0 /\ 0 + 1 - 0 = 1 /\ 0 .. 0 = {0}
    OBVIOUS
  <2> QED
    BY <2>1, <2>2
<1>2. CASE w # <<>>
  <2> DEFINE size == Len(w)
             before == [first |-> 0, second |-> w[1].first]
             after == [first |-> w[size].second, second |-> INF]
             gaps == [i \in 1 .. size - 1 |->
                        [first |-> w[i].second, second |-> w[i + 1].first]]
             head == IF w[1].first > 0 THEN <<before>> ELSE <<>>
             tail == IF w[size].second # INF THEN <<after>> ELSE <<>>
             skip == IF w[1].first > 0 THEN 0 ELSE 1
             legal == head \o gaps \o tail
  <2>1. size \in Nat /\ size >= 1 /\ \A i \in 1 .. size : w[i].first \in Int /\ w[i].second \in Int
    BY <1>2, WindowParts
  <2>2. getLegalInterVals4Node(w) = legal
    BY <1>2 DEF getLegalInterVals4Node
  <2>3. /\ before = Gap(w, 0) /\ after = Gap(w, size)
        /\ \A i \in 1 .. size - 1 : gaps[i] = Gap(w, i)
    BY <2>1 DEF Gap
  <2>4. /\ gaps \in Seq(TimeWindow) /\ Len(gaps) = size - 1 /\ DOMAIN gaps = 1 .. size - 1
    <3>1. ASSUME NEW i \in 1 .. size - 1 PROVE gaps[i] \in TimeWindow
      <4>1. w[i].second \in Int /\ w[i + 1].first \in Int
        BY <2>1
      <4> QED
        BY <4>1 DEF TimeWindow, Instant
    <3>2. gaps \in [1 .. size - 1 -> TimeWindow] /\ size - 1 \in Nat
      BY <2>1, <3>1
    <3> QED
      BY <3>2
  <2>5. head \in Seq(TimeWindow) /\ tail \in Seq(TimeWindow)
    <3>1. before \in TimeWindow /\ after \in TimeWindow
      BY <2>1, InfAssumption DEF TimeWindow, Instant
    <3> HIDE DEF before, after
    <3> QED
      BY <3>1
  <2>6. /\ skip \in {0, 1} /\ Len(head) = 1 - skip
        /\ \A i \in 1 .. 1 - skip : head[i] = before
        /\ Len(tail) \in {0, 1} /\ (Len(tail) = 0 => w[size].second = INF)
        /\ \A i \in 1 .. Len(tail) : tail[i] = after
        /\ skip = 1 => w[1].first <= 0
    BY <2>1
  <2> HIDE DEF head, tail, skip, before, after, gaps, size
  <2>7. /\ DOMAIN legal = 1 .. size - skip + Len(tail)
        /\ \A i \in 1 .. size - skip + Len(tail) :
             legal[i] = IF i <= 1 - skip THEN head[i]
                        ELSE IF i <= size - skip THEN gaps[i - (1 - skip)]
                        ELSE tail[i - (size - skip)]
    <3>1. head \o gaps \in Seq(TimeWindow) /\ Len(head \o gaps) = size - skip
      BY <2>1, <2>4, <2>5, <2>6
    <3>2. \A i \in 1 .. size - skip :
             (head \o gaps)[i] = IF i <= 1 - skip THEN head[i] ELSE gaps[i - (1 - skip)]
      BY <2>1, <2>4, <2>5, <2>6
    <3> DEFINE front == head \o gaps
    <3>4. front \in Seq(TimeWindow) /\ Len(front) = size - skip
      BY <3>1
    <3> HIDE DEF front
    <3>3. /\ DOMAIN (front \o tail) = 1 .. size - skip + Len(tail)
          /\ \A i \in 1 .. size - skip + Len(tail) :
               (front \o tail)[i] = IF i <= size - skip THEN front[i]
                                    ELSE tail[i - (size - skip)]
      BY <2>5, <3>4, ConcatenationElements
    <3> QED
      BY <2>1, <2>6, <3>2, <3>3 DEF front
  <2> HIDE DEF legal
  <2>8. ASSUME NEW i \in DOMAIN legal
        PROVE  i + skip - 1 \in 0 .. size /\ legal[i] = Gap(w, i + skip - 1)
    <3>1. CASE i <= 1 - skip
      <4>1. i = 1 /\ skip = 0 /\ i + skip - 1 = 0
        BY <2>6, <2>7, <3>1
      <4> QED
        BY <2>1, <2>3, <2>6, <2>7, <4>1
    <3>2. CASE i > 1 - skip /\ i <= size - skip
      <4>1. i - (1 - skip) = i + skip - 1 /\ i + skip - 1 \in 1 .. size - 1
        BY <2>1, <2>6, <2>7, <3>2
      <4>2. legal[i] = gaps[i + skip - 1]
        BY <2>1, <2>6, <2>7, <3>2, <4>1
      <4> QED
        BY <2>1, <2>3, <4>1, <4>2
    <3>3. CASE i > 1 - skip /\ i > size - skip
      <4>1. i - (size - skip) = 1 /\ Len(tail) = 1 /\ i + skip - 1 = size
        BY <2>1, <2>6, <2>7, <3>3
      <4> QED
        BY <2>1, <2>3, <2>6, <2>7, <3>3, <4>1
    <3> QED
      BY <2>1, <2>6, <2>7, <3>1, <3>2, <3>3
  <2>9. ASSUME NEW g \in 0 .. size
        PROVE  \/ g + 1 - skip \in DOMAIN legal
               \/ g = 0 /\ w[1].first <= 0
               \/ g = size /\ w[size].second = INF
    BY <2>1, <2>6, <2>7
  <2> QED
    BY <1>2, <2>2, <2>6, <2>8, <2>9 DEF size
<1> QED
  BY <1>1, <1>2

\* The two windows share no instant.
Disjoint(v, w) == v.second <= w.first \/ w.second <= v.first

\* Between separated windows the legal intervals are in order, and none of them
\* meets a window.
LEMMA LegalOfSeparated ==
    ASSUME NEW w \in Seq(TimeWindow), Separated(w), WellFormed(w)
    PROVE  /\ Sequential(getLegalInterVals4Node(w))
           /\ \A i \in DOMAIN getLegalInterVals4Node(w), j \in DOMAIN w :
                Disjoint(getLegalInterVals4Node(w)[i], w[j])
<1> DEFINE legal == getLegalInterVals4Node(w)
           N == Len(w)
<1>1. PICK skip \in {0, 1} : \A i \in DOMAIN legal :
         i + skip - 1 \in 0 .. N /\ legal[i] = Gap(w, i + skip - 1)
  BY LegalGaps
<1>2. /\ N \in Nat /\ DOMAIN w = 1 .. N
      /\ \A j \in 1 .. N : w[j].first \in Int /\ w[j].second \in Int
                         /\ w[j].first <= w[j].second
  BY WindowParts DEF WellFormed
<1>9. \A g \in 0 .. N :
         /\ Gap(w, g).first = IF g = 0 THEN 0 ELSE w[g].second
         /\ Gap(w, g).second = IF g = N THEN INF ELSE w[g + 1].first
  BY DEF Gap
<1> HIDE DEF legal, N
<1>3. \A i, j \in 1 .. N : i < j => w[i].second < w[j].first
  BY <1>2, SeparatedAll
<1>4. DOMAIN legal \subseteq Nat
  <2>1. legal \in Seq(TimeWindow)
    BY LegalType DEF legal
  <2> QED
    BY <2>1
<1>5. \A g, h \in 0 .. N : g < h => Gap(w, g).second <= Gap(w, h).first
  <2> SUFFICES ASSUME NEW g \in 0 .. N, NEW h \in 0 .. N, g < h
               PROVE  Gap(w, g).second <= Gap(w, h).first
    OBVIOUS
  <2>1. g + 1 \in 1 .. N /\ h \in 1 .. N /\ g + 1 <= h /\ g # N /\ h # 0
    BY <1>2
  <2>2. Gap(w, g).second = w[g + 1].first /\ Gap(w, h).first = w[h].second
    BY <1>9, <2>1
  <2>3. w[g + 1].first <= w[h].second
    <3>1. CASE g + 1 = h
      BY <1>2, <2>1, <3>1
    <3>2. CASE g + 1 < h
      BY <1>2, <1>3, <2>1, <3>2
    <3> QED
      BY <2>1, <3>1, <3>2
  <2> QED
    BY <2>2, <2>3
<1>6. ASSUME NEW g \in 0 .. N, NEW j \in 1 .. N PROVE Disjoint(Gap(w, g), w[j])
  <2>1. CASE j <= g
    <3>1. g \in 1 .. N /\ Gap(w, g).first = w[g].second
      BY <1>2, <1>9, <2>1
    <3>2. w[j].second <= w[g].second
      <4>1. CASE j = g
        BY <1>2, <4>1
      <4>2. CASE j < g
        BY <1>2, <1>3, <3>1, <4>2
      <4> QED
        BY <1>2, <2>1, <4>1, <4>2
    <3> QED
      BY <3>1, <3>2 DEF Disjoint
  <2>2. CASE j > g
    <3>1. g + 1 \in 1 .. N /\ Gap(w, g).second = w[g + 1].first
      BY <1>2, <1>9, <2>2
    <3>2. w[g + 1].first <= w[j].first
      <4>1. CASE j = g + 1
        BY <1>2, <4>1
      <4>2. CASE j > g + 1
        BY <1>2, <1>3, <3>1, <4>2
      <4> QED
        BY <1>2, <2>2, <4>1, <4>2
    <3> QED
      BY <3>1, <3>2 DEF Disjoint
  <2> QED
    BY <1>2, <2>1, <2>2
<1>7. Sequential(legal)
  <2> SUFFICES ASSUME NEW a \in DOMAIN legal, NEW b \in DOMAIN legal, a < b
               PROVE  legal[a].second <= legal[b].first
    BY DEF Sequential
  <2>1. a + skip - 1 < b + skip - 1
    BY <1>4
  <2> QED
    BY <1>1, <1>5, <2>1
<1>8. \A i \in DOMAIN legal, j \in DOMAIN w : Disjoint(legal[i], w[j])
  BY <1>1, <1>2, <1>6
<1> QED
  BY <1>7, <1>8 DEF legal

\* They are all that the windows leave free.
LEMMA LegalOfFree ==
    ASSUME NEW w \in Seq(TimeWindow), Separated(w), WellFormed(w),
           NEW t \in 0 .. INF - 1, ~ CoveredBy(t, w)
    PROVE  CoveredBy(t, getLegalInterVals4Node(w))
<1> DEFINE legal == getLegalInterVals4Node(w)
           N == Len(w)
           later == {j \in 1 .. N : t < w[j].second}
<1>1. PICK skip \in {0, 1} :
         /\ \A i \in DOMAIN legal :
              i + skip - 1 \in 0 .. N /\ legal[i] = Gap(w, i + skip - 1)
         /\ \A g \in 0 .. N :
              \/ g + 1 - skip \in DOMAIN legal
              \/ g = 0 /\ w # <<>> /\ w[1].first <= 0
              \/ g = N /\ w # <<>> /\ w[N].second = INF
  BY LegalGaps
<1>2. /\ N \in Nat /\ DOMAIN w = 1 .. N /\ INF \in Nat /\ t \in Int /\ 0 <= t /\ t < INF
      /\ \A j \in 1 .. N : w[j].first \in Int /\ w[j].second \in Int
  BY WindowParts, InfAssumption
<1>3. PICK g \in 0 .. N : /\ g < N => t < w[g + 1].second
                          /\ g > 0 => w[g].second <= t
  <2>1. CASE later = {}
    <3>1. N > 0 => w[N].second <= t
      BY <1>2, <2>1
    <3> QED
      BY <1>2, <3>1
  <2>2. CASE later # {}
    <3>1. later \in SUBSET Nat
      BY <1>2
    <3>2. PICK j \in later : \A i \in later : j <= i
      <4> HIDE DEF later
      <4> QED
        BY <2>2, <3>1, LeastNumber
    <3>3. j \in 1 .. N /\ t < w[j].second
      OBVIOUS
    <3>4. j - 1 > 0 => w[j - 1].second <= t
      <4> SUFFICES ASSUME j - 1 > 0, t < w[j - 1].second PROVE FALSE
        BY <1>2, <3>3
      <4>1. j - 1 \in later
        BY <1>2, <3>3
      <4> QED
        BY <1>2, <3>2, <3>3, <4>1
    <3>5. j - 1 \in 0 .. N /\ j - 1 + 1 = j
      BY <1>2, <3>3
    <3> QED
      BY <3>3, <3>4, <3>5
  <2> QED
    BY <2>1, <2>2
<1>4. /\ Gap(w, g).first = IF g = 0 THEN 0 ELSE w[g].second
      /\ Gap(w, g).second = IF g = N THEN INF ELSE w[g + 1].first
  BY DEF Gap
<1> HIDE DEF legal, N
<1>5. g < N => t < w[g + 1].first
  <2> SUFFICES ASSUME g < N PROVE t < w[g + 1].first
    OBVIOUS
  <2>1. g + 1 \in 1 .. N
    BY <1>2
  <2>2. ~ (w[g + 1].first <= t)
    BY <1>2, <1>3, <2>1 DEF CoveredBy
  <2> QED
    BY <1>2, <2>1, <2>2
<1>6. Gap(w, g).first <= t /\ t < Gap(w, g).second
  <2>1. g = 0 \/ g > 0
    BY <1>2
  <2>2. g = N \/ g < N
    BY <1>2
  <2> QED
    BY <1>2, <1>3, <1>4, <1>5, <2>1, <2>2
<1>7. g + 1 - skip \in DOMAIN legal
  <2>1. ASSUME g = 0, w # <<>> PROVE w[1].first > 0
    <3>1. N > 0
      BY <2>1, <1>2 DEF N
    <3> QED
      BY <1>2, <1>5, <2>1, <3>1
  <2>2. ASSUME g = N, w # <<>> PROVE w[N].second # INF
    <3>1. N > 0
      BY <2>2, <1>2 DEF N
    <3> QED
      BY <1>2, <1>3, <2>2, <3>1
  <2>3. w # <<>> => w[1].first \in Int
    <3> SUFFICES ASSUME w # <<>> PROVE w[1].first \in Int
      OBVIOUS
    <3>1. 1 \in 1 .. N
      BY <1>2 DEF N
    <3> QED
      BY <1>2, <3>1
  <2> QED
    BY <1>1, <2>1, <2>2, <2>3
<1>8. legal[g + 1 - skip] = Gap(w, g)
  <2>1. g + 1 - skip + skip - 1 = g
    BY <1>2
  <2> QED
    BY <1>1, <1>7, <2>1
<1> QED
  BY <1>6, <1>7, <1>8 DEF CoveredBy, legal

--------------------------------------------------------------------------------
(* The reduction of a short list. *)

\* Two windows, as many as two routes lock at a node, are in order with a gap
\* between them after the reduction, or are one.
LEMMA ReductionOfTwo ==
    ASSUME NEW w \in Seq(TimeWindow), WellFormed(w), Len(w) <= 2
    PROVE  /\ Len(TimeWindowReduction4NodeHelper(w)) <= Len(w)
           /\ Separated(TimeWindowReduction4NodeHelper(w))
<1> DEFINE pieces == [i \in DOMAIN w |-> Piece(w, i)]
           K == {i \in DOMAIN w : IsCut(w, i)}
           reduced == TimeWindowReduction4NodeHelper(w)
           N == Len(w)
<1>1. /\ N \in 0 .. 2 /\ DOMAIN w = 1 .. N /\ K \in SUBSET DOMAIN w
      /\ pieces \in Seq(TimeWindow) /\ DOMAIN pieces = DOMAIN w
  <2>1. \A i \in 1 .. N : pieces[i] \in TimeWindow
    BY PieceSpans
  <2>2. N \in Nat /\ DOMAIN w = 1 .. N /\ N <= 2
    OBVIOUS
  <2>3. pieces \in [1 .. N -> TimeWindow]
    BY <2>1, <2>2
  <2> HIDE DEF N
  <2> QED
    BY <2>2, <2>3
<1>2. reduced = Subsequence(pieces, K)
  BY DEF TimeWindowReduction4NodeHelper
<1>3. \A i \in DOMAIN w : pieces[i] = Piece(w, i)
  OBVIOUS
<1> HIDE DEF pieces, K, N
<1>4. /\ IsFiniteSet(K) /\ K \in SUBSET Int /\ reduced \in Seq(TimeWindow)
      /\ Len(reduced) = Cardinality(K) /\ Cardinality(K) \in Nat
      /\ DOMAIN reduced = 1 .. Cardinality(K) /\ Len(reduced) <= N
  BY <1>1, <1>2, SubsequenceType DEF N
<1>5. Separated(reduced)
  <2> SUFFICES ASSUME NEW r \in 1 .. Cardinality(K), r + 1 \in 1 .. Cardinality(K)
               PROVE  reduced[r].second < reduced[r + 1].first
    BY <1>4 DEF Separated
  <2>1. PICK i \in K : Rank(K, i) = r /\ reduced[r] = pieces[i]
    BY <1>2, <1>4, SubsequenceElements
  <2>2. PICK j \in K : Rank(K, j) = r + 1 /\ reduced[r + 1] = pieces[j]
    BY <1>2, <1>4, SubsequenceElements
  <2>3. i < j
    <3>1. i \in Int /\ j \in Int /\ i # j
      BY <1>4, <2>1, <2>2
    <3>2. r \in Int /\ ~ (r + 1 < r)
      BY <1>4
    <3>3. ~ j < i
      BY <1>4, <2>1, <2>2, <3>2, RankMonotonic
    <3> QED
      BY <3>1, <3>3
  <2>4. i = 1 /\ j = 2 /\ N = 2 /\ i \in DOMAIN w /\ j \in DOMAIN w
    BY <1>1, <2>3
  <2>5. IsCut(w, 1)
    BY <2>4 DEF K
  <2>6. w[1] \in TimeWindow /\ w[2] \in TimeWindow /\ w[1].second < w[2].first
    BY <1>1, <2>4, <2>5 DEF IsCut
  <2>7. w[1].second \in Int /\ w[2].first \in Int
    BY <2>6, WindowParts
  <2>8. Piece(w, 1).second = w[1].second
    <3>1. {m \in 1 .. 1 : \A c \in m .. 1 - 1 : ~ IsCut(w, c)} = {1}
      OBVIOUS
    <3>2. {w[m].second : m \in {1}} = {w[1].second}
      OBVIOUS
    <3>3. Piece(w, 1).second = Max({w[1].second})
      BY <3>1, <3>2 DEF Piece
    <3>4. Max({w[1].second, w[1].second}) = w[1].second
      BY <2>7, MaxOfPair
    <3>5. {w[1].second, w[1].second} = {w[1].second}
      OBVIOUS
    <3> QED
      BY <3>3, <3>4, <3>5
  <2>9. Piece(w, 2).first = w[2].first
    <3>1. {m \in 1 .. 2 : \A c \in m .. 2 - 1 : ~ IsCut(w, c)} = {2}
      <4>1. 1 .. 2 = {1, 2} /\ 1 \in 1 .. 2 - 1 /\ 2 .. 2 - 1 = {}
        OBVIOUS
      <4> QED
        BY <2>5, <4>1
    <3>2. {w[m].first : m \in {2}} = {w[2].first}
      OBVIOUS
    <3>3. Piece(w, 2).first = Min({w[2].first})
      BY <3>1, <3>2 DEF Piece
    <3>4. Min({w[2].first, w[2].first}) = w[2].first
      BY <2>7, MinOfPair
    <3>5. {w[2].first, w[2].first} = {w[2].first}
      OBVIOUS
    <3> QED
      BY <3>3, <3>4, <3>5
  <2> QED
    BY <1>3, <2>1, <2>2, <2>4, <2>6, <2>8, <2>9
<1> QED
  BY <1>4, <1>5 DEF N

--------------------------------------------------------------------------------
(* One pass of the reduction, window by window. *)

\* The next piece spans the window alone after a cut, and goes on without one.
LEMMA NextMembers ==
    ASSUME NEW w \in Seq(TimeWindow), NEW p \in DOMAIN w
    PROVE  Members(w, p + 1) = IF IsCut(w, p) THEN {p + 1} ELSE Members(w, p) \union {p + 1}
<1>1. p \in Nat /\ p >= 1
  OBVIOUS
<1>2. ASSUME NEW j \in 1 .. p
      PROVE  j .. (p + 1) - 1 = (j .. p - 1) \union {p} /\ p \in j .. (p + 1) - 1
  BY <1>1
<1>3. 1 .. p + 1 = (1 .. p) \union {p + 1} /\ (p + 1) .. (p + 1) - 1 = {}
  BY <1>1
<1>4. p + 1 \in Members(w, p + 1)
  BY <1>3 DEF Members
<1>5. \A j \in 1 .. p : j \in Members(w, p + 1) <=> ~ IsCut(w, p) /\ j \in Members(w, p)
  BY <1>2, <1>3 DEF Members
<1>6. Members(w, p + 1) \subseteq (1 .. p) \union {p + 1} /\ Members(w, p) \subseteq 1 .. p
  BY <1>3 DEF Members
<1> QED
  BY <1>4, <1>5, <1>6

\* A piece after a cut begins as the window itself.
LEMMA PieceAfterCut ==
    ASSUME NEW w \in Seq(TimeWindow), NEW p \in DOMAIN w, p + 1 \in DOMAIN w, IsCut(w, p)
    PROVE  Piece(w, p + 1) = w[p + 1]
<1>1. Members(w, p + 1) = {p + 1}
  BY NextMembers
<1>2. Piece(w, p + 1).first = w[p + 1].first /\ Piece(w, p + 1).second = w[p + 1].second
  BY <1>1, PieceBounds
<1>3. Piece(w, p + 1) \in TimeWindow /\ w[p + 1] \in TimeWindow
  BY PieceSpans
<1> QED
  BY <1>2, <1>3 DEF TimeWindow

\* Where there is no cut, the next piece is the piece joined with the window.
LEMMA PieceGrows ==
    ASSUME NEW w \in Seq(TimeWindow), NEW p \in DOMAIN w, p + 1 \in DOMAIN w, ~ IsCut(w, p)
    PROVE  Piece(w, p + 1) = [first  |-> Min({Piece(w, p).first, w[p + 1].first}),
                              second |-> Max({w[p + 1].second, Piece(w, p).second})]
<1> DEFINE old == Piece(w, p)
           new == Piece(w, p + 1)
<1>1. Members(w, p + 1) = Members(w, p) \union {p + 1}
  BY NextMembers
<1>2. /\ old.first \in Int /\ old.second \in Int
      /\ \E j \in Members(w, p) : old.first = w[j].first
      /\ \E j \in Members(w, p) : old.second = w[j].second
      /\ \A j \in Members(w, p) : old.first <= w[j].first /\ w[j].second <= old.second
      /\ Members(w, p) \subseteq DOMAIN w
  BY PieceBounds
<1>3. /\ new.first \in Int /\ new.second \in Int
      /\ \E j \in Members(w, p + 1) : new.first = w[j].first
      /\ \E j \in Members(w, p + 1) : new.second = w[j].second
      /\ \A j \in Members(w, p + 1) : new.first <= w[j].first /\ w[j].second <= new.second
  BY PieceBounds
<1>4. \A j \in DOMAIN w : w[j].first \in Int /\ w[j].second \in Int
  BY WindowParts
<1>5. new \in TimeWindow
  BY PieceSpans
<1> HIDE DEF old, new
<1>6. new.first = IF old.first <= w[p + 1].first THEN old.first ELSE w[p + 1].first
  BY <1>1, <1>2, <1>3, <1>4
<1>7. new.second = IF w[p + 1].second >= old.second THEN w[p + 1].second ELSE old.second
  <2>1. PICK j \in Members(w, p + 1) : new.second = w[j].second
    BY <1>3
  <2>2. PICK m \in Members(w, p) : old.second = w[m].second
    BY <1>2
  <2>3. m \in Members(w, p + 1) /\ p + 1 \in Members(w, p + 1)
    BY <1>1
  <2>4. w[m].second <= new.second /\ w[p + 1].second <= new.second
    BY <1>3, <2>3
  <2>5. j = p + 1 \/ w[j].second <= old.second
    BY <1>1, <1>2, <2>1
  <2>6. w[p + 1].second \in Int
    BY <1>1, <1>4
  <2> QED
    BY <1>2, <1>3, <2>1, <2>2, <2>4, <2>5, <2>6
<1>8. new.first = Min({old.first, w[p + 1].first}) /\ new.second = Max({w[p + 1].second, old.second})
  <2>1. w[p + 1].first \in Int /\ w[p + 1].second \in Int
    BY <1>1, <1>4
  <2>2. Min({old.first, w[p + 1].first}) = new.first
    BY <1>2, <1>6, <2>1, MinOfPair
  <2>3. Max({w[p + 1].second, old.second}) = new.second
    BY <1>2, <1>7, <2>1, MaxOfPair
  <2> QED
    BY <2>2, <2>3
<1> QED
  BY <1>5, <1>8 DEF TimeWindow, old, new

\* The loop finds the cuts: it compares the end of the piece with the next start,
\* and the pieces before end before this one starts.
LEMMA CutOfPiece ==
    ASSUME NEW w \in Seq(TimeWindow), WellFormed(w), NEW p \in DOMAIN w, p + 1 \in DOMAIN w
    PROVE  IsCut(w, p) <=> Piece(w, p).second < w[p + 1].first
<1>1. /\ p \in Nat /\ p >= 1 /\ DOMAIN w = 1 .. Len(w) /\ Len(w) \in Nat /\ p + 1 <= Len(w)
      /\ \A j \in DOMAIN w : w[j].first \in Int /\ w[j].second \in Int /\ w[j].first <= w[j].second
  BY WindowParts DEF WellFormed
<1>2. /\ Piece(w, p).second \in Int /\ Members(w, p) \subseteq 1 .. p
      /\ \E j \in Members(w, p) : Piece(w, p).second = w[j].second
      /\ \A j \in Members(w, p) : w[j].second <= Piece(w, p).second
  BY PieceBounds DEF Members
<1>3. ASSUME IsCut(w, p) PROVE Piece(w, p).second < w[p + 1].first
  BY <1>1, <1>2, <1>3 DEF IsCut
<1>4. ASSUME Piece(w, p).second < w[p + 1].first, NEW j \in 1 .. p
      PROVE  w[j].second < w[p + 1].first
  <2>1. CASE j \in Members(w, p)
    BY <1>1, <1>2, <1>4, <2>1
  <2>2. CASE j \notin Members(w, p)
    <3> DEFINE cuts == {c \in j .. p - 1 : IsCut(w, c)}
    <3>1. cuts # {} /\ cuts \in SUBSET Int /\ cuts \subseteq j .. p - 1
      BY <2>2 DEF Members
    <3>2. IsFiniteSet(cuts)
      <4>1. IsFiniteSet(j .. p - 1)
        BY <1>1, FS_Interval
      <4> QED
        BY <3>1, <4>1, FS_Subset
    <3> DEFINE c == Max(cuts)
    <3>3. c \in cuts /\ \A x \in cuts : x <= c
      BY <3>1, <3>2, MaxOfFinite
    <3> HIDE DEF c
    <3>4. c \in j .. p - 1 /\ IsCut(w, c) /\ \A x \in c + 1 .. p - 1 : ~ IsCut(w, x)
      BY <1>1, <3>3
    <3>5. c + 1 \in Members(w, p)
      BY <1>1, <3>4 DEF Members
    <3>6. w[j].second < w[c + 1].first
      BY <1>1, <3>4 DEF IsCut
    <3>7. w[c + 1].second < w[p + 1].first
      BY <1>1, <1>2, <1>4, <3>5
    <3> QED
      BY <1>1, <3>4, <3>6, <3>7
  <2> QED
    BY <2>1, <2>2
<1> QED
  BY <1>3, <1>4 DEF IsCut


--------------------------------------------------------------------------------
(* What the operators of LMap compute. *)

\* A route with a wait, a travel time and a window for each of its points.
Route ==
    {route \in Planned :
        /\ Len(route.vps) >= 1
        /\ Len(route.wts) = Len(route.vps)
        /\ Len(route.tts) = Len(route.vps)
        /\ Len(route.arr_and_depar_time) = Len(route.vps)}

\* The places of a route, and what the route has at each.
LEMMA RouteParts ==
    ASSUME NEW route \in Route
    PROVE  /\ Len(route.vps) \in Nat /\ Len(route.vps) >= 1
           /\ DOMAIN route.vps = 1 .. Len(route.vps)
           /\ \A i \in 1 .. Len(route.vps) :
                /\ route.vps[i] \in Node
                /\ route.wts[i] \in Int
                /\ route.tts[i] \in Nat
                /\ route.arr_and_depar_time[i] \in TimeWindow
<1>1. /\ route.vps \in Seq(Node) /\ route.wts \in Seq(Int) /\ route.tts \in Seq(Nat)
      /\ route.arr_and_depar_time \in Seq(TimeWindow)
      /\ Len(route.vps) >= 1
      /\ Len(route.wts) = Len(route.vps) /\ Len(route.tts) = Len(route.vps)
      /\ Len(route.arr_and_depar_time) = Len(route.vps)
  BY DEF Route, Planned
<1> QED
  BY <1>1

--------------------------------------------------------------------------------
(* Arrival times. *)

\* A running sum from a on, by the steps d.
LEMMA SumExists ==
    ASSUME NEW N \in Nat, NEW a \in Int, NEW d \in [1 .. N -> Int]
    PROVE  \E f \in [1 .. N -> Int] :
              f = [j \in 1 .. N |-> IF j = 1 THEN a ELSE f[j - 1] + d[j - 1]]
<1> DEFINE Solves(m, f) == \A j \in 1 .. m : f[j] = IF j = 1 THEN a ELSE f[j - 1] + d[j - 1]
           T == {m \in 0 .. N : \E f \in [1 .. m -> Int] : Solves(m, f)}
<1>1. 0 \in T
  <2>1. [j \in 1 .. 0 |-> a] \in [1 .. 0 -> Int] /\ Solves(0, [j \in 1 .. 0 |-> a])
    OBVIOUS
  <2>2. 0 \in 0 .. N
    OBVIOUS
  <2> HIDE DEF Solves
  <2>3. \E f \in [1 .. 0 -> Int] : Solves(0, f)
    BY <2>1
  <2> QED
    BY <2>2, <2>3
<1>2. ASSUME NEW m \in 0 .. N - 1, m \in T PROVE m + 1 \in T
  <2>1. PICK f \in [1 .. m -> Int] : Solves(m, f)
    BY <1>2
  <2> DEFINE g == [j \in 1 .. m + 1 |->
                      IF j <= m THEN f[j] ELSE IF m = 0 THEN a ELSE f[m] + d[m]]
  <2>2. m # 0 => m \in 1 .. m /\ f[m] \in Int /\ d[m] \in Int
    OBVIOUS
  <2>3. g \in [1 .. m + 1 -> Int]
    BY <2>2
  <2>4. ASSUME NEW j \in 1 .. m + 1
        PROVE  g[j] = IF j = 1 THEN a ELSE g[j - 1] + d[j - 1]
    <3>1. CASE j <= m
      BY <2>1, <3>1
    <3>2. CASE j = m + 1
      BY <3>2
    <3> QED
      BY <3>1, <3>2
  <2>5. Solves(m + 1, g)
    BY <2>4
  <2> HIDE DEF g, Solves
  <2> QED
    BY <2>3, <2>5
<1>3. N \in T
  <2> HIDE DEF T
  <2>1. \A m \in 0 .. N : m \in T
    BY <1>1, <1>2, FiniteInduction
  <2> QED
    BY <2>1
<1>4. PICK f \in [1 .. N -> Int] : Solves(N, f)
  BY <1>3
<1>5. f = [j \in 1 .. N |-> IF j = 1 THEN a ELSE f[j - 1] + d[j - 1]]
  BY <1>4
<1> QED
  BY <1>5

\* Arrival times are numbers, the first as planned, and each later one by the
\* travel and the waiting before it.
LEMMA ArrivalTimes ==
    ASSUME NEW route \in Route
    PROVE  /\ ArrivalTime(route, 1) = route.arr_and_depar_time[1].first
           /\ \A i \in 1 .. Len(route.vps) :
                /\ ArrivalTime(route, i) \in Int
                /\ i > 1 => ArrivalTime(route, i) =
                              ArrivalTime(route, i - 1) + route.tts[i - 1] + route.wts[i - 1]
<1> DEFINE N == Len(route.vps)
           a == route.arr_and_depar_time[1].first
           d == [j \in 1 .. N |-> route.tts[j] + route.wts[j]]
           F == CHOOSE f : f = [j \in DOMAIN route.vps |->
                                  IF j = 1 THEN a
                                  ELSE f[j - 1] + route.tts[j - 1] + route.wts[j - 1]]
<1>1. /\ N \in Nat /\ N >= 1 /\ DOMAIN route.vps = 1 .. N
      /\ \A j \in 1 .. N : route.wts[j] \in Int /\ route.tts[j] \in Nat
      /\ a \in Int
  BY RouteParts DEF TimeWindow, Instant
<1>2. d \in [1 .. N -> Int]
  BY <1>1
<1>3. \E f : f = [j \in DOMAIN route.vps |->
                    IF j = 1 THEN a ELSE f[j - 1] + route.tts[j - 1] + route.wts[j - 1]]
  <2> HIDE DEF N, a, d
  <2>1. PICK f \in [1 .. N -> Int] :
            f = [j \in 1 .. N |-> IF j = 1 THEN a ELSE f[j - 1] + d[j - 1]]
    BY <1>1, <1>2, SumExists
  <2>2. \A j \in 1 .. N : j # 1 => f[j - 1] + d[j - 1] = f[j - 1] + route.tts[j - 1] + route.wts[j - 1]
    <3> SUFFICES ASSUME NEW j \in 1 .. N, j # 1
                 PROVE  f[j - 1] + d[j - 1] = f[j - 1] + route.tts[j - 1] + route.wts[j - 1]
      OBVIOUS
    <3>1. j - 1 \in 1 .. N
      BY <1>1
    <3>2. d[j - 1] = route.tts[j - 1] + route.wts[j - 1]
      BY <3>1 DEF d
    <3> QED
      BY <1>1, <3>1, <3>2
  <2>3. f = [j \in DOMAIN route.vps |->
               IF j = 1 THEN a ELSE f[j - 1] + route.tts[j - 1] + route.wts[j - 1]]
    BY <1>1, <2>1, <2>2
  <2> QED
    BY <2>3
<1>4. F = [j \in DOMAIN route.vps |->
             IF j = 1 THEN a ELSE F[j - 1] + route.tts[j - 1] + route.wts[j - 1]]
  BY <1>3
<1>5. \A i \in 1 .. N : ArrivalTime(route, i) = F[i]
  BY DEF ArrivalTime
<1> HIDE DEF F, a, N
<1>6. \A i \in 1 .. N : F[i] = IF i = 1 THEN a ELSE F[i - 1] + route.tts[i - 1] + route.wts[i - 1]
  BY <1>1, <1>4
<1>7. \A i \in 1 .. N : F[i] \in Int
  <2> DEFINE T == {m \in 0 .. N : m = 0 \/ F[m] \in Int}
  <2>1. 0 \in T
    BY <1>1
  <2>2. ASSUME NEW m \in 0 .. N - 1, m \in T PROVE m + 1 \in T
    <3>1. m + 1 \in 1 .. N
      BY <1>1
    <3>2. CASE m = 0
      BY <3>1, <3>2, <1>1, <1>6
    <3>3. CASE m # 0
      <4>1. m \in 1 .. N /\ m + 1 - 1 = m /\ F[m] \in Int
        BY <3>3, <2>2, <1>1
      <4>2. F[m + 1] = F[m] + route.tts[m] + route.wts[m]
        BY <3>1, <3>3, <4>1, <1>6
      <4> QED
        BY <3>1, <4>1, <4>2, <1>1
    <3> QED
      BY <3>2, <3>3
  <2> HIDE DEF T
  <2>3. \A m \in 0 .. N : m \in T
    BY <1>1, <2>1, <2>2, FiniteInduction
  <2> QED
    BY <2>3 DEF T
<1>8. \A i \in 1 .. N : i > 1 => ArrivalTime(route, i) =
          ArrivalTime(route, i - 1) + route.tts[i - 1] + route.wts[i - 1]
  <2> SUFFICES ASSUME NEW i \in 1 .. N, i > 1
               PROVE  ArrivalTime(route, i) =
                        ArrivalTime(route, i - 1) + route.tts[i - 1] + route.wts[i - 1]
    OBVIOUS
  <2>1. i - 1 \in 1 .. N /\ i # 1
    BY <1>1
  <2> QED
    BY <2>1, <1>5, <1>6
<1>9. ArrivalTime(route, 1) = a
  BY <1>1, <1>5, <1>6
<1> QED
  BY <1>5, <1>7, <1>8, <1>9 DEF N, a

--------------------------------------------------------------------------------
(* What a route locks. *)

\* What a route locks at a node is a list of windows.
LEMMA LockedByType ==
    ASSUME NEW route \in Route, NEW n
    PROVE  LockedBy(route, n) \in Seq(TimeWindow)
<1> DEFINE windows == [i \in DOMAIN route.vps |->
                          [first |-> ArrivalTime(route, i), second |-> LockEnd(route, i)]]
           K == {i \in DOMAIN route.vps : n \in Range(lock_node_list[route.vps[i]])}
<1>1. Len(route.vps) \in Nat /\ DOMAIN route.vps = 1 .. Len(route.vps)
  BY RouteParts
<1>2. \A i \in 1 .. Len(route.vps) : ArrivalTime(route, i) \in Int /\ LockEnd(route, i) \in Int
  BY ArrivalTimes, RouteParts, InfAssumption DEF LockEnd, LockTail
<1>3. windows \in [1 .. Len(route.vps) -> TimeWindow]
  BY <1>1, <1>2 DEF TimeWindow, Instant
<1>4. windows \in Seq(TimeWindow) /\ K \in SUBSET DOMAIN windows
  BY <1>1, <1>3
<1>5. LockedBy(route, n) = Subsequence(windows, K)
  BY DEF LockedBy
<1> HIDE DEF windows, K
<1> QED
  BY <1>4, <1>5, SubsequenceType

\* Each node of the lock area of place i has a window for it in what the route
\* locks.
LEMMA LockedByHas ==
    ASSUME NEW route \in Route, NEW i \in DOMAIN route.vps, NEW n,
           n \in Range(lock_node_list[route.vps[i]])
    PROVE  \E j \in DOMAIN LockedBy(route, n) :
              /\ LockedBy(route, n)[j].first = ArrivalTime(route, i)
              /\ LockedBy(route, n)[j].second = LockEnd(route, i)
<1> DEFINE windows == [m \in DOMAIN route.vps |->
                          [first |-> ArrivalTime(route, m), second |-> LockEnd(route, m)]]
           K == {m \in DOMAIN route.vps : n \in Range(lock_node_list[route.vps[m]])}
<1>1. Len(route.vps) \in Nat /\ DOMAIN route.vps = 1 .. Len(route.vps)
  BY RouteParts
<1>2. K \in SUBSET Int /\ IsFiniteSet(K)
  <2>1. K \subseteq 1 .. Len(route.vps)
    BY <1>1
  <2>2. IsFiniteSet(1 .. Len(route.vps)) /\ \A m \in 1 .. Len(route.vps) : m \in Int
    BY <1>1, FS_Interval
  <2> HIDE DEF K
  <2> QED
    BY <2>1, <2>2, FS_Subset
<1>3. i \in K
  OBVIOUS
<1>4. LockedBy(route, n) = Subsequence(windows, K)
  BY DEF LockedBy
<1>5. windows[i].first = ArrivalTime(route, i) /\ windows[i].second = LockEnd(route, i)
  OBVIOUS
<1> HIDE DEF windows, K
<1>6. \E j \in DOMAIN Subsequence(windows, K) : Subsequence(windows, K)[j] = windows[i]
  BY <1>2, <1>3, SubsequenceHas
<1> QED
  BY <1>4, <1>5, <1>6

\* LockTimeWindow and the reduction leave a list of windows at each node.
LEMMA LockedAndReducedType ==
    ASSUME node_locked_time_window \in [Node -> Seq(TimeWindow)], NEW route \in Route
    PROVE  LockedAndReduced(route) \in [Node -> Seq(TimeWindow)]
<1>1. \A n \in Node : node_locked_time_window[n] \o LockedBy(route, n) \in Seq(TimeWindow)
  BY LockedByType
<1> QED
  BY <1>1, ReductionType DEF LockedAndReduced

\* The table holds the lock area of route.
Held(table, route) ==
    \A i \in DOMAIN route.vps : \A n \in Range(lock_node_list[route.vps[i]]) :
        \E w \in Range(table[n]) :
            /\ w.first <= ArrivalTime(route, i)
            /\ LockEnd(route, i) <= w.second

\* Locking a route holds it, and keeps what is held.
LEMMA LockedAndReducedHeld ==
    ASSUME node_locked_time_window \in [Node -> Seq(TimeWindow)],
           NEW route \in Route, NEW other \in Route,
           other = route \/ Held(node_locked_time_window, other)
    PROVE  Held(LockedAndReduced(route), other)
<1> SUFFICES ASSUME NEW i \in DOMAIN other.vps,
                    NEW n \in Range(lock_node_list[other.vps[i]])
             PROVE  \E w \in Range(LockedAndReduced(route)[n]) :
                       /\ w.first <= ArrivalTime(other, i)
                       /\ LockEnd(other, i) <= w.second
  BY DEF Held
<1> DEFINE old == node_locked_time_window[n]
           new == LockedBy(route, n)
           both == old \o new
           reduced == TimeWindowReduction4NodeHelper(both)
<1>1. /\ other.vps[i] \in Node
      /\ ArrivalTime(other, i) \in Int /\ LockEnd(other, i) \in Int
  <2>1. i \in 1 .. Len(other.vps)
    BY RouteParts
  <2>2. other.vps[i] \in Node /\ other.wts[i] \in Int
    BY <2>1, RouteParts
  <2>3. ArrivalTime(other, i) \in Int
    BY <2>1, ArrivalTimes
  <2> QED
    BY <2>2, <2>3, InfAssumption DEF LockEnd, LockTail
<1>2. n \in Node
  <2>1. lock_node_list[other.vps[i]] \in Seq(Node)
    BY <1>1, MapAssumption
  <2> QED
    BY <2>1 DEF Range
<1>3. /\ old \in Seq(TimeWindow) /\ new \in Seq(TimeWindow) /\ both \in Seq(TimeWindow)
      /\ reduced \in Seq(TimeWindow) /\ LockedAndReduced(route)[n] = reduced
  <2>1. old \in Seq(TimeWindow) /\ new \in Seq(TimeWindow)
    BY <1>2, LockedByType
  <2>2. LockedAndReduced(route)[n] = reduced
    BY <1>2 DEF LockedAndReduced
  <2> HIDE DEF old, new
  <2>3. both \in Seq(TimeWindow)
    BY <2>1
  <2> HIDE DEF both
  <2>4. reduced \in Seq(TimeWindow)
    BY <2>3, ReductionType
  <2> HIDE DEF reduced
  <2> QED
    BY <2>1, <2>2, <2>3, <2>4
<1>4. \E j \in DOMAIN both : both[j].first <= ArrivalTime(other, i)
                            /\ LockEnd(other, i) <= both[j].second
  <2>1. CASE other = route
    <3>0. i \in DOMAIN route.vps /\ n \in Range(lock_node_list[route.vps[i]])
      BY <2>1
    <3> HIDE DEF reduced, both, old
    <3>1. PICK j \in DOMAIN new : /\ new[j].first = ArrivalTime(route, i)
                                  /\ new[j].second = LockEnd(route, i)
      BY <3>0, LockedByHas
    <3> HIDE DEF old, new
    <3>2. Len(old) + j \in DOMAIN both /\ both[Len(old) + j] = new[j]
      BY <1>3 DEF both
    <3>3. new[j].first <= ArrivalTime(other, i) /\ LockEnd(other, i) <= new[j].second
      BY <1>1, <2>1, <3>1
    <3> HIDE DEF both
    <3> QED
      BY <3>2, <3>3
  <2>2. CASE Held(node_locked_time_window, other)
    <3>1. PICK w \in Range(old) : w.first <= ArrivalTime(other, i)
                                 /\ LockEnd(other, i) <= w.second
      BY <2>2 DEF Held
    <3> HIDE DEF old, new
    <3>2. PICK j \in DOMAIN old : old[j] = w
      BY DEF Range
    <3>3. j \in DOMAIN both /\ both[j] = old[j]
      BY <1>3
    <3> QED
      BY <3>1, <3>2, <3>3
  <2> QED
    BY <2>1, <2>2
<1> HIDE DEF both, old, new
<1>5. PICK j \in DOMAIN both : both[j].first <= ArrivalTime(other, i)
                             /\ LockEnd(other, i) <= both[j].second
  BY <1>4
<1>6. PICK r \in DOMAIN reduced : reduced[r].first <= both[j].first
                                /\ both[j].second <= reduced[r].second
  BY <1>3, ReductionCovers
<1> HIDE DEF reduced
<1>7. /\ both[j].first \in Int /\ both[j].second \in Int
      /\ reduced[r].first \in Int /\ reduced[r].second \in Int
  <2>1. both[j] \in TimeWindow /\ reduced[r] \in TimeWindow
    BY <1>3
  <2> QED
    BY <2>1, WindowParts
<1>8. reduced[r].first <= ArrivalTime(other, i) /\ LockEnd(other, i) <= reduced[r].second
  BY <1>1, <1>5, <1>6, <1>7
<1> QED
  BY <1>3, <1>8 DEF Range

--------------------------------------------------------------------------------
(* When a node is legal. *)

\* Every window of v lies in a window of w.
Inside(v, w) ==
    \A i \in DOMAIN v : \E j \in DOMAIN w :
        w[j].first <= v[i].first /\ v[i].second <= w[j].second

\* A list lies within itself.
LEMMA InsideReflexive == ASSUME NEW w \in Seq(TimeWindow) PROVE Inside(w, w)
<1> SUFFICES ASSUME NEW i \in DOMAIN w
             PROVE  w[i].first <= w[i].first /\ w[i].second <= w[i].second
  BY DEF Inside
<1>1. w[i].first \in Int /\ w[i].second \in Int
  BY WindowParts
<1> QED
  BY <1>1

\* A list within a list within a third lies within the third.
LEMMA InsideTransitive ==
    ASSUME NEW u \in Seq(TimeWindow), NEW v \in Seq(TimeWindow), NEW w \in Seq(TimeWindow),
           Inside(u, v), Inside(v, w)
    PROVE  Inside(u, w)
<1> SUFFICES ASSUME NEW i \in DOMAIN u
             PROVE  \E j \in DOMAIN w : w[j].first <= u[i].first /\ u[i].second <= w[j].second
  BY DEF Inside
<1>1. PICK m \in DOMAIN v : v[m].first <= u[i].first /\ u[i].second <= v[m].second
  BY DEF Inside
<1>2. PICK j \in DOMAIN w : w[j].first <= v[m].first /\ v[m].second <= w[j].second
  BY DEF Inside
<1>3. u[i] \in TimeWindow /\ v[m] \in TimeWindow /\ w[j] \in TimeWindow
  OBVIOUS
<1>4. /\ u[i].first \in Int /\ v[m].first \in Int /\ w[j].first \in Int
      /\ u[i].second \in Int /\ v[m].second \in Int /\ w[j].second \in Int
  BY <1>3, WindowParts
<1>5. w[j].first <= u[i].first /\ u[i].second <= w[j].second
  BY <1>1, <1>2, <1>4
<1> QED
  BY <1>5

\* Merging two lists gives windows within each of them.
LEMMA MergeInside ==
    ASSUME NEW v \in Seq(TimeWindow), NEW w \in Seq(TimeWindow)
    PROVE  /\ merge_feasible_arrtime(v, w) \in Seq(TimeWindow)
           /\ Inside(merge_feasible_arrtime(v, w), v)
           /\ Inside(merge_feasible_arrtime(v, w), w)
  BY MergeElements DEF Inside

\* What holds of the legal windows of a node, and is kept by merging with those
\* of its lock nodes, holds of its legal area.
LEMMA LegalAreaElement ==
    ASSUME NEW n \in Node, NEW S,
           getLegalInterVals4Node(node_locked_time_window[n]) \in S,
           \A w \in S : \A j \in DOMAIN lock_node_list[n] :
               merge_feasible_arrtime(
                   w, getLegalInterVals4Node(node_locked_time_window[lock_node_list[n][j]])) \in S
    PROVE  LegalArea(n) \in S
<1> DEFINE lock_nodes == lock_node_list[n]
           N == Len(lock_nodes)
           a == getLegalInterVals4Node(node_locked_time_window[n])
           g(j) == getLegalInterVals4Node(node_locked_time_window[lock_nodes[j]])
           F == CHOOSE legal : legal = [j \in 0 .. Len(lock_nodes) |->
                    IF j = 0 THEN a ELSE merge_feasible_arrtime(legal[j - 1], g(j))]
<1>1. N \in Nat /\ DOMAIN lock_nodes = 1 .. N
  <2>1. lock_nodes \in Seq(Node)
    BY MapAssumption
  <2> QED
    BY <2>1
<1>2. LegalArea(n) = F[N]
  BY DEF LegalArea
<1>3. a \in S
  OBVIOUS
<1>4. ASSUME NEW w \in S, NEW j \in 1 .. N PROVE merge_feasible_arrtime(w, g(j)) \in S
  BY <1>1
<1> HIDE DEF N, a, g
<1>5. \E legal : legal = [j \in 0 .. N |->
                    IF j = 0 THEN a ELSE merge_feasible_arrtime(legal[j - 1], g(j))]
  <2> DEFINE Solves(m, f) == \A j \in 0 .. m :
                 f[j] = IF j = 0 THEN a ELSE merge_feasible_arrtime(f[j - 1], g(j))
             T == {m \in 0 .. N : \E f \in [0 .. m -> S] : Solves(m, f)}
  <2>1. 0 \in T
    <3>1. [j \in 0 .. 0 |-> a] \in [0 .. 0 -> S] /\ Solves(0, [j \in 0 .. 0 |-> a])
      BY <1>3
    <3>2. 0 \in 0 .. N
      BY <1>1
    <3> HIDE DEF Solves
    <3>3. \E f \in [0 .. 0 -> S] : Solves(0, f)
      BY <3>1
    <3> QED
      BY <3>2, <3>3
  <2>2. ASSUME NEW m \in 0 .. N - 1, m \in T PROVE m + 1 \in T
    <3>1. PICK f \in [0 .. m -> S] : Solves(m, f)
      BY <2>2
    <3> DEFINE h == [j \in 0 .. m + 1 |->
                        IF j <= m THEN f[j] ELSE merge_feasible_arrtime(f[m], g(m + 1))]
    <3>2. m \in 0 .. m /\ f[m] \in S /\ m + 1 \in 1 .. N
      BY <1>1
    <3>3. merge_feasible_arrtime(f[m], g(m + 1)) \in S
      BY <3>2, <1>4
    <3>4. h \in [0 .. m + 1 -> S]
      BY <3>3
    <3>5. ASSUME NEW j \in 0 .. m + 1
          PROVE  h[j] = IF j = 0 THEN a ELSE merge_feasible_arrtime(h[j - 1], g(j))
      <4>1. CASE j <= m
        <5>1. h[j] = f[j] /\ (j # 0 => h[j - 1] = f[j - 1])
          BY <4>1
        <5> QED
          BY <3>1, <4>1, <5>1
      <4>2. CASE j = m + 1
        <5>1. j # 0 /\ j - 1 = m /\ h[m] = f[m]
              /\ h[j] = merge_feasible_arrtime(f[m], g(m + 1))
          BY <4>2
        <5> QED
          BY <4>2, <5>1
      <4> QED
        BY <4>1, <4>2
    <3>6. Solves(m + 1, h)
      BY <3>5
    <3> HIDE DEF h, Solves
    <3>7. m + 1 \in 0 .. N
      BY <3>2
    <3> QED
      BY <3>4, <3>6, <3>7
  <2> HIDE DEF T
  <2>3. \A m \in 0 .. N : m \in T
    BY <1>1, <2>1, <2>2, FiniteInduction
  <2>4. N \in T
    BY <1>1, <2>3
  <2>5. PICK f \in [0 .. N -> S] : Solves(N, f)
    BY <2>4 DEF T
  <2>6. f = [j \in 0 .. N |-> IF j = 0 THEN a ELSE merge_feasible_arrtime(f[j - 1], g(j))]
    BY <2>5
  <2> QED
    BY <2>6
<1>6. F = [j \in 0 .. N |-> IF j = 0 THEN a ELSE merge_feasible_arrtime(F[j - 1], g(j))]
  BY <1>5 DEF N
<1> HIDE DEF F
<1>7. \A j \in 0 .. N : F[j] = IF j = 0 THEN a ELSE merge_feasible_arrtime(F[j - 1], g(j))
  BY <1>6
<1>8. F[N] \in S
  <2> DEFINE T == {m \in 0 .. N : F[m] \in S}
  <2>1. 0 \in T
    BY <1>1, <1>3, <1>7
  <2>2. ASSUME NEW m \in 0 .. N - 1, m \in T PROVE m + 1 \in T
    <3>1. m + 1 \in 1 .. N /\ m + 1 \in 0 .. N /\ m + 1 - 1 = m /\ m + 1 # 0
      BY <1>1
    <3>2. F[m + 1] = merge_feasible_arrtime(F[m], g(m + 1))
      BY <3>1, <1>7
    <3> QED
      BY <2>2, <3>1, <3>2, <1>4
  <2> HIDE DEF T
  <2>3. \A m \in 0 .. N : m \in T
    BY <1>1, <2>1, <2>2, FiniteInduction
  <2> QED
    BY <1>1, <2>3 DEF T
<1> QED
  BY <1>2, <1>8

\* The legal windows of a node with its lock nodes are windows, and lie in the
\* legal windows of the node itself.
LEMMA LegalAreaInside ==
    ASSUME node_locked_time_window \in [Node -> Seq(TimeWindow)], NEW n \in Node
    PROVE  /\ LegalArea(n) \in Seq(TimeWindow)
           /\ Inside(LegalArea(n), getLegalInterVals4Node(node_locked_time_window[n]))
<1> DEFINE legal(m) == getLegalInterVals4Node(node_locked_time_window[m])
           S == {w \in Seq(TimeWindow) : Inside(w, legal(n))}
<1>1. \A m \in Node : legal(m) \in Seq(TimeWindow)
  BY LegalType
<1>2. \A j \in DOMAIN lock_node_list[n] : lock_node_list[n][j] \in Node
  <2>1. lock_node_list[n] \in Seq(Node)
    BY MapAssumption
  <2> QED
    BY <2>1
<1>3. legal(n) \in S
  BY <1>1, InsideReflexive
<1>4. \A w \in S : \A j \in DOMAIN lock_node_list[n] :
         merge_feasible_arrtime(w, legal(lock_node_list[n][j])) \in S
  <2> HIDE DEF legal
  <2> QED
    BY <1>1, <1>2, MergeInside, InsideTransitive
<1> HIDE DEF S
<1>5. LegalArea(n) \in S
  BY <1>3, <1>4, LegalAreaElement
<1> QED
  BY <1>5 DEF S

\* When the locks of every node are separated, a legal area is in order.
LEMMA LegalAreaSequential ==
    ASSUME node_locked_time_window \in [Node -> Seq(TimeWindow)], NEW n \in Node,
           \A m \in Node : /\ Separated(node_locked_time_window[m])
                          /\ WellFormed(node_locked_time_window[m])
    PROVE  Sequential(LegalArea(n))
<1> DEFINE legal(m) == getLegalInterVals4Node(node_locked_time_window[m])
           S == {w \in Seq(TimeWindow) : Sequential(w)}
<1>1. \A m \in Node : legal(m) \in Seq(TimeWindow) /\ Sequential(legal(m))
  BY LegalType, LegalOfSeparated
<1>2. \A j \in DOMAIN lock_node_list[n] : lock_node_list[n][j] \in Node
  <2>1. lock_node_list[n] \in Seq(Node)
    BY MapAssumption
  <2> QED
    BY <2>1
<1>3. \A w \in S : \A j \in DOMAIN lock_node_list[n] :
         merge_feasible_arrtime(w, legal(lock_node_list[n][j])) \in S
  <2> HIDE DEF legal
  <2> QED
    BY <1>1, <1>2, MergeInside, MergeSequential
<1>4. legal(n) \in S
  BY <1>1
<1> HIDE DEF S
<1>5. LegalArea(n) \in S
  BY <1>3, <1>4, LegalAreaElement
<1> QED
  BY <1>5 DEF S

--------------------------------------------------------------------------------
(* The windows of the search. *)

\* Arrival windows are the parent's, later by the travel time: still windows.
LEMMA ShiftedWindowsType ==
    ASSUME NEW w \in Seq(TimeWindow), NEW tt \in Int
    PROVE  /\ ShiftedWindows(w, tt) \in Seq(TimeWindow)
           /\ DOMAIN ShiftedWindows(w, tt) = DOMAIN w
           /\ \A j \in DOMAIN w :
                /\ ShiftedWindows(w, tt)[j].first = w[j].first + tt
                /\ w[j].second # INF => ShiftedWindows(w, tt)[j].second = w[j].second + tt
<1>1. /\ Len(w) \in Nat /\ DOMAIN w = 1 .. Len(w)
      /\ \A j \in 1 .. Len(w) : w[j].first \in Int /\ w[j].second \in Int
  BY WindowParts
<1>2. /\ DOMAIN ShiftedWindows(w, tt) = 1 .. Len(w)
      /\ \A j \in 1 .. Len(w) :
           /\ ShiftedWindows(w, tt)[j].first = w[j].first + tt
           /\ w[j].second # INF => ShiftedWindows(w, tt)[j].second = w[j].second + tt
  BY <1>1 DEF ShiftedWindows
<1>3. ShiftedWindows(w, tt) \in [1 .. Len(w) -> TimeWindow]
  BY <1>1, InfAssumption DEF ShiftedWindows, TimeWindow, Instant
<1>4. ShiftedWindows(w, tt) \in Seq(TimeWindow)
  BY <1>1, <1>3
<1> QED
  BY <1>1, <1>2, <1>4

\* What is legal for an arrival is legal for the node.
LEMMA ArrivalLegalInside ==
    ASSUME node_locked_time_window \in [Node -> Seq(TimeWindow)],
           NEW from \in Node, NEW to \in Node, NEW tt
    PROVE  /\ ArrivalLegal(from, to, tt) \in Seq(TimeWindow)
           /\ Inside(ArrivalLegal(from, to, tt),
                     getLegalInterVals4Node(node_locked_time_window[to]))
<1> DEFINE own == getLegalInterVals4Node(node_locked_time_window[to])
<1>1. own \in Seq(TimeWindow)
  BY LegalType
<1> HIDE DEF own
<1>2. /\ LegalArea(from) \in Seq(TimeWindow)
      /\ LegalArea(to) \in Seq(TimeWindow) /\ Inside(LegalArea(to), own)
  BY LegalAreaInside DEF own
<1>3. /\ merge_feasible_arrtime(LegalArea(from), LegalArea(to)) \in Seq(TimeWindow)
      /\ Inside(merge_feasible_arrtime(LegalArea(from), LegalArea(to)), own)
  BY <1>1, <1>2, MergeInside, InsideTransitive
<1> QED
  BY <1>2, <1>3 DEF ArrivalLegal, own

\* The distance of two nodes is a natural number.
LEMMA ManhattanType ==
    ASSUME NEW n \in Node, NEW m \in Node
    PROVE  getManhatenDistance(n, m) \in Int
<1>1. /\ node_list[n].x \in Int /\ node_list[n].y \in Int
      /\ node_list[m].x \in Int /\ node_list[m].y \in Int
  BY MapAssumption
<1> QED
  BY <1>1 DEF getManhatenDistance

--------------------------------------------------------------------------------

Searching == pc \in {"search", "expand", "trace", "chain"}

CallRecord == [robot_numbers : Seq(Robot), from_ids : Seq(Node), to_ids : Seq(Node),
               start_working_time : Nat]

(* Routes have a wait, a travel time and a window for each point. *)
RoutesOK ==
    /\ robot_route \in [Robot -> Route]
    /\ robot_position \in [Robot -> Node]
    /\ result \in Seq(Route)

(* Every robot of the call has a start and a target, and a call is under way
   while the routes of some of its robots are missing. *)
CallOK ==
    /\ pc \in {"ready", "getRobotPositions", "initLockArea", "start", "search", "expand",
               "trace", "chain", "done"}
    /\ call \in CallRecord
    /\ Len(call.from_ids) = Len(call.robot_numbers)
    /\ Len(call.to_ids) = Len(call.robot_numbers)
    /\ pc \in {"getRobotPositions", "initLockArea"} =>
          result = <<>> /\ Len(call.robot_numbers) >= 1
    /\ pc = "start" \/ Searching => Len(result) < Len(call.robot_numbers)
    /\ pc = "done" => Len(result) = Len(call.robot_numbers)

LocksOK ==
    /\ needToInit \subseteq Robot
    /\ node_locked_time_window \in [Node -> Seq(TimeWindow)]

SearchOK ==
    /\ tree \in Seq(SearchNode)
    /\ openList \subseteq DOMAIN tree
    /\ openListSet \subseteq Node
    /\ parent_node \in 0 .. Len(tree)
    /\ pc = "expand" => parent_node # 0
    /\ neighbour \in Nat
    /\ ~ Searching => tree = <<>>
    /\ SearchTreeSound

(* The path is there before its windows are chosen, and a window that has been
   chosen is one of its node. *)
PathOK ==
    /\ iter \in 0 .. Len(tree)
    /\ nodeVec \in Seq(DOMAIN tree)
    /\ pc = "trace" => iter # 0 \/ nodeVec # <<>>
    /\ pc = "chain" => nodeVec # <<>>
    /\ candidate \in Nat
    /\ myList \in Seq(Nat)
    /\ Len(myList) <= Len(nodeVec)
    /\ \A d \in DOMAIN myList : myList[d] \in DOMAIN Windows(d)
    /\ pc \in {"search", "expand"} => nodeVec = <<>> /\ myList = <<>>
    /\ pc = "trace" => myList = <<>>

(* While the planner reads the positions, some are still to be read; then it has
   all of them. *)
PositionsOK ==
    /\ robot_positions \in Seq(Node)
    /\ Len(robot_positions) <= robot_number
    /\ pc = "getRobotPositions" => Len(robot_positions) < robot_number
    /\ pc \notin {"ready", "getRobotPositions"} => robot_positions \in [Robot -> Node]

LMapInv == RoutesOK /\ PositionsOK /\ CallOK /\ LocksOK /\ SearchOK /\ PathOK

\* The invariant says more than the types.
LEMMA LMapInvTypes == LMapInv => LMapTypeOK
<1> SUFFICES ASSUME LMapInv PROVE LMapTypeOK
  OBVIOUS
<1>1. /\ robot_route \in [Robot -> Planned]
      /\ robot_position \in [Robot -> Node]
      /\ robot_positions \in Seq(Node) /\ Len(robot_positions) <= robot_number
  BY DEF LMapInv, RoutesOK, PositionsOK, Route
<1>2. result \in Seq(Planned)
  <2>1. result \in Seq(Route) /\ \A j \in DOMAIN result : result[j] \in Planned
    BY DEF LMapInv, RoutesOK, Route
  <2> QED
    BY <2>1
<1>3. /\ pc \in {"ready", "getRobotPositions", "initLockArea", "start", "search", "expand",
                 "trace", "chain", "done"}
      /\ call.robot_numbers \in Seq(Robot) /\ call.from_ids \in Seq(Node)
      /\ call.to_ids \in Seq(Node) /\ call.start_working_time \in Nat
  BY DEF LMapInv, CallOK, CallRecord
<1> QED
  BY <1>1, <1>2, <1>3 DEF LMapInv, LocksOK, SearchOK, PathOK, LMapTypeOK

--------------------------------------------------------------------------------
(* Between searches. *)

\* Nothing of a search is left.
LEMMA NoSearchOK ==
    ASSUME CallOK', ~ Searching', EndSearch
    PROVE  SearchOK' /\ PathOK'
<1>1. /\ tree' = <<>> /\ openList' = {} /\ openListSet' = {} /\ parent_node' = 0
      /\ neighbour' = 1 /\ iter' = 0 /\ nodeVec' = <<>> /\ myList' = <<>> /\ candidate' = 1
  BY DEF EndSearch
<1>2. Len(<<>>) = 0 /\ DOMAIN <<>> = {} /\ \A S : <<>> \in Seq(S)
  OBVIOUS
<1>3. SearchTreeSound'
  BY <1>1, <1>2 DEF SearchTreeSound
<1>4. SearchOK'
  BY <1>1, <1>2, <1>3 DEF SearchOK, Searching
<1>5. PathOK'
  BY <1>1, <1>2 DEF PathOK, Searching
<1> QED
  BY <1>4, <1>5

\* A step that leaves the search alone and stays outside it.
LEMMA SearchKept ==
    ASSUME SearchOK, PathOK, ~ Searching, ~ Searching',
           UNCHANGED <<searchVars, pathVars>>
    PROVE  SearchOK' /\ PathOK'
<1>1. /\ tree' = tree /\ openList' = openList /\ openListSet' = openListSet
      /\ parent_node' = parent_node /\ neighbour' = neighbour /\ iter' = iter
      /\ nodeVec' = nodeVec /\ myList' = myList /\ candidate' = candidate
  BY DEF searchVars, pathVars
<1>2. SearchOK'
  BY <1>1 DEF SearchOK, SearchTreeSound, Searching
<1>3. PathOK'
  BY <1>1 DEF PathOK, Windows, Searching
<1> QED
  BY <1>2, <1>3

\* A call begins: one start and one target for each robot of the call.
LEMMA serveInv ==
    ASSUME LMapInv,
           NEW robot_numbers \in Seq(Robot), NEW from_ids \in Seq(Node), NEW to_ids \in Seq(Node),
           NEW start_working_time \in Nat,
           Len(robot_numbers) >= 1,
           Len(from_ids) = Len(robot_numbers), Len(to_ids) = Len(robot_numbers),
           serve(robot_numbers, from_ids, to_ids, start_working_time),
           robot_position' \in [Robot -> Node]
    PROVE  LMapInv'
<1>1. /\ pc = "ready" /\ pc' = "getRobotPositions"
      /\ call' = [robot_numbers |-> robot_numbers, from_ids |-> from_ids,
                  to_ids |-> to_ids, start_working_time |-> start_working_time]
      /\ node_locked_time_window' = [n \in Node |-> <<>>]
      /\ needToInit' = Robot \ Range(robot_numbers)
      /\ robot_positions' = <<>> /\ result' = <<>>
      /\ robot_route' = robot_route /\ UNCHANGED <<searchVars, pathVars>>
  BY DEF serve
<1>2. RoutesOK'
  BY <1>1 DEF LMapInv, RoutesOK
<1>3. CallOK'
  BY <1>1 DEF CallOK, CallRecord, Searching
<1>4. LocksOK'
  BY <1>1 DEF LocksOK
<1>5. SearchOK' /\ PathOK'
  BY <1>1, SearchKept DEF LMapInv, Searching
<1>6. PositionsOK'
  BY <1>1, RobotAssumption DEF PositionsOK
<1> QED
  BY <1>2, <1>3, <1>4, <1>5, <1>6 DEF LMapInv

\* A call is over, and its caller may have stored the routes.
LEMMA returnedInv ==
    ASSUME LMapInv, pc = "done", returned,
           robot_route' \in [Robot -> Route], robot_position' \in [Robot -> Node]
    PROVE  LMapInv'
<1>1. /\ pc' = "ready" /\ call' = NoCall /\ result' = <<>>
      /\ robot_positions' = robot_positions /\ needToInit' = needToInit
      /\ node_locked_time_window' = node_locked_time_window
      /\ UNCHANGED <<searchVars, pathVars>>
  BY DEF returned
<1>2. RoutesOK'
  BY <1>1 DEF LMapInv, RoutesOK
<1>3. CallOK'
  BY <1>1 DEF CallOK, CallRecord, NoCall, Searching
<1>4. LocksOK'
  BY <1>1 DEF LMapInv, LocksOK
<1>5. SearchOK' /\ PathOK'
  BY <1>1, SearchKept DEF LMapInv, Searching
<1>6. PositionsOK'
  BY <1>1 DEF LMapInv, PositionsOK
<1> QED
  BY <1>2, <1>3, <1>4, <1>5, <1>6 DEF LMapInv

\* The position of one more robot is read.
LEMMA getRobotPositionsInv == LMapInv /\ getRobotPositions => LMapInv'
<1> SUFFICES ASSUME LMapInv, getRobotPositions PROVE LMapInv'
  OBVIOUS
<1> DEFINE i == Len(robot_positions) + 1
<1>1. /\ pc = "getRobotPositions"
      /\ robot_positions' = Append(robot_positions, robot_position[i])
      /\ pc' = IF i = robot_number THEN "initLockArea" ELSE "getRobotPositions"
      /\ UNCHANGED <<redisVars, call, needToInit, lockVars, searchVars, pathVars>>
  BY DEF getRobotPositions
<1>2. RoutesOK' /\ LocksOK'
  BY <1>1 DEF LMapInv, RoutesOK, LocksOK, redisVars, lockVars
<1>3. CallOK'
  BY <1>1 DEF LMapInv, CallOK, Searching, lockVars
<1>4. SearchOK' /\ PathOK'
  BY <1>1, SearchKept DEF LMapInv, Searching
<1>5. /\ robot_positions \in Seq(Node) /\ Len(robot_positions) < robot_number
      /\ robot_position \in [Robot -> Node] /\ robot_number \in Nat
  BY <1>1, RobotAssumption DEF LMapInv, RoutesOK, PositionsOK
<1>6. i \in Nat /\ i <= robot_number /\ i \in Robot
  BY <1>5 DEF Robot
<1>7. /\ robot_positions' \in Seq(Node) /\ Len(robot_positions') = i
      /\ robot_positions' \in [1 .. i -> Node]
  <2>1. robot_position[i] \in Node
    BY <1>5, <1>6
  <2>2. robot_positions' \in Seq(Node) /\ Len(robot_positions') = i
    BY <1>1, <1>5, <2>1
  <2> HIDE DEF i
  <2>3. robot_positions' \in [1 .. i -> Node]
    BY <2>2
  <2> QED
    BY <2>2, <2>3
<1> HIDE DEF i
<1>8. PositionsOK'
  BY <1>1, <1>5, <1>6, <1>7 DEF PositionsOK, Robot
<1> QED
  BY <1>2, <1>3, <1>4, <1>8 DEF LMapInv

\* initLockArea takes the least robot that is left.
LEMMA NextToInit ==
    ASSUME LMapInv, needToInit # {}
    PROVE  Min(needToInit) \in Robot
<1>1. needToInit \subseteq 1 .. robot_number
  BY DEF LMapInv, LocksOK, Robot
<1>2. IsFiniteSet(1 .. robot_number)
  BY RobotAssumption, FS_Interval
<1>3. \A r \in 1 .. robot_number : r \in Int
  BY RobotAssumption
<1>4. needToInit \in SUBSET Int
  BY <1>1, <1>3
<1>5. IsFiniteSet(needToInit)
  BY <1>1, <1>2, FS_Subset
<1> QED
  BY <1>1, <1>4, <1>5, MinOfFinite DEF Robot

\* Once the positions are read, they stay.
LEMMA PositionsKept ==
    ASSUME LMapInv, pc \notin {"ready", "getRobotPositions"}, pc' # "getRobotPositions",
           robot_positions' = robot_positions
    PROVE  PositionsOK'
BY DEF LMapInv, PositionsOK

\* The stored route of one robot is locked.
LEMMA initLockAreaInv == LMapInv /\ initLockArea => LMapInv'
<1> SUFFICES ASSUME LMapInv, initLockArea PROVE LMapInv'
  OBVIOUS
<1>1. /\ pc = "initLockArea" /\ pc' = "initLockArea" /\ needToInit # {}
      /\ node_locked_time_window' = LockedAndReduced(robot_route[Min(needToInit)])
      /\ needToInit' = needToInit \ {Min(needToInit)}
      /\ UNCHANGED <<redisVars, pc, call, robot_positions, result, searchVars, pathVars>>
  BY DEF initLockArea
<1>2. Min(needToInit) \in Robot
  BY <1>1, NextToInit
<1>3. node_locked_time_window' \in [Node -> Seq(TimeWindow)]
  <2>1. /\ robot_route[Min(needToInit)] \in Route
        /\ node_locked_time_window \in [Node -> Seq(TimeWindow)]
    BY <1>2 DEF LMapInv, RoutesOK, LocksOK
  <2> QED
    BY <1>1, <2>1, LockedAndReducedType
<1>4. RoutesOK' /\ CallOK' /\ LocksOK'
  BY <1>1, <1>3 DEF LMapInv, RoutesOK, CallOK, LocksOK, Searching, redisVars
<1>5. SearchOK' /\ PathOK'
  BY <1>1, SearchKept DEF LMapInv, Searching
<1>6. PositionsOK'
  BY <1>1, PositionsKept
<1> QED
  BY <1>4, <1>5, <1>6 DEF LMapInv

\* All are locked: the first robot's turn.
LEMMA locksInitialisedInv == LMapInv /\ locksInitialised => LMapInv'
<1> SUFFICES ASSUME LMapInv, locksInitialised PROVE LMapInv'
  OBVIOUS
<1>1. /\ pc = "initLockArea" /\ pc' = "start"
      /\ UNCHANGED <<redisVars, callVars, lockVars, searchVars, pathVars>>
  BY DEF locksInitialised
<1>2. RoutesOK' /\ LocksOK'
  BY <1>1 DEF LMapInv, RoutesOK, LocksOK, redisVars, callVars, lockVars
<1>3. CallOK'
  BY <1>1 DEF LMapInv, CallOK, Searching, callVars, lockVars
<1>4. SearchOK' /\ PathOK'
  BY <1>1, SearchKept DEF LMapInv, Searching
<1>5. PositionsOK'
  BY <1>1, PositionsKept DEF callVars
<1> QED
  BY <1>2, <1>3, <1>4, <1>5 DEF LMapInv

\* Staying at a node is a route.
LEMMA OnePointRouteType ==
    ASSUME NEW n \in Node, NEW t \in Nat
    PROVE  OnePointRoute(n, t) \in Route
<1>1. [first |-> t, second |-> INF] \in TimeWindow
  BY InfAssumption DEF TimeWindow, Instant
<1> QED
  BY <1>1 DEF OnePointRoute, Route, Planned

\* The call gives up: every robot of the call gets a one-point route.
LEMMA StandDoneInv ==
    ASSUME LMapInv, pc = "start" \/ Searching, StandDone
    PROVE  LMapInv'
<1>1. /\ pc' = "done"
      /\ result' = [j \in DOMAIN call.robot_numbers |->
                       OnePointRoute(robot_positions[call.robot_numbers[j]],
                                     call.start_working_time)]
      /\ EndSearch
      /\ UNCHANGED <<redisVars, callVars, node_locked_time_window>>
  BY DEF StandDone
<1>2. result' \in Seq(Route) /\ Len(result') = Len(call.robot_numbers)
  <2>1. /\ call.robot_numbers \in Seq(Robot) /\ call.start_working_time \in Nat
        /\ robot_positions \in [Robot -> Node]
    BY DEF LMapInv, CallOK, CallRecord, PositionsOK, Searching
  <2> DEFINE N == Len(call.robot_numbers)
  <2>2. N \in Nat /\ DOMAIN call.robot_numbers = 1 .. N
    BY <2>1
  <2>3. \A j \in 1 .. N : robot_positions[call.robot_numbers[j]] \in Node
    BY <2>1
  <2> HIDE DEF N
  <2>4. result' \in [1 .. N -> Route]
    BY <1>1, <2>1, <2>2, <2>3, OnePointRouteType
  <2>5. result' \in Seq(Route) /\ Len(result') = N
    BY <2>2, <2>4
  <2> QED
    BY <2>5 DEF N
<1>3. RoutesOK' /\ LocksOK'
  BY <1>1, <1>2 DEF LMapInv, RoutesOK, LocksOK, redisVars, callVars
<1>4. CallOK'
  BY <1>1, <1>2 DEF LMapInv, CallOK, Searching, callVars
<1>5. SearchOK' /\ PathOK'
  BY <1>1, <1>4, NoSearchOK DEF Searching
<1>6. PositionsOK'
  BY <1>1, PositionsKept DEF Searching, callVars
<1> QED
  BY <1>3, <1>4, <1>5, <1>6 DEF LMapInv
--------------------------------------------------------------------------------
(* The search. *)

\* The start and the target of the robot whose turn it is.
LEMMA TurnTypes ==
    ASSUME LMapInv, pc = "start" \/ Searching
    PROVE  start_id \in Node /\ end_id \in Node /\ call.start_working_time \in Nat
<1>1. /\ call.from_ids \in Seq(Node) /\ call.to_ids \in Seq(Node)
      /\ call.start_working_time \in Nat
      /\ call.robot_numbers \in Seq(Robot) /\ result \in Seq(Route)
      /\ Len(call.from_ids) = Len(call.robot_numbers)
      /\ Len(call.to_ids) = Len(call.robot_numbers)
      /\ Len(result) < Len(call.robot_numbers)
  BY DEF LMapInv, CallOK, CallRecord, RoutesOK
<1>2. k \in 1 .. Len(call.robot_numbers)
  BY <1>1 DEF k
<1> QED
  BY <1>1, <1>2 DEF start_id, end_id

\* The start windows of the robot whose turn it is are windows.
LEMMA StartWindowsType ==
    ASSUME LMapInv, pc = "start"
    PROVE  StartWindows \in Seq(TimeWindow)
<1> DEFINE locked == node_locked_time_window[start_id]
           window == [first  |-> call.start_working_time,
                      second |-> IF locked # <<>> THEN locked[1].first ELSE INF]
<1>1. /\ start_id \in Node /\ call.start_working_time \in Nat
      /\ node_locked_time_window \in [Node -> Seq(TimeWindow)]
  BY TurnTypes DEF LMapInv, LocksOK
<1>2. locked \in Seq(TimeWindow) /\ (locked # <<>> => locked[1].first \in Int)
  <2>1. locked \in Seq(TimeWindow)
    BY <1>1
  <2>2. locked # <<>> => locked[1] \in TimeWindow
    BY <2>1
  <2> QED
    BY <2>1, <2>2, WindowParts
<1>3. window \in TimeWindow
  BY <1>1, <1>2, InfAssumption DEF TimeWindow, Instant
<1>4. LegalArea(start_id) \in Seq(TimeWindow)
  BY <1>1, LegalAreaInside
<1>5. StartWindows = merge_feasible_arrtime(<<window>>, LegalArea(start_id))
  BY DEF StartWindows
<1> HIDE DEF window
<1>6. <<window>> \in Seq(TimeWindow)
  BY <1>3
<1> QED
  BY <1>4, <1>5, <1>6, MergeInside

\* A search begins with the start node as the root of its tree.
LEMMA startSearchInv == LMapInv /\ startSearch => LMapInv'
<1> SUFFICES ASSUME LMapInv, startSearch PROVE LMapInv'
  OBVIOUS
<1> DEFINE root == [node_id |-> start_id, pre_node |-> 0, travel_time_from_parent |-> 0,
                    feasible_arrival_time |-> <<StartWindows[1]>>,
                    Punish |-> 0, key |-> StartWindows[1].first]
<1>1. /\ pc = "start" /\ pc' = "search" /\ StartWindows # <<>>
      /\ tree' = <<root>> /\ openList' = {1} /\ openListSet' = {start_id}
      /\ parent_node' = parent_node /\ neighbour' = neighbour
      /\ UNCHANGED <<redisVars, callVars, lockVars, pathVars>>
  BY DEF startSearch
<1>2. start_id \in Node
  BY <1>1, TurnTypes
<1>3. root \in SearchNode
  <2>1. StartWindows[1] \in TimeWindow
    BY <1>1, StartWindowsType
  <2> QED
    BY <1>2, <2>1, WindowParts DEF SearchNode
<1> HIDE DEF root
<1>4. /\ tree' \in Seq(SearchNode) /\ Len(tree') = 1 /\ DOMAIN tree' = {1}
      /\ tree'[1] = root
  BY <1>1, <1>3
<1>5. root.node_id = start_id /\ root.pre_node = 0
  BY DEF root
<1>6. SearchTreeSound'
  BY <1>1, <1>4, <1>5 DEF SearchTreeSound
<1>7. tree = <<>> /\ parent_node = 0 /\ neighbour \in Nat
  BY <1>1 DEF LMapInv, SearchOK, Searching
<1>8. SearchOK'
  BY <1>1, <1>2, <1>4, <1>6, <1>7 DEF SearchOK, Searching
<1>9. PathOK'
  <2>1. iter = 0 /\ nodeVec = <<>> /\ myList = <<>> /\ candidate \in Nat
    BY <1>1, <1>7 DEF LMapInv, PathOK
  <2>2. iter' = 0 /\ nodeVec' = <<>> /\ myList' = <<>> /\ candidate' \in Nat
    BY <1>1, <2>1 DEF pathVars
  <2> QED
    BY <1>1, <1>4, <2>2 DEF PathOK
<1>10. RoutesOK' /\ LocksOK'
  BY <1>1 DEF LMapInv, RoutesOK, LocksOK, redisVars, callVars, lockVars
<1>11. CallOK'
  BY <1>1 DEF LMapInv, CallOK, Searching, callVars, lockVars
<1>12. PositionsOK'
  BY <1>1, PositionsKept DEF callVars
<1> QED
  BY <1>8, <1>9, <1>10, <1>11, <1>12 DEF LMapInv

\* The parts that a step within a search leaves alone.
LEMMA CallKept ==
    ASSUME LMapInv, Searching, Searching',
           UNCHANGED <<redisVars, callVars, lockVars>>
    PROVE  RoutesOK' /\ PositionsOK' /\ CallOK' /\ LocksOK'
<1>1. RoutesOK' /\ LocksOK'
  BY DEF LMapInv, RoutesOK, LocksOK, redisVars, callVars, lockVars
<1>2. CallOK'
  BY DEF LMapInv, CallOK, Searching, callVars, lockVars
<1>3. PositionsOK'
  BY PositionsKept DEF Searching, callVars
<1> QED
  BY <1>1, <1>2, <1>3

\* The open list has a first element: the oldest of those with the least key.
LEMMA OpenListHasFirst ==
    ASSUME LMapInv, openList # {}
    PROVE  FirstOpen \in openList
<1> DEFINE keys == {tree[a].key : a \in openList}
           least == {a \in openList : tree[a].key = Min(keys)}
<1>1. /\ tree \in Seq(SearchNode) /\ openList \subseteq 1 .. Len(tree) /\ Len(tree) \in Nat
      /\ \A a \in openList : tree[a].key \in Int
  <2>1. tree \in Seq(SearchNode) /\ openList \subseteq DOMAIN tree
    BY DEF LMapInv, SearchOK
  <2>2. \A a \in openList : tree[a] \in SearchNode
    BY <2>1
  <2>3. \A a \in openList : tree[a].key \in Int
    BY <2>2 DEF SearchNode
  <2> QED
    BY <2>1, <2>3
<1>2. IsFiniteSet(openList)
  <2>1. IsFiniteSet(1 .. Len(tree))
    BY <1>1, FS_Interval
  <2> QED
    BY <1>1, <2>1, FS_Subset
<1>3. IsFiniteSet(keys)
  <2> DEFINE f == [a \in openList |-> tree[a].key]
  <2>1. f \in Surjection(openList, keys)
    BY DEF Surjection
  <2> QED
    BY <1>2, <2>1, FS_Surjection
<1>4. keys \in SUBSET Int /\ keys # {} /\ \A a \in openList : tree[a].key \in keys
  BY <1>1
<1> HIDE DEF keys
<1>5. /\ Min(keys) \in keys /\ \A x \in keys : Min(keys) <= x
      /\ Min(keys) \in Int
  BY <1>3, <1>4, MinOfFinite
<1>6. least # {}
  BY <1>5 DEF keys
<1>7. least \in SUBSET Nat
  <2>1. least \subseteq openList
    OBVIOUS
  <2>2. \A a \in 1 .. Len(tree) : a \in Nat
    BY <1>1
  <2> HIDE DEF least
  <2> QED
    BY <1>1, <2>1, <2>2
<1> HIDE DEF least
<1>8. PICK a \in least : \A b \in least : a <= b
  BY <1>6, <1>7, LeastNumber
<1>9. a \in openList /\ tree[a].key = Min(keys)
  BY <1>8 DEF least
<1>10. \A b \in openList :
          tree[a].key < tree[b].key \/ (tree[a].key = tree[b].key /\ a <= b)
  <2> SUFFICES ASSUME NEW b \in openList, ~ (tree[a].key < tree[b].key)
               PROVE  tree[a].key = tree[b].key /\ a <= b
    OBVIOUS
  <2>1. tree[b].key \in Int /\ Min(keys) <= tree[b].key
    BY <1>1, <1>4, <1>5
  <2>2. tree[b].key = Min(keys)
    BY <1>5, <1>9, <2>1
  <2> QED
    BY <1>8, <1>9, <2>2 DEF least
<1> QED
  BY <1>9, <1>10 DEF FirstOpen

\* The first open node is expanded, or is the target.
LEMMA popOpenListInv == LMapInv /\ popOpenList => LMapInv'
<1> SUFFICES ASSUME LMapInv, popOpenList PROVE LMapInv'
  OBVIOUS
<1>1. /\ pc = "search" /\ openList # {}
      /\ parent_node' = FirstOpen /\ openList' = openList \ {FirstOpen} /\ neighbour' = 1
      /\ tree' = tree /\ openListSet' = openListSet
      /\ nodeVec' = nodeVec /\ myList' = myList /\ candidate' = candidate
      /\ UNCHANGED <<redisVars, callVars, lockVars>>
      /\ \/ pc' = "trace" /\ iter' = FirstOpen
         \/ pc' = "expand" /\ iter' = iter
  BY DEF popOpenList
<1>2. FirstOpen \in openList
  BY OpenListHasFirst, <1>1
<1>3. /\ tree \in Seq(SearchNode) /\ openList \subseteq DOMAIN tree
      /\ FirstOpen \in 1 .. Len(tree) /\ FirstOpen # 0
  BY <1>2 DEF LMapInv, SearchOK
<1>4. SearchOK'
  BY <1>1, <1>3 DEF LMapInv, SearchOK, SearchTreeSound, Searching
<1>5. PathOK'
  BY <1>1, <1>3 DEF LMapInv, PathOK, Windows
<1>6. RoutesOK' /\ PositionsOK' /\ CallOK' /\ LocksOK'
  BY <1>1, CallKept DEF Searching
<1> QED
  BY <1>4, <1>5, <1>6 DEF LMapInv

\* What the expansion looks at.
LEMMA ExpansionTypes ==
    ASSUME LMapInv, LookingAtNeighbour
    PROVE  /\ parent_node \in 1 .. Len(tree) /\ tree[parent_node] \in SearchNode
           /\ ParentId \in Node /\ NeighbourId \in Node /\ TravelTime \in Nat
           /\ NeighbourWindows \in Seq(TimeWindow)
           /\ Inside(NeighbourWindows,
                     getLegalInterVals4Node(node_locked_time_window[NeighbourId]))
           /\ Inside(NeighbourWindows,
                     ShiftedWindows(tree[parent_node].feasible_arrival_time, TravelTime))
<1>1. parent_node \in 1 .. Len(tree) /\ tree \in Seq(SearchNode)
  BY DEF LMapInv, SearchOK, LookingAtNeighbour
<1>2. tree[parent_node] \in SearchNode
  BY <1>1
<1>3. ParentId \in Node /\ tree[parent_node].feasible_arrival_time \in Seq(TimeWindow)
  BY <1>2 DEF ParentId, SearchNode
<1>4. NeighbourId \in Node /\ TravelTime \in Nat
  <2>1. /\ neighbour_node_list[ParentId] \in Seq(Node)
        /\ travel_time_list[ParentId] \in [DOMAIN neighbour_node_list[ParentId] -> Nat \ {0}]
    BY <1>3, MapAssumption
  <2>2. neighbour \in DOMAIN neighbour_node_list[ParentId]
    BY DEF LookingAtNeighbour
  <2> QED
    BY <2>1, <2>2 DEF NeighbourId, TravelTime
<1> DEFINE shifted == ShiftedWindows(tree[parent_node].feasible_arrival_time, TravelTime)
           legal == ArrivalLegal(ParentId, NeighbourId, TravelTime)
           own == getLegalInterVals4Node(node_locked_time_window[NeighbourId])
<1>5. shifted \in Seq(TimeWindow)
  BY <1>3, <1>4, ShiftedWindowsType
<1>6. node_locked_time_window \in [Node -> Seq(TimeWindow)]
  BY DEF LMapInv, LocksOK
<1>7. legal \in Seq(TimeWindow) /\ Inside(legal, own)
  BY <1>3, <1>4, <1>6, ArrivalLegalInside
<1>8. own \in Seq(TimeWindow)
  BY <1>4, <1>6, LegalType
<1>9. NeighbourWindows = merge_feasible_arrtime(shifted, legal)
  BY DEF NeighbourWindows
<1> HIDE DEF shifted, legal, own
<1>10. /\ NeighbourWindows \in Seq(TimeWindow)
       /\ Inside(NeighbourWindows, shifted) /\ Inside(NeighbourWindows, legal)
  BY <1>5, <1>7, <1>9, MergeInside
<1>11. Inside(NeighbourWindows, own)
  BY <1>7, <1>8, <1>10, InsideTransitive
<1> QED
  BY <1>1, <1>2, <1>3, <1>4, <1>10, <1>11 DEF shifted, own

\* What is created for a neighbour is a search node whose parent is the node expanded.
LEMMA NeighbourNodeType ==
    ASSUME LMapInv, LookingAtNeighbour, NeighbourWindows # <<>>
    PROVE  /\ NeighbourNode \in SearchNode
           /\ NeighbourNode.node_id = NeighbourId
           /\ NeighbourNode.pre_node = parent_node
<1>1. /\ parent_node \in Nat /\ tree[parent_node] \in SearchNode
      /\ NeighbourId \in Node /\ TravelTime \in Nat
      /\ NeighbourWindows \in Seq(TimeWindow)
  BY ExpansionTypes
<1>2. tree[parent_node].Punish \in Nat
  BY <1>1 DEF SearchNode
<1>3. NeighbourWindows[1].first \in Int
  <2>1. NeighbourWindows[1] \in TimeWindow
    BY <1>1
  <2> QED
    BY <2>1, WindowParts
<1>4. call.start_working_time \in Int /\ getManhatenDistance(NeighbourId, end_id) \in Int
  <2>1. end_id \in Node /\ call.start_working_time \in Nat
    BY TurnTypes DEF Searching, LookingAtNeighbour
  <2> QED
    BY <1>1, <2>1, ManhattanType
<1> DEFINE punish == tree[parent_node].Punish + (IF TravelTime > 10 THEN TravelTime ELSE 0)
           G == NeighbourWindows[1].first - call.start_working_time
           H == getManhatenDistance(NeighbourId, end_id)
<1>5. punish \in Nat /\ G + H + punish \in Int
  <2>1. punish \in Nat
    BY <1>1, <1>2
  <2>2. G \in Int /\ H \in Int
    BY <1>3, <1>4
  <2> HIDE DEF punish, G, H
  <2> QED
    BY <2>1, <2>2
<1>6. NeighbourNode = [node_id |-> NeighbourId, pre_node |-> parent_node,
                       travel_time_from_parent |-> TravelTime,
                       feasible_arrival_time |-> NeighbourWindows,
                       Punish |-> punish, key |-> G + H + punish]
  BY DEF NeighbourNode
<1> HIDE DEF punish, G, H
<1> QED
  BY <1>1, <1>5, <1>6 DEF SearchNode

\* A neighbour not yet looked at becomes an element of the tree.
LEMMA addNeighbourInv == LMapInv /\ addNeighbour => LMapInv'
<1> SUFFICES ASSUME LMapInv, addNeighbour PROVE LMapInv'
  OBVIOUS
<1>1. /\ LookingAtNeighbour /\ pc = "expand" /\ pc' = "expand"
      /\ NeighbourId \notin openListSet /\ NeighbourWindows # <<>>
      /\ tree' = Append(tree, NeighbourNode)
      /\ openList' = openList \union {Len(tree) + 1}
      /\ openListSet' = openListSet \union {NeighbourId}
      /\ neighbour' = neighbour + 1 /\ parent_node' = parent_node
      /\ UNCHANGED <<redisVars, callVars, lockVars, pathVars>>
  BY DEF addNeighbour, LookingAtNeighbour
<1>2. /\ NeighbourNode \in SearchNode /\ NeighbourNode.node_id = NeighbourId
      /\ NeighbourNode.pre_node = parent_node
  BY <1>1, NeighbourNodeType
<1>3. /\ tree \in Seq(SearchNode) /\ Len(tree) \in Nat /\ DOMAIN tree = 1 .. Len(tree)
      /\ openList \subseteq DOMAIN tree /\ openListSet \subseteq Node
      /\ neighbour \in Nat /\ SearchTreeSound
  BY DEF LMapInv, SearchOK
<1>4. parent_node \in 1 .. Len(tree) /\ NeighbourId \in Node
  BY <1>1, ExpansionTypes
<1> DEFINE N == Len(tree)
<1>5. /\ tree' \in Seq(SearchNode) /\ Len(tree') = N + 1 /\ DOMAIN tree' = 1 .. N + 1
      /\ tree'[N + 1] = NeighbourNode /\ \A n \in 1 .. N : tree'[n] = tree[n]
  BY <1>1, <1>2, <1>3
<1>6. SearchTreeSound'
  <2>1. openListSet' = {tree'[n].node_id : n \in DOMAIN tree'}
    <3>1. openListSet = {tree[n].node_id : n \in 1 .. N}
      BY <1>3 DEF SearchTreeSound
    <3> QED
      BY <1>1, <1>2, <1>3, <1>5, <3>1
  <2>2. ASSUME NEW a \in DOMAIN tree', NEW b \in DOMAIN tree',
               tree'[a].node_id = tree'[b].node_id
        PROVE  a = b
    <3>1. \A n \in 1 .. N : tree[n].node_id # NeighbourId
      BY <1>1, <1>3 DEF SearchTreeSound
    <3>2. CASE a \in 1 .. N /\ b \in 1 .. N
      BY <1>3, <1>5, <2>2, <3>2 DEF SearchTreeSound
    <3>3. CASE a = N + 1 \/ b = N + 1
      BY <1>2, <1>3, <1>5, <2>2, <3>1, <3>3
    <3> QED
      BY <1>3, <1>5, <3>2, <3>3
  <2>3. ASSUME NEW n \in DOMAIN tree'
        PROVE  tree'[n].pre_node < n /\ (tree'[n].pre_node = 0 => n = 1)
    <3>1. CASE n \in 1 .. N
      BY <1>3, <1>5, <3>1 DEF SearchTreeSound
    <3>2. CASE n = N + 1
      BY <1>2, <1>3, <1>4, <1>5, <3>2
    <3> QED
      BY <1>3, <1>5, <3>1, <3>2
  <2> QED
    BY <2>1, <2>2, <2>3 DEF SearchTreeSound
<1>7. SearchOK'
  BY <1>1, <1>3, <1>4, <1>5, <1>6 DEF SearchOK, Searching
<1>8. PathOK'
  <2>1. /\ iter \in 0 .. Len(tree) /\ nodeVec = <<>> /\ myList = <<>> /\ candidate \in Nat
    BY <1>1 DEF LMapInv, PathOK
  <2>2. iter' = iter /\ nodeVec' = <<>> /\ myList' = <<>> /\ candidate' = candidate
    BY <1>1, <2>1 DEF pathVars
  <2> QED
    BY <1>1, <1>3, <1>5, <2>1, <2>2 DEF PathOK
<1>9. RoutesOK' /\ PositionsOK' /\ CallOK' /\ LocksOK'
  BY <1>1, CallKept DEF Searching
<1> QED
  BY <1>7, <1>8, <1>9 DEF LMapInv

\* A neighbour that was looked at, or cannot be entered, is passed over.
LEMMA skipNeighbourInv == LMapInv /\ skipNeighbour => LMapInv'
<1> SUFFICES ASSUME LMapInv, skipNeighbour PROVE LMapInv'
  OBVIOUS
<1>1. /\ pc = "expand" /\ pc' = "expand" /\ neighbour' = neighbour + 1
      /\ UNCHANGED <<redisVars, callVars, lockVars, pathVars>>
      /\ UNCHANGED <<tree, openList, openListSet, parent_node>>
  BY DEF skipNeighbour, LookingAtNeighbour
<1>2. SearchOK'
  BY <1>1 DEF LMapInv, SearchOK, SearchTreeSound, Searching
<1>3. PathOK'
  BY <1>1 DEF LMapInv, PathOK, Windows, pathVars
<1>4. RoutesOK' /\ PositionsOK' /\ CallOK' /\ LocksOK'
  BY <1>1, CallKept DEF Searching
<1> QED
  BY <1>2, <1>3, <1>4 DEF LMapInv

\* All neighbours are done.
LEMMA expandedInv == LMapInv /\ expanded => LMapInv'
<1> SUFFICES ASSUME LMapInv, expanded PROVE LMapInv'
  OBVIOUS
<1>1. /\ pc = "expand" /\ pc' = "search"
      /\ UNCHANGED <<redisVars, callVars, lockVars, searchVars, pathVars>>
  BY DEF expanded
<1>2. SearchOK'
  BY <1>1 DEF LMapInv, SearchOK, SearchTreeSound, Searching, searchVars
<1>3. PathOK'
  BY <1>1 DEF LMapInv, PathOK, Windows, pathVars, searchVars
<1>4. RoutesOK' /\ PositionsOK' /\ CallOK' /\ LocksOK'
  BY <1>1, CallKept DEF Searching
<1> QED
  BY <1>2, <1>3, <1>4 DEF LMapInv

--------------------------------------------------------------------------------
(* The path and its windows. *)

\* The path back grows by the parent of its first element.
LEMMA traceBackInv == LMapInv /\ traceBack => LMapInv'
<1> SUFFICES ASSUME LMapInv, traceBack PROVE LMapInv'
  OBVIOUS
<1>1. /\ pc = "trace" /\ pc' = "trace" /\ iter # 0
      /\ nodeVec' = <<iter>> \o nodeVec /\ iter' = tree[iter].pre_node
      /\ myList' = myList /\ candidate' = candidate
      /\ UNCHANGED <<redisVars, callVars, lockVars, searchVars>>
  BY DEF traceBack
<1>2. /\ tree \in Seq(SearchNode) /\ Len(tree) \in Nat /\ DOMAIN tree = 1 .. Len(tree)
      /\ SearchTreeSound
  BY DEF LMapInv, SearchOK
<1>3. /\ iter \in 1 .. Len(tree) /\ nodeVec \in Seq(1 .. Len(tree))
      /\ candidate \in Nat /\ myList = <<>>
  BY <1>1, <1>2 DEF LMapInv, PathOK
<1>4. tree[iter].pre_node \in 0 .. Len(tree)
  <2>1. tree[iter] \in SearchNode /\ tree[iter].pre_node < iter
    BY <1>2, <1>3 DEF SearchTreeSound
  <2>2. tree[iter].pre_node \in Nat
    BY <2>1 DEF SearchNode
  <2> QED
    BY <1>2, <1>3, <2>1, <2>2
<1>5. nodeVec' \in Seq(1 .. Len(tree)) /\ nodeVec' # <<>>
  BY <1>1, <1>3
<1>6. tree' = tree
  BY <1>1 DEF searchVars
<1>7. PathOK'
  BY <1>1, <1>2, <1>3, <1>4, <1>5, <1>6 DEF PathOK
<1>8. SearchOK'
  BY <1>1 DEF LMapInv, SearchOK, SearchTreeSound, Searching, searchVars
<1>9. RoutesOK' /\ PositionsOK' /\ CallOK' /\ LocksOK'
  BY <1>1, CallKept DEF Searching
<1> QED
  BY <1>7, <1>8, <1>9 DEF LMapInv

\* The path has reached the root.
LEMMA tracedInv == LMapInv /\ traced => LMapInv'
<1> SUFFICES ASSUME LMapInv, traced PROVE LMapInv'
  OBVIOUS
<1>1. /\ pc = "trace" /\ pc' = "chain" /\ iter = 0
      /\ UNCHANGED <<redisVars, callVars, lockVars, searchVars, pathVars>>
  BY DEF traced
<1>2. SearchOK'
  BY <1>1 DEF LMapInv, SearchOK, SearchTreeSound, Searching, searchVars
<1>3. PathOK'
  BY <1>1 DEF LMapInv, PathOK, Windows, pathVars, searchVars
<1>4. RoutesOK' /\ PositionsOK' /\ CallOK' /\ LocksOK'
  BY <1>1, CallKept DEF Searching
<1> QED
  BY <1>2, <1>3, <1>4 DEF LMapInv

\* A step of the choice of windows: the path stays as it is.
LEMMA ChoiceStep ==
    ASSUME LMapInv, pc = "chain", pc' = "chain",
           UNCHANGED <<redisVars, callVars, lockVars, searchVars, iter, nodeVec>>,
           candidate' \in Nat, myList' \in Seq(Nat), Len(myList') <= Len(nodeVec),
           \A d \in DOMAIN myList' : myList'[d] \in DOMAIN Windows(d)
    PROVE  LMapInv'
<1>1. SearchOK'
  BY DEF LMapInv, SearchOK, SearchTreeSound, Searching, searchVars
<1>2. PathOK'
  BY DEF LMapInv, PathOK, Windows, searchVars
<1>3. RoutesOK' /\ PositionsOK' /\ CallOK' /\ LocksOK'
  BY CallKept DEF Searching
<1> QED
  BY <1>1, <1>2, <1>3 DEF LMapInv

\* A window is chosen for the next node of the path.
LEMMA chooseWindowInv == LMapInv /\ chooseWindow => LMapInv'
<1> SUFFICES ASSUME LMapInv, chooseWindow PROVE LMapInv'
  OBVIOUS
<1>1. /\ pc = "chain" /\ pc' = "chain"
      /\ Len(myList) + 1 \in DOMAIN nodeVec
      /\ candidate \in DOMAIN Windows(Len(myList) + 1)
      /\ myList' = Append(myList, candidate) /\ candidate' = 1
      /\ UNCHANGED <<redisVars, callVars, lockVars, searchVars, iter, nodeVec>>
  BY DEF chooseWindow, TryingWindow, Choosing, depth_
<1>2. /\ myList \in Seq(Nat) /\ candidate \in Nat /\ nodeVec \in Seq(DOMAIN tree)
      /\ Len(myList) \in Nat
      /\ \A d \in DOMAIN myList : myList[d] \in DOMAIN Windows(d)
  BY DEF LMapInv, PathOK
<1>3. /\ myList' \in Seq(Nat) /\ Len(myList') = Len(myList) + 1
      /\ DOMAIN myList' = 1 .. Len(myList) + 1
      /\ myList'[Len(myList) + 1] = candidate
      /\ \A d \in 1 .. Len(myList) : myList'[d] = myList[d]
  BY <1>1, <1>2
<1>4. Len(myList') <= Len(nodeVec)
  BY <1>1, <1>2, <1>3
<1>5. \A d \in DOMAIN myList' : myList'[d] \in DOMAIN Windows(d)
  <2> SUFFICES ASSUME NEW d \in 1 .. Len(myList) + 1
               PROVE  myList'[d] \in DOMAIN Windows(d)
    BY <1>3
  <2>1. CASE d = Len(myList) + 1
    BY <2>1, <1>1, <1>3
  <2>2. CASE d # Len(myList) + 1
    <3>1. d \in 1 .. Len(myList)
      BY <2>2, <1>2
    <3>2. d \in DOMAIN myList /\ myList'[d] = myList[d]
      BY <3>1, <1>2, <1>3
    <3> QED
      BY <3>2, <1>2
  <2> QED
    BY <2>1, <2>2
<1> QED
  BY <1>1, <1>3, <1>4, <1>5, ChoiceStep

\* A window does not follow the one before it.
LEMMA rejectWindowInv == LMapInv /\ rejectWindow => LMapInv'
<1> SUFFICES ASSUME LMapInv, rejectWindow PROVE LMapInv'
  OBVIOUS
<1>1. /\ pc = "chain" /\ pc' = "chain" /\ myList' = myList /\ candidate' = candidate + 1
      /\ UNCHANGED <<redisVars, callVars, lockVars, searchVars, iter, nodeVec>>
  BY DEF rejectWindow, TryingWindow, Choosing
<1>2. /\ myList \in Seq(Nat) /\ candidate \in Nat /\ Len(myList) <= Len(nodeVec)
      /\ \A d \in DOMAIN myList : myList[d] \in DOMAIN Windows(d)
  BY DEF LMapInv, PathOK
<1> QED
  BY <1>1, <1>2, ChoiceStep

\* The list without its last element.
LEMMA FrontElements ==
    ASSUME NEW s \in Seq(Nat), s # <<>>
    PROVE  /\ Front(s) \in Seq(Nat) /\ Len(Front(s)) = Len(s) - 1 /\ Len(s) >= 1
           /\ DOMAIN Front(s) = 1 .. Len(s) - 1
           /\ \A d \in 1 .. Len(s) - 1 : Front(s)[d] = s[d]
<1> DEFINE n == Len(s) - 1
<1>1. Len(s) \in Nat /\ Len(s) >= 1 /\ \A i \in 1 .. Len(s) : s[i] \in Nat
  <2>1. Len(s) # 0
    BY EmptySeq
  <2> QED
    BY <2>1
<1>2. n \in Nat /\ \A i \in 1 .. n : i \in 1 .. Len(s) /\ 1 + i - 1 = i
  BY <1>1
<1>3. \A i \in 1 .. n : s[i] \in Nat
  BY <1>1, <1>2
<1> HIDE DEF n
<1>4. /\ SubSeq(s, 1, n) \in Seq(Nat)
      /\ Len(SubSeq(s, 1, n)) = IF 1 <= n THEN n - 1 + 1 ELSE 0
      /\ \A i \in 1 .. n - 1 + 1 : SubSeq(s, 1, n)[i] = s[1 + i - 1]
  BY <1>2, <1>3, SubSeqProperties
<1>5. Front(s) = SubSeq(s, 1, n)
  BY DEF n, Front
<1>6. n - 1 + 1 = n /\ (IF 1 <= n THEN n - 1 + 1 ELSE 0) = n
  BY <1>2
<1>7. Front(s) \in Seq(Nat) /\ Len(Front(s)) = n
  BY <1>4, <1>5, <1>6
<1>8. \A i \in 1 .. n : Front(s)[i] = s[i]
  BY <1>2, <1>4, <1>5, <1>6
<1> QED
  BY <1>1, <1>7, <1>8 DEF n

\* A node has no window left: the choice before it is revised.
LEMMA backtrackInv == LMapInv /\ backtrack => LMapInv'
<1> SUFFICES ASSUME LMapInv, backtrack PROVE LMapInv'
  OBVIOUS
<1>1. /\ pc = "chain" /\ pc' = "chain" /\ myList # <<>>
      /\ myList' = SubSeq(myList, 1, Len(myList) - 1)
      /\ candidate' = myList[Len(myList)] + 1
      /\ UNCHANGED <<redisVars, callVars, lockVars, searchVars, iter, nodeVec>>
  BY DEF backtrack, Choosing, Front, Last
<1>2. /\ myList \in Seq(Nat) /\ Len(myList) \in Nat /\ Len(nodeVec) \in Nat
      /\ Len(myList) <= Len(nodeVec)
      /\ \A d \in DOMAIN myList : myList[d] \in DOMAIN Windows(d)
  BY DEF LMapInv, PathOK
<1>3. Len(myList) >= 1 /\ candidate' \in Nat
  BY <1>1, <1>2
<1>4. /\ myList' \in Seq(Nat) /\ Len(myList') = Len(myList) - 1
      /\ DOMAIN myList' = 1 .. Len(myList) - 1
      /\ \A d \in 1 .. Len(myList) - 1 : myList'[d] = myList[d]
  <2>1. myList' = Front(myList)
    BY DEF backtrack
  <2> QED
    BY <1>1, <1>2, <2>1, FrontElements
<1>5. \A d \in DOMAIN myList' : myList'[d] \in DOMAIN Windows(d)
  <2> SUFFICES ASSUME NEW d \in 1 .. Len(myList) - 1
               PROVE  myList'[d] \in DOMAIN Windows(d)
    BY <1>4
  <2>1. d \in 1 .. Len(myList)
    BY <1>2
  <2>2. d \in DOMAIN myList /\ myList'[d] = myList[d]
    BY <2>1, <1>2, <1>4
  <2> QED
    BY <2>2, <1>2
<1> QED
  BY <1>1, <1>2, <1>3, <1>4, <1>5, ChoiceStep

\* A path with a window for each node gives a route with a wait, a travel time
\* and a window for each point.
LEMMA generateRouteType ==
    ASSUME LMapInv, RouteReady
    PROVE  generateRoute \in Route
<1> DEFINE size == Len(nodeVec)
           travel_time == [d \in 1 .. size |->
               IF d < size THEN tree[nodeVec[d + 1]].travel_time_from_parent ELSE 0]
           wait_time == [d \in 1 .. size |->
               IF d < size THEN Chosen(d + 1).first - Chosen(d).first - travel_time[d] ELSE 0]
           vps == [d \in 1 .. size |-> tree[nodeVec[d]].node_id]
           windows == [d \in 1 .. size |->
               [first  |-> Chosen(d).first,
                second |-> IF d < size THEN Chosen(d).first + wait_time[d]
                           ELSE Chosen(d).second]]
<1>1. /\ tree \in Seq(SearchNode) /\ nodeVec \in Seq(DOMAIN tree) /\ size \in Nat /\ size >= 1
      /\ Len(myList) = size /\ DOMAIN myList = 1 .. size
      /\ \A d \in 1 .. size : myList[d] \in DOMAIN Windows(d)
  BY DEF LMapInv, SearchOK, PathOK, RouteReady
<1>2. \A d \in 1 .. size : nodeVec[d] \in DOMAIN tree /\ tree[nodeVec[d]] \in SearchNode
  BY <1>1
<1>3. \A d \in 1 .. size :
         /\ tree[nodeVec[d]].node_id \in Node
         /\ tree[nodeVec[d]].travel_time_from_parent \in Nat
         /\ Windows(d) \in Seq(TimeWindow)
  BY <1>2 DEF SearchNode, Windows
<1>4. \A d \in 1 .. size : Chosen(d) \in TimeWindow
  BY <1>1, <1>3 DEF Chosen
<1>5. \A d \in 1 .. size : Chosen(d).first \in Int /\ Chosen(d).second \in Int
  BY <1>4, WindowParts
<1>6. generateRoute = [vps |-> vps, wts |-> wait_time, tts |-> travel_time,
                       arr_and_depar_time |-> windows]
  BY DEF generateRoute
<1> HIDE DEF size
<1>7. vps \in [1 .. size -> Node]
  BY <1>3
<1>8. travel_time \in [1 .. size -> Nat]
  <2>1. \A d \in 1 .. size : d < size => d + 1 \in 1 .. size
    BY <1>1
  <2> QED
    BY <1>3, <2>1
<1> HIDE DEF travel_time
<1>9. wait_time \in [1 .. size -> Int]
  <2>1. \A d \in 1 .. size : d < size => d + 1 \in 1 .. size
    BY <1>1
  <2> QED
    BY <1>5, <1>8, <2>1
<1> HIDE DEF wait_time
<1>10. windows \in [1 .. size -> TimeWindow]
  BY <1>5, <1>9 DEF TimeWindow, Instant
<1> HIDE DEF vps, windows
<1>11. /\ vps \in Seq(Node) /\ Len(vps) = size
       /\ travel_time \in Seq(Nat) /\ Len(travel_time) = size
       /\ wait_time \in Seq(Int) /\ Len(wait_time) = size
       /\ windows \in Seq(TimeWindow) /\ Len(windows) = size
  BY <1>1, <1>7, <1>8, <1>9, <1>10
<1> QED
  BY <1>1, <1>6, <1>11 DEF Route, Planned

\* The route is appended to the result and locked.
LEMMA routePlannedInv == LMapInv /\ routePlanned => LMapInv'
<1> SUFFICES ASSUME LMapInv, routePlanned PROVE LMapInv'
  OBVIOUS
<1>1. /\ pc = "chain" /\ RouteReady
      /\ result' = Append(result, generateRoute)
      /\ node_locked_time_window' = LockedAndReduced(generateRoute)
      /\ pc' = IF k = Len(call.robot_numbers) THEN "done" ELSE "start"
      /\ EndSearch /\ UNCHANGED <<redisVars, callVars>>
  BY DEF routePlanned, RouteReady
<1>2. generateRoute \in Route
  BY <1>1, generateRouteType
<1>3. /\ result \in Seq(Route) /\ node_locked_time_window \in [Node -> Seq(TimeWindow)]
      /\ Len(result) < Len(call.robot_numbers) /\ call.robot_numbers \in Seq(Robot)
  BY <1>1 DEF LMapInv, RoutesOK, LocksOK, CallOK, CallRecord, Searching
<1>4. result' \in Seq(Route) /\ Len(result') = Len(result) + 1
  BY <1>1, <1>2, <1>3
<1>5. node_locked_time_window' \in [Node -> Seq(TimeWindow)]
  BY <1>1, <1>2, <1>3, LockedAndReducedType
<1>6. RoutesOK' /\ LocksOK'
  BY <1>1, <1>4, <1>5 DEF LMapInv, RoutesOK, LocksOK, redisVars, callVars
<1>7. /\ pc' = "done" => Len(result') = Len(call.robot_numbers)
      /\ pc' = "start" => Len(result') < Len(call.robot_numbers)
      /\ pc' \in {"done", "start"}
  BY <1>1, <1>3, <1>4 DEF k
<1>8. CallOK'
  BY <1>1, <1>7 DEF LMapInv, CallOK, Searching, callVars
<1>9. SearchOK' /\ PathOK'
  BY <1>7, <1>8, <1>1, NoSearchOK DEF Searching
<1>10. PositionsOK'
  BY <1>1, <1>7, PositionsKept DEF callVars
<1> QED
  BY <1>6, <1>8, <1>9, <1>10 DEF LMapInv

--------------------------------------------------------------------------------

\* Every step of the planner preserves the invariant.
LEMMA PlannerStepInv == LMapInv /\ PlannerStep => LMapInv'
<1> SUFFICES ASSUME LMapInv, PlannerStep PROVE LMapInv'
  OBVIOUS
<1>1. CASE initLockArea
  BY <1>1, initLockAreaInv
<1>2. CASE locksInitialised
  BY <1>2, locksInitialisedInv
<1>3. CASE noStartWindow
  BY <1>3, StandDoneInv DEF noStartWindow
<1>4. CASE startSearch
  BY <1>4, startSearchInv
<1>5. CASE openListEmpty
  BY <1>5, StandDoneInv DEF openListEmpty, Searching
<1>6. CASE popOpenList
  BY <1>6, popOpenListInv
<1>7. CASE skipNeighbour
  BY <1>7, skipNeighbourInv
<1>8. CASE addNeighbour
  BY <1>8, addNeighbourInv
<1>9. CASE expanded
  BY <1>9, expandedInv
<1>10. CASE traceBack
  BY <1>10, traceBackInv
<1>11. CASE traced
  BY <1>11, tracedInv
<1>12. CASE chooseWindow
  BY <1>12, chooseWindowInv
<1>13. CASE rejectWindow
  BY <1>13, rejectWindowInv
<1>14. CASE backtrack
  BY <1>14, backtrackInv
<1>15. CASE routePlanned
  BY <1>15, routePlannedInv
<1>16. CASE getRobotPositions
  BY <1>16, getRobotPositionsInv
<1> QED
  BY <1>1, <1>2, <1>3, <1>4, <1>5, <1>6, <1>7, <1>8, <1>9, <1>10, <1>11, <1>12, <1>13,
     <1>14, <1>15, <1>16 DEF PlannerStep

\* A step that leaves the planner alone.
LEMMA LMapKept == LMapInv /\ UNCHANGED lmapVars => LMapInv'
<1> SUFFICES ASSUME LMapInv, UNCHANGED lmapVars PROVE LMapInv'
  OBVIOUS
<1>1. RoutesOK' /\ LocksOK'
  BY DEF LMapInv, RoutesOK, LocksOK, lmapVars, redisVars, callVars, lockVars
<1>2. CallOK'
  BY DEF LMapInv, CallOK, Searching, lmapVars, callVars, lockVars
<1>3. SearchOK'
  BY DEF LMapInv, SearchOK, SearchTreeSound, Searching, lmapVars, searchVars
<1>4. PathOK'
  BY DEF LMapInv, PathOK, Windows, lmapVars, searchVars, pathVars
<1>5. PositionsOK'
  BY DEF LMapInv, PositionsOK, lmapVars, callVars
<1> QED
  BY <1>1, <1>2, <1>3, <1>4, <1>5 DEF LMapInv

\* The planner starts idle, with one-point routes.
LEMMA LMapInitInv ==
    ASSUME NEW homes \in [Robot -> Node], NEW t \in Nat, LMapInit(homes, t)
    PROVE  LMapInv
<1>1. /\ robot_position = homes /\ robot_positions = <<>>
      /\ robot_route = [r \in Robot |-> OnePointRoute(homes[r], t)]
      /\ pc = "ready" /\ call = NoCall /\ needToInit = {}
      /\ node_locked_time_window = [n \in Node |-> <<>>] /\ result = <<>>
      /\ tree = <<>> /\ openList = {} /\ openListSet = {} /\ parent_node = 0
      /\ neighbour = 1 /\ iter = 0 /\ nodeVec = <<>> /\ myList = <<>> /\ candidate = 1
  BY DEF LMapInit, NoSearch
<1>2. Len(<<>>) = 0 /\ DOMAIN <<>> = {} /\ \A S : <<>> \in Seq(S)
  OBVIOUS
<1>3. RoutesOK
  BY <1>1, <1>2, OnePointRouteType DEF RoutesOK
<1>4. CallOK
  BY <1>1, <1>2 DEF CallOK, CallRecord, NoCall, Searching
<1>5. LocksOK
  BY <1>1, <1>2 DEF LocksOK
<1>6. SearchOK
  BY <1>1, <1>2 DEF SearchOK, SearchTreeSound, Searching
<1>7. PathOK
  BY <1>1, <1>2 DEF PathOK
<1>8. PositionsOK
  BY <1>1, <1>2, RobotAssumption DEF PositionsOK
<1> QED
  BY <1>3, <1>4, <1>5, <1>6, <1>7, <1>8 DEF LMapInv

--------------------------------------------------------------------------------
(* The lock table holds every route planned around: an invariant relative to
   LMapInv. *)

\* LocksCover, in terms of Held.
LEMMA LocksCoverHeld ==
    LocksCover <=> (PlanningCall =>
        \A route \in LockedRoutes : Held(node_locked_time_window, route))
BY DEF LocksCover, Held

\* What is planned around are routes.
LEMMA LockedRoutesType == LMapInv => LockedRoutes \subseteq Route
<1> SUFFICES ASSUME LMapInv PROVE LockedRoutes \subseteq Route
  OBVIOUS
<1>1. robot_route \in [Robot -> Route] /\ result \in Seq(Route)
  BY DEF LMapInv, RoutesOK
<1>2. Range(result) \subseteq Route
  BY <1>1 DEF Range
<1> QED
  BY <1>1, <1>2 DEF LockedRoutes

\* A step that locks one route, while a call is under way.
LEMMA LockingStep ==
    ASSUME LMapInv, LocksCover, PlanningCall, NEW new \in Route,
           node_locked_time_window' = LockedAndReduced(new),
           LockedRoutes' \subseteq LockedRoutes \union {new}
    PROVE  LocksCover'
<1>1. node_locked_time_window \in [Node -> Seq(TimeWindow)] /\ LockedRoutes \subseteq Route
  BY LockedRoutesType DEF LMapInv, LocksOK
<1>2. \A route \in LockedRoutes : Held(node_locked_time_window, route)
  BY LocksCoverHeld
<1>3. ASSUME NEW route \in LockedRoutes' PROVE Held(node_locked_time_window', route)
  BY <1>1, <1>2, LockedAndReducedHeld
<1> QED
  BY <1>3 DEF LocksCover, Held

\* A step that changes no lock and plans no route.
LEMMA LocksCoverKept ==
    ASSUME LocksCover, PlanningCall \/ ~ PlanningCall',
           UNCHANGED <<robot_route, call, needToInit, lockVars>>
    PROVE  LocksCover'
<1>1. LockedRoutes' = LockedRoutes /\ node_locked_time_window' = node_locked_time_window
  BY DEF LockedRoutes, lockVars
<1> QED
  BY <1>1 DEF LocksCover

\* A call begins with no route locked.
LEMMA serveLocksCover ==
    ASSUME NEW robot_numbers, NEW from_ids, NEW to_ids, NEW t,
           serve(robot_numbers, from_ids, to_ids, t)
    PROVE  LocksCover'
<1>1. /\ call'.robot_numbers = robot_numbers /\ result' = <<>>
      /\ needToInit' = Robot \ Range(robot_numbers)
  BY DEF serve
<1>2. LockedRoutes' = {}
  BY <1>1 DEF LockedRoutes, Range
<1> QED
  BY <1>2 DEF LocksCover

\* Every step of the planner keeps the locks of what it plans around.
LEMMA PlannerStepLocksCover ==
    ASSUME LMapInv, LocksCover, PlannerStep
    PROVE  LocksCover'
<1>1. CASE initLockArea
  <2> DEFINE robot_id == Min(needToInit)
  <2>1. /\ pc = "initLockArea" /\ node_locked_time_window' = LockedAndReduced(robot_route[robot_id])
        /\ needToInit # {} /\ needToInit' = needToInit \ {robot_id}
        /\ robot_route' = robot_route /\ call' = call /\ result' = result
    BY <1>1 DEF initLockArea, redisVars
  <2>2. robot_id \in Robot /\ robot_route[robot_id] \in Route
    BY <2>1, NextToInit DEF LMapInv, RoutesOK
  <2> HIDE DEF robot_id
  <2>3. LockedRoutes' \subseteq LockedRoutes \union {robot_route[robot_id]}
    BY <2>1 DEF LockedRoutes
  <2> QED
    BY <2>1, <2>2, <2>3, LockingStep DEF PlanningCall
<1>2. CASE getRobotPositions \/ locksInitialised
  BY <1>2, LocksCoverKept DEF getRobotPositions, locksInitialised, PlanningCall, redisVars,
                              callVars
<1>3. CASE noStartWindow \/ openListEmpty
  BY <1>3 DEF noStartWindow, openListEmpty, StandDone, LocksCover, PlanningCall
<1>4. CASE \/ startSearch \/ popOpenList \/ skipNeighbour \/ addNeighbour \/ expanded
           \/ traceBack \/ traced
  <2>1. PlanningCall /\ UNCHANGED <<robot_route, call, needToInit, lockVars>>
    BY <1>4 DEF startSearch, popOpenList, skipNeighbour, addNeighbour, LookingAtNeighbour,
                expanded, traceBack, traced, PlanningCall, redisVars, callVars
  <2> QED
    BY <2>1, LocksCoverKept
<1>5. CASE chooseWindow \/ rejectWindow \/ backtrack
  <2>1. PlanningCall /\ UNCHANGED <<robot_route, call, needToInit, lockVars>>
    BY <1>5 DEF chooseWindow, rejectWindow, backtrack, TryingWindow, Choosing,
                PlanningCall, redisVars, callVars
  <2> QED
    BY <2>1, LocksCoverKept
<1>6. CASE routePlanned
  <2>1. /\ pc = "chain" /\ RouteReady /\ result' = Append(result, generateRoute)
        /\ node_locked_time_window' = LockedAndReduced(generateRoute)
        /\ robot_route' = robot_route /\ call' = call /\ needToInit' = needToInit
    BY <1>6 DEF routePlanned, RouteReady, redisVars, callVars
  <2>2. generateRoute \in Route
    BY <2>1, generateRouteType
  <2>3. Range(result') \subseteq Range(result) \union {generateRoute}
    <3>1. result \in Seq(Route)
      BY DEF LMapInv, RoutesOK
    <3> DEFINE new == generateRoute
    <3> HIDE DEF new
    <3>2. result' = Append(result, new)
      BY <2>1 DEF new
    <3>3. /\ DOMAIN result' = 1 .. Len(result) + 1 /\ DOMAIN result = 1 .. Len(result)
          /\ Len(result) \in Nat
          /\ \A j \in 1 .. Len(result) : result'[j] = result[j]
          /\ result'[Len(result) + 1] = new
      BY <3>1, <3>2
    <3>4. \A j \in DOMAIN result' : result'[j] \in Range(result) \union {new}
      <4> SUFFICES ASSUME NEW j \in 1 .. Len(result) + 1
                   PROVE  result'[j] \in Range(result) \union {new}
        BY <3>3
      <4>1. j \in 1 .. Len(result) \/ j = Len(result) + 1
        BY <3>3
      <4> QED
        BY <3>3, <4>1 DEF Range
    <3> QED
      BY <3>4 DEF Range, new
  <2>4. LockedRoutes' \subseteq LockedRoutes \union {generateRoute}
    BY <2>1, <2>3 DEF LockedRoutes
  <2> QED
    BY <2>1, <2>2, <2>4, LockingStep DEF PlanningCall
<1> QED
  BY <1>1, <1>2, <1>3, <1>4, <1>5, <1>6 DEF PlannerStep

--------------------------------------------------------------------------------
(* The routes the planner returns: why they can be driven, and why they keep clear of
   the routes they were planned around.  What holds of every node of the search tree, of
   the choices already rejected on the path, and of the lock table is more than any run
   of the planner reads off one state; the theorems about routes (PlannerProofs,
   TaskServerProofs) are consequences of it, relative to LMapInv and LocksCover, the
   types and the locks.  Most of what follows is for three robots and one lock node per
   node, SmallFleet and OwnLocks of LMap. *)

\* An edge of the map.
Hop(n, m, tt) ==
    \E j \in DOMAIN neighbour_node_list[n] :
        neighbour_node_list[n][j] = m /\ travel_time_list[n][j] = tt

\* A route a robot can follow: no wait is negative, one edge after the other,
\* and no node twice.
Drivable(route) ==
    /\ \A i \in 1 .. Len(route.vps) : route.wts[i] >= 0 /\ ArrivalTime(route, i) < INF
    /\ \A i \in 1 .. Len(route.vps) - 1 :
         Hop(route.vps[i], route.vps[i + 1], route.tts[i])
    /\ \A i, j \in 1 .. Len(route.vps) : route.vps[i] = route.vps[j] => i = j

RoutesDrivable ==
    /\ \A r \in Robot : Drivable(robot_route[r])
    /\ \A j \in DOMAIN result : Drivable(result[j])
    /\ call.start_working_time < INF

\* Locks in order, with gaps between them, that begin some day.
InOrderAndApart(locked) ==
    /\ Separated(locked)
    /\ WellFormed(locked)
    /\ \A i \in DOMAIN locked : locked[i].first < INF

(* Each route that is locked adds at most one window to a list: there is room
   for those still to come. *)
TableOK ==
    PlanningCall =>
        /\ pc \notin {"getRobotPositions", "initLockArea"} => needToInit = {}
        /\ \A n \in Node :
             /\ InOrderAndApart(node_locked_time_window[n])
             /\ Len(node_locked_time_window[n]) + Cardinality(needToInit)
                    + Len(call.robot_numbers) <= robot_number + Len(result)

--------------------------------------------------------------------------------
(* The lock table. *)

\* A route that can be driven locks a node once at most, when it is there.
LEMMA LockedOnce ==
    ASSUME OwnLocks, NEW route \in Route, Drivable(route), NEW n \in Node
    PROVE  /\ LockedBy(route, n) \in Seq(TimeWindow)
           /\ Len(LockedBy(route, n)) <= 1
           /\ \A r \in DOMAIN LockedBy(route, n) :
                /\ LockedBy(route, n)[r].first <= LockedBy(route, n)[r].second
                /\ LockedBy(route, n)[r].first < INF
<1> DEFINE windows == [i \in DOMAIN route.vps |->
                          [first |-> ArrivalTime(route, i), second |-> LockEnd(route, i)]]
           K == {i \in DOMAIN route.vps : n \in Range(lock_node_list[route.vps[i]])}
<1>1. /\ Len(route.vps) \in Nat /\ DOMAIN route.vps = 1 .. Len(route.vps)
      /\ \A i \in DOMAIN route.vps : route.vps[i] \in Node /\ route.wts[i] \in Int
  BY RouteParts
<1>2. \A i \in DOMAIN route.vps :
         /\ ArrivalTime(route, i) \in Int /\ LockEnd(route, i) \in Int
         /\ ArrivalTime(route, i) < INF /\ ArrivalTime(route, i) <= LockEnd(route, i)
  BY <1>1, ArrivalTimes, InfAssumption DEF Drivable, LockEnd, LockTail
<1>3. windows \in Seq(TimeWindow) /\ DOMAIN windows = DOMAIN route.vps
  <2>1. windows \in [1 .. Len(route.vps) -> TimeWindow]
    BY <1>1, <1>2 DEF TimeWindow, Instant
  <2> QED
    BY <1>1, <2>1
<1>4. \A i \in DOMAIN route.vps : /\ windows[i].first <= windows[i].second
                                  /\ windows[i].first < INF
  BY <1>2
<1>5. LockedBy(route, n) = Subsequence(windows, K)
  BY DEF LockedBy
<1>6. \A i \in K, j \in K : i = j
  <2>1. \A i \in K : i \in DOMAIN route.vps /\ route.vps[i] = n
    BY <1>1 DEF OwnLocks
  <2> HIDE DEF K
  <2> QED
    BY <1>1, <2>1 DEF Drivable
<1>7. K \in SUBSET DOMAIN windows
  BY <1>3
<1> HIDE DEF windows, K
<1>8. Cardinality(K) <= 1
  <2>1. CASE K = {}
    BY <2>1, FS_EmptySet
  <2>2. CASE K # {}
    <3>1. PICK i \in K : TRUE
      BY <2>2
    <3>2. K = {i}
      BY <1>6, <3>1
    <3>3. Cardinality({i}) = 1
      BY FS_Singleton
    <3> QED
      BY <3>2, <3>3
  <2> QED
    BY <2>1, <2>2
<1>9. \A r \in DOMAIN Subsequence(windows, K) : \E i \in K : Subsequence(windows, K)[r] = windows[i]
  BY <1>3, <1>7, SubsequenceRange
<1>10. Subsequence(windows, K) \in Seq(TimeWindow) /\ Len(Subsequence(windows, K)) <= 1
  BY <1>3, <1>7, <1>8, SubsequenceType
<1> QED
  BY <1>3, <1>4, <1>5, <1>7, <1>9, <1>10

\* Reducing a list of well-formed windows leaves well-formed windows that begin
\* no later.
LEMMA ReductionWellFormed ==
    ASSUME NEW w \in Seq(TimeWindow), WellFormed(w), \A i \in DOMAIN w : w[i].first < INF
    PROVE  \A r \in DOMAIN TimeWindowReduction4NodeHelper(w) :
              /\ TimeWindowReduction4NodeHelper(w)[r].first
                    <= TimeWindowReduction4NodeHelper(w)[r].second
              /\ TimeWindowReduction4NodeHelper(w)[r].first < INF
<1> DEFINE pieces == [i \in DOMAIN w |-> Piece(w, i)]
           K == {i \in DOMAIN w : IsCut(w, i)}
<1>1. Len(w) \in Nat /\ DOMAIN w = 1 .. Len(w)
  OBVIOUS
<1>2. \A i \in DOMAIN w : /\ Piece(w, i) \in TimeWindow
                          /\ Piece(w, i).first <= w[i].first
                          /\ w[i].second <= Piece(w, i).second
  <2> SUFFICES ASSUME NEW i \in DOMAIN w
               PROVE  /\ Piece(w, i) \in TimeWindow
                      /\ Piece(w, i).first <= w[i].first
                      /\ w[i].second <= Piece(w, i).second
    OBVIOUS
  <2>1. i \in 1 .. i /\ \A c \in i .. i - 1 : ~ IsCut(w, c)
    BY <1>1
  <2> QED
    BY <2>1, PieceSpans
<1>3. \A i \in DOMAIN w : Piece(w, i).first <= Piece(w, i).second /\ Piece(w, i).first < INF
  <2> SUFFICES ASSUME NEW i \in DOMAIN w
               PROVE  Piece(w, i).first <= Piece(w, i).second /\ Piece(w, i).first < INF
    OBVIOUS
  <2>1. /\ w[i].first \in Int /\ w[i].second \in Int
        /\ Piece(w, i).first \in Int /\ Piece(w, i).second \in Int
    BY <1>2, WindowParts
  <2>2. w[i].first <= w[i].second /\ w[i].first < INF
    BY DEF WellFormed
  <2> QED
    BY <1>2, <2>1, <2>2, InfAssumption
<1>4. pieces \in Seq(TimeWindow) /\ DOMAIN pieces = DOMAIN w
  <2>1. pieces \in [1 .. Len(w) -> TimeWindow]
    BY <1>1, <1>2
  <2> QED
    BY <1>1, <2>1
<1>5. \A i \in DOMAIN w : pieces[i] = Piece(w, i)
  OBVIOUS
<1>6. TimeWindowReduction4NodeHelper(w) = Subsequence(pieces, K) /\ K \in SUBSET DOMAIN pieces
  BY <1>4 DEF TimeWindowReduction4NodeHelper
<1> HIDE DEF pieces, K
<1>7. \A r \in DOMAIN Subsequence(pieces, K) : \E i \in K : Subsequence(pieces, K)[r] = pieces[i]
  BY <1>4, <1>6, SubsequenceRange
<1> QED
  BY <1>3, <1>4, <1>5, <1>6, <1>7

\* Locking one more route: a list that has at most one window gets a second at
\* most, and stays in order.
LEMMA LockingInOrder ==
    ASSUME OwnLocks, node_locked_time_window \in [Node -> Seq(TimeWindow)],
           NEW route \in Route, Drivable(route), NEW n \in Node,
           InOrderAndApart(node_locked_time_window[n]), Len(node_locked_time_window[n]) <= 1
    PROVE  /\ InOrderAndApart(LockedAndReduced(route)[n])
           /\ Len(LockedAndReduced(route)[n]) <= Len(node_locked_time_window[n]) + 1
<1> DEFINE old == node_locked_time_window[n]
           new == LockedBy(route, n)
           both == old \o new
<1>1. /\ old \in Seq(TimeWindow) /\ new \in Seq(TimeWindow)
      /\ Len(old) \in Nat /\ Len(new) \in Nat /\ Len(old) <= 1 /\ Len(new) <= 1
      /\ \A i \in DOMAIN old : old[i].first <= old[i].second /\ old[i].first < INF
      /\ \A i \in DOMAIN new : new[i].first <= new[i].second /\ new[i].first < INF
  <2>1. new \in Seq(TimeWindow) /\ Len(new) <= 1
        /\ \A i \in DOMAIN new : new[i].first <= new[i].second /\ new[i].first < INF
    BY LockedOnce
  <2> HIDE DEF new
  <2> QED
    BY <2>1 DEF InOrderAndApart, WellFormed
<1> DEFINE reduced == TimeWindowReduction4NodeHelper(both)
<1>2. LockedAndReduced(route)[n] = reduced
  BY DEF LockedAndReduced
<1> HIDE DEF old, new
<1>3. /\ both \in Seq(TimeWindow) /\ Len(both) = Len(old) + Len(new)
      /\ DOMAIN both = 1 .. Len(old) + Len(new)
      /\ \A i \in 1 .. Len(old) + Len(new) :
           both[i] = IF i <= Len(old) THEN old[i] ELSE new[i - Len(old)]
  BY <1>1, ConcatenationElements
<1> HIDE DEF both
<1>4. \A i \in DOMAIN both : both[i].first <= both[i].second /\ both[i].first < INF
  <2> SUFFICES ASSUME NEW i \in DOMAIN both
               PROVE  both[i].first <= both[i].second /\ both[i].first < INF
    OBVIOUS
  <2>1. CASE i <= Len(old)
    <3>1. i \in DOMAIN old /\ both[i] = old[i]
      BY <1>1, <1>3, <2>1
    <3> QED
      BY <1>1, <3>1
  <2>2. CASE ~ (i <= Len(old))
    <3>1. i - Len(old) \in DOMAIN new /\ both[i] = new[i - Len(old)]
      BY <1>1, <1>3, <2>2
    <3> QED
      BY <1>1, <3>1
  <2> QED
    BY <2>1, <2>2
<1>5. WellFormed(both) /\ Len(both) <= 2 /\ Len(both) <= Len(old) + 1
  BY <1>1, <1>3, <1>4 DEF WellFormed
<1>6. /\ Len(reduced) <= Len(both) /\ Separated(reduced)
      /\ reduced \in Seq(TimeWindow)
      /\ \A r \in DOMAIN reduced : reduced[r].first <= reduced[r].second /\ reduced[r].first < INF
  BY <1>3, <1>4, <1>5, ReductionOfTwo, ReductionWellFormed, ReductionType
<1> HIDE DEF reduced
<1>7. InOrderAndApart(reduced)
  BY <1>6 DEF InOrderAndApart, WellFormed
<1>8. Len(reduced) <= Len(old) + 1
  <2>1. Len(reduced) \in Nat /\ Len(both) \in Nat
    BY <1>3, <1>6
  <2> QED
    BY <1>1, <1>5, <1>6, <2>1
<1> QED
  BY <1>2, <1>7, <1>8 DEF old

\* With room for two windows and another one to come, there is one at most; and
\* taking one in uses the room kept for it.
LEMMA RoomInList ==
    ASSUME NEW old \in Nat, NEW left \in Nat, NEW robots \in Nat, NEW fleet \in Nat,
           NEW done \in Nat, old + left + robots <= fleet + done
    PROVE  /\ fleet <= 3 /\ done + 2 <= left + robots => old <= 1
           /\ \A new \in Nat : new <= old + 1 =>
                /\ new + (left - 1) + robots <= fleet + done
                /\ new + left + robots <= fleet + (done + 1)
  OBVIOUS

\* A call begins with an empty table, and names each of its robots once.
LEMMA serveTable ==
    ASSUME LMapInv,
           NEW robot_numbers \in Seq(Robot), NEW from_ids, NEW to_ids, NEW t,
           serve(robot_numbers, from_ids, to_ids, t),
           Cardinality(Robot \ Range(robot_numbers)) + Len(robot_numbers) <= robot_number
    PROVE  TableOK'
<1>1. /\ pc' = "getRobotPositions" /\ result' = <<>> /\ call'.robot_numbers = robot_numbers
      /\ needToInit' = Robot \ Range(robot_numbers)
      /\ node_locked_time_window' = [n \in Node |-> <<>>]
  BY DEF serve
<1>2. InOrderAndApart(<<>>)
  BY DEF InOrderAndApart, Separated, WellFormed
<1>3. IsFiniteSet(Robot \ Range(robot_numbers))
  <2>1. IsFiniteSet(Robot)
    BY RobotAssumption, FS_Interval DEF Robot
  <2> QED
    BY <2>1, FS_Subset
<1>4. /\ Cardinality(Robot \ Range(robot_numbers)) \in Nat /\ Len(robot_numbers) \in Nat
      /\ Len(<<>>) = 0 /\ robot_number \in Nat
  BY <1>3, RobotAssumption, FS_CardinalityType
<1> DEFINE left == Cardinality(Robot \ Range(robot_numbers))
<1> HIDE DEF left
<1>5. 0 + left + Len(robot_numbers) <= robot_number + 0
  BY <1>4 DEF left
<1>6. \A n \in Node : node_locked_time_window'[n] = <<>>
  BY <1>1
<1> QED
  BY <1>1, <1>2, <1>4, <1>5, <1>6 DEF TableOK, left

\* A step of a call that locks nothing.
LEMMA TableKept ==
    ASSUME TableOK, PlanningCall \/ ~ PlanningCall',
           UNCHANGED <<call, needToInit, lockVars>>,
           \/ pc \notin {"getRobotPositions", "initLockArea"}
           \/ pc' \in {"getRobotPositions", "initLockArea"}
           \/ needToInit = {}
    PROVE  TableOK'
BY DEF TableOK, lockVars

\* Locking one more route of the fleet while there is another one to come.
LEMMA TableLocking ==
    ASSUME OwnLocks, LMapInv, NEW route \in Route, Drivable(route),
           node_locked_time_window' = LockedAndReduced(route),
           \A n \in Node : /\ InOrderAndApart(node_locked_time_window[n])
                           /\ Len(node_locked_time_window[n]) <= 1
    PROVE  \A n \in Node : /\ InOrderAndApart(node_locked_time_window'[n])
                           /\ Len(node_locked_time_window'[n]) \in Nat
                           /\ Len(node_locked_time_window'[n])
                                  <= Len(node_locked_time_window[n]) + 1
<1>1. node_locked_time_window \in [Node -> Seq(TimeWindow)]
  BY DEF LMapInv, LocksOK
<1>2. LockedAndReduced(route) \in [Node -> Seq(TimeWindow)]
  BY <1>1, LockedAndReducedType
<1> QED
  BY <1>1, <1>2, LockingInOrder

\* Every step of the planner keeps the table in order.
LEMMA PlannerStepTable ==
    ASSUME SmallFleet, OwnLocks, LMapInv, RoutesDrivable, TableOK,
           RouteReady => Drivable(generateRoute), PlannerStep
    PROVE  TableOK'
<1>1. /\ node_locked_time_window \in [Node -> Seq(TimeWindow)]
      /\ call.robot_numbers \in Seq(Robot) /\ result \in Seq(Route)
      /\ Len(call.robot_numbers) \in Nat /\ Len(result) \in Nat
      /\ \A n \in Node : Len(node_locked_time_window[n]) \in Nat
      /\ robot_number \in Nat /\ robot_number <= 3
  BY RobotAssumption DEF LMapInv, LocksOK, CallOK, CallRecord, RoutesOK, SmallFleet
<1>2. IsFiniteSet(needToInit) /\ Cardinality(needToInit) \in Nat
  <2>1. IsFiniteSet(Robot)
    BY RobotAssumption, FS_Interval DEF Robot
  <2>2. IsFiniteSet(needToInit)
    BY <2>1, FS_Subset DEF LMapInv, LocksOK
  <2> QED
    BY <2>2, FS_CardinalityType
<1>3. CASE initLockArea
  <2> DEFINE robot_id == Min(needToInit)
             left == Cardinality(needToInit)
  <2>1. /\ pc = "initLockArea" /\ pc' = "initLockArea" /\ needToInit # {}
        /\ node_locked_time_window' = LockedAndReduced(robot_route[robot_id])
        /\ needToInit' = needToInit \ {robot_id}
        /\ robot_route' = robot_route /\ call' = call /\ result' = result
    BY <1>3 DEF initLockArea, redisVars
  <2>2. /\ robot_id \in Robot /\ robot_route[robot_id] \in Route
        /\ Drivable(robot_route[robot_id]) /\ robot_id \in needToInit
    <3>1. needToInit \subseteq 1 .. robot_number
      BY DEF LMapInv, LocksOK, Robot
    <3>2. needToInit \in SUBSET Int
      BY <1>1, <3>1
    <3>3. robot_id \in needToInit
      BY <1>2, <2>1, <3>2, MinOfFinite
    <3> QED
      BY <3>1, <3>3 DEF LMapInv, RoutesOK, RoutesDrivable, Robot
  <2> HIDE DEF robot_id
  <2>3. Cardinality(needToInit \ {robot_id}) = left - 1
    BY <1>2, <2>2, FS_RemoveElement
  <2>4. left \in Nat /\ left >= 1
    <3>1. Cardinality(needToInit \ {robot_id}) \in Nat
      BY <1>2, FS_RemoveElement, FS_CardinalityType
    <3> QED
      BY <1>2, <2>3, <3>1
  <2>5. \A n \in Node :
           /\ InOrderAndApart(node_locked_time_window[n])
           /\ Len(node_locked_time_window[n]) + left + Len(call.robot_numbers)
                  <= robot_number + Len(result)
    BY <2>1 DEF TableOK, PlanningCall
  <2>6. Len(call.robot_numbers) >= 1 /\ result = <<>> /\ Len(result) = 0
    BY <2>1 DEF LMapInv, CallOK
  <2> HIDE DEF left
  <2>7. \A n \in Node : Len(node_locked_time_window[n]) <= 1
    <3> SUFFICES ASSUME NEW n \in Node PROVE Len(node_locked_time_window[n]) <= 1
      OBVIOUS
    <3>1. Len(node_locked_time_window[n]) + left + Len(call.robot_numbers)
              <= robot_number + Len(result)
      BY <2>5
    <3>2. Len(result) + 2 <= left + Len(call.robot_numbers)
      BY <1>1, <2>4, <2>6
    <3>3. Len(node_locked_time_window[n]) \in Nat
      BY DEF LMapInv, LocksOK
    <3>4. /\ Len(call.robot_numbers) \in Nat /\ Len(result) \in Nat
          /\ robot_number \in Nat /\ robot_number <= 3
      BY <1>1, <2>6
    <3>5. PICK old \in Nat, robots \in Nat, done \in Nat :
             /\ old = Len(node_locked_time_window[n])
             /\ robots = Len(call.robot_numbers) /\ done = Len(result)
      BY <3>3, <3>4
    <3>6. old + left + robots <= robot_number + done /\ done + 2 <= left + robots
      BY <3>1, <3>2, <3>5
    <3>7. old <= 1
      BY <2>4, <3>4, <3>6, RoomInList
    <3> QED
      BY <3>5, <3>7
  <2>8. \A n \in Node : /\ InOrderAndApart(node_locked_time_window'[n])
                        /\ Len(node_locked_time_window'[n]) \in Nat
                        /\ Len(node_locked_time_window'[n])
                              <= Len(node_locked_time_window[n]) + 1
    BY <2>1, <2>2, <2>5, <2>7, TableLocking
  <2>9. \A n \in Node : Len(node_locked_time_window'[n]) + (left - 1)
                            + Len(call.robot_numbers) <= robot_number + Len(result)
    <3> SUFFICES ASSUME NEW n \in Node
                 PROVE  Len(node_locked_time_window'[n]) + (left - 1)
                            + Len(call.robot_numbers) <= robot_number + Len(result)
      OBVIOUS
    <3>1. /\ Len(node_locked_time_window[n]) + left + Len(call.robot_numbers)
                 <= robot_number + Len(result)
          /\ Len(node_locked_time_window'[n]) <= Len(node_locked_time_window[n]) + 1
          /\ Len(node_locked_time_window'[n]) \in Nat /\ Len(node_locked_time_window[n]) \in Nat
      BY <1>1, <2>5, <2>8
    <3> QED
      BY <1>1, <2>4, <3>1, RoomInList
  <2> QED
    BY <2>1, <2>3, <2>8, <2>9 DEF TableOK
<1>4. CASE getRobotPositions \/ locksInitialised
  BY <1>4, TableKept DEF getRobotPositions, locksInitialised, PlanningCall, callVars
<1>5. CASE noStartWindow \/ openListEmpty
  BY <1>5 DEF noStartWindow, openListEmpty, StandDone, TableOK, PlanningCall
<1>6. CASE \/ startSearch \/ popOpenList \/ skipNeighbour \/ addNeighbour \/ expanded
           \/ traceBack \/ traced
  <2>1. /\ PlanningCall /\ pc \notin {"getRobotPositions", "initLockArea"}
        /\ UNCHANGED <<call, needToInit, lockVars>>
    BY <1>6 DEF startSearch, popOpenList, skipNeighbour, addNeighbour, LookingAtNeighbour,
                expanded, traceBack, traced, PlanningCall, callVars
  <2> QED
    BY <2>1, TableKept
<1>7. CASE chooseWindow \/ rejectWindow \/ backtrack
  <2>1. /\ PlanningCall /\ pc \notin {"getRobotPositions", "initLockArea"}
        /\ UNCHANGED <<call, needToInit, lockVars>>
    BY <1>7 DEF chooseWindow, rejectWindow, backtrack, TryingWindow, Choosing,
                PlanningCall, callVars
  <2> QED
    BY <2>1, TableKept
<1>8. CASE routePlanned
  <2>1. /\ pc = "chain" /\ RouteReady /\ result' = Append(result, generateRoute)
        /\ node_locked_time_window' = LockedAndReduced(generateRoute)
        /\ pc' = IF k = Len(call.robot_numbers) THEN "done" ELSE "start"
        /\ call' = call /\ needToInit' = needToInit
    BY <1>8 DEF routePlanned, RouteReady, callVars
  <2>2. generateRoute \in Route /\ Drivable(generateRoute)
    BY <2>1, generateRouteType
  <2> DEFINE new == generateRoute
  <2> HIDE DEF new
  <2>3. Len(result') = Len(result) + 1
    <3>1. result' = Append(result, new) /\ new \in Route
      BY <2>1, <2>2 DEF new
    <3> QED
      BY <1>1, <3>1
  <2> SUFFICES ASSUME k # Len(call.robot_numbers) PROVE TableOK'
    BY <2>1 DEF TableOK, PlanningCall
  <2>4. Len(result) + 2 <= Len(call.robot_numbers)
    <3>1. Len(result) < Len(call.robot_numbers)
      BY <2>1 DEF LMapInv, CallOK, Searching
    <3> QED
      BY <1>1, <3>1 DEF k
  <2>5. /\ needToInit = {} /\ Cardinality(needToInit) = 0
        /\ \A n \in Node :
             /\ InOrderAndApart(node_locked_time_window[n])
             /\ Len(node_locked_time_window[n]) + 0 + Len(call.robot_numbers)
                    <= robot_number + Len(result)
    <3>1. needToInit = {}
      BY <2>1 DEF TableOK, PlanningCall
    <3>2. Cardinality(needToInit) = 0
      BY <3>1, FS_EmptySet
    <3> QED
      BY <2>1, <3>1, <3>2 DEF TableOK, PlanningCall
  <2>6. \A n \in Node : Len(node_locked_time_window[n]) <= 1
    <3> SUFFICES ASSUME NEW n \in Node PROVE Len(node_locked_time_window[n]) <= 1
      OBVIOUS
    <3>1. Len(node_locked_time_window[n]) + 0 + Len(call.robot_numbers)
              <= robot_number + Len(result)
      BY <2>5
    <3>2. Len(result) + 2 <= 0 + Len(call.robot_numbers)
      BY <1>1, <2>4
    <3> QED
      BY <1>1, <3>1, <3>2, RoomInList
  <2>7. \A n \in Node : /\ InOrderAndApart(node_locked_time_window'[n])
                        /\ Len(node_locked_time_window'[n]) \in Nat
                        /\ Len(node_locked_time_window'[n])
                              <= Len(node_locked_time_window[n]) + 1
    BY <2>1, <2>2, <2>5, <2>6, TableLocking
  <2>8. \A n \in Node : Len(node_locked_time_window'[n]) + 0 + Len(call.robot_numbers)
                            <= robot_number + (Len(result) + 1)
    <3> SUFFICES ASSUME NEW n \in Node
                 PROVE  Len(node_locked_time_window'[n]) + 0 + Len(call.robot_numbers)
                            <= robot_number + (Len(result) + 1)
      OBVIOUS
    <3>1. /\ Len(node_locked_time_window[n]) + 0 + Len(call.robot_numbers)
                 <= robot_number + Len(result)
          /\ Len(node_locked_time_window'[n]) <= Len(node_locked_time_window[n]) + 1
          /\ Len(node_locked_time_window'[n]) \in Nat /\ Len(node_locked_time_window[n]) \in Nat
      BY <1>1, <2>5, <2>7
    <3> QED
      BY <1>1, <3>1, RoomInList
  <2> QED
    BY <2>1, <2>3, <2>5, <2>7, <2>8 DEF TableOK
<1> QED
  BY <1>3, <1>4, <1>5, <1>6, <1>7, <1>8 DEF PlannerStep

--------------------------------------------------------------------------------
(* The stored routes and those of the call can be driven. *)

\* So can standing still.
LEMMA OnePointDrivable ==
    ASSUME NEW n \in Node, NEW t \in Nat, t < INF
    PROVE  Drivable(OnePointRoute(n, t))
<1> DEFINE route == OnePointRoute(n, t)
<1>1. route \in Route
  BY OnePointRouteType
<1>2. /\ route.vps = <<n>> /\ route.wts = <<0>>
      /\ route.arr_and_depar_time[1].first = t
  BY DEF OnePointRoute
<1>3. Len(route.vps) = 1 /\ \A i \in 1 .. 1 : i = 1
  BY <1>2
<1>4. ArrivalTime(route, 1) = t
  BY <1>1, <1>2, ArrivalTimes
<1> HIDE DEF route
<1>5. Drivable(route)
  BY <1>2, <1>3, <1>4 DEF Drivable
<1> QED
  BY <1>5 DEF route

\* A step of the planner adds the route it has found, or has everyone stand still.
LEMMA PlannerStepDrivable ==
    ASSUME LMapInv, RoutesDrivable, RouteReady => Drivable(generateRoute), PlannerStep
    PROVE  RoutesDrivable'
<1>1. robot_route' = robot_route /\ call' = call
  BY DEF PlannerStep, getRobotPositions, initLockArea, locksInitialised, noStartWindow,
         StandDone, startSearch,
         openListEmpty, popOpenList, skipNeighbour, addNeighbour, expanded, traceBack, traced,
         chooseWindow, rejectWindow, backtrack, routePlanned, redisVars, callVars
<1>2. SUFFICES ASSUME NEW j \in DOMAIN result' PROVE Drivable(result'[j])
  BY <1>1 DEF RoutesDrivable
<1>3. CASE noStartWindow \/ openListEmpty
  <2>1. result' = [l \in DOMAIN call.robot_numbers |->
                      OnePointRoute(robot_positions[call.robot_numbers[l]],
                                    call.start_working_time)]
    BY <1>3 DEF noStartWindow, openListEmpty, StandDone
  <2>2. /\ call.robot_numbers \in Seq(Robot) /\ call.start_working_time \in Nat
        /\ robot_positions \in [Robot -> Node] /\ call.start_working_time < INF
    BY <1>3 DEF noStartWindow, openListEmpty, LMapInv, CallOK, CallRecord, PositionsOK,
                RoutesDrivable
  <2>3. j \in DOMAIN call.robot_numbers /\ robot_positions[call.robot_numbers[j]] \in Node
    BY <2>1, <2>2
  <2> QED
    BY <2>1, <2>2, <2>3, OnePointDrivable
<1>4. CASE routePlanned
  <2>1. result' = Append(result, generateRoute) /\ RouteReady
    BY <1>4 DEF routePlanned, RouteReady
  <2>2. Drivable(generateRoute) /\ result \in Seq(Route)
    BY <2>1 DEF LMapInv, RoutesOK
  <2> DEFINE new == generateRoute
  <2> HIDE DEF new
  <2>3. \/ j \in DOMAIN result /\ result'[j] = result[j]
        \/ result'[j] = new
    BY <2>1, <2>2 DEF new
  <2> QED
    BY <2>2, <2>3 DEF RoutesDrivable, new
<1>5. CASE result' = result
  BY <1>5 DEF RoutesDrivable
<1>6. noStartWindow \/ openListEmpty \/ routePlanned \/ result' = result
  BY DEF PlannerStep, getRobotPositions, initLockArea, locksInitialised, startSearch,
         popOpenList, skipNeighbour, addNeighbour, expanded, traceBack, traced,
         chooseWindow, rejectWindow, backtrack, lockVars
<1> QED
  BY <1>3, <1>4, <1>5, <1>6

--------------------------------------------------------------------------------
(* The search tree. *)

Arrivals(n) == tree[n].feasible_arrival_time

\* The window shares no instant with a lock of the node.
ApartFrom(w, node_id) ==
    \A i \in DOMAIN node_locked_time_window[node_id] :
        Apart(w, node_locked_time_window[node_id][i])

\* A robot that arrives in v can arrive tt later in w, if it waits in between,
\* and w is closed by the time it would not find v open.
Reaches(v, tt, w) ==
    /\ v.first + tt <= w.first
    /\ v.second # INF => w.second <= v.second + tt

WindowsOK(n) ==
    /\ Arrivals(n) # <<>>
    /\ Sequential(Arrivals(n))
    /\ \A i \in DOMAIN Arrivals(n) :
         /\ Arrivals(n)[i].first < Arrivals(n)[i].second
         /\ Arrivals(n)[i].second <= INF
         /\ ApartFrom(Arrivals(n)[i], tree[n].node_id)

RootOK(n) ==
    /\ tree[n].node_id = start_id
    /\ \A i \in DOMAIN Arrivals(n) : Arrivals(n)[i].first >= call.start_working_time

EdgeOK(n) ==
    LET parent == tree[n].pre_node
        tt     == tree[n].travel_time_from_parent
    IN  /\ Hop(tree[parent].node_id, tree[n].node_id, tt)
        /\ \A i \in DOMAIN Arrivals(n) :
             /\ \E j \in DOMAIN Arrivals(parent) :
                   Reaches(Arrivals(parent)[j], tt, Arrivals(n)[i])
             /\ tt > 1 => ApartFrom(Arrivals(n)[i], tree[parent].node_id)

(* Every node of the tree can be reached from its parent at the times it has,
   and does not meet a lock then. *)
TreeOK ==
    \A n \in DOMAIN tree :
        /\ WindowsOK(n)
        /\ tree[n].pre_node = 0 => RootOK(n)
        /\ tree[n].pre_node # 0 => EdgeOK(n)

\* A legal interval ends when a lock begins, or never.
LEMMA LegalEnds ==
    ASSUME NEW locked \in Seq(TimeWindow), InOrderAndApart(locked)
    PROVE  \A i \in DOMAIN getLegalInterVals4Node(locked) :
              getLegalInterVals4Node(locked)[i].second <= INF
<1> DEFINE legal == getLegalInterVals4Node(locked)
<1>1. PICK skip \in {0, 1} : \A i \in DOMAIN legal :
                                /\ i + skip - 1 \in 0 .. Len(locked)
                                /\ legal[i] = Gap(locked, i + skip - 1)
  BY LegalGaps
<1> HIDE DEF legal
<1> SUFFICES ASSUME NEW i \in DOMAIN legal PROVE legal[i].second <= INF
  BY DEF legal
<1> DEFINE g == i + skip - 1
<1>2. g \in 0 .. Len(locked) /\ legal[i] = Gap(locked, g)
  BY <1>1
<1> HIDE DEF g
<1>3. legal[i].second = IF g = Len(locked) THEN INF ELSE locked[g + 1].first
  BY <1>2 DEF Gap
<1>4. g # Len(locked) => /\ g + 1 \in DOMAIN locked /\ locked[g + 1].first < INF
                         /\ locked[g + 1].first \in Int
  <2>1. g # Len(locked) => g + 1 \in DOMAIN locked
    BY <1>2
  <2>2. \A j \in DOMAIN locked : locked[j] \in TimeWindow
    OBVIOUS
  <2> QED
    BY <2>1, <2>2, WindowParts DEF InOrderAndApart
<1> QED
  BY <1>3, <1>4, InfAssumption

\* Windows within the legal intervals of a node do not meet its locks.
LEMMA InsideLegal ==
    ASSUME NEW n \in Node, node_locked_time_window[n] \in Seq(TimeWindow),
           InOrderAndApart(node_locked_time_window[n]),
           NEW v \in Seq(TimeWindow),
           Inside(v, getLegalInterVals4Node(node_locked_time_window[n]))
    PROVE  \A i \in DOMAIN v : v[i].second <= INF /\ ApartFrom(v[i], n)
<1> DEFINE locked == node_locked_time_window[n]
           legal == getLegalInterVals4Node(locked)
<1>1. /\ legal \in Seq(TimeWindow) /\ locked \in Seq(TimeWindow)
      /\ \A i \in DOMAIN legal : legal[i].second <= INF
      /\ \A i \in DOMAIN legal, j \in DOMAIN locked : Disjoint(legal[i], locked[j])
  BY LegalType, LegalEnds, LegalOfSeparated DEF InOrderAndApart
<1> SUFFICES ASSUME NEW i \in DOMAIN v
             PROVE  v[i].second <= INF /\ ApartFrom(v[i], n)
  OBVIOUS
<1>2. PICK m \in DOMAIN legal : legal[m].first <= v[i].first /\ v[i].second <= legal[m].second
  BY DEF Inside
<1>3. ApartFrom(v[i], n) <=> \A j \in DOMAIN locked : Apart(v[i], locked[j])
  BY DEF ApartFrom
<1> HIDE DEF legal, locked
<1>4. /\ v[i].first \in Int /\ v[i].second \in Int
      /\ legal[m].first \in Int /\ legal[m].second \in Int
  <2>1. v[i] \in TimeWindow /\ legal[m] \in TimeWindow
    BY <1>1
  <2> QED
    BY <2>1, WindowParts
<1>5. ASSUME NEW j \in DOMAIN locked PROVE Apart(v[i], locked[j])
  <2>1. locked[j].first \in Int /\ locked[j].second \in Int
    <3>1. locked[j] \in TimeWindow
      BY <1>1
    <3> QED
      BY <3>1, WindowParts
  <2>2. legal[m].second <= locked[j].first \/ locked[j].second <= legal[m].first
    BY <1>1 DEF Disjoint
  <2>3. v[i].second <= locked[j].first \/ locked[j].second <= v[i].first
    BY <1>2, <1>4, <2>1, <2>2
  <2> QED
    BY <2>3 DEF Apart
<1>6. v[i].second <= INF
  BY <1>1, <1>2, <1>4, InfAssumption
<1> QED
  BY <1>3, <1>5, <1>6

\* The table of a call under way.
LEMMA TableTypes ==
    ASSUME LMapInv, TableOK, PlanningCall
    PROVE  /\ node_locked_time_window \in [Node -> Seq(TimeWindow)]
           /\ \A n \in Node : /\ node_locked_time_window[n] \in Seq(TimeWindow)
                              /\ InOrderAndApart(node_locked_time_window[n])
                              /\ Separated(node_locked_time_window[n])
                              /\ WellFormed(node_locked_time_window[n])
BY DEF LMapInv, LocksOK, TableOK, InOrderAndApart

\* The windows a search starts with are after the start of the call and clear of
\* the locks on the start node.
LEMMA StartWindowsOK ==
    ASSUME LMapInv, TableOK, pc = "start", StartWindows # <<>>
    PROVE  LET w == StartWindows[1]
           IN  /\ w \in TimeWindow /\ w.first < w.second /\ w.second <= INF
               /\ ApartFrom(w, start_id) /\ w.first >= call.start_working_time
<1> DEFINE locked == node_locked_time_window[start_id]
           window == [first  |-> call.start_working_time,
                      second |-> IF locked # <<>> THEN locked[1].first ELSE INF]
           legal == getLegalInterVals4Node(locked)
<1>1. start_id \in Node /\ call.start_working_time \in Nat
  BY TurnTypes
<1>2. /\ node_locked_time_window \in [Node -> Seq(TimeWindow)]
      /\ locked \in Seq(TimeWindow) /\ InOrderAndApart(locked)
  BY <1>1, TableTypes DEF PlanningCall
<1>3. window \in TimeWindow
  <2>1. locked # <<>> => locked[1] \in TimeWindow
    BY <1>2
  <2>2. locked # <<>> => locked[1].first \in Int
    BY <2>1, WindowParts
  <2> QED
    BY <1>1, <2>2, InfAssumption DEF TimeWindow, Instant
<1>4. /\ LegalArea(start_id) \in Seq(TimeWindow)
      /\ Inside(LegalArea(start_id), legal)
  BY <1>1, <1>2, LegalAreaInside
<1>5. StartWindows = merge_feasible_arrtime(<<window>>, LegalArea(start_id))
  BY DEF StartWindows
<1>6. window.first = call.start_working_time
  OBVIOUS
<1>7. legal \in Seq(TimeWindow)
  BY <1>2, LegalType
<1> HIDE DEF window, legal
<1>8. <<window>> \in Seq(TimeWindow) /\ DOMAIN <<window>> = {1} /\ <<window>>[1] = window
  BY <1>3
<1> DEFINE v == <<window>>
<1> HIDE DEF v
<1>9. v \in Seq(TimeWindow) /\ DOMAIN v = {1} /\ v[1] = window
      /\ StartWindows = merge_feasible_arrtime(v, LegalArea(start_id))
  BY <1>5, <1>8 DEF v
<1>10. /\ StartWindows \in Seq(TimeWindow)
       /\ Inside(StartWindows, v) /\ Inside(StartWindows, LegalArea(start_id))
  BY <1>4, <1>9, MergeInside
<1>11. Inside(StartWindows, legal)
  BY <1>4, <1>7, <1>10, InsideTransitive
<1>12. 1 \in DOMAIN StartWindows /\ StartWindows[1] \in TimeWindow
  BY <1>10
<1>13. StartWindows[1].second <= INF /\ ApartFrom(StartWindows[1], start_id)
  BY <1>1, <1>2, <1>10, <1>11, <1>12, InsideLegal DEF legal
<1>14. StartWindows[1].first < StartWindows[1].second
  BY <1>4, <1>9, <1>12, MergeElements
<1>15. StartWindows[1].first >= call.start_working_time
  <2>1. \E j \in DOMAIN v : v[j].first <= StartWindows[1].first
    BY <1>10, <1>12 DEF Inside
  <2>2. call.start_working_time <= StartWindows[1].first
    BY <1>6, <1>9, <2>1
  <2>3. StartWindows[1].first \in Int
    BY <1>12, WindowParts
  <2> QED
    BY <1>1, <2>2, <2>3
<1> QED
  BY <1>12, <1>13, <1>14, <1>15

\* Windows in order stay in order when they are moved together.
LEMMA ShiftedSequential ==
    ASSUME NEW w \in Seq(TimeWindow), NEW tt \in Nat, Sequential(w),
           \A i \in DOMAIN w : w[i].first < w[i].second /\ w[i].second <= INF
    PROVE  Sequential(ShiftedWindows(w, tt))
<1> DEFINE shifted == ShiftedWindows(w, tt)
<1>0. /\ DOMAIN shifted = DOMAIN w
      /\ \A j \in DOMAIN w :
           /\ shifted[j].first = w[j].first + tt
           /\ w[j].second # INF => shifted[j].second = w[j].second + tt
  <2>1. tt \in Int
    OBVIOUS
  <2> QED
    BY <2>1, ShiftedWindowsType
<1> HIDE DEF shifted
<1> SUFFICES ASSUME NEW i \in DOMAIN w, NEW j \in DOMAIN w, i < j
             PROVE  shifted[i].second <= shifted[j].first
  BY <1>0 DEF Sequential, shifted
<1>1. w[i].second <= w[j].first /\ w[j].first < w[j].second /\ w[j].second <= INF
  BY DEF Sequential
<1>2. w[i].second \in Int /\ w[j].first \in Int /\ w[j].second \in Int
  <2>1. w[i] \in TimeWindow /\ w[j] \in TimeWindow
    OBVIOUS
  <2> QED
    BY <2>1, WindowParts
<1>3. w[i].second # INF
  BY <1>1, <1>2, InfAssumption
<1>4. shifted[i].second = w[i].second + tt /\ shifted[j].first = w[j].first + tt
  BY <1>0, <1>3
<1> QED
  BY <1>1, <1>2, <1>4

\* What is legal for an arrival is in order and, over a long edge, within what is
\* legal at the other end.
LEMMA ArrivalLegalOK ==
    ASSUME LMapInv, TableOK, PlanningCall, NEW from \in Node, NEW to \in Node, NEW tt
    PROVE  /\ ArrivalLegal(from, to, tt) \in Seq(TimeWindow)
           /\ Sequential(ArrivalLegal(from, to, tt))
           /\ tt > 1 => Inside(ArrivalLegal(from, to, tt),
                               getLegalInterVals4Node(node_locked_time_window[from]))
<1> DEFINE legal == getLegalInterVals4Node(node_locked_time_window[from])
<1>1. /\ node_locked_time_window \in [Node -> Seq(TimeWindow)]
      /\ \A n \in Node : /\ Separated(node_locked_time_window[n])
                         /\ WellFormed(node_locked_time_window[n])
  BY TableTypes
<1>2. /\ LegalArea(from) \in Seq(TimeWindow) /\ LegalArea(to) \in Seq(TimeWindow)
      /\ Sequential(LegalArea(from)) /\ Sequential(LegalArea(to))
      /\ Inside(LegalArea(from), legal) /\ legal \in Seq(TimeWindow)
  BY <1>1, LegalAreaInside, LegalAreaSequential, LegalType
<1> HIDE DEF legal
<1> DEFINE both == merge_feasible_arrtime(LegalArea(from), LegalArea(to))
<1>3. both \in Seq(TimeWindow) /\ Sequential(both) /\ Inside(both, LegalArea(from))
  BY <1>2, MergeInside, MergeSequential
<1> HIDE DEF both
<1>4. Inside(both, legal)
  BY <1>2, <1>3, InsideTransitive
<1> QED
  BY <1>2, <1>3, <1>4 DEF ArrivalLegal, both, legal

\* The arrival windows an expansion computes.
LEMMA NeighbourWindowsOK ==
    ASSUME LMapInv, TableOK, TreeOK, LookingAtNeighbour
    PROVE  /\ Sequential(NeighbourWindows)
           /\ \A i \in DOMAIN NeighbourWindows :
                LET w == NeighbourWindows[i]
                IN  /\ w.first < w.second /\ w.second <= INF
                    /\ ApartFrom(w, NeighbourId)
                    /\ \E j \in DOMAIN Arrivals(parent_node) :
                          Reaches(Arrivals(parent_node)[j], TravelTime, w)
                    /\ TravelTime > 1 => ApartFrom(w, ParentId)
<1> DEFINE windows == Arrivals(parent_node)
           shifted == ShiftedWindows(windows, TravelTime)
           legal == ArrivalLegal(ParentId, NeighbourId, TravelTime)
           own == getLegalInterVals4Node(node_locked_time_window[NeighbourId])
           from == getLegalInterVals4Node(node_locked_time_window[ParentId])
<1>1. /\ parent_node \in DOMAIN tree /\ windows \in Seq(TimeWindow)
      /\ ParentId \in Node /\ NeighbourId \in Node /\ TravelTime \in Nat
      /\ NeighbourWindows \in Seq(TimeWindow)
      /\ Inside(NeighbourWindows, own) /\ Inside(NeighbourWindows, shifted)
  <2>1. /\ parent_node \in 1 .. Len(tree) /\ tree[parent_node] \in SearchNode
        /\ tree \in Seq(SearchNode)
    BY ExpansionTypes DEF LMapInv, SearchOK
  <2>2. windows \in Seq(TimeWindow)
    BY <2>1 DEF SearchNode, Arrivals
  <2>3. ParentId \in Node /\ NeighbourId \in Node /\ TravelTime \in Nat
    BY ExpansionTypes
  <2>4. /\ NeighbourWindows \in Seq(TimeWindow)
        /\ Inside(NeighbourWindows, own) /\ Inside(NeighbourWindows, shifted)
    BY ExpansionTypes DEF Arrivals
  <2> QED
    BY <2>1, <2>2, <2>3, <2>4
<1>2. PlanningCall
  BY DEF LookingAtNeighbour, PlanningCall
<1>3. /\ Sequential(windows)
      /\ \A i \in DOMAIN windows : windows[i].first < windows[i].second
                                   /\ windows[i].second <= INF
  BY <1>1 DEF TreeOK, WindowsOK
<1>4. /\ shifted \in Seq(TimeWindow) /\ Sequential(shifted)
      /\ DOMAIN shifted = DOMAIN windows
      /\ \A j \in DOMAIN windows :
           /\ shifted[j].first = windows[j].first + TravelTime
           /\ windows[j].second # INF => shifted[j].second = windows[j].second + TravelTime
  <2> HIDE DEF windows
  <2>1. TravelTime \in Int
    BY <1>1
  <2>2. Sequential(shifted)
    BY <1>1, <1>3, ShiftedSequential
  <2> QED
    BY <1>1, <2>1, <2>2, ShiftedWindowsType
<1>5. /\ legal \in Seq(TimeWindow) /\ Sequential(legal)
      /\ TravelTime > 1 => Inside(legal, from)
  BY <1>1, <1>2, ArrivalLegalOK
<1>6. NeighbourWindows = merge_feasible_arrtime(shifted, legal)
  BY DEF NeighbourWindows, Arrivals
<1>7. /\ node_locked_time_window[NeighbourId] \in Seq(TimeWindow)
      /\ node_locked_time_window[ParentId] \in Seq(TimeWindow)
      /\ InOrderAndApart(node_locked_time_window[NeighbourId])
      /\ InOrderAndApart(node_locked_time_window[ParentId])
      /\ from \in Seq(TimeWindow)
  BY <1>1, <1>2, TableTypes, LegalType
<1>8. \A i \in DOMAIN NeighbourWindows :
         NeighbourWindows[i].second <= INF /\ ApartFrom(NeighbourWindows[i], NeighbourId)
  BY <1>1, <1>7, InsideLegal
<1> HIDE DEF windows, shifted, legal, own, from
<1>9. /\ Sequential(NeighbourWindows)
      /\ \A i \in DOMAIN NeighbourWindows :
           NeighbourWindows[i].first < NeighbourWindows[i].second
      /\ Inside(NeighbourWindows, legal)
  BY <1>4, <1>5, <1>6, MergeSequential, MergeElements, MergeInside
<1>10. ASSUME TravelTime > 1
       PROVE  \A i \in DOMAIN NeighbourWindows : ApartFrom(NeighbourWindows[i], ParentId)
  <2>1. Inside(NeighbourWindows, from)
    BY <1>1, <1>5, <1>7, <1>9, <1>10, InsideTransitive
  <2> QED
    BY <1>1, <1>7, <2>1, InsideLegal DEF from
<1>11. ASSUME NEW i \in DOMAIN NeighbourWindows
       PROVE  \E j \in DOMAIN windows : Reaches(windows[j], TravelTime, NeighbourWindows[i])
  <2>1. PICK j \in DOMAIN shifted : /\ shifted[j].first <= NeighbourWindows[i].first
                                    /\ NeighbourWindows[i].second <= shifted[j].second
    BY <1>1 DEF Inside
  <2>2. Reaches(windows[j], TravelTime, NeighbourWindows[i])
    BY <1>4, <2>1 DEF Reaches
  <2> QED
    BY <1>4, <2>1, <2>2
<1> QED
  BY <1>8, <1>9, <1>10, <1>11 DEF windows

\* A step that leaves the tree, the locks and the call alone.
LEMMA TreeKept ==
    ASSUME TreeOK, UNCHANGED <<tree, node_locked_time_window, call, result>>
    PROVE  TreeOK'
<1>1. \A n : Arrivals(n)' = Arrivals(n)
  BY DEF Arrivals
<1>2. \A w, n : ApartFrom(w, n)' <=> ApartFrom(w, n)
  BY DEF ApartFrom
<1>3. start_id' = start_id
  BY DEF start_id, k
<1>4. \A n : WindowsOK(n) => WindowsOK(n)'
  BY <1>1, <1>2 DEF WindowsOK
<1>5. \A n : RootOK(n) => RootOK(n)'
  BY <1>1, <1>3 DEF RootOK
<1>6. \A n : EdgeOK(n) => EdgeOK(n)'
  BY <1>1, <1>2 DEF EdgeOK
<1> QED
  BY <1>4, <1>5, <1>6 DEF TreeOK

\* Between searches there is no tree.
LEMMA NoTreeOK == ASSUME LMapInv, ~ Searching PROVE TreeOK
<1>1. tree = <<>>
  BY DEF LMapInv, SearchOK
<1> QED
  BY <1>1 DEF TreeOK

\* The first node of a tree.
LEMMA startSearchTree ==
    ASSUME LMapInv, TableOK, startSearch
    PROVE  TreeOK'
<1> DEFINE root == [node_id |-> start_id, pre_node |-> 0, travel_time_from_parent |-> 0,
                    feasible_arrival_time |-> <<StartWindows[1]>>,
                    Punish |-> 0, key |-> StartWindows[1].first]
<1>1. /\ pc = "start" /\ StartWindows # <<>> /\ tree' = <<root>>
      /\ node_locked_time_window' = node_locked_time_window
      /\ call' = call /\ result' = result
  BY DEF startSearch, callVars, lockVars
<1>2. PICK w : w = StartWindows[1]
  OBVIOUS
<1>3. PICK id : id = start_id
  OBVIOUS
<1>4. /\ DOMAIN tree' = {1} /\ tree'[1].node_id = id /\ tree'[1].pre_node = 0
      /\ tree'[1].feasible_arrival_time = <<w>>
  BY <1>1, <1>2, <1>3
<1>5. /\ w \in TimeWindow /\ w.first < w.second /\ w.second <= INF
      /\ ApartFrom(w, id) /\ w.first >= call.start_working_time
  BY <1>1, <1>2, <1>3, StartWindowsOK
<1>6. start_id' = id /\ ApartFrom(w, id)' /\ Arrivals(1)' = <<w>>
  BY <1>1, <1>3, <1>4, <1>5 DEF start_id, k, ApartFrom, Arrivals
<1>7. /\ <<w>> # <<>> /\ Sequential(<<w>>) /\ DOMAIN <<w>> = {1} /\ <<w>>[1] = w
  BY DEF Sequential
<1>8. WindowsOK(1)'
  <2>1. ApartFrom(w, tree[1].node_id)'
    BY <1>4, <1>6 DEF ApartFrom
  <2>2. \A i \in DOMAIN Arrivals(1)' : i = 1
    BY <1>6, <1>7
  <2> QED
    BY <1>5, <1>6, <1>7, <2>1, <2>2 DEF WindowsOK
<1>9. RootOK(1)'
  BY <1>1, <1>4, <1>5, <1>6, <1>7 DEF RootOK
<1> QED
  BY <1>4, <1>8, <1>9 DEF TreeOK

\* A node added to the tree can be reached from the one expanded.
LEMMA addNeighbourTree ==
    ASSUME LMapInv, TableOK, TreeOK, addNeighbour
    PROVE  TreeOK'
<1>1. /\ LookingAtNeighbour /\ NeighbourWindows # <<>> /\ tree' = Append(tree, NeighbourNode)
      /\ node_locked_time_window' = node_locked_time_window
      /\ call' = call /\ result' = result
  BY DEF addNeighbour, callVars, lockVars
<1>2. PICK new : new = NeighbourNode
  OBVIOUS
<1>3. PICK windows : windows = NeighbourWindows
  OBVIOUS
<1>4. PICK p, id, from, tt : /\ p = parent_node /\ id = NeighbourId
                             /\ from = ParentId /\ tt = TravelTime
  OBVIOUS
<1>5. PICK N : N = Len(tree)
  OBVIOUS
<1>6. /\ new \in SearchNode /\ new.node_id = id /\ new.pre_node = p
      /\ new.travel_time_from_parent = tt /\ new.feasible_arrival_time = windows
  BY <1>1, <1>2, <1>3, <1>4, NeighbourNodeType DEF NeighbourNode
<1>7. /\ tree \in Seq(SearchNode) /\ N \in Nat /\ DOMAIN tree = 1 .. N
      /\ \A n \in 1 .. N : tree[n].pre_node \in Nat /\ tree[n].pre_node < n
      /\ p \in 1 .. N
  <2>1. tree \in Seq(SearchNode) /\ SearchTreeSound /\ parent_node \in 1 .. Len(tree)
    BY <1>1, ExpansionTypes DEF LMapInv, SearchOK
  <2>2. \A n \in DOMAIN tree : tree[n] \in SearchNode
    BY <2>1
  <2>3. \A n \in DOMAIN tree : tree[n].pre_node \in Nat
    BY <2>2 DEF SearchNode
  <2> QED
    BY <1>4, <1>5, <2>1, <2>3 DEF SearchTreeSound
<1>8. /\ DOMAIN tree' = 1 .. N + 1 /\ tree'[N + 1] = new
      /\ \A n \in 1 .. N : tree'[n] = tree[n]
  BY <1>1, <1>2, <1>5, <1>6, <1>7
<1>9. /\ start_id' = start_id
      /\ \A w, n : ApartFrom(w, n)' <=> ApartFrom(w, n)
  BY <1>1 DEF start_id, k, ApartFrom
<1>10. ASSUME NEW n \in 1 .. N
       PROVE  /\ WindowsOK(n)'
              /\ tree'[n].pre_node = 0 => RootOK(n)'
              /\ tree'[n].pre_node # 0 => EdgeOK(n)'
  <2>1. /\ WindowsOK(n)
        /\ tree[n].pre_node = 0 => RootOK(n)
        /\ tree[n].pre_node # 0 => EdgeOK(n)
    BY <1>7 DEF TreeOK
  <2>2. tree'[n] = tree[n] /\ Arrivals(n)' = Arrivals(n)
    BY <1>8 DEF Arrivals
  <2>3. WindowsOK(n)'
    BY <1>9, <2>1, <2>2 DEF WindowsOK
  <2>4. tree'[n].pre_node = 0 => RootOK(n)'
    BY <1>1, <1>9, <2>1, <2>2 DEF RootOK
  <2>5. ASSUME tree'[n].pre_node # 0 PROVE EdgeOK(n)'
    <3>1. PICK q : q = tree[n].pre_node
      OBVIOUS
    <3>2. q \in 1 .. N
      BY <1>7, <2>2, <2>5, <3>1
    <3>3. tree'[q] = tree[q] /\ Arrivals(q)' = Arrivals(q)
      BY <1>8, <3>2 DEF Arrivals
    <3>4. EdgeOK(n)
      BY <2>1, <2>2, <2>5
    <3> QED
      BY <1>9, <2>2, <3>1, <3>3, <3>4 DEF EdgeOK
  <2> QED
    BY <2>3, <2>4, <2>5
<1>11. /\ Sequential(windows)
       /\ \A i \in DOMAIN windows :
            /\ windows[i].first < windows[i].second /\ windows[i].second <= INF
            /\ ApartFrom(windows[i], id)
            /\ \E j \in DOMAIN Arrivals(p) : Reaches(Arrivals(p)[j], tt, windows[i])
            /\ tt > 1 => ApartFrom(windows[i], from)
  BY <1>1, <1>3, <1>4, NeighbourWindowsOK
<1>12. /\ Arrivals(N + 1)' = windows /\ Arrivals(p)' = Arrivals(p)
       /\ tree'[p] = tree[p] /\ tree[p].node_id = from
  BY <1>4, <1>6, <1>7, <1>8 DEF Arrivals, ParentId
<1>13. WindowsOK(N + 1)'
  BY <1>1, <1>3, <1>6, <1>8, <1>9, <1>11, <1>12 DEF WindowsOK
<1>14. Hop(from, id, tt)
  BY <1>1, <1>4 DEF Hop, NeighbourId, TravelTime, LookingAtNeighbour
<1>15. EdgeOK(N + 1)'
  BY <1>6, <1>8, <1>9, <1>11, <1>12, <1>14 DEF EdgeOK
<1>16. /\ tree'[N + 1].pre_node # 0
       /\ \A n \in DOMAIN tree' : n \in 1 .. N \/ n = N + 1
  BY <1>6, <1>7, <1>8
<1> QED
  BY <1>10, <1>13, <1>15, <1>16 DEF TreeOK

\* Every step of the planner keeps the tree as it should be.
LEMMA PlannerStepTree ==
    ASSUME LMapInv, LMapInv', TableOK, TreeOK, PlannerStep
    PROVE  TreeOK'
<1>1. CASE \/ getRobotPositions \/ initLockArea \/ locksInitialised \/ noStartWindow
           \/ openListEmpty \/ routePlanned
  <2>1. (~ Searching)'
    BY <1>1 DEF getRobotPositions, initLockArea, locksInitialised, noStartWindow,
                openListEmpty, StandDone, routePlanned, Searching
  <2>2. tree' = <<>>
    BY <2>1 DEF LMapInv, SearchOK
  <2> QED
    BY <2>2 DEF TreeOK
<1>2. CASE startSearch
  BY <1>2, startSearchTree
<1>3. CASE addNeighbour
  BY <1>3, addNeighbourTree
<1>4. CASE \/ popOpenList \/ skipNeighbour \/ expanded \/ traceBack \/ traced
           \/ chooseWindow \/ rejectWindow \/ backtrack
  <2>1. UNCHANGED <<tree, node_locked_time_window, call, result>>
    BY <1>4 DEF popOpenList, skipNeighbour, expanded, traceBack, traced, chooseWindow,
                rejectWindow, backtrack, callVars, lockVars, searchVars
  <2> QED
    BY <2>1, TreeKept
<1> QED
  BY <1>1, <1>2, <1>3, <1>4 DEF PlannerStep

--------------------------------------------------------------------------------
(* The path. *)

(* The walk back collects a path of the tree that ends at the target, and is
   over when it has come to the root. *)
PathLinked ==
    /\ pc = "trace" /\ nodeVec = <<>> => tree[iter].node_id = end_id
    /\ pc = "trace" /\ nodeVec # <<>> => tree[nodeVec[1]].pre_node = iter
    /\ pc = "chain" => tree[nodeVec[1]].pre_node = 0
    /\ nodeVec # <<>> => tree[nodeVec[Len(nodeVec)]].node_id = end_id
    /\ \A d \in 1 .. Len(nodeVec) - 1 : tree[nodeVec[d + 1]].pre_node = nodeVec[d]
    /\ \A d, e \in DOMAIN nodeVec : d < e => nodeVec[d] < nodeVec[e]

\* A step after which no path has been collected.
LEMMA NoPathLinked ==
    ASSUME nodeVec' = <<>>, pc' # "chain",
           pc' = "trace" => tree'[iter'].node_id = end_id'
    PROVE  PathLinked'
<1>1. Len(<<>>) = 0 /\ DOMAIN <<>> = {} /\ 1 .. 0 - 1 = {}
  OBVIOUS
<1> QED
  BY <1>1 DEF PathLinked

\* A step that leaves the tree, the path and the call alone.
LEMMA PathKept ==
    ASSUME PathLinked, UNCHANGED <<tree, iter, nodeVec, call, result>>,
           pc' = pc
    PROVE  PathLinked'
BY DEF PathLinked, end_id, k

\* The path grows by the parent of its first node.
LEMMA traceBackLinked ==
    ASSUME LMapInv, PathLinked, traceBack
    PROVE  PathLinked'
<1>1. /\ pc = "trace" /\ pc' = "trace" /\ iter # 0 /\ nodeVec' = <<iter>> \o nodeVec
      /\ iter' = tree[iter].pre_node /\ tree' = tree /\ call' = call /\ result' = result
  BY DEF traceBack, callVars, lockVars, searchVars
<1>2. /\ tree \in Seq(SearchNode) /\ SearchTreeSound /\ Len(tree) \in Nat
      /\ nodeVec \in Seq(DOMAIN tree) /\ iter \in 1 .. Len(tree)
  BY <1>1 DEF LMapInv, SearchOK, PathOK
<1>3. PICK N : N = Len(nodeVec)
  OBVIOUS
<1>4. N \in Nat /\ DOMAIN nodeVec = 1 .. N /\ \A d \in 1 .. N : nodeVec[d] \in 1 .. Len(tree)
  BY <1>2, <1>3
<1>5. PICK i : i = iter
  OBVIOUS
<1>6. /\ Len(nodeVec') = N + 1 /\ DOMAIN nodeVec' = 1 .. N + 1 /\ nodeVec' # <<>>
      /\ nodeVec'[1] = i /\ \A d \in 1 .. N : nodeVec'[d + 1] = nodeVec[d]
  BY <1>1, <1>2, <1>3, <1>5
<1>7. end_id' = end_id
  BY <1>1 DEF end_id, k
<1>8. tree'[nodeVec'[Len(nodeVec')]].node_id = end_id'
  <2>1. CASE N = 0
    <3>1. nodeVec = <<>>
      BY <1>2, <1>3, <2>1, EmptySeq
    <3> QED
      BY <1>1, <1>5, <1>6, <1>7, <2>1, <3>1 DEF PathLinked
  <2>2. CASE N # 0
    <3>1. nodeVec # <<>> /\ N \in 1 .. N
      BY <1>3, <1>4, <2>2
    <3> QED
      BY <1>1, <1>3, <1>6, <1>7, <3>1 DEF PathLinked
  <2> QED
    BY <2>1, <2>2
<1>9. ASSUME NEW d \in 1 .. N PROVE tree[nodeVec'[d + 1]].pre_node = nodeVec'[d]
  <2>1. CASE d = 1
    <3>1. nodeVec # <<>>
      BY <1>3, <1>4
    <3> QED
      BY <1>1, <1>5, <1>6, <2>1, <3>1 DEF PathLinked
  <2>2. CASE d # 1
    <3>1. d - 1 \in 1 .. N - 1 /\ d - 1 \in 1 .. N /\ (d - 1) + 1 = d
      BY <1>4, <2>2
    <3>2. tree[nodeVec[(d - 1) + 1]].pre_node = nodeVec[d - 1]
      BY <1>3, <3>1 DEF PathLinked
    <3>3. nodeVec'[d + 1] = nodeVec[d] /\ nodeVec'[(d - 1) + 1] = nodeVec[d - 1]
      BY <1>6, <3>1
    <3> QED
      BY <3>1, <3>2, <3>3
  <2> QED
    BY <2>1, <2>2
<1>10. \A d \in 1 .. N : i < nodeVec[d]
  <2> SUFFICES ASSUME NEW d \in 1 .. N PROVE i < nodeVec[d]
    OBVIOUS
  <2>1. 1 \in 1 .. N /\ nodeVec # <<>>
    BY <1>3, <1>4
  <2>2. nodeVec[1] \in DOMAIN tree /\ tree[nodeVec[1]].pre_node = i
    BY <1>1, <1>2, <1>4, <1>5, <2>1 DEF PathLinked
  <2>3. i < nodeVec[1]
    BY <1>2, <2>2 DEF SearchTreeSound
  <2>4. d = 1 \/ nodeVec[1] < nodeVec[d]
    <3>1. d = 1 \/ 1 < d
      OBVIOUS
    <3>2. \A e, f \in 1 .. N : e < f => nodeVec[e] < nodeVec[f]
      BY <1>4 DEF PathLinked
    <3> QED
      BY <2>1, <3>1, <3>2
  <2>5. i \in Int /\ nodeVec[1] \in Int /\ nodeVec[d] \in Int
    BY <1>2, <1>4, <1>5, <2>1
  <2> QED
    BY <2>3, <2>4, <2>5
<1>11. ASSUME NEW d \in 1 .. N + 1, NEW e \in 1 .. N + 1, d < e
       PROVE  nodeVec'[d] < nodeVec'[e]
  <2>1. e - 1 \in 1 .. N /\ (e - 1) + 1 = e
    BY <1>4, <1>11
  <2>2. nodeVec'[e] = nodeVec[e - 1]
    BY <1>6, <2>1
  <2>3. CASE d = 1
    BY <1>6, <1>10, <2>1, <2>2, <2>3
  <2>4. CASE d # 1
    <3>1. d - 1 \in 1 .. N /\ (d - 1) + 1 = d /\ d - 1 < e - 1
      BY <1>4, <1>11, <2>4
    <3>2. nodeVec'[d] = nodeVec[d - 1]
      BY <1>6, <3>1
    <3> QED
      BY <1>4, <2>1, <2>2, <3>1, <3>2 DEF PathLinked
  <2> QED
    BY <2>3, <2>4
<1>12. \A d \in 1 .. Len(nodeVec') - 1 : d \in 1 .. N
  BY <1>4, <1>6
<1> QED
  BY <1>1, <1>5, <1>6, <1>8, <1>9, <1>11, <1>12 DEF PathLinked

\* Every step of the planner keeps the path linked.
LEMMA PlannerStepPath ==
    ASSUME LMapInv, LMapInv', PathLinked, PlannerStep
    PROVE  PathLinked'
<1>1. CASE \/ getRobotPositions \/ initLockArea \/ locksInitialised \/ noStartWindow
           \/ openListEmpty
           \/ routePlanned \/ startSearch \/ addNeighbour \/ skipNeighbour \/ expanded
  <2>1. pc' \notin {"trace", "chain"}
    BY <1>1 DEF getRobotPositions, initLockArea, locksInitialised, noStartWindow,
                openListEmpty, StandDone,
                routePlanned, startSearch, addNeighbour, skipNeighbour, expanded,
                LookingAtNeighbour
  <2>2. nodeVec' = <<>>
    <3>1. CASE (pc \in {"search", "expand"})'
      BY <3>1 DEF LMapInv, PathOK
    <3>2. CASE (~ Searching)'
      <4>1. tree' = <<>>
        BY <3>2 DEF LMapInv, SearchOK
      <4>2. nodeVec' \in Seq(DOMAIN <<>>)
        BY <4>1 DEF LMapInv, PathOK
      <4> QED
        BY <4>2
    <3> QED
      BY <2>1, <3>1, <3>2 DEF Searching
  <2> QED
    BY <2>1, <2>2, NoPathLinked
<1>2. CASE popOpenList
  <2>1. /\ tree' = tree /\ nodeVec' = nodeVec /\ call' = call /\ result' = result
        /\ pc' # "chain" /\ pc = "search"
        /\ pc' = "trace" => iter' = FirstOpen /\ tree[FirstOpen].node_id = end_id
    BY <1>2 DEF popOpenList, callVars, lockVars
  <2>2. nodeVec' = <<>>
    BY <2>1 DEF LMapInv, PathOK
  <2>3. pc' = "trace" => tree'[iter'].node_id = end_id'
    BY <2>1 DEF end_id, k
  <2> QED
    BY <2>1, <2>2, <2>3, NoPathLinked
<1>3. CASE traceBack
  BY <1>3, traceBackLinked
<1>4. CASE traced
  <2>1. /\ pc = "trace" /\ pc' = "chain" /\ iter = 0
        /\ UNCHANGED <<tree, iter, nodeVec, call, result>>
    BY <1>4 DEF traced, callVars, lockVars, searchVars, pathVars
  <2>2. nodeVec # <<>>
    BY <2>1 DEF LMapInv, PathOK
  <2> QED
    BY <2>1, <2>2 DEF PathLinked, end_id, k
<1>5. CASE chooseWindow \/ rejectWindow \/ backtrack
  <2>1. UNCHANGED <<tree, iter, nodeVec, call, result>> /\ pc' = pc
    BY <1>5 DEF chooseWindow, rejectWindow, backtrack, callVars, lockVars, searchVars
  <2> QED
    BY <2>1, PathKept
<1> QED
  BY <1>1, <1>2, <1>3, <1>4, <1>5 DEF PlannerStep

--------------------------------------------------------------------------------
(* The choice of windows. *)

TravelTo(d) == tree[nodeVec[d]].travel_time_from_parent

\* Window j of the next node can follow window i of node d of the path.
CanFollow(d, i, j) == Windows(d)[i].second + TravelTo(d + 1) >= Windows(d + 1)[j].first

\* The ways to choose windows from node d of the path to its end.
Completion(d) ==
    {m \in [DOMAIN nodeVec -> UNION {DOMAIN Windows(e) : e \in DOMAIN nodeVec}] :
        /\ \A e \in d .. Len(nodeVec) : m[e] \in DOMAIN Windows(e)
        /\ \A e \in d .. Len(nodeVec) - 1 : CanFollow(e, m[e], m[e + 1])}

\* No choice with this window can be completed.
Dead(d, i) == \A m \in Completion(d) : m[d] # i

(* What is chosen follows one from the other, and what was passed over for it
   is dead: the search does not skip a window that would do. *)
ChosenOK ==
    /\ \A d \in 1 .. Len(myList) - 1 : CanFollow(d, myList[d], myList[d + 1])
    /\ \A d \in DOMAIN myList : \A i \in DOMAIN Windows(d) : i < myList[d] => Dead(d, i)

\* The windows before the one to be tried next are dead, or open too late.
CandidateOK ==
    /\ candidate >= 1
    /\ Choosing => \A i \in DOMAIN Windows(depth_) :
                      i < candidate => Dead(depth_, i) \/ ~ Follows(Windows(depth_)[i], depth_)

ChoiceOK ==
    /\ pc # "chain" => candidate = 1
    /\ pc = "chain" => ChosenOK /\ CandidateOK

\* The windows of the nodes of the path.
LEMMA PathWindows ==
    ASSUME LMapInv, TreeOK, NEW d \in DOMAIN nodeVec
    PROVE  /\ Windows(d) \in Seq(TimeWindow) /\ Sequential(Windows(d))
           /\ 1 \in DOMAIN Windows(d) /\ DOMAIN Windows(d) = 1 .. Len(Windows(d))
           /\ Len(Windows(d)) \in Nat
           /\ TravelTo(d) \in Nat /\ tree[nodeVec[d]] \in SearchNode
           /\ nodeVec[d] \in DOMAIN tree /\ Arrivals(nodeVec[d]) = Windows(d)
           /\ \A i \in DOMAIN Windows(d) :
                /\ Windows(d)[i].first \in Int /\ Windows(d)[i].second \in Int
                /\ Windows(d)[i].first < Windows(d)[i].second
                /\ Windows(d)[i].second <= INF
                /\ ApartFrom(Windows(d)[i], tree[nodeVec[d]].node_id)
<1>1. nodeVec[d] \in DOMAIN tree /\ tree \in Seq(SearchNode)
  BY DEF LMapInv, SearchOK, PathOK
<1>2. tree[nodeVec[d]] \in SearchNode
  BY <1>1
<1>3. Windows(d) \in Seq(TimeWindow) /\ TravelTo(d) \in Nat
  BY <1>2 DEF SearchNode, Windows, TravelTo
<1>4. WindowsOK(nodeVec[d]) /\ Arrivals(nodeVec[d]) = Windows(d)
  BY <1>1 DEF TreeOK, Arrivals, Windows
<1> DEFINE w == Windows(d)
<1> HIDE DEF w
<1>5. /\ w \in Seq(TimeWindow) /\ w # <<>> /\ Sequential(w)
      /\ \A i \in DOMAIN w : /\ w[i].first < w[i].second /\ w[i].second <= INF
                             /\ ApartFrom(w[i], tree[nodeVec[d]].node_id)
  BY <1>3, <1>4 DEF WindowsOK, w
<1>6. 1 \in DOMAIN w /\ DOMAIN w = 1 .. Len(w) /\ Len(w) \in Nat
  BY <1>5
<1>7. \A i \in DOMAIN w : w[i] \in TimeWindow
  BY <1>5
<1>8. \A i \in DOMAIN w : w[i].first \in Int /\ w[i].second \in Int
  BY <1>7, WindowParts
<1> QED
  BY <1>1, <1>2, <1>3, <1>4, <1>5, <1>6, <1>8 DEF w

\* A window of a later place opens later.
LEMMA LaterWindow ==
    ASSUME LMapInv, TreeOK, NEW d \in DOMAIN nodeVec,
           NEW i \in DOMAIN Windows(d), NEW j \in DOMAIN Windows(d), i <= j
    PROVE  Windows(d)[i].first <= Windows(d)[j].first
<1>1. /\ Windows(d)[i].first \in Int /\ Windows(d)[i].second \in Int
      /\ Windows(d)[j].first \in Int /\ Windows(d)[i].first < Windows(d)[i].second
      /\ Sequential(Windows(d)) /\ i \in Int /\ j \in Int
  BY PathWindows
<1>2. CASE i = j
  BY <1>1, <1>2
<1>3. CASE i # j
  <2>1. Windows(d)[i].second <= Windows(d)[j].first
    BY <1>1, <1>3 DEF Sequential
  <2> QED
    BY <1>1, <2>1
<1> QED
  BY <1>2, <1>3

\* Every window on the path comes from one of the node before it.
LEMMA PathEdges ==
    ASSUME LMapInv, TreeOK, PathLinked, NEW d \in 1 .. Len(nodeVec) - 1
    PROVE  /\ d \in DOMAIN nodeVec /\ d + 1 \in DOMAIN nodeVec
           /\ Hop(tree[nodeVec[d]].node_id, tree[nodeVec[d + 1]].node_id, TravelTo(d + 1))
           /\ \A j \in DOMAIN Windows(d + 1) :
                /\ \E i \in DOMAIN Windows(d) :
                     /\ CanFollow(d, i, j)
                     /\ Windows(d)[i].first + TravelTo(d + 1) <= Windows(d + 1)[j].first
                /\ TravelTo(d + 1) > 1 =>
                     ApartFrom(Windows(d + 1)[j], tree[nodeVec[d]].node_id)
<1>1. d \in DOMAIN nodeVec /\ d + 1 \in DOMAIN nodeVec
  <2>1. nodeVec \in Seq(DOMAIN tree)
    BY DEF LMapInv, PathOK
  <2> QED
    BY <2>1
<1>2. /\ nodeVec[d] \in DOMAIN tree /\ nodeVec[d + 1] \in DOMAIN tree
      /\ tree[nodeVec[d + 1]].pre_node = nodeVec[d]
      /\ Arrivals(nodeVec[d]) = Windows(d) /\ Arrivals(nodeVec[d + 1]) = Windows(d + 1)
      /\ TravelTo(d + 1) \in Nat
  BY <1>1, PathWindows DEF PathLinked
<1>3. nodeVec[d] # 0
  <2>1. tree \in Seq(SearchNode)
    BY DEF LMapInv, SearchOK
  <2> QED
    BY <1>2, <2>1
<1>4. EdgeOK(nodeVec[d + 1])
  BY <1>2, <1>3 DEF TreeOK
<1>5. /\ Hop(tree[nodeVec[d]].node_id, tree[nodeVec[d + 1]].node_id, TravelTo(d + 1))
      /\ \A j \in DOMAIN Windows(d + 1) :
           /\ \E i \in DOMAIN Windows(d) :
                 Reaches(Windows(d)[i], TravelTo(d + 1), Windows(d + 1)[j])
           /\ TravelTo(d + 1) > 1 => ApartFrom(Windows(d + 1)[j], tree[nodeVec[d]].node_id)
  BY <1>2, <1>4 DEF EdgeOK, TravelTo
<1>6. ASSUME NEW j \in DOMAIN Windows(d + 1)
      PROVE  \E i \in DOMAIN Windows(d) :
                /\ CanFollow(d, i, j)
                /\ Windows(d)[i].first + TravelTo(d + 1) <= Windows(d + 1)[j].first
  <2>1. PICK i \in DOMAIN Windows(d) : Reaches(Windows(d)[i], TravelTo(d + 1), Windows(d + 1)[j])
    BY <1>5
  <2>2. /\ Windows(d + 1)[j].first \in Int /\ Windows(d + 1)[j].second \in Int
        /\ Windows(d + 1)[j].first < Windows(d + 1)[j].second
        /\ Windows(d + 1)[j].second <= INF
        /\ Windows(d)[i].second \in Int
    BY <1>1, PathWindows
  <2>3. Windows(d)[i].second + TravelTo(d + 1) >= Windows(d + 1)[j].first
    BY <1>2, <2>1, <2>2, InfAssumption DEF Reaches
  <2> QED
    BY <2>1, <2>3 DEF Reaches, CanFollow
<1> QED
  BY <1>1, <1>5, <1>6

\* A choice that can be completed at the next node, and is followed by what is
\* chosen there, can be completed.
LEMMA CompletionExtended ==
    ASSUME LMapInv, NEW d \in 1 .. Len(nodeVec) - 1, NEW m \in Completion(d + 1),
           NEW i \in DOMAIN Windows(d), CanFollow(d, i, m[d + 1])
    PROVE  /\ [m EXCEPT ![d] = i] \in Completion(d)
           /\ [m EXCEPT ![d] = i][d] = i
<1> DEFINE AllWindows == UNION {DOMAIN Windows(e) : e \in DOMAIN nodeVec}
           new == [m EXCEPT ![d] = i]
<1>1. Len(nodeVec) \in Nat /\ DOMAIN nodeVec = 1 .. Len(nodeVec)
  <2>1. nodeVec \in Seq(DOMAIN tree)
    BY DEF LMapInv, PathOK
  <2> QED
    BY <2>1
<1>2. /\ m \in [DOMAIN nodeVec -> AllWindows]
      /\ \A e \in d + 1 .. Len(nodeVec) : m[e] \in DOMAIN Windows(e)
      /\ \A e \in d + 1 .. Len(nodeVec) - 1 : CanFollow(e, m[e], m[e + 1])
  BY DEF Completion
<1>3. d \in DOMAIN nodeVec /\ i \in AllWindows
  BY <1>1
<1> HIDE DEF AllWindows
<1>4. /\ new \in [DOMAIN nodeVec -> AllWindows] /\ new[d] = i
      /\ \A e \in DOMAIN nodeVec : e # d => new[e] = m[e]
  BY <1>2, <1>3
<1> HIDE DEF new
<1>5. ASSUME NEW e \in d .. Len(nodeVec) PROVE new[e] \in DOMAIN Windows(e)
  <2>1. e \in DOMAIN nodeVec /\ (e # d => e \in d + 1 .. Len(nodeVec))
    BY <1>1
  <2> QED
    BY <1>2, <1>4, <2>1
<1>6. ASSUME NEW e \in d .. Len(nodeVec) - 1 PROVE CanFollow(e, new[e], new[e + 1])
  <2>1. /\ e \in DOMAIN nodeVec /\ e + 1 \in DOMAIN nodeVec /\ e + 1 # d
        /\ e # d => e \in d + 1 .. Len(nodeVec) - 1
    BY <1>1
  <2>2. new[e + 1] = m[e + 1]
    BY <1>4, <2>1
  <2>3. CASE e = d
    BY <1>4, <2>2, <2>3
  <2>4. CASE e # d
    <3>1. new[e] = m[e] /\ CanFollow(e, m[e], m[e + 1])
      BY <1>2, <1>4, <2>1, <2>4
    <3> QED
      BY <2>2, <3>1
  <2> QED
    BY <2>3, <2>4
<1>7. new \in Completion(d)
  BY <1>4, <1>5, <1>6 DEF Completion, AllWindows
<1> QED
  BY <1>4, <1>7 DEF new

\* What completes a choice from one node on completes that of the next one.
LEMMA CompletionShortened ==
    ASSUME LMapInv, NEW d \in 1 .. Len(nodeVec) - 1, NEW m \in Completion(d)
    PROVE  /\ m \in Completion(d + 1) /\ m[d] \in DOMAIN Windows(d)
           /\ m[d + 1] \in DOMAIN Windows(d + 1) /\ CanFollow(d, m[d], m[d + 1])
<1>1. Len(nodeVec) \in Nat
  BY DEF LMapInv, PathOK
<1>2. /\ \A e \in d + 1 .. Len(nodeVec) : e \in d .. Len(nodeVec)
      /\ \A e \in d + 1 .. Len(nodeVec) - 1 : e \in d .. Len(nodeVec) - 1
      /\ d \in d .. Len(nodeVec) /\ d + 1 \in d .. Len(nodeVec) /\ d \in d .. Len(nodeVec) - 1
  BY <1>1
<1> QED
  BY <1>2 DEF Completion

\* Every path can be completed from its first node on: its last node has a
\* window, and each comes from one of the node before.
LEMMA PathCompletes ==
    ASSUME LMapInv, TreeOK, PathLinked, nodeVec # <<>>
    PROVE  Completion(1) # {}
<1> DEFINE N == Len(nodeVec)
           AllWindows == UNION {DOMAIN Windows(e) : e \in DOMAIN nodeVec}
           T == {g \in 0 .. N - 1 : Completion(N - g) # {}}
<1>1. N \in Nat /\ N >= 1 /\ DOMAIN nodeVec = 1 .. N
  <2>1. nodeVec \in Seq(DOMAIN tree)
    BY DEF LMapInv, PathOK
  <2>2. N # 0
    BY <2>1, EmptySeq
  <2> QED
    BY <2>1, <2>2
<1>2. 0 \in T
  <2> DEFINE m == [e \in DOMAIN nodeVec |-> 1]
  <2>1. \A e \in DOMAIN nodeVec : 1 \in DOMAIN Windows(e)
    BY PathWindows
  <2>2. m \in [DOMAIN nodeVec -> AllWindows]
    BY <2>1
  <2>3. /\ \A e \in N .. N : m[e] \in DOMAIN Windows(e)
        /\ \A e \in N .. N - 1 : FALSE
    BY <1>1, <2>1
  <2> HIDE DEF m
  <2>4. m \in Completion(N)
    BY <2>2, <2>3 DEF Completion
  <2>5. N - 0 = N /\ 0 \in 0 .. N - 1
    BY <1>1
  <2> QED
    BY <2>4, <2>5
<1>3. ASSUME NEW g \in 0 .. (N - 1) - 1, g \in T PROVE g + 1 \in T
  <2> DEFINE d == N - (g + 1)
  <2>1. d \in 1 .. N - 1 /\ d + 1 = N - g /\ g + 1 \in 0 .. N - 1
    BY <1>1
  <2>2. PICK m \in Completion(N - g) : TRUE
    BY <1>3
  <2> HIDE DEF d, T, N
  <2>3. m \in Completion(d + 1)
    BY <2>1, <2>2
  <2>4. m[d + 1] \in DOMAIN Windows(d + 1)
    <3>1. d + 1 \in d + 1 .. Len(nodeVec)
      BY <1>1, <2>1 DEF N
    <3> QED
      BY <2>3, <3>1 DEF Completion
  <2>5. PICK i \in DOMAIN Windows(d) : CanFollow(d, i, m[d + 1])
    BY <2>1, <2>4, PathEdges DEF N
  <2>6. [m EXCEPT ![d] = i] \in Completion(d)
    BY <2>1, <2>3, <2>5, CompletionExtended DEF N
  <2> QED
    BY <2>1, <2>6 DEF T, d
<1>4. N - 1 \in T
  <2> HIDE DEF T
  <2>1. N - 1 \in Nat /\ N - 1 \in 0 .. N - 1
    BY <1>1
  <2>2. \A g \in 0 .. N - 1 : g \in T
    BY <1>2, <1>3, <2>1, FiniteInduction
  <2> QED
    BY <2>1, <2>2
<1>5. N - (N - 1) = 1
  BY <1>1
<1> QED
  BY <1>4, <1>5

\* The path keeps its windows while they are chosen.
LEMMA PathStatic ==
    ASSUME UNCHANGED <<tree, nodeVec>>
    PROVE  /\ \A d : Windows(d)' = Windows(d) /\ TravelTo(d)' = TravelTo(d)
           /\ \A d, i, j : CanFollow(d, i, j)' <=> CanFollow(d, i, j)
           /\ \A d, i : Dead(d, i)' <=> Dead(d, i)
<1>1. \A d : Windows(d)' = Windows(d) /\ TravelTo(d)' = TravelTo(d)
  BY DEF Windows, TravelTo
<1>2. \A d, i, j : CanFollow(d, i, j)' <=> CanFollow(d, i, j)
  BY <1>1 DEF CanFollow
<1>3. \A d : Completion(d)' = Completion(d)
  BY <1>1, <1>2 DEF Completion
<1>4. \A d, i : Dead(d, i)' <=> Dead(d, i)
  BY <1>3 DEF Dead
<1> QED
  BY <1>1, <1>2, <1>4

\* Follows, for the window to be tried next, is CanFollow.
LEMMA FollowsIsCanFollow ==
    ASSUME LMapInv, NEW i
    PROVE  /\ Len(myList) \in Nat /\ depth_ = Len(myList) + 1
           /\ Len(myList) = 0 => Follows(Windows(depth_)[i], depth_)
           /\ Len(myList) > 0 =>
                (Follows(Windows(depth_)[i], depth_) <=>
                    CanFollow(Len(myList), myList[Len(myList)], i))
<1>1. PICK L : L = Len(myList)
  OBVIOUS
<1>2. L \in Nat /\ depth_ = L + 1 /\ (L + 1) - 1 = L
  BY <1>1 DEF LMapInv, PathOK, depth_
<1>3. L > 0 => (Follows(Windows(L + 1)[i], L + 1) <=> CanFollow(L, myList[L], i))
  BY <1>2 DEF Follows, Chosen, CanFollow, TravelTo
<1>4. L = 0 => Follows(Windows(L + 1)[i], L + 1)
  BY <1>2 DEF Follows
<1> QED
  BY <1>1, <1>2, <1>3, <1>4

\* A window that opens after the robot would have to be there is passed over.
LEMMA rejectWindowChoice ==
    ASSUME LMapInv, ChoiceOK, rejectWindow
    PROVE  ChoiceOK'
<1>1. /\ pc = "chain" /\ pc' = "chain" /\ Choosing
      /\ ~ Follows(Windows(depth_)[candidate], depth_)
      /\ candidate' = candidate + 1 /\ UNCHANGED <<tree, nodeVec, myList>>
  BY DEF rejectWindow, TryingWindow, Choosing, searchVars
<1>2. ChosenOK /\ CandidateOK /\ candidate \in Nat
  BY <1>1 DEF ChoiceOK, LMapInv, PathOK
<1>3. ChosenOK'
  BY <1>1, <1>2, PathStatic DEF ChosenOK
<1>4. /\ depth_' = depth_ /\ candidate' >= 1
      /\ \A i : Follows(Windows(depth_)[i], depth_)' <=> Follows(Windows(depth_)[i], depth_)
  BY <1>1, <1>2 DEF depth_, CandidateOK, Follows, Windows, Chosen
<1>5. ASSUME NEW i \in DOMAIN Windows(depth_)', i < candidate'
      PROVE  Dead(depth_, i)' \/ ~ Follows(Windows(depth_)[i], depth_)'
  <2>1. i \in DOMAIN Windows(depth_) /\ i \in Nat
    <3>1. Windows(depth_)' = Windows(depth_)
      BY <1>1 DEF Windows, depth_
    <3>2. Windows(depth_) \in Seq(TimeWindow)
      <4>1. /\ depth_ \in DOMAIN nodeVec /\ nodeVec \in Seq(DOMAIN tree)
            /\ tree \in Seq(SearchNode)
        BY <1>1 DEF Choosing, LMapInv, PathOK, SearchOK
      <4>2. tree[nodeVec[depth_]] \in SearchNode
        BY <4>1
      <4> QED
        BY <4>2 DEF SearchNode, Windows
    <3> QED
      BY <3>1, <3>2
  <2>2. Dead(depth_, i)' <=> Dead(depth_, i)
    BY <1>1, PathStatic DEF depth_
  <2>3. i < candidate \/ i = candidate
    BY <1>1, <1>2, <1>5, <2>1
  <2> QED
    BY <1>1, <1>2, <1>4, <2>1, <2>2, <2>3 DEF CandidateOK
<1>6. CandidateOK'
  BY <1>4, <1>5 DEF CandidateOK
<1> QED
  BY <1>1, <1>3, <1>6 DEF ChoiceOK

\* The first window that follows is chosen: those before it would have followed
\* too, so they are dead.
LEMMA chooseWindowChoice ==
    ASSUME LMapInv, TreeOK, ChoiceOK, chooseWindow
    PROVE  ChoiceOK'
<1>1. PICK L, c : L = Len(myList) /\ c = candidate
  OBVIOUS
<1>2. /\ pc = "chain" /\ pc' = "chain" /\ Choosing /\ L \in Nat /\ depth_ = L + 1
      /\ L + 1 \in DOMAIN nodeVec /\ c \in DOMAIN Windows(L + 1)
      /\ Follows(Windows(L + 1)[c], L + 1)
      /\ myList' = Append(myList, c) /\ candidate' = 1 /\ UNCHANGED <<tree, nodeVec>>
  BY <1>1, FollowsIsCanFollow DEF chooseWindow, TryingWindow, Choosing, searchVars
<1>3. /\ myList \in Seq(Nat) /\ c \in Nat /\ DOMAIN myList = 1 .. L
      /\ \A d \in DOMAIN myList : myList[d] \in DOMAIN Windows(d)
      /\ ChosenOK /\ CandidateOK
      /\ nodeVec \in Seq(DOMAIN tree)
  BY <1>1, <1>2 DEF LMapInv, PathOK, ChoiceOK
<1>4. /\ Len(myList') = L + 1 /\ DOMAIN myList' = 1 .. L + 1 /\ myList'[L + 1] = c
      /\ \A d \in 1 .. L : myList'[d] = myList[d]
  BY <1>1, <1>2, <1>3
<1>5. L > 0 => CanFollow(L, myList[L], c)
  BY <1>1, <1>2, FollowsIsCanFollow
<1>6. ASSUME NEW d \in 1 .. L PROVE CanFollow(d, myList'[d], myList'[d + 1])
  <2>1. CASE d = L
    BY <1>2, <1>4, <1>5, <2>1
  <2>2. CASE d # L
    <3>1. d \in 1 .. L - 1 /\ d + 1 \in 1 .. L
      BY <1>2, <2>2
    <3>2. CanFollow(d, myList[d], myList[d + 1])
      BY <1>1, <1>3, <3>1 DEF ChosenOK
    <3> QED
      BY <1>4, <3>1, <3>2
  <2> QED
    BY <2>1, <2>2
<1>7. ASSUME NEW i \in DOMAIN Windows(L + 1), i < c PROVE Dead(L + 1, i)
  <2>1. Dead(L + 1, i) \/ ~ Follows(Windows(L + 1)[i], L + 1)
    BY <1>1, <1>2, <1>3, <1>7 DEF CandidateOK
  <2>2. Follows(Windows(L + 1)[i], L + 1)
    <3>1. CASE L = 0
      BY <1>1, <1>2, <3>1, FollowsIsCanFollow
    <3>2. CASE L > 0
      <4>1. Windows(L + 1)[i].first <= Windows(L + 1)[c].first
        <5>1. i <= c
          BY <1>2, <1>3, <1>7, PathWindows
        <5> QED
          BY <1>2, <5>1, LaterWindow
      <4>2. /\ Windows(L + 1)[i].first \in Int /\ Windows(L + 1)[c].first \in Int
            /\ TravelTo(L + 1) \in Nat
        BY <1>2, PathWindows
      <4>3. Windows(L)[myList[L]].second \in Int
        <5>1. L \in DOMAIN nodeVec /\ L \in DOMAIN myList
          BY <1>2, <1>3, <3>2
        <5> QED
          BY <1>3, <5>1, PathWindows
      <4>4. CanFollow(L, myList[L], i)
        BY <1>5, <3>2, <4>1, <4>2, <4>3 DEF CanFollow
      <4> QED
        BY <1>1, <1>2, <3>2, <4>4, FollowsIsCanFollow
    <3> QED
      BY <1>2, <3>1, <3>2
  <2> QED
    BY <2>1, <2>2
<1>8. ASSUME NEW d \in 1 .. L + 1, NEW i \in DOMAIN Windows(d), i < myList'[d]
      PROVE  Dead(d, i)
  <2>1. CASE d = L + 1
    BY <1>4, <1>7, <1>8, <2>1
  <2>2. CASE d # L + 1
    <3>1. d \in 1 .. L /\ myList'[d] = myList[d]
      BY <1>2, <1>4, <2>2
    <3> QED
      BY <1>3, <1>8, <3>1 DEF ChosenOK
  <2> QED
    BY <2>1, <2>2
<1>9. ChosenOK'
  <2>1. \A d \in 1 .. Len(myList') - 1 : d \in 1 .. L
    BY <1>2, <1>4
  <2> QED
    BY <1>2, <1>4, <1>6, <1>8, <2>1, PathStatic DEF ChosenOK
<1>10. CandidateOK'
  <2>1. ASSUME Choosing', NEW i \in DOMAIN Windows(depth_)' PROVE ~ (i < 1)
    <3>1. PICK e : e = depth_'
      OBVIOUS
    <3>2. e \in DOMAIN nodeVec /\ i \in DOMAIN Windows(e)
      BY <1>2, <2>1, <3>1 DEF Choosing, Windows
    <3> QED
      BY <3>2, PathWindows
  <2> QED
    BY <1>2, <2>1 DEF CandidateOK
<1> QED
  BY <1>2, <1>9, <1>10 DEF ChoiceOK

\* No window is left: what was chosen before it is dead.
LEMMA backtrackChoice ==
    ASSUME LMapInv, TreeOK, PathLinked, ChoiceOK, backtrack
    PROVE  ChoiceOK'
<1>1. PICK L, c : L = Len(myList) /\ c = myList[Len(myList)]
  OBVIOUS
<1>2. /\ pc = "chain" /\ pc' = "chain" /\ Choosing /\ myList # <<>>
      /\ L \in Nat /\ depth_ = L + 1 /\ L + 1 \in DOMAIN nodeVec
      /\ candidate \notin DOMAIN Windows(L + 1)
      /\ myList' = Front(myList) /\ candidate' = c + 1 /\ UNCHANGED <<tree, nodeVec>>
  BY <1>1, FollowsIsCanFollow DEF backtrack, Choosing, Last, searchVars
<1>3. /\ myList \in Seq(Nat) /\ DOMAIN myList = 1 .. L /\ candidate \in Nat
      /\ \A d \in DOMAIN myList : myList[d] \in DOMAIN Windows(d)
      /\ ChosenOK /\ CandidateOK
      /\ nodeVec \in Seq(DOMAIN tree)
  BY <1>1, <1>2 DEF LMapInv, PathOK, ChoiceOK
<1>4. /\ Len(myList') = L - 1 /\ DOMAIN myList' = 1 .. L - 1 /\ L >= 1
      /\ \A d \in 1 .. L - 1 : myList'[d] = myList[d]
  BY <1>1, <1>2, <1>3, FrontElements
<1>5. L \in 1 .. Len(nodeVec) - 1 /\ L \in DOMAIN nodeVec /\ L \in DOMAIN myList
  BY <1>2, <1>3, <1>4
<1>6. c \in DOMAIN Windows(L) /\ c \in Nat
  BY <1>1, <1>3, <1>5
<1>7. ASSUME NEW m \in Completion(L), m[L] = c PROVE FALSE
  <2>1. /\ m \in Completion(L + 1) /\ m[L + 1] \in DOMAIN Windows(L + 1)
        /\ CanFollow(L, c, m[L + 1])
    BY <1>5, <1>7, CompletionShortened
  <2>2. Follows(Windows(L + 1)[m[L + 1]], L + 1)
    BY <1>1, <1>2, <1>4, <2>1, FollowsIsCanFollow
  <2>3. m[L + 1] < candidate
    <3>1. DOMAIN Windows(L + 1) = 1 .. Len(Windows(L + 1)) /\ Len(Windows(L + 1)) \in Nat
      BY <1>2, PathWindows
    <3>2. candidate >= 1
      BY <1>3 DEF CandidateOK
    <3> QED
      BY <1>2, <1>3, <2>1, <3>1, <3>2
  <2>4. Dead(L + 1, m[L + 1])
    BY <1>2, <1>3, <2>1, <2>2, <2>3 DEF CandidateOK
  <2> QED
    BY <2>1, <2>4 DEF Dead
<1>8. \A i \in DOMAIN Windows(L) : i < c + 1 => Dead(L, i)
  <2> SUFFICES ASSUME NEW i \in DOMAIN Windows(L), i < c + 1 PROVE Dead(L, i)
    OBVIOUS
  <2>1. i \in Int
    BY <1>5, PathWindows
  <2>2. CASE i = c
    BY <1>7, <2>2 DEF Dead
  <2>3. CASE i < c
    BY <1>1, <1>3, <1>5, <2>3 DEF ChosenOK
  <2> QED
    BY <1>6, <2>1, <2>2, <2>3
<1>9. ChosenOK'
  <2>1. ASSUME NEW d \in 1 .. (L - 1) - 1 PROVE CanFollow(d, myList'[d], myList'[d + 1])
    <3>1. d \in 1 .. L - 1 /\ d + 1 \in 1 .. L - 1
      BY <1>2
    <3> QED
      BY <1>1, <1>3, <1>4, <3>1 DEF ChosenOK
  <2>2. ASSUME NEW d \in 1 .. L - 1, NEW i \in DOMAIN Windows(d), i < myList'[d]
        PROVE  Dead(d, i)
    <3>1. d \in DOMAIN myList
      BY <1>2, <1>3
    <3> QED
      BY <1>3, <1>4, <2>2, <3>1 DEF ChosenOK
  <2> QED
    BY <1>2, <1>4, <2>1, <2>2, PathStatic DEF ChosenOK
<1>10. CandidateOK'
  <2>1. depth_' = L
    BY <1>2, <1>4 DEF depth_
  <2>2. candidate' >= 1
    BY <1>2, <1>6
  <2>3. \A i \in DOMAIN Windows(L)' : i < candidate' => Dead(L, i)'
    BY <1>2, <1>8, PathStatic
  <2> QED
    BY <2>1, <2>2, <2>3 DEF CandidateOK
<1> QED
  BY <1>2, <1>9, <1>10 DEF ChoiceOK

\* The choice begins with the first window of the first node.
LEMMA tracedChoice ==
    ASSUME LMapInv, TreeOK, ChoiceOK, traced
    PROVE  ChoiceOK'
<1>1. /\ pc = "trace" /\ pc' = "chain" /\ myList' = myList /\ candidate' = candidate
      /\ UNCHANGED <<tree, nodeVec>>
  BY DEF traced, searchVars, pathVars
<1>2. myList' = <<>> /\ candidate' = 1
  BY <1>1 DEF LMapInv, PathOK, ChoiceOK
<1>3. ChosenOK'
  <2>1. Len(<<>>) = 0 /\ DOMAIN <<>> = {} /\ 1 .. 0 - 1 = {}
    OBVIOUS
  <2> QED
    BY <1>2, <2>1 DEF ChosenOK
<1>4. ASSUME Choosing', NEW i \in DOMAIN Windows(depth_)' PROVE ~ (i < 1)
  <2>1. PICK e : e = depth_'
    OBVIOUS
  <2>2. e \in DOMAIN nodeVec /\ i \in DOMAIN Windows(e)
    BY <1>1, <1>4, <2>1 DEF Choosing, Windows
  <2> QED
    BY <2>2, PathWindows
<1>5. CandidateOK'
  BY <1>2, <1>4 DEF CandidateOK
<1> QED
  BY <1>1, <1>3, <1>5 DEF ChoiceOK

\* Every step of the planner keeps the choice sound.
LEMMA PlannerStepChoice ==
    ASSUME LMapInv, TreeOK, PathLinked, ChoiceOK, PlannerStep
    PROVE  ChoiceOK'
<1>1. CASE noStartWindow \/ openListEmpty \/ routePlanned
  <2>1. pc' # "chain" /\ candidate' = 1
    BY <1>1 DEF noStartWindow, openListEmpty, StandDone, routePlanned, EndSearch
  <2> QED
    BY <2>1 DEF ChoiceOK
<1>2. CASE \/ getRobotPositions \/ initLockArea \/ locksInitialised \/ startSearch
           \/ addNeighbour \/ skipNeighbour \/ expanded \/ popOpenList \/ traceBack
  <2>1. pc # "chain" /\ pc' # "chain" /\ candidate' = candidate
    BY <1>2 DEF getRobotPositions, initLockArea, locksInitialised, startSearch, addNeighbour,
                skipNeighbour, LookingAtNeighbour, expanded, popOpenList, traceBack, pathVars
  <2> QED
    BY <2>1 DEF ChoiceOK
<1>3. CASE traced
  BY <1>3, tracedChoice
<1>4. CASE chooseWindow
  BY <1>4, chooseWindowChoice
<1>5. CASE rejectWindow
  BY <1>5, rejectWindowChoice
<1>6. CASE backtrack
  BY <1>6, backtrackChoice
<1> QED
  BY <1>1, <1>2, <1>3, <1>4, <1>5, <1>6 DEF PlannerStep

--------------------------------------------------------------------------------
(* The finished route. *)

\* The windows of the search tree are clear of locks and can be reached.
LEMMA TreeWindowsSound == LMapInv /\ TreeOK => WindowsSound
<1> SUFFICES ASSUME LMapInv, TreeOK, NEW n \in DOMAIN tree,
                    NEW w \in Range(tree[n].feasible_arrival_time)
             PROVE  /\ \A lock \in Range(node_locked_time_window[tree[n].node_id]) :
                          Apart(w, lock)
                    /\ tree[n].pre_node # 0 =>
                         \E v \in Range(tree[tree[n].pre_node].feasible_arrival_time) :
                            /\ v.first + tree[n].travel_time_from_parent <= w.first
                            /\ v.second # INF =>
                                 w.second <= v.second + tree[n].travel_time_from_parent
  BY DEF WindowsSound
<1>1. PICK i \in DOMAIN Arrivals(n) : w = Arrivals(n)[i]
  BY DEF Range, Arrivals
<1>2. \A lock \in Range(node_locked_time_window[tree[n].node_id]) : Apart(w, lock)
  <2>1. ApartFrom(w, tree[n].node_id)
    BY <1>1 DEF TreeOK, WindowsOK
  <2> QED
    BY <2>1 DEF ApartFrom, Range
<1>3. ASSUME tree[n].pre_node # 0
      PROVE  \E v \in Range(tree[tree[n].pre_node].feasible_arrival_time) :
                Reaches(v, tree[n].travel_time_from_parent, w)
  <2>1. PICK j \in DOMAIN Arrivals(tree[n].pre_node) :
           Reaches(Arrivals(tree[n].pre_node)[j], tree[n].travel_time_from_parent, w)
    BY <1>1, <1>3 DEF TreeOK, EdgeOK
  <2>2. Arrivals(tree[n].pre_node)[j] \in Range(tree[tree[n].pre_node].feasible_arrival_time)
    BY DEF Range, Arrivals
  <2> QED
    BY <2>1, <2>2
<1> QED
  BY <1>2, <1>3 DEF Reaches

\* There is a choice left at the first node: not all of its windows can be dead.
LEMMA ChoiceIsLeft ==
    LMapInv /\ TreeOK /\ PathLinked /\ ChoiceOK => ChainExists
<1> SUFFICES ASSUME LMapInv, TreeOK, PathLinked, ChoiceOK,
                    Choosing, myList = <<>>, candidate \notin DOMAIN Windows(1)
             PROVE  FALSE
  BY DEF ChainExists
<1>1. Len(myList) = 0 /\ depth_ = 1 /\ 1 \in DOMAIN nodeVec /\ pc = "chain"
  BY FollowsIsCanFollow DEF Choosing
<1>2. nodeVec # <<>> /\ CandidateOK /\ candidate \in Nat
  BY <1>1 DEF LMapInv, PathOK, ChoiceOK
<1>3. PICK m \in Completion(1) : TRUE
  BY <1>2, PathCompletes
<1>4. m[1] \in DOMAIN Windows(1)
  <2>1. nodeVec \in Seq(DOMAIN tree)
    BY DEF LMapInv, PathOK
  <2>2. 1 \in 1 .. Len(nodeVec)
    BY <1>1, <2>1
  <2> QED
    BY <1>3, <2>2 DEF Completion
<1>5. m[1] < candidate
  <2>1. DOMAIN Windows(1) = 1 .. Len(Windows(1)) /\ Len(Windows(1)) \in Nat
    BY <1>1, PathWindows
  <2> QED
    BY <1>2, <1>4, <2>1 DEF CandidateOK
<1>6. Dead(1, m[1])
  BY <1>1, <1>2, <1>4, <1>5, FollowsIsCanFollow DEF CandidateOK
<1> QED
  BY <1>3, <1>6 DEF Dead

\* When all windows are chosen, each opens when the robot can be there, because
\* the window it comes from, or a later one, was chosen before it.
LEMMA ReadyChoice ==
    ASSUME LMapInv, TreeOK, PathLinked, ChoiceOK, RouteReady,
           NEW d \in 1 .. Len(nodeVec) - 1
    PROVE  /\ Chosen(d).first + TravelTo(d + 1) <= Chosen(d + 1).first
           /\ Chosen(d + 1).first <= Chosen(d).second + TravelTo(d + 1)
<1> DEFINE AllWindows == UNION {DOMAIN Windows(e) : e \in DOMAIN nodeVec}
<1>1. /\ nodeVec \in Seq(DOMAIN tree) /\ myList \in Seq(Nat) /\ Len(myList) = Len(nodeVec)
      /\ \A e \in DOMAIN myList : myList[e] \in DOMAIN Windows(e)
      /\ ChosenOK
  BY DEF LMapInv, PathOK, ChoiceOK, RouteReady
<1>2. /\ Len(nodeVec) \in Nat /\ DOMAIN nodeVec = 1 .. Len(nodeVec)
      /\ DOMAIN myList = DOMAIN nodeVec
      /\ d \in DOMAIN nodeVec /\ d + 1 \in DOMAIN nodeVec
  BY <1>1
<1>3. myList \in Completion(d + 1)
  <2>1. myList \in [DOMAIN nodeVec -> AllWindows]
    <3>1. \A e \in DOMAIN nodeVec : myList[e] \in AllWindows
      BY <1>1, <1>2
    <3> HIDE DEF AllWindows
    <3>2. myList = [e \in DOMAIN nodeVec |-> myList[e]]
      BY <1>1, <1>2
    <3> QED
      BY <3>1, <3>2
  <2>2. \A e \in d + 1 .. Len(nodeVec) : e \in DOMAIN myList
    BY <1>2
  <2>3. \A e \in d + 1 .. Len(nodeVec) - 1 : e \in 1 .. Len(myList) - 1
    BY <1>1, <1>2
  <2> QED
    BY <1>1, <2>1, <2>2, <2>3 DEF Completion, ChosenOK
<1>4. myList[d + 1] \in DOMAIN Windows(d + 1) /\ myList[d] \in DOMAIN Windows(d)
  BY <1>1, <1>2
<1>5. PICK i \in DOMAIN Windows(d) :
         /\ CanFollow(d, i, myList[d + 1])
         /\ Windows(d)[i].first + TravelTo(d + 1) <= Windows(d + 1)[myList[d + 1]].first
  BY <1>4, PathEdges
<1>6. ~ Dead(d, i)
  BY <1>3, <1>5, CompletionExtended DEF Dead
<1>7. ~ (i < myList[d])
  BY <1>1, <1>2, <1>6 DEF ChosenOK
<1>8. Windows(d)[myList[d]].first <= Windows(d)[i].first
  <2>1. myList[d] <= i
    <3>1. myList[d] \in Nat
      BY <1>1, <1>2
    <3>2. DOMAIN Windows(d) = 1 .. Len(Windows(d)) /\ Len(Windows(d)) \in Nat
      BY <1>1, <1>2, PathWindows
    <3>3. i \in Int
      BY <3>2
    <3> QED
      BY <1>7, <3>1, <3>3
  <2> QED
    BY <1>2, <1>4, <2>1, LaterWindow
<1>9. /\ Windows(d)[myList[d]].first \in Int /\ Windows(d)[i].first \in Int
      /\ Windows(d + 1)[myList[d + 1]].first \in Int /\ TravelTo(d + 1) \in Nat
      /\ Windows(d)[myList[d]].second \in Int
  BY <1>2, <1>4, PathWindows
<1>10. Windows(d)[myList[d]].first + TravelTo(d + 1) <= Windows(d + 1)[myList[d + 1]].first
  BY <1>5, <1>8, <1>9
<1>11. CanFollow(d, myList[d], myList[d + 1])
  BY <1>1 DEF ChosenOK
<1> QED
  BY <1>9, <1>10, <1>11 DEF Chosen, CanFollow

\* What generateRoute puts at each place.
LEMMA RouteFields ==
    ASSUME LMapInv, TreeOK, RouteReady
    PROVE  /\ generateRoute \in Route /\ Len(generateRoute.vps) = Len(nodeVec)
           /\ Len(nodeVec) \in Nat /\ Len(nodeVec) >= 1
           /\ DOMAIN nodeVec = 1 .. Len(nodeVec)
           /\ \A d \in 1 .. Len(nodeVec) :
                /\ generateRoute.vps[d] = tree[nodeVec[d]].node_id
                /\ generateRoute.tts[d] = IF d < Len(nodeVec) THEN TravelTo(d + 1) ELSE 0
                /\ generateRoute.wts[d] =
                     IF d < Len(nodeVec)
                     THEN Chosen(d + 1).first - Chosen(d).first - TravelTo(d + 1) ELSE 0
                /\ generateRoute.arr_and_depar_time[d].first = Chosen(d).first
                /\ Chosen(d).first \in Int /\ Chosen(d).second \in Int
                /\ Chosen(d).first < Chosen(d).second /\ Chosen(d).second <= INF
                /\ ApartFrom(Chosen(d), tree[nodeVec[d]].node_id)
                /\ TravelTo(d) \in Nat /\ tree[nodeVec[d]].node_id \in Node
<1> DEFINE size == Len(nodeVec)
           travel_time == [d \in 1 .. size |->
               IF d < size THEN tree[nodeVec[d + 1]].travel_time_from_parent ELSE 0]
           wait_time == [d \in 1 .. size |->
               IF d < size THEN Chosen(d + 1).first - Chosen(d).first - travel_time[d] ELSE 0]
           vps == [d \in 1 .. size |-> tree[nodeVec[d]].node_id]
           windows == [d \in 1 .. size |->
               [first  |-> Chosen(d).first,
                second |-> IF d < size THEN Chosen(d).first + wait_time[d]
                           ELSE Chosen(d).second]]
<1>1. generateRoute = [vps |-> vps, wts |-> wait_time, tts |-> travel_time,
                       arr_and_depar_time |-> windows]
  BY DEF generateRoute
<1>2. /\ nodeVec \in Seq(DOMAIN tree) /\ Len(myList) = size /\ myList \in Seq(Nat)
      /\ \A d \in DOMAIN myList : myList[d] \in DOMAIN Windows(d)
      /\ nodeVec # <<>>
  BY DEF LMapInv, PathOK, RouteReady
<1>3. /\ size \in Nat /\ size >= 1 /\ DOMAIN nodeVec = 1 .. size /\ DOMAIN myList = 1 .. size
  BY <1>2, EmptySeq
<1>4. Len(vps) = size
  BY <1>3
<1>5. \A d \in 1 .. size :
         /\ vps[d] = tree[nodeVec[d]].node_id
         /\ windows[d].first = Chosen(d).first
         /\ travel_time[d] = IF d < size THEN TravelTo(d + 1) ELSE 0
         /\ wait_time[d] = IF d < size
                           THEN Chosen(d + 1).first - Chosen(d).first - TravelTo(d + 1) ELSE 0
  BY DEF TravelTo
<1> HIDE DEF vps, windows, travel_time, wait_time, size
<1>6. ASSUME NEW d \in 1 .. size
      PROVE  /\ Chosen(d).first \in Int /\ Chosen(d).second \in Int
             /\ Chosen(d).first < Chosen(d).second /\ Chosen(d).second <= INF
             /\ ApartFrom(Chosen(d), tree[nodeVec[d]].node_id)
             /\ TravelTo(d) \in Nat /\ tree[nodeVec[d]].node_id \in Node
  <2>1. myList[d] \in DOMAIN Windows(d) /\ Chosen(d) = Windows(d)[myList[d]]
    BY <1>2, <1>3 DEF Chosen
  <2>2. tree[nodeVec[d]] \in SearchNode
    BY <1>3, PathWindows
  <2> QED
    BY <1>3, <2>1, <2>2, PathWindows DEF SearchNode
<1>7. generateRoute \in Route
  BY generateRouteType
<1> QED
  BY <1>1, <1>3, <1>4, <1>5, <1>6, <1>7 DEF size

\* The arrival times that locking recomputes are those of the windows chosen.
LEMMA RouteArrivals ==
    ASSUME LMapInv, TreeOK, RouteReady
    PROVE  \A d \in 1 .. Len(nodeVec) : ArrivalTime(generateRoute, d) = Chosen(d).first
<1>1. PICK N, route : N = Len(nodeVec) /\ route = generateRoute
  OBVIOUS
<1>2. /\ route \in Route /\ Len(route.vps) = N /\ N \in Nat /\ N >= 1
      /\ \A d \in 1 .. N :
           /\ route.tts[d] = IF d < N THEN TravelTo(d + 1) ELSE 0
           /\ route.wts[d] = IF d < N THEN Chosen(d + 1).first - Chosen(d).first - TravelTo(d + 1)
                             ELSE 0
           /\ route.arr_and_depar_time[d].first = Chosen(d).first
           /\ Chosen(d).first \in Int /\ TravelTo(d) \in Nat
  BY <1>1, RouteFields
<1>3. /\ ArrivalTime(route, 1) = Chosen(1).first
      /\ \A d \in 1 .. N : d > 1 => ArrivalTime(route, d) =
            ArrivalTime(route, d - 1) + route.tts[d - 1] + route.wts[d - 1]
  <2>1. 1 \in 1 .. N
    BY <1>2
  <2> QED
    BY <1>2, <2>1, ArrivalTimes
<1> DEFINE T == {m \in 0 .. N : m = 0 \/ ArrivalTime(route, m) = Chosen(m).first}
<1>4. 0 \in T
  BY <1>2
<1>5. ASSUME NEW m \in 0 .. N - 1, m \in T PROVE m + 1 \in T
  <2>1. m + 1 \in 1 .. N /\ m + 1 \in 0 .. N
    BY <1>2
  <2>2. CASE m = 0
    BY <1>3, <2>1, <2>2
  <2>3. CASE m # 0
    <3>1. m \in 1 .. N /\ m < N /\ m + 1 > 1 /\ (m + 1) - 1 = m
      BY <1>2, <2>3
    <3>2. ArrivalTime(route, m) = Chosen(m).first
      BY <1>5, <2>3
    <3>3. ArrivalTime(route, m + 1) = ArrivalTime(route, m) + route.tts[m] + route.wts[m]
      BY <1>3, <2>1, <3>1
    <3>4. /\ route.tts[m] = TravelTo(m + 1)
          /\ route.wts[m] = Chosen(m + 1).first - Chosen(m).first - TravelTo(m + 1)
          /\ Chosen(m).first \in Int /\ Chosen(m + 1).first \in Int /\ TravelTo(m + 1) \in Nat
      BY <1>2, <2>1, <3>1
    <3>5. ArrivalTime(route, m + 1) = Chosen(m + 1).first
      BY <3>2, <3>3, <3>4
    <3> QED
      BY <2>1, <3>5
  <2> QED
    BY <2>2, <2>3
<1> HIDE DEF T
<1>6. \A m \in 0 .. N : m \in T
  BY <1>2, <1>4, <1>5, FiniteInduction
<1>7. ASSUME NEW d \in 1 .. N PROVE ArrivalTime(route, d) = Chosen(d).first
  <2>1. d \in 0 .. N /\ d # 0
    BY <1>2
  <2> QED
    BY <1>6, <2>1 DEF T
<1> QED
  BY <1>1, <1>7

\* The route follows the edges of the tree, which is a path of the map.
LEMMA RouteDrivable ==
    ASSUME LMapInv, TreeOK, PathLinked, ChoiceOK, RouteReady
    PROVE  Drivable(generateRoute)
<1>1. PICK N, route : N = Len(nodeVec) /\ route = generateRoute
  OBVIOUS
<1>2. /\ route \in Route /\ Len(route.vps) = N /\ N \in Nat /\ DOMAIN nodeVec = 1 .. N
      /\ \A d \in 1 .. N :
           /\ route.vps[d] = tree[nodeVec[d]].node_id
           /\ route.tts[d] = IF d < N THEN TravelTo(d + 1) ELSE 0
           /\ route.wts[d] = IF d < N THEN Chosen(d + 1).first - Chosen(d).first - TravelTo(d + 1)
                             ELSE 0
           /\ Chosen(d).first \in Int /\ Chosen(d).second \in Int
           /\ Chosen(d).first < Chosen(d).second /\ Chosen(d).second <= INF
           /\ TravelTo(d) \in Nat
           /\ ArrivalTime(route, d) = Chosen(d).first
  BY <1>1, RouteFields, RouteArrivals
<1>3. ASSUME NEW d \in 1 .. N PROVE route.wts[d] >= 0 /\ ArrivalTime(route, d) < INF
  <2>1. ArrivalTime(route, d) < INF
    BY <1>2, InfAssumption
  <2>2. CASE d < N
    <3>1. d \in 1 .. N - 1 /\ d + 1 \in 1 .. N
      BY <1>2, <2>2
    <3>2. Chosen(d).first + TravelTo(d + 1) <= Chosen(d + 1).first
      BY <1>1, <3>1, ReadyChoice
    <3>3. /\ route.wts[d] = Chosen(d + 1).first - Chosen(d).first - TravelTo(d + 1)
          /\ Chosen(d).first \in Int /\ Chosen(d + 1).first \in Int /\ TravelTo(d + 1) \in Nat
      BY <1>2, <2>2, <3>1
    <3>4. route.wts[d] >= 0
      BY <3>2, <3>3
    <3> QED
      BY <2>1, <3>4
  <2>3. CASE ~ (d < N)
    BY <1>2, <2>1, <2>3
  <2> QED
    BY <2>2, <2>3
<1>4. ASSUME NEW d \in 1 .. N - 1 PROVE Hop(route.vps[d], route.vps[d + 1], route.tts[d])
  <2>1. d \in 1 .. N /\ d + 1 \in 1 .. N /\ d < N
    BY <1>2
  <2>2. Hop(tree[nodeVec[d]].node_id, tree[nodeVec[d + 1]].node_id, TravelTo(d + 1))
    BY <1>1, PathEdges
  <2> QED
    BY <1>2, <2>1, <2>2
<1>5. ASSUME NEW d \in 1 .. N, NEW e \in 1 .. N, route.vps[d] = route.vps[e] PROVE d = e
  <2>1. /\ nodeVec[d] \in DOMAIN tree /\ nodeVec[e] \in DOMAIN tree
        /\ tree[nodeVec[d]].node_id = tree[nodeVec[e]].node_id
    BY <1>2, <1>5, PathWindows
  <2>2. nodeVec[d] = nodeVec[e]
    BY <2>1 DEF LMapInv, SearchOK, SearchTreeSound
  <2>3. ~ (d < e) /\ ~ (e < d)
    <3>1. nodeVec[d] \in Nat
      BY <2>1 DEF LMapInv, SearchOK
    <3>2. d \in DOMAIN nodeVec /\ e \in DOMAIN nodeVec
      BY <1>2
    <3>3. (d < e => nodeVec[d] < nodeVec[e]) /\ (e < d => nodeVec[e] < nodeVec[d])
      BY <3>2 DEF PathLinked
    <3> QED
      BY <2>2, <3>1, <3>3
  <2> QED
    BY <1>2, <2>3
<1> QED
  BY <1>1, <1>2, <1>3, <1>4, <1>5 DEF Drivable

\* The route leads from the start of the robot to its target.
LEMMA RouteLeads ==
    ASSUME LMapInv, TreeOK, PathLinked, RouteReady
    PROVE  /\ generateRoute.vps[1] = start_id
           /\ generateRoute.vps[Len(generateRoute.vps)] = end_id
           /\ generateRoute.arr_and_depar_time[1].first >= call.start_working_time
<1>1. PICK N, route : N = Len(nodeVec) /\ route = generateRoute
  OBVIOUS
<1>2. /\ Len(route.vps) = N /\ N \in Nat /\ N >= 1 /\ DOMAIN nodeVec = 1 .. N
      /\ \A d \in 1 .. N : /\ route.vps[d] = tree[nodeVec[d]].node_id
                           /\ route.arr_and_depar_time[d].first = Chosen(d).first
  BY <1>1, RouteFields
<1>3. 1 \in 1 .. N /\ N \in 1 .. N /\ pc = "chain" /\ nodeVec # <<>>
  BY <1>2 DEF RouteReady, LMapInv, PathOK
<1>4. nodeVec[1] \in DOMAIN tree /\ RootOK(nodeVec[1]) /\ Arrivals(nodeVec[1]) = Windows(1)
  BY <1>2, <1>3, PathWindows DEF TreeOK, PathLinked
<1>5. myList[1] \in DOMAIN Windows(1)
  <2>1. Len(myList) = N /\ myList \in Seq(Nat)
    BY <1>1 DEF RouteReady, LMapInv, PathOK
  <2>2. 1 \in DOMAIN myList
    BY <1>3, <2>1
  <2> QED
    BY <2>2 DEF LMapInv, PathOK
<1>6. tree[nodeVec[N]].node_id = end_id
  BY <1>1, <1>3 DEF PathLinked
<1>7. route.vps[1] = start_id /\ route.vps[N] = end_id
  BY <1>2, <1>3, <1>4, <1>6 DEF RootOK
<1>8. route.arr_and_depar_time[1].first >= call.start_working_time
  BY <1>2, <1>3, <1>4, <1>5 DEF RootOK, Chosen
<1> QED
  BY <1>1, <1>2, <1>7, <1>8

\* So the finished route is what RouteWellFormed says.
LEMMA FinishedRoute ==
    LMapInv /\ TreeOK /\ PathLinked /\ ChoiceOK => RouteWellFormed
<1> SUFFICES ASSUME LMapInv, TreeOK, PathLinked, ChoiceOK, RouteReady PROVE RouteWellFormed
  BY DEF RouteWellFormed
<1>1. PICK N, route : N = Len(nodeVec) /\ route = generateRoute
  OBVIOUS
<1>2. /\ route \in Route /\ Len(route.vps) = N /\ N \in Nat /\ N >= 1
      /\ \A d \in 1 .. N :
           /\ ArrivalTime(route, d) = Chosen(d).first
           /\ route.arr_and_depar_time[d].first = Chosen(d).first
  BY <1>1, RouteFields, RouteArrivals
<1>3. Drivable(route)
  BY <1>1, RouteDrivable
<1>4. /\ route.vps[1] = start_id /\ route.vps[Len(route.vps)] = end_id
      /\ route.arr_and_depar_time[1].first >= call.start_working_time
  BY <1>1, RouteLeads
<1>5. 1 \in 1 .. N
  BY <1>2
<1>6. ArrivalTime(route, 1) >= call.start_working_time
  BY <1>2, <1>4, <1>5
<1>7. \A i \in 1 .. Len(route.vps) :
         route.wts[i] >= 0 /\ ArrivalTime(route, i) = route.arr_and_depar_time[i].first
  BY <1>2, <1>3 DEF Drivable
<1>8. \A i \in 1 .. Len(route.vps) - 1 :
         \E j \in DOMAIN neighbour_node_list[route.vps[i]] :
            /\ neighbour_node_list[route.vps[i]][j] = route.vps[i + 1]
            /\ travel_time_list[route.vps[i]][j] = route.tts[i]
  BY <1>3 DEF Drivable, Hop
<1>9. \A i, j \in 1 .. Len(route.vps) : route.vps[i] = route.vps[j] => i = j
  BY <1>3 DEF Drivable
<1> QED
  BY <1>1, <1>4, <1>6, <1>7, <1>8, <1>9, Zenon DEF RouteWellFormed

--------------------------------------------------------------------------------
(* The finished route and those it was planned around. *)

\* When the robot leaves a place, and how that relates to its arrivals.
LEMMA Departures ==
    ASSUME NEW route \in Route, Drivable(route), NEW i \in 1 .. Len(route.vps)
    PROVE  /\ ArrivalTime(route, i) \in Int /\ DepartureTime(route, i) \in Int
           /\ ArrivalTime(route, i) <= DepartureTime(route, i)
           /\ i < Len(route.vps) =>
                /\ ArrivalTime(route, i + 1) = DepartureTime(route, i) + route.tts[i]
                /\ LockEnd(route, i) = DepartureTime(route, i) + LockTail
           /\ i = Len(route.vps) => LockEnd(route, i) = INF
<1>1. /\ Len(route.vps) \in Nat /\ route.wts[i] \in Int /\ route.tts[i] \in Nat
      /\ route.wts[i] >= 0 /\ ArrivalTime(route, i) \in Int
  BY RouteParts, ArrivalTimes DEF Drivable
<1>2. ASSUME i < Len(route.vps)
      PROVE  ArrivalTime(route, i + 1) = DepartureTime(route, i) + route.tts[i]
  <2>1. i + 1 \in 1 .. Len(route.vps) /\ i + 1 > 1 /\ (i + 1) - 1 = i
    BY <1>1, <1>2
  <2>2. ArrivalTime(route, i + 1) = ArrivalTime(route, i) + route.tts[i] + route.wts[i]
    BY <2>1, ArrivalTimes
  <2> QED
    BY <1>1, <2>2 DEF DepartureTime
<1>3. i < Len(route.vps) => LockEnd(route, i) = DepartureTime(route, i) + LockTail
  BY <1>1 DEF LockEnd, DepartureTime
<1>4. i = Len(route.vps) => LockEnd(route, i) = INF
  BY DEF LockEnd
<1> QED
  BY <1>1, <1>2, <1>3, <1>4 DEF DepartureTime

\* What is planned around can be driven.
LEMMA LockedRoutesDrivable ==
    ASSUME LMapInv, RoutesDrivable, NEW other \in LockedRoutes
    PROVE  other \in Route /\ Drivable(other)
<1>1. other \in Route
  BY LockedRoutesType
<1>2. Drivable(other)
  BY DEF LockedRoutes, RoutesDrivable, Range
<1> QED
  BY <1>1, <1>2

\* A window that is clear of the locks of a node, against the lock of a route
\* that passes the node.
LEMMA ClearOfLock ==
    ASSUME OwnLocks, LMapInv, RoutesDrivable, LocksCover, PlanningCall,
           NEW other \in LockedRoutes, NEW j \in 1 .. Len(other.vps),
           NEW w, w.first \in Int, w.second \in Int, ApartFrom(w, other.vps[j])
    PROVE  w.first >= LockEnd(other, j) \/ w.second <= ArrivalTime(other, j)
<1>1. /\ other \in Route /\ j \in DOMAIN other.vps /\ other.vps[j] \in Node
      /\ ArrivalTime(other, j) \in Int /\ LockEnd(other, j) \in Int
  <2>1. other \in Route /\ Drivable(other)
    BY LockedRoutesDrivable
  <2>2. /\ j \in DOMAIN other.vps /\ other.vps[j] \in Node /\ other.wts[j] \in Int
        /\ ArrivalTime(other, j) \in Int
    BY <2>1, RouteParts, ArrivalTimes
  <2> QED
    BY <2>1, <2>2, InfAssumption DEF LockEnd, LockTail
<1> DEFINE locked == node_locked_time_window[other.vps[j]]
<1>2. other.vps[j] \in Range(lock_node_list[other.vps[j]])
  BY <1>1 DEF OwnLocks
<1>3. PICK lock \in Range(locked) : /\ lock.first <= ArrivalTime(other, j)
                                    /\ LockEnd(other, j) <= lock.second
  BY <1>1, <1>2 DEF LocksCover
<1>4. locked \in Seq(TimeWindow)
  BY <1>1 DEF LMapInv, LocksOK
<1>5. Apart(w, lock)
  BY <1>3 DEF ApartFrom, Range
<1> HIDE DEF locked
<1>6. lock.first \in Int /\ lock.second \in Int
  <2>1. lock \in TimeWindow
    BY <1>3, <1>4 DEF Range
  <2> QED
    BY <2>1, WindowParts
<1>7. w.second <= lock.first \/ lock.second <= w.first
  BY <1>5 DEF Apart
<1> QED
  BY <1>1, <1>3, <1>6, <1>7

\* The robot is at each node while no robot it was planned around is.
LEMMA RouteIsClear ==
    ASSUME OwnLocks, LMapInv, RoutesDrivable, LocksCover, TreeOK, PathLinked, ChoiceOK,
           RouteReady, NEW other \in LockedRoutes
    PROVE  Clear(generateRoute, other)
<1>1. PICK N, route : N = Len(nodeVec) /\ route = generateRoute
  OBVIOUS
<1>2. /\ route \in Route /\ Len(route.vps) = N /\ N \in Nat
      /\ Drivable(route) /\ PlanningCall
      /\ \A d \in 1 .. N :
           /\ ArrivalTime(route, d) = Chosen(d).first
           /\ route.vps[d] = tree[nodeVec[d]].node_id
           /\ route.tts[d] = IF d < N THEN TravelTo(d + 1) ELSE 0
           /\ Chosen(d).first \in Int /\ Chosen(d).second \in Int
           /\ Chosen(d).first < Chosen(d).second
           /\ ApartFrom(Chosen(d), tree[nodeVec[d]].node_id)
           /\ TravelTo(d) \in Nat
  BY <1>1, RouteFields, RouteArrivals, RouteDrivable DEF RouteReady, PlanningCall
<1>3. /\ other \in Route /\ DOMAIN route.vps = 1 .. N
      /\ DOMAIN other.vps = 1 .. Len(other.vps)
      /\ \A i \in DOMAIN route.vps : route.vps[i] \in Node
      /\ \A j \in DOMAIN other.vps : other.vps[j] \in Node
  BY <1>2, LockedRoutesDrivable, RouteParts
<1>4. SUFFICES ASSUME NEW i \in 1 .. N, NEW j \in 1 .. Len(other.vps),
                      (Range(lock_node_list[route.vps[i]]) \union {route.vps[i]})
                          \intersect Range(lock_node_list[other.vps[j]]) # {}
               PROVE  \/ ArrivalTime(route, i) >= LockEnd(other, j)
                      \/ i < N /\ DepartureTime(route, i) <= ArrivalTime(other, j)
                      \/ i = N /\ ArrivalTime(route, i) < ArrivalTime(other, j)
  BY <1>1, <1>2, <1>3 DEF Clear
<1>5. route.vps[i] = other.vps[j]
  <2>1. /\ Range(lock_node_list[route.vps[i]]) = {route.vps[i]}
        /\ Range(lock_node_list[other.vps[j]]) = {other.vps[j]}
    BY <1>3 DEF OwnLocks
  <2> QED
    BY <1>4, <2>1
<1>6. Chosen(i).first >= LockEnd(other, j) \/ Chosen(i).second <= ArrivalTime(other, j)
  <2>1. ApartFrom(Chosen(i), other.vps[j]) /\ Chosen(i).first \in Int /\ Chosen(i).second \in Int
    BY <1>2, <1>5
  <2> QED
    BY <1>2, <2>1, ClearOfLock
<1>7. ArrivalTime(other, j) \in Int
  BY <1>3, ArrivalTimes
<1>8. CASE Chosen(i).first >= LockEnd(other, j)
  BY <1>2, <1>8
<1>9. CASE Chosen(i).second <= ArrivalTime(other, j) /\ i < N
  <2>1. i \in 1 .. N - 1 /\ i + 1 \in 1 .. N
    BY <1>2, <1>9
  <2>2. Chosen(i + 1).first <= Chosen(i).second + TravelTo(i + 1)
    BY <1>1, <2>1, ReadyChoice
  <2>3. /\ ArrivalTime(route, i + 1) = DepartureTime(route, i) + route.tts[i]
        /\ DepartureTime(route, i) \in Int
    BY <1>2, <1>9, Departures
  <2>4. /\ route.tts[i] = TravelTo(i + 1) /\ TravelTo(i + 1) \in Nat
        /\ ArrivalTime(route, i + 1) = Chosen(i + 1).first
        /\ Chosen(i).second \in Int
    BY <1>2, <1>9, <2>1
  <2>5. DepartureTime(route, i) <= ArrivalTime(other, j)
    BY <1>7, <1>9, <2>2, <2>3, <2>4
  <2> QED
    BY <1>9, <2>5
<1>10. CASE Chosen(i).second <= ArrivalTime(other, j) /\ i = N
  BY <1>2, <1>7, <1>10
<1> QED
  BY <1>2, <1>6, <1>8, <1>9, <1>10

\* What ShortEdges says of two robots on one edge.
LEMMA ShortHop ==
    ASSUME ShortEdges, NEW n \in Node, NEW m \in Node, NEW there, NEW back,
           Hop(n, m, there), Hop(m, n, back)
    PROVE  there <= LockTail /\ there = back
BY DEF ShortEdges, Hop

\* Two robots that would meet on an edge: what their times would have to be, if
\* one is clear of the other at the far end of the edge.
LEMMA MeetingTimes ==
    ASSUME NEW leave \in Int, NEW arrive \in Int, NEW begin \in Int, NEW finish \in Int,
           NEW t \in Nat,
           arrive = leave + t, finish = begin + t,
           leave < finish, arrive >= begin + 4
    PROVE  /\ t > 1
           /\ arrive < finish => t > 4
           /\ arrive >= finish + 4 => t > 4
  OBVIOUS

\* So the route meets none of the others head-on: a robot that comes to the far
\* end of an edge after the other has left, and its lock is over, finds either
\* the other already past, or an edge that is longer than the lock lasts.
LEMMA NoSwap ==
    ASSUME OwnLocks, ShortEdges, LMapInv, RoutesDrivable, LocksCover, TreeOK, PathLinked,
           ChoiceOK, RouteReady, NEW other \in LockedRoutes
    PROVE  ~ Swap(generateRoute, other)
<1>1. PICK N, route : N = Len(nodeVec) /\ route = generateRoute
  OBVIOUS
<1>2. /\ route \in Route /\ Len(route.vps) = N /\ N \in Nat
      /\ Drivable(route) /\ PlanningCall
      /\ \A d \in 1 .. N :
           /\ ArrivalTime(route, d) = Chosen(d).first
           /\ route.vps[d] = tree[nodeVec[d]].node_id
           /\ route.tts[d] = IF d < N THEN TravelTo(d + 1) ELSE 0
           /\ Chosen(d).first \in Int /\ Chosen(d).second \in Int
           /\ Chosen(d).first < Chosen(d).second /\ Chosen(d).second <= INF
           /\ TravelTo(d) \in Nat
  BY <1>1, RouteFields, RouteArrivals, RouteDrivable DEF RouteReady, PlanningCall
<1>3. /\ other \in Route /\ Drivable(other)
      /\ DOMAIN route.vps = 1 .. N /\ DOMAIN other.vps = 1 .. Len(other.vps)
      /\ Len(other.vps) \in Nat
      /\ \A i \in 1 .. N : route.vps[i] \in Node
      /\ \A j \in 1 .. Len(other.vps) : other.vps[j] \in Node /\ other.tts[j] \in Nat
  BY <1>2, LockedRoutesDrivable, RouteParts
<1>4. SUFFICES ASSUME NEW i \in 1 .. N - 1, NEW j \in 1 .. Len(other.vps) - 1,
                      route.vps[i] = other.vps[j + 1], route.vps[i + 1] = other.vps[j],
                      DepartureTime(route, i) < ArrivalTime(other, j + 1),
                      DepartureTime(other, j) < ArrivalTime(route, i + 1)
               PROVE  FALSE
  BY <1>1, <1>2 DEF Swap
<1>5. /\ i \in 1 .. N /\ i + 1 \in 1 .. N /\ i < N
      /\ j \in 1 .. Len(other.vps) /\ j + 1 \in 1 .. Len(other.vps) /\ j < Len(other.vps)
  BY <1>2, <1>3
<1>6. PICK t \in Nat : /\ t = route.tts[i] /\ t = other.tts[j] /\ t <= LockTail
                       /\ t = TravelTo(i + 1)
  <2>1. Hop(route.vps[i], route.vps[i + 1], route.tts[i])
    BY <1>2 DEF Drivable
  <2>2. Hop(other.vps[j], other.vps[j + 1], other.tts[j])
    BY <1>3 DEF Drivable
  <2>3. route.tts[i] = TravelTo(i + 1) /\ TravelTo(i + 1) \in Nat
    BY <1>2, <1>5
  <2>4. route.vps[i] \in Node /\ route.vps[i + 1] \in Node /\ other.tts[j] \in Nat
    BY <1>3, <1>5
  <2>5. route.tts[i] <= LockTail /\ route.tts[i] = other.tts[j]
    BY <1>4, <2>1, <2>2, <2>4, ShortHop
  <2> QED
    BY <2>3, <2>5
<1>7. /\ DepartureTime(route, i) \in Int /\ ArrivalTime(route, i + 1) \in Int
      /\ ArrivalTime(route, i + 1) = DepartureTime(route, i) + t
      /\ ArrivalTime(route, i + 1) <= DepartureTime(route, i + 1)
      /\ DepartureTime(route, i + 1) \in Int
  BY <1>2, <1>5, <1>6, Departures
<1>8. /\ DepartureTime(other, j) \in Int /\ ArrivalTime(other, j + 1) \in Int
      /\ ArrivalTime(other, j) \in Int
      /\ ArrivalTime(other, j) <= DepartureTime(other, j)
      /\ ArrivalTime(other, j + 1) = DepartureTime(other, j) + t
      /\ LockEnd(other, j) = DepartureTime(other, j) + LockTail
  BY <1>3, <1>5, <1>6, Departures
<1>9. ArrivalTime(route, i + 1) >= DepartureTime(other, j) + 4
  <2>1. Range(lock_node_list[other.vps[j]]) = {other.vps[j]}
    BY <1>3, <1>5 DEF OwnLocks
  <2>2. (Range(lock_node_list[route.vps[i + 1]]) \union {route.vps[i + 1]})
            \intersect Range(lock_node_list[other.vps[j]]) # {}
    BY <1>4, <2>1
  <2>3. \/ ArrivalTime(route, i + 1) >= LockEnd(other, j)
        \/ DepartureTime(route, i + 1) <= ArrivalTime(other, j)
        \/ ArrivalTime(route, i + 1) < ArrivalTime(other, j)
    BY <1>1, <1>3, <1>5, <2>2, RouteIsClear DEF Clear
  <2>4. DepartureTime(other, j) < ArrivalTime(route, i + 1)
    BY <1>4
  <2>5. ArrivalTime(other, j) < ArrivalTime(route, i + 1)
    BY <1>7, <1>8, <2>4
  <2>6. ArrivalTime(route, i + 1) >= LockEnd(other, j)
    BY <1>7, <1>8, <2>3, <2>5
  <2> QED
    BY <1>8, <2>6 DEF LockTail
<1>10. /\ t > 1
       /\ ~ (ArrivalTime(route, i + 1) < ArrivalTime(other, j + 1))
       /\ ~ (ArrivalTime(route, i + 1) >= ArrivalTime(other, j + 1) + 4)
  <2>1. PICK leave \in Int, arrive \in Int, begin \in Int, finish \in Int :
           /\ leave = DepartureTime(route, i) /\ arrive = ArrivalTime(route, i + 1)
           /\ begin = DepartureTime(other, j) /\ finish = ArrivalTime(other, j + 1)
    BY <1>7, <1>8
  <2>2. /\ arrive = leave + t /\ finish = begin + t
        /\ leave < finish /\ arrive >= begin + 4
    BY <1>4, <1>7, <1>8, <1>9, <2>1
  <2>3. t > 1 /\ (arrive < finish => t > 4) /\ (arrive >= finish + 4 => t > 4)
    BY <2>2, MeetingTimes
  <2>4. t <= 4
    BY <1>6 DEF LockTail
  <2> QED
    BY <2>1, <2>3, <2>4
<1>11. ApartFrom(Chosen(i + 1), other.vps[j + 1])
  <2>1. \A w \in DOMAIN Windows(i + 1) : ApartFrom(Windows(i + 1)[w], tree[nodeVec[i]].node_id)
    BY <1>1, <1>6, <1>10, PathEdges
  <2>2. myList[i + 1] \in DOMAIN Windows(i + 1)
    <3>1. myList \in Seq(Nat) /\ \A d \in DOMAIN myList : myList[d] \in DOMAIN Windows(d)
      BY DEF LMapInv, PathOK
    <3>2. Len(myList) = N
      BY <1>1 DEF RouteReady
    <3>3. DOMAIN myList = 1 .. N
      BY <3>1, <3>2
    <3> QED
      BY <1>5, <3>1, <3>3
  <2>3. other.vps[j + 1] = tree[nodeVec[i]].node_id
    BY <1>2, <1>4, <1>5
  <2> QED
    BY <2>1, <2>2, <2>3 DEF Chosen
<1>12. \/ Chosen(i + 1).first >= LockEnd(other, j + 1)
       \/ Chosen(i + 1).second <= ArrivalTime(other, j + 1)
  BY <1>2, <1>5, <1>11, ClearOfLock
<1>13. /\ Chosen(i + 1).first = ArrivalTime(route, i + 1)
       /\ Chosen(i + 1).first < Chosen(i + 1).second /\ Chosen(i + 1).second <= INF
       /\ Chosen(i + 1).first \in Int /\ Chosen(i + 1).second \in Int
  BY <1>2, <1>5
<1>14. CASE Chosen(i + 1).second <= ArrivalTime(other, j + 1)
  BY <1>7, <1>8, <1>10, <1>13, <1>14
<1>15. CASE Chosen(i + 1).first >= LockEnd(other, j + 1) /\ j + 1 = Len(other.vps)
  <2>1. LockEnd(other, j + 1) = INF
    BY <1>15 DEF LockEnd
  <2> QED
    BY <1>13, <1>15, <2>1, InfAssumption
<1>16. CASE Chosen(i + 1).first >= LockEnd(other, j + 1) /\ j + 1 < Len(other.vps)
  <2>1. /\ LockEnd(other, j + 1) = DepartureTime(other, j + 1) + 4
        /\ DepartureTime(other, j + 1) >= ArrivalTime(other, j + 1)
        /\ DepartureTime(other, j + 1) \in Int
    BY <1>3, <1>5, <1>16, Departures DEF LockTail
  <2> QED
    BY <1>8, <1>10, <1>13, <1>16, <2>1
<1> QED
  BY <1>3, <1>5, <1>12, <1>14, <1>15, <1>16

--------------------------------------------------------------------------------
(* Routes that are stored for two robots. *)

\* Clear and not head-on is compatible.
LEMMA ClearIsCompatible ==
    ASSUME OwnLocks, NEW route \in Route, NEW other \in Route,
           Drivable(route), Drivable(other), Clear(route, other), ~ Swap(route, other)
    PROVE  Compatible(route, other)
<1>1. /\ DOMAIN route.vps = 1 .. Len(route.vps) /\ Len(route.vps) \in Nat
      /\ DOMAIN other.vps = 1 .. Len(other.vps) /\ Len(other.vps) \in Nat
      /\ \A j \in 1 .. Len(other.vps) : other.vps[j] \in Node
  BY RouteParts
<1>2. SUFFICES ASSUME NEW i \in 1 .. Len(route.vps) - 1, NEW j \in 1 .. Len(other.vps) - 1,
                      route.vps[i] = other.vps[j]
               PROVE  \/ DepartureTime(route, i) <= ArrivalTime(other, j)
                      \/ DepartureTime(other, j) <= ArrivalTime(route, i)
  BY DEF Compatible
<1>3. /\ i \in 1 .. Len(route.vps) /\ i < Len(route.vps)
      /\ j \in 1 .. Len(other.vps) /\ j < Len(other.vps)
  BY <1>1
<1>4. Range(lock_node_list[other.vps[j]]) = {other.vps[j]}
  BY <1>1, <1>3 DEF OwnLocks
<1>5. (Range(lock_node_list[route.vps[i]]) \union {route.vps[i]})
          \intersect Range(lock_node_list[other.vps[j]]) # {}
  BY <1>2, <1>4
<1>6. \/ ArrivalTime(route, i) >= LockEnd(other, j)
      \/ DepartureTime(route, i) <= ArrivalTime(other, j)
  <2>1. \/ ArrivalTime(route, i) >= LockEnd(other, j)
        \/ i < Len(route.vps) /\ DepartureTime(route, i) <= ArrivalTime(other, j)
        \/ i = Len(route.vps) /\ ArrivalTime(route, i) < ArrivalTime(other, j)
    BY <1>1, <1>3, <1>5 DEF Clear
  <2> QED
    BY <1>3, <2>1
<1>7. LockEnd(other, j) = DepartureTime(other, j) + 4 /\ DepartureTime(other, j) \in Int
  BY <1>3, Departures DEF LockTail
<1>8. ArrivalTime(route, i) \in Int
  BY <1>3, Departures
<1> QED
  BY <1>6, <1>7, <1>8

\* It does not matter which of the two was planned around the other.
LEMMA CompatibleBothWays ==
    ASSUME NEW a \in Route, NEW b \in Route, Compatible(a, b)
    PROVE  Compatible(b, a)
<1>1. ~ Swap(b, a)
  BY DEF Compatible, Swap
<1>2. ASSUME NEW i \in 1 .. Len(b.vps) - 1, NEW j \in 1 .. Len(a.vps) - 1, b.vps[i] = a.vps[j]
      PROVE  \/ DepartureTime(b, i) <= ArrivalTime(a, j)
             \/ DepartureTime(a, j) <= ArrivalTime(b, i)
  BY <1>2 DEF Compatible
<1> QED
  BY <1>1, <1>2 DEF Compatible

\* A robot that stays where it is keeps out of everybody's way: what is asked of
\* two routes is only asked before their ends.
LEMMA OnePointCompatible ==
    ASSUME NEW n \in Node, NEW t \in Nat, NEW b \in Route
    PROVE  Compatible(OnePointRoute(n, t), b)
<1>1. Len(OnePointRoute(n, t).vps) = 1 /\ Len(b.vps) \in Nat
  BY RouteParts DEF OnePointRoute
<1>2. 1 .. Len(OnePointRoute(n, t).vps) - 1 = {}
  BY <1>1
<1> QED
  BY <1>2 DEF Compatible, Swap

--------------------------------------------------------------------------------
(* The parts of the invariant together, in steps of the planner and of those
   who call it. *)

\* Once a robot of the call has a route, that route leads it to its target; and
\* when the call is given up, all of its robots stand.
AnswerSound ==
    \/ \A j \in DOMAIN result :
          Promise!Leads(result[j], call.from_ids[j], call.to_ids[j], call.start_working_time)
    \/ pc = "done" /\ Promise!AllStand(result)

RouteInv ==
    /\ RoutesDrivable
    /\ TableOK
    /\ LocksCover
    /\ TreeOK
    /\ PathLinked
    /\ ChoiceOK
    /\ AnswerSound

\* The routes planned so far fit those of the robots that keep theirs, and one
\* another.
ResultFits ==
    \A j \in DOMAIN result :
        /\ \A r \in Robot \ Range(call.robot_numbers) : Compatible(result[j], robot_route[r])
        /\ \A l \in DOMAIN result : l # j => Compatible(result[j], result[l])

\* A step of the planner preserves what is answered.
LEMMA PlannerStepAnswer ==
    ASSUME LMapInv, TreeOK, PathLinked, AnswerSound, PlannerStep
    PROVE  AnswerSound'
<1>1. call' = call /\ pc # "done"
  BY DEF PlannerStep, getRobotPositions, initLockArea, locksInitialised, noStartWindow,
         StandDone, startSearch,
         openListEmpty, popOpenList, skipNeighbour, addNeighbour, expanded, LookingAtNeighbour,
         traceBack, traced, chooseWindow, rejectWindow, backtrack, TryingWindow, Choosing,
         routePlanned, callVars
<1>2. ASSUME NEW j \in DOMAIN result
      PROVE  Promise!Leads(result[j], call.from_ids[j], call.to_ids[j],
                           call.start_working_time)
  BY <1>1 DEF AnswerSound
<1>3. CASE noStartWindow \/ openListEmpty
  <2>1. /\ pc' = "done" /\ robot_positions' = robot_positions
        /\ \A j \in DOMAIN call.robot_numbers :
             result'[j] = OnePointRoute(robot_positions[call.robot_numbers[j]],
                                        call.start_working_time)
    BY <1>3 DEF noStartWindow, openListEmpty, StandDone, callVars
  <2> QED
    BY <1>1, <2>1 DEF AnswerSound, Promise!AllStand
<1>4. CASE routePlanned
  <2>1. result' = Append(result, generateRoute) /\ RouteReady /\ result \in Seq(Route)
    BY <1>4 DEF routePlanned, RouteReady, LMapInv, RoutesOK
  <2>2. PICK new : new = generateRoute
    OBVIOUS
  <2>3. /\ new.vps[1] = call.from_ids[k] /\ new.vps[Len(new.vps)] = call.to_ids[k]
        /\ new.arr_and_depar_time[1].first >= call.start_working_time
    BY <2>1, <2>2, RouteLeads DEF start_id, end_id
  <2>4. PICK n : n = k
    OBVIOUS
  <2>5. Promise!Leads(new, call.from_ids[n], call.to_ids[n], call.start_working_time)
    BY <2>3, <2>4 DEF Promise!Leads
  <2>6. ASSUME NEW j \in DOMAIN result'
        PROVE  \/ j \in DOMAIN result /\ result'[j] = result[j]
               \/ j = n /\ result'[j] = new
    BY <2>1, <2>2, <2>4 DEF k
  <2>7. ASSUME NEW j \in DOMAIN result'
        PROVE  Promise!Leads(result'[j], call.from_ids[j], call.to_ids[j],
                             call.start_working_time)
    BY <1>2, <2>5, <2>6
  <2> QED
    BY <1>1, <2>7 DEF AnswerSound, Promise!Leads
<1>5. CASE result' = result
  BY <1>1, <1>2, <1>5 DEF AnswerSound, Promise!Leads
<1>6. noStartWindow \/ openListEmpty \/ routePlanned \/ result' = result
  BY DEF PlannerStep, getRobotPositions, initLockArea, locksInitialised, startSearch,
         popOpenList, skipNeighbour, addNeighbour, expanded, traceBack, traced,
         chooseWindow, rejectWindow, backtrack, lockVars
<1> QED
  BY <1>3, <1>4, <1>5, <1>6

\* A step of the planner preserves the whole invariant.
LEMMA PlannerStepRoutes ==
    ASSUME SmallFleet, OwnLocks, LMapInv, LMapInv', RouteInv, PlannerStep
    PROVE  RouteInv'
<1>1. /\ RoutesDrivable /\ TableOK /\ LocksCover /\ TreeOK /\ PathLinked /\ ChoiceOK
      /\ AnswerSound
  BY DEF RouteInv
<1>2. RouteReady => Drivable(generateRoute)
  BY <1>1, RouteDrivable
<1>3. RoutesDrivable'
  BY <1>1, <1>2, PlannerStepDrivable
<1>4. TableOK'
  BY <1>1, <1>2, PlannerStepTable
<1>5. LocksCover'
  BY <1>1, PlannerStepLocksCover
<1>6. ChoiceOK' /\ TreeOK' /\ PathLinked'
  BY <1>1, PlannerStepTree, PlannerStepPath, PlannerStepChoice
<1>7. AnswerSound'
  BY <1>1, PlannerStepAnswer
<1> QED
  BY <1>3, <1>4, <1>5, <1>6, <1>7 DEF RouteInv

\* After a step that leaves no search under way, its parts say nothing: there is
\* no tree,
LEMMA NoTreeAfter == ASSUME LMapInv', (~ Searching)' PROVE TreeOK'
<1>1. tree' = <<>>
  BY DEF LMapInv, SearchOK
<1> QED
  BY <1>1 DEF TreeOK

\* no path,
LEMMA NoPathAfter == ASSUME LMapInv', (~ Searching)' PROVE PathLinked'
<1>1. tree' = <<>>
  BY DEF LMapInv, SearchOK
<1>2. nodeVec' = <<>>
  <2>1. nodeVec' \in Seq(DOMAIN <<>>)
    BY <1>1 DEF LMapInv, PathOK
  <2> QED
    BY <2>1
<1>3. pc' # "chain" /\ pc' # "trace"
  BY DEF Searching
<1> QED
  BY <1>2, <1>3, NoPathLinked

\* and no choice.
LEMMA AfterSearch ==
    ASSUME LMapInv', (~ Searching)', candidate' = 1
    PROVE  ChoiceOK' /\ TreeOK' /\ PathLinked'
<1>1. ChoiceOK'
  BY DEF ChoiceOK, Searching
<1>2. TreeOK'
  BY NoTreeAfter
<1>3. PathLinked'
  BY NoPathAfter
<1> QED
  BY <1>1, <1>2, <1>3

\* A call begins.
LEMMA serveRoutes ==
    ASSUME LMapInv, LMapInv', RouteInv,
           NEW robot_numbers \in Seq(Robot), NEW from_ids, NEW to_ids, NEW t \in Nat, t < INF,
           serve(robot_numbers, from_ids, to_ids, t),
           Cardinality(Robot \ Range(robot_numbers)) + Len(robot_numbers) <= robot_number
    PROVE  RouteInv' /\ ResultFits'
<1>1. /\ pc = "ready" /\ pc' = "getRobotPositions" /\ result' = <<>>
      /\ robot_route' = robot_route
      /\ call'.start_working_time = t /\ candidate' = candidate
  BY DEF serve, pathVars
<1>2. DOMAIN result' = {}
  BY <1>1
<1>3. RoutesDrivable'
  BY <1>1, <1>2 DEF RouteInv, RoutesDrivable
<1>4. TableOK'
  BY serveTable
<1>5. LocksCover'
  BY serveLocksCover
<1>6. candidate' = 1
  BY <1>1 DEF RouteInv, ChoiceOK
<1>7. ChoiceOK' /\ TreeOK' /\ PathLinked'
  <2>1. (~ Searching)'
    BY <1>1 DEF Searching
  <2> QED
    BY <1>6, <2>1, AfterSearch
<1>8. AnswerSound'
  BY <1>2 DEF AnswerSound
<1>9. ResultFits'
  BY <1>2 DEF ResultFits
<1> QED
  BY <1>3, <1>4, <1>5, <1>7, <1>8, <1>9 DEF RouteInv

\* A call is over, and its routes are stored, with the last of them or before.
LEMMA returnedRoutes ==
    ASSUME LMapInv', RouteInv, pc = "done", returned,
           \A r \in Robot : Drivable(robot_route'[r])
    PROVE  RouteInv' /\ ResultFits'
<1>1. /\ pc' = "ready" /\ call' = NoCall /\ result' = <<>> /\ candidate' = candidate
  BY DEF returned, pathVars
<1>2. DOMAIN result' = {} /\ call'.start_working_time = 0
  BY <1>1 DEF NoCall
<1>3. RoutesDrivable'
  BY <1>2, InfAssumption DEF RoutesDrivable
<1>4. TableOK' /\ LocksCover'
  BY <1>1 DEF TableOK, LocksCover, PlanningCall
<1>5. candidate' = 1
  BY <1>1 DEF RouteInv, ChoiceOK
<1>6. ChoiceOK' /\ TreeOK' /\ PathLinked'
  <2>1. (~ Searching)'
    BY <1>1 DEF Searching
  <2> QED
    BY <1>5, <2>1, AfterSearch
<1>7. AnswerSound' /\ ResultFits'
  BY <1>2 DEF AnswerSound, ResultFits
<1> QED
  BY <1>3, <1>4, <1>6, <1>7 DEF RouteInv

\* A route is stored before the call is over.
LEMMA StoredRoutes ==
    ASSUME LMapInv', RouteInv, pc = "done",
           UNCHANGED <<pc, callVars, lockVars, searchVars, pathVars>>,
           \A r \in Robot : Drivable(robot_route'[r])
    PROVE  RouteInv'
<1>1. /\ pc' = "done" /\ call' = call /\ result' = result /\ candidate' = candidate
      /\ robot_positions' = robot_positions
  BY DEF callVars, lockVars, pathVars
<1>2. RoutesDrivable'
  BY <1>1 DEF RouteInv, RoutesDrivable
<1>3. TableOK' /\ LocksCover'
  BY <1>1 DEF TableOK, LocksCover, PlanningCall
<1>4. candidate' = 1
  BY <1>1 DEF RouteInv, ChoiceOK
<1>5. ChoiceOK' /\ TreeOK' /\ PathLinked'
  <2>1. (~ Searching)'
    BY <1>1 DEF Searching
  <2> QED
    BY <1>4, <2>1, AfterSearch
<1>6. AnswerSound'
  BY <1>1 DEF RouteInv, AnswerSound, Promise!Leads, Promise!AllStand
<1> QED
  BY <1>2, <1>3, <1>5, <1>6 DEF RouteInv

\* What is chosen does not depend on anything but the tree and the path.
LEMMA ChoiceKept ==
    ASSUME ChoiceOK, UNCHANGED <<pc, tree, nodeVec, myList, candidate>>
    PROVE  ChoiceOK'
<1>1. /\ \A d : Windows(d)' = Windows(d) /\ TravelTo(d)' = TravelTo(d)
      /\ \A d, i, j : CanFollow(d, i, j)' <=> CanFollow(d, i, j)
      /\ \A d, i : Dead(d, i)' <=> Dead(d, i)
  BY PathStatic
<1>2. /\ depth_' = depth_ /\ (Choosing' <=> Choosing)
      /\ \A w, d : Follows(w, d)' <=> Follows(w, d)
  BY <1>1 DEF depth_, Choosing, Follows, Chosen, Windows
<1>3. ChosenOK => ChosenOK'
  BY <1>1 DEF ChosenOK
<1>4. CandidateOK => CandidateOK'
  BY <1>1, <1>2 DEF CandidateOK
<1> QED
  BY <1>3, <1>4 DEF ChoiceOK

\* A step that leaves the planner and the stored routes alone.
LEMMA RoutesKept ==
    ASSUME RouteInv, UNCHANGED <<robot_route, pc, callVars, lockVars, searchVars, pathVars>>
    PROVE  RouteInv'
<1>1. /\ robot_route' = robot_route /\ pc' = pc /\ call' = call /\ result' = result
      /\ needToInit' = needToInit /\ robot_positions' = robot_positions
      /\ node_locked_time_window' = node_locked_time_window
      /\ tree' = tree /\ iter' = iter /\ nodeVec' = nodeVec /\ myList' = myList
      /\ candidate' = candidate
  BY DEF callVars, lockVars, searchVars, pathVars
<1>2. RoutesDrivable' /\ TableOK'
  BY <1>1 DEF RouteInv, RoutesDrivable, TableOK, PlanningCall
<1>3. LocksCover'
  BY <1>1, LocksCoverKept DEF RouteInv, PlanningCall, lockVars
<1>4. TreeOK' /\ PathLinked'
  BY <1>1, TreeKept, PathKept DEF RouteInv
<1>5. ChoiceOK'
  BY <1>1, ChoiceKept DEF RouteInv
<1>6. AnswerSound'
  BY <1>1 DEF RouteInv, AnswerSound, Promise!Leads, Promise!AllStand
<1> QED
  BY <1>2, <1>3, <1>4, <1>5, <1>6 DEF RouteInv

\* What the invariant says of a finished route.
LEMMA RoutesAreRight ==
    ASSUME LMapInv, RouteInv
    PROVE  /\ WindowsSound /\ ChainExists /\ RouteWellFormed /\ LocksSeparated
           /\ OwnLocks => PassesClear
           /\ OwnLocks /\ ShortEdges => NeverHeadOn
<1>1. RoutesDrivable /\ TableOK /\ LocksCover /\ TreeOK /\ PathLinked /\ ChoiceOK
  BY DEF RouteInv
<1>2. WindowsSound /\ ChainExists /\ RouteWellFormed
  BY <1>1, TreeWindowsSound, ChoiceIsLeft, FinishedRoute
<1>3. LocksSeparated
  BY <1>1 DEF TableOK, InOrderAndApart, LocksSeparated
<1>4. OwnLocks => PassesClear
  BY <1>1, RouteIsClear DEF PassesClear
<1>5. OwnLocks /\ ShortEdges => NeverHeadOn
  BY <1>1, NoSwap DEF NeverHeadOn
<1> QED
  BY <1>2, <1>3, <1>4, <1>5

\* A new route fits what it was planned around.
LEMMA NewRouteFits ==
    ASSUME OwnLocks, ShortEdges, LMapInv, RouteInv, RouteReady, NEW other \in LockedRoutes
    PROVE  /\ other \in Route /\ generateRoute \in Route
           /\ Compatible(generateRoute, other) /\ Compatible(other, generateRoute)
<1>1. RoutesDrivable /\ TableOK /\ LocksCover /\ TreeOK /\ PathLinked /\ ChoiceOK
  BY DEF RouteInv
<1>2. PICK route : route = generateRoute
  OBVIOUS
<1>3. other \in Route /\ Drivable(other)
  BY <1>1, LockedRoutesDrivable
<1>4. route \in Route /\ Drivable(route)
  BY <1>1, <1>2, RouteFields, RouteDrivable
<1>5. Clear(route, other) /\ ~ Swap(route, other)
  BY <1>1, <1>2, RouteIsClear, NoSwap
<1>6. Compatible(route, other)
  BY <1>3, <1>4, <1>5, ClearIsCompatible
<1>7. Compatible(other, route)
  BY <1>3, <1>4, <1>6, CompatibleBothWays
<1> QED
  BY <1>2, <1>3, <1>4, <1>6, <1>7

\* The routes of a call fit after every step of the planner.
LEMMA PlannerStepFits ==
    ASSUME OwnLocks, ShortEdges, LMapInv, RouteInv, ResultFits, PlannerStep
    PROVE  ResultFits'
<1>1. robot_route' = robot_route /\ call' = call
  BY DEF PlannerStep, getRobotPositions, initLockArea, locksInitialised, noStartWindow,
         StandDone, startSearch,
         openListEmpty, popOpenList, skipNeighbour, addNeighbour, expanded, traceBack, traced,
         chooseWindow, rejectWindow, backtrack, routePlanned, redisVars, callVars
<1>2. CASE noStartWindow \/ openListEmpty
  <2>1. result' = [l \in DOMAIN call.robot_numbers |->
                      OnePointRoute(robot_positions[call.robot_numbers[l]],
                                    call.start_working_time)]
    BY <1>2 DEF noStartWindow, openListEmpty, StandDone
  <2>2. /\ call.robot_numbers \in Seq(Robot) /\ call.start_working_time \in Nat
        /\ robot_positions \in [Robot -> Node] /\ robot_route \in [Robot -> Route]
    BY <1>2 DEF noStartWindow, openListEmpty, LMapInv, CallOK, CallRecord, PositionsOK, RoutesOK
  <2>3. ASSUME NEW j \in DOMAIN result'
        PROVE  result'[j] \in Route /\ \A b \in Route : Compatible(result'[j], b)
    <3>1. j \in DOMAIN call.robot_numbers /\ robot_positions[call.robot_numbers[j]] \in Node
      BY <2>1, <2>2
    <3> QED
      BY <2>1, <2>2, <3>1, OnePointCompatible, OnePointRouteType
  <2>4. ASSUME NEW j \in DOMAIN result', NEW r \in Robot
        PROVE  Compatible(result'[j], robot_route[r])
    BY <2>2, <2>3
  <2>5. ASSUME NEW j \in DOMAIN result', NEW l \in DOMAIN result'
        PROVE  Compatible(result'[j], result'[l])
    BY <2>3
  <2> QED
    BY <1>1, <2>4, <2>5 DEF ResultFits
<1>3. CASE routePlanned
  <2>1. result' = Append(result, generateRoute) /\ RouteReady /\ result \in Seq(Route)
    BY <1>3 DEF routePlanned, RouteReady, LMapInv, RoutesOK
  <2>2. PICK new : new = generateRoute
    OBVIOUS
  <2>3. needToInit = {}
    BY <2>1 DEF RouteReady, RouteInv, TableOK, PlanningCall
  <2>4. /\ \A r \in Robot \ Range(call.robot_numbers) : robot_route[r] \in LockedRoutes
        /\ \A j \in DOMAIN result : result[j] \in LockedRoutes
    BY <2>3 DEF LockedRoutes, Range
  <2>5. \A other \in LockedRoutes : Compatible(new, other) /\ Compatible(other, new)
    BY <2>1, <2>2, NewRouteFits
  <2>6. ASSUME NEW j \in DOMAIN result'
        PROVE  \/ j \in DOMAIN result /\ result'[j] = result[j]
               \/ j = Len(result) + 1 /\ result'[j] = new
    BY <2>1, <2>2
  <2>7. ASSUME NEW j \in DOMAIN result', NEW r \in Robot \ Range(call.robot_numbers)
        PROVE  Compatible(result'[j], robot_route[r])
    BY <2>4, <2>5, <2>6 DEF ResultFits
  <2>8. ASSUME NEW j \in DOMAIN result', NEW l \in DOMAIN result', l # j
        PROVE  Compatible(result'[j], result'[l])
    <3>1. CASE j \in DOMAIN result /\ result'[j] = result[j]
      BY <2>4, <2>5, <2>6, <2>8, <3>1 DEF ResultFits
    <3>2. CASE j = Len(result) + 1 /\ result'[j] = new
      BY <2>4, <2>5, <2>6, <2>8, <3>2
    <3> QED
      BY <2>6, <3>1, <3>2
  <2> QED
    BY <1>1, <2>7, <2>8 DEF ResultFits
<1>4. CASE result' = result
  BY <1>1, <1>4 DEF ResultFits
<1>5. noStartWindow \/ openListEmpty \/ routePlanned \/ result' = result
  BY DEF PlannerStep, getRobotPositions, initLockArea, locksInitialised, startSearch,
         popOpenList, skipNeighbour, addNeighbour, expanded, traceBack, traced,
         chooseWindow, rejectWindow, backtrack, lockVars
<1> QED
  BY <1>2, <1>3, <1>4, <1>5

\* At first every robot has a route of one point, and nothing is planned.
LEMMA InitRoutes ==
    ASSUME NEW homes \in [Robot -> Node], NEW t \in Nat, t < INF, LMapInit(homes, t), LMapInv
    PROVE  /\ RouteInv /\ ResultFits
           /\ \A r, s \in Robot : Compatible(robot_route[r], robot_route[s])
<1>1. /\ robot_route = [r \in Robot |-> OnePointRoute(homes[r], t)]
      /\ pc = "ready" /\ call = NoCall /\ result = <<>>
      /\ tree = <<>> /\ nodeVec = <<>> /\ candidate = 1
  BY DEF LMapInit, NoSearch
<1>2. DOMAIN result = {} /\ call.start_working_time = 0
      /\ DOMAIN tree = {} /\ DOMAIN nodeVec = {} /\ Len(nodeVec) = 0 /\ 1 .. 0 - 1 = {}
  BY <1>1 DEF NoCall
<1>3. \A r \in Robot : homes[r] \in Node /\ robot_route[r] = OnePointRoute(homes[r], t)
  BY <1>1
<1>4. RoutesDrivable
  BY <1>2, <1>3, OnePointDrivable, InfAssumption DEF RoutesDrivable
<1>5. TableOK /\ LocksCover
  BY <1>1 DEF TableOK, LocksCover, PlanningCall
<1>6. TreeOK
  BY <1>2 DEF TreeOK
<1>7. PathLinked
  BY <1>1, <1>2 DEF PathLinked
<1>8. ChoiceOK
  BY <1>1 DEF ChoiceOK
<1>9. AnswerSound /\ ResultFits
  BY <1>2 DEF AnswerSound, ResultFits
<1>10. \A r, s \in Robot : Compatible(robot_route[r], robot_route[s])
  BY <1>3, OnePointCompatible, OnePointRouteType
<1> QED
  BY <1>4, <1>5, <1>6, <1>7, <1>8, <1>9, <1>10 DEF RouteInv

--------------------------------------------------------------------------------
(* What the two callers of serve have in common. *)

\* A call is for different robots.
EachOnce ==
    \A i, j \in DOMAIN call.robot_numbers :
        call.robot_numbers[i] = call.robot_numbers[j] => i = j

\* The planner steps only while a call is under way, does not end it, and leaves
\* to its caller what is stored.
LEMMA PlannerStepRuns ==
    PlannerStep => /\ PlanningCall /\ pc' # "ready" /\ call' = call
                   /\ robot_route' = robot_route
                   /\ pc' = "done" => robot_positions' = robot_positions
BY DEF PlannerStep, PlanningCall, getRobotPositions, initLockArea, locksInitialised,
       noStartWindow, startSearch,
       openListEmpty, popOpenList, skipNeighbour, addNeighbour, LookingAtNeighbour, expanded,
       traceBack, traced, chooseWindow, rejectWindow, backtrack, TryingWindow, Choosing,
       routePlanned, StandDone, callVars, redisVars

\* As many windows as the robots that are not in the call can lock, and those
\* in it, are no more than the fleet.
LEMMA OneOfTheFleet ==
    ASSUME NEW r \in Robot
    PROVE  Cardinality(Robot \ Range(<<r>>)) + Len(<<r>>) <= robot_number
<1>1. Range(<<r>>) = {r}
  BY DEF Range
<1>2. IsFiniteSet(Robot) /\ Cardinality(Robot) = robot_number
  BY RobotAssumption, FS_Interval DEF Robot
<1>3. Cardinality(Robot \ {r}) = Cardinality(Robot) - 1
  BY <1>2, FS_RemoveElement
<1> QED
  BY <1>1, <1>2, <1>3, RobotAssumption

\* The same for a call for all robots.
LEMMA AllOfTheFleet ==
    ASSUME NEW fleet, fleet = [r \in Robot |-> r]
    PROVE  Cardinality(Robot \ Range(fleet)) + Len(fleet) <= robot_number
<1>1. Robot \ Range(fleet) = {}
  BY DEF Range
<1>2. Len(fleet) = robot_number
  BY RobotAssumption DEF Robot
<1> QED
  BY <1>1, <1>2, FS_EmptySet, RobotAssumption

================================================================================
