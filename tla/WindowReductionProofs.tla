------------------------- MODULE WindowReductionProofs -------------------------
(****************************************************************************)
(* What the reduction loop keeps, for every list of windows: the types, the *)
(* locked instants, and for orderly lists the order of the passed part; and *)
(* what it computes, in closed form.  From LMapProofs it takes only the     *)
(* lemmas about the operators of TimeWindows.                               *)
(****************************************************************************)
EXTENDS WindowReduction, LMapProofs

\* The window that Merge puts in the place of two.
Joined(v, w) ==
    [first  |-> Min({v.first, w.first}), second |-> Max({w.second, v.second})]

\* It is a window that spans both.
LEMMA JoinedSpans ==
    ASSUME NEW v \in TimeWindow, NEW w \in TimeWindow,
           v.first <= v.second
    PROVE  /\ Joined(v, w) \in TimeWindow
           /\ Joined(v, w).first <= v.first /\ v.second <= Joined(v, w).second
           /\ Joined(v, w).first <= w.first /\ w.second <= Joined(v, w).second
           /\ Joined(v, w).first <= Joined(v, w).second
           /\ Joined(v, w).first = v.first \/ Joined(v, w).first = w.first
           /\ v.first <= w.first => Joined(v, w).first = v.first
  BY MinOfPair, MaxOfPair DEF Joined, TimeWindow, Instant

--------------------------------------------------------------------------------
(* The inductive invariant: the types, the covering of the input, and for an
   orderly input the order of the list and the gaps in its passed part.  The
   order is needed because the loop does not look back after a join: only when
   the list is in order does the joined window keep its distance from the one
   before. *)
OrderKept == InOrder(input) => InOrder(reduced)

Inv == TypeOK /\ NoLockLost /\ OrderKept /\ PassedPartSeparated

\* The initial state satisfies the invariant.
LEMMA InitInv == Init => Inv
<1> SUFFICES ASSUME Init PROVE Inv
  OBVIOUS
<1>1. input \in Seq(LockWindow) /\ reduced = input /\ i = 1
  BY InitialListsAssumption DEF Init
<1>2. \A j \in DOMAIN input : input[j] \in LockWindow
  BY <1>1
<1>3. \A j \in DOMAIN input : input[j] \in TimeWindow /\ input[j].first < input[j].second
  BY <1>2, LockWindowAssumption
<1>4. input \in Seq(TimeWindow) /\ Len(input) \in Nat
  BY <1>1, LockWindowAssumption
<1>5. WellFormed(reduced)
  BY <1>1, <1>3 DEF WellFormed, TimeWindow, Instant
<1>6. TypeOK
  BY <1>1, <1>4, <1>5 DEF TypeOK, Init
<1>7. NoLockLost
  BY <1>1, <1>3 DEF NoLockLost, TimeWindow, Instant
<1> QED
  BY <1>1, <1>6, <1>7 DEF Inv, OrderKept, PassedPartSeparated

\* What a turn of the loop that joins does to the list.
LEMMA MergeStep ==
    ASSUME Inv, Merge
    PROVE  /\ i \in 1 .. Len(reduced) - 1
           /\ input' = input /\ i' = i
           /\ Len(reduced') = Len(reduced) - 1
           /\ DOMAIN reduced' = 1 .. Len(reduced) - 1
           /\ reduced' \in Seq(TimeWindow)
           /\ \A j \in 1 .. i - 1 : reduced'[j] = reduced[j]
           /\ reduced'[i] = Joined(reduced[i], reduced[i + 1])
           /\ \A j \in i + 1 .. Len(reduced) - 1 : reduced'[j] = reduced[j + 1]
<1> DEFINE n == Len(reduced)
           new(j) == IF j < i THEN reduced[j]
                     ELSE IF j = i THEN Joined(reduced[i], reduced[i + 1]) ELSE reduced[j + 1]
<1>1. /\ reduced \in Seq(TimeWindow) /\ n \in Nat /\ i \in Nat /\ i >= 1 /\ i < n
      /\ WellFormed(reduced) /\ DOMAIN reduced = 1 .. n
      /\ input \in Seq(LockWindow) /\ Len(input) \in Nat
  BY InitialListsAssumption DEF Inv, TypeOK, Merge
<1>2. reduced' = [j \in 1 .. n - 1 |-> new(j)] /\ input' = input /\ i' = i
  BY DEF Merge, Joined
<1>3. \A j \in 1 .. n : reduced[j] \in TimeWindow
  BY <1>1
<1>4. Joined(reduced[i], reduced[i + 1]) \in TimeWindow
  BY <1>1, <1>3, JoinedSpans DEF WellFormed
<1>5. \A j \in 1 .. n - 1 : new(j) \in TimeWindow
  BY <1>1, <1>3, <1>4
<1>6. reduced' \in Seq(TimeWindow) /\ Len(reduced') = n - 1 /\ DOMAIN reduced' = 1 .. n - 1
  BY <1>1, <1>2, <1>5
<1> QED
  BY <1>1, <1>2, <1>6

\* Joining two windows preserves the invariant.
LEMMA MergeInv == Inv /\ Merge => Inv'
<1> SUFFICES ASSUME Inv, Merge PROVE Inv'
  OBVIOUS
<1> DEFINE n == Len(reduced)
<1>1. /\ reduced \in Seq(TimeWindow) /\ n \in Nat /\ i \in 1 .. n - 1
      /\ WellFormed(reduced) /\ DOMAIN reduced = 1 .. n /\ n <= Len(input)
      /\ input \in InitialLists /\ input \in Seq(LockWindow) /\ Len(input) \in Nat
  BY MergeStep, InitialListsAssumption DEF Inv, TypeOK
<1>2. /\ input' = input /\ i' = i /\ Len(reduced') = n - 1
      /\ DOMAIN reduced' = 1 .. n - 1 /\ reduced' \in Seq(TimeWindow)
  BY MergeStep
<1>3. /\ \A j \in 1 .. i - 1 : reduced'[j] = reduced[j]
      /\ reduced'[i] = Joined(reduced[i], reduced[i + 1])
      /\ \A j \in i + 1 .. n - 1 : reduced'[j] = reduced[j + 1]
  BY MergeStep
<1>4. \A j \in 1 .. n :
         /\ reduced[j] \in TimeWindow
         /\ reduced[j].first \in Int /\ reduced[j].second \in Int
         /\ reduced[j].first <= reduced[j].second
  <2> SUFFICES ASSUME NEW j \in 1 .. n
               PROVE  /\ reduced[j] \in TimeWindow
                      /\ reduced[j].first \in Int /\ reduced[j].second \in Int
                      /\ reduced[j].first <= reduced[j].second
    OBVIOUS
  <2>1. reduced[j] \in TimeWindow
    BY <1>1
  <2>2. reduced[j].first \in Int /\ reduced[j].second \in Int
    BY <2>1 DEF TimeWindow, Instant
  <2> QED
    BY <2>1, <2>2, <1>1 DEF WellFormed
<1> DEFINE J == Joined(reduced[i], reduced[i + 1])
<1>5. /\ J \in TimeWindow /\ J.first \in Int /\ J.second \in Int /\ J.first <= J.second
      /\ J.first <= reduced[i].first /\ reduced[i].second <= J.second
      /\ J.first <= reduced[i + 1].first /\ reduced[i + 1].second <= J.second
      /\ reduced[i].first <= reduced[i + 1].first => J.first = reduced[i].first
  <2>1. reduced[i] \in TimeWindow /\ reduced[i + 1] \in TimeWindow
        /\ reduced[i].first <= reduced[i].second
    BY <1>1, <1>4
  <2>2. J \in TimeWindow
    BY <2>1, JoinedSpans
  <2> QED
    BY <2>1, <2>2, JoinedSpans DEF TimeWindow, Instant
<1> HIDE DEF J
<1>6. TypeOK'
  <2>1. WellFormed(reduced)'
    <3> SUFFICES ASSUME NEW j \in 1 .. n - 1
                 PROVE  reduced'[j].first <= reduced'[j].second
      BY <1>2 DEF WellFormed
    <3>1. CASE j < i
      BY <3>1, <1>1, <1>3, <1>4
    <3>2. CASE j = i
      BY <3>2, <1>3, <1>5 DEF J
    <3>3. CASE j > i
      <4>1. j + 1 \in 1 .. n /\ j \in i + 1 .. n - 1
        BY <3>3, <1>1
      <4>2. reduced'[j] = reduced[j + 1]
        BY <4>1, <1>3
      <4> QED
        BY <4>1, <4>2, <1>4
    <3> QED
      BY <3>1, <3>2, <3>3, <1>1
  <2> QED
    BY <1>1, <1>2, <2>1 DEF Inv, TypeOK
<1>7. NoLockLost'
  <2> SUFFICES ASSUME NEW q \in DOMAIN input
               PROVE  \E j \in 1 .. n - 1 : /\ reduced'[j].first <= input[q].first
                                            /\ input[q].second <= reduced'[j].second
    BY <1>2 DEF NoLockLost
  <2>1. PICK j \in 1 .. n : /\ reduced[j].first <= input[q].first
                            /\ input[q].second <= reduced[j].second
    BY <1>1 DEF Inv, NoLockLost
  <2>2. input[q].first \in Int /\ input[q].second \in Int
    <3>1. input[q] \in LockWindow
      BY <1>1
    <3>2. input[q] \in TimeWindow
      BY <3>1, LockWindowAssumption
    <3> QED
      BY <3>2, WindowParts
  <2>3. CASE j < i
    <3>1. j \in 1 .. i - 1 /\ j \in 1 .. n - 1
      BY <2>3, <1>1
    <3>2. reduced'[j] = reduced[j]
      BY <3>1, <1>3
    <3> QED
      BY <2>1, <3>1, <3>2
  <2>4. CASE j = i \/ j = i + 1
    <3>1. J.first <= input[q].first /\ input[q].second <= J.second
      <4>1. CASE j = i
        BY <2>1, <2>2, <4>1, <1>4, <1>5
      <4>2. CASE j = i + 1
        <5>1. /\ reduced[i + 1].first <= input[q].first
              /\ input[q].second <= reduced[i + 1].second
          BY <2>1, <4>2
        <5>2. reduced[i + 1].first \in Int /\ reduced[i + 1].second \in Int
          BY <1>1, <1>4
        <5>3. /\ J.first \in Int /\ J.second \in Int
              /\ J.first <= reduced[i + 1].first /\ reduced[i + 1].second <= J.second
          BY <1>5
        <5> QED
          BY <5>1, <5>2, <5>3, <2>2
      <4> QED
        BY <2>4, <4>1, <4>2
    <3> QED
      BY <3>1, <1>1, <1>3 DEF J
  <2>5. CASE j > i + 1
    <3>1. j - 1 \in i + 1 .. n - 1 /\ reduced'[j - 1] = reduced[j]
      BY <2>5, <1>1, <1>3
    <3>2. j - 1 \in 1 .. n - 1
      BY <3>1, <1>1
    <3> QED
      BY <2>1, <3>1, <3>2
  <2> QED
    BY <2>3, <2>4, <2>5, <1>1
<1>8. OrderKept'
  <2> SUFFICES ASSUME InOrder(input),
                      NEW a \in 1 .. n - 1, NEW b \in 1 .. n - 1, a < b
               PROVE  reduced'[a].first <= reduced'[b].first
    BY <1>2 DEF OrderKept, InOrder
  <2>1. \A c, d \in 1 .. n : c < d => reduced[c].first <= reduced[d].first
    BY <1>1 DEF Inv, OrderKept, InOrder
  <2>2. J.first = reduced[i].first
    BY <2>1, <1>1, <1>5
  <2>3. CASE b < i
    <3>1. a \in 1 .. i - 1 /\ b \in 1 .. i - 1 /\ a \in 1 .. n /\ b \in 1 .. n
      BY <2>3, <1>1
    <3> QED
      BY <3>1, <2>1, <1>3
  <2>4. CASE b = i
    BY <2>4, <2>1, <2>2, <1>1, <1>3 DEF J
  <2>5. CASE a < i /\ b > i
    <3>1. a \in 1 .. i - 1 /\ b \in i + 1 .. n - 1 /\ a \in 1 .. n /\ b + 1 \in 1 .. n /\ a < b + 1
      BY <2>5, <1>1
    <3>2. reduced'[a] = reduced[a] /\ reduced'[b] = reduced[b + 1]
      BY <3>1, <1>3
    <3> QED
      BY <3>1, <3>2, <2>1
  <2>6. CASE a = i
    <3>1. reduced'[b] = reduced[b + 1] /\ reduced'[a] = J /\ i < b + 1 /\ b + 1 \in 1 .. n
      BY <2>6, <1>1, <1>3 DEF J
    <3> QED
      BY <3>1, <2>1, <2>2, <1>1
  <2>7. CASE a > i
    <3>1. reduced'[b] = reduced[b + 1] /\ reduced'[a] = reduced[a + 1]
      BY <2>7, <1>1, <1>3
    <3> QED
      BY <3>1, <2>1, <1>1
  <2> QED
    BY <2>3, <2>4, <2>5, <2>6, <2>7, <1>1
<1>9. PassedPartSeparated'
  <2> SUFFICES ASSUME Orderly(input), NEW j \in 1 .. i - 1, j < n - 1
               PROVE  reduced'[j].second < reduced'[j + 1].first
    BY <1>2 DEF PassedPartSeparated, Orderly, InOrder
  <2>1. reduced[j].second < reduced[j + 1].first
    BY <1>1 DEF Inv, PassedPartSeparated
  <2>2. CASE j + 1 < i
    BY <2>1, <2>2, <1>1, <1>3
  <2>3. CASE j + 1 = i
    <3>1. InOrder(input)
      BY <2>3, <1>1 DEF Orderly
    <3>2. reduced[i].first <= reduced[i + 1].first
      BY <3>1, <1>1 DEF Inv, OrderKept, InOrder
    <3>3. J.first = reduced[i].first
      BY <3>2, <1>5
    <3>4. reduced'[j] = reduced[j] /\ reduced'[j + 1] = J
      BY <2>3, <1>1, <1>3 DEF J
    <3> QED
      BY <3>3, <3>4, <2>1, <2>3
  <2> QED
    BY <2>2, <2>3, <1>1
<1> QED
  BY <1>6, <1>7, <1>8, <1>9 DEF Inv

\* Going on to the next window preserves it.
LEMMA AdvanceInv == Inv /\ Advance => Inv'
<1> SUFFICES ASSUME Inv, Advance PROVE Inv'
  OBVIOUS
<1>1. /\ reduced \in Seq(TimeWindow) /\ Len(reduced) \in Nat /\ i \in Nat /\ i >= 1
      /\ input \in Seq(LockWindow) /\ Len(input) \in Nat /\ Len(reduced) <= Len(input)
  BY InitialListsAssumption DEF Inv, TypeOK
<1>2. input' = input /\ reduced' = reduced /\ i' = i + 1 /\ i <= Len(reduced)
  BY DEF Advance
<1>3. TypeOK'
  BY <1>1, <1>2 DEF Inv, TypeOK, WellFormed
<1>4. NoLockLost' /\ OrderKept'
  BY <1>2 DEF Inv, NoLockLost, OrderKept, InOrder
<1>5. PassedPartSeparated'
  <2> SUFFICES ASSUME Orderly(input), NEW j \in 1 .. i, j < Len(reduced)
               PROVE  reduced[j].second < reduced[j + 1].first
    BY <1>1, <1>2 DEF PassedPartSeparated, Orderly, InOrder
  <2>1. CASE j = i
    BY <2>1 DEF Advance
  <2>2. CASE j # i
    BY <2>2, <1>1 DEF Inv, PassedPartSeparated
  <2> QED
    BY <2>1, <2>2
<1> QED
  BY <1>3, <1>4, <1>5 DEF Inv

\* Every step preserves the invariant.
LEMMA InvIsInductive == Inv /\ [Next]_vars => Inv'
<1> SUFFICES ASSUME Inv, [Next]_vars PROVE Inv'
  OBVIOUS
<1>1. CASE Merge
  BY <1>1, MergeInv
<1>2. CASE Advance
  BY <1>2, AdvanceInv
<1>3. CASE UNCHANGED vars
  BY <1>3 DEF vars, Inv, TypeOK, NoLockLost, OrderKept, PassedPartSeparated, Orderly, InOrder,
              WellFormed
<1> QED
  BY <1>1, <1>2, <1>3 DEF Next

\* Inv is an invariant of the loop.
THEOREM InvHolds == Spec => []Inv
<1>1. Init => Inv
  BY InitInv
<1>2. Inv /\ [Next]_vars => Inv'
  BY InvIsInductive
<1> QED
  BY <1>1, <1>2, PTL DEF Spec

(* The list stays a list of well-formed windows, no longer than the input. *)
THEOREM ReductionTypes == Spec => []TypeOK
  BY InvHolds, PTL DEF Inv

(* Reducing a node's windows gives no locked instant away, for lists of any
   length in any order. *)
THEOREM ReductionKeepsLocks == Spec => []NoLockLost
  BY InvHolds, PTL DEF Inv

(* For a list in order, or of at most two windows, the passed part is separated,
   which makes the gaps that getLegalInterVals4Node reads the free times. *)
THEOREM ReductionSeparates == Spec => []PassedPartSeparated
  BY InvHolds, PTL DEF Inv

\* When the loop is over, the list it leaves of an orderly one has gaps all along.
LEMMA DoneSeparated ==
    ASSUME Inv, Done, Orderly(input)
    PROVE  reduced \in Seq(TimeWindow) /\ Separated(reduced) /\ WellFormed(reduced)
<1>1. reduced \in Seq(TimeWindow) /\ WellFormed(reduced) /\ i \in Int
  BY DEF Inv, TypeOK
<1>2. \A j \in 1 .. i - 1 : j < Len(reduced) => reduced[j].second < reduced[j + 1].first
  BY DEF Inv, PassedPartSeparated
<1>3. Len(reduced) \in Nat /\ DOMAIN reduced = 1 .. Len(reduced) /\ i > Len(reduced)
  BY <1>1 DEF Done
<1>4. Separated(reduced)
  <2> SUFFICES ASSUME NEW j \in 1 .. Len(reduced), j + 1 \in 1 .. Len(reduced)
               PROVE  reduced[j].second < reduced[j + 1].first
    BY <1>3 DEF Separated
  <2>1. j \in 1 .. i - 1 /\ j < Len(reduced)
    BY <1>1, <1>3
  <2> QED
    BY <1>2, <2>1
<1> QED
  BY <1>1, <1>4

\* A separated list and its legal intervals divide the time between them.
LEMMA LegalIsComplement ==
    ASSUME NEW w \in Seq(TimeWindow), Separated(w), WellFormed(w), NEW t \in 0 .. INF - 1
    PROVE  CoveredBy(t, w) <=> ~ CoveredBy(t, getLegalInterVals4Node(w))
<1>1. ASSUME CoveredBy(t, w), CoveredBy(t, getLegalInterVals4Node(w)) PROVE FALSE
  <2> DEFINE legal == getLegalInterVals4Node(w)
  <2>1. legal \in Seq(TimeWindow) /\ t \in Int
    BY LegalType, InfAssumption
  <2>2. \A a \in DOMAIN legal, b \in DOMAIN w : Disjoint(legal[a], w[b])
    BY LegalOfSeparated
  <2> HIDE DEF legal
  <2>3. PICK a \in DOMAIN legal : legal[a].first <= t /\ t < legal[a].second
    BY <1>1 DEF CoveredBy, legal
  <2>4. PICK b \in DOMAIN w : w[b].first <= t /\ t < w[b].second
    BY <1>1 DEF CoveredBy
  <2>5. legal[a] \in TimeWindow /\ w[b] \in TimeWindow
    BY <2>1
  <2>6. Disjoint(legal[a], w[b])
    BY <2>2
  <2> QED
    BY <2>1, <2>3, <2>4, <2>5, <2>6, WindowParts DEF Disjoint
<1>2. CoveredBy(t, w) \/ CoveredBy(t, getLegalInterVals4Node(w))
  BY LegalOfFree
<1> QED
  BY <1>1, <1>2

(* What getLegalInterVals4Node reads off the reduced list of an orderly one is
   exactly the time no window of the list holds: no instant is given to two
   robots, and none is withheld. *)
THEOREM LegalIntervalsAreFree == Spec => []LegalIsFree
<1>1. Inv => LegalIsFree
  BY DoneSeparated, LegalIsComplement DEF LegalIsFree
<1> QED
  BY <1>1, InvHolds, PTL

--------------------------------------------------------------------------------
(* The loop and the closed form. *)

Cuts == {c \in DOMAIN input : IsCut(input, c)}

CutsBefore(p) == {c \in Cuts : c < p}

\* How far the loop has come in the input: each join took a window away.
Taken == i + Len(input) - Len(reduced)

(* The windows left behind are the pieces that end at the cuts passed, in their
   order; the window under the counter is the piece that ends where the loop has
   come to; the windows ahead are those of the input. *)
FollowsClosedForm ==
    /\ Taken \in 1 .. Len(input) + 1
    /\ Cardinality(CutsBefore(Taken)) = i - 1
    /\ \A c \in Cuts : c < Taken => /\ Rank(Cuts, c) \in 1 .. i - 1
                                    /\ reduced[Rank(Cuts, c)] = Piece(input, c)
    /\ i \in DOMAIN reduced => reduced[i] = Piece(input, Taken)
    /\ \A j \in DOMAIN reduced :
         j > i => reduced[j] = input[j + Len(input) - Len(reduced)]

\* The lists the pass is called with, and where the loop can be.
LEMMA Lists ==
    ASSUME Inv, FollowsClosedForm
    PROVE  /\ input \in Seq(TimeWindow) /\ WellFormed(input)
           /\ Len(input) \in Nat /\ DOMAIN input = 1 .. Len(input)
           /\ reduced \in Seq(TimeWindow) /\ Len(reduced) \in Nat
           /\ DOMAIN reduced = 1 .. Len(reduced) /\ Len(reduced) <= Len(input)
           /\ i \in Nat /\ i >= 1 /\ Taken \in Nat
           /\ Taken - i = Len(input) - Len(reduced)
           /\ Cuts \in SUBSET DOMAIN input /\ IsFiniteSet(Cuts)
           /\ i \in DOMAIN reduced <=> Taken \in DOMAIN input
<1>1. input \in Seq(LockWindow) /\ \A w \in LockWindow : w \in TimeWindow /\ w.first < w.second
  BY InitialListsAssumption, LockWindowAssumption DEF Inv, TypeOK
<1>2. input \in Seq(TimeWindow) /\ \A j \in DOMAIN input : input[j] \in LockWindow
  BY <1>1
<1>3. WellFormed(input)
  BY <1>1, <1>2, WindowParts DEF WellFormed
<1>4. /\ Len(input) \in Nat /\ DOMAIN input = 1 .. Len(input)
      /\ reduced \in Seq(TimeWindow) /\ Len(reduced) \in Nat /\ Len(reduced) <= Len(input)
      /\ DOMAIN reduced = 1 .. Len(reduced) /\ i \in Nat /\ i >= 1
  BY <1>2 DEF Inv, TypeOK
<1>5. Cuts \in SUBSET DOMAIN input /\ IsFiniteSet(Cuts)
  <2>1. IsFiniteSet(1 .. Len(input)) /\ Cuts \in SUBSET DOMAIN input
    BY <1>4, FS_Interval DEF Cuts
  <2> QED
    BY <1>4, <2>1, FS_Subset
<1>6. Taken \in Nat /\ Taken - i = Len(input) - Len(reduced) /\ Taken <= Len(input) + 1
  BY <1>4 DEF Taken, FollowsClosedForm
<1> QED
  BY <1>2, <1>3, <1>4, <1>5, <1>6

\* At the start nothing is passed, and the first window is a piece by itself.
LEMMA InitFollows == Init => FollowsClosedForm
<1> SUFFICES ASSUME Init PROVE FollowsClosedForm
  OBVIOUS
<1>1. /\ input \in Seq(TimeWindow) /\ Len(input) \in Nat /\ DOMAIN input = 1 .. Len(input)
      /\ reduced = input /\ i = 1
  BY InitialListsAssumption, LockWindowAssumption DEF Init
<1>2. Taken = 1
  BY <1>1 DEF Taken
<1>3. CutsBefore(Taken) = {}
  BY <1>1, <1>2 DEF Cuts, CutsBefore
<1>4. 1 \in DOMAIN input => input[1] = Piece(input, 1)
  <2> SUFFICES ASSUME 1 \in DOMAIN input PROVE input[1] = Piece(input, 1)
    OBVIOUS
  <2>1. Members(input, 1) \subseteq {1}
    BY DEF Members
  <2>2. Piece(input, 1).first = input[1].first /\ Piece(input, 1).second = input[1].second
    BY <1>1, <2>1, PieceBounds
  <2>3. Piece(input, 1) \in TimeWindow /\ input[1] \in TimeWindow
    BY <1>1, PieceSpans
  <2> QED
    BY <2>2, <2>3 DEF TimeWindow
<1>5. \A j \in DOMAIN reduced : reduced[j] = input[j + Len(input) - Len(reduced)]
  BY <1>1
<1>6. Cardinality(CutsBefore(Taken)) = i - 1
  BY <1>1, <1>3, FS_EmptySet
<1>7. \A c \in Cuts : ~ (c < Taken)
  BY <1>3 DEF CutsBefore
<1> QED
  BY <1>1, <1>2, <1>4, <1>5, <1>6, <1>7 DEF FollowsClosedForm

\* A join is made where there is no cut.
LEMMA MergeFollows == Inv /\ FollowsClosedForm /\ Merge => FollowsClosedForm'
<1> SUFFICES ASSUME Inv, FollowsClosedForm, Merge PROVE FollowsClosedForm'
  OBVIOUS
<1> DEFINE n == Len(reduced)
           N == Len(input)
           p == Taken
<1>1. /\ input \in Seq(TimeWindow) /\ WellFormed(input) /\ N \in Nat /\ DOMAIN input = 1 .. N
      /\ reduced \in Seq(TimeWindow) /\ n \in Nat /\ DOMAIN reduced = 1 .. n /\ n <= N
      /\ i \in Nat /\ i >= 1 /\ p \in Nat /\ p - i = N - n
      /\ Cuts \in SUBSET DOMAIN input
  BY Lists
<1>2. /\ i \in 1 .. n - 1 /\ input' = input /\ i' = i /\ Len(reduced') = n - 1
      /\ DOMAIN reduced' = 1 .. n - 1
      /\ \A j \in 1 .. i - 1 : reduced'[j] = reduced[j]
      /\ reduced'[i] = Joined(reduced[i], reduced[i + 1])
      /\ \A j \in i + 1 .. n - 1 : reduced'[j] = reduced[j + 1]
  BY MergeStep
<1>3. Taken' = p + 1 /\ Cuts' = Cuts
  BY <1>1, <1>2 DEF Taken, Cuts
<1>4. p \in DOMAIN input /\ p + 1 \in DOMAIN input
  BY <1>1, <1>2
<1>5. reduced[i] = Piece(input, p) /\ reduced[i + 1] = input[p + 1]
  <2>1. i \in DOMAIN reduced /\ i + 1 \in DOMAIN reduced /\ i + 1 > i /\ i + 1 + N - n = p + 1
    <3>1. i \in 1 .. n /\ i + 1 \in 1 .. n /\ i + 1 > i
      BY <1>1, <1>2
    <3>2. i + 1 + N - n = p + 1
      BY <1>1
    <3> QED
      BY <1>1, <3>1, <3>2
  <2>2. reduced[i] = Piece(input, p)
    BY <2>1 DEF FollowsClosedForm
  <2>3. reduced[i + 1] = input[i + 1 + N - n]
    BY <2>1 DEF FollowsClosedForm
  <2> QED
    BY <2>1, <2>2, <2>3
<1>6. ~ IsCut(input, p)
  <2>1. Piece(input, p).second >= input[p + 1].first
    BY <1>5 DEF Merge
  <2>2. Piece(input, p).second \in Int /\ input[p + 1].first \in Int
    <3>1. input[p + 1] \in TimeWindow
      BY <1>1, <1>4
    <3> QED
      BY <1>1, <1>4, <3>1, PieceBounds, WindowParts
  <2>3. IsCut(input, p) <=> Piece(input, p).second < input[p + 1].first
    BY <1>1, <1>4, CutOfPiece
  <2> QED
    BY <2>1, <2>2, <2>3
<1>7. reduced'[i] = Piece(input, p + 1)
  <2>1. Piece(input, p + 1)
          = [first  |-> Min({Piece(input, p).first, input[p + 1].first}),
             second |-> Max({input[p + 1].second, Piece(input, p).second})]
    BY <1>1, <1>4, <1>6, PieceGrows
  <2>2. reduced'[i] = Joined(Piece(input, p), input[p + 1])
    BY <1>2, <1>5
  <2> QED
    BY <2>1, <2>2 DEF Joined
<1>8. CutsBefore(Taken)' = CutsBefore(Taken) /\ \A c \in Cuts : c < p + 1 => c < p
  <2>1. \A c \in Cuts : c < p + 1 <=> c < p
    BY <1>1, <1>6 DEF Cuts
  <2> QED
    BY <1>3, <2>1 DEF CutsBefore
<1>9. \A c \in Cuts : c < p + 1 => /\ Rank(Cuts, c) \in 1 .. i - 1
                                   /\ reduced'[Rank(Cuts, c)] = Piece(input, c)
  BY <1>2, <1>8 DEF FollowsClosedForm
<1>10. ASSUME NEW j \in 1 .. n - 1, j > i PROVE reduced'[j] = input[j + N - (n - 1)]
  <2>1. j + 1 \in DOMAIN reduced /\ j + 1 > i /\ j + 1 + N - n = j + N - (n - 1)
    BY <1>1, <1>10
  <2>2. reduced'[j] = reduced[j + 1]
    BY <1>1, <1>2, <1>10
  <2> QED
    BY <2>1, <2>2 DEF FollowsClosedForm
<1>11. Taken' \in 1 .. N + 1
  BY <1>1, <1>3, <1>4
<1>12. Cardinality(CutsBefore(Taken))' = i - 1
  BY <1>8 DEF FollowsClosedForm
<1> QED
  BY <1>2, <1>3, <1>7, <1>9, <1>10, <1>11, <1>12 DEF FollowsClosedForm

\* The counter goes on where there is a cut: one more piece is left behind.
LEMMA AdvanceFollows == Inv /\ FollowsClosedForm /\ Advance => FollowsClosedForm'
<1> SUFFICES ASSUME Inv, FollowsClosedForm, Advance PROVE FollowsClosedForm'
  OBVIOUS
<1> DEFINE n == Len(reduced)
           N == Len(input)
           p == Taken
           passed == CutsBefore(p)
<1>1. /\ input \in Seq(TimeWindow) /\ WellFormed(input) /\ N \in Nat /\ DOMAIN input = 1 .. N
      /\ reduced \in Seq(TimeWindow) /\ n \in Nat /\ DOMAIN reduced = 1 .. n /\ n <= N
      /\ i \in Nat /\ i >= 1 /\ p \in Nat /\ p - i = N - n
      /\ Cuts \in SUBSET DOMAIN input /\ IsFiniteSet(Cuts)
  BY Lists
<1>2. input' = input /\ reduced' = reduced /\ i' = i + 1 /\ i \in DOMAIN reduced
  BY <1>1 DEF Advance
<1>3. Taken' = p + 1 /\ Cuts' = Cuts
  BY <1>1, <1>2 DEF Taken, Cuts
<1>4. p \in DOMAIN input /\ reduced[i] = Piece(input, p)
  BY <1>1, <1>2 DEF FollowsClosedForm
<1>5. ASSUME p + 1 \in DOMAIN input
      PROVE  i + 1 \in DOMAIN reduced /\ reduced[i + 1] = input[p + 1] /\ IsCut(input, p)
  <2>1. i + 1 \in DOMAIN reduced /\ i + 1 + N - n = p + 1
    BY <1>1, <1>5
  <2>2. reduced[i + 1] = input[p + 1]
    BY <1>1, <2>1 DEF FollowsClosedForm
  <2>3. Piece(input, p).second < input[p + 1].first
    BY <1>1, <1>4, <2>1, <2>2 DEF Advance
  <2> QED
    BY <1>1, <1>4, <1>5, <2>1, <2>2, <2>3, CutOfPiece
<1>6. p \in Cuts
  BY <1>4, <1>5 DEF Cuts, IsCut
<1>7. /\ IsFiniteSet(passed) /\ p \notin passed /\ Cardinality(passed) = i - 1
      /\ CutsBefore(Taken)' = passed \union {p}
      /\ {c \in Cuts : c <= p} = passed \union {p}
  <2>1. passed \in SUBSET Cuts /\ p \notin passed
    BY <1>1 DEF CutsBefore
  <2>2. CutsBefore(Taken)' = passed \union {p}
    BY <1>1, <1>3, <1>6 DEF CutsBefore
  <2>3. {c \in Cuts : c <= p} = passed \union {p}
    BY <1>1, <1>6 DEF CutsBefore
  <2>4. IsFiniteSet(passed)
    BY <1>1, <2>1, FS_Subset
  <2>5. Cardinality(passed) = i - 1
    BY DEF FollowsClosedForm
  <2> QED
    BY <2>1, <2>2, <2>3, <2>4, <2>5
<1> HIDE DEF passed
<1>8. Cardinality(passed \union {p}) = i
  <2>1. Cardinality(passed \union {p}) = (i - 1) + 1
    BY <1>7, FS_AddElement
  <2> QED
    BY <1>1, <2>1
<1>9. Rank(Cuts, p) = i
  BY <1>7, <1>8 DEF Rank
<1>10. \A c \in Cuts : c < p + 1 => /\ Rank(Cuts, c) \in 1 .. i
                                    /\ reduced[Rank(Cuts, c)] = Piece(input, c)
  <2> SUFFICES ASSUME NEW c \in Cuts, c < p + 1
               PROVE  /\ Rank(Cuts, c) \in 1 .. i
                      /\ reduced[Rank(Cuts, c)] = Piece(input, c)
    OBVIOUS
  <2>1. CASE c = p
    BY <1>1, <1>4, <1>9, <2>1
  <2>2. CASE c # p
    BY <1>1, <2>2 DEF FollowsClosedForm
  <2> QED
    BY <2>1, <2>2
<1>11. ASSUME i + 1 \in DOMAIN reduced PROVE reduced[i + 1] = Piece(input, p + 1)
  <2>1. p + 1 \in DOMAIN input
    BY <1>1, <1>11
  <2> QED
    BY <1>1, <1>4, <1>5, <2>1, PieceAfterCut
<1>12. \A j \in DOMAIN reduced : j > i + 1 => reduced[j] = input[j + N - n]
  BY <1>1 DEF FollowsClosedForm
<1>13. Taken' \in 1 .. N + 1
  BY <1>1, <1>3, <1>4
<1>14. i + 1 - 1 = i /\ Cardinality(CutsBefore(Taken))' = i
  BY <1>1, <1>7, <1>8
<1> QED
  <2>1. Len(input)' = N /\ Len(reduced)' = n /\ (i - 1)' = i
    <3>1. Len(input)' = N /\ Len(reduced)' = n
      BY <1>2
    <3>2. (i - 1)' = i
      BY <1>1, <1>2
    <3> QED
      BY <3>1, <3>2
  <2>2. \A c \in Cuts' : c < Taken' => /\ Rank(Cuts', c) \in 1 .. i
                                       /\ reduced'[Rank(Cuts', c)] = Piece(input', c)
    BY <1>2, <1>3, <1>10
  <2>3. i' \in DOMAIN reduced' => reduced'[i'] = Piece(input', Taken')
    BY <1>2, <1>3, <1>11
  <2>4. \A j \in DOMAIN reduced' : j > i' => reduced'[j] = input'[j + N - n]
    BY <1>2, <1>12
  <2> HIDE DEF n, N, p
  <2> QED
    BY <1>13, <1>14, <2>1, <2>2, <2>3, <2>4 DEF FollowsClosedForm

\* When the loop is over, all cuts are passed.
LEMMA DoneFollows == Inv /\ FollowsClosedForm => LoopIsClosedForm
<1> SUFFICES ASSUME Inv, FollowsClosedForm, Done
             PROVE  reduced = TimeWindowReduction4NodeHelper(input)
  BY DEF LoopIsClosedForm
<1> DEFINE pieces == [c \in DOMAIN input |-> Piece(input, c)]
<1>1. /\ input \in Seq(TimeWindow) /\ Len(input) \in Nat /\ DOMAIN input = 1 .. Len(input)
      /\ reduced \in Seq(TimeWindow) /\ Len(reduced) \in Nat /\ DOMAIN reduced = 1 .. Len(reduced)
      /\ i \in Nat /\ Taken \in Nat /\ Taken - i = Len(input) - Len(reduced)
      /\ Cuts \in SUBSET DOMAIN input /\ IsFiniteSet(Cuts)
  BY Lists
<1>2. Taken = Len(input) + 1 /\ i = Len(reduced) + 1
  BY <1>1 DEF Done, FollowsClosedForm
<1>3. CutsBefore(Taken) = Cuts /\ \A c \in Cuts : c < Taken
  BY <1>1, <1>2 DEF CutsBefore
<1>4. Cardinality(Cuts) = Len(reduced)
  BY <1>1, <1>2, <1>3 DEF FollowsClosedForm
<1>5. TimeWindowReduction4NodeHelper(input) = Subsequence(pieces, Cuts)
  BY DEF TimeWindowReduction4NodeHelper, Cuts
<1>6. DOMAIN Subsequence(pieces, Cuts) = 1 .. Len(reduced)
  BY <1>4 DEF Subsequence
<1>7. ASSUME NEW r \in 1 .. Len(reduced) PROVE Subsequence(pieces, Cuts)[r] = reduced[r]
  <2>0. Cuts \in SUBSET Int /\ r \in 1 .. Cardinality(Cuts)
    BY <1>1, <1>4
  <2> HIDE DEF pieces
  <2>1. PICK c \in Cuts : Rank(Cuts, c) = r /\ Subsequence(pieces, Cuts)[r] = pieces[c]
    BY <1>1, <2>0, SubsequenceElements
  <2> USE DEF pieces
  <2>2. reduced[Rank(Cuts, c)] = Piece(input, c)
    BY <1>3 DEF FollowsClosedForm
  <2> QED
    BY <1>1, <2>1, <2>2
<1>8. Subsequence(pieces, Cuts) = [r \in 1 .. Len(reduced) |-> Subsequence(pieces, Cuts)[r]]
  BY <1>4 DEF Subsequence
<1>9. reduced = [r \in 1 .. Len(reduced) |-> reduced[r]]
  BY <1>1
<1> QED
  BY <1>5, <1>7, <1>8, <1>9

(* The in-place loop, which joins windows and shifts the rest of the list under a
   counter that does not look back, computes the closed form with which the
   planner is modelled, for every list. *)
THEOREM LoopComputesClosedForm == Spec => []LoopIsClosedForm
<1>1. Init => FollowsClosedForm
  BY InitFollows
<1>2. Inv /\ FollowsClosedForm /\ [Next]_vars => FollowsClosedForm'
  <2>1. ASSUME FollowsClosedForm, UNCHANGED vars PROVE FollowsClosedForm'
    BY <2>1 DEF FollowsClosedForm, Taken, Cuts, CutsBefore, vars
  <2> QED
    BY <2>1, MergeFollows, AdvanceFollows DEF Next
<1>3. Inv /\ FollowsClosedForm => LoopIsClosedForm
  BY DoneFollows
<1> QED
  BY <1>1, <1>2, <1>3, InvHolds, PTL DEF Spec

================================================================================
