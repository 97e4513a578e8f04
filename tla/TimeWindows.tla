------------------------------ MODULE TimeWindows ------------------------------
(****************************************************************************)
(* The interval arithmetic of class LMap (AStar.cpp).  A list of time       *)
(* windows says when a map node is locked by the routes already planned, or *)
(* when a robot may arrive there.  Instants are natural numbers, INF stands *)
(* for "for ever", as in the code.  The indices of a list start at 1.       *)
(****************************************************************************)
EXTENDS Integers, Sequences, FiniteSets, FiniteSetsExt, SequencesExt

CONSTANT INF    \* beyond every instant of the clock, 10000000000 in the code

ASSUME InfAssumption == INF \in Nat \ {0}

Instant == Int

\* std::pair<double, double>; nothing makes first <= second by itself.
TimeWindow == [first : Instant, second : Instant]

(****************************************************************************)
(* The elements of s whose index is in K, in their order: what the loops    *)
(* that push_back or erase under a condition leave behind.                  *)
(****************************************************************************)
Rank(K, i) == Cardinality({j \in K : j <= i})

Subsequence(s, K) ==
    [r \in 1 .. Cardinality(K) |-> s[CHOOSE i \in K : Rank(K, i) = r]]

merge_feasible_arrtime_helper(pair1, pair2) ==
    [first  |-> Max({pair1.first, pair2.first}),
     second |-> Min({pair1.second, pair2.second})]

\* A window is dropped when the next one starts before it ends (or as it
\* ends): the code widens the window it is about to erase, so the next window
\* keeps its own start and the earlier part of the union is lost.
combine_intervals(origin_intervals) ==
    Subsequence(origin_intervals,
        {i \in DOMAIN origin_intervals :
            i + 1 \in DOMAIN origin_intervals =>
                origin_intervals[i + 1].first > origin_intervals[i].second})

\* Every pair of windows, row by row.
AllPairs(pair1_vec, pair2_vec) ==
    [n \in 1 .. Len(pair1_vec) * Len(pair2_vec) |->
        merge_feasible_arrtime_helper(
            pair1_vec[((n - 1) \div Len(pair2_vec)) + 1],
            pair2_vec[((n - 1) % Len(pair2_vec)) + 1])]

merge_feasible_arrtime(pair1_vec, pair2_vec) ==
    LET pairs == AllPairs(pair1_vec, pair2_vec)
    IN  combine_intervals(
            Subsequence(pairs, {n \in DOMAIN pairs : pairs[n].first < pairs[n].second}))

(****************************************************************************)
(* One pass of the window reduction.  The code joins neighbours in place,   *)
(* from left to right and without looking back; WindowReduction models that *)
(* loop step by step.  Its result in closed form: the list is cut after a   *)
(* window when all the windows up to it end before the next one starts, and *)
(* each piece becomes one window that spans it.                             *)
(****************************************************************************)
IsCut(w, i) ==
    i + 1 \in DOMAIN w => \A j \in 1 .. i : w[j].second < w[i + 1].first

\* Mutant: the end of the last window of the piece, not the latest end.
Piece_LastEnd(w, i) ==
    LET members == {j \in 1 .. i : \A c \in j .. i - 1 : ~ IsCut(w, c)}
    IN  [first |-> Min({w[j].first : j \in members}), second |-> w[i].second]

\* The window that stands for the piece that ends at the cut i.
Piece(w, i) ==
    LET members == {j \in 1 .. i : \A c \in j .. i - 1 : ~ IsCut(w, c)}
    IN  [first  |-> Min({w[j].first : j \in members}),
         second |-> Max({w[j].second : j \in members})]

TimeWindowReduction4NodeHelper(input) ==
    Subsequence([i \in DOMAIN input |-> Piece(input, i)],
                {i \in DOMAIN input : IsCut(input, i)})

(****************************************************************************)
(* When a node is free: before its first locked window, between two         *)
(* neighbours, after the last one.                                          *)
(****************************************************************************)
\* Mutant: nothing is legal before the first lock.
getLegalInterVals4Node_NotBefore(locked_Intervals) ==
    IF locked_Intervals = <<>> THEN <<[first |-> 0, second |-> INF]>>
    ELSE LET size == Len(locked_Intervals)
         IN  [i \in 1 .. IF locked_Intervals[size].second # INF THEN size ELSE size - 1 |->
                [first  |-> locked_Intervals[i].second,
                 second |-> IF i = size THEN INF ELSE locked_Intervals[i + 1].first]]

\* Mutant: the gaps are read from start to start.
getLegalInterVals4Node_FromStart(locked_Intervals) ==
    IF locked_Intervals = <<>> THEN <<[first |-> 0, second |-> INF]>>
    ELSE LET size == Len(locked_Intervals)
         IN  <<[first |-> 0, second |-> locked_Intervals[1].first]>>
             \o [i \in 1 .. size |->
                    [first  |-> locked_Intervals[i].first,
                     second |-> IF i = size THEN INF ELSE locked_Intervals[i + 1].first]]

getLegalInterVals4Node(locked_Intervals) ==
    IF locked_Intervals = <<>> THEN <<[first |-> 0, second |-> INF]>>
    ELSE LET size   == Len(locked_Intervals)
             before == [first |-> 0, second |-> locked_Intervals[1].first]
             after  == [first |-> locked_Intervals[size].second, second |-> INF]
         IN  (IF locked_Intervals[1].first > 0 THEN <<before>> ELSE <<>>)
             \o [i \in 1 .. size - 1 |->
                    [first  |-> locked_Intervals[i].second,
                     second |-> locked_Intervals[i + 1].first]]
             \o (IF locked_Intervals[size].second # INF THEN <<after>> ELSE <<>>)

(****************************************************************************)
(* Reference notions, for the properties.                                   *)
(****************************************************************************)
\* t lies in some window of w; a window holds its start and not its end.
CoveredBy(t, w) == \E i \in DOMAIN w : w[i].first <= t /\ t < w[i].second

\* The windows are in order of time, with a gap between any two of them.
Separated(w) == \A i \in DOMAIN w : i + 1 \in DOMAIN w => w[i].second < w[i + 1].first

WellFormed(w) == \A i \in DOMAIN w : w[i].first <= w[i].second
================================================================================
