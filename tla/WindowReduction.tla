---------------------------- MODULE WindowReduction ----------------------------
(****************************************************************************)
(* LMap::TimeWindowReduction4NodeHelper (AStar.cpp:1119-1138), step by      *)
(* step: the loop that joins overlapping neighbours of one node's locked    *)
(* windows in place.  The planner appends the windows of a newly planned    *)
(* route at the end of the list, so the input need not be in order of time. *)
(****************************************************************************)
EXTENDS TimeWindows

CONSTANT LockWindow    \* the windows a route may lock, a subset of TimeWindow

ASSUME LockWindowAssumption ==
    /\ LockWindow \subseteq TimeWindow
    /\ \A w \in LockWindow : w.first < w.second

CONSTANT InitialLists  \* the lists the pass may be called with

ASSUME InitialListsAssumption == InitialLists \subseteq Seq(LockWindow)

VARIABLES
    input,     \* the list the pass was called with
    reduced,   \* the list being reduced (result in the code)
    i          \* the loop counter, from 1

vars == <<input, reduced, i>>

Init ==
    /\ input \in InitialLists
    /\ reduced = input
    /\ i = 1

\* Mutant: the joined window ends where the second one ends.
Merge_SecondEnd ==
    /\ i < Len(reduced)
    /\ reduced[i].second >= reduced[i + 1].first
    /\ LET newPair == [first  |-> Min({reduced[i].first, reduced[i + 1].first}),
                       second |-> reduced[i + 1].second]
       IN  reduced' = [j \in 1 .. Len(reduced) - 1 |->
                         IF j < i THEN reduced[j] ELSE IF j = i THEN newPair ELSE reduced[j + 1]]
    /\ UNCHANGED <<input, i>>

\* Mutant: the counter goes on after a join (no i--).
Merge_GoesOn ==
    /\ i < Len(reduced)
    /\ reduced[i].second >= reduced[i + 1].first
    /\ LET newPair == [first  |-> Min({reduced[i].first, reduced[i + 1].first}),
                       second |-> Max({reduced[i + 1].second, reduced[i].second})]
       IN  reduced' = [j \in 1 .. Len(reduced) - 1 |->
                         IF j < i THEN reduced[j] ELSE IF j = i THEN newPair ELSE reduced[j + 1]]
    /\ i' = i + 1
    /\ UNCHANGED input

\* Mutant: the second window is not erased.
Merge_NoErase ==
    /\ i < Len(reduced)
    /\ reduced[i].second >= reduced[i + 1].first
    /\ reduced' = [reduced EXCEPT ![i] =
                     [first  |-> Min({reduced[i].first, reduced[i + 1].first}),
                      second |-> Max({reduced[i + 1].second, reduced[i].second})]]
    /\ UNCHANGED <<input, i>>

\* The two branches of the loop body: join windows i and i+1 and stay, or
\* leave window i as it is and go on.
Merge ==
    /\ i < Len(reduced)
    /\ reduced[i].second >= reduced[i + 1].first
    /\ LET newPair == [first  |-> Min({reduced[i].first, reduced[i + 1].first}),
                       second |-> Max({reduced[i + 1].second, reduced[i].second})]
       IN  reduced' = [j \in 1 .. Len(reduced) - 1 |->
                         IF j < i THEN reduced[j]
                         ELSE IF j = i THEN newPair
                         ELSE reduced[j + 1]]
    /\ UNCHANGED <<input, i>>

\* Mutant: the loop takes one turn too many.
Advance_OneMore ==
    /\ i <= Len(reduced) + 1
    /\ i < Len(reduced) => reduced[i].second < reduced[i + 1].first
    /\ i' = i + 1
    /\ UNCHANGED <<input, reduced>>

\* Mutant: windows that touch are not joined.
Advance_OverContact ==
    /\ i <= Len(reduced)
    /\ i < Len(reduced) => reduced[i].second <= reduced[i + 1].first
    /\ i' = i + 1
    /\ UNCHANGED <<input, reduced>>

Advance ==
    /\ i <= Len(reduced)
    /\ i < Len(reduced) => reduced[i].second < reduced[i + 1].first
    /\ i' = i + 1
    /\ UNCHANGED <<input, reduced>>

Next == Merge \/ Advance

Spec == Init /\ [][Next]_vars /\ WF_vars(Next)

Done == i > Len(reduced)

--------------------------------------------------------------------------------
(* Types: the list never gets longer, and its windows keep first < second. *)
TypeOK ==
    /\ input \in InitialLists
    /\ reduced \in Seq(TimeWindow)
    /\ WellFormed(reduced)
    /\ Len(reduced) <= Len(input)
    /\ i \in 1 .. Len(input) + 1

(* No instant at which a route holds the node is ever given away by the
   joining of windows, whatever the order of the list. *)
NoLockLost ==
    \A k \in DOMAIN input :
        \E j \in DOMAIN reduced :
            /\ reduced[j].first <= input[k].first
            /\ input[k].second <= reduced[j].second

InOrder(w) == \A a, b \in DOMAIN w : a < b => w[a].first <= w[b].first

(* What three robots can produce: the two routes already planned give a node
   one window each.  Longer lists may be reduced only if they are in order. *)
Orderly(w) == InOrder(w) \/ Len(w) <= 2

(* The part of the list the loop has passed is in order of time and without
   contacts, even though the loop never looks back: getLegalInterVals4Node
   takes that for granted when it reads the gaps between neighbours. *)
PassedPartSeparated ==
    Orderly(input) =>
        \A j \in 1 .. i - 1 : j < Len(reduced) => reduced[j].second < reduced[j + 1].first

(* When the pass over an orderly list is over, the legal intervals computed
   from it are exactly the instants no window of the list holds. *)
LegalIsFree ==
    (Done /\ Orderly(input)) =>
        \A t \in 0 .. INF - 1 :
            CoveredBy(t, reduced) <=> ~ CoveredBy(t, getLegalInterVals4Node(reduced))

(* The loop computes the closed form the planner's model uses. *)
LoopIsClosedForm == Done => reduced = TimeWindowReduction4NodeHelper(input)

(* The pass ends. *)
Terminates == <>Done
================================================================================
