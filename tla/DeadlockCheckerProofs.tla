-------------------------- MODULE DeadlockCheckerProofs --------------------------
(****************************************************************************)
(* What an alarm of the checker rests on, for every fleet, map and          *)
(* threshold.                                                               *)
(****************************************************************************)
EXTENDS DeadlockChecker, FiniteSetTheorems, TLAPS

(* What the history variables hold. *)
HistoryOK ==
    /\ still \in [Robot -> 0 .. CountCap]
    /\ sinceAlarm \in 0 .. CountCap

(* A counter never runs ahead of the equal samples: an alarm may set it back,
   nothing else makes the two differ. *)
CountsAreSeen == \A r \in Robot : robot_count[r] <= still[r]

(* No robot has been sampled more often since the last alarm than there were
   rounds, the one that is under way included if the robot has had its turn. *)
CountsAreFresh == \A r \in Robot : robot_count[r] <= sinceAlarm + (IF r < at THEN 1 ELSE 0)

Inv == TypeOK /\ HistoryOK /\ CountsAreSeen /\ CountsAreFresh

AlarmIsFoundedAndSpaced ==
    Raised => /\ Cardinality({r \in Robot : still[r] > Threshold}) >= 2
              /\ sinceAlarm >= Threshold

\* Counting up stays within the cap and below the uncapped count.
LEMMA CappedBounds ==
    ASSUME NEW n \in 0 .. CountCap
    PROVE  Capped(n + 1) \in 0 .. CountCap /\ Capped(n + 1) <= n + 1
BY CheckerAssumption DEF Capped, CountCap

\* And it is monotonic.
LEMMA CappedMonotonic ==
    ASSUME NEW m \in 0 .. CountCap, NEW n \in 0 .. CountCap, m <= n
    PROVE  Capped(m + 1) <= Capped(n + 1)
BY CheckerAssumption DEF Capped, CountCap

\* A count within the cap that is at most n + 1 is at most the capped n + 1.
LEMMA CappedAbove ==
    ASSUME NEW m \in 0 .. CountCap, NEW n \in 0 .. CountCap, m <= n + 1
    PROVE  m <= Capped(n + 1)
BY CheckerAssumption DEF Capped, CountCap

\* Before the first sample nothing has been counted.
LEMMA InitInv == Init => Inv
BY CheckerAssumption
   DEF Init, Inv, TypeOK, HistoryOK, CountsAreSeen, CountsAreFresh, CountCap, Robot

\* A sample counts up, or sets back, the robot whose turn it is.
LEMMA SampleInv == Inv /\ Sample => Inv'
<1> SUFFICES ASSUME Inv, Sample PROVE Inv'
    OBVIOUS
<1>1. /\ at \in Robot /\ Robot \subseteq Int
      /\ robot_count \in [Robot -> 0 .. CountCap] /\ still \in [Robot -> 0 .. CountCap]
      /\ CountCap \in Nat /\ sinceAlarm \in 0 .. CountCap
    BY CheckerAssumption DEF Inv, TypeOK, HistoryOK, Sample, Robot, CountCap
<1>2. /\ NextCount(at) \in 0 .. CountCap
      /\ NextCount(at) <= robot_count[at] + 1
    BY <1>1, CappedBounds DEF NextCount
<1>3. TypeOK'
    <2>1. /\ robot_count' \in [Robot -> 0 .. CountCap]
          /\ robot_positions' \in [Robot -> Node \union {-1}]
        BY <1>1, <1>2 DEF Inv, TypeOK, Sample
    <2>2. at' \in 1 .. robot_number + 1
        BY <1>1, CheckerAssumption DEF Sample, Robot
    <2> QED BY <2>1, <2>2 DEF Inv, TypeOK, Sample, fleetVars, CountCap
<1>4. /\ still'[at] \in 0 .. CountCap
      /\ NextCount(at) <= still'[at]
      /\ \A r \in Robot \ {at} : still'[r] = still[r]
      /\ still' \in [Robot -> 0 .. CountCap]
    <2>1. CASE robot_position[at] = robot_positions[at]
        <3>1. still' = [still EXCEPT ![at] = Capped(still[at] + 1)]
            BY <2>1 DEF Sample
        <3>2. Capped(still[at] + 1) \in 0 .. CountCap
            BY <1>1, CappedBounds
        <3>3. NextCount(at) <= Capped(still[at] + 1)
            BY <1>1, <2>1, CappedMonotonic DEF NextCount, Inv, CountsAreSeen
        <3> QED BY <1>1, <3>1, <3>2, <3>3
    <2>2. CASE robot_position[at] # robot_positions[at]
        <3>1. still' = [still EXCEPT ![at] = 0]
            BY <2>2 DEF Sample
        <3>2. NextCount(at) = 0
            BY <2>2 DEF NextCount
        <3> QED BY <1>1, <3>1, <3>2
    <2> QED BY <2>1, <2>2
<1>5. robot_count'[at] = NextCount(at) /\ \A r \in Robot \ {at} : robot_count'[r] = robot_count[r]
    BY <1>1 DEF Sample
<1>6. HistoryOK'
    BY <1>1, <1>4 DEF Sample, HistoryOK, CountCap
<1>7. CountsAreSeen'
    BY <1>4, <1>5 DEF CountsAreSeen, Inv
<1>8. CountsAreFresh'
    <2> SUFFICES ASSUME NEW r \in Robot
                 PROVE  robot_count'[r] <= sinceAlarm + (IF r < at + 1 THEN 1 ELSE 0)
        BY DEF CountsAreFresh, Sample
    <2>1. CASE r = at
        BY <1>1, <1>2, <1>5, <2>1 DEF Inv, CountsAreFresh
    <2>2. CASE r # at
        <3>1. robot_count[r] <= sinceAlarm + (IF r < at THEN 1 ELSE 0)
            BY DEF Inv, CountsAreFresh
        <3> QED BY <1>1, <1>5, <2>2, <3>1
    <2> QED BY <2>1, <2>2
<1> QED BY <1>3, <1>6, <1>7, <1>8 DEF Inv

\* At the end of a round the counters are all set back, or the round is added.
LEMMA JudgeInv == Inv /\ Judge => Inv'
<1> SUFFICES ASSUME Inv, Judge PROVE Inv'
    OBVIOUS
<1>1. /\ Robot \subseteq Int /\ CountCap \in Nat /\ sinceAlarm \in 0 .. CountCap
      /\ robot_count \in [Robot -> 0 .. CountCap] /\ still \in [Robot -> 0 .. CountCap]
      /\ \A r \in Robot : r < at /\ ~ (r < at')
    BY CheckerAssumption DEF Inv, TypeOK, HistoryOK, Judge, Robot, CountCap
<1>2. CASE TooManyBlocked
    <2>1. robot_count' = [r \in Robot |-> 0] /\ dead_lock' = 1 /\ sinceAlarm' = 0
        BY <1>2 DEF Judge, CountsAfterAlarm
    <2>2. TypeOK'
        BY <1>1, <2>1, CheckerAssumption DEF Inv, TypeOK, Judge, fleetVars
    <2>3. HistoryOK' /\ CountsAreSeen' /\ CountsAreFresh'
        BY <1>1, <2>1 DEF Inv, Judge, HistoryOK, CountsAreSeen, CountsAreFresh, CountCap
    <2> QED BY <2>2, <2>3 DEF Inv
<1>3. CASE ~ TooManyBlocked
    <2>1. /\ robot_count' = robot_count /\ dead_lock' = dead_lock
          /\ sinceAlarm' = Capped(sinceAlarm + 1)
        BY <1>3 DEF Judge
    <2>2. TypeOK'
        BY <1>1, <2>1, CheckerAssumption DEF Inv, TypeOK, Judge, fleetVars
    <2>3. HistoryOK' /\ CountsAreSeen'
        BY <1>1, <2>1, CappedBounds DEF Inv, Judge, HistoryOK, CountsAreSeen, CountCap
    <2>4. CountsAreFresh'
        <3> SUFFICES ASSUME NEW r \in Robot
                     PROVE  robot_count[r] <= Capped(sinceAlarm + 1)
            BY <1>1, <2>1, CappedBounds DEF CountsAreFresh
        <3>1. robot_count[r] <= sinceAlarm + 1
            BY <1>1 DEF Inv, CountsAreFresh
        <3> QED BY <1>1, <3>1, CappedAbove
    <2> QED BY <2>2, <2>3, <2>4 DEF Inv
<1> QED BY <1>2, <1>3

\* The server and the robots touch neither the counters nor the history.
LEMMA OthersInv ==
    Inv /\ (Server \/ (\E r \in Robot : Move(r) \/ Jam(r)) \/ UNCHANGED vars) => Inv'
<1> SUFFICES ASSUME Inv, Server \/ (\E r \in Robot : Move(r) \/ Jam(r)) \/ UNCHANGED vars
             PROVE  Inv'
    OBVIOUS
<1>1. UNCHANGED checkerVars
    BY DEF Server, CheckDeadLock, StoreRobotPaths, SetDeadLock, Move, Jam, vars
<1>2. HistoryOK' /\ CountsAreSeen' /\ CountsAreFresh'
    BY <1>1 DEF Inv, HistoryOK, CountsAreSeen, CountsAreFresh, checkerVars, CountCap
<1>3. TypeOK'
    <2>1. CASE Server
        BY <2>1 DEF Inv, TypeOK, Server, CheckDeadLock, StoreRobotPaths, SetDeadLock,
                    fleetVars, checkerVars, CountCap
    <2>2. ASSUME NEW r \in Robot, Move(r) PROVE TypeOK'
        BY <2>2 DEF Inv, TypeOK, Move, checkerVars, CountCap
    <2>3. ASSUME NEW r \in Robot, Jam(r) PROVE TypeOK'
        BY <2>3, CheckerAssumption DEF Inv, TypeOK, Jam, checkerVars, CountCap
    <2>4. CASE UNCHANGED vars
        BY <2>4 DEF Inv, TypeOK, vars, fleetVars, checkerVars, CountCap
    <2> QED BY <2>1, <2>2, <2>3, <2>4
<1> QED BY <1>2, <1>3 DEF Inv

\* Every step preserves the invariant.
LEMMA NextInv == Inv /\ [Next]_vars => Inv'
BY SampleInv, JudgeInv, OthersInv DEF Next, Checker

\* A step that raises the flag is an alarm, and its blocked robots were still.
LEMMA RaisedIsFounded == Inv /\ Next => AlarmIsFoundedAndSpaced
<1> SUFFICES ASSUME Inv, Next, Raised
             PROVE  /\ Cardinality({r \in Robot : still[r] > Threshold}) >= 2
                    /\ sinceAlarm >= Threshold
    BY DEF AlarmIsFoundedAndSpaced
<1> DEFINE Still == {r \in Robot : still[r] > Threshold}
<1>1. Judge /\ TooManyBlocked
    BY DEF Raised, Next, Checker, Sample, Judge, Server, CheckDeadLock, StoreRobotPaths,
           SetDeadLock, Move, Jam
<1>2. /\ Threshold \in Nat /\ CountCap = Threshold + 1
      /\ robot_count \in [Robot -> 0 .. CountCap] /\ still \in [Robot -> 0 .. CountCap]
      /\ sinceAlarm \in 0 .. CountCap
    BY CheckerAssumption DEF Inv, TypeOK, HistoryOK, CountCap
<1>3. IsFiniteSet(Robot)
    BY CheckerAssumption, FS_Interval DEF Robot
<1>4. IsFiniteSet(Still) /\ IsFiniteSet(Blocked)
    BY <1>3, FS_Subset DEF Blocked
<1>5. Blocked \subseteq Still
    BY <1>2 DEF Blocked, Inv, CountsAreSeen
<1>6. Cardinality(Blocked) >= 2 /\ Cardinality(Blocked) <= Cardinality(Still)
    BY <1>1, <1>4, <1>5, FS_Subset DEF TooManyBlocked
<1>7. Cardinality(Still) >= 2
    BY <1>4, <1>6, FS_CardinalityType
<1>8. Blocked # {}
    BY <1>6, FS_EmptySet
<1>9. PICK r \in Robot : robot_count[r] > Threshold
    BY <1>8 DEF Blocked
<1>10. robot_count[r] <= sinceAlarm + 1
    BY <1>2, <1>9 DEF Inv, CountsAreFresh
<1>11. sinceAlarm >= Threshold
    BY <1>2, <1>9, <1>10
<1> QED BY <1>7, <1>11

(* When the checker (deadlockChecker.py) raises dead_lock, at least two robots
   have been seen unmoved in more than Threshold samples in a row, and no alarm
   was raised in the Threshold rounds before. *)
THEOREM AlarmsFoundedAndSpaced == Spec => AlarmsAreFoundedAndSpaced
<1>1. Init => Inv
    BY InitInv
<1>2. Inv /\ [Next]_vars => Inv'
    BY NextInv
<1>3. Inv => TypeOK
    BY DEF Inv
<1>4. Inv /\ [Next]_vars => [AlarmIsFoundedAndSpaced]_vars
    BY RaisedIsFounded
<1>5. Spec => []TypeOK /\ [][AlarmIsFoundedAndSpaced]_vars
    BY <1>1, <1>2, <1>3, <1>4, PTL DEF Spec
<1>6. AlarmsAreFoundedAndSpaced <=> []TypeOK /\ [][AlarmIsFoundedAndSpaced]_vars
    BY PTL DEF AlarmsAreFoundedAndSpaced, AlarmIsFoundedAndSpaced
<1> QED BY <1>5, <1>6
================================================================================
