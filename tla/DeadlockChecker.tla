----------------------------- MODULE DeadlockChecker -----------------------------
(****************************************************************************)
(* The DeadlockChecker (deadlockChecker.py) with the server's side of the   *)
(* flag dead_lock.  The checker samples the positions and raises the flag   *)
(* when two robots have been seen unmoved often enough; the server looks at *)
(* the flag once per pass, replans the fleet, and takes the flag down       *)
(* without looking at it again, so that an alarm raised meanwhile is lost.  *)
(* Robots move when they like; a robot that jams stays where it is until a  *)
(* replanning that began after it jammed is stored.                         *)
(****************************************************************************)
EXTENDS Integers, FiniteSets

CONSTANTS
    robot_number,   \* robots are 1 .. robot_number
    Node,
    Threshold,      \* unmoved samples before a robot counts as blocked (20 in the code)
    MaxJams         \* bound: how often a robot jams

Robot == 1 .. robot_number

ASSUME CheckerAssumption ==
    /\ robot_number \in Nat \ {0}
    /\ Node \subseteq Nat
    /\ Node # {}
    /\ Threshold \in Nat
    /\ MaxJams \in Nat

VARIABLES
    robot_position, dead_lock,     \* Redis
    robot_positions, robot_count,  \* the checker's samples and counters
    at,                            \* the robot it samples next; robot_number + 1: it judges
    line, replanned,               \* the server: where it is, and which jams it has seen
    jammed, jams,                  \* the robots that cannot move, and how many jams there were
    still,                         \* history: equal samples in a row of each robot
    sinceAlarm                     \* history: rounds since the last alarm

checkerVars == <<robot_positions, robot_count, at, still, sinceAlarm>>
fleetVars == <<robot_position, jammed, jams>>
vars == <<fleetVars, dead_lock, checkerVars, line, replanned>>

\* Beyond the threshold the counters are not told apart.
CountCap == Threshold + 1
Capped(n) == IF n > CountCap THEN CountCap ELSE n

Init ==
    /\ robot_position \in [Robot -> Node]
    /\ dead_lock = 0
    /\ robot_positions = [r \in Robot |-> -1]
    /\ robot_count = [r \in Robot |-> 0]
    /\ at = 1
    /\ line = "check" /\ replanned = {}
    /\ jammed = {} /\ jams = 0
    /\ still = [r \in Robot |-> 0]
    /\ sinceAlarm = CountCap

NextCount(r) ==
    IF robot_position[r] = robot_positions[r] THEN Capped(robot_count[r] + 1) ELSE 0

Sample ==
    /\ at \in Robot
    /\ robot_count' = [robot_count EXCEPT ![at] = NextCount(at)]
    /\ still' = [still EXCEPT ![at] =
                    IF robot_position[at] = robot_positions[at] THEN Capped(@ + 1) ELSE 0]
    /\ robot_positions' = [robot_positions EXCEPT ![at] = robot_position[at]]
    /\ at' = at + 1
    /\ UNCHANGED <<fleetVars, dead_lock, line, replanned, sinceAlarm>>

Blocked == {r \in Robot : robot_count[r] > Threshold}

\* Mutant: exactly two.
TooManyBlocked_Exactly == Cardinality(Blocked) = 2

TooManyBlocked == Cardinality(Blocked) >= 2

\* Mutant: the counters go on after an alarm.
CountsAfterAlarm_Kept == robot_count

CountsAfterAlarm == [r \in Robot |-> 0]

Judge ==
    /\ at = robot_number + 1
    /\ at' = 1
    /\ IF TooManyBlocked
       THEN robot_count' = CountsAfterAlarm /\ dead_lock' = 1 /\ sinceAlarm' = 0
       ELSE UNCHANGED <<robot_count, dead_lock>> /\ sinceAlarm' = Capped(sinceAlarm + 1)
    /\ UNCHANGED <<fleetVars, robot_positions, still, line, replanned>>

CheckDeadLock ==
    /\ line = "check"
    /\ dead_lock = 1
    /\ line' = "store"
    /\ replanned' = jammed
    /\ UNCHANGED <<fleetVars, dead_lock, checkerVars>>

StoreRobotPaths ==
    /\ line = "store"
    /\ jammed' = jammed \ replanned
    /\ line' = "clear"
    /\ replanned' = {}
    /\ UNCHANGED <<robot_position, jams, dead_lock, checkerVars>>

SetDeadLock ==
    /\ line = "clear"
    /\ dead_lock' = 0
    /\ line' = "check"
    /\ UNCHANGED <<fleetVars, checkerVars, replanned>>

Move(r) ==
    /\ r \notin jammed
    /\ \E n \in Node : robot_position' = [robot_position EXCEPT ![r] = n]
    /\ UNCHANGED <<jammed, jams, dead_lock, checkerVars, line, replanned>>

Jam(r) ==
    /\ jams < MaxJams
    /\ jammed' = jammed \union {r}
    /\ jams' = jams + 1
    /\ UNCHANGED <<robot_position, dead_lock, checkerVars, line, replanned>>

Checker == Sample \/ Judge
Server == CheckDeadLock \/ StoreRobotPaths \/ SetDeadLock

Next == Checker \/ Server \/ \E r \in Robot : Move(r) \/ Jam(r)

\* Both loops go on for ever.
Fairness == WF_vars(Checker) /\ WF_vars(Server)

Spec == Init /\ [][Next]_vars /\ Fairness

--------------------------------------------------------------------------------
(* The types of the whole state. *)
TypeOK ==
    /\ robot_position \in [Robot -> Node]
    /\ dead_lock \in {0, 1}
    /\ robot_positions \in [Robot -> Node \union {-1}]
    /\ robot_count \in [Robot -> 0 .. CountCap]
    /\ at \in 1 .. robot_number + 1
    /\ line \in {"check", "store", "clear"}
    /\ replanned \subseteq Robot
    /\ jammed \subseteq Robot
    /\ jams \in 0 .. MaxJams

Raised == dead_lock = 0 /\ dead_lock' = 1

(* An alarm means that at least two robots were seen at one place in each of
   the last Threshold + 2 samples, across earlier alarms as well: a robot that
   moves only between samples of the other does not count.  And after an alarm
   there is no other for Threshold rounds, so that the routes of the replanning
   have time to get the robots moving. *)
AlarmsAreFoundedAndSpaced ==
    /\ []TypeOK
    /\ [][Raised => /\ Cardinality({r \in Robot : still[r] > Threshold}) >= 2
                    /\ sinceAlarm >= Threshold]_vars

(* A deadlock is always resolved, even when the alarm for it was raised while
   an earlier replanning was being stored and taken down with it: the robots
   stay, so there is another alarm. *)
JamsAreResolved == Cardinality(jammed) >= 2 ~> Cardinality(jammed) < 2
================================================================================
