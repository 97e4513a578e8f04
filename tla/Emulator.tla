-------------------------------- MODULE Emulator --------------------------------
(****************************************************************************)
(* The Emulator (emulator.py) as a process of its own: it visits the robots *)
(* in turn, moves each along its list robot_cFuns, and marks the task of a  *)
(* robot finished that stands at the end of its stored route.  It shares    *)
(* Redis with the server and the traffic mapper, and every command of it    *)
(* that reads what they write, or writes what they read, is a step here.    *)
(* robot_position is written by nobody else, so its own reads of it are     *)
(* part of the step that uses the value.  robot_with_box, robot_x and       *)
(* robot_y, which it writes for the viewer only, are left out.              *)
(****************************************************************************)
EXTENDS Integers, Sequences, SequencesExt

CONSTANTS
    robot_number,        \* robots are 1 .. robot_number
    Node,
    physical_node_list,  \* the coordinates of each node
    Nothing,             \* what a local variable holds that is not in use
    LongHopTurns         \* turns a long hop takes (a tenth of it per turn in the code)

Robot == 1 .. robot_number

ASSUME EmulatorAssumption ==
    /\ robot_number \in Nat \ {0}
    /\ physical_node_list \in [Node -> [x : Int, y : Int]]
    /\ LongHopTurns \in Nat \ {0}
    /\ Nothing \notin Node

VARIABLES
    robot_position,                   \* Redis, written here
    robot_task,                       \* Redis, written here and by the server
    robot_vpoint, robot_cFuns,        \* Redis, written by the server and the mapper
    at,               \* where the turn is
    i,                \* the robot whose turn it is
    vps_end,          \* vps[-1], as read
    next_position,    \* cfun[index + 1], as read
    task,             \* the task, as read
    robot_travelper   \* the turns spent on a long hop

emulatorVars == <<at, i, vps_end, next_position, task, robot_travelper>>
emulatorRedis == <<robot_position, robot_task, robot_vpoint, robot_cFuns>>

Task == [to : Node, isFinished : {0, 1}]

EmulatorInit(homes) ==
    /\ robot_position = homes
    /\ robot_task = [r \in Robot |-> [to |-> homes[r], isFinished |-> 1]]
    /\ robot_vpoint = [r \in Robot |-> <<homes[r]>>]
    /\ robot_cFuns = [r \in Robot |-> <<homes[r]>>]
    /\ at = "vpoint"
    /\ i = 1
    /\ vps_end = Nothing
    /\ next_position = Nothing
    /\ task = Nothing
    /\ robot_travelper = [r \in Robot |-> 0]

\* The next robot's turn; every local is assigned anew in it before it is used.
nextRobot ==
    /\ at' = "vpoint"
    /\ i' = (i % robot_number) + 1
    /\ vps_end' = Nothing
    /\ next_position' = Nothing

sameRobot(place) == at' = place /\ UNCHANGED <<i, vps_end>>

ReadVPoint ==
    /\ at = "vpoint"
    /\ vps_end' = Last(robot_vpoint[i])
    /\ at' = "cFuns"
    /\ UNCHANGED <<emulatorRedis, i, next_position, task, robot_travelper>>

\* The index of the first place of the position in the list; -1 (0 here) if it
\* is not there, and then the head of the list is "next".
PlaceIn(cfun, position) ==
    IF \E j \in DOMAIN cfun : cfun[j] = position
    THEN CHOOSE j \in DOMAIN cfun :
            cfun[j] = position /\ \A l \in 1 .. j - 1 : cfun[l] # position
    ELSE 0

\* Mutant: a robot that is not on its list stays where it is.
HopsFrom_OnListOnly(cfun, position) == PlaceIn(cfun, position) \in 1 .. Len(cfun) - 1

HopsFrom(cfun, position) == PlaceIn(cfun, position) < Len(cfun)

atRouteEnd(position) == position = vps_end

ReadCFuns ==
    /\ at = "cFuns"
    /\ IF robot_cFuns[i] = <<>>
       THEN nextRobot
       ELSE IF HopsFrom(robot_cFuns[i], robot_position[i])
       THEN /\ next_position' = robot_cFuns[i][PlaceIn(robot_cFuns[i], robot_position[i]) + 1]
            /\ sameRobot("hop")
       ELSE IF atRouteEnd(robot_position[i])
       THEN sameRobot("readTask2") /\ UNCHANGED next_position
       ELSE nextRobot
    /\ UNCHANGED <<emulatorRedis, task, robot_travelper>>

Far(a, b) ==
    LET apart(u, v) == u - v > 1 \/ v - u > 1
    IN  \/ apart(physical_node_list[a].x, physical_node_list[b].x)
        \/ apart(physical_node_list[a].y, physical_node_list[b].y)

\* A short hop is done at once; a long one is a fraction further each turn.
\* What is left of robot_travelper when a long hop is given up stays for the next.
Arrives == Far(robot_position[i], next_position) => robot_travelper[i] + 1 >= LongHopTurns

TurnsAfterHop == IF Arrives THEN 0 ELSE robot_travelper[i] + 1

Hop ==
    /\ at = "hop"
    /\ robot_position' = IF Arrives THEN [robot_position EXCEPT ![i] = next_position]
                         ELSE robot_position
    /\ robot_travelper' = IF Far(robot_position[i], next_position)
                          THEN [robot_travelper EXCEPT ![i] = TurnsAfterHop]
                          ELSE robot_travelper
    /\ IF atRouteEnd(robot_position'[i])
       THEN sameRobot("readTask1") /\ next_position' = Nothing
       ELSE nextRobot
    /\ UNCHANGED <<robot_task, robot_vpoint, robot_cFuns, task>>

ReadTask(from, to) ==
    /\ at = from
    /\ task' = robot_task[i]
    /\ at' = to
    /\ UNCHANGED <<emulatorRedis, i, vps_end, next_position, robot_travelper>>

\* Mutant: the task is written back as it was read.
finishTask_AsRead == robot_task' = [robot_task EXCEPT ![i] = task]

\* The task that was read is written back whole, marked finished.
finishTask == robot_task' = [robot_task EXCEPT ![i] = [task EXCEPT !.isFinished = 1]]

\* The task is finished once right after the hop, and once more in any turn
\* that ends at the end of the route.
WriteTaskAfterHop ==
    /\ at = "writeTask1"
    /\ finishTask
    /\ task' = Nothing
    /\ sameRobot("readTask2")
    /\ UNCHANGED <<robot_position, robot_vpoint, robot_cFuns, next_position,
                   robot_travelper>>

WriteTaskAtEnd ==
    /\ at = "writeTask2"
    /\ finishTask
    /\ task' = Nothing
    /\ nextRobot
    /\ UNCHANGED <<robot_position, robot_vpoint, robot_cFuns, robot_travelper>>

EmulatorStep ==
    \/ ReadVPoint \/ ReadCFuns \/ Hop
    \/ ReadTask("readTask1", "writeTask1") \/ WriteTaskAfterHop
    \/ ReadTask("readTask2", "writeTask2") \/ WriteTaskAtEnd

EmulatorTypeOK ==
    /\ robot_position \in [Robot -> Node]
    /\ robot_task \in [Robot -> Task]
    /\ robot_vpoint \in [Robot -> Seq(Node) \ {<<>>}]
    /\ robot_cFuns \in [Robot -> Seq(Node)]
    /\ at \in {"vpoint", "cFuns", "hop", "readTask1", "writeTask1", "readTask2", "writeTask2"}
    /\ i \in Robot
    /\ vps_end \in Node \union {Nothing}
    /\ next_position \in Node \union {Nothing}
    /\ task \in Task \union {Nothing}
    /\ robot_travelper \in [Robot -> 0 .. LongHopTurns - 1]
================================================================================
