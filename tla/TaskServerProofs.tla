---------------------------- MODULE TaskServerProofs ----------------------------
(****************************************************************************)
(* The targets of the robots under way stay apart, and every field keeps    *)
(* its type, for every map, every number of robots and every interleaving   *)
(* of the server with the other processes; and the routes it stores are     *)
(* compatible.                                                              *)
(****************************************************************************)
EXTENDS TaskServer, LMapProofs

\* The draw compares its target with the others one way, the property both ways.
LEMMA NearSymmetric == \A a, b : Near(a, b) => Near(b, a)
  BY DEF Near

(* The inductive invariant.  The Emulator may put a replaced task back into Redis
   at any time, but only as finished: an unfinished task in Redis is one that the
   server has stored, and its own copy is the same, except between the
   assignment to the copy and its storing.  The draw keeps clear of the copies
   of all other robots, so of every unfinished task in Redis. *)
TaskTypes ==
    /\ robot_task \in [Robot -> Task]
    /\ RobotTasks \in [Robot -> Task]
    /\ target \in Node
    /\ task \in Task
    /\ turn \in Robot

CopyInStep ==
    \A r \in Robot :
        (robot_task[r].isFinished = 0 /\ (line = "storeTask" => r # robot))
            => RobotTasks[r] = robot_task[r]

DrawnTarget ==
    /\ line \in {"storePath", "storeTask"} => robot \in Robot /\ target \in AllowedTarget(robot)
    /\ line = "storeTask" => RobotTasks[robot] = [to |-> target, isFinished |-> 0]

Inv ==
    /\ TaskTypes
    /\ CopyInStep
    /\ DrawnTarget
    /\ TargetsApart

\* The initial state satisfies the invariant: no robot is under way.
LEMMA InitInv == Init => Inv
<1> SUFFICES ASSUME Init PROVE Inv
  OBVIOUS
<1>1. /\ robot_task = InitialTasks /\ RobotTasks = InitialTasks
      /\ target = 0 /\ line = "positions" /\ task = NoTask /\ turn = 1
  BY DEF Init
<1>2. InitialTasks \in [Robot -> Task] /\ NoTask \in Task
  BY FleetAssumption DEF InitialTasks, Task, NoTask
<1>3. TaskTypes
  BY <1>1, <1>2, FleetAssumption, RobotAssumption DEF TaskTypes, Robot
<1>4. CopyInStep /\ DrawnTarget
  BY <1>1 DEF CopyInStep, DrawnTarget
<1>5. TargetsApart
  BY <1>1 DEF TargetsApart, InitialTasks
<1> QED
  BY <1>3, <1>4, <1>5 DEF Inv

\* A step that leaves the server where it is, and stores no unfinished task.
LEMMA TargetsKept ==
    ASSUME Inv, TaskTypes',
           \A r \in Robot : robot_task'[r].isFinished = 0 => robot_task'[r] = robot_task[r],
           UNCHANGED serverVars
    PROVE  Inv'
<1>1. /\ line' = line /\ RobotTasks' = RobotTasks /\ robot' = robot /\ target' = target
  BY DEF serverVars
<1>2. CopyInStep'
  BY <1>1 DEF Inv, CopyInStep
<1>3. DrawnTarget'
  BY <1>1 DEF Inv, DrawnTarget, AllowedTarget, Near
<1>4. TargetsApart'
  BY DEF Inv, TargetsApart, Near
<1> QED
  BY <1>2, <1>3, <1>4 DEF Inv

\* A step of the server between two assignments: nothing is drawn or stored.
LEMMA LoopStep ==
    ASSUME Inv,
           UNCHANGED <<robot_task, RobotTasks, target, emulatorVars>>,
           line # "storeTask",
           line' \notin {"storePath", "storeTask"}
    PROVE  Inv'
<1>1. TaskTypes' /\ CopyInStep' /\ DrawnTarget'
  BY DEF Inv, TaskTypes, CopyInStep, DrawnTarget, emulatorVars
<1>2. TargetsApart'
  BY DEF Inv, TargetsApart, Near
<1> QED
  BY <1>1, <1>2 DEF Inv

\* The server copies the task of one robot from Redis.
LEMMA InitTasksInv == ASSUME Inv, robot \in Robot, InitTasks PROVE Inv'
<1>1. /\ RobotTasks' = [RobotTasks EXCEPT ![robot] = robot_task[robot]]
      /\ robot_task' = robot_task /\ target' = target /\ task' = task /\ turn' = turn
      /\ line = "tasks" /\ line' \in {"tasks", "checkDeadLock"}
  BY DEF InitTasks, Advance, emulatorVars
<1>2. TaskTypes'
  BY <1>1 DEF Inv, TaskTypes
<1>3. \A r \in Robot : RobotTasks'[r] = IF r = robot THEN robot_task[r] ELSE RobotTasks[r]
  BY <1>1 DEF Inv, TaskTypes
<1>4. CopyInStep' /\ DrawnTarget'
  BY <1>1, <1>3 DEF Inv, CopyInStep, DrawnTarget
<1>5. TargetsApart'
  BY <1>1 DEF Inv, TargetsApart, Near
<1> QED
  BY <1>2, <1>4, <1>5 DEF Inv

\* A target is drawn.
LEMMA AssignInv == Inv /\ Assign => Inv'
<1> SUFFICES ASSUME Inv, Assign PROVE Inv'
  OBVIOUS
<1>1. /\ RobotTasks' = RobotTasks /\ robot_task' = robot_task /\ robot' = robot
      /\ task' = task /\ turn' = turn
      /\ line' = "storePath" /\ line = "assign" /\ robot \in Robot
      /\ target' \in AllowedTarget(robot)
  BY DEF Assign, emulatorVars
<1>2. target' \in Node
  BY <1>1 DEF AllowedTarget
<1>3. TaskTypes' /\ CopyInStep'
  BY <1>1, <1>2 DEF Inv, TaskTypes, CopyInStep
<1>4. DrawnTarget'
  BY <1>1 DEF DrawnTarget, AllowedTarget, Near
<1>5. TargetsApart'
  BY <1>1 DEF Inv, TargetsApart, Near
<1> QED
  BY <1>3, <1>4, <1>5 DEF Inv

\* The task with the drawn target enters the server's copy.
LEMMA StoreNewPathInv == Inv /\ StoreNewPath => Inv'
<1> SUFFICES ASSUME Inv, StoreNewPath PROVE Inv'
  OBVIOUS
<1>1. /\ RobotTasks' = [RobotTasks EXCEPT ![robot] = [to |-> target, isFinished |-> 0]]
      /\ robot_task' = robot_task /\ robot' = robot /\ target' = target
      /\ task' = task /\ turn' = turn
      /\ line = "storePath" /\ line' = "storeTask"
  BY DEF StoreNewPath, emulatorVars
<1>2. robot \in Robot /\ target \in AllowedTarget(robot) /\ target \in Node
  BY <1>1 DEF Inv, DrawnTarget, TaskTypes
<1>3. RobotTasks \in [Robot -> Task]
  BY DEF Inv, TaskTypes
<1>4. /\ RobotTasks' \in [Robot -> Task]
      /\ RobotTasks'[robot] = [to |-> target, isFinished |-> 0]
      /\ \A r \in Robot : r # robot => RobotTasks'[r] = RobotTasks[r]
  BY <1>1, <1>2, <1>3 DEF Task
<1>5. TaskTypes' /\ CopyInStep'
  BY <1>1, <1>4 DEF Inv, TaskTypes, CopyInStep
<1>6. (target \in AllowedTarget(robot))'
  BY <1>1, <1>2, <1>4 DEF AllowedTarget, Near
<1>7. DrawnTarget'
  BY <1>1, <1>2, <1>4, <1>6 DEF DrawnTarget
<1>8. TargetsApart'
  BY <1>1 DEF Inv, TargetsApart, Near
<1> QED
  BY <1>5, <1>7, <1>8 DEF Inv

\* The task with the drawn target enters Redis: it is clear of the copies of the
\* other robots, so of their unfinished tasks.
LEMMA StoreRobotTaskInv == Inv /\ StoreRobotTask => Inv'
<1> SUFFICES ASSUME Inv, StoreRobotTask PROVE Inv'
  OBVIOUS
<1>1. /\ robot_task' = [robot_task EXCEPT ![robot] = [to |-> target, isFinished |-> 0]]
      /\ RobotTasks' = RobotTasks /\ target' = 0 /\ task' = task /\ turn' = turn
      /\ line = "storeTask" /\ line' = "assign"
  BY DEF StoreRobotTask, emulatorVars
<1>2. /\ robot \in Robot /\ target \in AllowedTarget(robot) /\ target \in Node
      /\ RobotTasks[robot] = [to |-> target, isFinished |-> 0]
  BY <1>1 DEF Inv, DrawnTarget, TaskTypes
<1>3. /\ robot_task' \in [Robot -> Task]
      /\ robot_task'[robot] = RobotTasks[robot]
      /\ \A r \in Robot : r # robot => robot_task'[r] = robot_task[r]
  BY <1>1, <1>2 DEF Inv, TaskTypes, Task
<1>4. \A r \in Robot : robot_task'[r].isFinished = 0 => RobotTasks[r] = robot_task'[r]
  BY <1>1, <1>3 DEF Inv, CopyInStep
<1>5. TaskTypes' /\ CopyInStep' /\ DrawnTarget'
  BY <1>1, <1>3, <1>4, FleetAssumption DEF Inv, TaskTypes, CopyInStep, DrawnTarget
<1>6. \A j \in Robot \ {robot} : ~ Near(target, RobotTasks[j].to)
  BY <1>2 DEF AllowedTarget
<1>7. ASSUME NEW r \in Robot, NEW s \in Robot, r # s,
             robot_task'[r].isFinished = 0, robot_task'[s].isFinished = 0
      PROVE  ~ Near(robot_task'[r].to, robot_task'[s].to)
  <2>1. CASE r = robot
    BY <1>1, <1>2, <1>3, <1>4, <1>6, <1>7, <2>1
  <2>2. CASE s = robot
    BY <1>1, <1>2, <1>3, <1>4, <1>6, <1>7, <2>2, NearSymmetric
  <2>3. CASE r # robot /\ s # robot
    BY <1>3, <1>7, <2>3 DEF Inv, TargetsApart
  <2> QED
    BY <2>1, <2>2, <2>3
<1>8. TargetsApart'
  BY <1>7 DEF TargetsApart, Near
<1> QED
  BY <1>5, <1>8 DEF Inv

\* The Emulator takes the robots in turn.
LEMMA TurnType == turn \in Robot => (turn % robot_number) + 1 \in Robot
  BY RobotAssumption DEF Robot

\* The Emulator writes tasks back, but none that is unfinished.
LEMMA EmulatorInv == Inv /\ EmulatorTurn => Inv'
<1> SUFFICES ASSUME Inv, EmulatorTurn PROVE Inv'
  OBVIOUS
<1>1. /\ robot_task \in [Robot -> Task] /\ task \in Task /\ turn \in Robot
      /\ RobotTasks \in [Robot -> Task] /\ target \in Node
  BY DEF Inv, TaskTypes
<1>2. NoTask \in Task /\ (turn % robot_number) + 1 \in Robot
  BY <1>1, TurnType, FleetAssumption DEF NoTask, Task
<1>3. UNCHANGED serverVars
  BY DEF EmulatorTurn
<1>4. task' \in Task /\ turn' \in Robot
  <2>1. CASE ReadVPoint \/ WriteTask1
    BY <1>1, <1>2, <2>1 DEF ReadVPoint, WriteTask1
  <2>2. CASE ReadCFuns \/ WriteTask2
    BY <1>1, <1>2, <2>2 DEF ReadCFuns, WriteTask2, nextRobot
  <2>3. CASE TakeHop
    BY <1>1, <1>2, <2>3 DEF TakeHop, nextRobot
  <2>4. CASE ReadTask("readTask1", "writeTask1") \/ ReadTask("readTask2", "writeTask2")
    BY <1>1, <2>4 DEF ReadTask
  <2> QED
    BY <2>1, <2>2, <2>3, <2>4 DEF EmulatorTurn, ReadTask
<1>5. CASE robot_task' = robot_task
  BY <1>1, <1>3, <1>4, <1>5, TargetsKept DEF TaskTypes, serverVars
<1>6. CASE finishTask
  <2>1. /\ [task EXCEPT !.isFinished = 1] \in Task
        /\ [task EXCEPT !.isFinished = 1].isFinished = 1
    BY <1>1 DEF Task
  <2>2. /\ robot_task' \in [Robot -> Task]
        /\ \A r \in Robot : robot_task'[r].isFinished = 0 => robot_task'[r] = robot_task[r]
    BY <1>1, <1>6, <2>1 DEF finishTask
  <2> QED
    BY <1>1, <1>3, <1>4, <2>2, TargetsKept DEF TaskTypes, serverVars
<1>7. CASE ReadVPoint \/ ReadCFuns \/ TakeHop
  BY <1>5, <1>7 DEF ReadVPoint, ReadCFuns, TakeHop
<1>8. CASE ReadTask("readTask1", "writeTask1") \/ ReadTask("readTask2", "writeTask2")
  BY <1>5, <1>8 DEF ReadTask
<1>9. CASE WriteTask1 \/ WriteTask2
  BY <1>6, <1>9 DEF WriteTask1, WriteTask2
<1> QED
  BY <1>7, <1>8, <1>9 DEF EmulatorTurn, ReadTask

\* Every step preserves the invariant.  The loops over the robots are in range.
LEMMA InvIsInductive ==
    ASSUME Inv, line = "tasks" => robot \in Robot, [Next]_vars
    PROVE  Inv'
<1>1. ASSUME UNCHANGED <<robot_task, serverVars, emulatorVars>> PROVE Inv'
  BY <1>1, TargetsKept DEF Inv, TaskTypes, serverVars, emulatorVars
<1>2. CASE GetRobotPositions
  BY <1>2, LoopStep DEF GetRobotPositions, Advance
<1>3. CASE InitTasks
  BY <1>3, InitTasksInv DEF InitTasks
<1>4. CASE checkDeadLock
  BY <1>4, LoopStep DEF checkDeadLock
<1>5. CASE Replan
  BY <1>5, LoopStep DEF Replan
<1>6. CASE StoreAll
  BY <1>6, LoopStep DEF StoreAll
<1>7. CASE ClearDeadLock
  BY <1>7, LoopStep DEF ClearDeadLock
<1>8. CASE Assign
  BY <1>8, AssignInv
<1>9. CASE StoreNewPath
  BY <1>9, StoreNewPathInv
<1>10. CASE StoreRobotTask
  BY <1>10, StoreRobotTaskInv
<1>11. CASE SkipBusyRobot
  BY <1>11, LoopStep DEF SkipBusyRobot
<1>12. CASE NextPass
  BY <1>12, LoopStep DEF NextPass
<1>13. CASE PlannerTurn
  BY <1>13, <1>1 DEF PlannerTurn
<1>14. CASE EmulatorTurn
  BY <1>14, EmulatorInv
<1>15. CASE RaiseDeadLock
  BY <1>15, <1>1 DEF RaiseDeadLock
<1>16. CASE Tick
  BY <1>16, <1>1 DEF Tick
<1>17. CASE UNCHANGED vars
  BY <1>17, <1>1 DEF vars
<1> QED
  BY <1>2, <1>3, <1>4, <1>5, <1>6, <1>7, <1>8, <1>9, <1>10, <1>11, <1>12, <1>13, <1>14,
     <1>15, <1>16, <1>17 DEF Next, ServerStep

--------------------------------------------------------------------------------
(* The types of the whole state, around LMapInv. *)

(* Where the server's loop is says whether a call of serve is under way, and for
   how many robots. *)
ServerOK ==
    /\ now \in Instants
    /\ dead_lock \in {0, 1}
    /\ line \in {"positions", "tasks", "checkDeadLock", "replan", "storeAll", "assign",
                 "storePath", "storeTask"}
    /\ ts_robot_positions \in [Robot -> Node]
    /\ robot \in 1 .. robot_number + 1
    /\ serves \in 0 .. MaxServes
    /\ deadLocks \in 0 .. MaxDeadLocks
    /\ at \in {"vpoint", "cFuns", "hop", "readTask1", "writeTask1", "readTask2", "writeTask2"}
    /\ turn \in Robot
    /\ vps_end \in Node
    /\ next_position \in Node
    /\ line \in {"positions", "tasks", "storePath", "storeTask"} => robot \in Robot
    /\ line \in {"positions", "tasks", "checkDeadLock", "replan", "assign"} => pc = "ready"
    /\ line \in {"checkDeadLock", "replan"} => robot = 1
    /\ line = "storeAll" => pc # "ready" /\ Len(call.robot_numbers) = robot_number
    /\ line = "storeAll" => robot = 1 \/ pc = "done"
    /\ line = "storePath" => pc # "ready" /\ Len(call.robot_numbers) = 1
    /\ line = "storeTask" => pc = "done"

ServerInv == LMapInv /\ ServerOK

\* The server starts with the planner idle.
LEMMA ServerInitInv == Init => ServerInv
<1> SUFFICES ASSUME Init PROVE ServerInv
  OBVIOUS
<1>1. Home \in [Robot -> Node] /\ now \in Instants /\ now \in Nat
  BY FleetAssumption DEF Init
<1>2. LMapInv
  BY <1>1, LMapInitInv DEF Init
<1>3. pc = "ready"
  BY DEF Init, LMapInit
<1>4. ServerOK
  BY <1>1, <1>3, FleetAssumption, RobotAssumption DEF Init, ServerOK, Robot
<1> QED
  BY <1>2, <1>4 DEF ServerInv

\* A step that changes only what Redis holds of routes and positions.
LEMMA RedisStep ==
    ASSUME LMapInv,
           robot_route' \in [Robot -> Route], robot_position' \in [Robot -> Node],
           UNCHANGED <<pc, callVars, lockVars, searchVars, pathVars>>
    PROVE  LMapInv'
<1>1. RoutesOK' /\ PositionsOK' /\ CallOK' /\ LocksOK'
  BY DEF LMapInv, RoutesOK, PositionsOK, CallOK, LocksOK, Searching, callVars, lockVars
<1>2. SearchOK'
  BY DEF LMapInv, SearchOK, SearchTreeSound, Searching, searchVars
<1>3. PathOK'
  BY DEF LMapInv, PathOK, Windows, searchVars, pathVars
<1> QED
  BY <1>1, <1>2, <1>3 DEF LMapInv

\* The whole fleet is replanned.
LEMMA ReplanInv == ASSUME ServerInv, TaskTypes, Replan PROVE ServerInv'
<1> DEFINE fleet == [r \in Robot |-> r]
           to_ids == [r \in Robot |-> RobotTasks[r].to]
<1>1. /\ line = "replan" /\ serves < MaxServes /\ serves' = serves + 1
      /\ serve(fleet, ts_robot_positions, to_ids, now)
      /\ line' = "storeAll" /\ robot_position' = robot_position
      /\ UNCHANGED <<now, dead_lock, ts_robot_positions, robot, emulatorVars, deadLocks>>
  BY DEF Replan
<1>2. /\ fleet \in Seq(Robot) /\ Len(fleet) = robot_number
      /\ ts_robot_positions \in Seq(Node) /\ Len(ts_robot_positions) = robot_number
      /\ to_ids \in Seq(Node) /\ Len(to_ids) = robot_number
  <2>1. ts_robot_positions \in [Robot -> Node] /\ to_ids \in [Robot -> Node]
    BY DEF ServerInv, ServerOK, TaskTypes, Task
  <2> HIDE DEF to_ids
  <2> QED
    BY <2>1, RobotAssumption DEF Robot
<1>3. now \in Nat /\ robot_position \in [Robot -> Node] /\ LMapInv
  BY FleetAssumption DEF ServerInv, ServerOK, LMapInv, RoutesOK
<1> HIDE DEF fleet, to_ids
<1>4. LMapInv'
  BY <1>1, <1>2, <1>3, RobotAssumption, serveInv
<1>5. pc' # "ready" /\ call'.robot_numbers = fleet
  BY <1>1 DEF serve
<1>6. ServerOK'
  BY <1>1, <1>2, <1>5, FleetAssumption DEF ServerInv, ServerOK, emulatorVars
<1> QED
  BY <1>4, <1>6 DEF ServerInv

\* A route is planned for one robot.
LEMMA AssignServerInv == ASSUME ServerInv, Assign PROVE ServerInv'
<1>1. PICK to \in AllowedTarget(robot) :
         serve(<<robot>>, <<ts_robot_positions[robot]>>, <<to>>, now)
  BY DEF Assign
<1>2. /\ robot \in Robot /\ serves < MaxServes /\ serves' = serves + 1
      /\ line' = "storePath" /\ robot_position' = robot_position
      /\ UNCHANGED <<now, dead_lock, ts_robot_positions, robot, emulatorVars, deadLocks>>
  BY DEF Assign
<1> DEFINE robots == <<robot>>
           from_ids == <<ts_robot_positions[robot]>>
           to_ids == <<to>>
<1>3. to \in Node /\ ts_robot_positions[robot] \in Node
  BY <1>2 DEF AllowedTarget, ServerInv, ServerOK
<1>4. /\ robots \in Seq(Robot) /\ from_ids \in Seq(Node) /\ to_ids \in Seq(Node)
      /\ Len(robots) = 1 /\ Len(from_ids) = 1 /\ Len(to_ids) = 1
  BY <1>2, <1>3
<1>5. now \in Nat /\ robot_position \in [Robot -> Node] /\ LMapInv
  BY FleetAssumption DEF ServerInv, ServerOK, LMapInv, RoutesOK
<1>6. serve(robots, from_ids, to_ids, now)
  BY <1>1
<1> HIDE DEF robots, from_ids, to_ids
<1>7. LMapInv'
  <2>1. Len(robots) >= 1 /\ Len(from_ids) = Len(robots) /\ Len(to_ids) = Len(robots)
    BY <1>4
  <2>2. robot_position' \in [Robot -> Node]
    BY <1>2, <1>5
  <2> QED
    BY <1>4, <1>5, <1>6, <2>1, <2>2, serveInv
<1>8. pc' # "ready" /\ call'.robot_numbers = robots
  BY <1>6 DEF serve
<1>9. ServerOK'
  BY <1>2, <1>4, <1>8, FleetAssumption DEF ServerInv, ServerOK, emulatorVars
<1> QED
  BY <1>7, <1>9 DEF ServerInv

\* One of the routes that the call returned is stored.
LEMMA StoredRouteType ==
    ASSUME LMapInv, pc = "done", NEW r \in Robot, NEW j \in 1 .. Len(call.robot_numbers),
           StoreRobotPath(r, result[j])
    PROVE  robot_route' \in [Robot -> Route]
<1>1. /\ robot_route \in [Robot -> Route] /\ result \in Seq(Route)
      /\ Len(result) = Len(call.robot_numbers)
  BY DEF LMapInv, RoutesOK, CallOK
<1>2. result[j] \in Route
  BY <1>1
<1> QED
  BY <1>1, <1>2 DEF StoreRobotPath

\* One of the routes of the fleet is stored.
LEMMA StoreAllInv == ASSUME ServerInv, StoreAll PROVE ServerInv'
<1>1. /\ line = "storeAll" /\ pc = "done" /\ robot \in Robot
      /\ StoreRobotPath(robot, result[robot]) /\ robot' = robot + 1
      /\ UNCHANGED <<robot_position, pc, callVars, lockVars, searchVars, pathVars, now,
                     dead_lock, line, ts_robot_positions, emulatorVars, boundVars>>
  BY DEF StoreAll
<1>2. robot_route' \in [Robot -> Route]
  BY <1>1, StoredRouteType DEF ServerInv, ServerOK, Robot
<1>3. robot_position' \in [Robot -> Node]
  BY <1>1 DEF ServerInv, LMapInv, RoutesOK
<1>4. LMapInv'
  BY <1>1, <1>2, <1>3, RedisStep DEF ServerInv
<1>5. robot' \in 1 .. robot_number + 1
  BY <1>1, RobotAssumption DEF Robot
<1>6. ServerOK'
  BY <1>1, <1>5 DEF ServerInv, ServerOK, callVars, emulatorVars, boundVars
<1> QED
  BY <1>4, <1>6 DEF ServerInv

\* The route of one robot is stored.
LEMMA StoreNewPathServerInv == ASSUME ServerInv, StoreNewPath PROVE ServerInv'
<1>1. /\ line = "storePath" /\ pc = "done" /\ line' = "storeTask"
      /\ StoreRobotPath(robot, result[1])
      /\ UNCHANGED <<robot_position, pc, callVars, lockVars, searchVars, pathVars, now,
                     dead_lock, ts_robot_positions, robot, emulatorVars, boundVars>>
  BY DEF StoreNewPath
<1>2. robot_route' \in [Robot -> Route]
  <2>1. robot \in Robot /\ Len(call.robot_numbers) = 1
    BY <1>1 DEF ServerInv, ServerOK
  <2>2. 1 \in 1 .. Len(call.robot_numbers)
    BY <2>1
  <2> QED
    BY <1>1, <2>1, <2>2, StoredRouteType DEF ServerInv
<1>3. robot_position' \in [Robot -> Node]
  BY <1>1 DEF ServerInv, LMapInv, RoutesOK
<1>4. LMapInv'
  BY <1>1, <1>2, <1>3, RedisStep DEF ServerInv
<1>5. ServerOK'
  BY <1>1 DEF ServerInv, ServerOK, callVars, emulatorVars, boundVars
<1> QED
  BY <1>4, <1>5 DEF ServerInv

\* The call is over.
LEMMA ReturnedServerInv ==
    ASSUME ServerInv, ClearDeadLock \/ StoreRobotTask
    PROVE  ServerInv'
<1>1. /\ returned /\ UNCHANGED redisVars
      /\ UNCHANGED <<now, ts_robot_positions, emulatorVars, boundVars>>
      /\ line' = "assign" /\ dead_lock' \in {0, dead_lock}
  BY DEF ClearDeadLock, StoreRobotTask
<1>2. pc = "done" /\ robot' \in 1 .. robot_number + 1
  BY RobotAssumption DEF ClearDeadLock, StoreRobotTask, ServerInv, ServerOK, Robot
<1>3. robot_route' \in [Robot -> Route] /\ robot_position' \in [Robot -> Node]
  BY <1>1 DEF redisVars, ServerInv, LMapInv, RoutesOK
<1>4. LMapInv'
  BY <1>1, <1>2, <1>3, returnedInv DEF ServerInv
<1>5. ServerOK'
  BY <1>1, <1>2 DEF ServerInv, ServerOK, returned, emulatorVars, boundVars
<1> QED
  BY <1>4, <1>5 DEF ServerInv

\* What the Emulator reads from a stored route.
LEMMA EmulatorReads ==
    ASSUME LMapInv, NEW r \in Robot
    PROVE  Last(robot_route[r].vps) \in Node /\ cFuns(r) \subseteq Node
<1>1. robot_route[r] \in Route
  BY DEF LMapInv, RoutesOK
<1>2. /\ Len(robot_route[r].vps) \in 1 .. Len(robot_route[r].vps)
      /\ DOMAIN robot_route[r].vps = 1 .. Len(robot_route[r].vps)
      /\ 1 \in DOMAIN robot_route[r].vps
      /\ \A i \in DOMAIN robot_route[r].vps : robot_route[r].vps[i] \in Node
  BY <1>1, RouteParts
<1> QED
  BY <1>2 DEF Last, cFuns

\* The Emulator moves a robot along its stored route.
LEMMA EmulatorServerInv == ASSUME ServerInv, EmulatorTurn PROVE ServerInv'
<1>1. UNCHANGED <<robot_route, pc, callVars, lockVars, searchVars, pathVars, now, dead_lock,
                  serverVars, boundVars>>
  BY DEF EmulatorTurn
<1>2. /\ robot_route \in [Robot -> Route] /\ robot_position \in [Robot -> Node]
      /\ turn \in Robot /\ vps_end \in Node /\ next_position \in Node /\ 0 \in Node
      /\ (turn % robot_number) + 1 \in Robot
      /\ Last(robot_route[turn].vps) \in Node /\ cFuns(turn) \subseteq Node
  BY EmulatorReads, TurnType, FleetAssumption DEF ServerInv, ServerOK, LMapInv, RoutesOK
<1>3. robot_position' \in [Robot -> Node]
  <2>1. CASE TakeHop
    BY <1>2, <2>1 DEF TakeHop
  <2>2. CASE ReadVPoint \/ ReadCFuns \/ WriteTask1 \/ WriteTask2
    BY <1>2, <2>2 DEF ReadVPoint, ReadCFuns, WriteTask1, WriteTask2
  <2>3. CASE ReadTask("readTask1", "writeTask1") \/ ReadTask("readTask2", "writeTask2")
    BY <1>2, <2>3 DEF ReadTask
  <2> QED
    BY <2>1, <2>2, <2>3 DEF EmulatorTurn, ReadTask
<1>4. LMapInv'
  <2>1. robot_route' \in [Robot -> Route]
    BY <1>1, <1>2
  <2> QED
    BY <1>1, <1>3, <2>1, RedisStep DEF ServerInv
<1>5. /\ at' \in {"vpoint", "cFuns", "hop", "readTask1", "writeTask1", "readTask2", "writeTask2"}
      /\ turn' \in Robot /\ vps_end' \in Node /\ next_position' \in Node
  <2>1. CASE ReadVPoint
    BY <1>2, <2>1 DEF ReadVPoint
  <2>2. CASE ReadCFuns
    BY <1>2, <2>2 DEF ReadCFuns, nextRobot
  <2>3. CASE TakeHop
    <3>1. \/ nextRobot
          \/ at' = "readTask1" /\ turn' = turn /\ vps_end' = vps_end /\ next_position' = 0
      BY <2>3 DEF TakeHop
    <3> QED
      BY <1>2, <3>1 DEF nextRobot
  <2>4. CASE ReadTask("readTask1", "writeTask1") \/ ReadTask("readTask2", "writeTask2")
    BY <1>2, <2>4 DEF ReadTask
  <2>5. CASE WriteTask1 \/ WriteTask2
    BY <1>2, <2>5 DEF WriteTask1, WriteTask2, nextRobot
  <2> QED
    BY <2>1, <2>2, <2>3, <2>4, <2>5 DEF EmulatorTurn, ReadTask
<1>6. ServerOK'
  BY <1>1, <1>5 DEF ServerInv, ServerOK, callVars, serverVars, boundVars
<1> QED
  BY <1>4, <1>6 DEF ServerInv

\* A step that leaves the planner alone.
LEMMA LoopServerInv ==
    ASSUME ServerInv,
           \/ GetRobotPositions \/ InitTasks \/ checkDeadLock \/ SkipBusyRobot \/ NextPass
           \/ RaiseDeadLock \/ Tick \/ UNCHANGED vars
    PROVE  ServerInv'
<1>1. UNCHANGED lmapVars
  BY DEF GetRobotPositions, InitTasks, checkDeadLock, SkipBusyRobot, NextPass, RaiseDeadLock,
         Tick, vars
<1>2. LMapInv'
  BY <1>1, LMapKept DEF ServerInv
<1>3. pc' = pc /\ call' = call
  BY <1>1 DEF lmapVars, callVars
<1>4. robot_position \in [Robot -> Node]
  BY DEF ServerInv, LMapInv, RoutesOK
<1>5. ServerOK'
  <2>1. CASE GetRobotPositions \/ InitTasks
    BY <1>3, <1>4, <2>1, RobotAssumption
       DEF GetRobotPositions, InitTasks, Advance, ServerInv, ServerOK, Robot, emulatorVars,
           boundVars
  <2>2. CASE checkDeadLock
    BY <1>3, <2>2 DEF checkDeadLock, ServerInv, ServerOK, emulatorVars, boundVars
  <2>3. CASE SkipBusyRobot \/ NextPass
    BY <1>3, <2>3, RobotAssumption DEF SkipBusyRobot, NextPass, ServerInv, ServerOK, Robot,
                                       emulatorVars, boundVars
  <2>4. CASE RaiseDeadLock \/ Tick
    BY <1>3, <2>4, FleetAssumption DEF RaiseDeadLock, Tick, ServerInv, ServerOK, serverVars,
                                       emulatorVars, boundVars
  <2>5. CASE UNCHANGED vars
    BY <1>3, <2>5 DEF vars, ServerInv, ServerOK, serverVars, emulatorVars, boundVars
  <2> QED
    BY <2>1, <2>2, <2>3, <2>4, <2>5
<1> QED
  BY <1>2, <1>5 DEF ServerInv

\* Every step preserves the types.
LEMMA ServerStepInv == ServerInv /\ Inv /\ [Next]_vars => ServerInv'
<1> SUFFICES ASSUME ServerInv, Inv, [Next]_vars PROVE ServerInv'
  OBVIOUS
<1>1. CASE \/ GetRobotPositions \/ InitTasks \/ checkDeadLock \/ SkipBusyRobot \/ NextPass
           \/ RaiseDeadLock \/ Tick \/ UNCHANGED vars
  BY <1>1, LoopServerInv
<1>2. CASE Replan
  BY <1>2, ReplanInv DEF Inv
<1>3. CASE Assign
  BY <1>3, AssignServerInv
<1>4. CASE StoreAll
  BY <1>4, StoreAllInv
<1>5. CASE StoreNewPath
  BY <1>5, StoreNewPathServerInv
<1>6. CASE ClearDeadLock \/ StoreRobotTask
  BY <1>6, ReturnedServerInv
<1>7. CASE EmulatorTurn
  BY <1>7, EmulatorServerInv
<1>8. CASE PlannerTurn
  <2>1. PlanningCall /\ pc' # "ready" /\ call' = call
    BY <1>8, PlannerStepRuns DEF PlannerTurn
  <2>2. LMapInv'
    BY <1>8, PlannerStepInv DEF PlannerTurn, ServerInv
  <2>3. ServerOK'
    BY <1>8, <2>1 DEF PlannerTurn, ServerInv, ServerOK, PlanningCall, serverVars, emulatorVars,
                      boundVars
  <2> QED
    BY <2>2, <2>3 DEF ServerInv
<1> QED
  BY <1>1, <1>2, <1>3, <1>4, <1>5, <1>6, <1>7, <1>8 DEF Next, ServerStep

\* Both invariants are invariants of the server with all the other processes.
THEOREM ServerInvariant == Spec => [](Inv /\ ServerInv)
<1>1. Init => Inv /\ ServerInv
  BY InitInv, ServerInitInv
<1>2. Inv /\ ServerInv /\ [Next]_vars => (Inv /\ ServerInv)'
  BY InvIsInductive, ServerStepInv DEF ServerInv, ServerOK
<1> QED
  BY <1>1, <1>2, PTL DEF Spec

(* Every field of the whole system keeps its type, however the Emulator, the
   DeadlockChecker and the clock interleave with the server: a route is stored
   only from a call that is over and has one for that robot. *)
THEOREM ServerTypes == Spec => []TypeOK
<1>1. Inv /\ ServerInv => TypeOK
  BY LMapInvTypes DEF Inv, TaskTypes, ServerInv, ServerOK, TypeOK
<1> QED
  BY <1>1, ServerInvariant, PTL

(* No two robots under way ever have targets within the gap of each other, though
   the Emulator reads a task and writes it back in two commands and the server
   may have stored a new task in between: what comes back is finished, and the
   server draws clear of every unfinished task in Redis. *)
THEOREM TargetsStayApart == Spec => []TargetsApart
<1>1. Inv => TargetsApart
  BY DEF Inv
<1> QED
  BY <1>1, ServerInvariant, PTL

--------------------------------------------------------------------------------
(* The stored routes. *)

\* Which robots the call under way is for, and which of its routes are stored.
CallRobots ==
    /\ line = "storeAll" => call.robot_numbers = [r \in Robot |-> r]
    /\ line = "storePath" => call.robot_numbers = <<robot>>

StoredSoFar ==
    line = "storeAll" => \A r \in Robot : r < robot => robot_route[r] = result[r]

(* The inductive invariant of the routes, on top of Inv and ServerInv: the
   planner's, and how far the server is with storing. *)
ServerRoutes ==
    /\ RouteInv
    /\ ResultFits
    /\ CallRobots
    /\ StoredSoFar
    /\ StoredRoutesCompatible

\* The server starts with robots that stand.
LEMMA InitServerRoutes ==
    ASSUME Init
    PROVE  ServerRoutes
<1>1. /\ Home \in [Robot -> Node] /\ now \in Nat /\ now < INF /\ LMapInit(Home, now)
      /\ line = "positions"
  BY FleetAssumption DEF Init
<1>2. LMapInv
  BY ServerInitInv DEF ServerInv
<1>3. /\ RouteInv /\ ResultFits
      /\ \A r, s \in Robot : Compatible(robot_route[r], robot_route[s])
  BY <1>1, <1>2, InitRoutes
<1> QED
  BY <1>1, <1>3 DEF ServerRoutes, CallRobots, StoredSoFar, StoredRoutesCompatible

\* The whole fleet is planned for.
LEMMA ReplanRoutes ==
    ASSUME ServerInv, ServerInv', ServerRoutes, Replan
    PROVE  ServerRoutes'
<1>1. PICK fleet, to_ids, t :
         /\ fleet = [r \in Robot |-> r] /\ to_ids = [r \in Robot |-> RobotTasks[r].to]
         /\ t = now
  OBVIOUS
<1>2. /\ serve(fleet, ts_robot_positions, to_ids, t)
      /\ line = "replan" /\ line' = "storeAll" /\ robot' = robot
  BY <1>1 DEF Replan
<1>3. fleet \in Seq(Robot) /\ t \in Nat /\ t < INF /\ robot' = 1
  BY <1>1, <1>2, FleetAssumption, RobotAssumption DEF ServerInv, ServerOK, Robot
<1>4. Cardinality(Robot \ Range(fleet)) + Len(fleet) <= robot_number
  BY <1>1, AllOfTheFleet
<1>5. RouteInv' /\ ResultFits'
  BY <1>2, <1>3, <1>4, serveRoutes DEF ServerInv, ServerRoutes
<1>6. call'.robot_numbers = fleet /\ robot_route' = robot_route
  BY <1>2 DEF serve
<1>7. \A r \in Robot : ~ (r < 1)
  BY DEF Robot
<1>8. CallRobots' /\ StoredSoFar' /\ StoredRoutesCompatible'
  BY <1>1, <1>2, <1>3, <1>6, <1>7
     DEF ServerRoutes, CallRobots, StoredSoFar, StoredRoutesCompatible
<1> QED
  BY <1>5, <1>8 DEF ServerRoutes

\* A robot gets a target.
LEMMA AssignRoutes ==
    ASSUME ServerInv, ServerInv', ServerRoutes, Assign
    PROVE  ServerRoutes'
<1>1. PICK to \in AllowedTarget(robot) :
         serve(<<robot>>, <<ts_robot_positions[robot]>>, <<to>>, now)
  BY DEF Assign
<1>2. PICK robots, from_ids, t :
         /\ robots = <<robot>> /\ from_ids = <<ts_robot_positions[robot]>> /\ t = now
  OBVIOUS
<1>3. /\ serve(robots, from_ids, <<to>>, t)
      /\ line = "assign" /\ line' = "storePath" /\ robot' = robot /\ robot \in Robot
  BY <1>1, <1>2 DEF Assign
<1>4. robots \in Seq(Robot) /\ t \in Nat /\ t < INF
  BY <1>2, <1>3, FleetAssumption DEF ServerInv, ServerOK
<1>5. Cardinality(Robot \ Range(robots)) + Len(robots) <= robot_number
  BY <1>2, <1>3, OneOfTheFleet
<1>6. RouteInv' /\ ResultFits'
  BY <1>3, <1>4, <1>5, serveRoutes DEF ServerInv, ServerRoutes
<1>7. call'.robot_numbers = robots /\ robot_route' = robot_route
  BY <1>3 DEF serve
<1>8. CallRobots' /\ StoredSoFar' /\ StoredRoutesCompatible'
  BY <1>2, <1>3, <1>7 DEF ServerRoutes, CallRobots, StoredSoFar, StoredRoutesCompatible
<1> QED
  BY <1>6, <1>8 DEF ServerRoutes

\* The planner is at work.
LEMMA PlannerTurnRoutes ==
    ASSUME SmallFleet, OwnLocks, ShortEdges, ServerInv, ServerInv', ServerRoutes, PlannerTurn
    PROVE  ServerRoutes'
<1>1. /\ PlannerStep /\ LMapInv /\ LMapInv' /\ RouteInv /\ ResultFits
      /\ line' = line /\ robot' = robot
  BY DEF PlannerTurn, ServerInv, ServerRoutes, serverVars
<1>2. RouteInv' /\ ResultFits'
  BY <1>1, PlannerStepRoutes, PlannerStepFits
<1>3. PlanningCall /\ call' = call /\ robot_route' = robot_route
  BY <1>1, PlannerStepRuns
<1>4. StoredSoFar'
  <2>1. line = "storeAll" => robot = 1
    BY <1>3 DEF ServerInv, ServerOK, PlanningCall
  <2>2. \A r \in Robot : ~ (r < 1)
    BY DEF Robot
  <2> QED
    BY <1>1, <2>1, <2>2 DEF StoredSoFar
<1>5. CallRobots' /\ StoredRoutesCompatible'
  BY <1>1, <1>3 DEF ServerRoutes, CallRobots, StoredRoutesCompatible
<1> QED
  BY <1>2, <1>4, <1>5 DEF ServerRoutes

\* What StoreRobotPath stores can be driven.
LEMMA StoredDrivable ==
    ASSUME LMapInv, RoutesDrivable, NEW r \in Robot, NEW j \in DOMAIN result,
           StoreRobotPath(r, result[j])
    PROVE  /\ \A s \in Robot : Drivable(robot_route'[s])
           /\ robot_route'[r] = result[j]
           /\ \A s \in Robot : s # r => robot_route'[s] = robot_route[s]
<1>1. /\ robot_route'[r] = result[j]
      /\ \A s \in Robot : s # r => robot_route'[s] = robot_route[s]
  BY DEF StoreRobotPath, LMapInv, RoutesOK
<1>2. ASSUME NEW s \in Robot PROVE Drivable(robot_route'[s])
  BY <1>1 DEF RoutesDrivable
<1> QED
  BY <1>1, <1>2

\* One of the routes of the fleet is stored.
LEMMA StoreAllRoutes ==
    ASSUME ServerInv, ServerInv', ServerRoutes, StoreAll
    PROVE  ServerRoutes'
<1>1. /\ line = "storeAll" /\ pc = "done" /\ robot \in Robot
      /\ StoreRobotPath(robot, result[robot]) /\ robot' = robot + 1 /\ line' = line
      /\ UNCHANGED <<pc, callVars, lockVars, searchVars, pathVars>>
      /\ result' = result /\ call' = call
  BY DEF StoreAll, callVars, lockVars
<1>2. robot \in DOMAIN result
  BY <1>1 DEF ServerInv, ServerOK, LMapInv, CallOK, RoutesOK, Robot
<1>3. /\ \A s \in Robot : Drivable(robot_route'[s])
      /\ robot_route'[robot] = result[robot]
      /\ \A s \in Robot : s # robot => robot_route'[s] = robot_route[s]
  BY <1>1, <1>2, StoredDrivable DEF ServerInv, ServerRoutes, RouteInv
<1>4. RouteInv'
  BY <1>1, <1>3, StoredRoutes DEF ServerInv, ServerRoutes
<1>5. call.robot_numbers = [r \in Robot |-> r]
  BY <1>1 DEF ServerRoutes, CallRobots
<1>6. ResultFits'
  <2>1. Robot \ Range(call'.robot_numbers) = {}
    BY <1>1, <1>5 DEF Range
  <2> QED
    BY <1>1, <2>1 DEF ServerRoutes, ResultFits
<1>7. StoredSoFar'
  <2>1. ASSUME NEW r \in Robot, r < robot + 1 PROVE robot_route'[r] = result[r]
    <3>1. r < robot \/ r = robot
      BY <1>1, <2>1 DEF Robot
    <3>2. r < robot => r # robot
      BY <1>1 DEF Robot
    <3> QED
      BY <1>1, <1>3, <3>1, <3>2 DEF ServerRoutes, StoredSoFar
  <2> QED
    BY <1>1, <2>1 DEF StoredSoFar
<1>8. CallRobots'
  BY <1>1, <1>5 DEF CallRobots
<1>9. \A r \in Robot :
        /\ r \in DOMAIN result
        /\ r < robot + 1 => robot_route'[r] = result[r]
        /\ ~ (r < robot + 1) => robot_route'[r] = robot_route[r] /\ ~ (r < robot)
  <2>1. \A r \in Robot : r \in DOMAIN result
    BY <1>1 DEF ServerInv, ServerOK, LMapInv, CallOK, RoutesOK, Robot
  <2>2. \A r \in Robot : r < robot + 1 => robot_route'[r] = result[r]
    BY <1>1, <1>7 DEF StoredSoFar
  <2>3. \A r \in Robot : ~ (r < robot + 1) => r # robot /\ ~ (r < robot)
    BY <1>1 DEF Robot
  <2> QED
    BY <1>3, <2>1, <2>2, <2>3
<1>10. ASSUME NEW r \in Robot, NEW s \in Robot, r # s, r < robot + 1 <=> s < robot + 1
       PROVE  Compatible(robot_route'[r], robot_route'[s])
  <2>1. CASE r < robot + 1
    <3>1. /\ robot_route'[r] = result[r] /\ r \in DOMAIN result
          /\ robot_route'[s] = result[s] /\ s \in DOMAIN result
      BY <1>9, <1>10, <2>1
    <3> QED
      BY <1>10, <3>1 DEF ServerRoutes, ResultFits
  <2>2. CASE ~ (r < robot + 1)
    <3>1. /\ robot_route'[r] = robot_route[r] /\ ~ (r < robot)
          /\ robot_route'[s] = robot_route[s] /\ ~ (s < robot)
      BY <1>9, <1>10, <2>2
    <3> QED
      BY <1>10, <3>1 DEF ServerRoutes, StoredRoutesCompatible
  <2> QED
    BY <2>1, <2>2
<1>11. StoredRoutesCompatible'
  BY <1>1, <1>10 DEF StoredRoutesCompatible
<1> QED
  BY <1>4, <1>6, <1>7, <1>8, <1>11 DEF ServerRoutes

\* All routes of the fleet are stored: those of the call, which fit one another.
LEMMA ClearDeadLockRoutes ==
    ASSUME ServerInv, ServerInv', ServerRoutes, ClearDeadLock
    PROVE  ServerRoutes'
<1>1. /\ line = "storeAll" /\ robot \notin Robot /\ returned /\ line' = "assign"
      /\ robot_route' = robot_route
  BY DEF ClearDeadLock, redisVars
<1>2. pc = "done" /\ robot \in 1 .. robot_number + 1 /\ Len(call.robot_numbers) = robot_number
  BY <1>1, RobotAssumption DEF ServerInv, ServerOK, Robot
<1>3. ASSUME NEW r \in Robot PROVE robot_route[r] = result[r] /\ r \in DOMAIN result
  <2>1. r < robot
    BY <1>1, <1>2, RobotAssumption DEF Robot
  <2>2. r \in DOMAIN result
    BY <1>2 DEF ServerInv, LMapInv, CallOK, RoutesOK, Robot
  <2> QED
    BY <1>1, <2>1, <2>2 DEF ServerRoutes, StoredSoFar
<1>4. \A r, s \in Robot : r # s => Compatible(robot_route[r], robot_route[s])
  BY <1>3 DEF ServerRoutes, ResultFits
<1>5. RouteInv' /\ ResultFits'
  BY <1>1, <1>2, returnedRoutes DEF ServerInv, ServerRoutes, RouteInv, RoutesDrivable
<1>6. CallRobots' /\ StoredSoFar' /\ StoredRoutesCompatible'
  BY <1>1, <1>4 DEF CallRobots, StoredSoFar, StoredRoutesCompatible
<1> QED
  BY <1>5, <1>6 DEF ServerRoutes

\* The route of one robot is stored: it fits the others.
LEMMA StoreNewPathRoutes ==
    ASSUME ServerInv, ServerInv', ServerRoutes, StoreNewPath
    PROVE  ServerRoutes'
<1>1. /\ line = "storePath" /\ pc = "done" /\ line' = "storeTask"
      /\ StoreRobotPath(robot, result[1])
      /\ UNCHANGED <<pc, callVars, lockVars, searchVars, pathVars>>
      /\ result' = result /\ call' = call
  BY DEF StoreNewPath, callVars, lockVars
<1>2. robot \in Robot /\ 1 \in DOMAIN result
  BY <1>1 DEF ServerInv, ServerOK, LMapInv, CallOK, RoutesOK
<1>3. /\ \A s \in Robot : Drivable(robot_route'[s])
      /\ robot_route'[robot] = result[1]
      /\ \A s \in Robot : s # robot => robot_route'[s] = robot_route[s]
  BY <1>1, <1>2, StoredDrivable DEF ServerInv, ServerRoutes, RouteInv
<1>4. RouteInv'
  BY <1>1, <1>3, StoredRoutes DEF ServerInv, ServerRoutes
<1>5. Robot \ Range(call.robot_numbers) = Robot \ {robot}
  <2>1. call.robot_numbers = <<robot>>
    BY <1>1 DEF ServerRoutes, CallRobots
  <2> QED
    BY <2>1 DEF Range
<1>6. ResultFits'
  BY <1>1, <1>3, <1>5 DEF ServerRoutes, ResultFits
<1>7. ASSUME NEW r \in Robot, NEW s \in Robot, r # s
      PROVE  Compatible(robot_route'[r], robot_route'[s])
  <2>1. CASE r = robot
    BY <1>2, <1>3, <1>5, <1>7, <2>1 DEF ServerRoutes, ResultFits
  <2>2. CASE s = robot
    <3>1. Compatible(result[1], robot_route[r])
      BY <1>2, <1>5, <1>7, <2>2 DEF ServerRoutes, ResultFits
    <3>2. result[1] \in Route /\ robot_route[r] \in Route
      BY <1>2 DEF ServerInv, LMapInv, RoutesOK
    <3> QED
      BY <1>3, <1>7, <2>2, <3>1, <3>2, CompatibleBothWays
  <2>3. CASE r # robot /\ s # robot
    BY <1>1, <1>3, <1>7, <2>3 DEF ServerRoutes, StoredRoutesCompatible
  <2> QED
    BY <2>1, <2>2, <2>3
<1>8. CallRobots' /\ StoredSoFar' /\ StoredRoutesCompatible'
  BY <1>1, <1>7 DEF CallRobots, StoredSoFar, StoredRoutesCompatible
<1> QED
  BY <1>4, <1>6, <1>8 DEF ServerRoutes

\* The call for one robot is over.
LEMMA StoreRobotTaskRoutes ==
    ASSUME ServerInv, ServerInv', ServerRoutes, StoreRobotTask
    PROVE  ServerRoutes'
<1>1. /\ line = "storeTask" /\ returned /\ line' = "assign" /\ robot_route' = robot_route
  BY DEF StoreRobotTask, redisVars
<1>2. pc = "done"
  BY <1>1 DEF ServerInv, ServerOK
<1>3. RouteInv' /\ ResultFits'
  BY <1>1, <1>2, returnedRoutes DEF ServerInv, ServerRoutes, RouteInv, RoutesDrivable
<1>4. CallRobots' /\ StoredSoFar' /\ StoredRoutesCompatible'
  BY <1>1 DEF ServerRoutes, CallRobots, StoredSoFar, StoredRoutesCompatible
<1> QED
  BY <1>3, <1>4 DEF ServerRoutes

\* The other steps leave the planner and the stored routes alone, and do not take
\* the server to or from the storing of routes.
LEMMA OtherStepRoutes ==
    ASSUME ServerRoutes,
           UNCHANGED <<robot_route, pc, callVars, lockVars, searchVars, pathVars>>,
           \/ line' = line /\ robot' = robot
           \/ line # "storeAll" /\ line' \notin {"storeAll", "storePath"}
    PROVE  ServerRoutes'
<1>1. RouteInv'
  BY RoutesKept DEF ServerRoutes
<1>2. robot_route' = robot_route /\ call' = call /\ result' = result
  BY DEF callVars, lockVars
<1>3. ResultFits'
  BY <1>2 DEF ServerRoutes, ResultFits
<1>4. CallRobots' /\ StoredSoFar' /\ StoredRoutesCompatible'
  BY <1>2 DEF ServerRoutes, CallRobots, StoredSoFar, StoredRoutesCompatible
<1> QED
  BY <1>1, <1>3, <1>4 DEF ServerRoutes

\* Every step preserves the invariant of the routes.
LEMMA ServerRoutesStep ==
    ASSUME SmallFleet, OwnLocks, ShortEdges, ServerInv, ServerInv', ServerRoutes, [Next]_vars
    PROVE  ServerRoutes'
<1>1. CASE Replan
  BY <1>1, ReplanRoutes
<1>2. CASE Assign
  BY <1>2, AssignRoutes
<1>3. CASE PlannerTurn
  BY <1>3, PlannerTurnRoutes
<1>4. CASE StoreAll
  BY <1>4, StoreAllRoutes
<1>5. CASE ClearDeadLock
  BY <1>5, ClearDeadLockRoutes
<1>6. CASE StoreNewPath
  BY <1>6, StoreNewPathRoutes
<1>7. CASE StoreRobotTask
  BY <1>7, StoreRobotTaskRoutes
<1>8. CASE GetRobotPositions \/ InitTasks \/ checkDeadLock \/ SkipBusyRobot \/ NextPass
  BY <1>8, OtherStepRoutes DEF GetRobotPositions, InitTasks, Advance, checkDeadLock,
                               SkipBusyRobot, NextPass, lmapVars, redisVars
<1>9. CASE EmulatorTurn
  BY <1>9, OtherStepRoutes DEF EmulatorTurn, serverVars
<1>10. CASE RaiseDeadLock \/ Tick \/ UNCHANGED vars
  BY <1>10, OtherStepRoutes DEF RaiseDeadLock, Tick, vars, serverVars, lmapVars, redisVars
<1> QED
  BY <1>1, <1>2, <1>3, <1>4, <1>5, <1>6, <1>7, <1>8, <1>9, <1>10 DEF Next, ServerStep

(* The stored routes of any two robots are compatible, however the Emulator moves
   the robots and whenever dead_lock is raised: the positions a call starts from
   may be out of date, the routes it is planned around are not.  While the routes
   of a replanning are being stored, this is so of two new and of two old ones. *)
THEOREM ServerRoutesCompatible ==
    ASSUME SmallFleet, OwnLocks, ShortEdges
    PROVE  Spec => []StoredRoutesCompatible
<1>1. Init => ServerRoutes
  BY InitServerRoutes
<1>2. ServerInv /\ ServerInv' /\ ServerRoutes /\ [Next]_vars => ServerRoutes'
  BY ServerRoutesStep
<1>3. ServerRoutes => StoredRoutesCompatible
  BY DEF ServerRoutes
<1> QED
  BY <1>1, <1>2, <1>3, ServerInvariant, PTL DEF Spec

================================================================================
