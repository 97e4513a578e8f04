---------------------------------- MODULE Fleet ----------------------------------
(****************************************************************************)
(* The processes around Redis at the grain of its commands: the Emulator,   *)
(* the server's loop (main.cpp) and the traffic mapper, which is not in the *)
(* repository: what is said of it here is assumed.  The planner is only its *)
(* promise (see RoutePlanner), without time and in one step: a route leads  *)
(* from the position that was read to the target, or the robot is to stay   *)
(* where it is seen when serve runs (LMap has the planner's own reads).     *)
(*                                                                          *)
(* Nothing orders the processes: the Emulator's write of a task may come    *)
(* long after its read of it, and overwrite a task stored in between.       *)
(****************************************************************************)
EXTENDS Emulator

CONSTANTS
    Home,             \* the node each robot starts at
    Paths(_, _),      \* the node sequences from one node to another
    MaxDeadLocks,     \* bound: how often dead_lock is raised
    MaxTasks          \* bound: how many tasks are given

ASSUME FleetAssumption ==
    /\ Home \in [Robot -> Node]
    /\ \A r, s \in Robot : r # s => Home[r] # Home[s]
    /\ \A from, to \in Node : \A path \in Paths(from, to) : path \in Seq(Node) /\ path # <<>>
    /\ MaxDeadLocks \in Nat
    /\ MaxTasks \in Nat

VARIABLES
    dead_lock,            \* Redis
    line,                 \* where the server's loop is
    robot,                \* the robot it is at
    ts_robot_positions, RobotTasks,   \* class TS, as last read or assigned
    target,               \* t.to
    result,               \* what serve returned
    deadLocks, tasks      \* counters for the bounds

bounds == <<deadLocks, tasks>>
serverVars == <<line, robot, ts_robot_positions, RobotTasks, target, result>>
vars == <<emulatorVars, emulatorRedis, serverVars, dead_lock, bounds>>

\* The server's copies before they are read.
Unread == [r \in Robot |-> Nothing]

Init ==
    /\ EmulatorInit(Home)
    /\ dead_lock = 0
    /\ line = "positions"
    /\ robot = 1
    /\ ts_robot_positions = Unread
    /\ RobotTasks = Unread
    /\ target = Nothing
    /\ result = <<>>
    /\ deadLocks = 0
    /\ tasks = 0

Redis == <<robot_position, robot_cFuns>>

\* The next robot of a loop of the server, or what comes after the loop.
Advance(after) ==
    IF robot < robot_number THEN robot' = robot + 1 /\ UNCHANGED line
    ELSE robot' = 1 /\ line' = after

GetRobotPositions ==
    /\ line = "positions"
    /\ ts_robot_positions' = [ts_robot_positions EXCEPT ![robot] = robot_position[robot]]
    /\ Advance("tasks")
    /\ UNCHANGED <<emulatorVars, emulatorRedis, RobotTasks, target, result, dead_lock, bounds>>

ReadRobotTask ==
    /\ line = "tasks"
    /\ RobotTasks' = [RobotTasks EXCEPT ![robot] = robot_task[robot]]
    /\ Advance("checkDeadLock")
    /\ UNCHANGED <<emulatorVars, emulatorRedis, ts_robot_positions, target, result, dead_lock,
                   bounds>>

\* serve: all robots get a route from from[r] to to[r], or all stay.
Serve(robots, from, to) ==
    \/ result' \in {f \in [robots -> UNION {Paths(from[r], to[r]) : r \in robots}] :
                        \A r \in robots : f[r] \in Paths(from[r], to[r])}
    \/ result' = [r \in robots |-> <<robot_position[r]>>]

CheckDeadLock ==
    /\ line = "checkDeadLock"
    /\ IF dead_lock = 1
       THEN /\ Serve(Robot, ts_robot_positions, [r \in Robot |-> RobotTasks[r].to])
            /\ line' = "storeAll"
       ELSE /\ line' = "assign"
            /\ UNCHANGED result
    /\ UNCHANGED <<emulatorVars, emulatorRedis, robot, ts_robot_positions, RobotTasks, target,
                   dead_lock, bounds>>

StoreRobotPath == robot_vpoint' = [robot_vpoint EXCEPT ![robot] = result[robot]]

StoreAll ==
    /\ line = "storeAll"
    /\ StoreRobotPath
    /\ Advance("setDeadLock")
    /\ UNCHANGED <<emulatorVars, Redis, robot_task, ts_robot_positions, RobotTasks, target,
                   result, dead_lock, bounds>>

SetDeadLock ==
    /\ line = "setDeadLock"
    /\ dead_lock' = 0
    /\ line' = "assign"
    /\ result' = <<>>
    /\ UNCHANGED <<emulatorVars, emulatorRedis, robot, ts_robot_positions, RobotTasks, target,
                   bounds>>

\* Mutant: the targets given earlier in the same pass are not looked at.
AllowedTarget_After(to) == \A r \in robot + 1 .. robot_number : to # RobotTasks[r].to

\* The draw keeps clear of the targets in the server's own copy of the tasks.
AllowedTarget(to) == \A r \in Robot \ {robot} : to # RobotTasks[r].to

\* The next robot, or the next pass, which reads everything anew.
NextRobot ==
    IF robot < robot_number
    THEN /\ line' = "assign"
         /\ robot' = robot + 1
         /\ UNCHANGED <<ts_robot_positions, RobotTasks>>
    ELSE /\ line' = "positions"
         /\ robot' = 1
         /\ ts_robot_positions' = Unread
         /\ RobotTasks' = Unread

Assign ==
    /\ line = "assign"
    /\ IF RobotTasks[robot].isFinished = 1
       THEN /\ tasks < MaxTasks
            /\ tasks' = tasks + 1
            /\ \E to \in Node :
                  /\ AllowedTarget(to)
                  /\ target' = to
                  /\ Serve({robot}, ts_robot_positions, [r \in Robot |-> to])
            /\ line' = "storePath"
            /\ UNCHANGED <<robot, ts_robot_positions, RobotTasks>>
       ELSE NextRobot /\ UNCHANGED <<target, result, tasks>>
    /\ UNCHANGED <<emulatorVars, emulatorRedis, dead_lock, deadLocks>>

StorePath ==
    /\ line = "storePath"
    /\ RobotTasks' = [RobotTasks EXCEPT ![robot] = [to |-> target, isFinished |-> 0]]
    /\ StoreRobotPath
    /\ line' = "storeTask"
    /\ result' = <<>>
    /\ UNCHANGED <<emulatorVars, Redis, robot_task, robot, ts_robot_positions, target, dead_lock,
                   bounds>>

StoreRobotTask ==
    /\ line = "storeTask"
    /\ robot_task' = [robot_task EXCEPT ![robot] = [to |-> target, isFinished |-> 0]]
    /\ target' = Nothing
    /\ NextRobot
    /\ UNCHANGED <<emulatorVars, Redis, robot_vpoint, result, dead_lock, bounds>>

ServerStep ==
    \/ GetRobotPositions \/ ReadRobotTask \/ CheckDeadLock \/ StoreAll \/ SetDeadLock
    \/ Assign \/ StorePath \/ StoreRobotTask

\* The mapper releases the stored route from the robot's position on, all of it
\* if the robot is not on it.  It may take its time: until then the robot has
\* the list it had.
Onward(r) ==
    LET vps == robot_vpoint[r]
    IN  IF PlaceIn(vps, robot_position[r]) = 0 THEN vps
        ELSE SubSeq(vps, PlaceIn(vps, robot_position[r]), Len(vps))

Release(r) ==
    /\ robot_cFuns' = [robot_cFuns EXCEPT ![r] = Onward(r)]
    /\ UNCHANGED <<emulatorVars, robot_position, robot_task, robot_vpoint,
                   serverVars, dead_lock, bounds>>

RaiseDeadLock ==
    /\ deadLocks < MaxDeadLocks
    /\ dead_lock' = 1
    /\ deadLocks' = deadLocks + 1
    /\ UNCHANGED <<emulatorVars, emulatorRedis, serverVars, tasks>>

Next ==
    \/ EmulatorStep /\ UNCHANGED <<serverVars, dead_lock, bounds>>
    \/ ServerStep
    \/ \E r \in Robot : Release(r)
    \/ RaiseDeadLock

\* The loops of the three processes go on.
Fairness ==
    /\ WF_vars(EmulatorStep /\ UNCHANGED <<serverVars, dead_lock, bounds>>)
    /\ WF_vars(ServerStep)
    /\ \A r \in Robot : WF_vars(Release(r))

Spec == Init /\ [][Next]_vars

FairSpec == Spec /\ Fairness

--------------------------------------------------------------------------------
(* The types of the whole state. *)
TypeOK ==
    /\ EmulatorTypeOK
    /\ dead_lock \in {0, 1}
    /\ line \in {"positions", "tasks", "checkDeadLock", "storeAll", "setDeadLock", "assign",
                 "storePath", "storeTask"}
    /\ robot \in Robot
    /\ ts_robot_positions \in [Robot -> Node \union {Nothing}]
    /\ RobotTasks \in [Robot -> Task \union {Nothing}]
    /\ target \in Node \union {Nothing}
    /\ deadLocks \in 0 .. MaxDeadLocks
    /\ tasks \in 0 .. MaxTasks

(* Two robots under way never have the same target, although the Emulator may
   write a task back that the server has replaced: such a task comes back
   finished, and the server's draw looks at its own copy. *)
UnfinishedTargetsApart ==
    /\ TypeOK
    /\ \A r, s \in Robot :
          (r # s /\ robot_task[r].isFinished = 0 /\ robot_task[s].isFinished = 0)
              => robot_task[r].to # robot_task[s].to

(* Every robot's task is reported finished again and again: no robot is left
   with a task nobody completes, whatever is overwritten and wherever a robot
   stands when its route is replaced. *)
RobotsKeepWorking == \A r \in Robot : []<>(robot_task[r].isFinished = 1)

(* A robot whose route was replaced while it moved, and which is not on its
   stored route any more, gets back onto it. *)
BackOnRoute ==
    \A r \in Robot :
        (PlaceIn(robot_vpoint[r], robot_position[r]) = 0)
            ~> (PlaceIn(robot_vpoint[r], robot_position[r]) # 0)
================================================================================
