------------------------------ MODULE TaskServer ------------------------------
(****************************************************************************)
(* The planning server (main.cpp and class TS, ts.cpp) with the route       *)
(* planner it calls, and the processes it shares Redis with: the Emulator,  *)
(* which moves the robots and marks tasks finished, and the                 *)
(* DeadlockChecker, which raises dead_lock.                                 *)
(*                                                                          *)
(* The server's loop reads the fleet from Redis, replans every robot if     *)
(* dead_lock is up, and then gives each robot whose task is finished a new  *)
(* random target and a route to it.  Every Redis command of the server and  *)
(* of the Emulator that the other can notice is a step of its own.  A step  *)
(* of the Emulator that falls between two commands of the server on keys    *)
(* they share could as well be taken right before the second one (no step   *)
(* of the server in between sees or disturbs it), and that is where the     *)
(* model takes it: see Shares.                                              *)
(****************************************************************************)
EXTENDS LMap

CONSTANTS
    Home,          \* the node each robot starts at
    TargetGap,     \* targets closer than this in x and y are refused (3 in the code)
    Instants,      \* the values the clock takes
    MaxServes,     \* bound: calls of serve
    MaxDeadLocks   \* bound: how often dead_lock is raised

ASSUME FleetAssumption ==
    /\ Home \in [Robot -> Node]
    /\ 0 \in Node
    /\ TargetGap \in Nat
    /\ Instants \subseteq Nat
    /\ Instants # {}
    /\ \A t \in Instants : t < INF
    /\ MaxServes \in Nat
    /\ MaxDeadLocks \in Nat

VARIABLES
    now,                 \* time(NULL)
    robot_task,          \* Redis: the target of each robot, and whether it is reached
    dead_lock,           \* Redis: the flag of the DeadlockChecker
    line,                \* where the server's loop is
    ts_robot_positions,  \* myTS.robot_positions, as last read
    RobotTasks,          \* myTS.RobotTasks, as last read or assigned
    robot,               \* the robot the loop is at
    target,              \* t.to, the target drawn for it
    at,                  \* where the Emulator is in the turn of one robot
    turn,                \* the robot whose turn it is
    vps_end,             \* vps[-1], the end of its stored route, as read
    next_position,       \* cfun[index + 1], as read
    task,                \* its task, as read
    serves, deadLocks    \* counters for the bounds

serverVars == <<line, ts_robot_positions, RobotTasks, robot, target>>
emulatorVars == <<at, turn, vps_end, next_position, task>>
boundVars  == <<serves, deadLocks>>
vars == <<lmapVars, now, robot_task, dead_lock, serverVars, emulatorVars, boundVars>>

Task == [to : Node, isFinished : {0, 1}]

\* What a local variable holds while it is not in use.
NoTask == [to |-> 0, isFinished |-> 0]

InitialTasks == [r \in Robot |-> [to |-> Home[r], isFinished |-> 1]]

Init ==
    /\ now \in {t \in Instants : \A u \in Instants : t <= u}
    /\ LMapInit(Home, now)
    /\ robot_task = InitialTasks
    /\ dead_lock = 0
    /\ line = "positions"
    /\ ts_robot_positions = Home
    /\ RobotTasks = InitialTasks
    /\ robot = 1
    /\ target = 0
    /\ at = "vpoint"
    /\ turn = 1
    /\ vps_end = 0
    /\ next_position = 0
    /\ task = NoTask
    /\ serves = 0
    /\ deadLocks = 0

--------------------------------------------------------------------------------
(* The head of the loop: it reads the position and then the task of one robot  *)
(* after the other, and dead_lock.                                            *)

\* The next robot of a loop, or what comes after the loop.
Advance(after) ==
    IF robot < robot_number THEN robot' = robot + 1 /\ UNCHANGED line
    ELSE robot' = 1 /\ line' = after

GetRobotPositions ==
    /\ line = "positions"
    /\ ts_robot_positions' = [ts_robot_positions EXCEPT ![robot] = robot_position[robot]]
    /\ Advance("tasks")
    /\ UNCHANGED <<lmapVars, now, robot_task, dead_lock, RobotTasks, target, emulatorVars,
                   boundVars>>

InitTasks ==
    /\ line = "tasks"
    /\ RobotTasks' = [RobotTasks EXCEPT ![robot] = robot_task[robot]]
    /\ Advance("checkDeadLock")
    /\ UNCHANGED <<lmapVars, now, robot_task, dead_lock, ts_robot_positions, target,
                   emulatorVars, boundVars>>

checkDeadLock ==
    /\ line = "checkDeadLock"
    /\ line' = IF dead_lock = 1 THEN "replan" ELSE "assign"
    /\ UNCHANGED <<lmapVars, now, robot_task, dead_lock, ts_robot_positions, RobotTasks, robot,
                   target, emulatorVars, boundVars>>

--------------------------------------------------------------------------------
(* Replanning of the whole fleet. *)

Replan ==
    /\ line = "replan"
    /\ serves < MaxServes
    /\ serve([r \in Robot |-> r], ts_robot_positions, [r \in Robot |-> RobotTasks[r].to], now)
    /\ serves' = serves + 1
    /\ line' = "storeAll"
    /\ UNCHANGED <<robot_position, now, robot_task, dead_lock, ts_robot_positions, RobotTasks,
                   robot, target, emulatorVars, deadLocks>>

\* The routes are stored one by one.
StoreAll ==
    /\ line = "storeAll"
    /\ pc = "done"
    /\ robot \in Robot
    /\ StoreRobotPath(robot, result[robot])
    /\ robot' = robot + 1
    /\ UNCHANGED <<robot_position, pc, callVars, lockVars, searchVars, pathVars, now, robot_task,
                   dead_lock, line, ts_robot_positions, RobotTasks, target, emulatorVars,
                   boundVars>>

\* setDeadLock(0) takes the flag down without looking at it again.
ClearDeadLock ==
    /\ line = "storeAll"
    /\ robot \notin Robot
    /\ dead_lock' = 0
    /\ returned
    /\ line' = "assign"
    /\ robot' = 1
    /\ UNCHANGED <<redisVars, now, robot_task, ts_robot_positions, RobotTasks, target,
                   emulatorVars, boundVars>>

--------------------------------------------------------------------------------
(* Assignment of new targets, robot by robot. *)

Near(a, b) ==
    LET within(u, v) == u - v <= TargetGap /\ v - u <= TargetGap
    IN  within(node_list[a].x, node_list[b].x) /\ within(node_list[a].y, node_list[b].y)

\* The targets at which the random draw stops.  Node 0 is kept free as well.
AllowedTarget(r) ==
    {to \in Node : \A j \in Robot \ {r} :
        ~ Near(to, RobotTasks[j].to) /\ ~ Near(to, 0)}

Assign ==
    /\ line = "assign"
    /\ robot \in Robot
    /\ RobotTasks[robot].isFinished = 1
    /\ serves < MaxServes
    /\ \E to \in AllowedTarget(robot) :
          /\ target' = to
          /\ serve(<<robot>>, <<ts_robot_positions[robot]>>, <<to>>, now)
    /\ serves' = serves + 1
    /\ line' = "storePath"
    /\ UNCHANGED <<robot_position, now, robot_task, dead_lock, ts_robot_positions, RobotTasks,
                   robot, emulatorVars, deadLocks>>

\* Mutant: the server's own copy of the task is left as it was read.
StoreNewPath_OldTask ==
    /\ line = "storePath"
    /\ pc = "done"
    /\ StoreRobotPath(robot, result[1])
    /\ line' = "storeTask"
    /\ UNCHANGED <<robot_position, pc, callVars, lockVars, searchVars, pathVars, now, robot_task,
                   dead_lock, ts_robot_positions, RobotTasks, robot, target, emulatorVars,
                   boundVars>>

StoreNewPath ==
    /\ line = "storePath"
    /\ pc = "done"
    /\ RobotTasks' = [RobotTasks EXCEPT ![robot] = [to |-> target, isFinished |-> 0]]
    /\ StoreRobotPath(robot, result[1])
    /\ line' = "storeTask"
    /\ UNCHANGED <<robot_position, pc, callVars, lockVars, searchVars, pathVars, now, robot_task,
                   dead_lock, ts_robot_positions, robot, target, emulatorVars, boundVars>>

StoreRobotTask ==
    /\ line = "storeTask"
    /\ robot_task' = [robot_task EXCEPT ![robot] = [to |-> target, isFinished |-> 0]]
    /\ returned
    /\ target' = 0
    /\ line' = "assign"
    /\ robot' = robot + 1
    /\ UNCHANGED <<redisVars, now, dead_lock, ts_robot_positions, RobotTasks, emulatorVars,
                   boundVars>>

SkipBusyRobot ==
    /\ line = "assign"
    /\ robot \in Robot
    /\ RobotTasks[robot].isFinished = 0
    /\ robot' = robot + 1
    /\ UNCHANGED <<lmapVars, now, robot_task, dead_lock, line, ts_robot_positions, RobotTasks,
                   target, emulatorVars, boundVars>>

NextPass ==
    /\ line = "assign"
    /\ robot \notin Robot
    /\ line' = "positions"
    /\ robot' = 1
    /\ UNCHANGED <<lmapVars, now, robot_task, dead_lock, ts_robot_positions, RobotTasks, target,
                   emulatorVars, boundVars>>

ServerStep ==
    \/ GetRobotPositions \/ InitTasks \/ checkDeadLock
    \/ Replan \/ StoreAll \/ ClearDeadLock
    \/ Assign \/ StoreNewPath \/ StoreRobotTask \/ SkipBusyRobot \/ NextPass

PlannerTurn ==
    PlannerStep /\ UNCHANGED <<now, robot_task, dead_lock, serverVars, emulatorVars, boundVars>>

--------------------------------------------------------------------------------
(* The Emulator visits the robots in turn, forever. *)

\* The server's next command reads or writes a key of the Emulator's, or the
\* server has stopped at its bound.
Shares ==
    \/ line \in {"positions", "tasks", "storeTask"}
    \/ pc = "getRobotPositions"
    \/ line \in {"storeAll", "storePath"} /\ pc = "done"
    \/ /\ serves = MaxServes
       /\ \/ line = "replan"
          \/ line = "assign" /\ robot \in Robot /\ RobotTasks[robot].isFinished = 1

nextRobot ==
    /\ at' = "vpoint"
    /\ turn' = (turn % robot_number) + 1
    /\ vps_end' = 0
    /\ next_position' = 0
    /\ task' = NoTask

ReadVPoint ==
    /\ at = "vpoint"
    /\ vps_end' = Last(robot_route[turn].vps)
    /\ at' = "cFuns"
    /\ UNCHANGED <<robot_position, robot_task, turn, next_position, task>>

\* The node after the robot's position in robot_cFuns, which the traffic mapper
\* (not in the repository) cuts out of the stored route.  A position that is not
\* on the list has index -1: the head of the list is next.
cFuns(r) ==
    LET vps == robot_route[r].vps
        here == {i \in DOMAIN vps : vps[i] = robot_position[r]}
    IN  IF here = {} THEN {vps[1]}
        ELSE {vps[i + 1] : i \in {j \in here : j + 1 \in DOMAIN vps}}

\* The list goes on; or it ends at the position, and the robot stays; or it is
\* empty, and the turn is over.
ReadCFuns ==
    /\ at = "cFuns"
    /\ \/ /\ next_position' \in cFuns(turn)
          /\ at' = "hop"
          /\ UNCHANGED <<turn, vps_end, task>>
       \/ /\ robot_position[turn] = vps_end
          /\ at' = "readTask2"
          /\ UNCHANGED <<turn, vps_end, next_position, task>>
       \/ nextRobot
    /\ UNCHANGED <<robot_position, robot_task>>

\* A long hop takes several turns (see Emulator); a short one is done at once.
Far(a, b) ==
    LET apart(u, v) == u - v > 1 \/ v - u > 1
    IN  apart(node_list[a].x, node_list[b].x) \/ apart(node_list[a].y, node_list[b].y)

TakeHop ==
    /\ at = "hop"
    /\ \/ robot_position' = [robot_position EXCEPT ![turn] = next_position]
       \/ Far(robot_position[turn], next_position) /\ UNCHANGED robot_position
    /\ IF robot_position'[turn] = vps_end
       THEN at' = "readTask1" /\ next_position' = 0 /\ UNCHANGED <<turn, vps_end, task>>
       ELSE nextRobot
    /\ UNCHANGED robot_task

ReadTask(from, to) ==
    /\ at = from
    /\ task' = robot_task[turn]
    /\ at' = to
    /\ UNCHANGED <<robot_position, robot_task, turn, vps_end, next_position>>

\* The whole task is written back as it was read, but for isFinished.
finishTask == robot_task' = [robot_task EXCEPT ![turn] = [task EXCEPT !.isFinished = 1]]

\* It is finished once right after the hop, and once more in any turn that ends
\* at the end of the route.
WriteTask1 ==
    /\ at = "writeTask1"
    /\ finishTask
    /\ at' = "readTask2"
    /\ task' = NoTask
    /\ UNCHANGED <<robot_position, turn, vps_end, next_position>>

WriteTask2 ==
    /\ at = "writeTask2"
    /\ finishTask
    /\ nextRobot
    /\ UNCHANGED robot_position

EmulatorTurn ==
    /\ Shares
    /\ \/ ReadVPoint \/ ReadCFuns \/ TakeHop
       \/ ReadTask("readTask1", "writeTask1") \/ WriteTask1
       \/ ReadTask("readTask2", "writeTask2") \/ WriteTask2
    /\ UNCHANGED <<robot_route, pc, callVars, lockVars, searchVars, pathVars, now, dead_lock,
                   serverVars, boundVars>>

--------------------------------------------------------------------------------
(* The other processes. *)

\* DeadlockChecker: two robots have not moved for a while.  The server touches
\* the flag when it reads it and when it takes it down.
RaiseDeadLock ==
    /\ line = "checkDeadLock" \/ (line = "storeAll" /\ robot \notin Robot)
    /\ deadLocks < MaxDeadLocks
    /\ dead_lock' = 1
    /\ deadLocks' = deadLocks + 1
    /\ UNCHANGED <<lmapVars, now, robot_task, serverVars, emulatorVars, serves>>

\* The server reads the clock right before it calls serve; only then does it
\* matter what the clock shows.
Tick ==
    /\ line = "replan" \/ (line = "assign" /\ robot \in Robot /\ RobotTasks[robot].isFinished = 1)
    /\ \E t \in Instants : t > now /\ now' = t
    /\ UNCHANGED <<lmapVars, robot_task, dead_lock, serverVars, emulatorVars, boundVars>>

Next ==
    \/ ServerStep
    \/ PlannerTurn
    \/ EmulatorTurn
    \/ RaiseDeadLock
    \/ Tick

Spec == Init /\ [][Next]_vars

--------------------------------------------------------------------------------
(* The types of the whole state. *)
TypeOK ==
    /\ LMapTypeOK
    /\ now \in Instants
    /\ robot_task \in [Robot -> Task]
    /\ dead_lock \in {0, 1}
    /\ line \in {"positions", "tasks", "checkDeadLock", "replan", "storeAll", "assign",
                 "storePath", "storeTask"}
    /\ ts_robot_positions \in [Robot -> Node]
    /\ RobotTasks \in [Robot -> Task]
    /\ robot \in 1 .. robot_number + 1
    /\ target \in Node
    /\ at \in {"vpoint", "cFuns", "hop", "readTask1", "writeTask1", "readTask2", "writeTask2"}
    /\ turn \in Robot
    /\ vps_end \in Node
    /\ next_position \in Node
    /\ task \in Task
    /\ serves \in 0 .. MaxServes
    /\ deadLocks \in 0 .. MaxDeadLocks

(* No two robots under way ever have targets within the gap of each other.  The
   draw looks at the server's own copy of the tasks, which earlier draws of the
   same pass have changed; meanwhile the Emulator changes them in Redis, and may
   write one back that the server has replaced since.  Such a task comes back
   finished. *)
TargetsApart ==
    \A r, s \in Robot :
        (r # s /\ robot_task[r].isFinished = 0 /\ robot_task[s].isFinished = 0)
            => ~ Near(robot_task[r].to, robot_task[s].to)

(* The stored routes of any two robots are compatible, even though the positions
   they start from may be out of date.  While the routes of a replanning are
   being stored one by one, this is so of two robots that both have their new
   route, and of two that both have their old one. *)
StoredRoutesCompatible ==
    \A r, s \in Robot :
        (r # s /\ (line = "storeAll" => (r < robot <=> s < robot)))
            => Compatible(robot_route[r], robot_route[s])

(* The Emulator reports a job finished (robot_task.isFinished goes up) only
   when the robot is at the target of the job. *)
FinishedAtTarget ==
    [][\A r \in Robot :
         (robot_task[r].isFinished = 0 /\ robot_task' = [robot_task EXCEPT ![r].isFinished = 1])
            => robot_position[r] = robot_task[r].to]_vars
================================================================================
