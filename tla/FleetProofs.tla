------------------------------- MODULE FleetProofs -------------------------------
(****************************************************************************)
(* Robots under way have different targets, for every number of robots, any *)
(* map and any interleaving of the Redis commands of Emulator, server and   *)
(* mapper.                                                                  *)
(****************************************************************************)
EXTENDS Fleet, SequenceTheorems, WellFoundedInduction, TLAPS

--------------------------------------------------------------------------------
(* The invariant. *)

Routes == Seq(Node) \ {<<>>}

\* What the Emulator has read when it uses it.
EmulatorHolds ==
    /\ at = "hop" => next_position \in Node
    /\ at \in {"writeTask1", "writeTask2"} => task \in Task

\* The robots whose tasks the server has read in this pass.
Read(r) == line \notin {"positions", "tasks"} \/ (line = "tasks" /\ r < robot)

\* What the server has read or been returned when it uses it.
ServerHolds ==
    /\ line = "positions" => \A r \in Robot : r < robot => ts_robot_positions[r] \in Node
    /\ line # "positions" => ts_robot_positions \in [Robot -> Node]
    /\ \A r \in Robot : Read(r) => RobotTasks[r] \in Task
    /\ line = "storeAll" => result \in [Robot -> Routes]
    /\ line = "storePath" => result \in [{robot} -> Routes]
    /\ line \in {"storePath", "storeTask"} => target \in Node

\* The Emulator finishes tasks and the server alone begins them: a task that is
\* not finished is the one in the server's copy, however old the copy is.
CopyIsKnown ==
    \A r \in Robot : Read(r) =>
        /\ RobotTasks[r].isFinished = 1 => robot_task[r].isFinished = 1
        /\ robot_task[r].isFinished = 0 => RobotTasks[r].to = robot_task[r].to

\* The robot that gets a task has none, and its target is one that may be drawn,
\* until the task is stored.
TurnIsOpen ==
    /\ line = "storePath" => RobotTasks[robot].isFinished = 1
    /\ line = "storeTask" => robot_task[robot].isFinished = 1 /\ RobotTasks[robot].to = target
                             /\ RobotTasks[robot].isFinished = 0
    /\ line \in {"storePath", "storeTask"} => AllowedTarget(target)

Inv ==
    /\ UnfinishedTargetsApart
    /\ EmulatorHolds
    /\ ServerHolds
    /\ CopyIsKnown
    /\ TurnIsOpen

--------------------------------------------------------------------------------
(* The Emulator. *)

\* PlaceIn is a place of the list, or 0.
LEMMA PlaceInRange ==
    ASSUME NEW cfun \in Seq(Node), NEW position
    PROVE  /\ PlaceIn(cfun, position) \in 0 .. Len(cfun)
           /\ PlaceIn(cfun, position) # 0 => PlaceIn(cfun, position) \in 1 .. Len(cfun)
<1> DEFINE Places == {j \in DOMAIN cfun : cfun[j] = position}
<1>1. Len(cfun) \in Nat /\ DOMAIN cfun = 1 .. Len(cfun)
  OBVIOUS
<1>2. CASE \E j \in DOMAIN cfun : cfun[j] = position
  <2> DEFINE R == OpToRel(<, Nat)
  <2>1. IsWellFoundedOn(R, Nat)
    BY NatLessThanWellFounded
  <2>2. Places \subseteq Nat /\ Places # {}
    BY <1>1, <1>2
  <2> HIDE DEF R
  <2>3. PICK j \in Places : \A l \in Places : ~ (<<l, j>> \in R)
    BY <2>1, <2>2, WFMin
  <2>4. \A l \in Places : ~ (l < j)
    BY <2>2, <2>3 DEF R, OpToRel
  <2>5. j \in DOMAIN cfun /\ cfun[j] = position /\ \A l \in 1 .. j - 1 : cfun[l] # position
    BY <1>1, <2>3, <2>4
  <2>6. PlaceIn(cfun, position) \in DOMAIN cfun
    BY <1>2, <2>5 DEF PlaceIn
  <2> QED
    BY <1>1, <2>6
<1>3. CASE ~ \E j \in DOMAIN cfun : cfun[j] = position
  BY <1>1, <1>3 DEF PlaceIn
<1> QED
  BY <1>2, <1>3

\* The next robot's turn is the turn of a robot.
LEMMA TurnOfRobot == ASSUME NEW r \in Robot PROVE (r % robot_number) + 1 \in Robot
  BY EmulatorAssumption DEF Robot

\* The types, and what the Emulator holds.
LEMMA EmulatorTypes ==
    ASSUME EmulatorTypeOK, EmulatorHolds, EmulatorStep
    PROVE  EmulatorTypeOK' /\ EmulatorHolds'
<1>1. /\ i \in Robot /\ (i % robot_number) + 1 \in Robot
      /\ robot_vpoint[i] \in Routes /\ robot_cFuns[i] \in Seq(Node) /\ robot_task[i] \in Task
  BY TurnOfRobot DEF EmulatorTypeOK, Routes
<1>2. CASE ReadVPoint
  <2>1. Last(robot_vpoint[i]) \in Node
    <3>1. Len(robot_vpoint[i]) \in 1 .. Len(robot_vpoint[i])
      BY <1>1, EmptySeq DEF Routes
    <3> QED
      BY <1>1, <3>1 DEF Last, Routes
  <2> QED
    BY <1>2, <2>1 DEF ReadVPoint, EmulatorTypeOK, EmulatorHolds, emulatorRedis
<1>3. CASE ReadCFuns
  <2>1. HopsFrom(robot_cFuns[i], robot_position[i])
           => robot_cFuns[i][PlaceIn(robot_cFuns[i], robot_position[i]) + 1] \in Node
    <3> DEFINE place == PlaceIn(robot_cFuns[i], robot_position[i])
    <3>1. place \in 0 .. Len(robot_cFuns[i]) /\ Len(robot_cFuns[i]) \in Nat
      BY <1>1, PlaceInRange
    <3> HIDE DEF place
    <3>2. place < Len(robot_cFuns[i]) => robot_cFuns[i][place + 1] \in Node
      BY <1>1, <3>1
    <3> QED
      BY <3>2 DEF place, HopsFrom
  <2> QED
    BY <1>1, <1>3, <2>1 DEF ReadCFuns, nextRobot, sameRobot, EmulatorTypeOK, EmulatorHolds,
                            emulatorRedis
<1>4. CASE Hop
  <2>1. next_position \in Node
    BY <1>4 DEF Hop, EmulatorHolds
  <2>2. LongHopTurns \in Nat \ {0} /\ robot_travelper[i] \in 0 .. LongHopTurns - 1
    BY <1>1, EmulatorAssumption DEF EmulatorTypeOK
  <2>3. TurnsAfterHop \in 0 .. LongHopTurns - 1
    <3>1. CASE Arrives
      BY <2>2, <3>1 DEF TurnsAfterHop
    <3>2. CASE ~ Arrives
      <4>1. ~ (robot_travelper[i] + 1 >= LongHopTurns)
        BY <3>2 DEF Arrives
      <4> QED
        BY <2>2, <3>2, <4>1 DEF TurnsAfterHop
    <3> QED
      BY <3>1, <3>2
  <2>4. robot_position' \in [Robot -> Node] /\ robot_travelper' \in [Robot -> 0 .. LongHopTurns - 1]
    BY <1>4, <2>1, <2>3 DEF Hop, EmulatorTypeOK
  <2> QED
    BY <1>1, <1>4, <2>1, <2>4 DEF Hop, nextRobot, sameRobot, EmulatorTypeOK, EmulatorHolds
<1>5. CASE ReadTask("readTask1", "writeTask1") \/ ReadTask("readTask2", "writeTask2")
  BY <1>1, <1>5 DEF ReadTask, EmulatorTypeOK, EmulatorHolds, emulatorRedis
<1>6. CASE WriteTaskAfterHop \/ WriteTaskAtEnd
  <2>1. task \in Task
    BY <1>6 DEF WriteTaskAfterHop, WriteTaskAtEnd, EmulatorHolds
  <2>2. robot_task' \in [Robot -> Task]
    <3>1. [task EXCEPT !.isFinished = 1] \in Task
      BY <2>1 DEF Task
    <3>2. robot_task' = [robot_task EXCEPT ![i] = [task EXCEPT !.isFinished = 1]]
      BY <1>6 DEF WriteTaskAfterHop, WriteTaskAtEnd, finishTask
    <3> QED
      BY <1>1, <3>1, <3>2 DEF EmulatorTypeOK
  <2>3. CASE WriteTaskAfterHop
    BY <1>1, <2>2, <2>3 DEF WriteTaskAfterHop, sameRobot, EmulatorTypeOK, EmulatorHolds
  <2>4. CASE WriteTaskAtEnd
    BY <1>1, <2>2, <2>4 DEF WriteTaskAtEnd, nextRobot, EmulatorTypeOK, EmulatorHolds
  <2> QED
    BY <1>6, <2>3, <2>4
<1> QED
  BY <1>2, <1>3, <1>4, <1>5, <1>6 DEF EmulatorStep

\* Whatever the Emulator writes back is finished.
LEMMA EmulatorFinishes ==
    ASSUME EmulatorTypeOK, EmulatorHolds, EmulatorStep
    PROVE  \A r \in Robot : robot_task'[r] = robot_task[r] \/ robot_task'[r].isFinished = 1
<1>1. CASE UNCHANGED robot_task
  BY <1>1
<1>2. CASE WriteTaskAfterHop \/ WriteTaskAtEnd
  <2>1. task \in Task
    BY <1>2 DEF WriteTaskAfterHop, WriteTaskAtEnd, EmulatorHolds
  <2>2. [task EXCEPT !.isFinished = 1].isFinished = 1
    BY <2>1 DEF Task
  <2> QED
    BY <1>2, <2>2 DEF WriteTaskAfterHop, WriteTaskAtEnd, finishTask, EmulatorTypeOK
<1> QED
  BY <1>1, <1>2 DEF EmulatorStep, ReadVPoint, ReadCFuns, Hop, ReadTask, emulatorRedis

\* A step that leaves the server alone, and finishes tasks at most.
LEMMA TasksFinished ==
    ASSUME Inv, TypeOK', EmulatorHolds', UNCHANGED serverVars,
           \A r \in Robot : robot_task'[r] = robot_task[r] \/ robot_task'[r].isFinished = 1
    PROVE  Inv'
<1>1. \A r \in Robot : Read(r)' = Read(r)
  BY DEF Read, serverVars
<1>2. ServerHolds'
  BY <1>1 DEF Inv, ServerHolds, serverVars
<1>3. CopyIsKnown'
  BY <1>1 DEF Inv, CopyIsKnown, serverVars
<1>4. TurnIsOpen'
  <2>1. robot \in Robot /\ AllowedTarget(target)' = AllowedTarget(target)
    BY DEF Inv, UnfinishedTargetsApart, TypeOK, AllowedTarget, serverVars
  <2> QED
    BY <2>1 DEF Inv, TurnIsOpen, serverVars
<1>5. UnfinishedTargetsApart'
  <2> SUFFICES ASSUME NEW r \in Robot, NEW s \in Robot, r # s,
                      robot_task'[r].isFinished = 0, robot_task'[s].isFinished = 0
               PROVE  robot_task'[r].to # robot_task'[s].to
    BY DEF UnfinishedTargetsApart
  <2>1. robot_task'[r] = robot_task[r] /\ robot_task'[s] = robot_task[s]
    OBVIOUS
  <2> QED
    BY <2>1 DEF Inv, UnfinishedTargetsApart
<1> QED
  BY <1>2, <1>3, <1>4, <1>5 DEF Inv

--------------------------------------------------------------------------------
(* The server. *)

\* The robot after this one is a robot.
LEMMA RobotAdvances ==
    ASSUME robot \in Robot
    PROVE  /\ 1 \in Robot
           /\ robot < robot_number => robot + 1 \in Robot
           /\ ~ (robot < robot_number) => \A r \in Robot : r = robot \/ r < robot
BY EmulatorAssumption DEF Robot

\* What serve returns are routes.
LEMMA ServedRoutes ==
    ASSUME NEW robots \in SUBSET Robot, NEW from \in [Robot -> Node], NEW to \in [Robot -> Node],
           robot_position \in [Robot -> Node], Serve(robots, from, to)
    PROVE  result' \in [robots -> Routes]
<1>1. \A r \in robots : \A path \in Paths(from[r], to[r]) : path \in Routes
  BY FleetAssumption DEF Routes
<1>2. CASE result' \in {f \in [robots -> UNION {Paths(from[r], to[r]) : r \in robots}] :
                          \A r \in robots : f[r] \in Paths(from[r], to[r])}
  <2>1. result' \in [robots -> UNION {Paths(from[r], to[r]) : r \in robots}]
        /\ \A r \in robots : result'[r] \in Paths(from[r], to[r])
    BY <1>2
  <2> QED
    BY <1>1, <2>1
<1>3. CASE result' = [r \in robots |-> <<robot_position[r]>>]
  <2>1. \A r \in robots : <<robot_position[r]>> \in Routes
    BY DEF Routes
  <2> QED
    BY <1>3, <2>1
<1> QED
  BY <1>2, <1>3 DEF Serve

\* A step of the server that leaves the tasks and what the Emulator has alone.
LEMMA TasksUntouched ==
    ASSUME Inv, TypeOK', ServerHolds', CopyIsKnown', TurnIsOpen',
           UNCHANGED <<emulatorVars, robot_task>>
    PROVE  Inv'
<1>1. EmulatorHolds'
  BY DEF Inv, EmulatorHolds, emulatorVars, Task
<1>2. UnfinishedTargetsApart'
  BY DEF Inv, UnfinishedTargetsApart
<1> QED
  BY <1>1, <1>2 DEF Inv

\* The types of what the server does not write in a step.
LEMMA EmulatorTypesKept ==
    ASSUME EmulatorTypeOK, UNCHANGED <<emulatorVars, emulatorRedis>>
    PROVE  EmulatorTypeOK'
BY DEF EmulatorTypeOK, emulatorVars, emulatorRedis, Task

\* Another pass begins, in which no task has been read: the positions are read.
LEMMA GetRobotPositionsInv == Inv /\ GetRobotPositions => Inv'
<1> SUFFICES ASSUME Inv, GetRobotPositions PROVE Inv'
  OBVIOUS
<1>1. /\ TypeOK /\ EmulatorTypeOK /\ robot \in Robot /\ line = "positions"
      /\ robot_position \in [Robot -> Node]
      /\ ts_robot_positions \in [Robot -> Node \union {Nothing}]
      /\ ts_robot_positions' = [ts_robot_positions EXCEPT ![robot] = robot_position[robot]]
  BY DEF Inv, UnfinishedTargetsApart, TypeOK, EmulatorTypeOK, GetRobotPositions
<1>2. robot' \in Robot /\ line' \in {"positions", "tasks"}
  BY <1>1, RobotAdvances DEF GetRobotPositions, Advance
<1>3. /\ ts_robot_positions' \in [Robot -> Node \union {Nothing}]
      /\ \A r \in Robot : r = robot \/ r < robot => ts_robot_positions'[r] \in Node
  BY <1>1 DEF Inv, ServerHolds
<1>4. TypeOK'
  <2>1. EmulatorTypeOK'
    BY <1>1, EmulatorTypesKept DEF GetRobotPositions
  <2> QED
    BY <1>1, <1>2, <1>3, <2>1 DEF TypeOK, GetRobotPositions, bounds
<1>5. \A r \in Robot : ~ Read(r)'
  BY <1>1, <1>2, RobotAdvances DEF GetRobotPositions, Advance, Read, Robot
<1>6. ServerHolds'
  <2>1. CASE robot < robot_number
    <3>1. line' = "positions" /\ \A r \in Robot : r < robot' => r = robot \/ r < robot
      BY <1>1, <2>1 DEF GetRobotPositions, Advance, Robot
    <3> QED
      BY <1>3, <1>5, <3>1 DEF ServerHolds
  <2>2. CASE ~ (robot < robot_number)
    <3>1. line' = "tasks" /\ \A r \in Robot : r = robot \/ r < robot
      BY <1>1, <2>2, RobotAdvances DEF GetRobotPositions, Advance
    <3>2. ts_robot_positions' \in [Robot -> Node]
      BY <1>3, <3>1
    <3> QED
      BY <1>5, <3>1, <3>2 DEF ServerHolds
  <2> QED
    BY <2>1, <2>2
<1>7. CopyIsKnown' /\ TurnIsOpen'
  BY <1>2, <1>5 DEF CopyIsKnown, TurnIsOpen
<1> QED
  BY <1>4, <1>6, <1>7, TasksUntouched DEF GetRobotPositions, emulatorRedis

\* The task that is read is the one Redis has.
LEMMA ReadRobotTaskInv == Inv /\ ReadRobotTask => Inv'
<1> SUFFICES ASSUME Inv, ReadRobotTask PROVE Inv'
  OBVIOUS
<1>1. /\ TypeOK /\ robot \in Robot /\ robot_task \in [Robot -> Task] /\ line = "tasks"
      /\ RobotTasks \in [Robot -> Task \union {Nothing}]
      /\ RobotTasks' = [RobotTasks EXCEPT ![robot] = robot_task[robot]]
      /\ robot_task' = robot_task
  BY DEF Inv, UnfinishedTargetsApart, TypeOK, EmulatorTypeOK, ReadRobotTask, emulatorRedis
<1>2. robot' \in Robot /\ line' \in {"tasks", "checkDeadLock"}
  BY <1>1, RobotAdvances DEF ReadRobotTask, Advance
<1>3. TypeOK'
  <2>1. RobotTasks' \in [Robot -> Task \union {Nothing}]
    BY <1>1
  <2>2. EmulatorTypeOK'
    BY <1>1, EmulatorTypesKept DEF ReadRobotTask, TypeOK
  <2> QED
    BY <1>1, <1>2, <2>1, <2>2 DEF TypeOK, ReadRobotTask, bounds
<1>4. ASSUME NEW r \in Robot, Read(r)' PROVE r = robot \/ (r # robot /\ Read(r))
  BY <1>1, <1>4, RobotAdvances, EmulatorAssumption DEF Read, ReadRobotTask, Advance, Robot
<1>5. ASSUME NEW r \in Robot, Read(r)'
      PROVE  RobotTasks'[r] = robot_task[r] \/ (RobotTasks'[r] = RobotTasks[r] /\ Read(r))
  BY <1>1, <1>4, <1>5
<1>6. ServerHolds'
  <2>1. \A r \in Robot : Read(r)' => RobotTasks'[r] \in Task
    BY <1>1, <1>5 DEF Inv, ServerHolds
  <2> QED
    BY <1>1, <1>2, <2>1 DEF Inv, ServerHolds, ReadRobotTask
<1>7. CopyIsKnown'
  BY <1>1, <1>5 DEF Inv, CopyIsKnown
<1>8. TurnIsOpen'
  BY <1>2 DEF TurnIsOpen
<1> QED
  BY <1>1, <1>3, <1>6, <1>7, <1>8, TasksUntouched DEF ReadRobotTask

\* A step of the server after it has read the tasks that leaves its copy alone.
LEMMA CopyUntouched ==
    ASSUME Inv, line \notin {"positions", "tasks"}, line' \notin {"positions", "tasks"},
           UNCHANGED <<robot_task, RobotTasks, ts_robot_positions>>,
           line' = "storeAll" => result' \in [Robot -> Routes],
           line' = "storePath" => result' \in [{robot'} -> Routes],
           line' \in {"storePath", "storeTask"} => target' \in Node
    PROVE  /\ ServerHolds' /\ CopyIsKnown'
           /\ ts_robot_positions \in [Robot -> Node] /\ \A r \in Robot : RobotTasks[r] \in Task
<1>1. \A r \in Robot : Read(r) /\ Read(r)'
  BY DEF Read
<1> QED
  BY <1>1 DEF Inv, ServerHolds, CopyIsKnown

\* Nothing is known anew when the fleet is replanned.
LEMMA CheckDeadLockInv == Inv /\ CheckDeadLock => Inv'
<1> SUFFICES ASSUME Inv, CheckDeadLock PROVE Inv'
  OBVIOUS
<1>1. /\ TypeOK /\ robot_position \in [Robot -> Node] /\ line = "checkDeadLock"
      /\ line' \in {"storeAll", "assign"}
      /\ UNCHANGED <<emulatorVars, emulatorRedis, robot, ts_robot_positions, RobotTasks, target,
                     dead_lock, bounds>>
  BY DEF Inv, UnfinishedTargetsApart, TypeOK, EmulatorTypeOK, CheckDeadLock
<1>2. line' = "storeAll" => result' \in [Robot -> Routes]
  <2> SUFFICES ASSUME line' = "storeAll" PROVE result' \in [Robot -> Routes]
    OBVIOUS
  <2>1. Serve(Robot, ts_robot_positions, [r \in Robot |-> RobotTasks[r].to])
    BY DEF CheckDeadLock
  <2>2. ts_robot_positions \in [Robot -> Node] /\ \A r \in Robot : RobotTasks[r].to \in Node
    BY <1>1 DEF Inv, ServerHolds, Read, Task
  <2>3. [r \in Robot |-> RobotTasks[r].to] \in [Robot -> Node]
    BY <2>2
  <2> QED
    BY <1>1, <2>1, <2>2, <2>3, ServedRoutes
<1>3. TypeOK'
  BY <1>1, EmulatorTypesKept DEF TypeOK, bounds, Task
<1>4. ServerHolds' /\ CopyIsKnown'
  BY <1>1, <1>2, CopyUntouched DEF emulatorRedis
<1>5. TurnIsOpen'
  BY <1>1 DEF TurnIsOpen
<1> QED
  BY <1>1, <1>3, <1>4, <1>5, TasksUntouched DEF emulatorRedis

\* Storing a route keeps the types.
LEMMA StoredTypes ==
    ASSUME EmulatorTypeOK, robot \in Robot, result[robot] \in Routes, StoreRobotPath,
           UNCHANGED <<emulatorVars, Redis, robot_task>>
    PROVE  EmulatorTypeOK'
<1>1. robot_vpoint' \in [Robot -> Seq(Node) \ {<<>>}]
  BY DEF EmulatorTypeOK, StoreRobotPath, Routes
<1> QED
  BY <1>1 DEF EmulatorTypeOK, emulatorVars, Redis, Task

\* Storing a route of the fleet changes no task.
LEMMA StoreAllInv == Inv /\ StoreAll => Inv'
<1> SUFFICES ASSUME Inv, StoreAll PROVE Inv'
  OBVIOUS
<1>1. /\ TypeOK /\ robot \in Robot /\ line = "storeAll" /\ result \in [Robot -> Routes]
      /\ StoreRobotPath
      /\ UNCHANGED <<emulatorVars, Redis, robot_task, ts_robot_positions, RobotTasks, target,
                     result, dead_lock, bounds>>
  BY DEF Inv, UnfinishedTargetsApart, TypeOK, StoreAll, ServerHolds
<1>2. robot' \in Robot /\ line' \in {"storeAll", "setDeadLock"}
  BY <1>1, RobotAdvances DEF StoreAll, Advance
<1>3. EmulatorTypeOK'
  BY <1>1, StoredTypes DEF TypeOK
<1>4. TypeOK'
  BY <1>1, <1>2, <1>3 DEF TypeOK, bounds, Task
<1>5. ServerHolds' /\ CopyIsKnown'
  BY <1>1, <1>2, CopyUntouched
<1>6. TurnIsOpen'
  BY <1>2 DEF TurnIsOpen
<1> QED
  BY <1>1, <1>4, <1>5, <1>6, TasksUntouched

\* Nor does lowering the flag.
LEMMA SetDeadLockInv == Inv /\ SetDeadLock => Inv'
<1> SUFFICES ASSUME Inv, SetDeadLock PROVE Inv'
  OBVIOUS
<1>1. TypeOK /\ line = "setDeadLock" /\ line' = "assign" /\ dead_lock' = 0
      /\ UNCHANGED <<emulatorVars, emulatorRedis, robot, ts_robot_positions, RobotTasks, target,
                     bounds>>
  BY DEF Inv, UnfinishedTargetsApart, SetDeadLock
<1>2. TypeOK'
  BY <1>1, EmulatorTypesKept DEF TypeOK, bounds, Task
<1>3. ServerHolds' /\ CopyIsKnown'
  BY <1>1, CopyUntouched DEF emulatorRedis
<1>4. TurnIsOpen'
  BY <1>1 DEF TurnIsOpen
<1> QED
  BY <1>1, <1>2, <1>3, <1>4, TasksUntouched DEF emulatorRedis

\* Going on to the next robot, or to the next pass, in which nothing is read.
LEMMA NextRobotHolds ==
    ASSUME Inv, line \notin {"positions", "tasks"}, NextRobot
    PROVE  /\ robot' \in Robot /\ line' \in {"assign", "positions"}
           /\ line' = "positions" => robot' = 1
           /\ line' = "assign" => ts_robot_positions' = ts_robot_positions
           /\ RobotTasks' \in [Robot -> Task \union {Nothing}]
           /\ ts_robot_positions' \in [Robot -> Node \union {Nothing}]
           /\ \A r \in Robot : Read(r)' => Read(r) /\ RobotTasks'[r] = RobotTasks[r]
           /\ ServerHolds'
           /\ TurnIsOpen'
<1>1. robot \in Robot /\ RobotTasks \in [Robot -> Task \union {Nothing}]
      /\ ts_robot_positions \in [Robot -> Node \union {Nothing}]
  BY DEF Inv, UnfinishedTargetsApart, TypeOK
<1>2. CASE robot < robot_number
  <2>1. /\ line' = "assign" /\ robot' \in Robot
        /\ RobotTasks' = RobotTasks /\ ts_robot_positions' = ts_robot_positions
    BY <1>1, <1>2, RobotAdvances DEF NextRobot
  <2>2. \A r \in Robot : Read(r)
    BY DEF Read
  <2> QED
    BY <1>1, <2>1, <2>2 DEF Inv, ServerHolds, TurnIsOpen
<1>3. CASE ~ (robot < robot_number)
  <2>1. /\ line' = "positions" /\ robot' = 1 /\ 1 \in Robot
        /\ RobotTasks' = Unread /\ ts_robot_positions' = Unread
    BY <1>1, <1>3, RobotAdvances DEF NextRobot
  <2>2. \A r \in Robot : ~ Read(r)' /\ ~ (r < robot')
    BY <2>1 DEF Read, Robot
  <2>3. Unread \in [Robot -> Task \union {Nothing}] /\ Unread \in [Robot -> Node \union {Nothing}]
    BY DEF Unread
  <2> QED
    BY <2>1, <2>2, <2>3 DEF ServerHolds, TurnIsOpen
<1> QED
  BY <1>2, <1>3

\* A target is drawn for a robot whose task is finished in the copy, or the robot
\* is passed over.
LEMMA AssignInv == Inv /\ Assign => Inv'
<1> SUFFICES ASSUME Inv, Assign PROVE Inv'
  OBVIOUS
<1>1. /\ TypeOK /\ robot \in Robot /\ robot_position \in [Robot -> Node] /\ line = "assign"
      /\ UNCHANGED <<emulatorVars, emulatorRedis, dead_lock, deadLocks>>
      /\ EmulatorTypeOK'
  BY EmulatorTypesKept DEF Inv, UnfinishedTargetsApart, TypeOK, EmulatorTypeOK, Assign
<1>2. CASE RobotTasks[robot].isFinished = 1
  <2>1. PICK to \in Node :
           /\ AllowedTarget(to) /\ target' = to
           /\ Serve({robot}, ts_robot_positions, [r \in Robot |-> to])
           /\ line' = "storePath" /\ UNCHANGED <<robot, ts_robot_positions, RobotTasks>>
           /\ tasks < MaxTasks /\ tasks' = tasks + 1
    BY <1>2 DEF Assign
  <2>2. result' \in [{robot} -> Routes]
    <3>1. ts_robot_positions \in [Robot -> Node] /\ [r \in Robot |-> to] \in [Robot -> Node]
          /\ {robot} \in SUBSET Robot
      BY <1>1 DEF Inv, ServerHolds
    <3> QED
      BY <1>1, <2>1, <3>1, ServedRoutes
  <2>3. ServerHolds' /\ CopyIsKnown'
    BY <1>1, <2>1, <2>2, CopyUntouched DEF emulatorRedis
  <2>4. TurnIsOpen'
    <3>1. AllowedTarget(target)'
      BY <2>1 DEF AllowedTarget
    <3> QED
      BY <1>2, <2>1, <3>1 DEF TurnIsOpen
  <2>5. TypeOK'
    BY <1>1, <2>1, FleetAssumption DEF TypeOK, Task
  <2> QED
    BY <1>1, <2>3, <2>4, <2>5, TasksUntouched DEF emulatorRedis
<1>3. CASE RobotTasks[robot].isFinished # 1
  <2>1. NextRobot /\ UNCHANGED <<target, result, tasks>>
    BY <1>3 DEF Assign
  <2>2. /\ robot' \in Robot /\ line' \in {"assign", "positions"}
        /\ RobotTasks' \in [Robot -> Task \union {Nothing}]
        /\ ts_robot_positions' \in [Robot -> Node \union {Nothing}]
        /\ \A r \in Robot : Read(r)' => Read(r) /\ RobotTasks'[r] = RobotTasks[r]
        /\ ServerHolds' /\ TurnIsOpen'
    BY <1>1, <2>1, NextRobotHolds
  <2>3. TypeOK'
    BY <1>1, <2>1, <2>2 DEF TypeOK
  <2>4. CopyIsKnown'
    BY <1>1, <2>2 DEF Inv, CopyIsKnown, emulatorRedis
  <2> QED
    BY <1>1, <2>2, <2>3, <2>4, TasksUntouched DEF emulatorRedis
<1> QED
  BY <1>2, <1>3

\* Only the copy has the new task yet, and the old one is finished.
LEMMA StorePathInv == Inv /\ StorePath => Inv'
<1> SUFFICES ASSUME Inv, StorePath PROVE Inv'
  OBVIOUS
<1>1. /\ TypeOK /\ robot \in Robot /\ line = "storePath" /\ line' = "storeTask"
      /\ target \in Node /\ result[robot] \in Routes /\ StoreRobotPath
      /\ robot_task \in [Robot -> Task] /\ \A r \in Robot : RobotTasks[r] \in Task
      /\ RobotTasks \in [Robot -> Task \union {Nothing}]
      /\ RobotTasks' = [RobotTasks EXCEPT ![robot] = [to |-> target, isFinished |-> 0]]
      /\ UNCHANGED <<emulatorVars, Redis, robot_task, robot, ts_robot_positions, target,
                     dead_lock, bounds>>
      /\ ts_robot_positions \in [Robot -> Node]
  BY DEF Inv, UnfinishedTargetsApart, TypeOK, EmulatorTypeOK, StorePath, ServerHolds, Read
<1>2. [to |-> target, isFinished |-> 0] \in Task
  BY <1>1 DEF Task
<1>3. RobotTasks' \in [Robot -> Task \union {Nothing}] /\ \A r \in Robot : RobotTasks'[r] \in Task
  BY <1>1, <1>2
<1>4. TypeOK'
  <2>1. EmulatorTypeOK'
    BY <1>1, StoredTypes DEF TypeOK
  <2> QED
    BY <1>1, <1>3, <2>1 DEF TypeOK, bounds
<1>5. ServerHolds'
  BY <1>1, <1>3 DEF ServerHolds
<1>6. RobotTasks[robot].isFinished = 1 /\ AllowedTarget(target)
  BY <1>1 DEF Inv, TurnIsOpen
<1>7. robot_task[robot].isFinished = 1
  BY <1>1, <1>6 DEF Inv, CopyIsKnown, Read
<1>8. CopyIsKnown'
  <2> SUFFICES ASSUME NEW r \in Robot
               PROVE  /\ RobotTasks'[r].isFinished = 1 => robot_task[r].isFinished = 1
                      /\ robot_task[r].isFinished = 0 => RobotTasks'[r].to = robot_task[r].to
    BY <1>1 DEF CopyIsKnown
  <2>1. CASE r = robot
    BY <1>1, <1>7, <2>1
  <2>2. CASE r # robot
    <3>1. RobotTasks'[r] = RobotTasks[r] /\ Read(r)
      BY <1>1, <2>2 DEF Read
    <3> QED
      BY <3>1 DEF Inv, CopyIsKnown
  <2> QED
    BY <2>1, <2>2
<1>9. TurnIsOpen'
  <2>1. RobotTasks'[robot] = [to |-> target, isFinished |-> 0]
    BY <1>1
  <2>2. \A r \in Robot \ {robot} : RobotTasks'[r] = RobotTasks[r]
    BY <1>1
  <2>3. AllowedTarget(target)'
    BY <1>1, <1>6, <2>2 DEF AllowedTarget
  <2> QED
    BY <1>1, <1>7, <2>1, <2>3 DEF TurnIsOpen
<1> QED
  BY <1>1, <1>4, <1>5, <1>8, <1>9, TasksUntouched

\* The task that begins has a target that no task under way has: such a task is
\* the one in the copy, and the draw kept clear of that.
LEMMA StoreRobotTaskInv == Inv /\ StoreRobotTask => Inv'
<1> SUFFICES ASSUME Inv, StoreRobotTask PROVE Inv'
  OBVIOUS
<1> DEFINE new == [to |-> target, isFinished |-> 0]
<1>1. /\ TypeOK /\ EmulatorTypeOK /\ robot \in Robot /\ line = "storeTask"
      /\ target \in Node /\ robot_task \in [Robot -> Task]
      /\ robot_task' = [robot_task EXCEPT ![robot] = new]
      /\ target' = Nothing /\ NextRobot
      /\ UNCHANGED <<emulatorVars, Redis, robot_vpoint, result, dead_lock, bounds>>
  BY DEF Inv, UnfinishedTargetsApart, TypeOK, EmulatorTypeOK, StoreRobotTask, ServerHolds
<1>2. new \in Task
  BY <1>1 DEF Task
<1>3. /\ robot' \in Robot /\ line' \in {"assign", "positions"}
      /\ RobotTasks' \in [Robot -> Task \union {Nothing}]
      /\ ts_robot_positions' \in [Robot -> Node \union {Nothing}]
      /\ \A r \in Robot : Read(r)' => Read(r) /\ RobotTasks'[r] = RobotTasks[r]
      /\ ServerHolds' /\ TurnIsOpen'
  BY <1>1, NextRobotHolds
<1>4. robot_task' \in [Robot -> Task]
  BY <1>1, <1>2
<1>5. TypeOK'
  <2>1. EmulatorTypeOK'
    BY <1>1, <1>4 DEF EmulatorTypeOK, emulatorVars, Redis
  <2> QED
    BY <1>1, <1>3, <2>1 DEF TypeOK, bounds
<1>6. /\ RobotTasks[robot].to = target /\ RobotTasks[robot].isFinished = 0
      /\ AllowedTarget(target)
  BY <1>1 DEF Inv, TurnIsOpen
<1>7. \A r \in Robot : robot_task'[r] = IF r = robot THEN new ELSE robot_task[r]
  BY <1>1
<1>8. CopyIsKnown'
  <2> SUFFICES ASSUME NEW r \in Robot, Read(r)'
               PROVE  /\ RobotTasks'[r].isFinished = 1 => robot_task'[r].isFinished = 1
                      /\ robot_task'[r].isFinished = 0 => RobotTasks'[r].to = robot_task'[r].to
    BY DEF CopyIsKnown
  <2>1. RobotTasks'[r] = RobotTasks[r] /\ Read(r)
    BY <1>3
  <2>2. CASE r = robot
    BY <1>6, <1>7, <2>1, <2>2
  <2>3. CASE r # robot
    BY <1>7, <2>1, <2>3 DEF Inv, CopyIsKnown
  <2> QED
    BY <2>2, <2>3
<1>9. EmulatorHolds'
  BY <1>1 DEF Inv, EmulatorHolds, emulatorVars, Task
<1>10. UnfinishedTargetsApart'
  <2>1. ASSUME NEW s \in Robot, s # robot, robot_task[s].isFinished = 0
        PROVE  target # robot_task[s].to
    <3>1. RobotTasks[s].to = robot_task[s].to
      BY <1>1, <2>1 DEF Inv, CopyIsKnown, Read
    <3> QED
      BY <1>6, <2>1, <3>1 DEF AllowedTarget
  <2>2. ASSUME NEW r \in Robot, NEW s \in Robot, r # s,
               robot_task'[r].isFinished = 0, robot_task'[s].isFinished = 0
        PROVE  robot_task'[r].to # robot_task'[s].to
    <3>1. CASE r = robot
      BY <1>7, <2>1, <2>2, <3>1
    <3>2. CASE s = robot
      BY <1>7, <2>1, <2>2, <3>2
    <3>3. CASE r # robot /\ s # robot
      BY <1>7, <2>2, <3>3 DEF Inv, UnfinishedTargetsApart
    <3> QED
      BY <3>1, <3>2, <3>3
  <2> QED
    BY <1>5, <2>2 DEF UnfinishedTargetsApart
<1> QED
  BY <1>3, <1>5, <1>8, <1>9, <1>10 DEF Inv

--------------------------------------------------------------------------------
(* The theorem. *)

\* At the start every task is finished.
LEMMA InitInv == Init => Inv
<1> SUFFICES ASSUME Init PROVE Inv
  OBVIOUS
<1>1. 1 \in Robot /\ Home \in [Robot -> Node] /\ MaxDeadLocks \in Nat /\ MaxTasks \in Nat
      /\ LongHopTurns \in Nat \ {0}
  BY EmulatorAssumption, FleetAssumption DEF Robot
<1>2. EmulatorTypeOK
  <2>1. \A r \in Robot : /\ <<Home[r]>> \in Seq(Node) /\ <<Home[r]>> # <<>>
                         /\ [to |-> Home[r], isFinished |-> 1] \in Task
    BY <1>1 DEF Task
  <2> QED
    BY <1>1, <2>1 DEF Init, EmulatorInit, EmulatorTypeOK
<1>3. TypeOK
  BY <1>1, <1>2 DEF Init, TypeOK, Unread
<1>4. \A r \in Robot : robot_task[r].isFinished = 1
  BY DEF Init, EmulatorInit
<1>5. line = "positions" /\ robot = 1 /\ at = "vpoint"
  BY DEF Init, EmulatorInit
<1>6. \A r \in Robot : ~ Read(r) /\ ~ (r < robot)
  BY <1>5 DEF Read, Robot
<1> QED
  BY <1>3, <1>4, <1>5, <1>6
     DEF Inv, UnfinishedTargetsApart, EmulatorHolds, ServerHolds, CopyIsKnown, TurnIsOpen

\* The Emulator's commands preserve the invariant.
LEMMA EmulatorInv == Inv /\ EmulatorStep /\ UNCHANGED <<serverVars, dead_lock, bounds>> => Inv'
<1> SUFFICES ASSUME Inv, EmulatorStep, UNCHANGED <<serverVars, dead_lock, bounds>> PROVE Inv'
  OBVIOUS
<1>1. TypeOK /\ EmulatorTypeOK /\ EmulatorHolds
  BY DEF Inv, UnfinishedTargetsApart, TypeOK
<1>2. EmulatorTypeOK' /\ EmulatorHolds'
  BY <1>1, EmulatorTypes
<1>3. TypeOK'
  BY <1>1, <1>2 DEF TypeOK, serverVars, bounds, Task
<1> QED
  BY <1>1, <1>2, <1>3, EmulatorFinishes, TasksFinished

\* What the mapper releases is a part of the stored route.
LEMMA ReleaseInv == ASSUME NEW r \in Robot, Inv, Release(r) PROVE Inv'
<1>1. TypeOK /\ EmulatorTypeOK /\ robot_vpoint[r] \in Seq(Node)
  BY DEF Inv, UnfinishedTargetsApart, TypeOK, EmulatorTypeOK
<1>2. Onward(r) \in Seq(Node)
  <2> DEFINE place == PlaceIn(robot_vpoint[r], robot_position[r])
  <2>1. place # 0 => place \in 1 .. Len(robot_vpoint[r])
    BY <1>1, PlaceInRange
  <2> HIDE DEF place
  <2>2. place # 0 => SubSeq(robot_vpoint[r], place, Len(robot_vpoint[r])) \in Seq(Node)
    BY <1>1, <2>1, SubSeqProperties
  <2> QED
    BY <1>1, <2>2 DEF Onward, place
<1>3. EmulatorTypeOK' /\ EmulatorHolds'
  <2>1. robot_cFuns' \in [Robot -> Seq(Node)]
    BY <1>1, <1>2 DEF Release, EmulatorTypeOK
  <2> QED
    BY <1>1, <2>1 DEF Inv, Release, EmulatorTypeOK, EmulatorHolds, emulatorVars, Task
<1>4. TypeOK'
  BY <1>1, <1>3 DEF Release, TypeOK, serverVars, bounds, Task
<1> QED
  BY <1>3, <1>4, TasksFinished DEF Release

\* Raising the flag does.
LEMMA RaiseDeadLockInv == Inv /\ RaiseDeadLock => Inv'
<1> SUFFICES ASSUME Inv, RaiseDeadLock PROVE Inv'
  OBVIOUS
<1>1. TypeOK /\ EmulatorTypeOK
  BY DEF Inv, UnfinishedTargetsApart, TypeOK
<1>2. EmulatorTypeOK' /\ EmulatorHolds'
  BY <1>1, EmulatorTypesKept
     DEF Inv, RaiseDeadLock, EmulatorHolds, emulatorVars, Task
<1>3. TypeOK'
  BY <1>1, <1>2, FleetAssumption DEF RaiseDeadLock, TypeOK, serverVars, Task
<1> QED
  BY <1>2, <1>3, TasksFinished DEF RaiseDeadLock, emulatorRedis

\* Every step does.
LEMMA InvIsInductive == Inv /\ [Next]_vars => Inv'
<1> SUFFICES ASSUME Inv, [Next]_vars PROVE Inv'
  OBVIOUS
<1>1. CASE EmulatorStep /\ UNCHANGED <<serverVars, dead_lock, bounds>>
  BY <1>1, EmulatorInv
<1>2. CASE ServerStep
  BY <1>2, GetRobotPositionsInv, ReadRobotTaskInv, CheckDeadLockInv, StoreAllInv, SetDeadLockInv,
     AssignInv, StorePathInv, StoreRobotTaskInv DEF ServerStep
<1>3. CASE \E r \in Robot : Release(r)
  BY <1>3, ReleaseInv
<1>4. CASE RaiseDeadLock
  BY <1>4, RaiseDeadLockInv
<1>5. CASE UNCHANGED vars
  <2>1. TypeOK' /\ EmulatorHolds'
    BY <1>5, EmulatorTypesKept DEF Inv, UnfinishedTargetsApart, TypeOK, EmulatorHolds, vars,
                                   emulatorVars, serverVars, bounds, Task
  <2> QED
    BY <1>5, <2>1, TasksFinished DEF vars, emulatorRedis
<1> QED
  BY <1>1, <1>2, <1>3, <1>4, <1>5 DEF Next

(* Two robots under way never have the same target, although the Emulator writes
   whole tasks back that it read before the server stored newer ones, and although
   the server draws on a copy that may be a pass old. *)
THEOREM UnfinishedTargetsStayApart == Spec => []UnfinishedTargetsApart
<1>1. Inv => UnfinishedTargetsApart
  BY DEF Inv
<1> QED
  BY <1>1, InitInv, InvIsInductive, PTL DEF Spec

================================================================================
