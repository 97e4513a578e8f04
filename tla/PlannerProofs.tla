----------------------------- MODULE PlannerProofs -----------------------------
(****************************************************************************)
(* Theorems about the planner under the calls main.cpp makes: the types of  *)
(* its state, the shape of its search tree, the locks it keeps, the routes  *)
(* it returns, and that it keeps its promise to the caller.                 *)
(****************************************************************************)
EXTENDS PlannerClient, LMapProofs

ClientOK ==
    /\ now \in Instants
    /\ task_to \in [Robot -> Node]
    /\ serves \in 0 .. MaxServes
    /\ fleetCalls \in 0 .. FleetCalls

(* The inductive invariant: that of the planner, and the types of its caller. *)
PlannerInv == LMapInv /\ ClientOK

--------------------------------------------------------------------------------

\* The initial state satisfies the invariant.
LEMMA InitInv == Init => PlannerInv
<1> SUFFICES ASSUME Init PROVE PlannerInv
  OBVIOUS
<1>1. Home \in [Robot -> Node] /\ now \in Instants /\ now \in Nat
  BY ClientAssumption DEF Init
<1>2. LMapInv
  BY <1>1, LMapInitInv DEF Init
<1>3. ClientOK
  BY <1>1, ClientAssumption DEF Init, ClientOK
<1> QED
  BY <1>2, <1>3 DEF PlannerInv

\* What a call does to the clock and the number of calls.
LEMMA CallClientOK ==
    ASSUME ClientOK, Call
    PROVE  now' \in Instants /\ now' \in Nat /\ serves' \in 0 .. MaxServes
BY ClientAssumption DEF ClientOK, Call

\* A call for one robot, from the end of its stored route.
LEMMA CallForOneInv ==
    ASSUME PlannerInv, NEW r \in Robot, CallForOne(r)
    PROVE  PlannerInv'
<1>1. /\ robot_position' = [robot_position EXCEPT ![r] = Last(robot_route[r].vps)]
      /\ Call /\ fleetCalls' = fleetCalls
  BY DEF CallForOne
<1>2. PICK to \in Target \ {task_to[j] : j \in Robot \ {r}} :
         /\ task_to' = [task_to EXCEPT ![r] = to]
         /\ serve(<<r>>, <<robot_position'[r]>>, <<to>>, now')
  BY DEF CallForOne
<1>3. to \in Node
  BY ClientAssumption
<1>4. Last(robot_route[r].vps) \in Node
  <2>1. robot_route[r] \in Route
    BY DEF PlannerInv, LMapInv, RoutesOK
  <2>2. Len(robot_route[r].vps) \in 1 .. Len(robot_route[r].vps)
    BY <2>1, RouteParts
  <2> QED
    BY <2>1, <2>2, RouteParts DEF Last
<1>5. robot_position' \in [Robot -> Node] /\ robot_position'[r] \in Node
  BY <1>1, <1>4 DEF PlannerInv, LMapInv, RoutesOK
<1>6. LMapInv'
  <2> DEFINE robots == <<r>>
             from_ids == <<robot_position'[r]>>
             to_ids == <<to>>
  <2>1. /\ robots \in Seq(Robot) /\ from_ids \in Seq(Node) /\ to_ids \in Seq(Node)
        /\ Len(robots) >= 1 /\ Len(from_ids) = Len(robots) /\ Len(to_ids) = Len(robots)
    BY <1>3, <1>5
  <2>2. now' \in Nat
    BY <1>1, CallClientOK DEF PlannerInv
  <2>3. serve(robots, from_ids, to_ids, now')
    BY <1>2
  <2>4. LMapInv
    BY DEF PlannerInv
  <2> HIDE DEF robots, from_ids, to_ids
  <2> QED
    BY <1>5, <2>1, <2>2, <2>3, <2>4, serveInv
<1>7. ClientOK'
  <2>1. now' \in Instants /\ serves' \in 0 .. MaxServes
    BY <1>1, CallClientOK DEF PlannerInv
  <2> QED
    BY <1>1, <1>2, <1>3, <2>1 DEF PlannerInv, ClientOK
<1> QED
  BY <1>6, <1>7 DEF PlannerInv

\* A call for the whole fleet, from anywhere on the stored routes.
LEMMA CallForAllInv == PlannerInv /\ CallForAll => PlannerInv'
<1> SUFFICES ASSUME PlannerInv, CallForAll PROVE PlannerInv'
  OBVIOUS
<1> DEFINE fleet == [r \in Robot |-> r]
<1>1. /\ Call /\ fleetCalls < FleetCalls /\ fleetCalls' = fleetCalls + 1
      /\ robot_position' \in [Robot -> Node]
      /\ serve(fleet, robot_position', task_to, now')
      /\ task_to' = task_to
  BY DEF CallForAll
<1>2. task_to \in [Robot -> Node]
  BY DEF PlannerInv, ClientOK
<1>3. /\ fleet \in Seq(Robot) /\ robot_position' \in Seq(Node) /\ task_to \in Seq(Node)
      /\ Len(fleet) = robot_number /\ Len(robot_position') = robot_number
      /\ Len(task_to) = robot_number
  BY <1>1, <1>2, RobotAssumption DEF Robot
<1>4. now' \in Nat /\ now' \in Instants /\ serves' \in 0 .. MaxServes
  BY <1>1, CallClientOK DEF PlannerInv
<1> HIDE DEF fleet
<1>5. LMapInv'
  BY <1>1, <1>3, <1>4, RobotAssumption, serveInv DEF PlannerInv
<1>6. ClientOK'
  BY <1>1, <1>4, ClientAssumption DEF PlannerInv, ClientOK
<1> QED
  BY <1>5, <1>6 DEF PlannerInv

\* The caller stores the routes: there is one for each robot of the call.
LEMMA StoreInv == PlannerInv /\ Store => PlannerInv'
<1> SUFFICES ASSUME PlannerInv, Store PROVE PlannerInv'
  OBVIOUS
<1> DEFINE Turn(r) == CHOOSE j \in DOMAIN call.robot_numbers : call.robot_numbers[j] = r
           Planned_(r) == \E j \in DOMAIN call.robot_numbers : call.robot_numbers[j] = r
<1>1. /\ pc = "done" /\ returned
      /\ robot_route' = [r \in Robot |-> IF Planned_(r) THEN result[Turn(r)]
                                         ELSE robot_route[r]]
      /\ robot_position' = robot_position /\ UNCHANGED clientVars
  BY DEF Store
<1>2. /\ robot_route \in [Robot -> Route] /\ robot_position \in [Robot -> Node]
      /\ result \in Seq(Route) /\ call.robot_numbers \in Seq(Robot)
      /\ Len(result) = Len(call.robot_numbers)
  BY <1>1 DEF PlannerInv, LMapInv, RoutesOK, CallOK, CallRecord
<1>3. \A j \in DOMAIN call.robot_numbers : result[j] \in Route
  <2>1. DOMAIN result = DOMAIN call.robot_numbers
    BY <1>2
  <2> QED
    BY <1>2, <2>1
<1>4. \A r \in Robot : Planned_(r) => Turn(r) \in DOMAIN call.robot_numbers
  OBVIOUS
<1> HIDE DEF Turn, Planned_
<1>5. robot_route' \in [Robot -> Route]
  BY <1>1, <1>2, <1>3, <1>4
<1>6. LMapInv'
  BY <1>1, <1>2, <1>5, returnedInv DEF PlannerInv
<1>7. ClientOK'
  BY <1>1 DEF PlannerInv, ClientOK, clientVars
<1> QED
  BY <1>6, <1>7 DEF PlannerInv

\* Every step preserves the invariant.
LEMMA StepInv == PlannerInv /\ [Next]_vars => PlannerInv'
<1> SUFFICES ASSUME PlannerInv, [Next]_vars PROVE PlannerInv'
  OBVIOUS
<1>1. ASSUME NEW r \in Robot, CallForOne(r) PROVE PlannerInv'
  BY <1>1, CallForOneInv
<1>2. CASE CallForAll
  BY <1>2, CallForAllInv
<1>3. CASE Plan
  <2>1. LMapInv'
    BY <1>3, PlannerStepInv DEF Plan, PlannerInv
  <2>2. ClientOK'
    BY <1>3 DEF Plan, PlannerInv, ClientOK, clientVars
  <2> QED
    BY <2>1, <2>2 DEF PlannerInv
<1>4. CASE Store
  BY <1>4, StoreInv
<1>5. CASE UNCHANGED vars
  <2>1. LMapInv'
    BY <1>5, LMapKept DEF vars, PlannerInv
  <2>2. ClientOK'
    BY <1>5 DEF vars, PlannerInv, ClientOK, clientVars
  <2> QED
    BY <2>1, <2>2 DEF PlannerInv
<1> QED
  BY <1>1, <1>2, <1>3, <1>4, <1>5 DEF Next, Idle

--------------------------------------------------------------------------------

\* PlannerInv is inductive.
THEOREM PlannerInvariant == Spec => []PlannerInv
<1> QED
  BY InitInv, StepInv, PTL DEF Spec

(* Whatever the map, the fleet and the sequence of calls, every field of the
   planner keeps its type: the ids a search follows are nodes, the node being
   expanded and the path are elements of the tree, and the lock table and the
   arrival times are lists of windows. *)
THEOREM PlannerTypes == Spec => []TypeOK
<1>1. PlannerInv => TypeOK
  BY LMapInvTypes DEF PlannerInv, ClientOK, TypeOK
<1> QED
  BY <1>1, PlannerInvariant, PTL

(* A search looks at a node once, and following pre_node from any element of
   its tree ends at the root: the loop that traces the path back stops at the
   start of the robot, and no route visits a node twice. *)
THEOREM SearchTreesAreSound == Spec => []SearchTreeSound
<1>1. PlannerInv => SearchTreeSound
  BY DEF PlannerInv, LMapInv, SearchOK
<1> QED
  BY <1>1, PlannerInvariant, PTL

\* The lock table, in steps of the caller: a call begins with an empty table, and
\* is over before its routes are stored.
LEMMA LocksCoverStep == PlannerInv /\ LocksCover /\ [Next]_vars => LocksCover'
<1> SUFFICES ASSUME PlannerInv, LocksCover, [Next]_vars PROVE LocksCover'
  OBVIOUS
<1>1. ASSUME NEW r \in Robot, CallForOne(r) PROVE LocksCover'
  BY <1>1, serveLocksCover DEF CallForOne
<1>2. CASE CallForAll
  BY <1>2, serveLocksCover DEF CallForAll
<1>3. CASE Plan
  BY <1>3, PlannerStepLocksCover DEF Plan, PlannerInv
<1>4. CASE Store
  BY <1>4 DEF Store, returned, LocksCover, PlanningCall
<1>5. CASE UNCHANGED vars
  BY <1>5, LocksCoverKept DEF vars, lmapVars, redisVars, callVars, lockVars, PlanningCall
<1> QED
  BY <1>1, <1>2, <1>3, <1>4, <1>5 DEF Next, Idle

(* The lock table never forgets: after any number of reductions, for any fleet
   and any lock areas, every route that is planned around still holds each node
   of its lock area until the tail after its departure. *)
THEOREM LocksAreKept == Spec => []LocksCover
<1>1. Init => LocksCover
  BY DEF Init, LMapInit, LocksCover, PlanningCall
<1> QED
  BY <1>1, LocksCoverStep, PlannerInvariant, PTL DEF Spec

--------------------------------------------------------------------------------
(* The routes. *)

(* The inductive invariant of the routes, on top of PlannerInv: the planner's
   (RouteInv: locks in order, a search tree and a path that can be driven, no
   skipped choice), and the caller's. *)
RoutesInv == PlannerInv /\ RouteInv /\ EachOnce

\* A call for one robot.
LEMMA CallForOneRoutes ==
    ASSUME RoutesInv, PlannerInv', NEW r \in Robot, CallForOne(r)
    PROVE  RouteInv' /\ EachOnce' /\ ResultFits'
<1>1. PICK to \in Target \ {task_to[j] : j \in Robot \ {r}} :
         serve(<<r>>, <<robot_position'[r]>>, <<to>>, now')
  BY DEF CallForOne
<1>2. PICK robots, from_ids, t :
         robots = <<r>> /\ from_ids = <<robot_position'[r]>> /\ t = now'
  OBVIOUS
<1>3. robots \in Seq(Robot) /\ t \in Nat /\ t < INF
  BY <1>2, ClientAssumption DEF PlannerInv, ClientOK
<1>4. Cardinality(Robot \ Range(robots)) + Len(robots) <= robot_number
  BY <1>2, OneOfTheFleet
<1>5. serve(robots, from_ids, <<to>>, t)
  BY <1>1, <1>2
<1>6. RouteInv' /\ ResultFits'
  BY <1>3, <1>4, <1>5, serveRoutes DEF RoutesInv, PlannerInv
<1>7. call'.robot_numbers = <<r>>
  BY <1>2, <1>5 DEF serve
<1>8. EachOnce'
  BY <1>7 DEF EachOnce
<1> QED
  BY <1>6, <1>8

\* A call for the whole fleet.
LEMMA CallForAllRoutes ==
    ASSUME RoutesInv, PlannerInv', CallForAll
    PROVE  RouteInv' /\ EachOnce' /\ ResultFits'
<1>1. PICK fleet, positions, t :
         /\ fleet = [r \in Robot |-> r] /\ positions = robot_position' /\ t = now'
  OBVIOUS
<1>2. serve(fleet, positions, task_to, t)
  BY <1>1 DEF CallForAll
<1>3. fleet \in Seq(Robot) /\ t \in Nat /\ t < INF
  BY <1>1, ClientAssumption, RobotAssumption DEF PlannerInv, ClientOK, Robot
<1>4. Cardinality(Robot \ Range(fleet)) + Len(fleet) <= robot_number
  BY <1>1, AllOfTheFleet
<1>5. RouteInv' /\ ResultFits'
  BY <1>2, <1>3, <1>4, serveRoutes DEF RoutesInv, PlannerInv
<1>6. call'.robot_numbers = fleet
  BY <1>2 DEF serve
<1>7. EachOnce'
  BY <1>1, <1>6 DEF EachOnce
<1> QED
  BY <1>5, <1>7

\* What is stored: the route from the call for a robot of the call, and for the
\* others what was stored before.
LEMMA StoredByStore ==
    ASSUME PlannerInv, Store, NEW r \in Robot
    PROVE  \/ /\ r \notin Range(call.robot_numbers)
              /\ robot_route'[r] = robot_route[r]
           \/ \E j \in DOMAIN result : /\ j \in DOMAIN call.robot_numbers
                                       /\ call.robot_numbers[j] = r
                                       /\ robot_route'[r] = result[j]
<1> DEFINE turn == CHOOSE j \in DOMAIN call.robot_numbers : call.robot_numbers[j] = r
           InCall == \E j \in DOMAIN call.robot_numbers : call.robot_numbers[j] = r
<1>1. robot_route'[r] = IF InCall THEN result[turn] ELSE robot_route[r]
  BY DEF Store
<1>2. DOMAIN result = DOMAIN call.robot_numbers
  BY DEF Store, PlannerInv, LMapInv, RoutesOK, CallOK, CallRecord
<1>3. InCall => turn \in DOMAIN call.robot_numbers /\ call.robot_numbers[turn] = r
  OBVIOUS
<1>4. ~ InCall => r \notin Range(call.robot_numbers)
  BY DEF Range
<1> HIDE DEF turn, InCall
<1> QED
  BY <1>1, <1>2, <1>3, <1>4

\* The routes are stored.
LEMMA StoreRoutes ==
    ASSUME RoutesInv, PlannerInv', Store
    PROVE  RouteInv' /\ EachOnce' /\ ResultFits'
<1>1. pc = "done" /\ returned
  BY DEF Store
<1>2. ASSUME NEW r \in Robot PROVE Drivable(robot_route'[r])
  <2>1. robot_route'[r] = robot_route[r] \/ \E j \in DOMAIN result : robot_route'[r] = result[j]
    BY StoredByStore DEF RoutesInv
  <2>2. Drivable(robot_route[r]) /\ \A j \in DOMAIN result : Drivable(result[j])
    BY DEF RoutesInv, RouteInv, RoutesDrivable
  <2> QED
    BY <2>1, <2>2
<1>3. RouteInv' /\ ResultFits'
  BY <1>1, <1>2, returnedRoutes DEF RoutesInv, PlannerInv
<1>4. call' = NoCall
  BY <1>1 DEF returned
<1>5. EachOnce'
  BY <1>4 DEF EachOnce, NoCall
<1> QED
  BY <1>3, <1>5

\* Every step preserves the invariant of the routes.
LEMMA RoutesStep ==
    ASSUME SmallFleet, OwnLocks, RoutesInv, [Next]_vars
    PROVE  RoutesInv'
<1>1. PlannerInv'
  BY StepInv DEF RoutesInv
<1>2. ASSUME NEW r \in Robot, CallForOne(r) PROVE RoutesInv'
  BY <1>1, <1>2, CallForOneRoutes DEF RoutesInv
<1>3. CASE CallForAll
  BY <1>1, <1>3, CallForAllRoutes DEF RoutesInv
<1>4. CASE Plan
  <2>1. RouteInv'
    BY <1>1, <1>4, PlannerStepRoutes DEF Plan, RoutesInv, PlannerInv
  <2>2. call' = call
    BY <1>4, PlannerStepRuns DEF Plan
  <2> QED
    BY <1>1, <2>1, <2>2 DEF RoutesInv, EachOnce
<1>5. CASE Store
  BY <1>1, <1>5, StoreRoutes DEF RoutesInv
<1>6. CASE UNCHANGED vars
  <2>1. RouteInv' /\ call' = call
    BY <1>6, RoutesKept DEF RoutesInv, vars, lmapVars, redisVars, callVars
  <2> QED
    BY <1>1, <2>1 DEF RoutesInv, EachOnce
<1> QED
  BY <1>2, <1>3, <1>4, <1>5, <1>6 DEF Next, Idle

\* The initial state satisfies it.
LEMMA InitRoutesInv ==
    ASSUME Init
    PROVE  /\ RoutesInv /\ ResultFits
           /\ \A r, s \in Robot : Compatible(robot_route[r], robot_route[s])
<1>1. Home \in [Robot -> Node] /\ now \in Nat /\ now < INF /\ LMapInit(Home, now)
  BY ClientAssumption DEF Init
<1>2. PlannerInv
  BY InitInv
<1>3. /\ RouteInv /\ ResultFits
      /\ \A r, s \in Robot : Compatible(robot_route[r], robot_route[s])
  BY <1>1, <1>2, InitRoutes DEF PlannerInv
<1>4. EachOnce
  BY <1>1 DEF LMapInit, NoCall, EachOnce
<1> QED
  BY <1>2, <1>3, <1>4 DEF RoutesInv

\* RoutesInv is inductive for fleets and maps like those of the repository.
THEOREM RoutesInvariant ==
    ASSUME SmallFleet, OwnLocks
    PROVE  Spec => []RoutesInv
<1>1. Init => RoutesInv
  BY InitRoutesInv
<1>2. RoutesInv /\ [Next]_vars => RoutesInv'
  BY RoutesStep
<1> QED
  BY <1>1, <1>2, PTL DEF Spec

(* For three robots and nodes that lock themselves, the windows of a lock list
   stay in order with gaps between them, through every reduction of the table. *)
THEOREM LocksStaySeparated ==
    ASSUME SmallFleet, OwnLocks
    PROVE  Spec => []LocksSeparated
<1>1. RoutesInv => LocksSeparated
  BY RoutesAreRight DEF RoutesInv, PlannerInv
<1> QED
  BY <1>1, RoutesInvariant, PTL

(* Every arrival window of the search is free of every lock on its node, and can
   be reached from a window of its parent. *)
THEOREM WindowsAreSound ==
    ASSUME SmallFleet, OwnLocks
    PROVE  Spec => []WindowsSound
<1>1. RoutesInv => WindowsSound
  BY RoutesAreRight DEF RoutesInv, PlannerInv
<1> QED
  BY <1>1, RoutesInvariant, PTL

(* printShortestPathHelper never runs out of choices at the first node: its
   caller never reads the empty list of a failed choice. *)
THEOREM ChoicesDoNotRunOut ==
    ASSUME SmallFleet, OwnLocks
    PROVE  Spec => []ChainExists
<1>1. RoutesInv => ChainExists
  BY RoutesAreRight DEF RoutesInv, PlannerInv
<1> QED
  BY <1>1, RoutesInvariant, PTL

(* Every finished route makes one hop of the map after the other, never waits a
   negative time, visits no node twice, and leads from the start, at the time
   asked for or later, to the target. *)
THEOREM RoutesAreWellFormed ==
    ASSUME SmallFleet, OwnLocks
    PROVE  Spec => []RouteWellFormed
<1>1. RoutesInv => RouteWellFormed
  BY RoutesAreRight DEF RoutesInv, PlannerInv
<1> QED
  BY <1>1, RoutesInvariant, PTL

(* A finished route passes every node clear of all the routes it was planned
   around. *)
THEOREM RoutesPassClear ==
    ASSUME SmallFleet, OwnLocks
    PROVE  Spec => []PassesClear
<1>1. RoutesInv => PassesClear
  BY RoutesAreRight DEF RoutesInv, PlannerInv
<1> QED
  BY <1>1, RoutesInvariant, PTL

(* ... and, where no edge takes longer than the lock tail, meets none of them
   head-on, although edges are not locked. *)
THEOREM RoutesNeverMeetHeadOn ==
    ASSUME SmallFleet, OwnLocks, ShortEdges
    PROVE  Spec => []NeverHeadOn
<1>1. RoutesInv => NeverHeadOn
  BY RoutesAreRight DEF RoutesInv, PlannerInv
<1> QED
  BY <1>1, RoutesInvariant, PTL

--------------------------------------------------------------------------------
(* The promise to the caller. *)

\* The routes that are stored, and those that a call has so far, go together.
FleetFits == ResultFits /\ StoredRoutesCompatible

\* The routes of a call that are stored fit the others, and one another.
LEMMA StoreFits ==
    ASSUME RoutesInv, FleetFits, Store
    PROVE  StoredRoutesCompatible'
<1>1. ASSUME NEW r \in Robot, NEW s \in Robot, r # s
      PROVE  Compatible(robot_route'[r], robot_route'[s])
  <2>1. /\ robot_route[r] \in Route /\ robot_route[s] \in Route
        /\ \A j \in DOMAIN result : result[j] \in Route
    BY DEF RoutesInv, PlannerInv, LMapInv, RoutesOK
  <2>2. CASE r \notin Range(call.robot_numbers) /\ s \notin Range(call.robot_numbers)
    <3>1. robot_route'[r] = robot_route[r] /\ robot_route'[s] = robot_route[s]
      BY <2>2, StoredByStore DEF RoutesInv, Range
    <3> QED
      BY <1>1, <3>1 DEF FleetFits, StoredRoutesCompatible
  <2>3. CASE r \in Range(call.robot_numbers) /\ s \notin Range(call.robot_numbers)
    <3>1. PICK j \in DOMAIN result : robot_route'[r] = result[j]
      BY <2>3, StoredByStore DEF RoutesInv
    <3>2. robot_route'[s] = robot_route[s]
      BY <2>3, StoredByStore DEF RoutesInv, Range
    <3> QED
      BY <2>3, <3>1, <3>2 DEF FleetFits, ResultFits
  <2>4. CASE r \notin Range(call.robot_numbers) /\ s \in Range(call.robot_numbers)
    <3>1. PICK j \in DOMAIN result : robot_route'[s] = result[j]
      BY <2>4, StoredByStore DEF RoutesInv
    <3>2. robot_route'[r] = robot_route[r]
      BY <2>4, StoredByStore DEF RoutesInv, Range
    <3>3. Compatible(result[j], robot_route[r])
      BY <2>4 DEF FleetFits, ResultFits
    <3> QED
      BY <2>1, <3>1, <3>2, <3>3, CompatibleBothWays
  <2>5. CASE r \in Range(call.robot_numbers) /\ s \in Range(call.robot_numbers)
    <3>1. PICK j \in DOMAIN result : call.robot_numbers[j] = r /\ robot_route'[r] = result[j]
      BY <2>5, StoredByStore DEF RoutesInv
    <3>2. PICK l \in DOMAIN result : call.robot_numbers[l] = s /\ robot_route'[s] = result[l]
      BY <2>5, StoredByStore DEF RoutesInv
    <3>3. j # l
      BY <1>1, <3>1, <3>2
    <3> QED
      BY <3>1, <3>2, <3>3 DEF FleetFits, ResultFits
  <2> QED
    BY <2>2, <2>3, <2>4, <2>5
<1> QED
  BY <1>1 DEF StoredRoutesCompatible

\* Every step preserves it.
LEMMA FleetFitsStep ==
    ASSUME SmallFleet, OwnLocks, ShortEdges, RoutesInv, FleetFits, [Next]_vars
    PROVE  FleetFits'
<1>1. PlannerInv' /\ ResultFits /\ StoredRoutesCompatible
  BY StepInv DEF RoutesInv, FleetFits
<1>2. ASSUME NEW r \in Robot, CallForOne(r) PROVE FleetFits'
  <2>1. ResultFits' /\ robot_route' = robot_route
    BY <1>1, <1>2, CallForOneRoutes DEF CallForOne, serve
  <2> QED
    BY <1>1, <2>1 DEF FleetFits, StoredRoutesCompatible
<1>3. CASE CallForAll
  <2>1. ResultFits' /\ robot_route' = robot_route
    BY <1>1, <1>3, CallForAllRoutes DEF CallForAll, serve
  <2> QED
    BY <1>1, <2>1 DEF FleetFits, StoredRoutesCompatible
<1>4. CASE Plan
  <2>1. ResultFits' /\ robot_route' = robot_route
    BY <1>1, <1>4, PlannerStepFits, PlannerStepRuns DEF Plan, RoutesInv, PlannerInv
  <2> QED
    BY <1>1, <2>1 DEF FleetFits, StoredRoutesCompatible
<1>5. CASE Store
  <2>1. ResultFits'
    BY <1>1, <1>5, StoreRoutes
  <2> QED
    BY <1>5, <2>1, StoreFits DEF FleetFits
<1>6. CASE UNCHANGED vars
  <2>1. UNCHANGED <<robot_route, result, call>>
    BY <1>6 DEF vars, lmapVars, redisVars, callVars, lockVars
  <2> QED
    BY <1>1, <2>1 DEF FleetFits, ResultFits, StoredRoutesCompatible
<1> QED
  BY <1>2, <1>3, <1>4, <1>5, <1>6 DEF Next, Idle

\* So the stored routes and those of the call always go together.
THEOREM FleetAlwaysFits ==
    ASSUME SmallFleet, OwnLocks, ShortEdges
    PROVE  Spec => []FleetFits
<1>1. Init => FleetFits
  BY InitRoutesInv DEF FleetFits, StoredRoutesCompatible
<1>2. RoutesInv /\ FleetFits /\ [Next]_vars => FleetFits'
  BY FleetFitsStep
<1> QED
  BY <1>1, <1>2, RoutesInvariant, PTL DEF Spec

(* Whatever sequence of calls produced them, the routes stored for two robots
   are never at a node they both pass at the same time, and never meet head-on. *)
THEOREM StoredRoutesStayCompatible ==
    ASSUME SmallFleet, OwnLocks, ShortEdges
    PROVE  Spec => []StoredRoutesCompatible
<1>1. FleetFits => StoredRoutesCompatible
  BY DEF FleetFits
<1> QED
  BY <1>1, FleetAlwaysFits, PTL

\* A call looks the same to the caller until it is answered.
LEMMA PlanPromise ==
    ASSUME RoutesInv, RoutesInv', FleetFits', Plan
    PROVE  Promise!Answer \/ Promise!Look
<1>1. /\ PlanningCall /\ pc' # "ready" /\ call' = call /\ robot_route' = robot_route
      /\ pc' = "done" => robot_positions' = robot_positions
  BY PlannerStepRuns DEF Plan
<1>2. phase = "planning" /\ answer = <<>>
  BY <1>1 DEF phase, answer, PlanningCall
<1>3. CASE pc' # "done"
  <2>1. phase' = "planning" /\ answer' = <<>>
    BY <1>1, <1>3 DEF phase, answer
  <2> QED
    BY <1>1, <1>2, <2>1 DEF Promise!Look
<1>4. CASE pc' = "done"
  <2>1. phase' = "answered" /\ answer' = result'
    BY <1>4 DEF phase, answer
  <2>2. DOMAIN result' = DOMAIN call.robot_numbers
    BY <1>1, <1>4 DEF RoutesInv, PlannerInv, LMapInv, RoutesOK, CallOK, CallRecord
  <2>3. Promise!AllRouted(result') \/ Promise!AllStand(result')
    <3>1. AnswerSound'
      BY DEF RoutesInv, RouteInv
    <3> QED
      BY <1>1, <1>4, <2>2, <3>1 DEF AnswerSound, Promise!AllRouted, Promise!AllStand, Promise!Leads
  <2>4. Promise!FitTogether(result')
    BY <1>1 DEF FleetFits, ResultFits, Promise!FitTogether, Range, Promise!Range
  <2>5. Promise!Answer
    BY <1>1, <1>2, <1>4, <2>1, <2>2, <2>3, <2>4 DEF Promise!Answer
  <2> QED
    BY <2>5
<1> QED
  BY <1>3, <1>4

\* Storing the routes of a call stores all of them, and nothing else.
LEMMA StorePromise ==
    ASSUME RoutesInv, Store
    PROVE  Promise!Store
<1>1. /\ pc = "done" /\ pc' = "ready" /\ DOMAIN result = DOMAIN call.robot_numbers
      /\ call.robot_numbers \in Seq(Robot)
  BY DEF Store, returned, RoutesInv, PlannerInv, LMapInv, RoutesOK, CallOK, CallRecord
<1>2. phase = "answered" /\ phase' = "idle" /\ answer = result
  BY <1>1 DEF phase, answer
<1>3. Promise!Stored(robot_route')
  BY <1>1, <1>2, StoredByStore DEF Promise!Stored, RoutesInv
<1>4. ASSUME NEW j \in DOMAIN result
      PROVE  robot_route'[call.robot_numbers[j]] = result[j]
  <2>1. j \in DOMAIN call.robot_numbers /\ call.robot_numbers[j] \in Robot
        /\ call.robot_numbers[j] \in Range(call.robot_numbers)
    BY <1>1 DEF Range
  <2>2. PICK l \in DOMAIN result : /\ l \in DOMAIN call.robot_numbers
                                   /\ call.robot_numbers[l] = call.robot_numbers[j]
                                   /\ robot_route'[call.robot_numbers[j]] = result[l]
    BY <2>1, StoredByStore DEF RoutesInv
  <2>3. l = j
    BY <2>1, <2>2 DEF RoutesInv, EachOnce
  <2> QED
    BY <2>2, <2>3
<1> QED
  BY <1>2, <1>3, <1>4 DEF Promise!Store

\* Every step is one of the promise, or nothing to the caller.
LEMMA StepPromise ==
    ASSUME RoutesInv, RoutesInv', FleetFits', [Next]_vars
    PROVE  [Promise!Next]_(Promise!vars)
<1>1. ASSUME NEW r \in Robot, CallForOne(r) PROVE Promise!Serve
  BY <1>1 DEF CallForOne, serve, Promise!Serve, phase, answer
<1>2. CASE CallForAll
  BY <1>2 DEF CallForAll, serve, Promise!Serve, Promise!Next, phase, answer
<1>3. CASE Plan
  BY <1>3, PlanPromise DEF Promise!Next
<1>4. CASE Store
  BY <1>4, StorePromise DEF Promise!Next
<1>5. CASE UNCHANGED vars
  BY <1>5 DEF vars, lmapVars, redisVars, callVars, lockVars, Promise!vars, phase, answer
<1> QED
  BY <1>1, <1>2, <1>3, <1>4, <1>5 DEF Next, Idle, Promise!Next

(* The planner implements RoutePlanner: search, choice of windows, locking and
   the reuse of the lock table within a call look to the caller like one step
   that answers with routes from start to target that fit all stored ones, or
   with standing still for all; and nothing else is ever stored. *)
THEOREM PlannerKeepsPromise ==
    ASSUME SmallFleet, OwnLocks, ShortEdges
    PROVE  Spec => KeepsPromise
<1>1. Init => Promise!Init
  BY DEF Init, LMapInit, Promise!Init, phase, answer
<1>2. RoutesInv /\ RoutesInv' /\ FleetFits' /\ [Next]_vars => [Promise!Next]_(Promise!vars)
  BY StepPromise
<1> QED
  BY <1>1, <1>2, RoutesInvariant, FleetAlwaysFits, PTL DEF Spec, KeepsPromise, Promise!Spec

================================================================================
