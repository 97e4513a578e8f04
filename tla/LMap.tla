---------------------------------- MODULE LMap ----------------------------------
(****************************************************************************)
(* The route planner: class LMap (AStar.cpp), method serve and what it      *)
(* calls.  One call plans routes for a list of robots, one after the other, *)
(* over the time windows that the routes of the other robots, and the       *)
(* routes planned earlier in the call, leave free.  The planner runs in one *)
(* thread; each action below is one turn of one of its loops.               *)
(*                                                                          *)
(* A call is one search per robot: an A* search over nodes that carry lists *)
(* of feasible arrival windows, then a walk back along the pre_node links,  *)
(* then a depth-first choice of one window per node of the path.            *)
(****************************************************************************)
EXTENDS TimeWindows

CONSTANTS
    robot_number,          \* robots are 1 .. robot_number (3 in the code)
    Node,                  \* physical_node_ids
    node_list,             \* the coordinates of each node
    neighbour_node_list,   \* the adjacent nodes of each node, in order
    travel_time_list,      \* how long it takes to go to each of them
    lock_node_list         \* the nodes a robot occupies when it is at a node

Robot == 1 .. robot_number

ASSUME RobotAssumption == robot_number \in Nat \ {0}

ASSUME MapAssumption ==
    /\ Node \subseteq Nat
    /\ node_list \in [Node -> [x : Int, y : Int]]
    /\ neighbour_node_list \in [Node -> Seq(Node)]
    /\ lock_node_list \in [Node -> Seq(Node)]
    /\ DOMAIN travel_time_list = Node
    /\ \A n \in Node :
         travel_time_list[n] \in [DOMAIN neighbour_node_list[n] -> Nat \ {0}]

VARIABLES
    robot_route,              \* Redis: robot_vpoint, _waittime, _traveltime, _arr_and_depar_time
    robot_position,           \* Redis: robot_position
    pc,                       \* which loop of the planner runs
    call,                     \* the arguments of serve
    robot_positions,          \* this->robot_positions, read once per call
    needToInit,               \* robots whose stored route is still to be locked
    node_locked_time_window,  \* per node, the windows locked so far
    result,                   \* the routes planned so far in this call
    tree,                     \* every ruofan_time_node of this search, in order of creation
    openList,                 \* those still to be expanded (their places in tree)
    openListSet,              \* the map nodes that have been put into openList
    parent_node,              \* the search node taken from openList last
    neighbour,                \* which of its neighbours is looked at
    iter,                     \* the walk back along pre_node; 0 is NULL
    nodeVec,                  \* the search nodes of the path found
    myList,                   \* the window chosen at each of the first ones (its place)
    candidate                 \* the window tried next at the next one

redisVars  == <<robot_route, robot_position>>
searchVars == <<tree, openList, openListSet, parent_node, neighbour>>
pathVars   == <<iter, nodeVec, myList, candidate>>
callVars   == <<call, robot_positions, needToInit>>
lockVars   == <<node_locked_time_window, result>>
lmapVars   == <<redisVars, pc, callVars, lockVars, searchVars, pathVars>>

--------------------------------------------------------------------------------
(* Routes. *)

\* A route of one point, where the robot may stay for ever.
OnePointRoute(n, t) ==
    [vps |-> <<n>>, wts |-> <<0>>, tts |-> <<0>>,
     arr_and_depar_time |-> <<[first |-> t, second |-> INF]>>]

getManhatenDistance(n, m) ==
    LET dist(a, b) == IF a < b THEN b - a ELSE a - b
    IN  dist(node_list[n].x, node_list[m].x) + dist(node_list[n].y, node_list[m].y)

LockTail == 4    \* 2.0 * (1 + 1): how long a node stays locked after its departure

\* When the robot is at place i of the route, by its travel and wait times.
ArrivalTime(route, i) ==
    LET curr_arr_time[j \in DOMAIN route.vps] ==
            IF j = 1 THEN route.arr_and_depar_time[1].first
            ELSE curr_arr_time[j - 1] + route.tts[j - 1] + route.wts[j - 1]
    IN  curr_arr_time[i]

LockEnd(route, i) ==
    IF i = Len(route.vps) THEN INF
    ELSE ArrivalTime(route, i) + route.wts[i] + LockTail

\* Mutant: the time the robot waits at a node is not locked.
LockedBy_NoWait(route, n) ==
    Subsequence([i \in DOMAIN route.vps |->
                    [first  |-> ArrivalTime(route, i),
                     second |-> IF i = Len(route.vps) THEN INF
                                ELSE ArrivalTime(route, i) + LockTail]],
                {i \in DOMAIN route.vps : n \in Range(lock_node_list[route.vps[i]])})

\* The windows route locks at node n, in the order in which it passes.
LockedBy(route, n) ==
    Subsequence([i \in DOMAIN route.vps |->
                    [first |-> ArrivalTime(route, i), second |-> LockEnd(route, i)]],
                {i \in DOMAIN route.vps : n \in Range(lock_node_list[route.vps[i]])})

\* Mutant: the windows are not reduced.
LockedAndReduced_NotReduced(route) ==
    [n \in Node |-> node_locked_time_window[n] \o LockedBy(route, n)]

\* LockTimeWindow(route), then TimeWindowReduction4Node(), which reduces the
\* list of every node.
LockedAndReduced(route) ==
    [n \in Node |->
        TimeWindowReduction4NodeHelper(node_locked_time_window[n] \o LockedBy(route, n))]

--------------------------------------------------------------------------------
(* The initial state: init3Cars.py gives every robot a route of one point. *)

NoSearch ==
    /\ tree = <<>> /\ openList = {} /\ openListSet = {}
    /\ parent_node = 0 /\ neighbour = 1
    /\ iter = 0 /\ nodeVec = <<>> /\ myList = <<>> /\ candidate = 1

NoCall == [robot_numbers |-> <<>>, from_ids |-> <<>>, to_ids |-> <<>>, start_working_time |-> 0]

LMapInit(homes, t) ==
    /\ robot_position = homes
    /\ robot_route = [r \in Robot |-> OnePointRoute(homes[r], t)]
    /\ pc = "ready"
    /\ call = NoCall
    /\ robot_positions = <<>>
    /\ needToInit = {}
    /\ node_locked_time_window = [n \in Node |-> <<>>]
    /\ result = <<>>
    /\ NoSearch

\* Mutant: parent_node survives the search.
EndSearch_KeepsParent ==
    /\ tree' = <<>> /\ openList' = {} /\ openListSet' = {}
    /\ parent_node' = parent_node /\ neighbour' = 1
    /\ iter' = 0 /\ nodeVec' = <<>> /\ myList' = <<>> /\ candidate' = 1

\* The locals of one turn of the loop over the robots go out of scope.
EndSearch ==
    /\ tree' = <<>> /\ openList' = {} /\ openListSet' = {}
    /\ parent_node' = 0 /\ neighbour' = 1
    /\ iter' = 0 /\ nodeVec' = <<>> /\ myList' = <<>> /\ candidate' = 1

--------------------------------------------------------------------------------
(* serve: forget all locks, read where the robots are, and lock the stored      *)
(* routes of all robots that are not planned for.                             *)

serve(robot_numbers, from_ids, to_ids, start_working_time) ==
    /\ pc = "ready"
    /\ call' = [robot_numbers |-> robot_numbers, from_ids |-> from_ids,
                to_ids |-> to_ids, start_working_time |-> start_working_time]
    /\ node_locked_time_window' = [n \in Node |-> <<>>]
    /\ needToInit' = Robot \ Range(robot_numbers)
    /\ robot_positions' = <<>>
    /\ result' = <<>>
    /\ pc' = "getRobotPositions"
    /\ UNCHANGED <<robot_route, searchVars, pathVars>>

\* GetRobotPositions, one HGET of its loop.
getRobotPositions ==
    /\ pc = "getRobotPositions"
    /\ LET i == Len(robot_positions) + 1
       IN  /\ robot_positions' = Append(robot_positions, robot_position[i])
           /\ pc' = IF i = robot_number THEN "initLockArea" ELSE "getRobotPositions"
    /\ UNCHANGED <<redisVars, call, needToInit, lockVars, searchVars, pathVars>>

\* Mutant: the locks of one robot replace those of the one before.
initLockArea_Overwrites ==
    /\ pc = "initLockArea"
    /\ needToInit # {}
    /\ LET robot_id == Min(needToInit)
       IN  /\ node_locked_time_window' = [n \in Node |-> LockedBy(robot_route[robot_id], n)]
           /\ needToInit' = needToInit \ {robot_id}
    /\ UNCHANGED <<redisVars, pc, call, robot_positions, result, searchVars, pathVars>>

initLockArea ==
    /\ pc = "initLockArea"
    /\ needToInit # {}
    /\ LET robot_id == Min(needToInit)
       IN  /\ node_locked_time_window' = LockedAndReduced(robot_route[robot_id])
           /\ needToInit' = needToInit \ {robot_id}
    /\ UNCHANGED <<redisVars, pc, call, robot_positions, result, searchVars, pathVars>>

locksInitialised ==
    /\ pc = "initLockArea"
    /\ needToInit = {}
    /\ pc' = "start"
    /\ UNCHANGED <<redisVars, callVars, lockVars, searchVars, pathVars>>

--------------------------------------------------------------------------------
(* multi_pp, one turn of its loop over the robots.  k is the turn. *)

k == Len(result) + 1
start_id == call.from_ids[k]
end_id == call.to_ids[k]

\* The legal intervals of a node, restricted to those of all its lock nodes.
LegalArea(n) ==
    LET lock_nodes == lock_node_list[n]
        legal[j \in 0 .. Len(lock_nodes)] ==
            IF j = 0 THEN getLegalInterVals4Node(node_locked_time_window[n])
            ELSE merge_feasible_arrtime(
                    legal[j - 1],
                    getLegalInterVals4Node(node_locked_time_window[lock_nodes[j]]))
    IN  legal[Len(lock_nodes)]

\* A robot may leave its start node only before the node's first lock.
StartWindows ==
    LET locked == node_locked_time_window[start_id]
        fesible4start ==
            [first  |-> call.start_working_time,
             second |-> IF locked # <<>> THEN locked[1].first ELSE INF]
    IN  merge_feasible_arrtime(<<fesible4start>>, LegalArea(start_id))

\* Mutant: the robots planned before in the call keep their routes.
StandDone_Partly ==
    /\ result' = [j \in DOMAIN call.robot_numbers |->
                     IF j < k THEN result[j]
                     ELSE OnePointRoute(robot_positions[call.robot_numbers[j]],
                                        call.start_working_time)]
    /\ pc' = "done"
    /\ EndSearch
    /\ UNCHANGED <<redisVars, callVars, node_locked_time_window>>

\* "standDone": give up the whole call, and have all its robots stay where the
\* planner saw them.
StandDone ==
    /\ result' = [j \in DOMAIN call.robot_numbers |->
                     OnePointRoute(robot_positions[call.robot_numbers[j]],
                                   call.start_working_time)]
    /\ pc' = "done"
    /\ EndSearch
    /\ UNCHANGED <<redisVars, callVars, node_locked_time_window>>

noStartWindow ==
    /\ pc = "start"
    /\ StartWindows = <<>>
    /\ StandDone

startSearch ==
    /\ pc = "start"
    /\ StartWindows # <<>>
    /\ tree' = <<[node_id |-> start_id, pre_node |-> 0, travel_time_from_parent |-> 0,
                  feasible_arrival_time |-> <<StartWindows[1]>>,
                  Punish |-> 0, key |-> StartWindows[1].first]>>
    /\ openList' = {1}
    /\ openListSet' = {start_id}
    /\ pc' = "search"
    /\ UNCHANGED <<redisVars, callVars, lockVars, parent_node, neighbour, pathVars>>

openListEmpty ==
    /\ pc = "search"
    /\ openList = {}
    /\ StandDone

\* openList.begin(): the least key, the oldest among equals (a multimap keeps
\* the order of insertion).
FirstOpen ==
    CHOOSE a \in openList : \A b \in openList :
        tree[a].key < tree[b].key \/ (tree[a].key = tree[b].key /\ a <= b)

\* Mutant: the node is looked at and not erased.
popOpenList_NoErase ==
    /\ pc = "search"
    /\ openList # {}
    /\ parent_node' = FirstOpen
    /\ neighbour' = 1
    /\ IF tree[FirstOpen].node_id = end_id
       THEN pc' = "trace" /\ iter' = FirstOpen
       ELSE pc' = "expand" /\ UNCHANGED iter
    /\ UNCHANGED <<redisVars, callVars, lockVars, tree, openList, openListSet, nodeVec, myList,
                   candidate>>

popOpenList ==
    /\ pc = "search"
    /\ openList # {}
    /\ parent_node' = FirstOpen
    /\ openList' = openList \ {FirstOpen}
    /\ neighbour' = 1
    /\ IF tree[FirstOpen].node_id = end_id
       THEN pc' = "trace" /\ iter' = FirstOpen
       ELSE pc' = "expand" /\ UNCHANGED iter
    /\ UNCHANGED <<redisVars, callVars, lockVars, tree, openListSet, nodeVec, myList, candidate>>

--------------------------------------------------------------------------------
(* One neighbour of parent_node. *)

ParentId == tree[parent_node].node_id
NeighbourId == neighbour_node_list[ParentId][neighbour]
TravelTime == travel_time_list[ParentId][neighbour]
LookingAtNeighbour ==
    pc = "expand" /\ neighbour \in DOMAIN neighbour_node_list[ParentId]

\* Mutant: a window of the parent never closes.
ShiftedWindows_NoEnd(windows, tt) ==
    [j \in DOMAIN windows |-> [first |-> windows[j].first + tt, second |-> INF]]

\* The feasible windows of the parent, later by the travel time.
ShiftedWindows(windows, tt) ==
    [j \in DOMAIN windows |->
        [first  |-> windows[j].first + tt,
         second |-> IF windows[j].second = INF THEN INF ELSE windows[j].second + tt]]

\* Mutant: without the "2.18 change".
ArrivalLegal_NodeOnly(from, to, tt) == LegalArea(to)

\* Over a long edge ("2.18 change") the parent must be free as well when the
\* robot arrives, so that nobody can have entered the edge from the other end.
ArrivalLegal(from, to, tt) ==
    IF tt > 1 THEN merge_feasible_arrtime(LegalArea(from), LegalArea(to))
    ELSE LegalArea(to)

NeighbourWindows ==
    merge_feasible_arrtime(
        ShiftedWindows(tree[parent_node].feasible_arrival_time, TravelTime),
        ArrivalLegal(ParentId, NeighbourId, TravelTime))

\* The node the expansion adds, with its F value (G + H + Punish) as key.
NeighbourNode ==
    LET punish == tree[parent_node].Punish + (IF TravelTime > 10 THEN TravelTime ELSE 0)
        G == NeighbourWindows[1].first - call.start_working_time
        H == getManhatenDistance(NeighbourId, end_id)
    IN  [node_id |-> NeighbourId, pre_node |-> parent_node,
         travel_time_from_parent |-> TravelTime,
         feasible_arrival_time |-> NeighbourWindows,
         Punish |-> punish, key |-> G + H + punish]

\* A map node gets into the open list at most once per search; one that cannot
\* be reached in time from this parent may still be reached from another.
skipNeighbour ==
    /\ LookingAtNeighbour
    /\ NeighbourId \in openListSet \/ NeighbourWindows = <<>>
    /\ neighbour' = neighbour + 1
    /\ UNCHANGED <<redisVars, pc, callVars, lockVars, tree, openList, openListSet,
                   parent_node, pathVars>>

\* Mutant: the neighbour is not marked as seen.
addNeighbour_NotSeen ==
    /\ LookingAtNeighbour
    /\ NeighbourId \notin openListSet
    /\ NeighbourWindows # <<>>
    /\ tree' = Append(tree, NeighbourNode)
    /\ openList' = openList \union {Len(tree) + 1}
    /\ neighbour' = neighbour + 1
    /\ UNCHANGED <<redisVars, pc, callVars, lockVars, openListSet, parent_node, pathVars>>

addNeighbour ==
    /\ LookingAtNeighbour
    /\ NeighbourId \notin openListSet
    /\ NeighbourWindows # <<>>
    /\ tree' = Append(tree, NeighbourNode)
    /\ openList' = openList \union {Len(tree) + 1}
    /\ openListSet' = openListSet \union {NeighbourId}
    /\ neighbour' = neighbour + 1
    /\ UNCHANGED <<redisVars, pc, callVars, lockVars, parent_node, pathVars>>

expanded ==
    /\ pc = "expand"
    /\ neighbour \notin DOMAIN neighbour_node_list[ParentId]
    /\ pc' = "search"
    /\ UNCHANGED <<redisVars, callVars, lockVars, searchVars, pathVars>>

--------------------------------------------------------------------------------
(* printShortestPath: the path back to the start, then one window per node. *)

traceBack ==
    /\ pc = "trace"
    /\ iter # 0
    /\ nodeVec' = <<iter>> \o nodeVec
    /\ iter' = tree[iter].pre_node
    /\ UNCHANGED <<redisVars, pc, callVars, lockVars, searchVars, myList, candidate>>

traced ==
    /\ pc = "trace"
    /\ iter = 0
    /\ pc' = "chain"
    /\ UNCHANGED <<redisVars, callVars, lockVars, searchVars, pathVars>>

Windows(depth) == tree[nodeVec[depth]].feasible_arrival_time
Chosen(depth) == Windows(depth)[myList[depth]]
depth_ == Len(myList) + 1

\* A window can follow the last one chosen unless it opens only after the
\* robot would have to be there.
Follows(window, depth) ==
    depth > 1 => Chosen(depth - 1).second + tree[nodeVec[depth]].travel_time_from_parent
                    >= window.first

Choosing == pc = "chain" /\ depth_ \in DOMAIN nodeVec
TryingWindow == Choosing /\ candidate \in DOMAIN Windows(depth_)

chooseWindow ==
    /\ TryingWindow
    /\ Follows(Windows(depth_)[candidate], depth_)
    /\ myList' = Append(myList, candidate)
    /\ candidate' = 1
    /\ UNCHANGED <<redisVars, pc, callVars, lockVars, searchVars, iter, nodeVec>>

rejectWindow ==
    /\ TryingWindow
    /\ ~ Follows(Windows(depth_)[candidate], depth_)
    /\ candidate' = candidate + 1
    /\ UNCHANGED <<redisVars, pc, callVars, lockVars, searchVars, iter, nodeVec, myList>>

\* No window is left at this depth: the choice before it is taken back.
backtrack ==
    /\ Choosing
    /\ candidate \notin DOMAIN Windows(depth_)
    /\ myList # <<>>
    /\ candidate' = Last(myList) + 1
    /\ myList' = Front(myList)
    /\ UNCHANGED <<redisVars, pc, callVars, lockVars, searchVars, iter, nodeVec>>

\* Mutant: the time spent travelling is waited for once more.
generateRoute_WaitsTravel ==
    LET size == Len(nodeVec)
        travel_time == [d \in 1 .. size |->
            IF d < size THEN tree[nodeVec[d + 1]].travel_time_from_parent ELSE 0]
        wait_time == [d \in 1 .. size |->
            IF d < size THEN Chosen(d + 1).first - Chosen(d).first ELSE 0]
    IN  [vps |-> [d \in 1 .. size |-> tree[nodeVec[d]].node_id],
         wts |-> wait_time, tts |-> travel_time,
         arr_and_depar_time |-> [d \in 1 .. size |->
            [first  |-> Chosen(d).first,
             second |-> IF d < size THEN Chosen(d).first + wait_time[d]
                        ELSE Chosen(d).second]]]

\* generateRoute: wait at each node until the chosen window of the next opens.
generateRoute ==
    LET size == Len(nodeVec)
        travel_time == [d \in 1 .. size |->
            IF d < size THEN tree[nodeVec[d + 1]].travel_time_from_parent ELSE 0]
        wait_time == [d \in 1 .. size |->
            IF d < size THEN Chosen(d + 1).first - Chosen(d).first - travel_time[d] ELSE 0]
    IN  [vps |-> [d \in 1 .. size |-> tree[nodeVec[d]].node_id],
         wts |-> wait_time, tts |-> travel_time,
         arr_and_depar_time |-> [d \in 1 .. size |->
            [first  |-> Chosen(d).first,
             second |-> IF d < size THEN Chosen(d).first + wait_time[d]
                        ELSE Chosen(d).second]]]

routePlanned ==
    /\ pc = "chain"
    /\ Len(myList) = Len(nodeVec)
    /\ result' = Append(result, generateRoute)
    /\ node_locked_time_window' = LockedAndReduced(generateRoute)
    /\ pc' = IF k = Len(call.robot_numbers) THEN "done" ELSE "start"
    /\ EndSearch
    /\ UNCHANGED <<redisVars, callVars>>

PlannerStep ==
    \/ getRobotPositions
    \/ initLockArea \/ locksInitialised
    \/ noStartWindow \/ startSearch
    \/ openListEmpty \/ popOpenList
    \/ skipNeighbour \/ addNeighbour \/ expanded
    \/ traceBack \/ traced
    \/ chooseWindow \/ rejectWindow \/ backtrack
    \/ routePlanned

\* The caller is done with the routes serve returned.
returned ==
    /\ pc' = "ready"
    /\ call' = NoCall
    /\ result' = <<>>
    /\ UNCHANGED <<robot_positions, needToInit, node_locked_time_window, searchVars, pathVars>>

\* StoreRobotPath: the stored route of a robot is replaced.
StoreRobotPath(robot_id, route) ==
    robot_route' = [robot_route EXCEPT ![robot_id] = route]

--------------------------------------------------------------------------------
(* Properties of one call of serve. *)

Planned == [vps : Seq(Node), wts : Seq(Int), tts : Seq(Nat), arr_and_depar_time : Seq(TimeWindow)]

SearchNode ==
    [node_id : Node, pre_node : Nat, travel_time_from_parent : Nat,
     feasible_arrival_time : Seq(TimeWindow), Punish : Nat, key : Int]

(* The types of the planner's state. *)
LMapTypeOK ==
    /\ robot_route \in [Robot -> Planned]
    /\ robot_position \in [Robot -> Node]
    /\ pc \in {"ready", "getRobotPositions", "initLockArea", "start", "search", "expand",
               "trace", "chain", "done"}
    /\ call.robot_numbers \in Seq(Robot)
    /\ call.from_ids \in Seq(Node)
    /\ call.to_ids \in Seq(Node)
    /\ call.start_working_time \in Nat
    /\ robot_positions \in Seq(Node)
    /\ Len(robot_positions) <= robot_number
    /\ needToInit \subseteq Robot
    /\ node_locked_time_window \in [Node -> Seq(TimeWindow)]
    /\ result \in Seq(Planned)
    /\ tree \in Seq(SearchNode)
    /\ openList \subseteq DOMAIN tree
    /\ openListSet \subseteq Node
    /\ parent_node \in 0 .. Len(tree)
    /\ neighbour \in Nat
    /\ iter \in 0 .. Len(tree)
    /\ nodeVec \in Seq(DOMAIN tree)
    /\ myList \in Seq(Nat)
    /\ candidate \in Nat

(* A search looks at a map node once: openListSet holds exactly the nodes of
   the tree, no node is in the tree twice, and the pre_node links lead back to
   the start.  The search and the walk back along the links end because of it,
   and no route visits a node twice. *)
SearchTreeSound ==
    /\ openListSet = {tree[n].node_id : n \in DOMAIN tree}
    /\ \A a, b \in DOMAIN tree : tree[a].node_id = tree[b].node_id => a = b
    /\ \A n \in DOMAIN tree :
         /\ tree[n].pre_node < n
         /\ tree[n].pre_node = 0 => n = 1

\* The two windows have no instant in common.
Apart(v, w) == v.second <= w.first \/ w.second <= v.first

(* Every arrival window the search computes is free of every lock on its node,
   and can be reached from a window of the parent, whatever the merging and
   dropping of windows on the way. *)
WindowsSound ==
    \A n \in DOMAIN tree : \A w \in Range(tree[n].feasible_arrival_time) :
        /\ \A lock \in Range(node_locked_time_window[tree[n].node_id]) : Apart(w, lock)
        /\ tree[n].pre_node # 0 =>
             \E v \in Range(tree[tree[n].pre_node].feasible_arrival_time) :
                /\ v.first + tree[n].travel_time_from_parent <= w.first
                /\ v.second # INF => w.second <= v.second + tree[n].travel_time_from_parent

(* printShortestPathHelper never runs out of choices.  Its caller ignores the
   result -1 and would read the empty list. *)
ChainExists ==
    ~ (Choosing /\ myList = <<>> /\ candidate \notin DOMAIN Windows(1))

\* The loop over the path is over: generateRoute is what the call will return.
RouteReady == pc = "chain" /\ Len(myList) = Len(nodeVec)

DepartureTime(route, i) == ArrivalTime(route, i) + route.wts[i]

(* The route makes one hop after the other along the map, at the map's travel
   times, never waits a negative time, visits no node twice, starts where and
   when it was asked to (or later), and ends at the target; the arrival times
   that locking recomputes are those of the chosen windows. *)
RouteWellFormed ==
    RouteReady =>
        LET route == generateRoute
            size  == Len(route.vps)
        IN  /\ route.vps[1] = start_id /\ route.vps[size] = end_id
            /\ ArrivalTime(route, 1) >= call.start_working_time
            /\ \A i \in 1 .. size :
                 /\ route.wts[i] >= 0
                 /\ ArrivalTime(route, i) = route.arr_and_depar_time[i].first
            /\ \A i \in 1 .. size - 1 :
                 \E j \in DOMAIN neighbour_node_list[route.vps[i]] :
                    /\ neighbour_node_list[route.vps[i]][j] = route.vps[i + 1]
                    /\ travel_time_list[route.vps[i]][j] = route.tts[i]
            /\ \A i, j \in 1 .. size : route.vps[i] = route.vps[j] => i = j

\* The routes whose locks are in the table: those of the robots that are not
\* planned for, as far as they have been read, and those planned before in this
\* call.
LockedRoutes ==
    {robot_route[r] : r \in (Robot \ Range(call.robot_numbers)) \ needToInit}
        \union Range(result)

PlanningCall ==
    pc \in {"getRobotPositions", "initLockArea", "start", "search", "expand", "trace", "chain"}

(* The lock table never forgets: each route planned around holds each node of
   its lock area from its arrival until LockTail after its departure, and its
   last node for ever, after any number of reductions. *)
LocksCover ==
    PlanningCall =>
        \A route \in LockedRoutes : \A i \in DOMAIN route.vps :
            \A n \in Range(lock_node_list[route.vps[i]]) :
                \E w \in Range(node_locked_time_window[n]) :
                    /\ w.first <= ArrivalTime(route, i)
                    /\ LockEnd(route, i) <= w.second

(* The windows of each node stay in order with gaps between them: the legal
   intervals are then the complement of the locks (see WindowReduction). *)
LocksSeparated ==
    PlanningCall => \A n \in Node : Separated(node_locked_time_window[n])

\* A robot on route is clear of the other: it leaves each node of the other's
\* before the other comes, or comes when the other's lock is over.  At the end
\* of its route it stays, and only its arrival is considered.
Clear(route, other) ==
    \A i \in DOMAIN route.vps : \A j \in DOMAIN other.vps :
        (Range(lock_node_list[route.vps[i]]) \union {route.vps[i]})
                \intersect Range(lock_node_list[other.vps[j]]) # {} =>
            \/ ArrivalTime(route, i) >= LockEnd(other, j)
            \/ i < Len(route.vps) /\ DepartureTime(route, i) <= ArrivalTime(other, j)
            \/ i = Len(route.vps) /\ ArrivalTime(route, i) < ArrivalTime(other, j)

\* The two robots meet on an edge they travel in opposite directions.
Swap(route, other) ==
    \E i \in 1 .. Len(route.vps) - 1 : \E j \in 1 .. Len(other.vps) - 1 :
        /\ route.vps[i] = other.vps[j + 1] /\ route.vps[i + 1] = other.vps[j]
        /\ DepartureTime(route, i) < ArrivalTime(other, j + 1)
        /\ DepartureTime(other, j) < ArrivalTime(route, i + 1)

(* The route the call is about to return passes every node clear of all the
   routes it was planned around. *)
PassesClear == RouteReady => \A other \in LockedRoutes : Clear(generateRoute, other)

(* ... and meets none of them head-on between two nodes.  Nodes are locked,
   edges are not: this rests on the lock tail, and over long edges on the rule
   of ArrivalLegal. *)
NeverHeadOn == RouteReady => \A other \in LockedRoutes : ~ Swap(generateRoute, other)

\* Two stored routes that were planned around each other in either order.
Compatible(a, b) ==
    /\ ~ Swap(a, b)
    /\ \A i \in 1 .. Len(a.vps) - 1 : \A j \in 1 .. Len(b.vps) - 1 :
         a.vps[i] = b.vps[j] =>
            \/ DepartureTime(a, i) <= ArrivalTime(b, j)
            \/ DepartureTime(b, j) <= ArrivalTime(a, i)

--------------------------------------------------------------------------------
(* What the fleet and the maps of the repository have, and LMap alone does not
   ask for: the hypotheses of the theorems about routes (LMapProofs). *)

\* init3Cars.py and ROBOT_NUMBER: three robots.  With more, three windows may
\* stand in one list, and one pass of the reduction need not separate them.
SmallFleet == robot_number <= 3

\* smallmap.py: the lock area of a node is the node.
OwnLocks == \A n \in Node : Range(lock_node_list[n]) = {n}

\* A travel time is the distance of two nodes (readTravelTimeList), the same in
\* both directions, and 1 between neighbours of the grid of smallmap.py.
ShortEdges ==
    \A n \in Node : \A j \in DOMAIN neighbour_node_list[n] :
        LET m == neighbour_node_list[n][j]
        IN  /\ travel_time_list[n][j] <= LockTail
            /\ \A i \in DOMAIN neighbour_node_list[m] :
                 neighbour_node_list[m][i] = n => travel_time_list[m][i] = travel_time_list[n][j]

--------------------------------------------------------------------------------
(* The phase of a call, as its caller sees it. *)
phase ==
    CASE pc = "ready" -> "idle"
      [] pc = "done"  -> "answered"
      [] OTHER        -> "planning"

\* What serve has returned; nothing before.
answer == IF pc = "done" THEN result ELSE <<>>

Promise == INSTANCE RoutePlanner WITH OnePoint <- OnePointRoute

(* The planner keeps its promise to the caller (RoutePlanner): through search,
   choice of windows, locking and the reuse of the lock table within a call,
   every call is answered with routes from start to target that fit all stored
   ones, or with standing still for all, and nothing else is ever stored. *)
KeepsPromise == Promise!Spec

(* ... and it does answer every call. *)
KeepsPromiseInTime == Promise!FairSpec
================================================================================
