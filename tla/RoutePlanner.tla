------------------------------ MODULE RoutePlanner ------------------------------
(****************************************************************************)
(* What the route planner promises to the server, without its search, its   *)
(* locks and its windows: LMap is shown to implement this (KeepsPromise of   *)
(* PlannerClient).  A call of serve is answered once.  Either every robot   *)
(* of the call gets a route from where it is to its target, starting no     *)
(* sooner than it was asked to, and compatible with the stored routes of    *)
(* the robots that were not in the call and with the others of the call;    *)
(* or every robot of the call is told to stay where it was seen.            *)
(****************************************************************************)
EXTENDS Naturals, Sequences, Functions

CONSTANTS
    Robot,
    Compatible(_, _),   \* two routes that can be driven together
    OnePoint(_, _)      \* the route of a robot that stays at a node from a time on

VARIABLES phase, call, robot_positions, answer, robot_route

vars == <<phase, call, robot_positions, answer, robot_route>>

Serve ==
    /\ phase = "idle"
    /\ phase' = "planning"
    /\ UNCHANGED <<answer, robot_route>>

\* While it plans, the planner looks where the robots are.
Look ==
    /\ phase = "planning"
    /\ UNCHANGED <<phase, call, answer, robot_route>>

Leads(route, from, to, start) ==
    /\ route.vps[1] = from
    /\ route.vps[Len(route.vps)] = to
    /\ route.arr_and_depar_time[1].first >= start

AllRouted(routes) ==
    \A j \in DOMAIN call.robot_numbers :
        Leads(routes[j], call.from_ids[j], call.to_ids[j], call.start_working_time)

AllStand(routes) ==
    \A j \in DOMAIN call.robot_numbers :
        routes[j] = OnePoint(robot_positions[call.robot_numbers[j]], call.start_working_time)

FitTogether(routes) ==
    \A j \in DOMAIN routes :
        /\ \A r \in Robot \ Range(call.robot_numbers) : Compatible(routes[j], robot_route[r])
        /\ \A l \in DOMAIN routes : l # j => Compatible(routes[j], routes[l])

Answer ==
    /\ phase = "planning"
    /\ phase' = "answered"
    /\ DOMAIN answer' = DOMAIN call.robot_numbers
    /\ AllRouted(answer') \/ AllStand(answer')
    /\ FitTogether(answer')
    /\ UNCHANGED <<call, robot_positions, robot_route>>

\* The routes are stored, together or one by one; the caller comes back only
\* when all of them are.
Stored(routes) ==
    \A r \in Robot :
        \/ routes[r] = robot_route[r]
        \/ \E j \in DOMAIN answer : call.robot_numbers[j] = r /\ routes[r] = answer[j]

Store ==
    /\ phase = "answered"
    /\ Stored(robot_route')
    /\ phase' = "answered" => UNCHANGED <<call, answer, robot_positions>>
    /\ phase' # "answered" =>
          /\ phase' = "idle"
          /\ \A j \in DOMAIN answer : robot_route'[call.robot_numbers[j]] = answer[j]

Init == phase = "idle" /\ answer = <<>>

Next == Serve \/ Look \/ Answer \/ Store

Spec == Init /\ [][Next]_vars

\* Every call is answered.
Answers == (phase = "planning") ~> (phase = "answered")

FairSpec == Spec /\ Answers
================================================================================
