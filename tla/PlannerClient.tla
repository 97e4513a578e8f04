----------------------------- MODULE PlannerClient -----------------------------
(****************************************************************************)
(* The planner under its calling discipline: main.cpp calls serve for one   *)
(* robot that stands at the end of its stored route, or for the whole fleet *)
(* wherever its robots are on their stored routes, stores what is returned, *)
(* and calls again, at the same time or later.  TaskServer has the caller   *)
(* and the robots in detail; here only what reaches the planner is kept.    *)
(****************************************************************************)
EXTENDS LMap

CONSTANTS
    Home,          \* the node each robot starts at
    Target,        \* the nodes targets are drawn from
    Instants,      \* the values the clock takes
    MaxServes,     \* bound: calls of serve
    FleetCalls     \* bound: those of them that plan for the whole fleet

ASSUME ClientAssumption ==
    /\ Home \in [Robot -> Node]
    /\ Target \subseteq Node
    /\ Instants \subseteq Nat
    /\ Instants # {}
    /\ \A t \in Instants : t < INF
    /\ MaxServes \in Nat
    /\ FleetCalls \in Nat

VARIABLES
    now,       \* time(NULL), as read for the last call
    task_to,   \* the target of each robot
    serves,    \* how many calls there have been
    fleetCalls \* how many of them for the whole fleet

clientVars == <<now, task_to, serves, fleetCalls>>
vars == <<lmapVars, clientVars>>

Init ==
    /\ now \in {t \in Instants : \A u \in Instants : t <= u}
    /\ LMapInit(Home, now)
    /\ task_to = Home
    /\ serves = 0
    /\ fleetCalls = 0

\* The clock is read for the call.
Call ==
    /\ serves < MaxServes
    /\ serves' = serves + 1
    /\ now' \in {t \in Instants : t >= now}

\* A robot that has reached the end of its route gets a target that no other
\* robot has.
CallForOne(r) ==
    /\ Call
    /\ robot_position' = [robot_position EXCEPT ![r] = Last(robot_route[r].vps)]
    /\ \E to \in Target \ {task_to[j] : j \in Robot \ {r}} :
          /\ task_to' = [task_to EXCEPT ![r] = to]
          /\ serve(<<r>>, <<robot_position'[r]>>, <<to>>, now')
    /\ UNCHANGED fleetCalls

\* dead_lock is up: all robots are replanned from where they are to the targets
\* they have.
CallForAll ==
    /\ Call
    /\ fleetCalls < FleetCalls
    /\ fleetCalls' = fleetCalls + 1
    /\ robot_position' \in {p \in [Robot -> Node] :
                               \A r \in Robot : p[r] \in Range(robot_route[r].vps)}
    /\ serve([r \in Robot |-> r], robot_position', task_to, now')
    /\ UNCHANGED task_to

Plan == PlannerStep /\ UNCHANGED clientVars

\* The caller stores the routes it gets back.
Store ==
    /\ pc = "done"
    /\ robot_route' = [r \in Robot |->
          IF \E j \in DOMAIN call.robot_numbers : call.robot_numbers[j] = r
          THEN result[CHOOSE j \in DOMAIN call.robot_numbers : call.robot_numbers[j] = r]
          ELSE robot_route[r]]
    /\ returned
    /\ UNCHANGED <<robot_position, clientVars>>

\* A pass of the caller's loop that finds nothing to plan.
Idle ==
    /\ pc = "ready"
    /\ UNCHANGED vars

Next ==
    \/ \E r \in Robot : CallForOne(r)
    \/ CallForAll
    \/ Plan
    \/ Store
    \/ Idle

\* The planner is the running thread: it is not kept waiting for ever.  This is
\* WF_vars(Plan) with "a planner step is possible" written out as PlanningCall;
\* that the two agree is what the deadlock check shows, for in a PlanningCall
\* state only Plan can step.
PlannerRuns == []<>(~ PlanningCall) \/ []<><<Plan>>_vars

Spec == Init /\ [][Next]_vars

FairSpec == Spec /\ PlannerRuns

--------------------------------------------------------------------------------
(* The types of the whole state. *)
TypeOK ==
    /\ LMapTypeOK
    /\ now \in Instants
    /\ task_to \in [Robot -> Node]
    /\ serves \in 0 .. MaxServes
    /\ fleetCalls \in 0 .. FleetCalls

(* Whatever sequence of calls produced them, the routes stored for two robots
   are never at a node they both pass at the same time, and never meet head-on:
   each was planned around the other's, or the other's around it. *)
StoredRoutesCompatible ==
    \A r, s \in Robot : r # s => Compatible(robot_route[r], robot_route[s])
================================================================================
