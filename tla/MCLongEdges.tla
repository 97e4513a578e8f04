------------------------------ MODULE MCLongEdges ------------------------------
(****************************************************************************)
(* The planner on a map with long edges: two aisles of two edges that take  *)
(* three seconds each, joined by short cross links.  ReadMap computes such  *)
(* travel times from the coordinates of any map it finds in Redis.          *)
(****************************************************************************)
EXTENDS PlannerClient

MCNode == 0 .. 5

MCNodeList == [n \in MCNode |-> [x |-> n \div 3, y |-> 3 * (n % 3)]]

MCNeighbours ==
    (0 :> <<1, 3>>) @@ (1 :> <<0, 2, 4>>) @@ (2 :> <<1, 5>>)
    @@ (3 :> <<0, 4>>) @@ (4 :> <<1, 3, 5>>) @@ (5 :> <<2, 4>>)

MCTravelTimes ==
    [n \in MCNode |-> [i \in DOMAIN MCNeighbours[n] |->
        getManhatenDistance(n, MCNeighbours[n][i])]]

MCLockNodes == [n \in MCNode |-> <<n>>]

MCHome == <<0, 5, 2>>
MCTarget == MCNode \ {0}
MCInstants == {1, 9}

\* The hypotheses of the theorems about routes hold of this fleet and map.
ASSUME Hypotheses == SmallFleet /\ OwnLocks /\ ShortEdges
================================================================================
