----------------------------- MODULE MCTaskServer -----------------------------
(****************************************************************************)
(* Three robots in an aisle of five nodes, one link of which is long: the   *)
(* Emulator takes several turns for it.  Robots are in each other's way all *)
(* the time, so searches fail, and the fleet is replanned.                  *)
(****************************************************************************)
EXTENDS TaskServer

MCNode == 0 .. 4

MCNodeList == [n \in MCNode |-> [x |-> 1, y |-> IF n < 3 THEN n ELSE n + 1]]

MCNeighbours ==
    (0 :> <<1>>) @@ (1 :> <<0, 2>>) @@ (2 :> <<1, 3>>) @@ (3 :> <<2, 4>>) @@ (4 :> <<3>>)

MCTravelTimes ==
    [n \in MCNode |-> [i \in DOMAIN MCNeighbours[n] |->
        getManhatenDistance(n, MCNeighbours[n][i])]]

MCLockNodes == [n \in MCNode |-> <<n>>]

MCHome == <<1, 2, 0>>
MCInstants == {1, 5}

\* The hypotheses of the theorems about routes hold of this fleet and map.
ASSUME Hypotheses == SmallFleet /\ OwnLocks /\ ShortEdges
================================================================================
