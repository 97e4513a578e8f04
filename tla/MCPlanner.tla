------------------------------- MODULE MCPlanner -------------------------------
(****************************************************************************)
(* The planner on a small map that smallmap.py and ReadMap would produce.   *)
(****************************************************************************)
EXTENDS PlannerClient

\* Two rows of three cells.
MCRawMap == <<<<1, 1, 1>>, <<1, 1, 1>>>>

Grid == INSTANCE Roadmap WITH raw_map <- MCRawMap

MCNode == Grid!PhysicalNodes
MCNodeList == Grid!physical_node_list
MCNeighbours == Grid!ReadNeighbourNodeList
MCTravelTimes == Grid!ReadTravelTimeList
MCLockNodes == Grid!ReadLockNodeList

MCHome == <<0, 5, 2>>
MCTarget == MCNode \ {0}
MCInstants == {1, 5}

\* The hypotheses of the theorems about routes hold of this fleet and map.
ASSUME Hypotheses == SmallFleet /\ OwnLocks /\ ShortEdges
================================================================================
