--------------------------------- MODULE MCFleet ---------------------------------
(****************************************************************************)
(* Robots on one aisle of nodes in a row.  Nodes next to each other are a   *)
(* short hop apart; a robot off its route may have a long one to its head.  *)
(****************************************************************************)
EXTENDS Fleet

CONSTANT Length

MCNode == 0 .. Length - 1
MCNodeList == [n \in MCNode |-> [x |-> n, y |-> 0]]
MCHome == [r \in Robot |-> r - 1]

\* The way along the aisle.
MCPaths(a, b) ==
    {[j \in 1 .. (IF a < b THEN b - a ELSE a - b) + 1 |->
        IF a < b THEN a + j - 1 ELSE a - j + 1]}
================================================================================
