---------------------------------- MODULE MCMapStore ----------------------------------
(* An instance of MapStore: all drawings of two rows with three cells. *)
EXTENDS MapStore

MCDrawing == [1 .. 2 -> [1 .. 3 -> {0, 1}]] \ {[i \in 1 .. 2 |-> [j \in 1 .. 3 |-> 0]]}
================================================================================
