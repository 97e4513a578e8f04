------------------------------- MODULE KeyValueMap -------------------------------
(* What a dictionary promises: it is a function from some keys to values. *)
CONSTANTS Key, Val
VARIABLE map

Init == map = [k \in {} |-> 0]

Put(k, v) == map' = [l \in DOMAIN map \union {k} |-> IF l = k THEN v ELSE map[l]]
Remove(k) == map' = [l \in DOMAIN map \ {k} |-> map[l]]
Clear == map' = [k \in {} |-> 0]

Next == Clear \/ \E k \in Key : Remove(k) \/ \E v \in Val : Put(k, v)

Spec == Init /\ [][Next]_map
================================================================================
