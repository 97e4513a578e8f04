--------------------------- MODULE MCWindowReduction ---------------------------
(****************************************************************************)
(* Every list of at most MaxLength windows over a short time axis.          *)
(****************************************************************************)
EXTENDS WindowReduction

CONSTANT MaxLength

MCLockWindow == {w \in [first : 0 .. INF, second : 0 .. INF] : w.first < w.second}

MCInitialLists == UNION {[1 .. n -> MCLockWindow] : n \in 0 .. MaxLength}
================================================================================
