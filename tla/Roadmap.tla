-------------------------------- MODULE Roadmap --------------------------------
(****************************************************************************)
(* How the planner's map comes about.  smallmap.py turns the cells of a     *)
(* drawing (smallmap.csv) into nodes, numbered row by row, and writes them  *)
(* to Redis with their adjacent and lock nodes; LMap::ReadMap reads them    *)
(* back and adds the travel times.                                          *)
(****************************************************************************)
EXTENDS Integers, Sequences, FiniteSets

CONSTANTS
    raw_map      \* the rows of the drawing, numbers; 0 and "" (no cell) are not nodes

Cells == UNION {{<<i, j>> : j \in {c \in DOMAIN raw_map[i] : raw_map[i][c] # 0}} :
                    i \in DOMAIN raw_map}

\* Row by row: how many nodes are numbered before a cell.
nodeIndex(c) ==
    Cardinality({d \in Cells : d[1] < c[1] \/ (d[1] = c[1] /\ d[2] < c[2])})

PhysicalNodes == {nodeIndex(c) : c \in Cells}

physical_node_list ==
    [n \in PhysicalNodes |->
        LET c == CHOOSE d \in Cells : nodeIndex(d) = n IN [x |-> c[1], y |-> c[2]]]

abs(u) == IF u < 0 THEN -u ELSE u
dx(n, m) == abs(physical_node_list[n].x - physical_node_list[m].x)
dy(n, m) == abs(physical_node_list[n].y - physical_node_list[m].y)

\* The members of S in ascending order: every list is filled by a scan of the
\* nodes in the order of their ids.
Scan(S) == [r \in 1 .. Cardinality(S) |-> CHOOSE n \in S : Cardinality({m \in S : m < n}) = r - 1]

phy_adjacent_nodes(n) ==
    Scan({m \in PhysicalNodes : m # n /\ dx(n, m) + dy(n, m) = 1})

l_lock_nodes(n) ==
    Scan({m \in PhysicalNodes : dx(n, m) <= 0 /\ dy(n, m) <= 0})

\* Adjacent nodes differ in one coordinate, so the Euclidean distance is dx + dy;
\* long links count three times.
travel_time(n, m) ==
    LET distance == dx(n, m) + dy(n, m)
    IN  IF distance > 14 THEN distance * 3 ELSE distance

ReadNeighbourNodeList == [n \in PhysicalNodes |-> phy_adjacent_nodes(n)]
ReadLockNodeList == [n \in PhysicalNodes |-> l_lock_nodes(n)]
ReadTravelTimeList ==
    [n \in PhysicalNodes |->
        [i \in DOMAIN phy_adjacent_nodes(n) |-> travel_time(n, phy_adjacent_nodes(n)[i])]]
================================================================================
