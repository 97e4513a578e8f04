----------------------------------- MODULE MapStore -----------------------------------
(****************************************************************************)
(* How the map gets from the drawing into the server.  smallmap.py appends  *)
(* nodes and links to lists in Redis, one command each, and does not empty  *)
(* the lists first ("#r.flushdb()"): it may be run again, also while the    *)
(* server starts.  The server reads the nodes twice, once for the planner   *)
(* and once for the targets, and the links in between.                      *)
(****************************************************************************)
EXTENDS Naturals, Sequences, SequencesExt, FiniteSets, FiniteSetsExt, Functions

CONSTANTS
    Drawing,      \* the drawings, each a sequence of rows of numbers
    MaxBuilds     \* bound: how often smallmap.py is run

ASSUME MapStoreAssumption == Drawing \subseteq Seq(Seq(Nat)) /\ MaxBuilds \in Nat \ {0}

VARIABLES
    drawing,              \* smallmap.csv
    PhysicalNodeList, PhysicalLinkList,       \* what smallmap.py makes of it
    physical_node_list, physical_link_list,   \* Redis
    builds, pushed,       \* runs of smallmap.py that ended; commands given in this one
    line,                 \* of main: "off", "links", "targets", "running"
    physical_nodes,       \* what readPhysicalNodes has returned to LMap::ReadMap
    lmap,                 \* the lists of the planner, <<>> before they are read
    yardPoints            \* of TS, with the nodes they were read from

csv == <<drawing, PhysicalNodeList, PhysicalLinkList>>
redis == <<physical_node_list, physical_link_list>>
builder == <<builds, pushed>>
server == <<line, physical_nodes, lmap, yardPoints>>
vars == <<csv, redis, builder, server>>

--------------------------------------------------------------------------------
(* smallmap.py *)

R == INSTANCE Roadmap WITH raw_map <- drawing

NumberedNodes ==
    [k \in 1 .. Cardinality(R!PhysicalNodes) |->
        [physical_node_id |-> k - 1, x |-> R!physical_node_list[k - 1].x, y |-> R!physical_node_list[k - 1].y,
         phy_adjacent_nodes |-> R!phy_adjacent_nodes(k - 1), lock_nodes |-> R!l_lock_nodes(k - 1)]]

\* The lock nodes of both ends, in the order of the ends.
LinkLocks(nodes, from, to) == nodes[Min({from, to}) + 1].lock_nodes \o nodes[Max({from, to}) + 1].lock_nodes

LinksOf(nodes) ==
    FlattenSeq([k \in DOMAIN nodes |->
        LET from == nodes[k].physical_node_id
        IN [l \in DOMAIN nodes[k].phy_adjacent_nodes |->
              LET to == nodes[k].phy_adjacent_nodes[l]
              IN [from_physical_node |-> from, to_physical_node |-> to, lock_nodes |-> LinkLocks(nodes, from, to)]]])

Commands == Len(PhysicalNodeList) + Len(PhysicalLinkList)

PushNode ==
    /\ builds < MaxBuilds /\ pushed < Len(PhysicalNodeList)
    /\ pushed' = pushed + 1
    /\ physical_node_list' = Append(physical_node_list, PhysicalNodeList[pushed + 1])
    /\ UNCHANGED <<csv, physical_link_list, builds, server>>

PushLink ==
    /\ builds < MaxBuilds /\ pushed \in Len(PhysicalNodeList) .. Commands - 1
    /\ pushed' = pushed + 1
    /\ physical_link_list' = Append(physical_link_list, PhysicalLinkList[pushed + 1 - Len(PhysicalNodeList)])
    /\ UNCHANGED <<csv, physical_node_list, builds, server>>

BuilderEnds ==
    /\ builds < MaxBuilds /\ pushed = Commands
    /\ builds' = builds + 1 /\ pushed' = 0
    /\ UNCHANGED <<csv, redis, server>>

--------------------------------------------------------------------------------
(* LMap::ReadMap and TS::ReadMap: vectors are numbered from 0. *)

Vector(s) == [i \in 0 .. Len(s) - 1 |-> s[i + 1]]

\* Where a node is: read from the place of the list that its id names.
At(nodes, i) == LET n == nodes[nodes[i + 1].physical_node_id + 1] IN <<n.x, n.y>>

\* Neighbours differ in one coordinate: the Euclidean distance is the sum of the differences.
\* Long links count three times.
Distance(p, q) == (IF p[1] > q[1] THEN p[1] - q[1] ELSE q[1] - p[1]) + (IF p[2] > q[2] THEN p[2] - q[2] ELSE q[2] - p[2])
TravelTime(nodes, i, j) ==
    LET d == Distance(At(nodes, i), At(nodes, j)) IN IF d > 14 THEN d * 3 ELSE d

\* Mutant: a node has a new table for each of its links.
LinkIdMap_Overwrites(links) ==
    LET pairs == {<<links[k].from_physical_node, links[k].to_physical_node>> :
                    k \in {l \in DOMAIN links : \A m \in DOMAIN links :
                              links[m].from_physical_node = links[l].from_physical_node => m <= l}}
    IN [p \in pairs |-> Max({k \in DOMAIN links : p = <<links[k].from_physical_node, links[k].to_physical_node>>}) - 1]

\* The link between two nodes: the last one that was written.
LinkIdMap(links) ==
    LET pairs == {<<links[k].from_physical_node, links[k].to_physical_node>> : k \in DOMAIN links}
    IN [p \in pairs |-> Max({k \in DOMAIN links : p = <<links[k].from_physical_node, links[k].to_physical_node>>}) - 1]

ReadMap(nodes, links) ==
    LET Ids == 0 .. Len(nodes) - 1
        Neighbours(i) == nodes[i + 1].phy_adjacent_nodes
    IN [node_list |-> [i \in Ids |-> At(nodes, i)],
        neighbour_node_list |-> [i \in Ids |-> Neighbours(i)],
        travel_time_list |-> [i \in Ids |-> [k \in DOMAIN Neighbours(i) |-> TravelTime(nodes, i, Neighbours(i)[k])]],
        lock_node_list |-> [i \in Ids |-> nodes[i + 1].lock_nodes],
        link_lock_node_list |-> Vector([k \in DOMAIN links |-> links[k].lock_nodes]),
        link_id_map |-> LinkIdMap(links)]

\* The map has been built when the server is started.
ReadPhysicalNodes ==
    /\ line = "off" /\ builds >= 1
    /\ physical_nodes' = physical_node_list /\ line' = "links"
    /\ UNCHANGED <<csv, redis, builder, lmap, yardPoints>>

ReadPhysicalLinks ==
    /\ line = "links"
    /\ lmap' = ReadMap(physical_nodes, physical_link_list) /\ line' = "targets"
    /\ UNCHANGED <<csv, redis, builder, physical_nodes, yardPoints>>

YardPoint(nodes, k) == nodes[k].physical_node_id

TSReadMap ==
    /\ line = "targets"
    /\ yardPoints' = [k \in DOMAIN physical_node_list |->
                        [id |-> YardPoint(physical_node_list, k), node |-> physical_node_list[k]]]
    /\ line' = "running"
    /\ UNCHANGED <<csv, redis, builder, physical_nodes, lmap>>

--------------------------------------------------------------------------------

Init ==
    /\ drawing \in Drawing
    /\ PhysicalNodeList = NumberedNodes /\ PhysicalLinkList = LinksOf(PhysicalNodeList)
    /\ physical_node_list = <<>> /\ physical_link_list = <<>>
    /\ builds = 0 /\ pushed = 0
    /\ line = "off" /\ physical_nodes = <<>> /\ lmap = <<>> /\ yardPoints = <<>>

Next ==
    \/ PushNode \/ PushLink \/ BuilderEnds
    \/ ReadPhysicalNodes \/ ReadPhysicalLinks \/ TSReadMap

Spec == Init /\ [][Next]_vars

--------------------------------------------------------------------------------
(* Properties, all of them of what the server has read whatever the builder does since its
   first run. *)

Loaded == line \in {"targets", "running"}

Drawn == UNION {{<<i, j>> : j \in {c \in DOMAIN drawing[i] : drawing[i][c] # 0}} : i \in DOMAIN drawing}

\* The planner's map is the drawing: its nodes are where cells are drawn, every drawn cell has
\* one, the neighbours of a node are those on the cells beside it, one second away, and a node
\* locks its own place.  Nothing in the code compares places in the list with ids.
MapIsDrawing ==
    Loaded =>
        LET place == lmap.node_list
            PlacesOf(ids) == [k \in DOMAIN ids |-> place[ids[k]]]
        IN /\ Range(place) = Drawn
           /\ \A n \in DOMAIN place :
                 /\ Range(PlacesOf(lmap.neighbour_node_list[n])) = {c \in Drawn : Distance(c, place[n]) = 1}
                 /\ IsInjective(PlacesOf(lmap.neighbour_node_list[n]))
                 /\ \A k \in DOMAIN lmap.travel_time_list[n] : lmap.travel_time_list[n][k] = 1
                 /\ Range(PlacesOf(lmap.lock_node_list[n])) = {place[n]}

\* From each node there is a link to each of its neighbours, and it locks just the two, though
\* nodes and links are read one after the other and found by their places in two lists.
LinksAreFound ==
    Loaded =>
        \A n \in DOMAIN lmap.node_list :
            LET id == physical_nodes[n + 1].physical_node_id
            IN \A m \in Range(lmap.neighbour_node_list[n]) :
                  /\ <<id, m>> \in DOMAIN lmap.link_id_map
                  /\ Range(lmap.link_lock_node_list[lmap.link_id_map[<<id, m>>]]) = {id, m}

\* The targets that the server will draw are nodes of the planner's map, at the place they had
\* in the list that the server read, which may be longer than the one the planner read.
TargetsAreNodes ==
    line = "running" =>
        \A k \in DOMAIN yardPoints :
            LET target == yardPoints[k]
            IN target.id \in DOMAIN lmap.node_list /\ lmap.node_list[target.id] = <<target.node.x, target.node.y>>

\* Whatever the builder does while the server reads, the server has the map that was drawn,
\* with its links, and draws targets that are in it.
MapIsWhole == MapIsDrawing /\ LinksAreFound /\ TargetsAreNodes
================================================================================
