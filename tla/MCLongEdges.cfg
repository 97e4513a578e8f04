SPECIFICATION FairSpec
CONSTANTS
    INF = 1000
    robot_number = 3
    Node <- MCNode
    node_list <- MCNodeList
    neighbour_node_list <- MCNeighbours
    travel_time_list <- MCTravelTimes
    lock_node_list <- MCLockNodes
    Home <- MCHome
    Target <- MCTarget
    Instants <- MCInstants
    MaxServes = 3
    FleetCalls = 1
INVARIANTS
    NeverHeadOn
PROPERTIES
    KeepsPromiseInTime
