SPECIFICATION Spec
CONSTANTS
    INF = 1000
    robot_number = 3
    Node <- MCNode
    node_list <- MCNodeList
    neighbour_node_list <- MCNeighbours
    travel_time_list <- MCTravelTimes
    lock_node_list <- MCLockNodes
    Home <- MCHome
    TargetGap = 0
    Instants <- MCInstants
    MaxServes = 3
    MaxDeadLocks = 1
INVARIANTS
    TypeOK
    TargetsApart
    StoredRoutesCompatible
