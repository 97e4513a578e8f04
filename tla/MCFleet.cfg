SPECIFICATION Spec
CONSTANTS
    robot_number = 2
    Length = 3
    Node <- MCNode
    physical_node_list <- MCNodeList
    LongHopTurns = 2
    Nothing = Nothing
    Home <- MCHome
    Paths <- MCPaths
    MaxDeadLocks = 1
    MaxTasks = 2
INVARIANTS
    UnfinishedTargetsApart
