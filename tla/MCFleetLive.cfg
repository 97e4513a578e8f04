SPECIFICATION FairSpec
CONSTANTS
    robot_number = 1
    Length = 3
    Node <- MCNode
    physical_node_list <- MCNodeList
    LongHopTurns = 2
    Nothing = Nothing
    Home <- MCHome
    Paths <- MCPaths
    MaxDeadLocks = 1
    MaxTasks = 3
PROPERTIES
    RobotsKeepWorking
    BackOnRoute
