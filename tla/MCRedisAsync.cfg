SPECIFICATION Spec
CONSTANTS
    Channel = {"a", "b"}
    Session <- MCSession
    MaxCommands = 3
INVARIANTS
    RepliesReachTheirCallback
    TearDownIsClean
    PendingIsRight
PROPERTIES
    DisconnectCompletes
CHECK_DEADLOCK FALSE
