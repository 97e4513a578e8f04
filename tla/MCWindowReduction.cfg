SPECIFICATION Spec
CONSTANTS
    INF = 5
    MaxLength = 3
    LockWindow <- MCLockWindow
    InitialLists <- MCInitialLists
INVARIANTS
    TypeOK
    NoLockLost
    PassedPartSeparated
    LegalIsFree
    LoopIsClosedForm
PROPERTY
    Terminates
CHECK_DEADLOCK FALSE
