SPECIFICATION Spec
CONSTANTS
    Drawing <- MCDrawing
    MaxBuilds = 2
INVARIANTS
    MapIsWhole
CHECK_DEADLOCK FALSE
