SPECIFICATION Spec
CONSTANTS
    robot_number = 3
    Node = {1, 2}
    Threshold = 1
    MaxJams = 2
PROPERTIES
    AlarmsAreFoundedAndSpaced
    JamsAreResolved
