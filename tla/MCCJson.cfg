SPECIFICATION Spec
CONSTANTS
    Item = {i1, i2, i3}
    ListItem = {l1, l2, l3, l4}
    Block = {s1, s2}
    Nil = Nil
    NestingLimit = 2
    MaxText = 8
    MaxParseRoom = 8
    FirstSize = 4
    IntMax = 24
    MaxValue = 7
    MaxPrintRoom = 6
    MaxChunks = 3
    MaxCut = 7
    MaxSize = 3
    MaxPieces = 4
SYMMETRY Symmetry
INVARIANTS
    TextsAreRead
    ValuesArePrinted
    ValuesAreCompared
PROPERTIES
    ItemsAreWhole
CHECK_DEADLOCK FALSE
