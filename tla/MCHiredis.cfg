SPECIFICATION Spec
CONSTANTS
    MaxIndex = 2
    MaxElements = 3
    ConsumedLimit = 6
    MaxOOM = 1
    Command = {c1, c2, c3}
    MaxFaults = 2
    MaxAddresses = 3
    Retries = 2
    LONG_MAX = 5807
    INT_MAX = 4000
    MaxReconnects = 1
    MaxFormat = 7
    Key = {"a", "b", "c", "d"}
    Val = {v1, v2}
    NoKey = NoKey
    InitialSize = 2
    StoredByte = {"a", "b"}
    NUL = "0"
    Garbage = "?"
    MaxPrealloc = 6
    MaxLen = 4
    Bits = 7
    NumberCharacter = {"0", "1", "2", "3", "4", "5", "6", "7", "8", "9", "-", "x"}
    InitialSlots = 2
    MaxLength = 4
INVARIANTS
    FormatIsRight
    StringsAreRight
PROPERTIES
    ReaderIsRight
    ContextIsRight
    ConnectIsRight
    DictionaryIsMap
CHECK_DEADLOCK FALSE
