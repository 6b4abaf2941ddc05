SPECIFICATION Spec
CONSTANTS
    ClintBase = 2
    ClintSize = 1
    PlicBase = 12
    PlicSize = 4
    UartBase = 16
    UartSize = 1
    RamStart = 4
    RamSize = 5
    MEM_SIZE = 8
    FdtSize = 2
    CommandLines <- MCCommandLines
INVARIANTS
    HandoffSound
    TreeReadable
PROPERTIES
    RefusedOnlyForConflict
CHECK_DEADLOCK FALSE
