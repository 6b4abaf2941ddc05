SPECIFICATION SpinSpec
CONSTANTS
    WindowSize = 2
    SpinLimit = 4
    NPc = 4
    MaxLoop = 6
CHECK_DEADLOCK FALSE
INVARIANTS
    CountsRepeatedFetches
PROPERTIES
    SpinConcluded
