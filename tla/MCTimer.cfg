CONSTANTS
    ByteMod = 3
    WordBytes = 2
    MaxTime = 19
    Delays = {0, 10, 17}
    MinstretValues = {0, 8}
SPECIFICATION Spec
CHECK_DEADLOCK FALSE
INVARIANTS
    TimeNotTorn
    TimerExact
    InstretExact
