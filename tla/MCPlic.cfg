SPECIFICATION PlicSpec
CONSTANTS
    NDev = 2
    PriorityMask = 3
    RegVals = {0, 2, 5}
    CompleteVals = {0, 1, 2, 33}
INVARIANTS
    BestSourceIsMaximal
PROPERTIES
    ClaimHidesOnlyFromItsContext
    ServicedUntilOwnComplete
