SPECIFICATION Spec
CONSTANTS
    Keys <- MCKeys
    Values = {1, 2}
    Missing = Missing
    Hash <- MCHash
    InitialCapacity = 4
    MaxCapacity = 8
    CallocFails = FALSE
INVARIANTS
    ProbeEnds
PROPERTIES
    ImplementsDictionary
