SPECIFICATION Spec
CONSTANTS
    NWord = 4
    ValMod = 2
    PageTables <- AllTables
    Locks <- AllWords
    Doubles <- DoubleAt2
    FaultModes <- BothModes
    NoPage = NoPage

    
PROPERTIES
    ReservationLostForCause
