SPECIFICATION Spec
CONSTANTS
    AddrMod = 128
    NVpn1 = 2
    NVpn0 = 2
    ValMod = 4
    Programs <- RetryablePrograms
    MaxEvict = 3
    DirPtes <- MCDirPtes
    LeafPtes <- MCLeafPtes
CHECK_DEADLOCK FALSE
INVARIANTS
    DemandPagingTransparent
    SuperpageActsLikeItsTable
    MprvActsForMpp
PROPERTIES
    ProgramFinishes
