SPECIFICATION Spec
CONSTANTS
    AddrMod = 24
    Code <- MCCode
    ExcCauses <- MCCauses
    CsrOps <- MCCsrOps
    Live <- MCLive
    Configs <- MCConfigs
INVARIANTS
    MachineContextSaved
    SupervisorContextSaved
PROPERTIES
    ReturnsRestore
    HandlersNotReentered
    MachineNeverDelegates
    TrapsLandOnVector
VIEW View
