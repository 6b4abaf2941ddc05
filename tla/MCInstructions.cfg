SPECIFICATION Spec
CONSTANTS
    AddrMod = 256
    XLen = 8
    MemSize = 20
    ExitCall = 93
    NumTriggers = 2
    HExp = 2
    HMant = 3
    SExp = 3
    SMant = 4
    DExp = 4
    DMant = 4
    QExp = 5
    QMant = 4
    Probes <- MCProbes
    Machines <- MCMachines
    Words <- MCWords
    Steps <- Steps1
    Results <- MCResults
    TriggerWrites <- MCTriggerWrites
    FcsrWrites <- MCFcsrWrites
INVARIANTS
    DecodersAgree
PROPERTIES
    TrapsPrecise
    CompressedIsExpansion
    MulDivExact
    FloatResultsExact
    FpuStateKept
CHECK_DEADLOCK FALSE
