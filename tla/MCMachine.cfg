SPECIFICATION MachineSpec
CONSTANTS
    NDev = 1
    PriorityMask = 7
    RegVals = {}
    CompleteVals = {}
    RxFifoSize = 2
    TxShiftTicks = 6
    UartIrq = 1
    UintMax = 255
    Byte = {0}
    AddrMod = 64
    HostBytes = 4
    SendBytes = 3
INVARIANTS
    HandlerFindsItsCause
PROPERTIES
    ReceivedIsRead
    QueuedIsSent
    HandlerReturns
