SPECIFICATION UartSpec
CONSTANTS
    NDev = 1
    PriorityMask = 7
    RegVals = {}
    CompleteVals = {}
    RxFifoSize = 3
    TxShiftTicks = 2
    UartIrq = 1
    UintMax = 255
    Byte = {0, 1}
INVARIANTS
    LineCoherent
    TxCountdown
PROPERTIES
    RingIsFifo
