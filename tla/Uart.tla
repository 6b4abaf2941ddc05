-------------------------------- MODULE Uart --------------------------------
(***************************************************************************)
(* The 16550 of src/src/device/uart.c on top of the PLIC it interrupts     *)
(* through: the receive ring, the paced transmitter, the registers and     *)
(* uart_update_irq, which recomputes the interrupt line and forwards it to *)
(* plic_set_irq only when it changes.                                      *)
(*                                                                         *)
(* IER is the set of its enabled causes, LCR is reduced to its DLAB bit    *)
(* (the only one any handler tests).  rbr is the value the last read of    *)
(* the data register returned.  The bytes written to THR go straight to    *)
(* the host's stdout and are not kept.                                     *)
(***************************************************************************)
EXTENDS Plic, Sequences

CONSTANTS
    RxFifoSize,     \* RX_FIFO_SIZE
    TxShiftTicks,   \* TX_SHIFT_TICKS
    UartIrq,        \* UART_IRQ, the PLIC source of the UART
    UintMax,        \* the largest unsigned, reached by decrementing 0
    Byte            \* the byte values that occur

ASSUME UartAssumption ==
    /\ RxFifoSize \in Nat \ {0}
    /\ TxShiftTicks \in Nat \ {0}
    /\ UartIrq \in 1 .. NDev
    /\ UintMax \in Nat /\ UintMax > TxShiftTicks
    /\ Byte \subseteq Nat /\ 0 \in Byte

VARIABLES
    rx, rx_head, rx_count,      \* the receive ring
    ier, dlab, mcr, scr,        \* registers
    irq_level,                  \* the line as last sent to the PLIC
    thr_busy, thr_ticks,        \* the transmitter
    rbr                         \* last value returned by a data-register read

rxVars == <<rx, rx_head, rx_count>>
regVars == <<ier, dlab, mcr, scr>>
txVars == <<thr_busy, thr_ticks>>
plicRegs == <<priority, enable, threshold, claimed>>
uartVars == <<rx, rx_head, rx_count, ier, dlab, mcr, scr, irq_level,
              thr_busy, thr_ticks, rbr>>
vars == <<plicVars, uartVars>>

IerBits == {"ERBI", "ETBEI"}
IIR_NOPEND == 1
IIR_THRE == 2
IIR_RXDATA == 4

\* The ring's indices, the registers and the countdown of uart.c are in range.
UartTypeOK ==
    /\ rx \in [0 .. RxFifoSize - 1 -> Byte]
    /\ rx_head \in 0 .. RxFifoSize - 1
    /\ rx_count \in 0 .. RxFifoSize
    /\ ier \in SUBSET IerBits
    /\ dlab \in {0, 1}
    /\ mcr \in Byte /\ scr \in Byte
    /\ irq_level \in {0, 1}
    /\ thr_busy \in {0, 1}
    /\ thr_ticks \in 0 .. UintMax
    /\ rbr \in Byte

\* memset to zero, 8N1; the closing uart_update_irq finds nothing to report.
uart_init ==
    /\ rx = [i \in 0 .. RxFifoSize - 1 |-> 0]
    /\ rx_head = 0 /\ rx_count = 0
    /\ ier = {} /\ dlab = 0 /\ mcr = 0 /\ scr = 0
    /\ irq_level = 0
    /\ thr_busy = 0 /\ thr_ticks = 0
    /\ rbr = 0

-----------------------------------------------------------------------------
\* uart_update_irq, the last call of a handler: it reads the registers as the
\* handler has just left them, and fixes irq_level' and pending'.
uart_update_irq ==
    LET rx_pend == rx_count' > 0 /\ "ERBI" \in ier'
        tx_pend == thr_busy' = 0 /\ "ETBEI" \in ier'
        want == IF rx_pend \/ tx_pend THEN 1 ELSE 0
    IN  IF want # irq_level
        THEN irq_level' = want /\ plic_set_irq(UartIrq, want)
        ELSE UNCHANGED <<irq_level, pending>>

MutTickNoUpdate ==
    /\ IF thr_busy = 0 THEN UNCHANGED <<thr_busy, thr_ticks>>
       ELSE /\ thr_ticks' = thr_ticks - 1
            /\ thr_busy' = IF thr_ticks' = 0 THEN 0 ELSE 1
    /\ UNCHANGED <<rxVars, regVars, rbr, irq_level, plicVars>>

uart_tick ==
    /\ IF thr_busy = 0 THEN UNCHANGED <<thr_busy, thr_ticks, irq_level, pending>>
       ELSE /\ thr_ticks' = IF thr_ticks = 0 THEN UintMax ELSE thr_ticks - 1
            /\ IF thr_ticks' = 0
               THEN /\ thr_busy' = 0
                    /\ UNCHANGED <<rx_count, ier>>
                    /\ uart_update_irq
               ELSE UNCHANGED <<thr_busy, irq_level, pending>>
    /\ UNCHANGED <<rxVars, regVars, rbr, plicRegs>>

MutReceiveNoWrap(c) ==
    /\ rx_count < RxFifoSize
    /\ LET pos == rx_head + rx_count
       IN  rx' = [rx EXCEPT ![IF pos < RxFifoSize THEN pos ELSE RxFifoSize - 1] = c]
    /\ rx_count' = rx_count + 1
    /\ UNCHANGED <<rx_head, regVars, txVars, rbr, plicRegs>>
    /\ uart_update_irq

\* A byte from the host; dropped when the ring is full.
uart_receive(c) ==
    /\ rx_count < RxFifoSize
    /\ rx' = [rx EXCEPT ![(rx_head + rx_count) % RxFifoSize] = c]
    /\ rx_count' = rx_count + 1
    /\ UNCHANGED <<rx_head, regVars, txVars, rbr, plicRegs>>
    /\ uart_update_irq

MutReadRbrNoUpdate ==
    /\ IF dlab = 1 \/ rx_count = 0
       THEN rbr' = 0 /\ UNCHANGED rxVars
       ELSE /\ rbr' = rx[rx_head]
            /\ rx_head' = (rx_head + 1) % RxFifoSize
            /\ rx_count' = rx_count - 1
            /\ UNCHANGED rx
    /\ UNCHANGED <<regVars, txVars, irq_level, plicVars>>

\* uart_read(UART_RBR), the one register read that changes state.
ReadRbr ==
    /\ IF dlab = 1 \/ rx_count = 0
       THEN rbr' = 0 /\ UNCHANGED <<rxVars, irq_level, pending>>
       ELSE /\ rbr' = rx[rx_head]
            /\ rx_head' = (rx_head + 1) % RxFifoSize
            /\ rx_count' = rx_count - 1
            /\ UNCHANGED <<rx, ier, thr_busy>>
            /\ uart_update_irq
    /\ UNCHANGED <<regVars, txVars, plicRegs>>

MutWriteThrNoTicks ==
    /\ dlab = 0
    /\ thr_busy' = 1
    /\ UNCHANGED <<thr_ticks, rxVars, regVars, rbr, plicRegs>>
    /\ uart_update_irq

\* uart_write, register by register.
WriteThr ==
    /\ dlab = 0
    /\ thr_busy' = 1
    /\ thr_ticks' = TxShiftTicks
    /\ UNCHANGED <<rxVars, regVars, rbr, plicRegs>>
    /\ uart_update_irq

\* IER is written whatever DLAB selects.
WriteIer(val) ==
    /\ ier' = val
    /\ UNCHANGED <<rxVars, dlab, mcr, scr, txVars, rbr, plicRegs>>
    /\ uart_update_irq

WriteFcr ==
    /\ UNCHANGED <<rxVars, regVars, txVars, rbr, plicRegs>>
    /\ uart_update_irq

WriteLcr(val) ==
    /\ dlab' = val
    /\ UNCHANGED <<rxVars, ier, mcr, scr, txVars, rbr, irq_level, plicVars>>

WriteMcr(val) ==
    /\ mcr' = val
    /\ UNCHANGED <<rxVars, ier, dlab, scr, txVars, rbr, irq_level, plicVars>>

\* Offsets 5, 6 and 7 all land in the scratch register.
WriteScr(val) ==
    /\ scr' = val
    /\ UNCHANGED <<rxVars, ier, dlab, mcr, txVars, rbr, irq_level, plicVars>>

uart_write ==
    \/ WriteThr
    \/ \E val \in SUBSET IerBits : WriteIer(val)
    \/ WriteFcr
    \/ \E val \in {0, 1} : WriteLcr(val)
    \/ \E val \in Byte : WriteMcr(val) \/ WriteScr(val)

\* THRE reported whether or not its interrupt is enabled.
MutIirThreUnmasked ==
    IF rx_count > 0 /\ "ERBI" \in ier THEN IIR_RXDATA
    ELSE IF thr_busy = 0 THEN IIR_THRE
    ELSE IIR_NOPEND

\* uart_read(UART_IIR): the highest-priority pending cause.
uart_read_iir ==
    IF rx_count > 0 /\ "ERBI" \in ier THEN IIR_RXDATA
    ELSE IF thr_busy = 0 /\ "ETBEI" \in ier THEN IIR_THRE
    ELSE IIR_NOPEND

LSR_DR == rx_count > 0
LSR_THRE == thr_busy = 0

\* The accesses of the guest, the host's input and the run loop's tick.  The
\* guest's PLIC accesses leave every UART register alone.
UartNext ==
    \/ \E c \in Byte : uart_receive(c)
    \/ ReadRbr
    \/ uart_write
    \/ uart_tick

Init == plic_init /\ uart_init
Next == UartNext \/ (GuestPlic /\ UNCHANGED uartVars)
Spec == Init /\ [][Next]_vars

\* The UART alone: the guest leaves the PLIC's registers as they are at reset.
UartSpec == Init /\ [][UartNext]_vars

-----------------------------------------------------------------------------
\* Both devices keep their registers in range.
TypeOK == PlicTypeOK /\ UartTypeOK

(***************************************************************************)
(* The three views of the UART's interrupt agree after every handler: the  *)
(* line the PLIC sees, the cached irq_level that decides whether to call   *)
(* plic_set_irq, and the cause IIR reports to the interrupt handler.  A    *)
(* handler that changes a cause and forgets uart_update_irq leaves the     *)
(* line stale: an interrupt is lost, or never goes away.                   *)
(***************************************************************************)
LineCoherent ==
    /\ UartIrq \in pending <=> uart_read_iir # IIR_NOPEND
    /\ irq_level = 1 <=> uart_read_iir # IIR_NOPEND

(***************************************************************************)
(* The transmitter is counting down exactly while it is busy, so the       *)
(* unsigned pre-decrement in uart_tick never starts from 0 (it would wrap  *)
(* and leave THRE clear for four billion instructions).                    *)
(***************************************************************************)
TxCountdown ==
    /\ thr_busy = 1 <=> thr_ticks > 0
    /\ thr_ticks <= TxShiftTicks

(***************************************************************************)
(* With DLAB set, offset 1 is the divisor latch (uart.c:37) and not IER:   *)
(* programming the divisor does not touch the interrupt enables.           *)
(***************************************************************************)
DivisorWriteKeepsIer == [][dlab = 1 => ier' = ier]_vars

\* The bytes held by the ring, oldest first.
RxQueue == [i \in 1 .. rx_count |-> rx[(rx_head + i - 1) % RxFifoSize]]

Fifo == INSTANCE ByteFifo
            WITH Capacity <- RxFifoSize, queue <- RxQueue, out <- rbr

(***************************************************************************)
(* The ring with its wrapping indices implements the bounded FIFO: bytes   *)
(* come out in arrival order, none twice, none lost but those that found   *)
(* the ring full.                                                          *)
(***************************************************************************)
RingIsFifo == Fifo!FifoSpec
=============================================================================
