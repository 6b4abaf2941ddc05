------------------------------ MODULE Machine -------------------------------
(***************************************************************************)
(* The interrupt path end to end: the UART and the PLIC of Uart and Plic,  *)
(* the hart of Privileged and the run loop of main (src/src/emu.c), whose  *)
(* iteration dispatches an interrupt, polls the host's input, executes one *)
(* instruction and ticks the devices.                                      *)
(*                                                                         *)
(* The guest is a supervisor with an idle loop and the interrupt handler   *)
(* of a 16550 driver behind the PLIC: claim, serve the causes IIR reports  *)
(* until it reports none, complete, sret.  It is external: src/ holds no   *)
(* guest, and what the model takes from one is which registers it touches  *)
(* in which order.  Each of its instructions is one iteration of the loop, *)
(* and its program counter is the hart's, so that the trap and the sret    *)
(* move it.                                                                *)
(***************************************************************************)
EXTENDS Uart, Privileged

CONSTANTS
    HostBytes,      \* how many bytes the host types
    SendBytes       \* how many bytes the guest's writer queues

ASSUME MachineAssumption ==
    /\ HostBytes \in Nat /\ SendBytes \in Nat
    /\ AddrMod >= 32        \* the guest's instructions fit
    /\ PriorityMask >= 1    \* and it can give a source a priority above 0

VARIABLES
    hart,           \* g_state and the trap part of csr_table
    phase,          \* where the iteration of the run loop is
    typed,          \* bytes the host has still to type
    unsent,         \* bytes the guest's writer has still to queue
    txq,            \* bytes queued in the driver
    source          \* what the driver's claim returned

guestVars == <<txq, unsent, source>>
machineVars == <<vars, hart, phase, typed, guestVars>>

\* The guest's instructions, by address.
IDLE == 0
CLAIM == 8
READ_IIR == 12
READ_RBR == 16
FILL_THR == 20
COMPLETE == 24
SRET == 28
Handler == {CLAIM, READ_IIR, READ_RBR, FILL_THR, COMPLETE, SRET}

\* The live bits of get_mip: here only the PLIC drives one.
LiveLines ==
    (IF plic_external_pending THEN {MEI} ELSE {})
        \union (IF plic_external_pending_s THEN {SEI} ELSE {})

\* The machine once the guest has set up its interrupts.
Boot ==
    /\ priority = [id \in Sources |-> 1]
    /\ pending = {}
    /\ enable = [ctx \in Contexts |-> IF ctx = 1 THEN {UartIrq} ELSE {}]
    /\ threshold = [ctx \in Contexts |-> 0]
    /\ claimed = [ctx \in Contexts |-> {}]
    /\ rx = [i \in 0 .. RxFifoSize - 1 |-> 0]
    /\ rx_head = 0 /\ rx_count = 0
    /\ ier = {"ERBI"} /\ dlab = 0 /\ mcr = 0 /\ scr = 0
    /\ irq_level = 0 /\ thr_busy = 0 /\ thr_ticks = 0 /\ rbr = 0
    /\ hart = [privilege |-> PRV_SUPERVISOR, pc |-> IDLE, just_trapped |-> 0,
               mmu_flags |-> {}, mstatus |-> {"SIE"},
               mcause |-> Exc(0), scause |-> Exc(0), mepc |-> 0, sepc |-> 0,
               mtvec |-> [base |-> 4, vectored |-> FALSE],
               stvec |-> [base |-> CLAIM, vectored |-> FALSE],
               medeleg |-> {}, mideleg |-> SBits, mie |-> {SEI}, mip |-> {},
               satp |-> 0]
    /\ phase = "interrupt"
    /\ typed = HostBytes /\ unsent = SendBytes
    /\ txq = 0 /\ source = 0

-----------------------------------------------------------------------------
\* The run loop.

Dispatch ==
    /\ phase = "interrupt" /\ phase' = "poll"
    /\ hart' = check_and_handle_interrupts(hart, LiveLines)
    /\ UNCHANGED <<vars, typed, guestVars>>

\* uart_poll_input drains what the host has typed so far, byte by byte, into
\* uart_receive, which drops a byte when the ring is full.
PollByte ==
    /\ phase = "poll"
    /\ typed > 0 /\ typed' = typed - 1
    /\ IF rx_count < RxFifoSize THEN \E c \in Byte : uart_receive(c)
       ELSE UNCHANGED vars
    /\ UNCHANGED <<hart, phase, guestVars>>

PollDone ==
    /\ phase = "poll" /\ phase' = "execute"
    /\ UNCHANGED <<vars, hart, typed, guestVars>>

\* A tick of the devices ends the iteration.
Tick ==
    /\ phase = "tick" /\ phase' = "interrupt"
    /\ uart_tick
    /\ UNCHANGED <<hart, typed, guestVars>>

\* The instruction at `from`, which goes on at `to`.
Instruction(from, to) ==
    /\ phase = "execute" /\ phase' = "tick"
    /\ hart.pc = from
    /\ hart' = [hart EXCEPT !.pc = AddrPlus(AddrPlus(to, -4), 4)]
    /\ UNCHANGED typed

-----------------------------------------------------------------------------
\* The guest.

Idle == Instruction(IDLE, IDLE) /\ UNCHANGED <<vars, guestVars>>

\* The writer queues a byte and turns the transmit interrupt on.
Send ==
    /\ Instruction(IDLE, IDLE)
    /\ unsent > 0 /\ unsent' = unsent - 1
    /\ txq' = txq + 1
    /\ WriteIer({"ERBI", "ETBEI"})
    /\ UNCHANGED source

ClaimSource ==
    /\ Instruction(CLAIM, READ_IIR)
    /\ source' = plic_best_source(1)
    /\ Claim(1)
    /\ UNCHANGED <<uartVars, txq, unsent>>

ReadIir ==
    /\ \E to \in {READ_RBR, FILL_THR, COMPLETE} :
          /\ Instruction(READ_IIR, to)
          /\ to = CASE uart_read_iir = IIR_RXDATA -> READ_RBR
                    [] uart_read_iir = IIR_THRE -> FILL_THR
                    [] OTHER -> COMPLETE
    /\ UNCHANGED <<vars, guestVars>>

TakeByte ==
    /\ Instruction(READ_RBR, READ_IIR)
    /\ ReadRbr
    /\ UNCHANGED guestVars

FillThr ==
    /\ Instruction(FILL_THR, READ_IIR)
    /\ IF txq > 0 THEN txq' = txq - 1 /\ WriteThr
       ELSE UNCHANGED txq /\ WriteIer({"ERBI"})
    /\ UNCHANGED <<unsent, source>>

CompleteSource ==
    /\ Instruction(COMPLETE, SRET)
    /\ Complete(1, source)
    /\ UNCHANGED <<uartVars, guestVars>>

ReturnFromHandler ==
    /\ phase = "execute" /\ phase' = "tick"
    /\ hart.pc = SRET
    /\ LET back == ins_sret(hart)
       IN  hart' = [back EXCEPT !.pc = AddrPlus(@, 4)]
    /\ UNCHANGED <<vars, typed, guestVars>>

Guest ==
    \/ Idle \/ Send \/ ClaimSource \/ ReadIir \/ TakeByte \/ FillThr
    \/ CompleteSource \/ ReturnFromHandler

MachineNext == Dispatch \/ PollByte \/ PollDone \/ Guest \/ Tick

\* The loop has no way to wait: it always takes its next step.
MachineSpec == Boot /\ [][MachineNext]_machineVars /\ WF_machineVars(MachineNext)

-----------------------------------------------------------------------------
(***************************************************************************)
(* The handler runs for a reason: whatever the host and the transmitter do *)
(* between the dispatch and the claim, the claim returns the UART and IIR  *)
(* shows a cause.                                                          *)
(***************************************************************************)
HandlerFindsItsCause ==
    /\ hart.pc = CLAIM =>
          plic_best_source(1) = UartIrq /\ uart_read_iir # IIR_NOPEND
    /\ hart.pc \in Handler \ {CLAIM} => source = UartIrq

(***************************************************************************)
(* Every byte the ring accepts reaches the driver: no order of arrivals,   *)
(* claims, completes and returns loses the interrupt that announces it.    *)
(***************************************************************************)
ReceivedIsRead == (rx_count > 0) ~> (rx_count = 0)

(***************************************************************************)
(* Every byte the driver queues is sent: the paced transmitter always      *)
(* comes back with a transmitter-empty interrupt, also when it falls due   *)
(* between the handler's last look at IIR and its complete.                *)
(***************************************************************************)
QueuedIsSent == (txq > 0) ~> (txq = 0)

(***************************************************************************)
(* The guest gets back to its own work: a handler that is entered returns, *)
(* and the line is not left asserted for nothing.                          *)
(***************************************************************************)
HandlerReturns == (hart.pc \in Handler) ~> (hart.pc = IDLE)
=============================================================================
