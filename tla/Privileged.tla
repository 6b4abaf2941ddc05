----------------------------- MODULE Privileged -----------------------------
(***************************************************************************)
(* The privileged architecture of the hart: privilege modes, the trap      *)
(* CSRs, trap entry and return (src/src/extension/system.c) and the CSR    *)
(* views and instructions (src/src/extension/zicsr_extension.c, .h).  The  *)
(* C functions update the global g_state and csr_table in place and call   *)
(* one another; here each is an operator from a hart record to the hart    *)
(* record it leaves behind, so that a handler that goes on after a nested  *)
(* call returns is the composition of the operators.                       *)
(*                                                                         *)
(* A CSR that is a bit mask is the set of the bits that are 1: mstatus a   *)
(* set of field names, mie, mip, mideleg, medeleg sets of numbers.  The    *)
(* mstatus bits nothing here tests (FS, XS, TW, UPIE) are left out, and so *)
(* are mtval and stval.                                                    *)
(*                                                                         *)
(* MIP.MTIP, MIP.MEIP and MIP.SEIP are live views of the CLINT and of the  *)
(* two PLIC contexts; `live` is the set of those three that the devices    *)
(* assert at the moment of the call.                                       *)
(***************************************************************************)
EXTENDS Integers, FiniteSets

CONSTANT AddrMod        \* 2^32: addresses and pc wrap around

ASSUME AddrAssumption == AddrMod \in Nat \ {0}

Addr == 0 .. AddrMod - 1
AddrPlus(a, n) == (a + n) % AddrMod

PRV_USER == 0
PRV_SUPERVISOR == 1
PRV_MACHINE == 3
Privileges == 0 .. 3    \* 2 is what a two-bit MPP can also hold

\* Interrupt numbers, as bits of mip and mie and as trap causes.
SSI == 1
MSI == 3
STI == 5
MTI == 7
SEI == 9
MEI == 11
Irqs == {SSI, MSI, STI, MTI, SEI, MEI}
SBits == {SSI, STI, SEI}            \* SIP_SIE_S_BITS
LiveIrqs == {MTI, MEI, SEI}

CAUSE_ILLEGAL_INSTRUCTION == 2
CAUSE_BREAKPOINT == 3
CAUSE_USER_ECALL == 8
CAUSE_SUPERVISOR_ECALL == 9
CAUSE_MACHINE_ECALL == 11

MppBits == {"MPP_LO", "MPP_HI"}
MstatusBits == {"UIE", "SIE", "MIE", "SPIE", "MPIE", "SPP", "MPRV", "SUM", "MXR",
                "TVM", "TSR"} \union MppBits
SstatusBits == {"UIE", "SIE", "SPIE", "SPP", "SUM", "MXR"}

\* The two-bit field mstatus.MPP.
MppOf(m) == (IF "MPP_LO" \in m THEN 1 ELSE 0) + (IF "MPP_HI" \in m THEN 2 ELSE 0)
WithMpp(m, prv) ==
    (m \ MppBits) \union (IF prv \in {1, 3} THEN {"MPP_LO"} ELSE {})
                  \union (IF prv \in {2, 3} THEN {"MPP_HI"} ELSE {})

\* `if (m & from) m |= to; else m &= ~to;`
CopyBit(m, from, to) == IF from \in m THEN m \union {to} ELSE m \ {to}

\* mtvec and stvec: a base address and the vectored-mode bit.
ExceptionTarget(tvec) == AddrPlus(tvec.base, -4)
\* The slot index taken without its top bit, as (irq & 0x7) << 2.
MutInterruptTargetSlotShort(tvec, irq) ==
    IF tvec.vectored THEN AddrPlus(tvec.base, 4 * (irq % 8)) ELSE tvec.base

InterruptTarget(tvec, irq) ==
    IF tvec.vectored THEN AddrPlus(tvec.base, 4 * irq) ELSE tvec.base

Exc(cause) == <<"exception", cause>>
Irq(irq) == <<"interrupt", irq>>

-----------------------------------------------------------------------------
\* Trap entry.  raise_*_exception leaves pc 4 below the vector because the run
\* loop adds 4 after the instruction; interrupts are taken before the fetch.

MutTrapToMKeepsMie(h, cause, epc, target) ==
    [h EXCEPT !.mstatus = CopyBit(WithMpp(@, h.privilege), "MIE", "MPIE"),
              !.mcause = cause,
              !.mepc = epc,
              !.privilege = PRV_MACHINE,
              !.just_trapped = 1,
              !.pc = target]

\* The machine half shared by raise_machine_exception and _interrupt.
TrapToM(h, cause, epc, target) ==
    [h EXCEPT !.mstatus = CopyBit(WithMpp(@, h.privilege), "MIE", "MPIE") \ {"MIE"},
              !.mcause = cause,
              !.mepc = epc,
              !.privilege = PRV_MACHINE,
              !.just_trapped = 1,
              !.pc = target]

MutTrapToSNoSpp(h, cause, epc, target) ==
    [h EXCEPT !.mstatus = CopyBit(@ \union {"SPP"}, "SIE", "SPIE") \ {"SIE"},
              !.scause = cause,
              !.sepc = epc,
              !.privilege = PRV_SUPERVISOR,
              !.pc = target]

\* The supervisor half, through the sstatus view of mstatus.
TrapToS(h, cause, epc, target) ==
    LET withSpp == IF h.privilege = PRV_SUPERVISOR
                   THEN h.mstatus \union {"SPP"} ELSE h.mstatus \ {"SPP"}
    IN  [h EXCEPT !.mstatus = CopyBit(withSpp, "SIE", "SPIE") \ {"SIE"},
                  !.scause = cause,
                  !.sepc = epc,
                  !.privilege = PRV_SUPERVISOR,
                  !.pc = target]

MutDelegatedAlways(h, deleg, n) == n \in deleg

Delegated(h, deleg, n) ==
    h.privilege \in {PRV_USER, PRV_SUPERVISOR} /\ n \in deleg

\* A trap clears every LR.W reservation before it is entered.
ClearReservations(h) == [h EXCEPT !.mmu_flags = {}]

raise_exception_pc(h, cause, epc) ==
    LET c == ClearReservations(h)
    IN  IF Delegated(h, h.medeleg, cause)
        THEN TrapToS(c, Exc(cause), epc, ExceptionTarget(h.stvec))
        ELSE TrapToM(c, Exc(cause), epc, ExceptionTarget(h.mtvec))

raise_exception(h, cause) == raise_exception_pc(h, cause, h.pc)

raise_interrupt(h, irq) ==
    LET c == ClearReservations(h)
    IN  IF Delegated(h, h.mideleg, irq)
        THEN TrapToS(c, Irq(irq), h.pc, InterruptTarget(h.stvec, irq))
        ELSE TrapToM(c, Irq(irq), h.pc, InterruptTarget(h.mtvec, irq))

-----------------------------------------------------------------------------
\* CSR views.

get_mip(h, live) == (h.mip \ LiveIrqs) \union live
get_sie(h) == h.mie \intersect SBits

\* The CLINT timer shows up in S-mode as STIP.
get_sip(h, live) ==
    (get_mip(h, live) \intersect SBits)
        \union (IF MTI \in live THEN {STI} ELSE {})

sstatus_read(h) == h.mstatus \intersect SstatusBits

BitCsrs == {"mstatus", "sstatus", "mie", "sie", "mip", "sip",
            "medeleg", "mideleg"}
PlainCsrs == {"mepc", "sepc", "mtvec", "stvec", "satp"}
Csrs == BitCsrs \union PlainCsrs

\* The privilege column of init_csr_table.
CsrPrivilege(csr) ==
    IF csr \in {"sstatus", "sie", "sip", "sepc", "stvec", "satp"}
    THEN PRV_SUPERVISOR ELSE PRV_MACHINE

csr_read(h, csr, live) ==
    CASE csr = "sstatus" -> sstatus_read(h)
      [] csr = "sie" -> get_sie(h)
      [] csr = "mip" -> get_mip(h, live)
      [] csr = "sip" -> get_sip(h, live)
      [] OTHER -> h[csr]

\* set_sip reads mip back through its live view before it stores it.
csr_write(h, csr, val, live) ==
    CASE csr = "sstatus" ->
            [h EXCEPT !.mstatus = (@ \ SstatusBits) \union (val \intersect SstatusBits)]
      [] csr = "sie" ->
            [h EXCEPT !.mie = (@ \ SBits) \union (val \intersect SBits)]
      [] csr = "sip" ->
            [h EXCEPT !.mip = (get_mip(h, live) \ SBits) \union (val \intersect SBits)]
      [] OTHER -> [h EXCEPT ![csr] = val]

CsrAccessLegal(h, csr) ==
    /\ h.privilege >= CsrPrivilege(csr)
    /\ ~(csr = "satp" /\ h.privilege = PRV_SUPERVISOR /\ "TVM" \in h.mstatus)

\* check_csr_access raises the exception and returns; it cannot stop its
\* caller, so the instruction goes on with the state the trap left.
check_csr_access(h, csr) ==
    IF CsrAccessLegal(h, csr) THEN h
    ELSE raise_exception(h, CAUSE_ILLEGAL_INSTRUCTION)

\* CSRRW, CSRRS and CSRRC and their immediate forms: op says what becomes of
\* the old value.  "r" is CSRRS or CSRRC with x0 (or immediate 0): no write.
CsrInstruction(h, csr, op, operand, live) ==
    LET c == check_csr_access(h, csr)
        old == csr_read(c, csr, live)
    IN  CASE op = "r" -> c
          [] op = "w" -> csr_write(c, csr, operand, live)
          [] op = "s" -> csr_write(c, csr, old \union operand, live)
          [] op = "c" -> csr_write(c, csr, old \ operand, live)

-----------------------------------------------------------------------------
\* Trap return.

MutMretKeepsMie(h) ==
    [h EXCEPT !.mstatus = WithMpp(@ \union {"MPIE", "MIE"}, PRV_USER),
              !.privilege = MppOf(h.mstatus),
              !.pc = AddrPlus(h.mepc, -4)]

ins_mret(h) ==
    [h EXCEPT !.mstatus = WithMpp(CopyBit(@, "MPIE", "MIE") \union {"MPIE"}, PRV_USER),
              !.privilege = MppOf(h.mstatus),
              !.pc = AddrPlus(h.mepc, -4)]

ins_sret(h) ==
    IF h.privilege = PRV_SUPERVISOR /\ "TSR" \in h.mstatus
    THEN raise_exception(h, CAUSE_ILLEGAL_INSTRUCTION)
    ELSE [h EXCEPT !.mstatus = (CopyBit(@, "SPIE", "SIE") \union {"SPIE"}) \ {"SPP"},
                   !.privilege = IF "SPP" \in h.mstatus
                                 THEN PRV_SUPERVISOR ELSE PRV_USER,
                   !.pc = AddrPlus(h.sepc, -4)]

ins_sfence_vma(h) ==
    IF h.privilege = PRV_SUPERVISOR /\ "TVM" \in h.mstatus
    THEN raise_exception(h, CAUSE_ILLEGAL_INSTRUCTION)
    ELSE h

\* ECALL with a7 /= 93 (93 ends the emulation instead).
insi_i_ecall(h) ==
    raise_exception(h, CASE h.privilege = PRV_SUPERVISOR -> CAUSE_SUPERVISOR_ECALL
                         [] h.privilege = PRV_MACHINE -> CAUSE_MACHINE_ECALL
                         [] OTHER -> CAUSE_USER_ECALL)

-----------------------------------------------------------------------------
\* Interrupt dispatch.  Rank is the order of the if-chains, the most urgent
\* first; the supervisor chain is the same order over SBits.
Rank == [irq \in Irqs |-> CASE irq = MEI -> 1 [] irq = MSI -> 2 [] irq = MTI -> 3
                            [] irq = SEI -> 4 [] irq = SSI -> 5 [] irq = STI -> 6]

MostUrgent(irqs) == CHOOSE irq \in irqs : \A o \in irqs : Rank[irq] <= Rank[o]

MutSupervisorPendingUngated(h, live) ==
    get_sip(h, live) \intersect get_sie(h) \intersect h.mideleg

\* The interrupts the dispatcher selects from, in the order it tries them.
SupervisorPending(h, live) ==
    IF (IF h.privilege = PRV_SUPERVISOR THEN "SIE" ELSE "UIE") \in h.mstatus
    THEN get_sip(h, live) \intersect get_sie(h) \intersect h.mideleg
    ELSE {}

MachinePending(h, live) ==
    LET enabled == get_mip(h, live) \intersect h.mie \intersect Irqs
    IN  IF "MIE" \notin h.mstatus THEN {}
        ELSE IF h.privilege = PRV_MACHINE THEN enabled
        ELSE enabled \ (get_sip(h, live) \intersect get_sie(h) \intersect h.mideleg)

check_and_handle_interrupts(h, live) ==
    LET sp == IF h.privilege = PRV_MACHINE THEN {} ELSE SupervisorPending(h, live)
        mp == MachinePending(h, live)
    IN  IF sp # {} THEN raise_interrupt(h, MostUrgent(sp))
        ELSE IF mp # {} THEN raise_interrupt(h, MostUrgent(mp))
        ELSE h
=============================================================================
