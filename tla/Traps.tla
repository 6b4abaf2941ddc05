------------------------------- MODULE Traps --------------------------------
(***************************************************************************)
(* The hart as the run loop drives it (src/src/emu.c, the while loop of    *)
(* main): each iteration dispatches a pending interrupt, then executes one *)
(* instruction and adds 4 to pc.  The guest's instructions that do not     *)
(* concern traps only move pc.  The devices assert any set of live lines   *)
(* at any time.                                                            *)
(*                                                                         *)
(* Two history variables record, for the last trap into M and into S, what *)
(* it interrupted, until it is returned from or software writes the CSR    *)
(* fields that hold it.                                                    *)
(***************************************************************************)
EXTENDS Privileged

CONSTANTS
    Code,       \* addresses of the guest's own code
    ExcCauses,  \* exceptions an ordinary instruction can raise
    CsrOps,     \* <<csr, op, operand>> the guest executes
    Live,       \* the live lines the devices can assert
    Configs     \* trap set-up left by the machine-mode firmware

Tvec == [base : Addr, vectored : BOOLEAN]

\* The values a CSR is written with.
CsrValueOK(csr, val) ==
    /\ csr \in {"mstatus", "sstatus"} => val \in SUBSET MstatusBits
    /\ csr \in {"mie", "sie", "mip", "sip", "mideleg"} => val \in SUBSET Irqs
    /\ csr = "medeleg" => val \in SUBSET Nat
    /\ csr \in {"mepc", "sepc"} => val \in Addr
    /\ csr \in {"mtvec", "stvec"} => val \in Tvec
    /\ csr = "satp" => val \in Nat

ASSUME TrapsAssumption ==
    /\ Code \subseteq Addr /\ Code # {}
    /\ ExcCauses \subseteq Nat
    /\ Live \subseteq LiveIrqs
    /\ \A o \in CsrOps :
          /\ o[1] \in Csrs
          /\ o[2] \in {"r", "w", "s", "c"}
          /\ o[2] \in {"s", "c"} => o[1] \in BitCsrs
          /\ CsrValueOK(o[1], o[3])
    /\ \A c \in Configs :
          /\ c.mstatus \in SUBSET MstatusBits
          /\ c.medeleg \in SUBSET Nat
          /\ c.mideleg \in SUBSET Irqs /\ c.mie \in SUBSET Irqs
          /\ c.mtvec \in Tvec /\ c.stvec \in Tvec

VARIABLES
    hart,       \* g_state and the trap part of csr_table
    phase,      \* which half of the iteration comes next
    mctx,       \* what the open trap into M interrupted, or NoContext
    sctx        \* the same for S

vars == <<hart, phase, mctx, sctx>>

NoContext == <<>>
Context == [privilege : Privileges, ie : {0, 1}, pc : Addr]

Cause == {"exception", "interrupt"} \X Nat

Hart == [privilege : Privileges,
         pc : Addr,
         just_trapped : {0, 1},
         mmu_flags : {{}},
         mstatus : SUBSET MstatusBits,
         mcause : Cause, scause : Cause,
         mepc : Addr, sepc : Addr,
         mtvec : Tvec, stvec : Tvec,
         medeleg : SUBSET Nat,
         mideleg : SUBSET Irqs, mie : SUBSET Irqs, mip : SUBSET Irqs,
         satp : Nat]

\* Registers and pc are in range (pc through every -4 and +4 of the trap code),
\* and the open contexts are contexts.
TypeOK ==
    /\ hart \in Hart
    /\ phase \in {"interrupt", "execute"}
    /\ mctx \in Context \union {NoContext}
    /\ sctx \in Context \union {NoContext}

\* Reset, then the firmware's set-up of the trap registers.
Init ==
    /\ \E c \in Configs, pc \in Code :
          hart = [privilege |-> PRV_MACHINE, pc |-> pc, just_trapped |-> 0,
                  mmu_flags |-> {}, mstatus |-> c.mstatus,
                  mcause |-> Exc(0), scause |-> Exc(0),
                  mepc |-> 0, sepc |-> 0,
                  mtvec |-> c.mtvec, stvec |-> c.stvec,
                  medeleg |-> c.medeleg, mideleg |-> c.mideleg,
                  mie |-> c.mie, mip |-> {}, satp |-> 0]
    /\ phase = "interrupt"
    /\ mctx = NoContext /\ sctx = NoContext

\* The context a trap from h interrupts, and where the history keeps it.
Interrupted(h, bit) ==
    [privilege |-> h.privilege, ie |-> IF bit \in h.mstatus THEN 1 ELSE 0,
     pc |-> h.pc]

RecordTrap(h, trapped) ==
    IF trapped.privilege = PRV_MACHINE
    THEN mctx' = Interrupted(h, "MIE") /\ UNCHANGED sctx
    ELSE sctx' = Interrupted(h, "SIE") /\ UNCHANGED mctx

\* `g_state.pc += 4` after every instruction.
Retire(h) == [h EXCEPT !.pc = AddrPlus(@, 4)]

-----------------------------------------------------------------------------
\* Top of the loop.
TakeInterrupt ==
    /\ phase = "interrupt" /\ phase' = "execute"
    /\ \E live \in SUBSET Live :
          /\ hart' = check_and_handle_interrupts(hart, live)
          /\ IF hart' = hart THEN UNCHANGED <<mctx, sctx>>
             ELSE RecordTrap(hart, hart')

\* One instruction, by kind.
Executing == phase = "execute" /\ phase' = "interrupt"

Ordinary ==
    /\ Executing
    /\ \E a \in Code : hart' = Retire([hart EXCEPT !.pc = AddrPlus(a, -4)])
    /\ UNCHANGED <<mctx, sctx>>

Fault ==
    /\ Executing
    /\ \E cause \in ExcCauses :
          LET trapped == raise_exception(hart, cause)
          IN  hart' = Retire(trapped) /\ RecordTrap(hart, trapped)

Ecall ==
    /\ Executing
    /\ LET trapped == insi_i_ecall(hart)
       IN  hart' = Retire(trapped) /\ RecordTrap(hart, trapped)

Mret ==
    /\ Executing
    /\ hart' = Retire(ins_mret(hart))
    /\ mctx' = NoContext
    /\ UNCHANGED sctx

SretTraps == hart.privilege = PRV_SUPERVISOR /\ "TSR" \in hart.mstatus

Sret ==
    /\ Executing
    /\ ~SretTraps
    /\ hart' = Retire(ins_sret(hart))
    /\ sctx' = NoContext
    /\ UNCHANGED mctx

SretIllegal ==
    /\ Executing
    /\ SretTraps
    /\ hart' = Retire(ins_sret(hart))
    /\ RecordTrap(hart, ins_sret(hart))

SfenceVma ==
    /\ Executing
    /\ LET done == ins_sfence_vma(hart)
       IN  /\ hart' = Retire(done)
           /\ IF done = hart THEN UNCHANGED <<mctx, sctx>> ELSE RecordTrap(hart, done)

\* A write to the fields that hold a saved context ends its history.
EndsMctx(csr) == csr \in {"mstatus", "mepc"}
EndsSctx(csr) == csr \in {"mstatus", "sstatus", "sepc"}

\* The lines a CSR access can find asserted: it looks at them only through mip.
LinesSeen(csr) == IF csr \in {"mip", "sip"} THEN SUBSET Live ELSE {{}}

CsrLegal ==
    /\ Executing
    /\ \E o \in CsrOps : \E live \in LinesSeen(o[1]) :
          /\ CsrAccessLegal(hart, o[1])
          /\ hart' = Retire(CsrInstruction(hart, o[1], o[2], o[3], live))
          /\ mctx' = IF o[2] # "r" /\ EndsMctx(o[1]) THEN NoContext ELSE mctx
          /\ sctx' = IF o[2] # "r" /\ EndsSctx(o[1]) THEN NoContext ELSE sctx

\* The access traps, and the instruction then still writes its CSR.
CsrIllegal ==
    /\ Executing
    /\ \E o \in CsrOps : \E live \in LinesSeen(o[1]) :
          LET trapped == check_csr_access(hart, o[1])
              toM == trapped.privilege = PRV_MACHINE
              wrote == o[2] # "r"
          IN  /\ ~CsrAccessLegal(hart, o[1])
              /\ hart' = Retire(CsrInstruction(hart, o[1], o[2], o[3], live))
              /\ mctx' = IF wrote /\ EndsMctx(o[1]) THEN NoContext
                         ELSE IF toM THEN Interrupted(hart, "MIE") ELSE mctx
              /\ sctx' = IF wrote /\ EndsSctx(o[1]) THEN NoContext
                         ELSE IF toM THEN sctx ELSE Interrupted(hart, "SIE")

Execute ==
    \/ Ordinary \/ Fault \/ Ecall \/ Mret \/ Sret \/ SretIllegal \/ SfenceVma
    \/ CsrLegal \/ CsrIllegal

Next == TakeInterrupt \/ Execute
Spec == Init /\ [][Next]_vars

-----------------------------------------------------------------------------
\* The CSRs hold the context a trap interrupted, and mask its interrupts.
HoldsM(h, context) ==
    /\ MppOf(h.mstatus) = context.privilege
    /\ "MPIE" \in h.mstatus <=> context.ie = 1
    /\ h.mepc = context.pc
    /\ "MIE" \notin h.mstatus

HoldsS(h, context) ==
    /\ context.privilege \in {PRV_USER, PRV_SUPERVISOR}
    /\ "SPP" \in h.mstatus <=> context.privilege = PRV_SUPERVISOR
    /\ "SPIE" \in h.mstatus <=> context.ie = 1
    /\ h.sepc = context.pc
    /\ "SIE" \notin h.mstatus

(***************************************************************************)
(* While a trap into M is open, mstatus.MPP/MPIE and mepc hold exactly     *)
(* what it interrupted and machine interrupts stay masked, whatever traps  *)
(* into S, sstatus writes and returns from S happen meanwhile.             *)
(***************************************************************************)
MachineContextSaved == mctx # NoContext => HoldsM(hart, mctx)

(***************************************************************************)
(* The same for S through nested traps into M: SPP/SPIE and sepc survive   *)
(* every machine trap and return, and the single bit SPP is enough because *)
(* a trap reaches S only from U or S.                                      *)
(***************************************************************************)
SupervisorContextSaved == sctx # NoContext => HoldsS(hart, sctx)

(***************************************************************************)
(* mret and sret resume what their trap interrupted: the same privilege,   *)
(* interrupt enable and, with the -4 of the return and the +4 of the loop, *)
(* the same pc.                                                            *)
(***************************************************************************)
ReturnsRestore ==
    [][/\ (Mret /\ mctx # NoContext) =>
             /\ hart'.privilege = mctx.privilege
             /\ "MIE" \in hart'.mstatus <=> mctx.ie = 1
             /\ hart'.pc = mctx.pc
       /\ (Sret /\ sctx # NoContext) =>
             /\ hart'.privilege = sctx.privilege
             /\ "SIE" \in hart'.mstatus <=> sctx.ie = 1
             /\ hart'.pc = sctx.pc]_vars

\* mideleg as firmware writes it that delegates supervisor lines only.  The
\* register keeps any value (set_mideleg of zicsr_extension.c masks nothing).
OnlySupervisorLines(mideleg) == mideleg \subseteq SBits

(***************************************************************************)
(* A handler is not re-entered: between a trap into M and its mret (or a   *)
(* write of mstatus) no interrupt is taken to M, and, as long as mideleg   *)
(* delegates supervisor lines only, none is taken to S while S runs a      *)
(* handler.  The condition is needed: see DelegatedStayPending.            *)
(***************************************************************************)
HandlersNotReentered ==
    [][TakeInterrupt /\ hart' # hart =>
          /\ hart'.privilege = PRV_MACHINE => mctx = NoContext
          /\ (/\ hart'.privilege = PRV_SUPERVISOR /\ hart.privilege = PRV_SUPERVISOR
              /\ OnlySupervisorLines(hart.mideleg))
                => sctx = NoContext]_vars

(***************************************************************************)
(* Machine mode is left only by mret or sret: no exception, interrupt or   *)
(* illegal access in M is delegated, whatever medeleg and mideleg say.     *)
(***************************************************************************)
MachineNeverDelegates ==
    [][(hart.privilege = PRV_MACHINE /\ hart'.privilege # PRV_MACHINE)
          => Mret \/ Sret]_vars

(***************************************************************************)
(* A trap lands exactly on its own entry of the vector of the mode it      *)
(* enters: an exception on the base (the -4 of its entry and the loop's +4 *)
(* cancel), an interrupt, taken before the fetch and so without either, on *)
(* the base or, in vectored mode, on the slot of the very interrupt that   *)
(* the cause register of that mode now names.                              *)
(***************************************************************************)
TrapsLandOnVector ==
    [][LET toM == hart'.privilege = PRV_MACHINE
           tvec == IF toM THEN hart.mtvec ELSE hart.stvec
           cause == IF toM THEN hart'.mcause ELSE hart'.scause
       IN  /\ (TakeInterrupt /\ hart' # hart) =>
                 \E irq \in Irqs :
                    /\ cause = Irq(irq)
                    /\ hart'.pc = IF tvec.vectored THEN AddrPlus(tvec.base, 4 * irq)
                                  ELSE tvec.base
           /\ (Fault \/ Ecall \/ SretIllegal \/ CsrIllegal) =>
                 hart'.pc = tvec.base /\ cause[1] = "exception"]_vars

(***************************************************************************)
(* system.c:383: "delegated lines belong to the S path above and stay      *)
(* pending if S has interrupts disabled", so S takes no interrupt from S   *)
(* with SIE clear.                                                         *)
(***************************************************************************)
DelegatedStayPending ==
    [][(/\ TakeInterrupt /\ hart' # hart
        /\ hart.privilege = PRV_SUPERVISOR /\ hart'.privilege = PRV_SUPERVISOR)
          => "SIE" \in hart.mstatus]_vars

(***************************************************************************)
(* zicsr_extension.c:285: sip.STIP mirrors MIP.MTIP.  For a guest that     *)
(* never writes STIP itself, S sees a timer interrupt exactly while the    *)
(* CLINT asserts one.                                                      *)
(***************************************************************************)
StipMirrorsTimer ==
    \A live \in SUBSET Live : STI \in get_sip(hart, live) <=> MTI \in live

(***************************************************************************)
(* zicsr_extension.h:171: with mstatus.TVM set an S-mode access to satp is *)
(* illegal, so the instruction that traps leaves satp as it was.           *)
(***************************************************************************)
IllegalSatpWriteHasNoEffect ==
    [][(hart.privilege = PRV_SUPERVISOR /\ "TVM" \in hart.mstatus)
          => hart'.satp = hart.satp]_vars
=============================================================================
