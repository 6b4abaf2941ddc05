---------------------------- MODULE TrapsProofs -----------------------------
(***************************************************************************)
(* Proofs that trap entry and return keep the interrupted context, for     *)
(* every address-space size, guest code, set of CSR accesses, delegation   *)
(* set-up and interrupt pattern.                                           *)
(***************************************************************************)
EXTENDS Traps, TLAPS

-----------------------------------------------------------------------------
\* Addresses.

\* Address arithmetic stays in the address space.
LEMMA AddrPlusType ==
    ASSUME NEW a \in Addr, NEW n \in Int
    PROVE  AddrPlus(a, n) \in Addr
  BY AddrAssumption DEF Addr, AddrPlus

\* The -4 of a trap or return and the +4 of the run loop cancel, wrap-around
\* included.
LEMMA MinusPlusFour ==
    ASSUME NEW a \in Addr
    PROVE  AddrPlus(AddrPlus(a, -4), 4) = a
  BY AddrAssumption DEF Addr, AddrPlus

-----------------------------------------------------------------------------
\* mstatus as a set of bits.

\* The two bits of MPP hold any privilege.
LEMMA MppRoundTrip ==
    ASSUME NEW m, NEW prv \in Privileges
    PROVE  MppOf(WithMpp(m, prv)) = prv
  BY DEF MppOf, WithMpp, MppBits, Privileges

\* What a machine trap makes of mstatus: MPP and MPIE receive the interrupted
\* privilege and MIE, MIE is cleared and no other bit moves.
TrapM(m, prv) == CopyBit(WithMpp(m, prv), "MIE", "MPIE") \ {"MIE"}

\* A machine trap saves privilege and MIE and moves no supervisor bit.
LEMMA TrapMStatus ==
    ASSUME NEW m \in SUBSET MstatusBits, NEW prv \in Privileges
    PROVE  /\ TrapM(m, prv) \in SUBSET MstatusBits
           /\ MppOf(TrapM(m, prv)) = prv
           /\ "MPIE" \in TrapM(m, prv) <=> "MIE" \in m
           /\ "MIE" \notin TrapM(m, prv)
           /\ \A b \in SstatusBits : b \in TrapM(m, prv) <=> b \in m
  BY DEF TrapM, CopyBit, WithMpp, MppOf, MppBits, MstatusBits, SstatusBits,
         Privileges

TrapS(m, prv) ==
    CopyBit(IF prv = PRV_SUPERVISOR THEN m \union {"SPP"} ELSE m \ {"SPP"},
            "SIE", "SPIE") \ {"SIE"}

\* The same for a supervisor trap, which reaches no machine bit.
MBits == {"MIE", "MPIE"} \union MppBits

\* What the bits are after a supervisor trap.
LEMMA TrapSStatus ==
    ASSUME NEW m \in SUBSET MstatusBits, NEW prv \in Privileges
    PROVE  /\ TrapS(m, prv) \in SUBSET MstatusBits
           /\ "SPP" \in TrapS(m, prv) <=> prv = PRV_SUPERVISOR
           /\ "SPIE" \in TrapS(m, prv) <=> "SIE" \in m
           /\ "SIE" \notin TrapS(m, prv)
           /\ \A b \in MBits : b \in TrapS(m, prv) <=> b \in m
  BY DEF TrapS, CopyBit, MBits, MppBits, MstatusBits, PRV_SUPERVISOR

-----------------------------------------------------------------------------
\* Frame conditions: the parts of the hart that hold the context of an open
\* trap into M, and into S, are the same in h and in r.
SameM(h, r) ==
    r.mepc = h.mepc /\ \A b \in MBits : b \in r.mstatus <=> b \in h.mstatus
SameS(h, r) ==
    /\ r.sepc = h.sepc
    /\ \A b \in {"SIE", "SPIE", "SPP"} : b \in r.mstatus <=> b \in h.mstatus

\* A saved machine context is a matter of the machine bits and mepc alone.
LEMMA SameMHolds ==
    ASSUME NEW h, NEW r, NEW c, SameM(h, r), HoldsM(h, c)
    PROVE  HoldsM(r, c)
  BY DEF SameM, HoldsM, MBits, MppBits, MppOf

\* A saved supervisor context is a matter of the supervisor bits and sepc alone.
LEMMA SameSHolds ==
    ASSUME NEW h, NEW r, NEW c, SameS(h, r), HoldsS(h, c)
    PROVE  HoldsS(r, c)
  BY DEF SameS, HoldsS

\* What a trap from h to r does: it saves h in the mode it enters and leaves
\* what the other mode saved.
Entered(h, r) ==
    \/ /\ r.privilege = PRV_MACHINE
       /\ HoldsM(r, Interrupted(h, "MIE"))
       /\ SameS(h, r)
    \/ /\ r.privilege = PRV_SUPERVISOR
       /\ HoldsS(r, Interrupted(h, "SIE"))
       /\ SameM(h, r)

\* Updating fields with values of their types stays within Hart.
LEMMA HartTrapM ==
    ASSUME NEW h \in Hart, NEW m \in SUBSET MstatusBits, NEW c \in Cause,
           NEW e \in Addr, NEW p \in Privileges, NEW t \in Addr
    PROVE  [h EXCEPT !.mstatus = m, !.mcause = c, !.mepc = e, !.privilege = p,
                     !.just_trapped = 1, !.pc = t] \in Hart
  BY DEF Hart

\* The same for the fields a supervisor trap sets.
LEMMA HartTrapS ==
    ASSUME NEW h \in Hart, NEW m \in SUBSET MstatusBits, NEW c \in Cause,
           NEW e \in Addr, NEW p \in Privileges, NEW t \in Addr
    PROVE  [h EXCEPT !.mstatus = m, !.scause = c, !.sepc = e, !.privilege = p,
                     !.pc = t] \in Hart
  BY DEF Hart

Returned(h, m, p, t) == [h EXCEPT !.mstatus = m, !.privilege = p, !.pc = t]

\* The same for the fields mret and sret set, which leave the epc registers.
LEMMA HartReturn ==
    ASSUME NEW h \in Hart, NEW m \in SUBSET MstatusBits, NEW p \in Privileges,
           NEW t \in Addr
    PROVE  /\ Returned(h, m, p, t) \in Hart
           /\ Returned(h, m, p, t).mstatus = m
           /\ Returned(h, m, p, t).privilege = p
           /\ Returned(h, m, p, t).pc = t
           /\ Returned(h, m, p, t).mepc = h.mepc
           /\ Returned(h, m, p, t).sepc = h.sepc
  BY DEF Hart, Returned

\* raise_machine_exception and raise_machine_interrupt save the interrupted
\* context in the machine CSRs and leave the supervisor's alone.
LEMMA TrapToMEnters ==
    ASSUME NEW h \in Hart, NEW cause \in Cause, NEW target \in Addr
    PROVE  /\ TrapToM(h, cause, h.pc, target) \in Hart
           /\ Entered(h, TrapToM(h, cause, h.pc, target))
           /\ TrapToM(h, cause, h.pc, target).pc = target
           /\ TrapToM(h, cause, h.pc, target).privilege = PRV_MACHINE
  <1> DEFINE r == TrapToM(h, cause, h.pc, target)
  <1>1. h.mstatus \in SUBSET MstatusBits /\ h.privilege \in Privileges
    BY DEF Hart
  <1>2. /\ r.mstatus = TrapM(h.mstatus, h.privilege)
        /\ r.privilege = PRV_MACHINE /\ r.pc = target
        /\ r.mepc = h.pc /\ r.sepc = h.sepc
    BY DEF Hart, TrapToM, TrapM
  <1>3. r \in Hart
    <2>1. TrapM(h.mstatus, h.privilege) \in SUBSET MstatusBits
      BY <1>1, TrapMStatus
    <2>2. h.pc \in Addr /\ PRV_MACHINE \in Privileges
      BY DEF Hart, Privileges, PRV_MACHINE
    <2> QED
      BY <2>1, <2>2, HartTrapM DEF TrapToM, TrapM
  <1>4. HoldsM(r, Interrupted(h, "MIE"))
    BY <1>1, <1>2, TrapMStatus DEF HoldsM, Interrupted
  <1>5. SameS(h, r)
    BY <1>1, <1>2, TrapMStatus DEF SameS, SstatusBits
  <1> QED
    BY <1>2, <1>3, <1>4, <1>5 DEF Entered

\* raise_supervisor_exception and raise_supervisor_interrupt_internal save it in
\* the supervisor CSRs and leave the machine's alone.
LEMMA TrapToSEnters ==
    ASSUME NEW h \in Hart, NEW cause \in Cause, NEW target \in Addr,
           h.privilege \in {PRV_USER, PRV_SUPERVISOR}
    PROVE  /\ TrapToS(h, cause, h.pc, target) \in Hart
           /\ Entered(h, TrapToS(h, cause, h.pc, target))
           /\ TrapToS(h, cause, h.pc, target).pc = target
           /\ TrapToS(h, cause, h.pc, target).privilege = PRV_SUPERVISOR
  <1> DEFINE r == TrapToS(h, cause, h.pc, target)
  <1>1. h.mstatus \in SUBSET MstatusBits /\ h.privilege \in Privileges
    BY DEF Hart
  <1>2. /\ r.mstatus = TrapS(h.mstatus, h.privilege)
        /\ r.privilege = PRV_SUPERVISOR /\ r.pc = target
        /\ r.sepc = h.pc /\ r.mepc = h.mepc
    BY DEF Hart, TrapToS, TrapS
  <1>3. r \in Hart
    <2>1. TrapS(h.mstatus, h.privilege) \in SUBSET MstatusBits
      BY <1>1, TrapSStatus
    <2>2. h.pc \in Addr /\ PRV_SUPERVISOR \in Privileges
      BY DEF Hart, Privileges, PRV_SUPERVISOR
    <2> QED
      BY <2>1, <2>2, HartTrapS DEF TrapToS, TrapS
  <1>4. HoldsS(r, Interrupted(h, "SIE"))
    BY <1>1, <1>2, TrapSStatus DEF HoldsS, Interrupted
  <1>5. SameM(h, r)
    BY <1>1, <1>2, TrapSStatus DEF SameM
  <1> QED
    BY <1>2, <1>3, <1>4, <1>5 DEF Entered

-----------------------------------------------------------------------------
\* In Traps there are no reservations to clear.
LEMMA ClearNothing ==
    ASSUME NEW h \in Hart
    PROVE  ClearReservations(h) = h
  BY DEF Hart, ClearReservations

\* An exception, delegated or not, enters one of the two modes.
LEMMA RaiseException ==
    ASSUME NEW h \in Hart, NEW cause \in Nat
    PROVE  LET r == raise_exception(h, cause)
           IN  /\ r \in Hart
               /\ Entered(h, r)
               /\ r.pc = ExceptionTarget(IF r.privilege = PRV_MACHINE
                                         THEN h.mtvec ELSE h.stvec)
  <1> DEFINE r == raise_exception(h, cause)
  <1>1. Exc(cause) \in Cause
    BY DEF Exc, Cause
  <1>2. ExceptionTarget(h.stvec) \in Addr /\ ExceptionTarget(h.mtvec) \in Addr
    <2>1. h.stvec.base \in Addr /\ h.mtvec.base \in Addr
      BY DEF Hart, Tvec
    <2> QED
      BY <2>1, AddrPlusType DEF ExceptionTarget
  <1>3. CASE Delegated(h, h.medeleg, cause)
    <2>1. r = TrapToS(h, Exc(cause), h.pc, ExceptionTarget(h.stvec))
      BY <1>3, ClearNothing DEF raise_exception, raise_exception_pc
    <2>2. h.privilege \in {PRV_USER, PRV_SUPERVISOR}
      BY <1>3 DEF Delegated
    <2> QED
      BY <1>1, <1>2, <2>1, <2>2, TrapToSEnters DEF PRV_SUPERVISOR, PRV_MACHINE
  <1>4. CASE ~Delegated(h, h.medeleg, cause)
    <2>1. r = TrapToM(h, Exc(cause), h.pc, ExceptionTarget(h.mtvec))
      BY <1>4, ClearNothing DEF raise_exception, raise_exception_pc
    <2> QED
      BY <1>1, <1>2, <2>1, TrapToMEnters
  <1> QED
    BY <1>3, <1>4

\* So does an interrupt.
LEMMA RaiseInterrupt ==
    ASSUME NEW h \in Hart, NEW irq \in Irqs
    PROVE  /\ raise_interrupt(h, irq) \in Hart
           /\ Entered(h, raise_interrupt(h, irq))
  <1> DEFINE r == raise_interrupt(h, irq)
  <1>1. irq \in Nat /\ Irq(irq) \in Cause
    BY DEF Irq, Cause, Irqs, SSI, MSI, STI, MTI, SEI, MEI
  <1>2. InterruptTarget(h.stvec, irq) \in Addr /\ InterruptTarget(h.mtvec, irq) \in Addr
    <2>1. h.stvec.base \in Addr /\ h.mtvec.base \in Addr
      BY DEF Hart, Tvec
    <2>2. 4 * irq \in Int
      BY <1>1
    <2> QED
      BY <2>1, <2>2, AddrPlusType DEF InterruptTarget
  <1>3. CASE Delegated(h, h.mideleg, irq)
    <2>1. r = TrapToS(h, Irq(irq), h.pc, InterruptTarget(h.stvec, irq))
      BY <1>3, ClearNothing DEF raise_interrupt
    <2>2. h.privilege \in {PRV_USER, PRV_SUPERVISOR}
      BY <1>3 DEF Delegated
    <2> QED
      BY <1>1, <1>2, <2>1, <2>2, TrapToSEnters
  <1>4. CASE ~Delegated(h, h.mideleg, irq)
    <2>1. r = TrapToM(h, Irq(irq), h.pc, InterruptTarget(h.mtvec, irq))
      BY <1>4, ClearNothing DEF raise_interrupt
    <2> QED
      BY <1>1, <1>2, <2>1, TrapToMEnters
  <1> QED
    BY <1>3, <1>4

\* A non-empty set of interrupts has a most urgent member.
LEMMA MostUrgentIn ==
    ASSUME NEW irqs \in SUBSET Irqs, irqs # {}
    PROVE  MostUrgent(irqs) \in irqs
  <1>1. \E irq \in irqs : \A o \in irqs : Rank[irq] <= Rank[o]
    <2> USE DEF Irqs, Rank, SSI, MSI, STI, MTI, SEI, MEI
    <2>1. CASE MEI \in irqs
      BY <2>1
    <2>2. CASE MEI \notin irqs /\ MSI \in irqs
      BY <2>2
    <2>3. CASE MEI \notin irqs /\ MSI \notin irqs /\ MTI \in irqs
      BY <2>3
    <2>4. CASE irqs \subseteq SBits /\ SEI \in irqs
      BY <2>4 DEF SBits
    <2>5. CASE irqs \subseteq {SSI, STI} /\ SSI \in irqs
      BY <2>5
    <2>6. CASE irqs = {STI}
      BY <2>6
    <2> QED
      BY <2>1, <2>2, <2>3, <2>4, <2>5, <2>6 DEF SBits
  <1> QED
    BY <1>1 DEF MostUrgent

\* The dispatcher either does nothing or takes one interrupt.
LEMMA CheckInterrupts ==
    ASSUME NEW h \in Hart, NEW live \in SUBSET LiveIrqs
    PROVE  LET r == check_and_handle_interrupts(h, live)
           IN  r = h \/ (r \in Hart /\ Entered(h, r))
  <1> DEFINE sp == IF h.privilege = PRV_MACHINE THEN {} ELSE SupervisorPending(h, live)
             mp == MachinePending(h, live)
  <1>1. sp \in SUBSET Irqs /\ mp \in SUBSET Irqs
    <2>1. get_sie(h) \in SUBSET Irqs
      BY DEF get_sie, SBits, Irqs
    <2> QED
      BY <2>1 DEF SupervisorPending, MachinePending
  <1>2. CASE sp # {}
    BY <1>1, <1>2, MostUrgentIn, RaiseInterrupt DEF check_and_handle_interrupts
  <1>3. CASE sp = {} /\ mp # {}
    BY <1>1, <1>3, MostUrgentIn, RaiseInterrupt DEF check_and_handle_interrupts
  <1>4. CASE sp = {} /\ mp = {}
    BY <1>4 DEF check_and_handle_interrupts
  <1> QED
    BY <1>2, <1>3, <1>4

-----------------------------------------------------------------------------
\* The loop's pc += 4 touches nothing else.
LEMMA RetireSame ==
    ASSUME NEW h \in Hart
    PROVE  /\ Retire(h) \in Hart
           /\ SameM(h, Retire(h)) /\ SameS(h, Retire(h))
           /\ Retire(h).privilege = h.privilege
           /\ Retire(h).mstatus = h.mstatus
           /\ Retire(h).pc = AddrPlus(h.pc, 4)
  <1>1. AddrPlus(h.pc, 4) \in Addr
    BY AddrPlusType DEF Hart
  <1> QED
    BY <1>1 DEF Hart, Retire, SameM, SameS

MretStatus(m) == WithMpp(CopyBit(m, "MPIE", "MIE") \union {"MPIE"}, PRV_USER)

\* mret resumes the machine context the CSRs hold and leaves the supervisor's.
LEMMA MretFacts ==
    ASSUME NEW h \in Hart
    PROVE  /\ ins_mret(h) \in Hart
           /\ SameS(h, ins_mret(h))
           /\ ins_mret(h).privilege = MppOf(h.mstatus)
           /\ "MIE" \in ins_mret(h).mstatus <=> "MPIE" \in h.mstatus
           /\ ins_mret(h).pc = AddrPlus(h.mepc, -4)
  <1> DEFINE r == ins_mret(h)
  <1>1. h.mstatus \in SUBSET MstatusBits /\ h.mepc \in Addr
    BY DEF Hart
  <1>2. /\ MretStatus(h.mstatus) \in SUBSET MstatusBits
        /\ "MIE" \in MretStatus(h.mstatus) <=> "MPIE" \in h.mstatus
        /\ \A b \in {"SIE", "SPIE", "SPP"} :
              b \in MretStatus(h.mstatus) <=> b \in h.mstatus
    BY <1>1 DEF MretStatus, WithMpp, CopyBit, MppBits, MstatusBits, PRV_USER
  <1>3. MppOf(h.mstatus) \in Privileges /\ AddrPlus(h.mepc, -4) \in Addr
    BY <1>1, AddrPlusType DEF MppOf, Privileges
  <1>4. r = Returned(h, MretStatus(h.mstatus), MppOf(h.mstatus),
                     AddrPlus(h.mepc, -4))
    BY DEF ins_mret, MretStatus, Returned
  <1>5. /\ r \in Hart
        /\ r.mstatus = MretStatus(h.mstatus)
        /\ r.privilege = MppOf(h.mstatus)
        /\ r.pc = AddrPlus(h.mepc, -4)
        /\ r.sepc = h.sepc
    BY <1>2, <1>3, <1>4, HartReturn
  <1> HIDE DEF r
  <1>6. SameS(h, r)
    BY <1>2, <1>5 DEF SameS
  <1> QED
    BY <1>2, <1>5, <1>6 DEF r

SretStatus(m) == (CopyBit(m, "SPIE", "SIE") \union {"SPIE"}) \ {"SPP"}
SretPrivilege(m) == IF "SPP" \in m THEN PRV_SUPERVISOR ELSE PRV_USER

\* sret resumes the supervisor context the CSRs hold and leaves the machine's.
LEMMA SretFacts ==
    ASSUME NEW h \in Hart, ~(h.privilege = PRV_SUPERVISOR /\ "TSR" \in h.mstatus)
    PROVE  /\ ins_sret(h) \in Hart
           /\ SameM(h, ins_sret(h))
           /\ ins_sret(h).privilege = SretPrivilege(h.mstatus)
           /\ "SIE" \in ins_sret(h).mstatus <=> "SPIE" \in h.mstatus
           /\ ins_sret(h).pc = AddrPlus(h.sepc, -4)
  <1> DEFINE r == ins_sret(h)
  <1>1. h.mstatus \in SUBSET MstatusBits /\ h.sepc \in Addr
    BY DEF Hart
  <1>2. /\ SretStatus(h.mstatus) \in SUBSET MstatusBits
        /\ "SIE" \in SretStatus(h.mstatus) <=> "SPIE" \in h.mstatus
        /\ \A b \in MBits : b \in SretStatus(h.mstatus) <=> b \in h.mstatus
    BY <1>1 DEF SretStatus, CopyBit, MBits, MppBits, MstatusBits
  <1>3. SretPrivilege(h.mstatus) \in Privileges /\ AddrPlus(h.sepc, -4) \in Addr
    BY <1>1, AddrPlusType DEF SretPrivilege, Privileges, PRV_SUPERVISOR, PRV_USER
  <1>4. r = Returned(h, SretStatus(h.mstatus), SretPrivilege(h.mstatus),
                     AddrPlus(h.sepc, -4))
    BY DEF ins_sret, SretStatus, SretPrivilege, Returned
  <1>5. /\ r \in Hart
        /\ r.mstatus = SretStatus(h.mstatus)
        /\ r.privilege = SretPrivilege(h.mstatus)
        /\ r.pc = AddrPlus(h.sepc, -4)
        /\ r.mepc = h.mepc
    BY <1>2, <1>3, <1>4, HartReturn
  <1> HIDE DEF r
  <1>6. SameM(h, r)
    BY <1>2, <1>5 DEF SameM
  <1> QED
    BY <1>2, <1>5, <1>6 DEF r

-----------------------------------------------------------------------------
\* CSR accesses.

\* Every CSR reads as a value of its type.
LEMMA CsrReadOK ==
    ASSUME NEW h \in Hart, NEW csr \in BitCsrs, NEW live \in SUBSET LiveIrqs
    PROVE  CsrValueOK(csr, csr_read(h, csr, live))
  <1> USE DEF CsrValueOK, csr_read, get_mip, get_sip, get_sie, sstatus_read,
              LiveIrqs, Irqs, SBits, SstatusBits, MstatusBits
  <1>1. /\ h.mstatus \in SUBSET MstatusBits /\ h.mie \in SUBSET Irqs
        /\ h.mip \in SUBSET Irqs /\ h.medeleg \in SUBSET Nat
        /\ h.mideleg \in SUBSET Irqs
    BY DEF Hart
  <1>2. CASE csr = "mstatus"
    BY <1>1, <1>2
  <1>3. CASE csr = "sstatus"
    BY <1>1, <1>3
  <1>4. CASE csr \in {"mie", "mideleg", "medeleg"}
    BY <1>1, <1>4
  <1>5. CASE csr = "sie"
    BY <1>1, <1>5
  <1>6. CASE csr = "mip"
    BY <1>1, <1>6
  <1>7. CASE csr = "sip"
    BY <1>1, <1>7
  <1> QED
    BY <1>2, <1>3, <1>4, <1>5, <1>6, <1>7 DEF BitCsrs

\* A CSR write keeps the hart typed, and disturbs a saved context only through
\* the CSRs that hold it.
LEMMA CsrWriteFacts ==
    ASSUME NEW h \in Hart, NEW csr \in Csrs, NEW val, CsrValueOK(csr, val),
           NEW live \in SUBSET LiveIrqs
    PROVE  /\ csr_write(h, csr, val, live) \in Hart
           /\ ~EndsMctx(csr) => SameM(h, csr_write(h, csr, val, live))
           /\ ~EndsSctx(csr) => SameS(h, csr_write(h, csr, val, live))
           /\ csr_write(h, csr, val, live).pc = h.pc
           /\ csr_write(h, csr, val, live).privilege = h.privilege
  <1> DEFINE r == csr_write(h, csr, val, live)
  <1> USE DEF EndsMctx, EndsSctx, SameM, SameS, MBits, MppBits
  <1>1. CASE csr = "sstatus"
    <2>1. (h.mstatus \ SstatusBits) \union (val \intersect SstatusBits)
             \in SUBSET MstatusBits
      BY <1>1 DEF Hart, CsrValueOK
    <2>2. r = [h EXCEPT !.mstatus = (h.mstatus \ SstatusBits)
                                      \union (val \intersect SstatusBits)]
      BY <1>1 DEF csr_write
    <2>3. \A b \in MBits : b \in (h.mstatus \ SstatusBits)
                                   \union (val \intersect SstatusBits)
                            <=> b \in h.mstatus
      BY DEF SstatusBits
    <2> QED
      BY <1>1, <2>1, <2>2, <2>3 DEF Hart
  <1>2. CASE csr = "sie"
    <2>1. (h.mie \ SBits) \union (val \intersect SBits) \in SUBSET Irqs
      BY <1>2 DEF Hart, CsrValueOK
    <2>2. r = [h EXCEPT !.mie = (h.mie \ SBits) \union (val \intersect SBits)]
      BY <1>2 DEF csr_write
    <2> QED
      BY <2>1, <2>2 DEF Hart
  <1>3. CASE csr = "sip"
    <2>1. (get_mip(h, live) \ SBits) \union (val \intersect SBits) \in SUBSET Irqs
      BY <1>3 DEF Hart, CsrValueOK, get_mip, LiveIrqs, Irqs
    <2>2. r = [h EXCEPT !.mip = (get_mip(h, live) \ SBits) \union (val \intersect SBits)]
      BY <1>3 DEF csr_write
    <2> QED
      BY <2>1, <2>2 DEF Hart
  <1>4. CASE csr \in Csrs \ {"sstatus", "sie", "sip"}
    <2>1. r = [h EXCEPT ![csr] = val]
      BY <1>4 DEF csr_write
    <2>2. CASE csr = "mstatus"
      BY <2>1, <2>2 DEF Hart, CsrValueOK
    <2>3. CASE csr = "mie"
      BY <2>1, <2>3 DEF Hart, CsrValueOK
    <2>4. CASE csr = "mip"
      BY <2>1, <2>4 DEF Hart, CsrValueOK
    <2>5. CASE csr = "mideleg"
      BY <2>1, <2>5 DEF Hart, CsrValueOK
    <2>6. CASE csr = "medeleg"
      BY <2>1, <2>6 DEF Hart, CsrValueOK
    <2>7. CASE csr = "mepc"
      BY <2>1, <2>7 DEF Hart, CsrValueOK
    <2>8. CASE csr = "sepc"
      BY <2>1, <2>8 DEF Hart, CsrValueOK
    <2>9. CASE csr = "mtvec"
      BY <2>1, <2>9 DEF Hart, CsrValueOK
    <2>10. CASE csr = "stvec"
      BY <2>1, <2>10 DEF Hart, CsrValueOK
    <2>11. CASE csr = "satp"
      BY <2>1, <2>11 DEF Hart, CsrValueOK
    <2> QED
      BY <1>4, <2>2, <2>3, <2>4, <2>5, <2>6, <2>7, <2>8, <2>9, <2>10, <2>11
         DEF Csrs, BitCsrs, PlainCsrs
  <1> QED
    BY <1>1, <1>2, <1>3, <1>4

-----------------------------------------------------------------------------
(***************************************************************************)
(* The inductive invariant.  Each saved context is inductive on its own    *)
(* given the types: no step needs the one to keep the other.               *)
(***************************************************************************)
IInv == TypeOK /\ MachineContextSaved /\ SupervisorContextSaved

\* What a trap interrupts is a context.
LEMMA InterruptedContext ==
    ASSUME NEW h \in Hart, NEW bit
    PROVE  Interrupted(h, bit) \in Context /\ Interrupted(h, bit) # NoContext
  BY DEF Interrupted, Context, NoContext, Hart

\* A trap that enters a mode, recorded, keeps the invariant; so does the
\* loop's pc += 4 after it.
LEMMA RecordTrapIInv ==
    ASSUME IInv, NEW r \in Hart, Entered(hart, r), RecordTrap(hart, r),
           hart' = r \/ hart' = Retire(r), phase' \in {"interrupt", "execute"}
    PROVE  IInv'
  <1>1. hart \in Hart
    BY DEF IInv, TypeOK
  <1>2. hart' \in Hart /\ SameM(r, hart') /\ SameS(r, hart')
    BY RetireSame DEF SameM, SameS
  <1>3. CASE r.privilege = PRV_MACHINE
    <2>1. /\ HoldsM(r, Interrupted(hart, "MIE")) /\ SameS(hart, r)
          /\ mctx' = Interrupted(hart, "MIE") /\ sctx' = sctx
      BY <1>3 DEF Entered, RecordTrap, PRV_MACHINE, PRV_SUPERVISOR
    <2>2. SameS(hart, hart')
      BY <1>2, <2>1 DEF SameS
    <2>3. TypeOK'
      BY <1>1, <1>2, <2>1, InterruptedContext DEF IInv, TypeOK
    <2>4. MachineContextSaved'
      BY <1>2, <2>1, SameMHolds DEF MachineContextSaved
    <2>5. SupervisorContextSaved'
      BY <2>1, <2>2, SameSHolds DEF IInv, SupervisorContextSaved
    <2> QED
      BY <2>3, <2>4, <2>5 DEF IInv
  <1>4. CASE r.privilege # PRV_MACHINE
    <2>1. /\ HoldsS(r, Interrupted(hart, "SIE")) /\ SameM(hart, r)
          /\ sctx' = Interrupted(hart, "SIE") /\ mctx' = mctx
      BY <1>4 DEF Entered, RecordTrap
    <2>2. SameM(hart, hart')
      BY <1>2, <2>1 DEF SameM
    <2>3. TypeOK'
      BY <1>1, <1>2, <2>1, InterruptedContext DEF IInv, TypeOK
    <2>4. MachineContextSaved'
      BY <2>1, <2>2, SameMHolds DEF IInv, MachineContextSaved
    <2>5. SupervisorContextSaved'
      BY <1>2, <2>1, SameSHolds DEF SupervisorContextSaved
    <2> QED
      BY <2>3, <2>4, <2>5 DEF IInv
  <1> QED
    BY <1>3, <1>4

\* A step that closes or keeps each history, and keeps what the kept ones
\* stand for.
LEMMA KeepIInv ==
    ASSUME IInv, hart' \in Hart, phase' \in {"interrupt", "execute"},
           mctx' = NoContext \/ (mctx' = mctx /\ SameM(hart, hart')),
           sctx' = NoContext \/ (sctx' = sctx /\ SameS(hart, hart'))
    PROVE  IInv'
  <1>1. TypeOK'
    BY DEF IInv, TypeOK
  <1>2. MachineContextSaved'
    BY SameMHolds DEF IInv, MachineContextSaved
  <1>3. SupervisorContextSaved'
    BY SameSHolds DEF IInv, SupervisorContextSaved
  <1> QED
    BY <1>1, <1>2, <1>3 DEF IInv

\* The reset state satisfies the inductive invariant.
LEMMA InitIInv == Init => IInv
  <1> SUFFICES ASSUME Init PROVE IInv
    OBVIOUS
  <1>1. PICK c \in Configs, pc \in Code :
          hart = [privilege |-> PRV_MACHINE, pc |-> pc, just_trapped |-> 0,
                  mmu_flags |-> {}, mstatus |-> c.mstatus,
                  mcause |-> Exc(0), scause |-> Exc(0),
                  mepc |-> 0, sepc |-> 0,
                  mtvec |-> c.mtvec, stvec |-> c.stvec,
                  medeleg |-> c.medeleg, mideleg |-> c.mideleg,
                  mie |-> c.mie, mip |-> {}, satp |-> 0]
    BY DEF Init
  <1>2. /\ PRV_MACHINE \in Privileges /\ Exc(0) \in Cause
        /\ pc \in Addr /\ 0 \in Addr
    BY AddrAssumption, TrapsAssumption
       DEF PRV_MACHINE, Privileges, Exc, Cause, Addr
  <1>3. hart \in Hart
    BY <1>1, <1>2, TrapsAssumption DEF Hart
  <1> QED
    BY <1>3 DEF Init, IInv, TypeOK, MachineContextSaved, SupervisorContextSaved

\* What a legal or trapping CSR instruction leaves, given the state c that the
\* access check leaves.
LEMMA CsrInstructionFacts ==
    ASSUME NEW h \in Hart, NEW o \in CsrOps, NEW live \in SUBSET Live,
           NEW c \in Hart, check_csr_access(h, o[1]) = c
    PROVE  LET r == CsrInstruction(h, o[1], o[2], o[3], live)
           IN  /\ r \in Hart
               /\ r.pc = c.pc /\ r.privilege = c.privilege
               /\ ~(o[2] # "r" /\ EndsMctx(o[1])) => SameM(c, r)
               /\ ~(o[2] # "r" /\ EndsSctx(o[1])) => SameS(c, r)
  <1> DEFINE csr == o[1]
             old == csr_read(c, csr, live)
             r == CsrInstruction(h, csr, o[2], o[3], live)
  <1>1. /\ csr \in Csrs /\ o[2] \in {"r", "w", "s", "c"}
        /\ o[2] \in {"s", "c"} => csr \in BitCsrs
        /\ CsrValueOK(csr, o[3])
        /\ live \in SUBSET LiveIrqs
    BY TrapsAssumption
  <1>2. CASE o[2] = "r"
    <2>1. r = c
      BY <1>2 DEF CsrInstruction
    <2> QED
      BY <1>2, <2>1 DEF SameM, SameS
  <1>3. CASE o[2] = "w"
    <2>1. r = csr_write(c, csr, o[3], live)
      BY <1>3 DEF CsrInstruction
    <2> QED
      BY <1>1, <1>3, <2>1, CsrWriteFacts
  <1>4. CASE o[2] \in {"s", "c"}
    <2>1. CsrValueOK(csr, old)
      BY <1>1, <1>4, CsrReadOK
    <2>2. CsrValueOK(csr, old \union o[3]) /\ CsrValueOK(csr, old \ o[3])
      <3>1. csr \notin {"mepc", "sepc", "mtvec", "stvec", "satp"}
        BY <1>1, <1>4 DEF BitCsrs
      <3> QED
        BY <1>1, <2>1, <3>1 DEF CsrValueOK
    <2>3. r = csr_write(c, csr, old \union o[3], live)
            \/ r = csr_write(c, csr, old \ o[3], live)
      BY <1>4 DEF CsrInstruction
    <2> QED
      BY <1>1, <1>4, <2>2, <2>3, CsrWriteFacts
  <1> QED
    BY <1>1, <1>2, <1>3, <1>4

\* Every step keeps the inductive invariant.
LEMMA NextIInv == IInv /\ [Next]_vars => IInv'
  <1> SUFFICES ASSUME IInv, [Next]_vars PROVE IInv'
    OBVIOUS
  <1>h. hart \in Hart
    BY DEF IInv, TypeOK
  <1>1. CASE TakeInterrupt
    <2>1. PICK live \in SUBSET Live :
             /\ hart' = check_and_handle_interrupts(hart, live)
             /\ IF hart' = hart THEN UNCHANGED <<mctx, sctx>>
                ELSE RecordTrap(hart, hart')
      BY <1>1 DEF TakeInterrupt
    <2>2. hart' = hart \/ (hart' \in Hart /\ Entered(hart, hart'))
      BY <1>h, <2>1, CheckInterrupts, TrapsAssumption
    <2>3. phase' = "execute"
      BY <1>1 DEF TakeInterrupt
    <2>4. CASE hart' = hart
      BY <1>h, <2>1, <2>3, <2>4, KeepIInv DEF SameM, SameS
    <2>5. CASE hart' # hart
      BY <2>1, <2>2, <2>3, <2>5, RecordTrapIInv
    <2> QED
      BY <2>4, <2>5
  <1>2. CASE Ordinary
    <2>1. PICK a \in Code : hart' = Retire([hart EXCEPT !.pc = AddrPlus(a, -4)])
      BY <1>2 DEF Ordinary
    <2>2. AddrPlus(a, -4) \in Addr
      BY AddrPlusType, TrapsAssumption
    <2> DEFINE jumped == [hart EXCEPT !.pc = AddrPlus(a, -4)]
    <2>3. jumped \in Hart /\ SameM(hart, jumped) /\ SameS(hart, jumped)
      BY <1>h, <2>2 DEF Hart, SameM, SameS
    <2>4. hart' = Retire(jumped)
      BY <2>1
    <2> HIDE DEF jumped
    <2>5. hart' \in Hart /\ SameM(hart, hart') /\ SameS(hart, hart')
      BY <2>3, <2>4, RetireSame DEF SameM, SameS
    <2> QED
      BY <1>2, <2>5, KeepIInv DEF Ordinary, Executing
  <1>3. CASE Fault
    <2>1. PICK cause \in ExcCauses :
             /\ hart' = Retire(raise_exception(hart, cause))
             /\ RecordTrap(hart, raise_exception(hart, cause))
      BY <1>3 DEF Fault
    <2>2. cause \in Nat
      BY TrapsAssumption
    <2> QED
      BY <1>h, <1>3, <2>1, <2>2, RaiseException, RecordTrapIInv DEF Fault, Executing
  <1>4. CASE Ecall
    <2> DEFINE cause == CASE hart.privilege = PRV_SUPERVISOR -> CAUSE_SUPERVISOR_ECALL
                          [] hart.privilege = PRV_MACHINE -> CAUSE_MACHINE_ECALL
                          [] OTHER -> CAUSE_USER_ECALL
    <2>1. cause \in Nat
      BY DEF CAUSE_SUPERVISOR_ECALL, CAUSE_MACHINE_ECALL, CAUSE_USER_ECALL
    <2>2. insi_i_ecall(hart) = raise_exception(hart, cause)
      BY DEF insi_i_ecall
    <2> HIDE DEF cause
    <2> QED
      BY <1>h, <1>4, <2>1, <2>2, RaiseException, RecordTrapIInv DEF Ecall, Executing
  <1>5. CASE Mret
    <2>1. ins_mret(hart) \in Hart /\ SameS(hart, ins_mret(hart))
      BY <1>h, MretFacts
    <2>2. hart' \in Hart /\ SameS(hart, hart')
      BY <1>5, <2>1, RetireSame DEF Mret, SameS
    <2> QED
      BY <1>5, <2>2, KeepIInv DEF Mret, Executing
  <1>6. CASE Sret
    <2>1. ins_sret(hart) \in Hart /\ SameM(hart, ins_sret(hart))
      BY <1>h, <1>6, SretFacts DEF Sret, SretTraps
    <2>2. hart' \in Hart /\ SameM(hart, hart')
      BY <1>6, <2>1, RetireSame DEF Sret, SameM
    <2> QED
      BY <1>6, <2>2, KeepIInv DEF Sret, Executing
  <1>7. CASE SretIllegal
    <2>1. ins_sret(hart) = raise_exception(hart, CAUSE_ILLEGAL_INSTRUCTION)
      BY <1>7 DEF SretIllegal, SretTraps, ins_sret
    <2>2. CAUSE_ILLEGAL_INSTRUCTION \in Nat
      BY DEF CAUSE_ILLEGAL_INSTRUCTION
    <2> QED
      BY <1>h, <1>7, <2>1, <2>2, RaiseException, RecordTrapIInv
         DEF SretIllegal, Executing
  <1>8. CASE SfenceVma
    <2> DEFINE done == ins_sfence_vma(hart)
    <2>1. done = hart \/ (done \in Hart /\ Entered(hart, done))
      <3>1. CAUSE_ILLEGAL_INSTRUCTION \in Nat
        BY DEF CAUSE_ILLEGAL_INSTRUCTION
      <3> QED
        BY <1>h, <3>1, RaiseException DEF ins_sfence_vma
    <2>2. /\ hart' = Retire(done) /\ phase' = "interrupt"
          /\ IF done = hart THEN UNCHANGED <<mctx, sctx>> ELSE RecordTrap(hart, done)
      BY <1>8 DEF SfenceVma, Executing
    <2> HIDE DEF done
    <2>3. CASE done = hart
      BY <1>h, <2>2, <2>3, RetireSame, KeepIInv
    <2>4. CASE done # hart
      BY <2>1, <2>2, <2>4, RecordTrapIInv
    <2> QED
      BY <2>3, <2>4
  <1>9. CASE CsrLegal
    <2>1. PICK o \in CsrOps, live \in SUBSET Live :
             /\ CsrAccessLegal(hart, o[1])
             /\ hart' = Retire(CsrInstruction(hart, o[1], o[2], o[3], live))
             /\ mctx' = IF o[2] # "r" /\ EndsMctx(o[1]) THEN NoContext ELSE mctx
             /\ sctx' = IF o[2] # "r" /\ EndsSctx(o[1]) THEN NoContext ELSE sctx
      BY <1>9 DEF CsrLegal, LinesSeen
    <2>2. check_csr_access(hart, o[1]) = hart
      BY <2>1 DEF check_csr_access
    <2> DEFINE r == CsrInstruction(hart, o[1], o[2], o[3], live)
    <2>3. /\ r \in Hart
          /\ ~(o[2] # "r" /\ EndsMctx(o[1])) => SameM(hart, r)
          /\ ~(o[2] # "r" /\ EndsSctx(o[1])) => SameS(hart, r)
      BY <1>h, <2>2, CsrInstructionFacts
    <2>4. hart' = Retire(r)
      BY <2>1
    <2> HIDE DEF r
    <2>5. hart' \in Hart /\ SameM(r, hart') /\ SameS(r, hart')
      BY <2>3, <2>4, RetireSame
    <2>6. mctx' = NoContext \/ (mctx' = mctx /\ SameM(hart, hart'))
      BY <2>1, <2>3, <2>5 DEF SameM
    <2>7. sctx' = NoContext \/ (sctx' = sctx /\ SameS(hart, hart'))
      BY <2>1, <2>3, <2>5 DEF SameS
    <2> QED
      BY <1>9, <2>5, <2>6, <2>7, KeepIInv DEF CsrLegal, Executing
  <1>10. CASE CsrIllegal
    <2>1. PICK o \in CsrOps, live \in SUBSET Live :
            LET trapped == check_csr_access(hart, o[1])
                toM == trapped.privilege = PRV_MACHINE
                wrote == o[2] # "r"
            IN  /\ ~CsrAccessLegal(hart, o[1])
                /\ hart' = Retire(CsrInstruction(hart, o[1], o[2], o[3], live))
                /\ mctx' = IF wrote /\ EndsMctx(o[1]) THEN NoContext
                           ELSE IF toM THEN Interrupted(hart, "MIE") ELSE mctx
                /\ sctx' = IF wrote /\ EndsSctx(o[1]) THEN NoContext
                           ELSE IF toM THEN sctx ELSE Interrupted(hart, "SIE")
      BY <1>10 DEF CsrIllegal, LinesSeen
    <2> DEFINE c == check_csr_access(hart, o[1])
               r == CsrInstruction(hart, o[1], o[2], o[3], live)
    <2>2. c \in Hart /\ Entered(hart, c)
      <3>1. CAUSE_ILLEGAL_INSTRUCTION \in Nat
        BY DEF CAUSE_ILLEGAL_INSTRUCTION
      <3> QED
        BY <1>h, <2>1, <3>1, RaiseException DEF check_csr_access
    <2>3. /\ r \in Hart
          /\ ~(o[2] # "r" /\ EndsMctx(o[1])) => SameM(c, r)
          /\ ~(o[2] # "r" /\ EndsSctx(o[1])) => SameS(c, r)
      BY <1>h, <2>2, CsrInstructionFacts
    <2>4. /\ hart' = Retire(r)
          /\ mctx' = IF o[2] # "r" /\ EndsMctx(o[1]) THEN NoContext
                     ELSE IF c.privilege = PRV_MACHINE
                          THEN Interrupted(hart, "MIE") ELSE mctx
          /\ sctx' = IF o[2] # "r" /\ EndsSctx(o[1]) THEN NoContext
                     ELSE IF c.privilege = PRV_MACHINE
                          THEN sctx ELSE Interrupted(hart, "SIE")
      BY <2>1
    <2> HIDE DEF c, r
    <2>5. /\ hart' \in Hart
          /\ ~(o[2] # "r" /\ EndsMctx(o[1])) => SameM(c, hart')
          /\ ~(o[2] # "r" /\ EndsSctx(o[1])) => SameS(c, hart')
      BY <2>3, <2>4, RetireSame DEF SameM, SameS
    <2>6. TypeOK'
      BY <1>h, <1>10, <2>4, <2>5, InterruptedContext
         DEF IInv, TypeOK, CsrIllegal, Executing
    <2>7. MachineContextSaved'
      <3>1. CASE c.privilege = PRV_MACHINE
        <4>1. HoldsM(c, Interrupted(hart, "MIE"))
          BY <2>2, <3>1 DEF Entered, PRV_MACHINE, PRV_SUPERVISOR
        <4> QED
          BY <2>4, <2>5, <3>1, <4>1, SameMHolds DEF MachineContextSaved
      <3>2. CASE c.privilege # PRV_MACHINE
        <4>1. SameM(hart, c)
          BY <2>2, <3>2 DEF Entered
        <4> QED
          BY <2>4, <2>5, <3>2, <4>1, SameMHolds DEF IInv, MachineContextSaved
      <3> QED
        BY <3>1, <3>2
    <2>8. SupervisorContextSaved'
      <3>1. CASE c.privilege = PRV_MACHINE
        <4>1. SameS(hart, c)
          BY <2>2, <3>1 DEF Entered, PRV_MACHINE, PRV_SUPERVISOR
        <4> QED
          BY <2>4, <2>5, <3>1, <4>1, SameSHolds DEF IInv, SupervisorContextSaved
      <3>2. CASE c.privilege # PRV_MACHINE
        <4>1. HoldsS(c, Interrupted(hart, "SIE"))
          BY <2>2, <3>2 DEF Entered
        <4> QED
          BY <2>4, <2>5, <3>2, <4>1, SameSHolds DEF SupervisorContextSaved
      <3> QED
        BY <3>1, <3>2
    <2> QED
      BY <2>6, <2>7, <2>8 DEF IInv
  <1>11. CASE UNCHANGED vars
    <2>1. hart' = hart /\ phase' = phase /\ mctx' = mctx /\ sctx' = sctx
      BY <1>11 DEF vars
    <2> QED
      BY <2>1 DEF IInv, TypeOK, MachineContextSaved, SupervisorContextSaved
  <1> QED
    BY <1>1, <1>2, <1>3, <1>4, <1>5, <1>6, <1>7, <1>8, <1>9, <1>10, <1>11
       DEF Next, Execute

\* A return resumes the context that the open trap saved.
LEMMA StepRestores ==
    ASSUME IInv, Next
    PROVE  /\ (Mret /\ mctx # NoContext) =>
                 /\ hart'.privilege = mctx.privilege
                 /\ "MIE" \in hart'.mstatus <=> mctx.ie = 1
                 /\ hart'.pc = mctx.pc
           /\ (Sret /\ sctx # NoContext) =>
                 /\ hart'.privilege = sctx.privilege
                 /\ "SIE" \in hart'.mstatus <=> sctx.ie = 1
                 /\ hart'.pc = sctx.pc
  <1>h. hart \in Hart /\ hart.mepc \in Addr /\ hart.sepc \in Addr
    BY DEF IInv, TypeOK, Hart
  <1>1. ASSUME Mret, mctx # NoContext
        PROVE  /\ hart'.privilege = mctx.privilege
               /\ "MIE" \in hart'.mstatus <=> mctx.ie = 1
               /\ hart'.pc = mctx.pc
    <2>1. HoldsM(hart, mctx)
      BY <1>1 DEF IInv, MachineContextSaved
    <2>2. /\ hart'.privilege = MppOf(hart.mstatus)
          /\ "MIE" \in hart'.mstatus <=> "MPIE" \in hart.mstatus
          /\ hart'.pc = AddrPlus(AddrPlus(hart.mepc, -4), 4)
      BY <1>h, <1>1, MretFacts, RetireSame DEF Mret
    <2> QED
      BY <1>h, <2>1, <2>2, MinusPlusFour DEF HoldsM
  <1>2. ASSUME Sret, sctx # NoContext
        PROVE  /\ hart'.privilege = sctx.privilege
               /\ "SIE" \in hart'.mstatus <=> sctx.ie = 1
               /\ hart'.pc = sctx.pc
    <2>1. HoldsS(hart, sctx)
      BY <1>2 DEF IInv, SupervisorContextSaved
    <2>2. /\ hart'.privilege = SretPrivilege(hart.mstatus)
          /\ "SIE" \in hart'.mstatus <=> "SPIE" \in hart.mstatus
          /\ hart'.pc = AddrPlus(AddrPlus(hart.sepc, -4), 4)
      BY <1>h, <1>2, SretFacts, RetireSame DEF Sret, SretTraps
    <2> QED
      BY <1>h, <2>1, <2>2, MinusPlusFour
         DEF HoldsS, SretPrivilege, PRV_USER, PRV_SUPERVISOR
  <1> QED
    BY <1>1, <1>2

\* A trap out of machine mode enters machine mode.
LEMMA EnteredFromMachine ==
    ASSUME NEW h, NEW r, Entered(h, r), h.privilege = PRV_MACHINE
    PROVE  r.privilege = PRV_MACHINE
  BY DEF Entered, HoldsS, Interrupted, PRV_MACHINE, PRV_USER, PRV_SUPERVISOR

\* A step out of machine mode other than a return stays in machine mode.
LEMMA StepStaysInMachine ==
    ASSUME IInv, Next, hart.privilege = PRV_MACHINE, ~Mret, ~Sret
    PROVE  hart'.privilege = PRV_MACHINE
  <1>h. hart \in Hart
    BY DEF IInv, TypeOK
  <1>i. CAUSE_ILLEGAL_INSTRUCTION \in Nat
    BY DEF CAUSE_ILLEGAL_INSTRUCTION
  <1>1. CASE TakeInterrupt
    BY <1>h, <1>1, CheckInterrupts, EnteredFromMachine, TrapsAssumption
       DEF TakeInterrupt
  <1>2. CASE Ordinary
    <2>1. PICK a \in Code : hart' = Retire([hart EXCEPT !.pc = AddrPlus(a, -4)])
      BY <1>2 DEF Ordinary
    <2>2. AddrPlus(a, -4) \in Addr
      BY AddrPlusType, TrapsAssumption
    <2>3. /\ [hart EXCEPT !.pc = AddrPlus(a, -4)] \in Hart
          /\ [hart EXCEPT !.pc = AddrPlus(a, -4)].privilege = PRV_MACHINE
      BY <1>h, <2>2 DEF Hart
    <2> QED
      BY <2>1, <2>3 DEF Retire, Hart
  <1>3. CASE Fault
    <2>1. PICK cause \in ExcCauses : hart' = Retire(raise_exception(hart, cause))
      BY <1>3 DEF Fault
    <2>2. cause \in Nat
      BY TrapsAssumption
    <2> QED
      BY <1>h, <2>1, <2>2, RaiseException, EnteredFromMachine, RetireSame
  <1>4. CASE Ecall
    <2>1. insi_i_ecall(hart) = raise_exception(hart, CAUSE_MACHINE_ECALL)
      BY DEF insi_i_ecall, PRV_MACHINE, PRV_SUPERVISOR
    <2>2. CAUSE_MACHINE_ECALL \in Nat
      BY DEF CAUSE_MACHINE_ECALL
    <2> QED
      BY <1>h, <1>4, <2>1, <2>2, RaiseException, EnteredFromMachine, RetireSame
         DEF Ecall
  <1>5. CASE SretIllegal
    BY <1>5 DEF SretIllegal, SretTraps, PRV_MACHINE, PRV_SUPERVISOR
  <1>6. CASE SfenceVma
    <2>1. hart' = Retire(hart)
      BY <1>6 DEF SfenceVma, ins_sfence_vma, PRV_MACHINE, PRV_SUPERVISOR
    <2> QED
      BY <1>h, <2>1, RetireSame
  <1>7. CASE CsrLegal \/ CsrIllegal
    <2>1. PICK o \in CsrOps, live \in SUBSET Live :
             hart' = Retire(CsrInstruction(hart, o[1], o[2], o[3], live))
      BY <1>7 DEF CsrLegal, CsrIllegal, LinesSeen
    <2> DEFINE c == check_csr_access(hart, o[1])
    <2>2. c \in Hart /\ c.privilege = PRV_MACHINE
      BY <1>h, <1>i, RaiseException, EnteredFromMachine DEF check_csr_access
    <2> HIDE DEF c
    <2>3. /\ CsrInstruction(hart, o[1], o[2], o[3], live) \in Hart
          /\ CsrInstruction(hart, o[1], o[2], o[3], live).privilege = PRV_MACHINE
      BY <1>h, <2>2, CsrInstructionFacts DEF c
    <2> QED
      BY <2>1, <2>3, RetireSame
  <1> QED
    BY <1>1, <1>2, <1>3, <1>4, <1>5, <1>6, <1>7 DEF Next, Execute

-----------------------------------------------------------------------------
\* The inductive invariant: types, and both saved contexts.
THEOREM TrapsInductive == Spec => []IInv
  BY InitIInv, NextIInv, PTL DEF Spec

(***************************************************************************)
(* Registers, privilege, pc and the recorded contexts stay in their types, *)
(* a two-bit MPP of 2 included.                                            *)
(***************************************************************************)
THEOREM TrapsTyped == Spec => []TypeOK
  <1>1. IInv => TypeOK
    BY DEF IInv
  <1> QED
    BY <1>1, TrapsInductive, PTL

(***************************************************************************)
(* The CSRs hold the interrupted machine context until its mret, through   *)
(* every nesting of supervisor traps and CSR accesses.                     *)
(***************************************************************************)
THEOREM TrapsMachineContext == Spec => []MachineContextSaved
  <1>1. IInv => MachineContextSaved
    BY DEF IInv
  <1> QED
    BY <1>1, TrapsInductive, PTL

(***************************************************************************)
(* The CSRs hold the interrupted supervisor context until its sret.        *)
(***************************************************************************)
THEOREM TrapsSupervisorContext == Spec => []SupervisorContextSaved
  <1>1. IInv => SupervisorContextSaved
    BY DEF IInv
  <1> QED
    BY <1>1, TrapsInductive, PTL

(***************************************************************************)
(* mret and sret resume exactly what their trap interrupted.               *)
(***************************************************************************)
THEOREM TrapsReturnsRestore == Spec => ReturnsRestore
  <1>1. IInv /\ [Next]_vars =>
          [/\ (Mret /\ mctx # NoContext) =>
                 /\ hart'.privilege = mctx.privilege
                 /\ "MIE" \in hart'.mstatus <=> mctx.ie = 1
                 /\ hart'.pc = mctx.pc
           /\ (Sret /\ sctx # NoContext) =>
                 /\ hart'.privilege = sctx.privilege
                 /\ "SIE" \in hart'.mstatus <=> sctx.ie = 1
                 /\ hart'.pc = sctx.pc]_vars
    BY StepRestores
  <1> QED
    BY <1>1, TrapsInductive, PTL DEF Spec, ReturnsRestore

(***************************************************************************)
(* Machine mode is left only by a return instruction.                      *)
(***************************************************************************)
THEOREM TrapsMachineNeverDelegates == Spec => MachineNeverDelegates
  <1>1. IInv /\ [Next]_vars =>
          [(hart.privilege = PRV_MACHINE /\ hart'.privilege # PRV_MACHINE)
             => Mret \/ Sret]_vars
    BY StepStaysInMachine
  <1> QED
    BY <1>1, TrapsInductive, PTL DEF Spec, MachineNeverDelegates

-----------------------------------------------------------------------------
(***************************************************************************)
(* Where a trap lands, and when an interrupt is taken.                     *)
(***************************************************************************)

\* The vector a step that traps takes its target from, and the cause it leaves.
EntryVector(h, r) == IF r.privilege = PRV_MACHINE THEN h.mtvec ELSE h.stvec
EntryCause(r) == IF r.privilege = PRV_MACHINE THEN r.mcause ELSE r.scause

\* An interrupt goes to S exactly when it is delegated, leaves its number in the
\* cause register and lands on its slot of the vector of the mode it enters.
LEMMA InterruptLands ==
    ASSUME NEW h \in Hart, NEW irq \in Irqs
    PROVE  LET r == raise_interrupt(h, irq)
           IN  /\ r.pc = InterruptTarget(EntryVector(h, r), irq)
               /\ EntryCause(r) = Irq(irq)
               /\ Delegated(h, h.mideleg, irq) => r.privilege = PRV_SUPERVISOR
               /\ ~Delegated(h, h.mideleg, irq) => r.privilege = PRV_MACHINE
  <1> DEFINE r == raise_interrupt(h, irq)
  <1>1. CASE Delegated(h, h.mideleg, irq)
    <2>1. r = TrapToS(h, Irq(irq), h.pc, InterruptTarget(h.stvec, irq))
      BY <1>1, ClearNothing DEF raise_interrupt
    <2>2. /\ r.pc = InterruptTarget(h.stvec, irq)
          /\ r.privilege = PRV_SUPERVISOR /\ r.scause = Irq(irq)
      BY <2>1 DEF TrapToS, Hart
    <2> QED
      BY <1>1, <2>2 DEF PRV_SUPERVISOR, PRV_MACHINE, EntryVector, EntryCause
  <1>2. CASE ~Delegated(h, h.mideleg, irq)
    <2>1. r = TrapToM(h, Irq(irq), h.pc, InterruptTarget(h.mtvec, irq))
      BY <1>2, ClearNothing DEF raise_interrupt
    <2>2. /\ r.pc = InterruptTarget(h.mtvec, irq)
          /\ r.privilege = PRV_MACHINE /\ r.mcause = Irq(irq)
      BY <2>1 DEF TrapToM, Hart
    <2> QED
      BY <1>2, <2>2 DEF EntryVector, EntryCause
  <1> QED
    BY <1>1, <1>2

\* What the dispatcher takes is an interrupt of one of its two chains.
LEMMA CheckTakes ==
    ASSUME NEW h \in Hart, NEW live \in SUBSET LiveIrqs,
           check_and_handle_interrupts(h, live) # h
    PROVE  \E irq \in Irqs :
              /\ check_and_handle_interrupts(h, live) = raise_interrupt(h, irq)
              /\ \/ h.privilege # PRV_MACHINE /\ irq \in SupervisorPending(h, live)
                 \/ irq \in MachinePending(h, live)
  <1> DEFINE sp == IF h.privilege = PRV_MACHINE THEN {} ELSE SupervisorPending(h, live)
             mp == MachinePending(h, live)
  <1>1. sp \in SUBSET Irqs /\ mp \in SUBSET Irqs
    <2>1. get_sie(h) \in SUBSET Irqs
      BY DEF get_sie, SBits, Irqs
    <2> QED
      BY <2>1 DEF SupervisorPending, MachinePending
  <1>2. CASE sp # {}
    <2>1. MostUrgent(sp) \in sp /\ h.privilege # PRV_MACHINE
      BY <1>1, <1>2, MostUrgentIn
    <2> QED
      BY <1>1, <1>2, <2>1 DEF check_and_handle_interrupts
  <1>3. CASE sp = {} /\ mp # {}
    <2>1. MostUrgent(mp) \in mp
      BY <1>1, <1>3, MostUrgentIn
    <2> QED
      BY <1>1, <1>3, <2>1 DEF check_and_handle_interrupts
  <1> QED
    BY <1>2, <1>3 DEF check_and_handle_interrupts

\* An exception leaves an exception's number in the cause register.
LEMMA ExceptionCause ==
    ASSUME NEW h \in Hart, NEW cause \in Nat
    PROVE  EntryCause(raise_exception(h, cause)) = Exc(cause)
  <1> DEFINE r == raise_exception(h, cause)
  <1>1. CASE Delegated(h, h.medeleg, cause)
    <2>1. r = TrapToS(h, Exc(cause), h.pc, ExceptionTarget(h.stvec))
      BY <1>1, ClearNothing DEF raise_exception, raise_exception_pc
    <2>2. r.privilege = PRV_SUPERVISOR /\ r.scause = Exc(cause)
      BY <2>1 DEF TrapToS, Hart
    <2> QED
      BY <2>2 DEF PRV_SUPERVISOR, PRV_MACHINE, EntryCause
  <1>2. CASE ~Delegated(h, h.medeleg, cause)
    <2>1. r = TrapToM(h, Exc(cause), h.pc, ExceptionTarget(h.mtvec))
      BY <1>2, ClearNothing DEF raise_exception, raise_exception_pc
    <2>2. r.privilege = PRV_MACHINE /\ r.mcause = Exc(cause)
      BY <2>1 DEF TrapToM, Hart
    <2> QED
      BY <2>2 DEF EntryCause
  <1> QED
    BY <1>1, <1>2

\* An exception, retired, is at the base of its vector with its cause recorded.
LEMMA RetiredOnVector ==
    ASSUME NEW h \in Hart, NEW cause \in Nat, NEW r \in Hart,
           r.pc = raise_exception(h, cause).pc,
           r.privilege = raise_exception(h, cause).privilege,
           r.mcause = raise_exception(h, cause).mcause,
           r.scause = raise_exception(h, cause).scause
    PROVE  /\ Retire(r).pc = EntryVector(h, Retire(r)).base
           /\ EntryCause(Retire(r)) = Exc(cause)
  <1>1. r.pc = AddrPlus(EntryVector(h, r).base, -4)
    BY RaiseException DEF ExceptionTarget, EntryVector
  <1>2. EntryVector(h, r).base \in Addr
    BY DEF EntryVector, Hart, Tvec
  <1>3. /\ Retire(r).pc = AddrPlus(r.pc, 4) /\ Retire(r).privilege = r.privilege
        /\ Retire(r).mcause = r.mcause /\ Retire(r).scause = r.scause
    BY RetireSame DEF Retire, Hart
  <1>4. EntryVector(h, Retire(r)) = EntryVector(h, r)
    BY <1>3 DEF EntryVector
  <1>5. EntryCause(Retire(r)) = EntryCause(raise_exception(h, cause))
    BY <1>3 DEF EntryCause
  <1> QED
    BY <1>1, <1>2, <1>3, <1>4, <1>5, MinusPlusFour, ExceptionCause

\* No CSR instruction writes a cause register.
LEMMA CsrKeepsCauses ==
    ASSUME NEW h \in Hart, NEW o \in CsrOps, NEW live \in SUBSET Live,
           NEW c \in Hart, c = check_csr_access(h, o[1])
    PROVE  LET r == CsrInstruction(h, o[1], o[2], o[3], live)
           IN  r.mcause = c.mcause /\ r.scause = c.scause
  <1>1. o[1] \in Csrs /\ o[2] \in {"r", "w", "s", "c"}
    BY TrapsAssumption
  <1>2. ASSUME NEW val
        PROVE  /\ csr_write(c, o[1], val, live).mcause = c.mcause
               /\ csr_write(c, o[1], val, live).scause = c.scause
    <2>1. CASE o[1] = "sstatus"
      BY <2>1 DEF csr_write, Hart
    <2>2. CASE o[1] = "sie"
      BY <2>2 DEF csr_write, Hart
    <2>3. CASE o[1] = "sip"
      BY <2>3 DEF csr_write, Hart
    <2>4. CASE o[1] \notin {"sstatus", "sie", "sip"}
      BY <1>1, <2>4 DEF csr_write, Hart, Csrs, BitCsrs, PlainCsrs
    <2> QED
      BY <2>1, <2>2, <2>3, <2>4
  <1> QED
    BY <1>1, <1>2 DEF CsrInstruction

\* What a step that traps leaves in pc and in the cause register.
Lands(r, exception) ==
    IF exception
    THEN r.pc = EntryVector(hart, r).base /\ EntryCause(r)[1] = "exception"
    ELSE \E irq \in Irqs : /\ EntryCause(r) = Irq(irq)
                           /\ r.pc = InterruptTarget(EntryVector(hart, r), irq)

\* Every step that traps lands on its entry of a vector.
LEMMA StepLands ==
    ASSUME IInv
    PROVE  /\ (TakeInterrupt /\ hart' # hart) => Lands(hart', FALSE)
           /\ (Fault \/ Ecall \/ SretIllegal \/ CsrIllegal) => Lands(hart', TRUE)
  <1>h. hart \in Hart
    BY DEF IInv, TypeOK
  <1>i. CAUSE_ILLEGAL_INSTRUCTION \in Nat
    BY DEF CAUSE_ILLEGAL_INSTRUCTION
  <1>e. \A cause : Exc(cause)[1] = "exception"
    BY DEF Exc
  <1>1. ASSUME TakeInterrupt, hart' # hart
        PROVE  Lands(hart', FALSE)
    <2>1. PICK live \in SUBSET Live :
             hart' = check_and_handle_interrupts(hart, live)
      BY <1>1 DEF TakeInterrupt
    <2>2. PICK irq \in Irqs : hart' = raise_interrupt(hart, irq)
      BY <1>h, <1>1, <2>1, CheckTakes, TrapsAssumption
    <2> QED
      BY <1>h, <2>2, InterruptLands DEF Lands
  <1>2. ASSUME NEW cause \in Nat, hart' = Retire(raise_exception(hart, cause))
        PROVE  Lands(hart', TRUE)
    BY <1>h, <1>e, <1>2, RaiseException, RetiredOnVector DEF Lands
  <1>3. ASSUME Fault PROVE Lands(hart', TRUE)
    <2>1. PICK cause \in ExcCauses : hart' = Retire(raise_exception(hart, cause))
      BY <1>3 DEF Fault
    <2> QED
      BY <1>2, <2>1, TrapsAssumption
  <1>4. ASSUME Ecall PROVE Lands(hart', TRUE)
    <2>1. \E cause \in Nat : insi_i_ecall(hart) = raise_exception(hart, cause)
      BY DEF insi_i_ecall, CAUSE_USER_ECALL, CAUSE_SUPERVISOR_ECALL,
             CAUSE_MACHINE_ECALL
    <2> QED
      BY <1>2, <1>4, <2>1 DEF Ecall
  <1>5. ASSUME SretIllegal PROVE Lands(hart', TRUE)
    BY <1>2, <1>5, <1>i DEF SretIllegal, SretTraps, ins_sret
  <1>6. ASSUME CsrIllegal PROVE Lands(hart', TRUE)
    <2>1. PICK o \in CsrOps, live \in SUBSET Live :
             /\ ~CsrAccessLegal(hart, o[1])
             /\ hart' = Retire(CsrInstruction(hart, o[1], o[2], o[3], live))
      BY <1>6 DEF CsrIllegal, LinesSeen
    <2> DEFINE c == raise_exception(hart, CAUSE_ILLEGAL_INSTRUCTION)
               r == CsrInstruction(hart, o[1], o[2], o[3], live)
    <2>2. c \in Hart /\ check_csr_access(hart, o[1]) = c
      BY <1>h, <1>i, <2>1, RaiseException DEF check_csr_access
    <2>3. r \in Hart /\ r.pc = c.pc /\ r.privilege = c.privilege
      BY <1>h, <2>2, CsrInstructionFacts
    <2>4. r.mcause = c.mcause /\ r.scause = c.scause
      BY <1>h, <2>2, CsrKeepsCauses
    <2> HIDE DEF r
    <2>5. /\ Retire(r).pc = EntryVector(hart, Retire(r)).base
          /\ EntryCause(Retire(r)) = Exc(CAUSE_ILLEGAL_INSTRUCTION)
      BY <1>h, <1>i, <2>3, <2>4, RetiredOnVector
    <2> QED
      BY <1>e, <2>1, <2>5 DEF r, Lands
  <1> QED
    BY <1>1, <1>3, <1>4, <1>5, <1>6

(***************************************************************************)
(* An exception lands on the base of its mode's vector, the -4 of its      *)
(* entry and the +4 of the loop cancelling, and an interrupt on the base   *)
(* or, in vectored mode, on the slot of the number it left in the cause    *)
(* register of the mode it entered.                                        *)
(***************************************************************************)
THEOREM TrapsLand == Spec => TrapsLandOnVector
  <1>1. IInv /\ [Next]_vars =>
     [LET toM == hart'.privilege = PRV_MACHINE
          tvec == IF toM THEN hart.mtvec ELSE hart.stvec
          cause == IF toM THEN hart'.mcause ELSE hart'.scause
       IN  /\ (TakeInterrupt /\ hart' # hart) =>
                 \E irq \in Irqs :
                    /\ cause = Irq(irq)
                    /\ hart'.pc = IF tvec.vectored THEN AddrPlus(tvec.base, 4 * irq)
                                  ELSE tvec.base
           /\ (Fault \/ Ecall \/ SretIllegal \/ CsrIllegal) =>
                 hart'.pc = tvec.base /\ cause[1] = "exception"]_vars
    BY StepLands DEF Lands, EntryVector, EntryCause, InterruptTarget
  <1> QED
    BY <1>1, TrapsInductive, PTL DEF Spec, TrapsLandOnVector

-----------------------------------------------------------------------------
(***************************************************************************)
(* Handlers are not re-entered by a guest whose software never asks for    *)
(* the reserved privilege 2: neither the firmware's set-up nor a write,    *)
(* set or clear of mstatus leaves 2 in MPP.  At privilege 2 the dispatcher *)
(* would take supervisor interrupts to M with MIE clear.                   *)
(***************************************************************************)
ModesWritten ==
    /\ \A c \in Configs : MppOf(c.mstatus) # 2
    /\ \A o \in CsrOps : o[1] = "mstatus" =>
          /\ o[2] = "w" => MppOf(o[3]) # 2
          /\ o[2] = "s" => ("MPP_HI" \in o[3] => "MPP_LO" \in o[3])
          /\ o[2] = "c" => ("MPP_LO" \in o[3] => "MPP_HI" \in o[3])

\* The hart runs in, and would return to, one of U, S and M.
KnownModes(h) == h.privilege # 2 /\ MppOf(h.mstatus) # 2

\* The two bits of the reserved mode.
LEMMA MppReserved ==
    ASSUME NEW m
    PROVE  MppOf(m) = 2 <=> "MPP_HI" \in m /\ "MPP_LO" \notin m
  BY DEF MppOf

\* A frame that keeps the machine bits keeps MPP.
LEMMA SameMMpp ==
    ASSUME NEW h, NEW r, SameM(h, r)
    PROVE  MppOf(r.mstatus) = MppOf(h.mstatus)
  BY DEF SameM, MBits, MppBits, MppOf

\* A trap saves a known mode and enters one.
LEMMA EnteredKnown ==
    ASSUME NEW h, NEW r, KnownModes(h), Entered(h, r)
    PROVE  KnownModes(r)
  <1>1. CASE r.privilege = PRV_MACHINE /\ HoldsM(r, Interrupted(h, "MIE"))
    BY <1>1 DEF KnownModes, HoldsM, Interrupted, PRV_MACHINE
  <1>2. CASE r.privilege = PRV_SUPERVISOR /\ SameM(h, r)
    BY <1>2, SameMMpp DEF KnownModes, PRV_SUPERVISOR
  <1> QED
    BY <1>1, <1>2 DEF Entered

\* The loop's pc += 4 keeps the modes.
LEMMA RetireKnown ==
    ASSUME NEW h \in Hart, KnownModes(h)
    PROVE  KnownModes(Retire(h))
  BY RetireSame DEF KnownModes

\* A CSR instruction of such a guest keeps the modes.
LEMMA CsrKnown ==
    ASSUME ModesWritten, NEW h \in Hart, NEW o \in CsrOps, NEW live \in SUBSET Live,
           NEW c \in Hart, check_csr_access(h, o[1]) = c, KnownModes(c)
    PROVE  KnownModes(CsrInstruction(h, o[1], o[2], o[3], live))
  <1> DEFINE r == CsrInstruction(h, o[1], o[2], o[3], live)
  <1>1. /\ r \in Hart /\ r.privilege = c.privilege
        /\ ~(o[2] # "r" /\ EndsMctx(o[1])) => SameM(c, r)
    BY CsrInstructionFacts
  <1>2. /\ o[2] \in {"r", "w", "s", "c"} /\ o[1] \in Csrs
        /\ o[2] \in {"s", "c"} => o[1] \in BitCsrs
    BY TrapsAssumption
  <1>3. CASE ~(o[2] # "r" /\ EndsMctx(o[1]))
    BY <1>1, <1>3, SameMMpp DEF KnownModes
  <1>4. CASE o[2] # "r" /\ o[1] = "mepc"
    <2>1. o[2] = "w"
      BY <1>2, <1>4 DEF BitCsrs
    <2>2. r = [c EXCEPT !["mepc"] = o[3]]
      BY <1>4, <2>1 DEF CsrInstruction, csr_write
    <2>3. r.mstatus = c.mstatus
      BY <2>2 DEF Hart
    <2> QED
      BY <1>1, <2>3 DEF KnownModes
  <1>5. CASE o[2] # "r" /\ o[1] = "mstatus"
    <2>0. o[2] \in {"w", "s", "c"}
      BY <1>2, <1>5
    <2>1. \A m : [c EXCEPT !["mstatus"] = m].mstatus = m
      BY DEF Hart
    <2>2. csr_read(c, "mstatus", live) = c.mstatus
      BY DEF csr_read
    <2>3. CASE o[2] = "w"
      <3>1. r = [c EXCEPT !["mstatus"] = o[3]]
        BY <1>5, <2>3 DEF CsrInstruction, csr_write
      <3>2. MppOf(o[3]) # 2
        BY <1>5, <2>3 DEF ModesWritten
      <3> QED
        BY <1>1, <2>1, <3>1, <3>2 DEF KnownModes
    <2>4. CASE o[2] = "s"
      <3>1. r = [c EXCEPT !["mstatus"] = c.mstatus \union o[3]]
        BY <1>5, <2>2, <2>4 DEF CsrInstruction, csr_write
      <3>2. "MPP_HI" \in o[3] => "MPP_LO" \in o[3]
        BY <1>5, <2>4 DEF ModesWritten
      <3>3. MppOf(c.mstatus \union o[3]) # 2
        BY <3>2, MppReserved DEF KnownModes
      <3> QED
        BY <1>1, <2>1, <3>1, <3>3 DEF KnownModes
    <2>5. CASE o[2] = "c"
      <3>1. r = [c EXCEPT !["mstatus"] = c.mstatus \ o[3]]
        BY <1>5, <2>2, <2>5 DEF CsrInstruction, csr_write
      <3>2. "MPP_LO" \in o[3] => "MPP_HI" \in o[3]
        BY <1>5, <2>5 DEF ModesWritten
      <3>3. MppOf(c.mstatus \ o[3]) # 2
        BY <3>2, MppReserved DEF KnownModes
      <3> QED
        BY <1>1, <2>1, <3>1, <3>3 DEF KnownModes
    <2> QED
      BY <2>0, <2>3, <2>4, <2>5
  <1> QED
    BY <1>3, <1>4, <1>5 DEF EndsMctx

\* Every step of such a guest keeps to the known modes.
LEMMA NextKnown ==
    ASSUME ModesWritten, IInv, KnownModes(hart), [Next]_vars
    PROVE  KnownModes(hart')
  <1>h. hart \in Hart
    BY DEF IInv, TypeOK
  <1>e. ASSUME NEW cause \in Nat, hart' = Retire(raise_exception(hart, cause))
        PROVE  KnownModes(hart')
    BY <1>h, <1>e, RaiseException, EnteredKnown, RetireKnown
  <1>i. CAUSE_ILLEGAL_INSTRUCTION \in Nat
    BY DEF CAUSE_ILLEGAL_INSTRUCTION
  <1>1. CASE TakeInterrupt
    BY <1>h, <1>1, CheckInterrupts, EnteredKnown, TrapsAssumption
       DEF TakeInterrupt
  <1>2. CASE Ordinary
    <2>1. PICK a \in Code : hart' = Retire([hart EXCEPT !.pc = AddrPlus(a, -4)])
      BY <1>2 DEF Ordinary
    <2>2. AddrPlus(a, -4) \in Addr
      BY AddrPlusType, TrapsAssumption
    <2> DEFINE h == [hart EXCEPT !.pc = AddrPlus(a, -4)]
    <2>3. h \in Hart /\ h.privilege = hart.privilege /\ h.mstatus = hart.mstatus
      BY <1>h, <2>2 DEF Hart
    <2> HIDE DEF h
    <2>4. KnownModes(Retire(h))
      BY <2>3, RetireKnown DEF KnownModes
    <2> QED
      BY <2>1, <2>4 DEF h
  <1>3. CASE Fault
    BY <1>e, <1>3, TrapsAssumption DEF Fault
  <1>4. CASE Ecall
    <2>1. \E cause \in Nat : insi_i_ecall(hart) = raise_exception(hart, cause)
      BY DEF insi_i_ecall, CAUSE_USER_ECALL, CAUSE_SUPERVISOR_ECALL,
             CAUSE_MACHINE_ECALL
    <2> QED
      BY <1>e, <1>4, <2>1 DEF Ecall
  <1>5. CASE Mret
    <2> DEFINE r == ins_mret(hart)
    <2>1. r \in Hart /\ r.privilege = MppOf(hart.mstatus)
      BY <1>h, MretFacts
    <2>2. r.mstatus = WithMpp(CopyBit(hart.mstatus, "MPIE", "MIE") \union {"MPIE"},
                              PRV_USER)
      BY <1>h DEF ins_mret, Hart
    <2>3. MppOf(r.mstatus) = 0
      BY <2>2, MppRoundTrip DEF PRV_USER, Privileges
    <2>4. KnownModes(r)
      BY <2>1, <2>3 DEF KnownModes
    <2> QED
      BY <1>5, <2>1, <2>4, RetireKnown DEF Mret
  <1>6. CASE Sret
    <2> DEFINE r == ins_sret(hart)
    <2>1. /\ r \in Hart /\ SameM(hart, r)
          /\ r.privilege = SretPrivilege(hart.mstatus)
      BY <1>h, <1>6, SretFacts DEF Sret, SretTraps
    <2>2. KnownModes(r)
      BY <2>1, SameMMpp DEF KnownModes, SretPrivilege, PRV_USER, PRV_SUPERVISOR
    <2> QED
      BY <1>6, <2>1, <2>2, RetireKnown DEF Sret
  <1>7. CASE SretIllegal
    BY <1>e, <1>7, <1>i DEF SretIllegal, SretTraps, ins_sret
  <1>8. CASE SfenceVma
    <2>1. hart' = Retire(hart)
            \/ hart' = Retire(raise_exception(hart, CAUSE_ILLEGAL_INSTRUCTION))
      BY <1>8 DEF SfenceVma, ins_sfence_vma
    <2> QED
      BY <1>e, <1>h, <1>i, <2>1, RetireKnown
  <1>9. CASE CsrLegal \/ CsrIllegal
    <2>1. PICK o \in CsrOps, live \in SUBSET Live :
             hart' = Retire(CsrInstruction(hart, o[1], o[2], o[3], live))
      BY <1>9 DEF CsrLegal, CsrIllegal, LinesSeen
    <2> DEFINE c == check_csr_access(hart, o[1])
               r == CsrInstruction(hart, o[1], o[2], o[3], live)
    <2>2. c \in Hart /\ KnownModes(c)
      BY <1>h, <1>i, RaiseException, EnteredKnown DEF check_csr_access
    <2> HIDE DEF c
    <2>3. r \in Hart /\ KnownModes(r)
      BY <1>h, <2>2, CsrInstructionFacts, CsrKnown DEF c
    <2> HIDE DEF r
    <2>4. KnownModes(Retire(r))
      BY <2>3, RetireKnown
    <2> QED
      BY <2>1, <2>4 DEF r
  <1>10. CASE UNCHANGED vars
    BY <1>10 DEF vars
  <1> QED
    BY <1>1, <1>2, <1>3, <1>4, <1>5, <1>6, <1>7, <1>8, <1>9, <1>10
       DEF Next, Execute

\* At a known mode, a machine chain interrupt needs MIE, a supervisor chain one
\* is delegated; what the machine chain delegates to S is a machine line.
LEMMA StepNotReentered ==
    ASSUME IInv, KnownModes(hart), TakeInterrupt, hart' # hart
    PROVE  /\ hart'.privilege = PRV_MACHINE => mctx = NoContext
           /\ (/\ hart'.privilege = PRV_SUPERVISOR /\ hart.privilege = PRV_SUPERVISOR
               /\ OnlySupervisorLines(hart.mideleg))
                 => sctx = NoContext
  <1>h. hart \in Hart
    BY DEF IInv, TypeOK
  <1>1. PICK live \in SUBSET Live :
           hart' = check_and_handle_interrupts(hart, live)
    BY DEF TakeInterrupt
  <1>2. PICK irq \in Irqs :
           /\ hart' = raise_interrupt(hart, irq)
           /\ \/ hart.privilege # PRV_MACHINE /\ irq \in SupervisorPending(hart, live)
              \/ irq \in MachinePending(hart, live)
    BY <1>h, <1>1, CheckTakes, TrapsAssumption
  <1>3. /\ Delegated(hart, hart.mideleg, irq) => hart'.privilege = PRV_SUPERVISOR
        /\ ~Delegated(hart, hart.mideleg, irq) => hart'.privilege = PRV_MACHINE
    BY <1>h, <1>2, InterruptLands
  <1>4. CASE hart.privilege # PRV_MACHINE /\ irq \in SupervisorPending(hart, live)
    <2>1. hart.privilege \in {PRV_USER, PRV_SUPERVISOR}
      BY <1>h, <1>4 DEF KnownModes, Hart, Privileges, PRV_USER, PRV_SUPERVISOR,
                        PRV_MACHINE
    <2>2. Delegated(hart, hart.mideleg, irq)
      BY <1>4, <2>1 DEF Delegated, SupervisorPending
    <2>3. hart.privilege = PRV_SUPERVISOR => "SIE" \in hart.mstatus
      BY <1>4 DEF SupervisorPending
    <2>4. hart.privilege = PRV_SUPERVISOR => sctx = NoContext
      BY <2>3 DEF IInv, SupervisorContextSaved, HoldsS
    <2> QED
      BY <1>3, <2>2, <2>4 DEF PRV_MACHINE, PRV_SUPERVISOR
  <1>5. CASE irq \in MachinePending(hart, live)
    <2>1. "MIE" \in hart.mstatus
      BY <1>5 DEF MachinePending
    <2>2. mctx = NoContext
      BY <2>1 DEF IInv, MachineContextSaved, HoldsM
    <2>3. ASSUME hart.privilege = PRV_SUPERVISOR, Delegated(hart, hart.mideleg, irq)
          PROVE  irq \notin SBits /\ irq \in hart.mideleg
      BY <1>5, <2>3 DEF MachinePending, Delegated, get_sip, get_sie, get_mip,
                        PRV_SUPERVISOR, PRV_MACHINE
    <2> QED
      BY <1>3, <2>2, <2>3 DEF OnlySupervisorLines, PRV_SUPERVISOR, PRV_MACHINE
  <1> QED
    BY <1>2, <1>4, <1>5

(***************************************************************************)
(* For a guest that never puts the reserved mode into MPP, no interrupt    *)
(* reaches M between a trap into M and its mret, and, while mideleg holds  *)
(* supervisor lines only, none reaches S while S runs a handler.           *)
(***************************************************************************)
THEOREM TrapsNotReentered ==
    ASSUME ModesWritten
    PROVE  Spec => HandlersNotReentered
  <1>1. Init => KnownModes(hart)
    BY DEF Init, KnownModes, ModesWritten, PRV_MACHINE
  <1>2. IInv /\ KnownModes(hart) /\ [Next]_vars => KnownModes(hart)'
    BY NextKnown
  <1>3. IInv /\ KnownModes(hart) /\ [Next]_vars =>
           [TakeInterrupt /\ hart' # hart =>
              /\ hart'.privilege = PRV_MACHINE => mctx = NoContext
              /\ (/\ hart'.privilege = PRV_SUPERVISOR /\ hart.privilege = PRV_SUPERVISOR
                  /\ OnlySupervisorLines(hart.mideleg))
                    => sctx = NoContext]_vars
    BY StepNotReentered
  <1> QED
    BY <1>1, <1>2, <1>3, TrapsInductive, PTL DEF Spec, HandlersNotReentered
=============================================================================
