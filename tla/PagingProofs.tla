---------------------------- MODULE PagingProofs ----------------------------
(***************************************************************************)
(* Proofs about Sv32 translation, for every size of the page tables, every *)
(* content the kernel gives them and every program: a superpage acts like  *)
(* the table it stands for, MPRV lends exactly the privilege of MPP, and   *)
(* demand paging is invisible to a program of stores and of loads that do  *)
(* not overwrite their base register.                                      *)
(***************************************************************************)
EXTENDS Paging, TLAPS, WellFoundedInduction

\* Indices of the directory and of a table.
Vpn1 == 0 .. NVpn1 - 1
Vpn0 == 0 .. NVpn0 - 1

\* The hart under this kernel, which delegates page faults and turns on Sv32.
Causes == {Exc(c) : c \in Nat}
PageFaults == {PageFaultCause(a) : a \in Access}
PagingHart ==
    [privilege : {PRV_USER, PRV_SUPERVISOR, PRV_MACHINE}, pc : Addr,
     just_trapped : {0, 1}, mmu_flags : {{}}, mstatus : SUBSET MstatusBits,
     mcause : Causes, scause : Causes, mepc : Addr, sepc : Addr,
     mtvec : {[base |-> 0, vectored |-> FALSE]},
     stvec : {[base |-> HANDLER, vectored |-> FALSE]},
     medeleg : {PageFaults}, mideleg : {{}}, mie : {{}}, mip : {{}}, satp : {1}]

\* A machine has its four parts.
Shaped(s) ==
    {"hart", "regs", "mem", "stval"} \subseteq DOMAIN s /\ s.hart \in PagingHart

\* The page tables keep their shape, whatever the kernel writes to them.
TablesTyped ==
    /\ l1 \in [Vpn1 -> Pte] /\ l2 \in [Vpn1 -> [Vpn0 -> Pte]]
    /\ program \in Programs /\ Shaped(m)

\* A page number is a directory index and a table index.
LEMMA PageIndex ==
    ASSUME NEW va \in Va
    PROVE  /\ va \div NVpn0 \in Vpn1 /\ va % NVpn0 \in Vpn0
           /\ va = (va \div NVpn0) * NVpn0 + (va % NVpn0)
  BY PagingAssumption DEF Va, Vpn1, Vpn0

\* The pages a directory entry covers.
LEMMA PageOfSuperpage ==
    ASSUME NEW v \in Vpn1, NEW va \in v * NVpn0 .. v * NVpn0 + NVpn0 - 1
    PROVE  va \div NVpn0 = v /\ va % NVpn0 \in Vpn0
  BY PagingAssumption DEF Vpn1, Vpn0

-----------------------------------------------------------------------------
\* The walk of mmu_translate takes the same path through both.
LEMMA SuperpageWalk ==
    ASSUME TablesTyped PROVE SuperpageActsLikeItsTable
  <1> SUFFICES ASSUME NEW v \in DOMAIN l1, "V" \in l1[v].flags, IsLeaf(l1[v]),
                      NEW va \in v * NVpn0 .. v * NVpn0 + NVpn0 - 1,
                      NEW access \in Access, NEW epriv \in {PRV_USER, PRV_SUPERVISOR},
                      NEW ms \in SUBSET {"SUM", "MXR"}
               PROVE  LET pointer == [l1 EXCEPT ![v] = [flags |-> {"V"}, ppn |-> 0]]
                          leaves == [l2 EXCEPT ![v] =
                              [w \in DOMAIN @ |-> [flags |-> l1[v].flags,
                                                   ppn |-> l1[v].ppn + w]]]
                      IN  Walk(l1, l2, va, epriv, access, ms) =
                             IF l1[v].ppn % NVpn0 # 0 THEN NoFrame
                             ELSE Walk(pointer, leaves, va, epriv, access, ms)
    BY DEF SuperpageActsLikeItsTable
  <1> DEFINE pointer == [l1 EXCEPT ![v] = [flags |-> {"V"}, ppn |-> 0]]
             table == [w \in Vpn0 |-> [flags |-> l1[v].flags, ppn |-> l1[v].ppn + w]]
             leaves == [l2 EXCEPT ![v] = table]
             w0 == va % NVpn0
             granted == mmu_check_pte(l1[v].flags, epriv, access, ms)
  <1>1. v \in Vpn1 /\ va \div NVpn0 = v /\ w0 \in Vpn0 /\ DOMAIN l2[v] = Vpn0
    BY PageOfSuperpage DEF TablesTyped
  <1>2. /\ pointer[v] = [flags |-> {"V"}, ppn |-> 0]
        /\ leaves[v][w0] = [flags |-> l1[v].flags, ppn |-> l1[v].ppn + w0]
    BY <1>1 DEF TablesTyped
  <1>3. leaves = [l2 EXCEPT ![v] = [w \in DOMAIN @ |-> [flags |-> l1[v].flags,
                                                        ppn |-> l1[v].ppn + w]]]
    BY <1>1
  <1> HIDE DEF pointer, leaves, w0
  <1>4. Walk(l1, l2, va, epriv, access, ms) =
          IF l1[v].ppn % NVpn0 = 0 /\ granted THEN l1[v].ppn + w0 ELSE NoFrame
    BY <1>1 DEF Walk, w0
  <1>5. Walk(pointer, leaves, va, epriv, access, ms) =
          IF granted THEN l1[v].ppn + w0 ELSE NoFrame
    <2>1. ~IsLeaf(pointer[v]) /\ "V" \in pointer[v].flags
      BY <1>2 DEF IsLeaf
    <2>2. /\ IsLeaf(leaves[v][w0]) /\ leaves[v][w0].flags = l1[v].flags
          /\ leaves[v][w0].ppn = l1[v].ppn + w0
      BY <1>2 DEF IsLeaf
    <2> QED
      BY <1>1, <2>1, <2>2 DEF Walk, w0
  <1> QED
    BY <1>3, <1>4, <1>5 DEF pointer

\* The bits that lending adds to mstatus are not the ones the walk reads.
LEMMA MprvTranslates ==
    ASSUME TablesTyped PROVE MprvActsForMpp
  <1> SUFFICES ASSUME NEW va \in Va, NEW prv \in {PRV_USER, PRV_SUPERVISOR, PRV_MACHINE},
                      NEW ms \in SUBSET {"SUM", "MXR"}
               PROVE  LET lent == [m.hart EXCEPT !.privilege = PRV_MACHINE,
                                      !.mstatus = WithMpp(ms, prv) \union {"MPRV"}]
                          own == [m.hart EXCEPT !.privilege = prv, !.mstatus = ms]
                      IN  /\ \A access \in {"load", "store"} :
                                mmu_translate(lent, l1, l2, va, access)
                                  = mmu_translate(own, l1, l2, va, access)
                          /\ mmu_translate(lent, l1, l2, va, "fetch") = va
    BY DEF MprvActsForMpp
  <1> DEFINE lms == WithMpp(ms, prv) \union {"MPRV"}
             lent == [m.hart EXCEPT !.privilege = PRV_MACHINE, !.mstatus = lms]
             own == [m.hart EXCEPT !.privilege = prv, !.mstatus = ms]
  <1>1. /\ MppOf(lms) = prv /\ "MPRV" \in lms /\ "MPRV" \notin ms
        /\ "SUM" \in lms <=> "SUM" \in ms
        /\ "MXR" \in lms <=> "MXR" \in ms
    BY DEF WithMpp, MppOf, MppBits, PRV_USER, PRV_SUPERVISOR, PRV_MACHINE
  <1> HIDE DEF lms
  <1>2. /\ lent.privilege = PRV_MACHINE /\ lent.mstatus = lms /\ lent.satp = m.hart.satp
        /\ own.privilege = prv /\ own.mstatus = ms /\ own.satp = m.hart.satp
    BY DEF TablesTyped, Shaped, PagingHart
  <1> HIDE DEF lent, own
  <1>3. mmu_effective_dpriv(lent) = prv /\ mmu_effective_dpriv(own) = prv
    BY <1>1, <1>2 DEF mmu_effective_dpriv
  <1>4. ASSUME NEW flags, NEW access
        PROVE  mmu_check_pte(flags, prv, access, lms) = mmu_check_pte(flags, prv, access, ms)
    BY <1>1 DEF mmu_check_pte
  <1>5. ASSUME NEW access
        PROVE  Walk(l1, l2, va, prv, access, lms) = Walk(l1, l2, va, prv, access, ms)
    BY <1>4, Zenon DEF Walk
  <1>6. mmu_vm_active(lent, prv) = mmu_vm_active(own, prv)
    BY <1>2 DEF mmu_vm_active
  <1>7. ASSUME NEW access \in {"load", "store"}
        PROVE  mmu_translate(lent, l1, l2, va, access) = mmu_translate(own, l1, l2, va, access)
    BY <1>2, <1>3, <1>5, <1>6 DEF mmu_translate
  <1>8. mmu_translate(lent, l1, l2, va, "fetch") = va
    BY <1>2 DEF mmu_translate, mmu_vm_active
  <1> QED
    BY <1>7, <1>8 DEF lent, own, lms

-----------------------------------------------------------------------------
\* Addresses.
LEMMA AddrPlusType ==
    ASSUME NEW a \in Addr, NEW n \in Int
    PROVE  AddrPlus(a, n) \in Addr
  BY AddrAssumption DEF Addr, AddrPlus

\* The -4 of a trap or return and the +4 of the run loop cancel.
LEMMA MinusPlusFour ==
    ASSUME NEW a \in Addr
    PROVE  AddrPlus(AddrPlus(a, -4), 4) = a
  BY AddrAssumption DEF Addr, AddrPlus

\* The guest's two entry points are addresses.
LEMMA KnownAddrs == 0 \in Addr /\ HANDLER \in Addr
  BY AddrAssumption, PagingAssumption DEF Addr, HANDLER

\* Traps and returns stay within the hart's type.
LEMMA RaiseTyped ==
    ASSUME NEW h \in PagingHart, NEW cause \in Nat
    PROVE  raise_exception(h, cause) \in PagingHart
  <1>1. h.mstatus \in SUBSET MstatusBits /\ h.pc \in Addr /\ Exc(cause) \in Causes
    BY DEF PagingHart, Causes
  <1>2. ExceptionTarget(h.stvec) \in Addr /\ ExceptionTarget(h.mtvec) \in Addr
    BY KnownAddrs, AddrPlusType DEF ExceptionTarget, PagingHart
  <1>3. ClearReservations(h) = h
    BY DEF PagingHart, ClearReservations
  <1>4. ASSUME NEW ms \in SUBSET MstatusBits, NEW t \in Addr
        PROVE  /\ [h EXCEPT !.mstatus = ms, !.mcause = Exc(cause), !.mepc = h.pc,
                            !.privilege = PRV_MACHINE, !.just_trapped = 1,
                            !.pc = t] \in PagingHart
               /\ [h EXCEPT !.mstatus = ms, !.scause = Exc(cause), !.sepc = h.pc,
                            !.privilege = PRV_SUPERVISOR, !.pc = t] \in PagingHart
    BY <1>1 DEF PagingHart
  <1>5. /\ CopyBit(WithMpp(h.mstatus, h.privilege), "MIE", "MPIE") \ {"MIE"}
              \in SUBSET MstatusBits
        /\ CopyBit(h.mstatus \union {"SPP"}, "SIE", "SPIE") \ {"SIE"}
              \in SUBSET MstatusBits
        /\ CopyBit(h.mstatus \ {"SPP"}, "SIE", "SPIE") \ {"SIE"}
              \in SUBSET MstatusBits
    BY <1>1 DEF CopyBit, WithMpp, MppBits, MstatusBits
  <1>6. /\ TrapToM(h, Exc(cause), h.pc, ExceptionTarget(h.mtvec)) \in PagingHart
        /\ TrapToS(h, Exc(cause), h.pc, ExceptionTarget(h.stvec)) \in PagingHart
    BY <1>2, <1>4, <1>5 DEF TrapToM, TrapToS
  <1> QED
    BY <1>3, <1>6 DEF raise_exception, raise_exception_pc

\* So does sret.
LEMMA SretTyped ==
    ASSUME NEW h \in PagingHart
    PROVE  ins_sret(h) \in PagingHart
  <1>1. raise_exception(h, CAUSE_ILLEGAL_INSTRUCTION) \in PagingHart
    BY RaiseTyped DEF CAUSE_ILLEGAL_INSTRUCTION
  <1>2. h.mstatus \in SUBSET MstatusBits /\ AddrPlus(h.sepc, -4) \in Addr
    BY AddrPlusType DEF PagingHart
  <1>3. (CopyBit(h.mstatus, "SPIE", "SIE") \union {"SPIE"}) \ {"SPP"}
          \in SUBSET MstatusBits
    BY <1>2 DEF CopyBit, MstatusBits
  <1>4. ASSUME NEW ms \in SUBSET MstatusBits, NEW t \in Addr,
               NEW p \in {PRV_USER, PRV_SUPERVISOR}
        PROVE  [h EXCEPT !.mstatus = ms, !.privilege = p, !.pc = t] \in PagingHart
    BY DEF PagingHart
  <1> QED
    BY <1>1, <1>2, <1>3, <1>4 DEF ins_sret

\* A page fault leaves a machine.
LEMMA FaultShaped ==
    ASSUME NEW s, NEW va, NEW access \in Access, Shaped(s)
    PROVE  Shaped(PageFault(s, va, access))
  <1> DEFINE h == raise_exception(s.hart, PageFaultCause(access))
  <1>1. h \in PagingHart
    <2>1. PageFaultCause(access) \in Nat
      BY DEF PageFaultCause, Access, CAUSE_FETCH_PAGE_FAULT, CAUSE_LOAD_PAGE_FAULT,
             CAUSE_STORE_PAGE_FAULT
    <2> QED
      BY <2>1, RaiseTyped DEF Shaped
  <1> HIDE DEF h
  <1>2. PageFault(s, va, access) =
          [s EXCEPT !.hart = h, !.stval = IF h.privilege = PRV_SUPERVISOR THEN va ELSE @]
    BY DEF PageFault, h
  <1>3. PageFault(s, va, access).hart = h
    BY <1>2 DEF Shaped
  <1> QED
    BY <1>1, <1>2, <1>3 DEF Shaped

\* So does an instruction, faults and all.
LEMMA ExecShaped ==
    ASSUME NEW s, NEW o \in Op, Shaped(s)
    PROVE  Shaped(Exec(s, o))
  <1>1. ASSUME NEW t, NEW va, Shaped(t) PROVE Shaped(AfterRead(t, va))
    BY <1>1, FaultShaped DEF AfterRead, Access
  <1>2. ASSUME NEW t, NEW va, NEW val, Shaped(t) PROVE Shaped(mmu_write32(t, va, val))
    <2> DEFINE pa == Translated(t, va, "store")
    <2>1. CASE pa = NoFrame
      BY <1>2, <2>1, FaultShaped DEF mmu_write32, Access
    <2>2. CASE pa # NoFrame
      <3>1. mmu_write32(t, va, val) = [t EXCEPT !.mem[pa] = val]
        BY <2>2 DEF mmu_write32
      <3> HIDE DEF pa
      <3> QED
        BY <1>2, <3>1 DEF Shaped
    <2> QED
      BY <2>1, <2>2
  <1>3. ASSUME NEW t, NEW r, NEW val, Shaped(t) PROVE Shaped([t EXCEPT !.regs[r] = val])
    BY <1>3 DEF Shaped
  <1>4. Shaped(insi_i_lw(s, o))
    BY <1>1, <1>3 DEF insi_i_lw
  <1>5. Shaped(insi_s_sw(s, o))
    BY <1>2 DEF insi_s_sw
  <1>6. Shaped(insa_r_amoadd_w(s, o))
    BY <1>1, <1>2, <1>3 DEF insa_r_amoadd_w
  <1> QED
    BY <1>4, <1>5, <1>6 DEF Exec, Op

\* So does the end of the iteration.
LEMMA RetiredShaped ==
    ASSUME NEW s, Shaped(s)
    PROVE  Shaped(Retired(s))
  <1>1. AddrPlus(s.hart.pc, 4) \in Addr
    BY AddrPlusType DEF Shaped, PagingHart
  <1>2. [s.hart EXCEPT !.pc = AddrPlus(s.hart.pc, 4)] \in PagingHart
    BY <1>1 DEF Shaped, PagingHart
  <1>3. Retired(s) = [s EXCEPT !.hart = [s.hart EXCEPT !.pc = AddrPlus(s.hart.pc, 4)]]
    BY DEF Retired, Shaped
  <1> QED
    BY <1>2, <1>3 DEF Shaped

\* The handler installs flags.
LEMMA NeededFlags ==
    ASSUME NEW cause PROVE Needed(cause) \subseteq Flags
  BY DEF Needed, Flags

\* Changing the flags of an entry keeps the tables' type.
LEMMA FlagsChanged ==
    ASSUME NEW v, NEW w, NEW f \in SUBSET Flags, l2 \in [Vpn1 -> [Vpn0 -> Pte]],
           l1 \in [Vpn1 -> Pte]
    PROVE  /\ [l2 EXCEPT ![v][w].flags = f] \in [Vpn1 -> [Vpn0 -> Pte]]
           /\ [l1 EXCEPT ![v].flags = f] \in [Vpn1 -> Pte]
  <1>1. ASSUME NEW p \in Pte PROVE [p EXCEPT !.flags = f] \in Pte
    BY DEF Pte
  <1> QED
    BY <1>1

\* Every action keeps the shape.
LEMMA TablesTypedInvariant == Spec => []TablesTyped
  <1>1. Init => TablesTyped
    <2> SUFFICES ASSUME Init PROVE TablesTyped
      OBVIOUS
    <2>1. l1 \in [Vpn1 -> Pte]
      BY DEF Init, Vpn1, Pte
    <2>2. ASSUME NEW v \in Vpn1, NEW w \in Vpn0
          PROVE  [flags |-> {}, ppn |-> v * NVpn0 + w] \in Pte
      BY PagingAssumption DEF Vpn1, Vpn0, Pte
    <2>3. l2 = [v \in Vpn1 |-> [w \in Vpn0 |-> [flags |-> {}, ppn |-> v * NVpn0 + w]]]
      BY DEF Init, Vpn1, Vpn0
    <2>4. l2 \in [Vpn1 -> [Vpn0 -> Pte]]
      BY <2>2, <2>3
    <2>5. Shaped(m)
      <3>1. Exc(0) \in Causes
        BY DEF Causes
      <3> QED
        BY <3>1, KnownAddrs DEF Init, Shaped, PagingHart, PageFaults
    <2> QED
      BY <2>1, <2>4, <2>5 DEF TablesTyped, Init
  <1>2. ASSUME TablesTyped, [Next]_vars
        PROVE  TablesTyped'
    <2>0. /\ l1 \in [Vpn1 -> Pte] /\ l2 \in [Vpn1 -> [Vpn0 -> Pte]]
          /\ program \in Programs /\ Shaped(m)
      BY <1>2 DEF TablesTyped
    <2>1. CASE UserInstruction
      <3>1. UNCHANGED <<l1, l2, program>> /\ Index < Len(program)
        BY <2>1 DEF UserInstruction, tableVars
      <3>2. Index + 1 \in 1 .. Len(program) /\ program \in Seq(Op)
        <4>1. program \in Seq(Op)
          BY <2>0, PagingAssumption
        <4>2. Index \in Nat
          BY <2>0, AddrAssumption DEF Shaped, PagingHart, Addr, Index
        <4> QED
          BY <3>1, <4>1, <4>2
      <3>3. program[Index + 1] \in Op
        BY <3>2
      <3>4. Shaped(PageFault(m, CodePage, "fetch")) /\ Shaped(Exec(m, program[Index + 1]))
        BY <2>0, <3>3, FaultShaped, ExecShaped DEF Access
      <3>5. Shaped(m')
        BY <2>1, <3>4, RetiredShaped DEF UserInstruction
      <3> QED
        BY <2>0, <3>1, <3>5 DEF TablesTyped, Shaped
    <2>2. CASE Evict
      <3>1. PICK va \in Va, lost \in {Flags, {"A", "D"}} :
              l2' = [l2 EXCEPT ![va \div NVpn0][va % NVpn0].flags = @ \ lost]
        BY <2>2 DEF Evict
      <3> DEFINE f == l2[va \div NVpn0][va % NVpn0].flags \ lost
      <3>2. l2' = [l2 EXCEPT ![va \div NVpn0][va % NVpn0].flags = f] /\ f \in SUBSET Flags
        BY <2>0, <3>1, PageIndex DEF Pte
      <3>3. l2' \in [Vpn1 -> [Vpn0 -> Pte]]
        <4> HIDE DEF f
        <4> QED
          BY <2>0, <3>2, FlagsChanged
      <3> QED
        BY <2>0, <2>2, <3>3 DEF Evict, TablesTyped, Shaped
    <2>3. CASE HandleFault
      <3> DEFINE v == m.stval \div NVpn0
                 w == m.stval % NVpn0
                 f == l2[v][w].flags \union Needed(m.hart.scause)
      <3>1. l1' \in [Vpn1 -> Pte]
        BY <2>0, <2>3, FlagsChanged DEF HandleFault, Flags
      <3>2. l2' \in [Vpn1 -> [Vpn0 -> Pte]]
        <4>1. CASE v \in Vpn1 /\ w \in Vpn0
          <5>1. l2' = [l2 EXCEPT ![v][w].flags = f] /\ f \in SUBSET Flags
            BY <2>0, <2>3, <4>1, NeededFlags DEF HandleFault, Pte
          <5> QED
            BY <2>0, <5>1, FlagsChanged
        <4>2. CASE ~(v \in Vpn1 /\ w \in Vpn0)
          <5>1. l2' = l2
            BY <2>0, <2>3, <4>2 DEF HandleFault
          <5> QED
            BY <2>0, <5>1
        <4> QED
          BY <4>1, <4>2
      <3>3. Shaped([m EXCEPT !.hart = ins_sret(m.hart)])
        BY <2>0, SretTyped DEF Shaped
      <3>4. Shaped(m')
        BY <2>3, <3>3, RetiredShaped DEF HandleFault
      <3> QED
        BY <2>0, <2>3, <3>1, <3>2, <3>4 DEF HandleFault, TablesTyped, Shaped
    <2>4. CASE EditDirectory
      BY <2>0, <2>4, PagingAssumption DEF EditDirectory, TablesTyped, Shaped
    <2>5. CASE EditTable
      <3>1. PICK pte \in LeafPtes : l2' = [l2 EXCEPT ![0][0] = pte]
        BY <2>5 DEF EditTable
      <3>2. pte \in Pte
        BY PagingAssumption
      <3>3. l2' \in [Vpn1 -> [Vpn0 -> Pte]]
        BY <2>0, <3>1, <3>2
      <3> QED
        BY <2>0, <2>5, <3>3 DEF EditTable, TablesTyped, Shaped
    <2>6. CASE UNCHANGED vars
      BY <2>0, <2>6 DEF vars, TablesTyped, Shaped
    <2> QED
      BY <1>2, <2>1, <2>2, <2>3, <2>4, <2>5, <2>6 DEF Next
  <1> QED
    BY <1>1, <1>2, PTL DEF Spec

\* A superpage translates and protects each page it covers as the table of its
\* leaves would, and a misaligned one none: for every directory, table, mode
\* and setting of SUM and MXR.
THEOREM PagingSuperpage == Spec => []SuperpageActsLikeItsTable
  BY SuperpageWalk, TablesTypedInvariant, PTL

\* With MPRV a machine-mode load or store is translated and checked as one by
\* the mode in MPP, and a fetch is not.
THEOREM PagingMprv == Spec => []MprvActsForMpp
  BY MprvTranslates, TablesTypedInvariant, PTL

-----------------------------------------------------------------------------
\* Induction, stated about a set of numbers.
LEMMA Induction ==
    ASSUME NEW T \in SUBSET Nat, 0 \in T, \A n \in T : n + 1 \in T
    PROVE  \A n \in Nat : n \in T
  <1> DEFINE U == Nat \ T
  <1>1. SUFFICES ASSUME U # {} PROVE FALSE
    OBVIOUS
  <1>2. PICK least \in U : \A n \in U : ~(<<n, least>> \in OpToRel(<, Nat))
    BY <1>1, NatLessThanWellFounded, WFMin
  <1>3. least \in Nat /\ least # 0
    OBVIOUS
  <1>4. least - 1 \in Nat /\ least - 1 < least /\ (least - 1) + 1 = least
    BY <1>3
  <1>5. least - 1 \in U
    BY <1>4
  <1> QED
    BY <1>2, <1>3, <1>4, <1>5 DEF OpToRel

\* A loop that starts with s0 and whose body, F[i] in iteration i, maps S into S.
IsLoop(S, s0, F) == s0 \in S /\ F \in [Nat -> [S -> S]]

\* S, s0 and F have a run of n iterations.
RunsTo(S, s0, F, n) ==
    \E f \in [0 .. n -> S] :
        f[0] = s0 /\ \A i \in 1 .. n : f[i] = F[i][f[i - 1]]

\* Such a loop runs for any number of iterations.
LEMMA LoopRuns ==
    ASSUME NEW S, NEW s0, NEW F, IsLoop(S, s0, F)
    PROVE  \A n \in Nat : RunsTo(S, s0, F, n)
  <1> USE DEF IsLoop, RunsTo
  <1> DEFINE Runs(n) == \E f \in [0 .. n -> S] :
                f[0] = s0 /\ \A i \in 1 .. n : f[i] = F[i][f[i - 1]]
             T == {n \in Nat : Runs(n)}
  <1>1. 0 \in T
    <2> DEFINE f == [i \in 0 .. 0 |-> s0]
    <2>1. f \in [0 .. 0 -> S] /\ f[0] = s0
      OBVIOUS
    <2>2. 1 .. 0 = {}
      OBVIOUS
    <2> QED
      BY <2>1, <2>2
  <1>2. ASSUME NEW n \in T PROVE n + 1 \in T
    <2>1. PICK f \in [0 .. n -> S] :
            f[0] = s0 /\ \A i \in 1 .. n : f[i] = F[i][f[i - 1]]
      OBVIOUS
    <2> DEFINE g == [i \in 0 .. n + 1 |-> IF i = n + 1 THEN F[n + 1][f[n]] ELSE f[i]]
    <2>2. n \in Nat /\ n + 1 \in Nat
      OBVIOUS
    <2>3. g \in [0 .. n + 1 -> S] /\ g[0] = s0
      BY <2>1, <2>2
    <2>4. ASSUME NEW i \in 1 .. n + 1 PROVE g[i] = F[i][g[i - 1]]
      <3>1. i - 1 \in 0 .. n /\ g[i - 1] = f[i - 1]
        BY <2>2
      <3>2. i # n + 1 => i \in 1 .. n /\ g[i] = f[i]
        BY <2>2
      <3>3. i = n + 1 => i - 1 = n /\ g[i] = F[n + 1][f[n]]
        BY <2>2
      <3> QED
        BY <3>1, <3>2, <3>3, <2>1
    <2> HIDE DEF g
    <2> QED
      BY <2>2, <2>3, <2>4
  <1> HIDE DEF T
  <1>3. \A n \in Nat : n \in T
    BY <1>1, <1>2, Induction DEF T
  <1> QED
    BY <1>3 DEF T

-----------------------------------------------------------------------------
\* The program without page faults.
IdealState == [regs : [Reg -> Nat], mem : [Va -> Nat]]

\* A page number taken from a register.
LEMMA PageInVa ==
    ASSUME NEW n \in Nat PROVE n % (NVpn1 * NVpn0) \in Va
  <1>1. NVpn1 * NVpn0 \in Nat \ {0}
    BY PagingAssumption
  <1> DEFINE N == NVpn1 * NVpn0
  <1> HIDE DEF N
  <1>2. N \in Nat \ {0} => n % N \in 0 .. N - 1
    OBVIOUS
  <1> QED
    BY <1>1, <1>2 DEF Va, N

\* Its instructions stay within its states.
LEMMA IdealStepTyped ==
    ASSUME NEW s \in IdealState, NEW o \in Op
    PROVE  IdealStep(s, o) \in IdealState
  <1> DEFINE va == PageOf(s, o.rs1)
  <1>1. /\ s.regs \in [Reg -> Nat] /\ s.mem \in [Va -> Nat]
        /\ o.rd \in Reg /\ o.rs1 \in Reg /\ o.rs2 \in Reg
        /\ o.op \in {"lw", "sw", "amoadd"}
        /\ s = [regs |-> s.regs, mem |-> s.mem]
    BY DEF IdealState, Op
  <1>2. va \in Va
    BY <1>1, PageInVa DEF PageOf
  <1>3. s.mem[va] \in Nat /\ s.regs[o.rs2] \in Nat
    BY <1>1, <1>2
  <1>4. (s.mem[va] + s.regs[o.rs2]) % ValMod \in Nat
    <2>1. ValMod \in Nat \ {0}
      BY PagingAssumption
    <2> DEFINE x == s.mem[va] + s.regs[o.rs2]
    <2>2. x \in Nat
      BY <1>3
    <2> HIDE DEF x
    <2>3. x % ValMod \in Nat
      BY <2>1, <2>2
    <2> QED
      BY <2>3 DEF x
  <1> HIDE DEF va
  <1>5. CASE o.op = "lw"
    <2>1. IdealStep(s, o) = [s EXCEPT !.regs[o.rd] = s.mem[va]]
      BY <1>5 DEF IdealStep, va
    <2> QED
      BY <1>1, <1>2, <1>3, <2>1 DEF IdealState
  <1>6. CASE o.op = "sw"
    <2>1. IdealStep(s, o) = [s EXCEPT !.mem[va] = s.regs[o.rs2]]
      BY <1>6 DEF IdealStep, va
    <2> QED
      BY <1>1, <1>2, <1>3, <2>1 DEF IdealState
  <1>7. CASE o.op = "amoadd"
    <2>1. IdealStep(s, o) =
            [regs |-> [s.regs EXCEPT ![o.rd] = s.mem[va]],
             mem |-> [s.mem EXCEPT ![va] = (s.mem[va] + s.regs[o.rs2]) % ValMod]]
      BY <1>1, <1>2, <1>7 DEF IdealStep, va
    <2> QED
      BY <1>1, <1>2, <1>3, <1>4, <2>1 DEF IdealState
  <1> QED
    BY <1>1, <1>5, <1>6, <1>7

\* It starts in one.
LEMMA StartTyped == Start \in IdealState
  <1>1. ASSUME NEW pa \in Va PROVE (pa + 1) % ValMod \in Nat
    <2>1. ValMod \in Nat \ {0} /\ pa + 1 \in Nat
      BY PagingAssumption DEF Va
    <2> QED
      BY <2>1
  <1> QED
    BY <1>1 DEF Start, IdealState, Reg

\* The recursive definition of Ideal has a solution.
LEMMA IdealRuns ==
    ASSUME program \in Programs
    PROVE  /\ Ideal[0] = Start
           /\ \A k \in 1 .. Len(program) : Ideal[k] = IdealStep(Ideal[k - 1], program[k])
           /\ \A k \in 0 .. Len(program) : Ideal[k] \in IdealState
  <1> DEFINE n == Len(program)
             S == IdealState
             F == [i \in Nat |-> [s \in S |->
                     IF i \in 1 .. n THEN IdealStep(s, program[i]) ELSE s]]
             IsIdeal(g) == g = [k \in 0 .. n |-> IF k = 0 THEN Start
                                                 ELSE IdealStep(g[k - 1], program[k])]
  <1>1. program \in Seq(Op) /\ n \in Nat /\ \A i \in 1 .. n : program[i] \in Op
    BY PagingAssumption
  <1> HIDE DEF n
  <1>2. IsLoop(S, Start, F)
    BY <1>1, StartTyped, IdealStepTyped DEF IsLoop
  <1> HIDE DEF S
  <1>3. RunsTo(S, Start, F, n)
    <2> HIDE DEF F
    <2> QED
      BY <1>1, <1>2, LoopRuns
  <1>4. PICK f \in [0 .. n -> S] :
          f[0] = Start /\ \A i \in 1 .. n : f[i] = F[i][f[i - 1]]
    <2> HIDE DEF F
    <2> QED
      BY <1>3 DEF RunsTo
  <1>5. ASSUME NEW i \in 1 .. n PROVE f[i] = IdealStep(f[i - 1], program[i])
    <2>1. i \in Nat /\ f[i - 1] \in S
      BY <1>1
    <2>2. f[i] = F[i][f[i - 1]]
      BY <1>4
    <2> QED
      BY <2>1, <2>2
  <1>6. IsIdeal(f)
    <2>1. ASSUME NEW k \in 0 .. n
          PROVE  f[k] = IF k = 0 THEN Start ELSE IdealStep(f[k - 1], program[k])
      <3>1. k # 0 => k \in 1 .. n
        BY <1>1
      <3> QED
        BY <1>4, <1>5, <3>1
    <2> QED
      BY <1>4, <2>1
  <1>7. IsIdeal(Ideal)
    <2>1. Ideal = CHOOSE g : IsIdeal(g)
      BY DEF Ideal, n
    <2> HIDE DEF IsIdeal
    <2> QED
      BY <1>6, <2>1
  <1>8. /\ Ideal[0] = Start
        /\ \A k \in 1 .. n : Ideal[k] = IdealStep(Ideal[k - 1], program[k])
    <2>1. \A k \in 0 .. n :
            Ideal[k] = IF k = 0 THEN Start ELSE IdealStep(Ideal[k - 1], program[k])
      BY <1>7, Zenon
    <2>2. 0 \in 0 .. n /\ \A k \in 1 .. n : k \in 0 .. n /\ k # 0
      BY <1>1
    <2> QED
      BY <2>1, <2>2
  <1> DEFINE T == {k \in Nat : k <= n => Ideal[k] \in S}
  <1>9. \A k \in Nat : k \in T
    <2>1. 0 \in T
      BY <1>8, StartTyped DEF S
    <2>2. ASSUME NEW k \in T PROVE k + 1 \in T
      <3>1. k \in Nat /\ (k <= n => Ideal[k] \in S)
        OBVIOUS
      <3>2. SUFFICES ASSUME k + 1 <= n PROVE Ideal[k + 1] \in S
        BY <3>1
      <3>3. k + 1 \in 1 .. n /\ (k + 1) - 1 = k /\ k <= n
        BY <1>1, <3>1, <3>2
      <3>4. Ideal[k + 1] = IdealStep(Ideal[k], program[k + 1])
        BY <1>8, <3>3
      <3> QED
        BY <1>1, <3>1, <3>3, <3>4, IdealStepTyped DEF S
    <2> HIDE DEF T
    <2> QED
      BY <2>1, <2>2, Induction DEF T
  <1> QED
    BY <1>1, <1>8, <1>9 DEF n, S

-----------------------------------------------------------------------------
\* Programs whose instructions can be retried after a fault.
Retryable ==
    \A p \in Programs : \A i \in 1 .. Len(p) :
        p[i].op = "sw" \/ (p[i].op = "lw" /\ p[i].rd # p[i].rs1)

\* While a program runs every directory entry is absent or a pointer, and every
\* page is mapped to its own frame.
TablesPlain ==
    /\ \A v \in Vpn1 : l1[v].flags \in {{}, {"V"}}
    /\ \A v \in Vpn1, w \in Vpn0 : l2[v][w].ppn = v * NVpn0 + w

\* What k instructions compute, but for the destination of a load that has
\* faulted and is to be retried.
Computed(k) ==
    /\ m.mem = Ideal[k].mem
    /\ \A r \in Reg :
          \/ m.regs[r] = Ideal[k].regs[r]
          \/ k < Len(program) /\ program[k + 1].op = "lw" /\ program[k + 1].rd = r

\* In the program: between two instructions, or about to retry one.
UserOk ==
    InUser => /\ m.hart.mstatus \in {{}, {"SPIE"}}
              /\ \E k \in 0 .. Len(program) :
                    /\ m.hart.pc = 4 * k /\ Computed(k)
                    /\ m.hart.pc # before => m.regs = Ideal[k].regs

\* In the handler: sepc is the instruction that will be retried.
KernelOk ==
    ~InUser => /\ m.hart.privilege = PRV_SUPERVISOR
               /\ m.hart.pc = HANDLER /\ m.hart.mstatus = {}
               /\ \E k \in 0 .. Len(program) - 1 :
                     m.hart.sepc = 4 * k /\ before = 4 * k /\ Computed(k)

\* Together with the shape, an inductive invariant.
PInv ==
    /\ TablesTyped
    /\ m.regs \in [Reg -> Nat] /\ m.mem \in [Va -> Nat] /\ m.stval \in Va
    /\ program # <<>> => TablesPlain
    /\ UserOk /\ KernelOk

\* A user access reaches the frame of its page or none.
LEMMA UserTranslated ==
    ASSUME PInv, InUser, program # <<>>, NEW va \in Va, NEW access \in Access
    PROVE  Translated(m, va, access) \in {NoFrame, va}
  <1> DEFINE v == va \div NVpn0
             w == va % NVpn0
  <1>1. v \in Vpn1 /\ w \in Vpn0 /\ va = v * NVpn0 + w
    BY PageIndex
  <1>2. l1[v].flags \in {{}, {"V"}} /\ l2[v][w].ppn = va
    BY <1>1 DEF PInv, TablesPlain
  <1>3. ~IsLeaf(l1[v])
    BY <1>2 DEF IsLeaf
  <1> HIDE DEF v, w
  <1>4. ASSUME NEW epriv, NEW ms
        PROVE  Walk(l1, l2, va, epriv, access, ms) \in {NoFrame, va}
    BY <1>2, <1>3 DEF Walk, v, w
  <1> QED
    BY <1>4 DEF Translated, mmu_translate

\* A fault taken in the program enters the kernel's handler, with sepc at the
\* instruction.
LEMMA UserFault ==
    ASSUME PInv, InUser, NEW va \in Va, NEW access \in Access
    PROVE  LET f == PageFault(m, va, access)
           IN  /\ Shaped(f) /\ f.regs = m.regs /\ f.mem = m.mem /\ f.stval = va
               /\ f.hart.privilege = PRV_SUPERVISOR /\ f.hart.mstatus = {}
               /\ f.hart.pc = AddrPlus(HANDLER, -4) /\ f.hart.sepc = m.hart.pc
  <1> DEFINE h == m.hart
             cause == PageFaultCause(access)
             t == [h EXCEPT !.mstatus = {}, !.scause = Exc(cause), !.sepc = h.pc,
                            !.privilege = PRV_SUPERVISOR, !.pc = AddrPlus(HANDLER, -4)]
             f == PageFault(m, va, access)
  <1>1. h \in PagingHart /\ Shaped(m) /\ h.privilege = PRV_USER /\ h.mstatus \in {{}, {"SPIE"}}
    BY DEF PInv, TablesTyped, Shaped, InUser, UserOk
  <1>2. Delegated(h, h.medeleg, cause)
    BY <1>1 DEF Delegated, PagingHart, PageFaults
  <1>3. ClearReservations(h) = h
    BY <1>1 DEF PagingHart, ClearReservations
  <1>4. ExceptionTarget(h.stvec) = AddrPlus(HANDLER, -4)
    BY <1>1 DEF ExceptionTarget, PagingHart
  <1>5. CopyBit(h.mstatus \ {"SPP"}, "SIE", "SPIE") \ {"SIE"} = {}
    BY <1>1 DEF CopyBit
  <1>6. PRV_USER # PRV_SUPERVISOR
    BY DEF PRV_USER, PRV_SUPERVISOR
  <1>7. raise_exception(h, cause) = t
    BY <1>1, <1>2, <1>3, <1>4, <1>5, <1>6 DEF raise_exception, raise_exception_pc, TrapToS
  <1>8. /\ t.privilege = PRV_SUPERVISOR /\ t.mstatus = {} /\ t.sepc = h.pc
        /\ t.pc = AddrPlus(HANDLER, -4)
    BY <1>1 DEF PagingHart
  <1> HIDE DEF t
  <1>9. f = [m EXCEPT !.hart = t, !.stval = va]
    BY <1>1, <1>7, <1>8 DEF PageFault
  <1>10. f.hart = t /\ f.regs = m.regs /\ f.mem = m.mem /\ f.stval = va
    BY <1>1, <1>9 DEF Shaped
  <1>11. Shaped(f)
    BY <1>1, FaultShaped
  <1> QED
    BY <1>8, <1>10, <1>11

\* What the end of the iteration leaves.
LEMMA RetiredParts ==
    ASSUME NEW s, Shaped(s)
    PROVE  LET r == Retired(s)
           IN  /\ r.regs = s.regs /\ r.mem = s.mem /\ r.stval = s.stval
               /\ r.hart.pc = AddrPlus(s.hart.pc, 4)
               /\ r.hart.privilege = s.hart.privilege /\ r.hart.mstatus = s.hart.mstatus
               /\ r.hart.sepc = s.hart.sepc
  <1>1. Retired(s) = [s EXCEPT !.hart = [s.hart EXCEPT !.pc = AddrPlus(s.hart.pc, 4)]]
    BY DEF Retired, Shaped
  <1> QED
    BY <1>1 DEF Shaped, PagingHart

\* The program goes on: instruction k + 1 is done.
LEMMA WentOn ==
    ASSUME PInv, InUser, NEW k \in 0 .. Len(program) - 1, m.hart.pc = 4 * k,
           NEW s, Shaped(s), s.hart = m.hart, m' = Retired(s), program' = program,
           s.regs = Ideal[k + 1].regs, s.mem = Ideal[k + 1].mem,
           before' = m.hart.pc
    PROVE  UserOk' /\ KernelOk'
  <1>1. /\ m'.regs = s.regs /\ m'.mem = s.mem
        /\ m'.hart.pc = AddrPlus(m.hart.pc, 4)
        /\ m'.hart.privilege = m.hart.privilege /\ m'.hart.mstatus = m.hart.mstatus
    BY RetiredParts
  <1>2. Ideal' = Ideal
    BY DEF Ideal
  <1>3. program \in Seq(Op) /\ 4 * Len(program) < AddrMod /\ Len(program) \in Nat
    <2>1. program \in Programs
      BY DEF PInv, TablesTyped
    <2>2. program \in Seq(Op) /\ 4 * Len(program) < AddrMod
      BY <2>1, PagingAssumption, Zenon
    <2> QED
      BY <2>2
  <1>4. k + 1 \in 0 .. Len(program) /\ AddrPlus(4 * k, 4) = 4 * (k + 1)
    <2>1. k \in Nat /\ k + 1 \in Nat /\ k + 1 <= Len(program)
      BY <1>3
    <2>2. 4 * k + 4 \in Nat /\ 4 * k + 4 = 4 * (k + 1) /\ 4 * k + 4 < AddrMod
      BY <2>1, <1>3, AddrAssumption
    <2>3. \A a \in Nat : a < AddrMod => a % AddrMod = a
      BY AddrAssumption
    <2>4. (4 * k + 4) % AddrMod = 4 * (k + 1)
      BY <2>2, <2>3
    <2> QED
      BY <2>1, <2>4, <1>3 DEF AddrPlus
  <1>5. Computed(k + 1)'
    BY <1>1, <1>2 DEF Computed
  <1>6. m'.hart.pc = 4 * (k + 1)
    BY <1>1, <1>4
  <1>7. InUser' /\ m'.hart.mstatus \in {{}, {"SPIE"}}
    BY <1>1 DEF InUser, PInv, UserOk
  <1> QED
    BY <1>1, <1>2, <1>4, <1>5, <1>6, <1>7 DEF UserOk, KernelOk

\* The program is interrupted: instruction k + 1 will be retried.
LEMMA Interrupted ==
    ASSUME PInv, InUser, NEW k \in 0 .. Len(program) - 1, m.hart.pc = 4 * k,
           NEW va \in Va, NEW access \in Access,
           NEW s, Shaped(s), s.hart = PageFault(m, va, access).hart,
           m' = Retired(s), program' = program, before' = m.hart.pc,
           s.mem = Ideal[k].mem,
           \A r \in Reg : \/ s.regs[r] = Ideal[k].regs[r]
                          \/ program[k + 1].op = "lw" /\ program[k + 1].rd = r
    PROVE  UserOk' /\ KernelOk'
  <1>1. /\ m'.regs = s.regs /\ m'.mem = s.mem
        /\ m'.hart.pc = AddrPlus(s.hart.pc, 4) /\ m'.hart.sepc = s.hart.sepc
        /\ m'.hart.privilege = s.hart.privilege /\ m'.hart.mstatus = s.hart.mstatus
    BY RetiredParts
  <1>2. Ideal' = Ideal
    BY DEF Ideal
  <1>3. /\ s.hart.privilege = PRV_SUPERVISOR /\ s.hart.mstatus = {}
        /\ s.hart.pc = AddrPlus(HANDLER, -4) /\ s.hart.sepc = 4 * k
    BY UserFault
  <1>4. AddrPlus(AddrPlus(HANDLER, -4), 4) = HANDLER
    BY KnownAddrs, MinusPlusFour
  <1>5. program \in Seq(Op) /\ Len(program) \in Nat
    BY PagingAssumption DEF PInv, TablesTyped
  <1>6. Computed(k)'
    BY <1>1, <1>2, <1>5 DEF Computed
  <1>7. ~InUser'
    BY <1>1, <1>3 DEF InUser, PRV_USER, PRV_SUPERVISOR
  <1> QED
    BY <1>1, <1>3, <1>4, <1>6, <1>7 DEF UserOk, KernelOk

\* An instruction of the program, with or without a fault.
LEMMA UserStep ==
    ASSUME Retryable, PInv, UserInstruction
    PROVE  /\ m'.regs \in [Reg -> Nat] /\ m'.mem \in [Va -> Nat] /\ m'.stval \in Va
           /\ UserOk' /\ KernelOk'
  <1>1. /\ InUser /\ Index < Len(program) /\ before' = m.hart.pc /\ program' = program
        /\ m' = Retired(IF Translated(m, CodePage, "fetch") = NoFrame
                        THEN PageFault(m, CodePage, "fetch")
                        ELSE Exec(m, program[Index + 1]))
    BY DEF UserInstruction
  <1>2. /\ program \in Programs /\ Shaped(m) /\ m.regs \in [Reg -> Nat]
        /\ m.mem \in [Va -> Nat] /\ m.stval \in Va
    BY DEF PInv, TablesTyped
  <1>3. program \in Seq(Op) /\ Len(program) \in Nat
    BY <1>2, PagingAssumption
  <1>4. PICK k \in 0 .. Len(program) : m.hart.pc = 4 * k /\ Computed(k)
    BY <1>1 DEF PInv, UserOk
  <1>5. Index = k /\ k \in 0 .. Len(program) - 1 /\ k + 1 \in 1 .. Len(program)
    BY <1>1, <1>3, <1>4 DEF Index
  <1> DEFINE o == program[k + 1]
             va == PageOf(m, o.rs1)
             i == Ideal[k]
             j == Ideal[k + 1]
  <1>6. o \in Op /\ (o.op = "sw" \/ (o.op = "lw" /\ o.rd # o.rs1))
    BY <1>2, <1>3, <1>5 DEF Retryable
  <1>7. /\ o.rd \in Reg /\ o.rs1 \in Reg /\ o.rs2 \in Reg
    BY <1>6 DEF Op
  <1>8. i \in IdealState /\ j = IdealStep(i, o) /\ j \in IdealState
    <2>1. (k + 1) - 1 = k /\ k + 1 \in 0 .. Len(program)
      BY <1>3, <1>5
    <2> QED
      BY <1>2, <1>5, <2>1, IdealRuns
  <1>9. program # <<>>
    BY <1>5
  <1>10. va \in Va /\ CodePage \in Va
    <2>1. m.regs[o.rs1] \in Nat
      BY <1>2, <1>7
    <2>2. va \in Va
      BY <2>1, PageInVa DEF PageOf
    <2>3. CodePage \in Va
      BY <2>2, PagingAssumption DEF Va, CodePage
    <2> QED
      BY <2>2, <2>3
  <1>11. /\ m.mem = i.mem
         /\ \A r \in Reg : m.regs[r] = i.regs[r] \/ (o.op = "lw" /\ o.rd = r)
    BY <1>4 DEF Computed
  <1>12. va = PageOf(i, o.rs1)
    <2>1. m.regs[o.rs1] = i.regs[o.rs1]
      BY <1>6, <1>7, <1>11
    <2> QED
      BY <2>1 DEF PageOf
  <1> HIDE DEF o, va, i, j
  <1>13. CASE Translated(m, CodePage, "fetch") = NoFrame
    <2> DEFINE f == PageFault(m, CodePage, "fetch")
    <2>1. m' = Retired(f)
      BY <1>1, <1>13
    <2>2. Shaped(f) /\ f.regs = m.regs /\ f.mem = m.mem /\ f.stval = CodePage
      BY <1>1, <1>10, UserFault DEF Access
    <2>3. UserOk' /\ KernelOk'
      <3>1. "fetch" \in Access /\ f.hart = PageFault(m, CodePage, "fetch").hart
        BY DEF Access
      <3> HIDE DEF f
      <3> QED
        BY <1>1, <1>4, <1>5, <1>10, <1>11, <2>1, <2>2, <3>1, Interrupted DEF o, i
    <2>4. m'.regs = f.regs /\ m'.mem = f.mem /\ m'.stval = f.stval
      BY <2>1, <2>2, RetiredParts
    <2> QED
      BY <1>2, <1>10, <2>2, <2>3, <2>4
  <1>14. CASE Translated(m, CodePage, "fetch") # NoFrame
    <2>1. m' = Retired(Exec(m, o))
      BY <1>1, <1>5, <1>14 DEF o
    <2>2. ASSUME NEW access \in Access
          PROVE  Translated(m, va, access) \in {NoFrame, va}
      BY <1>1, <1>9, <1>10, UserTranslated
    <2>3. CASE o.op = "lw" /\ Translated(m, va, "load") = NoFrame
      <3> DEFINE f == PageFault(m, va, "load")
                 s == [f EXCEPT !.regs[o.rd] = 0]
      <3>1. Exec(m, o) = s
        BY <2>3 DEF Exec, insi_i_lw, AfterRead, ReadValue, va
      <3>2. Shaped(f) /\ f.regs = m.regs /\ f.mem = m.mem /\ f.stval = va
        BY <1>1, <1>10, UserFault DEF Access
      <3>3. /\ s.hart = f.hart /\ s.mem = m.mem /\ s.stval = va /\ Shaped(s)
            /\ s.regs = [m.regs EXCEPT ![o.rd] = 0]
        <4> HIDE DEF f
        <4> QED
          BY <3>2 DEF Shaped
      <3>4. "load" \in Access /\ s.hart = PageFault(m, va, "load").hart
        BY <3>3 DEF Access
      <3> HIDE DEF s, f
      <3>5. \A r \in Reg : s.regs[r] = i.regs[r] \/ (o.op = "lw" /\ o.rd = r)
        BY <1>2, <1>7, <1>11, <2>3, <3>3
      <3>6. UserOk' /\ KernelOk'
        <4>1. s.mem = Ideal[k].mem /\ m' = Retired(s) /\ Shaped(s)
          BY <1>11, <2>1, <3>1, <3>3 DEF i
        <4>2. \A r \in Reg : \/ s.regs[r] = Ideal[k].regs[r]
                             \/ program[k + 1].op = "lw" /\ program[k + 1].rd = r
          BY <3>5 DEF i, o
        <4>3. InUser /\ before' = m.hart.pc /\ program' = program
          BY <1>1
        <4> QED
          BY <1>4, <1>5, <1>10, <3>4, <4>1, <4>2, <4>3, Interrupted
      <3>7. m'.regs = s.regs /\ m'.mem = s.mem /\ m'.stval = s.stval
        BY <2>1, <3>1, <3>3, RetiredParts
      <3> QED
        BY <1>2, <1>7, <1>10, <3>3, <3>6, <3>7
    <2>4. CASE o.op = "lw" /\ Translated(m, va, "load") # NoFrame
      <3> DEFINE s == [m EXCEPT !.regs[o.rd] = m.mem[va]]
      <3>1. Translated(m, va, "load") = va
        BY <2>2, <2>4 DEF Access
      <3>2. Exec(m, o) = s
        BY <2>4, <3>1 DEF Exec, insi_i_lw, AfterRead, ReadValue, va
      <3>3. /\ s.hart = m.hart /\ s.mem = m.mem /\ s.stval = m.stval /\ Shaped(s)
            /\ s.regs = [m.regs EXCEPT ![o.rd] = m.mem[va]]
        BY <1>2 DEF Shaped
      <3> HIDE DEF s
      <3>4. j = [i EXCEPT !.regs[o.rd] = i.mem[va]]
        BY <1>8, <1>12, <2>4 DEF IdealStep
      <3>5. j.mem = i.mem /\ j.regs = [i.regs EXCEPT ![o.rd] = i.mem[va]]
        BY <1>8, <3>4 DEF IdealState
      <3>6. s.regs = j.regs
        <4>1. i.regs \in [Reg -> Nat]
          BY <1>8 DEF IdealState
        <4>2. ASSUME NEW r \in Reg PROVE s.regs[r] = j.regs[r]
          BY <1>2, <1>7, <1>11, <3>3, <3>5, <4>1
        <4>3. s.regs = [r \in Reg |-> s.regs[r]] /\ j.regs = [r \in Reg |-> j.regs[r]]
          BY <1>2, <3>3, <3>5, <4>1
        <4> QED
          BY <4>2, <4>3
      <3>7. UserOk' /\ KernelOk'
        BY <1>1, <1>4, <1>5, <1>11, <2>1, <3>2, <3>3, <3>5, <3>6, WentOn DEF j
      <3>8. m'.regs = s.regs /\ m'.mem = s.mem /\ m'.stval = s.stval
        BY <2>1, <3>2, <3>3, RetiredParts
      <3> QED
        BY <1>2, <1>7, <1>10, <3>3, <3>7, <3>8
    <2>5. CASE o.op = "sw" /\ Translated(m, va, "store") = NoFrame
      <3> DEFINE f == PageFault(m, va, "store")
      <3>1. Exec(m, o) = f
        BY <2>5 DEF Exec, insi_s_sw, mmu_write32, va
      <3>2. Shaped(f) /\ f.regs = m.regs /\ f.mem = m.mem /\ f.stval = va
        BY <1>1, <1>10, UserFault DEF Access
      <3>3. "store" \in Access /\ f.hart = PageFault(m, va, "store").hart
        BY DEF Access
      <3> HIDE DEF f
      <3>4. UserOk' /\ KernelOk'
        BY <1>1, <1>4, <1>5, <1>10, <1>11, <2>1, <3>1, <3>2, <3>3, Interrupted DEF o, i
      <3>5. m'.regs = f.regs /\ m'.mem = f.mem /\ m'.stval = f.stval
        BY <2>1, <3>1, <3>2, RetiredParts
      <3> QED
        BY <1>2, <1>10, <3>2, <3>4, <3>5
    <2>6. CASE o.op = "sw" /\ Translated(m, va, "store") # NoFrame
      <3> DEFINE s == [m EXCEPT !.mem[va] = m.regs[o.rs2]]
      <3>1. Translated(m, va, "store") = va
        BY <2>2, <2>6 DEF Access
      <3>2. Exec(m, o) = s
        BY <2>6, <3>1 DEF Exec, insi_s_sw, mmu_write32, va
      <3>3. /\ s.hart = m.hart /\ s.regs = m.regs /\ s.stval = m.stval /\ Shaped(s)
            /\ s.mem = [m.mem EXCEPT ![va] = m.regs[o.rs2]]
        BY <1>2 DEF Shaped
      <3> HIDE DEF s
      <3>4. i.regs \in [Reg -> Nat]
        BY <1>8 DEF IdealState
      <3>5. m.regs = i.regs
        <4>1. \A r \in Reg : m.regs[r] = i.regs[r]
          BY <1>11, <2>6
        <4> QED
          BY <1>2, <3>4, <4>1
      <3>6. j = [i EXCEPT !.mem[va] = i.regs[o.rs2]]
        BY <1>8, <1>12, <2>6 DEF IdealStep
      <3>7. j.regs = i.regs /\ j.mem = [i.mem EXCEPT ![va] = i.regs[o.rs2]]
        BY <1>8, <3>6 DEF IdealState
      <3>8. s.regs = j.regs /\ s.mem = j.mem
        BY <1>11, <3>3, <3>5, <3>7
      <3>9. UserOk' /\ KernelOk'
        BY <1>1, <1>4, <1>5, <2>1, <3>2, <3>3, <3>8, WentOn DEF j
      <3>10. m'.regs = s.regs /\ m'.mem = s.mem /\ m'.stval = s.stval
        BY <2>1, <3>2, <3>3, RetiredParts
      <3> QED
        BY <1>2, <1>7, <1>10, <3>3, <3>9, <3>10
    <2> QED
      BY <1>6, <2>3, <2>4, <2>5, <2>6
  <1> QED
    BY <1>13, <1>14

\* What does not concern the running program leaves it where it is.
LEMMA Undisturbed ==
    ASSUME PInv, UNCHANGED <<m, program, before>>
    PROVE  UserOk' /\ KernelOk'
  <1>1. Ideal' = Ideal
    BY DEF Ideal
  <1>2. \A k : Computed(k)' <=> Computed(k)
    BY <1>1 DEF Computed
  <1> QED
    BY <1>1, <1>2 DEF PInv, UserOk, KernelOk, InUser

\* The kernel changes flags, never a ppn.
LEMMA PpnKept ==
    ASSUME NEW v, NEW w, NEW f, l2 \in [Vpn1 -> [Vpn0 -> Pte]],
           NEW a \in Vpn1, NEW b \in Vpn0
    PROVE  [l2 EXCEPT ![v][w].flags = f][a][b].ppn = l2[a][b].ppn
  <1>1. [l2[a][b] EXCEPT !.flags = f].ppn = l2[a][b].ppn
    BY DEF Pte
  <1> QED
    BY <1>1

\* The handler's return resumes the instruction that faulted.
LEMMA HandlerStep ==
    ASSUME PInv, HandleFault
    PROVE  /\ m'.regs \in [Reg -> Nat] /\ m'.mem \in [Va -> Nat] /\ m'.stval \in Va
           /\ TablesPlain' /\ UserOk' /\ KernelOk'
  <1> DEFINE h == m.hart
             t == [h EXCEPT !.mstatus = {"SPIE"}, !.privilege = PRV_USER,
                            !.pc = AddrPlus(h.sepc, -4)]
             s == [m EXCEPT !.hart = t]
  <1>1. /\ Shaped(m) /\ program \in Programs /\ h \in PagingHart
        /\ l1 \in [Vpn1 -> Pte] /\ l2 \in [Vpn1 -> [Vpn0 -> Pte]]
        /\ m.regs \in [Reg -> Nat] /\ m.mem \in [Va -> Nat] /\ m.stval \in Va
    BY DEF PInv, TablesTyped, Shaped
  <1>2. ~InUser
    BY DEF HandleFault, InHandler, InUser, PRV_USER, PRV_SUPERVISOR
  <1>3. PICK k \in 0 .. Len(program) - 1 :
          h.sepc = 4 * k /\ before = 4 * k /\ Computed(k)
    BY <1>2 DEF PInv, KernelOk
  <1>4. h.mstatus = {}
    BY <1>2 DEF PInv, KernelOk
  <1>5. (CopyBit(h.mstatus, "SPIE", "SIE") \union {"SPIE"}) \ {"SPP"} = {"SPIE"}
    BY <1>4 DEF CopyBit
  <1>6. ins_sret(h) = t
    BY <1>4, <1>5 DEF ins_sret
  <1>7. m' = Retired(s)
    BY <1>1, <1>6 DEF HandleFault
  <1>8. /\ t.privilege = PRV_USER /\ t.mstatus = {"SPIE"} /\ t.pc = AddrPlus(h.sepc, -4)
    BY <1>1 DEF PagingHart
  <1>9. t \in PagingHart
    BY <1>1, <1>6, SretTyped
  <1> HIDE DEF t
  <1>10. /\ Shaped(s) /\ s.hart = t
         /\ s.regs = m.regs /\ s.mem = m.mem /\ s.stval = m.stval
    BY <1>1, <1>9 DEF Shaped
  <1> HIDE DEF s
  <1>11. /\ m'.regs = m.regs /\ m'.mem = m.mem /\ m'.stval = m.stval
         /\ m'.hart.privilege = PRV_USER /\ m'.hart.mstatus = {"SPIE"}
         /\ m'.hart.pc = AddrPlus(AddrPlus(h.sepc, -4), 4)
    BY <1>7, <1>8, <1>10, RetiredParts
  <1>12. m'.hart.pc = 4 * k
    BY <1>1, <1>3, <1>11, MinusPlusFour DEF PagingHart
  <1>13. program' = program /\ before' = before
    BY DEF HandleFault
  <1>14. Ideal' = Ideal
    BY <1>13 DEF Ideal
  <1>15. Computed(k)'
    BY <1>3, <1>11, <1>13, <1>14 DEF Computed
  <1>16. UserOk' /\ KernelOk'
    <2>1. InUser' /\ k \in 0 .. Len(program')
      BY <1>3, <1>11, <1>13 DEF InUser
    <2> QED
      BY <1>3, <1>11, <1>12, <1>13, <1>15, <2>1 DEF UserOk, KernelOk
  <1>17. TablesPlain'
    <2>1. TablesPlain
      BY <1>3 DEF PInv
    <2> DEFINE v == m.stval \div NVpn0
               w == m.stval % NVpn0
               f == l2[v][w].flags \union Needed(m.hart.scause)
    <2>2. v \in Vpn1 /\ w \in Vpn0
      BY <1>1, PageIndex
    <2>3. l1' = [l1 EXCEPT ![v].flags = {"V"}] /\ l2' = [l2 EXCEPT ![v][w].flags = f]
      BY <1>1, <2>2 DEF HandleFault
    <2> HIDE DEF v, w, f
    <2>4. ASSUME NEW a \in Vpn1 PROVE l1'[a].flags \in {{}, {"V"}}
      BY <1>1, <2>1, <2>2, <2>3 DEF TablesPlain, Pte
    <2>5. ASSUME NEW a \in Vpn1, NEW b \in Vpn0 PROVE l2'[a][b].ppn = a * NVpn0 + b
      BY <1>1, <2>1, <2>3, PpnKept DEF TablesPlain
    <2> QED
      BY <2>4, <2>5 DEF TablesPlain
  <1> QED
    BY <1>1, <1>11, <1>16, <1>17

\* The invariant of the running program.
LEMMA PInvStep ==
    ASSUME Retryable, PInv, TablesTyped', [Next]_vars
    PROVE  PInv'
  <1>1. CASE UserInstruction
    <2>1. UNCHANGED <<l1, l2, program>>
      BY <1>1 DEF UserInstruction, tableVars
    <2>2. (program # <<>> => TablesPlain)'
      BY <2>1 DEF PInv, TablesPlain
    <2> QED
      BY <1>1, <2>2, UserStep DEF PInv
  <1>2. CASE Evict
    <2>1. PICK va \in Va, lost \in {Flags, {"A", "D"}} :
            l2' = [l2 EXCEPT ![va \div NVpn0][va % NVpn0].flags = @ \ lost]
      BY <1>2 DEF Evict
    <2> DEFINE v == va \div NVpn0
               w == va % NVpn0
               f == l2[v][w].flags \ lost
    <2>2. v \in Vpn1 /\ w \in Vpn0 /\ l2 \in [Vpn1 -> [Vpn0 -> Pte]]
      BY PageIndex DEF PInv, TablesTyped
    <2>3. l2' = [l2 EXCEPT ![v][w].flags = f]
      BY <2>1, <2>2
    <2>4. UNCHANGED <<m, l1, program, before>>
      BY <1>2 DEF Evict
    <2> HIDE DEF v, w, f
    <2>5. \A a \in Vpn1, b \in Vpn0 : l2'[a][b].ppn = l2[a][b].ppn
      BY <2>2, <2>3, PpnKept
    <2>6. (program # <<>> => TablesPlain)'
      BY <2>4, <2>5 DEF PInv, TablesPlain
    <2> QED
      BY <2>4, <2>6, Undisturbed DEF PInv
  <1>3. CASE HandleFault
    BY <1>3, HandlerStep DEF PInv
  <1>4. CASE EditDirectory \/ EditTable
    <2>1. UNCHANGED <<m, program, before>> /\ program = <<>>
      BY <1>4 DEF EditDirectory, EditTable
    <2> QED
      BY <2>1, Undisturbed DEF PInv
  <1>5. CASE UNCHANGED vars
    <2>1. UNCHANGED <<m, l1, l2, program, before>>
      BY <1>5 DEF vars
    <2> QED
      BY <2>1, Undisturbed DEF PInv, TablesPlain
  <1> QED
    BY <1>1, <1>2, <1>3, <1>4, <1>5 DEF Next

\* It holds when the program starts.
LEMMA PInvStart ==
    ASSUME Init, TablesTyped PROVE PInv
  <1>1. program \in Programs /\ Len(program) \in Nat
    BY PagingAssumption DEF Init
  <1>2. Ideal[0] = Start
    BY <1>1, IdealRuns
  <1>3. m.regs = Start.regs /\ m.mem = Start.mem /\ m.stval = 0
        /\ m.hart.pc = 0 /\ m.hart.privilege = PRV_USER /\ m.hart.mstatus = {} /\ before = 0
    BY DEF Init
  <1>4. Computed(0) /\ InUser
    BY <1>2, <1>3 DEF Computed, InUser
  <1>5. UserOk /\ KernelOk
    BY <1>1, <1>3, <1>4 DEF UserOk, KernelOk
  <1>6. TablesPlain
    BY DEF Init, TablesPlain, Vpn1, Vpn0
  <1>7. 0 \in Va
    <2>1. 0 % (NVpn1 * NVpn0) \in Va
      BY PageInVa
    <2> QED
      BY <2>1, PagingAssumption DEF Va
  <1>8. Start.regs \in [Reg -> Nat] /\ Start.mem \in [Va -> Nat]
    BY StartTyped DEF IdealState
  <1> QED
    BY <1>3, <1>5, <1>6, <1>7, <1>8 DEF PInv

\* Demand paging is invisible: whatever pages the kernel withholds or takes
\* away, and however often an instruction faults and is retried, a program of
\* stores and of loads that keep their base register computes what it would
\* compute without page faults.
THEOREM PagingTransparent ==
    ASSUME Retryable
    PROVE  Spec => []DemandPagingTransparent
  <1>1. Init /\ TablesTyped => PInv
    BY PInvStart
  <1>2. PInv /\ TablesTyped' /\ [Next]_vars => PInv'
    BY PInvStep
  <1>3. PInv => DemandPagingTransparent
    <2> SUFFICES ASSUME PInv, InUser, m.hart.pc # before
                 PROVE  m.regs = Ideal[Index].regs /\ m.mem = Ideal[Index].mem
      BY DEF DemandPagingTransparent
    <2>1. PICK k \in 0 .. Len(program) :
            m.hart.pc = 4 * k /\ Computed(k) /\ m.regs = Ideal[k].regs
      BY DEF PInv, UserOk
    <2>2. Index = k
      <3>1. Len(program) \in Nat
        BY PagingAssumption DEF PInv, TablesTyped
      <3> QED
        BY <2>1, <3>1 DEF Index
    <2> QED
      BY <2>1, <2>2 DEF Computed
  <1> QED
    BY <1>1, <1>2, <1>3, TablesTypedInvariant, PTL DEF Spec
=============================================================================
