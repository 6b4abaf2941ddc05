------------------------------- MODULE Paging -------------------------------
(***************************************************************************)
(* Sv32 translation (src/include/mmu.h) under the loads, stores and AMOs   *)
(* of src/include/basic_instructions.h and a_extension.h, with the trap    *)
(* entry of Privileged.  A page fault does not stop the instruction that   *)
(* meets it: the mmu_read* helper returns 0 and the instruction goes on in *)
(* the state the trap left, so instructions are compositions of operators  *)
(* on a machine record.                                                    *)
(*                                                                         *)
(* A virtual address is a page number vpn1 * NVpn0 + vpn0, a physical one  *)
(* a frame, and a frame holds one word.  A PTE is its set of flags and its *)
(* ppn; the directory entry vpn1, when it is a pointer, points at the      *)
(* table l2[vpn1].                                                         *)
(*                                                                         *)
(* The guest is external: a user program, and a kernel with demand paging  *)
(* whose fault handler installs the page scause and stval ask for, may     *)
(* take another one away, and returns.                                     *)
(***************************************************************************)
EXTENDS Privileged, Sequences

CONSTANTS
    NVpn1, NVpn0,   \* entries of the directory and of a table
    ValMod,         \* 2^32; values also serve as addresses
    Programs,       \* the user programs
    MaxEvict,       \* how many pages the kernel takes away
    DirPtes,        \* directory entries and leaf entries that the kernel
    LeafPtes        \*   may write on its own

Va == 0 .. NVpn1 * NVpn0 - 1
Val == 0 .. ValMod - 1
Flags == {"V", "R", "W", "X", "U", "A", "D"}
Pte == [flags : SUBSET Flags, ppn : Nat]
Access == {"fetch", "load", "store"}
Reg == {"x1", "x2", "x3"}
Op == [op : {"lw", "sw", "amoadd"}, rd : Reg, rs1 : Reg, rs2 : Reg]

CodePage == 0           \* the page of the program, at pc 0
HANDLER == 4 * 16       \* and the kernel's stvec

ASSUME PagingAssumption ==
    /\ NVpn1 \in Nat \ {0} /\ NVpn0 \in Nat \ {0}
    /\ ValMod \in Nat /\ ValMod >= NVpn1 * NVpn0
    /\ Programs \subseteq Seq(Op) /\ \A p \in Programs : 4 * Len(p) < AddrMod
    /\ HANDLER < AddrMod
    /\ MaxEvict \in Nat
    /\ DirPtes \subseteq Pte /\ LeafPtes \subseteq Pte

VARIABLES
    m,              \* [hart, regs, mem, stval]
    l1, l2,         \* the page tables satp points at
    program,        \* the user's instructions, at 0, 4, 8, ...
    evictions,      \* pages taken away so far
    before          \* pc when the last user instruction began

tableVars == <<l1, l2>>
vars == <<m, l1, l2, program, evictions, before>>

CAUSE_FETCH_PAGE_FAULT == 12
CAUSE_LOAD_PAGE_FAULT == 13
CAUSE_STORE_PAGE_FAULT == 15

PageFaultCause(access) ==
    CASE access = "fetch" -> CAUSE_FETCH_PAGE_FAULT
      [] access = "load" -> CAUSE_LOAD_PAGE_FAULT
      [] access = "store" -> CAUSE_STORE_PAGE_FAULT

-----------------------------------------------------------------------------
\* Translation.

MutEffectiveIgnoresMprv(h) == h.privilege

\* MPRV lends data accesses the privilege in MPP.
mmu_effective_dpriv(h) ==
    IF "MPRV" \in h.mstatus THEN MppOf(h.mstatus) ELSE h.privilege

\* satp = 0 is bare mode.
mmu_vm_active(h, epriv) == epriv # PRV_MACHINE /\ h.satp # 0

mmu_check_pte(flags, epriv, access, mstatus) ==
    \/ epriv = PRV_MACHINE
    \/ /\ "A" \in flags
       /\ access = "store" => {"W", "D"} \subseteq flags
       /\ access = "fetch" => "X" \in flags
       /\ access = "load" => "R" \in flags \/ ("X" \in flags /\ "MXR" \in mstatus)
       /\ (epriv = PRV_SUPERVISOR /\ "U" \in flags) => "SUM" \in mstatus
       /\ epriv = PRV_USER => "U" \in flags

IsLeaf(pte) == pte.flags \intersect {"R", "W", "X"} # {}

NoFrame == -1

\* The superpage taken without its permission check.
MutWalkSuperpageUnchecked(dir, tables, va, epriv, access, mstatus) ==
    LET pte1 == dir[va \div NVpn0]
        pte2 == tables[va \div NVpn0][va % NVpn0]
        granted(pte) == mmu_check_pte(pte.flags, epriv, access, mstatus)
    IN  IF "V" \notin pte1.flags THEN NoFrame
        ELSE IF IsLeaf(pte1)
        THEN IF pte1.ppn % NVpn0 = 0 THEN pte1.ppn + (va % NVpn0) ELSE NoFrame
        ELSE IF "V" \in pte2.flags /\ IsLeaf(pte2) /\ granted(pte2)
        THEN pte2.ppn ELSE NoFrame

\* The walk: a leaf in the directory is a superpage, whose ppn must be aligned.
Walk(dir, tables, va, epriv, access, mstatus) ==
    LET pte1 == dir[va \div NVpn0]
        pte2 == tables[va \div NVpn0][va % NVpn0]
        granted(pte) == mmu_check_pte(pte.flags, epriv, access, mstatus)
    IN  IF "V" \notin pte1.flags THEN NoFrame
        ELSE IF IsLeaf(pte1)
        THEN IF pte1.ppn % NVpn0 = 0 /\ granted(pte1)
             THEN pte1.ppn + (va % NVpn0) ELSE NoFrame
        ELSE IF "V" \in pte2.flags /\ IsLeaf(pte2) /\ granted(pte2)
        THEN pte2.ppn ELSE NoFrame

\* The frame an access reaches, or NoFrame for a fault.
mmu_translate(h, dir, tables, va, access) ==
    LET epriv == IF access = "fetch" THEN h.privilege ELSE mmu_effective_dpriv(h)
    IN  IF mmu_vm_active(h, epriv)
        THEN Walk(dir, tables, va, epriv, access, h.mstatus) ELSE va

\* The fault label of mmu_translate; stval is written when S takes the trap.
PageFault(s, va, access) ==
    LET h == raise_exception(s.hart, PageFaultCause(access))
    IN  [s EXCEPT !.hart = h,
                  !.stval = IF h.privilege = PRV_SUPERVISOR THEN va ELSE @]

-----------------------------------------------------------------------------
\* Accesses and instructions, as operators on the machine record.

Translated(s, va, access) == mmu_translate(s.hart, l1, l2, va, access)

\* What a mmu_read* helper returns, and the machine it leaves.
ReadValue(s, va) ==
    LET pa == Translated(s, va, "load") IN IF pa = NoFrame THEN 0 ELSE s.mem[pa]
MutAfterReadSilent(s, va) == s
AfterRead(s, va) ==
    IF Translated(s, va, "load") = NoFrame THEN PageFault(s, va, "load") ELSE s

\* A store fault reported as a load fault.
MutWriteReportsLoad(s, va, val) ==
    LET pa == Translated(s, va, "store")
    IN  IF pa = NoFrame THEN PageFault(s, va, "load")
        ELSE [s EXCEPT !.mem[pa] = val]

mmu_write32(s, va, val) ==
    LET pa == Translated(s, va, "store")
    IN  IF pa = NoFrame THEN PageFault(s, va, "store")
        ELSE [s EXCEPT !.mem[pa] = val]

\* The page register `rs` points at.
PageOf(s, rs) == s.regs[rs] % (NVpn1 * NVpn0)

insi_i_lw(s, o) ==
    LET va == PageOf(s, o.rs1)
    IN  [AfterRead(s, va) EXCEPT !.regs[o.rd] = ReadValue(s, va)]

insi_s_sw(s, o) == mmu_write32(s, PageOf(s, o.rs1), s.regs[o.rs2])

\* Load, store and rd each happen whatever the one before it met.
insa_r_amoadd_w(s, o) ==
    LET va == PageOf(s, o.rs1)
        old == ReadValue(s, va)
        stored == mmu_write32(AfterRead(s, va), va, (old + s.regs[o.rs2]) % ValMod)
    IN  [stored EXCEPT !.regs[o.rd] = old]

Exec(s, o) ==
    CASE o.op = "lw" -> insi_i_lw(s, o)
      [] o.op = "sw" -> insi_s_sw(s, o)
      [] o.op = "amoadd" -> insa_r_amoadd_w(s, o)

Retired(s) == [s EXCEPT !.hart.pc = AddrPlus(@, 4)]

-----------------------------------------------------------------------------
\* The guest.

Start == [regs |-> [r \in Reg |-> CASE r = "x1" -> 1 [] r = "x2" -> 3 [] r = "x3" -> 0],
          mem |-> [pa \in Va |-> (pa + 1) % ValMod]]

\* Nothing is mapped yet: the kernel has set up satp, delegation and stvec.
Init ==
    /\ program \in Programs
    /\ m = [hart |-> [privilege |-> PRV_USER, pc |-> 0, just_trapped |-> 0,
                      mmu_flags |-> {}, mstatus |-> {},
                      mcause |-> Exc(0), scause |-> Exc(0), mepc |-> 0, sepc |-> 0,
                      mtvec |-> [base |-> 0, vectored |-> FALSE],
                      stvec |-> [base |-> HANDLER, vectored |-> FALSE],
                      medeleg |-> {PageFaultCause(a) : a \in Access},
                      mideleg |-> {}, mie |-> {}, mip |-> {}, satp |-> 1],
            regs |-> Start.regs, mem |-> Start.mem, stval |-> 0]
    /\ l1 = [v \in 0 .. NVpn1 - 1 |-> [flags |-> {}, ppn |-> 0]]
    /\ l2 = [v \in 0 .. NVpn1 - 1 |->
                [w \in 0 .. NVpn0 - 1 |-> [flags |-> {}, ppn |-> v * NVpn0 + w]]]
    /\ evictions = 0
    /\ before = 0

InUser == m.hart.privilege = PRV_USER
Index == m.hart.pc \div 4
Finished == InUser /\ Index = Len(program)

\* An iteration of the run loop in user mode: mmu_fetch_ok, then exec.
UserInstruction ==
    /\ InUser /\ Index < Len(program)
    /\ before' = m.hart.pc
    /\ m' = Retired(IF Translated(m, CodePage, "fetch") = NoFrame
                    THEN PageFault(m, CodePage, "fetch")
                    ELSE Exec(m, program[Index + 1]))
    /\ UNCHANGED <<tableVars, program, evictions>>

InHandler == m.hart.privilege = PRV_SUPERVISOR /\ m.hart.pc = HANDLER

\* The kernel reclaims a page: unmaps it, or clears its A and D to see whether
\* it is used again.
Evict ==
    /\ InHandler
    /\ evictions < MaxEvict /\ evictions' = evictions + 1
    /\ \E va \in Va, lost \in {Flags, {"A", "D"}} :
          l2' = [l2 EXCEPT ![va \div NVpn0][va % NVpn0].flags = @ \ lost]
    /\ UNCHANGED <<m, l1, program, before>>

\* The handler installs what scause and stval ask for and returns.
Needed(cause) ==
    CASE cause = Exc(CAUSE_FETCH_PAGE_FAULT) -> {"V", "X", "U", "A"}
      [] cause = Exc(CAUSE_LOAD_PAGE_FAULT) -> {"V", "R", "U", "A"}
      [] OTHER -> {"V", "R", "W", "U", "A", "D"}

HandleFault ==
    /\ InHandler
    /\ l1' = [l1 EXCEPT ![m.stval \div NVpn0].flags = {"V"}]
    /\ l2' = [l2 EXCEPT ![m.stval \div NVpn0][m.stval % NVpn0].flags =
                            @ \union Needed(m.hart.scause)]
    /\ m' = Retired([m EXCEPT !.hart = ins_sret(@)])
    /\ UNCHANGED <<program, evictions, before>>

\* The empty program stands for a kernel at work on its own: it writes entries
\* of every form to the directory and to a table before a program runs.
EditDirectory ==
    /\ program = <<>>
    /\ \E pte \in DirPtes : l1' = [l1 EXCEPT ![0] = pte]
    /\ UNCHANGED <<m, l2, program, evictions, before>>

EditTable ==
    /\ program = <<>>
    /\ \E pte \in LeafPtes : l2' = [l2 EXCEPT ![0][0] = pte]
    /\ UNCHANGED <<m, l1, program, evictions, before>>

Next == UserInstruction \/ Evict \/ HandleFault \/ EditDirectory \/ EditTable

\* The run loop always executes the next instruction.
Spec == Init /\ [][Next]_vars /\ WF_vars(UserInstruction \/ HandleFault)

-----------------------------------------------------------------------------
\* The program without page faults: what k instructions make of Start.
IdealStep(s, o) ==
    LET va == PageOf(s, o.rs1)
    IN  CASE o.op = "lw" -> [s EXCEPT !.regs[o.rd] = s.mem[va]]
          [] o.op = "sw" -> [s EXCEPT !.mem[va] = s.regs[o.rs2]]
          [] o.op = "amoadd" -> [regs |-> [s.regs EXCEPT ![o.rd] = s.mem[va]],
                                 mem |-> [s.mem EXCEPT ![va] = (@ + s.regs[o.rs2]) % ValMod]]

Ideal ==
    LET after[k \in 0 .. Len(program)] ==
            IF k = 0 THEN Start ELSE IdealStep(after[k - 1], program[k])
    IN  after

(***************************************************************************)
(* mmu.h:129, "the OS handler sets it and retries": a fault can be fixed   *)
(* and the instruction retried.  Whatever pages are missing, not accessed, *)
(* not dirty or taken away, the program computes what it would compute in  *)
(* bare memory.                                                            *)
(***************************************************************************)
DemandPagingTransparent ==
    (InUser /\ m.hart.pc # before) =>
        m.regs = Ideal[Index].regs /\ m.mem = Ideal[Index].mem

(***************************************************************************)
(* The cause and the address reported are enough to resolve a fault: a     *)
(* handler that installs what they ask for does not loop on one            *)
(* instruction, and the program ends.                                      *)
(***************************************************************************)
ProgramFinishes == <>Finished

(***************************************************************************)
(* A superpage is a shorthand: an aligned one translates and protects      *)
(* every page it covers as the table of its NVpn0 leaves would, and a      *)
(* misaligned one faults on every access.                                  *)
(***************************************************************************)
SuperpageActsLikeItsTable ==
    \A v \in {v \in DOMAIN l1 : "V" \in l1[v].flags /\ IsLeaf(l1[v])} :
        LET pointer == [l1 EXCEPT ![v] = [flags |-> {"V"}, ppn |-> 0]]
            leaves == [l2 EXCEPT ![v] =
                          [w \in DOMAIN @ |-> [flags |-> l1[v].flags,
                                               ppn |-> l1[v].ppn + w]]]
        IN  \A va \in v * NVpn0 .. v * NVpn0 + NVpn0 - 1, access \in Access,
               epriv \in {PRV_USER, PRV_SUPERVISOR}, ms \in SUBSET {"SUM", "MXR"} :
                  Walk(l1, l2, va, epriv, access, ms) =
                      IF l1[v].ppn % NVpn0 # 0 THEN NoFrame
                      ELSE Walk(pointer, leaves, va, epriv, access, ms)

(***************************************************************************)
(* mmu.h:44: with MPRV a machine-mode load or store is translated and      *)
(* checked exactly as one by the mode in MPP, and a fetch is not affected. *)
(***************************************************************************)
MprvActsForMpp ==
    \A va \in Va, prv \in {PRV_USER, PRV_SUPERVISOR, PRV_MACHINE},
       ms \in SUBSET {"SUM", "MXR"} :
        LET lent == [m.hart EXCEPT !.privilege = PRV_MACHINE,
                                   !.mstatus = WithMpp(ms, prv) \union {"MPRV"}]
            own == [m.hart EXCEPT !.privilege = prv, !.mstatus = ms]
        IN  /\ \A access \in {"load", "store"} :
                  mmu_translate(lent, l1, l2, va, access) = mmu_translate(own, l1, l2, va, access)
            /\ mmu_translate(lent, l1, l2, va, "fetch") = va
=============================================================================
