----------------------------- MODULE Compressed -----------------------------
(***************************************************************************)
(* The 16-bit instructions (src/src/extension/c_extension.c).  A halfword  *)
(* is the record of the fields exec_c_insn looks at: the quadrant q, f3,   *)
(* bit12, the full register fields rd (11:7) and rs2 (6:2), the 3-bit ones *)
(* rdp (9:7) and rs2p (4:2) with the 8 added, funct2, alu, the bits b5, b6 *)
(* and b12_10 that make the immediate of a quadrant-0 load or store, and   *)
(* imm, the reassembled immediate of the other instructions as a word      *)
(* (Decode has the bits it is made of, the same in code and architecture). *)
(*                                                                         *)
(* The run loop adds 4 to the pc after every instruction, so a sequential  *)
(* one takes 2 off, and a jump leaves its target minus 4.                  *)
(***************************************************************************)
EXTENDS Fpu

MutNotAdjusted(m) == m

Sequential(m) == [m EXCEPT !.h.pc = AddrPlus(@, -2)]

MutAlwaysSequential(m, r) == Sequential(r)

\* A load or store that left the pc alone is taken not to have trapped.
UnlessTrapped(m, r) == IF r.h.pc = m.h.pc THEN Sequential(r) ELSE r

\* c_ls_uimm: uimm[6] = c[5], uimm[5:3] = c[12:10], uimm[2] = c[6].
LoadStoreUimm(c) == ToWord(c.b5 * 64 + c.b12_10 * 8 + c.b6 * 4)

\* c.addi4spn, the loads and stores; f3 = 4 is unallocated.  The
\* floating-point ones do not look at mstatus.FS, and the double ones take the
\* immediate of the word forms too.
Quadrant0(m, c) ==
    LET uimm == LoadStoreUimm(c)
    IN  CASE c.f3 = 0 -> IF c.imm = 0 THEN raise_illegal(m)
                         ELSE Sequential(reg_write(m, c.rs2p, ToWord(reg_read(m, 2) + c.imm)))
          [] c.f3 = 1 -> UnlessTrapped(m, insf_load(m, "fld", uimm, c.rdp, c.rs2p))
          [] c.f3 = 2 -> UnlessTrapped(m, insi_i_load(m, "lw", uimm, c.rdp, c.rs2p))
          [] c.f3 = 3 -> UnlessTrapped(m, insf_load(m, "flw", uimm, c.rdp, c.rs2p))
          [] c.f3 = 4 -> raise_illegal(m)
          [] c.f3 = 5 -> UnlessTrapped(m, insf_store(m, "fsd", uimm, c.rdp, c.rs2p))
          [] c.f3 = 6 -> UnlessTrapped(m, insi_s_store(m, "sw", uimm, c.rs2p, c.rdp))
          [] c.f3 = 7 -> UnlessTrapped(m, insf_store(m, "fsw", uimm, c.rdp, c.rs2p))

\* The arithmetic group of quadrant 1.  A shift amount of 0 is refused; its
\* bit 5 is masked off.
Quadrant1Alu(m, c) ==
    LET v1 == reg_read(m, c.rdp)
        v2 == reg_read(m, c.rs2p)
    IN  CASE c.funct2 \in {0, 1} /\ c.imm = 0 -> raise_illegal(m)
          [] c.funct2 = 0 /\ c.imm # 0 -> Sequential(reg_write(m, c.rdp, insi_r("srl", v1, c.imm)))
          [] c.funct2 = 1 /\ c.imm # 0 -> Sequential(reg_write(m, c.rdp, insi_r("sra", v1, c.imm)))
          [] c.funct2 = 2 -> Sequential(reg_write(m, c.rdp, insi_r("and", v1, c.imm)))
          [] c.funct2 = 3 ->
                Sequential(reg_write(m, c.rdp,
                                     insi_r(<<"sub", "xor", "or", "and">>[c.alu + 1], v1, v2)))

\* Jumps and branches do not check the alignment of their target.
Quadrant1(m, c) ==
    LET target == AddrPlus(m.h.pc, c.imm)
        taken == (c.f3 = 6) = (reg_read(m, c.rdp) = 0)
    IN  CASE c.f3 = 0 -> Sequential(reg_write(m, c.rd, ToWord(reg_read(m, c.rd) + c.imm)))
          [] c.f3 = 1 -> Jump(reg_write(m, 1, AddrPlus(m.h.pc, 2)), target)
          [] c.f3 = 2 -> Sequential(reg_write(m, c.rd, c.imm))
          [] c.f3 = 3 /\ c.rd = 2 -> Sequential(reg_write(m, 2, ToWord(reg_read(m, 2) + c.imm)))
          [] c.f3 = 3 /\ c.rd = 0 -> raise_illegal(m)
          [] c.f3 = 3 /\ c.rd \notin {0, 2} -> Sequential(reg_write(m, c.rd, c.imm))
          [] c.f3 = 4 -> Quadrant1Alu(m, c)
          [] c.f3 = 5 -> Jump(m, target)
          [] c.f3 \in {6, 7} -> IF taken THEN Jump(m, target) ELSE Sequential(m)

\* bit12 set, rd not x0: c.jalr, which reads its target after the link
\* register is written, and c.add.
JalrOrAdd(m, c) ==
    LET linked == reg_write(m, 1, AddrPlus(m.h.pc, 2))
    IN  CASE c.rs2 = 0 -> IfAligned(m, reg_read(m, c.rd), Jump(linked, reg_read(linked, c.rd)))
          [] OTHER -> Sequential(reg_write(m, c.rd, ToWord(reg_read(m, c.rd) + reg_read(m, c.rs2))))

\* c.slli, c.lwsp, c.jr, c.mv, c.ebreak, c.jalr, c.add, c.swsp; the rest is
\* unallocated (c.fldsp and its like too).
Quadrant2(m, c) ==
    LET rs1 == c.rd
    IN  CASE c.f3 = 0 -> IF c.imm = 0 THEN raise_illegal(m)
                         ELSE Sequential(reg_write(m, c.rd, insi_r("sll", reg_read(m, c.rd), c.imm)))
          [] c.f3 = 2 -> IF c.rd = 0 THEN raise_illegal(m)
                         ELSE UnlessTrapped(m, insi_i_load(m, "lw", c.imm, 2, c.rd))
          [] c.f3 = 4 /\ c.bit12 = 0 /\ c.rs2 = 0 /\ rs1 = 0 -> Sequential(m)
          [] c.f3 = 4 /\ c.bit12 = 0 /\ c.rs2 = 0 /\ rs1 # 0 ->
                IfAligned(m, reg_read(m, rs1), Jump(m, reg_read(m, rs1)))
          [] c.f3 = 4 /\ c.bit12 = 0 /\ c.rs2 # 0 ->
                Sequential(reg_write(m, c.rd, reg_read(m, c.rs2)))
          [] c.f3 = 4 /\ c.bit12 = 1 /\ rs1 = 0 -> Raise(m, CAUSE_BREAKPOINT)
          [] c.f3 = 4 /\ c.bit12 = 1 /\ rs1 # 0 -> JalrOrAdd(m, c)
          [] c.f3 = 6 -> UnlessTrapped(m, insi_s_store(m, "sw", c.imm, c.rs2, 2))
          [] OTHER -> raise_illegal(m)

exec_c_insn(m, c) ==
    CASE c.q = 0 -> Quadrant0(m, c)
      [] c.q = 1 -> Quadrant1(m, c)
      [] c.q = 2 -> Quadrant2(m, c)

-----------------------------------------------------------------------------
\* The RVC encodings the repository supports and the instruction each stands
\* for; `none` for a reserved or unallocated one.  The word accesses have uimm[6]
\* = c[5] and uimm[2] = c[6], the double ones uimm[7:6] = c[6:5]; both have
\* uimm[5:3] = c[12:10].
Ins(op, rd, rs1, rs2, imm) == [op |-> op, rd |-> rd, rs1 |-> rs1, rs2 |-> rs2, imm |-> imm]

Expansion(c) ==
    LET none == Ins("none", 0, 0, 0, 0)
        nop == Ins("addi", 0, 0, 0, 0)
        word == ToWord(c.b5 * 64 + c.b12_10 * 8 + c.b6 * 4)
        double == ToWord(c.b6 * 128 + c.b5 * 64 + c.b12_10 * 8)
    IN  CASE c.q = 0 ->
               <<IF c.imm = 0 THEN none ELSE Ins("addi", c.rs2p, 2, 0, c.imm),
                 Ins("fld", c.rs2p, c.rdp, 0, double), Ins("lw", c.rs2p, c.rdp, 0, word),
                 Ins("flw", c.rs2p, c.rdp, 0, word), none,
                 Ins("fsd", 0, c.rdp, c.rs2p, double), Ins("sw", 0, c.rdp, c.rs2p, word),
                 Ins("fsw", 0, c.rdp, c.rs2p, word)>>[c.f3 + 1]
          [] c.q = 1 /\ c.f3 # 4 ->
               <<Ins("addi", c.rd, c.rd, 0, c.imm), Ins("jal", 1, 0, 0, c.imm),
                 Ins("addi", c.rd, 0, 0, c.imm),
                 IF c.rd = 2 THEN Ins("addi", 2, 2, 0, c.imm)
                 ELSE IF c.rd = 0 THEN none ELSE Ins("lui", c.rd, 0, 0, c.imm),
                 none, Ins("jal", 0, 0, 0, c.imm), Ins("beq", 0, c.rdp, 0, c.imm),
                 Ins("bne", 0, c.rdp, 0, c.imm)>>[c.f3 + 1]
          [] c.q = 1 /\ c.f3 = 4 ->
               <<IF c.imm = 0 THEN none ELSE Ins("srli", c.rdp, c.rdp, 0, c.imm),
                 IF c.imm = 0 THEN none ELSE Ins("srai", c.rdp, c.rdp, 0, c.imm),
                 Ins("andi", c.rdp, c.rdp, 0, c.imm),
                 Ins(<<"sub", "xor", "or", "and">>[c.alu + 1], c.rdp, c.rdp, c.rs2p, 0)>>
                 [c.funct2 + 1]
          [] c.q = 2 /\ c.f3 = 0 -> IF c.imm = 0 THEN none ELSE Ins("slli", c.rd, c.rd, 0, c.imm)
          [] c.q = 2 /\ c.f3 = 2 -> IF c.rd = 0 THEN none ELSE Ins("lw", c.rd, 2, 0, c.imm)
          [] c.q = 2 /\ c.f3 = 6 -> Ins("sw", 0, 2, c.rs2, c.imm)
          [] c.q = 2 /\ c.f3 = 4 /\ c.rd # 0 ->
               IF c.rs2 = 0 THEN Ins("jalr", c.bit12, c.rd, 0, 0)
               ELSE Ins("add", c.rd, IF c.bit12 = 1 THEN c.rd ELSE 0, c.rs2, 0)
          [] c.q = 2 /\ c.f3 = 4 /\ c.rd = 0 /\ c.bit12 = 1 /\ c.rs2 = 0 ->
               Ins("ebreak", 0, 0, 0, 0)
          [] c.q = 2 /\ c.f3 = 4 /\ c.rd = 0 /\ c.bit12 = 0 ->
               IF c.rs2 = 0 THEN nop ELSE Ins("add", 0, 0, c.rs2, 0)
          [] OTHER -> none
=============================================================================
