--------------------------- MODULE MCInstructions ---------------------------
(***************************************************************************)
(* A model of Instructions for TLC: words of 8 bits, and small formats of  *)
(* 6, 8, 9 and 10 bits (the widest with an exponent large enough to leave  *)
(* the range of a word).  x1, x2, x8 and x9 are the registers the          *)
(* compressed forms can name; code runs at 4, 6 or 8, the vectors are at   *)
(* 12, just after it, and 16.                                              *)
(***************************************************************************)
EXTENDS Instructions

MCProbes == {"muldiv", "memory", "jumps", "compressed", "fp", "convert", "arith", "fcsr",
             "triggers", "decode"}

Steps1(p) == IF p \in {"fcsr", "triggers"} THEN 3 ELSE 1

-----------------------------------------------------------------------------
Hart(pc, prv) ==
    [privilege |-> prv, pc |-> pc, just_trapped |-> 0, mmu_flags |-> {}, mstatus |-> {"MPP_LO"},
     mcause |-> Exc(24), scause |-> Exc(24), mepc |-> 8, sepc |-> 0,
     mtvec |-> [base |-> 12, vectored |-> FALSE], stvec |-> [base |-> 16, vectored |-> FALSE],
     medeleg |-> IF prv = PRV_MACHINE THEN {} ELSE {0, 3, 4, 8}, mideleg |-> {},
     mie |-> {}, mip |-> {}, satp |-> 0]

Gpr(a, b) == [r \in 1 .. 31 |-> CASE r \in {1, 8, 17} -> a [] r \in {2, 9} -> b [] OTHER -> 0]

Base(pc, prv, c, a, b) ==
    [h |-> Hart(pc, prv), gpr |-> Gpr(a, b),
     mem |-> [n \in 0 .. MemSize - 1 |-> (n * 3 + 1) % ByteMod],
     trig |-> init_sdtrig_csr_table, misa_c |-> c, prev_pc |-> 0, running |-> "run",
     fpr |-> [r \in 0 .. 31 |-> 37 + r], fflags |-> {}, frm |-> 0, fs_off |-> FALSE,
     fmem |-> [n \in {k \in 0 .. MemSize - 1 : k % 4 = 0} |-> 1000 + n]]

\* Slot 1 watches addr.
Watching(x, addr, access) ==
    [x EXCEPT !.trig = set_tcontrol(set_tdata2(set_tdata1(set_tselect(@, 1),
                          {access, "match2", "exception", "M", "U"}), addr), TRUE)]

\* Operands at the edges of both signednesses, and aligned and misaligned
\* addresses among them.
Edges == {0, 1, 2, 3, 5, 127, 128, 129, 254, 255}
Addresses == {0, 2, 3, 4, 8, 18, 252, 254}

Lane(fmt, v) == LaneMod - 2 ^ FmtWidth(fmt) + v

\* Zero, the least and the greatest subnormal, one half, 1.5, 2.5, the greatest
\* number, infinity, a quiet and a signaling NaN, with both signs.
Representatives(e, k) ==
    LET max == 2 ^ e - 1
        bias == 2 ^ (e - 1) - 1
        one == 2 ^ k
        pos == {0, 1, one - 1, (bias - 1) * one, bias * one + one \div 2,
                (bias + 1) * one + one \div 4, max * one - 1, max * one,
                max * one + one \div 2, max * one + 1}
    IN  pos \union {2 ^ (e + k) + x : x \in pos}

Operands(fmt) == Representatives(FmtExp(fmt), FmtMant(fmt))

WithFp(x, f1, f2) == [x EXCEPT !.fpr[1] = f1, !.fpr[2] = f2]

MCMachines(p) ==
    CASE p = "muldiv" -> {Base(4, PRV_MACHINE, FALSE, a, b) : a \in Edges, b \in Edges}
      [] p = "memory" ->
            LET some == {Base(4, prv, FALSE, a, 201) : prv \in {PRV_MACHINE, PRV_USER},
                                                        a \in Addresses}
            IN  some \union {Watching(x, 4, acc) : x \in some, acc \in Accesses}
      [] p = "jumps" ->
            LET some == {Base(pc, prv, c, a, 3) : pc \in {4, 6, MemSize}, prv \in Privileges,
                            c \in BOOLEAN, a \in {2, 3, 8, 93}}
            IN  some \union {[x EXCEPT !.h.mstatus = {"TSR", "TVM"}] : x \in some}
      [] p = "compressed" ->
            LET some == {Base(pc, PRV_MACHINE, c, a, b) : pc \in {4, 6, 8}, c \in BOOLEAN,
                            a \in {0, 3, 4, 255}, b \in {0, 4, 8, 130}}
            IN  some \union {Watching(x, 8, acc) : x \in some, acc \in {"load", "store"}}
                     \union {[x EXCEPT !.fs_off = TRUE] : x \in some}
      [] p = "fp" -> {WithFp(Base(4, PRV_MACHINE, FALSE, 4, 0), Lane(t[1], t[2]), Lane(t[1], t[3])) :
                        t \in UNION {{f} \X Operands(f) \X Operands(f) : f \in Formats}}
      [] p = "convert" ->
            {[WithFp(Base(4, PRV_MACHINE, FALSE, 4, 0), a, 0) EXCEPT !.frm = 4] :
                a \in 0 .. LaneMod - 1}
      [] p \in {"arith", "fcsr"} ->
            {[Base(4, PRV_MACHINE, FALSE, 4, 0) EXCEPT !.fs_off = off, !.fflags = fl] :
                off \in BOOLEAN, fl \in {{}, {"DZ"}}}
      [] p = "triggers" -> {Base(4, prv, FALSE, 8, 8) : prv \in {PRV_MACHINE, PRV_USER}}
      [] p = "decode" -> {Base(4, PRV_MACHINE, FALSE, 0, 0)}

-----------------------------------------------------------------------------
W(opcode, f3, f7, rd, rs1, rs2, imm) ==
    [opcode |-> opcode, funct3 |-> f3, funct7 |-> f7, rd |-> rd, rs1 |-> rs1, rs2 |-> rs2,
     imm |-> ToWord(imm)]

FpWord(op, fmt, f3, rd, rs1, rs2) == W(\b1010011, f3, op * 4 + fmt, rd, rs1, rs2, 0)
Nop == W(\b0010011, 0, 0, 0, 0, 0, 0)

MemoryWords ==
    {W(\b0000011, f3, 0, 9, 8, 0, imm) : f3 \in {0, 1, 2, 4, 5}, imm \in {0, 1, -4}}
        \union {W(\b0100011, f3, 0, 0, 8, 9, imm) : f3 \in 0 .. 2, imm \in {0, 1, -4}}

JumpWords ==
    {W(\b1100011, f3, 0, 0, 8, 9, imm) : f3 \in {0, 1, 4, 5, 6, 7}, imm \in {-4, 2, 8}}
        \union {W(\b1101111, 0, 0, rd, 0, 0, imm) : rd \in {0, 1}, imm \in {-4, 2, 8}}
        \union {W(\b1100111, 0, 0, rd, 8, 0, imm) : rd \in {0, 1, 8}, imm \in {0, 1, 2}}
        \union {W(opcode, 0, 0, 9, 0, 0, 16) : opcode \in {\b0110111, \b0010111}}
        \union {W(\b1110011, 0, imm \div 32, 0, 0, imm % 32, imm) :
                   imm \in {\h000, \h001, \h102, \h302, \h702, \h104, \h105, \h120, \h7FF}}
        \union {W(\b0001111, f3, 0, 0, 0, 0, 0) : f3 \in {0, 1, 2}}
        \union {W(\b0110011, f3, f7, 9, 8, 9, 0) : f3 \in 0 .. 7, f7 \in {0, 7, 32}}
        \union {W(\b0010011, f3, f7, 9, 8, 0, 3) : f3 \in 0 .. 7, f7 \in {0, 32}}
        \union {W(\b1111111, 0, 0, 0, 0, 0, 0)}

Half(q, f3, bit12, rd, rs2, rdp, rs2p, funct2, alu, imm) ==
    [q |-> q, f3 |-> f3, bit12 |-> bit12, rd |-> rd, rs2 |-> rs2, rdp |-> rdp, rs2p |-> rs2p,
     funct2 |-> funct2, alu |-> alu, b5 |-> 0, b6 |-> 0, b12_10 |-> 0, imm |-> ToWord(imm)]

CompressedWords ==
    {Half(0, f3, 0, 0, 0, 8, 9, 0, 0, imm) : f3 \in {0, 4}, imm \in {0, 4}}
        \union {[Half(0, f3, 0, 0, 0, rp, 9, 0, 0, 0) EXCEPT !.b5 = b[1], !.b6 = b[2], !.b12_10 = b[3]] :
                   f3 \in {1, 2, 3, 5, 6, 7}, rp \in {8, 9},
                   b \in {<<0, 0, 0>>, <<0, 1, 0>>, <<0, 0, 1>>, <<1, 0, 7>>}}
        \union {Half(1, f3, 0, rd, 0, 8, 9, 0, 0, imm) : f3 \in {0, 1, 2, 3, 5, 6, 7},
                   rd \in {0, 1, 2}, imm \in {-4, 0, 6}}
        \union {Half(1, 4, 0, 0, 0, 8, 9, f2, alu, imm) : f2 \in 0 .. 3, alu \in 0 .. 3, imm \in {0, 3}}
        \union {Half(2, f3, b, rd, rs2, 8, 9, 0, 0, imm) : f3 \in 0 .. 7, b \in {0, 1},
                   rd \in {0, 1, 2}, rs2 \in {0, 8}, imm \in {0, 4}}

MCWords(p) ==
    CASE p = "muldiv" -> {W(\b0110011, f3, 1, 1, 8, 9, 0) : f3 \in 0 .. 7}
      [] p = "memory" -> MemoryWords
      [] p = "jumps" -> JumpWords
      [] p = "compressed" -> CompressedWords
      [] p = "fp" -> {FpWord(op, f, f3, 9, 1, 2) : op \in {4, 5, 20}, f \in Formats, f3 \in {0, 1, 2, 3}}
      [] p = "convert" ->
            {FpWord(24, f, f3, 9, 1, kind) : f \in Formats, f3 \in {0, 1, 2, 3, 7}, kind \in 0 .. 3}
      [] p \in {"arith", "fcsr"} ->
            IF p = "fcsr" THEN {FpWord(0, D, 7, 1, 2, 3), FpWord(24, S, 7, 9, 1, 0)}
            ELSE {FpWord(op, f, f3, 1, 2, rs2) : op \in {0, 1, 2, 3, 8, 11, 26, 28, 30},
                                                 f \in Formats, f3 \in {0, 1}, rs2 \in {0, 1, 2}}
                 \union {W(opcode, 0, 3 * 4 + f, 1, 2, 3, 0) :
                            opcode \in {\b1000011, \b1000111, \b1001011, \b1001111}, f \in Formats}
                 \union {W(opcode, f3, 0, 1, 8, 2, imm) :
                            opcode \in {\b0000111, \b0100111}, f3 \in 1 .. 4, imm \in {0, 1, 4}}
      [] p = "triggers" -> MemoryWords \union {Nop}
      [] p = "decode" -> {W(opcode, f3, 0, 0, 0, 0, 0) : opcode \in 0 .. 127, f3 \in 0 .. 7}

\* A number, a canonical, another quiet and a signaling NaN in one format or
\* another, with the flags that come with them.
MCResults(p) ==
    LET values == CASE p = "arith" -> {0, 255, 497, 1023, Float(S)!RISCV_CANONICAL_NAN,
                                       Float(D)!RISCV_CANONICAL_NAN + 1}
                    [] p # "arith" -> {77}
        flags == IF p = "convert" THEN {{}} ELSE {{}, {"NX"}, {"NV"}}
    IN  [r : values, flags : flags]

MCTriggerWrites ==
    {<<"tselect", 0>>, <<"tselect", 1>>, <<"tselect", 3>>, <<"tcontrol", TRUE>>, <<"tdata2", 8>>}
        \union {<<"tdata1", {"match2", "exception", acc, "M", "U", "dmode"}>> : acc \in Accesses}
        \union {<<"tdata1", {"match2", "exception", "load", "U", "chain"}>>}

MCFcsrWrites ==
    {<<"fflags", {"NX"}>>, <<"frm", 3>>, <<"frm", 5>>, <<"fcsr", <<6, {"UF"}>>>>, <<"fcsr", <<2, {}>>>>}
-----------------------------------------------------------------------------
\* Two properties the code departs from (MCInstructionsDepart.cfg).

\* TrapsPrecise for every compressed load and store, wherever the vectors are.
AccessTrapsPrecise ==
    [][Ran /\ IsCompressed(Insn) /\ m.misa_c /\ IsAccess(Insn) /\ ~m.fs_off => PreciseStep]_vars

\* c_extension.c:41-44, "The bit mappings below follow the ratified RISC-V C
\* extension": c.fld and c.fsd act as their expansion whatever c[6] is.
DoubleFormsExpand ==
    [][Ran /\ IsCompressed(Insn) /\ m.misa_c /\ Insn.q = 0 /\ Insn.f3 \in {1, 5}
         /\ ~m.fs_off /\ DueTrap(m, Insn) = -1 => ActsAsExpansion]_vars
=============================================================================
