------------------------------- MODULE Decode -------------------------------
(***************************************************************************)
(* The two decoders of 32-bit instruction words: the switch of exec        *)
(* (src/src/exec.c, with the floating-point sub-decoders of                *)
(* src/src/extension/f_extension.c) and the switch of disasm               *)
(* (src/src/disasm.c), which the debugger prints and which has to name the *)
(* operation exec performs.                                                *)
(*                                                                         *)
(* A word is the record of its fields.  exec_op is the operation exec      *)
(* calls, "illegal" where it raises CAUSE_ILLEGAL_INSTRUCTION and "fatal"  *)
(* where it ends the emulation.  disasm_op is the operation whose mnemonic *)
(* disasm prints (in exec's spelling), "unknown" where it gives up and     *)
(* "overrun" where it indexes past the end of its mnemonic table.          *)
(***************************************************************************)
EXTENDS Integers, Sequences, FiniteSets

Fields == [opcode : 0 .. 127, funct3 : 0 .. 7, funct7 : 0 .. 127,
           rs1 : 0 .. 31, rs2 : 0 .. 31, rd : 0 .. 31]

Fmt(w) == w.funct7 % 4              \* bits 26:25
Funct5(w) == w.funct7 \div 4        \* bits 31:27
Imm12(w) == w.funct7 * 32 + w.rs2   \* bits 31:20

\* The entry of a 0-based C table, `other` past its end.
Entry(table, i, other) == IF i < Len(table) THEN table[i + 1] ELSE other

-----------------------------------------------------------------------------
\* exec.

m_ins_optable == <<"mul", "mulh", "mulsu", "mulu", "div", "divu", "rem", "remu">>

exec_r(w) ==
    CASE w.funct7 = \b0000001 -> m_ins_optable[w.funct3 + 1]
      [] w.funct7 = \b0000111 /\ w.funct3 = 5 -> "czero_eqz"
      [] w.funct7 = \b0000111 /\ w.funct3 = 7 -> "czero_nez"
      [] w.funct7 = \b0000000 ->
            <<"add", "sll", "slt", "sltu", "xor", "srl", "or", "and">>[w.funct3 + 1]
      [] w.funct7 = \b0100000 /\ w.funct3 = 0 -> "sub"
      [] w.funct7 = \b0100000 /\ w.funct3 = 5 -> "sra"
      [] OTHER -> "fatal"

exec_imm(w) ==
    CASE w.funct3 = 1 -> IF w.funct7 = 0 THEN "slli" ELSE "illegal"
      [] w.funct3 = 5 /\ w.funct7 = \b0000000 -> "srli"
      [] w.funct3 = 5 /\ w.funct7 = \b0100000 -> "srai"
      [] w.funct3 = 5 /\ w.funct7 \notin {\b0000000, \b0100000} -> "fatal"
      [] OTHER -> <<"addi", "-", "slti", "sltiu", "xori", "-", "ori", "andi">>[w.funct3 + 1]

exec_load(w) == Entry(<<"lb", "lh", "lw", "fatal", "lbu", "lhu">>, w.funct3, "fatal")
exec_store(w) == Entry(<<"sb", "sh", "sw">>, w.funct3, "fatal")
exec_fload(w) == Entry(<<"fatal", "flh", "flw", "fld", "flq">>, w.funct3, "fatal")
exec_fstore(w) == Entry(<<"fatal", "fsh", "fsw", "fsd", "fsq">>, w.funct3, "fatal")

exec_branch(w) ==
    <<"beq", "bne", "fatal", "fatal", "blt", "bge", "bltu", "bgeu">>[w.funct3 + 1]

exec_atomic(w) ==
    LET funct5 == Funct5(w)
    IN  IF w.funct3 # 2 THEN "fatal"
        ELSE CASE funct5 = 0 -> "amoadd_w"
               [] funct5 = 1 -> "amoswap_w"
               [] funct5 = 2 -> "lr_w"
               [] funct5 = 3 -> "sc_w"
               [] funct5 = 4 -> "amoxor_w"
               [] funct5 = 8 -> "amoor_w"
               [] funct5 = 12 -> "amoand_w"
               [] funct5 = 16 -> "amomin_w"
               [] funct5 = 20 -> "amomax_w"
               [] funct5 = 24 -> "amominu_w"
               [] funct5 = 28 -> "amomaxu_w"
               [] OTHER -> "fatal"

\* funct3 = 0 with something other than a plain system instruction.
exec_sfence(w) ==
    IF w.funct7 = \b0001001 /\ w.rd = 0 THEN "sfence_vma" ELSE "fatal"

exec_system(w) ==
    LET plain == w.rs1 = 0 /\ w.rd = 0
        imm == Imm12(w)
    IN  CASE w.funct3 = 0 /\ plain /\ imm = \h000 -> "ecall"
          [] w.funct3 = 0 /\ plain /\ imm = \h001 -> "ebreak"
          [] w.funct3 = 0 /\ plain /\ imm = \h102 -> "sret"
          [] w.funct3 = 0 /\ plain /\ imm = \h302 -> "mret"
          [] w.funct3 = 0 /\ plain /\ imm = \h702 -> "mnret"
          [] w.funct3 = 0 /\ plain /\ imm = \h104 -> "sctrclr"
          [] w.funct3 = 0 /\ plain /\ imm = \h105 -> "wfi"
          [] w.funct3 = 0 /\ ~(plain /\ imm \in {\h000, \h001, \h102, \h302, \h702,
                                                 \h104, \h105}) -> exec_sfence(w)
          [] w.funct3 # 0 -> <<"csrrw", "csrrs", "csrrc", "fatal",
                               "csrrwi", "csrrsi", "csrrci">>[w.funct3]

\* insf_r_fpop without the operand formats: fmt is 0..3, all four compiled in.
exec_fpop(w) ==
    LET op == Funct5(w)
    IN  CASE op = 0 -> "fadd"
          [] op = 1 -> "fsub"
          [] op = 2 -> "fmul"
          [] op = 3 -> "fdiv"
          [] op = 4 -> Entry(<<"fsgnj", "fsgnjn">>, w.funct3, "fsgnjx")
          [] op = 5 -> Entry(<<"fmin">>, w.funct3, "fmax")
          [] op = 11 -> "fsqrt"
          [] op = 20 -> Entry(<<"fle", "flt", "feq">>, w.funct3, "fzero")
          [] op = 28 -> Entry(<<"fmv_x", "fclass">>, w.funct3, "fatal")
          [] op = 30 -> IF w.funct3 = 0 /\ w.rs2 = 0 THEN "fmv_fp" ELSE "fatal"
          [] op = 24 -> Entry(<<"fcvt_w_fp", "fcvt_wu_fp", "fcvt_l_fp">>, w.rs2, "fcvt_lu_fp")
          [] op = 26 -> Entry(<<"fcvt_fp_w", "fcvt_fp_wu", "fcvt_fp_l">>, w.rs2, "fcvt_fp_lu")
          [] op = 8 -> IF w.rs2 \in 0 .. 3 /\ w.rs2 # Fmt(w) THEN "fcvt_fp_fp" ELSE "fatal"
          [] OTHER -> "fatal"

MutFenceIgnoresFunct3(w) == "fence"

exec_fence(w) == Entry(<<"fence", "fence_i">>, w.funct3, "fatal")

\* What exec calls when misa.C is clear or the word is not compressed and the
\* FPU is on (mstatus.FS).
exec_op(w) ==
    CASE w.opcode = \b0110011 -> exec_r(w)
      [] w.opcode = \b0010011 -> exec_imm(w)
      [] w.opcode = \b0000011 -> exec_load(w)
      [] w.opcode = \b0100011 -> exec_store(w)
      [] w.opcode = \b0000111 -> exec_fload(w)
      [] w.opcode = \b0100111 -> exec_fstore(w)
      [] w.opcode = \b1000011 -> "fmadd"
      [] w.opcode = \b1000111 -> "fmsub"
      [] w.opcode = \b1001011 -> "fnmsub"
      [] w.opcode = \b1001111 -> "fnmadd"
      [] w.opcode = \b1010011 -> exec_fpop(w)
      [] w.opcode = \b0101111 -> exec_atomic(w)
      [] w.opcode = \b1100011 -> exec_branch(w)
      [] w.opcode = \b1101111 -> "jal"
      [] w.opcode = \b0110111 -> "lui"
      [] w.opcode = \b0010111 -> "auipc"
      [] w.opcode = \b1100111 -> "jalr"
      [] w.opcode = \b1110011 -> exec_system(w)
      [] w.opcode = \b0001111 -> exec_fence(w)
      [] OTHER -> "illegal"

-----------------------------------------------------------------------------
\* disasm.

disasm_r(w) ==
    CASE w.funct7 = \b0000001 ->
            <<"mul", "mulh", "mulsu", "mulu", "div", "divu", "rem", "remu">>[w.funct3 + 1]
      [] w.funct7 = \b0000111 /\ w.funct3 = 5 -> "czero_eqz"
      [] w.funct7 = \b0000111 /\ w.funct3 = 7 -> "czero_nez"
      [] w.funct7 = \b0000000 ->
            <<"add", "sll", "slt", "sltu", "xor", "srl", "or", "and">>[w.funct3 + 1]
      [] w.funct7 = \b0100000 /\ w.funct3 = 0 -> "sub"
      [] w.funct7 = \b0100000 /\ w.funct3 = 5 -> "sra"
      [] OTHER -> "unknown"

disasm_imm(w) ==
    CASE w.funct3 = 5 /\ w.funct7 = \b0000000 -> "srli"
      [] w.funct3 = 5 /\ w.funct7 = \b0100000 -> "srai"
      [] w.funct3 = 5 /\ w.funct7 \notin {\b0000000, \b0100000} -> "unknown"
      [] OTHER -> <<"addi", "slli", "slti", "sltiu", "xori", "-", "ori", "andi">>[w.funct3 + 1]

disasm_load(w) == Entry(<<"lb", "lh", "lw", "unknown", "lbu", "lhu">>, w.funct3, "unknown")
disasm_store(w) == Entry(<<"sb", "sh", "sw">>, w.funct3, "unknown")
disasm_fload(w) == Entry(<<"unknown", "flh", "flw", "fld", "flq">>, w.funct3, "unknown")
disasm_fstore(w) == Entry(<<"unknown", "fsh", "fsw", "fsd", "fsq">>, w.funct3, "unknown")

disasm_branch(w) ==
    <<"beq", "bne", "unknown", "unknown", "blt", "bge", "bltu", "bgeu">>[w.funct3 + 1]

disasm_atomic(w) ==
    LET names == <<"amoadd_w", "amoswap_w", "lr_w", "sc_w", "amoxor_w", "unknown", "unknown",
                   "unknown", "amoor_w", "unknown", "unknown", "unknown", "amoand_w">>
        high == <<"amomin_w", "amomax_w", "amominu_w", "amomaxu_w">>
        funct5 == Funct5(w)
    IN  CASE w.funct3 # 2 -> "unknown"
          [] w.funct3 = 2 /\ funct5 < 16 -> Entry(names, funct5, "unknown")
          [] w.funct3 = 2 /\ funct5 >= 16 ->
                IF funct5 % 4 = 0 THEN high[(funct5 - 16) \div 4 + 1] ELSE "unknown"

\* sfence.vma is recognised by a 12-bit immediate of 9, whatever rd is.
disasm_system(w) ==
    LET plain == w.rs1 = 0 /\ w.rd = 0
        imm == Imm12(w)
    IN  CASE w.funct3 = 0 /\ imm = \h009 -> "sfence_vma"
          [] w.funct3 = 0 /\ plain /\ imm = \h000 -> "ecall"
          [] w.funct3 = 0 /\ plain /\ imm = \h001 -> "ebreak"
          [] w.funct3 = 0 /\ plain /\ imm = \h102 -> "sret"
          [] w.funct3 = 0 /\ plain /\ imm = \h302 -> "mret"
          [] w.funct3 = 0 /\ plain /\ imm = \h702 -> "mnret"
          [] w.funct3 = 0 /\ plain /\ imm = \h104 -> "sctrclr"
          [] w.funct3 = 0 /\ plain /\ imm = \h105 -> "wfi"
          [] w.funct3 # 0 -> <<"csrrw", "csrrs", "csrrc", "unknown",
                               "csrrwi", "csrrsi", "csrrci">>[w.funct3]
          [] OTHER -> "unknown"

disasm_fpop(w) ==
    LET op == Funct5(w)
    IN  CASE op = 0 -> "fadd"
          [] op = 1 -> "fsub"
          [] op = 2 -> "fmul"
          [] op = 3 -> "fdiv"
          [] op = 4 -> Entry(<<"fsgnj", "fsgnjn", "fsgnjx">>, w.funct3, "overrun")
          [] op = 5 -> Entry(<<"fmin", "fmax">>, w.funct3, "overrun")
          [] op = 11 -> "fsqrt"
          [] op = 20 -> Entry(<<"feq", "flt", "fle">>, w.funct3, "overrun")
          [] op = 28 -> Entry(<<"fmv_x", "fclass">>, w.funct3, "unknown")
          [] op = 30 -> "fmv_fp"
          [] op = 24 -> <<"fcvt_w_fp", "fcvt_wu_fp", "fcvt_l_fp", "fcvt_lu_fp">>[(w.rs2 % 4) + 1]
          [] op = 26 -> <<"fcvt_fp_w", "fcvt_fp_wu", "fcvt_fp_l", "fcvt_fp_lu">>[(w.rs2 % 4) + 1]
          [] op = 8 -> "fcvt_fp_fp"
          [] OTHER -> "unknown"

disasm_fence(w) == Entry(<<"fence", "fence_i">>, w.funct3, "unknown")

disasm_op(w) ==
    CASE w.opcode % 4 # 3 -> "compressed"
      [] w.opcode = \b0110011 -> disasm_r(w)
      [] w.opcode = \b0010011 -> disasm_imm(w)
      [] w.opcode = \b0000011 -> disasm_load(w)
      [] w.opcode = \b0100011 -> disasm_store(w)
      [] w.opcode = \b0000111 -> disasm_fload(w)
      [] w.opcode = \b0100111 -> disasm_fstore(w)
      [] w.opcode = \b1000011 -> "fmadd"
      [] w.opcode = \b1000111 -> "fmsub"
      [] w.opcode = \b1001011 -> "fnmsub"
      [] w.opcode = \b1001111 -> "fnmadd"
      [] w.opcode = \b1010011 -> disasm_fpop(w)
      [] w.opcode = \b0101111 -> disasm_atomic(w)
      [] w.opcode = \b1100011 -> disasm_branch(w)
      [] w.opcode = \b1101111 -> "jal"
      [] w.opcode = \b0110111 -> "lui"
      [] w.opcode = \b0010111 -> "auipc"
      [] w.opcode = \b1100111 -> "jalr"
      [] w.opcode = \b1110011 -> disasm_system(w)
      [] w.opcode = \b0001111 -> disasm_fence(w)
      [] OTHER -> "unknown"

-----------------------------------------------------------------------------
(***************************************************************************)
(* The immediate operands of the instruction formats, as exec.c,           *)
(* disasm.c and the helpers of c_extension.c reassemble them from the      *)
(* scattered fields of the instruction word.  A layout is a set of pieces  *)
(* <<from, width, to>>: `((ins >> from) & (2^width - 1)) << to`.           *)
(***************************************************************************)
\* exec.c, one layout per format.
exec_imm_i == {<<20, 12, 0>>}
exec_imm_s == {<<25, 7, 5>>, <<7, 5, 0>>}
exec_imm_b == {<<31, 1, 12>>, <<25, 6, 5>>, <<8, 4, 1>>, <<7, 1, 11>>}
exec_imm_j == {<<31, 1, 20>>, <<21, 10, 1>>, <<20, 1, 11>>, <<12, 8, 12>>}

\* disasm.c.
disasm_imm_i == {<<20, 12, 0>>}
disasm_imm_s == {<<25, 7, 5>>, <<7, 5, 0>>}
disasm_imm_b == {<<31, 1, 12>>, <<25, 6, 5>>, <<8, 4, 1>>, <<7, 1, 11>>}
disasm_imm_j == {<<31, 1, 20>>, <<21, 10, 1>>, <<20, 1, 11>>, <<12, 8, 12>>}

\* c_extension.c.
c_addi4spn_imm == {<<11, 2, 4>>, <<7, 4, 6>>, <<6, 1, 2>>, <<5, 1, 3>>}
c_ls_uimm == {<<5, 1, 6>>, <<10, 3, 3>>, <<6, 1, 2>>}
c_lwsp_uimm == {<<2, 2, 6>>, <<12, 1, 5>>, <<4, 3, 2>>}
c_swsp_uimm == {<<7, 2, 6>>, <<9, 4, 2>>}
c_addi16sp_imm == {<<12, 1, 9>>, <<4, 1, 8>>, <<3, 1, 7>>, <<5, 1, 6>>, <<2, 1, 5>>, <<6, 1, 4>>}
c_jal_offset == {<<12, 1, 11>>, <<11, 1, 4>>, <<9, 2, 8>>, <<8, 1, 10>>, <<7, 1, 6>>,
                 <<6, 1, 7>>, <<2, 1, 5>>, <<3, 3, 1>>}
c_branch_offset == {<<12, 1, 8>>, <<6, 1, 7>>, <<5, 1, 6>>, <<2, 1, 5>>, <<11, 1, 4>>,
                    <<10, 1, 3>>, <<4, 1, 2>>, <<3, 1, 1>>}
c_imm6 == {<<12, 1, 5>>, <<2, 5, 0>>}

-----------------------------------------------------------------------------
From(p) == p[1] .. p[1] + p[2] - 1
To(p) == p[3] .. p[3] + p[2] - 1

\* A layout fills the immediate bits hi..lo, each from an instruction bit of
\* its own.
Fills(layout, hi, lo) ==
    /\ UNION {To(p) : p \in layout} = lo .. hi
    /\ \A p, r \in layout :
          p # r => From(p) \cap From(r) = {} /\ To(p) \cap To(r) = {}

\* Every immediate bit is taken from exactly one instruction bit, none is
\* lost, and a field never reaches into the opcode, funct3 or a register field
\* of its format: the bits left over are the ones the format's other fields
\* use.  c[15:13] and c[1:0] select the compressed instruction.
ASSUME LayoutsExact ==
    /\ Fills(exec_imm_i, 11, 0) /\ Fills(exec_imm_s, 11, 0)
    /\ Fills(exec_imm_b, 12, 1) /\ Fills(exec_imm_j, 20, 1)
    /\ UNION {From(p) : p \in exec_imm_s} = (25 .. 31) \union (7 .. 11)
    /\ UNION {From(p) : p \in exec_imm_b} = (25 .. 31) \union (7 .. 11)
    /\ UNION {From(p) : p \in exec_imm_j} = 12 .. 31
    /\ Fills(c_addi4spn_imm, 9, 2) /\ UNION {From(p) : p \in c_addi4spn_imm} = 5 .. 12
    /\ Fills(c_ls_uimm, 6, 2) /\ UNION {From(p) : p \in c_ls_uimm} = {5, 6, 10, 11, 12}
    /\ Fills(c_lwsp_uimm, 7, 2) /\ UNION {From(p) : p \in c_lwsp_uimm} = (2 .. 6) \union {12}
    /\ Fills(c_swsp_uimm, 7, 2) /\ UNION {From(p) : p \in c_swsp_uimm} = 7 .. 12
    /\ Fills(c_addi16sp_imm, 9, 4)
    /\ UNION {From(p) : p \in c_addi16sp_imm} = (2 .. 6) \union {12}
    /\ Fills(c_jal_offset, 11, 1) /\ UNION {From(p) : p \in c_jal_offset} = 2 .. 12
    /\ Fills(c_branch_offset, 8, 1)
    /\ UNION {From(p) : p \in c_branch_offset} = (2 .. 6) \union (10 .. 12)
    /\ Fills(c_imm6, 5, 0)

\* The debugger prints the immediate exec uses.
ASSUME ImmediatesAgree ==
    /\ disasm_imm_i = exec_imm_i
    /\ disasm_imm_s = exec_imm_s
    /\ disasm_imm_b = exec_imm_b
    /\ disasm_imm_j = exec_imm_j
=============================================================================
