---------------------------- MODULE Instructions ----------------------------
(***************************************************************************)
(* One turn of the run loop (src/src/emu.c) on an instruction word: fetch  *)
(* trigger, exec (src/src/exec.c) with the handlers of BaseInstructions,   *)
(* Fpu and Compressed, and the unconditional `pc += 4`.  The atomic and    *)
(* CSR instructions have modules of their own (Atomics, Traps, Timer);     *)
(* only the CSRs of the triggers and of the FPU are written here.          *)
(*                                                                         *)
(* A 32-bit word is the record of its Decode fields and of imm, the        *)
(* immediate of its format as a word (Decode has the bits); a              *)
(* compressed one is the halfword of Compressed.                           *)
(***************************************************************************)
EXTENDS Compressed, Decode

CONSTANTS
    Probes,             \* a name for each situation to run instructions in
    Machines(_),        \* its initial machines
    Words(_),           \* the instructions it offers
    Results(_),         \* what SoftFloat may return in it: [r, flags]
    TriggerWrites,      \* <<csr, value>> for the trigger CSRs
    FcsrWrites,         \* <<csr, value>> for fflags, frm and fcsr
    Steps(_)            \* how many instructions and CSR writes a probe takes

-----------------------------------------------------------------------------
\* The instructions and the machines there are.
Word32 == [opcode : 0 .. 127, funct3 : 0 .. 7, funct7 : 0 .. 127,
           rs1 : 0 .. 31, rs2 : 0 .. 31, rd : 0 .. 31, imm : Word]
Half16 == [q : 0 .. 2, f3 : 0 .. 7, bit12 : {0, 1}, rd : 0 .. 31, rs2 : 0 .. 31,
           rdp : 8 .. 15, rs2p : 8 .. 15, funct2 : 0 .. 3, alu : 0 .. 3,
           b5 : {0, 1}, b6 : {0, 1}, b12_10 : 0 .. 7, imm : Word]

\* The A extension and the CSR instructions.
HasOwnModule(w) == w.opcode = \b0101111 \/ (w.opcode = \b1110011 /\ w.funct3 # 0)

\* c.jal, c.j, c.beqz and c.bnez: no bit 0 in c_jal_offset and c_branch_offset.
EvenOffset(c) == c.q = 1 /\ c.f3 \in {1, 5, 6, 7} => c.imm % 2 = 0

Executable == {w \in Word32 : ~HasOwnModule(w)} \union {c \in Half16 : EvenOffset(c)}
SoftFloatResult == [r : Lanes, flags : SUBSET FlagNames]

Cause == {"exception", "interrupt"} \X Nat
Tvec == [base : Addr, vectored : BOOLEAN]

HartState ==
    [privilege : Privileges, pc : Addr, just_trapped : {0, 1}, mmu_flags : SUBSET Addr,
     mstatus : SUBSET MstatusBits, mcause : Cause, scause : Cause, mepc : Addr, sepc : Addr,
     mtvec : Tvec, stvec : Tvec, medeleg : SUBSET Nat, mideleg : SUBSET Irqs,
     mie : SUBSET Irqs, mip : SUBSET Irqs, satp : Nat]

MachineState ==
    [h : HartState, gpr : [1 .. 31 -> Word], mem : [0 .. MemSize - 1 -> Byte],
     trig : TriggerFile, misa_c : BOOLEAN, prev_pc : Addr,
     running : {"run", "terminated", "fatal"}, fpr : [0 .. 31 -> Lanes],
     fflags : SUBSET FlagNames, frm : RoundingModes, fs_off : BOOLEAN,
     fmem : [{a \in 0 .. MemSize - 1 : a % 4 = 0} -> Lanes]]

ASSUME InstructionsAssumption ==
    \A p \in Probes :
        /\ Machines(p) \subseteq MachineState
        /\ Words(p) \subseteq IF p = "decode" THEN Word32 ELSE Executable
        /\ Results(p) \subseteq SoftFloatResult
        /\ Steps(p) \in Nat

ASSUME WritesAssumption ==
    /\ TriggerWrites \subseteq ({"tselect"} \X Nat) \union ({"tdata1"} \X SUBSET Tdata1Bits)
                                \union ({"tdata2"} \X Addr) \union ({"tcontrol"} \X BOOLEAN)
    /\ FcsrWrites \subseteq ({"fflags"} \X SUBSET FlagNames) \union ({"frm"} \X (0 .. 7))
                             \union ({"fcsr"} \X ((0 .. 7) \X SUBSET FlagNames))

VARIABLES
    probe,
    m,                  \* the machine
    last,               \* the last step: <<"run", word>>, <<"csr">>, <<"disasm", word>>
    left                \* steps left in the probe

vars == <<probe, m, last, left>>

IsCompressed(w) == "q" \in DOMAIN w

FpOpcodes == {\b0000111, \b0100111, \b1000011, \b1000111, \b1001011, \b1001111, \b1010011}
ShiftImmediates == {"slli", "srli", "srai"}

\* An instruction as its handler gets it.
Decoded(w) ==
    [op |-> exec_op(w), rd |-> w.rd, rs1 |-> w.rs1, rs2 |-> w.rs2, imm |-> w.imm,
     fmt |-> Fmt(w), rm |-> w.funct3]

\* The call exec makes for a decoded instruction.
Execute(x, i, sf) ==
    LET v1 == reg_read(x, i.rs1)
        v2 == reg_read(x, i.rs2)
    IN  CASE i.op \in RegisterOps -> reg_write(x, i.rd, insi_r(i.op, v1, v2))
          [] i.op \in MulDivOps -> reg_write(x, i.rd, insm_r(i.op, v1, v2))
          [] i.op \in ZicondOps -> reg_write(x, i.rd, ins_zicond(i.op, v1, v2))
          [] i.op \in ImmediateOps -> reg_write(x, i.rd, insi_i(i.op, v1, i.imm))
          [] i.op \in LoadOps -> insi_i_load(x, i.op, i.imm, i.rs1, i.rd)
          [] i.op \in StoreOps -> insi_s_store(x, i.op, i.imm, i.rs2, i.rs1)
          [] i.op \in BranchOps -> insi_b(x, i.op, i.imm, i.rs2, i.rs1)
          [] i.op = "jal" -> insi_j_jal(x, i.imm, i.rd)
          [] i.op = "jalr" -> insi_i_jalr(x, i.imm, i.rs1, i.rd)
          [] i.op = "lui" -> insi_u_lui(x, i.imm, i.rd)
          [] i.op = "auipc" -> insi_u_auipc(x, i.imm, i.rd)
          [] i.op = "ecall" -> Ecall(x)
          [] i.op = "ebreak" -> insi_i_ebreak(x)
          [] i.op \in {"mret", "mnret"} -> [x EXCEPT !.h = ins_mret(@)]
          [] i.op = "sret" -> [x EXCEPT !.h = ins_sret(@)]
          [] i.op = "sfence_vma" -> [x EXCEPT !.h = ins_sfence_vma(@)]
          [] i.op \in {"fence", "fence_i", "wfi", "sctrclr"} -> x
          [] i.op \in DOMAIN LoadFormat -> insf_load(x, i.op, i.imm, i.rs1, i.rd)
          [] i.op \in DOMAIN StoreFormat -> insf_store(x, i.op, i.imm, i.rs1, i.rs2)
          [] i.op \in FpOps -> insf_r_fpop(x, i, sf)
          [] i.op = "illegal" -> raise_illegal(x)
          [] i.op = "fatal" -> fatal(x)

\* exec: alignment of the pc, the compressed path, FS before any other check
\* of a floating-point word, then the switch.
exec(x, w, sf) ==
    IF x.h.pc % IAlign(x) # 0
    THEN [x EXCEPT !.h = raise_exception_pc(@, CAUSE_MISALIGNED_FETCH, x.prev_pc)]
    ELSE IF IsCompressed(w)
    THEN IF x.misa_c THEN exec_c_insn(x, w) ELSE raise_illegal(x)
    ELSE IF w.opcode \in FpOpcodes /\ x.fs_off THEN raise_illegal(x)
    ELSE Execute(x, Decoded(w), sf)

\* The body of the loop.  A fetch trigger suppresses the instruction.
Turn(x, w, sf) ==
    LET r == IF sdtrig_check(x.trig, x.h.privilege, x.h.pc, "execute")
             THEN Raise(x, CAUSE_BREAKPOINT) ELSE exec(x, w, sf)
    IN  IF x.h.pc >= MemSize THEN fatal(x)
        ELSE [r EXCEPT !.h.pc = AddrPlus(@, 4), !.prev_pc = x.h.pc]

-----------------------------------------------------------------------------
Init ==
    /\ probe \in Probes
    /\ m \in Machines(probe)
    /\ last = <<"none">>
    /\ left = Steps(probe)

Run(w, sf) ==
    /\ m.running = "run"
    /\ m' = Turn(m, w, sf)
    /\ last' = <<"run", w>>

\* The csrrw of the trigger CSRs and of fcsr and its two halves.
WriteTrigger(csr, v) ==
    /\ m.running = "run"
    /\ m' = [m EXCEPT !.trig = CASE csr = "tselect" -> set_tselect(@, v)
                                 [] csr = "tdata1" -> set_tdata1(@, v)
                                 [] csr = "tdata2" -> set_tdata2(@, v)
                                 [] csr = "tcontrol" -> set_tcontrol(@, v)]
    /\ last' = <<"csr">>

WriteFcsr(csr, v) ==
    /\ m.running = "run"
    /\ m' = CASE csr = "fflags" -> set_fflags(m, v)
              [] csr = "frm" -> set_frm(m, v)
              [] csr = "fcsr" -> set_fcsr(m, v[1], v[2])
    /\ last' = <<"csr">>

\* The debugger prints an instruction.
Disassemble(w) ==
    /\ last' = <<"disasm", w>>
    /\ m' = m

\* The words whose outcome depends on SoftFloat.
NeedsResult(w) ==
    IF IsCompressed(w) THEN FALSE
    ELSE exec_op(w) \in ArithOps \union DOMAIN FpToIntKind \union IntToFpOps \union {"fcvt_fp_fp"}

NoResult == [r |-> 0, flags |-> {}]

Next ==
    /\ left > 0
    /\ left' = left - 1
    /\ probe' = probe
    /\ \/ /\ probe # "decode"
          /\ \E w \in Words(probe) :
                \E sf \in IF NeedsResult(w) THEN Results(probe) ELSE {NoResult} : Run(w, sf)
       \/ /\ probe = "triggers"
          /\ \E c \in TriggerWrites : WriteTrigger(c[1], c[2])
       \/ /\ probe = "fcsr"
          /\ \E c \in FcsrWrites : WriteFcsr(c[1], c[2])
       \/ /\ probe = "decode"
          /\ \E w \in Words(probe) : Disassemble(w)

Spec == Init /\ [][Next]_vars

-----------------------------------------------------------------------------
\* Properties.

\* Registers, lanes, bytes and addresses stay within their widths, frm is a
\* rounding mode, and no instruction leaves a field of the machine undefined.
TypeOK ==
    /\ probe \in Probes
    /\ m \in MachineState
    /\ last \in {<<"none">>, <<"csr">>} \union ({"run"} \X Executable) \union ({"disasm"} \X Word32)
    /\ left \in Nat

Ran == last'[1] = "run"
Insn == last'[2]        \* the word of the step, when Ran
Same(fields) == \A f \in fields : m'[f] = m[f]

\* The instruction a word stands for: a compressed one is its expansion.
Meaning(x, w) ==
    LET illegal == Ins("illegal", 0, 0, 0, 0)
    IN  IF ~IsCompressed(w) THEN Decoded(w)
        ELSE IF ~x.misa_c \/ Expansion(w).op = "none" THEN illegal ELSE Expansion(w)

IsAccess(c) == (c.q = 0 /\ c.f3 \notin {0, 4}) \/ (c.q = 2 /\ c.f3 \in {2, 6})

\* Halfwords that exec_c_insn is known not to execute as their expansion: c.jr
\* and c.jalr keep bit 0 of the target, c.jalr x1 jumps to its own link value,
\* c.add x0 breaks, the floating-point loads and stores ignore mstatus.FS, the
\* double ones take c[6] as uimm[2] where it is uimm[7], and a load or store is
\* taken not to have trapped when the vector is 4 bytes after it.
Departs(x, c) ==
    \/ c.q = 2 /\ c.f3 = 4 /\ c.rs2 = 0 /\ c.rd # 0 /\ reg_read(x, c.rd) % 2 = 1
    \/ c.q = 2 /\ c.f3 = 4 /\ c.rs2 = 0 /\ c.rd = 1 /\ c.bit12 = 1
    \/ c.q = 2 /\ c.f3 = 4 /\ c.rs2 # 0 /\ c.rd = 0 /\ c.bit12 = 1
    \/ c.q = 0 /\ c.f3 \in {1, 3, 5, 7} /\ x.fs_off
    \/ c.q = 0 /\ c.f3 \in {1, 5} /\ c.b6 = 1
    \/ IsAccess(c) /\ x.h.pc \in {ExceptionTarget(x.h.mtvec), ExceptionTarget(x.h.stvec)}

Predictable(x, w) == IF IsCompressed(w) THEN ~Departs(x, w) ELSE TRUE

\* An instruction that mstatus.TSR or TVM forbids in S-mode.
Forbidden(h, op) ==
    /\ h.privilege = PRV_SUPERVISOR
    /\ (op = "sret" /\ "TSR" \in h.mstatus) \/ (op = "sfence_vma" /\ "TVM" \in h.mstatus)

EcallCause(prv) == IF prv = 2 THEN CAUSE_USER_ECALL ELSE CAUSE_USER_ECALL + prv

\* The synchronous trap the machine owes an instruction, -1 for none: a watched
\* fetch first, then the pc, the encoding, the watched address, its alignment,
\* the target of a jump that is taken.
DueTrap(x, w) ==
    LET i == Meaning(x, w)
        addr == ToWord(reg_read(x, i.rs1) + i.imm)
        target == IF i.op = "jalr" THEN addr - (addr % 2) ELSE ToWord(x.h.pc + i.imm)
        jumps == \/ i.op \in {"jal", "jalr"}
                 \/ i.op \in BranchOps /\ Taken(i.op, reg_read(x, i.rs1), reg_read(x, i.rs2))
        fp == IF IsCompressed(w) THEN FALSE ELSE w.opcode \in FpOpcodes
    IN  IF sdtrig_check(x.trig, x.h.privilege, x.h.pc, "execute") THEN CAUSE_BREAKPOINT
        ELSE IF x.h.pc % IAlign(x) # 0 THEN CAUSE_MISALIGNED_FETCH
        ELSE IF i.op = "illegal" \/ (fp /\ x.fs_off) \/ Forbidden(x.h, i.op)
                THEN CAUSE_ILLEGAL_INSTRUCTION
        ELSE IF i.op = "ebreak" THEN CAUSE_BREAKPOINT
        ELSE IF i.op = "ecall" /\ x.gpr[A7] # ExitCall THEN EcallCause(x.h.privilege)
        ELSE IF i.op \in LoadOps /\ sdtrig_check(x.trig, x.h.privilege, addr, "load")
                THEN CAUSE_BREAKPOINT
        ELSE IF i.op \in StoreOps /\ sdtrig_check(x.trig, x.h.privilege, addr, "store")
                THEN CAUSE_BREAKPOINT
        ELSE IF i.op \in LoadOps /\ addr % LoadBytes[i.op] # 0 THEN CAUSE_MISALIGNED_LOAD
        ELSE IF i.op \in StoreOps /\ addr % StoreBytes[i.op] # 0 THEN CAUSE_MISALIGNED_STORE
        ELSE IF jumps /\ target % IAlign(x) # 0 THEN CAUSE_MISALIGNED_FETCH
        ELSE -1

\* The step takes the trap that is due and does nothing else, or takes none.
PreciseStep ==
    LET due == DueTrap(m, Insn)
        toS == m.h.privilege \in {PRV_USER, PRV_SUPERVISOR} /\ due \in m.h.medeleg
        epc == IF due = CAUSE_MISALIGNED_FETCH /\ m.h.pc % IAlign(m) # 0
               THEN m.prev_pc ELSE m.h.pc
    IN  IF due = -1
        THEN m'.h.mcause = m.h.mcause /\ m'.h.scause = m.h.scause
        ELSE /\ Same({"gpr", "mem", "trig", "fpr", "fmem", "fflags", "frm", "running"})
             /\ m'.h.privilege = IF toS THEN PRV_SUPERVISOR ELSE PRV_MACHINE
             /\ m'.h.pc = IF toS THEN m.h.stvec.base ELSE m.h.mtvec.base
             /\ <<m'.h.scause, m'.h.sepc>> =
                    IF toS THEN <<Exc(due), epc>> ELSE <<m.h.scause, m.h.sepc>>
             /\ <<m'.h.mcause, m'.h.mepc>> =
                    IF toS THEN <<m.h.mcause, m.h.mepc>> ELSE <<Exc(due), epc>>

\* Traps are precise: an instruction that owes a trap takes it with that cause,
\* in the mode medeleg says, leaves every register and byte of memory as they
\* were, reports its own address (the jump that led here, when the pc itself is
\* misaligned), and continues at the trap vector; any other instruction takes
\* none.  A handler that forgets an early return, or touches state before it,
\* breaks this.
TrapsPrecise ==
    [][Ran /\ m.h.pc < MemSize /\ Predictable(m, Insn) => PreciseStep]_vars

\* The step has the effect of the expansion, but goes on 2 bytes further and
\* links to the halfword after it.
ActsAsExpansion ==
    LET e == Expansion(Insn)
        full == Execute(m, e, NoResult)
        links == e.op \in {"jal", "jalr"} /\ e.rd # 0
        stays == \/ e.op \notin {"jal", "jalr"} \union BranchOps
                 \/ /\ e.op \in BranchOps
                    /\ ~Taken(e.op, reg_read(m, e.rs1), reg_read(m, e.rs2))
    IN  /\ m'.h.pc = IF stays THEN AddrPlus(m.h.pc, 2) ELSE AddrPlus(full.h.pc, 4)
        /\ m'.gpr = IF links THEN [full.gpr EXCEPT ![e.rd] = AddrPlus(m.h.pc, 2)] ELSE full.gpr
        /\ <<m'.mem, m'.fpr, m'.fmem>> = <<full.mem, full.fpr, full.fmem>>

\* A compressed instruction does what the instruction it abbreviates does.  The
\* handlers of c_extension.c have code of their own for most of them and correct
\* the pc by hand on every path.
CompressedIsExpansion ==
    [][Ran /\ m.h.pc < MemSize /\ IsCompressed(Insn) /\ m.misa_c
         /\ DueTrap(m, Insn) = -1 /\ ~Departs(m, Insn) => ActsAsExpansion]_vars

\* Quotient and remainder of C: the division identity, the remainder smaller
\* than the divisor and of the dividend's sign.
Divides(n, d, q, rem) ==
    n = q * d + rem /\ Magnitude(rem) < Magnitude(d) /\ (rem = 0 \/ (rem < 0) = (n < 0))

\* What the operations of the M extension owe for the operands u1 and u2.
MulDivOwed(op, u1, u2, r) ==
    LET s1 == Signed(u1)
        s2 == Signed(u2)
        low == insm_r_mul(u1, u2)
        overflow == s1 = IntMin /\ s2 = -1
    IN  CASE op = "mul" -> (r - u1 * u2) % WordMod = 0
          [] op = "mulh" -> Signed(r) * WordMod + low = s1 * s2
          [] op = "mulsu" -> Signed(r) * WordMod + low = s1 * u2
          [] op = "mulu" -> r * WordMod + low = u1 * u2
          [] op \in {"div", "divu"} /\ u2 = 0 -> r = MaxWord
          [] op \in {"rem", "remu"} /\ u2 = 0 -> r = u1
          [] op = "div" /\ u2 # 0 ->
                IF overflow THEN r = u1 ELSE Divides(s1, s2, Signed(r), Signed(insm_r_rem(u1, u2)))
          [] op = "rem" /\ u2 # 0 ->
                IF overflow THEN r = 0 ELSE Divides(s1, s2, Signed(insm_r_div(u1, u2)), Signed(r))
          [] op = "divu" /\ u2 # 0 -> Divides(u1, u2, r, insm_r_remu(u1, u2))
          [] op = "remu" /\ u2 # 0 -> Divides(u1, u2, insm_r_divu(u1, u2), r)

\* The multiplications give the two halves of the exact product of their
\* operands, and quotient and remainder satisfy the division identity, also for
\* the operands where C's own division is undefined.
MulDivExact ==
    [][Ran /\ m.h.pc < MemSize /\ ~IsCompressed(Insn) /\ DueTrap(m, Insn) = -1
         /\ exec_op(Insn) \in MulDivOps /\ Insn.rd # 0 =>
         MulDivOwed(exec_op(Insn), reg_read(m, Insn.rs1), reg_read(m, Insn.rs2),
                    m'.gpr[Insn.rd])]_vars

-----------------------------------------------------------------------------
\* The words the two decoders are known to read differently: feq and fle have
\* each other's name, sfence.vma is looked for at the wrong immediate, and
\* disasm names encodings exec refuses (a shift with a funct7, fmv and fcvt with
\* reserved fields) or runs past its table for reserved rounding modes.
KnownDrift(w) ==
    LET op == Funct5(w)
    IN  \/ w.opcode = \b0010011 /\ w.funct3 = 1 /\ w.funct7 # 0
        \/ w.opcode = \b1110011 /\ w.funct3 = 0 /\ ((w.funct7 = \b0001001 /\ w.rd = 0) \/ Imm12(w) = 9)
        \/ w.opcode = \b1010011 /\ \/ op = 20 /\ w.funct3 # 1
                                   \/ op = 4 /\ w.funct3 > 2
                                   \/ op = 5 /\ w.funct3 > 1
                                   \/ op = 30 /\ ~(w.funct3 = 0 /\ w.rs2 = 0)
                                   \/ op \in {24, 26} /\ w.rs2 > 3 /\ w.rs2 % 4 # 3
                                   \/ op = 8 /\ (w.rs2 > 3 \/ w.rs2 = Fmt(w))

NamedAsExecuted(w) ==
    LET runs == exec_op(w)
        shown == disasm_op(w)
    IN  IF runs \in {"fatal", "illegal"} THEN shown \in {"unknown", "compressed"}
                                        ELSE shown = runs

\* A word with the opcode and funct3 of w.
WordLike(w, f7, r2, r1, d) == [w EXCEPT !.funct7 = f7, !.rs2 = r2, !.rs1 = r1, !.rd = d]

\* The debugger's disassembly names the operation exec performs, and names none
\* for a word exec refuses, but for exactly the words of KnownDrift: the two
\* switches were written separately and have to change together.
DecodersAgree ==
    last[1] = "disasm" =>
        \A f7 \in 0 .. 127, r2 \in 0 .. 9, r1 \in {0, 1}, d \in {0, 1} :
            LET w == WordLike(last[2], f7, r2, r1, d)
            IN  NamedAsExecuted(w) = ~KnownDrift(w)

-----------------------------------------------------------------------------
\* Numbers in order, -0 below +0.
Before(fmt, a, b) ==
    LET half == 2 ^ (FmtWidth(fmt) - 1)
        key(x) == IF x >= half THEN half - 1 - x ELSE x
    IN  key(a) <= key(b)

IsNan(fmt, x) == Float(fmt)!is_nan(x)
IsInf(fmt, x) == Float(fmt)!is_inf(x)
CanonicalNan(fmt) == Float(fmt)!RISCV_CANONICAL_NAN
Rounded(fmt, x, rm) == Float(fmt)!RoundToInt(x, rm)
Negative(fmt, x) == x >= 2 ^ (FmtWidth(fmt) - 1)

\* The words fcvt.w and fcvt.wu stand for: the integer nearest in the
\* instruction's rounding mode, the nearest end of the range for a number
\* outside it, the largest for a NaN.
Saturated(fmt, x, rm, lo, hi) ==
    LET n == Rounded(fmt, x, rm)
    IN  CASE IsNan(fmt, x) -> hi
          [] ~IsNan(fmt, x) /\ IsInf(fmt, x) -> IF Negative(fmt, x) THEN lo ELSE hi
          [] OTHER -> IF n < lo THEN lo ELSE IF n > hi THEN hi ELSE n

\* What the operations of the unit owe for the operands a, b and (fused) c: r is
\* the value of the format then in the fpr rd, x the word in the gpr rd.
FloatOwed(i, a, b, c, rm, r, x) ==
    LET numbers == {v \in {a, b} : ~IsNan(i.fmt, v)}
        half == 2 ^ (FmtWidth(i.fmt) - 1)
        ordered == ~IsNan(i.fmt, a) /\ ~IsNan(i.fmt, b)
        same == a = b \/ (a % half = 0 /\ b % half = 0)
        canonical == IsNan(i.fmt, r) => r = CanonicalNan(i.fmt)
        o == do_fma_operands(i.fmt, i.op, a, b, c)
    IN  CASE i.op \in MinMaxOps ->
               IF numbers = {} THEN r = CanonicalNan(i.fmt)
               ELSE r \in numbers /\ \A n \in numbers :
                       IF i.op = "fmin" THEN Before(i.fmt, r, n) ELSE Before(i.fmt, n, r)
          [] i.op \in {"fadd", "fsub", "fmul", "fdiv", "fsqrt"} -> canonical
          [] i.op \in {"fmadd", "fmsub", "fnmsub", "fnmadd"} ->
               /\ canonical
               /\ o.b = b
               /\ (o.a = a) = (i.op \in {"fmadd", "fmsub"})
               /\ (o.c = c) = (i.op \in {"fmadd", "fnmsub"})
               /\ {o.a - a, o.c - c} \subseteq {0, half, -half}
          [] i.op = "feq" /\ i.rd # 0 -> x = Bit(ordered /\ same)
          [] i.op = "flt" /\ i.rd # 0 -> x = Bit(ordered /\ ~same /\ Before(i.fmt, a, b))
          [] i.op = "fle" /\ i.rd # 0 -> x = Bit(ordered /\ (same \/ Before(i.fmt, a, b)))
          [] i.op = "fcvt_w_fp" /\ i.rd # 0 ->
               Signed(x) = Saturated(i.fmt, a, rm, IntMin, -IntMin - 1)
          [] i.op = "fcvt_wu_fp" /\ i.rd # 0 -> x = Saturated(i.fmt, a, rm, 0, MaxWord)
          [] OTHER -> TRUE

\* The unit pays it, whatever SoftFloat hands back: minimum and maximum prefer a
\* number to a NaN and order the zeros, conversions saturate as the table above
\* fcvt_int_sat says, a comparison with a NaN is false, an arithmetic NaN is the
\* canonical one, and the fused operations negate product and addend as their
\* names say.
FloatResultsExact ==
    [][Ran /\ m.h.pc < MemSize /\ ~IsCompressed(Insn) /\ DueTrap(m, Insn) = -1
         /\ exec_op(Insn) \in FpOps =>
         LET i == Decoded(Insn)
         IN  FloatOwed(i, fpr_read(m, i.fmt, i.rs1), fpr_read(m, i.fmt, i.rs2),
                       fpr_read(m, i.fmt, Funct5(Insn)), sf_rm(m, i.rm),
                       fpr_read(m', i.fmt, i.rd), reg_read(m', i.rd))]_vars

\* The destination format of an instruction that writes an fpr.
DestFormat(i) ==
    IF i.op \in DOMAIN LoadFormat THEN LoadFormat[i.op] ELSE i.fmt

\* An instruction only adds to fflags, never changes frm, and writes at most the
\* lane of rd, whose bits above the format of the result are then all ones; no
\* CSR write stores a reserved rounding mode.
FpuStateKept ==
    [][/\ m'.frm \in RoundingModes
       /\ Ran => /\ m.fflags \subseteq m'.fflags
                 /\ m'.frm = m.frm
                 /\ \A f \in DOMAIN m.fpr : m'.fpr[f] # m.fpr[f] =>
                       LET i == Meaning(m, Insn)
                           width == 2 ^ FmtWidth(DestFormat(i))
                       IN  /\ f = i.rd
                           /\ m'.fpr[f] \div width = LaneMod \div width - 1]_vars
=============================================================================
