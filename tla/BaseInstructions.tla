-------------------------- MODULE BaseInstructions --------------------------
(***************************************************************************)
(* The base instructions that touch memory or the pc                       *)
(* (src/include/basic_instructions.h).  A machine m is the record          *)
(*   h         the hart of Privileged: pc, privilege, trap CSRs            *)
(*   gpr       the integer registers                                       *)
(*   mem       main memory, one byte per address below MemSize             *)
(*   trig      the trigger file                                            *)
(*   misa_c    misa.C: 16-bit instructions and 2-byte fetch alignment      *)
(*   prev_pc   g_prev_ins_pc                                               *)
(*   running   "run", or how the emulation ended                           *)
(* and the fields of the FPU.  Instructions are operators from a machine   *)
(* to the machine they leave behind, before the run loop adds 4 to the pc. *)
(* Accesses are physical: translation and its faults are in Paging, the    *)
(* devices behind the bus in Plic, Uart and Timer.                         *)
(***************************************************************************)
EXTENDS Alu, Triggers

CONSTANT MemSize        \* bytes of main memory

ASSUME MemSizeAssumption == MemSize \in Nat /\ MemSize % 4 = 0 /\ AddrMod = WordMod

CAUSE_MISALIGNED_FETCH == 0
CAUSE_MISALIGNED_LOAD == 4
CAUSE_MISALIGNED_STORE == 6

ByteBits == XLen \div 4
ByteMod == 2 ^ ByteBits
Byte == 0 .. ByteMod - 1

reg_read(m, id) == IF id = 0 THEN 0 ELSE m.gpr[id]
reg_write(m, id, d) == IF id = 0 THEN m ELSE [m EXCEPT !.gpr[id] = d]

Raise(m, cause) == [m EXCEPT !.h = raise_exception(@, cause)]
raise_illegal(m) == Raise(m, CAUSE_ILLEGAL_INSTRUCTION)

\* mem_read*_unsigned and mem_write* on main memory: an access past its end
\* reads 0 and writes nothing.
ReadBytes(m, addr, n) ==
    IF addr + n > MemSize THEN 0
    ELSE LET b(k) == m.mem[addr + k] * 2 ^ (k * ByteBits)
         IN  CASE n = 1 -> b(0)
               [] n = 2 -> b(0) + b(1)
               [] n = 4 -> b(0) + b(1) + b(2) + b(3)

WriteBytes(m, addr, n, val) ==
    IF addr + n > MemSize THEN m
    ELSE [m EXCEPT !.mem = [a \in DOMAIN @ |->
                               IF a \in addr .. addr + n - 1
                               THEN (val \div 2 ^ ((a - addr) * ByteBits)) % ByteMod
                               ELSE @[a]]]

-----------------------------------------------------------------------------
LoadBytes == [lb |-> 1, lh |-> 2, lw |-> 4, lbu |-> 1, lhu |-> 2]
LoadOps == DOMAIN LoadBytes
StoreBytes == [sb |-> 1, sh |-> 2, sw |-> 4]
StoreOps == DOMAIN StoreBytes

\* insi_i_lb .. insi_i_lhu: the trigger first, then alignment, then the
\* access; the trap paths return before rd is written.
insi_i_load(m, op, imm, rs1, rd) ==
    LET addr == ToWord(reg_read(m, rs1) + imm)
        n == LoadBytes[op]
        val == ReadBytes(m, addr, n)
    IN  IF sdtrig_check(m.trig, m.h.privilege, addr, "load")
        THEN Raise(m, CAUSE_BREAKPOINT)
        ELSE IF addr % n # 0 THEN Raise(m, CAUSE_MISALIGNED_LOAD)
        ELSE reg_write(m, rd, IF op \in {"lb", "lh"}
                              THEN sign_extend(val, n * ByteBits) ELSE val)

insi_s_store(m, op, imm, rs2, rs1) ==
    LET addr == ToWord(reg_read(m, rs1) + imm)
        n == StoreBytes[op]
    IN  IF sdtrig_check(m.trig, m.h.privilege, addr, "store")
        THEN Raise(m, CAUSE_BREAKPOINT)
        ELSE IF addr % n # 0 THEN Raise(m, CAUSE_MISALIGNED_STORE)
        ELSE WriteBytes(m, addr, n, reg_read(m, rs2))

-----------------------------------------------------------------------------
IAlign(m) == IF m.misa_c THEN 2 ELSE 4

\* raise_if_misaligned_fetch(target) followed by the jump `then`.
IfAligned(m, target, then) ==
    IF target % IAlign(m) # 0
    THEN [m EXCEPT !.h = raise_exception_pc(@, CAUSE_MISALIGNED_FETCH, m.h.pc)]
    ELSE then

\* `pc = target; PC_BACKWARD;`
Jump(m, target) == [m EXCEPT !.h.pc = AddrPlus(target, -4)]

BranchOps == {"beq", "bne", "blt", "bge", "bltu", "bgeu"}

Taken(op, v1, v2) ==
    CASE op = "beq" -> v1 = v2
      [] op = "bne" -> v1 # v2
      [] op = "blt" -> Signed(v1) < Signed(v2)
      [] op = "bge" -> Signed(v1) >= Signed(v2)
      [] op = "bltu" -> v1 < v2
      [] op = "bgeu" -> v1 >= v2

\* A branch that is not taken never checks its target.
insi_b(m, op, imm, rs2, rs1) ==
    LET target == AddrPlus(m.h.pc, imm)
    IN  IF Taken(op, reg_read(m, rs1), reg_read(m, rs2))
        THEN IfAligned(m, target, Jump(m, target))
        ELSE m

insi_j_jal(m, imm, rd) ==
    LET target == AddrPlus(m.h.pc, imm)
    IN  IfAligned(m, target, Jump(reg_write(m, rd, AddrPlus(m.h.pc, 4)), target))

\* The target is read before the link register is written.
insi_i_jalr(m, imm, rs1, rd) ==
    LET addr == ToWord(reg_read(m, rs1) + imm)
        target == addr - (addr % 2)
    IN  IfAligned(m, target, Jump(reg_write(m, rd, AddrPlus(m.h.pc, 4)), target))

insi_u_lui(m, imm, rd) == reg_write(m, rd, imm)
insi_u_auipc(m, imm, rd) == reg_write(m, rd, AddrPlus(m.h.pc, imm))

\* ecall with ExitCall in a7 ends the emulation, any other traps.
CONSTANT ExitCall       \* 93
A7 == 17

Ecall(m) ==
    IF m.gpr[A7] = ExitCall THEN [m EXCEPT !.running = "terminated"]
    ELSE [m EXCEPT !.h = insi_i_ecall(@)]

insi_i_ebreak(m) == Raise(m, CAUSE_BREAKPOINT)

fatal(m) == [m EXCEPT !.running = "fatal"]
=============================================================================
