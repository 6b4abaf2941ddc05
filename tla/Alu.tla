-------------------------------- MODULE Alu --------------------------------
(***************************************************************************)
(* The register arithmetic of the hart: the base integer operations        *)
(* (src/include/basic_instructions.h), the M extension                     *)
(* (src/src/extension/m_extension.c) and Zicond                            *)
(* (src/include/extension/zicond_extension.h), on words of XLen bits.      *)
(* Every register value is an unsigned word; a cast to int32_t is Signed,  *)
(* a store into a uint32_t is ToWord.                                      *)
(***************************************************************************)
EXTENDS Integers

CONSTANT XLen           \* 32: the width of a register

ASSUME XLenAssumption == XLen \in Nat /\ XLen >= 4 /\ XLen % 4 = 0

WordMod == 2 ^ XLen
Word == 0 .. WordMod - 1
MaxWord == WordMod - 1
IntMin == -(2 ^ (XLen - 1))

\* What 2 ^ n is for the widths in use: the proofs take nothing else of it.
ASSUME PowersOfTwo == 2 ^ 0 = 1 /\ \A n \in 0 .. XLen : 2 ^ (n + 1) = 2 * 2 ^ n

ToWord(n) == n % WordMod
Signed(v) == IF v >= 2 ^ (XLen - 1) THEN v - WordMod ELSE v

\* sign_extend_12, _13 and _21: a field of `bits` bits as a word.
sign_extend(imm, bits) ==
    IF imm >= 2 ^ (bits - 1) THEN ToWord(imm - 2 ^ bits) ELSE imm

\* C's / and % truncate towards zero.
Magnitude(n) == IF n < 0 THEN -n ELSE n
CDiv(a, b) ==
    IF (a < 0) = (b < 0) THEN Magnitude(a) \div Magnitude(b)
                         ELSE -(Magnitude(a) \div Magnitude(b))
CRem(a, b) == a - b * CDiv(a, b)

Bit(p) == IF p THEN 1 ELSE 0

\* The 1 bits of a word, and the word that has them: `^`, `|` and `&` are
\* the set operations on the bits of their operands.
Bits(v) == {i \in 0 .. XLen - 1 : (v \div 2 ^ i) % 2 = 1}

FromBits(bits) ==
    LET sum[n \in 0 .. XLen] ==
            IF n = 0 THEN 0 ELSE sum[n - 1] + (IF n - 1 \in bits THEN 2 ^ (n - 1) ELSE 0)
    IN  sum[XLen]

-----------------------------------------------------------------------------
\* insi_r_*: v1 is rs1 and v2 is rs2.  `& 0x1F` is the shift modulo XLen.
RegisterOps == {"add", "sub", "xor", "or", "and", "sll", "srl", "sra", "slt", "sltu"}

insi_r(op, v1, v2) ==
    LET shamt == v2 % XLen
    IN  CASE op = "add" -> ToWord(v1 + v2)
          [] op = "sub" -> ToWord(v1 - v2)
          [] op = "xor" -> FromBits((Bits(v1) \union Bits(v2)) \ (Bits(v1) \intersect Bits(v2)))
          [] op = "or" -> FromBits(Bits(v1) \union Bits(v2))
          [] op = "and" -> FromBits(Bits(v1) \intersect Bits(v2))
          [] op = "sll" -> ToWord(v1 * 2 ^ shamt)
          [] op = "srl" -> v1 \div 2 ^ shamt
          [] op = "sra" -> ToWord(Signed(v1) \div 2 ^ shamt)
          [] op = "slt" -> Bit(Signed(v1) < Signed(v2))
          [] op = "sltu" -> Bit(v1 < v2)

\* insi_i_*: the same operation on the sign-extended immediate (a shift uses
\* its low bits only, sltiu compares it as unsigned).
ImmediateForm == [addi |-> "add", xori |-> "xor", ori |-> "or", andi |-> "and",
                  slli |-> "sll", srli |-> "srl", srai |-> "sra",
                  slti |-> "slt", sltiu |-> "sltu"]
ImmediateOps == DOMAIN ImmediateForm

insi_i(op, v1, imm) == insi_r(ImmediateForm[op], v1, imm)

-----------------------------------------------------------------------------
\* The M extension.  The high half of a product is the 64-bit product shifted
\* right by 32.
High(product) == ToWord(product \div WordMod)

insm_r_mul(v1, v2) == ToWord(Signed(v1) * Signed(v2))
insm_r_mulh(v1, v2) == High(Signed(v1) * Signed(v2))

MutMulsuUnsigned(v1, v2) == High(v1 * v2)

insm_r_mulsu(v1, v2) == High(Signed(v1) * v2)
insm_r_mulu(v1, v2) == High(v1 * v2)

\* Division by zero and INT_MIN / -1 have results of their own: the C division
\* is undefined there.
insm_r_div(v1, v2) ==
    CASE v2 = 0 -> MaxWord
      [] v2 # 0 /\ Signed(v1) = IntMin /\ Signed(v2) = -1 -> ToWord(IntMin)
      [] OTHER -> ToWord(CDiv(Signed(v1), Signed(v2)))

insm_r_divu(v1, v2) == IF v2 = 0 THEN MaxWord ELSE v1 \div v2

insm_r_rem(v1, v2) ==
    CASE v2 = 0 -> v1
      [] v2 # 0 /\ Signed(v1) = IntMin /\ Signed(v2) = -1 -> 0
      [] OTHER -> ToWord(CRem(Signed(v1), Signed(v2)))

insm_r_remu(v1, v2) == IF v2 = 0 THEN v1 ELSE v1 % v2

MulDivOps == {"mul", "mulh", "mulsu", "mulu", "div", "divu", "rem", "remu"}

insm_r(op, v1, v2) ==
    CASE op = "mul" -> insm_r_mul(v1, v2)
      [] op = "mulh" -> insm_r_mulh(v1, v2)
      [] op = "mulsu" -> insm_r_mulsu(v1, v2)
      [] op = "mulu" -> insm_r_mulu(v1, v2)
      [] op = "div" -> insm_r_div(v1, v2)
      [] op = "divu" -> insm_r_divu(v1, v2)
      [] op = "rem" -> insm_r_rem(v1, v2)
      [] op = "remu" -> insm_r_remu(v1, v2)

-----------------------------------------------------------------------------
ZicondOps == {"czero_eqz", "czero_nez"}

ins_zicond(op, v1, v2) ==
    IF (op = "czero_eqz") = (v2 = 0) THEN 0 ELSE v1
=============================================================================
