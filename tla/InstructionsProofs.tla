------------------------- MODULE InstructionsProofs -------------------------
(***************************************************************************)
(* Proofs about one turn of the run loop, for every register width, memory *)
(* size, machine and instruction word.                                     *)
(***************************************************************************)
EXTENDS Instructions, TLAPS, WellFoundedInduction

-----------------------------------------------------------------------------
\* Arithmetic.

\* Induction over the naturals, for a set.
LEMMA NatInductive ==
    ASSUME NEW T, 0 \in T, \A n \in Nat : n \in T => n + 1 \in T
    PROVE  \A n \in Nat : n \in T
  <1> DEFINE U == {n \in Nat : n \notin T}
  <1> SUFFICES ASSUME U # {} PROVE FALSE
    OBVIOUS
  <1>1. PICK u \in U : \A n \in U : ~(<<n, u>> \in OpToRel(<, Nat))
    BY NatLessThanWellFounded, WFMin
  <1>2. u \in Nat /\ u # 0 /\ u \notin T
    OBVIOUS
  <1>3. u - 1 \in Nat /\ u - 1 < u /\ (u - 1) + 1 = u
    BY <1>2
  <1>4. u - 1 \notin U
    BY <1>1, <1>2, <1>3 DEF OpToRel
  <1> QED
    BY <1>2, <1>3, <1>4

\* Quotient and remainder are the only ones there are.
LEMMA DivModUnique ==
    ASSUME NEW b \in Nat, b >= 1, NEW q \in Int, NEW r \in 0 .. b - 1
    PROVE  (b * q + r) \div b = q /\ (b * q + r) % b = r
  OBVIOUS

\* They are integers, the remainder smaller than the divisor.
LEMMA DivMod ==
    ASSUME NEW a \in Int, NEW b \in Nat, b >= 1
    PROVE  a = b * (a \div b) + (a % b) /\ a \div b \in Int /\ a % b \in 0 .. b - 1
  OBVIOUS

\* A remainder may be taken before an addition.
LEMMA ModPlus ==
    ASSUME NEW a \in Int, NEW b \in Nat, b >= 1, NEW j \in Int
    PROVE  ((a % b) + j) % b = (a + j) % b
  <1> DEFINE q == a \div b
             r == a % b
             s == (r + j) \div b
             t == (r + j) % b
  <1>1. a = b * q + r /\ q \in Int /\ r \in 0 .. b - 1
    BY DivMod
  <1>2. r + j \in Int
    BY <1>1
  <1>3. r + j = b * s + t /\ s \in Int /\ t \in 0 .. b - 1
    BY <1>2, DivMod
  <1> HIDE DEF q, r, s, t
  <1>4. a + j = b * (q + s) + t /\ q + s \in Int
    BY <1>1, <1>3
  <1>5. (b * (q + s) + t) % b = t
    BY <1>3, <1>4, DivModUnique
  <1> QED
    BY <1>4, <1>5 DEF r, t

\* The widest power of two in use.
Top == FmtWidth(Q)

\* Every width is a natural number no larger.
LEMMA Widths ==
    /\ XLen \in Nat /\ XLen >= 4 /\ Top \in Nat /\ XLen < Top
    /\ \A fmt \in Formats :
          /\ FmtExp(fmt) \in Nat /\ FmtExp(fmt) >= 2 /\ FmtMant(fmt) \in Nat /\ FmtMant(fmt) >= 2
          /\ FmtWidth(fmt) \in Nat /\ FmtWidth(fmt) = 1 + FmtExp(fmt) + FmtMant(fmt)
          /\ FmtWidth(fmt) <= Top
  <1>1. ASSUME NEW fmt \in Formats
        PROVE  /\ FmtExp(fmt) \in Nat /\ FmtExp(fmt) >= 2
               /\ FmtMant(fmt) \in Nat /\ FmtMant(fmt) >= 2
    BY FormatAssumption DEF FmtExp, FmtMant, Formats, S, D, H, Q
  <1>2. ASSUME NEW fmt \in Formats
        PROVE  FmtWidth(fmt) = 1 + FmtExp(fmt) + FmtMant(fmt) /\ FmtWidth(fmt) \in Nat
    BY <1>1 DEF FmtWidth, Float!Width
  <1>3. S \in Formats /\ D \in Formats /\ H \in Formats /\ Q \in Formats
    BY DEF Formats
  <1>4. XLen \in Nat /\ XLen >= 4 /\ XLen < Top
    BY <1>2, <1>3, XLenAssumption, WidthAssumption DEF Top
  <1>5. ASSUME NEW fmt \in Formats PROVE FmtWidth(fmt) <= Top
    BY <1>2, <1>3, XLenAssumption, WidthAssumption DEF Formats, Top
  <1> QED
    BY <1>1, <1>2, <1>3, <1>4, <1>5 DEF Top

\* Powers of two are positive integers, ...
LEMMA PowType == \A n \in 0 .. Top + 1 : 2 ^ n \in Nat /\ 2 ^ n >= 1
  <1> DEFINE T == {n \in Nat : n <= Top + 1 => 2 ^ n \in Nat /\ 2 ^ n >= 1}
  <1>1. 0 \in T
    BY PowersOfTwo
  <1>2. ASSUME NEW n \in Nat, n \in T PROVE n + 1 \in T
    BY <1>2, Widths, WidePowersOfTwo DEF Top
  <1> HIDE DEF T
  <1>3. \A n \in Nat : n \in T
    BY <1>1, <1>2, NatInductive
  <1> QED
    BY <1>3, Widths DEF T

\* ... and multiply by adding exponents.
LEMMA PowAdd ==
    ASSUME NEW a \in Nat, NEW b \in Nat, a + b <= Top + 1
    PROVE  2 ^ (a + b) = 2 ^ a * 2 ^ b
  <1> DEFINE T == {n \in Nat : a + n <= Top + 1 => 2 ^ (a + n) = 2 ^ a * 2 ^ n}
  <1>1. 0 \in T
    BY PowersOfTwo, PowType, Widths
  <1>2. ASSUME NEW n \in Nat, n \in T, a + (n + 1) <= Top + 1
        PROVE  2 ^ (a + (n + 1)) = 2 ^ a * 2 ^ (n + 1)
    <2>1. 2 ^ a \in Nat /\ 2 ^ n \in Nat /\ 2 ^ (a + n) = 2 ^ a * 2 ^ n
      BY <1>2, PowType, Widths
    <2>2. 2 ^ (n + 1) = 2 * 2 ^ n
      BY <1>2, WidePowersOfTwo, Widths DEF Top
    <2>3. (a + n) + 1 = a + (n + 1) /\ a + n \in 0 .. Top
      BY <1>2, Widths
    <2>4. 2 ^ ((a + n) + 1) = 2 * 2 ^ (a + n)
      BY <2>3, WidePowersOfTwo DEF Top
    <2> DEFINE p == 2 ^ a
               q == 2 ^ n
    <2>5. p \in Nat /\ q \in Nat /\ 2 ^ (a + (n + 1)) = 2 * (p * q) /\ 2 ^ (n + 1) = 2 * q
      BY <2>1, <2>2, <2>3, <2>4
    <2> HIDE DEF p, q
    <2>6. 2 * (p * q) = p * (2 * q)
      BY <2>5
    <2> QED
      BY <2>5, <2>6 DEF p
  <1> HIDE DEF T
  <1>3. \A n \in Nat : n \in T => n + 1 \in T
    BY <1>2 DEF T
  <1>4. b \in T
    BY <1>1, <1>3, NatInductive
  <1> QED
    BY <1>4 DEF T

\* The word size and its half.
LEMMA WordSize ==
    /\ WordMod \in Nat /\ 2 ^ (XLen - 1) \in Nat /\ 2 ^ (XLen - 1) >= 1
    /\ WordMod = 2 * 2 ^ (XLen - 1)
    /\ AddrMod = WordMod /\ Addr = Word
  <1>1. XLen - 1 \in 0 .. XLen /\ XLen - 1 \in 0 .. Top + 1 /\ (XLen - 1) + 1 = XLen
    BY Widths
  <1>2. 2 ^ ((XLen - 1) + 1) = 2 * 2 ^ (XLen - 1)
    BY <1>1, PowersOfTwo
  <1> QED
    BY <1>1, <1>2, PowType, MemSizeAssumption DEF WordMod, Addr, Word

\* Zero and one are words, and so is what ToWord gives.
LEMMA WordFacts ==
    /\ 0 \in Word /\ 1 \in Word /\ WordMod >= 2
    /\ \A n \in Int : ToWord(n) \in Word
    /\ \A v \in Word : v \in Nat /\ ToWord(v) = v
  <1>1. WordMod \in Nat /\ WordMod >= 2
    BY WordSize
  <1>2. 0 \in Word /\ 1 \in Word
    BY <1>1 DEF Word
  <1>3. ASSUME NEW n \in Int PROVE ToWord(n) \in Word
    BY <1>1 DEF Word, ToWord
  <1>4. ASSUME NEW v \in Word PROVE v \in Nat /\ ToWord(v) = v
    BY <1>1 DEF Word, ToWord
  <1> QED
    BY <1>1, <1>2, <1>3, <1>4

-----------------------------------------------------------------------------
\* The two decoders.

\* An entry of a table is that of its index.
LEMMA DecodeRegister ==
    ASSUME NEW w \in Word32, w.opcode = \b0110011
    PROVE  NamedAsExecuted(w) = ~KnownDrift(w)
  BY DEF Word32, NamedAsExecuted, KnownDrift, exec_op, disasm_op, exec_r, disasm_r, m_ins_optable

\* The register-immediate operations.
LEMMA DecodeImmediate ==
    ASSUME NEW w \in Word32, w.opcode = \b0010011
    PROVE  NamedAsExecuted(w) = ~KnownDrift(w)
  BY DEF Word32, NamedAsExecuted, KnownDrift, exec_op, disasm_op, exec_imm, disasm_imm

\* The loads.
LEMMA DecodeLoad ==
    ASSUME NEW w \in Word32, w.opcode = \b0000011
    PROVE  NamedAsExecuted(w) = ~KnownDrift(w)
  BY DEF Word32, NamedAsExecuted, KnownDrift, exec_op, disasm_op, exec_load, disasm_load, Entry

\* The stores.
LEMMA DecodeStore ==
    ASSUME NEW w \in Word32, w.opcode = \b0100011
    PROVE  NamedAsExecuted(w) = ~KnownDrift(w)
  BY DEF Word32, NamedAsExecuted, KnownDrift, exec_op, disasm_op, exec_store, disasm_store, Entry

\* The floating-point loads.
LEMMA DecodeFpLoad ==
    ASSUME NEW w \in Word32, w.opcode = \b0000111
    PROVE  NamedAsExecuted(w) = ~KnownDrift(w)
  BY DEF Word32, NamedAsExecuted, KnownDrift, exec_op, disasm_op, exec_fload, disasm_fload, Entry

\* The floating-point stores.
LEMMA DecodeFpStore ==
    ASSUME NEW w \in Word32, w.opcode = \b0100111
    PROVE  NamedAsExecuted(w) = ~KnownDrift(w)
  BY DEF Word32, NamedAsExecuted, KnownDrift, exec_op, disasm_op, exec_fstore, disasm_fstore, Entry

\* The floating-point operations.
LEMMA DecodeFpOp ==
    ASSUME NEW w \in Word32, w.opcode = \b1010011
    PROVE  NamedAsExecuted(w) = ~KnownDrift(w)
  <1> DEFINE op == w.funct7 \div 4
  <1>1. op \in 0 .. 31 /\ w.funct3 \in 0 .. 7 /\ w.rs2 \in 0 .. 31
    BY DEF Word32
  <1>2. exec_op(w) = exec_fpop(w) /\ disasm_op(w) = disasm_fpop(w)
    BY DEF exec_op, disasm_op
  <1>3. KnownDrift(w) = (\/ op = 20 /\ w.funct3 # 1
                         \/ op = 4 /\ w.funct3 > 2
                         \/ op = 5 /\ w.funct3 > 1
                         \/ op = 30 /\ ~(w.funct3 = 0 /\ w.rs2 = 0)
                         \/ op \in {24, 26} /\ w.rs2 > 3 /\ w.rs2 % 4 # 3
                         \/ op = 8 /\ (w.rs2 > 3 \/ w.rs2 = Fmt(w)))
    BY DEF KnownDrift, Funct5
  <1>4. CASE op \in {4, 5, 20, 28}
    BY <1>1, <1>2, <1>3, <1>4, SMTT(30) DEF NamedAsExecuted, exec_fpop, disasm_fpop, Entry, Funct5
  <1>5. CASE op \in {24, 26}
    <2>1. w.rs2 % 4 \in 0 .. 3 /\ (w.rs2 < 4 => w.rs2 % 4 = w.rs2)
      BY <1>1
    <2> QED
      BY <1>1, <1>2, <1>3, <1>5, <2>1, SMTT(30) DEF NamedAsExecuted, exec_fpop, disasm_fpop, Entry, Funct5
  <1>6. CASE op \notin {4, 5, 20, 28, 24, 26}
    BY <1>1, <1>2, <1>3, <1>6, SMTT(30) DEF NamedAsExecuted, exec_fpop, disasm_fpop, Funct5
  <1> QED
    BY <1>4, <1>5, <1>6

\* The atomics.
LEMMA DecodeAtomic ==
    ASSUME NEW w \in Word32, w.opcode = \b0101111
    PROVE  NamedAsExecuted(w) = ~KnownDrift(w)
  BY DEF Word32, NamedAsExecuted, KnownDrift, exec_op, disasm_op, exec_atomic, disasm_atomic, Entry, Funct5

\* The branches.
LEMMA DecodeBranch ==
    ASSUME NEW w \in Word32, w.opcode = \b1100011
    PROVE  NamedAsExecuted(w) = ~KnownDrift(w)
  BY DEF Word32, NamedAsExecuted, KnownDrift, exec_op, disasm_op, exec_branch, disasm_branch

\* The system instructions.
LEMMA DecodeSystem ==
    ASSUME NEW w \in Word32, w.opcode = \b1110011
    PROVE  NamedAsExecuted(w) = ~KnownDrift(w)
  BY DEF Word32, NamedAsExecuted, KnownDrift, exec_op, disasm_op, exec_system, disasm_system, exec_sfence, Imm12

\* The fences.
LEMMA DecodeFence ==
    ASSUME NEW w \in Word32, w.opcode = \b0001111
    PROVE  NamedAsExecuted(w) = ~KnownDrift(w)
  BY DEF Word32, NamedAsExecuted, KnownDrift, exec_op, disasm_op, exec_fence, disasm_fence, Entry

\* The words with a one-operation opcode, and the opcodes of neither decoder.
LEMMA DecodeOther ==
    ASSUME NEW w \in Word32,
           w.opcode \notin {\b0110011, \b0010011, \b0000011, \b0100011, \b0000111, \b0100111, \b1010011, \b0101111, \b1100011, \b1110011, \b0001111}
    PROVE  NamedAsExecuted(w) = ~KnownDrift(w)
  BY DEF Word32, NamedAsExecuted, KnownDrift, exec_op, disasm_op

\* Every encoding, with every register and every funct7.
LEMMA DecodersAgreeOn ==
    ASSUME NEW w \in Word32
    PROVE  NamedAsExecuted(w) = ~KnownDrift(w)
  BY DecodeRegister, DecodeImmediate, DecodeLoad, DecodeStore, DecodeFpLoad, DecodeFpStore,
     DecodeFpOp, DecodeAtomic, DecodeBranch, DecodeSystem, DecodeFence, DecodeOther

\* The words DecodersAgree looks at are words.
LEMMA WordLikeType ==
    ASSUME NEW w \in Word32, NEW f7 \in 0 .. 127, NEW r2 \in 0 .. 9, NEW r1 \in {0, 1},
           NEW d \in {0, 1}
    PROVE  WordLike(w, f7, r2, r1, d) \in Word32
  <1>1. r2 \in 0 .. 31 /\ r1 \in 0 .. 31 /\ d \in 0 .. 31
    OBVIOUS
  <1> QED
    BY <1>1, ZenonT(40) DEF Word32, WordLike

-----------------------------------------------------------------------------
\* The machine as a record: what an update of one field leaves alone.

Frame == {"h", "gpr", "mem", "trig", "misa_c", "prev_pc", "running", "fpr", "fflags", "frm",
          "fs_off", "fmem"}
SameBut(x, r, changed) == \A f \in Frame \ changed : r[f] = x[f]

\* A new hart.
LEMMA SetHart ==
    ASSUME NEW x \in MachineState, NEW hart \in HartState
    PROVE  LET r == [x EXCEPT !.h = hart]
           IN  r \in MachineState /\ r.h = hart /\ SameBut(x, r, {"h"})
  BY DEF MachineState, SameBut, Frame

\* An integer register.
LEMMA RegWrite ==
    ASSUME NEW x \in MachineState, NEW id \in 0 .. 31, NEW d \in Word
    PROVE  LET r == reg_write(x, id, d)
           IN  /\ r \in MachineState
               /\ SameBut(x, r, {"gpr"})
               /\ r.gpr = IF id = 0 THEN x.gpr ELSE [x.gpr EXCEPT ![id] = d]
  <1>1. id # 0 => [x.gpr EXCEPT ![id] = d] \in [1 .. 31 -> Word]
    BY DEF MachineState
  <1> QED
    BY <1>1 DEF MachineState, SameBut, Frame, reg_write

\* What an integer register holds.
LEMMA RegRead ==
    ASSUME NEW x \in MachineState, NEW id \in 0 .. 31
    PROVE  reg_read(x, id) \in Word
  <1>1. x.gpr \in [1 .. 31 -> Word] /\ (id # 0 => id \in 1 .. 31)
    BY DEF MachineState
  <1> QED
    BY <1>1, WordFacts DEF reg_read

-----------------------------------------------------------------------------
\* The results of the integer operations are words.

\* The equation of the sum in FromBits.
IsBitSum(bits, top, f) ==
    f = [n \in 0 .. top |->
           IF n = 0 THEN 0 ELSE f[n - 1] + (IF n - 1 \in bits THEN 2 ^ (n - 1) ELSE 0)]

\* It has a solution, ...
LEMMA BitSumExists ==
    ASSUME NEW bits
    PROVE  \A top \in Nat : \E f : IsBitSum(bits, top, f)
  <1> DEFINE T == {top \in Nat : \E f : IsBitSum(bits, top, f)}
             One(n) == IF n - 1 \in bits THEN 2 ^ (n - 1) ELSE 0
  <1>1. 0 \in T
    <2> DEFINE g == [n \in 0 .. 0 |-> 0]
    <2>1. IsBitSum(bits, 0, g)
      BY DEF IsBitSum
    <2> QED
      BY <2>1
  <1>2. ASSUME NEW top \in Nat, top \in T PROVE top + 1 \in T
    <2>1. PICK f : IsBitSum(bits, top, f)
      BY <1>2
    <2> DEFINE g == [n \in 0 .. top + 1 |-> IF n <= top THEN f[n] ELSE f[top] + One(n)]
    <2>2. \A n \in 0 .. top : f[n] = IF n = 0 THEN 0 ELSE f[n - 1] + One(n)
      BY <2>1 DEF IsBitSum
    <2> HIDE DEF One
    <2>3. ASSUME NEW n \in 0 .. top + 1
          PROVE  g[n] = IF n = 0 THEN 0 ELSE g[n - 1] + One(n)
      <3>1. CASE n \in 0 .. top
        BY <2>2, <3>1
      <3>2. CASE n = top + 1
        BY <3>2
      <3> QED
        BY <3>1, <3>2
    <2>4. g = [n \in 0 .. top + 1 |-> IF n = 0 THEN 0 ELSE g[n - 1] + One(n)]
      BY <2>3
    <2> HIDE DEF g
    <2>5. IsBitSum(bits, top + 1, g)
      BY <2>4 DEF IsBitSum, One
    <2> QED
      BY <2>5
  <1> HIDE DEF T
  <1>3. \A n \in Nat : n \in T
    BY <1>1, <1>2, NatInductive
  <1> QED
    BY <1>3 DEF T

\* ... which is a word.
LEMMA FromBitsType ==
    ASSUME NEW bits
    PROVE  FromBits(bits) \in Word
  <1>1. \E f : IsBitSum(bits, XLen, f)
    BY BitSumExists, Widths
  <1>2. PICK f : IsBitSum(bits, XLen, f) /\ FromBits(bits) = f[XLen]
    BY <1>1 DEF FromBits, IsBitSum
  <1>3. \A n \in 0 .. XLen :
           f[n] = IF n = 0 THEN 0 ELSE f[n - 1] + (IF n - 1 \in bits THEN 2 ^ (n - 1) ELSE 0)
    BY <1>2 DEF IsBitSum
  <1> DEFINE T == {n \in Nat : n <= XLen => f[n] \in Nat /\ f[n] < 2 ^ n}
  <1>4. 0 \in T
    BY <1>3, PowersOfTwo, Widths
  <1>5. ASSUME NEW n \in Nat, n \in T, n + 1 <= XLen
        PROVE  f[n + 1] \in Nat /\ f[n + 1] < 2 ^ (n + 1)
    <2>1. f[n] \in Nat /\ f[n] < 2 ^ n /\ 2 ^ n \in Nat
      BY <1>5, PowType, Widths
    <2>2. 2 ^ (n + 1) = 2 * 2 ^ n
      BY <1>5, PowersOfTwo, Widths
    <2>3. n + 1 \in 0 .. XLen /\ n + 1 # 0 /\ (n + 1) - 1 = n
      BY <1>5, Widths
    <2>4. f[n + 1] = f[n] + (IF n \in bits THEN 2 ^ n ELSE 0)
      BY <1>3, <2>3
    <2> QED
      BY <2>1, <2>2, <2>4
  <1> HIDE DEF T
  <1>6. \A n \in Nat : n \in T => n + 1 \in T
    BY <1>5 DEF T
  <1>7. XLen \in T
    BY <1>4, <1>6, NatInductive, Widths
  <1> QED
    BY <1>2, <1>7, WordSize DEF T, Word, WordMod

\* A shift amount and its power of two.
LEMMA ShiftAmount ==
    ASSUME NEW v \in Word
    PROVE  2 ^ (v % XLen) \in Nat /\ 2 ^ (v % XLen) >= 1
  <1>1. v % XLen \in 0 .. XLen - 1
    BY WordFacts, Widths
  <1> QED
    BY <1>1, PowType, Widths

\* A quotient is no larger than the dividend.
LEMMA QuotientBound ==
    ASSUME NEW a \in Nat, NEW b \in Nat, b >= 1
    PROVE  a \div b \in Nat /\ a \div b <= a
  <1>1. a \div b \in Int /\ a % b \in Nat /\ a % b < b /\ a = b * (a \div b) + (a % b)
    OBVIOUS
  <1> DEFINE q == a \div b
             r == a % b
  <1>2. q \in Int /\ r \in Nat /\ r < b /\ a = b * q + r
    BY <1>1
  <1> HIDE DEF q, r
  <1>3. q >= 0
    <2> SUFFICES ASSUME q <= -1 PROVE FALSE
      BY <1>2
    <2>1. b * q <= b * (-1)
      BY <1>2
    <2> QED
      BY <1>2, <2>1
  <1>4. b * q >= q
    BY <1>2, <1>3
  <1> QED
    BY <1>2, <1>3, <1>4 DEF q

\* The signed reading of a word.
LEMMA SignedType ==
    ASSUME NEW v \in Word
    PROVE  Signed(v) \in Int
  BY WordSize, WordFacts DEF Signed

\* The base operations.
LEMMA RegisterOpType ==
    ASSUME NEW op \in RegisterOps, NEW v1 \in Word, NEW v2 \in Word
    PROVE  insi_r(op, v1, v2) \in Word
  <1> DEFINE p == 2 ^ (v2 % XLen)
  <1>1. p \in Nat /\ p >= 1
    BY ShiftAmount
  <1>2. v1 \in Nat /\ v2 \in Nat /\ Signed(v1) \in Int
    BY WordFacts, SignedType
  <1>3. insi_r(op, v1, v2) =
          CASE op = "add" -> ToWord(v1 + v2)
            [] op = "sub" -> ToWord(v1 - v2)
            [] op = "xor" -> FromBits((Bits(v1) \union Bits(v2)) \ (Bits(v1) \intersect Bits(v2)))
            [] op = "or" -> FromBits(Bits(v1) \union Bits(v2))
            [] op = "and" -> FromBits(Bits(v1) \intersect Bits(v2))
            [] op = "sll" -> ToWord(v1 * p)
            [] op = "srl" -> v1 \div p
            [] op = "sra" -> ToWord(Signed(v1) \div p)
            [] op = "slt" -> Bit(Signed(v1) < Signed(v2))
            [] op = "sltu" -> Bit(v1 < v2)
    BY DEF insi_r
  <1> HIDE DEF p
  <1>4. v1 * p \in Int /\ Signed(v1) \div p \in Int
    BY <1>1, <1>2
  <1>5. v1 \div p \in Word
    <2>1. v1 \div p \in Nat /\ v1 \div p <= v1
      BY <1>1, <1>2, QuotientBound
    <2>2. ASSUME NEW q \in Nat, q <= v1 PROVE q \in Word
      BY <2>2, WordSize DEF Word
    <2> QED
      BY <2>1, <2>2
  <1>6. Bit(Signed(v1) < Signed(v2)) \in Word /\ Bit(v1 < v2) \in Word
    <2>1. Bit(Signed(v1) < Signed(v2)) \in {0, 1} /\ Bit(v1 < v2) \in {0, 1}
      BY <1>2, SignedType DEF Bit
    <2> QED
      BY <2>1, WordFacts
  <1> QED
    BY <1>2, <1>3, <1>4, <1>5, <1>6, FromBitsType, WordFacts DEF RegisterOps

\* The immediate forms.
LEMMA ImmediateOpType ==
    ASSUME NEW op \in ImmediateOps, NEW v1 \in Word, NEW imm \in Word
    PROVE  insi_i(op, v1, imm) \in Word
  <1>1. ImmediateForm[op] \in RegisterOps
    BY DEF ImmediateOps, ImmediateForm, RegisterOps
  <1> QED
    BY <1>1, RegisterOpType DEF insi_i

\* C's division gives an integer whenever the divisor is not zero.
LEMMA CDivType ==
    ASSUME NEW a \in Int, NEW b \in Int, b # 0
    PROVE  CDiv(a, b) \in Int /\ CRem(a, b) \in Int
  <1>1. Magnitude(a) \in Nat /\ Magnitude(b) \in Nat /\ Magnitude(b) >= 1
    BY DEF Magnitude
  <1>2. Magnitude(a) \div Magnitude(b) \in Int
    BY <1>1
  <1>3. CDiv(a, b) \in Int
    BY <1>2 DEF CDiv
  <1> QED
    BY <1>3 DEF CRem

\* A word that is not 0 is not 0 when it is read as signed.
LEMMA SignedZero ==
    ASSUME NEW v \in Word
    PROVE  Signed(v) = 0 <=> v = 0
  BY WordSize, WordFacts DEF Signed, Word

\* The M extension.
LEMMA MulDivOpType ==
    ASSUME NEW op \in MulDivOps, NEW v1 \in Word, NEW v2 \in Word
    PROVE  insm_r(op, v1, v2) \in Word
  <1>1. v1 \in Nat /\ v2 \in Nat /\ Signed(v1) \in Int /\ Signed(v2) \in Int
    BY WordFacts, SignedType
  <1>2. \A n \in Int : High(n) \in Word
    <2> TAKE n \in Int
    <2>1. n \div WordMod \in Int
      BY WordSize
    <2> QED
      BY <2>1, WordFacts DEF High
  <1>3. Signed(v1) * Signed(v2) \in Int /\ Signed(v1) * v2 \in Int /\ v1 * v2 \in Int
    BY <1>1
  <1>4. op \in {"mul", "mulh", "mulsu", "mulu"} => insm_r(op, v1, v2) \in Word
    BY <1>2, <1>3, WordFacts DEF insm_r, insm_r_mul, insm_r_mulh, insm_r_mulsu, insm_r_mulu
  <1>5. MaxWord \in Word /\ IntMin \in Int
    BY WordSize DEF MaxWord, Word, IntMin
  <1>6. v2 # 0 => CDiv(Signed(v1), Signed(v2)) \in Int /\ CRem(Signed(v1), Signed(v2)) \in Int
    BY <1>1, CDivType, SignedZero
  <1>7. insm_r_div(v1, v2) \in Word /\ insm_r_rem(v1, v2) \in Word
    BY <1>5, <1>6, WordFacts DEF insm_r_div, insm_r_rem
  <1>8. ASSUME v2 # 0 PROVE v1 \div v2 \in Word /\ v1 % v2 \in Word
    <2>1. v1 \div v2 \in Nat /\ v1 \div v2 <= v1
      BY <1>1, <1>8, QuotientBound
    <2>2. v1 % v2 \in Nat /\ v1 % v2 < v2
      BY <1>1, <1>8
    <2>3. ASSUME NEW q \in Nat, q <= v1 \/ q <= v2 PROVE q \in Word
      BY <2>3, WordSize DEF Word
    <2> QED
      BY <1>1, <2>1, <2>2, <2>3
  <1>9. insm_r_divu(v1, v2) \in Word /\ insm_r_remu(v1, v2) \in Word
    BY <1>5, <1>8 DEF insm_r_divu, insm_r_remu
  <1> QED
    BY <1>4, <1>7, <1>9 DEF insm_r, MulDivOps

-----------------------------------------------------------------------------
\* Memory.

\* Four bytes to a word.
LEMMA ByteSizes ==
    /\ ByteBits \in Nat /\ 4 * ByteBits = XLen
    /\ ByteMod \in Nat /\ ByteMod >= 1
    /\ 2 ^ (0 * ByteBits) = 1 /\ 2 ^ (1 * ByteBits) = ByteMod
    /\ 2 ^ (2 * ByteBits) = ByteMod * ByteMod
    /\ 2 ^ (3 * ByteBits) = ByteMod * (ByteMod * ByteMod)
    /\ WordMod = ByteMod * (ByteMod * (ByteMod * ByteMod))
  <1>1. ByteBits \in Nat /\ 4 * ByteBits = XLen
    BY XLenAssumption DEF ByteBits
  <1>2. /\ ByteBits \in 0 .. Top + 1 /\ 2 * ByteBits \in Nat /\ 3 * ByteBits \in Nat
        /\ ByteBits + ByteBits <= Top + 1 /\ ByteBits + 2 * ByteBits <= Top + 1
        /\ ByteBits + 3 * ByteBits <= Top + 1
    BY <1>1, Widths
  <1>3. ByteMod \in Nat /\ ByteMod >= 1
    BY <1>2, PowType DEF ByteMod
  <1>4. /\ 0 * ByteBits = 0 /\ 1 * ByteBits = ByteBits /\ 2 * ByteBits = ByteBits + ByteBits
        /\ 3 * ByteBits = ByteBits + 2 * ByteBits /\ 4 * ByteBits = ByteBits + 3 * ByteBits
    BY <1>1
  <1>5. 2 ^ (ByteBits + ByteBits) = ByteMod * ByteMod
    BY <1>1, <1>2, PowAdd DEF ByteMod
  <1>6. 2 ^ (ByteBits + 2 * ByteBits) = ByteMod * 2 ^ (2 * ByteBits)
    BY <1>1, <1>2, PowAdd DEF ByteMod
  <1>7. 2 ^ (ByteBits + 3 * ByteBits) = ByteMod * 2 ^ (3 * ByteBits)
    BY <1>1, <1>2, PowAdd DEF ByteMod
  <1> QED
    BY <1>1, <1>3, <1>4, <1>5, <1>6, <1>7, PowersOfTwo DEF WordMod, ByteMod

\* Four digits make a number below the fourth power of the base.
LEMMA FourDigits ==
    ASSUME NEW p \in Nat, p >= 1, NEW a \in 0 .. p - 1, NEW b \in 0 .. p - 1,
           NEW c \in 0 .. p - 1, NEW d \in 0 .. p - 1
    PROVE  /\ a * 1 \in 0 .. p * (p * (p * p)) - 1
           /\ a * 1 + b * p \in 0 .. p * (p * (p * p)) - 1
           /\ a * 1 + b * p + c * (p * p) + d * (p * (p * p)) \in 0 .. p * (p * (p * p)) - 1
  <1> DEFINE p2 == p * p
             p3 == p * (p * p)
             p4 == p * (p * (p * p))
  <1>1. p2 \in Nat /\ p3 \in Nat /\ p4 \in Nat
    OBVIOUS
  <1>2. p2 >= p /\ p3 >= p2 /\ p4 >= p3
    <2>1. ASSUME NEW n \in Nat PROVE p * n >= n
      OBVIOUS
    <2> QED
      BY <1>1, <2>1
  <1>3. b * p \in Nat /\ b * p <= p2 - p
    <2>1. b * p <= (p - 1) * p
      OBVIOUS
    <2> QED
      BY <2>1
  <1>4. c * p2 \in Nat /\ c * p2 <= p3 - p2
    <2>1. c * p2 <= (p - 1) * p2
      BY <1>1
    <2>2. (p - 1) * p2 = p3 - p2
      OBVIOUS
    <2> QED
      BY <1>1, <2>1, <2>2
  <1>5. d * p3 \in Nat /\ d * p3 <= p4 - p3
    <2>1. d * p3 <= (p - 1) * p3
      BY <1>1
    <2>2. (p - 1) * p3 = p4 - p3
      OBVIOUS
    <2> QED
      BY <1>1, <2>1, <2>2
  <1> DEFINE bp == b * p
             cp == c * p2
             dp == d * p3
  <1>6. bp \in Nat /\ bp <= p2 - p /\ cp \in Nat /\ cp <= p3 - p2 /\ dp \in Nat /\ dp <= p4 - p3
    BY <1>3, <1>4, <1>5
  <1>7. a * 1 = a
    OBVIOUS
  <1> HIDE DEF p2, p3, p4, bp, cp, dp
  <1>8. a \in 0 .. p4 - 1 /\ a + bp \in 0 .. p4 - 1 /\ a + bp + cp + dp \in 0 .. p4 - 1
    BY <1>1, <1>2, <1>6
  <1> QED
    BY <1>7, <1>8 DEF p2, p3, p4, bp, cp, dp

\* What a read of memory returns is a word.
LEMMA ReadBytesType ==
    ASSUME NEW x \in MachineState, NEW addr \in Word, NEW n \in {1, 2, 4}
    PROVE  ReadBytes(x, addr, n) \in Word
  <1>1. CASE addr + n > MemSize
    BY <1>1, WordFacts DEF ReadBytes
  <1>2. CASE ~(addr + n > MemSize)
    <2> DEFINE B(k) == x.mem[addr + k]
    <2>1. x.mem \in [0 .. MemSize - 1 -> Byte] /\ MemSize \in Nat /\ addr \in Nat
      BY MemSizeAssumption, WordFacts DEF MachineState
    <2>2. ASSUME NEW k \in 0 .. n - 1 PROVE B(k) \in 0 .. ByteMod - 1
      <3>1. addr + k \in 0 .. MemSize - 1
        BY <1>2, <2>1
      <3> QED
        BY <2>1, <3>1 DEF Byte
    <2>3. ReadBytes(x, addr, n) =
            CASE n = 1 -> B(0) * 1
              [] n = 2 -> B(0) * 1 + B(1) * ByteMod
              [] n = 4 -> B(0) * 1 + B(1) * ByteMod + B(2) * (ByteMod * ByteMod)
                            + B(3) * (ByteMod * (ByteMod * ByteMod))
      BY <1>2, ByteSizes DEF ReadBytes
    <2> HIDE DEF B
    <2>4. ByteMod \in Nat /\ ByteMod >= 1 /\ 0 \in 0 .. ByteMod - 1
      BY ByteSizes
    <2>5. Word = 0 .. ByteMod * (ByteMod * (ByteMod * ByteMod)) - 1
      BY ByteSizes DEF Word
    <2>6. CASE n = 1
      BY <2>2, <2>3, <2>4, <2>5, <2>6, FourDigits
    <2>7. CASE n = 2
      BY <2>2, <2>3, <2>4, <2>5, <2>7, FourDigits
    <2>8. CASE n = 4
      <3>1. B(0) \in 0 .. ByteMod - 1 /\ B(1) \in 0 .. ByteMod - 1
            /\ B(2) \in 0 .. ByteMod - 1 /\ B(3) \in 0 .. ByteMod - 1
        BY <2>2, <2>8
      <3>2. ReadBytes(x, addr, n) =
              B(0) * 1 + B(1) * ByteMod + B(2) * (ByteMod * ByteMod)
                + B(3) * (ByteMod * (ByteMod * ByteMod))
        BY <2>3, <2>8
      <3>3. B(0) * 1 + B(1) * ByteMod + B(2) * (ByteMod * ByteMod)
              + B(3) * (ByteMod * (ByteMod * ByteMod))
              \in 0 .. ByteMod * (ByteMod * (ByteMod * ByteMod)) - 1
        BY <2>4, <3>1, FourDigits
      <3> QED
        BY <2>5, <3>2, <3>3
    <2> QED
      BY <2>6, <2>7, <2>8
  <1> QED
    BY <1>1, <1>2

\* A write to memory changes nothing else, and bytes stay bytes.
LEMMA WriteBytesOK ==
    ASSUME NEW x \in MachineState, NEW addr \in Word, NEW n \in {1, 2, 4}, NEW val \in Word
    PROVE  LET r == WriteBytes(x, addr, n, val)
           IN  r \in MachineState /\ SameBut(x, r, {"mem"})
  <1> DEFINE new == [a \in DOMAIN x.mem |-> IF a \in addr .. addr + n - 1
                                           THEN (val \div 2 ^ ((a - addr) * ByteBits)) % ByteMod
                                           ELSE x.mem[a]]
  <1>1. x.mem \in [0 .. MemSize - 1 -> Byte] /\ MemSize \in Nat /\ addr \in Nat /\ val \in Nat
    BY MemSizeAssumption, WordFacts DEF MachineState
  <1>2. ASSUME NEW a \in addr .. addr + n - 1
        PROVE  (val \div 2 ^ ((a - addr) * ByteBits)) % ByteMod \in Byte
    <2> DEFINE p == 2 ^ ((a - addr) * ByteBits)
    <2>1. a - addr \in {0, 1, 2, 3}
      BY <1>1, <1>2
    <2>2. (a - addr) * ByteBits \in 0 .. Top + 1
      BY <2>1, ByteSizes, Widths
    <2>3. p \in Nat /\ p >= 1
      BY <2>2, PowType
    <2> HIDE DEF p
    <2>4. val \div p \in Int
      BY <1>1, <2>3
    <2>5. (val \div p) % ByteMod \in Byte
      BY <2>4, ByteSizes DEF Byte
    <2> QED
      BY <2>5 DEF p
  <1>3. new \in [0 .. MemSize - 1 -> Byte]
    BY <1>1, <1>2
  <1>4. WriteBytes(x, addr, n, val) = IF addr + n > MemSize THEN x ELSE [x EXCEPT !.mem = new]
    BY DEF WriteBytes
  <1> HIDE DEF new
  <1> QED
    BY <1>3, <1>4, ZenonT(40) DEF MachineState, SameBut, Frame

\* Sign extension of a value read from memory.
LEMMA SignExtendType ==
    ASSUME NEW v \in Word, NEW bits \in 1 .. Top
    PROVE  sign_extend(v, bits) \in Word
  <1>1. 2 ^ bits \in Nat /\ v \in Nat
    BY PowType, WordFacts, Widths
  <1> QED
    BY <1>1, WordFacts DEF sign_extend

-----------------------------------------------------------------------------
\* Trap entry.

\* Who takes an exception.
ToS(hart, cause) == hart.privilege \in {PRV_USER, PRV_SUPERVISOR} /\ cause \in hart.medeleg
Vector(hart, cause) == IF ToS(hart, cause) THEN hart.stvec ELSE hart.mtvec

\* Address arithmetic stays in the address space, ...
LEMMA AddrPlusType ==
    ASSUME NEW a \in Addr, NEW n \in Int
    PROVE  AddrPlus(a, n) \in Addr
  BY AddrAssumption DEF Addr, AddrPlus

\* ... and the offsets of the handlers and of the run loop cancel.
LEMMA AddrPlusPlus ==
    ASSUME NEW a \in Addr, NEW i \in Int, NEW j \in Int
    PROVE  AddrPlus(AddrPlus(a, i), j) = AddrPlus(a, i + j) /\ AddrPlus(a, 0) = a
  <1>1. a \in Int /\ AddrMod \in Nat /\ AddrMod >= 1
    BY AddrAssumption DEF Addr
  <1>2. (((a + i) % AddrMod) + j) % AddrMod = ((a + i) + j) % AddrMod
    BY <1>1, ModPlus
  <1>3. (a + i) + j = a + (i + j)
    BY <1>1
  <1>4. AddrPlus(a, 0) = a
    BY <1>1 DEF AddrPlus, Addr
  <1> QED
    BY <1>2, <1>3, <1>4 DEF AddrPlus

\* Address 0 .. AddrMod - 1 arithmetic of the machine and of its words is the same.
LEMMA AddrIsWord ==
    /\ Addr = Word
    /\ \A a \in Int : \A n \in Int : AddrPlus(a, n) = ToWord(a + n)
  BY WordSize DEF AddrPlus, ToWord

\* mstatus after a trap.
LEMMA TrapStatus ==
    ASSUME NEW s \in SUBSET MstatusBits, NEW prv \in Privileges
    PROVE  /\ CopyBit(WithMpp(s, prv), "MIE", "MPIE") \ {"MIE"} \in SUBSET MstatusBits
           /\ CopyBit(s \union {"SPP"}, "SIE", "SPIE") \ {"SIE"} \in SUBSET MstatusBits
           /\ CopyBit(s \ {"SPP"}, "SIE", "SPIE") \ {"SIE"} \in SUBSET MstatusBits
  BY DEF CopyBit, WithMpp, MppBits, MstatusBits

TrappedM(hart, s, c, e, t) ==
    [[hart EXCEPT !.mmu_flags = {}] EXCEPT !.mstatus = s, !.mcause = c, !.mepc = e,
                                           !.privilege = PRV_MACHINE, !.just_trapped = 1, !.pc = t]
TrappedS(hart, s, c, e, t) ==
    [[hart EXCEPT !.mmu_flags = {}] EXCEPT !.mstatus = s, !.scause = c, !.sepc = e,
                                           !.privilege = PRV_SUPERVISOR, !.pc = t]

\* The fields a machine trap sets, ...
LEMMA HartTrapM ==
    ASSUME NEW hart \in HartState, NEW s \in SUBSET MstatusBits, NEW c \in Cause,
           NEW e \in Addr, NEW t \in Addr
    PROVE  LET r == TrappedM(hart, s, c, e, t)
           IN  /\ r \in HartState
               /\ r.mcause = c /\ r.mepc = e /\ r.privilege = PRV_MACHINE /\ r.pc = t
               /\ r.scause = hart.scause /\ r.sepc = hart.sepc
  <1>1. PRV_MACHINE \in Privileges
    BY DEF PRV_MACHINE, Privileges
  <1> QED
    BY <1>1 DEF HartState, TrappedM

\* ... and those of a supervisor trap.
LEMMA HartTrapS ==
    ASSUME NEW hart \in HartState, NEW s \in SUBSET MstatusBits, NEW c \in Cause,
           NEW e \in Addr, NEW t \in Addr
    PROVE  LET r == TrappedS(hart, s, c, e, t)
           IN  /\ r \in HartState
               /\ r.scause = c /\ r.sepc = e /\ r.privilege = PRV_SUPERVISOR /\ r.pc = t
               /\ r.mcause = hart.mcause /\ r.mepc = hart.mepc
  <1>1. PRV_SUPERVISOR \in Privileges
    BY DEF PRV_SUPERVISOR, Privileges
  <1> QED
    BY <1>1 DEF HartState, TrappedS

\* What raise_exception_pc leaves behind.
TakenTrap(hart, r, cause, epc) ==
    /\ r.privilege = IF ToS(hart, cause) THEN PRV_SUPERVISOR ELSE PRV_MACHINE
    /\ r.pc = ExceptionTarget(Vector(hart, cause))
    /\ r.scause = IF ToS(hart, cause) THEN Exc(cause) ELSE hart.scause
    /\ r.sepc = IF ToS(hart, cause) THEN epc ELSE hart.sepc
    /\ r.mcause = IF ToS(hart, cause) THEN hart.mcause ELSE Exc(cause)
    /\ r.mepc = IF ToS(hart, cause) THEN hart.mepc ELSE epc

\* An exception is taken by the mode medeleg names, once.
LEMMA RaiseExceptionPc ==
    ASSUME NEW hart \in HartState, NEW cause \in Nat, NEW epc \in Addr
    PROVE  /\ raise_exception_pc(hart, cause, epc) \in HartState
           /\ TakenTrap(hart, raise_exception_pc(hart, cause, epc), cause, epc)
  <1> DEFINE r == raise_exception_pc(hart, cause, epc)
             g == [hart EXCEPT !.mmu_flags = {}]
  <1>1. Exc(cause) \in Cause
    BY DEF Exc, Cause
  <1>2. hart.stvec.base \in Addr /\ hart.mtvec.base \in Addr
    BY DEF HartState, Tvec
  <1>3. ExceptionTarget(hart.stvec) \in Addr /\ ExceptionTarget(hart.mtvec) \in Addr
    BY <1>2, AddrPlusType DEF ExceptionTarget
  <1>4. hart.mstatus \in SUBSET MstatusBits /\ hart.privilege \in Privileges
    BY DEF HartState
  <1>5. g.mstatus = hart.mstatus /\ g.privilege = hart.privilege
    BY DEF HartState
  <1>6. CASE ToS(hart, cause)
    <2> DEFINE s == IF hart.privilege = PRV_SUPERVISOR
                    THEN CopyBit(hart.mstatus \union {"SPP"}, "SIE", "SPIE") \ {"SIE"}
                    ELSE CopyBit(hart.mstatus \ {"SPP"}, "SIE", "SPIE") \ {"SIE"}
    <2>1. s \in SUBSET MstatusBits
      BY <1>4, TrapStatus
    <2>2. r = TrappedS(hart, s, Exc(cause), epc, ExceptionTarget(hart.stvec))
      BY <1>5, <1>6 DEF raise_exception_pc, Delegated, ClearReservations, TrapToS, ToS, TrappedS
    <2> HIDE DEF s, r
    <2>3. /\ r \in HartState /\ r.scause = Exc(cause) /\ r.sepc = epc
          /\ r.privilege = PRV_SUPERVISOR /\ r.pc = ExceptionTarget(hart.stvec)
          /\ r.mcause = hart.mcause /\ r.mepc = hart.mepc
      BY <1>1, <1>3, <2>1, <2>2, HartTrapS
    <2>4. TakenTrap(hart, r, cause, epc)
      BY <1>6, <2>3 DEF TakenTrap, Vector
    <2> QED
      BY <2>3, <2>4 DEF r
  <1>7. CASE ~ToS(hart, cause)
    <2> DEFINE s == CopyBit(WithMpp(hart.mstatus, hart.privilege), "MIE", "MPIE") \ {"MIE"}
    <2>1. s \in SUBSET MstatusBits
      BY <1>4, TrapStatus
    <2>2. r = TrappedM(hart, s, Exc(cause), epc, ExceptionTarget(hart.mtvec))
      BY <1>5, <1>7 DEF raise_exception_pc, Delegated, ClearReservations, TrapToM, ToS, TrappedM
    <2> HIDE DEF s, r
    <2>3. /\ r \in HartState /\ r.mcause = Exc(cause) /\ r.mepc = epc
          /\ r.privilege = PRV_MACHINE /\ r.pc = ExceptionTarget(hart.mtvec)
          /\ r.scause = hart.scause /\ r.sepc = hart.sepc
      BY <1>1, <1>3, <2>1, <2>2, HartTrapM
    <2>4. TakenTrap(hart, r, cause, epc)
      BY <1>7, <2>3 DEF TakenTrap, Vector
    <2> QED
      BY <2>3, <2>4 DEF r
  <1> QED
    BY <1>6, <1>7

-----------------------------------------------------------------------------
\* Floating-point encodings.

Floats(fmt) == 0 .. 2 ^ FmtWidth(fmt) - 1

\* The fields of a format: the sign bit, the exponents and the fractions.
LEMMA FormatSizes ==
    ASSUME NEW fmt \in Formats
    PROVE  LET E == 2 ^ FmtExp(fmt)
               K == 2 ^ FmtMant(fmt)
           IN  /\ E \in Nat /\ E >= 4 /\ K \in Nat /\ K >= 4
               /\ Float(fmt)!QuietBit \in Nat /\ Float(fmt)!QuietBit >= 1
               /\ K = 2 * Float(fmt)!QuietBit
               /\ Float(fmt)!SignBit = E * K /\ Float(fmt)!ExpMax = E - 1
               /\ 2 ^ FmtWidth(fmt) = 2 * (E * K)
               /\ 2 ^ (FmtWidth(fmt) - 1) = E * K
  <1> DEFINE e == FmtExp(fmt)
             k == FmtMant(fmt)
  <1>1. /\ e \in Nat /\ e >= 2 /\ k \in Nat /\ k >= 2
        /\ FmtWidth(fmt) = 1 + e + k /\ FmtWidth(fmt) <= Top /\ Top \in Nat
    BY Widths
  <1> HIDE DEF e, k
  <1>3. ASSUME NEW n \in Nat, n >= 2, n <= Top
        PROVE  /\ 2 ^ n \in Nat /\ 2 ^ n >= 4
               /\ 2 ^ (n - 1) \in Nat /\ 2 ^ (n - 1) >= 1 /\ 2 ^ n = 2 * 2 ^ (n - 1)
    <2> DEFINE j == n - 2
               i == n - 1
    <2>2. i \in 0 .. Top /\ j \in 0 .. Top /\ i = j + 1 /\ n = i + 1
      BY <1>1, <1>3
    <2> HIDE DEF i, j
    <2>4. 2 ^ (j + 1) = 2 * 2 ^ j /\ 2 ^ (i + 1) = 2 * 2 ^ i
      BY <2>2, WidePowersOfTwo DEF Top
    <2>3. 2 ^ j \in Nat /\ 2 ^ j >= 1 /\ 2 ^ i \in Nat
      BY <1>1, <2>2, PowType
    <2>5. 2 ^ n \in Nat /\ 2 ^ n >= 4 /\ 2 ^ i >= 1 /\ 2 ^ n = 2 * 2 ^ i
      BY <2>2, <2>3, <2>4
    <2> QED
      BY <2>3, <2>5 DEF i
  <1>4. 2 ^ (e + k) = 2 ^ e * 2 ^ k
    BY <1>1, PowAdd
  <1>5. 2 ^ ((e + k) + 1) = 2 * 2 ^ (e + k)
    <2>1. e + k \in 0 .. Top
      BY <1>1
    <2> QED
      BY <2>1, WidePowersOfTwo DEF Top
  <1>6. (e + k) + 1 = FmtWidth(fmt) /\ FmtWidth(fmt) - 1 = e + k
    BY <1>1
  <1>7. /\ Float(fmt)!QuietBit = 2 ^ (k - 1) /\ Float(fmt)!SignBit = 2 ^ (e + k)
        /\ Float(fmt)!ExpMax = 2 ^ e - 1
    BY DEF Float!QuietBit, Float!SignBit, Float!ExpMax, e, k
  <1> QED
    BY <1>1, <1>3, <1>4, <1>5, <1>6, <1>7 DEF e, k

\* Two digits below the bases b and c, and a third of one bit.
LEMMA ThreeFields ==
    ASSUME NEW b \in Nat, b >= 1, NEW c \in Nat, c >= 1,
           NEW s \in {0, 1}, NEW e \in 0 .. c - 1, NEW f \in 0 .. b - 1
    PROVE  /\ b * e + f \in 0 .. c * b - 1
           /\ s * (c * b) + e * b + f \in 0 .. 2 * (c * b) - 1
           /\ s * (c * b) + e * b + f = (c * b) * s + (b * e + f)
           /\ s * (c * b) + e * b + f = b * (c * s + e) + f
  <1>1. b * e \in Nat /\ b * e <= c * b - b
    <2>1. e * b <= (c - 1) * b
      OBVIOUS
    <2>2. (c - 1) * b = c * b - b /\ e * b = b * e /\ b * e \in Nat
      OBVIOUS
    <2> QED
      BY <2>1, <2>2
  <1>2. c * b \in Nat
    OBVIOUS
  <1>3. b * e + f \in 0 .. c * b - 1
    BY <1>1, <1>2
  <1>4. CASE s = 0
    BY <1>1, <1>2, <1>3, <1>4
  <1>5. CASE s = 1
    BY <1>1, <1>2, <1>3, <1>5
  <1> QED
    BY <1>3, <1>4, <1>5

\* An encoding made of a sign, an exponent and a fraction.
LEMMA EncodeType ==
    ASSUME NEW fmt \in Formats, NEW s \in {0, 1}, NEW e \in 0 .. 2 ^ FmtExp(fmt) - 1,
           NEW f \in 0 .. 2 ^ FmtMant(fmt) - 1
    PROVE  Float(fmt)!Encode(s, e, f) \in Floats(fmt)
  <1> DEFINE E == 2 ^ FmtExp(fmt)
             K == 2 ^ FmtMant(fmt)
  <1>1. /\ E \in Nat /\ E >= 1 /\ K \in Nat /\ K >= 1
        /\ Float(fmt)!SignBit = E * K /\ 2 ^ FmtWidth(fmt) = 2 * (E * K)
    BY FormatSizes
  <1>2. Float(fmt)!Encode(s, e, f) = s * (E * K) + e * K + f
    BY <1>1 DEF Float!Encode
  <1>3. e \in 0 .. E - 1 /\ f \in 0 .. K - 1
    OBVIOUS
  <1> HIDE DEF E, K
  <1>4. s * (E * K) + e * K + f \in 0 .. 2 * (E * K) - 1
    BY <1>1, <1>3, ThreeFields
  <1> QED
    BY <1>1, <1>2, <1>4 DEF Floats

\* Every encoding is made of its fields.
LEMMA FieldsOf ==
    ASSUME NEW fmt \in Formats, NEW v \in Floats(fmt)
    PROVE  /\ Float(fmt)!sign(v) \in {0, 1}
           /\ Float(fmt)!exp(v) \in 0 .. 2 ^ FmtExp(fmt) - 1
           /\ Float(fmt)!mant(v) \in 0 .. 2 ^ FmtMant(fmt) - 1
           /\ v = Float(fmt)!Encode(Float(fmt)!sign(v), Float(fmt)!exp(v), Float(fmt)!mant(v))
           /\ v % Float(fmt)!SignBit
                = 2 ^ FmtMant(fmt) * Float(fmt)!exp(v) + Float(fmt)!mant(v)
           /\ Float(fmt)!sign(v) = 1 <=> v >= Float(fmt)!SignBit
  <1> DEFINE E == 2 ^ FmtExp(fmt)
             K == 2 ^ FmtMant(fmt)
             q == v \div K
             f == v % K
             s == q \div E
             e == q % E
  <1>1. /\ E \in Nat /\ E >= 1 /\ K \in Nat /\ K >= 1
        /\ Float(fmt)!SignBit = E * K /\ 2 ^ FmtWidth(fmt) = 2 * (E * K)
    BY FormatSizes
  <1>2. v \in Nat /\ v < 2 * (E * K)
    BY <1>1 DEF Floats
  <1>3. Float(fmt)!mant(v) = f /\ Float(fmt)!exp(v) = e /\ Float(fmt)!sign(v) = v \div (E * K)
    BY <1>1 DEF Float!mant, Float!exp, Float!sign
  <1> HIDE DEF E, K
  <1>4. v = K * q + f /\ q \in Int /\ f \in 0 .. K - 1
    <2>1. v \in Int
      BY <1>2
    <2> HIDE <1>2
    <2> QED
      BY <1>1, <2>1, DivMod
  <1>5. q = E * s + e /\ s \in Int /\ e \in 0 .. E - 1
    BY <1>1, <1>4, DivMod
  <1> HIDE DEF q, f, s, e
  <1>6. K * e + f \in 0 .. E * K - 1
    <2>1. 0 \in {0, 1}
      OBVIOUS
    <2> QED
      BY <1>1, <1>4, <1>5, <2>1, ThreeFields
  <1>7. v = (E * K) * s + (K * e + f) /\ E * K \in Nat /\ E * K >= 1
    <2>1. v = K * (E * s + e) + f
      BY <1>4, <1>5
    <2>2. K * (E * s + e) = (E * K) * s + K * e
      BY <1>1, <1>4, <1>5
    <2>3. E * K \in Nat /\ E * K >= 1
      BY <1>1
    <2> QED
      BY <1>1, <1>4, <1>5, <2>1, <2>2, <2>3
  <1>8. v \div (E * K) = s /\ v % (E * K) = K * e + f
    BY <1>5, <1>6, <1>7, DivModUnique
  <1> DEFINE B == E * K
             low == K * e + f
  <1>9. B \in Nat /\ B >= 1 /\ low \in 0 .. B - 1 /\ v = B * s + low /\ v \in Nat /\ v < 2 * B /\ s \in Int
    BY <1>2, <1>5, <1>6, <1>7
  <1>10. s \in {0, 1} /\ (s = 1 <=> v >= B)
    <2> HIDE DEF B, low
    <2>1. ASSUME s <= -1 PROVE FALSE
      <3>1. B * s <= B * (-1)
        BY <1>9, <2>1
      <3> QED
        BY <1>9, <3>1
    <2>2. ASSUME s >= 2 PROVE FALSE
      <3>1. B * s >= B * 2
        BY <1>9, <2>2
      <3> QED
        BY <1>9, <3>1
    <2>3. s = 0 \/ s = 1
      BY <1>9, <2>1, <2>2
    <2> QED
      BY <1>9, <2>3
  <1>11. Float(fmt)!Encode(s, e, f) = s * (E * K) + e * K + f
    BY <1>1 DEF Float!Encode, K
  <1>12. s * (E * K) + e * K + f = (E * K) * s + (K * e + f)
    BY <1>1, <1>4, <1>5, <1>10, ThreeFields
  <1> QED
    BY <1>1, <1>3, <1>4, <1>5, <1>7, <1>8, <1>10, <1>11, <1>12 DEF E, K


-----------------------------------------------------------------------------
\* The handlers: the machine each leaves behind, and whether it trapped.

NoTrap(x, r) == r.h.mcause = x.h.mcause /\ r.h.scause = x.h.scause
Trapped(x, r, cause, epc) == SameBut(x, r, {"h"}) /\ TakenTrap(x.h, r.h, cause, epc)
FpuSame(x, r) == r.fpr = x.fpr /\ r.fflags = x.fflags /\ r.frm = x.frm
Outcome(x, r, due, epc) ==
    /\ r \in MachineState /\ FpuSame(x, r)
    /\ IF due = -1 THEN NoTrap(x, r) ELSE Trapped(x, r, due, epc)

\* The pc, the privilege and the trap CSRs of a machine.
LEMMA HartOf ==
    ASSUME NEW x \in MachineState
    PROVE  /\ x.h \in HartState /\ x.h.pc \in Addr /\ x.prev_pc \in Addr
           /\ x.h.privilege \in Privileges /\ x.h.mstatus \in SUBSET MstatusBits
           /\ x.h.mepc \in Addr /\ x.h.sepc \in Addr
  BY DEF MachineState, HartState

\* A handler that keeps the hart takes no trap.
LEMMA KeptHart ==
    ASSUME NEW x, NEW r, NEW changed, "h" \notin changed, SameBut(x, r, changed)
    PROVE  r.h = x.h /\ NoTrap(x, r)
  BY DEF SameBut, Frame, NoTrap

\* Nor does it touch the floating-point unit, unless it says so.
LEMMA KeptFpu ==
    ASSUME NEW x, NEW r, NEW changed, changed \subseteq {"h", "gpr", "mem", "fmem", "running"},
           SameBut(x, r, changed)
    PROVE  FpuSame(x, r)
  BY DEF SameBut, Frame, FpuSame

\* A trap changes the hart and nothing else.
LEMMA RaisePc ==
    ASSUME NEW x \in MachineState, NEW cause \in Nat, NEW epc \in Addr
    PROVE  LET r == [x EXCEPT !.h = raise_exception_pc(@, cause, epc)]
           IN  r \in MachineState /\ Trapped(x, r, cause, epc)
  <1> DEFINE hart == raise_exception_pc(x.h, cause, epc)
  <1>1. hart \in HartState /\ TakenTrap(x.h, hart, cause, epc)
    BY HartOf, RaiseExceptionPc
  <1> HIDE DEF hart
  <1>2. LET r == [x EXCEPT !.h = hart]
        IN  r \in MachineState /\ r.h = hart /\ SameBut(x, r, {"h"})
    BY <1>1, SetHart
  <1>3. LET r == [x EXCEPT !.h = hart] IN r \in MachineState /\ Trapped(x, r, cause, epc)
    BY <1>1, <1>2 DEF Trapped
  <1> QED
    BY <1>3 DEF hart

\* raise_exception reports the pc of the instruction.
LEMMA RaiseHere ==
    ASSUME NEW x \in MachineState, NEW cause \in Nat
    PROVE  /\ Raise(x, cause) \in MachineState /\ Trapped(x, Raise(x, cause), cause, x.h.pc)
           /\ Outcome(x, Raise(x, cause), cause, x.h.pc)
  <1>1. Raise(x, cause) = [x EXCEPT !.h = raise_exception_pc(@, cause, x.h.pc)]
    BY DEF Raise, raise_exception
  <1>2. Raise(x, cause) \in MachineState /\ Trapped(x, Raise(x, cause), cause, x.h.pc)
    BY <1>1, HartOf, RaisePc
  <1>3. FpuSame(x, Raise(x, cause)) /\ cause # -1
    BY <1>2, KeptFpu DEF Trapped
  <1> QED
    BY <1>2, <1>3 DEF Outcome

\* The causes are numbers, none of them -1.
LEMMA Causes ==
    /\ CAUSE_BREAKPOINT \in Nat /\ CAUSE_ILLEGAL_INSTRUCTION \in Nat
    /\ CAUSE_MISALIGNED_FETCH \in Nat /\ CAUSE_MISALIGNED_LOAD \in Nat
    /\ CAUSE_MISALIGNED_STORE \in Nat
    /\ \A prv \in Privileges : EcallCause(prv) \in Nat
    /\ \A n \in Nat : n # -1
  BY DEF CAUSE_BREAKPOINT, CAUSE_ILLEGAL_INSTRUCTION, CAUSE_MISALIGNED_FETCH,
         CAUSE_MISALIGNED_LOAD, CAUSE_MISALIGNED_STORE, EcallCause, Privileges, CAUSE_USER_ECALL

\* A sum of two words is taken modulo the word size.
LEMMA SumType ==
    ASSUME NEW a \in Word, NEW b \in Word
    PROVE  ToWord(a + b) \in Word
  <1>1. a + b \in Int
    BY WordFacts
  <1> QED
    BY <1>1, WordFacts

LoadDue(x, op, addr) ==
    IF sdtrig_check(x.trig, x.h.privilege, addr, "load") THEN CAUSE_BREAKPOINT
    ELSE IF addr % LoadBytes[op] # 0 THEN CAUSE_MISALIGNED_LOAD ELSE -1

StoreDue(x, op, addr) ==
    IF sdtrig_check(x.trig, x.h.privilege, addr, "store") THEN CAUSE_BREAKPOINT
    ELSE IF addr % StoreBytes[op] # 0 THEN CAUSE_MISALIGNED_STORE ELSE -1

\* A load traps before it writes rd, or writes rd only.
LEMMA LoadOutcome ==
    ASSUME NEW x \in MachineState, NEW op \in LoadOps, NEW imm \in Word,
           NEW rs1 \in 0 .. 31, NEW rd \in 0 .. 31
    PROVE  LET due == LoadDue(x, op, ToWord(reg_read(x, rs1) + imm))
               r == insi_i_load(x, op, imm, rs1, rd)
           IN  /\ r \in MachineState
               /\ IF due = -1 THEN SameBut(x, r, {"gpr"}) ELSE Trapped(x, r, due, x.h.pc)
  <1> DEFINE addr == ToWord(reg_read(x, rs1) + imm)
             n == LoadBytes[op]
             v == ReadBytes(x, addr, n)
             d == IF op \in {"lb", "lh"} THEN sign_extend(v, n * ByteBits) ELSE v
             r == insi_i_load(x, op, imm, rs1, rd)
             due == LoadDue(x, op, addr)
  <1>1. addr \in Word
    BY RegRead, SumType
  <1>2. n \in {1, 2, 4}
    BY DEF LoadOps, LoadBytes
  <1>3. v \in Word
    BY <1>1, <1>2, ReadBytesType
  <1>4. n * ByteBits \in 1 .. Top
    BY <1>2, ByteSizes, Widths
  <1>5. d \in Word
    BY <1>3, <1>4, SignExtendType
  <1>6. r = IF sdtrig_check(x.trig, x.h.privilege, addr, "load") THEN Raise(x, CAUSE_BREAKPOINT)
            ELSE IF addr % n # 0 THEN Raise(x, CAUSE_MISALIGNED_LOAD) ELSE reg_write(x, rd, d)
    BY DEF insi_i_load
  <1>7. due = IF sdtrig_check(x.trig, x.h.privilege, addr, "load") THEN CAUSE_BREAKPOINT
              ELSE IF addr % n # 0 THEN CAUSE_MISALIGNED_LOAD ELSE -1
    BY DEF LoadDue
  <1> HIDE DEF addr, n, v, d, r, due
  <1>8. reg_write(x, rd, d) \in MachineState /\ SameBut(x, reg_write(x, rd, d), {"gpr"})
    BY <1>5, RegWrite
  <1>9. r \in MachineState /\ IF due = -1 THEN SameBut(x, r, {"gpr"}) ELSE Trapped(x, r, due, x.h.pc)
    BY <1>6, <1>7, <1>8, RaiseHere, Causes
  <1> QED
    BY <1>9 DEF addr, r, due

\* A store traps before it writes memory, or writes memory only.
LEMMA StoreOutcome ==
    ASSUME NEW x \in MachineState, NEW op \in StoreOps, NEW imm \in Word,
           NEW rs1 \in 0 .. 31, NEW rs2 \in 0 .. 31
    PROVE  LET due == StoreDue(x, op, ToWord(reg_read(x, rs1) + imm))
               r == insi_s_store(x, op, imm, rs2, rs1)
           IN  /\ r \in MachineState
               /\ IF due = -1 THEN SameBut(x, r, {"mem"}) ELSE Trapped(x, r, due, x.h.pc)
  <1> DEFINE addr == ToWord(reg_read(x, rs1) + imm)
             n == StoreBytes[op]
             v == reg_read(x, rs2)
             r == insi_s_store(x, op, imm, rs2, rs1)
             due == StoreDue(x, op, addr)
  <1>1. addr \in Word /\ v \in Word
    BY RegRead, SumType
  <1>2. n \in {1, 2, 4}
    BY DEF StoreOps, StoreBytes
  <1>3. r = IF sdtrig_check(x.trig, x.h.privilege, addr, "store") THEN Raise(x, CAUSE_BREAKPOINT)
            ELSE IF addr % n # 0 THEN Raise(x, CAUSE_MISALIGNED_STORE)
            ELSE WriteBytes(x, addr, n, v)
    BY DEF insi_s_store
  <1>4. due = IF sdtrig_check(x.trig, x.h.privilege, addr, "store") THEN CAUSE_BREAKPOINT
              ELSE IF addr % n # 0 THEN CAUSE_MISALIGNED_STORE ELSE -1
    BY DEF StoreDue
  <1> HIDE DEF addr, n, v, r, due
  <1>5. WriteBytes(x, addr, n, v) \in MachineState /\ SameBut(x, WriteBytes(x, addr, n, v), {"mem"})
    BY <1>1, <1>2, WriteBytesOK
  <1>6. r \in MachineState /\ IF due = -1 THEN SameBut(x, r, {"mem"}) ELSE Trapped(x, r, due, x.h.pc)
    BY <1>3, <1>4, <1>5, RaiseHere, Causes
  <1> QED
    BY <1>6 DEF addr, r, due


\* A new pc.
LEMMA SetPc ==
    ASSUME NEW x \in MachineState, NEW t \in Addr
    PROVE  LET r == [x EXCEPT !.h.pc = t]
           IN  r \in MachineState /\ r.h.pc = t /\ SameBut(x, r, {"h"}) /\ NoTrap(x, r)
  <1> DEFINE hart == [x.h EXCEPT !.pc = t]
  <1>1. x.h \in HartState
    BY HartOf
  <1>2. hart \in HartState /\ hart.pc = t /\ hart.mcause = x.h.mcause /\ hart.scause = x.h.scause
    BY <1>1 DEF HartState
  <1>3. [x EXCEPT !.h.pc = t] = [x EXCEPT !.h = hart]
    BY DEF MachineState
  <1> HIDE DEF hart
  <1>4. LET r == [x EXCEPT !.h = hart]
        IN  r \in MachineState /\ r.h = hart /\ SameBut(x, r, {"h"})
    BY <1>2, SetHart
  <1> QED
    BY <1>2, <1>3, <1>4 DEF NoTrap

\* `pc = target; PC_BACKWARD;`
LEMMA JumpOK ==
    ASSUME NEW x \in MachineState, NEW target \in Addr
    PROVE  LET r == Jump(x, target)
           IN  /\ r \in MachineState /\ r.h.pc = AddrPlus(target, -4)
               /\ SameBut(x, r, {"h"}) /\ NoTrap(x, r)
  <1>1. AddrPlus(target, -4) \in Addr
    BY AddrPlusType
  <1> QED
    BY <1>1, SetPc DEF Jump

\* A compressed instruction that is followed by the next one.
LEMMA SequentialOK ==
    ASSUME NEW x \in MachineState
    PROVE  LET r == Sequential(x)
           IN  /\ r \in MachineState /\ r.h.pc = AddrPlus(x.h.pc, -2)
               /\ SameBut(x, r, {"h"}) /\ NoTrap(x, r)
  <1>1. AddrPlus(x.h.pc, -2) \in Addr
    BY AddrPlusType, HartOf
  <1>2. Sequential(x) = [x EXCEPT !.h.pc = AddrPlus(x.h.pc, -2)]
    BY DEF Sequential
  <1> QED
    BY <1>1, <1>2, SetPc

FetchDue(x, target) == IF target % IAlign(x) # 0 THEN CAUSE_MISALIGNED_FETCH ELSE -1

\* A jump checks its target before anything is written; y is the machine with
\* the link register written.
LEMMA IfAlignedOutcome ==
    ASSUME NEW x \in MachineState, NEW y \in MachineState, NEW goal \in Addr, NEW target \in Addr,
           SameBut(x, y, {"gpr"})
    PROVE  LET r == IfAligned(x, goal, Jump(y, target))
           IN  /\ Outcome(x, r, FetchDue(x, goal), x.h.pc)
               /\ goal % IAlign(x) = 0 => r = Jump(y, target)
  <1> DEFINE j == Jump(y, target)
             t == [x EXCEPT !.h = raise_exception_pc(@, CAUSE_MISALIGNED_FETCH, x.h.pc)]
  <1>1. j \in MachineState /\ NoTrap(y, j) /\ SameBut(y, j, {"h"})
    BY JumpOK
  <1>2. t \in MachineState /\ Trapped(x, t, CAUSE_MISALIGNED_FETCH, x.h.pc)
    BY RaisePc, HartOf, Causes
  <1>3. IfAligned(x, goal, j) = IF goal % IAlign(x) # 0 THEN t ELSE j
    BY DEF IfAligned
  <1> HIDE DEF j, t
  <1>4. NoTrap(x, j) /\ FpuSame(x, j)
    BY <1>1 DEF NoTrap, FpuSame, SameBut, Frame
  <1>6. FpuSame(x, t)
    BY <1>2, KeptFpu DEF Trapped
  <1>5. Outcome(x, IfAligned(x, goal, j), FetchDue(x, goal), x.h.pc)
    BY <1>1, <1>2, <1>3, <1>4, <1>6, Causes DEF Outcome, FetchDue
  <1> QED
    BY <1>3, <1>5 DEF j

\* The link register.
LEMMA LinkOK ==
    ASSUME NEW x \in MachineState, NEW rd \in 0 .. 31, NEW n \in Int
    PROVE  LET y == reg_write(x, rd, AddrPlus(x.h.pc, n))
           IN  /\ y \in MachineState /\ y.h = x.h /\ SameBut(x, y, {"gpr"})
               /\ y.gpr = IF rd = 0 THEN x.gpr ELSE [x.gpr EXCEPT ![rd] = AddrPlus(x.h.pc, n)]
  <1>1. AddrPlus(x.h.pc, n) \in Word
    BY HartOf, AddrPlusType, AddrIsWord
  <1>2. "h" \notin {"gpr"}
    OBVIOUS
  <1> QED
    BY <1>1, <1>2, RegWrite, KeptHart

\* A word is an integer, and an address.
LEMMA WordInt ==
    ASSUME NEW v \in Word
    PROVE  v \in Int /\ v \in Nat /\ v \in Addr
  BY WordFacts, AddrIsWord

BranchDue(x, op, imm, rs2, rs1) ==
    IF Taken(op, reg_read(x, rs1), reg_read(x, rs2)) THEN FetchDue(x, AddrPlus(x.h.pc, imm)) ELSE -1

\* The conditional branches.
LEMMA BranchOutcome ==
    ASSUME NEW x \in MachineState, NEW op, NEW imm \in Word, NEW rs1 \in 0 .. 31, NEW rs2 \in 0 .. 31
    PROVE  Outcome(x, insi_b(x, op, imm, rs2, rs1), BranchDue(x, op, imm, rs2, rs1), x.h.pc)
  <1> DEFINE target == AddrPlus(x.h.pc, imm)
             taken == Taken(op, reg_read(x, rs1), reg_read(x, rs2))
  <1>1. target \in Addr
    BY HartOf, WordInt, AddrPlusType
  <1>2. insi_b(x, op, imm, rs2, rs1) = IF taken THEN IfAligned(x, target, Jump(x, target)) ELSE x
    BY DEF insi_b
  <1>3. BranchDue(x, op, imm, rs2, rs1) = IF taken THEN FetchDue(x, target) ELSE -1
    BY DEF BranchDue
  <1> HIDE DEF target, taken
  <1>4. Outcome(x, IfAligned(x, target, Jump(x, target)), FetchDue(x, target), x.h.pc)
    <2>1. SameBut(x, x, {"gpr"})
      BY DEF SameBut
    <2> QED
      BY <1>1, <2>1, IfAlignedOutcome
  <1>5. Outcome(x, x, -1, x.h.pc)
    BY DEF Outcome, NoTrap, FpuSame
  <1> QED
    BY <1>2, <1>3, <1>4, <1>5

\* jal and jalr.
LEMMA JalOutcome ==
    ASSUME NEW x \in MachineState, NEW imm \in Word, NEW rd \in 0 .. 31
    PROVE  Outcome(x, insi_j_jal(x, imm, rd), FetchDue(x, AddrPlus(x.h.pc, imm)), x.h.pc)
  <1> DEFINE target == AddrPlus(x.h.pc, imm)
             y == reg_write(x, rd, AddrPlus(x.h.pc, 4))
  <1>1. target \in Addr
    BY HartOf, WordInt, AddrPlusType
  <1>2. y \in MachineState /\ SameBut(x, y, {"gpr"})
    <2>1. 4 \in Int
      OBVIOUS
    <2> QED
      BY <2>1, LinkOK
  <1>3. insi_j_jal(x, imm, rd) = IfAligned(x, target, Jump(y, target))
    BY DEF insi_j_jal
  <1> HIDE DEF target, y
  <1>4. Outcome(x, IfAligned(x, target, Jump(y, target)), FetchDue(x, target), x.h.pc)
    BY <1>1, <1>2, IfAlignedOutcome
  <1> QED
    BY <1>3, <1>4 DEF target

\* The even address jalr goes to.
LEMMA EvenTarget ==
    ASSUME NEW a \in Word
    PROVE  a - (a % 2) \in Addr /\ (a % 2 = 0 => a - (a % 2) = a)
  <1>1. a \in Nat /\ a % 2 \in {0, 1} /\ a % 2 <= a
    <2>1. a \in Nat
      BY WordFacts
    <2>2. a = 2 * (a \div 2) + (a % 2) /\ a \div 2 \in Int /\ a % 2 \in 0 .. 1
      BY <2>1
    <2> QED
      BY <2>1, <2>2
  <1>2. a - (a % 2) \in Nat /\ a - (a % 2) <= a
    BY <1>1
  <1>3. a - (a % 2) \in Word
    BY <1>1, <1>2, WordSize DEF Word
  <1> QED
    BY <1>1, <1>3, AddrIsWord

JalrTarget(x, imm, rs1) ==
    LET addr == ToWord(reg_read(x, rs1) + imm) IN addr - (addr % 2)

\* jalr clears bit 0 of its target.
LEMMA JalrOutcome ==
    ASSUME NEW x \in MachineState, NEW imm \in Word, NEW rs1 \in 0 .. 31, NEW rd \in 0 .. 31
    PROVE  Outcome(x, insi_i_jalr(x, imm, rs1, rd), FetchDue(x, JalrTarget(x, imm, rs1)), x.h.pc)
  <1> DEFINE target == JalrTarget(x, imm, rs1)
             y == reg_write(x, rd, AddrPlus(x.h.pc, 4))
  <1>1. target \in Addr
    BY RegRead, SumType, EvenTarget DEF JalrTarget
  <1>2. y \in MachineState /\ SameBut(x, y, {"gpr"})
    <2>1. 4 \in Int
      OBVIOUS
    <2> QED
      BY <2>1, LinkOK
  <1>3. insi_i_jalr(x, imm, rs1, rd) = IfAligned(x, target, Jump(y, target))
    BY DEF insi_i_jalr, JalrTarget
  <1> HIDE DEF target, y
  <1>4. Outcome(x, IfAligned(x, target, Jump(y, target)), FetchDue(x, target), x.h.pc)
    BY <1>1, <1>2, IfAlignedOutcome
  <1> QED
    BY <1>3, <1>4 DEF target


\* lui and auipc.
LEMMA UpperOK ==
    ASSUME NEW x \in MachineState, NEW imm \in Word, NEW rd \in 0 .. 31
    PROVE  /\ insi_u_lui(x, imm, rd) \in MachineState
           /\ SameBut(x, insi_u_lui(x, imm, rd), {"gpr"})
           /\ insi_u_auipc(x, imm, rd) \in MachineState
           /\ SameBut(x, insi_u_auipc(x, imm, rd), {"gpr"})
  <1>1. AddrPlus(x.h.pc, imm) \in Word
    BY HartOf, WordInt, AddrPlusType, AddrIsWord
  <1> QED
    BY <1>1, RegWrite DEF insi_u_lui, insi_u_auipc

\* The end of the emulation.
LEMMA SetRunning ==
    ASSUME NEW x \in MachineState, NEW s \in {"terminated", "fatal"}
    PROVE  LET r == [x EXCEPT !.running = s]
           IN  r \in MachineState /\ SameBut(x, r, {"running"})
  BY DEF MachineState, SameBut, Frame

EcallDue(x) == IF x.gpr[A7] # ExitCall THEN EcallCause(x.h.privilege) ELSE -1

\* ecall traps to the mode of its cause or ends the emulation.
LEMMA EcallOutcome ==
    ASSUME NEW x \in MachineState
    PROVE  Outcome(x, Ecall(x), EcallDue(x), x.h.pc)
  <1>1. CASE x.gpr[A7] = ExitCall
    <2>1. Ecall(x) = [x EXCEPT !.running = "terminated"] /\ EcallDue(x) = -1
      BY <1>1 DEF Ecall, EcallDue
    <2>2. Ecall(x) \in MachineState /\ SameBut(x, Ecall(x), {"running"})
      BY <2>1, SetRunning
    <2>3. "h" \notin {"running"}
      OBVIOUS
    <2> QED
      BY <2>1, <2>2, <2>3, KeptHart, KeptFpu DEF Outcome
  <1>2. CASE x.gpr[A7] # ExitCall
    <2> DEFINE cause == EcallCause(x.h.privilege)
    <2>1. x.h.privilege \in {0, 1, 2, 3}
      BY HartOf DEF Privileges
    <2>2. insi_i_ecall(x.h) = raise_exception(x.h, cause)
      BY <2>1 DEF insi_i_ecall, EcallCause, CAUSE_USER_ECALL, CAUSE_SUPERVISOR_ECALL,
                  CAUSE_MACHINE_ECALL, PRV_SUPERVISOR, PRV_MACHINE
    <2>3. cause \in Nat /\ EcallDue(x) = cause /\ cause # -1
      BY <1>2, Causes, HartOf DEF EcallDue
    <2>4. Ecall(x) = Raise(x, cause)
      BY <1>2, <2>2 DEF Ecall, Raise
    <2> HIDE DEF cause
    <2> QED
      BY <2>3, <2>4, RaiseHere
  <1> QED
    BY <1>1, <1>2

Returned(hart, s, prv, t) == [hart EXCEPT !.mstatus = s, !.privilege = prv, !.pc = t]

\* A trap return.
LEMMA ReturnedOK ==
    ASSUME NEW hart \in HartState, NEW s \in SUBSET MstatusBits, NEW prv \in Privileges, NEW t \in Addr
    PROVE  LET r == Returned(hart, s, prv, t)
           IN  r \in HartState /\ r.mcause = hart.mcause /\ r.scause = hart.scause
  BY DEF Returned, HartState

\* mret never traps.
LEMMA MretOutcome ==
    ASSUME NEW x \in MachineState
    PROVE  Outcome(x, [x EXCEPT !.h = ins_mret(@)], -1, x.h.pc)
  <1> DEFINE s == WithMpp(CopyBit(x.h.mstatus, "MPIE", "MIE") \union {"MPIE"}, PRV_USER)
             prv == MppOf(x.h.mstatus)
             t == AddrPlus(x.h.mepc, -4)
             r == Returned(x.h, s, prv, t)
  <1>1. s \in SUBSET MstatusBits
    BY HartOf DEF WithMpp, CopyBit, MppBits, MstatusBits
  <1>2. prv \in Privileges
    BY DEF MppOf, Privileges
  <1>3. t \in Addr
    BY HartOf, AddrPlusType
  <1>4. ins_mret(x.h) = r
    BY DEF ins_mret, Returned
  <1> HIDE DEF s, prv, t
  <1>5. r \in HartState /\ r.mcause = x.h.mcause /\ r.scause = x.h.scause
    BY <1>1, <1>2, <1>3, HartOf, ReturnedOK
  <1> HIDE DEF r
  <1> QED
    BY <1>4, <1>5, SetHart, KeptFpu DEF Outcome, NoTrap

\* sret is illegal in S-mode under mstatus.TSR, ...
LEMMA SretOutcome ==
    ASSUME NEW x \in MachineState
    PROVE  Outcome(x, [x EXCEPT !.h = ins_sret(@)],
                   IF Forbidden(x.h, "sret") THEN CAUSE_ILLEGAL_INSTRUCTION ELSE -1, x.h.pc)
  <1> DEFINE s == (CopyBit(x.h.mstatus, "SPIE", "SIE") \union {"SPIE"}) \ {"SPP"}
             prv == IF "SPP" \in x.h.mstatus THEN PRV_SUPERVISOR ELSE PRV_USER
             t == AddrPlus(x.h.sepc, -4)
             r == Returned(x.h, s, prv, t)
  <1>1. s \in SUBSET MstatusBits
    BY HartOf DEF CopyBit, MstatusBits
  <1>2. prv \in Privileges
    BY DEF PRV_SUPERVISOR, PRV_USER, Privileges
  <1>3. t \in Addr
    BY HartOf, AddrPlusType
  <1>4. ins_sret(x.h) = IF Forbidden(x.h, "sret")
                        THEN raise_exception(x.h, CAUSE_ILLEGAL_INSTRUCTION) ELSE r
    BY DEF ins_sret, Returned, Forbidden
  <1> HIDE DEF s, prv, t
  <1>5. r \in HartState /\ r.mcause = x.h.mcause /\ r.scause = x.h.scause
    BY <1>1, <1>2, <1>3, HartOf, ReturnedOK
  <1> HIDE DEF r
  <1>6. CASE Forbidden(x.h, "sret")
    <2>1. [x EXCEPT !.h = ins_sret(@)] = Raise(x, CAUSE_ILLEGAL_INSTRUCTION)
      BY <1>4, <1>6 DEF Raise
    <2> QED
      BY <1>6, <2>1, RaiseHere, Causes
  <1>7. CASE ~Forbidden(x.h, "sret")
    BY <1>4, <1>5, <1>7, SetHart, KeptFpu DEF Outcome, NoTrap
  <1> QED
    BY <1>6, <1>7

\* ... and sfence.vma under mstatus.TVM.
LEMMA SfenceOutcome ==
    ASSUME NEW x \in MachineState
    PROVE  Outcome(x, [x EXCEPT !.h = ins_sfence_vma(@)],
                   IF Forbidden(x.h, "sfence_vma") THEN CAUSE_ILLEGAL_INSTRUCTION ELSE -1, x.h.pc)
  <1>1. ins_sfence_vma(x.h) = IF Forbidden(x.h, "sfence_vma")
                              THEN raise_exception(x.h, CAUSE_ILLEGAL_INSTRUCTION) ELSE x.h
    BY DEF ins_sfence_vma, Forbidden
  <1>2. CASE Forbidden(x.h, "sfence_vma")
    <2>1. [x EXCEPT !.h = ins_sfence_vma(@)] = Raise(x, CAUSE_ILLEGAL_INSTRUCTION)
      BY <1>1, <1>2 DEF Raise
    <2> QED
      BY <1>2, <2>1, RaiseHere, Causes
  <1>3. CASE ~Forbidden(x.h, "sfence_vma")
    BY <1>1, <1>3, SetHart, HartOf, KeptFpu DEF Outcome, NoTrap
  <1> QED
    BY <1>2, <1>3


-----------------------------------------------------------------------------
\* The floating-point unit.

Boxed(v, fmt) == v \div 2 ^ FmtWidth(fmt) = LaneMod \div 2 ^ FmtWidth(fmt) - 1

\* A lane is a whole number of values of each format.
LEMMA LaneSize ==
    ASSUME NEW fmt \in Formats
    PROVE  /\ 2 ^ FmtWidth(fmt) \in Nat /\ 2 ^ FmtWidth(fmt) >= 1
           /\ \E n \in Nat : n >= 1 /\ LaneMod = 2 ^ FmtWidth(fmt) * n
  <1> DEFINE k == FmtWidth(fmt)
             j == Top - k
  <1>1. k \in Nat /\ k <= Top /\ Top \in Nat
    BY Widths
  <1>2. j \in Nat /\ k + j = Top /\ k + j <= Top + 1
    BY <1>1
  <1> HIDE DEF k, j
  <1>3. 2 ^ (k + j) = 2 ^ k * 2 ^ j
    BY <1>1, <1>2, PowAdd
  <1>4. 2 ^ k \in Nat /\ 2 ^ k >= 1 /\ 2 ^ j \in Nat /\ 2 ^ j >= 1
    BY <1>1, <1>2, PowType
  <1> QED
    BY <1>2, <1>3, <1>4 DEF k, LaneMod, Top

\* NaN-boxing keeps the value in the low bits and sets all others.
LEMMA BoxOK ==
    ASSUME NEW fmt \in Formats, NEW v \in Floats(fmt)
    PROVE  LET b == LaneMod - 2 ^ FmtWidth(fmt) + v
           IN  b \in Lanes /\ b % 2 ^ FmtWidth(fmt) = v /\ Boxed(b, fmt)
  <1> DEFINE W == 2 ^ FmtWidth(fmt)
  <1>1. W \in Nat /\ W >= 1
    BY LaneSize
  <1>2. PICK n \in Nat : n >= 1 /\ LaneMod = W * n
    BY LaneSize
  <1>3. v \in 0 .. W - 1
    BY DEF Floats
  <1>4. Boxed(LaneMod - W + v, fmt) <=> (LaneMod - W + v) \div W = LaneMod \div W - 1
    BY DEF Boxed
  <1> HIDE DEF W
  <1>5. W * n \in Nat /\ W * n >= W
    BY <1>1, <1>2
  <1>6. W * n - W + v = W * (n - 1) + v /\ n - 1 \in Int
    BY <1>1, <1>2, <1>3
  <1>7. (W * (n - 1) + v) \div W = n - 1 /\ (W * (n - 1) + v) % W = v
    BY <1>1, <1>3, <1>6, DivModUnique
  <1>8. LaneMod \div W = n
    <2>1. 0 \in 0 .. W - 1 /\ n \in Int
      BY <1>1
    <2>2. (W * n + 0) \div W = n
      BY <1>1, <2>1, DivModUnique
    <2>3. W * n + 0 = W * n
      BY <1>5
    <2> QED
      BY <1>2, <2>2, <2>3
  <1>9. LaneMod - W + v \in Lanes
    BY <1>1, <1>2, <1>3, <1>5 DEF Lanes
  <1> QED
    BY <1>2, <1>4, <1>6, <1>7, <1>8, <1>9 DEF W

\* The low bits of anything are a value of the format.
LEMMA LowBits ==
    ASSUME NEW fmt \in Formats, NEW v \in Int
    PROVE  v % 2 ^ FmtWidth(fmt) \in Floats(fmt)
  <1> DEFINE W == 2 ^ FmtWidth(fmt)
  <1>1. W \in Nat /\ W >= 1
    BY LaneSize
  <1> HIDE DEF W
  <1>2. v % W \in 0 .. W - 1
    BY <1>1, DivMod
  <1> QED
    BY <1>2 DEF W, Floats

\* Reading a floating-point register.
LEMMA FprRead ==
    ASSUME NEW x \in MachineState, NEW fmt \in Formats, NEW id \in 0 .. 31
    PROVE  fpr_read(x, fmt, id) \in Floats(fmt) /\ x.fpr[id] \in Lanes /\ x.fpr[id] \in Int
  <1>1. x.fpr[id] \in Lanes
    BY DEF MachineState
  <1>2. x.fpr[id] \in Int
    BY <1>1 DEF Lanes
  <1> QED
    BY <1>1, <1>2, LowBits DEF fpr_read

\* Writing one.
LEMMA FprWrite ==
    ASSUME NEW x \in MachineState, NEW fmt \in Formats, NEW id \in 0 .. 31, NEW v \in Floats(fmt)
    PROVE  LET r == fpr_write(x, fmt, id, v)
           IN  /\ r \in MachineState /\ SameBut(x, r, {"fpr"})
               /\ \A f \in 0 .. 31 : f # id => r.fpr[f] = x.fpr[f]
               /\ Boxed(r.fpr[id], fmt)
               /\ fpr_read(r, fmt, id) = v
  <1> DEFINE b == LaneMod - 2 ^ FmtWidth(fmt) + v
  <1>1. b \in Lanes /\ b % 2 ^ FmtWidth(fmt) = v /\ Boxed(b, fmt)
    BY BoxOK
  <1>2. fpr_write(x, fmt, id, v) = [x EXCEPT !.fpr[id] = b]
    BY DEF fpr_write
  <1> HIDE DEF b
  <1>3. x.fpr \in [0 .. 31 -> Lanes]
    BY DEF MachineState
  <1>4. [x.fpr EXCEPT ![id] = b] \in [0 .. 31 -> Lanes]
    BY <1>1, <1>3
  <1> DEFINE r == [x EXCEPT !.fpr[id] = b]
  <1>5. r \in MachineState /\ SameBut(x, r, {"fpr"}) /\ r.fpr = [x.fpr EXCEPT ![id] = b]
    BY <1>4 DEF MachineState, SameBut, Frame
  <1> HIDE DEF r
  <1>6. r.fpr[id] = b /\ \A f \in 0 .. 31 : f # id => r.fpr[f] = x.fpr[f]
    BY <1>3, <1>5
  <1>7. fpr_read(r, fmt, id) = v
    BY <1>1, <1>6 DEF fpr_read
  <1> QED
    BY <1>1, <1>2, <1>5, <1>6, <1>7 DEF r

\* Flags are added.
LEMMA AccrueOK ==
    ASSUME NEW x \in MachineState, NEW flags \in SUBSET FlagNames
    PROVE  LET r == Accrue(x, flags)
           IN  /\ r \in MachineState /\ SameBut(x, r, {"fflags"})
               /\ r.fflags = x.fflags \union flags
  <1>1. x.fflags \union flags \in SUBSET FlagNames
    BY DEF MachineState
  <1> QED
    BY <1>1 DEF Accrue, MachineState, SameBut, Frame

\* What an instruction of the unit may change: flags are only added, an integer
\* register, and the lane of rd, boxed.
FpStep(x, r, fmt, rd) ==
    /\ r \in MachineState /\ SameBut(x, r, {"gpr", "fpr", "fflags"})
    /\ x.fflags \subseteq r.fflags
    /\ \A f \in 0 .. 31 : r.fpr[f] # x.fpr[f] => f = rd /\ Boxed(r.fpr[f], fmt)

\* A result written to a floating-point register, ...
LEMMA WriteFpOK ==
    ASSUME NEW x \in MachineState, NEW fmt \in Formats, NEW rd \in 0 .. 31, NEW res,
           res.r \in Floats(fmt), res.flags \in SUBSET FlagNames
    PROVE  LET r == WriteFp(x, fmt, rd, res)
           IN  FpStep(x, r, fmt, rd) /\ r.gpr = x.gpr /\ fpr_read(r, fmt, rd) = res.r
  <1> DEFINE y == Accrue(x, res.flags)
             v == res.r
             r == fpr_write(y, fmt, rd, v)
  <1>1. y \in MachineState /\ SameBut(x, y, {"fflags"}) /\ x.fflags \subseteq y.fflags
    BY AccrueOK
  <1>2. v \in Floats(fmt)
    OBVIOUS
  <1>3. WriteFp(x, fmt, rd, res) = r
    BY DEF WriteFp
  <1> HIDE DEF y, v
  <1>4. /\ r \in MachineState /\ SameBut(y, r, {"fpr"}) /\ Boxed(r.fpr[rd], fmt)
        /\ \A f \in 0 .. 31 : f # rd => r.fpr[f] = y.fpr[f]
        /\ fpr_read(r, fmt, rd) = v
    BY <1>1, <1>2, FprWrite
  <1> HIDE DEF r
  <1>5. SameBut(x, r, {"gpr", "fpr", "fflags"}) /\ r.gpr = x.gpr /\ r.fflags = y.fflags
        /\ y.fpr = x.fpr
    BY <1>1, <1>4 DEF SameBut, Frame
  <1> QED
    BY <1>1, <1>3, <1>4, <1>5 DEF FpStep, v

\* ... without flags, ...
LEMMA FprWriteOK ==
    ASSUME NEW x \in MachineState, NEW fmt \in Formats, NEW rd \in 0 .. 31, NEW v \in Floats(fmt)
    PROVE  LET r == fpr_write(x, fmt, rd, v)
           IN  FpStep(x, r, fmt, rd) /\ r.gpr = x.gpr /\ SameBut(x, r, {"fpr"})
  <1> DEFINE r == fpr_write(x, fmt, rd, v)
  <1>1. /\ r \in MachineState /\ SameBut(x, r, {"fpr"}) /\ Boxed(r.fpr[rd], fmt)
        /\ \A f \in 0 .. 31 : f # rd => r.fpr[f] = x.fpr[f]
    BY FprWrite
  <1> HIDE DEF r
  <1>2. SameBut(x, r, {"gpr", "fpr", "fflags"}) /\ r.fflags = x.fflags /\ r.gpr = x.gpr
    BY <1>1 DEF SameBut, Frame
  <1> QED
    BY <1>1, <1>2 DEF FpStep, r

\* ... and to an integer register.
LEMMA WriteIntOK ==
    ASSUME NEW x \in MachineState, NEW fmt, NEW rd \in 0 .. 31, NEW res,
           res.r \in Word, res.flags \in SUBSET FlagNames
    PROVE  LET r == WriteInt(x, rd, res)
           IN  FpStep(x, r, fmt, rd) /\ r.fpr = x.fpr /\ (rd # 0 => r.gpr[rd] = res.r)
  <1> DEFINE y == Accrue(x, res.flags)
             v == res.r
             r == reg_write(y, rd, v)
  <1>1. y \in MachineState /\ SameBut(x, y, {"fflags"}) /\ x.fflags \subseteq y.fflags
    BY AccrueOK
  <1>2. v \in Word
    OBVIOUS
  <1>3. WriteInt(x, rd, res) = r
    BY DEF WriteInt
  <1> HIDE DEF y, v
  <1>4. /\ r \in MachineState /\ SameBut(y, r, {"gpr"})
        /\ r.gpr = IF rd = 0 THEN y.gpr ELSE [y.gpr EXCEPT ![rd] = v]
    BY <1>1, <1>2, RegWrite
  <1> HIDE DEF r
  <1>5. SameBut(x, r, {"gpr", "fpr", "fflags"}) /\ r.fpr = x.fpr /\ r.fflags = y.fflags
    BY <1>1, <1>4 DEF SameBut, Frame
  <1>6. rd # 0 => r.gpr[rd] = v
    <2>1. y.gpr \in [1 .. 31 -> Word] /\ (rd # 0 => rd \in 1 .. 31)
      BY <1>1 DEF MachineState
    <2> QED
      BY <1>4, <2>1
  <1> QED
    BY <1>1, <1>3, <1>4, <1>5, <1>6 DEF FpStep, v

\* An integer register without flags.
LEMMA RegWriteFp ==
    ASSUME NEW x \in MachineState, NEW fmt, NEW rd \in 0 .. 31, NEW d \in Word
    PROVE  LET r == reg_write(x, rd, d)
           IN  FpStep(x, r, fmt, rd) /\ r.fpr = x.fpr
  <1> DEFINE r == reg_write(x, rd, d)
  <1>1. r \in MachineState /\ SameBut(x, r, {"gpr"})
    BY RegWrite
  <1> HIDE DEF r
  <1>2. SameBut(x, r, {"gpr", "fpr", "fflags"}) /\ r.fpr = x.fpr /\ r.fflags = x.fflags
    BY <1>1 DEF SameBut, Frame
  <1> QED
    BY <1>1, <1>2 DEF FpStep, r


\* The canonical NaN is an encoding, and so is a NaN made canonical.
LEMMA NanType ==
    ASSUME NEW fmt \in Formats
    PROVE  /\ CanonicalNan(fmt) \in Floats(fmt)
           /\ \A v \in Floats(fmt) : /\ Float(fmt)!normalize_nan(v) \in Floats(fmt)
                                     /\ Float(fmt)!fcvt_nan(v) \in Floats(fmt)
  <1>1. /\ Float(fmt)!ExpMax \in 0 .. 2 ^ FmtExp(fmt) - 1
        /\ Float(fmt)!QuietBit \in 0 .. 2 ^ FmtMant(fmt) - 1
    <2> DEFINE E == 2 ^ FmtExp(fmt)
               K == 2 ^ FmtMant(fmt)
               qb == Float(fmt)!QuietBit
    <2>1. /\ E \in Nat /\ E >= 4 /\ K \in Nat /\ qb \in Nat /\ qb >= 1 /\ K = 2 * qb
          /\ Float(fmt)!ExpMax = E - 1
      BY FormatSizes
    <2> HIDE DEF E, K, qb
    <2>2. E - 1 \in 0 .. E - 1 /\ qb \in 0 .. K - 1
      BY <2>1
    <2> QED
      BY <2>1, <2>2 DEF E, K, qb
  <1>2. \A s \in {0, 1} : Float(fmt)!Encode(s, Float(fmt)!ExpMax, Float(fmt)!QuietBit) \in Floats(fmt)
    BY <1>1, EncodeType
  <1>3. CanonicalNan(fmt) = Float(fmt)!Encode(0, Float(fmt)!ExpMax, Float(fmt)!QuietBit)
    BY DEF CanonicalNan, Float!RISCV_CANONICAL_NAN
  <1>4. CanonicalNan(fmt) \in Floats(fmt)
    BY <1>2, <1>3
  <1>5. ASSUME NEW v \in Floats(fmt) PROVE Float(fmt)!normalize_nan(v) \in Floats(fmt)
    BY <1>4 DEF Float!normalize_nan, CanonicalNan
  <1>6. ASSUME NEW v \in Floats(fmt) PROVE Float(fmt)!fcvt_nan(v) \in Floats(fmt)
    BY <1>2, FieldsOf DEF Float!fcvt_nan
  <1> QED
    BY <1>4, <1>5, <1>6

\* SoftFloat's results.
LEMMA ArithType ==
    ASSUME NEW fmt \in Formats, NEW sf \in SoftFloatResult
    PROVE  /\ do_arith(fmt, sf).r \in Floats(fmt) /\ do_arith(fmt, sf).flags \in SUBSET FlagNames
           /\ fcvt_fp_fp(fmt, sf).r \in Floats(fmt) /\ fcvt_fp_fp(fmt, sf).flags \in SUBSET FlagNames
  <1>1. sf.r \in Lanes /\ sf.r \in Int /\ sf.flags \in SUBSET FlagNames
    BY DEF SoftFloatResult, Lanes
  <1> DEFINE v == sf.r % 2 ^ FmtWidth(fmt)
  <1>2. v \in Floats(fmt)
    BY <1>1, LowBits
  <1>3. /\ do_arith(fmt, sf).r = Float(fmt)!normalize_nan(v)
        /\ do_arith(fmt, sf).flags = sf.flags
    BY DEF do_arith, Float!arith, FmtWidth
  <1>4. fmt # Q => /\ fcvt_fp_fp(fmt, sf).r = Float(fmt)!fcvt_nan(v)
                   /\ fcvt_fp_fp(fmt, sf).flags = sf.flags
    BY DEF fcvt_fp_fp, SoftFloatResult
  <1>5. fmt = Q => /\ fcvt_fp_fp(fmt, sf).r = sf.r
                   /\ fcvt_fp_fp(fmt, sf).flags = {}
    BY DEF fcvt_fp_fp, SoftFloatResult
  <1>6. fmt = Q => Floats(fmt) = Lanes
    BY DEF Floats, Lanes, LaneMod
  <1> HIDE DEF v
  <1> QED
    BY <1>1, <1>2, <1>3, <1>4, <1>5, <1>6, NanType

\* Minimum and maximum return an operand or the canonical NaN.
LEMMA MinMaxType ==
    ASSUME NEW fmt \in Formats, NEW a \in Floats(fmt), NEW b \in Floats(fmt), NEW op
    PROVE  /\ do_fminmax(fmt, op, a, b).r \in Floats(fmt)
           /\ do_fminmax(fmt, op, a, b).flags \in SUBSET FlagNames
  <1>1. Float(fmt)!rv_fmin(a, b) \in Floats(fmt)
    BY NanType DEF Float!rv_fmin, CanonicalNan
  <1>2. Float(fmt)!rv_fmax(a, b) \in Floats(fmt)
    BY NanType DEF Float!rv_fmax, CanonicalNan
  <1> QED
    BY <1>1, <1>2 DEF do_fminmax, Float!fminmax, FlagNames

\* Sign injection replaces the sign.
LEMMA SgnjType ==
    ASSUME NEW fmt \in Formats, NEW a \in Floats(fmt), NEW b \in Floats(fmt), NEW op \in SgnjOps
    PROVE  do_fsgnj(fmt, op, a, b) \in Floats(fmt)
  <1> DEFINE s == CASE op = "fsgnj" -> Float(fmt)!sign(b)
                    [] op = "fsgnjn" -> 1 - Float(fmt)!sign(b)
                    [] op = "fsgnjx" -> IF Float(fmt)!sign(a) = Float(fmt)!sign(b) THEN 0 ELSE 1
  <1>1. s \in {0, 1}
    BY FieldsOf DEF SgnjOps
  <1>2. do_fsgnj(fmt, op, a, b) = Float(fmt)!Encode(s, Float(fmt)!exp(a), Float(fmt)!mant(a))
    BY DEF do_fsgnj, Float!fsgnj
  <1> HIDE DEF s
  <1> QED
    BY <1>1, <1>2, FieldsOf, EncodeType

\* Comparisons give 0 or 1.
LEMMA CompareType ==
    ASSUME NEW fmt \in Formats, NEW a, NEW b, NEW op
    PROVE  /\ do_fcmp(fmt, op, a, b).r \in Word
           /\ do_fcmp(fmt, op, a, b).flags \in SUBSET FlagNames
  <1>1. do_fcmp(fmt, op, a, b).r \in {0, 1}
    BY DEF do_fcmp, Float!fcmp
  <1>2. do_fcmp(fmt, op, a, b).flags \in SUBSET FlagNames
    BY DEF do_fcmp, Float!fcmp, FlagNames
  <1> QED
    BY <1>1, <1>2, WordFacts

\* A word has room for the ten classes.
LEMMA ClassType ==
    ASSUME NEW fmt \in Formats, NEW a
    PROVE  do_fclass(fmt, a) \in Word
  <1>1. do_fclass(fmt, a) \in 0 .. 9
    BY DEF do_fclass, Float!fclass
  <1>2. WordMod >= 16 /\ WordMod \in Nat
    <2>1. 2 ^ 1 = 2
      <3>1. 0 \in 0 .. XLen /\ 0 + 1 = 1
        BY Widths
      <3> QED
        BY <3>1, PowersOfTwo
    <2>2. 2 ^ 2 = 4
      <3>1. 1 \in 0 .. XLen /\ 1 + 1 = 2
        BY Widths
      <3> QED
        BY <2>1, <3>1, PowersOfTwo
    <2>3. 2 ^ 3 = 8
      <3>1. 2 \in 0 .. XLen /\ 2 + 1 = 3
        BY Widths
      <3> QED
        BY <2>2, <3>1, PowersOfTwo
    <2>4. 2 ^ 4 = 16
      <3>1. 3 \in 0 .. XLen /\ 3 + 1 = 4
        BY Widths
      <3> QED
        BY <2>3, <3>1, PowersOfTwo
    <2> DEFINE j == XLen - 4
    <2>5. j \in Nat /\ 4 + j = XLen /\ 4 + j <= Top + 1 /\ j \in 0 .. Top + 1 /\ 4 \in Nat
      BY Widths
    <2> HIDE DEF j
    <2>6. 2 ^ (4 + j) = 2 ^ 4 * 2 ^ j
      BY <2>5, PowAdd
    <2>7. 2 ^ j \in Nat /\ 2 ^ j >= 1
      BY <2>5, PowType
    <2>8. 16 * 2 ^ j >= 16 /\ 16 * 2 ^ j \in Nat
      BY <2>7
    <2> QED
      BY <2>4, <2>5, <2>6, <2>8 DEF WordMod
  <1> QED
    BY <1>1, <1>2 DEF Word

\* Conversions to integers give words.
LEMMA ToIntType ==
    ASSUME NEW fmt \in Formats, NEW a, NEW kind, NEW rm, NEW garbage \in Word
    PROVE  /\ do_fcvt_int(fmt, a, kind, rm, garbage).r \in Word
           /\ do_fcvt_int(fmt, a, kind, rm, garbage).flags \in SUBSET FlagNames
  <1>1. \A n \in Int : n % 2 ^ XLen \in Word
    BY WordFacts DEF ToWord, WordMod
  <1>2. \A k, neg : Float(fmt)!fcvt_int_sat(k, XLen, neg) \in Word
    <2>1. 2 ^ XLen - 1 \in Word /\ 2 ^ (XLen - 1) \in Word /\ 2 ^ (XLen - 1) - 1 \in Word
      BY WordSize DEF Word, WordMod
    <2> QED
      BY <2>1, WordFacts DEF Float!fcvt_int_sat
  <1> DEFINE span == IF kind \in {0, 1} THEN XLen ELSE 2 * XLen
             n == Float(fmt)!RoundToInt(a, rm)
             fits == IF kind \in {0, 2} THEN n \in -(2 ^ (span - 1)) .. 2 ^ (span - 1) - 1
                                       ELSE n \in 0 .. 2 ^ span - 1
             sf == [r |-> IF fits THEN n % 2 ^ XLen ELSE garbage,
                    flags |-> IF fits THEN IF Float(fmt)!IsInteger(a) THEN {} ELSE {"NX"} ELSE {"NV"}]
  <1>3. fits => n \in Int
    OBVIOUS
  <1>4. sf.r \in Word /\ sf.flags \in SUBSET FlagNames
    <2> HIDE DEF fits, n
    <2> QED
      BY <1>1, <1>3 DEF FlagNames
  <1>5. do_fcvt_int(fmt, a, kind, rm, garbage) =
          IF Float(fmt)!is_nan(a) \/ Float(fmt)!is_inf(a)
          THEN [r |-> Float(fmt)!fcvt_int_sat(kind, XLen, ~Float(fmt)!is_nan(a) /\ Float(fmt)!sign(a) = 1),
                flags |-> {"NV"}]
          ELSE IF "NV" \in sf.flags
          THEN [sf EXCEPT !.r = Float(fmt)!fcvt_int_sat(kind, XLen, Float(fmt)!sign(a) = 1)]
          ELSE sf
    BY DEF do_fcvt_int, Float!fcvt_fp_int
  <1>6. \A d : [sf EXCEPT !.r = d].r = d /\ [sf EXCEPT !.r = d].flags = sf.flags
    OBVIOUS
  <1> HIDE DEF sf
  <1>7. {"NV"} \in SUBSET FlagNames
    BY DEF FlagNames
  <1> QED
    BY <1>2, <1>4, <1>5, <1>6, <1>7

\* A move to an integer register.
LEMMA MoveType ==
    ASSUME NEW x \in MachineState, NEW fmt \in Formats, NEW id \in 0 .. 31
    PROVE  fmv_x(x, fmt, id) \in Word
  <1>1. x.fpr[id] % WordMod \in Word
    BY FprRead, WordFacts DEF ToWord
  <1>2. H \in Formats /\ FmtWidth(H) \in Nat /\ FmtWidth(H) >= 1 /\ FmtWidth(H) <= XLen
    BY Widths, WidthAssumption DEF Formats
  <1>3. Floats(H) \subseteq Word
    <2> DEFINE k == FmtWidth(H)
               j == XLen - k
    <2>1. k \in Nat /\ j \in Nat /\ k + j = XLen /\ k + j <= Top + 1
      BY <1>2, Widths
    <2> HIDE DEF k, j
    <2>2. 2 ^ (k + j) = 2 ^ k * 2 ^ j
      BY <2>1, PowAdd
    <2>3. k \in 0 .. Top + 1 /\ j \in 0 .. Top + 1
      BY <2>1, Widths
    <2>4. 2 ^ k \in Nat /\ 2 ^ k >= 1 /\ 2 ^ j \in Nat /\ 2 ^ j >= 1
      BY <2>3, PowType
    <2>5. 2 ^ k * 2 ^ j >= 2 ^ k
      BY <2>4
    <2>6. WordMod >= 2 ^ k /\ WordMod \in Nat
      BY <2>1, <2>2, <2>5, WordSize DEF WordMod
    <2> QED
      BY <2>4, <2>6 DEF Floats, Word, k
  <1>4. fpr_read(x, H, id) \in Word /\ FmtWidth(H) \in 1 .. Top
    BY <1>2, <1>3, FprRead, Widths
  <1> QED
    BY <1>1, <1>4, SignExtendType DEF fmv_x


\* insf_r_fpop.
LEMMA FpOpOK ==
    ASSUME NEW x \in MachineState, NEW i, NEW sf \in SoftFloatResult, i.op \in FpOps,
           i.fmt \in Formats, i.rd \in 0 .. 31, i.rs1 \in 0 .. 31, i.rs2 \in 0 .. 31
    PROVE  FpStep(x, insf_r_fpop(x, i, sf), i.fmt, i.rd)
  <1> DEFINE a == fpr_read(x, i.fmt, i.rs1)
             b == fpr_read(x, i.fmt, i.rs2)
             r == insf_r_fpop(x, i, sf)
             r1 == WriteFp(x, i.fmt, i.rd, do_arith(i.fmt, sf))
             r2 == fpr_write(x, i.fmt, i.rd, do_fsgnj(i.fmt, i.op, a, b))
             r3 == WriteFp(x, i.fmt, i.rd, do_fminmax(i.fmt, i.op, a, b))
             r4 == WriteInt(x, i.rd, do_fcmp(i.fmt, i.op, a, b))
             r5 == reg_write(x, i.rd, do_fclass(i.fmt, a))
             r6 == reg_write(x, i.rd, fmv_x(x, i.fmt, i.rs1))
             r7 == fpr_write(x, i.fmt, i.rd, reg_read(x, i.rs1) % 2 ^ FmtWidth(i.fmt))
             r8 == WriteInt(x, i.rd, do_fcvt_int(i.fmt, a, FpToIntKind[i.op], sf_rm(x, i.rm),
                                                 sf.r % WordMod))
             r9 == WriteFp(x, i.fmt, i.rd, [sf EXCEPT !.r = @ % 2 ^ FmtWidth(i.fmt)])
             r10 == WriteFp(x, i.fmt, i.rd, fcvt_fp_fp(i.fmt, sf))
  <1>0. r = CASE i.op \in ArithOps -> r1
              [] i.op \in SgnjOps -> r2
              [] i.op \in MinMaxOps -> r3
              [] i.op \in CompareOps -> r4
              [] i.op = "fclass" -> r5
              [] i.op = "fmv_x" -> r6
              [] i.op = "fmv_fp" -> r7
              [] i.op \in DOMAIN FpToIntKind -> r8
              [] i.op \in IntToFpOps -> r9
              [] i.op = "fcvt_fp_fp" -> r10
    BY DEF insf_r_fpop
  <1> HIDE DEF r, r1, r2, r3, r4, r5, r6, r7, r8, r9, r10
  <1> SUFFICES FpStep(x, r, i.fmt, i.rd)
    BY DEF r
  <1>20. /\ i.op \in ArithOps => r = r1
         /\ i.op \in SgnjOps => r = r2
         /\ i.op \in MinMaxOps => r = r3
         /\ i.op \in CompareOps => r = r4
         /\ i.op = "fclass" => r = r5
         /\ i.op = "fmv_x" => r = r6
         /\ i.op = "fmv_fp" => r = r7
         /\ i.op \in DOMAIN FpToIntKind => r = r8
         /\ i.op \in IntToFpOps => r = r9
         /\ i.op = "fcvt_fp_fp" => r = r10
    BY <1>0 DEF ArithOps, SgnjOps, MinMaxOps, CompareOps, FpToIntKind, IntToFpOps
  <1>1. a \in Floats(i.fmt) /\ b \in Floats(i.fmt)
    BY FprRead
  <1>2. sf.r \in Int /\ sf.flags \in SUBSET FlagNames
    BY DEF SoftFloatResult, Lanes
  <1>3. CASE i.op \in ArithOps
    <2>1. r = WriteFp(x, i.fmt, i.rd, do_arith(i.fmt, sf))
      BY <1>20, <1>3 DEF r1
    <2> QED
      BY <2>1, ArithType, WriteFpOK
  <1>4. CASE i.op \in SgnjOps
    <2>1. r = fpr_write(x, i.fmt, i.rd, do_fsgnj(i.fmt, i.op, a, b))
      BY <1>20, <1>4 DEF r2
    <2>2. do_fsgnj(i.fmt, i.op, a, b) \in Floats(i.fmt)
      BY <1>1, <1>4, SgnjType
    <2> HIDE DEF a, b
    <2> QED
      BY <2>1, <2>2, FprWriteOK
  <1>5. CASE i.op \in MinMaxOps
    <2>1. r = WriteFp(x, i.fmt, i.rd, do_fminmax(i.fmt, i.op, a, b))
      BY <1>20, <1>5 DEF r3
    <2>2. /\ do_fminmax(i.fmt, i.op, a, b).r \in Floats(i.fmt)
          /\ do_fminmax(i.fmt, i.op, a, b).flags \in SUBSET FlagNames
      BY <1>1, MinMaxType
    <2> HIDE DEF a, b
    <2> QED
      BY <2>1, <2>2, WriteFpOK
  <1>6. CASE i.op \in CompareOps
    <2>1. r = WriteInt(x, i.rd, do_fcmp(i.fmt, i.op, a, b))
      BY <1>20, <1>6 DEF r4
    <2>2. /\ do_fcmp(i.fmt, i.op, a, b).r \in Word
          /\ do_fcmp(i.fmt, i.op, a, b).flags \in SUBSET FlagNames
      BY CompareType
    <2> HIDE DEF a, b
    <2> QED
      BY <2>1, <2>2, WriteIntOK
  <1>7. CASE i.op = "fclass"
    <2>1. r = reg_write(x, i.rd, do_fclass(i.fmt, a))
      BY <1>20, <1>7 DEF r5
    <2>2. do_fclass(i.fmt, a) \in Word
      BY ClassType
    <2> HIDE DEF a, b
    <2> QED
      BY <2>1, <2>2, RegWriteFp
  <1>8. CASE i.op = "fmv_x"
    <2>1. r = reg_write(x, i.rd, fmv_x(x, i.fmt, i.rs1))
      BY <1>20, <1>8 DEF r6
    <2> QED
      BY <2>1, MoveType, RegWriteFp
  <1>9. CASE i.op = "fmv_fp"
    <2>1. r = fpr_write(x, i.fmt, i.rd, reg_read(x, i.rs1) % 2 ^ FmtWidth(i.fmt))
      BY <1>20, <1>9 DEF r7
    <2>2. reg_read(x, i.rs1) \in Int
      BY RegRead, WordInt
    <2> QED
      BY <2>1, <2>2, LowBits, FprWriteOK
  <1>10. CASE i.op \in DOMAIN FpToIntKind
    <2> DEFINE g == sf.r % WordMod
               res == do_fcvt_int(i.fmt, a, FpToIntKind[i.op], sf_rm(x, i.rm), g)
    <2>1. r = WriteInt(x, i.rd, res)
      BY <1>20, <1>10 DEF r8
    <2>2. g \in Word
      BY <1>2, WordFacts DEF ToWord
    <2> HIDE DEF g
    <2>3. res.r \in Word /\ res.flags \in SUBSET FlagNames
      BY <2>2, ToIntType
    <2> HIDE DEF res
    <2> QED
      BY <2>1, <2>3, WriteIntOK
  <1>11. CASE i.op \in IntToFpOps
    <2> DEFINE res == [sf EXCEPT !.r = @ % 2 ^ FmtWidth(i.fmt)]
    <2>1. r = WriteFp(x, i.fmt, i.rd, res)
      BY <1>20, <1>11 DEF r9
    <2>2. res.r = sf.r % 2 ^ FmtWidth(i.fmt) /\ res.flags = sf.flags
      BY DEF SoftFloatResult
    <2> HIDE DEF res
    <2>3. res.r \in Floats(i.fmt) /\ res.flags \in SUBSET FlagNames
      BY <1>2, <2>2, LowBits
    <2> QED
      BY <2>1, <2>3, WriteFpOK
  <1>12. CASE i.op = "fcvt_fp_fp"
    <2>1. r = WriteFp(x, i.fmt, i.rd, fcvt_fp_fp(i.fmt, sf))
      BY <1>20, <1>12 DEF r10
    <2> QED
      BY <2>1, ArithType, WriteFpOK
  <1> QED
    BY <1>3, <1>4, <1>5, <1>6, <1>7, <1>8, <1>9, <1>10, <1>11, <1>12 DEF FpOps

\* A floating-point load, ...
LEMMA FpLoadOK ==
    ASSUME NEW x \in MachineState, NEW op \in DOMAIN LoadFormat, NEW imm \in Word,
           NEW rs1 \in 0 .. 31, NEW rd \in 0 .. 31
    PROVE  LET r == insf_load(x, op, imm, rs1, rd)
           IN  FpStep(x, r, LoadFormat[op], rd) /\ SameBut(x, r, {"fpr"})
  <1> DEFINE addr == ToWord(reg_read(x, rs1) + imm)
             fmt == LoadFormat[op]
             v == IF addr \in DOMAIN x.fmem THEN x.fmem[addr] % 2 ^ FmtWidth(fmt) ELSE 0
  <1>1. fmt \in Formats
    BY DEF LoadFormat, Formats
  <1>2. insf_load(x, op, imm, rs1, rd) = fpr_write(x, fmt, rd, v)
    BY DEF insf_load
  <1>3. addr \in DOMAIN x.fmem => x.fmem[addr] \in Int
    BY DEF MachineState, Lanes
  <1> HIDE DEF fmt, addr
  <1>4. 0 \in Floats(fmt)
    BY <1>1, LaneSize DEF Floats
  <1>5. v \in Floats(fmt)
    BY <1>1, <1>3, <1>4, LowBits
  <1> HIDE DEF v
  <1> QED
    BY <1>1, <1>2, <1>5, FprWriteOK DEF fmt

\* ... and a store.
LEMMA FpStoreOK ==
    ASSUME NEW x \in MachineState, NEW op \in DOMAIN StoreFormat, NEW imm \in Word,
           NEW rs1 \in 0 .. 31, NEW rs2 \in 0 .. 31
    PROVE  LET r == insf_store(x, op, imm, rs1, rs2)
           IN  r \in MachineState /\ SameBut(x, r, {"fmem"})
  <1> DEFINE addr == ToWord(reg_read(x, rs1) + imm)
             fmt == StoreFormat[op]
             W == 2 ^ FmtWidth(fmt)
             old == x.fmem[addr]
             v == fpr_read(x, fmt, rs2)
             new == old - (old % W) + v
             r == insf_store(x, op, imm, rs1, rs2)
  <1>1. fmt \in Formats
    BY DEF StoreFormat, Formats
  <1>2. r = IF addr \notin DOMAIN x.fmem THEN x ELSE [x EXCEPT !.fmem[addr] = new]
    BY DEF insf_store
  <1> DEFINE A == {a \in 0 .. MemSize - 1 : a % 4 = 0}
  <1>3. x.fmem \in [A -> Lanes]
    BY DEF MachineState
  <1>4. v \in Floats(fmt)
    BY <1>1, FprRead
  <1>5. addr \in A => new \in Lanes
    <2> SUFFICES ASSUME addr \in A PROVE new \in Lanes
      OBVIOUS
    <2>1. W \in Nat /\ W >= 1
      BY <1>1, LaneSize
    <2>2. PICK n \in Nat : n >= 1 /\ LaneMod = W * n
      BY <1>1, LaneSize
    <2>3. v \in 0 .. W - 1
      BY <1>4 DEF Floats
    <2> HIDE DEF A
    <2>4. old \in 0 .. W * n - 1
      BY <1>3, <2>2 DEF Lanes
    <2> HIDE DEF W, old, v
    <2> DEFINE q == old \div W
               s == old % W
    <2>5. old \in Int
      BY <2>1, <2>4
    <2>6. old = W * q + s /\ q \in Int /\ s \in 0 .. W - 1
      BY <2>1, <2>5, DivMod
    <2> HIDE DEF q, s
    <2>7. q <= n - 1 /\ q >= 0
      <3>1. ASSUME q >= n PROVE FALSE
        <4>1. W * q >= W * n
          BY <2>1, <2>2, <2>6, <3>1
        <4> QED
          BY <2>1, <2>2, <2>4, <2>6, <4>1
      <3>2. ASSUME q <= -1 PROVE FALSE
        <4>1. W * q <= W * (-1)
          BY <2>1, <2>6, <3>2
        <4> QED
          BY <2>1, <2>4, <2>6, <4>1
      <3> QED
        BY <2>2, <2>6, <3>1, <3>2
    <2>8. W * q <= W * (n - 1) /\ W * (n - 1) = W * n - W /\ W * q \in Nat
      BY <2>1, <2>2, <2>6, <2>7
    <2>9. old - s + v = W * q + v
      BY <2>1, <2>3, <2>6, <2>8
    <2>10. W * q + v \in 0 .. W * n - 1
      BY <2>1, <2>2, <2>3, <2>8
    <2> QED
      BY <2>2, <2>9, <2>10 DEF Lanes, s
  <1> HIDE DEF addr, new, r
  <1>6. addr \in A => [x.fmem EXCEPT ![addr] = new] \in [A -> Lanes]
    BY <1>3, <1>5
  <1> DEFINE g == [x.fmem EXCEPT ![addr] = new]
  <1>7. r = IF addr \notin A THEN x ELSE [x EXCEPT !.fmem = g]
    BY <1>2, <1>3 DEF MachineState
  <1>8. addr \in A => g \in [A -> Lanes]
    BY <1>6
  <1> HIDE DEF g
  <1>9. r \in MachineState /\ SameBut(x, r, {"fmem"})
    BY <1>7, <1>8 DEF MachineState, SameBut, Frame
  <1> QED
    BY <1>9 DEF r


-----------------------------------------------------------------------------
\* exec.

FpuOps == DOMAIN LoadFormat \union FpOps
TrapOps == LoadOps \union StoreOps \union BranchOps
             \union {"jal", "jalr", "ecall", "ebreak", "sret", "sfence_vma", "illegal"}
QuietOps == RegisterOps \union MulDivOps \union ZicondOps \union ImmediateOps
              \union {"lui", "auipc", "fatal", "fence", "fence_i", "wfi", "sctrclr"}
              \union DOMAIN StoreFormat
ExecutedOps == FpuOps \union TrapOps \union QuietOps \union {"mret", "mnret"}

\* An instruction as exec's handlers take it.
IsInstruction(i) ==
    /\ i.op \in ExecutedOps
    /\ i.rd \in 0 .. 31 /\ i.rs1 \in 0 .. 31 /\ i.rs2 \in 0 .. 31 /\ i.imm \in Word
    /\ i.op \in FpOps => i.fmt \in Formats

\* Which handler runs.
LEMMA ExecuteIs ==
    ASSUME NEW x, NEW i, NEW sf
    PROVE  LET v1 == reg_read(x, i.rs1)
               v2 == reg_read(x, i.rs2)
               r == Execute(x, i, sf)
           IN  /\ i.op \in RegisterOps => r = reg_write(x, i.rd, insi_r(i.op, v1, v2))
               /\ i.op \in MulDivOps => r = reg_write(x, i.rd, insm_r(i.op, v1, v2))
               /\ i.op \in ZicondOps => r = reg_write(x, i.rd, ins_zicond(i.op, v1, v2))
               /\ i.op \in ImmediateOps => r = reg_write(x, i.rd, insi_i(i.op, v1, i.imm))
               /\ i.op \in LoadOps => r = insi_i_load(x, i.op, i.imm, i.rs1, i.rd)
               /\ i.op \in StoreOps => r = insi_s_store(x, i.op, i.imm, i.rs2, i.rs1)
               /\ i.op \in BranchOps => r = insi_b(x, i.op, i.imm, i.rs2, i.rs1)
               /\ i.op = "jal" => r = insi_j_jal(x, i.imm, i.rd)
               /\ i.op = "jalr" => r = insi_i_jalr(x, i.imm, i.rs1, i.rd)
               /\ i.op = "lui" => r = insi_u_lui(x, i.imm, i.rd)
               /\ i.op = "auipc" => r = insi_u_auipc(x, i.imm, i.rd)
               /\ i.op = "ecall" => r = Ecall(x)
               /\ i.op = "ebreak" => r = insi_i_ebreak(x)
               /\ i.op \in {"mret", "mnret"} => r = [x EXCEPT !.h = ins_mret(@)]
               /\ i.op = "sret" => r = [x EXCEPT !.h = ins_sret(@)]
               /\ i.op = "sfence_vma" => r = [x EXCEPT !.h = ins_sfence_vma(@)]
               /\ i.op \in {"fence", "fence_i", "wfi", "sctrclr"} => r = x
               /\ i.op \in DOMAIN LoadFormat => r = insf_load(x, i.op, i.imm, i.rs1, i.rd)
               /\ i.op \in DOMAIN StoreFormat => r = insf_store(x, i.op, i.imm, i.rs1, i.rs2)
               /\ i.op \in FpOps => r = insf_r_fpop(x, i, sf)
               /\ i.op = "illegal" => r = raise_illegal(x)
               /\ i.op = "fatal" => r = fatal(x)
  <1> DEFINE v1 == reg_read(x, i.rs1)
             v2 == reg_read(x, i.rs2)
             r == Execute(x, i, sf)
             e1 == reg_write(x, i.rd, insi_r(i.op, v1, v2))
             e2 == reg_write(x, i.rd, insm_r(i.op, v1, v2))
             e3 == reg_write(x, i.rd, ins_zicond(i.op, v1, v2))
             e4 == reg_write(x, i.rd, insi_i(i.op, v1, i.imm))
             e5 == insi_i_load(x, i.op, i.imm, i.rs1, i.rd)
             e6 == insi_s_store(x, i.op, i.imm, i.rs2, i.rs1)
             e7 == insi_b(x, i.op, i.imm, i.rs2, i.rs1)
             e8 == insi_j_jal(x, i.imm, i.rd)
             e9 == insi_i_jalr(x, i.imm, i.rs1, i.rd)
             e10 == insi_u_lui(x, i.imm, i.rd)
             e11 == insi_u_auipc(x, i.imm, i.rd)
             e12 == Ecall(x)
             e13 == insi_i_ebreak(x)
             e14 == [x EXCEPT !.h = ins_mret(@)]
             e15 == [x EXCEPT !.h = ins_sret(@)]
             e16 == [x EXCEPT !.h = ins_sfence_vma(@)]
             e17 == insf_load(x, i.op, i.imm, i.rs1, i.rd)
             e18 == insf_store(x, i.op, i.imm, i.rs1, i.rs2)
             e19 == insf_r_fpop(x, i, sf)
             e20 == raise_illegal(x)
             e21 == fatal(x)
             op == i.op
  <1>1. r = CASE op \in RegisterOps -> e1
              [] op \in MulDivOps -> e2
              [] op \in ZicondOps -> e3
              [] op \in ImmediateOps -> e4
              [] op \in LoadOps -> e5
              [] op \in StoreOps -> e6
              [] op \in BranchOps -> e7
              [] op = "jal" -> e8
              [] op = "jalr" -> e9
              [] op = "lui" -> e10
              [] op = "auipc" -> e11
              [] op = "ecall" -> e12
              [] op = "ebreak" -> e13
              [] op \in {"mret", "mnret"} -> e14
              [] op = "sret" -> e15
              [] op = "sfence_vma" -> e16
              [] op \in {"fence", "fence_i", "wfi", "sctrclr"} -> x
              [] op \in DOMAIN LoadFormat -> e17
              [] op \in DOMAIN StoreFormat -> e18
              [] op \in FpOps -> e19
              [] op = "illegal" -> e20
              [] op = "fatal" -> e21
    BY DEF Execute
  <1> HIDE DEF r, e1, e2, e3, e4, e5, e6, e7, e8, e9, e10, e11, e12, e13, e14, e15, e16, e17, e18,
               e19, e20, e21, op
  <1> USE DEF RegisterOps, MulDivOps, ZicondOps, ImmediateOps, ImmediateForm, LoadOps, LoadBytes,
              StoreOps, StoreBytes, BranchOps, LoadFormat, StoreFormat, FpOps, ArithOps,
              SgnjOps, MinMaxOps, CompareOps, FpToIntKind, IntToFpOps
  <1>2. op \in RegisterOps => r = e1
    BY <1>1
  <1>3. op \in MulDivOps => r = e2
    BY <1>1
  <1>4. op \in ZicondOps => r = e3
    BY <1>1
  <1>5. op \in ImmediateOps => r = e4
    BY <1>1
  <1>6. op \in LoadOps => r = e5
    BY <1>1
  <1>7. op \in StoreOps => r = e6
    BY <1>1
  <1>8. op \in BranchOps => r = e7
    BY <1>1
  <1>9. /\ op = "jal" => r = e8
        /\ op = "jalr" => r = e9
        /\ op = "lui" => r = e10
        /\ op = "auipc" => r = e11
        /\ op = "ecall" => r = e12
        /\ op = "ebreak" => r = e13
        /\ op = "illegal" => r = e20
        /\ op = "fatal" => r = e21
    BY <1>1
  <1>10. /\ op \in {"mret", "mnret"} => r = e14
         /\ op = "sret" => r = e15
         /\ op = "sfence_vma" => r = e16
         /\ op \in {"fence", "fence_i", "wfi", "sctrclr"} => r = x
    BY <1>1
  <1>11. op \in DOMAIN LoadFormat => r = e17
    BY <1>1
  <1>12. op \in DOMAIN StoreFormat => r = e18
    BY <1>1
  <1>13. op \in FpOps => r = e19
    BY <1>1
  <1> QED
    BY <1>2, <1>3, <1>4, <1>5, <1>6, <1>7, <1>8, <1>9, <1>10, <1>11, <1>12, <1>13
       DEF r, e1, e2, e3, e4, e5, e6, e7, e8, e9, e10, e11, e12, e13, e14, e15, e16, e17, e18,
           e19, e20, e21, op


\* The operations that take no trap and leave the floating-point unit alone.
LEMMA QuietOutcome ==
    ASSUME NEW x \in MachineState, NEW i, NEW sf, IsInstruction(i), i.op \in QuietOps
    PROVE  Outcome(x, Execute(x, i, sf), -1, x.h.pc) /\ Execute(x, i, sf).h = x.h
  <1> DEFINE r == Execute(x, i, sf)
             Kept == SameBut(x, r, {"gpr"}) \/ SameBut(x, r, {"running"}) \/ SameBut(x, r, {"fmem"})
  <1> SUFFICES r \in MachineState /\ Kept
    <2> HIDE DEF r
    <2>1. ASSUME Kept PROVE NoTrap(x, r) /\ FpuSame(x, r) /\ r.h = x.h
      BY <2>1 DEF NoTrap, FpuSame, SameBut, Frame
    <2> QED
      BY <2>1 DEF Outcome, r
  <1> USE DEF IsInstruction
  <1>1. reg_read(x, i.rs1) \in Word /\ reg_read(x, i.rs2) \in Word
    BY RegRead
  <1>2. ASSUME NEW d \in Word, r = reg_write(x, i.rd, d)
        PROVE  r \in MachineState /\ SameBut(x, r, {"gpr"})
    <2>1. i.rd \in 0 .. 31
      OBVIOUS
    <2> HIDE DEF r
    <2> QED
      BY <1>2, <2>1, RegWrite
  <1>3. CASE i.op \in RegisterOps
    BY <1>1, <1>2, <1>3, ExecuteIs, RegisterOpType
  <1>4. CASE i.op \in MulDivOps
    BY <1>1, <1>2, <1>4, ExecuteIs, MulDivOpType
  <1>5. CASE i.op \in ZicondOps
    <2>1. ins_zicond(i.op, reg_read(x, i.rs1), reg_read(x, i.rs2)) \in Word
      BY <1>1, WordFacts DEF ins_zicond
    <2> QED
      BY <1>2, <1>5, <2>1, ExecuteIs
  <1>6. CASE i.op \in ImmediateOps
    BY <1>1, <1>2, <1>6, ExecuteIs, ImmediateOpType
  <1>7. CASE i.op \in {"lui", "auipc"}
    <2>1. r = insi_u_lui(x, i.imm, i.rd) \/ r = insi_u_auipc(x, i.imm, i.rd)
      BY <1>7, ExecuteIs
    <2>2. i.rd \in 0 .. 31 /\ i.imm \in Word
      OBVIOUS
    <2> HIDE DEF r
    <2> QED
      BY <2>1, <2>2, UpperOK
  <1>8. CASE i.op \in {"fence", "fence_i", "wfi", "sctrclr"}
    <2>1. r = x
      BY <1>8, ExecuteIs
    <2>2. SameBut(x, r, {"gpr"})
      BY <2>1 DEF SameBut
    <2> QED
      BY <2>1, <2>2
  <1>9. CASE i.op = "fatal"
    <2>1. r = [x EXCEPT !.running = "fatal"]
      BY <1>9, ExecuteIs DEF fatal
    <2> HIDE DEF r
    <2> QED
      BY <2>1, SetRunning
  <1>10. CASE i.op \in DOMAIN StoreFormat
    <2>1. r = insf_store(x, i.op, i.imm, i.rs1, i.rs2)
      BY <1>10, ExecuteIs
    <2>2. i.rs1 \in 0 .. 31 /\ i.rs2 \in 0 .. 31 /\ i.imm \in Word
      OBVIOUS
    <2> HIDE DEF r
    <2> QED
      BY <1>10, <2>1, <2>2, FpStoreOK
  <1> QED
    BY <1>3, <1>4, <1>5, <1>6, <1>7, <1>8, <1>9, <1>10 DEF QuietOps

\* The trap an instruction owes once exec has called its handler.
OpDue(x, i) ==
    LET addr == ToWord(reg_read(x, i.rs1) + i.imm)
    IN  CASE i.op = "illegal" \/ Forbidden(x.h, i.op) -> CAUSE_ILLEGAL_INSTRUCTION
          [] i.op = "ebreak" -> CAUSE_BREAKPOINT
          [] i.op = "ecall" -> EcallDue(x)
          [] i.op \in LoadOps -> LoadDue(x, i.op, addr)
          [] i.op \in StoreOps -> StoreDue(x, i.op, addr)
          [] i.op = "jal" -> FetchDue(x, AddrPlus(x.h.pc, i.imm))
          [] i.op = "jalr" -> FetchDue(x, JalrTarget(x, i.imm, i.rs1))
          [] i.op \in BranchOps -> BranchDue(x, i.op, i.imm, i.rs2, i.rs1)
          [] OTHER -> -1

\* Its value by operation.
LEMMA OpDueIs ==
    ASSUME NEW x, NEW i
    PROVE  LET addr == ToWord(reg_read(x, i.rs1) + i.imm)
               due == OpDue(x, i)
           IN  /\ i.op = "illegal" => due = CAUSE_ILLEGAL_INSTRUCTION
               /\ i.op \in {"sret", "sfence_vma"} =>
                      due = IF Forbidden(x.h, i.op) THEN CAUSE_ILLEGAL_INSTRUCTION ELSE -1
               /\ i.op = "ebreak" => due = CAUSE_BREAKPOINT
               /\ i.op = "ecall" => due = EcallDue(x)
               /\ i.op \in LoadOps => due = LoadDue(x, i.op, addr)
               /\ i.op \in StoreOps => due = StoreDue(x, i.op, addr)
               /\ i.op = "jal" => due = FetchDue(x, AddrPlus(x.h.pc, i.imm))
               /\ i.op = "jalr" => due = FetchDue(x, JalrTarget(x, i.imm, i.rs1))
               /\ i.op \in BranchOps => due = BranchDue(x, i.op, i.imm, i.rs2, i.rs1)
               /\ i.op \notin TrapOps => due = -1
  <1> DEFINE op == i.op
             d5 == LoadDue(x, i.op, ToWord(reg_read(x, i.rs1) + i.imm))
             d6 == StoreDue(x, i.op, ToWord(reg_read(x, i.rs1) + i.imm))
             d7 == FetchDue(x, AddrPlus(x.h.pc, i.imm))
             d8 == FetchDue(x, JalrTarget(x, i.imm, i.rs1))
             d9 == BranchDue(x, i.op, i.imm, i.rs2, i.rs1)
             d4 == EcallDue(x)
             f == Forbidden(x.h, i.op)
             due == OpDue(x, i)
  <1>1. due = CASE op = "illegal" \/ f -> CAUSE_ILLEGAL_INSTRUCTION
                [] op = "ebreak" -> CAUSE_BREAKPOINT
                [] op = "ecall" -> d4
                [] op \in LoadOps -> d5
                [] op \in StoreOps -> d6
                [] op = "jal" -> d7
                [] op = "jalr" -> d8
                [] op \in BranchOps -> d9
                [] OTHER -> -1
    BY DEF OpDue
  <1>2. f => op \in {"sret", "sfence_vma"}
    BY DEF Forbidden
  <1>5. f \in BOOLEAN
    BY DEF Forbidden
  <1> HIDE DEF op, d4, d5, d6, d7, d8, d9, f, due
  <1>3. /\ op = "illegal" => due = CAUSE_ILLEGAL_INSTRUCTION
        /\ op \in {"sret", "sfence_vma"} => due = IF f THEN CAUSE_ILLEGAL_INSTRUCTION ELSE -1
        /\ op = "ebreak" => due = CAUSE_BREAKPOINT
        /\ op = "ecall" => due = d4
        /\ op \in LoadOps => due = d5
        /\ op \in StoreOps => due = d6
        /\ op = "jal" => due = d7
        /\ op = "jalr" => due = d8
        /\ op \in BranchOps => due = d9
        /\ op \notin TrapOps => due = -1
    BY <1>1, <1>2, <1>5 DEF LoadOps, LoadBytes, StoreOps, StoreBytes, BranchOps, TrapOps
  <1> QED
    BY <1>3 DEF op, d4, d5, d6, d7, d8, d9, f, due

\* Every operation outside the floating-point unit traps as it owes, or not.
LEMMA ExecuteOutcome ==
    ASSUME NEW x \in MachineState, NEW i, NEW sf, IsInstruction(i), i.op \notin FpuOps
    PROVE  Outcome(x, Execute(x, i, sf), OpDue(x, i), x.h.pc)
  <1> DEFINE r == Execute(x, i, sf)
             due == OpDue(x, i)
  <1>1. i.rd \in 0 .. 31 /\ i.rs1 \in 0 .. 31 /\ i.rs2 \in 0 .. 31 /\ i.imm \in Word
    BY DEF IsInstruction
  <1>2. CASE i.op \in LoadOps
    <2>1. /\ r \in MachineState
          /\ IF due = -1 THEN SameBut(x, r, {"gpr"}) ELSE Trapped(x, r, due, x.h.pc)
      <3>1. r = insi_i_load(x, i.op, i.imm, i.rs1, i.rd)
        BY <1>2, ExecuteIs
      <3>2. due = LoadDue(x, i.op, ToWord(reg_read(x, i.rs1) + i.imm))
        BY <1>2, OpDueIs
      <3> HIDE DEF r, due
      <3> QED
        BY <1>1, <1>2, <3>1, <3>2, LoadOutcome
    <2> HIDE DEF r, due
    <2>2. Outcome(x, r, due, x.h.pc)
      BY <2>1 DEF Outcome, Trapped, NoTrap, FpuSame, SameBut, Frame
    <2> QED
      BY <2>2 DEF r, due
  <1>3. CASE i.op \in StoreOps
    <2>1. /\ r \in MachineState
          /\ IF due = -1 THEN SameBut(x, r, {"mem"}) ELSE Trapped(x, r, due, x.h.pc)
      <3>1. r = insi_s_store(x, i.op, i.imm, i.rs2, i.rs1)
        BY <1>3, ExecuteIs
      <3>2. due = StoreDue(x, i.op, ToWord(reg_read(x, i.rs1) + i.imm))
        BY <1>3, OpDueIs
      <3> HIDE DEF r, due
      <3> QED
        BY <1>1, <1>3, <3>1, <3>2, StoreOutcome
    <2> HIDE DEF r, due
    <2>2. Outcome(x, r, due, x.h.pc)
      BY <2>1 DEF Outcome, Trapped, NoTrap, FpuSame, SameBut, Frame
    <2> QED
      BY <2>2 DEF r, due
  <1>4. CASE i.op \in BranchOps
    BY <1>1, <1>4, ExecuteIs, OpDueIs, BranchOutcome
  <1>5. CASE i.op = "jal"
    BY <1>1, <1>5, ExecuteIs, OpDueIs, JalOutcome
  <1>6. CASE i.op = "jalr"
    BY <1>1, <1>6, ExecuteIs, OpDueIs, JalrOutcome
  <1>7. CASE i.op = "ecall"
    BY <1>7, ExecuteIs, OpDueIs, EcallOutcome
  <1>8. CASE i.op = "ebreak"
    BY <1>8, ExecuteIs, OpDueIs, RaiseHere, Causes DEF insi_i_ebreak
  <1>9. CASE i.op = "illegal"
    BY <1>9, ExecuteIs, OpDueIs, RaiseHere, Causes DEF raise_illegal
  <1>10. CASE i.op = "sret"
    BY <1>10, ExecuteIs, OpDueIs, SretOutcome
  <1>11. CASE i.op = "sfence_vma"
    BY <1>11, ExecuteIs, OpDueIs, SfenceOutcome
  <1>12. CASE i.op \in {"mret", "mnret"}
    <2>1. i.op \notin TrapOps
      BY <1>12 DEF TrapOps, LoadOps, LoadBytes, StoreOps, StoreBytes, BranchOps
    <2> QED
      BY <1>12, <2>1, ExecuteIs, OpDueIs, MretOutcome
  <1>13. CASE i.op \in QuietOps
    <2>1. i.op \notin TrapOps
      BY <1>13 DEF TrapOps, LoadOps, LoadBytes, StoreOps, StoreBytes, BranchOps, QuietOps,
                   RegisterOps, MulDivOps, ZicondOps, ImmediateOps, ImmediateForm, StoreFormat
    <2> QED
      BY <1>13, <2>1, OpDueIs, QuietOutcome
  <1>14. i.op \in TrapOps \union QuietOps \union {"mret", "mnret"}
    BY DEF IsInstruction, ExecutedOps
  <1> HIDE DEF r, due
  <1> QED
    BY <1>2, <1>3, <1>4, <1>5, <1>6, <1>7, <1>8, <1>9, <1>10, <1>11, <1>12, <1>13, <1>14
       DEF TrapOps, r, due

\* Those of the unit never trap.
LEMMA ExecuteFpu ==
    ASSUME NEW x \in MachineState, NEW i, NEW sf \in SoftFloatResult, IsInstruction(i),
           i.op \in FpuOps
    PROVE  /\ FpStep(x, Execute(x, i, sf), DestFormat(i), i.rd)
           /\ OpDue(x, i) = -1
  <1>1. i.rd \in 0 .. 31 /\ i.rs1 \in 0 .. 31 /\ i.rs2 \in 0 .. 31 /\ i.imm \in Word
        /\ (i.op \in FpOps => i.fmt \in Formats)
    BY DEF IsInstruction
  <1>2. i.op \notin TrapOps /\ (i.op \in FpOps => i.op \notin DOMAIN LoadFormat)
    BY DEF TrapOps, LoadOps, LoadBytes, StoreOps, StoreBytes, BranchOps, FpuOps, LoadFormat,
           FpOps, ArithOps, SgnjOps, MinMaxOps, CompareOps, FpToIntKind, IntToFpOps
  <1>3. CASE i.op \in FpOps
    <2>1. DestFormat(i) = i.fmt
      BY <1>2, <1>3 DEF DestFormat
    <2> QED
      BY <1>1, <1>2, <1>3, <2>1, ExecuteIs, OpDueIs, FpOpOK
  <1>4. CASE i.op \in DOMAIN LoadFormat
    <2>1. DestFormat(i) = LoadFormat[i.op]
      BY <1>4 DEF DestFormat
    <2> QED
      BY <1>1, <1>2, <1>4, <2>1, ExecuteIs, OpDueIs, FpLoadOK
  <1> QED
    BY <1>3, <1>4 DEF FpuOps


-----------------------------------------------------------------------------
\* Every 32-bit word that exec handles itself names an operation it has.

\* The integer operations, ...
LEMMA DecodedInteger ==
    ASSUME NEW w \in Word32, w.opcode \in {\b0110011, \b0010011}
    PROVE  exec_op(w) \in ExecutedOps \ FpuOps
  <1>1. w.funct3 \in 0 .. 7
    BY DEF Word32
  <1>2. exec_op(w) \in RegisterOps \union MulDivOps \union ZicondOps \union ImmediateOps
                         \union {"fatal", "illegal"}
    <2>1. CASE w.opcode = \b0110011
      BY <1>1, <2>1 DEF exec_op, exec_r, m_ins_optable, RegisterOps, MulDivOps, ZicondOps
    <2>2. CASE w.opcode = \b0010011
      BY <1>1, <2>2 DEF exec_op, exec_imm, ImmediateOps, ImmediateForm
    <2> QED
      BY <2>1, <2>2
  <1>3. (RegisterOps \union MulDivOps \union ZicondOps \union ImmediateOps
           \union {"fatal", "illegal"}) \cap FpuOps = {}
    BY DEF FpuOps, LoadFormat, FpOps, ArithOps, SgnjOps, MinMaxOps, CompareOps, FpToIntKind,
           IntToFpOps, RegisterOps, MulDivOps, ZicondOps, ImmediateOps, ImmediateForm
  <1> QED
    BY <1>2, <1>3 DEF ExecutedOps, QuietOps, TrapOps

\* ... loads, stores, branches, jumps and system instructions, ...
LEMMA DecodedControl ==
    ASSUME NEW w \in Word32, ~HasOwnModule(w),
           w.opcode \in {\b0000011, \b0100011, \b1100011, \b1110011, \b0001111, \b1101111,
                         \b0110111, \b0010111, \b1100111, \b0100111}
    PROVE  exec_op(w) \in ExecutedOps \ FpuOps
  <1> DEFINE ops == LoadOps \union StoreOps \union BranchOps \union DOMAIN StoreFormat
                      \union {"jal", "jalr", "lui", "auipc", "ecall", "ebreak", "sret", "mret", "mnret",
                              "sctrclr", "wfi", "sfence_vma", "fence", "fence_i", "fatal"}
  <1>0. ops \cap FpuOps = {}
    BY DEF FpuOps, LoadFormat, FpOps, ArithOps, SgnjOps, MinMaxOps, CompareOps, FpToIntKind,
           IntToFpOps, LoadOps, LoadBytes, StoreOps, StoreBytes, BranchOps, StoreFormat
  <1> SUFFICES exec_op(w) \in ops
    BY <1>0 DEF ExecutedOps, QuietOps, TrapOps
  <1>1. w.funct3 \in 0 .. 7
    BY DEF Word32
  <1>2. CASE w.opcode \in {\b0000011, \b0100011, \b0100111}
    BY <1>1, <1>2 DEF exec_op, exec_load, exec_store, exec_fstore, Entry, LoadOps, LoadBytes,
                      StoreOps, StoreBytes, StoreFormat
  <1>3. CASE w.opcode = \b1100011
    BY <1>1, <1>3 DEF exec_op, exec_branch, BranchOps
  <1>4. CASE w.opcode = \b1110011
    <2>1. w.funct3 = 0
      BY <1>4 DEF HasOwnModule
    <2> QED
      BY <1>4, <2>1 DEF exec_op, exec_system, exec_sfence
  <1>5. CASE w.opcode \in {\b0001111, \b1101111, \b0110111, \b0010111, \b1100111}
    BY <1>1, <1>5 DEF exec_op, exec_fence, Entry
  <1> QED
    BY <1>2, <1>3, <1>4, <1>5

\* ... and floating-point words.
LEMMA DecodedFloat ==
    ASSUME NEW w \in Word32,
           w.opcode \in {\b0000111, \b1000011, \b1000111, \b1001011, \b1001111, \b1010011}
    PROVE  exec_op(w) \in FpuOps \union {"fatal"}
  <1>1. w.funct3 \in 0 .. 7
    BY DEF Word32
  <1>2. CASE w.opcode = \b0000111
    BY <1>1, <1>2 DEF exec_op, exec_fload, Entry, LoadFormat, FpuOps
  <1>3. CASE w.opcode \in {\b1000011, \b1000111, \b1001011, \b1001111}
    BY <1>3 DEF exec_op, FpuOps, FpOps, ArithOps
  <1>4. CASE w.opcode = \b1010011
    <2>1. exec_op(w) = exec_fpop(w)
      BY <1>4 DEF exec_op
    <2>2. w.rs2 \in 0 .. 31
      BY DEF Word32
    <2>3. exec_fpop(w) \in FpOps \union {"fatal"}
      BY <1>1, <2>2 DEF exec_fpop, Entry, FpOps, ArithOps, SgnjOps, MinMaxOps, CompareOps,
                        FpToIntKind, IntToFpOps
    <2> QED
      BY <2>1, <2>3 DEF FpuOps
  <1> QED
    BY <1>2, <1>3, <1>4

\* A word as its handler gets it.
LEMMA DecodedOK ==
    ASSUME NEW w \in Word32, ~HasOwnModule(w)
    PROVE  IsInstruction(Decoded(w))
  <1>1. exec_op(w) \in ExecutedOps
    <2>1. CASE w.opcode \in {\b0110011, \b0010011}
      BY <2>1, DecodedInteger
    <2>2. CASE w.opcode \in {\b0000011, \b0100011, \b1100011, \b1110011, \b0001111, \b1101111,
                             \b0110111, \b0010111, \b1100111, \b0100111}
      BY <2>2, DecodedControl
    <2>3. CASE w.opcode \in {\b0000111, \b1000011, \b1000111, \b1001011, \b1001111, \b1010011}
      BY <2>3, DecodedFloat DEF ExecutedOps, QuietOps
    <2>4. CASE w.opcode \notin {\b0110011, \b0010011, \b0000011, \b0100011, \b1100011, \b1110011,
                                \b0001111, \b1101111, \b0110111, \b0010111, \b1100111, \b0100111,
                                \b0000111, \b1000011, \b1000111, \b1001011, \b1001111, \b1010011}
      <3>1. exec_op(w) = "illegal"
        BY <2>4 DEF exec_op, HasOwnModule
      <3> QED
        BY <3>1 DEF ExecutedOps, TrapOps
    <2> QED
      BY <2>1, <2>2, <2>3, <2>4
  <1>2. /\ w.rd \in 0 .. 31 /\ w.rs1 \in 0 .. 31 /\ w.rs2 \in 0 .. 31 /\ w.imm \in Word
        /\ w.funct7 \in 0 .. 127
    BY DEF Word32
  <1>3. Fmt(w) \in Formats
    BY <1>2 DEF Fmt, Formats, S, D, H, Q
  <1>4. LET i == Decoded(w)
        IN  i.op = exec_op(w) /\ i.rd = w.rd /\ i.rs1 = w.rs1 /\ i.rs2 = w.rs2 /\ i.imm = w.imm
              /\ i.fmt = Fmt(w)
    BY DEF Decoded
  <1> QED
    BY <1>1, <1>2, <1>3, <1>4 DEF IsInstruction


-----------------------------------------------------------------------------
\* The compressed instructions against their expansions.

\* The fields of an expansion.
LEMMA InsFields ==
    ASSUME NEW op, NEW rd, NEW rs1, NEW rs2, NEW imm
    PROVE  LET e == Ins(op, rd, rs1, rs2, imm)
           IN  e.op = op /\ e.rd = rd /\ e.rs1 = rs1 /\ e.rs2 = rs2 /\ e.imm = imm
  BY DEF Ins

\* The fields of a halfword.
LEMMA HalfFields ==
    ASSUME NEW c \in Half16
    PROVE  /\ c.q \in {0, 1, 2} /\ c.f3 \in {0, 1, 2, 3, 4, 5, 6, 7} /\ c.bit12 \in {0, 1}
           /\ c.rd \in 0 .. 31 /\ c.rs2 \in 0 .. 31 /\ c.rdp \in 0 .. 31 /\ c.rs2p \in 0 .. 31
           /\ c.funct2 \in {0, 1, 2, 3} /\ c.alu \in {0, 1, 2, 3} /\ c.imm \in Word
           /\ c.b5 \in 0 .. 1 /\ c.b6 \in 0 .. 1 /\ c.b12_10 \in 0 .. 7
  <1>1. /\ c.q \in 0 .. 2 /\ c.f3 \in 0 .. 7 /\ c.bit12 \in {0, 1} /\ c.rd \in 0 .. 31
        /\ c.rs2 \in 0 .. 31 /\ c.rdp \in 8 .. 15 /\ c.rs2p \in 8 .. 15 /\ c.funct2 \in 0 .. 3
        /\ c.alu \in 0 .. 3 /\ c.imm \in Word /\ c.b5 \in {0, 1} /\ c.b6 \in {0, 1}
        /\ c.b12_10 \in 0 .. 7
    BY DEF Half16
  <1> QED
    BY <1>1

\* The immediate of a double access where the architecture has it.
DoubleUimm(c) == ToWord(c.b6 * 128 + c.b5 * 64 + c.b12_10 * 8)

\* Both immediates are words; with c[6] = 0 they are the same.
LEMMA UimmFacts ==
    ASSUME NEW c \in Half16
    PROVE  /\ LoadStoreUimm(c) \in Word /\ DoubleUimm(c) \in Word
           /\ c.b6 # 1 => LoadStoreUimm(c) = DoubleUimm(c)
  <1>1. c.b5 \in 0 .. 1 /\ c.b6 \in 0 .. 1 /\ c.b12_10 \in 0 .. 7
    BY HalfFields
  <1>2. /\ c.b5 * 64 + c.b12_10 * 8 + c.b6 * 4 \in Int
        /\ c.b6 * 128 + c.b5 * 64 + c.b12_10 * 8 \in Int
        /\ c.b6 # 1 => c.b5 * 64 + c.b12_10 * 8 + c.b6 * 4
                          = c.b6 * 128 + c.b5 * 64 + c.b12_10 * 8
    BY <1>1
  <1> QED
    BY <1>2, WordFacts DEF LoadStoreUimm, DoubleUimm

ImmIns == {"addi", "srli", "srai", "andi", "slli"}
RegIns == {"add", "sub", "xor", "or", "and"}
AccessIns == {"lw", "sw", "fld", "flw", "fsd", "fsw"}

\* The result of an expansion that computes: op on rs1 and an immediate, ...
LEMMA ExpandImm ==
    ASSUME NEW x, NEW op \in ImmIns, NEW rd, NEW rs1, NEW imm, NEW sf
    PROVE  Execute(x, Ins(op, rd, rs1, 0, imm), sf) =
             reg_write(x, rd, insi_r(ImmediateForm[op], reg_read(x, rs1), imm))
  <1> DEFINE e == Ins(op, rd, rs1, 0, imm)
  <1>1. e.op = op /\ e.rd = rd /\ e.rs1 = rs1 /\ e.imm = imm
    BY InsFields
  <1>2. op \in ImmediateOps
    BY DEF ImmIns, ImmediateOps, ImmediateForm
  <1> HIDE DEF e
  <1>3. Execute(x, e, sf) = reg_write(x, e.rd, insi_i(e.op, reg_read(x, e.rs1), e.imm))
    BY <1>1, <1>2, ExecuteIs
  <1> QED
    BY <1>1, <1>3 DEF e, insi_i

\* ... or on two registers.
LEMMA ExpandReg ==
    ASSUME NEW x, NEW op \in RegIns, NEW rd, NEW rs1, NEW rs2, NEW sf
    PROVE  Execute(x, Ins(op, rd, rs1, rs2, 0), sf) =
             reg_write(x, rd, insi_r(op, reg_read(x, rs1), reg_read(x, rs2)))
  <1> DEFINE e == Ins(op, rd, rs1, rs2, 0)
  <1>1. e.op = op /\ e.rd = rd /\ e.rs1 = rs1 /\ e.rs2 = rs2
    BY InsFields
  <1>2. op \in RegisterOps
    BY DEF RegIns, RegisterOps
  <1> HIDE DEF e
  <1>3. Execute(x, e, sf) = reg_write(x, e.rd, insi_r(e.op, reg_read(x, e.rs1), reg_read(x, e.rs2)))
    BY <1>1, <1>2, ExecuteIs
  <1> QED
    BY <1>1, <1>3 DEF e

\* add and its immediate form.
LEMMA AddIs ==
    ASSUME NEW v1, NEW v2
    PROVE  insi_r("add", v1, v2) = ToWord(v1 + v2) /\ ImmediateForm["addi"] = "add"
  BY DEF insi_r, ImmediateForm

\* Nothing happens to x0, and adding 0 changes nothing.
LEMMA AddZero ==
    ASSUME NEW x \in MachineState, NEW v \in Word
    PROVE  reg_read(x, 0) = 0 /\ ToWord(0 + v) = v /\ reg_write(x, 0, v) = x
  <1>1. 0 + v = v
    BY WordFacts
  <1> QED
    BY <1>1, WordFacts DEF reg_read, reg_write

\* How exec_c_insn relates to the instruction a halfword abbreviates.
ActsAs(x, r, e, full) ==
    /\ e.op = "ebreak" => r = full
    /\ e.op \in AccessIns => r = UnlessTrapped(x, full)
    /\ e.op \in ImmIns \union RegIns \union {"lui"} => r = Sequential(full)
    /\ e.op \in {"beq", "bne"} =>
          r = IF Taken(e.op, reg_read(x, e.rs1), reg_read(x, e.rs2))
              THEN Jump(x, AddrPlus(x.h.pc, e.imm)) ELSE Sequential(x)
    /\ e.op = "jal" =>
          r = Jump(reg_write(x, e.rd, AddrPlus(x.h.pc, 2)), AddrPlus(x.h.pc, e.imm))
    /\ e.op = "jalr" =>
          LET linked == reg_write(x, e.rd, AddrPlus(x.h.pc, 2))
          IN  r = IfAligned(x, reg_read(x, e.rs1), Jump(linked, reg_read(linked, e.rs1)))

ExpansionOps == ImmIns \union RegIns \union AccessIns
                  \union {"lui", "beq", "bne", "jal", "jalr", "ebreak"}

IsExpansion(c, e) ==
    /\ e.op \in ExpansionOps
    /\ e.rd \in 0 .. 31 /\ e.rs1 \in 0 .. 31 /\ e.rs2 \in 0 .. 31 /\ e.imm \in Word
    /\ e.op \in {"jal", "beq", "bne"} => c.q = 1 /\ c.f3 \in {1, 5, 6, 7} /\ e.imm = c.imm
    /\ e.op = "jalr" => /\ c.q = 2 /\ c.f3 = 4 /\ c.rs2 = 0 /\ c.rd # 0 /\ e.imm = 0
                        /\ e.rs1 = c.rd /\ e.rd = c.bit12
    /\ e.op \in AccessIns => IsAccess(c)

HasOperands(e) ==
    e.rd \in 0 .. 31 /\ e.rs1 \in 0 .. 31 /\ e.rs2 \in 0 .. 31 /\ e.imm \in Word

\* Every halfword is refused or acts as an expansion; c.add x0 breaks.
Matches(x, c) ==
    LET e == Expansion(c)
        r == exec_c_insn(x, c)
    IN  \/ e.op = "none" /\ r = raise_illegal(x)
        \/ /\ e.op = "none" /\ r = Raise(x, CAUSE_BREAKPOINT)
           /\ c.q = 2 /\ c.f3 = 4 /\ c.rs2 # 0 /\ c.rd = 0 /\ c.bit12 = 1
        \/ IsExpansion(c, e) /\ ActsAs(x, r, e, Execute(x, e, NoResult))

\* A refused halfword.
LEMMA NoneMatches ==
    ASSUME NEW x, NEW c, Expansion(c) = Ins("none", 0, 0, 0, 0), exec_c_insn(x, c) = raise_illegal(x)
    PROVE  Matches(x, c)
  BY InsFields DEF Matches

\* A halfword that computes.
LEMMA ComputesMatches ==
    ASSUME NEW x, NEW c, Expansion(c).op \in ImmIns \union RegIns \union {"lui"},
           HasOperands(Expansion(c)),
           exec_c_insn(x, c) = Sequential(Execute(x, Expansion(c), NoResult))
    PROVE  Matches(x, c)
  <1> DEFINE e == Expansion(c)
             r == exec_c_insn(x, c)
  <1>1. e.op \notin AccessIns \union {"beq", "bne", "jal", "jalr", "ebreak"}
    BY DEF AccessIns, ImmIns, RegIns
  <1> HIDE DEF e, r
  <1>2. IsExpansion(c, e)
    BY <1>1 DEF e, IsExpansion, ExpansionOps, HasOperands
  <1>3. ActsAs(x, r, e, Execute(x, e, NoResult))
    BY <1>1 DEF e, r, ActsAs
  <1> QED
    BY <1>2, <1>3 DEF Matches, e, r

\* A load or a store.
LEMMA AccessMatches ==
    ASSUME NEW x, NEW c, Expansion(c).op \in AccessIns, HasOperands(Expansion(c)), IsAccess(c),
           exec_c_insn(x, c) = UnlessTrapped(x, Execute(x, Expansion(c), NoResult))
    PROVE  Matches(x, c)
  <1> DEFINE e == Expansion(c)
             r == exec_c_insn(x, c)
  <1>1. e.op \notin ImmIns \union RegIns \union {"lui", "beq", "bne", "jal", "jalr", "ebreak"}
    BY DEF AccessIns, ImmIns, RegIns
  <1> HIDE DEF e, r
  <1>2. IsExpansion(c, e)
    BY <1>1 DEF e, IsExpansion, ExpansionOps, HasOperands
  <1>3. ActsAs(x, r, e, Execute(x, e, NoResult))
    BY <1>1 DEF e, r, ActsAs
  <1> QED
    BY <1>2, <1>3 DEF Matches, e, r

\* The loads and stores that have a compressed form.
LEMMA ExpandAccess ==
    ASSUME NEW x, NEW rd, NEW rs1, NEW rs2, NEW imm, NEW sf
    PROVE  /\ Execute(x, Ins("lw", rd, rs1, rs2, imm), sf) = insi_i_load(x, "lw", imm, rs1, rd)
           /\ Execute(x, Ins("sw", rd, rs1, rs2, imm), sf) = insi_s_store(x, "sw", imm, rs2, rs1)
           /\ Execute(x, Ins("fld", rd, rs1, rs2, imm), sf) = insf_load(x, "fld", imm, rs1, rd)
           /\ Execute(x, Ins("flw", rd, rs1, rs2, imm), sf) = insf_load(x, "flw", imm, rs1, rd)
           /\ Execute(x, Ins("fsd", rd, rs1, rs2, imm), sf) = insf_store(x, "fsd", imm, rs1, rs2)
           /\ Execute(x, Ins("fsw", rd, rs1, rs2, imm), sf) = insf_store(x, "fsw", imm, rs1, rs2)
  <1>1. ASSUME NEW op
        PROVE  LET e == Ins(op, rd, rs1, rs2, imm)
               IN  /\ op \in LoadOps => Execute(x, e, sf) = insi_i_load(x, op, imm, rs1, rd)
                   /\ op \in StoreOps => Execute(x, e, sf) = insi_s_store(x, op, imm, rs2, rs1)
                   /\ op \in DOMAIN LoadFormat => Execute(x, e, sf) = insf_load(x, op, imm, rs1, rd)
                   /\ op \in DOMAIN StoreFormat => Execute(x, e, sf) = insf_store(x, op, imm, rs1, rs2)
    <2> DEFINE e == Ins(op, rd, rs1, rs2, imm)
    <2>1. e.op = op /\ e.rd = rd /\ e.rs1 = rs1 /\ e.rs2 = rs2 /\ e.imm = imm
      BY InsFields
    <2> HIDE DEF e
    <2>2. /\ op \in LoadOps => Execute(x, e, sf) = insi_i_load(x, op, imm, rs1, rd)
          /\ op \in StoreOps => Execute(x, e, sf) = insi_s_store(x, op, imm, rs2, rs1)
          /\ op \in DOMAIN LoadFormat => Execute(x, e, sf) = insf_load(x, op, imm, rs1, rd)
          /\ op \in DOMAIN StoreFormat => Execute(x, e, sf) = insf_store(x, op, imm, rs1, rs2)
      BY <2>1, ExecuteIs
    <2> QED
      BY <2>2 DEF e
  <1>2. /\ "lw" \in LoadOps /\ "sw" \in StoreOps
        /\ "fld" \in DOMAIN LoadFormat /\ "flw" \in DOMAIN LoadFormat
        /\ "fsd" \in DOMAIN StoreFormat /\ "fsw" \in DOMAIN StoreFormat
    BY DEF LoadOps, LoadBytes, StoreOps, StoreBytes, LoadFormat, StoreFormat
  <1> QED
    BY <1>1, <1>2

\* Quadrant 0 but c.fld and c.fsd.
LEMMA Matches0 ==
    ASSUME NEW x \in MachineState, NEW c \in Half16, c.q = 0, c.f3 \notin {1, 5}
    PROVE  Matches(x, c)
  <1>1. exec_c_insn(x, c) = Quadrant0(x, c)
    BY DEF exec_c_insn
  <1>2. /\ c.rdp \in 0 .. 31 /\ c.rs2p \in 0 .. 31 /\ c.imm \in Word /\ 0 \in 0 .. 31 /\ 2 \in 0 .. 31
        /\ c.f3 \in {0, 2, 3, 4, 6, 7} /\ LoadStoreUimm(c) \in Word
    BY HalfFields, UimmFacts
  <1>3. CASE c.f3 = 0 /\ c.imm = 0
    <2>1. Expansion(c) = Ins("none", 0, 0, 0, 0)
      BY <1>3 DEF Expansion
    <2>2. exec_c_insn(x, c) = raise_illegal(x)
      BY <1>1, <1>3 DEF Quadrant0
    <2> QED
      BY <2>1, <2>2, NoneMatches
  <1>4. CASE c.f3 = 0 /\ c.imm # 0
    <2>1. Expansion(c) = Ins("addi", c.rs2p, 2, 0, c.imm)
      BY <1>4 DEF Expansion
    <2>2. exec_c_insn(x, c) = Sequential(reg_write(x, c.rs2p, ToWord(reg_read(x, 2) + c.imm)))
      BY <1>1, <1>4 DEF Quadrant0
    <2>3. "addi" \in ImmIns
      BY DEF ImmIns
    <2>4. Execute(x, Ins("addi", c.rs2p, 2, 0, c.imm), NoResult) =
            reg_write(x, c.rs2p, ToWord(reg_read(x, 2) + c.imm))
      BY <2>3, ExpandImm, AddIs
    <2>5. Expansion(c).op = "addi" /\ HasOperands(Expansion(c))
      BY <1>2, <2>1, InsFields DEF HasOperands
    <2> QED
      BY <2>1, <2>2, <2>3, <2>4, <2>5, ComputesMatches
  <1>5. CASE c.f3 = 4
    <2>1. Expansion(c) = Ins("none", 0, 0, 0, 0)
      BY <1>5 DEF Expansion
    <2>2. exec_c_insn(x, c) = raise_illegal(x)
      BY <1>1, <1>5 DEF Quadrant0
    <2> QED
      BY <2>1, <2>2, NoneMatches
  <1>6. CASE c.f3 \in {2, 3}
    <2> DEFINE op == CASE c.f3 = 2 -> "lw" [] c.f3 = 3 -> "flw"
    <2>1. Expansion(c) = Ins(op, c.rs2p, c.rdp, 0, LoadStoreUimm(c))
      BY <1>6 DEF Expansion, LoadStoreUimm
    <2>2. exec_c_insn(x, c) =
              UnlessTrapped(x, Execute(x, Ins(op, c.rs2p, c.rdp, 0, LoadStoreUimm(c)), NoResult))
      BY <1>1, <1>6, ExpandAccess DEF Quadrant0
    <2>3. op \in AccessIns /\ IsAccess(c)
      BY <1>6 DEF AccessIns, IsAccess
    <2> HIDE DEF op
    <2>4. Expansion(c).op = op /\ HasOperands(Expansion(c))
      BY <1>2, <2>1, InsFields DEF HasOperands
    <2> QED
      BY <2>1, <2>2, <2>3, <2>4, AccessMatches
  <1>7. CASE c.f3 \in {6, 7}
    <2> DEFINE op == CASE c.f3 = 6 -> "sw" [] c.f3 = 7 -> "fsw"
    <2>1. Expansion(c) = Ins(op, 0, c.rdp, c.rs2p, LoadStoreUimm(c))
      BY <1>7 DEF Expansion, LoadStoreUimm
    <2>2. exec_c_insn(x, c) =
              UnlessTrapped(x, Execute(x, Ins(op, 0, c.rdp, c.rs2p, LoadStoreUimm(c)), NoResult))
      BY <1>1, <1>7, ExpandAccess DEF Quadrant0
    <2>3. op \in AccessIns /\ IsAccess(c)
      BY <1>7 DEF AccessIns, IsAccess
    <2> HIDE DEF op
    <2>4. Expansion(c).op = op /\ HasOperands(Expansion(c))
      BY <1>2, <2>1, InsFields DEF HasOperands
    <2> QED
      BY <2>1, <2>2, <2>3, <2>4, AccessMatches
  <1> QED
    BY <1>2, <1>3, <1>4, <1>5, <1>6, <1>7

IsDouble(c) == c.q = 0 /\ c.f3 \in {1, 5}

\* The instruction the code acts as: c.fld and c.fsd with the immediate of the
\* word accesses.
CodeExpansion(c) ==
    IF IsDouble(c) THEN [Expansion(c) EXCEPT !.imm = LoadStoreUimm(c)] ELSE Expansion(c)

\* The halfword has the expansion e, and acts as k, which differs in the
\* immediate where the halfword departs; a store leaves the registers alone.
ActsLike(x, c, e, k) ==
    /\ DestFormat(e) = DestFormat(k) \/ exec_c_insn(x, c).fpr = x.fpr
    /\ HasOperands(e) /\ e.op = k.op /\ e.rd = k.rd /\ (Departs(x, c) \/ k = e)
    /\ IsExpansion(c, k)
    /\ ActsAs(x, exec_c_insn(x, c), k, Execute(x, k, NoResult))

\* c.fld and c.fsd.
LEMMA DoubleMatches ==
    ASSUME NEW x \in MachineState, NEW c \in Half16, IsDouble(c)
    PROVE  ActsLike(x, c, Expansion(c), CodeExpansion(c))
  <1> DEFINE op == IF c.f3 = 1 THEN "fld" ELSE "fsd"
             rd == IF c.f3 = 1 THEN c.rs2p ELSE 0
             rs2 == IF c.f3 = 1 THEN 0 ELSE c.rs2p
             uimm == LoadStoreUimm(c)
             double == DoubleUimm(c)
             e == Ins(op, rd, c.rdp, rs2, double)
             k == Ins(op, rd, c.rdp, rs2, uimm)
             r == exec_c_insn(x, c)
             full == Execute(x, k, NoResult)
  <1>1. /\ c.rdp \in 0 .. 31 /\ c.rs2p \in 0 .. 31 /\ 0 \in 0 .. 31
        /\ uimm \in Word /\ double \in Word /\ (c.b6 # 1 => uimm = double)
    BY HalfFields, UimmFacts
  <1>2. Expansion(c) = e
    BY DEF Expansion, DoubleUimm, IsDouble
  <1>3. CodeExpansion(c) = k
    BY <1>2 DEF CodeExpansion, Ins
  <1>4. r = UnlessTrapped(x, full)
    <2>1. r = Quadrant0(x, c)
      BY DEF exec_c_insn, IsDouble
    <2> QED
      BY <2>1, ExpandAccess DEF Quadrant0, IsDouble
  <1>5. op \in AccessIns /\ IsAccess(c)
    BY DEF AccessIns, IsAccess, IsDouble
  <1>6. op \notin ImmIns \union RegIns \union {"lui", "beq", "bne", "jal", "jalr", "ebreak"}
    BY DEF ImmIns, RegIns
  <1>7. c.b6 = 1 => Departs(x, c)
    BY DEF Departs, IsDouble
  <1>8. rd \in 0 .. 31 /\ rs2 \in 0 .. 31
    BY <1>1
  <1>9. /\ e.op = op /\ e.rd = rd /\ e.rs1 = c.rdp /\ e.rs2 = rs2 /\ e.imm = double
        /\ k.op = op /\ k.rd = rd /\ k.rs1 = c.rdp /\ k.rs2 = rs2 /\ k.imm = uimm
    BY InsFields
  <1>10. uimm = double => k = e
    OBVIOUS
  <1>13. DestFormat(e) = DestFormat(k) \/ r.fpr = x.fpr
    <2>1. CASE c.f3 = 1
      BY <1>9, <2>1 DEF DestFormat, LoadFormat
    <2>2. CASE c.f3 = 5
      <3>1. "fsd" \in DOMAIN StoreFormat
        BY DEF StoreFormat
      <3>2. full = insf_store(x, "fsd", uimm, c.rdp, c.rs2p)
        BY <2>2, ExpandAccess
      <3> HIDE DEF full, r, uimm
      <3>3. full \in MachineState /\ FpuSame(x, full)
        BY <1>1, <3>1, <3>2, FpStoreOK, KeptFpu
      <3>4. FpuSame(full, Sequential(full))
        BY <3>3, SequentialOK, KeptFpu
      <3> QED
        BY <1>4, <3>3, <3>4 DEF UnlessTrapped, FpuSame
    <2> QED
      BY <2>1, <2>2 DEF IsDouble
  <1> HIDE DEF op, rd, rs2, uimm, double, e, k, r, full
  <1>11. HasOperands(e) /\ IsExpansion(c, k)
    BY <1>1, <1>5, <1>6, <1>8, <1>9 DEF HasOperands, IsExpansion, ExpansionOps
  <1>12. ActsAs(x, r, k, full)
    BY <1>4, <1>5, <1>6, <1>9 DEF ActsAs
  <1> QED
    BY <1>1, <1>2, <1>3, <1>7, <1>9, <1>10, <1>11, <1>12, <1>13 DEF ActsLike, r, full

\* c.beqz, c.bnez, c.j and c.jal.
LEMMA JumpMatches ==
    ASSUME NEW x \in MachineState, NEW c \in Half16, c.q = 1, c.f3 \in {1, 5, 6, 7}
    PROVE  Matches(x, c)
  <1> DEFINE target == AddrPlus(x.h.pc, c.imm)
             link == AddrPlus(x.h.pc, 2)
             v == reg_read(x, c.rdp)
             r == exec_c_insn(x, c)
             e == Expansion(c)
  <1>1. /\ c.rdp \in 0 .. 31 /\ c.imm \in Word /\ 0 \in 0 .. 31 /\ 1 \in 0 .. 31
    BY HalfFields
  <1>2. link \in Word
    <2>1. 2 \in Int
      OBVIOUS
    <2> QED
      BY <2>1, HartOf, AddrPlusType, AddrIsWord
  <1>3. CASE c.f3 \in {1, 5}
    <2> DEFINE rd == IF c.f3 = 1 THEN 1 ELSE 0
    <2>1. e = Ins("jal", rd, 0, 0, c.imm)
      BY <1>3 DEF Expansion
    <2>2. e.op = "jal" /\ e.rd = rd /\ e.rs1 = 0 /\ e.rs2 = 0 /\ e.imm = c.imm /\ rd \in 0 .. 31
      BY <2>1, InsFields
    <2>3. r = Jump(reg_write(x, rd, link), target)
      <3>1. c.f3 = 5 => reg_write(x, rd, link) = x
        BY <1>2, AddZero
      <3>2. r = IF c.f3 = 1 THEN Jump(reg_write(x, 1, link), target) ELSE Jump(x, target)
        BY <1>3 DEF exec_c_insn, Quadrant1
      <3> QED
        BY <1>3, <3>1, <3>2
    <2> HIDE DEF r, e, rd
    <2>4. IsExpansion(c, e)
      BY <1>1, <1>3, <2>2 DEF IsExpansion, ExpansionOps, AccessIns
    <2>5. ActsAs(x, r, e, Execute(x, e, NoResult))
      BY <2>2, <2>3 DEF ActsAs, AccessIns, ImmIns, RegIns
    <2> QED
      BY <2>4, <2>5 DEF Matches, r, e
  <1>4. CASE c.f3 \in {6, 7}
    <2> DEFINE op == IF c.f3 = 6 THEN "beq" ELSE "bne"
    <2>1. e = Ins(op, 0, c.rdp, 0, c.imm)
      BY <1>4 DEF Expansion
    <2>2. e.op = op /\ e.rd = 0 /\ e.rs1 = c.rdp /\ e.rs2 = 0 /\ e.imm = c.imm
      BY <2>1, InsFields
    <2>3. r = IF (c.f3 = 6) = (v = 0) THEN Jump(x, target) ELSE Sequential(x)
      BY <1>4 DEF exec_c_insn, Quadrant1
    <2>4. Taken(e.op, reg_read(x, e.rs1), reg_read(x, e.rs2)) <=> ((c.f3 = 6) = (v = 0))
      BY <1>4, <2>2 DEF Taken, reg_read
    <2> HIDE DEF r, e, v
    <2>5. IsExpansion(c, e)
      BY <1>1, <1>4, <2>2 DEF IsExpansion, ExpansionOps, AccessIns
    <2>6. ActsAs(x, r, e, Execute(x, e, NoResult))
      BY <2>2, <2>3, <2>4 DEF ActsAs, AccessIns, ImmIns, RegIns
    <2> QED
      BY <2>5, <2>6 DEF Matches, r, e
  <1> QED
    BY <1>3, <1>4

\* c.addi, c.li, c.addi16sp and c.lui.
LEMMA ImmediateMatches ==
    ASSUME NEW x \in MachineState, NEW c \in Half16, c.q = 1, c.f3 \in {0, 2, 3}
    PROVE  Matches(x, c)
  <1>1. /\ c.rd \in 0 .. 31 /\ c.imm \in Word /\ 0 \in 0 .. 31 /\ 2 \in 0 .. 31
        /\ "addi" \in ImmIns
    BY HalfFields DEF ImmIns
  <1>2. CASE c.f3 = 3 /\ c.rd = 0
    <2>1. Expansion(c) = Ins("none", 0, 0, 0, 0)
      BY <1>2 DEF Expansion
    <2>2. exec_c_insn(x, c) = raise_illegal(x)
      BY <1>2 DEF exec_c_insn, Quadrant1
    <2> QED
      BY <2>1, <2>2, NoneMatches
  <1>3. CASE c.f3 = 0 \/ (c.f3 = 3 /\ c.rd = 2)
    <2>1. Expansion(c) = Ins("addi", c.rd, c.rd, 0, c.imm)
      BY <1>3 DEF Expansion
    <2>2. exec_c_insn(x, c) = Sequential(reg_write(x, c.rd, ToWord(reg_read(x, c.rd) + c.imm)))
      BY <1>3 DEF exec_c_insn, Quadrant1
    <2>3. Execute(x, Ins("addi", c.rd, c.rd, 0, c.imm), NoResult) =
            reg_write(x, c.rd, ToWord(reg_read(x, c.rd) + c.imm))
      BY <1>1, ExpandImm, AddIs
    <2>4. Expansion(c).op = "addi" /\ HasOperands(Expansion(c))
      BY <1>1, <2>1, InsFields DEF HasOperands
    <2> QED
      BY <1>1, <2>1, <2>2, <2>3, <2>4, ComputesMatches
  <1>4. CASE c.f3 = 2
    <2>1. Expansion(c) = Ins("addi", c.rd, 0, 0, c.imm)
      BY <1>4 DEF Expansion
    <2>2. exec_c_insn(x, c) = Sequential(reg_write(x, c.rd, c.imm))
      BY <1>4 DEF exec_c_insn, Quadrant1
    <2>3. Execute(x, Ins("addi", c.rd, 0, 0, c.imm), NoResult) = reg_write(x, c.rd, c.imm)
      <3>1. Execute(x, Ins("addi", c.rd, 0, 0, c.imm), NoResult) =
              reg_write(x, c.rd, ToWord(reg_read(x, 0) + c.imm))
        BY <1>1, ExpandImm, AddIs
      <3> QED
        BY <1>1, <3>1, AddZero
    <2>4. Expansion(c).op = "addi" /\ HasOperands(Expansion(c))
      BY <1>1, <2>1, InsFields DEF HasOperands
    <2> QED
      BY <1>1, <2>1, <2>2, <2>3, <2>4, ComputesMatches
  <1>5. CASE c.f3 = 3 /\ c.rd \notin {0, 2}
    <2>1. Expansion(c) = Ins("lui", c.rd, 0, 0, c.imm)
      BY <1>5 DEF Expansion
    <2>2. exec_c_insn(x, c) = Sequential(reg_write(x, c.rd, c.imm))
      BY <1>5 DEF exec_c_insn, Quadrant1
    <2>3. Execute(x, Expansion(c), NoResult) = reg_write(x, c.rd, c.imm)
      BY <2>1, InsFields, ExecuteIs DEF insi_u_lui
    <2>4. Expansion(c).op = "lui" /\ HasOperands(Expansion(c))
      BY <1>1, <2>1, InsFields DEF HasOperands
    <2> QED
      BY <2>2, <2>3, <2>4, ComputesMatches
  <1> QED
    BY <1>2, <1>3, <1>4, <1>5

\* The arithmetic group.
LEMMA AluMatches ==
    ASSUME NEW x \in MachineState, NEW c \in Half16, c.q = 1, c.f3 = 4
    PROVE  Matches(x, c)
  <1> DEFINE v1 == reg_read(x, c.rdp)
             v2 == reg_read(x, c.rs2p)
  <1>1. /\ c.rdp \in 0 .. 31 /\ c.rs2p \in 0 .. 31 /\ c.imm \in Word /\ 0 \in 0 .. 31 /\ 0 \in Word
        /\ c.funct2 \in {0, 1, 2, 3} /\ c.alu \in {0, 1, 2, 3}
    BY HalfFields, WordFacts
  <1>2. exec_c_insn(x, c) = Quadrant1Alu(x, c)
    BY DEF exec_c_insn, Quadrant1
  <1>3. CASE c.funct2 \in {0, 1} /\ c.imm = 0
    <2>1. Expansion(c) = Ins("none", 0, 0, 0, 0)
      BY <1>3 DEF Expansion
    <2>2. exec_c_insn(x, c) = raise_illegal(x)
      BY <1>2, <1>3 DEF Quadrant1Alu
    <2> QED
      BY <2>1, <2>2, NoneMatches
  <1>4. CASE c.funct2 = 2 \/ (c.funct2 \in {0, 1} /\ c.imm # 0)
    <2> DEFINE op == CASE c.funct2 = 0 -> "srli" [] c.funct2 = 1 -> "srai" [] c.funct2 = 2 -> "andi"
    <2>1. Expansion(c) = Ins(op, c.rdp, c.rdp, 0, c.imm)
      BY <1>4 DEF Expansion
    <2>2. exec_c_insn(x, c) = Sequential(reg_write(x, c.rdp, insi_r(ImmediateForm[op], v1, c.imm)))
      BY <1>2, <1>4 DEF Quadrant1Alu, ImmediateForm
    <2>3. op \in ImmIns
      BY <1>4 DEF ImmIns
    <2> HIDE DEF op
    <2>4. Execute(x, Ins(op, c.rdp, c.rdp, 0, c.imm), NoResult) =
            reg_write(x, c.rdp, insi_r(ImmediateForm[op], v1, c.imm))
      BY <2>3, ExpandImm
    <2>5. Expansion(c).op = op /\ HasOperands(Expansion(c))
      BY <1>1, <2>1, InsFields DEF HasOperands
    <2> QED
      BY <2>1, <2>2, <2>3, <2>4, <2>5, ComputesMatches
  <1>5. CASE c.funct2 = 3
    <2> DEFINE op == <<"sub", "xor", "or", "and">>[c.alu + 1]
    <2>1. Expansion(c) = Ins(op, c.rdp, c.rdp, c.rs2p, 0)
      BY <1>5 DEF Expansion
    <2>2. exec_c_insn(x, c) = Sequential(reg_write(x, c.rdp, insi_r(op, v1, v2)))
      BY <1>2, <1>5 DEF Quadrant1Alu
    <2>3. op \in RegIns
      BY <1>1 DEF RegIns
    <2> HIDE DEF op
    <2>4. Execute(x, Ins(op, c.rdp, c.rdp, c.rs2p, 0), NoResult) =
            reg_write(x, c.rdp, insi_r(op, v1, v2))
      BY <2>3, ExpandReg
    <2>5. Expansion(c).op = op /\ HasOperands(Expansion(c))
      BY <1>1, <2>1, InsFields DEF HasOperands
    <2> QED
      BY <2>1, <2>2, <2>3, <2>4, <2>5, ComputesMatches
  <1> QED
    BY <1>1, <1>3, <1>4, <1>5

\* c.slli, c.lwsp, c.swsp and what quadrant 2 leaves unallocated.
LEMMA StackMatches ==
    ASSUME NEW x \in MachineState, NEW c \in Half16, c.q = 2, c.f3 # 4
    PROVE  Matches(x, c)
  <1>1. /\ c.rd \in 0 .. 31 /\ c.rs2 \in 0 .. 31 /\ c.imm \in Word /\ 0 \in 0 .. 31 /\ 2 \in 0 .. 31
    BY HalfFields
  <1>2. exec_c_insn(x, c) = Quadrant2(x, c)
    BY DEF exec_c_insn
  <1>3. CASE (c.f3 = 0 /\ c.imm = 0) \/ (c.f3 = 2 /\ c.rd = 0) \/ c.f3 \notin {0, 2, 6}
    <2>1. Expansion(c) = Ins("none", 0, 0, 0, 0)
      BY <1>3 DEF Expansion
    <2>2. exec_c_insn(x, c) = raise_illegal(x)
      BY <1>2, <1>3 DEF Quadrant2
    <2> QED
      BY <2>1, <2>2, NoneMatches
  <1>4. CASE c.f3 = 0 /\ c.imm # 0
    <2>1. Expansion(c) = Ins("slli", c.rd, c.rd, 0, c.imm)
      BY <1>4 DEF Expansion
    <2>2. exec_c_insn(x, c) = Sequential(reg_write(x, c.rd, insi_r("sll", reg_read(x, c.rd), c.imm)))
      BY <1>2, <1>4 DEF Quadrant2
    <2>3. "slli" \in ImmIns /\ ImmediateForm["slli"] = "sll"
      BY DEF ImmIns, ImmediateForm
    <2>4. Execute(x, Ins("slli", c.rd, c.rd, 0, c.imm), NoResult) =
            reg_write(x, c.rd, insi_r("sll", reg_read(x, c.rd), c.imm))
      BY <2>3, ExpandImm
    <2>5. Expansion(c).op = "slli" /\ HasOperands(Expansion(c))
      BY <1>1, <2>1, InsFields DEF HasOperands
    <2> QED
      BY <2>1, <2>2, <2>3, <2>4, <2>5, ComputesMatches
  <1>5. CASE c.f3 = 2 /\ c.rd # 0
    <2>1. Expansion(c) = Ins("lw", c.rd, 2, 0, c.imm)
      BY <1>5 DEF Expansion
    <2>2. exec_c_insn(x, c) = UnlessTrapped(x, Execute(x, Ins("lw", c.rd, 2, 0, c.imm), NoResult))
      BY <1>2, <1>5, ExpandAccess DEF Quadrant2
    <2>3. "lw" \in AccessIns /\ IsAccess(c)
      BY <1>5 DEF AccessIns, IsAccess
    <2>4. Expansion(c).op = "lw" /\ HasOperands(Expansion(c))
      BY <1>1, <2>1, InsFields DEF HasOperands
    <2> QED
      BY <2>1, <2>2, <2>3, <2>4, AccessMatches
  <1>6. CASE c.f3 = 6
    <2>1. Expansion(c) = Ins("sw", 0, 2, c.rs2, c.imm)
      BY <1>6 DEF Expansion
    <2>2. exec_c_insn(x, c) = UnlessTrapped(x, Execute(x, Ins("sw", 0, 2, c.rs2, c.imm), NoResult))
      BY <1>2, <1>6, ExpandAccess DEF Quadrant2
    <2>3. "sw" \in AccessIns /\ IsAccess(c)
      BY <1>6 DEF AccessIns, IsAccess
    <2>4. Expansion(c).op = "sw" /\ HasOperands(Expansion(c))
      BY <1>1, <2>1, InsFields DEF HasOperands
    <2> QED
      BY <2>1, <2>2, <2>3, <2>4, AccessMatches
  <1> QED
    BY <1>3, <1>4, <1>5, <1>6

\* c.nop, c.jr, c.mv, c.ebreak, c.jalr and c.add.
LEMMA MoveMatches ==
    ASSUME NEW x \in MachineState, NEW c \in Half16, c.q = 2, c.f3 = 4
    PROVE  Matches(x, c)
  <1> DEFINE link == AddrPlus(x.h.pc, 2)
             e == Expansion(c)
             r == exec_c_insn(x, c)
  <1>1. /\ c.rd \in 0 .. 31 /\ c.rs2 \in 0 .. 31 /\ c.bit12 \in {0, 1} /\ 0 \in 0 .. 31 /\ 1 \in 0 .. 31
        /\ 0 \in Word /\ "add" \in RegIns /\ "addi" \in ImmIns
    BY HalfFields, WordFacts DEF RegIns, ImmIns
  <1>2. r = Quadrant2(x, c)
    BY DEF exec_c_insn
  <1>3. link \in Word
    <2>1. 2 \in Int
      OBVIOUS
    <2> QED
      BY <2>1, HartOf, AddrPlusType, AddrIsWord
  <1>4. CASE c.rs2 = 0 /\ c.rd = 0 /\ c.bit12 = 0
    <2>1. e = Ins("addi", 0, 0, 0, 0)
      BY <1>4 DEF Expansion
    <2>2. r = Sequential(x)
      BY <1>2, <1>4 DEF Quadrant2
    <2>3. Execute(x, Ins("addi", 0, 0, 0, 0), NoResult) = reg_write(x, 0, ToWord(reg_read(x, 0) + 0))
      BY <1>1, ExpandImm, AddIs
    <2>4. Execute(x, Ins("addi", 0, 0, 0, 0), NoResult) = x
      BY <1>1, <2>3, AddZero
    <2>5. e.op = "addi" /\ HasOperands(e)
      BY <1>1, <2>1, InsFields DEF HasOperands
    <2> QED
      BY <1>1, <2>1, <2>2, <2>4, <2>5, ComputesMatches
  <1>5. CASE c.rs2 = 0 /\ c.rd # 0
    <2> DEFINE linked == reg_write(x, c.bit12, link)
    <2>1. e = Ins("jalr", c.bit12, c.rd, 0, 0)
      BY <1>5 DEF Expansion
    <2>2. e.op = "jalr" /\ e.rd = c.bit12 /\ e.rs1 = c.rd /\ e.rs2 = 0 /\ e.imm = 0
      BY <2>1, InsFields
    <2>3. r = IfAligned(x, reg_read(x, c.rd), Jump(linked, reg_read(linked, c.rd)))
      <3>1. CASE c.bit12 = 0
        <4>1. linked = x
          BY <1>1, <1>3, <3>1, AddZero
        <4> QED
          BY <1>2, <1>5, <3>1, <4>1 DEF Quadrant2
      <3>2. CASE c.bit12 = 1
        BY <1>2, <1>5, <3>2 DEF Quadrant2, JalrOrAdd
      <3> QED
        BY <1>1, <3>1, <3>2
    <2> HIDE DEF r, e
    <2>4. IsExpansion(c, e)
      BY <1>1, <1>5, <2>2 DEF IsExpansion, ExpansionOps, AccessIns
    <2>5. ActsAs(x, r, e, Execute(x, e, NoResult))
      BY <2>2, <2>3 DEF ActsAs, AccessIns, ImmIns, RegIns
    <2> QED
      BY <2>4, <2>5 DEF Matches, r, e
  <1>6. CASE c.rs2 # 0 /\ c.bit12 = 0
    <2>1. e = Ins("add", c.rd, 0, c.rs2, 0)
      BY <1>1, <1>6 DEF Expansion
    <2>2. r = Sequential(reg_write(x, c.rd, reg_read(x, c.rs2)))
      BY <1>2, <1>6 DEF Quadrant2
    <2>3. Execute(x, Ins("add", c.rd, 0, c.rs2, 0), NoResult) =
            reg_write(x, c.rd, ToWord(reg_read(x, 0) + reg_read(x, c.rs2)))
      BY <1>1, ExpandReg, AddIs
    <2>4. reg_read(x, c.rs2) \in Word
      BY <1>1, RegRead
    <2>5. Execute(x, Ins("add", c.rd, 0, c.rs2, 0), NoResult) = reg_write(x, c.rd, reg_read(x, c.rs2))
      BY <2>3, <2>4, AddZero
    <2>6. e.op = "add" /\ HasOperands(e)
      BY <1>1, <2>1, InsFields DEF HasOperands
    <2> QED
      BY <1>1, <2>1, <2>2, <2>5, <2>6, ComputesMatches
  <1>7. CASE c.rs2 = 0 /\ c.rd = 0 /\ c.bit12 = 1
    <2>1. e = Ins("ebreak", 0, 0, 0, 0)
      BY <1>7 DEF Expansion
    <2>2. e.op = "ebreak" /\ e.rd = 0 /\ e.rs1 = 0 /\ e.rs2 = 0 /\ e.imm = 0
      BY <2>1, InsFields
    <2>3. r = Raise(x, CAUSE_BREAKPOINT)
      BY <1>2, <1>7 DEF Quadrant2
    <2>4. Execute(x, e, NoResult) = Raise(x, CAUSE_BREAKPOINT)
      BY <2>2, ExecuteIs DEF insi_i_ebreak
    <2> HIDE DEF r, e
    <2>5. IsExpansion(c, e)
      BY <1>1, <2>2 DEF IsExpansion, ExpansionOps, AccessIns
    <2>6. ActsAs(x, r, e, Execute(x, e, NoResult))
      BY <2>2, <2>3, <2>4 DEF ActsAs, AccessIns, ImmIns, RegIns
    <2> QED
      BY <2>5, <2>6 DEF Matches, r, e
  <1>8. CASE c.rs2 # 0 /\ c.rd = 0 /\ c.bit12 = 1
    <2>1. e = Ins("none", 0, 0, 0, 0)
      BY <1>8 DEF Expansion
    <2>2. r = Raise(x, CAUSE_BREAKPOINT)
      BY <1>2, <1>8 DEF Quadrant2
    <2> QED
      BY <1>8, <2>1, <2>2, InsFields DEF Matches
  <1>9. CASE c.rs2 # 0 /\ c.rd # 0 /\ c.bit12 = 1
    <2>1. e = Ins("add", c.rd, c.rd, c.rs2, 0)
      BY <1>9 DEF Expansion
    <2>2. r = Sequential(reg_write(x, c.rd, ToWord(reg_read(x, c.rd) + reg_read(x, c.rs2))))
      BY <1>2, <1>9 DEF Quadrant2, JalrOrAdd
    <2>3. Execute(x, Ins("add", c.rd, c.rd, c.rs2, 0), NoResult) =
            reg_write(x, c.rd, ToWord(reg_read(x, c.rd) + reg_read(x, c.rs2)))
      BY <1>1, ExpandReg, AddIs
    <2>4. e.op = "add" /\ HasOperands(e)
      BY <1>1, <2>1, InsFields DEF HasOperands
    <2> QED
      BY <1>1, <2>1, <2>2, <2>3, <2>4, ComputesMatches
  <1> QED
    BY <1>1, <1>4, <1>5, <1>6, <1>7, <1>8, <1>9

\* Every halfword but c.fld and c.fsd.
LEMMA AllMatch ==
    ASSUME NEW x \in MachineState, NEW c \in Half16, ~IsDouble(c)
    PROVE  Matches(x, c)
  BY HalfFields, Matches0, JumpMatches, ImmediateMatches, AluMatches, StackMatches, MoveMatches
     DEF IsDouble

\* An instruction that neither traps nor jumps leaves the hart alone.
LEMMA StaysPut ==
    ASSUME NEW x \in MachineState, NEW i, NEW sf \in SoftFloatResult, IsInstruction(i),
           OpDue(x, i) = -1, i.op \in LoadOps \union StoreOps \union FpuOps \union QuietOps
    PROVE  Execute(x, i, sf).h = x.h
  <1> DEFINE r == Execute(x, i, sf)
  <1>1. /\ i.rd \in 0 .. 31 /\ i.rs1 \in 0 .. 31 /\ i.rs2 \in 0 .. 31 /\ i.imm \in Word
    BY DEF IsInstruction
  <1>2. CASE i.op \in LoadOps
    <2>1. r = insi_i_load(x, i.op, i.imm, i.rs1, i.rd)
      BY <1>2, ExecuteIs
    <2>2. LoadDue(x, i.op, ToWord(reg_read(x, i.rs1) + i.imm)) = -1
      BY <1>2, OpDueIs
    <2> HIDE DEF r
    <2>3. SameBut(x, r, {"gpr"})
      BY <1>1, <1>2, <2>1, <2>2, LoadOutcome
    <2> QED
      BY <2>3 DEF SameBut, Frame, r
  <1>3. CASE i.op \in StoreOps
    <2>1. r = insi_s_store(x, i.op, i.imm, i.rs2, i.rs1)
      BY <1>3, ExecuteIs
    <2>2. StoreDue(x, i.op, ToWord(reg_read(x, i.rs1) + i.imm)) = -1
      BY <1>3, OpDueIs
    <2> HIDE DEF r
    <2>3. SameBut(x, r, {"mem"})
      BY <1>1, <1>3, <2>1, <2>2, StoreOutcome
    <2> QED
      BY <2>3 DEF SameBut, Frame, r
  <1>4. CASE i.op \in FpuOps
    <2>1. FpStep(x, r, DestFormat(i), i.rd)
      BY <1>4, ExecuteFpu
    <2> HIDE DEF r
    <2> QED
      BY <2>1 DEF FpStep, SameBut, Frame, r
  <1>5. CASE i.op \in QuietOps
    BY <1>5, QuietOutcome
  <1> QED
    BY <1>2, <1>3, <1>4, <1>5

\* What any instruction may do to the floating-point unit.
FpuKept(x, r, i) ==
    /\ x.fflags \subseteq r.fflags /\ r.frm = x.frm
    /\ \A f \in 0 .. 31 : r.fpr[f] # x.fpr[f] => f = i.rd /\ Boxed(r.fpr[f], DestFormat(i))

\* One that leaves it alone does no more, ...
LEMMA SameIsKept ==
    ASSUME NEW x, NEW r, NEW i, FpuSame(x, r)
    PROVE  FpuKept(x, r, i)
  BY DEF FpuSame, FpuKept

\* ... and what follows the handler changes nothing.
LEMMA KeptThrough ==
    ASSUME NEW x, NEW y, NEW r, NEW i, FpuKept(x, y, i), FpuSame(y, r)
    PROVE  FpuKept(x, r, i)
  BY DEF FpuSame, FpuKept

\* Any instruction exec calls a handler for.
LEMMA ExecuteKeeps ==
    ASSUME NEW x \in MachineState, NEW i, NEW sf \in SoftFloatResult, IsInstruction(i)
    PROVE  LET r == Execute(x, i, sf)
           IN  /\ r \in MachineState /\ FpuKept(x, r, i)
               /\ IF OpDue(x, i) = -1 THEN NoTrap(x, r) ELSE Trapped(x, r, OpDue(x, i), x.h.pc)
  <1> DEFINE r == Execute(x, i, sf)
             due == OpDue(x, i)
  <1>1. CASE i.op \in FpuOps
    <2>1. FpStep(x, r, DestFormat(i), i.rd) /\ due = -1
      BY <1>1, ExecuteFpu
    <2> HIDE DEF r, due
    <2>2. r \in MachineState /\ FpuKept(x, r, i) /\ NoTrap(x, r)
      BY <2>1 DEF FpStep, FpuKept, NoTrap, SameBut, Frame
    <2> QED
      BY <2>1, <2>2 DEF r, due
  <1>2. CASE i.op \notin FpuOps
    <2>1. Outcome(x, r, due, x.h.pc)
      BY <1>2, ExecuteOutcome
    <2> HIDE DEF r, due
    <2>2. /\ r \in MachineState /\ FpuSame(x, r)
          /\ IF due = -1 THEN NoTrap(x, r) ELSE Trapped(x, r, due, x.h.pc)
      BY <2>1 DEF Outcome
    <2> QED
      BY <2>2, SameIsKept DEF r, due
  <1> QED
    BY <1>1, <1>2

\* NoResult is what exec passes where SoftFloat has no say.
LEMMA NoResultOK == NoResult \in SoftFloatResult
  <1>1. 0 \in Lanes
    <2>1. Q \in Formats
      BY DEF Formats
    <2> QED
      BY <2>1, LaneSize DEF Lanes, LaneMod
  <1> QED
    BY <1>1 DEF NoResult, SoftFloatResult

\* An expansion is an instruction exec has a handler for.
LEMMA ExpansionOK ==
    ASSUME NEW c, NEW e, IsExpansion(c, e)
    PROVE  IsInstruction(e)
  <1>1. ExpansionOps \subseteq ExecutedOps
    BY DEF ExpansionOps, ImmIns, RegIns, AccessIns, ExecutedOps, QuietOps, TrapOps, FpuOps,
           LoadOps, LoadBytes, StoreOps, StoreBytes, BranchOps, RegisterOps, ImmediateOps,
           ImmediateForm, LoadFormat, StoreFormat
  <1>2. ExpansionOps \cap FpOps = {}
    BY DEF ExpansionOps, ImmIns, RegIns, AccessIns, FpOps, ArithOps, SgnjOps, MinMaxOps,
           CompareOps, FpToIntKind, IntToFpOps
  <1> QED
    BY <1>1, <1>2 DEF IsExpansion, IsInstruction


\* The offsets of c.jal, c.j, c.beqz and c.bnez are even, and so is the address
\* space: no target is misaligned where compressed instructions are legal.
LEMMA EvenJump ==
    ASSUME NEW x \in MachineState, NEW imm \in Word, x.misa_c, x.h.pc % IAlign(x) = 0, imm % 2 = 0
    PROVE  FetchDue(x, AddrPlus(x.h.pc, imm)) = -1
  <1> DEFINE a == x.h.pc + imm
             n == 2 ^ (XLen - 1)
             q == a \div AddrMod
  <1>1. IAlign(x) = 2
    BY DEF IAlign
  <1>2. x.h.pc \in Int /\ imm \in Int /\ AddrMod \in Nat /\ AddrMod >= 1
    BY HartOf, WordInt, AddrAssumption DEF Addr
  <1>3. a % 2 = 0 /\ a \in Int
    BY <1>1, <1>2
  <1>4. AddrMod = 2 * n /\ n \in Int
    BY <1>2, WordSize
  <1> HIDE DEF a, n
  <1>5. a = AddrMod * q + (a % AddrMod) /\ q \in Int /\ a % AddrMod \in Int
    BY <1>2, <1>3, DivMod
  <1> HIDE DEF q
  <1>6. AddrMod * q = 2 * (n * q) /\ n * q \in Int
    BY <1>4, <1>5
  <1>7. (a % AddrMod) % 2 = 0
    <2>1. a % AddrMod = a - 2 * (n * q)
      BY <1>3, <1>5, <1>6
    <2> DEFINE k == n * q
    <2>2. k \in Int /\ a % AddrMod = a - 2 * k
      BY <1>6, <2>1
    <2> HIDE DEF k
    <2> QED
      BY <1>3, <2>2
  <1> QED
    BY <1>1, <1>7 DEF FetchDue, AddrPlus, a

\* Whatever the halfword, what exec_c_insn leaves behind is a machine, and only
\* the expansion's destination changes in the floating-point unit.
LEMMA CompressedKeeps ==
    ASSUME NEW x \in MachineState, NEW c, NEW e, NEW r, IsExpansion(c, e),
           ActsAs(x, r, e, Execute(x, e, NoResult))
    PROVE  r \in MachineState /\ FpuKept(x, r, e)
  <1> DEFINE full == Execute(x, e, NoResult)
  <1>1. IsInstruction(e)
    BY ExpansionOK
  <1>2. full \in MachineState /\ FpuKept(x, full, e)
    BY <1>1, NoResultOK, ExecuteKeeps
  <1>3. /\ e.op \in ExpansionOps /\ e.rd \in 0 .. 31 /\ e.rs1 \in 0 .. 31 /\ e.imm \in Word
    BY DEF IsExpansion
  <1>4. AddrPlus(x.h.pc, e.imm) \in Addr
    BY <1>3, HartOf, WordInt, AddrPlusType
  <1> HIDE DEF full
  <1>5. ASSUME NEW y \in MachineState, FpuKept(x, y, e)
        PROVE  Sequential(y) \in MachineState /\ FpuKept(x, Sequential(y), e)
    <2>1. Sequential(y) \in MachineState /\ FpuSame(y, Sequential(y))
      BY SequentialOK, KeptFpu
    <2> QED
      BY <1>5, <2>1, KeptThrough
  <1>6. ASSUME NEW y \in MachineState, NEW t \in Addr, FpuKept(x, y, e)
        PROVE  Jump(y, t) \in MachineState /\ FpuKept(x, Jump(y, t), e)
    <2>1. Jump(y, t) \in MachineState /\ FpuSame(y, Jump(y, t))
      BY JumpOK, KeptFpu
    <2> QED
      BY <1>6, <2>1, KeptThrough
  <1>7. FpuKept(x, x, e)
    BY SameIsKept DEF FpuSame
  <1>8. CASE e.op = "ebreak"
    BY <1>2, <1>8 DEF ActsAs, full
  <1>9. CASE e.op \in AccessIns
    <2>1. r = full \/ r = Sequential(full)
      BY <1>9 DEF ActsAs, full, UnlessTrapped
    <2> QED
      BY <1>2, <1>5, <2>1
  <1>10. CASE e.op \in ImmIns \union RegIns \union {"lui"}
    <2>1. r = Sequential(full)
      BY <1>10 DEF ActsAs, full
    <2> QED
      BY <1>2, <1>5, <2>1
  <1>11. CASE e.op \in {"beq", "bne"}
    <2>1. r = Jump(x, AddrPlus(x.h.pc, e.imm)) \/ r = Sequential(x)
      BY <1>11 DEF ActsAs
    <2> QED
      BY <1>4, <1>5, <1>6, <1>7, <2>1
  <1> DEFINE y == reg_write(x, e.rd, AddrPlus(x.h.pc, 2))
  <1>12. y \in MachineState /\ SameBut(x, y, {"gpr"}) /\ FpuKept(x, y, e)
    <2>1. 2 \in Int
      OBVIOUS
    <2> HIDE DEF y
    <2>2. y \in MachineState /\ SameBut(x, y, {"gpr"})
      BY <1>3, <2>1, LinkOK DEF y
    <2>3. FpuSame(x, y)
      BY <2>2, KeptFpu
    <2> QED
      BY <2>2, <2>3, SameIsKept
  <1> HIDE DEF y
  <1>13. CASE e.op = "jal"
    <2>1. r = Jump(y, AddrPlus(x.h.pc, e.imm))
      BY <1>13 DEF ActsAs, y
    <2> QED
      BY <1>4, <1>6, <1>12, <2>1
  <1>14. CASE e.op = "jalr"
    <2>1. r = IfAligned(x, reg_read(x, e.rs1), Jump(y, reg_read(y, e.rs1)))
      BY <1>14 DEF ActsAs, y
    <2>2. reg_read(x, e.rs1) \in Addr /\ reg_read(y, e.rs1) \in Addr
      BY <1>3, <1>12, RegRead, AddrIsWord
    <2>3. r \in MachineState /\ FpuSame(x, r)
      BY <1>12, <2>1, <2>2, IfAlignedOutcome DEF Outcome
    <2> QED
      BY <2>3, SameIsKept
  <1> QED
    BY <1>3, <1>8, <1>9, <1>10, <1>11, <1>13, <1>14 DEF ExpansionOps

\* A compressed instruction against its expansion: the same trap, or the same
\* effect with its own length.
Stays(x, e) ==
    \/ e.op \notin {"jal", "jalr"} \union BranchOps
    \/ e.op \in BranchOps /\ ~Taken(e.op, reg_read(x, e.rs1), reg_read(x, e.rs2))
Links(e) == e.op \in {"jal", "jalr"} /\ e.rd # 0
Follows(x, r, e, full) ==
    /\ IF OpDue(x, e) = -1 THEN NoTrap(x, r) ELSE Trapped(x, r, OpDue(x, e), x.h.pc)
    /\ OpDue(x, e) = -1 =>
          /\ r.h.pc = IF Stays(x, e) THEN AddrPlus(x.h.pc, -2) ELSE full.h.pc
          /\ r.gpr = IF Links(e) THEN [full.gpr EXCEPT ![e.rd] = AddrPlus(x.h.pc, 2)] ELSE full.gpr
          /\ r.mem = full.mem /\ r.fpr = full.fpr /\ r.fmem = full.fmem

\* One that goes on at the next halfword.
LEMMA SequentialFollows ==
    ASSUME NEW x, NEW e, NEW full \in MachineState, OpDue(x, e) = -1, full.h = x.h,
           e.op \notin {"jal", "jalr"} \union BranchOps
    PROVE  Follows(x, Sequential(full), e, full)
  <1> DEFINE r == Sequential(full)
  <1>1. r.h.pc = AddrPlus(full.h.pc, -2) /\ SameBut(full, r, {"h"}) /\ NoTrap(full, r)
    BY SequentialOK
  <1>2. Stays(x, e) /\ ~Links(e)
    BY DEF Stays, Links
  <1> HIDE DEF r
  <1>3. r.gpr = full.gpr /\ r.mem = full.mem /\ r.fpr = full.fpr /\ r.fmem = full.fmem
    BY <1>1 DEF SameBut, Frame
  <1>4. NoTrap(x, r)
    BY <1>1 DEF NoTrap
  <1> QED
    BY <1>1, <1>2, <1>3, <1>4 DEF Follows, r

\* The arithmetic ones.
LEMMA ComputeFollows ==
    ASSUME NEW x \in MachineState, NEW c, NEW e, NEW r, IsExpansion(c, e),
           ActsAs(x, r, e, Execute(x, e, NoResult)), e.op \in ImmIns \union RegIns \union {"lui"}
    PROVE  Follows(x, r, e, Execute(x, e, NoResult))
  <1> DEFINE full == Execute(x, e, NoResult)
  <1>1. IsInstruction(e)
    BY ExpansionOK
  <1>2. e.op \in QuietOps /\ e.op \notin TrapOps /\ e.op \notin {"jal", "jalr"} \union BranchOps
    BY DEF QuietOps, TrapOps, ImmIns, RegIns, RegisterOps, ImmediateOps, ImmediateForm, LoadOps,
           LoadBytes, StoreOps, StoreBytes, BranchOps
  <1>3. OpDue(x, e) = -1
    BY <1>2, OpDueIs
  <1>4. full.h = x.h /\ full \in MachineState
    BY <1>1, <1>2, QuietOutcome DEF Outcome
  <1>5. r = Sequential(full)
    BY DEF ActsAs
  <1> HIDE DEF full
  <1> QED
    BY <1>2, <1>3, <1>4, <1>5, SequentialFollows DEF full

\* The loads and stores: the pc tells a trap unless the vector is the pc.
LEMMA AccessFollows ==
    ASSUME NEW x \in MachineState, NEW c, NEW e, NEW r, IsExpansion(c, e), ~Departs(x, c),
           ActsAs(x, r, e, Execute(x, e, NoResult)), e.op \in AccessIns
    PROVE  Follows(x, r, e, Execute(x, e, NoResult))
  <1> DEFINE full == Execute(x, e, NoResult)
             due == OpDue(x, e)
  <1>1. IsInstruction(e)
    BY ExpansionOK
  <1>2. /\ full \in MachineState
        /\ IF due = -1 THEN NoTrap(x, full) ELSE Trapped(x, full, due, x.h.pc)
    BY <1>1, NoResultOK, ExecuteKeeps
  <1>3. r = UnlessTrapped(x, full)
    BY DEF ActsAs
  <1>4. /\ e.op \in LoadOps \union StoreOps \union FpuOps \union QuietOps
        /\ e.op \notin {"jal", "jalr"} \union BranchOps
    BY DEF AccessIns, LoadOps, LoadBytes, StoreOps, StoreBytes, FpuOps, QuietOps, LoadFormat,
           StoreFormat, BranchOps
  <1>5. CASE due = -1
    <2>1. full.h = x.h
      BY <1>1, <1>4, <1>5, NoResultOK, StaysPut
    <2>2. r = Sequential(full)
      BY <1>3, <2>1 DEF UnlessTrapped
    <2> HIDE DEF full
    <2> QED
      BY <1>2, <1>4, <1>5, <2>1, <2>2, SequentialFollows DEF full
  <1>6. CASE due # -1
    <2>1. x.h.pc \notin {ExceptionTarget(x.h.mtvec), ExceptionTarget(x.h.stvec)}
      BY DEF IsExpansion, Departs
    <2>2. full.h.pc = ExceptionTarget(Vector(x.h, due))
      BY <1>2, <1>6 DEF Trapped, TakenTrap
    <2>3. full.h.pc # x.h.pc
      BY <2>1, <2>2 DEF Vector
    <2>4. r = full
      BY <1>3, <2>3 DEF UnlessTrapped
    <2> HIDE DEF full, due
    <2> QED
      BY <1>2, <1>6, <2>4 DEF Follows, due, full
  <1> QED
    BY <1>5, <1>6

\* The branches.
LEMMA BranchFollows ==
    ASSUME NEW x \in MachineState, NEW c, NEW e, NEW r, IsExpansion(c, e), EvenOffset(c),
           x.misa_c, x.h.pc % IAlign(x) = 0,
           ActsAs(x, r, e, Execute(x, e, NoResult)), e.op \in {"beq", "bne"}
    PROVE  Follows(x, r, e, Execute(x, e, NoResult))
  <1> DEFINE full == Execute(x, e, NoResult)
             target == AddrPlus(x.h.pc, e.imm)
             taken == Taken(e.op, reg_read(x, e.rs1), reg_read(x, e.rs2))
  <1>1. e.imm \in Word /\ e.imm % 2 = 0
    BY DEF IsExpansion, EvenOffset
  <1>2. FetchDue(x, target) = -1 /\ target \in Addr
    BY <1>1, EvenJump, HartOf, WordInt, AddrPlusType
  <1>3. OpDue(x, e) = -1
    <2>1. e.op \in BranchOps
      BY DEF BranchOps
    <2>2. OpDue(x, e) = BranchDue(x, e.op, e.imm, e.rs2, e.rs1)
      BY <2>1, OpDueIs
    <2> QED
      BY <1>2, <2>2 DEF BranchDue
  <1>4. full = IF taken THEN Jump(x, target) ELSE x
    <2>1. full = insi_b(x, e.op, e.imm, e.rs2, e.rs1)
      BY ExecuteIs DEF BranchOps
    <2>2. target % IAlign(x) = 0
      BY <1>2, Causes DEF FetchDue
    <2> QED
      BY <2>1, <2>2 DEF insi_b, IfAligned
  <1>5. r = IF taken THEN Jump(x, target) ELSE Sequential(x)
    BY DEF ActsAs
  <1>6. ~Links(e) /\ (Stays(x, e) <=> ~taken)
    BY DEF Links, Stays, BranchOps
  <1> HIDE DEF full, taken
  <1>7. CASE taken
    <2>1. NoTrap(x, Jump(x, target))
      BY <1>2, JumpOK
    <2> QED
      BY <1>3, <1>4, <1>5, <1>6, <1>7, <2>1 DEF Follows, full
  <1>8. CASE ~taken
    <2>1. Sequential(x).h.pc = AddrPlus(x.h.pc, -2) /\ SameBut(x, Sequential(x), {"h"})
          /\ NoTrap(x, Sequential(x))
      BY SequentialOK
    <2>2. /\ Sequential(x).gpr = x.gpr /\ Sequential(x).mem = x.mem /\ Sequential(x).fpr = x.fpr
          /\ Sequential(x).fmem = x.fmem
      BY <2>1 DEF SameBut, Frame
    <2>3. full = x /\ r = Sequential(x)
      BY <1>4, <1>5, <1>8
    <2>4. Follows(x, Sequential(x), e, x)
      BY <1>3, <1>6, <1>8, <2>1, <2>2 DEF Follows
    <2> QED
      BY <2>3, <2>4 DEF full
  <1> QED
    BY <1>7, <1>8

\* A link register, ...
LEMMA LinkGpr ==
    ASSUME NEW x \in MachineState, NEW rd \in 0 .. 31, NEW a \in Word
    PROVE  LET y == reg_write(x, rd, a)
           IN  /\ y \in MachineState /\ y.h = x.h /\ SameBut(x, y, {"gpr"})
               /\ rd = 0 => y.gpr = x.gpr
               /\ rd # 0 => y.gpr = [x.gpr EXCEPT ![rd] = a]
  <1> DEFINE y == reg_write(x, rd, a)
  <1>1. y \in MachineState /\ SameBut(x, y, {"gpr"})
    BY RegWrite
  <1>2. y.gpr = IF rd = 0 THEN x.gpr ELSE [x.gpr EXCEPT ![rd] = a]
    BY RegWrite
  <1> HIDE DEF y
  <1> QED
    BY <1>1, <1>2 DEF SameBut, Frame, y

LinkDiffers(x, r, full, rd, near) ==
    /\ r.h.pc = full.h.pc /\ NoTrap(x, r)
    /\ r.mem = full.mem /\ r.fpr = full.fpr /\ r.fmem = full.fmem
    /\ rd = 0 => r.gpr = full.gpr
    /\ rd # 0 => r.gpr = [full.gpr EXCEPT ![rd] = near]

\* ... and jumps that differ in what they link.
LEMMA LinkedJump ==
    ASSUME NEW x \in MachineState, NEW rd \in 0 .. 31, NEW t \in Addr, NEW near \in Word,
           NEW far \in Word
    PROVE  LinkDiffers(x, Jump(reg_write(x, rd, near), t), Jump(reg_write(x, rd, far), t), rd, near)
  <1> DEFINE y == reg_write(x, rd, near)
             z == reg_write(x, rd, far)
             r == Jump(y, t)
             full == Jump(z, t)
  <1>1. /\ y \in MachineState /\ y.h = x.h /\ SameBut(x, y, {"gpr"})
        /\ rd = 0 => y.gpr = x.gpr
        /\ rd # 0 => y.gpr = [x.gpr EXCEPT ![rd] = near]
    BY LinkGpr, ZenonT(40)
  <1>2. /\ z \in MachineState /\ z.h = x.h /\ SameBut(x, z, {"gpr"})
        /\ rd = 0 => z.gpr = x.gpr
        /\ rd # 0 => z.gpr = [x.gpr EXCEPT ![rd] = far]
    BY LinkGpr, ZenonT(40)
  <1> HIDE DEF y, z
  <1>3. r.h.pc = AddrPlus(t, -4) /\ SameBut(y, r, {"h"}) /\ NoTrap(y, r)
    BY <1>1, JumpOK
  <1>4. full.h.pc = AddrPlus(t, -4) /\ SameBut(z, full, {"h"})
    BY <1>2, JumpOK
  <1> HIDE DEF r, full
  <1>5. NoTrap(x, r)
    BY <1>1, <1>3 DEF NoTrap
  <1>6. r.gpr = y.gpr /\ full.gpr = z.gpr
    BY <1>3, <1>4 DEF SameBut, Frame
  <1>7. r.mem = full.mem /\ r.fpr = full.fpr /\ r.fmem = full.fmem
    BY <1>1, <1>2, <1>3, <1>4 DEF SameBut, Frame
  <1>8. rd # 0 => r.gpr = [full.gpr EXCEPT ![rd] = near]
    <2>1. x.gpr \in [1 .. 31 -> Word]
      BY DEF MachineState
    <2>2. rd # 0 => [[x.gpr EXCEPT ![rd] = far] EXCEPT ![rd] = near] = [x.gpr EXCEPT ![rd] = near]
      BY <2>1
    <2> QED
      BY <1>1, <1>2, <1>6, <2>2
  <1>9. LinkDiffers(x, r, full, rd, near)
    BY <1>1, <1>2, <1>3, <1>4, <1>5, <1>6, <1>7, <1>8 DEF LinkDiffers
  <1> QED
    BY <1>9 DEF r, full, y, z

\* The jumps: the link is to the halfword after the instruction.
LEMMA JumpFollows ==
    ASSUME NEW x \in MachineState, NEW e, NEW t \in Addr, e.rd \in 0 .. 31,
           e.op \in {"jal", "jalr"}, OpDue(x, e) = -1
    PROVE  Follows(x, Jump(reg_write(x, e.rd, AddrPlus(x.h.pc, 2)), t), e,
                   Jump(reg_write(x, e.rd, AddrPlus(x.h.pc, 4)), t))
  <1> DEFINE near == AddrPlus(x.h.pc, 2)
             far == AddrPlus(x.h.pc, 4)
             rd == e.rd
             r == Jump(reg_write(x, rd, near), t)
             full == Jump(reg_write(x, rd, far), t)
  <1>1. near \in Word /\ far \in Word
    <2>1. 2 \in Int /\ 4 \in Int
      OBVIOUS
    <2> QED
      BY <2>1, HartOf, AddrPlusType, AddrIsWord
  <1>2. rd \in 0 .. 31
    OBVIOUS
  <1>3. ~Stays(x, e) /\ (Links(e) <=> rd # 0)
    BY DEF Stays, Links, BranchOps
  <1> HIDE DEF near, far, rd
  <1>4. LinkDiffers(x, r, full, rd, near)
    BY <1>1, <1>2, LinkedJump
  <1> HIDE DEF r, full
  <1>5. Follows(x, r, e, full)
    BY <1>3, <1>4 DEF LinkDiffers, Follows, near, rd
  <1> QED
    BY <1>5 DEF r, full, near, far, rd

\* c.jal and c.j, ...
LEMMA JalFollows ==
    ASSUME NEW x \in MachineState, NEW c, NEW e, NEW r, IsExpansion(c, e), EvenOffset(c),
           x.misa_c, x.h.pc % IAlign(x) = 0,
           ActsAs(x, r, e, Execute(x, e, NoResult)), e.op = "jal"
    PROVE  Follows(x, r, e, Execute(x, e, NoResult))
  <1> DEFINE full == Execute(x, e, NoResult)
             target == AddrPlus(x.h.pc, e.imm)
  <1>1. e.imm \in Word /\ e.imm % 2 = 0 /\ e.rd \in 0 .. 31
    BY DEF IsExpansion, EvenOffset
  <1>2. FetchDue(x, target) = -1 /\ target \in Addr
    BY <1>1, EvenJump, HartOf, WordInt, AddrPlusType
  <1>3. OpDue(x, e) = -1
    BY <1>2, OpDueIs
  <1>4. full = Jump(reg_write(x, e.rd, AddrPlus(x.h.pc, 4)), target)
    <2>1. full = insi_j_jal(x, e.imm, e.rd)
      BY ExecuteIs
    <2>2. target % IAlign(x) = 0
      BY <1>2, Causes DEF FetchDue
    <2> QED
      BY <2>1, <2>2 DEF insi_j_jal, IfAligned
  <1>5. r = Jump(reg_write(x, e.rd, AddrPlus(x.h.pc, 2)), target)
    BY DEF ActsAs
  <1> HIDE DEF full, target
  <1> QED
    BY <1>1, <1>2, <1>3, <1>4, <1>5, JumpFollows DEF full

\* ... and c.jr and c.jalr, for an even register other than the link register.
LEMMA JalrFollows ==
    ASSUME NEW x \in MachineState, NEW c \in Half16, NEW e, NEW r, IsExpansion(c, e),
           ~Departs(x, c), x.misa_c, ActsAs(x, r, e, Execute(x, e, NoResult)), e.op = "jalr"
    PROVE  Follows(x, r, e, Execute(x, e, NoResult))
  <1> DEFINE full == Execute(x, e, NoResult)
             v == reg_read(x, e.rs1)
             link == AddrPlus(x.h.pc, 2)
             y == reg_write(x, e.rd, link)
  <1>1. /\ e.imm = 0 /\ e.rd \in 0 .. 31 /\ e.rs1 \in 0 .. 31
        /\ c.q = 2 /\ c.f3 = 4 /\ c.rs2 = 0 /\ c.rd # 0 /\ e.rs1 = c.rd /\ e.rd = c.bit12
    BY DEF IsExpansion
  <1>2. v \in Word /\ v \in Nat /\ v \in Addr
    BY <1>1, RegRead, WordInt
  <1>3. v % 2 # 1 /\ ~(e.rs1 = 1 /\ e.rd = 1)
    BY <1>1 DEF Departs
  <1>4. v % 2 = 0 /\ IAlign(x) = 2
    BY <1>2, <1>3 DEF IAlign
  <1>5. JalrTarget(x, e.imm, e.rs1) = v
    <2>1. v + 0 = v
      BY <1>2
    <2>2. ToWord(v + 0) = v
      BY <1>2, <2>1, WordFacts
    <2> QED
      BY <1>1, <1>2, <1>4, <2>2, EvenTarget DEF JalrTarget
  <1>6. OpDue(x, e) = -1
    <2>1. OpDue(x, e) = FetchDue(x, v)
      BY <1>5, OpDueIs
    <2> QED
      BY <1>4, <2>1 DEF FetchDue
  <1>7. full = Jump(reg_write(x, e.rd, AddrPlus(x.h.pc, 4)), v)
    <2>1. full = insi_i_jalr(x, e.imm, e.rs1, e.rd)
      BY ExecuteIs
    <2> QED
      BY <1>4, <1>5, <2>1 DEF insi_i_jalr, IfAligned, JalrTarget
  <1>8. reg_read(y, e.rs1) = v
    <2>1. e.rs1 # 0 /\ e.rs1 # e.rd
      <3>1. c.bit12 \in {0, 1}
        BY HalfFields
      <3> QED
        BY <1>1, <1>3, <3>1
    <2>2. x.gpr \in [1 .. 31 -> Word]
      BY DEF MachineState
    <2>3. (e.rd = 0 => y.gpr = x.gpr) /\ (e.rd # 0 => y.gpr = [x.gpr EXCEPT ![e.rd] = link])
      <3> DEFINE rd == e.rd
                 n == link
      <3>1. n \in Word /\ rd \in 0 .. 31
        BY <1>1, HartOf, AddrPlusType, AddrIsWord
      <3> HIDE DEF rd, n
      <3>2. LET w == reg_write(x, rd, n)
            IN  (rd = 0 => w.gpr = x.gpr) /\ (rd # 0 => w.gpr = [x.gpr EXCEPT ![rd] = n])
        BY <3>1, LinkGpr, ZenonT(60)
      <3> QED
        BY <3>2 DEF rd, n
    <2> HIDE DEF y, link
    <2>4. y.gpr[e.rs1] = x.gpr[e.rs1]
      BY <1>1, <2>1, <2>2, <2>3
    <2> QED
      BY <2>1, <2>4 DEF reg_read
  <1>9. r = Jump(y, v)
    BY <1>4, <1>8 DEF ActsAs, IfAligned
  <1> HIDE DEF full, v
  <1> QED
    BY <1>1, <1>2, <1>6, <1>7, <1>9, JumpFollows DEF full

\* Every halfword that has an expansion and does not depart from it.
LEMMA ExpansionFollows ==
    ASSUME NEW x \in MachineState, NEW c \in Half16, NEW e, NEW r, IsExpansion(c, e),
           EvenOffset(c), ~Departs(x, c), x.misa_c, x.h.pc % IAlign(x) = 0,
           ActsAs(x, r, e, Execute(x, e, NoResult)), e.op # "ebreak"
    PROVE  Follows(x, r, e, Execute(x, e, NoResult))
  <1>1. e.op \in ExpansionOps
    BY DEF IsExpansion
  <1> QED
    BY <1>1, ComputeFollows, AccessFollows, BranchFollows, JalFollows, JalrFollows DEF ExpansionOps


-----------------------------------------------------------------------------
\* exec and the run loop.

\* Which path a word takes.
LEMMA KindOf ==
    /\ \A w \in Word32 : ~IsCompressed(w)
    /\ \A c \in Half16 : IsCompressed(c)
  BY DEF IsCompressed, Word32, Half16

NeedsFpu(w) == IF IsCompressed(w) THEN FALSE ELSE w.opcode \in FpOpcodes

\* The trap that is due, by the order of the checks.
LEMMA DueTrapIs ==
    ASSUME NEW x \in MachineState, NEW w, IsInstruction(Meaning(x, w))
    PROVE  DueTrap(x, w) =
             IF sdtrig_check(x.trig, x.h.privilege, x.h.pc, "execute") THEN CAUSE_BREAKPOINT
             ELSE IF x.h.pc % IAlign(x) # 0 THEN CAUSE_MISALIGNED_FETCH
             ELSE IF NeedsFpu(w) /\ x.fs_off THEN CAUSE_ILLEGAL_INSTRUCTION
             ELSE OpDue(x, Meaning(x, w))
  <1> DEFINE i == Meaning(x, w)
             op == i.op
             addr == ToWord(reg_read(x, i.rs1) + i.imm)
             fetch == sdtrig_check(x.trig, x.h.privilege, x.h.pc, "execute")
             odd == x.h.pc % IAlign(x) # 0
             fp == NeedsFpu(w) /\ x.fs_off
             f == Forbidden(x.h, i.op)
             exits == x.gpr[A7] # ExitCall
             lt == sdtrig_check(x.trig, x.h.privilege, addr, "load")
             st == sdtrig_check(x.trig, x.h.privilege, addr, "store")
             la == addr % LoadBytes[op] # 0
             sa == addr % StoreBytes[op] # 0
             ec == EcallCause(x.h.privilege)
             taken == Taken(i.op, reg_read(x, i.rs1), reg_read(x, i.rs2))
             ja == ToWord(x.h.pc + i.imm) % IAlign(x) # 0
             ra == (addr - (addr % 2)) % IAlign(x) # 0
             due == OpDue(x, i)
             rest == IF op = "illegal" \/ fp \/ f THEN CAUSE_ILLEGAL_INSTRUCTION
                     ELSE IF op = "ebreak" THEN CAUSE_BREAKPOINT
                     ELSE IF op = "ecall" /\ exits THEN ec
                     ELSE IF op \in LoadOps /\ lt THEN CAUSE_BREAKPOINT
                     ELSE IF op \in StoreOps /\ st THEN CAUSE_BREAKPOINT
                     ELSE IF op \in LoadOps /\ la THEN CAUSE_MISALIGNED_LOAD
                     ELSE IF op \in StoreOps /\ sa THEN CAUSE_MISALIGNED_STORE
                     ELSE IF (op \in {"jal", "jalr"} \/ (op \in BranchOps /\ taken))
                               /\ (IF op = "jalr" THEN ra ELSE ja)
                          THEN CAUSE_MISALIGNED_FETCH
                     ELSE -1
  <1>1. DueTrap(x, w) = IF fetch THEN CAUSE_BREAKPOINT ELSE IF odd THEN CAUSE_MISALIGNED_FETCH
                        ELSE rest
    BY DEF DueTrap, NeedsFpu
  <1>2. i.imm \in Int /\ x.h.pc \in Int
    BY HartOf, WordInt DEF IsInstruction, Addr
  <1>3. /\ op = "illegal" => due = CAUSE_ILLEGAL_INSTRUCTION
        /\ op \in {"sret", "sfence_vma"} => due = IF f THEN CAUSE_ILLEGAL_INSTRUCTION ELSE -1
        /\ op = "ebreak" => due = CAUSE_BREAKPOINT
        /\ op \notin TrapOps => due = -1
    BY OpDueIs
  <1>4. op = "ecall" => due = IF exits THEN ec ELSE -1
    BY OpDueIs DEF EcallDue
  <1>5. op \in LoadOps => due = IF lt THEN CAUSE_BREAKPOINT
                                ELSE IF la THEN CAUSE_MISALIGNED_LOAD ELSE -1
    BY OpDueIs DEF LoadDue
  <1>6. op \in StoreOps => due = IF st THEN CAUSE_BREAKPOINT
                                 ELSE IF sa THEN CAUSE_MISALIGNED_STORE ELSE -1
    BY OpDueIs DEF StoreDue
  <1>7. op = "jal" => due = IF ja THEN CAUSE_MISALIGNED_FETCH ELSE -1
    BY <1>2, OpDueIs, AddrIsWord DEF FetchDue
  <1>8. op = "jalr" => due = IF ra THEN CAUSE_MISALIGNED_FETCH ELSE -1
    BY OpDueIs DEF FetchDue, JalrTarget
  <1>9. op \in BranchOps => due = IF taken THEN IF ja THEN CAUSE_MISALIGNED_FETCH ELSE -1 ELSE -1
    BY <1>2, OpDueIs, AddrIsWord DEF FetchDue, BranchDue
  <1>10. f => op \in {"sret", "sfence_vma"}
    BY DEF Forbidden
  <1> HIDE DEF i, op, addr, fetch, odd, fp, f, exits, lt, st, la, sa, ec, taken, ja, ra, due
  <1>11. rest = IF fp THEN CAUSE_ILLEGAL_INSTRUCTION ELSE due
    <2>1. CASE fp
      BY <2>1
    <2>2. CASE ~fp /\ op \in LoadOps
      BY <2>2, <1>5, <1>10 DEF LoadOps, LoadBytes, StoreOps, StoreBytes, BranchOps
    <2>3. CASE ~fp /\ op \in StoreOps
      BY <2>3, <1>6, <1>10 DEF LoadOps, LoadBytes, StoreOps, StoreBytes, BranchOps
    <2>4. CASE ~fp /\ op \in BranchOps
      BY <2>4, <1>9, <1>10 DEF LoadOps, LoadBytes, StoreOps, StoreBytes, BranchOps
    <2>5. CASE ~fp /\ op \in {"jal", "jalr"}
      BY <2>5, <1>7, <1>8, <1>10 DEF LoadOps, LoadBytes, StoreOps, StoreBytes, BranchOps
    <2>6. CASE ~fp /\ op \in {"ecall", "ebreak", "illegal", "sret", "sfence_vma"}
      BY <2>6, <1>3, <1>4, <1>10 DEF LoadOps, LoadBytes, StoreOps, StoreBytes, BranchOps
    <2>7. CASE ~fp /\ op \notin TrapOps
      BY <2>7, <1>3, <1>10 DEF TrapOps
    <2> QED
      BY <2>1, <2>2, <2>3, <2>4, <2>5, <2>6, <2>7 DEF TrapOps
  <1> QED
    BY <1>1, <1>11 DEF i, fetch, odd, fp, due

\* What a halfword stands for.
LEMMA MeaningCompressed ==
    ASSUME NEW x \in MachineState, NEW c \in Half16
    PROVE  /\ IsInstruction(Meaning(x, c))
           /\ ~x.misa_c => Meaning(x, c).op = "illegal"
           /\ x.misa_c =>
                \/ Meaning(x, c).op = "illegal" /\ exec_c_insn(x, c) = raise_illegal(x)
                \/ /\ Meaning(x, c).op = "illegal" /\ Departs(x, c)
                   /\ exec_c_insn(x, c) = Raise(x, CAUSE_BREAKPOINT)
                \/ /\ Meaning(x, c) = Expansion(c)
                   /\ ActsLike(x, c, Expansion(c), CodeExpansion(c))
  <1> DEFINE e == Expansion(c)
             k == CodeExpansion(c)
             illegal == Ins("illegal", 0, 0, 0, 0)
             i == Meaning(x, c)
             r == exec_c_insn(x, c)
  <1>1. i = IF ~x.misa_c \/ e.op = "none" THEN illegal ELSE e
    BY KindOf DEF Meaning
  <1>2. illegal.op = "illegal" /\ IsInstruction(illegal)
    <2>1. "illegal" \in ExecutedOps /\ "illegal" \notin FpOps
      BY DEF ExecutedOps, TrapOps, FpOps, ArithOps, SgnjOps, MinMaxOps, CompareOps, FpToIntKind,
             IntToFpOps
    <2>2. 0 \in Word /\ 0 \in 0 .. 31
      BY WordFacts
    <2> QED
      BY <2>1, <2>2, InsFields DEF IsInstruction
  <1>3. \/ e.op = "none" /\ r = raise_illegal(x)
        \/ /\ e.op = "none" /\ r = Raise(x, CAUSE_BREAKPOINT)
           /\ c.q = 2 /\ c.f3 = 4 /\ c.rs2 # 0 /\ c.rd = 0 /\ c.bit12 = 1
        \/ ActsLike(x, c, e, k)
    <2>1. CASE IsDouble(c)
      BY <2>1, DoubleMatches
    <2>2. CASE ~IsDouble(c)
      <3>1. k = e
        BY <2>2 DEF CodeExpansion
      <3>2. IsExpansion(c, e) => HasOperands(e)
        BY DEF IsExpansion, HasOperands
      <3>3. Matches(x, c)
        BY <2>2, AllMatch
      <3> HIDE DEF k, e
      <3> QED
        BY <3>1, <3>2, <3>3 DEF Matches, ActsLike, e, r
    <2> QED
      BY <2>1, <2>2
  <1>4. ActsLike(x, c, e, k) => IsInstruction(e) /\ e.op # "none"
    <2> SUFFICES ASSUME ActsLike(x, c, e, k) PROVE IsInstruction(e) /\ e.op # "none"
      OBVIOUS
    <2>1. IsInstruction(k) /\ k.op # "none"
      BY ExpansionOK DEF ActsLike, IsExpansion, ExpansionOps, ImmIns, RegIns, AccessIns
    <2>2. IsInstruction(k) /\ k.op \notin FpOps
      <3>1. ExpansionOps \cap FpOps = {}
        BY DEF ExpansionOps, ImmIns, RegIns, AccessIns, FpOps, ArithOps, SgnjOps, MinMaxOps,
               CompareOps, FpToIntKind, IntToFpOps
      <3> QED
        BY <2>1, <3>1 DEF ActsLike, IsExpansion
    <2> HIDE DEF e, k
    <2> QED
      BY <2>1, <2>2 DEF ActsLike, HasOperands, IsInstruction
  <1>5. c.q = 2 /\ c.f3 = 4 /\ c.rs2 # 0 /\ c.rd = 0 /\ c.bit12 = 1 => Departs(x, c)
    BY DEF Departs
  <1> HIDE DEF e, k, illegal, i, r
  <1> QED
    BY <1>1, <1>2, <1>3, <1>4, <1>5 DEF i, e, k, r

\* The word on the compressed path.
LEMMA CompressedStep ==
    ASSUME NEW x \in MachineState, NEW c \in Half16, EvenOffset(c), x.misa_c,
           x.h.pc % IAlign(x) = 0
    PROVE  LET i == Meaning(x, c)
               r == exec_c_insn(x, c)
           IN  /\ r \in MachineState /\ FpuKept(x, r, i)
               /\ ~Departs(x, c) =>
                     IF OpDue(x, i) = -1 THEN NoTrap(x, r) ELSE Trapped(x, r, OpDue(x, i), x.h.pc)
  <1> DEFINE i == Meaning(x, c)
             r == exec_c_insn(x, c)
             e == Expansion(c)
             k == CodeExpansion(c)
             full == Execute(x, k, NoResult)
             due == OpDue(x, i)
  <1>1. i.op = "illegal" => due = CAUSE_ILLEGAL_INSTRUCTION
    BY OpDueIs
  <1>2. ASSUME NEW cause \in Nat, r = Raise(x, cause)
        PROVE  r \in MachineState /\ FpuKept(x, r, i) /\ Trapped(x, r, cause, x.h.pc)
    <2> HIDE DEF r, i
    <2>1. r \in MachineState /\ FpuSame(x, r) /\ Trapped(x, r, cause, x.h.pc)
      BY <1>2, RaiseHere DEF Outcome
    <2> QED
      BY <2>1, SameIsKept
  <1>3. CASE i.op = "illegal" /\ r = raise_illegal(x)
    <2>1. r \in MachineState /\ FpuKept(x, r, i) /\ Trapped(x, r, CAUSE_ILLEGAL_INSTRUCTION, x.h.pc)
      BY <1>2, <1>3, Causes DEF raise_illegal
    <2>2. due = CAUSE_ILLEGAL_INSTRUCTION /\ due # -1
      BY <1>1, <1>3, Causes
    <2> HIDE DEF r, i, due
    <2> QED
      BY <2>1, <2>2 DEF r, i, due
  <1>4. CASE Departs(x, c) /\ r = Raise(x, CAUSE_BREAKPOINT)
    BY <1>2, <1>4, Causes
  <1>5. CASE i = e /\ ActsLike(x, c, e, k)
    <2> HIDE DEF i, r, e, k, full, due
    <2>1. r \in MachineState /\ FpuKept(x, r, k)
      BY <1>5, CompressedKeeps DEF ActsLike, r, full
    <2>2. FpuKept(x, r, i)
      BY <1>5, <2>1 DEF ActsLike, FpuKept, r
    <2>3. CASE e.op # "ebreak"
      <3>1. ASSUME ~Departs(x, c)
            PROVE  IF due = -1 THEN NoTrap(x, r) ELSE Trapped(x, r, due, x.h.pc)
        <4>1. k = e /\ IsExpansion(c, e) /\ ActsAs(x, r, e, full)
          BY <1>5, <3>1 DEF ActsLike, r, full
        <4>2. Follows(x, r, e, full)
          BY <2>3, <3>1, <4>1, ExpansionFollows DEF full
        <4> QED
          BY <1>5, <4>2 DEF Follows, due
      <3> QED
        BY <2>1, <2>2, <3>1 DEF i, r, due
    <2>4. CASE e.op = "ebreak"
      <3>1. ASSUME ~Departs(x, c)
            PROVE  IF due = -1 THEN NoTrap(x, r) ELSE Trapped(x, r, due, x.h.pc)
        <4>1. k = e /\ IsExpansion(c, e) /\ ActsAs(x, r, e, full)
          BY <1>5, <3>1 DEF ActsLike, r, full
        <4>2. r = full
          BY <2>4, <4>1 DEF ActsAs
        <4>3. IsInstruction(e)
          BY <4>1, ExpansionOK
        <4>4. IF OpDue(x, e) = -1 THEN NoTrap(x, full) ELSE Trapped(x, full, OpDue(x, e), x.h.pc)
          BY <4>1, <4>3, NoResultOK, ExecuteKeeps DEF full
        <4> QED
          BY <1>5, <4>2, <4>4 DEF due
      <3> QED
        BY <2>1, <2>2, <3>1 DEF i, r, due
    <2> QED
      BY <2>3, <2>4
  <1> QED
    BY <1>3, <1>4, <1>5, MeaningCompressed

TrapOr(x, r, due, epc) == IF due = -1 THEN NoTrap(x, r) ELSE Trapped(x, r, due, epc)

\* The address a trap reports.
Epc(x, due) ==
    IF due = CAUSE_MISALIGNED_FETCH /\ x.h.pc % IAlign(x) # 0 THEN x.prev_pc ELSE x.h.pc

\* A word of the run loop, before 4 is added to the pc.
Body(x, w, sf) ==
    IF sdtrig_check(x.trig, x.h.privilege, x.h.pc, "execute")
    THEN Raise(x, CAUSE_BREAKPOINT) ELSE exec(x, w, sf)

\* It owes a trap and takes it, or takes none.
LEMMA BodyStep ==
    ASSUME NEW x \in MachineState, NEW w \in Executable, NEW sf \in SoftFloatResult
    PROVE  LET r == Body(x, w, sf)
           IN  /\ IsInstruction(Meaning(x, w))
               /\ r \in MachineState /\ FpuKept(x, r, Meaning(x, w))
               /\ Predictable(x, w) => TrapOr(x, r, DueTrap(x, w), Epc(x, DueTrap(x, w)))
  <1> DEFINE r == Body(x, w, sf)
             i == Meaning(x, w)
             due == DueTrap(x, w)
             epc == Epc(x, due)
             fetch == sdtrig_check(x.trig, x.h.privilege, x.h.pc, "execute")
             odd == x.h.pc % IAlign(x) # 0
  <1>1. \/ w \in Half16 /\ EvenOffset(w) /\ IsCompressed(w)
        \/ w \in Word32 /\ ~HasOwnModule(w) /\ ~IsCompressed(w) /\ i = Decoded(w)
    BY KindOf DEF Executable, Meaning
  <1>2. IsInstruction(i)
    BY <1>1, MeaningCompressed, DecodedOK
  <1>3. due = IF fetch THEN CAUSE_BREAKPOINT ELSE IF odd THEN CAUSE_MISALIGNED_FETCH
              ELSE IF NeedsFpu(w) /\ x.fs_off THEN CAUSE_ILLEGAL_INSTRUCTION ELSE OpDue(x, i)
    BY <1>2, DueTrapIs
  <1>4. r = IF fetch THEN Raise(x, CAUSE_BREAKPOINT) ELSE exec(x, w, sf)
    BY DEF Body
  <1> HIDE DEF r, i, due, fetch, odd
  <1> SUFFICES r \in MachineState /\ FpuKept(x, r, i) /\ (Predictable(x, w) => TrapOr(x, r, due, epc))
    BY <1>2 DEF r, i, due
  <1>5. ASSUME NEW cause \in Nat, r = Raise(x, cause), due = cause, ~odd \/ cause # CAUSE_MISALIGNED_FETCH
        PROVE  r \in MachineState /\ FpuKept(x, r, i) /\ TrapOr(x, r, due, epc)
    <2>1. r \in MachineState /\ FpuSame(x, r) /\ Trapped(x, r, cause, x.h.pc)
      BY <1>5, RaiseHere DEF Outcome
    <2>2. epc = x.h.pc /\ due # -1
      BY <1>5, Causes DEF Epc, odd
    <2> QED
      BY <1>5, <2>1, <2>2, SameIsKept DEF TrapOr
  <1>6. CASE fetch
    <2>1. CAUSE_BREAKPOINT # CAUSE_MISALIGNED_FETCH
      BY DEF CAUSE_BREAKPOINT, CAUSE_MISALIGNED_FETCH
    <2> QED
      BY <1>3, <1>4, <1>5, <1>6, <2>1, Causes
  <1>7. CASE ~fetch /\ odd
    <2>1. r = [x EXCEPT !.h = raise_exception_pc(@, CAUSE_MISALIGNED_FETCH, x.prev_pc)]
      BY <1>4, <1>7 DEF exec, odd
    <2>2. r \in MachineState /\ Trapped(x, r, CAUSE_MISALIGNED_FETCH, x.prev_pc)
      BY <2>1, RaisePc, HartOf, Causes
    <2>3. due = CAUSE_MISALIGNED_FETCH /\ due # -1 /\ epc = x.prev_pc
      BY <1>3, <1>7, Causes DEF Epc, odd
    <2>4. FpuSame(x, r)
      BY <2>2, KeptFpu DEF Trapped
    <2> QED
      BY <2>2, <2>3, <2>4, SameIsKept DEF TrapOr
  <1>8. CASE ~fetch /\ ~odd /\ NeedsFpu(w) /\ x.fs_off
    <2>1. r = raise_illegal(x)
      BY <1>4, <1>8 DEF exec, odd, NeedsFpu
    <2>2. due = CAUSE_ILLEGAL_INSTRUCTION
      BY <1>3, <1>8
    <2> QED
      BY <1>5, <1>8, <2>1, <2>2, Causes DEF raise_illegal
  <1>9. CASE ~fetch /\ ~odd /\ ~(NeedsFpu(w) /\ x.fs_off)
    <2>1. due = OpDue(x, i) /\ epc = x.h.pc
      BY <1>3, <1>9 DEF Epc, odd
    <2>2. CASE w \in Word32 /\ ~HasOwnModule(w) /\ ~IsCompressed(w) /\ i = Decoded(w)
      <3>1. r = Execute(x, i, sf)
        BY <1>4, <1>9, <2>2 DEF exec, odd, NeedsFpu
      <3> QED
        BY <1>2, <2>1, <3>1, ExecuteKeeps DEF TrapOr
    <2>3. CASE w \in Half16 /\ EvenOffset(w) /\ IsCompressed(w) /\ x.misa_c
      <3>1. r = exec_c_insn(x, w) /\ x.h.pc % IAlign(x) = 0
        BY <1>4, <1>9, <2>3 DEF exec, odd
      <3>2. Predictable(x, w) => ~Departs(x, w)
        BY <2>3 DEF Predictable
      <3> QED
        BY <2>1, <2>3, <3>1, <3>2, CompressedStep DEF TrapOr, i
    <2>4. CASE w \in Half16 /\ IsCompressed(w) /\ ~x.misa_c
      <3>1. r = raise_illegal(x)
        BY <1>4, <1>9, <2>4 DEF exec, odd
      <3>2. i.op = "illegal"
        BY <2>4, MeaningCompressed DEF i
      <3>3. due = CAUSE_ILLEGAL_INSTRUCTION
        BY <2>1, <3>2, OpDueIs
      <3> QED
        BY <1>5, <1>9, <3>1, <3>3, Causes DEF raise_illegal
    <2> QED
      BY <1>1, <2>2, <2>3, <2>4
  <1> QED
    BY <1>6, <1>7, <1>8, <1>9


-----------------------------------------------------------------------------
\* A turn of the run loop.

\* `pc += 4`, and where the instruction was.
LEMMA Advance ==
    ASSUME NEW x \in MachineState, NEW a \in Addr
    PROVE  LET r == [x EXCEPT !.h.pc = AddrPlus(@, 4), !.prev_pc = a]
           IN  /\ r \in MachineState /\ SameBut(x, r, {"h", "prev_pc"})
               /\ r.h = [x.h EXCEPT !.pc = AddrPlus(x.h.pc, 4)]
               /\ r.h.pc = AddrPlus(x.h.pc, 4) /\ r.h.privilege = x.h.privilege
               /\ r.h.mcause = x.h.mcause /\ r.h.scause = x.h.scause
               /\ r.h.mepc = x.h.mepc /\ r.h.sepc = x.h.sepc
  <1> DEFINE t == AddrPlus(x.h.pc, 4)
             g == [x.h EXCEPT !.pc = t]
             r == [x EXCEPT !.h.pc = AddrPlus(@, 4), !.prev_pc = a]
  <1>1. t \in Addr
    <2>1. 4 \in Int
      OBVIOUS
    <2> QED
      BY <2>1, HartOf, AddrPlusType
  <1> HIDE DEF t
  <1>2. /\ g \in HartState /\ g.pc = t /\ g.privilege = x.h.privilege /\ g.mcause = x.h.mcause
        /\ g.scause = x.h.scause /\ g.mepc = x.h.mepc /\ g.sepc = x.h.sepc
    <2>1. x.h \in HartState
      BY HartOf
    <2> QED
      BY <1>1, <2>1 DEF HartState
  <1>3. r = [x EXCEPT !.h = g, !.prev_pc = a]
    BY DEF MachineState, t
  <1>4. [x EXCEPT !.h = g, !.prev_pc = a] \in MachineState
    <2> HIDE DEF g
    <2> QED
      BY <1>2 DEF MachineState
  <1>5. /\ r.h = g /\ SameBut(x, r, {"h", "prev_pc"})
    <2> HIDE DEF g
    <2> QED
      BY <1>3 DEF MachineState, SameBut, Frame
  <1> HIDE DEF g, r
  <1> QED
    BY <1>2, <1>3, <1>4, <1>5 DEF g, r, t

\* A turn past the end of memory is fatal; any other advances the machine Body
\* leaves behind.
Advanced(x, y, r) ==
    /\ SameBut(y, r, {"h", "prev_pc"})
    /\ r.h.pc = AddrPlus(y.h.pc, 4) /\ r.h.privilege = y.h.privilege
    /\ r.h.mcause = y.h.mcause /\ r.h.scause = y.h.scause
    /\ r.h.mepc = y.h.mepc /\ r.h.sepc = y.h.sepc

LEMMA TurnStep ==
    ASSUME NEW x \in MachineState, NEW w \in Executable, NEW sf \in SoftFloatResult
    PROVE  LET r == Turn(x, w, sf)
           IN  /\ r \in MachineState /\ FpuKept(x, r, Meaning(x, w))
               /\ x.h.pc < MemSize => Advanced(x, Body(x, w, sf), r)
  <1> DEFINE r == Turn(x, w, sf)
             y == Body(x, w, sf)
             i == Meaning(x, w)
  <1>1. x.h.pc \in Nat /\ MemSize \in Nat /\ x.h.pc \in Addr
    BY HartOf, MemSizeAssumption, AddrAssumption DEF Addr
  <1>2. y \in MachineState /\ FpuKept(x, y, i)
    BY BodyStep
  <1>3. r = IF x.h.pc >= MemSize THEN fatal(x)
            ELSE [y EXCEPT !.h.pc = AddrPlus(@, 4), !.prev_pc = x.h.pc]
    BY DEF Turn, Body
  <1> HIDE DEF r, y, i
  <1>4. CASE x.h.pc >= MemSize
    <2>1. r \in MachineState /\ SameBut(x, r, {"running"})
      BY <1>3, <1>4, SetRunning DEF fatal
    <2>2. FpuKept(x, r, i)
      BY <2>1, KeptFpu, SameIsKept
    <2> QED
      BY <1>1, <1>4, <2>1, <2>2 DEF r, i
  <1>5. CASE x.h.pc < MemSize
    <2> DEFINE a == x.h.pc
    <2>1. r = [y EXCEPT !.h.pc = AddrPlus(@, 4), !.prev_pc = a] /\ a \in Addr
      BY <1>1, <1>3, <1>5
    <2> HIDE DEF a
    <2>2. r \in MachineState /\ Advanced(x, y, r)
      BY <1>2, <2>1, Advance DEF Advanced
    <2>3. FpuSame(y, r)
      BY <2>2 DEF Advanced, FpuSame, SameBut, Frame
    <2>4. FpuKept(x, r, i)
      BY <1>2, <2>3, KeptThrough
    <2> QED
      BY <2>2, <2>4 DEF r, y, i
  <1> QED
    BY <1>1, <1>4, <1>5

\* The CSRs of the triggers ...
LEMMA TriggerWriteOK ==
    ASSUME NEW x \in MachineState, NEW t \in TriggerFile
    PROVE  LET r == [x EXCEPT !.trig = t]
           IN  r \in MachineState /\ SameBut(x, r, {"trig"})
  BY DEF MachineState, SameBut, Frame

LEMMA TriggerSets ==
    ASSUME NEW t \in TriggerFile
    PROVE  /\ \A v \in Nat : set_tselect(t, v) \in TriggerFile
           /\ \A v \in SUBSET Tdata1Bits : set_tdata1(t, v) \in TriggerFile
           /\ \A v \in Addr : set_tdata2(t, v) \in TriggerFile
           /\ \A v \in BOOLEAN : set_tcontrol(t, v) \in TriggerFile
  <1>1. /\ t.tdata1 \in [Slots -> SUBSET Tdata1Bits] /\ t.tdata2 \in [Slots -> Addr]
        /\ t.tselect \in Slots
    BY DEF TriggerFile
  <1>2. ASSUME NEW v \in Nat PROVE set_tselect(t, v) \in TriggerFile
    <2>1. (IF v >= NumTriggers THEN NumTriggers - 1 ELSE v) \in Slots
      BY NumTriggersAssumption DEF Slots
    <2> QED
      BY <2>1 DEF set_tselect, TriggerFile
  <1>3. ASSUME NEW v \in SUBSET Tdata1Bits PROVE set_tdata1(t, v) \in TriggerFile
    <2> DEFINE f == [t.tdata1 EXCEPT ![t.tselect] = v \ {"dmode"}]
    <2>1. v \ {"dmode"} \in SUBSET Tdata1Bits
      OBVIOUS
    <2>2. f \in [Slots -> SUBSET Tdata1Bits]
      BY <1>1, <2>1
    <2>3. set_tdata1(t, v) = [t EXCEPT !.tdata1 = f]
      BY DEF set_tdata1, TriggerFile
    <2> HIDE DEF f
    <2> QED
      BY <2>2, <2>3 DEF TriggerFile
  <1>4. ASSUME NEW v \in Addr PROVE set_tdata2(t, v) \in TriggerFile
    <2> DEFINE f == [t.tdata2 EXCEPT ![t.tselect] = v]
    <2>1. f \in [Slots -> Addr]
      BY <1>1
    <2>2. set_tdata2(t, v) = [t EXCEPT !.tdata2 = f]
      BY DEF set_tdata2, TriggerFile
    <2> HIDE DEF f
    <2> QED
      BY <2>1, <2>2 DEF TriggerFile
  <1>5. ASSUME NEW v \in BOOLEAN PROVE set_tcontrol(t, v) \in TriggerFile
    BY DEF set_tcontrol, TriggerFile
  <1> QED
    BY <1>2, <1>3, <1>4, <1>5

\* ... and of the floating-point unit.
LEMMA FcsrSets ==
    ASSUME NEW x \in MachineState
    PROVE  /\ \A v \in SUBSET FlagNames : set_fflags(x, v) \in MachineState
           /\ \A v \in 0 .. 7 : set_frm(x, v) \in MachineState
           /\ \A v \in 0 .. 7 : \A f \in SUBSET FlagNames : set_fcsr(x, v, f) \in MachineState
  <1>1. ASSUME NEW v \in SUBSET FlagNames PROVE set_fflags(x, v) \in MachineState
    BY DEF set_fflags, MachineState
  <1>2. ASSUME NEW v \in 0 .. 7 PROVE set_frm(x, v) \in MachineState
    <2>1. ~(v > 4) => v \in RoundingModes
      BY DEF RoundingModes
    <2> QED
      BY <2>1 DEF set_frm, MachineState
  <1>3. ASSUME NEW v \in 0 .. 7, NEW f \in SUBSET FlagNames PROVE set_fcsr(x, v, f) \in MachineState
    <2> DEFINE k == IF v <= 4 THEN v ELSE x.frm
    <2>1. k \in RoundingModes
      <3>1. x.frm \in RoundingModes
        BY DEF MachineState
      <3>2. v <= 4 => v \in RoundingModes
        BY DEF RoundingModes
      <3> QED
        BY <3>1, <3>2
    <2>2. set_fcsr(x, v, f) = [x EXCEPT !.fflags = f, !.frm = k]
      BY DEF set_fcsr
    <2> HIDE DEF k
    <2> QED
      BY <2>1, <2>2 DEF MachineState
  <1> QED
    BY <1>1, <1>2, <1>3


-----------------------------------------------------------------------------
\* The specification.

\* What Next does, by its disjuncts.
RunStep == \E w \in Executable : \E sf \in SoftFloatResult : Run(w, sf)
CsrStep ==
    /\ last' = <<"csr">>
    /\ \/ \E t \in TriggerFile : m' = [m EXCEPT !.trig = t]
       \/ m' \in MachineState
ShowStep == \E w \in Word32 : Disassemble(w)

LEMMA NextIs ==
    ASSUME TypeOK, Next
    PROVE  /\ probe' \in Probes /\ left' \in Nat
           /\ RunStep \/ CsrStep \/ ShowStep
  <1>1. /\ Words(probe) \subseteq IF probe = "decode" THEN Word32 ELSE Executable
        /\ Results(probe) \subseteq SoftFloatResult
    BY InstructionsAssumption DEF TypeOK
  <1>2. probe' \in Probes /\ left' \in Nat
    BY DEF TypeOK, Next
  <1>3. m \in MachineState /\ m.trig \in TriggerFile
    BY DEF TypeOK, MachineState
  <1>4. CASE probe # "decode" /\ \E w \in Words(probe) :
               \E sf \in IF NeedsResult(w) THEN Results(probe) ELSE {NoResult} : Run(w, sf)
    <2>1. PICK w \in Words(probe) :
               \E sf \in IF NeedsResult(w) THEN Results(probe) ELSE {NoResult} : Run(w, sf)
      BY <1>4
    <2>2. PICK sf \in IF NeedsResult(w) THEN Results(probe) ELSE {NoResult} : Run(w, sf)
      BY <2>1
    <2>3. w \in Executable /\ sf \in SoftFloatResult
      BY <1>1, <1>4, NoResultOK
    <2> QED
      BY <1>2, <2>2, <2>3 DEF RunStep
  <1>5. CASE \E c \in TriggerWrites : WriteTrigger(c[1], c[2])
    <2>1. PICK c \in TriggerWrites : WriteTrigger(c[1], c[2])
      BY <1>5
    <2> DEFINE t == CASE c[1] = "tselect" -> set_tselect(m.trig, c[2])
                      [] c[1] = "tdata1" -> set_tdata1(m.trig, c[2])
                      [] c[1] = "tdata2" -> set_tdata2(m.trig, c[2])
                      [] c[1] = "tcontrol" -> set_tcontrol(m.trig, c[2])
    <2>2. m' = [m EXCEPT !.trig = t] /\ last' = <<"csr">>
      BY <2>1 DEF WriteTrigger
    <2>3. \/ c[1] = "tselect" /\ c[2] \in Nat
          \/ c[1] = "tdata1" /\ c[2] \in SUBSET Tdata1Bits
          \/ c[1] = "tdata2" /\ c[2] \in Addr
          \/ c[1] = "tcontrol" /\ c[2] \in BOOLEAN
      BY WritesAssumption
    <2>4. t \in TriggerFile
      <3>1. CASE c[1] = "tselect" /\ c[2] \in Nat
        BY <1>3, <3>1, TriggerSets
      <3>2. CASE c[1] = "tdata1" /\ c[2] \in SUBSET Tdata1Bits
        BY <1>3, <3>2, TriggerSets
      <3>3. CASE c[1] = "tdata2" /\ c[2] \in Addr
        BY <1>3, <3>3, TriggerSets
      <3>4. CASE c[1] = "tcontrol" /\ c[2] \in BOOLEAN
        BY <1>3, <3>4, TriggerSets
      <3> QED
        BY <2>3, <3>1, <3>2, <3>3, <3>4
    <2> HIDE DEF t
    <2> QED
      BY <1>2, <2>2, <2>4 DEF CsrStep
  <1>6. CASE \E c \in FcsrWrites : WriteFcsr(c[1], c[2])
    <2>1. PICK c \in FcsrWrites : WriteFcsr(c[1], c[2])
      BY <1>6
    <2>2. /\ last' = <<"csr">>
          /\ m' = CASE c[1] = "fflags" -> set_fflags(m, c[2])
                    [] c[1] = "frm" -> set_frm(m, c[2])
                    [] c[1] = "fcsr" -> set_fcsr(m, c[2][1], c[2][2])
      BY <2>1 DEF WriteFcsr
    <2>3. \/ c[1] = "fflags" /\ c[2] \in SUBSET FlagNames
          \/ c[1] = "frm" /\ c[2] \in 0 .. 7
          \/ c[1] = "fcsr" /\ c[2][1] \in 0 .. 7 /\ c[2][2] \in SUBSET FlagNames
      BY WritesAssumption
    <2>4. m' \in MachineState
      <3>1. CASE c[1] = "fflags" /\ c[2] \in SUBSET FlagNames
        BY <1>3, <2>2, <3>1, FcsrSets
      <3>2. CASE c[1] = "frm" /\ c[2] \in 0 .. 7
        BY <1>3, <2>2, <3>2, FcsrSets
      <3>3. CASE c[1] = "fcsr" /\ c[2][1] \in 0 .. 7 /\ c[2][2] \in SUBSET FlagNames
        BY <1>3, <2>2, <3>3, FcsrSets
      <3> QED
        BY <2>3, <3>1, <3>2, <3>3
    <2> QED
      BY <1>2, <2>2, <2>4 DEF CsrStep
  <1>7. CASE probe = "decode" /\ \E w \in Words(probe) : Disassemble(w)
    BY <1>1, <1>2, <1>7 DEF ShowStep
  <1> QED
    BY <1>4, <1>5, <1>6, <1>7 DEF Next

\* A turn of the loop, as Run takes it.
LEMMA RunIs ==
    ASSUME NEW w, NEW sf, Run(w, sf)
    PROVE  m' = Turn(m, w, sf) /\ Ran /\ Insn = w /\ last' = <<"run", w>>
  BY DEF Run, Ran, Insn

\* The other steps are not turns.
LEMMA NotRan ==
    /\ CsrStep => ~Ran
    /\ ShowStep => ~Ran
  BY DEF CsrStep, ShowStep, Disassemble, Ran

\* A step keeps the types.
LEMMA TypeStep ==
    ASSUME TypeOK, [Next]_vars
    PROVE  TypeOK'
  <1>1. CASE Next
    <2>1. /\ probe' \in Probes /\ left' \in Nat
          /\ RunStep \/ CsrStep \/ ShowStep
      BY <1>1, NextIs
    <2>2. m \in MachineState
      BY DEF TypeOK
    <2>3. CASE RunStep
      <3>1. PICK w \in Executable : \E sf \in SoftFloatResult : Run(w, sf)
        BY <2>3 DEF RunStep
      <3>2. PICK sf \in SoftFloatResult : Run(w, sf)
        BY <3>1
      <3>3. m' = Turn(m, w, sf) /\ last' = <<"run", w>>
        BY <3>2, RunIs
      <3>4. m' \in MachineState
        BY <2>2, <3>3, TurnStep
      <3> QED
        BY <2>1, <3>3, <3>4 DEF TypeOK
    <2>4. CASE CsrStep
      <3>1. m' \in MachineState
        BY <2>2, <2>4, TriggerWriteOK DEF CsrStep
      <3> QED
        BY <2>1, <2>4, <3>1 DEF TypeOK, CsrStep
    <2>5. CASE ShowStep
      BY <2>1, <2>2, <2>5 DEF TypeOK, ShowStep, Disassemble
    <2> QED
      BY <2>1, <2>3, <2>4, <2>5
  <1>2. CASE UNCHANGED vars
    BY <1>2 DEF TypeOK, vars
  <1> QED
    BY <1>1, <1>2

\* Every register, lane, byte and CSR stays within its width whatever is
\* executed: TypeOK is an invariant, inductive as it stands.
THEOREM TypeCorrect == Spec => []TypeOK
  <1>1. Init => TypeOK
    BY InstructionsAssumption DEF Init, TypeOK
  <1>2. TypeOK /\ [Next]_vars => TypeOK'
    BY TypeStep
  <1> QED
    BY <1>1, <1>2, PTL DEF Spec

\* The two decoders agree on every word the debugger prints.
THEOREM DecodersAlwaysAgree == Spec => []DecodersAgree
  <1>1. TypeOK => DecodersAgree
    <2> SUFFICES ASSUME TypeOK, last[1] = "disasm",
                        NEW f7 \in 0 .. 127, NEW r2 \in 0 .. 9, NEW r1 \in {0, 1}, NEW d \in {0, 1}
                 PROVE  LET w == WordLike(last[2], f7, r2, r1, d)
                        IN  NamedAsExecuted(w) = ~KnownDrift(w)
      BY DEF DecodersAgree
    <2>1. last[2] \in Word32
      <3>1. last \in {<<"none">>, <<"csr">>} \union ({"run"} \X Executable) \union ({"disasm"} \X Word32)
        BY DEF TypeOK
      <3>2. CASE last \in {"disasm"} \X Word32
        BY <3>2
      <3>3. CASE last \in {"run"} \X Executable
        BY <3>3
      <3> QED
        BY <3>1, <3>2, <3>3
    <2>2. WordLike(last[2], f7, r2, r1, d) \in Word32
      BY <2>1, WordLikeType
    <2> QED
      BY <2>2, DecodersAgreeOn
  <1> QED
    BY <1>1, TypeCorrect, PTL


\* A turn that Next allows.
LEMMA TurnTaken ==
    ASSUME TypeOK, Next, Ran
    PROVE  /\ m \in MachineState /\ m' \in MachineState
           /\ Insn \in Executable
           /\ \E sf \in SoftFloatResult : m' = Turn(m, Insn, sf)
  <1>1. RunStep
    BY NextIs, NotRan
  <1>2. PICK w \in Executable : \E sf \in SoftFloatResult : Run(w, sf)
    BY <1>1 DEF RunStep
  <1>3. PICK sf \in SoftFloatResult : Run(w, sf)
    BY <1>2
  <1>4. m' = Turn(m, w, sf) /\ Insn = w
    BY <1>3, RunIs
  <1>5. m \in MachineState
    BY DEF TypeOK
  <1>6. m' \in MachineState
    BY <1>4, <1>5, TurnStep
  <1> QED
    BY <1>4, <1>5, <1>6

\* No instruction, compressed or not, changes frm, loses a flag or writes a lane
\* other than rd's, and rd's is boxed for its format.
THEOREM FpuStateIsKept == Spec => FpuStateKept
  <1>1. ASSUME TypeOK, TypeOK', Next
        PROVE  /\ m'.frm \in RoundingModes
               /\ Ran => /\ m.fflags \subseteq m'.fflags
                         /\ m'.frm = m.frm
                         /\ \A f \in DOMAIN m.fpr : m'.fpr[f] # m.fpr[f] =>
                               LET i == Meaning(m, Insn)
                                   width == 2 ^ FmtWidth(DestFormat(i))
                               IN  /\ f = i.rd
                                   /\ m'.fpr[f] \div width = LaneMod \div width - 1
    <2>1. m'.frm \in RoundingModes
      BY <1>1 DEF TypeOK, MachineState
    <2>2. ASSUME Ran PROVE FpuKept(m, m', Meaning(m, Insn)) /\ DOMAIN m.fpr = 0 .. 31
      <3>1. m \in MachineState /\ Insn \in Executable
        BY <1>1, <2>2, TurnTaken
      <3>2. PICK sf \in SoftFloatResult : m' = Turn(m, Insn, sf)
        BY <1>1, <2>2, TurnTaken
      <3>3. FpuKept(m, Turn(m, Insn, sf), Meaning(m, Insn))
        BY <3>1, TurnStep
      <3>4. DOMAIN m.fpr = 0 .. 31
        BY <3>1 DEF MachineState
      <3> QED
        BY <3>2, <3>3, <3>4
    <2> QED
      BY <2>1, <2>2 DEF FpuKept, Boxed
  <1> QED
    BY <1>1, TypeCorrect, PTL DEF Spec, FpuStateKept

\* What Body's trap looks like after the turn.
LEMMA PreciseTurn ==
    ASSUME NEW x \in MachineState, NEW y \in MachineState, NEW r, NEW due \in Nat, NEW epc,
           Trapped(x, y, due, epc), Advanced(x, y, r)
    PROVE  LET toS == ToS(x.h, due)
           IN  /\ SameBut(x, r, {"h", "prev_pc"})
               /\ r.h.privilege = IF toS THEN PRV_SUPERVISOR ELSE PRV_MACHINE
               /\ r.h.pc = IF toS THEN x.h.stvec.base ELSE x.h.mtvec.base
               /\ <<r.h.scause, r.h.sepc>> =
                      IF toS THEN <<Exc(due), epc>> ELSE <<x.h.scause, x.h.sepc>>
               /\ <<r.h.mcause, r.h.mepc>> =
                      IF toS THEN <<x.h.mcause, x.h.mepc>> ELSE <<Exc(due), epc>>
  <1> DEFINE v == Vector(x.h, due)
  <1>1. v.base \in Addr
    <2>1. x.h.stvec \in Tvec /\ x.h.mtvec \in Tvec
      BY HartOf DEF HartState
    <2> QED
      BY <2>1 DEF Vector, Tvec
  <1>2. AddrPlus(ExceptionTarget(v), 4) = v.base
    <2> HIDE DEF v
    <2>1. -4 \in Int /\ 4 \in Int /\ (-4) + 4 = 0
      OBVIOUS
    <2>2. AddrPlus(AddrPlus(v.base, -4), 4) = AddrPlus(v.base, (-4) + 4) /\ AddrPlus(v.base, 0) = v.base
      BY <1>1, <2>1, AddrPlusPlus
    <2> QED
      BY <2>1, <2>2 DEF ExceptionTarget
  <1>3. SameBut(x, r, {"h", "prev_pc"})
    BY DEF Trapped, Advanced, SameBut, Frame
  <1>4. r.h.pc = v.base /\ v.base = IF ToS(x.h, due) THEN x.h.stvec.base ELSE x.h.mtvec.base
    BY <1>2 DEF Trapped, TakenTrap, Advanced, Vector
  <1>5. /\ r.h.privilege = y.h.privilege /\ r.h.scause = y.h.scause /\ r.h.sepc = y.h.sepc
        /\ r.h.mcause = y.h.mcause /\ r.h.mepc = y.h.mepc
    BY DEF Advanced
  <1>6. /\ y.h.privilege = IF ToS(x.h, due) THEN PRV_SUPERVISOR ELSE PRV_MACHINE
        /\ y.h.scause = IF ToS(x.h, due) THEN Exc(due) ELSE x.h.scause
        /\ y.h.sepc = IF ToS(x.h, due) THEN epc ELSE x.h.sepc
        /\ y.h.mcause = IF ToS(x.h, due) THEN x.h.mcause ELSE Exc(due)
        /\ y.h.mepc = IF ToS(x.h, due) THEN x.h.mepc ELSE epc
    BY DEF Trapped, TakenTrap
  <1> HIDE DEF v
  <1> QED
    BY <1>3, <1>4, <1>5, <1>6

\* The trap that is due is a cause or -1.
LEMMA DueType ==
    ASSUME NEW x \in MachineState, NEW w, IsInstruction(Meaning(x, w))
    PROVE  DueTrap(x, w) = -1 \/ DueTrap(x, w) \in Nat
  <1>1. OpDue(x, Meaning(x, w)) = -1 \/ OpDue(x, Meaning(x, w)) \in Nat
    <2> DEFINE i == Meaning(x, w)
    <2>1. x.h.privilege \in Privileges
      BY HartOf
    <2> HIDE DEF i
    <2> QED
      BY <2>1, OpDueIs, Causes DEF EcallDue, LoadDue, StoreDue, FetchDue, BranchDue, TrapOps, i
  <1> QED
    BY <1>1, DueTrapIs, Causes

\* Every trap is precise, for every instruction exec handles itself, every
\* machine and every memory size.
THEOREM TrapsArePrecise == Spec => TrapsPrecise
  <1>1. ASSUME TypeOK, Next, Ran, m.h.pc < MemSize, Predictable(m, Insn)
        PROVE  PreciseStep
    <2>1. m \in MachineState /\ Insn \in Executable
      BY <1>1, TurnTaken
    <2>2. PICK sf \in SoftFloatResult : m' = Turn(m, Insn, sf)
      BY <1>1, TurnTaken
    <2> DEFINE w == Insn
               x == m
               r == m'
               y == Body(x, w, sf)
               due == DueTrap(x, w)
               epc == Epc(x, due)
    <2>3. /\ IsInstruction(Meaning(x, w)) /\ y \in MachineState /\ TrapOr(x, y, due, epc)
      BY <1>1, <2>1, BodyStep
    <2>4. Advanced(x, y, r)
      BY <1>1, <2>1, <2>2, TurnStep
    <2>5. due = -1 \/ due \in Nat
      BY <2>1, <2>3, DueType
    <2> HIDE DEF y
    <2>6. CASE due = -1
      <3>1. r.h.mcause = x.h.mcause /\ r.h.scause = x.h.scause
        BY <2>3, <2>4, <2>6 DEF TrapOr, NoTrap, Advanced
      <3> QED
        BY <2>6, <3>1 DEF PreciseStep
    <2>7. CASE due # -1
      <3>1. Trapped(x, y, due, epc) /\ due \in Nat
        BY <2>3, <2>5, <2>7 DEF TrapOr
      <3> DEFINE toS == ToS(x.h, due)
      <3>2. /\ SameBut(x, r, {"h", "prev_pc"})
            /\ r.h.privilege = IF toS THEN PRV_SUPERVISOR ELSE PRV_MACHINE
            /\ r.h.pc = IF toS THEN x.h.stvec.base ELSE x.h.mtvec.base
            /\ <<r.h.scause, r.h.sepc>> =
                   IF toS THEN <<Exc(due), epc>> ELSE <<x.h.scause, x.h.sepc>>
            /\ <<r.h.mcause, r.h.mepc>> =
                   IF toS THEN <<x.h.mcause, x.h.mepc>> ELSE <<Exc(due), epc>>
        <4> HIDE DEF due, epc, x, r
        <4> QED
          BY <2>1, <2>3, <2>4, <3>1, PreciseTurn DEF x
      <3>3. Same({"gpr", "mem", "trig", "fpr", "fmem", "fflags", "frm", "running"})
        BY <3>2 DEF Same, SameBut, Frame
      <3> HIDE DEF due
      <3> QED
        BY <2>7, <3>2, <3>3 DEF PreciseStep, ToS, Epc, due
    <2> QED
      BY <2>6, <2>7
  <1>2. TypeOK /\ [Next]_vars =>
          [Ran /\ m.h.pc < MemSize /\ Predictable(m, Insn) => PreciseStep]_vars
    BY <1>1
  <1> QED
    BY <1>2, TypeCorrect, PTL DEF Spec, TrapsPrecise


\* A halfword that owes no trap, after the turn.
LEMMA CompressedTurn ==
    ASSUME NEW x \in MachineState, NEW c \in Half16, EvenOffset(c), ~Departs(x, c), x.misa_c,
           DueTrap(x, c) = -1, NEW sf
    PROVE  Follows(x, Body(x, c, sf), Expansion(c), Execute(x, Expansion(c), NoResult))
           /\ OpDue(x, Expansion(c)) = -1
  <1> DEFINE e == Expansion(c)
             i == Meaning(x, c)
             full == Execute(x, e, NoResult)
             y == exec_c_insn(x, c)
  <1>1. IsInstruction(i)
    BY MeaningCompressed
  <1>2. /\ ~sdtrig_check(x.trig, x.h.privilege, x.h.pc, "execute")
        /\ x.h.pc % IAlign(x) = 0 /\ OpDue(x, i) = -1
    BY <1>1, DueTrapIs, Causes
  <1>3. Body(x, c, sf) = y
    BY <1>2, KindOf DEF Body, exec
  <1>4. i.op \notin {"illegal", "ebreak"}
    BY <1>2, OpDueIs, Causes
  <1>5. i = e /\ IsExpansion(c, e) /\ ActsAs(x, y, e, full)
    <2>1. i = e /\ ActsLike(x, c, e, CodeExpansion(c))
      BY <1>4, MeaningCompressed
    <2> HIDE DEF i, e
    <2> QED
      BY <2>1 DEF ActsLike
  <1> HIDE DEF e, i, y
  <1>6. Follows(x, y, e, full)
    BY <1>2, <1>4, <1>5, ExpansionFollows
  <1> QED
    BY <1>2, <1>3, <1>5, <1>6 DEF e

\* Compressed instructions do what their expansions do: the handlers of
\* c_extension.c, with their hand-made pc corrections, against those of the base
\* and floating-point instructions, for every halfword outside Departs.
THEOREM CompressedAreExpansions == Spec => CompressedIsExpansion
  <1>1. ASSUME TypeOK, Next, Ran, m.h.pc < MemSize, IsCompressed(Insn), m.misa_c,
               DueTrap(m, Insn) = -1, ~Departs(m, Insn)
        PROVE  ActsAsExpansion
    <2>1. m \in MachineState /\ Insn \in Executable
      BY <1>1, TurnTaken
    <2>2. PICK sf \in SoftFloatResult : m' = Turn(m, Insn, sf)
      BY <1>1, TurnTaken
    <2>3. Insn \in Half16 /\ EvenOffset(Insn)
      BY <1>1, <2>1, KindOf DEF Executable
    <2> DEFINE x == m
               r == m'
               c == Insn
               e == Expansion(c)
               full == Execute(x, e, NoResult)
               y == Body(x, c, sf)
    <2>4. Follows(x, y, e, full) /\ OpDue(x, e) = -1
      BY <1>1, <2>1, <2>3, CompressedTurn
    <2>5. Advanced(x, y, r)
      BY <1>1, <2>1, <2>2, TurnStep
    <2>6. AddrPlus(AddrPlus(x.h.pc, -2), 4) = AddrPlus(x.h.pc, 2)
      <3>1. x.h.pc \in Addr /\ -2 \in Int /\ 4 \in Int /\ (-2) + 4 = 2
        BY <2>1, HartOf
      <3>2. AddrPlus(AddrPlus(x.h.pc, -2), 4) = AddrPlus(x.h.pc, (-2) + 4)
        BY <3>1, AddrPlusPlus
      <3> QED
        BY <3>1, <3>2
    <2> HIDE DEF e, full, y
    <2>7. /\ y.h.pc = IF Stays(x, e) THEN AddrPlus(x.h.pc, -2) ELSE full.h.pc
          /\ y.gpr = IF Links(e) THEN [full.gpr EXCEPT ![e.rd] = AddrPlus(x.h.pc, 2)] ELSE full.gpr
          /\ y.mem = full.mem /\ y.fpr = full.fpr /\ y.fmem = full.fmem
      BY <2>4 DEF Follows
    <2>8. /\ r.h.pc = AddrPlus(y.h.pc, 4) /\ r.gpr = y.gpr /\ r.mem = y.mem /\ r.fpr = y.fpr
          /\ r.fmem = y.fmem
      BY <2>5 DEF Advanced, SameBut, Frame
    <2>9. r.h.pc = IF Stays(x, e) THEN AddrPlus(x.h.pc, 2) ELSE AddrPlus(full.h.pc, 4)
      BY <2>6, <2>7, <2>8
    <2>10. r.gpr = IF Links(e) THEN [full.gpr EXCEPT ![e.rd] = AddrPlus(x.h.pc, 2)] ELSE full.gpr
      BY <2>7, <2>8
    <2>11. <<r.mem, r.fpr, r.fmem>> = <<full.mem, full.fpr, full.fmem>>
      BY <2>7, <2>8
    <2> QED
      BY <2>9, <2>10, <2>11 DEF ActsAsExpansion, Stays, Links, e, full
  <1>2. TypeOK /\ [Next]_vars =>
          [Ran /\ m.h.pc < MemSize /\ IsCompressed(Insn) /\ m.misa_c
             /\ DueTrap(m, Insn) = -1 /\ ~Departs(m, Insn) => ActsAsExpansion]_vars
    BY <1>1
  <1> QED
    BY <1>2, TypeCorrect, PTL DEF Spec, CompressedIsExpansion


-----------------------------------------------------------------------------
\* The M extension.

Half == 2 ^ (XLen - 1)

\* A word read as signed, ...
LEMMA SignedIs ==
    ASSUME NEW v \in Word
    PROVE  /\ Signed(v) \in Int /\ Signed(v) >= -Half /\ Signed(v) < Half
           /\ Signed(v) = v \/ Signed(v) = v - WordMod
  BY WordSize DEF Signed, Word, Half

\* ... and a number in its range stored as a word.
LEMMA SignedToWord ==
    ASSUME NEW n \in Int, n >= -Half, n < Half
    PROVE  Signed(ToWord(n)) = n
  <1>1. WordMod \in Nat /\ WordMod >= 1 /\ Half \in Nat /\ Half >= 1 /\ WordMod = 2 * Half
    BY WordSize DEF Half
  <1>2. CASE n >= 0
    <2>1. n \in 0 .. WordMod - 1 /\ n = WordMod * 0 + n /\ 0 \in Int
      BY <1>1, <1>2
    <2>2. (WordMod * 0 + n) % WordMod = n
      BY <1>1, <2>1, DivModUnique
    <2> QED
      BY <1>1, <2>1, <2>2 DEF ToWord, Signed, Half
  <1>3. CASE n < 0
    <2> DEFINE k == n + WordMod
    <2>1. k \in 0 .. WordMod - 1 /\ n = WordMod * (-1) + k /\ -1 \in Int /\ k >= Half /\ n = k - WordMod
      BY <1>1, <1>3
    <2> HIDE DEF k
    <2>2. (WordMod * (-1) + k) % WordMod = k
      BY <1>1, <2>1, DivModUnique
    <2> QED
      BY <1>1, <2>1, <2>2 DEF ToWord, Signed, Half
  <1> QED
    BY <1>2, <1>3

\* A multiple of the word size does not change the low half.
LEMMA LowSame ==
    ASSUME NEW a \in Int, NEW k \in Int
    PROVE  (a + WordMod * k) % WordMod = a % WordMod
  <1> DEFINE W == WordMod
             q == a \div W
             r == a % W
  <1>1. W \in Nat /\ W >= 1
    BY WordSize
  <1>2. a = W * q + r /\ q \in Int /\ r \in 0 .. W - 1
    BY <1>1, DivMod
  <1> HIDE DEF W, q, r
  <1>3. a + W * k = W * (q + k) + r /\ q + k \in Int
    BY <1>1, <1>2
  <1>4. (W * (q + k) + r) % W = r
    BY <1>1, <1>2, <1>3, DivModUnique
  <1> QED
    BY <1>3, <1>4 DEF W, r

\* The products of the two readings of the operands differ by such a multiple.
LEMMA Products ==
    ASSUME NEW u1 \in Word, NEW u2 \in Word
    PROVE  LET s1 == Signed(u1)
               s2 == Signed(u2)
           IN  /\ \E k \in Int : s1 * s2 = u1 * u2 + WordMod * k
               /\ \E k \in Int : s1 * s2 = s1 * u2 + WordMod * k
  <1> DEFINE s1 == Signed(u1)
             s2 == Signed(u2)
             W == WordMod
  <1>1. u1 \in Int /\ u2 \in Int /\ s1 \in Int /\ s2 \in Int /\ W \in Int
    BY WordSize, WordFacts, SignedIs
  <1>2. (s1 = u1 \/ s1 = u1 - W) /\ (s2 = u2 \/ s2 = u2 - W)
    BY SignedIs
  <1> HIDE DEF s1, s2, W
  <1>3. \E k \in Int : s1 * s2 = s1 * u2 + W * k
    <2>1. CASE s2 = u2
      <3>1. s1 * s2 = s1 * u2 + W * 0 /\ 0 \in Int
        BY <1>1, <2>1
      <3> QED
        BY <3>1
    <2>2. CASE s2 = u2 - W
      <3>1. s1 * s2 = s1 * u2 + W * (-s1) /\ -s1 \in Int
        BY <1>1, <2>2
      <3> QED
        BY <3>1
    <2> QED
      BY <1>2, <2>1, <2>2
  <1>4. \E k \in Int : s1 * u2 = u1 * u2 + W * k
    <2>1. CASE s1 = u1
      <3>1. s1 * u2 = u1 * u2 + W * 0 /\ 0 \in Int
        BY <1>1, <2>1
      <3> QED
        BY <3>1
    <2>2. CASE s1 = u1 - W
      <3>1. s1 * u2 = u1 * u2 + W * (-u2) /\ -u2 \in Int
        BY <1>1, <2>2
      <3> QED
        BY <3>1
    <2> QED
      BY <1>2, <2>1, <2>2
  <1>5. PICK k \in Int : s1 * s2 = s1 * u2 + W * k
    BY <1>3
  <1>6. PICK j \in Int : s1 * u2 = u1 * u2 + W * j
    BY <1>4
  <1>7. s1 * s2 = u1 * u2 + W * (j + k) /\ j + k \in Int
    <2>1. W * (j + k) = W * j + W * k
      BY <1>1
    <2> DEFINE p == s1 * s2
               o == s1 * u2
               n == u1 * u2
               wj == W * j
               wk == W * k
    <2>2. p \in Int /\ o \in Int /\ n \in Int /\ wj \in Int /\ wk \in Int
      BY <1>1
    <2>3. p = o + wk /\ o = n + wj
      BY <1>5, <1>6
    <2> HIDE DEF p, o, n, wj, wk
    <2>4. p = n + (wj + wk)
      BY <2>2, <2>3
    <2> QED
      BY <2>1, <2>4 DEF p, n, wj, wk
  <1> QED
    BY <1>3, <1>7 DEF s1, s2, W

\* A product in the range of two words from its halves.
LEMMA HighHalf ==
    ASSUME NEW p \in Int
    PROVE  /\ p >= -(WordMod * Half) /\ p < WordMod * Half =>
                Signed(High(p)) * WordMod + (p % WordMod) = p
           /\ p >= 0 /\ p < WordMod * WordMod => High(p) * WordMod + (p % WordMod) = p
  <1> DEFINE W == WordMod
             q == p \div W
             r == p % W
  <1>1. W \in Nat /\ W >= 1 /\ Half \in Nat
    BY WordSize DEF Half
  <1>2. p = W * q + r /\ q \in Int /\ r \in 0 .. W - 1
    BY <1>1, DivMod
  <1>3. High(p) = ToWord(q)
    BY DEF High
  <1> HIDE DEF q, r
  <1>4. ASSUME NEW lo \in Int, p >= W * lo PROVE q >= lo
    <2> SUFFICES ASSUME q <= lo - 1 PROVE FALSE
      BY <1>2
    <2>1. W * q <= W * (lo - 1)
      BY <1>1, <1>2
    <2>2. W * (lo - 1) = W * lo - W
      BY <1>1
    <2> QED
      BY <1>1, <1>2, <1>4, <2>1, <2>2
  <1>5. ASSUME NEW hi \in Int, p < W * hi PROVE q < hi
    <2> SUFFICES ASSUME q >= hi PROVE FALSE
      BY <1>2
    <2>1. W * q >= W * hi
      BY <1>1, <1>2
    <2> QED
      BY <1>1, <1>2, <1>5, <2>1
  <1>6. ASSUME p >= -(W * Half), p < W * Half
        PROVE  Signed(High(p)) * W + r = p
    <2>1. -Half \in Int /\ W * (-Half) = -(W * Half)
      BY <1>1
    <2>2. q >= -Half /\ q < Half
      BY <1>1, <1>4, <1>5, <1>6, <2>1
    <2>3. Signed(ToWord(q)) = q
      BY <1>2, <2>2, SignedToWord
    <2> QED
      BY <1>1, <1>2, <1>3, <2>3
  <1>7. ASSUME p >= 0, p < W * W
        PROVE  High(p) * W + r = p
    <2>1. p >= W * 0
      BY <1>1, <1>7
    <2>2. q >= 0 /\ q < W
      BY <1>1, <1>4, <1>5, <1>7, <2>1
    <2>3. q \in Word
      BY <1>1, <1>2, <2>2 DEF Word, W
    <2>4. ToWord(q) = q
      BY <2>3, WordFacts
    <2> QED
      BY <1>1, <1>2, <1>3, <2>4
  <1> QED
    BY <1>6, <1>7 DEF W, r


\* C's division truncates: the identity, the size and the sign of the remainder,
\* and the size of the quotient.
LEMMA CDivides ==
    ASSUME NEW a \in Int, NEW b \in Int, b # 0
    PROVE  /\ Divides(a, b, CDiv(a, b), CRem(a, b))
           /\ Magnitude(CDiv(a, b)) <= Magnitude(a)
           /\ (a < 0) = (b < 0) => CDiv(a, b) >= 0
           /\ (a < 0) # (b < 0) => CDiv(a, b) <= 0
           /\ b # 1 /\ b # -1 /\ a # 0 => Magnitude(CDiv(a, b)) < Magnitude(a)
  <1> DEFINE A == Magnitude(a)
             B == Magnitude(b)
             q == A \div B
             r == A % B
             c == CDiv(a, b)
             e == CRem(a, b)
  <1>1. A \in Nat /\ B \in Nat /\ B >= 1 /\ (a < 0 => a = -A) /\ (a >= 0 => a = A)
        /\ (b < 0 => b = -B) /\ (b >= 0 => b = B)
    BY DEF Magnitude
  <1>2. A = B * q + r /\ q \in Int /\ r \in 0 .. B - 1
    <2> HIDE DEF A, B
    <2> QED
      BY <1>1, DivMod
  <1>3. q \in Nat /\ q <= A
    BY <1>1, QuotientBound
  <1>4. c = IF (a < 0) = (b < 0) THEN q ELSE -q
    BY DEF CDiv
  <1>5. e = a - b * c
    BY DEF CRem
  <1>6. b # 1 /\ b # -1 /\ a # 0 => q < A
    <2> SUFFICES ASSUME b # 1, b # -1, a # 0, q >= A PROVE FALSE
      BY <1>1, <1>3
    <2>1. B >= 2 /\ A >= 1
      BY DEF Magnitude
    <2> HIDE DEF A, B, q, r
    <2>2. B * q >= 2 * q
      BY <1>1, <1>3, <2>1
    <2> DEFINE p == B * q
    <2>3. p \in Int /\ p >= 2 * q /\ A = p + r
      BY <1>1, <1>2, <2>2
    <2> HIDE DEF p
    <2> QED
      BY <1>1, <1>2, <1>3, <2>1, <2>3
  <1> HIDE DEF A, B, q, r, c, e
  <1>7. e = IF a < 0 THEN -r ELSE r
    <2> DEFINE p == B * q
    <2>1. p \in Int /\ A = p + r
      BY <1>1, <1>2
    <2>2. CASE a < 0 /\ b < 0
      <3>1. b * c = -p
        BY <1>1, <1>3, <1>4, <2>2
      <3>2. e = a - (-p)
        BY <1>5, <3>1
      <3> HIDE DEF p
      <3>3. a = -A
        BY <1>1, <2>2
      <3>4. r \in Int /\ A \in Int
        BY <1>1, <1>2
      <3>5. e = -r
        BY <2>1, <3>2, <3>3, <3>4
      <3> QED
        BY <2>2, <3>5
    <2>3. CASE a >= 0 /\ b >= 0
      <3>1. b * c = p
        BY <1>1, <1>3, <1>4, <2>3
      <3> HIDE DEF p
      <3> QED
        BY <1>1, <1>2, <1>5, <2>1, <2>3, <3>1
    <2>4. CASE a < 0 /\ b >= 0
      <3>1. b * c = -p
        BY <1>1, <1>3, <1>4, <2>4
      <3> HIDE DEF p
      <3> QED
        BY <1>1, <1>2, <1>5, <2>1, <2>4, <3>1
    <2>5. CASE a >= 0 /\ b < 0
      <3>1. b * c = p
        BY <1>1, <1>3, <1>4, <2>5
      <3> HIDE DEF p
      <3> QED
        BY <1>1, <1>2, <1>5, <2>1, <2>5, <3>1
    <2> QED
      BY <2>2, <2>3, <2>4, <2>5
  <1>8. c \in Int /\ e \in Int /\ Magnitude(c) = q
    BY <1>1, <1>2, <1>3, <1>4, <1>7 DEF Magnitude
  <1>9. a = c * b + e
    <2> DEFINE p == b * c
    <2>1. p \in Int /\ c * b = p
      BY <1>8
    <2>2. e = a - p
      BY <1>5
    <2> HIDE DEF p
    <2> QED
      BY <1>8, <2>1, <2>2
  <1>10. Magnitude(e) < Magnitude(b)
    <2>1. Magnitude(e) = r
      BY <1>1, <1>2, <1>7 DEF Magnitude
    <2>2. r < B
      BY <1>1, <1>2
    <2> QED
      BY <2>1, <2>2 DEF B
  <1>11. e = 0 \/ (e < 0) = (a < 0)
    BY <1>1, <1>2, <1>7
  <1>12. Divides(a, b, c, e)
    BY <1>9, <1>10, <1>11 DEF Divides
  <1>13. ((a < 0) = (b < 0) => c >= 0) /\ ((a < 0) # (b < 0) => c <= 0)
    BY <1>3, <1>4
  <1> QED
    BY <1>3, <1>6, <1>8, <1>12, <1>13 DEF A, c, e

\* Signed division and remainder.
LEMMA SignedDivision ==
    ASSUME NEW u1 \in Word, NEW u2 \in Word, u2 # 0, ~(Signed(u1) = IntMin /\ Signed(u2) = -1)
    PROVE  Divides(Signed(u1), Signed(u2), Signed(insm_r_div(u1, u2)), Signed(insm_r_rem(u1, u2)))
  <1> DEFINE a == Signed(u1)
             b == Signed(u2)
             c == CDiv(a, b)
             e == CRem(a, b)
  <1>1. a \in Int /\ b \in Int /\ b # 0 /\ a >= -Half /\ a < Half /\ b >= -Half /\ b < Half
    BY SignedIs, SignedZero
  <1>2. Half \in Nat /\ Half >= 1 /\ ~(a = -Half /\ b = -1)
    BY WordSize DEF Half, IntMin
  <1>3. insm_r_div(u1, u2) = ToWord(c) /\ insm_r_rem(u1, u2) = ToWord(e)
    BY DEF insm_r_div, insm_r_rem
  <1> HIDE DEF a, b
  <1>4. c \in Int /\ e \in Int
    BY <1>1, CDivType
  <1>5. /\ Divides(a, b, c, e) /\ Magnitude(c) <= Magnitude(a)
        /\ (a < 0) = (b < 0) => c >= 0
        /\ (a < 0) # (b < 0) => c <= 0
        /\ b # 1 /\ b # -1 /\ a # 0 => Magnitude(c) < Magnitude(a)
    BY <1>1, CDivides
  <1> HIDE DEF c, e
  <1>6. c >= -Half /\ c < Half
    BY <1>1, <1>2, <1>4, <1>5 DEF Magnitude
  <1>7. e >= -Half /\ e < Half
    <2>1. Magnitude(e) < Magnitude(b)
      BY <1>5 DEF Divides
    <2> QED
      BY <1>1, <1>2, <1>4, <2>1 DEF Magnitude
  <1>8. Signed(ToWord(c)) = c /\ Signed(ToWord(e)) = e
    BY <1>4, <1>6, <1>7, SignedToWord
  <1> QED
    BY <1>3, <1>5, <1>8 DEF a, b

\* Unsigned division and remainder.
LEMMA UnsignedDivision ==
    ASSUME NEW u1 \in Word, NEW u2 \in Word, u2 # 0
    PROVE  Divides(u1, u2, insm_r_divu(u1, u2), insm_r_remu(u1, u2))
  <1> DEFINE q == u1 \div u2
             r == u1 % u2
  <1>1. u1 \in Nat /\ u2 \in Nat /\ u2 >= 1
    <2>1. u1 \in Nat /\ u2 \in Nat
      BY WordFacts
    <2> QED
      BY <2>1
  <1>2. u1 = u2 * q + r /\ q \in Int /\ r \in 0 .. u2 - 1
    <2>1. u1 \in Int
      BY <1>1
    <2> QED
      BY <1>1, <2>1, DivMod
  <1>3. insm_r_divu(u1, u2) = q /\ insm_r_remu(u1, u2) = r
    BY DEF insm_r_divu, insm_r_remu
  <1> HIDE DEF q, r
  <1>4. q * u2 = u2 * q
    BY <1>1, <1>2
  <1>5. Magnitude(r) = r /\ Magnitude(u2) = u2 /\ ~(r < 0) /\ ~(u1 < 0)
    BY <1>1, <1>2 DEF Magnitude
  <1>6. r < u2
    BY <1>1, <1>2
  <1> QED
    BY <1>2, <1>3, <1>4, <1>5, <1>6 DEF Divides

\* The operands for which C's division overflows.
LEMMA DivisionOverflow ==
    ASSUME NEW u1 \in Word, NEW u2 \in Word, Signed(u1) = IntMin, Signed(u2) = -1
    PROVE  u2 # 0 /\ insm_r_div(u1, u2) = u1 /\ insm_r_rem(u1, u2) = 0
  <1>1. u2 # 0
    BY SignedZero
  <1>2. ToWord(IntMin) = u1
    <2>1. IntMin = u1 \/ IntMin = u1 + WordMod * (-1)
      BY SignedIs, WordSize, WordFacts DEF IntMin
    <2>2. u1 \in Int /\ -1 \in Int
      BY WordFacts
    <2>3. (u1 + WordMod * (-1)) % WordMod = u1 % WordMod
      BY <2>2, LowSame
    <2>4. u1 % WordMod = u1
      BY WordFacts DEF ToWord
    <2> QED
      BY <2>1, <2>3, <2>4 DEF ToWord
  <1> QED
    BY <1>1, <1>2 DEF insm_r_div, insm_r_rem

\* The size of a product.
LEMMA ProductSize ==
    ASSUME NEW a \in Int, NEW b \in Int, NEW h \in Nat, NEW k \in Nat,
           a >= -h, a <= h, b >= -k, b <= k
    PROVE  a * b >= -(h * k) /\ a * b <= h * k
  <1>1. ASSUME NEW n \in Nat, NEW d \in Nat, n <= h, d <= k
        PROVE  n * d <= h * k /\ n * d >= 0 /\ n * d \in Nat
    <2>1. n * d <= h * d /\ n * d \in Nat
      BY <1>1
    <2>2. h * d <= h * k
      BY <1>1
    <2> DEFINE p == n * d
               o == h * d
               t == h * k
    <2>3. p \in Nat /\ o \in Int /\ t \in Int
      BY <1>1, <2>1
    <2> HIDE DEF p, o, t
    <2>4. p <= t /\ p >= 0
      BY <2>1, <2>2, <2>3 DEF p, o, t
    <2> QED
      BY <2>3, <2>4 DEF p, t
  <1>2. h * k \in Nat
    OBVIOUS
  <1>3. CASE a >= 0 /\ b >= 0
    BY <1>1, <1>2, <1>3
  <1>4. CASE a < 0 /\ b < 0
    <2>1. (-a) \in Nat /\ (-b) \in Nat /\ a * b = (-a) * (-b)
      BY <1>4
    <2> QED
      BY <1>1, <1>2, <2>1
  <1>5. CASE a >= 0 /\ b < 0
    <2>1. a \in Nat /\ (-b) \in Nat /\ a * b = -(a * (-b))
      BY <1>5
    <2> QED
      BY <1>1, <1>2, <2>1
  <1>6. CASE a < 0 /\ b >= 0
    <2>1. (-a) \in Nat /\ b \in Nat /\ a * b = -((-a) * b)
      BY <1>6
    <2> QED
      BY <1>1, <1>2, <2>1
  <1> QED
    BY <1>3, <1>4, <1>5, <1>6

\* The low half.
LEMMA MulResult ==
    ASSUME NEW u1 \in Word, NEW u2 \in Word
    PROVE  LET low == insm_r_mul(u1, u2)
           IN  /\ (low - u1 * u2) % WordMod = 0
               /\ low = (Signed(u1) * Signed(u2)) % WordMod
               /\ low = (Signed(u1) * u2) % WordMod
               /\ low = (u1 * u2) % WordMod
  <1> DEFINE s1 == Signed(u1)
             s2 == Signed(u2)
             W == WordMod
             low == insm_r_mul(u1, u2)
             p == s1 * s2
             o == s1 * u2
             n == u1 * u2
             q == p \div W
  <1>1. W \in Nat /\ W >= 1 /\ u1 \in Int /\ u2 \in Int /\ s1 \in Int /\ s2 \in Int
    BY WordSize, WordFacts, SignedIs
  <1>2. p \in Int /\ o \in Int /\ n \in Int
    <2> HIDE DEF s1, s2, W
    <2> QED
      BY <1>1
  <1>3. low = p % W
    BY DEF insm_r_mul, ToWord
  <1>4. PICK k \in Int : p = n + W * k
    BY Products
  <1>5. PICK j \in Int : p = o + W * j
    BY Products
  <1> HIDE DEF p, o, n, low
  <1>6. low = n % W /\ low = o % W
    BY <1>2, <1>3, <1>4, <1>5, LowSame
  <1>7. p = W * q + low /\ q \in Int /\ low \in 0 .. W - 1
    BY <1>1, <1>2, <1>3, DivMod
  <1>8. (low - n) % W = 0
    <2> HIDE DEF W, q
    <2>1. W * (k - q) = W * k - W * q /\ W * k \in Int /\ W * q \in Int
      BY <1>1, <1>4, <1>7
    <2> DEFINE wk == W * k
               wq == W * q
    <2>2. wk \in Int /\ wq \in Int /\ p = wq + low /\ p = n + wk /\ low \in Int
      BY <1>1, <1>4, <1>7, <2>1
    <2> HIDE DEF wk, wq
    <2>3. low - n = wk - wq
      BY <1>2, <2>2
    <2>4. low - n = W * (k - q) + 0
      <3>1. W * (k - q) = wk - wq
        BY <2>1 DEF wk, wq
      <3> QED
        BY <2>2, <2>3, <3>1
    <2>5. k - q \in Int /\ 0 \in 0 .. W - 1
      BY <1>1, <1>4, <1>7
    <2>6. (W * (k - q) + 0) % W = 0
      BY <1>1, <2>5, DivModUnique
    <2> QED
      BY <2>4, <2>6
  <1> QED
    BY <1>3, <1>6, <1>8 DEF low, p, o, n

\* The high halves: each is the exact product's, the product being in range.
LEMMA MulHighResult ==
    ASSUME NEW u1 \in Word, NEW u2 \in Word
    PROVE  LET low == insm_r_mul(u1, u2)
           IN  /\ Signed(insm_r_mulh(u1, u2)) * WordMod + low = Signed(u1) * Signed(u2)
               /\ Signed(insm_r_mulsu(u1, u2)) * WordMod + low = Signed(u1) * u2
               /\ insm_r_mulu(u1, u2) * WordMod + low = u1 * u2
  <1> DEFINE s1 == Signed(u1)
             s2 == Signed(u2)
             W == WordMod
             low == insm_r_mul(u1, u2)
             p == s1 * s2
             o == s1 * u2
             n == u1 * u2
  <1>1. /\ W \in Nat /\ Half \in Nat /\ Half >= 1 /\ W = 2 * Half
        /\ u1 \in Nat /\ u1 <= W - 1 /\ u2 \in Nat /\ u2 <= W - 1
        /\ s1 \in Int /\ s1 >= -Half /\ s1 < Half /\ s2 \in Int /\ s2 >= -Half /\ s2 < Half
    BY WordSize, SignedIs DEF Half, Word
  <1>2. low = p % W /\ low = o % W /\ low = n % W
    BY MulResult
  <1> HIDE DEF s1, s2, W, low
  <1>3. p \in Int /\ o \in Int /\ n \in Int
    BY <1>1
  <1> DEFINE hh == Half * Half
             hw == W * Half
             ww == W * W
  <1>4. hh \in Nat /\ hw \in Nat /\ ww \in Nat /\ hh >= 1 /\ hw = 2 * hh /\ ww = 2 * hw
    BY <1>1
  <1>5. p >= -hh /\ p <= hh
    <2>1. s1 <= Half /\ s2 <= Half
      BY <1>1
    <2> QED
      BY <1>1, <2>1, ProductSize
  <1>6. o >= -hw /\ o < hw
    <2> DEFINE top == W - 1
    <2>1. /\ top \in Nat /\ Half * top = hw - Half /\ s1 >= -Half /\ s1 <= Half
          /\ u2 >= -top /\ u2 <= top /\ u2 \in Int
      BY <1>1
    <2> HIDE DEF top
    <2>2. o >= -(Half * top) /\ o <= Half * top
      BY <1>1, <2>1, ProductSize
    <2> HIDE DEF hw, o
    <2> QED
      BY <1>1, <1>3, <1>4, <2>1, <2>2
  <1>7. n >= 0 /\ n < ww
    <2> DEFINE top == W - 1
    <2>1. /\ top \in Nat /\ top * top = ww - 2 * W + 1
          /\ u1 >= -top /\ u1 <= top /\ u2 >= -top /\ u2 <= top /\ u1 \in Int /\ u2 \in Int
          /\ n >= 0
      BY <1>1
    <2> HIDE DEF top
    <2>2. n <= top * top
      BY <2>1, ProductSize
    <2> HIDE DEF ww, n
    <2> QED
      BY <1>1, <1>3, <1>4, <2>1, <2>2
  <1> HIDE DEF p, o, n, hh, hw, ww
  <1>8. Signed(High(p)) * W + (p % W) = p
    <2>1. p >= -hw /\ p < hw
      BY <1>3, <1>4, <1>5
    <2> QED
      BY <1>3, <2>1, HighHalf DEF hw, W
  <1>9. Signed(High(o)) * W + (o % W) = o
    BY <1>3, <1>6, HighHalf DEF hw, W
  <1>10. High(n) * W + (n % W) = n
    BY <1>3, <1>7, HighHalf DEF ww, W
  <1>11. insm_r_mulh(u1, u2) = High(p) /\ insm_r_mulsu(u1, u2) = High(o) /\ insm_r_mulu(u1, u2) = High(n)
    BY DEF insm_r_mulh, insm_r_mulsu, insm_r_mulu, p, o, n, s1, s2
  <1> QED
    BY <1>2, <1>8, <1>9, <1>10, <1>11 DEF low, p, o, n, s1, s2, W

\* The eight operations.
LEMMA MulDivResult ==
    ASSUME NEW op \in MulDivOps, NEW u1 \in Word, NEW u2 \in Word
    PROVE  MulDivOwed(op, u1, u2, insm_r(op, u1, u2))
  <1>1. CASE op = "mul"
    BY <1>1, MulResult DEF MulDivOwed, insm_r
  <1>2. CASE op = "mulh"
    BY <1>2, MulHighResult DEF MulDivOwed, insm_r
  <1>3. CASE op = "mulsu"
    BY <1>3, MulHighResult DEF MulDivOwed, insm_r
  <1>4. CASE op = "mulu"
    BY <1>4, MulHighResult DEF MulDivOwed, insm_r
  <1>5. CASE op \in {"div", "rem"}
    BY <1>5, SignedDivision, DivisionOverflow
    DEF MulDivOwed, insm_r, insm_r_div, insm_r_rem
  <1>6. CASE op \in {"divu", "remu"}
    BY <1>6, UnsignedDivision DEF MulDivOwed, insm_r, insm_r_divu, insm_r_remu
  <1> QED
    BY <1>1, <1>2, <1>3, <1>4, <1>5, <1>6 DEF MulDivOps

\* The M extension computes the halves of exact products, and quotients and
\* remainders that satisfy the division identity, for every word size and every
\* pair of operands.
THEOREM MulDivIsExact == Spec => MulDivExact
  <1>1. ASSUME TypeOK, Next, Ran, m.h.pc < MemSize, ~IsCompressed(Insn), DueTrap(m, Insn) = -1,
               exec_op(Insn) \in MulDivOps, Insn.rd # 0
        PROVE  MulDivOwed(exec_op(Insn), reg_read(m, Insn.rs1), reg_read(m, Insn.rs2), m'.gpr[Insn.rd])
    <2>1. m \in MachineState /\ Insn \in Executable
      BY <1>1, TurnTaken
    <2>2. PICK sf \in SoftFloatResult : m' = Turn(m, Insn, sf)
      BY <1>1, TurnTaken
    <2> DEFINE x == m
               y == m'
               w == Insn
               i == Decoded(w)
               z == Body(x, w, sf)
               u1 == reg_read(x, w.rs1)
               u2 == reg_read(x, w.rs2)
               r == insm_r(i.op, u1, u2)
    <2>3. w \in Word32 /\ ~HasOwnModule(w)
      BY <1>1, <2>1, KindOf DEF Executable
    <2>4. /\ w.rs1 \in 0 .. 31 /\ w.rs2 \in 0 .. 31 /\ w.rd \in 0 .. 31
          /\ i.op = exec_op(w) /\ i.rs1 = w.rs1 /\ i.rs2 = w.rs2 /\ i.rd = w.rd
      BY <2>3 DEF Word32, Decoded
    <2>5. u1 \in Word /\ u2 \in Word
      BY <2>1, <2>4, RegRead
    <2>6. r \in Word
      BY <1>1, <2>4, <2>5, MulDivOpType
    <2>7. Advanced(x, z, y)
      BY <1>1, <2>1, <2>2, TurnStep
    <2>8. Meaning(x, w) = i /\ IsInstruction(i)
      BY <1>1, <2>3, DecodedOK DEF Meaning
    <2>9. /\ ~sdtrig_check(x.trig, x.h.privilege, x.h.pc, "execute")
          /\ x.h.pc % IAlign(x) = 0 /\ ~(NeedsFpu(w) /\ x.fs_off)
      BY <1>1, <2>1, <2>8, DueTrapIs, Causes
    <2>10. z = Execute(x, i, sf)
      BY <1>1, <2>9 DEF Body, exec, NeedsFpu
    <2>11. z = reg_write(x, w.rd, r)
      BY <1>1, <2>4, <2>10, ExecuteIs
    <2>12. MulDivOwed(i.op, u1, u2, r)
      BY <1>1, <2>4, <2>5, MulDivResult
    <2> HIDE DEF r, z, u1, u2, i, y
    <2>13. z.gpr = [x.gpr EXCEPT ![w.rd] = r]
      BY <1>1, <2>1, <2>4, <2>6, <2>11, LinkGpr
    <2>14. y.gpr = z.gpr
      BY <2>7 DEF Advanced, SameBut, Frame
    <2>15. x.gpr \in [1 .. 31 -> Word] /\ w.rd \in 1 .. 31
      <3>1. x.gpr \in [1 .. 31 -> Word]
        BY <2>1 DEF MachineState
      <3>2. w.rd # 0
        BY <1>1
      <3> QED
        BY <2>4, <3>1, <3>2
    <2>16. y.gpr[w.rd] = r
      BY <2>13, <2>14, <2>15
    <2> QED
      BY <2>4, <2>12, <2>16 DEF u1, u2, y
  <1>2. TypeOK /\ [Next]_vars =>
          [Ran /\ m.h.pc < MemSize /\ ~IsCompressed(Insn) /\ DueTrap(m, Insn) = -1
             /\ exec_op(Insn) \in MulDivOps /\ Insn.rd # 0 =>
             MulDivOwed(exec_op(Insn), reg_read(m, Insn.rs1), reg_read(m, Insn.rs2),
                        m'.gpr[Insn.rd])]_vars
    BY <1>1
  <1> QED
    BY <1>2, TypeCorrect, PTL DEF Spec, MulDivExact


-----------------------------------------------------------------------------
\* The results of the floating-point unit.

\* The order of encodings, in terms of the sign bit's weight.
LEMMA OrderIs ==
    ASSUME NEW fmt \in Formats, NEW v \in Floats(fmt)
    PROVE  LET half == 2 ^ (FmtWidth(fmt) - 1)
           IN  /\ half \in Nat /\ half >= 1 /\ v \in Nat /\ v < 2 * half
               /\ Float(fmt)!SignBit = half
               /\ Float(fmt)!sign(v) = IF v >= half THEN 1 ELSE 0
               /\ v % half = IF v >= half THEN v - half ELSE v
               /\ Float(fmt)!Order(v) = IF v >= half THEN half - v ELSE v
  <1> DEFINE half == 2 ^ (FmtWidth(fmt) - 1)
             E == 2 ^ FmtExp(fmt)
             K == 2 ^ FmtMant(fmt)
  <1>1. /\ E \in Nat /\ E >= 4 /\ K \in Nat /\ K >= 4 /\ half = E * K
        /\ 2 ^ FmtWidth(fmt) = 2 * (E * K) /\ Float(fmt)!SignBit = E * K
    BY FormatSizes
  <1>2. half \in Nat /\ half >= 1 /\ Float(fmt)!SignBit = half /\ 2 ^ FmtWidth(fmt) = 2 * half
    <2> HIDE DEF E, K
    <2>1. E * K >= 1 /\ E * K \in Nat
      BY <1>1
    <2> QED
      BY <1>1, <2>1
  <1>3. Float(fmt)!sign(v) \in {0, 1} /\ (Float(fmt)!sign(v) = 1 <=> v >= half)
    BY <1>2, FieldsOf
  <1>4. Float(fmt)!Order(v) = IF Float(fmt)!sign(v) = 1 THEN -(v % half) ELSE v
    BY <1>2 DEF Float!Order
  <1> HIDE DEF half, E, K
  <1>5. v \in Nat /\ v < 2 * half
    BY <1>2 DEF Floats
  <1>6. v % half = IF v >= half THEN v - half ELSE v
    <2>1. CASE v >= half
      <3> DEFINE d == v - half
                 one == 1
      <3>1. d \in 0 .. half - 1 /\ v = half * one + d /\ one \in Int
        BY <1>2, <1>5, <2>1
      <3> HIDE DEF d, one
      <3>2. (half * one + d) % half = d
        BY <1>2, <3>1, DivModUnique
      <3> QED
        BY <2>1, <3>1, <3>2 DEF d
    <2>2. CASE v < half
      <3>1. v \in 0 .. half - 1 /\ v = half * 0 + v
        BY <1>2, <1>5, <2>2
      <3>2. (half * 0 + v) % half = v
        BY <1>2, <3>1, DivModUnique
      <3> QED
        BY <1>2, <1>5, <2>2, <3>1, <3>2
    <2> QED
      BY <1>2, <1>5, <2>1, <2>2
  <1>7. Float(fmt)!Order(v) = IF v >= half THEN half - v ELSE v
    BY <1>2, <1>3, <1>4, <1>5, <1>6
  <1> QED
    BY <1>2, <1>3, <1>5, <1>6, <1>7 DEF half

\* fmin and fmax.
LEMMA MinMaxExact ==
    ASSUME NEW fmt \in Formats, NEW op \in MinMaxOps, NEW a \in Floats(fmt), NEW b \in Floats(fmt)
    PROVE  LET r == do_fminmax(fmt, op, a, b).r
               numbers == {v \in {a, b} : ~IsNan(fmt, v)}
           IN  IF numbers = {} THEN r = CanonicalNan(fmt)
               ELSE r \in numbers /\ \A n \in numbers :
                       IF op = "fmin" THEN Before(fmt, r, n) ELSE Before(fmt, n, r)
  <1> DEFINE r == do_fminmax(fmt, op, a, b).r
             numbers == {v \in {a, b} : ~IsNan(fmt, v)}
             half == 2 ^ (FmtWidth(fmt) - 1)
             key(v) == IF v >= half THEN half - 1 - v ELSE v
             ord(v) == IF v >= half THEN half - v ELSE v
  <1>1. /\ half \in Nat /\ half >= 1 /\ a \in Nat /\ a < 2 * half /\ b \in Nat /\ b < 2 * half
        /\ Float(fmt)!sign(a) = (IF a >= half THEN 1 ELSE 0)
        /\ Float(fmt)!Order(a) = ord(a) /\ Float(fmt)!Order(b) = ord(b)
    BY OrderIs
  <1>2. r = IF op = "fmin" THEN Float(fmt)!rv_fmin(a, b) ELSE Float(fmt)!rv_fmax(a, b)
    BY DEF do_fminmax, Float!fminmax
  <1>3. \A u, v : Before(fmt, u, v) <=> key(u) <= key(v)
    BY DEF Before
  <1>4. op = "fmin" \/ op = "fmax"
    BY DEF MinMaxOps
  <1> HIDE DEF half, r
  <1> SUFFICES IF numbers = {} THEN r = CanonicalNan(fmt)
               ELSE r \in numbers /\ \A n \in numbers :
                       IF op = "fmin" THEN Before(fmt, r, n) ELSE Before(fmt, n, r)
    BY DEF r
  <1>5. key(a) <= key(a) /\ key(b) <= key(b)
    BY <1>1
  <1>6. CASE IsNan(fmt, a) /\ IsNan(fmt, b)
    <2>1. numbers = {}
      BY <1>6
    <2>2. r = CanonicalNan(fmt)
      BY <1>2, <1>6 DEF Float!rv_fmin, Float!rv_fmax, IsNan, CanonicalNan
    <2> QED
      BY <2>1, <2>2
  <1>7. CASE IsNan(fmt, a) /\ ~IsNan(fmt, b)
    <2>1. numbers = {b}
      BY <1>7
    <2>2. r = b
      BY <1>2, <1>7 DEF Float!rv_fmin, Float!rv_fmax, IsNan
    <2> QED
      BY <1>3, <1>5, <2>1, <2>2
  <1>8. CASE ~IsNan(fmt, a) /\ IsNan(fmt, b)
    <2>1. numbers = {a}
      BY <1>8
    <2>2. r = a
      BY <1>2, <1>8 DEF Float!rv_fmin, Float!rv_fmax, IsNan
    <2> QED
      BY <1>3, <1>5, <2>1, <2>2
  <1>9. CASE ~IsNan(fmt, a) /\ ~IsNan(fmt, b)
    <2>1. numbers = {a, b}
      BY <1>9
    <2>2. CASE op = "fmin"
      <3>1. r = IF ord(a) = ord(b) THEN IF a >= half THEN a ELSE b
                ELSE IF ord(a) < ord(b) THEN a ELSE b
        BY <1>1, <1>2, <1>9, <2>2 DEF Float!rv_fmin, Float!f_eq, Float!f_lt, IsNan
      <3>2. r \in {a, b} /\ key(r) <= key(a) /\ key(r) <= key(b)
        BY <1>1, <3>1
      <3> HIDE DEF key
      <3> QED
        BY <1>3, <2>1, <2>2, <3>2
    <2>3. CASE op = "fmax"
      <3>1. r = IF ord(a) = ord(b) THEN IF a >= half THEN b ELSE a
                ELSE IF ord(a) < ord(b) THEN b ELSE a
        BY <1>1, <1>2, <1>9, <2>3 DEF Float!rv_fmax, Float!f_eq, Float!f_lt, IsNan
      <3>2. r \in {a, b} /\ key(a) <= key(r) /\ key(b) <= key(r)
        BY <1>1, <3>1
      <3> HIDE DEF key
      <3> QED
        BY <1>3, <2>1, <2>3, <3>2
    <2> QED
      BY <1>4, <2>2, <2>3
  <1> QED
    BY <1>6, <1>7, <1>8, <1>9

\* feq, flt and fle.
LEMMA CompareExact ==
    ASSUME NEW fmt \in Formats, NEW a \in Floats(fmt), NEW b \in Floats(fmt)
    PROVE  LET half == 2 ^ (FmtWidth(fmt) - 1)
               ordered == ~IsNan(fmt, a) /\ ~IsNan(fmt, b)
               same == a = b \/ (a % half = 0 /\ b % half = 0)
           IN  /\ do_fcmp(fmt, "feq", a, b).r = Bit(ordered /\ same)
               /\ do_fcmp(fmt, "flt", a, b).r = Bit(ordered /\ ~same /\ Before(fmt, a, b))
               /\ do_fcmp(fmt, "fle", a, b).r = Bit(ordered /\ (same \/ Before(fmt, a, b)))
  <1> DEFINE half == 2 ^ (FmtWidth(fmt) - 1)
             ordered == ~IsNan(fmt, a) /\ ~IsNan(fmt, b)
             same == a = b \/ (a % half = 0 /\ b % half = 0)
             key(v) == IF v >= half THEN half - 1 - v ELSE v
             ord(v) == IF v >= half THEN half - v ELSE v
  <1>1. /\ half \in Nat /\ half >= 1 /\ a \in Nat /\ a < 2 * half /\ b \in Nat /\ b < 2 * half
        /\ a % half = (IF a >= half THEN a - half ELSE a)
        /\ b % half = (IF b >= half THEN b - half ELSE b)
        /\ Float(fmt)!Order(a) = ord(a) /\ Float(fmt)!Order(b) = ord(b)
    BY OrderIs
  <1>2. Before(fmt, a, b) <=> key(a) <= key(b)
    BY DEF Before
  <1>3. /\ do_fcmp(fmt, "feq", a, b).r = Bit(ordered /\ Float(fmt)!f_eq(a, b))
        /\ do_fcmp(fmt, "flt", a, b).r = Bit(ordered /\ Float(fmt)!f_lt(a, b))
        /\ do_fcmp(fmt, "fle", a, b).r = Bit(ordered /\ Float(fmt)!f_le(a, b))
    BY DEF do_fcmp, Float!fcmp, IsNan, Bit
  <1>4. /\ Float(fmt)!f_eq(a, b) <=> ord(a) = ord(b)
        /\ Float(fmt)!f_lt(a, b) <=> ord(a) < ord(b)
        /\ Float(fmt)!f_le(a, b) <=> ord(a) <= ord(b)
    BY <1>1 DEF Float!f_eq, Float!f_lt, Float!f_le
  <1> HIDE DEF half
  <1>5. /\ ord(a) = ord(b) <=> same
        /\ ord(a) < ord(b) <=> ~same /\ key(a) <= key(b)
        /\ ord(a) <= ord(b) <=> same \/ key(a) <= key(b)
    BY <1>1
  <1> HIDE DEF ord, key, same, ordered
  <1>6. /\ do_fcmp(fmt, "feq", a, b).r = Bit(ordered /\ same)
        /\ do_fcmp(fmt, "flt", a, b).r = Bit(ordered /\ ~same /\ Before(fmt, a, b))
        /\ do_fcmp(fmt, "fle", a, b).r = Bit(ordered /\ (same \/ Before(fmt, a, b)))
    BY <1>2, <1>3, <1>4, <1>5 DEF Bit
  <1> QED
    BY <1>6 DEF ordered, same, half


\* Negation changes the sign bit and nothing else.
LEMMA NegateIs ==
    ASSUME NEW fmt \in Formats, NEW v \in Floats(fmt)
    PROVE  LET half == 2 ^ (FmtWidth(fmt) - 1)
               n == Float(fmt)!Negate(v)
           IN  n # v /\ n - v \in {half, -half}
  <1> DEFINE half == 2 ^ (FmtWidth(fmt) - 1)
             s == Float(fmt)!sign(v)
             e == Float(fmt)!exp(v)
             f == Float(fmt)!mant(v)
             K == 2 ^ FmtMant(fmt)
             n == Float(fmt)!Negate(v)
  <1>1. half \in Nat /\ half >= 1 /\ Float(fmt)!SignBit = half
    BY OrderIs
  <1>2. s \in {0, 1} /\ e \in Int /\ f \in Int /\ v = Float(fmt)!Encode(s, e, f) /\ K \in Int
    BY FieldsOf, FormatSizes
  <1>3. n = Float(fmt)!Encode(1 - s, e, f)
    BY DEF Float!Negate
  <1>4. v = s * half + e * K + f /\ n = (1 - s) * half + e * K + f
    BY <1>1, <1>2, <1>3 DEF Float!Encode
  <1> HIDE DEF half, s, e, f, K, n
  <1> DEFINE p == e * K
  <1>5. p \in Int /\ v = s * half + p + f /\ n = (1 - s) * half + p + f
    BY <1>2, <1>4
  <1> HIDE DEF p
  <1>6. CASE s = 0
    <2>1. v = p + f /\ n = half + p + f
      BY <1>1, <1>2, <1>5, <1>6
    <2>2. n # v /\ n - v = half
      BY <1>1, <1>2, <1>5, <2>1
    <2> QED
      BY <2>2 DEF n, half
  <1>7. CASE s = 1
    <2>1. v = half + p + f /\ n = p + f
      BY <1>1, <1>2, <1>5, <1>7
    <2>2. n # v /\ n - v = -half
      BY <1>1, <1>2, <1>5, <2>1
    <2> QED
      BY <2>2 DEF n, half
  <1> QED
    BY <1>2, <1>6, <1>7

\* The operands of the fused operations.
LEMMA FusedExact ==
    ASSUME NEW fmt \in Formats, NEW op \in {"fmadd", "fmsub", "fnmsub", "fnmadd"},
           NEW a \in Floats(fmt), NEW b \in Floats(fmt), NEW c \in Floats(fmt)
    PROVE  LET half == 2 ^ (FmtWidth(fmt) - 1)
               o == do_fma_operands(fmt, op, a, b, c)
           IN  /\ o.b = b
               /\ (o.a = a) = (op \in {"fmadd", "fmsub"})
               /\ (o.c = c) = (op \in {"fmadd", "fnmsub"})
               /\ {o.a - a, o.c - c} \subseteq {0, half, -half}
  <1> DEFINE half == 2 ^ (FmtWidth(fmt) - 1)
             o == do_fma_operands(fmt, op, a, b, c)
             na == Float(fmt)!Negate(a)
             nc == Float(fmt)!Negate(c)
  <1>1. na # a /\ na - a \in {half, -half} /\ nc # c /\ nc - c \in {half, -half}
    BY NegateIs
  <1>2. a - a = 0 /\ c - c = 0
    BY OrderIs
  <1>3. /\ o.a = IF op \in {"fnmsub", "fnmadd"} THEN na ELSE a
        /\ o.b = b
        /\ o.c = IF op \in {"fmsub", "fnmadd"} THEN nc ELSE c
    BY DEF do_fma_operands, Float!fma_operands
  <1> HIDE DEF o, na, nc, half
  <1>4. /\ o.b = b
        /\ (o.a = a) = (op \in {"fmadd", "fmsub"})
        /\ (o.c = c) = (op \in {"fmadd", "fnmsub"})
    BY <1>1, <1>3
  <1>5. o.a - a \in {0, half, -half} /\ o.c - c \in {0, half, -half}
    BY <1>1, <1>2, <1>3
  <1> QED
    BY <1>4, <1>5 DEF o, half

\* The scale of a number is a power of two, its exponent within the bias.
LEMMA ScaleOf ==
    ASSUME NEW fmt \in Formats, NEW v \in Floats(fmt)
    PROVE  /\ Float(fmt)!Numerator(v) \in Int
           /\ Float(fmt)!sign(v) = 1 => Float(fmt)!Numerator(v) <= 0
           /\ Float(fmt)!sign(v) # 1 => Float(fmt)!Numerator(v) >= 0
           /\ Float(fmt)!Denominator(v) \in Nat /\ Float(fmt)!Denominator(v) >= 1
  <1> DEFINE bias == Float(fmt)!Bias
             k == FmtMant(fmt)
             K == 2 ^ k
             e == Float(fmt)!exp(v)
             f == Float(fmt)!mant(v)
             shift == Float(fmt)!Shift(v)
             sig == Float(fmt)!Significand(v)
             scale == IF shift > 0 THEN 2 ^ shift ELSE 1
             neg == Float(fmt)!sign(v) = 1
  <1>1. /\ k \in Nat /\ bias \in Nat /\ bias + k \in Nat
        /\ 2 ^ FmtExp(fmt) = 2 * (bias + 1)
    <2> DEFINE j == FmtExp(fmt) - 1
    <2>1. k \in Nat /\ j \in 0 .. Top /\ j + 1 = FmtExp(fmt) /\ Top \in Nat
      BY Widths
    <2>2. bias = 2 ^ j - 1
      BY DEF Float!Bias
    <2> HIDE DEF j, bias, k
    <2>3. 2 ^ j \in Nat /\ 2 ^ j >= 1
      BY <2>1, PowType
    <2>4. 2 ^ (j + 1) = 2 * 2 ^ j
      BY <2>1, WidePowersOfTwo DEF Top
    <2> QED
      BY <2>1, <2>2, <2>3, <2>4
  <1>2. \A n \in 0 .. bias + k : 2 ^ (n + 1) = 2 * 2 ^ n
    BY ScalesOfTwo
  <1>3. e \in 0 .. 2 ^ FmtExp(fmt) - 1 /\ f \in Nat /\ K \in Nat
    BY FieldsOf, FormatSizes
  <1>4. shift = (IF e = 0 THEN 1 ELSE e) - bias - k
    BY DEF Float!Shift
  <1>5. sig = IF e = 0 THEN f ELSE K + f
    BY DEF Float!Significand
  <1>6. Float(fmt)!Numerator(v) = (IF neg THEN -1 ELSE 1) * sig * scale
    BY DEF Float!Numerator
  <1>7. Float(fmt)!Denominator(v) = IF shift < 0 THEN 2 ^ (-shift) ELSE 1
    BY DEF Float!Denominator
  <1> HIDE DEF bias, k, K, e, f, shift, sig
  <1>8. \A n \in 0 .. bias + k + 1 : 2 ^ n \in Nat /\ 2 ^ n >= 1
    <2> DEFINE T == {n \in Nat : n <= bias + k + 1 => 2 ^ n \in Nat /\ 2 ^ n >= 1}
    <2>1. 0 \in T
      BY PowersOfTwo
    <2>2. ASSUME NEW n \in Nat, n \in T PROVE n + 1 \in T
      BY <1>1, <1>2, <2>2
    <2> HIDE DEF T
    <2>3. \A n \in Nat : n \in T
      BY <2>1, <2>2, NatInductive
    <2> QED
      BY <1>1, <2>3 DEF T
  <1>9. shift \in Int /\ shift <= bias + k + 1 /\ -shift <= bias + k + 1
    BY <1>1, <1>3, <1>4
  <1>10. scale \in Nat /\ scale >= 1
    <2>1. shift > 0 => shift \in 0 .. bias + k + 1
      BY <1>1, <1>9
    <2> QED
      BY <1>8, <2>1
  <1>11. Float(fmt)!Denominator(v) \in Nat /\ Float(fmt)!Denominator(v) >= 1
    <2>1. shift < 0 => -shift \in 0 .. bias + k + 1
      BY <1>1, <1>9
    <2> QED
      BY <1>7, <1>8, <2>1
  <1>12. sig \in Nat
    BY <1>3, <1>5
  <1> HIDE DEF scale, neg
  <1> DEFINE p == sig * scale
  <1>13. p \in Nat
    BY <1>10, <1>12
  <1>14. (neg => Float(fmt)!Numerator(v) = -p) /\ (~neg => Float(fmt)!Numerator(v) = p)
    BY <1>6, <1>10, <1>12
  <1> HIDE DEF p
  <1> QED
    BY <1>11, <1>13, <1>14 DEF neg

\* A number and the integer it rounds to are on the same side of zero.
LEMMA RoundSign ==
    ASSUME NEW fmt \in Formats, NEW v \in Floats(fmt), NEW rm
    PROVE  /\ Rounded(fmt, v, rm) \in Int
           /\ Float(fmt)!sign(v) = 1 => Rounded(fmt, v, rm) <= 0
           /\ Float(fmt)!sign(v) # 1 => Rounded(fmt, v, rm) >= 0
  <1> DEFINE n == Float(fmt)!Numerator(v)
             one == Float(fmt)!Denominator(v)
             down == n \div one
             rest == n - down * one
             up == CASE rm = 0 -> 2 * rest > one \/ (2 * rest = one /\ down % 2 = 1)
                     [] rm = 1 -> n < 0
                     [] rm = 2 -> FALSE
                     [] rm = 3 -> TRUE
                     [] rm = 4 -> 2 * rest > one \/ (2 * rest = one /\ n > 0)
  <1>1. /\ n \in Int /\ one \in Nat /\ one >= 1
        /\ Float(fmt)!sign(v) = 1 => n <= 0
        /\ Float(fmt)!sign(v) # 1 => n >= 0
    BY ScaleOf
  <1>2. Rounded(fmt, v, rm) = IF rest # 0 /\ up THEN down + 1 ELSE down
    BY DEF Rounded, Float!RoundToInt
  <1> HIDE DEF up, n, one
  <1>3. n = one * down + (n % one) /\ down \in Int /\ n % one \in 0 .. one - 1
    BY <1>1, DivMod
  <1> HIDE DEF down
  <1> DEFINE p == one * down
             r == n % one
  <1>4. down * one = p /\ p \in Int
    BY <1>1, <1>3
  <1>5. (down >= 1 => p >= one) /\ (down <= -1 => p <= -one) /\ (down = 0 => p = 0)
    BY <1>1, <1>3
  <1>6. n = p + r /\ r \in Int /\ r >= 0 /\ r < one /\ rest = n - p
    BY <1>1, <1>3, <1>4
  <1> HIDE DEF p, r, rest
  <1>7. n >= 0 => down >= 0
    BY <1>1, <1>3, <1>4, <1>5, <1>6
  <1>8. n <= 0 => down <= 0 /\ (rest # 0 => down <= -1)
    BY <1>1, <1>3, <1>4, <1>5, <1>6
  <1> DEFINE got == Rounded(fmt, v, rm)
  <1>9. got = down \/ (got = down + 1 /\ rest # 0)
    BY <1>2
  <1> HIDE DEF got
  <1>10. got \in Int /\ (n >= 0 => got >= 0) /\ (n <= 0 => got <= 0)
    BY <1>1, <1>3, <1>7, <1>8, <1>9
  <1> QED
    BY <1>1, <1>10 DEF got


\* What a conversion to an integer returns.
LEMMA ConvertIs ==
    ASSUME NEW fmt \in Formats, NEW a \in Floats(fmt), NEW rm, NEW garbage
    PROVE  LET n == Rounded(fmt, a, rm)
               neg == Float(fmt)!sign(a) = 1
               special == IsNan(fmt, a) \/ IsInf(fmt, a)
               w == do_fcvt_int(fmt, a, 0, rm, garbage).r
               wu == do_fcvt_int(fmt, a, 1, rm, garbage).r
           IN  /\ special => w = IF ~IsNan(fmt, a) /\ neg THEN Half ELSE Half - 1
               /\ special => wu = IF ~IsNan(fmt, a) /\ neg THEN 0 ELSE MaxWord
               /\ ~special => w = IF n \in -Half .. Half - 1 THEN ToWord(n)
                                  ELSE IF neg THEN Half ELSE Half - 1
               /\ ~special => wu = IF n \in 0 .. WordMod - 1 THEN ToWord(n)
                                   ELSE IF neg THEN 0 ELSE MaxWord
  <1> DEFINE n == Rounded(fmt, a, rm)
             neg == Float(fmt)!sign(a) = 1
             special == IsNan(fmt, a) \/ IsInf(fmt, a)
             exact == Float(fmt)!IsInteger(a)
             fits(kind) == IF kind = 0 THEN n \in -Half .. Half - 1 ELSE n \in 0 .. WordMod - 1
             sat(kind, b) == Float(fmt)!fcvt_int_sat(kind, XLen, b)
             sf(kind) == [r |-> IF fits(kind) THEN ToWord(n) ELSE garbage,
                          flags |-> IF fits(kind) THEN IF exact THEN {} ELSE {"NX"} ELSE {"NV"}]
             res(kind) == do_fcvt_int(fmt, a, kind, rm, garbage)
  <1>1. ASSUME NEW kind \in {0, 1}
        PROVE  res(kind) = IF special
                           THEN [r |-> sat(kind, ~IsNan(fmt, a) /\ neg), flags |-> {"NV"}]
                           ELSE IF "NV" \in sf(kind).flags
                           THEN [sf(kind) EXCEPT !.r = sat(kind, neg)]
                           ELSE sf(kind)
    <2> DEFINE span == IF kind \in {0, 1} THEN XLen ELSE 2 * XLen
               within == IF kind \in {0, 2} THEN n \in -(2 ^ (span - 1)) .. 2 ^ (span - 1) - 1
                                           ELSE n \in 0 .. 2 ^ span - 1
               got == [r |-> IF within THEN n % 2 ^ XLen ELSE garbage,
                       flags |-> IF within THEN IF exact THEN {} ELSE {"NX"} ELSE {"NV"}]
    <2>1. res(kind) = IF special
                      THEN [r |-> sat(kind, ~IsNan(fmt, a) /\ neg), flags |-> {"NV"}]
                      ELSE IF "NV" \in got.flags THEN [got EXCEPT !.r = sat(kind, neg)] ELSE got
      BY DEF do_fcvt_int, Float!fcvt_fp_int, Rounded, IsNan, IsInf
    <2>2. span = XLen /\ (kind \in {0, 2} <=> kind = 0) /\ WordMod = 2 ^ XLen /\ Half = 2 ^ (XLen - 1)
      BY DEF WordMod, Half
    <2> HIDE DEF n, span, exact
    <2>3. within = fits(kind)
      BY <2>2
    <2>4. n % 2 ^ XLen = ToWord(n)
      BY <2>2 DEF ToWord
    <2> HIDE DEF within, fits
    <2>5. got = sf(kind)
      BY <2>3, <2>4
    <2> HIDE DEF got, sf, sat, res, special, neg
    <2> QED
      BY <2>1, <2>5
  <1>2. ASSUME NEW b \in BOOLEAN
        PROVE  sat(0, b) = (IF b THEN Half ELSE Half - 1) /\ sat(1, b) = (IF b THEN 0 ELSE MaxWord)
    BY DEF Float!fcvt_int_sat, Half, MaxWord, WordMod
  <1>3. ASSUME NEW kind
        PROVE  /\ ("NV" \in sf(kind).flags) <=> ~fits(kind)
               /\ fits(kind) => sf(kind).r = ToWord(n)
               /\ \A d : [sf(kind) EXCEPT !.r = d].r = d
    <2>1. \A d : [sf(kind) EXCEPT !.r = d].r = d
      OBVIOUS
    <2>2. sf(kind).r = (IF fits(kind) THEN ToWord(n) ELSE garbage)
          /\ sf(kind).flags = IF fits(kind) THEN IF exact THEN {} ELSE {"NX"} ELSE {"NV"}
      OBVIOUS
    <2> HIDE DEF fits, n, exact, sf
    <2>3. "NV" \notin {} /\ "NV" \notin {"NX"} /\ "NV" \in {"NV"}
      OBVIOUS
    <2> QED
      BY <2>1, <2>2, <2>3
  <1>4. ASSUME NEW kind \in {0, 1}
        PROVE  /\ special => res(kind).r = sat(kind, ~IsNan(fmt, a) /\ neg)
               /\ ~special => res(kind).r = IF fits(kind) THEN ToWord(n) ELSE sat(kind, neg)
    <2> DEFINE d == [r |-> sat(kind, ~IsNan(fmt, a) /\ neg), flags |-> {"NV"}]
               u == [sf(kind) EXCEPT !.r = sat(kind, neg)]
    <2>1. res(kind) = IF special THEN d ELSE IF "NV" \in sf(kind).flags THEN u ELSE sf(kind)
      BY <1>1
    <2>2. d.r = sat(kind, ~IsNan(fmt, a) /\ neg)
      OBVIOUS
    <2>3. u.r = sat(kind, neg)
      BY <1>3
    <2>4. ("NV" \in sf(kind).flags <=> ~fits(kind)) /\ (fits(kind) => sf(kind).r = ToWord(n))
      BY <1>3
    <2> HIDE DEF sf, fits, sat, res, n, neg, special, d, u
    <2> QED
      BY <2>1, <2>2, <2>3, <2>4
  <1>5. 0 \in {0, 1} /\ 1 \in {0, 1} /\ neg \in BOOLEAN /\ (~IsNan(fmt, a) /\ neg) \in BOOLEAN
    OBVIOUS
  <1>6. /\ fits(0) <=> n \in -Half .. Half - 1
        /\ fits(1) <=> n \in 0 .. WordMod - 1
    OBVIOUS
  <1> HIDE DEF sat, res, n, neg, special, fits
  <1>7. /\ special => res(0).r = IF ~IsNan(fmt, a) /\ neg THEN Half ELSE Half - 1
        /\ special => res(1).r = IF ~IsNan(fmt, a) /\ neg THEN 0 ELSE MaxWord
    BY <1>2, <1>4, <1>5
  <1>8. /\ ~special => res(0).r = IF n \in -Half .. Half - 1 THEN ToWord(n)
                                  ELSE IF neg THEN Half ELSE Half - 1
        /\ ~special => res(1).r = IF n \in 0 .. WordMod - 1 THEN ToWord(n)
                                  ELSE IF neg THEN 0 ELSE MaxWord
    BY <1>2, <1>4, <1>5, <1>6
  <1> QED
    BY <1>7, <1>8 DEF res, n, neg, special

\* fcvt.w and fcvt.wu saturate.
LEMMA ConvertExact ==
    ASSUME NEW fmt \in Formats, NEW a \in Floats(fmt), NEW rm, NEW garbage
    PROVE  /\ Signed(do_fcvt_int(fmt, a, 0, rm, garbage).r) = Saturated(fmt, a, rm, IntMin, -IntMin - 1)
           /\ do_fcvt_int(fmt, a, 1, rm, garbage).r = Saturated(fmt, a, rm, 0, MaxWord)
  <1> DEFINE n == Rounded(fmt, a, rm)
             neg == Float(fmt)!sign(a) = 1
             nan == IsNan(fmt, a)
             special == nan \/ IsInf(fmt, a)
             w == do_fcvt_int(fmt, a, 0, rm, garbage).r
             wu == do_fcvt_int(fmt, a, 1, rm, garbage).r
             clamp(lo, hi) == IF n < lo THEN lo ELSE IF n > hi THEN hi ELSE n
  <1>1. /\ special => w = IF ~nan /\ neg THEN Half ELSE Half - 1
        /\ special => wu = IF ~nan /\ neg THEN 0 ELSE MaxWord
        /\ ~special => w = IF n \in -Half .. Half - 1 THEN ToWord(n)
                           ELSE IF neg THEN Half ELSE Half - 1
        /\ ~special => wu = IF n \in 0 .. WordMod - 1 THEN ToWord(n)
                            ELSE IF neg THEN 0 ELSE MaxWord
    BY ConvertIs
  <1>2. n \in Int /\ (neg => n <= 0) /\ (~neg => n >= 0)
    BY RoundSign
  <1>3. neg <=> Negative(fmt, a)
    BY OrderIs DEF Negative
  <1>4. ASSUME NEW lo, NEW hi
        PROVE  /\ nan => Saturated(fmt, a, rm, lo, hi) = hi
               /\ ~nan /\ special => Saturated(fmt, a, rm, lo, hi) = IF neg THEN lo ELSE hi
               /\ ~special => Saturated(fmt, a, rm, lo, hi) = clamp(lo, hi)
    BY <1>3 DEF Saturated
  <1>5. /\ Half \in Nat /\ Half >= 1 /\ WordMod = 2 * Half /\ WordMod \in Nat
        /\ IntMin = -Half /\ -IntMin - 1 = Half - 1 /\ MaxWord = WordMod - 1
    BY WordSize DEF Half, IntMin, MaxWord
  <1>6. Signed(Half) = -Half /\ Signed(Half - 1) = Half - 1
    <2>1. Half >= 2 ^ (XLen - 1) /\ ~(Half - 1 >= 2 ^ (XLen - 1))
      BY <1>5 DEF Half
    <2> QED
      BY <1>5, <2>1 DEF Signed
  <1>7. n \in -Half .. Half - 1 => Signed(ToWord(n)) = n
    <2> HIDE DEF n
    <2>1. n \in -Half .. Half - 1 => n >= -Half /\ n < Half
      BY <1>2, <1>5
    <2> QED
      BY <1>2, <2>1, SignedToWord
  <1>8. n \in 0 .. WordMod - 1 => ToWord(n) = n
    <2> HIDE DEF n
    <2> QED
      BY WordFacts DEF Word
  <1> HIDE DEF n, neg, nan, special, w, wu
  <1>9. ASSUME special
        PROVE  /\ Signed(w) = Saturated(fmt, a, rm, IntMin, -IntMin - 1)
               /\ wu = Saturated(fmt, a, rm, 0, MaxWord)
    <2>1. CASE nan
      <3>1. w = Half - 1 /\ wu = MaxWord
        BY <1>1, <1>9, <2>1
      <3> QED
        BY <1>4, <1>5, <1>6, <2>1, <3>1
    <2>2. CASE ~nan /\ neg
      <3>1. w = Half /\ wu = 0
        BY <1>1, <1>9, <2>2
      <3> QED
        BY <1>4, <1>5, <1>6, <1>9, <2>2, <3>1
    <2>3. CASE ~nan /\ ~neg
      <3>1. w = Half - 1 /\ wu = MaxWord
        BY <1>1, <1>9, <2>3
      <3> QED
        BY <1>4, <1>5, <1>6, <1>9, <2>3, <3>1
    <2> QED
      BY <2>1, <2>2, <2>3
  <1>10. ASSUME ~special
         PROVE  /\ Signed(w) = Saturated(fmt, a, rm, IntMin, -IntMin - 1)
                /\ wu = Saturated(fmt, a, rm, 0, MaxWord)
    <2>1. /\ Saturated(fmt, a, rm, IntMin, -IntMin - 1) = clamp(-Half, Half - 1)
          /\ Saturated(fmt, a, rm, 0, MaxWord) = clamp(0, WordMod - 1)
      BY <1>4, <1>5, <1>10
    <2>2. Signed(w) = clamp(-Half, Half - 1)
      <3>1. CASE n \in -Half .. Half - 1
        BY <1>1, <1>2, <1>5, <1>7, <1>10, <3>1
      <3>2. CASE n \notin -Half .. Half - 1 /\ neg
        <4>1. Signed(w) = -Half
          BY <1>1, <1>6, <1>10, <3>2
        <4>2. n < -Half
          BY <1>2, <1>5, <3>2
        <4> QED
          BY <4>1, <4>2
      <3>3. CASE n \notin -Half .. Half - 1 /\ ~neg
        <4>1. Signed(w) = Half - 1
          BY <1>1, <1>6, <1>10, <3>3
        <4>2. n > Half - 1 /\ ~(n < -Half)
          BY <1>2, <1>5, <3>3
        <4> QED
          BY <4>1, <4>2
      <3> QED
        BY <3>1, <3>2, <3>3
    <2>3. wu = clamp(0, WordMod - 1)
      <3>1. CASE n \in 0 .. WordMod - 1
        BY <1>1, <1>2, <1>5, <1>8, <1>10, <3>1
      <3>2. CASE n \notin 0 .. WordMod - 1 /\ neg
        <4>1. wu = 0
          BY <1>1, <1>10, <3>2
        <4>2. n < 0
          BY <1>2, <1>5, <3>2
        <4> QED
          BY <4>1, <4>2
      <3>3. CASE n \notin 0 .. WordMod - 1 /\ ~neg
        <4>1. wu = MaxWord
          BY <1>1, <1>10, <3>3
        <4>2. n > WordMod - 1 /\ ~(n < 0)
          BY <1>2, <1>5, <3>3
        <4> QED
          BY <1>5, <4>1, <4>2
      <3> QED
        BY <3>1, <3>2, <3>3
    <2> QED
      BY <2>1, <2>2, <2>3
  <1> QED
    BY <1>9, <1>10 DEF w, wu


\* Which result insf_r_fpop writes, and where.
LEMMA FpOpIs ==
    ASSUME NEW x, NEW i, NEW sf
    PROVE  LET a == fpr_read(x, i.fmt, i.rs1)
               b == fpr_read(x, i.fmt, i.rs2)
               r == insf_r_fpop(x, i, sf)
           IN  /\ i.op \in ArithOps => r = WriteFp(x, i.fmt, i.rd, do_arith(i.fmt, sf))
               /\ i.op \in MinMaxOps => r = WriteFp(x, i.fmt, i.rd, do_fminmax(i.fmt, i.op, a, b))
               /\ i.op \in CompareOps => r = WriteInt(x, i.rd, do_fcmp(i.fmt, i.op, a, b))
               /\ i.op \in DOMAIN FpToIntKind =>
                    r = WriteInt(x, i.rd, do_fcvt_int(i.fmt, a, FpToIntKind[i.op], sf_rm(x, i.rm),
                                                      sf.r % WordMod))
  <1> DEFINE a == fpr_read(x, i.fmt, i.rs1)
             b == fpr_read(x, i.fmt, i.rs2)
             r == insf_r_fpop(x, i, sf)
             r1 == WriteFp(x, i.fmt, i.rd, do_arith(i.fmt, sf))
             r2 == fpr_write(x, i.fmt, i.rd, do_fsgnj(i.fmt, i.op, a, b))
             r3 == WriteFp(x, i.fmt, i.rd, do_fminmax(i.fmt, i.op, a, b))
             r4 == WriteInt(x, i.rd, do_fcmp(i.fmt, i.op, a, b))
             r5 == reg_write(x, i.rd, do_fclass(i.fmt, a))
             r6 == reg_write(x, i.rd, fmv_x(x, i.fmt, i.rs1))
             r7 == fpr_write(x, i.fmt, i.rd, reg_read(x, i.rs1) % 2 ^ FmtWidth(i.fmt))
             r8 == WriteInt(x, i.rd, do_fcvt_int(i.fmt, a, FpToIntKind[i.op], sf_rm(x, i.rm),
                                                 sf.r % WordMod))
             r9 == WriteFp(x, i.fmt, i.rd, [sf EXCEPT !.r = @ % 2 ^ FmtWidth(i.fmt)])
             r10 == WriteFp(x, i.fmt, i.rd, fcvt_fp_fp(i.fmt, sf))
  <1>1. r = CASE i.op \in ArithOps -> r1
              [] i.op \in SgnjOps -> r2
              [] i.op \in MinMaxOps -> r3
              [] i.op \in CompareOps -> r4
              [] i.op = "fclass" -> r5
              [] i.op = "fmv_x" -> r6
              [] i.op = "fmv_fp" -> r7
              [] i.op \in DOMAIN FpToIntKind -> r8
              [] i.op \in IntToFpOps -> r9
              [] i.op = "fcvt_fp_fp" -> r10
    BY DEF insf_r_fpop
  <1> HIDE DEF r, r1, r2, r3, r4, r5, r6, r7, r8, r9, r10
  <1>2. /\ i.op \in ArithOps => r = r1
        /\ i.op \in MinMaxOps => r = r3
        /\ i.op \in CompareOps => r = r4
        /\ i.op \in DOMAIN FpToIntKind => r = r8
    BY <1>1 DEF ArithOps, SgnjOps, MinMaxOps, CompareOps, FpToIntKind, IntToFpOps
  <1> QED
    BY <1>2 DEF r, r1, r3, r4, r8

\* The unit gives every operation its due, whatever SoftFloat returned.
LEMMA FloatResult ==
    ASSUME NEW x \in MachineState, NEW i, NEW sf \in SoftFloatResult, i.op \in FpOps,
           i.fmt \in Formats, i.rd \in 0 .. 31, i.rs1 \in 0 .. 31, i.rs2 \in 0 .. 31,
           NEW c \in Floats(i.fmt), NEW y, y = insf_r_fpop(x, i, sf)
    PROVE  FloatOwed(i, fpr_read(x, i.fmt, i.rs1), fpr_read(x, i.fmt, i.rs2), c,
                     sf_rm(x, i.rm), fpr_read(y, i.fmt, i.rd), reg_read(y, i.rd))
  <1> DEFINE fmt == i.fmt
             op == i.op
             rd == i.rd
             a == fpr_read(x, fmt, i.rs1)
             b == fpr_read(x, fmt, i.rs2)
             rm == sf_rm(x, i.rm)
             r == fpr_read(y, fmt, rd)
             g == reg_read(y, rd)
             garbage == sf.r % WordMod
             numbers == {v \in {a, b} : ~IsNan(fmt, v)}
             half == 2 ^ (FmtWidth(fmt) - 1)
             ordered == ~IsNan(fmt, a) /\ ~IsNan(fmt, b)
             same == a = b \/ (a % half = 0 /\ b % half = 0)
             canonical == IsNan(fmt, r) => r = CanonicalNan(fmt)
             o == do_fma_operands(fmt, op, a, b, c)
             minmax == IF numbers = {} THEN r = CanonicalNan(fmt)
                       ELSE r \in numbers /\ \A n \in numbers :
                               IF op = "fmin" THEN Before(fmt, r, n) ELSE Before(fmt, n, r)
             fused == /\ o.b = b
                      /\ (o.a = a) = (op \in {"fmadd", "fmsub"})
                      /\ (o.c = c) = (op \in {"fmadd", "fnmsub"})
                      /\ {o.a - a, o.c - c} \subseteq {0, half, -half}
             eq == g = Bit(ordered /\ same)
             lt == g = Bit(ordered /\ ~same /\ Before(fmt, a, b))
             le == g = Bit(ordered /\ (same \/ Before(fmt, a, b)))
             word == Signed(g) = Saturated(fmt, a, rm, IntMin, -IntMin - 1)
             uword == g = Saturated(fmt, a, rm, 0, MaxWord)
             owed == FloatOwed(i, a, b, c, rm, r, g)
             fma == {"fmadd", "fmsub", "fnmsub", "fnmadd"}
  <1>1. owed = CASE op \in MinMaxOps -> minmax
                 [] op \in {"fadd", "fsub", "fmul", "fdiv", "fsqrt"} -> canonical
                 [] op \in fma -> canonical /\ fused
                 [] op = "feq" /\ rd # 0 -> eq
                 [] op = "flt" /\ rd # 0 -> lt
                 [] op = "fle" /\ rd # 0 -> le
                 [] op = "fcvt_w_fp" /\ rd # 0 -> word
                 [] op = "fcvt_wu_fp" /\ rd # 0 -> uword
                 [] OTHER -> TRUE
    BY DEF FloatOwed
  <1>2. a \in Floats(fmt) /\ b \in Floats(fmt)
    BY FprRead
  <1>3. /\ op \in ArithOps => y = WriteFp(x, fmt, rd, do_arith(fmt, sf))
        /\ op \in MinMaxOps => y = WriteFp(x, fmt, rd, do_fminmax(fmt, op, a, b))
        /\ op \in CompareOps => y = WriteInt(x, rd, do_fcmp(fmt, op, a, b))
        /\ op \in DOMAIN FpToIntKind => y = WriteInt(x, rd, do_fcvt_int(fmt, a, FpToIntKind[op], rm, garbage))
    BY FpOpIs
  <1>4. garbage \in Word
    <2>1. sf.r \in Int
      BY DEF SoftFloatResult, Lanes
    <2> QED
      BY <2>1, WordFacts DEF ToWord
  <1>5. rd # 0 => g = y.gpr[rd]
    BY DEF reg_read
  <1> HIDE DEF garbage, rm, a, b
  <1>6. op \in ArithOps => canonical
    <2> SUFFICES ASSUME op \in ArithOps PROVE canonical
      OBVIOUS
    <2> DEFINE res == do_arith(fmt, sf)
               v == sf.r % 2 ^ FmtWidth(fmt)
    <2>1. res.r \in Floats(fmt) /\ res.flags \in SUBSET FlagNames
      BY ArithType
    <2>2. res.r = IF IsNan(fmt, v) THEN CanonicalNan(fmt) ELSE v
      BY DEF do_arith, Float!arith, Float!normalize_nan, IsNan, CanonicalNan, FmtWidth
    <2>3. y = WriteFp(x, fmt, rd, res)
      BY <1>3
    <2> HIDE DEF res, v
    <2>4. r = res.r
      BY <2>1, <2>3, WriteFpOK, SMTT(30)
    <2> HIDE DEF r
    <2> QED
      BY <2>2, <2>4
  <1>7. op \in MinMaxOps => minmax
    <2> SUFFICES ASSUME op \in MinMaxOps PROVE minmax
      OBVIOUS
    <2> DEFINE res == do_fminmax(fmt, op, a, b)
    <2>1. res.r \in Floats(fmt) /\ res.flags \in SUBSET FlagNames
      BY <1>2, MinMaxType
    <2>2. y = WriteFp(x, fmt, rd, res)
      BY <1>3
    <2>3. IF numbers = {} THEN res.r = CanonicalNan(fmt)
          ELSE res.r \in numbers /\ \A n \in numbers :
                  IF op = "fmin" THEN Before(fmt, res.r, n) ELSE Before(fmt, n, res.r)
      BY <1>2, MinMaxExact
    <2> HIDE DEF res, numbers
    <2>4. r = res.r
      BY <2>1, <2>2, WriteFpOK, SMTT(30)
    <2> HIDE DEF r
    <2> QED
      BY <2>3, <2>4
  <1>8. op \in fma => fused
    BY <1>2, FusedExact
  <1>9. rd # 0 => (op = "feq" => eq) /\ (op = "flt" => lt) /\ (op = "fle" => le)
    <2> SUFFICES ASSUME rd # 0, op \in {"feq", "flt", "fle"}
                 PROVE  (op = "feq" => eq) /\ (op = "flt" => lt) /\ (op = "fle" => le)
      OBVIOUS
    <2> DEFINE res == do_fcmp(fmt, op, a, b)
    <2>1. res.r \in Word /\ res.flags \in SUBSET FlagNames
      BY CompareType
    <2>2. y = WriteInt(x, rd, res)
      BY <1>3 DEF CompareOps
    <2>3. /\ do_fcmp(fmt, "feq", a, b).r = Bit(ordered /\ same)
          /\ do_fcmp(fmt, "flt", a, b).r = Bit(ordered /\ ~same /\ Before(fmt, a, b))
          /\ do_fcmp(fmt, "fle", a, b).r = Bit(ordered /\ (same \/ Before(fmt, a, b)))
      BY <1>2, CompareExact
    <2> HIDE DEF ordered, same
    <2>4. /\ op = "feq" => res.r = Bit(ordered /\ same)
          /\ op = "flt" => res.r = Bit(ordered /\ ~same /\ Before(fmt, a, b))
          /\ op = "fle" => res.r = Bit(ordered /\ (same \/ Before(fmt, a, b)))
      BY <2>3
    <2> HIDE DEF res, g
    <2>5. g = res.r
      <3>1. /\ FpStep(x, WriteInt(x, rd, res), fmt, rd) /\ WriteInt(x, rd, res).fpr = x.fpr
            /\ rd # 0 => WriteInt(x, rd, res).gpr[rd] = res.r
        BY <2>1, WriteIntOK
      <3>2. y.gpr[rd] = res.r
        BY <2>2, <3>1
      <3> QED
        BY <1>5, <3>2
    <2> QED
      BY <2>4, <2>5
  <1>10. rd # 0 => (op = "fcvt_w_fp" => word) /\ (op = "fcvt_wu_fp" => uword)
    <2> SUFFICES ASSUME rd # 0, op \in {"fcvt_w_fp", "fcvt_wu_fp"}
                 PROVE  (op = "fcvt_w_fp" => word) /\ (op = "fcvt_wu_fp" => uword)
      OBVIOUS
    <2> DEFINE kind == FpToIntKind[op]
               res == do_fcvt_int(fmt, a, kind, rm, garbage)
    <2>1. /\ op \in DOMAIN FpToIntKind
          /\ op = "fcvt_w_fp" => kind = 0
          /\ op = "fcvt_wu_fp" => kind = 1
      BY DEF FpToIntKind
    <2>2. res.r \in Word /\ res.flags \in SUBSET FlagNames
      BY <1>4, ToIntType
    <2>3. y = WriteInt(x, rd, res)
      BY <1>3, <2>1
    <2>4. /\ Signed(do_fcvt_int(fmt, a, 0, rm, garbage).r) = Saturated(fmt, a, rm, IntMin, -IntMin - 1)
          /\ do_fcvt_int(fmt, a, 1, rm, garbage).r = Saturated(fmt, a, rm, 0, MaxWord)
      BY <1>2, ConvertExact
    <2> HIDE DEF kind
    <2>5. /\ op = "fcvt_w_fp" => Signed(res.r) = Saturated(fmt, a, rm, IntMin, -IntMin - 1)
          /\ op = "fcvt_wu_fp" => res.r = Saturated(fmt, a, rm, 0, MaxWord)
      BY <2>1, <2>4
    <2> HIDE DEF res, g
    <2>6. g = res.r
      <3>1. /\ FpStep(x, WriteInt(x, rd, res), fmt, rd) /\ WriteInt(x, rd, res).fpr = x.fpr
            /\ rd # 0 => WriteInt(x, rd, res).gpr[rd] = res.r
        BY <2>2, WriteIntOK
      <3>2. y.gpr[rd] = res.r
        BY <2>3, <3>1
      <3> QED
        BY <1>5, <3>2
    <2> QED
      BY <2>5, <2>6
  <1> HIDE DEF minmax, canonical, fused, eq, lt, le, word, uword, owed, r, g
  <1>11. owed
    <2>1. fma \subseteq ArithOps /\ {"fadd", "fsub", "fmul", "fdiv", "fsqrt"} \subseteq ArithOps
      BY DEF ArithOps
    <2> QED
      BY <1>1, <1>6, <1>7, <1>8, <1>9, <1>10, <2>1 DEF MinMaxOps
  <1> QED
    BY <1>11 DEF owed, r, g, rm, a, b

\* The floating-point unit: minimum and maximum, comparisons, conversions to
\* integers, canonical NaNs and the signs of the fused operations, for every
\* width of the formats and every value SoftFloat may return.
THEOREM FloatResultsAreExact == Spec => FloatResultsExact
  <1> DEFINE due == Ran /\ m.h.pc < MemSize /\ ~IsCompressed(Insn) /\ DueTrap(m, Insn) = -1
                      /\ exec_op(Insn) \in FpOps
             i == Decoded(Insn)
             owed == FloatOwed(i, fpr_read(m, i.fmt, i.rs1), fpr_read(m, i.fmt, i.rs2),
                               fpr_read(m, i.fmt, Funct5(Insn)), sf_rm(m, i.rm),
                               fpr_read(m', i.fmt, i.rd), reg_read(m', i.rd))
  <1>1. ASSUME TypeOK, Next, due PROVE owed
    <2>1. m \in MachineState /\ Insn \in Executable
      BY <1>1, TurnTaken
    <2>2. PICK sf \in SoftFloatResult : m' = Turn(m, Insn, sf)
      BY <1>1, TurnTaken
    <2> DEFINE x == m
               y == m'
               w == Insn
               z == Body(x, w, sf)
    <2>3. w \in Word32 /\ ~HasOwnModule(w)
      BY <1>1, <2>1, KindOf DEF Executable
    <2>4. Advanced(x, z, y)
      BY <1>1, <2>1, <2>2, TurnStep
    <2>5. Meaning(x, w) = i /\ IsInstruction(i)
      BY <1>1, <2>3, DecodedOK DEF Meaning
    <2>6. /\ ~sdtrig_check(x.trig, x.h.privilege, x.h.pc, "execute")
          /\ x.h.pc % IAlign(x) = 0 /\ ~(NeedsFpu(w) /\ x.fs_off)
      BY <1>1, <2>1, <2>5, DueTrapIs, Causes
    <2>7. z = Execute(x, i, sf)
      BY <1>1, <2>6 DEF Body, exec, NeedsFpu
    <2>8. i.op \in FpOps
      BY <1>1 DEF Decoded
    <2>9. i.fmt \in Formats /\ i.rd \in 0 .. 31 /\ i.rs1 \in 0 .. 31 /\ i.rs2 \in 0 .. 31
      BY <2>5, <2>8 DEF IsInstruction
    <2>10. Funct5(w) \in 0 .. 31
      <3>1. w.funct7 \in 0 .. 127
        BY <2>3 DEF Word32
      <3> QED
        BY <3>1 DEF Funct5
    <2> HIDE DEF i, z, y
    <2>11. fpr_read(x, i.fmt, Funct5(w)) \in Floats(i.fmt)
      BY <2>1, <2>9, <2>10, FprRead
    <2>12. z = insf_r_fpop(x, i, sf)
      BY <2>7, <2>8, ExecuteIs
    <2>13. FloatOwed(i, fpr_read(x, i.fmt, i.rs1), fpr_read(x, i.fmt, i.rs2),
                     fpr_read(x, i.fmt, Funct5(w)), sf_rm(x, i.rm),
                     fpr_read(z, i.fmt, i.rd), reg_read(z, i.rd))
      BY <2>1, <2>8, <2>9, <2>11, <2>12, FloatResult
    <2>14. y.gpr = z.gpr /\ y.fpr = z.fpr
      BY <2>4 DEF Advanced, SameBut, Frame
    <2>15. fpr_read(y, i.fmt, i.rd) = fpr_read(z, i.fmt, i.rd) /\ reg_read(y, i.rd) = reg_read(z, i.rd)
      BY <2>14 DEF fpr_read, reg_read
    <2> QED
      BY <2>13, <2>15 DEF y
  <1>2. TypeOK /\ [Next]_vars => [due => owed]_vars
    BY <1>1
  <1> QED
    BY <1>2, TypeCorrect, PTL DEF Spec, FloatResultsExact

=============================================================================
