-------------------------------- MODULE Fpu --------------------------------
(***************************************************************************)
(* The floating-point unit (src/src/extension/f_extension.c): the register *)
(* file whose lanes hold the widest format, fcsr, and the instructions in  *)
(* the four formats.  It adds to the machine of BaseInstructions           *)
(*   fpr       the lanes                                                   *)
(*   fflags    the accrued exception flags, a set of names                 *)
(*   frm       the dynamic rounding mode                                   *)
(*   fs_off    mstatus.FS = 0                                              *)
(*   fmem      the memory its loads and stores use, a lane per address     *)
(* A narrow value sits in the low bits of a lane, the rest all ones        *)
(* (NaN-boxing).  What the formats' widths are in bytes does not matter    *)
(* here, so a load takes the low bits of one fmem lane.                    *)
(***************************************************************************)
EXTENDS BaseInstructions

CONSTANTS HExp, HMant, SExp, SMant, DExp, DMant, QExp, QMant

\* fmt: the two-bit format field.
S == 0
D == 1
H == 2
Q == 3
Formats == {S, D, H, Q}

FmtExp(fmt) == <<SExp, DExp, HExp, QExp>>[fmt + 1]
FmtMant(fmt) == <<SMant, DMant, HMant, QMant>>[fmt + 1]

Float(fmt) == INSTANCE FloatOps WITH ExpBits <- FmtExp(fmt), MantBits <- FmtMant(fmt)

FmtWidth(fmt) == Float(fmt)!Width

ASSUME FormatAssumption ==
    \A bits \in {HExp, HMant, SExp, SMant, DExp, DMant, QExp, QMant} : bits \in Nat /\ bits >= 2

ASSUME WidthAssumption ==
    FmtWidth(H) < XLen /\ FmtWidth(S) = XLen /\ XLen < FmtWidth(D) /\ FmtWidth(D) < FmtWidth(Q)

ASSUME WidePowersOfTwo == \A n \in 0 .. FmtWidth(Q) : 2 ^ (n + 1) = 2 * 2 ^ n

ASSUME ScalesOfTwo ==
    \A fmt \in Formats : \A n \in 0 .. Float(fmt)!Bias + FmtMant(fmt) : 2 ^ (n + 1) = 2 * 2 ^ n

LaneMod == 2 ^ FmtWidth(Q)
Lanes == 0 .. LaneMod - 1
FlagNames == {"NX", "UF", "OF", "DZ", "NV"}
RoundingModes == 0 .. 4

-----------------------------------------------------------------------------
\* fcsr.  A reserved rounding mode is not stored.
set_fflags(m, flags) == [m EXCEPT !.fflags = flags]

set_frm(m, frm) == IF frm > 4 THEN m ELSE [m EXCEPT !.frm = frm]

set_fcsr(m, frm, flags) ==
    [m EXCEPT !.fflags = flags, !.frm = IF frm <= 4 THEN frm ELSE @]

\* sf_rm of get_rm: 7 is dynamic, the two reserved static modes round to
\* nearest even.
sf_rm(m, rm) ==
    LET mode == IF rm = 7 THEN m.frm ELSE rm IN IF mode \in RoundingModes THEN mode ELSE 0

\* sf_end and the `fcsr |= NV` of the operations.
MutAccrueReplaces(m, flags) == [m EXCEPT !.fflags = flags]

Accrue(m, flags) == [m EXCEPT !.fflags = @ \union flags]

\* fpr_read_*: the low bits, boxed or not.
fpr_read(m, fmt, r) == m.fpr[r] % 2 ^ FmtWidth(fmt)

\* fpr_write_*: every bit above the value is 1.
fpr_write(m, fmt, r, v) == [m EXCEPT !.fpr[r] = LaneMod - 2 ^ FmtWidth(fmt) + v]

-----------------------------------------------------------------------------
\* The dispatchers: the operation of the format the instruction names.
do_fminmax(fmt, op, a, b) == Float(fmt)!fminmax(op, a, b)
do_fsgnj(fmt, op, a, b) == Float(fmt)!fsgnj(op, a, b)
do_fcmp(fmt, op, a, b) == Float(fmt)!fcmp(op, a, b)
do_fclass(fmt, a) == Float(fmt)!fclass(a)
do_arith(fmt, sf) == Float(fmt)!arith(sf)
do_fcvt_int(fmt, a, kind, rm, garbage) == Float(fmt)!fcvt_fp_int(a, kind, XLen, rm, garbage)
do_fma_operands(fmt, op, a, b, c) == Float(fmt)!fma_operands(op, a, b, c)

\* fcvt_fp_fp into a format: Q stores SoftFloat's result as it is and never
\* looks at the flags.
fcvt_fp_fp(fmt, sf) ==
    IF fmt = Q THEN [sf EXCEPT !.flags = {}]
    ELSE [sf EXCEPT !.r = Float(fmt)!fcvt_nan(@ % 2 ^ FmtWidth(fmt))]

ArithOps == {"fadd", "fsub", "fmul", "fdiv", "fsqrt", "fmadd", "fmsub", "fnmsub", "fnmadd"}
MinMaxOps == {"fmin", "fmax"}
SgnjOps == {"fsgnj", "fsgnjn", "fsgnjx"}
CompareOps == {"feq", "flt", "fle", "fzero"}
FpToIntKind == [fcvt_w_fp |-> 0, fcvt_wu_fp |-> 1, fcvt_l_fp |-> 2, fcvt_lu_fp |-> 3]
IntToFpOps == {"fcvt_fp_w", "fcvt_fp_wu", "fcvt_fp_l", "fcvt_fp_lu"}
FpOps == ArithOps \union MinMaxOps \union SgnjOps \union CompareOps \union DOMAIN FpToIntKind
           \union IntToFpOps \union {"fcvt_fp_fp", "fclass", "fmv_x", "fmv_fp"}

\* The low XLen bits of the lane, sign-extended from the half format's width.
fmv_x(m, fmt, r) ==
    IF fmt = H THEN sign_extend(fpr_read(m, H, r), FmtWidth(H)) ELSE m.fpr[r] % WordMod

WriteFp(m, fmt, rd, res) == fpr_write(Accrue(m, res.flags), fmt, rd, res.r)
WriteInt(m, rd, res) == reg_write(Accrue(m, res.flags), rd, res.r)

\* insf_r_fpop and insf_r_fma.  i.fmt is the format, i.rm the funct3 field,
\* i.sfmt the source format of fcvt; sf is what SoftFloat returns where the
\* model does not compute it.
insf_r_fpop(m, i, sf) ==
    LET a == fpr_read(m, i.fmt, i.rs1)
        b == fpr_read(m, i.fmt, i.rs2)
    IN  CASE i.op \in ArithOps -> WriteFp(m, i.fmt, i.rd, do_arith(i.fmt, sf))
          [] i.op \in SgnjOps -> fpr_write(m, i.fmt, i.rd, do_fsgnj(i.fmt, i.op, a, b))
          [] i.op \in MinMaxOps -> WriteFp(m, i.fmt, i.rd, do_fminmax(i.fmt, i.op, a, b))
          [] i.op \in CompareOps -> WriteInt(m, i.rd, do_fcmp(i.fmt, i.op, a, b))
          [] i.op = "fclass" -> reg_write(m, i.rd, do_fclass(i.fmt, a))
          [] i.op = "fmv_x" -> reg_write(m, i.rd, fmv_x(m, i.fmt, i.rs1))
          [] i.op = "fmv_fp" ->
                fpr_write(m, i.fmt, i.rd, reg_read(m, i.rs1) % 2 ^ FmtWidth(i.fmt))
          [] i.op \in DOMAIN FpToIntKind ->
                WriteInt(m, i.rd, do_fcvt_int(i.fmt, a, FpToIntKind[i.op], sf_rm(m, i.rm),
                                              sf.r % WordMod))
          [] i.op \in IntToFpOps ->
                WriteFp(m, i.fmt, i.rd, [sf EXCEPT !.r = @ % 2 ^ FmtWidth(i.fmt)])
          [] i.op = "fcvt_fp_fp" -> WriteFp(m, i.fmt, i.rd, fcvt_fp_fp(i.fmt, sf))

-----------------------------------------------------------------------------
\* Loads and stores: no trigger, no alignment check (a build without
\* CONFIG_SUPPORT_MISALIGN).
LoadFormat == [flh |-> H, flw |-> S, fld |-> D, flq |-> Q]
StoreFormat == [fsh |-> H, fsw |-> S, fsd |-> D, fsq |-> Q]

insf_load(m, op, imm, rs1, rd) ==
    LET addr == ToWord(reg_read(m, rs1) + imm)
        fmt == LoadFormat[op]
    IN  fpr_write(m, fmt, rd, IF addr \in DOMAIN m.fmem
                              THEN m.fmem[addr] % 2 ^ FmtWidth(fmt) ELSE 0)

insf_store(m, op, imm, rs1, rs2) ==
    LET addr == ToWord(reg_read(m, rs1) + imm)
        fmt == StoreFormat[op]
    IN  IF addr \notin DOMAIN m.fmem THEN m
        ELSE [m EXCEPT !.fmem[addr] = @ - (@ % 2 ^ FmtWidth(fmt)) + fpr_read(m, fmt, rs2)]
=============================================================================
