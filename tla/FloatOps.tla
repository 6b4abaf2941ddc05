------------------------------ MODULE FloatOps ------------------------------
(***************************************************************************)
(* The operations of src/src/extension/f_extension.c on one binary format. *)
(* The file has a copy of them per format (s_, h_, d_ and q_): Fpu         *)
(* instantiates this module once for each.  A number is its encoding, sign *)
(* bit above ExpBits above MantBits.  An operation that raises flags       *)
(* returns the record of its result and the flags.                         *)
(*                                                                         *)
(* SoftFloat is outside src/.  Its comparisons and its rounding to an      *)
(* integer are exact and computed here; what it returns                    *)
(* for an integer out of range, and for an arithmetic operation, is left   *)
(* to the caller (`sf`, a result and the flags that come with it).         *)
(***************************************************************************)
EXTENDS Integers

CONSTANTS ExpBits, MantBits

Width == 1 + ExpBits + MantBits
SignBit == 2 ^ (ExpBits + MantBits)
ExpMax == 2 ^ ExpBits - 1
QuietBit == 2 ^ (MantBits - 1)

sign(x) == x \div SignBit
exp(x) == (x \div 2 ^ MantBits) % 2 ^ ExpBits
mant(x) == x % 2 ^ MantBits
Encode(s, e, mt) == s * SignBit + e * 2 ^ MantBits + mt

RISCV_CANONICAL_NAN == Encode(0, ExpMax, QuietBit)

is_nan(x) == exp(x) = ExpMax /\ mant(x) # 0
is_signaling_nan(x) == is_nan(x) /\ mant(x) < QuietBit
is_inf(x) == exp(x) = ExpMax /\ mant(x) = 0
normalize_nan(x) == IF is_nan(x) THEN RISCV_CANONICAL_NAN ELSE x

\* The number of the one bit that is set in the fclass result.
fclass(x) ==
    LET s == sign(x) = 1
    IN  CASE exp(x) = ExpMax /\ mant(x) = 0 -> IF s THEN 0 ELSE 7
          [] exp(x) = ExpMax /\ mant(x) # 0 -> IF mant(x) >= QuietBit THEN 9 ELSE 8
          [] exp(x) = 0 /\ mant(x) = 0 -> IF s THEN 3 ELSE 4
          [] exp(x) = 0 /\ mant(x) # 0 -> IF s THEN 2 ELSE 5
          [] OTHER -> IF s THEN 1 ELSE 6

-----------------------------------------------------------------------------
\* SoftFloat.  The magnitude bits of two numbers are ordered as their values;
\* the two zeros are equal.
Order(x) == IF sign(x) = 1 THEN -(x % SignBit) ELSE x

f_eq(a, b) == Order(a) = Order(b)
f_lt(a, b) == Order(a) < Order(b)
f_le(a, b) == Order(a) <= Order(b)

\* The value of a finite number is Numerator \div Denominator, exactly.
Bias == 2 ^ (ExpBits - 1) - 1
Shift(x) == (IF exp(x) = 0 THEN 1 ELSE exp(x)) - Bias - MantBits
Significand(x) == IF exp(x) = 0 THEN mant(x) ELSE 2 ^ MantBits + mant(x)
Numerator(x) ==
    (IF sign(x) = 1 THEN -1 ELSE 1) * Significand(x) * (IF Shift(x) > 0 THEN 2 ^ Shift(x) ELSE 1)
Denominator(x) == IF Shift(x) < 0 THEN 2 ^ (-Shift(x)) ELSE 1

IsInteger(x) == Numerator(x) % Denominator(x) = 0

\* The integer x rounds to in mode rm (RNE, RTZ, RDN, RUP, RMM = 0 .. 4).
RoundToInt(x, rm) ==
    LET v == Numerator(x)
        one == Denominator(x)
        down == v \div one
        rest == v - down * one
        up == CASE rm = 0 -> 2 * rest > one \/ (2 * rest = one /\ down % 2 = 1)
                [] rm = 1 -> v < 0
                [] rm = 2 -> FALSE
                [] rm = 3 -> TRUE
                [] rm = 4 -> 2 * rest > one \/ (2 * rest = one /\ v > 0)
    IN  IF rest # 0 /\ up THEN down + 1 ELSE down

-----------------------------------------------------------------------------
SomeSignaling(a, b) == is_signaling_nan(a) \/ is_signaling_nan(b)

rv_fmin(a, b) ==
    CASE is_nan(a) /\ is_nan(b) -> RISCV_CANONICAL_NAN
      [] is_nan(a) /\ ~is_nan(b) -> b
      [] ~is_nan(a) /\ is_nan(b) -> a
      [] ~is_nan(a) /\ ~is_nan(b) ->
            IF f_eq(a, b) THEN IF sign(a) = 1 THEN a ELSE b
            ELSE IF f_lt(a, b) THEN a ELSE b

MutFmaxKeepsNan(a, b) ==
    CASE is_nan(a) \/ is_nan(b) -> RISCV_CANONICAL_NAN
      [] OTHER -> IF f_lt(a, b) THEN b ELSE a

rv_fmax(a, b) ==
    CASE is_nan(a) /\ is_nan(b) -> RISCV_CANONICAL_NAN
      [] is_nan(a) /\ ~is_nan(b) -> b
      [] ~is_nan(a) /\ is_nan(b) -> a
      [] ~is_nan(a) /\ ~is_nan(b) ->
            IF f_eq(a, b) THEN IF sign(a) = 1 THEN b ELSE a
            ELSE IF f_lt(a, b) THEN b ELSE a

fminmax(op, a, b) ==
    [r |-> IF op = "fmin" THEN rv_fmin(a, b) ELSE rv_fmax(a, b),
     flags |-> IF SomeSignaling(a, b) THEN {"NV"} ELSE {}]

fsgnj(op, a, b) ==
    LET s == CASE op = "fsgnj" -> sign(b)
               [] op = "fsgnjn" -> 1 - sign(b)
               [] op = "fsgnjx" -> IF sign(a) = sign(b) THEN 0 ELSE 1
    IN  Encode(s, exp(a), mant(a))

\* fle and flt signal any NaN, feq a signaling one; an op that is none of the
\* three writes 0.
fcmp(op, a, b) ==
    LET unordered == is_nan(a) \/ is_nan(b)
    IN  [r |-> CASE unordered -> 0
                 [] ~unordered /\ op = "feq" -> IF f_eq(a, b) THEN 1 ELSE 0
                 [] ~unordered /\ op = "flt" -> IF f_lt(a, b) THEN 1 ELSE 0
                 [] ~unordered /\ op = "fle" -> IF f_le(a, b) THEN 1 ELSE 0
                 [] OTHER -> 0,
         flags |-> IF \/ unordered /\ op \in {"flt", "fle"}
                      \/ op = "feq" /\ SomeSignaling(a, b)
                   THEN {"NV"} ELSE {}]

\* fadd, fsub, fmul, fdiv, fsqrt and the fused forms: SoftFloat's result, with
\* a NaN made canonical.
arith(sf) == [r |-> normalize_nan(sf.r % 2 ^ Width), flags |-> sf.flags]

Negate(x) == Encode(1 - sign(x), exp(x), mant(x))

\* The operands fused multiply-add is called with: bit 0 of subop negates the
\* addend, bit 1 the product.
fma_operands(op, a, b, c) ==
    [a |-> IF op \in {"fnmsub", "fnmadd"} THEN Negate(a) ELSE a,
     b |-> b,
     c |-> IF op \in {"fmsub", "fnmadd"} THEN Negate(c) ELSE c]

-----------------------------------------------------------------------------
\* fp -> int: kind 0 = w, 1 = wu, 2 = l, anything else lu; `bits` is 32.  The
\* result is a word.
fcvt_int_sat(kind, bits, neg) ==
    IF kind \in {1, 3} THEN IF neg THEN 0 ELSE 2 ^ bits - 1
    ELSE IF neg THEN 2 ^ (bits - 1) ELSE 2 ^ (bits - 1) - 1

\* NaN and infinity are caught before SoftFloat is called, a finite value out
\* of the range of the kind by the NV flag it comes back with: whatever value
\* SoftFloat returned then (`garbage`) is replaced.
fcvt_fp_int(x, kind, bits, rm, garbage) ==
    LET span == IF kind \in {0, 1} THEN bits ELSE 2 * bits
        n == RoundToInt(x, rm)
        fits == IF kind \in {0, 2} THEN n \in -(2 ^ (span - 1)) .. 2 ^ (span - 1) - 1
                                  ELSE n \in 0 .. 2 ^ span - 1
        sf == [r |-> IF fits THEN n % 2 ^ bits ELSE garbage,
               flags |-> IF fits THEN IF IsInteger(x) THEN {} ELSE {"NX"} ELSE {"NV"}]
    IN  IF is_nan(x) \/ is_inf(x)
        THEN [r |-> fcvt_int_sat(kind, bits, ~is_nan(x) /\ sign(x) = 1), flags |-> {"NV"}]
        ELSE IF "NV" \in sf.flags
        THEN [sf EXCEPT !.r = fcvt_int_sat(kind, bits, sign(x) = 1)]
        ELSE sf

\* fp -> fp into this format: a NaN keeps SoftFloat's sign and gets the
\* canonical fraction.
fcvt_nan(r) == IF is_nan(r) THEN Encode(sign(r), ExpMax, QuietBit) ELSE r
=============================================================================
