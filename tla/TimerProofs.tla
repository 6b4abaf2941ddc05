---------------------------- MODULE TimerProofs -----------------------------
(***************************************************************************)
(* Proofs about the counters, for every width of byte and word and every   *)
(* run that ends before mtime wraps.  The first part is arithmetic: the    *)
(* loops over bytes that the bus makes of a word access read and replace   *)
(* exactly that word.  The second is the driver: what it has read, and     *)
(* what mtimecmp holds between its stores.                                 *)
(***************************************************************************)
EXTENDS Timer, TLAPS, WellFoundedInduction

\* Induction, stated about a set of numbers.
LEMMA Induction ==
    ASSUME NEW T \in SUBSET Nat, 0 \in T, \A n \in T : n + 1 \in T
    PROVE  \A n \in Nat : n \in T
  <1> DEFINE U == Nat \ T
  <1>1. SUFFICES ASSUME U # {} PROVE FALSE
    OBVIOUS
  <1>2. PICK m \in U : \A n \in U : ~(<<n, m>> \in OpToRel(<, Nat))
    BY <1>1, NatLessThanWellFounded, WFMin
  <1>3. m \in Nat /\ m # 0
    OBVIOUS
  <1>4. m - 1 \in Nat /\ m - 1 < m /\ (m - 1) + 1 = m
    BY <1>3
  <1>5. m - 1 \in U
    BY <1>4
  <1> QED
    BY <1>2, <1>3, <1>4, <1>5 DEF OpToRel

\* A loop that starts with s0 and whose body, F[i] in iteration i, maps S into S.
IsLoop(S, s0, F) == s0 \in S /\ F \in [Nat -> [S -> S]]

\* S, s0 and F have a run of n iterations.
RunsTo(S, s0, F, n) ==
    \E f \in [0 .. n -> S] :
        f[0] = s0 /\ \A i \in 1 .. n : f[i] = F[i][f[i - 1]]

\* Such a loop runs for any number of iterations.
LEMMA LoopRuns ==
    ASSUME NEW S, NEW s0, NEW F, IsLoop(S, s0, F)
    PROVE  \A n \in Nat : RunsTo(S, s0, F, n)
  <1> USE DEF IsLoop, RunsTo
  <1> DEFINE Runs(n) == \E f \in [0 .. n -> S] :
                f[0] = s0 /\ \A i \in 1 .. n : f[i] = F[i][f[i - 1]]
             T == {n \in Nat : Runs(n)}
  <1>1. 0 \in T
    <2> DEFINE f == [i \in 0 .. 0 |-> s0]
    <2>1. f \in [0 .. 0 -> S] /\ f[0] = s0
      OBVIOUS
    <2>2. 1 .. 0 = {}
      OBVIOUS
    <2> QED
      BY <2>1, <2>2
  <1>2. ASSUME NEW n \in T PROVE n + 1 \in T
    <2>1. PICK f \in [0 .. n -> S] :
            f[0] = s0 /\ \A i \in 1 .. n : f[i] = F[i][f[i - 1]]
      OBVIOUS
    <2> DEFINE g == [i \in 0 .. n + 1 |-> IF i = n + 1 THEN F[n + 1][f[n]] ELSE f[i]]
    <2>2. n \in Nat /\ n + 1 \in Nat
      OBVIOUS
    <2>3. g \in [0 .. n + 1 -> S] /\ g[0] = s0
      BY <2>1, <2>2
    <2>4. ASSUME NEW i \in 1 .. n + 1 PROVE g[i] = F[i][g[i - 1]]
      <3>1. i - 1 \in 0 .. n /\ g[i - 1] = f[i - 1]
        BY <2>2
      <3>2. i # n + 1 => i \in 1 .. n /\ g[i] = f[i]
        BY <2>2
      <3>3. i = n + 1 => i - 1 = n /\ g[i] = F[n + 1][f[n]]
        BY <2>2
      <3> QED
        BY <3>1, <3>2, <3>3, <2>1
    <2> HIDE DEF g
    <2> QED
      BY <2>2, <2>3, <2>4
  <1> HIDE DEF T
  <1>3. \A n \in Nat : n \in T
    BY <1>1, <1>2, Induction DEF T
  <1> QED
    BY <1>3 DEF T

-----------------------------------------------------------------------------
\* Division by a positive number: what is left below it does not count.
LEMMA DivUnique ==
    ASSUME NEW q \in Int, NEW b \in Nat \ {0}, NEW r \in 0 .. b - 1
    PROVE  (b * q + r) \div b = q /\ (b * q + r) % b = r
  OBVIOUS

\* Quotient and remainder.
LEMMA DivMod ==
    ASSUME NEW a \in Nat, NEW b \in Nat \ {0}
    PROVE  /\ a = b * (a \div b) + (a % b)
           /\ a \div b \in Nat
           /\ a % b \in 0 .. b - 1
  OBVIOUS

\* Dividing twice is dividing by the product, and a remainder by a product has
\* two digits.
LEMMA Digits ==
    ASSUME NEW a \in Nat, NEW b \in Nat \ {0}, NEW c \in Nat \ {0}
    PROVE  /\ b * c \in Nat \ {0}
           /\ a \div (b * c) = (a \div b) \div c
           /\ a % (b * c) = b * ((a \div b) % c) + (a % b)
  <1> DEFINE q == a \div b
             r == a % b
             h == q \div c
             d == q % c
  <1>1. a = b * q + r /\ q \in Nat /\ r \in 0 .. b - 1
    BY DivMod
  <1> HIDE DEF q, r
  <1>2. q = c * h + d /\ h \in Nat /\ d \in 0 .. c - 1
    BY <1>1, DivMod
  <1> HIDE DEF h, d
  <1>3. b * c \in Nat \ {0}
    OBVIOUS
  <1>4. b * d + r \in 0 .. b * c - 1
    BY <1>1, <1>2
  <1>5. a = (b * c) * h + (b * d + r)
    BY <1>1, <1>2
  <1> DEFINE m == b * c
             e == b * d + r
  <1>6. m \in Nat \ {0} /\ e \in 0 .. m - 1 /\ a = m * h + e
    BY <1>3, <1>4, <1>5
  <1> HIDE DEF m, e
  <1>7. (m * h + e) \div m = h /\ (m * h + e) % m = e
    BY <1>2, <1>6, DivUnique
  <1>8. a \div m = h /\ a % m = e
    BY <1>6, <1>7
  <1> QED
    BY <1>3, <1>8 DEF m, e, h, d, q, r

\* The first of the two, on its own.
LEMMA DivDiv ==
    ASSUME NEW a \in Nat, NEW b \in Nat \ {0}, NEW c \in Nat \ {0}
    PROVE  a \div (b * c) = (a \div b) \div c
  <1>1. /\ b * c \in Nat \ {0}
        /\ a \div (b * c) = (a \div b) \div c
        /\ a % (b * c) = b * ((a \div b) % c) + (a % b)
    BY Digits
  <1> QED
    BY <1>1

\* Storing one digit: y is x with its digits below w taken from v, and stands
\* above a remainder r in base b; the digit of weight w is next.
Merged(x, v, w) == w * (x \div w) + (v % w)

\* Replacing that digit merges one digit more.
Stored(b, w, B, x, v, r, y) ==
    /\ ((b * y + r) \div (b * w)) % B = (x \div w) % B
    /\ (b * y + r) + (((v \div w) % B) - ((x \div w) % B)) * (b * w)
          = b * Merged(x, v, w * B) + r

\* So it does, whatever the digits above and below.
LEMMA DigitStored ==
    ASSUME NEW b \in Nat \ {0}, NEW w \in Nat \ {0}, NEW B \in Nat \ {0},
           NEW x \in Nat, NEW v \in Nat, NEW r \in 0 .. b - 1, NEW y,
           y = Merged(x, v, w)
    PROVE  Stored(b, w, B, x, v, r, y)
  <1> DEFINE X == x \div w
             vl == v % w
             V == v \div w
             xd == X % B
             Xh == X \div B
             vd == V % B
  <1>1. X \in Nat /\ vl \in 0 .. w - 1 /\ V \in Nat
    BY DivMod
  <1> HIDE DEF X, vl, V
  <1>2. xd \in 0 .. B - 1 /\ Xh \in Nat /\ X = B * Xh + xd /\ vd \in 0 .. B - 1
    BY <1>1, DivMod
  <1>3. x \div (w * B) = Xh /\ v % (w * B) = w * vd + vl
    <2>1. x \div (w * B) = (x \div w) \div B
      BY DivDiv, Zenon
    <2>2. v % (w * B) = w * ((v \div w) % B) + (v % w)
      BY Digits, Zenon
    <2> QED
      BY <2>1, <2>2 DEF X, vl, V
  <1>4. y = w * X + vl /\ y \in Nat
    BY <1>1 DEF X, vl, Merged
  <1>5. y \div w = X
    BY <1>1, <1>4, DivUnique
  <1>6. b * y + r \in Nat
    BY <1>4
  <1>7. (b * y + r) \div b = y
    <2>1. y \in Int
      BY <1>4
    <2> QED
      BY <2>1, DivUnique, Zenon
  <1>8. (b * y + r) \div (b * w) = X
    <2>1. (b * y + r) \div (b * w) = ((b * y + r) \div b) \div w
      BY <1>6, DivDiv, Zenon
    <2> QED
      BY <1>5, <1>7, <2>1
  <1> HIDE DEF xd, Xh, vd
  <1>9. (b * y + r) + (vd - xd) * (b * w) = b * ((w * B) * Xh + (w * vd + vl)) + r
    <2>1. b * y = b * (w * (B * Xh + xd)) + b * vl
      BY <1>1, <1>2, <1>4
    <2>2. b * (w * (B * Xh + xd)) = (b * w) * (B * Xh) + (b * w) * xd
      BY <1>2
    <2>3. (vd - xd) * (b * w) = (b * w) * vd - (b * w) * xd
      BY <1>2
    <2>4. b * ((w * B) * Xh + (w * vd + vl)) = (b * w) * (B * Xh) + (b * w) * vd + b * vl
      BY <1>1, <1>2
    <2>5. /\ (b * w) * (B * Xh) \in Int /\ (b * w) * xd \in Int
          /\ (b * w) * vd \in Int /\ b * vl \in Int
      BY <1>1, <1>2
    <2> QED
      BY <2>1, <2>2, <2>3, <2>4, <2>5
  <1> QED
    BY <1>3, <1>6, <1>8, <1>9 DEF X, vl, V, xd, Xh, vd, Stored, Merged

-----------------------------------------------------------------------------
\* The bytes of a register.
LEMMA Weights ==
    /\ Weight[0] = 1
    /\ \A i \in 1 .. 2 * WordBytes : Weight[i] = ByteMod * Weight[i - 1]
    /\ \A i \in 0 .. 2 * WordBytes : Weight[i] \in Nat \ {0}
  <1> DEFINE S == Nat \ {0}
             F == [i \in Nat |-> [x \in S |-> ByteMod * x]]
             n == 2 * WordBytes
  <1>1. ByteMod \in Nat \ {0} /\ n \in Nat
    BY TimerAssumption
  <1>2. IsLoop(S, 1, F)
    BY <1>1 DEF IsLoop
  <1>3. PICK f \in [0 .. n -> S] :
          f[0] = 1 /\ \A i \in 1 .. n : f[i] = F[i][f[i - 1]]
    <2> HIDE DEF F, S, n
    <2>1. RunsTo(S, 1, F, n)
      BY <1>1, <1>2, LoopRuns
    <2> QED
      BY <2>1 DEF RunsTo
  <1>4. ASSUME NEW i \in 0 .. n PROVE f[i] = IF i = 0 THEN 1 ELSE ByteMod * f[i - 1]
    <2>1. i # 0 => i \in 1 .. n /\ i - 1 \in 0 .. n
      BY <1>1
    <2> HIDE DEF n
    <2>2. i # 0 => f[i] = F[i][f[i - 1]] /\ f[i - 1] \in S /\ i \in Nat
      <3> HIDE DEF F, S
      <3> QED
        BY <1>3, <2>1
    <2>3. i # 0 => F[i][f[i - 1]] = ByteMod * f[i - 1]
      BY <2>2
    <2> QED
      BY <1>3, <2>2, <2>3
  <1>5. f = [i \in 0 .. n |-> IF i = 0 THEN 1 ELSE ByteMod * f[i - 1]]
    BY <1>3, <1>4
  <1> DEFINE IsWeight(g) == g = [i \in 0 .. n |-> IF i = 0 THEN 1 ELSE ByteMod * g[i - 1]]
  <1>6. IsWeight(Weight)
    <2>1. \E g : IsWeight(g)
      BY <1>5
    <2>2. Weight = CHOOSE g : IsWeight(g)
      BY DEF Weight
    <2> HIDE DEF IsWeight
    <2> QED
      BY <2>1, <2>2
  <1>7. Weight[0] = 1 /\ \A i \in 1 .. n : Weight[i] = ByteMod * Weight[i - 1]
    <2>1. \A i \in 0 .. n : Weight[i] = IF i = 0 THEN 1 ELSE ByteMod * Weight[i - 1]
      BY <1>6, Zenon
    <2>2. 0 \in 0 .. n /\ \A i \in 1 .. n : i \in 0 .. n /\ i # 0
      BY <1>1
    <2> QED
      BY <2>1, <2>2
  <1> DEFINE T == {i \in Nat : i <= n => Weight[i] \in Nat \ {0}}
  <1>8. \A i \in Nat : i \in T
    <2>1. 0 \in T
      BY <1>7
    <2>2. ASSUME NEW i \in T PROVE i + 1 \in T
      <3>1. i \in Nat /\ i + 1 \in Nat /\ (i + 1) - 1 = i
        OBVIOUS
      <3>2. i + 1 <= n => i <= n /\ i + 1 \in 1 .. n
        BY <3>1, <1>1
      <3>3. i + 1 <= n => Weight[i + 1] = ByteMod * Weight[i] /\ Weight[i] \in Nat \ {0}
        BY <3>1, <3>2, <1>7
      <3> QED
        BY <3>1, <3>3, <1>1
    <2> HIDE DEF T
    <2> QED
      BY <2>1, <2>2, Induction DEF T
  <1> QED
    BY <1>7, <1>8, <1>1

\* Weights multiply: byte h + i is byte i of what starts at byte h.
LEMMA WeightSum ==
    ASSUME NEW h \in Nat, NEW i \in Nat, h + i <= 2 * WordBytes
    PROVE  Weight[h + i] = Weight[h] * Weight[i]
  <1> DEFINE n == 2 * WordBytes
             T == {k \in Nat : h + k <= n => Weight[h + k] = Weight[h] * Weight[k]}
  <1>1. n \in Nat /\ ByteMod \in Nat
    BY TimerAssumption
  <1>2. /\ Weight[0] = 1
        /\ \A k \in 1 .. n : Weight[k] = ByteMod * Weight[k - 1]
        /\ \A k \in 0 .. n : Weight[k] \in Nat
    BY Weights
  <1>3. h \in 0 .. n
    BY <1>1
  <1> HIDE DEF n
  <1>4. 0 \in T
    <2>1. h + 0 = h
      OBVIOUS
    <2>2. Weight[h] \in Nat
      BY <1>2, <1>3
    <2> QED
      BY <1>2, <2>1, <2>2
  <1>5. ASSUME NEW k \in T PROVE k + 1 \in T
    <2>1. k \in Nat /\ (h + k <= n => Weight[h + k] = Weight[h] * Weight[k])
      OBVIOUS
    <2>2. SUFFICES ASSUME h + (k + 1) <= n
                   PROVE  Weight[h + (k + 1)] = Weight[h] * Weight[k + 1]
      BY <2>1
    <2>3. /\ h + (k + 1) \in 1 .. n /\ (h + (k + 1)) - 1 = h + k
          /\ k + 1 \in 1 .. n /\ (k + 1) - 1 = k /\ k \in 0 .. n /\ h + k <= n
      BY <1>1, <2>1, <2>2
    <2>4. /\ Weight[h + (k + 1)] = ByteMod * Weight[h + k]
          /\ Weight[k + 1] = ByteMod * Weight[k]
      BY <1>2, <2>3
    <2>5. Weight[h] \in Nat /\ Weight[k] \in Nat
      BY <1>2, <1>3, <2>3
    <2>6. ByteMod * (Weight[h] * Weight[k]) = Weight[h] * (ByteMod * Weight[k])
      BY <1>1, <2>5
    <2> QED
      BY <2>1, <2>3, <2>4, <2>6
  <1> HIDE DEF T
  <1>6. \A k \in Nat : k \in T
    BY <1>4, <1>5, Induction DEF T
  <1> QED
    BY <1>6 DEF T, n

\* Byte i of a word starts at byte h = half * WordBytes.
LEMMA ByteOfWord ==
    ASSUME NEW half \in {Low, High}, NEW i \in 1 .. WordBytes
    PROVE  LET h == half * WordBytes
           IN  /\ h \in Nat /\ h + i - 1 \in 0 .. 2 * WordBytes
               /\ Weight[h] \in Nat \ {0} /\ Weight[i - 1] \in Nat \ {0}
               /\ Weight[h + i - 1] = Weight[h] * Weight[i - 1]
               /\ Weight[i] = Weight[i - 1] * ByteMod
  <1> DEFINE h == half * WordBytes
  <1>1. WordBytes \in Nat /\ ByteMod \in Nat
    BY TimerAssumption
  <1>2. h \in Nat /\ h <= WordBytes
    BY <1>1 DEF Low, High
  <1> HIDE DEF h
  <1>3. /\ i - 1 \in Nat /\ h + (i - 1) <= 2 * WordBytes /\ h + i - 1 = h + (i - 1)
        /\ i \in 1 .. 2 * WordBytes /\ i - 1 \in 0 .. 2 * WordBytes
        /\ h \in 0 .. 2 * WordBytes /\ h + i - 1 \in 0 .. 2 * WordBytes
    BY <1>1, <1>2
  <1>4. Weight[h + (i - 1)] = Weight[h] * Weight[i - 1]
    BY <1>2, <1>3, WeightSum
  <1>5. /\ Weight[h] \in Nat \ {0} /\ Weight[i - 1] \in Nat \ {0}
        /\ Weight[i] = ByteMod * Weight[i - 1]
    BY <1>3, Weights
  <1>6. ByteMod * Weight[i - 1] = Weight[i - 1] * ByteMod
    BY <1>1, <1>5
  <1> QED
    BY <1>2, <1>3, <1>4, <1>5, <1>6 DEF h

\* One iteration of the loop of mem_read32.
ReadByte(reg, half, i, sum) ==
    sum + clint_read(reg, half * WordBytes + i - 1) * Weight[i - 1]

\* One iteration of the loop of mem_write32.
WriteByte(half, val, i, reg) ==
    clint_store(reg, half * WordBytes + i - 1, clint_read(val, i - 1))

\* f records the iterations of a read.
IsRead(reg, half, f) ==
    f = [i \in 0 .. WordBytes |->
            IF i = 0 THEN 0 ELSE ReadByte(reg, half, i, f[i - 1])]

\* f records the iterations of a write.
IsWrite(reg, half, val, f) ==
    f = [i \in 0 .. WordBytes |->
            IF i = 0 THEN reg ELSE WriteByte(half, val, i, f[i - 1])]

\* The bytes a loop reads and writes are numbers.
LEMMA ByteTyped ==
    ASSUME NEW reg \in Int, NEW half \in {Low, High}, NEW i \in 1 .. WordBytes
    PROVE  /\ clint_read(reg, half * WordBytes + i - 1) \in Int
           /\ clint_read(reg, i - 1) \in Int
           /\ Weight[i - 1] \in Int /\ Weight[half * WordBytes + i - 1] \in Int
  <1> DEFINE j == half * WordBytes + i - 1
  <1>1. ByteMod \in Nat \ {0} /\ WordBytes \in Nat
    BY TimerAssumption
  <1>2. j \in 0 .. 2 * WordBytes /\ i - 1 \in 0 .. 2 * WordBytes
    BY <1>1, ByteOfWord
  <1>3. Weight[j] \in Nat \ {0} /\ Weight[i - 1] \in Nat \ {0}
    BY <1>2, Weights
  <1> HIDE DEF j
  <1> DEFINE k == i - 1
  <1>4. Weight[k] \in Nat \ {0}
    BY <1>3
  <1> HIDE DEF k
  <1>5. reg \div Weight[j] \in Int /\ reg \div Weight[k] \in Int
    BY <1>3, <1>4
  <1>6. (reg \div Weight[j]) % ByteMod \in Int /\ (reg \div Weight[k]) % ByteMod \in Int
    BY <1>1, <1>5
  <1> QED
    BY <1>3, <1>4, <1>6 DEF clint_read, j, k

\* The recursive definition in mem_read32 has a solution.
LEMMA ReadRuns ==
    ASSUME NEW reg \in Int, NEW half \in {Low, High}
    PROVE  \E f : IsRead(reg, half, f) /\ mem_read32(reg, half) = f[WordBytes]
  <1> DEFINE d == [i \in Nat |->
                     IF i \in 1 .. WordBytes
                     THEN clint_read(reg, half * WordBytes + i - 1) * Weight[i - 1]
                     ELSE 0]
             F == [i \in Nat |-> [x \in Int |-> x + d[i]]]
  <1>0. WordBytes \in Nat
    BY TimerAssumption
  <1>1. d \in [Nat -> Int]
    <2>1. ASSUME NEW i \in 1 .. WordBytes
          PROVE  clint_read(reg, half * WordBytes + i - 1) * Weight[i - 1] \in Int
      BY ByteTyped
    <2> QED
      BY <2>1
  <1>2. IsLoop(Int, 0, F)
    <2> HIDE DEF d
    <2> QED
      BY <1>1 DEF IsLoop
  <1>3. RunsTo(Int, 0, F, WordBytes)
    <2> HIDE DEF F
    <2> QED
      BY <1>0, <1>2, LoopRuns
  <1>4. PICK f \in [0 .. WordBytes -> Int] :
           f[0] = 0 /\ \A i \in 1 .. WordBytes : f[i] = F[i][f[i - 1]]
    <2> HIDE DEF F
    <2> QED
      BY <1>3 DEF RunsTo
  <1>5. ASSUME NEW i \in 0 .. WordBytes
        PROVE  f[i] = IF i = 0 THEN 0 ELSE ReadByte(reg, half, i, f[i - 1])
    <2>1. CASE i = 0
      BY <1>4, <2>1
    <2>2. CASE i # 0
      <3>1. i \in 1 .. WordBytes /\ i \in Nat /\ f[i - 1] \in Int
        BY <1>0, <2>2
      <3>2. f[i] = F[i][f[i - 1]]
        BY <1>4, <3>1
      <3>3. F[i][f[i - 1]] = f[i - 1] + d[i]
        <4> HIDE DEF d
        <4> QED
          BY <3>1
      <3>4. d[i] = clint_read(reg, half * WordBytes + i - 1) * Weight[i - 1]
        BY <3>1
      <3> QED
        BY <2>2, <3>2, <3>3, <3>4 DEF ReadByte
    <2> QED
      BY <2>1, <2>2
  <1>6. IsRead(reg, half, f)
    BY <1>4, <1>5 DEF IsRead
  <1>7. mem_read32(reg, half) = (CHOOSE g : IsRead(reg, half, g))[WordBytes]
    BY DEF mem_read32, IsRead, ReadByte
  <1> QED
    BY <1>6, <1>7

\* The recursive definition in mem_write32 has a solution.
LEMMA WriteRuns ==
    ASSUME NEW reg \in Int, NEW half \in {Low, High}, NEW val \in Int
    PROVE  \E f : IsWrite(reg, half, val, f) /\ mem_write32(reg, half, val) = f[WordBytes]
  <1> DEFINE F == [i \in Nat |-> [x \in Int |->
                     IF i \in 1 .. WordBytes THEN WriteByte(half, val, i, x) ELSE x]]
  <1>0. WordBytes \in Nat
    BY TimerAssumption
  <1>1. ASSUME NEW i \in 1 .. WordBytes, NEW x \in Int
        PROVE  WriteByte(half, val, i, x) \in Int
    <2>1. /\ clint_read(x, half * WordBytes + i - 1) \in Int
          /\ clint_read(val, i - 1) \in Int /\ Weight[half * WordBytes + i - 1] \in Int
      BY ByteTyped
    <2> QED
      BY <2>1 DEF WriteByte, clint_store
  <1>2. IsLoop(Int, reg, F)
    BY <1>1 DEF IsLoop
  <1>3. RunsTo(Int, reg, F, WordBytes)
    <2> HIDE DEF F
    <2> QED
      BY <1>0, <1>2, LoopRuns
  <1>4. PICK f \in [0 .. WordBytes -> Int] :
           f[0] = reg /\ \A i \in 1 .. WordBytes : f[i] = F[i][f[i - 1]]
    <2> HIDE DEF F
    <2> QED
      BY <1>3 DEF RunsTo
  <1>5. ASSUME NEW i \in 0 .. WordBytes
        PROVE  f[i] = IF i = 0 THEN reg ELSE WriteByte(half, val, i, f[i - 1])
    <2>1. CASE i = 0
      BY <1>4, <2>1
    <2>2. CASE i # 0
      <3>1. i \in 1 .. WordBytes /\ i \in Nat /\ f[i - 1] \in Int
        BY <1>0, <2>2
      <3>2. f[i] = F[i][f[i - 1]]
        BY <1>4, <3>1
      <3>3. F[i][f[i - 1]] = WriteByte(half, val, i, f[i - 1])
        BY <3>1
      <3> QED
        BY <2>2, <3>2, <3>3
    <2> QED
      BY <2>1, <2>2
  <1>6. IsWrite(reg, half, val, f)
    BY <1>4, <1>5 DEF IsWrite
  <1>7. mem_write32(reg, half, val) = (CHOOSE g : IsWrite(reg, half, val, g))[WordBytes]
    BY DEF mem_write32, IsWrite, WriteByte
  <1> QED
    BY <1>6, <1>7

\* mem_read32 collects the word.
LEMMA ReadIsWord ==
    ASSUME NEW reg \in Nat, NEW half \in {Low, High}
    PROVE  mem_read32(reg, half) = Word(reg, half)
  <1> DEFINE h == half * WordBytes
             x == reg \div Weight[h]
  <1>0. WordBytes \in Nat \ {0} /\ ByteMod \in Nat \ {0} /\ reg \in Int
    BY TimerAssumption
  <1>1. PICK f : IsRead(reg, half, f) /\ mem_read32(reg, half) = f[WordBytes]
    BY <1>0, ReadRuns
  <1>2. f[0] = 0 /\ \A i \in 1 .. WordBytes : f[i] = ReadByte(reg, half, i, f[i - 1])
    <2>1. 0 \in 0 .. WordBytes /\ \A i \in 1 .. WordBytes : i \in 0 .. WordBytes /\ i # 0
      BY <1>0
    <2> QED
      BY <1>1, <2>1 DEF IsRead
  <1>3. Weight[h] \in Nat \ {0} /\ x \in Nat
    <2>1. Weight[h] \in Nat \ {0}
      BY <1>0, ByteOfWord
    <2> HIDE DEF h
    <2> QED
      BY <2>1, DivMod
  <1> DEFINE T == {i \in Nat : i <= WordBytes => f[i] = x % Weight[i]}
  <1>4. 0 \in T
    <2>1. x % 1 = 0
      <3> HIDE DEF x
      <3> QED
        BY <1>3
    <2> QED
      BY <1>2, <2>1, Weights
  <1>5. ASSUME NEW k \in T PROVE k + 1 \in T
    <2>1. k \in Nat /\ (k <= WordBytes => f[k] = x % Weight[k])
      OBVIOUS
    <2>2. SUFFICES ASSUME k + 1 <= WordBytes PROVE f[k + 1] = x % Weight[k + 1]
      BY <2>1
    <2> DEFINE i == k + 1
    <2>3. i \in 1 .. WordBytes /\ i - 1 = k /\ k <= WordBytes
      BY <1>0, <2>1, <2>2
    <2> HIDE DEF i
    <2>4. /\ Weight[k] \in Nat \ {0} /\ Weight[h + i - 1] = Weight[h] * Weight[k]
          /\ Weight[i] = Weight[k] * ByteMod
      BY <2>3, ByteOfWord
    <2> HIDE DEF T
    <2> DEFINE w == Weight[k]
               b == Weight[h]
    <2>5. f[i] = (x % w) + clint_read(reg, h + i - 1) * w
      BY <1>2, <2>1, <2>3 DEF ReadByte
    <2>6. clint_read(reg, h + i - 1) = (reg \div (b * w)) % ByteMod
      BY <2>4 DEF clint_read
    <2> HIDE DEF w, h
    <2>7. reg \div (b * w) = (reg \div b) \div w
      BY <1>3, <2>4, DivDiv, Zenon DEF w
    <2>8. x % (w * ByteMod) = w * ((x \div w) % ByteMod) + (x % w)
      <3> HIDE DEF x
      <3>1. w \in Nat \ {0} /\ x \in Nat
        BY <1>3, <2>4 DEF w
      <3> QED
        BY <1>0, <3>1, Digits, Zenon
    <2>9. /\ (x \div w) % ByteMod \in Int /\ x % w \in Int /\ w \in Int
      <3> HIDE DEF x
      <3>1. w \in Nat \ {0} /\ x \in Nat
        BY <1>3, <2>4 DEF w
      <3>2. x \div w \in Nat /\ x % w \in Int
        BY <3>1, DivMod
      <3>3. (x \div w) % ByteMod \in Int
        BY <1>0, <3>2, DivMod
      <3> QED
        BY <3>1, <3>2, <3>3
    <2> DEFINE dig == (x \div w) % ByteMod
               rem == x % w
    <2>10. f[i] = rem + dig * w /\ x % (w * ByteMod) = w * dig + rem
      BY <2>5, <2>6, <2>7, <2>8
    <2>11. rem + dig * w = w * dig + rem
      <3> HIDE DEF dig, rem
      <3>1. dig \in Int /\ rem \in Int /\ w \in Int
        BY <2>9 DEF dig, rem
      <3> QED
        BY <3>1
    <2> QED
      BY <2>4, <2>10, <2>11 DEF i, w
  <1>6. \A i \in Nat : i \in T
    <2> HIDE DEF T
    <2> QED
      BY <1>4, <1>5, Induction DEF T
  <1>7. f[WordBytes] = x % WordMod
    BY <1>0, <1>6 DEF WordMod
  <1> QED
    BY <1>1, <1>7 DEF Word

\* mem_write32 replaces the word and keeps what is above and below it.
LEMMA WriteWord ==
    ASSUME NEW reg \in Nat, NEW half \in {Low, High}, NEW val \in Nat
    PROVE  LET b == Weight[half * WordBytes]
               x == reg \div b
           IN  mem_write32(reg, half, val)
                 = b * Merged(x, val, WordMod) + (reg % b)
  <1> DEFINE h == half * WordBytes
             b == Weight[h]
             x == reg \div b
             r == reg % b
  <1>0. WordBytes \in Nat \ {0} /\ ByteMod \in Nat \ {0} /\ reg \in Int /\ val \in Int
    BY TimerAssumption
  <1>1. PICK f : IsWrite(reg, half, val, f) /\ mem_write32(reg, half, val) = f[WordBytes]
    BY <1>0, WriteRuns
  <1>2. f[0] = reg /\ \A i \in 1 .. WordBytes : f[i] = WriteByte(half, val, i, f[i - 1])
    <2>1. 0 \in 0 .. WordBytes /\ \A i \in 1 .. WordBytes : i \in 0 .. WordBytes /\ i # 0
      BY <1>0
    <2> QED
      BY <1>1, <2>1 DEF IsWrite
  <1>3. b \in Nat \ {0}
    BY <1>0, ByteOfWord
  <1> HIDE DEF b
  <1>4. reg = b * x + r /\ x \in Nat /\ r \in 0 .. b - 1
    BY <1>3, DivMod
  <1> HIDE DEF x, r
  <1> DEFINE Done(w) == b * Merged(x, val, w) + r
             T == {i \in Nat : i <= WordBytes => f[i] = Done(Weight[i])}
  <1>5. 0 \in T
    <2>1. x \div 1 = x /\ val % 1 = 0
      BY <1>4
    <2>2. 1 * x + 0 = x
      BY <1>4
    <2> QED
      BY <1>2, <1>4, <2>1, <2>2, Weights DEF Merged
  <1>6. ASSUME NEW k \in T PROVE k + 1 \in T
    <2>1. k \in Nat /\ (k <= WordBytes => f[k] = Done(Weight[k]))
      OBVIOUS
    <2>2. SUFFICES ASSUME k + 1 <= WordBytes PROVE f[k + 1] = Done(Weight[k + 1])
      BY <2>1
    <2> HIDE DEF T
    <2> DEFINE i == k + 1
               w == Weight[k]
               y == Merged(x, val, w)
    <2>3. i \in 1 .. WordBytes /\ i - 1 = k /\ k <= WordBytes
      BY <1>0, <2>1, <2>2
    <2> HIDE DEF i
    <2>4. /\ w \in Nat \ {0} /\ Weight[h + i - 1] = b * w
          /\ Weight[i] = w * ByteMod
      BY <2>3, ByteOfWord DEF b
    <2>5. f[k] = b * y + r
      BY <2>1, <2>3
    <2>6. f[i] = WriteByte(half, val, i, f[k])
      BY <1>2, <2>3
    <2> HIDE DEF w, y, Done
    <2>7. WriteByte(half, val, i, f[k])
            = f[k] + (((val \div w) % ByteMod)
                        - ((f[k] \div (b * w)) % ByteMod)) * (b * w)
      BY <2>3, <2>4 DEF WriteByte, clint_store, clint_read, w
    <2>8. y = Merged(x, val, w)
      BY DEF y
    <2>9. Stored(b, w, ByteMod, x, val, r, y)
      <3>1. ByteMod \in Nat \ {0}
        BY <1>0
      <3>2. x \in Nat /\ r \in 0 .. b - 1
        BY <1>4
      <3>3. w \in Nat \ {0}
        BY <2>4
      <3> QED
        BY <1>3, <2>8, <3>1, <3>2, <3>3, DigitStored
    <2>10. f[i] = Done(Weight[i])
      BY <2>4, <2>5, <2>6, <2>7, <2>9 DEF Done, Stored
    <2> QED
      BY <2>10 DEF i
  <1>7. \A i \in Nat : i \in T
    <2> HIDE DEF T
    <2> QED
      BY <1>5, <1>6, Induction DEF T
  <1>8. f[WordBytes] = Done(WordMod)
    BY <1>0, <1>7 DEF WordMod
  <1> QED
    BY <1>1, <1>8 DEF x, r, b

-----------------------------------------------------------------------------
\* A register is a high and a low word.
Regs == 0 .. RegMod - 1

\* The weights of the two words.
LEMMA Bases == /\ Weight[Low * WordBytes] = 1 /\ Weight[High * WordBytes] = WordMod
               /\ WordMod \in Nat \ {0} /\ RegMod \in Nat \ {0}
               /\ WordBytes \in Nat
  <1>1. WordBytes \in Nat \ {0} /\ Low * WordBytes = 0 /\ High * WordBytes = WordBytes
    BY TimerAssumption DEF Low, High
  <1>2. WordMod \in Nat \ {0}
    BY <1>1, Weights DEF WordMod
  <1>3. RegMod \in Nat \ {0}
    BY <1>2 DEF RegMod
  <1> QED
    BY <1>1, <1>2, <1>3, Weights DEF WordMod

\* Two words make a register, from which they can be taken back.
LEMMA TwoWords ==
    ASSUME NEW hi \in Words, NEW lo \in Words
    PROVE  /\ WordMod * hi + lo \in Regs
           /\ (WordMod * hi + lo) \div WordMod = hi /\ (WordMod * hi + lo) % WordMod = lo
  <1>1. WordMod \in Nat \ {0}
    BY Bases
  <1>2. hi \in Int /\ lo \in 0 .. WordMod - 1 /\ hi \in 0 .. WordMod - 1
    BY <1>1 DEF Words
  <1>3. (WordMod * hi + lo) \div WordMod = hi /\ (WordMod * hi + lo) % WordMod = lo
    BY <1>1, <1>2, DivUnique, Zenon
  <1> DEFINE M == WordMod
  <1>4. WordMod * hi + lo \in 0 .. WordMod * WordMod - 1
    <2>1. M \in Nat \ {0} /\ hi \in 0 .. M - 1 /\ lo \in 0 .. M - 1
      BY <1>1, <1>2
    <2> HIDE DEF M
    <2>2. M * hi + lo \in 0 .. M * M - 1
      BY <2>1
    <2> QED
      BY <2>2 DEF M
  <1> QED
    BY <1>3, <1>4 DEF Regs, RegMod

\* A register is its two words.
LEMMA WordsOf ==
    ASSUME NEW reg \in Regs
    PROVE  /\ reg \in Nat
           /\ Word(reg, Low) = reg % WordMod /\ Word(reg, High) = reg \div WordMod
           /\ Word(reg, Low) \in Words /\ Word(reg, High) \in Words
           /\ reg = WordMod * Word(reg, High) + Word(reg, Low)
  <1>1. WordMod \in Nat \ {0} /\ RegMod \in Nat \ {0} /\ reg \in Nat
    BY Bases DEF Regs
  <1> DEFINE q == reg \div WordMod
             r == reg % WordMod
             M == WordMod
  <1>2. reg = M * q + r /\ q \in Nat /\ r \in 0 .. M - 1 /\ M \in Nat \ {0}
    BY <1>1, DivMod
  <1>3. reg < M * M
    BY <1>1 DEF Regs, RegMod
  <1>4. q \in 0 .. M - 1
    <2> HIDE DEF q, r, M
    <2>1. SUFFICES ASSUME q >= M PROVE FALSE
      BY <1>2
    <2>2. M * q >= M * M
      BY <1>2, <2>1
    <2>3. M * q \in Nat /\ M * M \in Nat
      BY <1>2
    <2> QED
      BY <1>2, <1>3, <2>2, <2>3
  <1>5. reg \div 1 = reg
    BY <1>1
  <1>6. q % M = q
    <2> HIDE DEF q, M
    <2> QED
      BY <1>2, <1>4
  <1>7. Word(reg, Low) = r /\ Word(reg, High) = q
    BY <1>5, <1>6, Bases DEF Word
  <1> QED
    BY <1>1, <1>2, <1>4, <1>7 DEF Words

\* A later time has no smaller high word.
LEMMA Monotone ==
    ASSUME NEW s \in Regs, NEW t \in Regs, s <= t
    PROVE  Word(s, High) <= Word(t, High)
  <1>1. WordMod \in Nat \ {0}
    BY Bases
  <1>2. /\ s = WordMod * Word(s, High) + Word(s, Low)
        /\ t = WordMod * Word(t, High) + Word(t, Low)
        /\ s \in Nat /\ t \in Nat
        /\ Word(s, Low) \in Words /\ Word(s, High) \in Words
        /\ Word(t, Low) \in Words /\ Word(t, High) \in Words
    BY WordsOf
  <1> DEFINE a == Word(s, High)
             b == Word(t, High)
             M == WordMod
  <1>3. /\ a \in Nat /\ b \in Nat /\ M \in Nat \ {0}
        /\ \E c, d \in 0 .. M - 1 : M * a + c <= M * b + d
    BY <1>1, <1>2 DEF Words
  <1> HIDE DEF a, b, M
  <1>4. PICK c \in 0 .. M - 1, d \in 0 .. M - 1 : M * a + c <= M * b + d
    BY <1>3
  <1>5. SUFFICES ASSUME b < a PROVE FALSE
    BY <1>3 DEF a, b
  <1>6. M * a >= M * (b + 1)
    BY <1>3, <1>5
  <1>7. M * (b + 1) = M * b + M /\ M * b \in Nat /\ M * a \in Nat
    BY <1>3
  <1> QED
    BY <1>3, <1>4, <1>6, <1>7

\* A store to the low word of a register.
LEMMA WriteLow ==
    ASSUME NEW reg \in Regs, NEW val \in Words
    PROVE  mem_write32(reg, Low, val) = WordMod * Word(reg, High) + val
  <1>1. /\ reg \in Nat /\ Word(reg, High) = reg \div WordMod /\ Word(reg, High) \in Words
        /\ WordMod \in Nat \ {0} /\ val \in Nat /\ val \in 0 .. WordMod - 1
    BY WordsOf, Bases DEF Words
  <1> DEFINE b == Weight[Low * WordBytes]
             x == reg \div b
  <1>2. mem_write32(reg, Low, val)
          = b * (WordMod * (x \div WordMod) + (val % WordMod)) + (reg % b)
    BY <1>1, WriteWord DEF Merged
  <1>3. b = 1 /\ reg \div 1 = reg /\ reg % 1 = 0 /\ val % WordMod = val
    BY <1>1, Bases
  <1>4. mem_write32(reg, Low, val) = 1 * (WordMod * Word(reg, High) + val) + 0
    BY <1>1, <1>2, <1>3
  <1>5. WordMod * Word(reg, High) + val \in Nat
    BY <1>1 DEF Words
  <1> QED
    BY <1>4, <1>5

\* A store to the high word of a register.
LEMMA WriteHigh ==
    ASSUME NEW reg \in Regs, NEW val \in Words
    PROVE  mem_write32(reg, High, val) = WordMod * val + Word(reg, Low)
  <1>1. /\ reg \in Nat /\ Word(reg, High) = reg \div WordMod /\ Word(reg, High) \in Words
        /\ Word(reg, Low) = reg % WordMod
        /\ WordMod \in Nat \ {0} /\ val \in Nat /\ val \in 0 .. WordMod - 1
    BY WordsOf, Bases DEF Words
  <1> DEFINE b == Weight[High * WordBytes]
             x == reg \div b
  <1>2. mem_write32(reg, High, val)
          = b * (WordMod * (x \div WordMod) + (val % WordMod)) + (reg % b)
    BY <1>1, WriteWord DEF Merged
  <1>3. b = WordMod /\ x = Word(reg, High) /\ val % WordMod = val
    BY <1>1, Bases
  <1>4. Word(reg, High) \div WordMod = 0
    <2> DEFINE q == Word(reg, High)
    <2>1. q \in 0 .. WordMod - 1
      BY <1>1 DEF Words
    <2> HIDE DEF q
    <2>2. q \div WordMod = 0
      BY <1>1, <2>1
    <2> QED
      BY <2>2 DEF q
  <1>5. mem_write32(reg, High, val) = WordMod * (WordMod * 0 + val) + Word(reg, Low)
    BY <1>1, <1>2, <1>3, <1>4
  <1>6. WordMod * 0 + val = val
    BY <1>1
  <1> QED
    BY <1>5, <1>6

-----------------------------------------------------------------------------
\* The inductive invariant.  The driver's words, as far as it has read them,
\* come from times after its attempt began; mtimecmp is the deadline, except
\* between the stores that replace it.
Pcs == {"idle", "low", "again", "known", "high", "setlow"}

\* No suppression is left over between instructions.
CountersOk == instret_suppress_next = 0 /\ instret = retired

\* What the driver has read so far.
TimesOk ==
    /\ at \in Pcs /\ mtime \in 0 .. MaxTime /\ started \in 0 .. mtime
    /\ high \in Words /\ low \in Words
    /\ at = "low" => started < mtime /\ high = Word(started, High)
    /\ at = "again" =>
          /\ high = Word(started, High)
          /\ \E t \in started + 1 .. mtime : low = Word(t, Low)
    /\ at = "known" => WordMod * high + low \in started + 1 .. mtime

\* What mtimecmp holds at each point of the driver.
DeadlineOk ==
    /\ old \in Regs /\ deadline \in Regs /\ mtimecmp \in Regs
    /\ at \in {"high", "setlow"} => deadline # 0
    /\ mtimecmp =
          CASE at = "high" -> WordMod * Word(old, High) + (WordMod - 1)
            [] at = "setlow" -> WordMod * Word(deadline, High) + (WordMod - 1)
            [] OTHER -> deadline

\* The three parts together.
TInv == CountersOk /\ TimesOk /\ DeadlineOk

\* The windows onto mtime agree, and are the word of it.
LEMMA TimeWords ==
    ASSUME NEW half \in {Low, High}, mtime \in Regs
    PROVE  TimeWord(half) = {Word(mtime, half)}
  <1>1. mtime \in Nat
    BY WordsOf
  <1>2. mem_read32(mtime, half) = Word(mtime, half)
    BY <1>1, ReadIsWord
  <1> QED
    BY <1>2 DEF TimeWord, get_zicntr_time

\* Time does not wrap before MaxTime.
LEMMA TimeInReg ==
    ASSUME NEW t \in 0 .. MaxTime
    PROVE  t \in Regs
  BY TimerAssumption, Bases DEF Regs

\* Every instruction advances mtime by one.
LEMMA Advances ==
    ASSUME Iteration, mtime \in 0 .. MaxTime
    PROVE  mtime' = mtime + 1 /\ mtime' \in 0 .. MaxTime
  <1>1. RegMod \in Nat \ {0} /\ MaxTime \in 0 .. RegMod - 1
    BY Bases, TimerAssumption
  <1>2. mtime + 1 \in 0 .. RegMod - 1 /\ mtime + 1 <= MaxTime /\ mtime \in Nat
    BY <1>1 DEF Iteration
  <1>3. (mtime + 1) % RegMod = mtime + 1
    BY <1>1, <1>2
  <1> QED
    BY <1>1, <1>2, <1>3 DEF Iteration

\* Every instruction counts itself, unless it wrote the counter.
LEMMA CountersStep ==
    ASSUME CountersOk, [Next]_vars PROVE CountersOk'
  <1> USE DEF CountersOk
  <1>1. ASSUME Retire PROVE CountersOk'
    BY <1>1 DEF Retire, Count
  <1>2. ASSUME NEW half \in {Low, High}, NEW val \in MinstretValues,
               WriteMinstret(half, val)
        PROVE  CountersOk'
    BY <1>2 DEF WriteMinstret, Count, set_zicntr_minstret, WithWord
  <1>3. CASE UNCHANGED vars
    BY <1>3 DEF vars, counters
  <1> QED
    BY <1>1, <1>2, <1>3
       DEF Next, Other, ReadHigh, ReadLow, ReadHighAgain, ParkLow, SetHigh, SetLow, Store

\* The three reads: a high word that has not changed since the attempt began
\* belongs to the low word read in between.
LEMMA TimesStep ==
    ASSUME TimesOk, [Next]_vars PROVE TimesOk'
  <1>1. /\ mtime \in 0 .. MaxTime /\ started \in 0 .. mtime
        /\ mtime \in Nat /\ started \in Nat
        /\ mtime \in Regs /\ started \in Regs /\ MaxTime \in Nat
        /\ Word(mtime, Low) \in Words /\ Word(mtime, High) \in Words
    <2>1. mtime \in 0 .. MaxTime /\ started \in 0 .. mtime /\ MaxTime \in Nat
      BY TimerAssumption, Bases DEF TimesOk
    <2>2. started \in 0 .. MaxTime
      BY <2>1
    <2>3. mtime \in Regs /\ started \in Regs
      BY <2>1, <2>2, TimeInReg
    <2> QED
      BY <2>1, <2>3, WordsOf
  <1>2. Iteration => mtime' = mtime + 1 /\ mtime' \in 0 .. MaxTime
    BY <1>1, Advances
  <1>3. TimeWord(Low) = {Word(mtime, Low)} /\ TimeWord(High) = {Word(mtime, High)}
    BY <1>1, TimeWords
  <1>4. ASSUME Iteration, UNCHANGED driver PROVE TimesOk'
    BY <1>1, <1>2, <1>4 DEF TimesOk, driver
  <1>5. CASE ReadHigh
    <2>1. /\ at' = "low" /\ high' = Word(mtime, High) /\ started' = mtime /\ low' = low
          /\ mtime' = mtime + 1 /\ mtime' \in 0 .. MaxTime
      BY <1>2, <1>3, <1>5 DEF ReadHigh, Retire
    <2> QED
      BY <1>1, <2>1 DEF TimesOk, Pcs
  <1>6. CASE ReadLow
    <2>1. /\ at = "low" /\ at' = "again" /\ low' = Word(mtime, Low)
          /\ high' = high /\ started' = started
          /\ mtime' = mtime + 1 /\ mtime' \in 0 .. MaxTime
      BY <1>2, <1>3, <1>6 DEF ReadLow, Retire
    <2>2. mtime \in started' + 1 .. mtime'
      BY <1>1, <2>1 DEF TimesOk
    <2>3. started' \in 0 .. mtime'
      BY <1>1, <2>1
    <2>4. \E t \in started' + 1 .. mtime' : low' = Word(t, Low)
      BY <2>1, <2>2
    <2> QED
      BY <1>1, <2>1, <2>3, <2>4 DEF TimesOk, Pcs
  <1>7. CASE ReadHighAgain
    <2>1. /\ at = "again" /\ at' = IF Word(mtime, High) = high THEN "known" ELSE "idle"
          /\ low' = low /\ high' = high /\ started' = started
          /\ mtime' = mtime + 1 /\ mtime' \in 0 .. MaxTime
      BY <1>2, <1>3, <1>7 DEF ReadHighAgain, Retire
    <2>2. PICK t \in started + 1 .. mtime : low = Word(t, Low)
      BY <2>1 DEF TimesOk
    <2>3. t \in 0 .. MaxTime /\ started <= t /\ t <= mtime
      BY <1>1
    <2>4. t \in Regs
      BY <2>3, TimeInReg
    <2>5. Word(started, High) <= Word(t, High) /\ Word(t, High) <= Word(mtime, High)
      BY <1>1, <2>3, <2>4, Monotone
    <2>6. /\ t = WordMod * Word(t, High) + Word(t, Low) /\ Word(t, High) \in Words
          /\ Word(started, High) \in Words
      BY <1>1, <2>4, WordsOf
    <2>7. Word(mtime, High) = high => Word(t, High) = high
      BY <1>1, <2>1, <2>5, <2>6, Bases DEF TimesOk, Words
    <2>8. at' = "known" => WordMod * high + low = t
      BY <2>1, <2>2, <2>6, <2>7
    <2>9. t \in started' + 1 .. mtime' /\ started' \in 0 .. mtime'
      BY <1>1, <2>1, <2>3
    <2> QED
      BY <2>1, <2>8, <2>9 DEF TimesOk, Pcs
  <1>8. ASSUME Iteration, at' \in {"high", "setlow", "idle"},
               UNCHANGED <<high, low, started>>
        PROVE  TimesOk'
    BY <1>1, <1>2, <1>8 DEF TimesOk, Pcs
  <1>9. CASE UNCHANGED vars
    BY <1>9 DEF vars, clint, driver, TimesOk
  <1> QED
    BY <1>4, <1>5, <1>6, <1>7, <1>8, <1>9
       DEF Next, Other, WriteMinstret, ParkLow, SetHigh, SetLow, Store, Retire

\* The three stores: all ones in the low word keep the comparison above both
\* deadlines until the last.
LEMMA DeadlineStep ==
    ASSUME TimesOk, DeadlineOk, [Next]_vars PROVE DeadlineOk'
  <1>1. /\ old \in Regs /\ deadline \in Regs /\ mtimecmp \in Regs
        /\ WordMod \in Nat \ {0} /\ WordMod - 1 \in Words
    BY Bases DEF DeadlineOk, Words
  <1>2. ASSUME UNCHANGED <<mtimecmp, old, deadline>>,
               at \notin {"high", "setlow"}, at' \notin {"high", "setlow"}
        PROVE  DeadlineOk'
    BY <1>2 DEF DeadlineOk
  <1>3. ASSUME UNCHANGED <<mtimecmp, driver>> PROVE DeadlineOk'
    BY <1>3 DEF DeadlineOk, driver
  <1>4. CASE ParkLow
    <2>1. PICK d \in Delays : deadline' = (high * WordMod + low + d) % RegMod
      BY <1>4 DEF ParkLow
    <2>2. /\ at = "known" /\ at' = "high" /\ old' = deadline /\ mtimecmp = deadline
          /\ mtimecmp' = mem_write32(mtimecmp, Low, WordMod - 1)
      BY <1>4 DEF ParkLow, Store, DeadlineOk
    <2>3. mtimecmp' = WordMod * Word(old', High) + (WordMod - 1)
      BY <1>1, <2>2, WriteLow
    <2>4. deadline' \in Regs /\ deadline' # 0
      <3>1. WordMod * high + low \in started + 1 .. mtime /\ high \in Words /\ low \in Words
        BY <2>2 DEF TimesOk
      <3>2. /\ mtime \in 0 .. MaxTime /\ started \in 0 .. mtime /\ MaxTime \in 0 .. RegMod - 1
            /\ d \in 0 .. RegMod - 1 - MaxTime /\ RegMod \in Nat \ {0}
        BY TimerAssumption, Bases DEF TimesOk
      <3>3. high * WordMod = WordMod * high /\ WordMod * high \in Int /\ low \in Int
        BY <1>1, <3>1 DEF Words
      <3> DEFINE e == high * WordMod + low + d
      <3>4. e \in 1 .. RegMod - 1
        BY <3>1, <3>2, <3>3
      <3> HIDE DEF e
      <3>5. e % RegMod = e
        BY <3>2, <3>4
      <3> QED
        BY <2>1, <3>2, <3>4, <3>5 DEF e, Regs
    <2>5. mtimecmp' \in Regs
      BY <1>1, <2>2, <2>3, WordsOf, TwoWords
    <2> QED
      BY <1>1, <2>2, <2>3, <2>4, <2>5 DEF DeadlineOk
  <1>5. CASE SetHigh
    <2>1. /\ at = "high" /\ at' = "setlow" /\ old' = old
          /\ deadline' = deadline /\ deadline # 0
          /\ mtimecmp = WordMod * Word(old, High) + (WordMod - 1)
          /\ mtimecmp' = mem_write32(mtimecmp, High, Word(deadline, High))
      BY <1>5 DEF SetHigh, Store, DeadlineOk
    <2>2. /\ Word(old, High) \in Words /\ Word(deadline, High) \in Words
          /\ Word(mtimecmp, Low) = mtimecmp % WordMod
      BY <1>1, WordsOf
    <2>3. Word(mtimecmp, Low) = WordMod - 1
      BY <1>1, <2>1, <2>2, TwoWords
    <2>4. mtimecmp' = WordMod * Word(deadline, High) + (WordMod - 1)
      BY <1>1, <2>1, <2>2, <2>3, WriteHigh
    <2>5. mtimecmp' \in Regs
      BY <1>1, <2>2, <2>4, TwoWords
    <2> QED
      BY <1>1, <2>1, <2>4, <2>5 DEF DeadlineOk
  <1>6. CASE SetLow
    <2>1. /\ at = "setlow" /\ at' = "idle" /\ old' = old /\ deadline' = deadline
          /\ mtimecmp = WordMod * Word(deadline, High) + (WordMod - 1)
          /\ mtimecmp' = mem_write32(mtimecmp, Low, Word(deadline, Low))
      BY <1>6 DEF SetLow, Store, DeadlineOk
    <2>2. /\ Word(deadline, High) \in Words /\ Word(deadline, Low) \in Words
          /\ deadline = WordMod * Word(deadline, High) + Word(deadline, Low)
          /\ Word(mtimecmp, High) = mtimecmp \div WordMod
      BY <1>1, WordsOf
    <2>3. Word(mtimecmp, High) = Word(deadline, High)
      BY <1>1, <2>1, <2>2, TwoWords
    <2>4. mtimecmp' = deadline
      BY <1>1, <2>1, <2>2, <2>3, WriteLow
    <2> QED
      BY <1>1, <2>1, <2>4 DEF DeadlineOk
  <1> QED
    BY <1>2, <1>3, <1>4, <1>5, <1>6
       DEF Next, Other, WriteMinstret, ReadHigh, ReadLow, ReadHighAgain, vars, clint

\* The invariant holds in every reachable state.
LEMMA TInvInductive == Spec => []TInv
  <1>1. Init => TInv
    <2> SUFFICES ASSUME Init PROVE TInv
      OBVIOUS
    <2>1. 0 \in Words /\ 0 \in Regs /\ 0 \in 0 .. MaxTime /\ 0 \in 0 .. 0
      BY Bases, TimerAssumption DEF Words, Regs
    <2> QED
      BY <2>1 DEF Init, TInv, CountersOk, TimesOk, DeadlineOk, Pcs
  <1>2. TInv /\ [Next]_vars => TInv'
    BY CountersStep, TimesStep, DeadlineStep DEF TInv
  <1> QED
    BY <1>1, <1>2, PTL DEF Spec

\* The time a 32-bit driver reads in three words is a time mtime had during
\* the read, for every width of byte and word: the bytes clint_read serves and
\* the time CSRs are windows of one counter.
THEOREM TimerTimeNotTorn == Spec => []TimeNotTorn
  <1>1. TInv => TimeNotTorn
    <2> SUFFICES ASSUME TInv, at = "known"
                 PROVE  high * WordMod + low \in started .. mtime
      BY DEF TimeNotTorn
    <2>1. /\ WordMod * high + low \in started + 1 .. mtime
          /\ high \in Words /\ low \in Words
          /\ started \in 0 .. mtime /\ mtime \in 0 .. MaxTime
          /\ WordMod \in Nat /\ MaxTime \in Int
      BY Bases, TimerAssumption DEF TInv, TimesOk
    <2>2. high * WordMod = WordMod * high /\ WordMod * high \in Int /\ low \in Int
      BY <2>1 DEF Words
    <2> QED
      BY <2>1, <2>2
  <1> QED
    BY <1>1, TInvInductive, PTL

\* MTIP is exactly "a deadline is set and has passed", and while the driver
\* replaces the deadline in three word stores no interrupt is pending that
\* neither the old nor the new one accounts for.
THEOREM TimerDeadlineExact == Spec => []TimerExact
  <1>1. TInv => TimerExact
    <2> SUFFICES ASSUME TInv PROVE TimerExact
      OBVIOUS
    <2>1. /\ old \in Regs /\ deadline \in Regs /\ mtimecmp \in Regs
          /\ WordMod \in Nat \ {0} /\ mtime \in Nat
          /\ at \in {"high", "setlow"} => deadline # 0
      BY Bases, TimerAssumption DEF TInv, DeadlineOk, TimesOk
    <2>2. ASSUME NEW reg \in Regs
          PROVE  reg <= WordMod * Word(reg, High) + (WordMod - 1) /\ reg \in Nat
      <3>1. /\ reg = WordMod * Word(reg, High) + Word(reg, Low)
            /\ reg \in Nat /\ Word(reg, Low) \in Words /\ Word(reg, High) \in Words
        BY WordsOf
      <3>2. WordMod * Word(reg, High) \in Int
        BY <2>1, <3>1 DEF Words
      <3> QED
        BY <2>1, <3>1, <3>2 DEF Words
    <2>3. CASE at = "high"
      <3>1. mtimecmp = WordMod * Word(old, High) + (WordMod - 1)
        BY <2>3 DEF TInv, DeadlineOk
      <3>2. old <= mtimecmp /\ old \in Nat /\ mtimecmp \in Nat
        BY <2>1, <2>2, <3>1
      <3> QED
        BY <2>1, <2>3, <3>2 DEF TimerExact, clint_mtip_pending
    <2>4. CASE at = "setlow"
      <3>1. mtimecmp = WordMod * Word(deadline, High) + (WordMod - 1)
        BY <2>4 DEF TInv, DeadlineOk
      <3>2. deadline <= mtimecmp /\ deadline \in Nat /\ mtimecmp \in Nat /\ deadline # 0
        BY <2>1, <2>2, <2>4, <3>1
      <3> QED
        BY <2>1, <2>4, <3>2 DEF TimerExact, clint_mtip_pending
    <2>5. CASE at \notin {"high", "setlow"}
      <3>1. mtimecmp = deadline
        BY <2>5 DEF TInv, DeadlineOk
      <3> QED
        BY <2>5, <3>1 DEF TimerExact, clint_mtip_pending
    <2> QED
      BY <2>3, <2>4, <2>5
  <1> QED
    BY <1>1, TInvInductive, PTL

\* minstret is what was last written to its words plus the instructions
\* retired since: instret_suppress_next never outlives its instruction.
THEOREM TimerInstretExact == Spec => []InstretExact
  <1>1. TInv => InstretExact
    BY DEF TInv, CountersOk, InstretExact
  <1> QED
    BY <1>1, TInvInductive, PTL
=============================================================================
