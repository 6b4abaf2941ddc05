-------------------------------- MODULE Timer --------------------------------
(***************************************************************************)
(* The counters of the emulator: mtime and mtimecmp of the CLINT           *)
(* (src/src/device/clint.c), reached a byte at a time by the bus, and the  *)
(* cycle and instret counters (src/src/extension/zicntr_extension.c), all  *)
(* stepped by the run loop of src/src/emu.c once per instruction.          *)
(*                                                                         *)
(* A register is two words of WordBytes bytes in base ByteMod (two words   *)
(* of four bytes in base 256 in the code).  The guest is external: driver  *)
(* code for a 32-bit hart, which reads the time as high, low, high and     *)
(* programs a deadline as low := all ones, high, low, with any number of   *)
(* other instructions between any two of its own.                          *)
(***************************************************************************)
EXTENDS Integers

CONSTANTS
    ByteMod,        \* values of a byte, 256
    WordBytes,      \* bytes of a word, 4
    MaxTime,        \* instructions executed: before mtime can wrap
    Delays,         \* how far ahead the guest puts its deadlines: none wraps
    MinstretValues  \* words the guest writes to minstret and minstreth

\* What a one in byte i of a register is worth.
Weight[i \in 0 .. 2 * WordBytes] ==
    IF i = 0 THEN 1 ELSE ByteMod * Weight[i - 1]

WordMod == Weight[WordBytes]
RegMod == WordMod * WordMod

ASSUME TimerAssumption ==
    /\ ByteMod \in Nat \ {0, 1} /\ WordBytes \in Nat \ {0}
    /\ MaxTime \in 0 .. RegMod - 1
    /\ Delays \subseteq 0 .. RegMod - 1 - MaxTime
    /\ MinstretValues \subseteq 0 .. WordMod - 1

VARIABLES
    mtime, mtimecmp,                    \* the CLINT
    cycle, instret, instret_suppress_next,
    at,                                 \* where the guest's driver is
    high, low,                          \* the words it has read
    started,                            \* mtime when its last attempt began
    old, deadline,                      \* deadline it replaces, and the new one
    retired                             \* what minstreth:minstret should hold

clint == <<mtime, mtimecmp>>
counters == <<cycle, instret, instret_suppress_next, retired>>
driver == <<at, high, low, started, old, deadline>>
vars == <<clint, counters, driver>>

Low == 0
High == 1
Words == 0 .. WordMod - 1
Word(reg, half) == (reg \div Weight[half * WordBytes]) % WordMod
WithWord(reg, half, val) ==
    reg + (val - Word(reg, half)) * Weight[half * WordBytes]

Init ==
    /\ mtime = 0 /\ mtimecmp = 0
    /\ cycle = 0 /\ instret = 0 /\ instret_suppress_next = 0
    /\ at = "idle" /\ high = 0 /\ low = 0 /\ started = 0
    /\ old = 0 /\ deadline = 0 /\ retired = 0

-----------------------------------------------------------------------------
(***************************************************************************)
(* The CLINT.  A word access by the bus is a loop over its bytes.          *)
(***************************************************************************)
clint_mtip_pending == mtimecmp # 0 /\ mtime >= mtimecmp

clint_read(reg, byte) == (reg \div Weight[byte]) % ByteMod

clint_store(reg, byte, val) ==
    reg + (val - clint_read(reg, byte)) * Weight[byte]

mem_read32(reg, half) ==
    LET upTo[i \in 0 .. WordBytes] ==
          IF i = 0 THEN 0
          ELSE upTo[i - 1]
               + clint_read(reg, half * WordBytes + i - 1) * Weight[i - 1]
    IN  upTo[WordBytes]

MutWriteOneByte(reg, half, val) ==
    clint_store(reg, half * WordBytes, val % ByteMod)

mem_write32(reg, half, val) ==
    LET upTo[i \in 0 .. WordBytes] ==
          IF i = 0 THEN reg
          ELSE clint_store(upTo[i - 1], half * WordBytes + i - 1,
                           clint_read(val, i - 1))
    IN  upTo[WordBytes]

-----------------------------------------------------------------------------
\* The suppression of a write left on for the instruction after it.
MutSuppressLeftSet(to, suppress) ==
    /\ instret_suppress_next' = suppress
    /\ instret' = IF suppress = 1 THEN to ELSE (to + 1) % RegMod

(***************************************************************************)
(* The end of an iteration of the run loop: clint_tick, cycle, and instret *)
(* unless the instruction wrote it.  `to` and `suppress` are instret and   *)
(* instret_suppress_next as the instruction left them.                     *)
(***************************************************************************)
Count(to, suppress) ==
    /\ instret_suppress_next' = 0
    /\ instret' = IF suppress = 1 THEN to ELSE (to + 1) % RegMod

Iteration ==
    /\ mtime < MaxTime
    /\ mtime' = (mtime + 1) % RegMod
    /\ cycle' = (cycle + 1) % RegMod

Retire ==
    /\ Iteration
    /\ Count(instret, instret_suppress_next)
    /\ retired' = (retired + 1) % RegMod

set_zicntr_minstret(half, val) == WithWord(instret, half, val)

\* csrrw to minstret or minstreth.  It sets instret_suppress_next, which the end
\* of its own iteration consumes; nothing looks at the flag in between.
WriteMinstret(half, val) ==
    /\ Iteration
    /\ Count(set_zicntr_minstret(half, val), 1)
    /\ retired' = WithWord(retired, half, val)
    /\ UNCHANGED <<mtimecmp, driver>>

MutTimeIsLow(half) == Word(mtime, Low)

get_zicntr_time(half) == Word(mtime, half)

\* The time CSRs, or the words of mtime on the bus.
TimeWord(half) == {get_zicntr_time(half), mem_read32(mtime, half)}

-----------------------------------------------------------------------------
(***************************************************************************)
(* The guest (external).                                                   *)
(***************************************************************************)
Other ==
    /\ Retire
    /\ UNCHANGED <<mtimecmp, driver>>

ReadHigh ==
    /\ at = "idle"
    /\ at' = "low" /\ high' \in TimeWord(High) /\ started' = mtime
    /\ Retire
    /\ UNCHANGED <<mtimecmp, low, old, deadline>>

ReadLow ==
    /\ at = "low"
    /\ at' = "again" /\ low' \in TimeWord(Low)
    /\ Retire
    /\ UNCHANGED <<mtimecmp, high, started, old, deadline>>

\* The high word again: a carry from low to high in between starts over.
ReadHighAgain ==
    /\ at = "again"
    /\ \E h \in TimeWord(High) :
          at' = IF h = high THEN "known" ELSE "idle"
    /\ Retire
    /\ UNCHANGED <<mtimecmp, high, low, started, old, deadline>>

Store(half, val) ==
    /\ mtimecmp' = mem_write32(mtimecmp, half, val)
    /\ Retire
    /\ UNCHANGED <<high, low, started>>

ParkLow ==
    /\ at = "known"
    /\ at' = "high" /\ old' = deadline
    /\ \E d \in Delays : deadline' = (high * WordMod + low + d) % RegMod
    /\ Store(Low, WordMod - 1)

SetHigh ==
    /\ at = "high"
    /\ at' = "setlow"
    /\ Store(High, Word(deadline, High))
    /\ UNCHANGED <<old, deadline>>

SetLow ==
    /\ at = "setlow"
    /\ at' = "idle"
    /\ Store(Low, Word(deadline, Low))
    /\ UNCHANGED <<old, deadline>>

Next ==
    \/ Other
    \/ \E half \in {Low, High}, val \in MinstretValues : WriteMinstret(half, val)
    \/ ReadHigh \/ ReadLow \/ ReadHighAgain
    \/ ParkLow \/ SetHigh \/ SetLow

Spec == Init /\ [][Next]_vars

-----------------------------------------------------------------------------
\* The high-low-high read never returns a time that mtime did not have during
\* the read, although mtime moves, and carries between its words, at every
\* instruction: get_zicntr_time_l and _h, and the bytes clint_read serves, are
\* all windows of the one counter.
TimeNotTorn ==
    at = "known" => high * WordMod + low \in started .. mtime

\* MIP.MTIP is exactly "a deadline is set and has passed", for the deadline the
\* driver meant to set.  While the driver replaces mtimecmp, in the order low :=
\* all ones, high, low, no interrupt is pending that neither the old nor the new
\* deadline accounts for, whatever the bytes clint_store has merged so far.
TimerExact ==
    LET due == deadline # 0 /\ mtime >= deadline
    IN  IF at \in {"high", "setlow"}
        THEN clint_mtip_pending => mtime >= old \/ due
        ELSE clint_mtip_pending <=> due

\* minstret is the value last written to its words plus the instructions
\* retired since: a write suppresses its own increment and no other, and the
\* carry between the words is not lost.
InstretExact == instret = retired
=============================================================================
