---------------------------- MODULE SpinDetector ----------------------------
(***************************************************************************)
(* The end of each iteration of the run loop (src/src/emu.c): the detector *)
(* that concludes the riscv-tests harness, which reports a result by       *)
(* spinning in write_tohost for ever.  A trap into M arms it; from then on *)
(* it counts consecutive fetches of a pc that is in a ring of the last     *)
(* fetches, and ends the emulation at SpinLimit of them.                   *)
(*                                                                         *)
(* The guest is external: it runs freely over Pcs, takes traps into M, or  *)
(* enters a loop over the addresses 1 .. body, either for a number of      *)
(* instructions or for ever (the write_tohost loop).  A loop takes no      *)
(* trap.                                                                   *)
(***************************************************************************)
EXTENDS Integers, Sequences, FiniteSetsExt

CONSTANTS
    WindowSize,     \* 8, the entries of loop_window
    SpinLimit,      \* 64
    NPc,            \* addresses 1 .. NPc, and the longest loop
    MaxLoop         \* the most instructions of a loop that ends

ASSUME SpinAssumption ==
    {WindowSize, SpinLimit, NPc, MaxLoop} \subseteq Nat \ {0}

VARIABLES
    loop_window, loop_window_pos, spin_count, spin_armed,
    spin_detect_active,     \* 0 in FDT (OS boot) mode
    terminated,
    pc, body, left,         \* the guest; body = 0 outside a loop
    inside,                 \* instructions of the current loop executed so far
    trace                   \* fetches since the detector was armed, last first

detector == <<loop_window, loop_window_pos, spin_count, spin_armed, terminated>>
spinVars == <<detector, spin_detect_active, pc, body, left, inside, trace>>

\* No harness program is at address 0, the mark of an unused entry of the ring.
Pcs == 1 .. NPc
Forever == -1
Zeros == [i \in 0 .. WindowSize - 1 |-> 0]
Remembered == WindowSize + SpinLimit
NoTrace == [i \in 1 .. Remembered |-> 0]

SpinInit ==
    /\ loop_window = Zeros /\ loop_window_pos = 0
    /\ spin_count = 0 /\ spin_armed = 0 /\ terminated = 0
    /\ spin_detect_active \in {0, 1}
    /\ pc \in Pcs /\ body = 0 /\ left = 0 /\ inside = 0
    /\ trace = NoTrace

-----------------------------------------------------------------------------
Seen(window) == \E i \in 0 .. WindowSize - 1 : window[i] = pc

MutCountWindowStuck(window, pos, count) ==
    LET n == IF Seen(window) THEN count + 1 ELSE 0
    IN  /\ spin_count' = n
        /\ loop_window' = [window EXCEPT ![pos] = pc]
        /\ loop_window_pos' = pos
        /\ terminated' = IF n >= SpinLimit THEN 1 ELSE 0

MutCountKeepsCounting(window, pos, count) ==
    LET n == IF Seen(window) THEN count + 1 ELSE count
    IN  /\ spin_count' = n
        /\ loop_window' = [window EXCEPT ![pos] = pc]
        /\ loop_window_pos' = (pos + 1) % WindowSize
        /\ terminated' = IF n >= SpinLimit THEN 1 ELSE 0

\* One fetch seen by an armed detector.
Count(window, pos, count) ==
    LET n == IF Seen(window) THEN count + 1 ELSE 0
    IN  /\ spin_count' = n
        /\ loop_window' = [window EXCEPT ![pos] = pc]
        /\ loop_window_pos' = (pos + 1) % WindowSize
        /\ terminated' = IF n >= SpinLimit THEN 1 ELSE 0

Shift(t) == [i \in 1 .. Remembered |-> IF i = 1 THEN pc ELSE t[i - 1]]

\* The detector after an instruction that did (just_trapped = 1) or did not trap
\* into M: a trap re-arms it and empties the window.
Detect(just_trapped) ==
    IF spin_detect_active = 0 THEN UNCHANGED <<detector, trace>>
    ELSE IF just_trapped = 1
    THEN spin_armed' = 1 /\ Count(Zeros, 0, 0) /\ trace' = Shift(NoTrace)
    ELSE IF spin_armed = 1
    THEN UNCHANGED spin_armed /\ Count(loop_window, loop_window_pos, spin_count)
         /\ trace' = Shift(trace)
    ELSE UNCHANGED <<detector, trace>>

-----------------------------------------------------------------------------
\* Iterations of the run loop.

Running == terminated = 0 /\ UNCHANGED spin_detect_active

FreeInstruction ==
    /\ Running /\ body = 0
    /\ \E next \in Pcs \ {pc} : pc' = next
    /\ UNCHANGED <<body, left, inside>>
    /\ Detect(0)

TrapToMachine ==
    /\ Running /\ body = 0
    /\ \E handler \in Pcs : pc' = handler
    /\ UNCHANGED <<body, left, inside>>
    /\ Detect(1)

\* A jump to the head of a loop.
EnterLoop ==
    /\ Running /\ body = 0 /\ pc # 1
    /\ pc' = 1
    /\ \E k \in Pcs, n \in (1 .. MaxLoop) \union {Forever} :
          body' = k /\ left' = n
    /\ inside' = 0
    /\ Detect(0)

LoopInstruction ==
    /\ Running /\ body > 0
    /\ pc' = IF pc = body THEN 1 ELSE pc + 1
    /\ left' = IF left = Forever THEN left ELSE left - 1
    /\ body' = IF left' = 0 THEN 0 ELSE body
    /\ inside' = IF inside < SpinLimit THEN inside + 1 ELSE inside
    /\ Detect(0)

SpinNext == FreeInstruction \/ TrapToMachine \/ EnterLoop \/ LoopInstruction

\* The run loop never waits.
SpinSpec == SpinInit /\ [][SpinNext]_spinVars /\ WF_spinVars(SpinNext)

-----------------------------------------------------------------------------
\* Fetch i of the trace repeats one of the WindowSize fetches before it.
Repeats(i) ==
    trace[i] # 0 /\ \E j \in i + 1 .. i + WindowSize : trace[j] = trace[i]

(***************************************************************************)
(* The ring and the counter compute what they are for: spin_count is the   *)
(* number of latest fetches since the detector was armed that each repeat  *)
(* one of the eight fetches before them, and the emulation ends exactly at *)
(* the limit.                                                              *)
(***************************************************************************)
CountsRepeatedFetches ==
    spin_armed = 1 =>
        /\ spin_count = Max({n \in 0 .. SpinLimit : \A i \in 1 .. n : Repeats(i)})
        /\ terminated = 1 <=> spin_count = SpinLimit

(***************************************************************************)
(* A harness that has trapped and then spins in a loop of at most eight    *)
(* instructions is concluded, wherever the ring stands when the loop is    *)
(* entered.                                                                *)
(***************************************************************************)
SpinConcluded ==
    (/\ spin_detect_active = 1 /\ spin_armed = 1
     /\ left = Forever /\ body <= WindowSize) ~> (terminated = 1)

=============================================================================
