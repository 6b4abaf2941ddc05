------------------------------ MODULE ByteFifo ------------------------------
(***************************************************************************)
(* What the receive side of the UART promises its guest: a bounded queue   *)
(* of bytes in arrival order, a byte that finds it full being dropped, and *)
(* reads that take the oldest byte, or 0 when there is none.               *)
(***************************************************************************)
EXTENDS Naturals, Sequences

CONSTANTS Capacity, Byte

VARIABLES
    queue,      \* bytes received and not yet read, oldest first
    out         \* the byte the last read returned

fifoVars == <<queue, out>>

FifoInit == queue = <<>> /\ out = 0

Put(c) ==
    /\ Len(queue) < Capacity
    /\ queue' = Append(queue, c)
    /\ UNCHANGED out

Get ==
    IF queue = <<>>
    THEN out' = 0 /\ UNCHANGED queue
    ELSE out' = Head(queue) /\ queue' = Tail(queue)

\* With the divisor latch selected the data register reads as 0.
GetUnmapped == out' = 0 /\ UNCHANGED queue

FifoNext == (\E c \in Byte : Put(c)) \/ Get \/ GetUnmapped

FifoSpec == FifoInit /\ [][FifoNext]_fifoVars
=============================================================================
