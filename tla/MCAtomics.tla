----------------------------- MODULE MCAtomics ------------------------------
(***************************************************************************)
(* Models of Atomics for TLC: four words, two values.                      *)
(***************************************************************************)
EXTENDS Atomics

\* Bare mode; an identity map with a page missing and a read-only page; a map
\* that moves every word.
Identity == [va \in Word |-> <<va, "rw">>]
Hole == [va \in Word |-> CASE va = 2 -> <<va, "r">> [] va = 1 -> NoPage
                         [] OTHER -> <<va, "rw">>]
Shifted == [va \in Word |-> <<(va + 2) % NWord, "rw">>]

AllTables == {Identity, Hole, Shifted}
JustShifted == {Shifted}
JustIdentity == {Identity}

AllWords == Word
DoubleAt2 == {2}
BothModes == {"M", "S"}
=============================================================================
