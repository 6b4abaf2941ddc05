------------------------------ MODULE Atomics -------------------------------
(***************************************************************************)
(* LR.W, SC.W and the AMOs (src/include/extension/a_extension.h) with the  *)
(* stores that must break a reservation (src/include/mem.h) and the        *)
(* translation between them (src/include/mmu.h).  LR reserves the virtual  *)
(* word it names; a store, once translated, clears the reservation of the  *)
(* physical word it writes.  A trap clears all reservations.               *)
(*                                                                         *)
(* Addresses are word numbers; the words 2k and 2k+1 form the doubleword   *)
(* that FSD writes.  A misaligned LR, SC or AMO ends the emulator (fatal)  *)
(* and is left out.  A page table gives a virtual word its physical word   *)
(* and whether it may be written, or NoPage; the writable identity is bare *)
(* mode.                                                                   *)
(*                                                                         *)
(* `target`, `stale` and `passed` are history: the physical word each      *)
(* virtual word stood for at its last LR, and the virtual words whose      *)
(* target has been written since, as a word of its own or the first of a   *)
(* doubleword (stale) or as the second of one (passed).                    *)
(***************************************************************************)
EXTENDS Integers

CONSTANTS
    NWord,          \* words of memory
    ValMod,         \* 2^32
    PageTables,     \* the translations satp can select
    Locks,          \* the words the guest uses LR.W on
    Doubles,        \* the words at which its FSDs begin
    FaultModes,     \* where a page fault can be taken: "M", "S" (medeleg)
    NoPage

Word == 0 .. NWord - 1
Val == 0 .. ValMod - 1
Page == Word \X {"r", "rw"}

ASSUME AtomicsAssumption ==
    /\ NWord \in Nat \ {0} /\ ValMod \in Nat \ {0}
    /\ NoPage \notin Word
    /\ PageTables \subseteq [Word -> Page \union {NoPage}]
    /\ Locks \subseteq Word
    /\ Doubles \subseteq {va \in Word : va % 2 = 0 /\ va + 1 \in Word}
    /\ FaultModes \subseteq {"M", "S"}

VARIABLES
    mem,            \* main_memory
    mmu_flags,      \* the keys of the reservation map
    table,          \* the translation satp selects
    rd,             \* the last value an instruction wrote to its rd
    trapped,        \* 1 when the last instruction trapped
    target, stale, passed

vars == <<mem, mmu_flags, table, rd, trapped, target, stale, passed>>

Init ==
    /\ mem = [pa \in Word |-> 0]
    /\ mmu_flags = {}
    /\ table \in PageTables
    /\ rd = 0 /\ trapped = 0
    /\ target = [va \in Word |-> va] /\ stale = {} /\ passed = {}

-----------------------------------------------------------------------------
\* mmu_translate, for a load and for a store.
Readable(va) == table[va] # NoPage
Writable(va) == table[va] # NoPage /\ table[va][2] = "rw"
Physical(va) == table[va][1]

\* Physical stores.

MutClearNothing(flags, pa) == flags

\* The reservation set taken for a doubleword.
MutClearNeighbour(flags, pa) == flags \ {pa, pa + 1, pa - 1}

\* mem_clear_reservation, on the physical address.
mem_clear_reservation(flags, pa) == flags \ {pa}

\* mem_write32 and the narrower stores.
mem_write32(pa, val) ==
    /\ mem' = [mem EXCEPT ![pa] = val]
    /\ mmu_flags' = mem_clear_reservation(mmu_flags, pa)
    /\ stale' = stale \union {va \in Word : target[va] = pa}
    /\ UNCHANGED passed

\* mem_write64 clears the reservation of its first word only.
mem_write64(pa, val) ==
    /\ mem' = [mem EXCEPT ![pa] = val, ![pa + 1] = val]
    /\ mmu_flags' = mem_clear_reservation(mmu_flags, pa)
    /\ stale' = stale \union {va \in Word : target[va] = pa}
    /\ passed' = passed \union {va \in Word : target[va] = pa + 1}

\* A page fault: raise_exception clears every reservation before it traps.
PageFault == mmu_flags' = {} /\ UNCHANGED <<mem, stale, passed>>

-----------------------------------------------------------------------------
\* The instructions.  A fault does not stop one: it goes on with the value 0.

insa_r_lr_w(va) ==
    /\ IF Readable(va)
       THEN /\ trapped' = 0 /\ rd' = mem[Physical(va)]
            /\ mmu_flags' = mmu_flags \union {va}
            /\ target' = [target EXCEPT ![va] = Physical(va)]
       ELSE /\ trapped' = 1 /\ rd' = 0
            /\ mmu_flags' = {va}
            /\ UNCHANGED target
    /\ stale' = stale \ {va} /\ passed' = passed \ {va}
    /\ UNCHANGED <<mem, table>>

insa_r_sc_w(va, val) ==
    /\ IF va \notin mmu_flags
       THEN rd' = 1 /\ trapped' = 0 /\ UNCHANGED <<mem, mmu_flags, stale, passed>>
       ELSE /\ rd' = 0
            /\ IF Writable(va)
               THEN LET pa == Physical(va)
                    IN  /\ trapped' = 0
                        /\ mem' = [mem EXCEPT ![pa] = val]
                        /\ mmu_flags' = mem_clear_reservation(mmu_flags, pa) \ {va}
                        /\ stale' = stale \union {va} \union {v \in Word : target[v] = pa}
                        /\ UNCHANGED passed
               ELSE trapped' = 1 /\ PageFault
    /\ UNCHANGED <<table, target>>

\* What an AMO can store: AMOSWAP, AMOAND, AMOOR, AMOXOR and the four AMOMIN and
\* AMOMAX stay within the word by their nature, AMOADD because it wraps.
AmoResults(old, val) == {val, (old + val) % ValMod}

\* The store of an AMO whose load faulted runs in the mode the fault trapped
\* to: untranslated in M, while in S it faults again.
insa_r_amo(va, val) ==
    /\ \/ /\ Writable(va) /\ trapped' = 0
          /\ rd' = mem[Physical(va)]
          /\ \E new \in AmoResults(mem[Physical(va)], val) :
                mem_write32(Physical(va), new)
       \/ /\ Readable(va) /\ ~Writable(va) /\ trapped' = 1
          /\ rd' = mem[Physical(va)]
          /\ PageFault
       \/ /\ ~Readable(va) /\ "S" \in FaultModes /\ trapped' = 1
          /\ rd' = 0
          /\ PageFault
       \/ /\ ~Readable(va) /\ "M" \in FaultModes /\ trapped' = 1
          /\ rd' = 0
          /\ \E new \in AmoResults(0, val) : mem' = [mem EXCEPT ![va] = new]
          /\ mmu_flags' = {}
          /\ stale' = stale \union {v \in Word : target[v] = va}
          /\ UNCHANGED passed
    /\ UNCHANGED <<table, target>>

\* SW, SH, SB, FSW.
Store(va, val) ==
    /\ IF Writable(va) THEN trapped' = 0 /\ mem_write32(Physical(va), val)
       ELSE trapped' = 1 /\ PageFault
    /\ UNCHANGED <<table, target, rd>>

\* FSD.
StoreDouble(va, val) ==
    /\ IF Writable(va) THEN trapped' = 0 /\ mem_write64(Physical(va), val)
       ELSE trapped' = 1 /\ PageFault
    /\ UNCHANGED <<table, target, rd>>

\* Any other trap, on which the kernel may also switch the address space.
Trap ==
    /\ trapped' = 1 /\ mmu_flags' = {}
    /\ table' \in PageTables
    /\ UNCHANGED <<mem, rd, target, stale, passed>>

Next ==
    \/ \E va \in Locks : insa_r_lr_w(va)
    \/ \E va \in Word, val \in Val :
          \/ insa_r_sc_w(va, val)
          \/ insa_r_amo(va, val)
          \/ Store(va, val)
    \/ \E va \in Doubles, val \in Val : StoreDouble(va, val)
    \/ Trap

Spec == Init /\ [][Next]_vars

-----------------------------------------------------------------------------
\* Memory words keep their width through every AMO, and reservations are held on
\* words of memory.
TypeOK ==
    /\ mem \in [Word -> Val]
    /\ mmu_flags \in SUBSET Word
    /\ table \in PageTables
    /\ rd \in Val \union {0, 1} /\ trapped \in {0, 1}
    /\ target \in [Word -> Word] /\ stale \in SUBSET Word /\ passed \in SUBSET Word

(***************************************************************************)
(* A reservation is kept under the virtual name of its word and looked up  *)
(* under the physical one of a store.  So, under every translation, a      *)
(* reservation that outlives a write of its word is of a word its LR.W     *)
(* found at another address: whoever writes (a store, an AMO, another SC,  *)
(* a handler) and through whatever alias, the reservation of a word found  *)
(* in its own place goes.  (The second word of a doubleword is apart, see  *)
(* NoStaleReservation.)                                                    *)
(***************************************************************************)
StaleOnlyIfMoved == \A va \in mmu_flags \intersect stale : target[va] # va

(***************************************************************************)
(* A reservation is lost only for a reason: a trap or a write to its own   *)
(* word.  Otherwise an LR/SC loop could fail for ever next to unrelated    *)
(* stores.  This too is for a word found in its own place; that of a moved *)
(* word also goes with a store to the physical word of its virtual number. *)
(***************************************************************************)
ReservationLostForCause ==
    [][\A va \in mmu_flags \ mmu_flags' :
          trapped' = 1 \/ va \in stale' \/ target[va] # va]_vars

(***************************************************************************)
(* mem.h:31, "so a stale SC.W can never succeed after another access       *)
(* modified the reserved word": no reservation at all is held for a word   *)
(* written since its LR.W.                                                 *)
(***************************************************************************)
NoStaleReservation == mmu_flags \intersect (stale \union passed) = {}
=============================================================================
