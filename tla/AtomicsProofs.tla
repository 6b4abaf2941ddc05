--------------------------- MODULE AtomicsProofs ----------------------------
(***************************************************************************)
(* Proof, for any number of words and values, every set of translations    *)
(* and every guest, that a reservation which outlives a word store to its  *)
(* word is of a word found at another address, and that no reservation is  *)
(* lost without a cause.  What escapes the first, a moved word and the     *)
(* second word of a doubleword, is what MCAtomicsPaged.cfg exhibits.       *)
(***************************************************************************)
EXTENDS Atomics, TLAPS

\* With the types, the property is inductive: a store takes the reservation
\* named as the word it writes, and makes stale the words whose target that is.
IInv == TypeOK /\ StaleOnlyIfMoved

\* The initial state is typed.
LEMMA TypeInit == Init => TypeOK
  <1> SUFFICES ASSUME Init PROVE TypeOK
    OBVIOUS
  <1>1. 0 \in Val
    BY AtomicsAssumption DEF Val
  <1> QED
    BY <1>1 DEF Init, TypeOK

\* A translated word is a word of memory.
LEMMA PhysicalWord ==
    ASSUME TypeOK, NEW va \in Word, Readable(va)
    PROVE  Physical(va) \in Word
  <1>1. table[va] \in Page
    BY AtomicsAssumption DEF TypeOK, Readable
  <1> QED
    BY <1>1 DEF Physical, Page

\* Every AMO wraps its result to a word.
LEMMA AmoResultsTyped ==
    ASSUME NEW old \in Val, NEW val \in Val
    PROVE  AmoResults(old, val) \subseteq Val
  BY AtomicsAssumption DEF AmoResults, Val

\* A word store keeps memory, reservations and stale words typed.
LEMMA Write32Typed ==
    ASSUME TypeOK, NEW pa \in Word, NEW val \in Val, mem_write32(pa, val)
    PROVE  /\ mem' \in [Word -> Val] /\ mmu_flags' \in SUBSET Word
           /\ stale' \in SUBSET Word /\ passed' \in SUBSET Word
  BY DEF TypeOK, mem_write32, mem_clear_reservation

\* Every instruction keeps the state typed.
LEMMA TypeNext ==
    ASSUME TypeOK, [Next]_vars
    PROVE  TypeOK'
  <1>1. ASSUME NEW va \in Word, insa_r_lr_w(va) PROVE TypeOK'
    <2>1. Readable(va) => Physical(va) \in Word
      BY PhysicalWord
    <2> QED
      BY <1>1, <2>1 DEF TypeOK, insa_r_lr_w
  <1>2. ASSUME NEW va \in Word, NEW val \in Val, insa_r_sc_w(va, val)
        PROVE  TypeOK'
    <2>1. Writable(va) => Physical(va) \in Word
      BY PhysicalWord DEF Writable, Readable
    <2> QED
      BY <1>2, <2>1 DEF TypeOK, insa_r_sc_w, mem_clear_reservation, PageFault
  <1>3. ASSUME NEW va \in Word, NEW val \in Val, insa_r_amo(va, val)
        PROVE  TypeOK'
    <2>1. (Readable(va) \/ Writable(va)) =>
             Physical(va) \in Word /\ mem[Physical(va)] \in Val
      BY PhysicalWord DEF Writable, Readable, TypeOK
    <2>2. table' = table /\ target' = target
      BY <1>3 DEF insa_r_amo
    <2>3. CASE Writable(va) /\ trapped' = 0 /\ rd' = mem[Physical(va)]
               /\ \E new \in AmoResults(mem[Physical(va)], val) :
                     mem_write32(Physical(va), new)
      <3>1. PICK new \in AmoResults(mem[Physical(va)], val) :
                     mem_write32(Physical(va), new)
        BY <2>3
      <3>2. new \in Val
        BY <2>1, <2>3, <3>1, AmoResultsTyped
      <3> QED
        BY <2>1, <2>2, <2>3, <3>1, <3>2, Write32Typed DEF TypeOK
    <2>4. CASE Readable(va) /\ trapped' = 1 /\ rd' = mem[Physical(va)] /\ PageFault
      BY <2>1, <2>2, <2>4 DEF TypeOK, PageFault
    <2>5. CASE trapped' = 1 /\ rd' = 0 /\ PageFault
      BY <2>2, <2>5 DEF TypeOK, PageFault
    <2>6. CASE /\ trapped' = 1 /\ rd' = 0
               /\ \E new \in AmoResults(0, val) : mem' = [mem EXCEPT ![va] = new]
               /\ mmu_flags' = {}
               /\ stale' = stale \union {v \in Word : target[v] = va}
               /\ passed' = passed
      <3>1. 0 \in Val
        BY AtomicsAssumption DEF Val
      <3>2. PICK new \in AmoResults(0, val) : mem' = [mem EXCEPT ![va] = new]
        BY <2>6
      <3>3. new \in Val
        BY <3>1, <3>2, AmoResultsTyped
      <3> QED
        BY <2>2, <2>6, <3>2, <3>3 DEF TypeOK
    <2> QED
      BY <1>3, <2>3, <2>4, <2>5, <2>6 DEF insa_r_amo
  <1>4. ASSUME NEW va \in Word, NEW val \in Val, Store(va, val)
        PROVE  TypeOK'
    <2>1. Writable(va) => Physical(va) \in Word
      BY PhysicalWord DEF Writable, Readable
    <2>2. CASE Writable(va)
      BY <1>4, <2>1, <2>2, Write32Typed DEF TypeOK, Store
    <2>3. CASE ~Writable(va)
      BY <1>4, <2>3 DEF TypeOK, Store, PageFault
    <2> QED
      BY <2>2, <2>3
  <1>5. ASSUME NEW va \in Word, NEW val \in Val, StoreDouble(va, val)
        PROVE  TypeOK'
    <2>1. CASE Writable(va)
      <3>1. /\ mem' = [mem EXCEPT ![Physical(va)] = val, ![Physical(va) + 1] = val]
            /\ mmu_flags' \subseteq mmu_flags
            /\ stale' \subseteq stale \union Word
            /\ passed' \subseteq passed \union Word
        BY <1>5, <2>1 DEF StoreDouble, mem_write64, mem_clear_reservation
      <3> QED
        BY <1>5, <2>1, <3>1 DEF TypeOK, StoreDouble
    <2>2. CASE ~Writable(va)
      BY <1>5, <2>2 DEF TypeOK, StoreDouble, PageFault
    <2> QED
      BY <2>1, <2>2
  <1>6. CASE Trap
    BY <1>6 DEF TypeOK, Trap
  <1>7. CASE UNCHANGED vars
    BY <1>7 DEF TypeOK, vars
  <1>8. Locks \subseteq Word /\ Doubles \subseteq Word
    BY AtomicsAssumption
  <1> QED
    BY <1>1, <1>2, <1>3, <1>4, <1>5, <1>6, <1>7, <1>8 DEF Next

(***************************************************************************)
(* Memory words keep their width through every AMO and store, and every    *)
(* reservation names a word of memory, for every memory, translation and   *)
(* guest.                                                                  *)
(***************************************************************************)
THEOREM AtomicsTyped == Spec => []TypeOK
  <1>1. TypeOK /\ [Next]_vars => TypeOK'
    BY TypeNext
  <1> QED
    BY TypeInit, <1>1, PTL DEF Spec

\* A word store takes the reservation of the word it writes; what it makes stale
\* and leaves reserved was found there by another name.
LEMMA Write32NotStale ==
    ASSUME IInv, NEW pa, NEW val, mem_write32(pa, val), target' = target
    PROVE  StaleOnlyIfMoved'
  BY DEF IInv, TypeOK, StaleOnlyIfMoved, mem_write32, mem_clear_reservation

\* Without reservations there is nothing to show.
LEMMA ClearedNotStale ==
    ASSUME mmu_flags' = {}
    PROVE  StaleOnlyIfMoved'
  BY DEF StaleOnlyIfMoved

\* Every instruction keeps the inductive invariant.
LEMMA NextIInv ==
    ASSUME IInv, [Next]_vars
    PROVE  IInv'
  <1>t. TypeOK /\ TypeOK'
    BY TypeNext DEF IInv
  <1>1. ASSUME NEW va \in Locks, insa_r_lr_w(va) PROVE StaleOnlyIfMoved'
    BY <1>1, <1>t DEF IInv, TypeOK, StaleOnlyIfMoved, insa_r_lr_w
  <1>2. ASSUME NEW va \in Word, NEW val \in Val, insa_r_sc_w(va, val)
        PROVE  StaleOnlyIfMoved'
    BY <1>2 DEF IInv, TypeOK, StaleOnlyIfMoved, insa_r_sc_w,
                mem_clear_reservation, PageFault
  <1>3. ASSUME NEW va \in Word, NEW val \in Val, insa_r_amo(va, val)
        PROVE  StaleOnlyIfMoved'
    <2>1. target' = target
      BY <1>3 DEF insa_r_amo
    <2>2. CASE \E new : mem_write32(Physical(va), new)
      BY <2>1, <2>2, Write32NotStale
    <2>3. CASE mmu_flags' = {}
      BY <2>3, ClearedNotStale
    <2> QED
      BY <1>3, <2>2, <2>3 DEF insa_r_amo, PageFault
  <1>4. ASSUME NEW va \in Word, NEW val \in Val, Store(va, val)
        PROVE  StaleOnlyIfMoved'
    <2>1. target' = target
      BY <1>4 DEF Store
    <2>2. CASE mem_write32(Physical(va), val)
      BY <2>1, <2>2, Write32NotStale
    <2>3. CASE mmu_flags' = {}
      BY <2>3, ClearedNotStale
    <2> QED
      BY <1>4, <2>2, <2>3 DEF Store, PageFault
  <1>5. ASSUME NEW va \in Doubles, NEW val \in Val, StoreDouble(va, val)
        PROVE  StaleOnlyIfMoved'
    <2>1. CASE Writable(va)
      BY <1>5, <2>1 DEF IInv, TypeOK, StaleOnlyIfMoved, StoreDouble, mem_write64,
                        mem_clear_reservation
    <2>2. CASE ~Writable(va)
      BY <1>5, <2>2, ClearedNotStale DEF StoreDouble, PageFault
    <2> QED
      BY <2>1, <2>2
  <1>6. ASSUME Trap PROVE StaleOnlyIfMoved'
    BY <1>6, ClearedNotStale DEF Trap
  <1>7. ASSUME UNCHANGED vars PROVE StaleOnlyIfMoved'
    BY <1>7 DEF IInv, StaleOnlyIfMoved, vars
  <1>8. StaleOnlyIfMoved'
    BY <1>1, <1>2, <1>3, <1>4, <1>5, <1>6, <1>7 DEF Next
  <1> QED
    BY <1>t, <1>8 DEF IInv

(***************************************************************************)
(* mem.h:31, "a stale SC.W can never succeed", as far as the code goes:    *)
(* under every translation, a reservation held for a word written since    *)
(* its LR.W, by whatever alias, is of a word found at another address.     *)
(***************************************************************************)
THEOREM AtomicsStaleOnlyIfMoved == Spec => []StaleOnlyIfMoved
  <1>1. Init => IInv
    BY TypeInit DEF Init, IInv, StaleOnlyIfMoved
  <1>2. IInv /\ [Next]_vars => IInv'
    BY NextIInv
  <1>3. IInv => StaleOnlyIfMoved
    BY DEF IInv
  <1> QED
    BY <1>1, <1>2, <1>3, PTL DEF Spec

-----------------------------------------------------------------------------
\* A step that takes a reservation traps, has written the reserved word, or takes
\* that of a moved word.
LEMMA LostForCause ==
    ASSUME TypeOK, [Next]_vars, NEW w \in mmu_flags, w \notin mmu_flags'
    PROVE  trapped' = 1 \/ w \in stale' \/ target[w] # w
  <1> DEFINE Cause == trapped' = 1 \/ w \in stale' \/ target[w] # w
  <1>w. w \in Word
    BY DEF TypeOK
  <1>1. ASSUME NEW pa, NEW val, mem_write32(pa, val) \/ mem_write64(pa, val)
        PROVE  Cause
    BY <1>1, <1>w DEF mem_write32, mem_write64, mem_clear_reservation
  <1>2. ASSUME NEW va \in Locks, insa_r_lr_w(va) PROVE Cause
    BY <1>2 DEF insa_r_lr_w
  <1>3. ASSUME NEW va \in Word, NEW val \in Val, insa_r_sc_w(va, val)
        PROVE  Cause
    BY <1>3, <1>w DEF insa_r_sc_w, mem_clear_reservation
  <1>4. ASSUME NEW va \in Word, NEW val \in Val, insa_r_amo(va, val)
        PROVE  Cause
    BY <1>4, <1>1 DEF insa_r_amo
  <1>5. ASSUME NEW va, NEW val, Store(va, val) \/ StoreDouble(va, val)
        PROVE  Cause
    BY <1>5, <1>1 DEF Store, StoreDouble
  <1>6. CASE Trap
    BY <1>6 DEF Trap
  <1>7. CASE UNCHANGED vars
    BY <1>7 DEF vars
  <1> QED
    BY <1>2, <1>3, <1>4, <1>5, <1>6, <1>7 DEF Next

(***************************************************************************)
(* An LR/SC pair on a word found in its own place is broken only by a trap *)
(* or by a write to that word, whatever the guest stores elsewhere, its    *)
(* FSDs included.                                                          *)
(***************************************************************************)
THEOREM AtomicsLostForCause == Spec => ReservationLostForCause
  <1>1. TypeOK /\ [Next]_vars => TypeOK'
    BY TypeNext
  <1>2. TypeOK /\ [Next]_vars =>
           [\A va \in mmu_flags \ mmu_flags' :
               trapped' = 1 \/ va \in stale' \/ target[va] # va]_vars
    BY LostForCause
  <1> QED
    BY TypeInit, <1>1, <1>2, PTL DEF Spec, ReservationLostForCause
=============================================================================
