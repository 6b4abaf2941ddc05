--------------------------- MODULE HashMapProofs ----------------------------
(***************************************************************************)
(* Proofs about HashMap, for every set of keys, every hash function, every *)
(* initial capacity of at least four and every length of a history.        *)
(*                                                                         *)
(* Both theorems assume that calloc does not fail.  When it does, rehash   *)
(* keeps the full table (src/src/hashmap_u32.c:98-104) and the counters can *)
(* reach the capacity, after which neither statement holds.                *)
(*                                                                         *)
(* The argument for ProbeEnds is a count: the occupied slots are at most   *)
(* size + tombstone_count, which stays below the capacity, so some slot is *)
(* free, and a probe visits every slot.  The argument for the refinement   *)
(* adds what makes lookups right: a key is live in one slot only, no slot  *)
(* on its probe path before it is free, and what a rehash has still to     *)
(* move is not in the new table.                                           *)
(***************************************************************************)
EXTENDS HashMap, FiniteSetTheorems, WellFoundedInduction, TLAPS

\* The least-number principle, in the form in which Least uses it.
LEMMA LeastNat ==
    ASSUME NEW T \in SUBSET Nat, T # {}
    PROVE  Least(T) \in T /\ \A n \in T : Least(T) <= n
  <1>1. PICK m \in T : \A n \in T : ~(<<n, m>> \in OpToRel(<, Nat))
    BY NatLessThanWellFounded, WFMin
  <1>2. \A n \in T : n \in Nat /\ m \in Nat
    OBVIOUS
  <1>3. \A n \in T : ~(n < m)
    BY <1>1, <1>2 DEF OpToRel
  <1>4. \E i \in T : \A j \in T : i <= j
    BY <1>2, <1>3
  <1> QED
    BY <1>4 DEF Least

\* Two facts of modular arithmetic, which SlotAt rests on.
LEMMA ModRange ==
    ASSUME NEW a \in Nat, NEW b \in Nat \ {0}
    PROVE  a % b \in 0 .. b - 1
  OBVIOUS

\* The remainder of a number below twice the modulus.
LEMMA ModWindow ==
    ASSUME NEW a \in Nat, NEW b \in Nat \ {0}, a < 2 * b
    PROVE  a % b = IF a < b THEN a ELSE a - b
  OBVIOUS

\* What a slot may hold; a free slot holds zeroes.
EntryType == [occupied : BOOLEAN, deleted : BOOLEAN,
              key : Keys \union {0}, value : Values \union {0}]

\* The type invariant.
TypeOK ==
    /\ capacity \in Nat /\ capacity >= 4
    /\ entries \in [Slots(capacity) -> EntryType]
    /\ size \in Int /\ tombstone_count \in Int
    /\ old_capacity \in Nat /\ moved \in 0 .. old_capacity
    /\ old_entries \in [Slots(old_capacity) -> EntryType]
    /\ putting \in (Keys \X Values) \union {NoPut}

\* A tombstone is an occupied slot, and an occupied slot holds a key and a value
Kept(es, n) ==
    \A s \in Slots(n) :
        /\ es[s].deleted => es[s].occupied
        /\ es[s].occupied => es[s].key \in Keys /\ es[s].value \in Values

\* The slots that end no probe by being free.
Occupied == {s \in Slots(capacity) : entries[s].occupied}

\* The counters account for every occupied slot.
Counted == Cardinality(Occupied) <= size + tombstone_count

\* The counters stay below the capacity; during a rehash they count what was moved.
Roomy ==
    IF Idle THEN size + tombstone_count < capacity /\ old_capacity = 0
    ELSE /\ size + tombstone_count <= moved
         /\ old_capacity >= 4 /\ capacity >= 2 * old_capacity

\* The counting invariant.
CInv ==
    /\ TypeOK
    /\ Kept(entries, capacity) /\ Kept(old_entries, old_capacity)
    /\ Counted
    /\ Roomy

\* probe looks at slots of the table only ...
LEMMA SlotAtRange ==
    ASSUME TypeOK, NEW k \in Keys, NEW i \in Slots(capacity)
    PROVE  SlotAt(k, i) \in Slots(capacity)
  <1> DEFINE h == Hash[k] % capacity
             a == h + i
  <1>1. Hash[k] \in Nat /\ capacity \in Nat \ {0}
    BY HashMapAssumption DEF TypeOK
  <1>2. h \in 0 .. capacity - 1
    BY <1>1, ModRange
  <1> HIDE DEF h
  <1>3. a \in Nat
    BY <1>1, <1>2 DEF Slots
  <1> HIDE DEF a
  <1>4. a % capacity \in 0 .. capacity - 1
    BY <1>1, <1>3, ModRange
  <1> QED
    BY <1>4 DEF SlotAt, Slots, a, h

\* ... and, in capacity iterations, at all of them.
LEMMA SlotAtOnto ==
    ASSUME TypeOK, NEW k \in Keys, NEW s \in Slots(capacity)
    PROVE  \E i \in Slots(capacity) : SlotAt(k, i) = s
  <1> DEFINE h == Hash[k] % capacity
             i == IF s >= h THEN s - h ELSE s + capacity - h
             a == h + i
  <1>1. Hash[k] \in Nat /\ capacity \in Nat \ {0}
    BY HashMapAssumption DEF TypeOK
  <1>2. h \in 0 .. capacity - 1
    BY <1>1, ModRange
  <1> HIDE DEF h
  <1>3. i \in Slots(capacity)
    BY <1>1, <1>2 DEF Slots
  <1>4. a \in Nat /\ a < 2 * capacity /\ a = (IF s >= h THEN s ELSE s + capacity)
    BY <1>1, <1>2 DEF Slots
  <1> HIDE DEF a
  <1>5. a % capacity = IF a < capacity THEN a ELSE a - capacity
    BY <1>1, <1>4, ModWindow
  <1>6. a % capacity = s
    BY <1>1, <1>2, <1>4, <1>5 DEF Slots
  <1>7. SlotAt(k, i) = s
    BY <1>6 DEF SlotAt, a, h
  <1> QED
    BY <1>3, <1>7

\* A table has as many slots as its capacity.
LEMMA FiniteSlots ==
    ASSUME NEW n \in Nat
    PROVE  IsFiniteSet(Slots(n)) /\ Cardinality(Slots(n)) = n
  <1>1. 0 \in Int /\ n - 1 \in Int
    OBVIOUS
  <1>2. IsFiniteSet(0 .. n - 1)
    BY <1>1, FS_Interval
  <1>3. Cardinality(0 .. n - 1) = IF 0 > n - 1 THEN 0 ELSE (n - 1) - 0 + 1
    BY <1>1, FS_Interval
  <1> QED
    BY <1>2, <1>3 DEF Slots

\* The occupied slots can be counted.
LEMMA FiniteOccupied ==
    ASSUME TypeOK
    PROVE  IsFiniteSet(Occupied) /\ Cardinality(Occupied) \in Nat
  <1>1. IsFiniteSet(Slots(capacity)) /\ Occupied \subseteq Slots(capacity)
    BY FiniteSlots DEF TypeOK, Occupied
  <1> QED
    BY <1>1, FS_Subset, FS_CardinalityType

\* Under the counting invariant some slot is free, and every probe meets it.
LEMMA EveryProbeEnds ==
    ASSUME CInv
    PROVE  ProbeEnds
  <1> SUFFICES ASSUME NEW k \in Keys PROVE Stops(k) # {}
    BY DEF ProbeEnds
  <1>1. Cardinality(Occupied) < capacity
    <2>1. Cardinality(Occupied) \in Nat
      BY FiniteOccupied DEF CInv
    <2>2. size + tombstone_count < capacity
      BY DEF CInv, TypeOK, Roomy
    <2> QED
      BY <2>1, <2>2 DEF CInv, Counted, TypeOK
  <1>2. PICK s \in Slots(capacity) : s \notin Occupied
    <2>1. Occupied # Slots(capacity)
      BY <1>1, FiniteSlots DEF CInv, TypeOK
    <2> QED
      BY <2>1 DEF Occupied
  <1>3. PICK i \in Slots(capacity) : SlotAt(k, i) = s
    BY SlotAtOnto DEF CInv
  <1> QED
    BY <1>2, <1>3 DEF Stops, Occupied

\* What a probe that ends returns.
LEMMA ProbeResult ==
    ASSUME TypeOK, NEW k \in Keys, Stops(k) # {}
    PROVE  /\ probe(k).found \in BOOLEAN
           /\ \E i \in Slots(capacity) :
                 /\ probe(k).index = SlotAt(k, i)
                 /\ probe(k).found => Holds(entries[SlotAt(k, i)], k)
                 /\ ~probe(k).found => \/ ~entries[SlotAt(k, i)].occupied
                                       \/ entries[SlotAt(k, i)].deleted
                 /\ \A j \in Slots(i) : entries[SlotAt(k, j)].occupied
           /\ ~probe(k).found =>
                 \E end \in Slots(capacity) :
                     /\ ~entries[SlotAt(k, end)].occupied
                     /\ \A j \in Slots(end) : ~Holds(entries[SlotAt(k, j)], k)
  <1> DEFINE end == Least(Stops(k))
             tombs == {i \in Tombs(k) : i < end}
  <1>c. capacity \in Nat
    BY DEF TypeOK
  <1>1. Stops(k) \in SUBSET Nat
    BY <1>c DEF Stops, Slots
  <1>2. end \in Stops(k) /\ \A i \in Stops(k) : end <= i
    BY <1>1, LeastNat
  <1>3. end \in Slots(capacity) /\ end \in Nat
    BY <1>1, <1>2 DEF Stops
  <1>4. \A j \in Slots(end) : j \in Slots(capacity) /\ ~(end <= j)
    BY <1>3, <1>c DEF Slots
  <1>5. \A j \in Slots(end) : j \in Slots(capacity) /\ j \notin Stops(k)
    BY <1>2, <1>4
  <1>6. \A j \in Slots(end) : /\ entries[SlotAt(k, j)].occupied
                              /\ ~Holds(entries[SlotAt(k, j)], k)
    BY <1>5 DEF Stops
  <1>p. probe(k) = IF Holds(entries[SlotAt(k, end)], k)
             THEN [found |-> TRUE, index |-> SlotAt(k, end)]
             ELSE [found |-> FALSE,
                   index |-> SlotAt(k, IF tombs = {} THEN end ELSE Least(tombs))]
    BY DEF probe
  <1>7. CASE Holds(entries[SlotAt(k, end)], k)
    <2>1. probe(k) = [found |-> TRUE, index |-> SlotAt(k, end)]
      BY <1>7, <1>p
    <2> HIDE DEF end
    <2> QED
      BY <1>3, <1>6, <1>7, <2>1
  <1>8. CASE ~Holds(entries[SlotAt(k, end)], k)
    <2>0. ~entries[SlotAt(k, end)].occupied
      BY <1>2, <1>8 DEF Stops
    <2>1. CASE tombs = {}
      <3>1. probe(k) = [found |-> FALSE, index |-> SlotAt(k, end)]
        BY <1>8, <1>p, <2>1
      <3> HIDE DEF end
      <3> QED
        BY <1>3, <1>6, <2>0, <3>1
    <2>2. CASE tombs # {}
      <3> DEFINE t == Least(tombs)
      <3>1. tombs \in SUBSET Nat
        BY <1>c DEF Tombs, Slots
      <3>2. t \in tombs
        BY <2>2, <3>1, LeastNat
      <3>3. t \in Slots(capacity) /\ t < end /\ entries[SlotAt(k, t)].deleted
        BY <3>2 DEF Tombs
      <3>4. probe(k) = [found |-> FALSE, index |-> SlotAt(k, t)]
        BY <1>8, <1>p, <2>2
      <3> HIDE DEF t, end
      <3>5. \A j \in Slots(t) : j \in Slots(end)
        BY <1>3, <3>3, <1>c DEF Slots
      <3> QED
        BY <1>3, <1>6, <2>0, <3>3, <3>4, <3>5
    <2> QED
      BY <2>1, <2>2
  <1> QED
    BY <1>7, <1>8

\* The slot that probe names is a slot of the table.
LEMMA ProbeIndex ==
    ASSUME TypeOK, NEW k \in Keys, Stops(k) # {}
    PROVE  probe(k).index \in Slots(capacity)
  BY ProbeResult, SlotAtRange

\* Filling one slot.
LEMMA FillSlot ==
    ASSUME CInv, NEW idx \in Slots(capacity), NEW e \in EntryType,
           e.occupied, ~e.deleted, e.key \in Keys, e.value \in Values,
           entries' = [entries EXCEPT ![idx] = e], capacity' = capacity
    PROVE  /\ entries' \in [Slots(capacity) -> EntryType]
           /\ Kept(entries', capacity)
           /\ Cardinality(Occupied)' \in Nat
           /\ Cardinality(Occupied)' <= Cardinality(Occupied) + 1
           /\ entries[idx].occupied => Cardinality(Occupied)' = Cardinality(Occupied)
  <1>1. Occupied' = Occupied \union {idx}
    BY DEF CInv, TypeOK, Occupied
  <1>2. IsFiniteSet(Occupied) /\ Cardinality(Occupied) \in Nat
    BY FiniteOccupied DEF CInv
  <1>3. Cardinality(Occupied \union {idx})
           = IF idx \in Occupied THEN Cardinality(Occupied) ELSE Cardinality(Occupied) + 1
    BY <1>2, FS_AddElement
  <1>4. entries' \in [Slots(capacity) -> EntryType]
    BY DEF CInv, TypeOK
  <1>5. Kept(entries', capacity)
    BY DEF CInv, TypeOK, Kept
  <1>6. entries[idx].occupied => idx \in Occupied
    BY DEF Occupied
  <1>7. Cardinality(Occupied)' = Cardinality(Occupied \union {idx})
    BY <1>1
  <1> HIDE DEF Occupied
  <1> QED
    BY <1>2, <1>3, <1>4, <1>5, <1>6, <1>7

\* Insert keeps the count and adds at most one to the two counters.
LEMMA InsertCounts ==
    ASSUME CInv, NEW k \in Keys, NEW v \in Values, Insert(k, v)
    PROVE  /\ capacity' = capacity
           /\ entries' \in [Slots(capacity) -> EntryType]
           /\ Kept(entries', capacity)
           /\ size' \in Int /\ tombstone_count' \in Int
           /\ Counted'
           /\ size' + tombstone_count' <= size + tombstone_count + 1
  <1> DEFINE p == probe(k)
  <1>1. Stops(k) # {}
    BY EveryProbeEnds DEF ProbeEnds
  <1>2. p.index \in Slots(capacity) /\ p.found \in BOOLEAN
    BY <1>1, ProbeIndex, ProbeResult DEF CInv
  <1>3. p.found => entries[p.index].occupied
    BY <1>1, ProbeResult DEF CInv, Holds
  <1>4. entries[p.index].deleted => entries[p.index].occupied
    BY <1>2 DEF CInv, Kept
  <1>5. /\ entries' = [entries EXCEPT ![p.index] = Entry(k, v)]
        /\ size' = IF p.found THEN size ELSE size + 1
        /\ tombstone_count' =
              IF ~p.found /\ entries[p.index].deleted
              THEN tombstone_count - 1 ELSE tombstone_count
        /\ capacity' = capacity
    BY DEF Insert
  <1>6. /\ Entry(k, v) \in EntryType /\ Entry(k, v).occupied /\ ~Entry(k, v).deleted
        /\ Entry(k, v).key \in Keys /\ Entry(k, v).value \in Values
    BY DEF Entry, EntryType
  <1> HIDE DEF p
  <1>7. /\ entries' \in [Slots(capacity) -> EntryType]
        /\ Kept(entries', capacity)
        /\ Cardinality(Occupied)' \in Nat
        /\ Cardinality(Occupied)' <= Cardinality(Occupied) + 1
        /\ entries[p.index].occupied => Cardinality(Occupied)' = Cardinality(Occupied)
    BY <1>2, <1>5, <1>6, FillSlot
  <1>8. size \in Int /\ tombstone_count \in Int /\ Cardinality(Occupied) \in Nat
    BY FiniteOccupied DEF CInv, TypeOK
  <1>9. size' \in Int /\ tombstone_count' \in Int
        /\ size' + tombstone_count' <= size + tombstone_count + 1
    BY <1>2, <1>5, <1>8
  <1>10. Cardinality(Occupied)' <= size' + tombstone_count'
    BY <1>2, <1>3, <1>4, <1>5, <1>7, <1>8 DEF CInv, Counted
  <1> QED
    BY <1>5, <1>7, <1>9, <1>10 DEF Counted

\* A table fresh from calloc is well formed and has no occupied slot.
LEMMA CallocEmpty ==
    ASSUME NEW n \in Nat
    PROVE  /\ calloc(n) \in [Slots(n) -> EntryType]
           /\ Kept(calloc(n), n)
           /\ {s \in Slots(n) : calloc(n)[s].occupied} = {}
  BY DEF calloc, Zeroed, EntryType, Kept

\* The counting invariant holds at first ...
LEMMA InitCInv == hashmap_init => CInv
  <1> SUFFICES ASSUME hashmap_init PROVE CInv
    OBVIOUS
  <1> USE HashMapAssumption
  <1>1. TypeOK
    BY CallocEmpty DEF hashmap_init, TypeOK
  <1>2. Kept(entries, capacity) /\ Kept(old_entries, old_capacity)
    BY CallocEmpty DEF hashmap_init
  <1>3. Occupied = {}
    BY CallocEmpty DEF hashmap_init, Occupied
  <1>4. Counted
    BY <1>3, FS_EmptySet DEF hashmap_init, Counted
  <1>5. Roomy
    BY DEF hashmap_init, Roomy, Idle
  <1> QED
    BY <1>1, <1>2, <1>4, <1>5 DEF CInv

\* ... and every operation preserves it.
LEMMA NextCInv ==
    ASSUME CInv, [Next]_vars, ~CallocFails
    PROVE  CInv'
  <1> USE DEF table, old
  <1>t. TypeOK
    BY DEF CInv
  <1>c. Cardinality(Occupied) \in Nat
    BY <1>t, FiniteOccupied
  <1>s. ASSUME UNCHANGED <<table, old, putting>> PROVE CInv'
    BY <1>s DEF CInv, TypeOK, Kept, Counted, Occupied, Roomy, Idle
  <1>1. ASSUME NEW k \in Keys, hashmap_get(k) PROVE CInv'
    BY <1>1, <1>s DEF hashmap_get
  <1>2. ASSUME NEW k \in Keys, hashmap_remove(k) PROVE CInv'
    <2> DEFINE p == probe(k)
    <2>1. Stops(k) # {}
      BY EveryProbeEnds DEF ProbeEnds
    <2>2. p.index \in Slots(capacity) /\ (p.found => Holds(entries[p.index], k))
      BY <1>t, <2>1, ProbeIndex, ProbeResult
    <2>3. CASE ~p.found
      BY <1>2, <1>s, <2>3 DEF hashmap_remove
    <2>4. CASE p.found
      <3>1. /\ entries' = [entries EXCEPT ![p.index].deleted = TRUE]
            /\ size' = size - 1 /\ tombstone_count' = tombstone_count + 1
            /\ UNCHANGED <<capacity, old, putting>>
        BY <1>2, <2>4 DEF hashmap_remove
      <3>2. entries[p.index].occupied
        BY <2>2, <2>4 DEF Holds
      <3> HIDE DEF p
      <3>3. entries' \in [Slots(capacity) -> EntryType]
        BY <1>t, <2>2, <3>1 DEF TypeOK, EntryType
      <3>4. \A s \in Slots(capacity) :
               /\ entries'[s].occupied = entries[s].occupied
               /\ entries'[s].key = entries[s].key
               /\ entries'[s].value = entries[s].value
               /\ entries'[s].deleted => entries[s].occupied
        BY <1>t, <2>2, <3>1, <3>2 DEF TypeOK, EntryType, CInv, Kept
      <3>5. Kept(entries', capacity)
        BY <3>4 DEF CInv, Kept
      <3>6. Occupied' = Occupied
        BY <3>1, <3>4 DEF Occupied
      <3>7. Counted' /\ Roomy'
        BY <1>t, <1>c, <3>1, <3>6 DEF CInv, Counted, Roomy, TypeOK, Idle
      <3>8. TypeOK'
        BY <1>t, <3>1, <3>3 DEF TypeOK
      <3> QED
        BY <3>1, <3>5, <3>7, <3>8 DEF CInv
    <2> QED
      BY <2>3, <2>4
  <1>3. ASSUME NEW k \in Keys, NEW v \in Values, hashmap_put(k, v) PROVE CInv'
    <2>1. Insert(k, v) /\ UNCHANGED <<old, putting>> /\ Idle /\ ~Overloaded
      BY <1>3 DEF hashmap_put
    <2>2. /\ capacity' = capacity
          /\ entries' \in [Slots(capacity) -> EntryType]
          /\ Kept(entries', capacity)
          /\ size' \in Int /\ tombstone_count' \in Int
          /\ Counted'
          /\ size' + tombstone_count' <= size + tombstone_count + 1
      BY <2>1, InsertCounts
    <2>3. Roomy'
      <3> DEFINE n == size + tombstone_count
                 m == size' + tombstone_count'
      <3>0. n \in Int /\ m \in Int
        BY <1>t, <2>2 DEF TypeOK
      <3>3. 4 * n < 3 * capacity
        BY <1>t, <2>1 DEF Overloaded, TypeOK
      <3>4. m <= n + 1
        BY <2>2
      <3>1. n \in Int /\ m \in Int /\ 4 * n < 3 * capacity /\ m <= n + 1
        BY <3>0, <3>3, <3>4
      <3> HIDE DEF n, m
      <3>2. m < capacity
        BY <1>t, <3>1 DEF TypeOK
      <3> QED
        BY <2>1, <2>2, <3>2 DEF CInv, Roomy, Idle, m
    <2>4. TypeOK'
      BY <1>t, <2>1, <2>2 DEF TypeOK
    <2> QED
      BY <2>1, <2>2, <2>3, <2>4 DEF CInv
  <1>4. ASSUME NEW k \in Keys, NEW v \in Values, RehashBegin(k, v) PROVE CInv'
    <2>1. /\ Idle /\ old_entries' = entries /\ old_capacity' = capacity /\ moved' = 0
          /\ entries' = calloc(NewCapacity) /\ capacity' = NewCapacity
          /\ size' = 0 /\ tombstone_count' = 0 /\ putting' = <<k, v>>
      BY <1>4 DEF RehashBegin
    <2>2. NewCapacity \in Nat /\ NewCapacity >= 2 * capacity /\ NewCapacity >= 4
      BY <1>t, HashMapAssumption DEF NewCapacity, TypeOK
    <2>3. TypeOK'
      BY <1>t, <2>1, <2>2, CallocEmpty DEF TypeOK
    <2>4. Kept(entries', capacity') /\ Kept(old_entries', old_capacity')
      BY <2>1, <2>2, CallocEmpty DEF CInv
    <2>5. Occupied' = {}
      BY <2>1, <2>2, CallocEmpty DEF Occupied
    <2>6. Counted'
      BY <2>1, <2>5, FS_EmptySet DEF Counted
    <2>7. Roomy'
      BY <1>t, <2>1, <2>2 DEF Roomy, Idle, NoPut, TypeOK
    <2> QED
      BY <2>3, <2>4, <2>6, <2>7 DEF CInv
  <1>5. CASE RehashMove
    <2> DEFINE e == old_entries[moved]
               p == probe(e.key)
    <2>1. /\ ~Idle /\ moved < old_capacity /\ moved' = moved + 1
          /\ UNCHANGED <<capacity, old_entries, old_capacity, putting>>
      BY <1>5 DEF RehashMove
    <2>2. e \in EntryType /\ moved \in Slots(old_capacity)
      BY <1>t, <2>1 DEF TypeOK, Slots
    <2>3. CASE e.occupied /\ ~e.deleted
      <3>1. e.key \in Keys /\ e.value \in Values
        BY <2>2, <2>3 DEF CInv, Kept
      <3>2. p.index \in Slots(capacity)
        BY <1>t, <3>1, EveryProbeEnds, ProbeIndex DEF ProbeEnds
      <3>3. /\ entries' = [entries EXCEPT ![p.index] = e]
            /\ size' = size + 1 /\ tombstone_count' = tombstone_count
        BY <1>5, <2>3 DEF RehashMove
      <3> HIDE DEF p, e
      <3>4. /\ entries' \in [Slots(capacity) -> EntryType]
            /\ Kept(entries', capacity)
            /\ Cardinality(Occupied)' \in Nat
            /\ Cardinality(Occupied)' <= Cardinality(Occupied) + 1
        BY <2>1, <2>2, <2>3, <3>1, <3>2, <3>3, FillSlot
      <3>5. TypeOK'
        BY <1>t, <2>1, <3>3, <3>4 DEF TypeOK
      <3>6. Counted'
        BY <1>t, <1>c, <3>3, <3>4 DEF TypeOK, CInv, Counted
      <3>7. Roomy'
        BY <1>t, <2>1, <3>3 DEF TypeOK, CInv, Roomy, Idle
      <3> QED
        BY <2>1, <3>4, <3>5, <3>6, <3>7 DEF CInv
    <2>4. CASE ~(e.occupied /\ ~e.deleted)
      <3>1. UNCHANGED table
        BY <1>5, <2>4 DEF RehashMove
      <3> QED
        BY <1>t, <2>1, <3>1 DEF TypeOK, CInv, Roomy, Counted, Occupied, Idle
    <2> QED
      BY <2>3, <2>4
  <1>6. CASE RehashEnd
    <2>1. /\ ~Idle /\ moved = old_capacity /\ Insert(putting[1], putting[2])
          /\ old_entries' = calloc(0) /\ old_capacity' = 0 /\ moved' = 0
          /\ putting' = NoPut
      BY <1>6 DEF RehashEnd
    <2>2. putting[1] \in Keys /\ putting[2] \in Values
      BY <1>t, <2>1 DEF TypeOK, Idle
    <2>3. /\ capacity' = capacity
          /\ entries' \in [Slots(capacity) -> EntryType]
          /\ Kept(entries', capacity)
          /\ size' \in Int /\ tombstone_count' \in Int
          /\ Counted'
          /\ size' + tombstone_count' <= size + tombstone_count + 1
      BY <2>1, <2>2, InsertCounts
    <2>4. Roomy'
      <3> DEFINE n == size + tombstone_count
                 m == size' + tombstone_count'
      <3>0. n \in Int /\ m \in Int
        BY <1>t, <2>3 DEF TypeOK
      <3>3. n <= moved
        BY <1>t, <2>1 DEF TypeOK, CInv, Roomy
      <3>4. m <= n + 1
        BY <2>3
      <3>1. n \in Int /\ m \in Int /\ n <= moved /\ m <= n + 1
        BY <3>0, <3>3, <3>4
      <3> HIDE DEF n, m
      <3>2. m < capacity
        BY <1>t, <2>1, <3>1 DEF TypeOK, CInv, Roomy
      <3> QED
        BY <2>1, <2>3, <3>2 DEF Roomy, Idle, m
    <2>5. TypeOK' /\ Kept(old_entries', old_capacity')
      BY <1>t, <2>1, <2>3, CallocEmpty DEF TypeOK
    <2> QED
      BY <2>3, <2>4, <2>5 DEF CInv
  <1>7. CASE hashmap_clear
    <2>1. /\ Idle /\ entries' = calloc(capacity) /\ size' = 0 /\ tombstone_count' = 0
          /\ UNCHANGED <<capacity, old, putting>>
      BY <1>7 DEF hashmap_clear
    <2>2. TypeOK'
      BY <1>t, <2>1, CallocEmpty DEF TypeOK
    <2>3. Kept(entries', capacity') /\ Kept(old_entries', old_capacity')
      BY <1>t, <2>1, CallocEmpty DEF CInv, TypeOK
    <2>4. Occupied' = {}
      BY <1>t, <2>1, CallocEmpty DEF Occupied, TypeOK
    <2>5. Counted' /\ Roomy'
      BY <1>t, <2>1, <2>4, FS_EmptySet DEF Counted, Roomy, Idle, TypeOK, CInv
    <2> QED
      BY <2>2, <2>3, <2>5 DEF CInv
  <1>8. CASE UNCHANGED vars
    BY <1>8, <1>s DEF vars
  <1> QED
    BY <1>1, <1>2, <1>3, <1>4, <1>5, <1>6, <1>7, <1>8 DEF Next

(***************************************************************************)
(* Every probe of hashmap_u32.c meets its key or a free slot, in every     *)
(* reachable table and in the middle of a rehash: the "not found, slot 0"  *)
(* fallback after the loop is dead code as long as calloc succeeds.        *)
(***************************************************************************)
THEOREM HashMapProbeEnds ==
    ASSUME ~CallocFails
    PROVE  Spec => []ProbeEnds
  <1>1. CInv /\ [Next]_vars => CInv'
    BY NextCInv
  <1>2. CInv => ProbeEnds
    BY EveryProbeEnds
  <1> QED
    BY InitCInv, <1>1, <1>2, PTL DEF Spec

-----------------------------------------------------------------------------
\* No key is live in two slots of a table.
Single(es, S) ==
    \A k \in Keys : \A s, t \in S : Holds(es[s], k) /\ Holds(es[t], k) => s = t

\* Every live key can be reached: no slot on its probe path before it is free.
Reach ==
    \A k \in Keys, s \in Slots(capacity) :
        Holds(entries[s], k) =>
            \E i \in Slots(capacity) :
                /\ SlotAt(k, i) = s
                /\ \A j \in Slots(i) : entries[SlotAt(k, j)].occupied

\* The part of the old table that rehash has still to move.
Left == moved .. old_capacity - 1

\* What is still to be moved has not been moved.
Disjoint ==
    \A k \in Keys : \A s \in Left, t \in Slots(capacity) :
        Holds(old_entries[s], k) => ~Holds(entries[t], k)

\* The invariant of the refinement.
DInv ==
    /\ CInv
    /\ Single(entries, Slots(capacity))
    /\ Single(old_entries, Slots(old_capacity))
    /\ Reach
    /\ Disjoint

\* The value of k in a table es with slots S, and what is left of an old one.
LiveIn(es, S, k) == {s \in S : Holds(es[s], k)}
ValueOf(es, S, os, T, k) ==
    IF LiveIn(es, S, k) # {} THEN es[CHOOSE s \in LiveIn(es, S, k) : TRUE].value
    ELSE IF LiveIn(os, T, k) # {} THEN os[CHOOSE s \in LiveIn(os, T, k) : TRUE].value
    ELSE Missing

\* Contents, before and after a step, in terms of ValueOf.
LEMMA ContentsOf ==
    /\ Contents = [k \in Keys |->
                      ValueOf(entries, Slots(capacity), old_entries, Left, k)]
    /\ Contents' = [k \in Keys |->
                      ValueOf(entries', Slots(capacity'), old_entries', Left', k)]
  <1>1. Contents = [k \in Keys |->
                      ValueOf(entries, Slots(capacity), old_entries, Left, k)]
    BY Zenon DEF Contents, ValueOf, LiveIn, Homes, OldHomes, Left
  <1>2. Contents' = [k \in Keys |->
                      ValueOf(entries', Slots(capacity'), old_entries', Left', k)]
    BY Zenon DEF Contents, ValueOf, LiveIn, Homes, OldHomes, Left
  <1> QED
    BY <1>1, <1>2

\* A key that is live in the table has the value of its slot ...
LEMMA ValueHere ==
    ASSUME NEW es, NEW S, NEW os, NEW T, NEW k \in Keys, NEW s \in S,
           Single(es, S), Holds(es[s], k)
    PROVE  ValueOf(es, S, os, T, k) = es[s].value
  <1>1. s \in LiveIn(es, S, k) /\ \A t \in LiveIn(es, S, k) : t = s
    BY DEF LiveIn, Single
  <1>2. (CHOOSE t \in LiveIn(es, S, k) : TRUE) = s
    BY <1>1
  <1> QED
    BY <1>1, <1>2 DEF ValueOf

\* ... one that is only in the old table, the value it has there ...
LEMMA ValueThere ==
    ASSUME NEW es, NEW S, NEW os, NEW T, NEW U, NEW k \in Keys, NEW s \in T,
           T \subseteq U, Single(os, U), Holds(os[s], k),
           \A t \in S : ~Holds(es[t], k)
    PROVE  ValueOf(es, S, os, T, k) = os[s].value
  <1>1. s \in LiveIn(os, T, k) /\ \A t \in LiveIn(os, T, k) : t = s
    BY DEF LiveIn, Single
  <1>2. (CHOOSE t \in LiveIn(os, T, k) : TRUE) = s
    BY <1>1
  <1>3. LiveIn(es, S, k) = {}
    BY DEF LiveIn
  <1> QED
    BY <1>1, <1>2, <1>3 DEF ValueOf

\* ... and any other key is missing.
LEMMA ValueNowhere ==
    ASSUME NEW es, NEW S, NEW os, NEW T, NEW k \in Keys,
           \A t \in S : ~Holds(es[t], k), \A t \in T : ~Holds(os[t], k)
    PROVE  ValueOf(es, S, os, T, k) = Missing
  BY DEF ValueOf, LiveIn

\* Only the live slots of what is left matter.
LEMMA ValueSame ==
    ASSUME NEW es, NEW S, NEW os, NEW T, NEW U, NEW k \in Keys,
           LiveIn(os, U, k) = LiveIn(os, T, k)
    PROVE  ValueOf(es, S, os, U, k) = ValueOf(es, S, os, T, k)
  BY DEF ValueOf

\* What probe says of a key: found where it lives, or nowhere in the table.
LEMMA ProbeFinds ==
    ASSUME DInv, NEW k \in Keys
    PROVE  /\ probe(k).index \in Slots(capacity) /\ probe(k).found \in BOOLEAN
           /\ probe(k).found => Holds(entries[probe(k).index], k)
           /\ ~probe(k).found => \A s \in Slots(capacity) : ~Holds(entries[s], k)
           /\ ~probe(k).found => \/ ~entries[probe(k).index].occupied
                                 \/ entries[probe(k).index].deleted
           /\ \E i \in Slots(capacity) :
                 /\ probe(k).index = SlotAt(k, i)
                 /\ \A j \in Slots(i) : entries[SlotAt(k, j)].occupied
  <1>1. TypeOK /\ Stops(k) # {}
    BY EveryProbeEnds DEF DInv, CInv, ProbeEnds
  <1>2. ASSUME ~probe(k).found, NEW s \in Slots(capacity), Holds(entries[s], k)
        PROVE  FALSE
    <2>1. PICK end \in Slots(capacity) :
              /\ ~entries[SlotAt(k, end)].occupied
              /\ \A j \in Slots(end) : ~Holds(entries[SlotAt(k, j)], k)
      BY <1>1, <1>2, ProbeResult
    <2>2. PICK i \in Slots(capacity) :
              /\ SlotAt(k, i) = s
              /\ \A j \in Slots(i) : entries[SlotAt(k, j)].occupied
      BY <1>2 DEF DInv, Reach
    <2>3. i \in Nat /\ end \in Nat
      BY <1>1 DEF TypeOK, Slots
    <2>4. i \notin Slots(end)
      BY <1>2, <2>1, <2>2
    <2>5. end \notin Slots(i)
      BY <2>1, <2>2
    <2>6. i = end
      BY <2>3, <2>4, <2>5 DEF Slots
    <2> QED
      BY <1>2, <2>1, <2>2, <2>6 DEF Holds
  <1> QED
    BY <1>1, <1>2, ProbeResult, ProbeIndex

\* An entry for k stored where probe says: k lives there and only there, and
\* the other keys stay where they are.
LEMMA StoreAtProbe ==
    ASSUME DInv, NEW k \in Keys, NEW e \in EntryType, Holds(e, k),
           entries' = [entries EXCEPT ![probe(k).index] = e], capacity' = capacity
    PROVE  /\ Single(entries', Slots(capacity))
           /\ Reach'
           /\ probe(k).index \in Slots(capacity)
           /\ entries'[probe(k).index] = e
           /\ \A c \in Keys \ {k}, s \in Slots(capacity) :
                 /\ Holds(entries'[s], c) <=> Holds(entries[s], c)
                 /\ Holds(entries[s], c) => entries'[s] = entries[s]
  <1> DEFINE x == probe(k).index
  <1>1. /\ x \in Slots(capacity)
        /\ \A s \in Slots(capacity) : s # x => ~Holds(entries[s], k)
        /\ \A c \in Keys \ {k} : ~Holds(entries[x], c)
    BY ProbeFinds DEF Holds, DInv, Single
  <1>p. PICK i \in Slots(capacity) :
            x = SlotAt(k, i) /\ \A j \in Slots(i) : entries[SlotAt(k, j)].occupied
    BY ProbeFinds
  <1>e. entries \in [Slots(capacity) -> EntryType] /\ capacity \in Nat
    BY DEF DInv, CInv, TypeOK
  <1> HIDE DEF x
  <1>u. entries' = [entries EXCEPT ![x] = e]
    BY DEF x
  <1>2. entries'[x] = e /\ \A s \in Slots(capacity) : s # x => entries'[s] = entries[s]
    BY <1>1, <1>e, <1>u
  <1>3. \A c \in Keys \ {k} : ~Holds(e, c)
    BY DEF Holds
  <1>4. \A c \in Keys \ {k}, s \in Slots(capacity) :
           /\ Holds(entries'[s], c) <=> Holds(entries[s], c)
           /\ Holds(entries[s], c) => entries'[s] = entries[s]
    BY <1>1, <1>2, <1>3
  <1>5. \A s \in Slots(capacity) : Holds(entries'[s], k) => s = x
    BY <1>1, <1>2
  <1>6. Single(entries', Slots(capacity))
    BY <1>4, <1>5 DEF Single, DInv
  <1>7. \A s \in Slots(capacity) : entries[s].occupied => entries'[s].occupied
    BY <1>1, <1>2 DEF Holds
  <1>8. ASSUME NEW c \in Keys, NEW s \in Slots(capacity), Holds(entries'[s], c)
        PROVE  \E n \in Slots(capacity) :
                  SlotAt(c, n) = s /\ \A j \in Slots(n) : entries'[SlotAt(c, j)].occupied
    <2>1. \E n \in Slots(capacity) :
             SlotAt(c, n) = s /\ \A j \in Slots(n) : entries[SlotAt(c, j)].occupied
      <3>1. CASE c = k
        BY <1>5, <1>8, <1>p, <3>1
      <3>2. CASE c # k
        BY <1>4, <1>8, <3>2 DEF DInv, Reach
      <3> QED
        BY <3>1, <3>2
    <2>2. PICK n \in Slots(capacity) :
             SlotAt(c, n) = s /\ \A j \in Slots(n) : entries[SlotAt(c, j)].occupied
      BY <2>1
    <2>3. \A j \in Slots(n) : j \in Slots(capacity)
      BY <1>e DEF Slots
    <2>4. \A j \in Slots(n) : SlotAt(c, j) \in Slots(capacity)
      BY <2>3, SlotAtRange DEF DInv, CInv
    <2> QED
      BY <1>7, <2>2, <2>4
  <1>9. Reach'
    BY <1>8 DEF Reach, SlotAt
  <1> QED
    BY <1>1, <1>2, <1>4, <1>6, <1>9 DEF x

\* Insert in a table whose rehash, if there was one, has moved everything.
LEMMA InsertPuts ==
    ASSUME DInv, NEW k \in Keys, NEW v \in Values, Insert(k, v),
           Left = {}, Left' = {}
    PROVE  /\ Single(entries', Slots(capacity')) /\ Reach'
           /\ Contents' = [Contents EXCEPT ![k] = v]
  <1> DEFINE e == Entry(k, v)
             x == probe(k).index
  <1>1. e \in EntryType /\ Holds(e, k) /\ e.value = v
    BY DEF Entry, EntryType, Holds
  <1>2. entries' = [entries EXCEPT ![x] = e] /\ capacity' = capacity
    BY DEF Insert
  <1> HIDE DEF e
  <1>3. /\ Single(entries', Slots(capacity)) /\ Reach'
        /\ x \in Slots(capacity) /\ entries'[x] = e
        /\ \A c \in Keys \ {k}, s \in Slots(capacity) :
              /\ Holds(entries'[s], c) <=> Holds(entries[s], c)
              /\ Holds(entries[s], c) => entries'[s] = entries[s]
    BY <1>1, <1>2, StoreAtProbe
  <1> HIDE DEF x
  <1> DEFINE Now(c) == ValueOf(entries, Slots(capacity), old_entries, {}, c)
             Then(c) == ValueOf(entries', Slots(capacity), old_entries', {}, c)
  <1>4. Then(k) = v
    BY <1>1, <1>3, ValueHere
  <1>5. ASSUME NEW c \in Keys \ {k} PROVE Then(c) = Now(c)
    <2>1. CASE \E s \in Slots(capacity) : Holds(entries[s], c)
      <3>1. PICK s \in Slots(capacity) : Holds(entries[s], c)
        BY <2>1
      <3>2. Now(c) = entries[s].value
        BY <3>1, ValueHere DEF DInv
      <3>3. Then(c) = entries'[s].value
        BY <1>3, <3>1, ValueHere
      <3> QED
        BY <1>3, <3>1, <3>2, <3>3
    <2>2. CASE \A s \in Slots(capacity) : ~Holds(entries[s], c)
      <3>1. Now(c) = Missing
        BY <2>2, ValueNowhere
      <3>2. Then(c) = Missing
        BY <1>3, <2>2, ValueNowhere
      <3> QED
        BY <3>1, <3>2
    <2> QED
      BY <2>1, <2>2
  <1>6. Contents = [c \in Keys |-> Now(c)] /\ Contents' = [c \in Keys |-> Then(c)]
    BY <1>2, ContentsOf
  <1> HIDE DEF Now, Then
  <1> QED
    BY <1>2, <1>3, <1>4, <1>5, <1>6

\* An empty table holds nothing.
LEMMA CallocHoldsNothing ==
    ASSUME NEW n \in Nat
    PROVE  \A k \in Keys, s \in Slots(n) : ~Holds(calloc(n)[s], k)
  BY DEF calloc, Zeroed, Holds

\* The initial table is the empty dictionary.
LEMMA InitDInv == hashmap_init => DInv /\ Dict!DictInit
  <1> SUFFICES ASSUME hashmap_init PROVE DInv /\ Dict!DictInit
    OBVIOUS
  <1>1. CInv
    BY InitCInv
  <1>2. /\ entries = calloc(capacity) /\ capacity \in Nat
        /\ old_entries = calloc(0) /\ old_capacity = 0 /\ moved = 0
        /\ answer = Missing
    BY HashMapAssumption DEF hashmap_init
  <1>3. \A k \in Keys, s \in Slots(capacity) : ~Holds(entries[s], k)
    BY <1>2, CallocHoldsNothing
  <1>4. \A k \in Keys, s \in Slots(old_capacity) : ~Holds(old_entries[s], k)
    BY <1>2, CallocHoldsNothing
  <1>5. DInv
    BY <1>1, <1>3, <1>4 DEF DInv, Single, Reach, Disjoint
  <1>6. Left = {}
    BY <1>2 DEF Left
  <1>7. \A k \in Keys :
           ValueOf(entries, Slots(capacity), old_entries, Left, k) = Missing
    BY <1>3, <1>6, ValueNowhere
  <1>8. Contents = [k \in Keys |-> Missing]
    BY <1>7, ContentsOf
  <1> QED
    BY <1>2, <1>5, <1>8 DEF Dict!DictInit, Dict!Blank

\* Every operation preserves the invariant and is a step of the dictionary; the
\* steps of rehash before the last leave the dictionary as it is.
LEMMA NextDict ==
    ASSUME DInv, [Next]_vars, ~CallocFails
    PROVE  DInv' /\ [Dict!DictNext]_<<Contents, answer>>
  <1> USE DEF table, old
  <1>c. CInv /\ CInv'
    BY NextCInv DEF DInv
  <1>t. TypeOK
    BY <1>c DEF CInv
  <1>i. Idle => Left = {} /\ old_capacity = 0
    BY <1>c, <1>t DEF CInv, Roomy, Left, TypeOK
  <1>s. ASSUME UNCHANGED <<table, old>> PROVE DInv' /\ Contents' = Contents
    <2>1. Single(entries, Slots(capacity))' /\ Single(old_entries, Slots(old_capacity))'
      BY <1>s DEF DInv, Single
    <2>2. Reach'
      BY <1>s DEF DInv, Reach, SlotAt
    <2>3. Disjoint' /\ Left' = Left
      BY <1>s DEF DInv, Disjoint, Left
    <2> QED
      BY <1>s, <1>c, <2>1, <2>2, <2>3, ContentsOf DEF DInv
  <1>v. \A k \in Keys : \A s \in Slots(capacity) :
           Holds(entries[s], k) => Contents[k] = entries[s].value /\ Contents[k] # Missing
    <2> SUFFICES ASSUME NEW k \in Keys, NEW s \in Slots(capacity), Holds(entries[s], k)
                 PROVE  Contents[k] = entries[s].value /\ Contents[k] # Missing
      OBVIOUS
    <2>1. Contents[k] = entries[s].value
      BY ValueHere, ContentsOf DEF DInv
    <2>2. entries[s].value \in Values
      BY <1>c DEF CInv, Kept, Holds
    <2> QED
      BY <2>1, <2>2, HashMapAssumption
  <1>n. ASSUME Idle, NEW k \in Keys, \A s \in Slots(capacity) : ~Holds(entries[s], k)
        PROVE  Contents[k] = Missing
    BY <1>i, <1>n, ValueNowhere, ContentsOf
  <1>1. ASSUME NEW k \in Keys, hashmap_get(k)
        PROVE  DInv' /\ Dict!Get(k)
    <2>1. DInv' /\ Contents' = Contents /\ Idle
      BY <1>1, <1>s DEF hashmap_get
    <2>2. answer' = IF probe(k).found THEN entries[probe(k).index].value ELSE Missing
      BY <1>1 DEF hashmap_get
    <2>3. CASE probe(k).found
      BY <1>v, <2>1, <2>2, <2>3, ProbeFinds DEF Dict!Get
    <2>4. CASE ~probe(k).found
      BY <1>n, <2>1, <2>2, <2>4, ProbeFinds DEF Dict!Get
    <2> QED
      BY <2>1, <2>3, <2>4
  <1>2. ASSUME NEW k \in Keys, hashmap_remove(k)
        PROVE  DInv' /\ Dict!Remove(k)
    <2> DEFINE p == probe(k)
    <2>1. Idle /\ answer' = (IF p.found THEN 1 ELSE 0) /\ UNCHANGED old
      BY <1>2 DEF hashmap_remove
    <2>2. CASE ~p.found
      <3>1. DInv' /\ Contents' = Contents
        BY <1>2, <1>s, <2>2 DEF hashmap_remove
      <3>2. Contents[k] = Missing
        BY <1>n, <2>1, <2>2, ProbeFinds
      <3>3. Contents = [Contents EXCEPT ![k] = Missing]
        BY <3>2, ContentsOf
      <3> QED
        BY <2>1, <2>2, <3>1, <3>2, <3>3 DEF Dict!Remove
    <2>3. CASE p.found
      <3>1. entries' = [entries EXCEPT ![p.index].deleted = TRUE] /\ capacity' = capacity
        BY <1>2, <2>3 DEF hashmap_remove
      <3>2. p.index \in Slots(capacity) /\ Holds(entries[p.index], k)
        BY <2>3, ProbeFinds
      <3>3. Contents[k] # Missing
        BY <1>v, <3>2
      <3> HIDE DEF p
      <3>4. /\ entries \in [Slots(capacity) -> EntryType] /\ capacity \in Nat
        BY <1>t DEF TypeOK
      <3>5. /\ \A s \in Slots(capacity) : s # p.index => entries'[s] = entries[s]
            /\ entries'[p.index].deleted
            /\ entries'[p.index].occupied
        BY <3>1, <3>2, <3>4 DEF EntryType, Holds
      <3>6. \A s \in Slots(capacity) : Holds(entries[s], k) => s = p.index
        BY <3>2 DEF DInv, Single
      <3>7. \A s \in Slots(capacity) : ~Holds(entries'[s], k)
        BY <3>5, <3>6 DEF Holds
      <3>8. \A c \in Keys \ {k}, s \in Slots(capacity) :
               /\ Holds(entries'[s], c) <=> Holds(entries[s], c)
               /\ Holds(entries[s], c) => entries'[s] = entries[s]
        BY <3>2, <3>5 DEF Holds
      <3>9. \A s \in Slots(capacity) : entries[s].occupied => entries'[s].occupied
        BY <3>5
      <3>a. capacity' = capacity
        BY <3>1
      <3>b. Single(entries', Slots(capacity))
        BY <3>7, <3>8 DEF DInv, Single
      <3>10. Single(entries, Slots(capacity))'
        BY <3>a, <3>b DEF Single
      <3>11. Reach'
        <4>1. ASSUME NEW c \in Keys, NEW s \in Slots(capacity), Holds(entries'[s], c)
              PROVE  \E n \in Slots(capacity) :
                        /\ SlotAt(c, n) = s
                        /\ \A j \in Slots(n) : entries'[SlotAt(c, j)].occupied
          <5>1. Holds(entries[s], c)
            BY <4>1, <3>7, <3>8
          <5>2. PICK n \in Slots(capacity) :
                   SlotAt(c, n) = s /\ \A j \in Slots(n) : entries[SlotAt(c, j)].occupied
            BY <5>1 DEF DInv, Reach
          <5>3. \A j \in Slots(n) : j \in Slots(capacity)
            BY <3>4 DEF Slots
          <5>4. \A j \in Slots(n) : SlotAt(c, j) \in Slots(capacity)
            BY <1>t, <5>3, SlotAtRange
          <5> QED
            BY <3>9, <5>2, <5>4
        <4> QED
          BY <3>a, <4>1 DEF Reach, SlotAt
      <3>12. Left' = {} /\ Disjoint' /\ Single(old_entries, Slots(old_capacity))'
        BY <1>i, <2>1 DEF Left, Disjoint, DInv, Single
      <3>13. DInv'
        BY <1>c, <3>10, <3>11, <3>12 DEF DInv
      <3> DEFINE Now(c) == ValueOf(entries, Slots(capacity), old_entries, {}, c)
                 Then(c) == ValueOf(entries', Slots(capacity), old_entries', {}, c)
      <3>14. Then(k) = Missing
        BY <3>7, ValueNowhere
      <3>15. ASSUME NEW c \in Keys \ {k} PROVE Then(c) = Now(c)
        <4>1. CASE \E s \in Slots(capacity) : Holds(entries[s], c)
          <5>1. PICK s \in Slots(capacity) : Holds(entries[s], c)
            BY <4>1
          <5>2. Now(c) = entries[s].value
            BY <5>1, ValueHere DEF DInv
          <5>3. Then(c) = entries'[s].value
            BY <3>8, <3>b, <5>1, ValueHere
          <5> QED
            BY <3>8, <5>1, <5>2, <5>3
        <4>2. CASE \A s \in Slots(capacity) : ~Holds(entries[s], c)
          <5>1. Now(c) = Missing
            BY <4>2, ValueNowhere
          <5>2. Then(c) = Missing
            BY <3>8, <4>2, ValueNowhere
          <5> QED
            BY <5>1, <5>2
        <4> QED
          BY <4>1, <4>2
      <3>16. Contents = [c \in Keys |-> Now(c)] /\ Contents' = [c \in Keys |-> Then(c)]
        BY <1>i, <2>1, <3>1, <3>12, ContentsOf
      <3> HIDE DEF Now, Then
      <3>17. Contents' = [Contents EXCEPT ![k] = Missing]
        BY <3>14, <3>15, <3>16
      <3> QED
        BY <2>1, <2>3, <3>3, <3>13, <3>17 DEF Dict!Remove, p
    <2> QED
      BY <2>2, <2>3
  <1>3. ASSUME NEW k \in Keys, NEW v \in Values, hashmap_put(k, v)
        PROVE  DInv' /\ Dict!Put(k, v)
    <2>1. Idle /\ Insert(k, v) /\ UNCHANGED <<old, answer>>
      BY <1>3 DEF hashmap_put
    <2>2. Left = {} /\ Left' = {}
      BY <1>i, <2>1 DEF Left
    <2>3. Single(entries', Slots(capacity')) /\ Reach'
          /\ Contents' = [Contents EXCEPT ![k] = v]
      BY <2>1, <2>2, InsertPuts
    <2>4. Disjoint' /\ Single(old_entries, Slots(old_capacity))'
      BY <2>1, <2>2 DEF Disjoint, DInv, Single
    <2> QED
      BY <1>c, <2>1, <2>3, <2>4 DEF DInv, Dict!Put
  <1>4. ASSUME NEW k \in Keys, NEW v \in Values, RehashBegin(k, v)
        PROVE  DInv' /\ UNCHANGED <<Contents, answer>>
    <2>1. /\ Idle /\ old_entries' = entries /\ old_capacity' = capacity /\ moved' = 0
          /\ entries' = calloc(NewCapacity) /\ capacity' = NewCapacity
          /\ UNCHANGED answer
      BY <1>4 DEF RehashBegin
    <2>2. NewCapacity \in Nat
      BY <1>t, HashMapAssumption DEF NewCapacity, TypeOK
    <2>3. \A c \in Keys, s \in Slots(capacity') : ~Holds(entries'[s], c)
      BY <2>1, <2>2, CallocHoldsNothing
    <2>4. Left' = Slots(capacity)
      BY <2>1 DEF Left, Slots
    <2>5. DInv'
      <3>1. Single(entries, Slots(capacity))' /\ Reach' /\ Disjoint'
        BY <2>3 DEF Single, Reach, Disjoint
      <3>2. Single(old_entries, Slots(old_capacity))'
        BY <2>1 DEF DInv, Single
      <3> QED
        BY <1>c, <3>1, <3>2 DEF DInv
    <2>6. ASSUME NEW c \in Keys
          PROVE  ValueOf(entries', Slots(capacity'), old_entries', Left', c)
                    = ValueOf(entries, Slots(capacity), old_entries, Left, c)
      <3>1. CASE \E s \in Slots(capacity) : Holds(entries[s], c)
        <4>1. PICK s \in Slots(capacity) : Holds(entries[s], c)
          BY <3>1
        <4>2. ValueOf(entries, Slots(capacity), old_entries, Left, c) = entries[s].value
          BY <4>1, ValueHere DEF DInv
        <4>3. ValueOf(entries', Slots(capacity'), entries, Slots(capacity), c)
                 = entries[s].value
          BY <2>3, <4>1, ValueThere DEF DInv
        <4> QED
          BY <2>1, <2>4, <4>2, <4>3
      <3>2. CASE \A s \in Slots(capacity) : ~Holds(entries[s], c)
        <4>1. ValueOf(entries, Slots(capacity), old_entries, {}, c) = Missing
          BY <3>2, ValueNowhere
        <4>2. ValueOf(entries', Slots(capacity'), entries, Slots(capacity), c) = Missing
          BY <2>3, <3>2, ValueNowhere
        <4> QED
          BY <1>i, <2>1, <2>4, <4>1, <4>2
      <3> QED
        BY <3>1, <3>2
    <2>7. Contents' = Contents
      BY <2>6, ContentsOf, Zenon
    <2> QED
      BY <2>1, <2>5, <2>7
  <1>5. ASSUME RehashMove
        PROVE  DInv' /\ UNCHANGED <<Contents, answer>>
    <2> DEFINE e == old_entries[moved]
               x == probe(e.key).index
               S == Slots(capacity)
    <2>1. /\ ~Idle /\ moved < old_capacity /\ moved' = moved + 1
          /\ UNCHANGED <<capacity, old_entries, old_capacity, putting, answer>>
      BY <1>5 DEF RehashMove
    <2>2. /\ e \in EntryType /\ moved \in Slots(old_capacity)
          /\ moved \in Left /\ moved \notin Left'
          /\ Left = Left' \union {moved} /\ Left \subseteq Slots(old_capacity)
      BY <1>t, <2>1 DEF TypeOK, Slots, Left
    <2>3. Single(old_entries, Slots(old_capacity))'
      BY <2>1 DEF DInv, Single
    <2>4. CASE ~(e.occupied /\ ~e.deleted)
      <3>1. UNCHANGED table
        BY <1>5, <2>4 DEF RehashMove
      <3>2. Single(entries, Slots(capacity))' /\ Reach'
        BY <3>1 DEF DInv, Single, Reach, SlotAt
      <3>3. Disjoint'
        BY <2>1, <2>2, <3>1 DEF DInv, Disjoint
      <3>4. DInv'
        BY <1>c, <2>3, <3>2, <3>3 DEF DInv
      <3>5. \A c \in Keys : LiveIn(old_entries, Left', c) = LiveIn(old_entries, Left, c)
        BY <2>2, <2>4 DEF LiveIn, Holds
      <3>6. ASSUME NEW c \in Keys
            PROVE  ValueOf(entries, S, old_entries, Left', c)
                      = ValueOf(entries, S, old_entries, Left, c)
        <4>1. LiveIn(old_entries, Left', c) = LiveIn(old_entries, Left, c)
          BY <3>5
        <4> QED
          BY <4>1, ValueSame
      <3>7. Contents' = Contents
        BY <2>1, <3>1, <3>6, ContentsOf
      <3> QED
        BY <2>1, <3>4, <3>7
    <2>5. CASE e.occupied /\ ~e.deleted
      <3>1. e.key \in Keys /\ Holds(e, e.key)
        BY <1>c, <2>2, <2>5 DEF CInv, Kept, Holds
      <3>2. entries' = [entries EXCEPT ![x] = e]
        BY <1>5, <2>5 DEF RehashMove
      <3>3. /\ Single(entries', S) /\ Reach'
            /\ x \in S /\ entries'[x] = e
            /\ \A c \in Keys \ {e.key}, s \in S :
                  /\ Holds(entries'[s], c) <=> Holds(entries[s], c)
                  /\ Holds(entries[s], c) => entries'[s] = entries[s]
        BY <2>1, <2>2, <3>1, <3>2, StoreAtProbe
      <3>4. \A s \in Left' : ~Holds(old_entries[s], e.key)
        BY <2>2, <3>1 DEF DInv, Single
      <3>5. \A c \in Keys \ {e.key} : ~Holds(e, c)
        BY DEF Holds
      <3>6. Disjoint'
        <4>1. ASSUME NEW c \in Keys, NEW s \in Left', NEW t \in S, Holds(old_entries[s], c)
              PROVE  ~Holds(entries'[t], c)
          BY <2>2, <3>3, <3>4, <4>1 DEF DInv, Disjoint
        <4> QED
          BY <2>1, <4>1 DEF Disjoint
      <3>7. DInv'
        BY <1>c, <2>1, <2>3, <3>3, <3>6 DEF DInv
      <3> HIDE DEF x
      <3>8. ValueOf(entries', S, old_entries, Left', e.key) = e.value
        BY <3>1, <3>3, ValueHere
      <3>9. ValueOf(entries, S, old_entries, Left, e.key) = e.value
        <4>1. \A s \in S : ~Holds(entries[s], e.key)
          BY <2>2, <3>1 DEF DInv, Disjoint
        <4> QED
          BY <2>2, <3>1, <4>1, ValueThere DEF DInv
      <3>10. ASSUME NEW c \in Keys \ {e.key}
             PROVE  ValueOf(entries', S, old_entries, Left', c)
                       = ValueOf(entries, S, old_entries, Left, c)
        <4>1. CASE \E s \in S : Holds(entries[s], c)
          <5>1. PICK s \in S : Holds(entries[s], c)
            BY <4>1
          <5>2. ValueOf(entries, S, old_entries, Left, c) = entries[s].value
            BY <5>1, ValueHere DEF DInv
          <5>3. ValueOf(entries', S, old_entries, Left', c) = entries'[s].value
            BY <3>3, <5>1, ValueHere
          <5> QED
            BY <3>3, <5>1, <5>2, <5>3
        <4>2. CASE \A s \in S : ~Holds(entries[s], c)
          <5>1. LiveIn(entries, S, c) = {} /\ LiveIn(entries', S, c) = {}
            BY <3>3, <4>2 DEF LiveIn
          <5>2. LiveIn(old_entries, Left', c) = LiveIn(old_entries, Left, c)
            BY <2>2, <3>5 DEF LiveIn
          <5> QED
            BY <5>1, <5>2 DEF ValueOf
        <4> QED
          BY <4>1, <4>2
      <3>11. \A c \in Keys : ValueOf(entries', S, old_entries, Left', c)
                                = ValueOf(entries, S, old_entries, Left, c)
        BY <3>8, <3>9, <3>10
      <3>12. Contents' = Contents
        BY <2>1, <3>11, ContentsOf
      <3> QED
        BY <2>1, <3>7, <3>12
    <2> QED
      BY <2>4, <2>5
  <1>6. ASSUME RehashEnd
        PROVE  DInv' /\ \E k \in Keys, v \in Values : Dict!Put(k, v)
    <2>1. /\ ~Idle /\ moved = old_capacity /\ Insert(putting[1], putting[2])
          /\ old_entries' = calloc(0) /\ old_capacity' = 0 /\ moved' = 0
          /\ UNCHANGED answer
      BY <1>6 DEF RehashEnd
    <2>2. putting[1] \in Keys /\ putting[2] \in Values
      BY <1>t, <2>1 DEF TypeOK, Idle
    <2>3. Left = {} /\ Left' = {}
      BY <1>t, <2>1 DEF Left, TypeOK
    <2>4. /\ Single(entries', Slots(capacity')) /\ Reach'
          /\ Contents' = [Contents EXCEPT ![putting[1]] = putting[2]]
      BY <2>1, <2>2, <2>3, InsertPuts
    <2>5. Disjoint' /\ Single(old_entries, Slots(old_capacity))'
      BY <2>1, <2>3, CallocHoldsNothing DEF Disjoint, Single
    <2>6. Dict!Put(putting[1], putting[2])
      BY <2>1, <2>4 DEF Dict!Put
    <2> QED
      BY <1>c, <2>2, <2>4, <2>5, <2>6 DEF DInv
  <1>7. ASSUME hashmap_clear
        PROVE  DInv' /\ Dict!Clear
    <2>1. /\ Idle /\ entries' = calloc(capacity) /\ capacity' = capacity
          /\ UNCHANGED <<old, answer>>
      BY <1>7 DEF hashmap_clear
    <2>2. \A k \in Keys, s \in Slots(capacity') : ~Holds(entries'[s], k)
      BY <1>t, <2>1, CallocHoldsNothing DEF TypeOK
    <2>3. Left' = {}
      BY <1>i, <2>1 DEF Left
    <2>4. DInv'
      <3>1. Single(entries, Slots(capacity))' /\ Reach' /\ Disjoint'
        BY <2>2 DEF Single, Reach, Disjoint
      <3>2. Single(old_entries, Slots(old_capacity))'
        BY <2>1 DEF DInv, Single
      <3> QED
        BY <1>c, <3>1, <3>2 DEF DInv
    <2>5. \A k \in Keys :
             ValueOf(entries', Slots(capacity'), old_entries', Left', k) = Missing
      BY <2>2, <2>3, ValueNowhere
    <2>6. Contents' = [k \in Keys |-> Missing]
      BY <2>5, ContentsOf
    <2> QED
      BY <2>1, <2>4, <2>6 DEF Dict!Clear, Dict!Blank
  <1>8. ASSUME UNCHANGED vars PROVE DInv' /\ UNCHANGED <<Contents, answer>>
    BY <1>8, <1>s DEF vars
  <1> QED
    BY <1>1, <1>2, <1>3, <1>4, <1>5, <1>6, <1>7, <1>8 DEF Next, Dict!DictNext

(***************************************************************************)
(* hashmap_u32.c implements a map from keys to values: puts, removals,     *)
(* clears and rehashes, in any order and number, lose, revive and          *)
(* duplicate no key, and every lookup and removal answers as the map       *)
(* would.                                                                  *)
(***************************************************************************)
THEOREM HashMapIsDictionary ==
    ASSUME ~CallocFails
    PROVE  Spec => ImplementsDictionary
  <1>1. DInv /\ [Next]_vars => DInv' /\ [Dict!DictNext]_<<Contents, answer>>
    BY NextDict
  <1> QED
    BY InitDInv, <1>1, PTL DEF Spec, ImplementsDictionary, Dict!DictSpec
=============================================================================
