------------------------------ MODULE HashMap -------------------------------
(***************************************************************************)
(* The open-addressing hash map that holds the LR/SC reservations          *)
(* (src/src/hashmap_u32.c): linear probing, tombstones, and a rehash into  *)
(* a table of twice the size when live entries and tombstones together     *)
(* reach three quarters of the slots.                                      *)
(*                                                                         *)
(* Atomics uses the map as a set.  Here the table is the state, and it is  *)
(* shown to implement Dictionary.  The loop of rehash is one step per old  *)
(* entry, so that no definition is recursive; no other operation can run   *)
(* before the put that started it has ended.                               *)
(***************************************************************************)
EXTENDS Integers, FiniteSets

CONSTANTS
    Keys, Values,
    Missing,            \* the answer of a lookup that fails, not a value
    Hash,               \* hash_uint32, a function on Keys
    InitialCapacity,    \* 128
    MaxCapacity,        \* bound: a put that would grow the table further is not taken
    CallocFails         \* may calloc return NULL?

ASSUME HashMapAssumption ==
    /\ Hash \in [Keys -> Nat]
    /\ InitialCapacity \in Nat /\ InitialCapacity >= 4
    /\ MaxCapacity \in Nat
    /\ CallocFails \in BOOLEAN
    /\ Missing \notin Values

VARIABLES
    entries, capacity, size, tombstone_count,
    old_entries, old_capacity, moved,   \* a rehash under way: the old table and its loop index
    putting,                            \* the put that waits for it, or NoPut
    answer                              \* what the last get or remove returned

table == <<entries, capacity, size, tombstone_count>>
old == <<old_entries, old_capacity, moved>>
vars == <<table, old, putting, answer>>

Zeroed == [occupied |-> FALSE, deleted |-> FALSE, key |-> 0, value |-> 0]
Entry(k, v) == [occupied |-> TRUE, deleted |-> FALSE, key |-> k, value |-> v]
Slots(n) == 0 .. n - 1
calloc(n) == [s \in Slots(n) |-> Zeroed]
Holds(e, k) == e.occupied /\ ~e.deleted /\ e.key = k

NoPut == <<>>
Idle == putting = NoPut

hashmap_init ==
    /\ capacity = InitialCapacity
    /\ size = 0 /\ tombstone_count = 0
    /\ entries = calloc(InitialCapacity)
    /\ old_entries = calloc(0) /\ old_capacity = 0 /\ moved = 0
    /\ putting = NoPut
    /\ answer = Missing

-----------------------------------------------------------------------------
\* The slot probe looks at in its i-th iteration.
SlotAt(k, i) == ((Hash[k] % capacity) + i) % capacity

\* The iterations that would end probe, and those that meet a tombstone.
Stops(k) ==
    {i \in Slots(capacity) :
        \/ ~entries[SlotAt(k, i)].occupied
        \/ Holds(entries[SlotAt(k, i)], k)}
Tombs(k) == {i \in Slots(capacity) : entries[SlotAt(k, i)].deleted}

Least(S) == CHOOSE i \in S : \A j \in S : i <= j

probe(k) ==
    IF Stops(k) = {} THEN [found |-> FALSE, index |-> 0]
    ELSE LET end == Least(Stops(k))
             tombs == {i \in Tombs(k) : i < end}
         IN  IF Holds(entries[SlotAt(k, end)], k)
             THEN [found |-> TRUE, index |-> SlotAt(k, end)]
             ELSE [found |-> FALSE,
                   index |-> SlotAt(k, IF tombs = {} THEN end ELSE Least(tombs))]

\* hashmap_put once the table has room.
Insert(k, v) ==
    LET p == probe(k)
    IN  /\ entries' = [entries EXCEPT ![p.index] = Entry(k, v)]
        /\ size' = IF p.found THEN size ELSE size + 1
        /\ tombstone_count' =
              IF ~p.found /\ entries[p.index].deleted
              THEN tombstone_count - 1 ELSE tombstone_count
        /\ UNCHANGED capacity

MutOverloadedAtFull == size + tombstone_count >= capacity

\* The load factor, 0.75, in integers.
Overloaded == 4 * (size + tombstone_count) >= 3 * capacity

NewCapacity ==
    IF 2 * capacity < InitialCapacity THEN InitialCapacity ELSE 2 * capacity

\* A put that finds room, or whose rehash gets no memory and keeps the table.
hashmap_put(k, v) ==
    /\ Idle
    /\ ~Overloaded \/ CallocFails
    /\ Insert(k, v)
    /\ UNCHANGED <<old, putting, answer>>

\* A put that finds the table overloaded: rehash allocates the new table ...
RehashBegin(k, v) ==
    /\ Idle
    /\ Overloaded
    /\ NewCapacity <= MaxCapacity
    /\ old_entries' = entries /\ old_capacity' = capacity /\ moved' = 0
    /\ entries' = calloc(NewCapacity) /\ capacity' = NewCapacity
    /\ size' = 0 /\ tombstone_count' = 0
    /\ putting' = <<k, v>>
    /\ UNCHANGED answer

\* ... its loop moves the live entries in slot order ...
RehashMove ==
    /\ ~Idle /\ moved < old_capacity
    /\ LET e == old_entries[moved]
       IN  IF e.occupied /\ ~e.deleted
           THEN /\ entries' = [entries EXCEPT ![probe(e.key).index] = e]
                /\ size' = size + 1
                /\ UNCHANGED <<capacity, tombstone_count>>
           ELSE UNCHANGED table
    /\ moved' = moved + 1
    /\ UNCHANGED <<old_entries, old_capacity, putting, answer>>

\* ... and the put goes on in the new table; the old one is freed.
RehashEnd ==
    /\ ~Idle /\ moved = old_capacity
    /\ Insert(putting[1], putting[2])
    /\ old_entries' = calloc(0) /\ old_capacity' = 0 /\ moved' = 0
    /\ putting' = NoPut
    /\ UNCHANGED answer

hashmap_get(k) ==
    /\ Idle
    /\ answer' = IF probe(k).found THEN entries[probe(k).index].value ELSE Missing
    /\ UNCHANGED <<table, old, putting>>

MutRemoveFrees(k) ==
    /\ Idle
    /\ LET p == probe(k)
       IN  /\ answer' = IF p.found THEN 1 ELSE 0
           /\ IF p.found
              THEN /\ entries' = [entries EXCEPT ![p.index] = Zeroed]
                   /\ size' = size - 1
                   /\ UNCHANGED <<capacity, tombstone_count>>
              ELSE UNCHANGED table
    /\ UNCHANGED <<old, putting>>

hashmap_remove(k) ==
    /\ Idle
    /\ LET p == probe(k)
       IN  /\ answer' = IF p.found THEN 1 ELSE 0
           /\ IF p.found
              THEN /\ entries' = [entries EXCEPT ![p.index].deleted = TRUE]
                   /\ size' = size - 1
                   /\ tombstone_count' = tombstone_count + 1
                   /\ UNCHANGED capacity
              ELSE UNCHANGED table
    /\ UNCHANGED <<old, putting>>

hashmap_clear ==
    /\ Idle
    /\ entries' = calloc(capacity)
    /\ size' = 0 /\ tombstone_count' = 0
    /\ UNCHANGED <<capacity, old, putting, answer>>

Next ==
    \/ \E k \in Keys :
          \/ hashmap_get(k) \/ hashmap_remove(k)
          \/ \E v \in Values : hashmap_put(k, v) \/ RehashBegin(k, v)
    \/ RehashMove \/ RehashEnd
    \/ hashmap_clear

Spec == hashmap_init /\ [][Next]_vars

-----------------------------------------------------------------------------
(***************************************************************************)
(* Every probe meets its key or a free slot.  The loop's fallback, "not    *)
(* found, slot 0", is never reached: through it a put would overwrite      *)
(* whatever slot 0 holds, and the assertion in rehash could fail.          *)
(***************************************************************************)
ProbeEnds == \A k \in Keys : Stops(k) # {}

\* Where key k lives: in the table, or in the part of the old one that is still
\* to be moved.
Homes(k) == {s \in Slots(capacity) : Holds(entries[s], k)}
OldHomes(k) == {s \in moved .. old_capacity - 1 : Holds(old_entries[s], k)}

Contents ==
    [k \in Keys |->
        IF Homes(k) # {} THEN entries[CHOOSE s \in Homes(k) : TRUE].value
        ELSE IF OldHomes(k) # {} THEN old_entries[CHOOSE s \in OldHomes(k) : TRUE].value
        ELSE Missing]

Dict == INSTANCE Dictionary WITH dict <- Contents

(***************************************************************************)
(* The table implements the map: no put, removal or rehash loses, revives  *)
(* or duplicates a key, and lookups see the last value put, whatever       *)
(* tombstones lie on the probe path.                                       *)
(***************************************************************************)
ImplementsDictionary == Dict!DictSpec
=============================================================================
