----------------------------- MODULE Dictionary -----------------------------
(***************************************************************************)
(* What src/include/hashmap_u32.h promises its callers: a map from keys to *)
(* values.  `answer` is what the last lookup or removal returned.          *)
(***************************************************************************)
CONSTANTS Keys, Values, Missing
VARIABLES dict, answer

Blank == [k \in Keys |-> Missing]

Put(k, v) == dict' = [dict EXCEPT ![k] = v] /\ UNCHANGED answer
Get(k) == answer' = dict[k] /\ UNCHANGED dict
Remove(k) ==
    /\ dict' = [dict EXCEPT ![k] = Missing]
    /\ answer' = IF dict[k] # Missing THEN 1 ELSE 0
Clear == dict' = Blank /\ UNCHANGED answer

DictInit == dict = Blank /\ answer = Missing
DictNext ==
    \/ \E k \in Keys : Get(k) \/ Remove(k) \/ \E v \in Values : Put(k, v)
    \/ Clear
DictSpec == DictInit /\ [][DictNext]_<<dict, answer>>
=============================================================================
