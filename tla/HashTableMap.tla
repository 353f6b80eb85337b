---------------------------- MODULE HashTableMap ----------------------------
(***************************************************************************)
(* What a hash table promises its callers (the HashTable<K, V> interface   *)
(* that ExtendibleHash implements): a finite map from keys to values that  *)
(* changes only by Insert and Remove, each taking effect at one instant.   *)
(* Find does not change the map.                                           *)
(* Insert of a key that is present keeps its value, as std::map::insert   *)
(* does; the design's "upsert" is stated separately, on the detailed spec. *)
(***************************************************************************)
CONSTANTS
    Keys,
    Values,     \* every value a table entry can hold
    Absent      \* the map's value for a key it does not contain

ASSUME Absent \notin Values

VARIABLE map

Init == map = [k \in Keys |-> Absent]

Insert(k, v) ==
    map' = [map EXCEPT ![k] = IF @ = Absent THEN v ELSE @]

Remove(k) == map' = [map EXCEPT ![k] = Absent]

Next ==
    \/ \E k \in Keys, v \in Values : Insert(k, v)
    \/ \E k \in Keys : Remove(k)

Spec == Init /\ [][Next]_map

=============================================================================
