---------------------------- MODULE IndexKeySet -----------------------------
(***************************************************************************)
(* What the B+tree index promises its callers: a set of unique keys that   *)
(* changes only by Insert (adds the key if it is absent; a duplicate is    *)
(* refused and changes nothing) and Remove (drops the key if present),     *)
(* each taking effect at one instant.  GetValue reports membership.  Every *)
(* page operation moves a key and its value as one pair, so the values are *)
(* left out and only the keys are kept.                                    *)
(***************************************************************************)
CONSTANT Keys

VARIABLE keys

Init == keys = {}

Insert(k) == keys' = keys \cup {k}

Remove(k) == keys' = keys \ {k}

Next ==
    \/ \E k \in Keys : Insert(k)
    \/ \E k \in Keys : Remove(k)

Spec == Init /\ [][Next]_keys

=============================================================================
