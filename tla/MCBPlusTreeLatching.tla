------------------------ MODULE MCBPlusTreeLatching -------------------------
(* Instances of BPlusTreeLatching for TLC.                                 *)
EXTENDS BPlusTreeLatching

CONSTANTS t1, t2

MCThreads == {t1, t2}

(* A tree of height 3: root [3], internal [_,2] over leaves [1] [2] and    *)
(* internal [_,4] over leaves [3] [4,5].                                   *)
MCInitKeys == <<1, 2, 3, 4, 5>>

Call(op, k) == [op |-> op, key |-> k]

(* Thread t1 iterates, Removes keys whose leaves then merge (up to the     *)
(* root for 2) and Inserts a key that splits a full leaf; t2 Removes a key *)
(* next to t1's, Inserts a present key, looks up keys that move and runs   *)
(* Begin(4), a key no call removes.  No Remove here empties the leaf an    *)
(* iterator is about to hop to (that race is MCStaleHop's).                *)
MCCalls ==
    t1 :> {Call("scan", 0), Call("remove", 3), Call("remove", 2), Call("insert", 6)}
    @@ t2 :> {Call("remove", 5), Call("insert", 1), Call("get", 2), Call("get", 5),
              Call("seek", 4)}

(* The iterator alone against Removes of the next leaf's key.              *)
MCStaleHopCalls ==
    t1 :> {Call("scan", 0)} @@ t2 :> {Call("remove", 2), Call("remove", 3)}
(* A tree of one leaf [1]: an Insert against the Remove that empties it.  *)
MCOneKey == <<1>>

MCEmptyRaceCalls == t1 :> {Call("insert", 2)} @@ t2 :> {Call("remove", 1)}
====
