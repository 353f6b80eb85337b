--------------------------- MODULE ExtendibleHash ---------------------------
(***************************************************************************)
(* ExtendibleHash<K, V> of src/project1/src/hash/extendible_hash.cpp.      *)
(*                                                                         *)
(* The directory mBuckets maps slot i (0 .. 2^mGlobalDepth - 1) to a       *)
(* bucket; a bucket has a localDepth, a std::map dataMap and a latch.      *)
(* Buckets are named by the value of mBucketNum when they were created.    *)
(* Keys are integers and HashKey is std::hash<int>, the identity.          *)
(*                                                                         *)
(* Threads run Insert, Remove and Find concurrently.  Each step below is   *)
(* one critical section of the code, or one unlatched read:                *)
(*   Insert  InsStart   lines 113-114  getBucketIndex (mLatch), then the   *)
(*                                      unlatched read of mBuckets[index]  *)
(*           InsLock    lines 117-126  lock cur->latch, then either put    *)
(*                                      the pair (no overwrite) and return *)
(*                                      or increment cur's localDepth      *)
(*           InsSplit   lines 130-155  under mLatch: double, create the   *)
(*                                      new bucket, move entries, re-point *)
(*                                      slots; re-address; unlock cur      *)
(*   Remove  RemStart   lines 96-97    getBucketIndex, read mBuckets[index]*)
(*           RemLock    lines 97-103   lock that bucket, erase, unlock     *)
(*   Find    FindStart  line 73        getBucketIndex                      *)
(*           FindCheck  line 75        unlatched dataMap.find              *)
(*           FindRead   line 76        unlatched dataMap[key], which       *)
(*                                      inserts V() when the key is absent *)
(* mLatch is only held inside one step, so it needs no variable.           *)
(***************************************************************************)
EXTENDS Integers, FiniteSets, Functions

CONSTANTS
    Keys,        \* the integer keys used, each its own hash
    Values,      \* values callers insert
    NullValue,   \* V(), what dataMap[key] creates for an absent key
    Absent,      \* "no entry" in a bucket's dataMap
    BucketSize,  \* mBucketSize
    Threads,
    NoThread,    \* owner of a free bucket latch
    MaxDepth     \* bound on mGlobalDepth: a split that would double a
                 \* directory of this depth is not modelled

ASSUME /\ Keys \subseteq Nat /\ BucketSize \in Nat \ {0} /\ MaxDepth \in Nat
       /\ NullValue \notin Values /\ Absent \notin Values \cup {NullValue}
       /\ NoThread \notin Threads

Entries == Values \cup {NullValue}
BucketIds == 0 .. 2^MaxDepth - 1
Key0 == CHOOSE k \in Keys : TRUE      \* an idle thread's key argument
Pcs == {"idle", "ins_lock", "ins_split", "rem_lock",
        "find_check", "find_read"}

VARIABLES
    gd,        \* mGlobalDepth
    dir,       \* mBuckets: [0 .. 2^gd - 1 -> BucketIds]
    ld,        \* localDepth of every bucket
    data,      \* dataMap of every bucket: [Keys -> Entries \cup {Absent}]
    nBuckets,  \* mBucketNum; buckets 0 .. nBuckets - 1 exist
    latch,     \* owner of each bucket's latch
    pc, key, val, idx, cur    \* per thread: step, arguments, locals

tableVars == <<gd, dir, ld, data, nBuckets, latch>>
threadVars == <<pc, key, val, idx, cur>>
vars == <<tableVars, threadVars>>

-----------------------------------------------------------------------------
HashKey(k) == k

(* getBucketIndex: HashKey(key) & ((1 << mGlobalDepth) - 1).              *)
BucketIndex(k) == HashKey(k) % (2^gd)

(* x & (1 << d) is non-zero.                                               *)
BitSet(x, d) == (x \div 2^d) % 2 = 1

(* dataMap.size() *)
Size(b) == Cardinality({k \in Keys : data[b][k] # Absent})

(* The directory after the push_back loop: slot i + length aliases slot i. *)
Doubled(dr) == [i \in 0 .. 2 * Cardinality(DOMAIN dr) - 1 |->
                    dr[i % Cardinality(DOMAIN dr)]]

(* Faulty variant of Redistribute: entries are tested against the bit     *)
(* above the one that tells the two halves apart.                          *)
RedistributeWrongBit(m, d) ==
    [keep |-> [k \in Keys |-> IF BitSet(HashKey(k), d) THEN Absent ELSE m[k]],
     move |-> [k \in Keys |-> IF BitSet(HashKey(k), d) THEN m[k] ELSE Absent]]

(* Faulty variant of Redistribute: entries erased from the full bucket    *)
(* are not copied into the new one.                                        *)
RedistributeDropped(m, d) ==
    [keep |-> [k \in Keys |-> IF BitSet(HashKey(k), d - 1) THEN Absent ELSE m[k]],
     move |-> [k \in Keys |-> Absent]]

(* Lines 141-146: an entry whose hash has bit (1 << oldLocalDepth) set     *)
(* moves from the full bucket to the new one; d is the new localDepth.     *)
Redistribute(m, d) ==
    [keep |-> [k \in Keys |-> IF BitSet(HashKey(k), d - 1) THEN Absent ELSE m[k]],
     move |-> [k \in Keys |-> IF BitSet(HashKey(k), d - 1) THEN m[k] ELSE Absent]]

(* Faulty variant of Repoint: every slot with the bit set is re-pointed,  *)
(* whether or not it addressed the bucket being split.                     *)
RepointAll(dr, c, nb, d) ==
    [i \in DOMAIN dr |-> IF BitSet(i, d - 1) THEN nb ELSE dr[i]]

(* Faulty variant of Repoint: the slots are pointed at the bucket number  *)
(* after the increment of mBucketNum instead of the new bucket's.          *)
RepointNextId(dr, c, nb, d) ==
    [i \in DOMAIN dr |-> IF dr[i] = c /\ BitSet(i, d - 1) THEN nb + 1 ELSE dr[i]]

(* Lines 147-150: slots of the split bucket with the bit set now address  *)
(* the new bucket.                                                         *)
Repoint(dr, c, nb, d) ==
    [i \in DOMAIN dr |-> IF dr[i] = c /\ BitSet(i, d - 1) THEN nb ELSE dr[i]]

(* Faulty variant of Readdress: line 153 keeps the index computed with    *)
(* the depth the loop iteration started with.                              *)
ReaddressStale(k, g) == HashKey(k) % (2^gd)

(* Lines 153-154: the key is addressed again with the current depth.      *)
Readdress(k, g) == HashKey(k) % (2^g)

-----------------------------------------------------------------------------
Init ==
    /\ gd = 0
    /\ dir = [i \in {0} |-> 0]
    /\ ld = [b \in BucketIds |-> 0]
    /\ data = [b \in BucketIds |-> [k \in Keys |-> Absent]]
    /\ nBuckets = 1
    /\ latch = [b \in BucketIds |-> NoThread]
    /\ pc = [t \in Threads |-> "idle"]
    /\ key = [t \in Threads |-> Key0]
    /\ val = [t \in Threads |-> NullValue]
    /\ idx = [t \in Threads |-> 0]
    /\ cur = [t \in Threads |-> 0]

(* A call returns: its arguments and locals go out of scope.               *)
Return(t) ==
    /\ pc' = [pc EXCEPT ![t] = "idle"]
    /\ key' = [key EXCEPT ![t] = Key0]
    /\ val' = [val EXCEPT ![t] = NullValue]
    /\ idx' = [idx EXCEPT ![t] = 0]
    /\ cur' = [cur EXCEPT ![t] = 0]

(* Insert, lines 113-114: the index is computed under mLatch; the bucket  *)
(* pointer is read from mBuckets without any latch.                        *)
InsStart(t, k, v) ==
    /\ pc[t] = "idle"
    /\ pc' = [pc EXCEPT ![t] = "ins_lock"]
    /\ key' = [key EXCEPT ![t] = k]
    /\ val' = [val EXCEPT ![t] = v]
    /\ idx' = [idx EXCEPT ![t] = BucketIndex(k)]
    /\ cur' = [cur EXCEPT ![t] = dir[BucketIndex(k)]]
    /\ UNCHANGED tableVars

(* Lines 117-122: with cur's latch, a present key or a bucket with room   *)
(* takes the pair; std::map::insert keeps the value of a present key.      *)
InsPut(t) ==
    LET c == cur[t] IN
    /\ pc[t] = "ins_lock"
    /\ latch[c] = NoThread
    /\ data[c][key[t]] # Absent \/ Size(c) < BucketSize
    /\ data' = [data EXCEPT ![c][key[t]] = IF @ = Absent THEN val[t] ELSE @]
    /\ Return(t)
    /\ UNCHANGED <<gd, dir, ld, nBuckets, latch>>

(* Lines 117, 125-126: the bucket is full and lacks the key; the thread   *)
(* keeps cur's latch and raises its localDepth before taking mLatch.       *)
InsFull(t) ==
    LET c == cur[t] IN
    /\ pc[t] = "ins_lock"
    /\ latch[c] = NoThread
    /\ data[c][key[t]] = Absent
    /\ Size(c) >= BucketSize
    /\ latch' = [latch EXCEPT ![c] = t]
    /\ ld' = [ld EXCEPT ![c] = @ + 1]
    /\ pc' = [pc EXCEPT ![t] = "ins_split"]
    /\ UNCHANGED <<gd, dir, data, nBuckets, key, val, idx, cur>>

(* Lines 130-155 under mLatch: double the directory when the new local    *)
(* depth exceeds the global one, create bucket nBuckets, move entries and  *)
(* slots to it, then re-address the key and release cur's latch at the end *)
(* of the loop body.  A directory that would outgrow MaxDepth is the       *)
(* model's bound: such a split is not taken, the thread stays stuck.       *)
InsSplit(t) ==
    LET c    == cur[t]
        d    == ld[c]
        grow == d > gd
        dr   == IF grow THEN Doubled(dir) ELSE dir
        gd1  == IF grow THEN gd + 1 ELSE gd
        nb   == nBuckets
        parts == Redistribute(data[c], d)
        dir1 == Repoint(dr, c, nb, d)
        i1   == Readdress(key[t], gd1)
    IN
    /\ pc[t] = "ins_split"
    /\ ~(grow /\ gd = MaxDepth)
    /\ gd' = gd1
    /\ dir' = dir1
    /\ nBuckets' = nb + 1
    /\ ld' = [ld EXCEPT ![nb] = d]
    /\ data' = [data EXCEPT ![c] = parts.keep, ![nb] = parts.move]
    /\ latch' = [latch EXCEPT ![c] = NoThread]
    /\ idx' = [idx EXCEPT ![t] = i1]
    /\ cur' = [cur EXCEPT ![t] = dir1[i1]]
    /\ pc' = [pc EXCEPT ![t] = "ins_lock"]
    /\ UNCHANGED <<key, val>>

(* Remove, lines 96-97: index under mLatch, then mBuckets[index] is read  *)
(* to name the latch to wait for.                                          *)
RemStart(t, k) ==
    /\ pc[t] = "idle"
    /\ pc' = [pc EXCEPT ![t] = "rem_lock"]
    /\ key' = [key EXCEPT ![t] = k]
    /\ idx' = [idx EXCEPT ![t] = BucketIndex(k)]
    /\ cur' = [cur EXCEPT ![t] = dir[BucketIndex(k)]]
    /\ UNCHANGED <<tableVars, val>>

(* Lines 97-103: with that bucket's latch, erase the key if present.       *)
RemLock(t) ==
    LET c == cur[t] IN
    /\ pc[t] = "rem_lock"
    /\ latch[c] = NoThread
    /\ data' = [data EXCEPT ![c][key[t]] = Absent]
    /\ Return(t)
    /\ UNCHANGED <<gd, dir, ld, nBuckets, latch>>

(* Find, line 73.                                                          *)
FindStart(t, k) ==
    /\ pc[t] = "idle"
    /\ pc' = [pc EXCEPT ![t] = "find_check"]
    /\ key' = [key EXCEPT ![t] = k]
    /\ idx' = [idx EXCEPT ![t] = BucketIndex(k)]
    /\ UNCHANGED <<tableVars, val, cur>>

(* Line 75, no latch: dataMap.find on mBuckets[index]; absent returns     *)
(* false.                                                                  *)
FindCheck(t) ==
    LET b == dir[idx[t]] IN
    /\ pc[t] = "find_check"
    /\ \/ /\ data[b][key[t]] = Absent
          /\ Return(t)
       \/ /\ data[b][key[t]] # Absent
          /\ pc' = [pc EXCEPT ![t] = "find_read"]
          /\ UNCHANGED <<key, val, idx, cur>>
    /\ UNCHANGED tableVars

(* Line 76, no latch: mBuckets[index] is read again and dataMap[key]      *)
(* returns the value, or inserts V() and returns it if the key is gone.       *)
FindRead(t) ==
    LET b == dir[idx[t]] IN
    /\ pc[t] = "find_read"
    /\ data' = [data EXCEPT ![b][key[t]] = IF @ = Absent THEN NullValue ELSE @]
    /\ Return(t)
    /\ UNCHANGED <<gd, dir, ld, nBuckets, latch>>

Next ==
    \E t \in Threads :
        \/ \E k \in Keys, v \in Values : InsStart(t, k, v)
        \/ InsPut(t) \/ InsFull(t) \/ InsSplit(t)
        \/ \E k \in Keys : RemStart(t, k) \/ FindStart(t, k)
        \/ RemLock(t)
        \/ FindCheck(t) \/ FindRead(t)

Spec == Init /\ [][Next]_vars

(* Weak fairness of each thread's steps inside a call.  Threads wait only *)
(* on std::mutex latches, which their holders release within the step     *)
(* that took them or the next split, and none of the code's loops spins   *)
(* on a latch, so a thread that can go on does.  Starting a call is the    *)
(* caller's choice and is not fair.                                        *)
FairSpec == Spec /\ \A t \in Threads :
    WF_vars(InsPut(t) \/ InsFull(t) \/ InsSplit(t) \/ RemLock(t)
            \/ FindCheck(t) \/ FindRead(t))

-----------------------------------------------------------------------------
TypeOK ==
    /\ gd \in 0 .. MaxDepth
    /\ dir \in [0 .. 2^gd - 1 -> 0 .. nBuckets - 1]
    /\ nBuckets \in 1 .. 2^MaxDepth
    /\ ld \in [BucketIds -> 0 .. MaxDepth + 1]
    /\ data \in [BucketIds -> [Keys -> Entries \cup {Absent}]]
    /\ latch \in [BucketIds -> Threads \cup {NoThread}]
    /\ pc \in [Threads -> Pcs]
    /\ key \in [Threads -> Keys]
    /\ idx \in [Threads -> Nat]
    /\ cur \in [Threads -> BucketIds]

(* A bucket whose latch is held by a thread between InsFull and InsSplit   *)
(* has its localDepth raised already but not its slots.                    *)
Settled(b) == latch[b] = NoThread

(* The directory of extendible hashing: every bucket is addressed by      *)
(* exactly the slots that agree with one of them in their low localDepth   *)
(* bits, localDepth never exceeds mGlobalDepth, and the buckets created,   *)
(* mBucketNum of them, are all addressed.  Splits (lines 125-150) keep     *)
(* this even though localDepth is raised before mLatch is taken and two    *)
(* threads may be splitting different buckets at once.                     *)
DirectoryConsistent ==
    /\ Range(dir) = 0 .. nBuckets - 1
    /\ \A i, j \in DOMAIN dir :
         Settled(dir[i]) =>
            /\ ld[dir[i]] <= gd
            /\ (dir[j] = dir[i] <=>
                  i % 2^ld[dir[i]] = j % 2^ld[dir[i]])

(* Every entry is stored in the bucket the directory addresses for its    *)
(* key, so that Find and Remove, which look only there, see it.           *)
KeysWellPlaced ==
    \A b \in 0 .. nBuckets - 1, k \in Keys :
        data[b][k] # Absent => dir[BucketIndex(k)] = b

(* The map the table presents: for each key, the entry in the bucket its  *)
(* slot addresses.                                                         *)
Visible == [k \in Keys |-> data[dir[BucketIndex(k)]][k]]

AbsMap == INSTANCE HashTableMap WITH map <- Visible, Values <- Entries

(* The table implements a map changed only by Insert and Remove, each at  *)
(* one instant: splits and Find leave every key's entry as it was, and a   *)
(* key keeps its first value (std::map::insert, line 121).                 *)
MapRefinement == AbsMap!Spec

(* Find (lines 72-81) only reads: when a Find returns, no entry of any    *)
(* bucket has changed in that step.                                        *)
FindReadOnly ==
    [][\A t \in Threads :
          pc[t] = "find_read" /\ pc'[t] = "idle" => data' = data]_vars

(* Every Insert returns: the split loop of lines 116-155 ends with the     *)
(* key placed, because each split separates the full bucket's keys by one  *)
(* more hash bit until the key's bucket has room.                          *)
InsertReturns ==
    \A t \in Threads : pc[t] = "ins_lock" ~> pc[t] = "idle"

=============================================================================
