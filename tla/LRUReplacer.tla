---------------------------- MODULE LRUReplacer ----------------------------
(***************************************************************************)
(* The LRU replacer of src/project1/src/buffer/lru_replacer.cpp (and of    *)
(* src/project2/src/buffer/lru_replacer.cpp, the same list code with a     *)
(* different Size).                                                        *)
(*                                                                         *)
(* The code keeps a doubly linked list between the sentinels mHead and     *)
(* mTail plus a hash map mDataMap from item to list node.  Insert links    *)
(* the item right after mHead (unlinking it first if it is tracked),       *)
(* Victim unlinks the node right before mTail, Erase unlinks the item.     *)
(* The list is a sequence, most recently inserted first; the map is the    *)
(* set of items of the sequence.  Every operation runs under mLatch, so    *)
(* each is one function of the list, applied inside the step of the       *)
(* buffer pool operation that calls it (BufferPoolManager instantiates     *)
(* this module).  The only caller, the pool, inserts a frame only when its *)
(* pin count falls to 0 and erases it when it is pinned again, so it never *)
(* re-inserts a tracked item; only the replacer's unit tests do.           *)
(***************************************************************************)
EXTENDS Naturals, Sequences, SequencesExt

(* Faulty variant of LruInsert: the node is linked before mTail instead of *)
(* after mHead, so Victim takes the most recently inserted item.           *)
LruInsertAtTail(s, v) == Remove(s, v) \o <<v>>

(* Insert: unlink the node of v if mDataMap has one, link it after mHead.  *)
LruInsert(s, v) == <<v>> \o Remove(s, v)

(* Erase: unlink the node of v if present; the map erase reports it.       *)
LruErase(s, v) == Remove(s, v)

(* Victim: the node before mTail is the least recently inserted item.      *)
LruVictim(s) == Last(s)

(* The list once Victim has unlinked that node.                            *)
LruAfterVictim(s) == Front(s)

(* Size of project1: mDataMap.size().                                      *)
LruSize(s) == Len(s)

(* Size of src/project2/src/buffer/lru_replacer.cpp: the map size is       *)
(* commented out and the function always returns 1.                        *)
LruSizeP2(s) == 1

=============================================================================
