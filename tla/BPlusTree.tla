----------------------------- MODULE BPlusTree ------------------------------
(***************************************************************************)
(* The B+tree index of src/project2/src, run by one thread at a time: the  *)
(* pages of page/b_plus_tree_{leaf,internal}_page.cpp and the Insert and   *)
(* Remove paths of index/b_plus_tree.cpp (split, InsertIntoParent, new     *)
(* root, coalesce, redistribute, AdjustRoot).                              *)
(*                                                                         *)
(* A page is a record.  Its array is kept as the sequence of its first     *)
(* size entries: slot i of the code is position i+1 here.  A leaf holds    *)
(* keys (each value travels with its key); an internal page holds keys and *)
(* child page ids, keys[1] being the slot-0 key the code never searches.   *)
(* The buffer pool is left out: a page id maps straight to its page.  Page *)
(* ids come from the disk manager's counter and are never reused; a page   *)
(* the tree deletes leaves the domain of pg.  Insert and Remove each run   *)
(* as one step (the latching of concurrent runs is in BPlusTreeLatching).  *)
(* Page capacities are parameters: the code derives them from PAGE_SIZE    *)
(* and every algorithm depends on them only through GetMaxSize.            *)
(***************************************************************************)
EXTENDS Integers, Sequences, SequencesExt, FiniteSets, TLC

CONSTANTS
    Keys,           \* the keys callers insert and remove: positive integers
    LeafMax,        \* GetMaxSize() of a leaf page (Init: computed - 1)
    InternalMax,    \* GetMaxSize() of an internal page
    MaxPageId,      \* bound on the page ids the disk manager hands out
    INVALID_PAGE_ID

ASSUME /\ Keys \subseteq Nat \ {0}
       /\ LeafMax \in Nat /\ LeafMax >= 2
       /\ InternalMax \in Nat /\ InternalMax >= 3

(* The key of a slot NewPage zeroed and nobody wrote: ResetMemory.         *)
ZeroKey == 0

PageIds == 1..MaxPageId

VARIABLES
    root,           \* root_page_id_
    pg,             \* page id -> page, for the pages the tree has not deleted
    nextPageId      \* the id the disk manager allocates next

vars == <<root, pg, nextPageId>>

(* The tree's state as one record, so the recursive operations can pass it *)
(* along and return the state they leave.                                  *)
Tree == [root |-> root, pg |-> pg, next |-> nextPageId]

IsLeaf(p) == p.kind = "leaf"

Size(p) == Len(p.keys)

(* BPlusTreePage::GetMaxSize and GetMinSize.                               *)
MaxOf(p) == IF IsLeaf(p) THEN LeafMax ELSE InternalMax

MinOf(p) ==
    IF p.parent = INVALID_PAGE_ID THEN (IF IsLeaf(p) THEN 1 ELSE 2)
    ELSE MaxOf(p) \div 2

NewLeaf(par, ks) ==
    [kind |-> "leaf", parent |-> par, keys |-> ks, vals |-> <<>>,
     next |-> INVALID_PAGE_ID]

NewInternal(par, ks, vs) ==
    [kind |-> "internal", parent |-> par, keys |-> ks, vals |-> vs,
     next |-> INVALID_PAGE_ID]

-----------------------------------------------------------------------------
(* Searches.  KeyIndex (leaf) and Lookup (internal) are the code's binary *)
(* searches, step for step; RefKeyIndex and RefLookup say what they must   *)
(* compute on a sorted array.                                              *)

RECURSIVE KeyIndexFrom(_, _, _, _)
KeyIndexFrom(ks, k, begin, end) ==
    IF begin > end THEN end + 1
    ELSE LET mid == (end - begin) \div 2 + begin IN
         IF ks[mid + 1] >= k THEN KeyIndexFrom(ks, k, begin, mid - 1)
                             ELSE KeyIndexFrom(ks, k, mid + 1, end)

(* B_PLUS_TREE_LEAF_PAGE_TYPE::KeyIndex: the first slot whose key is >= k. *)
KeyIndex(ks, k) == KeyIndexFrom(ks, k, 0, Len(ks) - 1)

RefKeyIndex(ks, k) == Cardinality({i \in 1..Len(ks) : ks[i] < k})

(* Faulty variant of Lookup's search: "< 0" for "<= 0", so a key equal to *)
(* a separator is sent to the child left of it.                            *)
RECURSIVE LookupFromStrict(_, _, _, _)
LookupFromStrict(ks, k, begin, end) ==
    IF begin > end THEN begin
    ELSE LET mid == (end - begin) \div 2 + begin IN
         IF ks[mid + 1] < k THEN LookupFromStrict(ks, k, mid + 1, end)
                            ELSE LookupFromStrict(ks, k, begin, mid - 1)

RECURSIVE LookupFrom(_, _, _, _)
LookupFrom(ks, k, begin, end) ==
    IF begin > end THEN begin
    ELSE LET mid == (end - begin) \div 2 + begin IN
         IF ks[mid + 1] <= k THEN LookupFrom(ks, k, mid + 1, end)
                             ELSE LookupFrom(ks, k, begin, mid - 1)

(* B_PLUS_TREE_INTERNAL_PAGE_TYPE::Lookup: the child array[begin-1].second *)
(* after searching slots 1..size-1.                                        *)
Lookup(p, k) == p.vals[LookupFrom(p.keys, k, 1, Size(p) - 1)]

(* The child of the last slot i >= 1 with key <= k, else of slot 0.        *)
RefLookup(p, k) ==
    p.vals[1 + Cardinality({i \in 1..Size(p) - 1 : p.keys[i + 1] <= k})]

(* B_PLUS_TREE_LEAF_PAGE_TYPE::Lookup.                                     *)
LeafLookup(p, k) ==
    LET i == KeyIndex(p.keys, k) IN i < Size(p) /\ p.keys[i + 1] = k

(* B_PLUS_TREE_INTERNAL_PAGE_TYPE::ValueIndex: the slot holding child v.   *)
ValueIndex(p, v) == SelectInSeq(p.vals, LAMBDA c : c = v) - 1

-----------------------------------------------------------------------------
(* Page operations that touch one page.                                    *)

(* Faulty variant of leaf Insert: no IncreaseSize and no shift, so the key *)
(* overwrites array[index] (and is lost when index = size).                *)
LeafInsertOverwrite(p, k) ==
    LET i == KeyIndex(p.keys, k) IN
    IF i < Size(p) THEN [p EXCEPT !.keys[i + 1] = k] ELSE p

(* Leaf Insert: shift the slots from KeyIndex up and store the key there. *)
LeafInsert(p, k) == [p EXCEPT !.keys = InsertAt(@, KeyIndex(@, k) + 1, k)]

(* Faulty variant of RemoveAndDeleteRecord: the memmove starts one slot   *)
(* early and drops the key before the one asked for.                       *)
RemoveAndDeleteRecordShifted(p, k) ==
    LET i == KeyIndex(p.keys, k) IN
    IF i >= Size(p) \/ p.keys[i + 1] # k THEN p
    ELSE [p EXCEPT !.keys = RemoveAt(@, i)]

(* Leaf RemoveAndDeleteRecord: memmove the tail over the key if present.   *)
RemoveAndDeleteRecord(p, k) ==
    LET i == KeyIndex(p.keys, k) IN
    IF i >= Size(p) \/ p.keys[i + 1] # k THEN p
    ELSE [p EXCEPT !.keys = RemoveAt(@, i + 1)]

(* Faulty variant of InsertNodeAfter: index = ValueIndex(old_value), so   *)
(* the new pair lands before old instead of after it.                      *)
InsertNodeAfterBefore(p, old, key, new) ==
    LET i == ValueIndex(p, old) IN
    [p EXCEPT !.keys = InsertAt(@, i + 1, key), !.vals = InsertAt(@, i + 1, new)]

(* Internal InsertNodeAfter: the pair goes right after old's slot.         *)
InsertNodeAfter(p, old, key, new) ==
    LET i == ValueIndex(p, old) + 1 IN
    [p EXCEPT !.keys = InsertAt(@, i + 1, key), !.vals = InsertAt(@, i + 1, new)]

(* Internal Remove(index): shift the later slots down by one.              *)
RemoveSlot(p, index) ==
    [p EXCEPT !.keys = RemoveAt(@, index + 1), !.vals = RemoveAt(@, index + 1)]

(* SetKeyAt.                                                               *)
SetKeyAt(p, index, key) == [p EXCEPT !.keys[index + 1] = key]

-----------------------------------------------------------------------------
(* Operations on the whole tree t (a record like Tree).                    *)

(* NewPage: a fresh id from the disk manager, the page Init'ed as p.       *)
NewPage(t, p) == [t EXCEPT !.pg = @ @@ (t.next :> p), !.next = @ + 1]

(* SetParentPageId on each child in cs, as the moves of internal pages do. *)
Reparent(t, cs, par) ==
    [t EXCEPT !.pg = [i \in DOMAIN t.pg |->
                        IF i \in cs THEN [t.pg[i] EXCEPT !.parent = par]
                                    ELSE t.pg[i]]]

RECURSIVE DescendFrom(_, _, _)
DescendFrom(pages, id, k) ==
    IF IsLeaf(pages[id]) THEN id ELSE DescendFrom(pages, Lookup(pages[id], k), k)

(* FindLeafPage(key, leftMost = false): Lookup at every internal page.     *)
FindLeafPage(t, k) == DescendFrom(t.pg, t.root, k)

RECURSIVE LeftmostFrom(_, _)
LeftmostFrom(pages, id) ==
    IF IsLeaf(pages[id]) THEN id ELSE LeftmostFrom(pages, pages[id].vals[1])

(* Faulty variant of leaf MoveHalfTo: mid_index = total / 2 - 1, leaving  *)
(* the old leaf one entry short.                                           *)
LeafMoveHalfToShortLeft(t, id, n) ==
    LET p == t.pg[id]  total == LeafMax + 1  mid == total \div 2 - 1 IN
    [t EXCEPT !.pg[n]  = [@ EXCEPT !.keys = SubSeq(p.keys, mid + 1, total),
                                   !.next = p.next],
              !.pg[id] = [@ EXCEPT !.keys = SubSeq(p.keys, 1, mid), !.next = n]]

(* Leaf MoveHalfTo of page id, full at GetMaxSize() + 1 entries, into the *)
(* freshly Init'ed page n: slots mid..total-1 move (mid = total / 2) and n *)
(* is threaded into the next-page chain after id.                          *)
LeafMoveHalfTo(t, id, n) ==
    LET p == t.pg[id]  total == LeafMax + 1  mid == total \div 2 IN
    [t EXCEPT !.pg[n]  = [@ EXCEPT !.keys = SubSeq(p.keys, mid + 1, total),
                                   !.next = p.next],
              !.pg[id] = [@ EXCEPT !.keys = SubSeq(p.keys, 1, mid), !.next = n]]

(* Faulty variant of internal MoveHalfTo: the moved children keep their   *)
(* old parent page id.                                                     *)
InternalMoveHalfToNoReparent(t, id, n) ==
    LET p == t.pg[id]  total == InternalMax + 1  mid == total \div 2 IN
    [t EXCEPT !.pg[n]  = [@ EXCEPT !.keys = SubSeq(p.keys, mid + 1, total),
                                   !.vals = SubSeq(p.vals, mid + 1, total)],
              !.pg[id] = [@ EXCEPT !.keys = SubSeq(p.keys, 1, mid),
                                   !.vals = SubSeq(p.vals, 1, mid)]]

(* Internal MoveHalfTo: the same split of the pairs; each moved child gets *)
(* n as its parent page id.                                                *)
InternalMoveHalfTo(t, id, n) ==
    LET p == t.pg[id]  total == InternalMax + 1  mid == total \div 2 IN
    Reparent([t EXCEPT !.pg[n]  = [@ EXCEPT !.keys = SubSeq(p.keys, mid + 1, total),
                                            !.vals = SubSeq(p.vals, mid + 1, total)],
                       !.pg[id] = [@ EXCEPT !.keys = SubSeq(p.keys, 1, mid),
                                            !.vals = SubSeq(p.vals, 1, mid)]],
             ToSet(SubSeq(p.vals, mid + 1, total)), n)

(* The templated node->MoveHalfTo of Split.                                *)
MoveHalfTo(t, id, n) ==
    IF IsLeaf(t.pg[id]) THEN LeafMoveHalfTo(t, id, n) ELSE InternalMoveHalfTo(t, id, n)

(* Faulty variant of Split: the new page is Init'ed as a leaf page         *)
(* whatever the type of the node that splits.                              *)
SplitAsLeaf(t, id) ==
    MoveHalfTo(NewPage(t, NewLeaf(t.pg[id].parent, <<>>)), id, t.next)

(* Split: NewPage, Init it with the node's parent, MoveHalfTo.  The new    *)
(* page's id is t.next.                                                    *)
Split(t, id) ==
    LET p == t.pg[id] IN
    MoveHalfTo(NewPage(t, IF IsLeaf(p) THEN NewLeaf(p.parent, <<>>)
                                       ELSE NewInternal(p.parent, <<>>, <<>>)),
               id, t.next)

(* Faulty variant of PopulateNewRoot that also writes new_key into        *)
(* array[0].first.                                                         *)
PopulateNewRootKeyed(old, key, new) ==
    NewInternal(INVALID_PAGE_ID, <<key, key>>, <<old, new>>)

(* A root page Init'ed on a zeroed frame and filled by PopulateNewRoot:    *)
(* array[0].second, array[1] and size 2; array[0].first stays zero.        *)
PopulateNewRoot(old, key, new) ==
    NewInternal(INVALID_PAGE_ID, <<ZeroKey, key>>, <<old, new>>)

(* InsertIntoParent: a root that split gets a new root page filled by     *)
(* PopulateNewRoot (its slot-0 key stays zero); otherwise the separator    *)
(* goes into the parent after old, and a parent that overflows splits and  *)
(* recurses.                                                               *)
RECURSIVE InsertIntoParent(_, _, _, _)
InsertIntoParent(t, old, key, new) ==
    IF t.pg[old].parent = INVALID_PAGE_ID
    THEN LET t1 == NewPage(t, PopulateNewRoot(old, key, new))
         IN [Reparent(t1, {old, new}, t.next) EXCEPT !.root = t.next]
    ELSE LET par == t.pg[old].parent
             t1  == Reparent(t, {new}, par)
             t2  == [t1 EXCEPT !.pg[par] = InsertNodeAfter(@, old, key, new)]
         IN IF Size(t2.pg[par]) > InternalMax
            THEN LET t3 == Split(t2, par) IN
                 InsertIntoParent(t3, par, t3.pg[t2.next].keys[1], t2.next)
            ELSE t2

(* StartNewTree: a root leaf holding the key.                              *)
StartNewTree(t, k) ==
    [NewPage(t, NewLeaf(INVALID_PAGE_ID, <<k>>)) EXCEPT !.root = t.next]

(* InsertIntoLeaf once FindLeafPage has returned leaf l: a duplicate       *)
(* changes nothing; a leaf past GetMaxSize splits and the new leaf's first *)
(* key goes up.                                                            *)
InsertIntoLeafAt(t, l, k) ==
    IF LeafLookup(t.pg[l], k) THEN t
    ELSE LET t1 == [t EXCEPT !.pg[l] = LeafInsert(@, k)] IN
         IF Size(t1.pg[l]) > LeafMax
         THEN LET t2 == Split(t1, l) IN
              InsertIntoParent(t2, l, t2.pg[t1.next].keys[1], t1.next)
         ELSE t1

InsertIntoLeaf(t, k) == InsertIntoLeafAt(t, FindLeafPage(t, k), k)

(* BPlusTree::Insert.                                                      *)
InsertOp(t, k) ==
    IF t.root = INVALID_PAGE_ID THEN StartNewTree(t, k) ELSE InsertIntoLeaf(t, k)

(* AdjustRoot: a root leaf (emptied) leaves the tree empty; an internal    *)
(* root with one child hands the root to it.  Either way the old root goes *)
(* into the deleted set (RootDeleted); otherwise nothing changes.          *)
RootDeleted(p) == IsLeaf(p) \/ Size(p) = 1

AdjustRoot(t, r) ==
    LET p == t.pg[r] IN
    IF IsLeaf(p) THEN [t EXCEPT !.root = INVALID_PAGE_ID]
    ELSE IF Size(p) = 1
         THEN [Reparent(t, {p.vals[1]}, INVALID_PAGE_ID) EXCEPT !.root = p.vals[1]]
         ELSE t

(* Faulty variant of leaf MoveAllTo: the recipient keeps its next page id, *)
(* the page being deleted.                                                 *)
LeafMoveAllToNoNext(t, n, nb) ==
    [t EXCEPT !.pg[nb] = [@ EXCEPT !.keys = @ \o t.pg[n].keys],
              !.pg[n]  = [@ EXCEPT !.keys = <<>>]]

(* Leaf MoveAllTo of page n into its left neighbour nb, which takes over  *)
(* n's next link; n is left with size 0.                                   *)
LeafMoveAllTo(t, n, nb) ==
    [t EXCEPT !.pg[nb] = [@ EXCEPT !.keys = @ \o t.pg[n].keys, !.next = t.pg[n].next],
              !.pg[n]  = [@ EXCEPT !.keys = <<>>]]

(* Internal MoveAllTo: slot 0 of n first takes the parent's key at         *)
(* index_in_parent, then every pair moves and each child is reparented;    *)
(* n is left with size 0.                                                  *)
InternalMoveAllTo(t, n, nb, index) ==
    LET p == t.pg[n]
        moved == [p.keys EXCEPT ![1] = t.pg[p.parent].keys[index + 1]]
    IN Reparent([t EXCEPT !.pg[nb] = [@ EXCEPT !.keys = @ \o moved,
                                               !.vals = @ \o p.vals],
                          !.pg[n]  = [@ EXCEPT !.keys = <<>>, !.vals = <<>>]],
                ToSet(p.vals), nb)

MoveAllTo(t, n, nb, index) ==
    IF IsLeaf(t.pg[n]) THEN LeafMoveAllTo(t, n, nb) ELSE InternalMoveAllTo(t, n, nb, index)

(* The parent of child gets key at slot index (SetKeyAt on the parent).   *)
SetParentKey(t, child, index, key) ==
    [t EXCEPT !.pg[t.pg[child].parent] = SetKeyAt(@, index, key)]

(* Leaf MoveFirstToEndOf + CopyLastFrom: src's first pair goes to the end  *)
(* of dst, and the parent's key for src becomes src's new first key.       *)
LeafMoveFirstToEndOf(t, src, dst) ==
    LET p  == t.pg[src]
        t1 == [t EXCEPT !.pg[src] = [@ EXCEPT !.keys = Tail(@)],
                        !.pg[dst] = [@ EXCEPT !.keys = Append(@, p.keys[1])]]
    IN SetParentKey(t1, src, ValueIndex(t.pg[p.parent], src), t1.pg[src].keys[1])

(* Internal MoveFirstToEndOf: the pair {KeyAt(0), ValueAt(0)} moves, its   *)
(* child is reparented, and the parent's key for src becomes src's new     *)
(* slot-0 key.                                                             *)
InternalMoveFirstToEndOf(t, src, dst) ==
    LET p  == t.pg[src]
        t1 == Reparent([t EXCEPT !.pg[src] = [@ EXCEPT !.keys = Tail(@), !.vals = Tail(@)],
                                 !.pg[dst] = [@ EXCEPT !.keys = Append(@, p.keys[1]),
                                                       !.vals = Append(@, p.vals[1])]],
                       {p.vals[1]}, dst)
    IN SetParentKey(t1, src, ValueIndex(t.pg[p.parent], src), t1.pg[src].keys[1])

(* Faulty variant of leaf MoveLastToFrontOf: CopyFirstFrom does not update *)
(* the parent's key.                                                       *)
LeafMoveLastToFrontOfNoParentKey(t, src, dst, parentIndex) ==
    LET p == t.pg[src] IN
    [t EXCEPT !.pg[src] = [@ EXCEPT !.keys = Front(@)],
              !.pg[dst] = [@ EXCEPT !.keys = <<Last(p.keys)>> \o @]]

(* Leaf MoveLastToFrontOf + CopyFirstFrom: src's last pair goes in front   *)
(* of dst, and the parent's key at parentIndex becomes its key.            *)
LeafMoveLastToFrontOf(t, src, dst, parentIndex) ==
    LET p == t.pg[src] IN
    SetParentKey([t EXCEPT !.pg[src] = [@ EXCEPT !.keys = Front(@)],
                           !.pg[dst] = [@ EXCEPT !.keys = <<Last(p.keys)>> \o @]],
                 dst, parentIndex, Last(p.keys))

(* Internal MoveLastToFrontOf + CopyFirstFrom: the same, dst's old slot 0  *)
(* shifting to slot 1 and the moved child reparented.                      *)
InternalMoveLastToFrontOf(t, src, dst, parentIndex) ==
    LET p == t.pg[src] IN
    SetParentKey(
      Reparent([t EXCEPT !.pg[src] = [@ EXCEPT !.keys = Front(@), !.vals = Front(@)],
                         !.pg[dst] = [@ EXCEPT !.keys = <<Last(p.keys)>> \o @,
                                               !.vals = <<Last(p.vals)>> \o @]],
               {Last(p.vals)}, dst),
      dst, parentIndex, Last(p.keys))

(* BPlusTree::Redistribute: a leftmost node borrows its right sibling's    *)
(* first pair, any other node its left sibling's last pair.                *)
Redistribute(t, nb, n, index) ==
    CASE index = 0 /\ IsLeaf(t.pg[n])  -> LeafMoveFirstToEndOf(t, nb, n)
      [] index = 0                     -> InternalMoveFirstToEndOf(t, nb, n)
      [] IsLeaf(t.pg[n])               -> LeafMoveLastToFrontOf(t, nb, n, index)
      [] OTHER                         -> InternalMoveLastToFrontOf(t, nb, n, index)

(* FindLeftSibling: the left neighbour, or the right one for the         *)
(* leftmost child.                                                         *)
Sibling(t, n) ==
    LET pp == t.pg[t.pg[n].parent]  index == ValueIndex(pp, n) IN
    pp.vals[IF index = 0 THEN 2 ELSE index]

(* One level of CoalesceOrRedistribute at node n, as a record: the tree    *)
(* it leaves, the pages it puts in the deleted set, and the parent that    *)
(* rebalances next (INVALID_PAGE_ID when the recursion stops).  The root   *)
(* is adjusted.  Any other node merges with its sibling when both fit in   *)
(* one page, the right one into the left (Coalesce: MoveAllTo, the node    *)
(* into the deleted set, parent Remove(index), and a parent at or below    *)
(* its GetMinSize goes on); else one pair is borrowed (Redistribute).      *)
RebalanceLevel(t, n) ==
    LET p == t.pg[n] IN
    IF p.parent = INVALID_PAGE_ID
    THEN [t |-> AdjustRoot(t, n), del |-> IF RootDeleted(p) THEN {n} ELSE {},
          up |-> INVALID_PAGE_ID]
    ELSE LET pp    == t.pg[p.parent]
             index == ValueIndex(pp, n)
             sib   == Sibling(t, n)
             left  == IF index = 0 THEN n ELSE sib
             right == IF index = 0 THEN sib ELSE n
             ri    == ValueIndex(pp, right)
         IN IF Size(p) + Size(t.pg[sib]) <= MaxOf(p)
            THEN LET t2 == [MoveAllTo(t, right, left, ri)
                              EXCEPT !.pg[p.parent] = RemoveSlot(@, ri)]
                 IN [t |-> t2, del |-> {right},
                     up |-> IF Size(t2.pg[p.parent]) <= MinOf(t2.pg[p.parent])
                            THEN p.parent ELSE INVALID_PAGE_ID]
            ELSE [t |-> Redistribute(t, sib, n, index), del |-> {},
                  up |-> INVALID_PAGE_ID]

(* DeletePage of every page in the deleted set.                            *)
DeletePages(t, ds) == [t EXCEPT !.pg = [i \in DOMAIN t.pg \ ds |-> t.pg[i]]]

(* CoalesceOrRedistribute and the Coalesce recursion it starts, the        *)
(* deleted pages freed as FreePagesInTransaction does at the end.          *)
RECURSIVE CoalesceOrRedistribute(_, _)
CoalesceOrRedistribute(t, n) ==
    LET r == RebalanceLevel(t, n) IN
    IF r.up = INVALID_PAGE_ID THEN DeletePages(r.t, r.del)
    ELSE CoalesceOrRedistribute(DeletePages(r.t, r.del), r.up)

(* BPlusTree::Remove: a leaf left below GetMinSize rebalances (whether or  *)
(* not the key was there).                                                 *)
RemoveOp(t, k) ==
    IF t.root = INVALID_PAGE_ID THEN t
    ELSE LET l  == FindLeafPage(t, k)
             t1 == [t EXCEPT !.pg[l] = RemoveAndDeleteRecord(@, k)]
         IN IF Size(t1.pg[l]) < MinOf(t1.pg[l])
            THEN CoalesceOrRedistribute(t1, l)
            ELSE t1

-----------------------------------------------------------------------------
Init ==
    /\ root = INVALID_PAGE_ID
    /\ pg = [i \in {} |-> NewLeaf(INVALID_PAGE_ID, <<>>)]
    /\ nextPageId = 1

Apply(t) == root' = t.root /\ pg' = t.pg /\ nextPageId' = t.next

(* BPlusTree::Insert(k), as long as the page ids it allocates stay within the bound.  *)
TreeInsert(k) ==
    LET t == InsertOp(Tree, k) IN
    /\ t.next - 1 <= MaxPageId
    /\ Apply(t)

TreeRemove(k) == Apply(RemoveOp(Tree, k))

Next ==
    \/ \E k \in Keys : TreeInsert(k)
    \/ \E k \in Keys : TreeRemove(k)

Spec == Init /\ [][Next]_vars

-----------------------------------------------------------------------------
(* What the tree holds and how it hangs together.                          *)

Page == [kind : {"leaf", "internal"}, parent : PageIds \cup {INVALID_PAGE_ID},
         keys : Seq(Keys \cup {ZeroKey}), vals : Seq(PageIds),
         next : PageIds \cup {INVALID_PAGE_ID}]

RECURSIVE SubtreePages(_)
SubtreePages(id) ==
    {id} \cup IF IsLeaf(pg[id]) THEN {}
              ELSE UNION {SubtreePages(c) : c \in ToSet(pg[id].vals)}

Reachable == IF root = INVALID_PAGE_ID THEN {} ELSE SubtreePages(root)

RECURSIVE SubtreeKeys(_)
SubtreeKeys(id) ==
    IF IsLeaf(pg[id]) THEN ToSet(pg[id].keys)
    ELSE UNION {SubtreeKeys(c) : c \in ToSet(pg[id].vals)}

RECURSIVE LeafDepths(_)
LeafDepths(id) ==
    IF IsLeaf(pg[id]) THEN {0}
    ELSE {d + 1 : d \in UNION {LeafDepths(c) : c \in ToSet(pg[id].vals)}}

(* The keys a page searches: all of a leaf's, slots 1.. of an internal's.  *)
SearchKeys(p) == IF IsLeaf(p) THEN p.keys ELSE Tail(p.keys)

StrictlyIncreasing(s) == \A i \in 1..Len(s) - 1 : s[i] < s[i + 1]

(* The keys the leaves of the tree hold.                                   *)
Contents == UNION {ToSet(pg[id].keys) : id \in {i \in DOMAIN pg : IsLeaf(pg[i])}}

(* The keys met by walking the next-page links from the leftmost leaf, as *)
(* the index iterator does (a dangling or cyclic link shows as a ZeroKey). *)
RECURSIVE ChainFrom(_, _)
ChainFrom(id, fuel) ==
    IF id = INVALID_PAGE_ID THEN <<>>
    ELSE IF fuel = 0 \/ id \notin DOMAIN pg THEN <<ZeroKey>>
    ELSE pg[id].keys \o ChainFrom(pg[id].next, fuel - 1)

(* The lower bound of a page's key range: the separator its parent holds   *)
(* it under, inherited by a leftmost child, ZeroKey on the leftmost path.  *)
RECURSIVE LowerBound(_)
LowerBound(id) ==
    IF pg[id].parent = INVALID_PAGE_ID THEN ZeroKey
    ELSE LET i == ValueIndex(pg[pg[id].parent], id) IN
         IF i = 0 THEN LowerBound(pg[id].parent)
                  ELSE pg[pg[id].parent].keys[i + 1]

LeafChain ==
    IF root = INVALID_PAGE_ID THEN <<>>
    ELSE ChainFrom(LeftmostFrom(pg, root), Cardinality(DOMAIN pg))

(* BPlusTree::isBalanced: the height of the subtree of pid, or -1 when its *)
(* children's subtrees differ in height or one of them is unbalanced.      *)
RECURSIVE IsBalanced(_, _)
IsBalanced(t, pid) ==
    LET p  == t.pg[pid]
        ds == {IsBalanced(t, c) : c \in ToSet(p.vals)}
    IN CASE IsLeaf(p) \/ ds = {}             -> 0
         [] Cardinality(ds) = 1 /\ -1 \notin ds -> Max(ds) + 1
         [] OTHER                             -> -1

(* Faulty variant of isPageCorr: a separator must be strictly below the   *)
(* first key of its right child.                                           *)
RECURSIVE PageCorrStrict(_, _)
PageCorrStrict(t, pid) ==
    LET p == t.pg[pid]  n == Size(p)
        sizeOk == MinOf(p) <= n /\ n <= MaxOf(p)
        out == [lo |-> IF n > 0 THEN p.keys[1] ELSE ZeroKey,
                hi |-> IF n > 0 THEN p.keys[n] ELSE ZeroKey]
    IN IF IsLeaf(p)
       THEN out @@ [ok |-> sizeOk /\ \A i \in 2..n : p.keys[i - 1] <= p.keys[i]]
       ELSE LET c == [i \in 1..n |-> PageCorrStrict(t, p.vals[i])] IN
            out @@ [ok |-> sizeOk /\ \A i \in 2..n :
                              /\ c[i - 1].ok /\ c[i].ok
                              /\ p.keys[i] > c[i - 1].hi /\ p.keys[i] < c[i].lo
                              /\ (i = 2 \/ p.keys[i - 1] < p.keys[i])]

(* BPlusTree::isPageCorr: each page's size is within GetMinSize and        *)
(* GetMaxSize and its keys ascend; each separator KeyAt(i) of an internal  *)
(* page is above the last key of child i-1 and at most the first key of    *)
(* child i, where the first and last key of a page are its KeyAt(0) and    *)
(* KeyAt(size-1): for an internal child, its slot-0 key and last           *)
(* separator.  A failed child stops the loop, so the keys it reports are   *)
(* never compared (a page of size 0 reports ZeroKey).                      *)
RECURSIVE PageCorr(_, _)
PageCorr(t, pid) ==
    LET p == t.pg[pid]  n == Size(p)
        sizeOk == MinOf(p) <= n /\ n <= MaxOf(p)
        out == [lo |-> IF n > 0 THEN p.keys[1] ELSE ZeroKey,
                hi |-> IF n > 0 THEN p.keys[n] ELSE ZeroKey]
    IN IF IsLeaf(p)
       THEN out @@ [ok |-> sizeOk /\ \A i \in 2..n : p.keys[i - 1] <= p.keys[i]]
       ELSE LET c == [i \in 1..n |-> PageCorr(t, p.vals[i])] IN
            out @@ [ok |-> sizeOk /\ \A i \in 2..n :
                              /\ c[i - 1].ok /\ c[i].ok
                              /\ p.keys[i] > c[i - 1].hi /\ p.keys[i] <= c[i].lo
                              /\ (i = 2 \/ p.keys[i - 1] < p.keys[i])]

(* BPlusTree::Check without CheckAllUnpined (the pins are BufferPoolManager *)
(* state): an empty tree passes, otherwise isPageCorr and isBalanced of    *)
(* the root.                                                               *)
CheckTree(t) ==
    \/ t.root = INVALID_PAGE_ID
    \/ PageCorr(t, t.root).ok /\ IsBalanced(t, t.root) >= 0

-----------------------------------------------------------------------------
(* Properties.                                                             *)

(* Every page is a leaf page of keys or an internal page of (key, child    *)
(* page id) pairs, and the ids are ones the disk manager handed out.       *)
TypeOK ==
    /\ root \in PageIds \cup {INVALID_PAGE_ID}
    /\ DOMAIN pg \subseteq PageIds
    /\ \A i \in DOMAIN pg :
         /\ pg[i] \in Page
         /\ IF IsLeaf(pg[i]) THEN pg[i].vals = <<>> ELSE Len(pg[i].vals) = Size(pg[i])
    /\ nextPageId \in 1..MaxPageId + 1

(* The debug consistency check of the design (BPlusTree::Check), after     *)
(* every Insert and Remove: every non-root page holds between GetMinSize   *)
(* and GetMaxSize entries and the root at least its own minimum; the keys  *)
(* each page searches strictly increase; every key under child i of an     *)
(* internal page lies between the separators around slot i; all leaves are *)
(* at one depth.                                                           *)
TreeWellFormed ==
    root # INVALID_PAGE_ID =>
      /\ \A id \in Reachable :
           /\ MinOf(pg[id]) <= Size(pg[id])
           /\ Size(pg[id]) <= MaxOf(pg[id])
           /\ StrictlyIncreasing(SearchKeys(pg[id]))
      /\ \A id \in Reachable : ~IsLeaf(pg[id]) =>
           \A j \in 1..Size(pg[id]) :
             \A k \in SubtreeKeys(pg[id].vals[j]) :
               /\ j > 1 => pg[id].keys[j] <= k
               /\ j < Size(pg[id]) => k < pg[id].keys[j + 1]
      /\ Cardinality(LeafDepths(root)) = 1

(* Every page the tree has not deleted hangs under the root, with the      *)
(* parent page id its parent holds it under, and the root has none: the    *)
(* reparenting done by MoveHalfTo, MoveAllTo, the redistributions and      *)
(* AdjustRoot is complete, and no merged-away page is left behind.         *)
ParentLinksConsistent ==
    /\ DOMAIN pg = Reachable
    /\ root # INVALID_PAGE_ID => pg[root].parent = INVALID_PAGE_ID
    /\ \A id \in Reachable : ~IsLeaf(pg[id]) =>
         \A c \in ToSet(pg[id].vals) : pg[c].parent = id

(* The iterator's walk over the leaf chain (Begin, operator++) yields      *)
(* exactly the keys the leaves hold, in strictly increasing order: splits  *)
(* and merges keep the next-page links in key order.                       *)
LeafChainOrdered ==
    /\ StrictlyIncreasing(LeafChain)
    /\ ToSet(LeafChain) = Contents

(* GetValue finds every key the leaves hold: FindLeafPage's descent by     *)
(* Lookup ends at the leaf that holds the key, and the leaf's Lookup        *)
(* reports it.  Splits, merges and borrows must keep every separator on    *)
(* the path of every key right.                                            *)
GetValueFindsAll ==
    \A k \in Contents : LeafLookup(pg[FindLeafPage(Tree, k)], k)

(* The slot-0 key of every internal page, which Lookup never reads, holds *)
(* the lower bound of the page's key range (ZeroKey down the leftmost      *)
(* path).  Internal MoveFirstToEndOf moves that key down as the separator  *)
(* of the child it hands over, and CopyFirstFrom shifts it to slot 1, so   *)
(* every split, merge and borrow must keep it exact.                       *)
SlotZeroIsLowerBound ==
    \A id \in Reachable : ~IsLeaf(pg[id]) => pg[id].keys[1] = LowerBound(id)

(* The tree's own integrity check, Check() (isPageCorr and isBalanced),   *)
(* which the tests call after their Inserts and Removes, accepts every     *)
(* tree Insert and Remove build.  isPageCorr takes the slot-0 key of an    *)
(* internal page for the first key of its subtree, a slot the spec calls   *)
(* a don't-care; the check holds only if every split, merge and borrow     *)
(* moves the right key into it.                                            *)
CheckAccepts == CheckTree(Tree)

(* The binary searches agree with their definitions on every page of the  *)
(* tree and every key: KeyIndex gives the first slot >= k and Lookup the   *)
(* child of the last separator <= k.                                       *)
SearchAgrees ==
    \A id \in Reachable, k \in Keys :
      IF IsLeaf(pg[id]) THEN KeyIndex(pg[id].keys, k) = RefKeyIndex(pg[id].keys, k)
      ELSE Lookup(pg[id], k) = RefLookup(pg[id], k)

(* The tree implements a set of keys: each Insert and Remove changes the   *)
(* keys the leaves hold exactly as IndexKeySet's operation of that key     *)
(* does, and no other key is lost or gained on the way (with              *)
(* GetValueFindsAll, every one of them is found).                         *)
AbsIndex == INSTANCE IndexKeySet WITH keys <- Contents
KeySetRefinement == AbsIndex!Spec

(* Each call is the abstract operation on its own key: an Insert(k) step   *)
(* adds k and nothing else, a Remove(k) step drops k and nothing else      *)
(* (whatever splits, merges and borrows it sets off).                      *)
CallsRefine ==
    [][\A k \in Keys : /\ TreeInsert(k) => AbsIndex!Insert(k)
                       /\ TreeRemove(k) => AbsIndex!Remove(k)]_vars

=============================================================================
