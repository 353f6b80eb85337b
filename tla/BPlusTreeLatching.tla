------------------------- MODULE BPlusTreeLatching --------------------------
(***************************************************************************)
(* The B+tree of src/project2/src/index/b_plus_tree.cpp used by several    *)
(* threads at once: the root-id lock mMutex_ (LockRootPageId,              *)
(* TryUnlockRootPageId), latch crabbing down the tree (FindLeafPage,       *)
(* CrabingProtocalFetchPage, isSafe), the page set and deleted set of a    *)
(* Transaction released by FreePagesInTransaction, and the index iterator  *)
(* (Begin, operator*, operator++ of index_iterator.cpp).                   *)
(*                                                                         *)
(* The tree and its page operations are those of BPlusTree, instantiated   *)
(* on the same variables.  A thread's step is one latch acquisition, or    *)
(* one release, together with the reads and writes it does on pages it    *)
(* holds up to its next acquisition or release: an acquire only moves      *)
(* later and a release only earlier past other threads' steps, and a write *)
(* to a page latched exclusively commutes with every step of the others,   *)
(* so these steps lose no interleaving the latches allow.  A reads that    *)
(* comes before an acquisition in the code (root_page_id_, the iterator's  *)
(* next page id) is a step of its own, its value kept in the thread's      *)
(* state.  Page latches and mMutex_ are reader/writer locks held as the    *)
(* threads' records say; a thread's mode is exclusive for Insert and       *)
(* Remove, shared for GetValue and the iterator, as the code passes it.    *)
(***************************************************************************)
EXTENDS Integers, Sequences, SequencesExt, FiniteSets, TLC

CONSTANTS
    Keys, LeafMax, InternalMax, MaxPageId, INVALID_PAGE_ID,
    Threads,        \* the threads calling into the index
    Calls,          \* thread -> the calls it may make: records [op, key]
    MaxCalls,       \* the number of calls each thread makes
    InitKeys,       \* keys Inserted, in this order, before the threads start
    PoolSize        \* the frames of the buffer pool the tree runs on

VARIABLES
    root, pg, nextPageId,
    th,             \* thread -> its call in progress and what it holds
    callsLeft       \* thread -> the calls it has still to make

vars == <<root, pg, nextPageId, th, callsLeft>>

T == INSTANCE BPlusTree

Ops == {"get", "insert", "remove", "scan", "seek"}

(* The calls that run an iterator: Begin() ("scan") and Begin(key)         *)
(* ("seek").                                                               *)
Iterates(op) == op \in {"scan", "seek"}

(* The pc of a thread that has dereferenced a null leaf, fetched a page    *)
(* the tree has deleted, read an item past the end of a leaf, or used the  *)
(* nullptr of a FetchPage or NewPage that found no frame.                  *)
Faults == {"null_leaf", "freed_page", "stale_slot", "no_frame"}

(* A thread between calls: no latch, no root-id lock, an empty page set    *)
(* and deleted set.  found is what its last GetValue returned.             *)
Idle == [pc |-> "idle", op |-> "get", key |-> T!ZeroKey, held |-> {},
         rootHeld |-> FALSE, cur |-> INVALID_PAGE_ID, idx |-> 0, del |-> {},
         found |-> FALSE]
-----------------------------------------------------------------------------
(* Latches.                                                                *)

Exclusive(op) == op \in {"insert", "remove"}

(* mMutex_.WLock / RLock can be taken by t.                                *)
CanLockRoot(t) ==
    \A u \in Threads \ {t} :
      th[u].rootHeld => ~Exclusive(th[u].op) /\ ~Exclusive(th[t].op)

(* page->WLatch / RLatch of page p can be taken by t.                      *)
CanLatch(t, p) ==
    \A u \in Threads \ {t} :
      p \in th[u].held => ~Exclusive(th[u].op) /\ ~Exclusive(th[t].op)

(* Faulty variant of isSafe: a leaf at its minimum counts as safe for     *)
(* DELETE.                                                                 *)
IsSafeLeafMin(p, op) ==
    IF op = "insert" THEN T!Size(p) < T!MaxOf(p)
    ELSE IF T!IsLeaf(p) THEN T!Size(p) >= T!MinOf(p)
    ELSE T!Size(p) > T!MinOf(p) + 1

(* BPlusTreePage::isSafe: the page cannot split (INSERT) or fall below its *)
(* minimum (DELETE) whatever the operation does below it.                  *)
IsSafe(p, op) ==
    IF op = "insert" THEN T!Size(p) < T!MaxOf(p)
    ELSE IF T!IsLeaf(p) THEN T!Size(p) >= T!MinOf(p) + 1
    ELSE T!Size(p) > T!MinOf(p) + 1

(* The pages an iterator has fetched and not yet unpinned: DeletePage of   *)
(* one of them fails.                                                      *)
Pinned == {th[u].cur : u \in {v \in Threads : Iterates(th[v].op)
                                              /\ th[v].pc \in {"latch_next", "scan"}}}

(* The pages pinned in the buffer pool: every page a thread has latched   *)
(* (its page set, or the page it holds without a transaction) and every    *)
(* iterator's leaf.  The tree unpins each page it fetches on every path,   *)
(* and the header page is pinned only inside UpdateRootPageId.             *)
PinnedPages == UNION {th[u].held : u \in Threads} \cup Pinned

(* BufferPoolManager::FetchPage and NewPage: a page not in the pool needs  *)
(* a free frame or an unpinned victim; with every frame pinned the call    *)
(* returns nullptr, which the tree never checks.  n such pages can be got  *)
(* while the pins of all threads, and the pages S the step has fetched     *)
(* already, leave n frames.  A thread waiting for a page's latch has       *)
(* pinned a page its holder has pinned already.                            *)
FramesFor(S, n) == Cardinality(PinnedPages \cup S) + n <= PoolSize

Fetchable(p) == p \in PinnedPages \/ FramesFor({}, 1)

-----------------------------------------------------------------------------
(* Steps of thread t.                                                      *)

Set(t, f(_)) == th' = [th EXCEPT ![t] = f(@)]

(* A thread whose FetchPage or NewPage returned nullptr.                   *)
NoFrame(t) == Set(t, LAMBDA s : [s EXCEPT !.pc = "no_frame"])

TreeUnchanged == UNCHANGED <<root, pg, nextPageId>>

(* A call begins: Insert, Remove, GetValue, or Begin() or Begin(key) and a *)
(* operator* and operator++ until isEnd().  Whatever the thread still     *)
(* holds from its last call it holds in this one.                          *)
Start(t) ==
    /\ th[t].pc = "idle"
    /\ callsLeft[t] > 0
    /\ \E c \in Calls[t] :
         Set(t, LAMBDA s : [s EXCEPT !.op = c.op, !.key = c.key,
                  !.pc = CASE c.op = "insert" -> "i_lock"
                           [] c.op = "remove" -> "d_check"
                           [] OTHER           -> "find"])
    /\ callsLeft' = [callsLeft EXCEPT ![t] = @ - 1]
    /\ TreeUnchanged

(* Insert: LockRootPageId(true).                                           *)
InsertLock(t) ==
    /\ th[t].pc = "i_lock"
    /\ CanLockRoot(t)
    /\ Set(t, LAMBDA s : [s EXCEPT !.rootHeld = TRUE, !.pc = "i_check"])
    /\ UNCHANGED <<root, pg, nextPageId, callsLeft>>

(* Insert: IsEmpty under the lock.  An empty tree gets StartNewTree (a     *)
(* NewPage for the root, and the header page fetched by UpdateRootPageId)  *)
(* and the call returns; otherwise TryUnlockRootPageId and InsertIntoLeaf. *)
InsertCheck(t) ==
    /\ th[t].pc = "i_check"
    /\ CASE root # INVALID_PAGE_ID ->
              /\ Set(t, LAMBDA s : [s EXCEPT !.rootHeld = FALSE, !.pc = "find"])
              /\ TreeUnchanged
         [] FramesFor({}, 2) ->
              /\ T!Apply(T!StartNewTree(T!Tree, th[t].key))
              /\ Set(t, LAMBDA s : Idle)
         [] OTHER -> NoFrame(t) /\ TreeUnchanged
    /\ UNCHANGED callsLeft

(* Remove: IsEmpty(), read without the root-id lock.                       *)
RemoveCheck(t) ==
    /\ th[t].pc = "d_check"
    /\ Set(t, LAMBDA s : IF root = INVALID_PAGE_ID THEN Idle
                         ELSE [s EXCEPT !.pc = "find"])
    /\ UNCHANGED <<root, pg, nextPageId, callsLeft>>

(* FindLeafPage: LockRootPageId(exclusive), then IsEmpty.  On an empty     *)
(* tree it unlocks and returns nullptr: GetValue returns false, Begin()    *)
(* an iterator at its end, and InsertIntoLeaf and Remove dereference it.   *)
(* Otherwise root_page_id_ is read, the first page to latch.              *)
FindLeaf(t) ==
    /\ th[t].pc = "find"
    /\ CanLockRoot(t)
    /\ Set(t, LAMBDA s :
             IF root # INVALID_PAGE_ID
             THEN [s EXCEPT !.rootHeld = TRUE, !.cur = root, !.pc = "crab"]
             ELSE IF Exclusive(s.op) THEN [s EXCEPT !.pc = "null_leaf"]
             ELSE Idle)
    /\ UNCHANGED <<root, pg, nextPageId, callsLeft>>

(* What the thread does on the leaf l it has latched, holding pages hs and *)
(* the root-id lock if rh.  GetValue: Lookup and FreePagesInTransaction.   *)
(* Begin(): TryUnlockRootPageId(false), the iterator at slot 0; Begin(key) *)
(* likewise at KeyIndex(key), the first slot whose key is >= key.  Insert  *)
(* (InsertIntoLeaf): a present key changes nothing; otherwise the insert,  *)
(* the split and InsertIntoParent, Split latching each page it creates and *)
(* adding it to the page set (a new root is not latched, and is unpinned   *)
(* after UpdateRootPageId has fetched the header page), each NewPage and   *)
(* that fetch needing a frame.  Remove:                                    *)
(* RemoveAndDeleteRecord, then CoalesceOrRedistribute if the leaf is below *)
(* GetMinSize.  Insert and Remove then free their page set.                *)
AtLeaf(t, l, hs, rh) ==
    LET s == th[t] IN
    CASE s.op = "get" ->
           /\ Set(t, LAMBDA x : [Idle EXCEPT !.found = T!LeafLookup(pg[l], s.key)])
           /\ TreeUnchanged
      [] Iterates(s.op) ->
           /\ Set(t, LAMBDA x : [x EXCEPT !.held = {l}, !.rootHeld = FALSE, !.cur = l,
                                          !.idx = IF s.op = "seek"
                                                  THEN T!KeyIndex(pg[l].keys, s.key)
                                                  ELSE 0,
                                          !.pc = "scan"])
           /\ TreeUnchanged
      [] s.op = "insert" ->
           LET t1  == T!InsertIntoLeafAt(T!Tree, l, s.key)
               new == DOMAIN t1.pg \ DOMAIN pg
           IN IF FramesFor(hs, Cardinality(new) + IF t1.root # root THEN 1 ELSE 0)
              THEN /\ T!Apply(t1)
                   /\ Set(t, LAMBDA x : [x EXCEPT !.held = hs \cup (new \ {t1.root}),
                                                 !.rootHeld = rh, !.cur = l, !.pc = "release"])
              ELSE NoFrame(t) /\ TreeUnchanged
      [] s.op = "remove" ->
           LET q == T!RemoveAndDeleteRecord(pg[l], s.key) IN
           /\ pg' = [pg EXCEPT ![l] = q]
           /\ UNCHANGED <<root, nextPageId>>
           /\ Set(t, LAMBDA x : [x EXCEPT !.held = hs, !.rootHeld = rh, !.cur = l,
                                          !.pc = IF T!Size(q) < T!MinOf(q)
                                                 THEN "rebalance" ELSE "release"])

(* Page c is latched by the thread, which then holds hs, and the root-id  *)
(* lock if rh: at an internal page the child to go down to is read (the    *)
(* one Lookup picks, ValueAt(0) for Begin); at a leaf, the call's work.    *)
Arrive(t, c, hs, rh) ==
    IF T!IsLeaf(pg[c]) THEN AtLeaf(t, c, hs, rh)
    ELSE /\ Set(t, LAMBDA x :
                 [x EXCEPT !.held = hs, !.rootHeld = rh,
                           !.cur = IF x.op = "scan" THEN pg[c].vals[1]
                                   ELSE T!Lookup(pg[c], x.key)])
         /\ TreeUnchanged

(* Faulty variant of the crab: a reader frees its page set before it      *)
(* latches the child, as a step of its own.                                *)
CrabReleaseFirst(t) ==
    LET s    == th[t]
        safe == s.held # {} /\ (~Exclusive(s.op) \/ IsSafe(pg[s.cur], s.op))
    IN /\ s.pc = "crab"
       /\ IF ~Exclusive(s.op) /\ s.held # {}
          THEN /\ Set(t, LAMBDA x : [x EXCEPT !.held = {}, !.rootHeld = FALSE])
               /\ TreeUnchanged
          ELSE /\ s.cur \in DOMAIN pg
               /\ CanLatch(t, s.cur)
               /\ IF Fetchable(s.cur)
                  THEN Arrive(t, s.cur, IF safe THEN {s.cur} ELSE s.held \cup {s.cur},
                              s.rootHeld /\ ~safe)
                  ELSE NoFrame(t) /\ TreeUnchanged
       /\ UNCHANGED callsLeft

(* CrabingProtocalFetchPage(cur, op, previous): FetchPage and the latch,   *)
(* in the thread's mode.  For a child (previous > 0, the thread holding    *)
(* its parent) a reader, or a writer for whom the child isSafe, then frees *)
(* its page set and the root-id lock; for the root (previous = -1)         *)
(* nothing is freed.                                                       *)
Crab(t) ==
    LET s    == th[t]
        safe == s.held # {} /\ (~Exclusive(s.op) \/ IsSafe(pg[s.cur], s.op))
    IN /\ s.pc = "crab"
       /\ CanLatch(t, s.cur)
       /\ IF Fetchable(s.cur)
          THEN Arrive(t, s.cur, IF safe THEN {s.cur} ELSE s.held \cup {s.cur},
                      s.rootHeld /\ ~safe)
          ELSE NoFrame(t) /\ TreeUnchanged
       /\ UNCHANGED callsLeft

(* Faulty variant of a rebalancing level: the latched sibling is not put  *)
(* into the page set.                                                      *)
RebalanceUnlistedSibling(t) ==
    LET s      == th[t]
        isRoot == pg[s.cur].parent = INVALID_PAGE_ID
        sib    == T!Sibling(T!Tree, s.cur)
        r      == T!RebalanceLevel(T!Tree, s.cur)
        fails  == IF isRoot THEN T!RootDeleted(pg[s.cur]) /\ ~FramesFor({}, 1)
                  ELSE ~Fetchable(sib)
    IN /\ s.pc = "rebalance"
       /\ ~isRoot => CanLatch(t, sib)
       /\ IF fails THEN NoFrame(t) /\ TreeUnchanged
          ELSE /\ T!Apply(r.t)
               /\ Set(t, LAMBDA x : [x EXCEPT !.del = @ \cup r.del, !.cur = r.up,
                                              !.pc = IF r.up = INVALID_PAGE_ID
                                                     THEN "release" ELSE "rebalance"])
       /\ UNCHANGED callsLeft

(* One level of CoalesceOrRedistribute on node cur: FindLeftSibling        *)
(* latches the sibling (CrabingProtocalFetchPage(sib, DELETE, -1), into    *)
(* the page set), then the merge or borrow; a merged-away node or an old   *)
(* root goes to the deleted set, and a parent left at or below its minimum *)
(* is next.  The root (AdjustRoot) has no sibling to latch; when it        *)
(* deletes the old root, UpdateRootPageId fetches the header page.  The    *)
(* sibling's FetchPage and the header's need a frame; the parent is pinned *)
(* already.                                                                *)
Rebalance(t) ==
    LET s      == th[t]
        isRoot == pg[s.cur].parent = INVALID_PAGE_ID
        sib    == T!Sibling(T!Tree, s.cur)
        r      == T!RebalanceLevel(T!Tree, s.cur)
        fails  == IF isRoot THEN T!RootDeleted(pg[s.cur]) /\ ~FramesFor({}, 1)
                  ELSE ~Fetchable(sib)
    IN /\ s.pc = "rebalance"
       /\ ~isRoot => CanLatch(t, sib)
       /\ IF fails THEN NoFrame(t) /\ TreeUnchanged
          ELSE /\ T!Apply(r.t)
               /\ Set(t, LAMBDA x : [x EXCEPT !.held = IF isRoot THEN @ ELSE @ \cup {sib},
                                              !.del = @ \cup r.del, !.cur = r.up,
                                              !.pc = IF r.up = INVALID_PAGE_ID
                                                     THEN "release" ELSE "rebalance"])
       /\ UNCHANGED callsLeft

(* Faulty variants of the release: the deleted set is not deleted; every  *)
(* page of the page set is deleted; the root-id lock is kept.              *)
ReleaseNoDelete(t) ==
    /\ th[t].pc = "release"
    /\ Set(t, LAMBDA s : Idle)
    /\ UNCHANGED <<root, pg, nextPageId, callsLeft>>

ReleaseDeletesPageSet(t) ==
    /\ th[t].pc = "release"
    /\ pg' = [i \in DOMAIN pg \ (th[t].held \ Pinned) |-> pg[i]]
    /\ Set(t, LAMBDA s : Idle)
    /\ UNCHANGED <<root, nextPageId, callsLeft>>

ReleaseKeepsRootLock(t) ==
    /\ th[t].pc = "release"
    /\ pg' = [i \in DOMAIN pg \ (th[t].del \ Pinned) |-> pg[i]]
    /\ Set(t, LAMBDA s : [Idle EXCEPT !.rootHeld = s.rootHeld])
    /\ UNCHANGED <<root, nextPageId, callsLeft>>

(* FreePagesInTransaction(true, txn): TryUnlockRootPageId, then each page  *)
(* of the page set is unlatched and unpinned, and DeletePage'd if it is in *)
(* the deleted set; the result of DeletePage is not looked at, and it      *)
(* fails for a page another thread still has pinned.  The call returns.    *)
Release(t) ==
    /\ th[t].pc = "release"
    /\ pg' = [i \in DOMAIN pg \ (th[t].del \ Pinned) |-> pg[i]]
    /\ Set(t, LAMBDA s : Idle)
    /\ UNCHANGED <<root, nextPageId, callsLeft>>

(* Faulty variant of the loop body: operator++ stays in the leaf while    *)
(* mIndex_ + 1 <= GetSize().                                               *)
ScanPastEnd(t) ==
    LET s == th[t]  p == pg[s.cur] IN
    /\ s.pc = "scan"
    /\ Set(t, LAMBDA x :
             IF s.idx >= T!Size(p) THEN [x EXCEPT !.pc = "stale_slot"]
             ELSE IF s.idx + 1 <= T!Size(p) THEN [x EXCEPT !.idx = @ + 1]
             ELSE IF p.next = INVALID_PAGE_ID THEN Idle
             ELSE [x EXCEPT !.held = {}, !.cur = p.next, !.pc = "hop"])
    /\ UNCHANGED <<root, pg, nextPageId, callsLeft>>

(* The iterator's loop body under its read latch: operator* reads          *)
(* GetItem(mIndex_), then operator++ moves to the next slot or, past the   *)
(* last one, reads GetNextPageId and UnlockAndUnPin's the leaf; at         *)
(* INVALID_PAGE_ID the iterator isEnd() and the loop stops.                *)
Scan(t) ==
    LET s == th[t]  p == pg[s.cur] IN
    /\ s.pc = "scan"
    /\ Set(t, LAMBDA x :
             IF s.idx >= T!Size(p) THEN [x EXCEPT !.pc = "stale_slot"]
             ELSE IF s.idx + 1 < T!Size(p) THEN [x EXCEPT !.idx = @ + 1]
             ELSE IF p.next = INVALID_PAGE_ID THEN Idle
             ELSE [x EXCEPT !.held = {}, !.cur = p.next, !.pc = "hop"])
    /\ UNCHANGED <<root, pg, nextPageId, callsLeft>>

(* operator++: FetchPage(next), which pins it and needs a frame.  A page  *)
(* id the tree has deleted is no longer buffered and is read back from its *)
(* freed slot.                                                             *)
Hop(t) ==
    /\ th[t].pc = "hop"
    /\ Set(t, LAMBDA s : [s EXCEPT !.pc = CASE ~Fetchable(s.cur)   -> "no_frame"
                                           [] s.cur \in DOMAIN pg -> "latch_next"
                                           [] OTHER               -> "freed_page"])
    /\ UNCHANGED <<root, pg, nextPageId, callsLeft>>

(* operator++: page->RLatch() on the fetched page, mIndex_ = 0.            *)
LatchNext(t) ==
    /\ th[t].pc = "latch_next"
    /\ CanLatch(t, th[t].cur)
    /\ Set(t, LAMBDA s : [s EXCEPT !.held = {s.cur}, !.idx = 0, !.pc = "scan"])
    /\ UNCHANGED <<root, pg, nextPageId, callsLeft>>

(* Thread a takes the step: every step of a thread changes its record.    *)
Moves(a) == th'[a] # th[a]

(* Every step of a thread in a call.                                       *)
Step(t) ==
    \/ InsertLock(t) \/ InsertCheck(t) \/ RemoveCheck(t) \/ FindLeaf(t)
    \/ Crab(t) \/ Rebalance(t) \/ Release(t)
    \/ Scan(t) \/ Hop(t) \/ LatchNext(t)

(* Every thread has made all its calls: the program stops.                 *)
Terminating ==
    /\ \A t \in Threads : th[t].pc = "idle" /\ callsLeft[t] = 0
    /\ UNCHANGED vars

-----------------------------------------------------------------------------
(* The tree InitKeys leave when Inserted one after another by one thread.  *)
EmptyTree ==
    [root |-> INVALID_PAGE_ID, pg |-> [i \in {} |-> T!NewLeaf(INVALID_PAGE_ID, <<>>)],
     next |-> 1]

InitTree == FoldLeft(LAMBDA acc, k : T!InsertOp(acc, k), EmptyTree, InitKeys)

Init ==
    /\ root = InitTree.root
    /\ pg = InitTree.pg
    /\ nextPageId = InitTree.next
    /\ th = [t \in Threads |-> Idle]
    /\ callsLeft = [t \in Threads |-> MaxCalls]

Next ==
    \/ \E t \in Threads : Start(t) \/ Step(t)
    \/ Terminating

(* Thread t in a call can take its next step: it is not waiting for a     *)
(* latch or for mMutex_ that another thread holds.  This is ENABLED        *)
(* Step(t), spelled out from the guards of the steps.                      *)
CanStep(t) ==
    LET s == th[t] IN
    CASE s.pc \in {"i_lock", "find"}    -> CanLockRoot(t)
      [] s.pc \in {"crab", "latch_next"} -> CanLatch(t, s.cur)
      [] s.pc = "rebalance" ->
           pg[s.cur].parent # INVALID_PAGE_ID => CanLatch(t, T!Sibling(T!Tree, s.cur))
      [] s.pc \in {"i_check", "d_check", "release", "scan", "hop"} -> TRUE
      [] OTHER -> FALSE

(* Weak fairness of each thread's steps: a thread that can go on, and      *)
(* stays able to, takes its next step (a step of t is exactly a change of  *)
(* its record outside Start).  Threads are scheduled by the OS and none of *)
(* the code's loops spins, so a runnable thread does run.                  *)
ThreadFair(t) == <>[]CanStep(t) => []<><<th[t].pc # "idle" /\ Moves(t)>>_vars

Spec == Init /\ [][Next]_vars /\ \A t \in Threads : ThreadFair(t)

-----------------------------------------------------------------------------
(* Properties.                                                             *)

Pcs == {"idle", "i_lock", "i_check", "d_check", "find", "crab", "rebalance",
        "release", "scan", "hop", "latch_next"} \cup Faults

(* The tree is typed as in BPlusTree; each thread is at a step of a call   *)
(* of one of the five kinds, holds pages and sets pages to delete that     *)
(* the disk manager handed out, and an iterator's slot is at most the size *)
(* of a leaf (KeyIndex may return GetSize()).                              *)
TypeOK ==
    /\ T!TypeOK
    /\ \A t \in Threads :
         /\ th[t].pc \in Pcs
         /\ th[t].op \in Ops
         /\ th[t].key \in Keys \cup {T!ZeroKey}
         /\ th[t].held \subseteq T!PageIds
         /\ th[t].del \subseteq th[t].held
         /\ th[t].cur \in T!PageIds \cup {INVALID_PAGE_ID}
         /\ th[t].idx \in 0..LeafMax
         /\ th[t].rootHeld \in BOOLEAN /\ th[t].found \in BOOLEAN
    /\ callsLeft \in [Threads -> 0..MaxCalls]

(* The pages a thread has latched exclusively.                             *)
XHeld(s) == IF Exclusive(s.op) THEN s.held ELSE {}

(* What a page holds apart from its parent page id.                        *)
Content(p) == [p EXCEPT !.parent = INVALID_PAGE_ID]

(* The pages a step deletes or whose entries or next link it changes.      *)
Written == {i \in DOMAIN pg : i \notin DOMAIN pg' \/ Content(pg'[i]) # Content(pg[i])}

(* Every write to the tree is covered by a latch: a step changes or        *)
(* deletes only pages its thread holds write-latched (before or after the  *)
(* step) and pages it creates, and changes root_page_id_ only while it     *)
(* holds mMutex_ exclusively.  This is what isSafe must guarantee when a   *)
(* writer frees its ancestors: no split, merge or borrow ever reaches a    *)
(* page the writer has let go.  (Parent page ids of children are written   *)
(* by reparenting without their latch; no thread reads the parent id of a *)
(* page without holding that parent, so they are left out.)                *)
LatchedWrites ==
    [][\A a \in Threads :
         Moves(a) => /\ Written \subseteq XHeld(th[a]) \cup XHeld(th'[a])
                     /\ root' # root => th[a].rootHeld /\ Exclusive(th[a].op)]_vars

(* GetValue is atomic: when it returns, it reports whether its key is in  *)
(* the tree at the moment it reads the leaf, whatever splits, merges and   *)
(* borrows other threads are in the middle of.                             *)
ReaderFindsKey ==
    [][\A t \in Threads :
         th[t].op = "get" /\ th[t].pc = "crab" /\ th'[t].pc = "idle"
           => th'[t].found = (th[t].key \in T!Contents)]_vars

(* While no Insert or Remove holds a latch, the tree is well formed, every *)
(* page not deleted hangs under the root with the right parent id, and the *)
(* leaf chain is sorted: the level-by-level rebalancing of concurrent      *)
(* Removes, interleaved with other threads' splits, and the deferred       *)
(* DeletePage of FreePagesInTransaction leave nothing broken or behind.    *)
QuiescentTree ==
    (\A t \in Threads : XHeld(th[t]) = {}) =>
        /\ T!TreeWellFormed
        /\ T!ParentLinksConsistent
        /\ T!LeafChainOrdered

(* Each step that changes the keys the leaves hold is an Insert adding its *)
(* own key or a Remove dropping its own key, as an IndexKeySet step on     *)
(* that key; a call may still change nothing.                             *)
AbsIndex == INSTANCE IndexKeySet WITH keys <- T!Contents

UpdatesOwnKey ==
    [][\A a \in Threads :
         Moves(a) /\ T!Contents' # T!Contents =>
           \/ th[a].op = "insert" /\ AbsIndex!Insert(th[a].key)
           \/ th[a].op = "remove" /\ AbsIndex!Remove(th[a].key)]_vars

(* Every call returns: no thread waits forever for a latch or for          *)
(* mMutex_, so the crabbing order and the sibling latches cannot deadlock  *)
(* and every lock taken is released.  Each thread makes finitely many      *)
(* calls, so this is: in the end every thread is idle for good.            *)
AllCallsReturn == <>[](\A t \in Threads : th[t].pc = "idle")

(* No thread dereferences the null leaf FindLeafPage returns for an empty  *)
(* tree, fetches a page the tree has deleted, or reads an item past the    *)
(* end of a leaf.                                                          *)
NoInvalidAccess == \A t \in Threads : th[t].pc \notin Faults

====
