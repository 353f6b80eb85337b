# TLA+ models of the SCU_DB storage core

These modules model the storage core under `src/`. The buffer pool
(`src/project1/src/buffer`) caches disk pages in a fixed array of frames.
It finds pages through an extendible hash page table (`src/project1/src/hash`)
and picks eviction victims with an LRU replacer. The concurrent B+tree index
(`src/project2/src/index`, `src/project2/src/page`) stores its nodes as pages of
that pool and latches them with crabbing. Model checking is done with TLC.

## Inventory

| Part | Source | State | Operations | Interacts with |
|---|---|---|---|---|
| LRU replacer | `project1/src/buffer/lru_replacer.cpp`, `include/buffer/lru_replacer.h` (project2 copy differs in `Size`) | linked list `mHead..mTail`, map `mDataMap`, `mLatch` | Insert, Victim, Erase, Size | used by the buffer pool for unpinned frames |
| Buffer pool manager | `project1/src/buffer/buffer_pool_manager.cpp` | `pages_[pool_size_]` (page id, pin count, dirty, data), `free_list_`, `page_table_`, `replacer_`, `latch_` | FetchPage, UnpinPage, FlushPage, DeletePage, NewPage, GetVictimPage | disk manager (read/write/allocate/deallocate), replacer, page table; every B+tree page access |
| Extendible hash | `project1/src/hash/extendible_hash.cpp` | directory `mBuckets`, global depth, per-bucket local depth and `std::map`, `mLatch` and bucket latches | Find, Insert (split, doubling), Remove, depths, bucket count | page table of the buffer pool |
| B+tree pages | `project2/src/page/b_plus_tree_*page.cpp` | size, max/min size, parent id, sorted key array, children or record ids, next-leaf link | KeyIndex, Lookup, Insert, MoveHalfTo, MoveAllTo, MoveFirstToEndOf, MoveLastToFrontOf, Remove..., isSafe | tree algorithms |
| B+tree | `project2/src/index/b_plus_tree.cpp` | `root_page_id_`, root-id RW mutex and thread-local lock count, page latches, the transaction's page and deleted-page sets | GetValue, Insert, Remove (split, coalesce, redistribute, AdjustRoot), FindLeafPage (crabbing), Begin | buffer pool (fetch/new/unpin/delete), header page |
| Index iterator | `project2/src/index/index_iterator.cpp` | current leaf (read-latched, pinned), slot index | `++`, `*`, isEnd | buffer pool, leaf pages |
| Debug facilities | `ToString`, `InsertFromFile`, `RemoveFromFile`, `Check` | — | printing, file loading | partly: `Check` is `CheckTree` (`CheckAccepts`); printing, file loading and `CheckAllUnpined` are not modelled |

The disk manager, header page, `Page`, `RWMutex` and `Transaction` are not in
`src/`. They are modelled only as far as the code above uses them.

Hard behaviours in this code:
- **Interleavings.** Clients of the pool run concurrently, but each pool call
  is atomic under `latch_`. The hash table's Insert and Find use finer latches.
  The B+tree releases and retakes latches while it descends.
- **Long protocol sequences.** Pin and unpin, dirty tracking, and delete then
  reuse of a frame.
- **Resources at their limit.** All frames pinned. A full bucket and directory
  doubling. A full page and its split.
- **Asserts.** An assert in `GetVictimPage` aborts the process.

## Modules

### `LRUReplacer` (modelled)

The list is a sequence with the most recently inserted item first. The map is
the set of items in that sequence. Each call holds `mLatch`, so each is one
function of the list: `LruInsert`, `LruVictim` with `LruAfterVictim`,
`LruErase`, and `LruSize` or `LruSizeP2` (project2's `Size`, which returns 1).
The module has no variables of its own. `BufferPoolManager` instantiates it,
and each operator runs inside the pool step that calls it.

The replacer has one caller, the pool. The pool inserts a frame when its pin
count falls to 0, and erases it when the frame is pinned again or deleted. So
it never re-inserts a frame the replacer already tracks. `LruInsert`
translates that re-insert branch (lines 30-36), but only the replacer's unit
tests reach it. The eviction order the pool gets is checked in `bpm_core`
(`PoolEvictsLeastRecent`).

### `BufferPoolManager` (modelled)

Frames are model values. Per frame, the module keeps `pageId`, `pinCount`,
`dirty` and `data`. `data` is a version number: each client write bumps it.
The other variables are:
- `freeList` (a sequence);
- `replacer` (the LRU list);
- `pageTable` (a function from page id to frame);
- `nextPageId` (the disk manager's allocator);
- `disk` (the version stored per page) and `deleted`;
- ghosts: `pins` (per client and page), `wrote`, `latest` (the newest version
  written to each page), and `crashed` (an assert that fired or a null
  dereference);
- the history variable `unpinned`: the mapped frames with pin count 0, in
  the order their counts reached 0. `TrackUnpinned` updates it on every step
  from the pin counts and the page table, not from the replacer. So it is an
  independent record of what LRU order should be.

Each pool call is one action, because the whole call holds `latch_`:
- **`FetchPage`** is `FetchHit` or `FetchMiss`. A miss is `GetVictimPage`
  (free list first, then `replacer.Victim`, with the asserts), then
  `WriteBack`, the page-table remap (`Install`) and the read.
- **`UnpinPageBody`** sets dirty before the pin-count check, as the code does.
- **`FlushPage`** writes back and clears dirty.
- **`DeletePage`** (its mapped branch is `DeleteMapped`) does not reset the
  frame's page id, as the code does.
- **`NewPage`** takes a victim, then allocates the page id.

The page table is modelled as the map it implements. Its own interleavings
cannot happen here, because every call is made under `latch_`.

Clients make only calls the B+tree could make. A client fetches a page (at
most `MaxPins` pins per page). It writes a page only while it holds it pinned
(`ClientWrite`, an environment action: it stands for the B+tree's writes to a
latched page and translates no single line of the pool). It unpins with
`is_dirty = TRUE` when it wrote, and with either value otherwise. That last choice lets the clean unpin of a reader, and
a failed double unpin, happen. `UnpinPage` also carries the callers' contract:
a client unpins a page it holds, or a page nobody holds, never a page only
another client holds. That guard belongs to the environment, not to the code.
The project2 build of `LRUReplacer::Size` (line 86), which always returns 1, is
modelled in `ReplacerSize` and `GetVictimPage`'s `null_deref` outcome. No run
uses it: with every frame pinned, that build calls `Victim` on an empty list
and the assert dereferences the null result at line 227.

Unpins that fail, and fetch or delete calls that return false or nullptr
without changing state, are stutter steps. Asserts set `crashed`, and the
process stops there.

### `ExtendibleHash` and `HashTableMap` (modelled)

The directory `mBuckets` is `dir`, a function from slots `0 .. 2^gd - 1` to
bucket numbers. A bucket is named by the value of `mBucketNum` when it was
created. Each bucket has a `ld` (its localDepth), a `data` map and a `latch`
owner. Keys are small integers, and `HashKey` is the identity, as
`std::hash<int>` is.

Threads run the operations concurrently. Each action is one critical section of
the code, or one unlatched read:

| Action | Code | What it does |
|---|---|---|
| `InsStart` | lines 113-114 | Index under `mLatch`, then an unlatched read of `mBuckets[index]`. |
| `InsPut` | lines 117-122 | Under the bucket latch: the pair goes into a bucket that has room or already holds the key. `std::map::insert` does not overwrite. |
| `InsFull` | lines 117-126 | The bucket is full. The thread keeps its latch and raises `localDepth` before it takes `mLatch`. |
| `InsSplit` | lines 130-155 | Under `mLatch`: double if needed, create the bucket, redistribute entries by bit `1 << oldLocalDepth`, re-point slots, re-address the key, unlock. |
| `RemStart`, `RemLock` | lines 96-103 | Remove: index, then erase under the bucket latch. |
| `FindStart`, `FindCheck`, `FindRead` | lines 73-76 | Find: index, then `find` and `operator[]` with no latch. `operator[]` inserts `V()` if the key has vanished. |

`mLatch` is held only inside single steps, so it needs no variable. A call's
arguments and locals are cleared when it returns.

`HashTableMap` is the abstract map, changed only by Insert and Remove.
`ExtendibleHash` refines it: `Visible` maps each key to the entry in the bucket
its slot addresses. The refinement is checked as the property `MapRefinement`.

The bound `MaxDepth` caps `mGlobalDepth`. A split that would double past it is
not taken: the thread stays where it is. In the serial run that never happens.
With 4 keys and buckets of size 1, depth 2 suffices. With keys 0..4 and
buckets of size 2, depth 3 suffices.

### `BPlusTree` and `IndexKeySet` (modelled, one thread)

The state is `root` (`root_page_id_`), `pg` (a map from the id of each live
page to the page) and `nextPageId` (the disk manager's allocator; ids are
never reused). A page is a record with `kind`, `parent`, `keys`, `vals` and
`next`. Slot `i` of the code is position `i+1`. An internal page's `keys[1]`
is its slot-0 key. A leaf's values travel with its keys and are left out.
Keys are small positive integers, and `ZeroKey = 0` stands for the zeroed
slot 0 that `NewPage` hands to `PopulateNewRoot`.

Each page method is an operator on the whole tree record, so a tree action
is a chain of the same calls the code makes, with the same guards. The
actions are:

| Action | Code | What it does |
|---|---|---|
| `TreeInsert(k)` | `BPlusTree::Insert` (lines 78-92) with `StartNewTree`, `InsertIntoLeaf`, `Split`, `InsertIntoParent` | Start a tree, or insert into the leaf `FindLeafPage` returns. A duplicate changes nothing. A full leaf splits (`MoveHalfTo` with total = max+1, mid = total/2), and the split climbs while a parent exceeds its max. A root split makes a new root with `PopulateNewRoot`. |
| `TreeRemove(k)` | `BPlusTree::Remove` (lines 248-261) with `CoalesceOrRedistribute`, `Coalesce`, `Redistribute`, `AdjustRoot` | Remove from the leaf. A leaf below `GetMinSize` merges with its left sibling, or with its right sibling when it is the leftmost child, if both fit in one page; otherwise it borrows one pair. A parent left at or below its min rebalances in turn. The root is adjusted or deleted. |

`GetMinSize` is 1 for a root leaf, 2 for a root internal page and max/2
otherwise. The binary searches, leaf `KeyIndex` and internal `Lookup`, are
translated step by step (`KeyIndexFrom`, `LookupFrom`). `RefKeyIndex` and
`RefLookup` are linear references for them.

`IndexKeySet` is what the index promises: a set of keys changed only by
`Insert(k)` and `Remove(k)`. `BPlusTree` refines it through `Contents`, the
keys stored in the leaves. `KeySetRefinement` checks that every step is an
abstract step. `CallsRefine` checks more: the step `TreeInsert(k)` is the
abstract `Insert(k)`, and `TreeRemove(k)` is `Remove(k)`.

What the model shows about slot 0. Internal `MoveAllTo` overwrites the moving
page's slot-0 key with the parent's separator (line 245). The borrows read
and write slot 0 as well. `SlotZeroIsLowerBound` holds in every state: slot 0
of an internal page is always the lower bound of its range, or `ZeroKey` on
the leftmost path. So those writes never install a stale separator.

The tree's own `Check` (lines 622-707). `IsBalanced` and `PageCorr` are
`isBalanced` and `isPageCorr` written as RECURSIVE operators, and
`CheckTree` is `Check` without its `CheckAllUnpined` call. `isPageCorr`
reports `KeyAt(0)` and `KeyAt(size-1)` as a page's range. For an internal
page these are its slot-0 key and its last separator, not the subtree's
smallest and largest keys. So whether `Check` accepts a tree depends on the
slot-0 keys. `CheckAccepts` says `Check` returns true on every reachable
tree. This is the code's own test oracle, run over all 122k trees rather
than the trees the unit tests build.

### `BPlusTreeLatching` (modelled, several threads)

This module runs the tree of `BPlusTree` on several threads. It instantiates
`BPlusTree` on the same variables `root`, `pg` and `nextPageId`. Each thread
has a record in `th`:
- `pc`: where it is in its call.
- `op` and `key`: the call.
- `held`: its page set, the pages it has latched.
- `rootHeld`: whether it holds `mMutex_`, the root-id lock.
- `cur`: the page it works on.
- `idx`: the iterator's slot.
- `del`: its deleted-page set.
- `found`: what its last GetValue returned.

A thread's latches are shared for GetValue and the iterator, and exclusive
for Insert and Remove, as the code passes them. `CanLatch` and `CanLockRoot`
are the reader/writer compatibility of `RWMutex`.

Each step is one latch acquisition or release, together with the page reads
and writes the code does before its next acquisition or release. An acquire
can be moved later, and a release earlier, past other threads' steps. A write
to a page held exclusively commutes with every step of the other threads. So
this grain loses no interleaving that the latches allow. The argument needs
every write to hit a page the writer holds exclusively, and `LatchedWrites`
checks exactly that. A read done before an acquisition gets a step of its
own, with the value kept in `th`. These reads are Remove's unlocked
`IsEmpty` and the iterator's next-page id.

The tree runs on a buffer pool of `PoolSize` frames. The tree unpins every
page it fetches, on every path, so the pinned pages are `PinnedPages`: the
pages in the threads' page sets and the iterators' leaves. The header page is
pinned only inside `UpdateRootPageId`. A `FetchPage` of a page nobody has
pinned, and every `NewPage`, needs a frame that holds no pinned page
(`Fetchable`, `FramesFor`). With none, the pool returns nullptr, which the
tree dereferences: the fault `no_frame`. The frames are counted at these
points:
- the crab's fetch and the sibling's fetch;
- `StartNewTree`'s root and header;
- each split's new page, and a new root with the header fetch;
- `AdjustRoot`'s header fetch;
- the iterator's fetch of the next leaf.

A thread waiting for a latch has pinned a page its holder has pinned
already, so it takes no extra frame.

| Action | Code | What it does |
|---|---|---|
| `Start(t)` | call entry | A call from `Calls[t]` begins. Whatever the thread still holds, it keeps. |
| `InsertLock`, `InsertCheck` | `Insert`, lines 78-92 | `LockRootPageId(true)`, then `IsEmpty`. An empty tree gets `StartNewTree`. Otherwise unlock and go to `FindLeafPage`. |
| `RemoveCheck` | `Remove`, line 249 | The unlocked `IsEmpty`. |
| `FindLeaf` | `FindLeafPage`, lines 447-456 | `LockRootPageId`, then `IsEmpty` again. On an empty tree, Insert and Remove go to `null_leaf`. Otherwise read `root_page_id_`. |
| `Crab` | `CrabingProtocalFetchPage`, lines 477-488, with the loop of `FindLeafPage` (`Arrive`) | Latch `cur`. For a child, a reader, or a writer for whom the child `isSafe`, frees its page set and `mMutex_`. At an internal page, read the next child. At the leaf, `AtLeaf` does the call's work: `Lookup` for GetValue; for `Begin()`, slot 0 and unlocking `mMutex_`, and for `Begin(key)` (op `seek`), slot `KeyIndex(key)`; `InsertIntoLeafAt` with split and `InsertIntoParent` for Insert (new pages join the page set); `RemoveAndDeleteRecord` for Remove. |
| `Rebalance` | `CoalesceOrRedistribute`, `FindLeftSibling`, `Coalesce`, lines 272-354 | One level. The sibling is latched and added to the page set, then comes the merge or borrow (`BPlusTree!RebalanceLevel`). A merged-away page or an old root goes to `del`. |
| `Release` | `FreePagesInTransaction`, lines 491-512 | Unlatch everything. `DeletePage` the pages of `del` that no iterator has pinned; a failed `DeletePage` is ignored. |
| `Scan`, `Hop`, `LatchNext` | `index_iterator.cpp`, lines 39-74 | `operator*` and `operator++` under the leaf's latch. At the end of a leaf, read the next id and let go. Then fetch the next leaf (`freed_page` if it was deleted), then latch it. |

The pcs in `Faults` are where the code goes wrong: `null_leaf`, `freed_page`,
`stale_slot` (an item read past a leaf's end) and `no_frame`. `Init` is the tree that
`InitKeys` leave when one thread inserts them, built with `BPlusTree!InsertOp`.
`Terminating` stutters once every thread has made its `MaxCalls` calls.

Properties:
- `TypeOK`. The tree is typed as in `BPlusTree`. Each thread's deleted set is
  part of its page set.
- `LatchedWrites` (action). A thread's step changes or deletes only pages it
  holds exclusively, before or after the step, and pages it creates. It changes
  `root_page_id_` only while it holds `mMutex_` exclusively. This is what
  `isSafe` must ensure. Parent ids are left out: reparenting writes a child's
  parent id without the child's latch, and nobody reads it without holding
  the parent.
- `ReaderFindsKey` (action). When GetValue returns, it reports whether its key
  is in the tree at that moment.
- `UpdatesOwnKey` (action). Every step that changes the key set is an Insert
  adding its own key or a Remove dropping its own key. It does not require a
  Remove of a present key to remove it, so it bounds what a call may change
  rather than showing that every call does its work.
- `QuiescentTree`. With no exclusive latch held, the tree is well formed, every
  live page hangs under the root, and the leaf chain is sorted.
- `NoInvalidAccess`. No thread is at a fault. No thread dereferences a null
  leaf or reads a deleted page, and no `FetchPage` or `NewPage` returns
  nullptr.
- `AllCallsReturn` (liveness). In the end every thread is idle. No latch wait
  lasts forever, and no lock stays taken.

## Runs

| Run | Module / cfg | Expect | What it shows |
|---|---|---|---|
| `bpm_core` | `MCBufferPoolManager` / `MCBufferPoolManager.cfg` | pass | See below. |
| `bpm_lost_update` | `MCBufferPoolManager` / `BPMLostUpdate.cfg` | violation | `NoLostUpdate` fails. |
| `bpm_free_frame_id` | `MCBufferPoolManager` / `BPMFreeFrameId.cfg` | violation | `FreeFramesUnassigned` fails. |
| `eh_serial` | `MCExtendibleHash` / `MCExtendibleHash.cfg` | pass | One thread, keys 0..4, bucket size 2, two values, 11.6k states. The directory stays consistent, every entry sits in the bucket its slot addresses, and the table refines `HashTableMap`. Under `FairSpec`, every Insert returns (`InsertReturns`). |
| `eh_concurrent` | `MCExtendibleHash` / `EHConcurrent.cfg` | pass | Two threads, keys 0..3, buckets of 1, at most 4 slots, 1.5M states, about 30 s. `DirectoryConsistent` holds through every interleaving of two threads' splits. One thread's bucket can have its `localDepth` raised (line 126, before `mLatch`) while the other thread splits its own bucket or doubles the directory. |
| `eh_stale_insert` | `EHStaleInsert.cfg` | violation | `KeysWellPlaced` fails. |
| `eh_find_writes` | `EHFindWrites.cfg` | violation | `FindReadOnly` fails. |
| `bpt_deep` | `MCBPlusTree` / `MCBPlusTree.cfg` | pass | 7 keys, leaves of 2, internal pages of 3, 9 page ids, 122k states, about 1 minute. Trees reach height 3, and every internal merge and borrow happens. The tree stays well formed (`TreeWellFormed`: Check's size bounds, sorted keys, separator ranges, one leaf depth). Parent links match (`ParentLinksConsistent`). The leaf chain lists the keys in order (`LeafChainOrdered`). The binary searches agree with their references (`SearchAgrees`). Slot 0 is the range's lower bound. The code's own `Check` accepts every tree (`CheckAccepts`). The tree refines `IndexKeySet`. |
| `bptl_core` | `MCBPlusTreeLatching` / `MCBPlusTreeLatching.cfg` | pass | Two threads over a height-3 tree, two calls each, 18k states, a few seconds. See below. |
| `bptl_stale_hop` | `MCBPlusTreeLatching` / `BPTLStaleHop.cfg` | violation | `NoInvalidAccess` fails: the iterator fetches a deleted leaf. |
| `bptl_empty_race` | `MCBPlusTreeLatching` / `BPTLEmptyRace.cfg` | violation | `NoInvalidAccess` fails: an Insert descends into a tree a Remove has just emptied. |
| `bpt_wide` | `MCBPlusTree` / `BPTWide.cfg` | pass | 7 keys, leaves of 4, internal pages of 3, 9 page ids, 14.5k states, about 25 s. Leaves of 4 (min 2) are the smallest that borrow instead of always merging. Every stored key is found by `FindLeafPage` and leaf `Lookup` (`GetValueFindsAll`). The tree stays well formed. Each `Insert(k)` step adds exactly `k`, and each `Remove(k)` step drops exactly `k` (`CallsRefine`). `CallsRefine` evaluates both operations for every key on every step, which is why the run stops at 7 keys. |

The `bpm_core` run covers 2 clients, 2 frames and 3 page ids, about 386k
states. Under every interleaving of their calls, these properties hold:
- `PageTableConsistent`: the page table and the frames' ids agree.
- `FrameStatesPartition`: each mapped frame is either pinned or in the
  replacer, and never both.
- `PinsAccounted`: pin counts equal the clients' outstanding pins.
- `DirtyVictimWrittenBack`: a dirty frame's content reaches the disk before the
  frame is reused.
- `PoolEvictsLeastRecent`: when a frame that held an unpinned page is reused,
  it is the frame whose pin count reached 0 longest ago. This holds even though
  both clients' unpins and fetch hits (which must take the frame out of the
  replacer) interleave. Deletes add nothing to this: a deleted frame goes to the
  free list, and its reuse stops at the assert at line 225. It is checked against the history variable
  `unpinned`. Its mutant `LruInsertAtTail` links the node before `mTail`, and
  the pool then evicts the most recently unpinned frame.

Why these bounds are enough:
- **Frames.** Two frames make both eviction and a full pool reachable.
- **Page ids.** With three page ids, the pool holds fewer frames than there are
  pages, so pages are evicted and fetched again.
- **Clients and pins.** Two clients with one pin per page make shared pins,
  concurrent delete, and a reader's clean unpin reachable.
- **Versions.** `MaxVersion = 1` is enough to tell a written page from an
  unwritten one.

`EHStaleInsert.cfg` and `EHFindWrites.cfg` use `CHECK_DEADLOCK FALSE`. A
thread stuck at the `MaxDepth` bound is the model's picture of a split loop
that never ends: the code would keep doubling the directory. That loop
(`extendible_hash.cpp:116`) never ends once a key sits in the wrong bucket,
which only the stale insert of finding 3 causes. `EHConcurrent.cfg` uses
`CHECK_DEADLOCK FALSE` for the same reason. It keeps `MaxDepth` at 2: keys
0..3 all fit at depth 2. A key that the stale insert misplaces has the same
low bits as the key it joins, so any larger depth only lengthens the same
endless loop. With `MaxDepth = 3` the run takes about 3 minutes for 4.7M
states and shows nothing new. Both races of line 126 happen in this run:
- both threads have raised their buckets' depths past the global depth;
- one has raised its bucket's depth while the other splits a different bucket.

The B+tree bounds:
- **Leaves of 2 and internal pages of 3.** These are the smallest sizes at
  which splits climb to a new root. Seven keys reach height 3, so internal
  pages merge and borrow.
- **Leaves of 4.** A leaf of 2 is underfull only when it is empty, and an
  empty leaf always fits in its sibling, so it never borrows. `BPTWide.cfg`
  uses leaves of 4, where both leaf borrows happen.
- **`MaxPageId`.** This caps the allocator. An insert that would allocate past
  it is not taken. Removes stay enabled, so no state deadlocks, and the runs
  check deadlock.

`CHECK_DEADLOCK FALSE` is used in the BPM runs for two reasons. A fired assert
ends the process. The page-id allocator is bounded at `MaxPageId`.

The `bptl_core` run (`MCBPlusTreeLatching.cfg`) starts from the height-3 tree
of keys 1..5: root `[3]` over `[_,2]` (leaves `[1]`, `[2]`) and `[_,4]`
(leaves `[3]`, `[4,5]`). Leaves hold 2 and internal pages 3, as in
`bpt_deep`. Each thread makes two calls:
- **t1** chooses from an iteration, `Remove(3)` (a leaf merge), `Remove(2)`
  (merges up to the root, which collapses) and `Insert(6)` (a leaf split).
- **t2** chooses from `Remove(5)` (next to t1's keys), `Insert(1)` (a
  duplicate), `GetValue(2)` and `GetValue(5)` (keys that merges and splits
  move), and `Begin(4)` (an iterator that starts mid-tree, at a key no call
  removes).

Every action fires. Writers race writers on the same subtree, and a writer's
sibling latch waits on the other thread. Readers and the iterator race
splits and merges. Only t1 deletes pages. Neither iterator is ever about to
hop onto a leaf that a Remove deletes; TLC confirms this for these calls.
That race is `bptl_stale_hop`, which gives t1 only the iteration and t2 the
Removes, one call each. The tree never becomes empty in this run.

The pool has 7 frames (`PoolSize`). This is the fewest with which these calls
never get nullptr. With 6, TLC reaches `no_frame` in this scenario:
- `Remove(2)` collapses the root. It holds the leaf, its sibling, both
  internal pages and the root.
- It then fetches the header page.
- Meanwhile t2's `Begin(4)` iterator pins its leaf.

So `NoInvalidAccess` here also says that 7 frames suffice for two threads on
a height-3 tree. `bptl_stale_hop` and `bptl_empty_race` use the same pool.

### Findings

1. **`bpm_lost_update`** (`buffer_pool_manager.cpp:100`). `UnpinPage` assigns
   the dirty flag instead of ORing it. It does this even when it then refuses
   the unpin. An unpin with false, after a dirty one, clears the flag. The next
   eviction drops the write.
2. **`bpm_free_frame_id`** (`buffer_pool_manager.cpp:165`). `DeletePage` puts
   the frame on the free list without resetting `page_id_`. The assert at line
   225 then aborts the next `FetchPage` or `NewPage` that takes that frame.
3. **`eh_stale_insert`** (`extendible_hash.cpp:114`). Insert reads the bucket
   pointer before it latches the bucket, and does not re-check it afterwards.
   Here is the trace, with buckets of size 1:
   - Key 1 is in bucket 0.
   - t1's `Insert(0)` finds bucket 0 full and starts to split it.
   - t2's `Insert(1)` reads the pointer to bucket 0.
   - t1's split moves key 1 to the new bucket 1.
   - t2 locks bucket 0, which now has room, and stores key 1 there.

   Key 1 is now stored twice. Find and Remove cannot see the copy in bucket 0.
4. **`eh_find_writes`** (`extendible_hash.cpp:76`). Find checks the key and then
   reads `dataMap[key]`, with no latch. If a Remove runs in between,
   `operator[]` re-inserts the key with `V()`. For the page table, `V()` is
   nullptr.
5. **Keep-first Insert** (`extendible_hash.cpp:121`). `std::map::insert`
   keeps the old value of a key that is already present. Design §4.3 says
   Insert upserts. The buffer pool never inserts a page id that is already
   present, so only direct users of the table see this. No run checks it.
   `HashTableMap` states what the code does: a present key keeps its value.
   `MapRefinement` checks the code against that.
6. **`bptl_stale_hop`** (`index_iterator.cpp:66`). `operator++` reads the
   next leaf's id, unlatches and unpins its leaf, and only then fetches the
   next one. Nothing is held in between. TLC's trace, from the height-3 tree
   of `MCInitKeys`:
   - The iterator is at leaf `[1]`. It reads next = 2 and lets the leaf go.
   - `Remove(2)` empties leaf 2 and merges it into leaf 1. The merge climbs
     and collapses the root. `FreePagesInTransaction` deletes pages 2, 6
     and 7. Page 2 is not pinned, so `DeletePage` succeeds.
   - The iterator fetches page 2, which the tree has deleted.

   Spec §4.4 says the iterator visits the keys that are present. If the
   iterator had already pinned page 2, `DeletePage` would fail, and
   `FreePagesInTransaction` ignores that (line 506). The emptied page would
   then stay in the pool, and the iterator would read a leaf of size 0.
7. **`bptl_empty_race`** (`b_plus_tree.cpp:87`). Insert tests `IsEmpty`
   under the root lock, unlocks at line 89, and descends. From a tree of one
   leaf `[1]` (`MCOneKey`):
   - t1's `Insert(2)` sees a non-empty tree and lets the root lock go.
   - t2's `Remove(1)` empties the leaf. `AdjustRoot` sets `root_page_id_` to
     `INVALID_PAGE_ID`, and the page is deleted.
   - t1's `FindLeafPage` returns nullptr, which `InsertIntoLeaf` dereferences
     at line 137.

   `Remove` has the same window between its unlocked `IsEmpty` (line 249)
   and `FindLeafPage`.

These races only matter when threads use the table directly, as its
per-bucket latches allow. The buffer pool calls it only under `latch_`.

## Fairness

`ExtendibleHash!FairSpec` is `Spec` with weak fairness (`WF_vars`) of each
thread's steps within a call. It is used by `eh_serial` for `InsertReturns`:
every Insert's split loop ends. Threads wait only on `std::mutex` latches, and
a holder releases each latch within its step or at the end of the split. The
OS schedules every runnable thread. Starting a call is the caller's choice,
so it is not fair. With one thread, every key sits in the bucket its slot
addresses, so each split separates the full bucket's keys by one more bit.
The loop that never ends needs the misplaced key of finding 3.

`BPlusTreeLatching!Spec` has its own fairness, and only `AllCallsReturn` uses it.
`ThreadFair(t)` is weak fairness of thread `t`'s steps within a call. If `t`
stays able to go on, it eventually takes a step. `CanStep(t)` spells out when
`t` can go on: it waits for nothing, or the latch or `mMutex_` it waits for is
free. Every step is its guards followed by total, deterministic assignments,
so `CanStep(t)` is `ENABLED Step(t)`. It is written out because TLC evaluates
`ENABLED` of the recursive tree operators far too slowly. The code justifies
this fairness: threads are scheduled by the OS, and nothing spins. Starting a
call is not fair, because a thread may make fewer calls. All other properties
are safety properties.

## Plan

1. `LRUReplacer`: done, as operators checked through the pool's eviction order.
2. `BufferPoolManager`: done.
3. `ExtendibleHash`: done.
4. `BPlusTree`: done. Sequential Insert and Remove with every rebalancing
   path, Check's conditions as invariants, `Check` itself as `CheckTree`, and the refinement to a set of keys.
5. `BPlusTreeLatching`: done for Insert, Remove, GetValue, `Begin()` and `Begin(key)`.
   Still to do:
   - A run of `Begin(key)` on an absent key above every key of its leaf.
     `KeyIndex` then returns `GetSize()`, and `operator*` reads past the end
     (`b_plus_tree.cpp:435`; the model's `stale_slot`). It needs no second
     thread, so `bptl_core` seeks only key 4, which no call removes.
6. The index iterator: done, inside `BPlusTreeLatching`.
7. Pure operators: done, inside `BPlusTree` (`SearchAgrees`).
8. The header page record that `UpdateRootPageId` writes. `StartNewTree`
   inserts the record again after the tree has been emptied.
9. `ExtendibleHash`: a run that checks a Remove's or Find's result against the
   key's presence. `RemStart` and `FindStart` already model the index computed
   before a concurrent split moves the key (`extendible_hash.cpp:73`, `:96-97`),
   but `MapRefinement` reads a false Remove as a no-op.

## Not modelled

- The byte layout of pages and the serialization of keys and values.
- Logging, printing and the file-loading harness.
- The disk manager's I/O. Only its allocate counter and one stored version per
  page are modelled.
- The header page record (`UpdateRootPageId`, `b_plus_tree.cpp:522-533`).
  `HeaderPage` is not under src/, and spec.md line 76 does not say what
  `InsertRecord` does when the name already has a record. That is exactly the
  case at line 112, where `StartNewTree` runs again after a Remove has emptied
  the tree. The model would have to guess the outcome it is meant to check, so
  the record is left out and the header fetch is modelled only as a pinned frame.
- The data race on `mBuckets` in `ExtendibleHash`. Find, Remove and Insert
  index the vector and copy its `shared_ptr` without `mLatch`, while a doubling
  `push_back` (line 134) may reallocate it. A model step sees the directory
  whole, before or after the split. A read made during the reallocation is
  undefined behaviour, and the model has no state for it.
- `ToString`, the file loaders and the read-only accessors `GetGlobalDepth`,
  `GetLocalDepth` and `GetNumBuckets`. None of them changes state.
