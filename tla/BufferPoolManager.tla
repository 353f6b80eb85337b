------------------------- MODULE BufferPoolManager -------------------------
(***************************************************************************)
(* The buffer pool manager of                                              *)
(* src/project1/src/buffer/buffer_pool_manager.cpp with its LRU replacer   *)
(* and its page table.                                                     *)
(*                                                                         *)
(* Every public operation takes latch_ for its whole body, so each is one  *)
(* atomic step; concurrency shows as the interleaving of whole calls made  *)
(* by several clients (the B+tree's worker threads).  The page table is    *)
(* the ExtendibleHash of page id to frame; under latch_ it behaves as a    *)
(* map whose Insert keeps an existing entry (std::map::insert).            *)
(*                                                                         *)
(* Page contents are abstracted to a version number: a client holding a   *)
(* pin writes version data+1; the disk keeps one version per page.  The    *)
(* ghost latest records the newest version any client wrote, so that a    *)
(* write the pool drops can be seen.                                       *)
(*                                                                         *)
(* The asserts of GetVictimPage either abort the process (AssertsEnabled)  *)
(* or are compiled out; an abort is recorded in crashed and ends the run.  *)
(***************************************************************************)
EXTENDS Integers, Sequences, SequencesExt, Functions, TLC

CONSTANTS
    Frames,          \* pages_[0 .. pool_size-1]
    Clients,         \* threads calling the pool
    NoFrame,         \* a nullptr Page*
    MaxPageId,       \* the disk manager allocates ids 0 .. MaxPageId-1
    MaxPins,         \* bound on the pins one client holds on one page
    MaxVersion,      \* bound on the versions a page's content goes through
    AssertsEnabled,  \* TRUE: assert() aborts; FALSE: built with NDEBUG
    ReplacerBuild    \* "project1" or "project2" lru_replacer.cpp

ASSUME NoFrame \notin Frames
ASSUME MaxPageId \in Nat \ {0} /\ MaxPins \in Nat \ {0} /\ MaxVersion \in Nat
ASSUME AssertsEnabled \in BOOLEAN
ASSUME ReplacerBuild \in {"project1", "project2"}

INVALID_PAGE_ID == -1
PageIds == 0 .. MaxPageId - 1

VARIABLES
    pageId,      \* Page::page_id_ of each frame
    pinCount,    \* Page::pin_count_
    dirty,       \* Page::is_dirty_
    data,        \* Page::data_, as a version
    freeList,    \* free_list_
    replacer,    \* replacer_'s list, most recently unpinned first
    pageTable,   \* page_table_: page id -> frame
    nextPageId,  \* the disk manager's next page id
    disk,        \* the disk's content of each page, as a version
    deleted,     \* pages the disk manager was told to deallocate
    pins,        \* pins[c][p]: pins client c holds on page p
    wrote,       \* wrote[c][p]: c changed p since it last unpinned it dirty
    latest,      \* ghost: newest version written to each page
    crashed,     \* "none", or the failed check that aborted the process
    unpinned     \* history: the mapped frames with pin count 0, in the
                 \* order their pin count reached 0

poolVars   == <<pageId, pinCount, dirty, data, freeList, replacer, pageTable>>
diskVars   == <<nextPageId, disk, deleted>>
clientVars == <<pins, wrote, latest>>
vars       == <<poolVars, diskVars, clientVars, crashed, unpinned>>

R == INSTANCE LRUReplacer

-----------------------------------------------------------------------------
(* Page table operations (ExtendibleHash Find / Remove / Insert).          *)
PtRemove(t, k) == [x \in DOMAIN t \ {k} |-> t[x]]

PtInsert(t, k, v) == t @@ (k :> v)

(* replacer_->Size() of the build in use.                                  *)
ReplacerSize ==
    IF ReplacerBuild = "project1" THEN R!LruSize(replacer)
                                  ELSE R!LruSizeP2(replacer)

(* Number of pins all clients hold on page p.                              *)
Holders(p) == SumFunction([c \in Clients |-> pins[c][p]])

Allocated == 0 .. nextPageId - 1

-----------------------------------------------------------------------------
(* GetVictimPage: the free list first, else the replacer's victim, else    *)
(* nullptr.  status is "ok", "none" (nullptr returned) or the check that   *)
(* aborts: "assert" for either assert, "null_deref" when Victim failed and *)
(* the assert dereferences the null tar.                                   *)
VictimResult(status, f, fl, rp) ==
    [status |-> status, frame |-> f, free |-> fl, repl |-> rp]

GetVictimPage ==
    IF freeList # <<>>
    THEN LET f == Head(freeList) IN
         VictimResult(IF AssertsEnabled /\ (pageId[f] # INVALID_PAGE_ID
                                            \/ pinCount[f] # 0)
                      THEN "assert" ELSE "ok",
                      f, Tail(freeList), replacer)
    ELSE IF ReplacerSize = 0
    THEN VictimResult("none", NoFrame, freeList, replacer)
    ELSE IF replacer = <<>>
    THEN VictimResult(IF AssertsEnabled THEN "null_deref" ELSE "none",
                      NoFrame, freeList, replacer)
    ELSE LET f == R!LruVictim(replacer) IN
         VictimResult(IF AssertsEnabled /\ pinCount[f] # 0
                      THEN "assert" ELSE "ok",
                      f, freeList, R!LruAfterVictim(replacer))

(* Faulty variant of WriteBack: the dirty victim is dropped unwritten.     *)
WriteBackSkipped(f) == disk

(* Step 2 of FetchPage and NewPage: a dirty victim is written to disk.     *)
WriteBack(f) ==
    IF dirty[f] THEN [disk EXCEPT ![pageId[f]] = data[f]] ELSE disk

(* Faulty variant of Install: the victim's old page id is not removed     *)
(* from the page table.                                                    *)
InstallNoRemove(f, p, v) ==
    /\ pageTable' = PtInsert(pageTable, p, f)
    /\ pageId' = [pageId EXCEPT ![f] = p]
    /\ data' = [data EXCEPT ![f] = v]
    /\ pinCount' = [pinCount EXCEPT ![f] = 1]
    /\ dirty' = [dirty EXCEPT ![f] = FALSE]

(* Remap the victim frame f from its old page id to page p and make it     *)
(* hold content v, pinned once and clean.                                  *)
Install(f, p, v) ==
    /\ pageTable' = PtInsert(PtRemove(pageTable, pageId[f]), p, f)
    /\ pageId' = [pageId EXCEPT ![f] = p]
    /\ data' = [data EXCEPT ![f] = v]
    /\ pinCount' = [pinCount EXCEPT ![f] = 1]
    /\ dirty' = [dirty EXCEPT ![f] = FALSE]

Crash(status) ==
    /\ crashed' = status
    /\ UNCHANGED <<poolVars, diskVars, clientVars>>

-----------------------------------------------------------------------------
(* Faulty variant of FetchHit: the frame is pinned but left in replacer_.  *)
FetchHitNoErase(c, p) ==
    LET f == pageTable[p] IN
    /\ pinCount' = [pinCount EXCEPT ![f] = @ + 1]
    /\ pins' = [pins EXCEPT ![c][p] = @ + 1]
    /\ UNCHANGED <<pageId, dirty, data, freeList, replacer, pageTable,
                   diskVars, wrote, latest, crashed>>

(* Faulty variant of FetchHit: pin_count_ is set to 1 instead of being   *)
(* incremented, as for a freshly read page.                                *)
FetchHitResetPin(c, p) ==
    LET f == pageTable[p] IN
    /\ pinCount' = [pinCount EXCEPT ![f] = 1]
    /\ replacer' = R!LruErase(replacer, f)
    /\ pins' = [pins EXCEPT ![c][p] = @ + 1]
    /\ UNCHANGED <<pageId, dirty, data, freeList, pageTable,
                   diskVars, wrote, latest, crashed>>

(* FetchPage, page found in the table: pin it, take it out of replacer_.   *)
FetchHit(c, p) ==
    LET f == pageTable[p] IN
    /\ pinCount' = [pinCount EXCEPT ![f] = @ + 1]
    /\ replacer' = R!LruErase(replacer, f)
    /\ pins' = [pins EXCEPT ![c][p] = @ + 1]
    /\ UNCHANGED <<pageId, dirty, data, freeList, pageTable,
                   diskVars, wrote, latest, crashed>>

(* FetchPage, page not in the table: take a victim, write it back if       *)
(* dirty, remap it, read the page from disk.  A nullptr victim makes the   *)
(* call return nullptr with nothing changed, a stuttering step.            *)
FetchMiss(c, p) ==
    LET v == GetVictimPage IN
    \/ /\ v.status = "ok"
       /\ disk' = WriteBack(v.frame)
       /\ Install(v.frame, p, disk'[p])
       /\ freeList' = v.free
       /\ replacer' = v.repl
       /\ pins' = [pins EXCEPT ![c][p] = @ + 1]
       /\ UNCHANGED <<nextPageId, deleted, wrote, latest, crashed>>
    \/ /\ v.status \in {"assert", "null_deref"}
       /\ Crash(v.status)

FetchPage(c, p) ==
    /\ crashed = "none"
    /\ pins[c][p] < MaxPins
    /\ IF p \in DOMAIN pageTable THEN FetchHit(c, p) ELSE FetchMiss(c, p)

(* Faulty variant of UnpinPage: the pin_count <= 0 check is dropped.       *)
UnpinPageNoCheck(c, p, d) ==
    LET f == pageTable[p] IN
    /\ p \in DOMAIN pageTable
    /\ dirty' = [dirty EXCEPT ![f] = d]
    /\ pinCount' = [pinCount EXCEPT ![f] = @ - 1]
    /\ replacer' = IF pinCount[f] = 1 THEN R!LruInsert(replacer, f)
                                      ELSE replacer
    /\ pins' = IF pins[c][p] > 0 THEN [pins EXCEPT ![c][p] = @ - 1] ELSE pins
    /\ UNCHANGED <<pageId, data, freeList, pageTable, diskVars, latest>>

(* UnpinPage(p, d): not found returns false (a stutter).  The dirty flag   *)
(* is assigned d before the pin count is checked; a count already <= 0    *)
(* returns false, else it is decremented and a frame reaching 0 enters     *)
(* replacer_.                                                              *)
UnpinPageBody(c, p, d) ==
    LET f == pageTable[p] IN
    /\ p \in DOMAIN pageTable
    /\ dirty' = [dirty EXCEPT ![f] = d]
    /\ IF pinCount[f] <= 0
       THEN UNCHANGED <<pinCount, replacer, pins>>
       ELSE /\ pinCount' = [pinCount EXCEPT ![f] = @ - 1]
            /\ replacer' = IF pinCount[f] = 1 THEN R!LruInsert(replacer, f)
                                              ELSE replacer
            /\ pins' = IF pins[c][p] > 0 THEN [pins EXCEPT ![c][p] = @ - 1]
                                         ELSE pins
    /\ UNCHANGED <<pageId, data, freeList, pageTable, diskVars, latest>>

(* A client unpins a page it holds a pin on, or (a double unpin) a page    *)
(* nobody holds.  It passes is_dirty = true when it changed the page.      *)
(* The second conjunct is the callers' contract, not a check of the code:  *)
(* a client never unpins a page another client still holds.               *)
UnpinPage(c, p) ==
    /\ crashed = "none"
    /\ pins[c][p] > 0 \/ Holders(p) = 0
    /\ \E d \in IF wrote[c][p] THEN {TRUE} ELSE BOOLEAN :
          /\ UnpinPageBody(c, p, d)
          /\ wrote' = [wrote EXCEPT ![c][p] = FALSE]
    /\ UNCHANGED crashed

(* FlushPage(p): a mapped, dirty page is written and marked clean.         *)
FlushPage(p) ==
    LET f == pageTable[p] IN
    /\ crashed = "none"
    /\ p \in DOMAIN pageTable
    /\ pageId[f] # INVALID_PAGE_ID
    /\ dirty[f]
    /\ disk' = [disk EXCEPT ![p] = data[f]]
    /\ dirty' = [dirty EXCEPT ![f] = FALSE]
    /\ UNCHANGED <<pageId, pinCount, data, freeList, replacer, pageTable,
                   nextPageId, deleted, clientVars, crashed>>

(* DeletePage of a mapped page: a pinned page returns false (a stutter);  *)
(* else the frame leaves replacer_ and the table, is cleaned, zeroed and  *)
(* put on the free list.  ResetMemory zeroes the bytes only, so page_id_  *)
(* keeps its old value.                                                    *)
DeleteMapped(p) ==
    LET f == pageTable[p] IN
    /\ pinCount[f] = 0
    /\ replacer' = R!LruErase(replacer, f)
    /\ pageTable' = PtRemove(pageTable, p)
    /\ dirty' = [dirty EXCEPT ![f] = FALSE]
    /\ data' = [data EXCEPT ![f] = 0]
    /\ freeList' = Append(freeList, f)
    /\ UNCHANGED <<pageId, pinCount>>

(* DeletePage(p): the disk manager deallocates p whenever the call gets    *)
(* past the pinned check, whether or not p was buffered.                   *)
DeletePage(p) ==
    /\ crashed = "none"
    /\ p \in Allocated
    /\ IF p \in DOMAIN pageTable THEN DeleteMapped(p) ELSE UNCHANGED poolVars
    /\ deleted' = deleted \cup {p}
    /\ UNCHANGED <<nextPageId, disk, clientVars, crashed>>

(* NewPage: take a victim (nullptr: a stutter), allocate the next page id, *)
(* write the victim back if dirty, remap it, zero it, pin it once.         *)
NewPage(c) ==
    LET v == GetVictimPage
        p == nextPageId IN
    /\ crashed = "none"
    /\ nextPageId < MaxPageId
    /\ \/ /\ v.status = "ok"
          /\ nextPageId' = nextPageId + 1
          /\ disk' = WriteBack(v.frame)
          /\ Install(v.frame, p, 0)
          /\ freeList' = v.free
          /\ replacer' = v.repl
          /\ pins' = [pins EXCEPT ![c][p] = @ + 1]
          /\ UNCHANGED <<deleted, wrote, latest, crashed>>
       \/ /\ v.status \in {"assert", "null_deref"}
          /\ Crash(v.status)

(* A client holding a pin on p changes the page's bytes (what the B+tree   *)
(* does to a page it has latched), and will unpin it dirty.                *)
ClientWrite(c, p) ==
    LET f == pageTable[p] IN
    /\ crashed = "none"
    /\ pins[c][p] > 0
    /\ p \in DOMAIN pageTable
    /\ data[f] < MaxVersion
    /\ data' = [data EXCEPT ![f] = @ + 1]
    /\ latest' = [latest EXCEPT ![p] = data[f] + 1]
    /\ wrote' = [wrote EXCEPT ![c][p] = TRUE]
    /\ UNCHANGED <<pageId, pinCount, dirty, freeList, replacer, pageTable,
                   diskVars, pins, crashed>>

-----------------------------------------------------------------------------
Init ==
    /\ pageId = [f \in Frames |-> INVALID_PAGE_ID]
    /\ pinCount = [f \in Frames |-> 0]
    /\ dirty = [f \in Frames |-> FALSE]
    /\ data = [f \in Frames |-> 0]
    /\ freeList = SetToSeq(Frames)
    /\ replacer = <<>>
    /\ pageTable = [p \in {} |-> NoFrame]
    /\ nextPageId = 0
    /\ disk = [p \in PageIds |-> 0]
    /\ deleted = {}
    /\ pins = [c \in Clients |-> [p \in PageIds |-> 0]]
    /\ wrote = [c \in Clients |-> [p \in PageIds |-> FALSE]]
    /\ latest = [p \in PageIds |-> 0]
    /\ crashed = "none"
    /\ unpinned = <<>>

(* The history variable follows the pin counts, not the replacer: after   *)
(* each step it keeps, in their old order, the frames still mapped with    *)
(* pin count 0, then the frame whose count has just reached 0.             *)
TrackUnpinned ==
    LET idle == {f \in Range(pageTable') : pinCount'[f] = 0}
        kept == SelectSeq(unpinned, LAMBDA f : f \in idle)
    IN  unpinned' = kept \o SetToSeq(idle \ ToSet(kept))

Next ==
    \/ \E c \in Clients, p \in Allocated : FetchPage(c, p) /\ TrackUnpinned
    \/ \E c \in Clients, p \in PageIds : UnpinPage(c, p) /\ TrackUnpinned
    \/ \E p \in PageIds : FlushPage(p) /\ TrackUnpinned
    \/ \E p \in PageIds : DeletePage(p) /\ TrackUnpinned
    \/ \E c \in Clients : NewPage(c) /\ TrackUnpinned
    \/ \E c \in Clients, p \in PageIds : ClientWrite(c, p) /\ TrackUnpinned

Spec == Init /\ [][Next]_vars

-----------------------------------------------------------------------------
TypeOK ==
    /\ pageId \in [Frames -> PageIds \cup {INVALID_PAGE_ID}]
    /\ pinCount \in [Frames -> Nat]
    /\ dirty \in [Frames -> BOOLEAN]
    /\ data \in [Frames -> 0 .. MaxVersion]
    /\ freeList \in Seq(Frames) /\ replacer \in Seq(Frames)
    /\ DOMAIN pageTable \subseteq PageIds
    /\ \A p \in DOMAIN pageTable : pageTable[p] \in Frames
    /\ nextPageId \in 0 .. MaxPageId
    /\ disk \in [PageIds -> 0 .. MaxVersion]
    /\ pins \in [Clients -> [PageIds -> 0 .. MaxPins]]
    /\ crashed \in {"none", "assert", "null_deref"}

InFree(f)     == Contains(freeList, f)
Evictable(f)  == Contains(replacer, f)

(* The page table and the frames agree (FetchPage, NewPage and DeletePage  *)
(* each move a frame between page ids): every entry names a frame holding *)
(* that page, and every frame off the free list is found under its page   *)
(* id, so no page is buffered in two frames and no frame is lost.          *)
PageTableConsistent ==
    /\ \A p \in DOMAIN pageTable : pageId[pageTable[p]] = p
    /\ \A f \in Frames :
          ~InFree(f) => /\ pageId[f] \in DOMAIN pageTable
                        /\ pageTable[pageId[f]] = f

(* Each frame is in exactly one state: on the free list (unpinned), in the *)
(* replacer (mapped, pin count 0), or pinned (mapped, not evictable).  An  *)
(* unpinned mapped frame outside the replacer could never be reused; a     *)
(* pinned one inside it could be evicted under its holder (FetchPage's     *)
(* Erase, UnpinPage's Insert at zero).                                     *)
FrameStatesPartition ==
    \A f \in Frames :
        /\ ~(InFree(f) /\ Evictable(f))
        /\ InFree(f) => pinCount[f] = 0
        /\ ~InFree(f) => (Evictable(f) <=> pinCount[f] = 0)

(* A page a client holds a pin on stays buffered, and each buffered page's *)
(* pin_count_ equals the pins its clients hold: pins taken by FetchPage    *)
(* and NewPage and released by UnpinPage are never lost or invented, even  *)
(* when other clients evict, unpin twice or delete in between.             *)
PinsAccounted ==
    \A p \in PageIds :
        /\ Holders(p) > 0 => p \in DOMAIN pageTable
        /\ p \in DOMAIN pageTable => pinCount[pageTable[p]] = Holders(p)

(* A page leaving the pool without being deleted (its frame chosen as a    *)
(* victim by FetchPage or NewPage) while dirty has its content written to  *)
(* disk in the same step.                                                  *)
DirtyVictimWrittenBack ==
    [][\A p \in PageIds :
         (/\ p \in DOMAIN pageTable
          /\ p \notin DOMAIN pageTable'
          /\ p \notin deleted'
          /\ dirty[pageTable[p]])
         => disk'[p] = data[pageTable[p]]]_vars

(* No client's write is lost: for each live page the newest version a     *)
(* client wrote is on disk or in the page's buffered frame.  The spec      *)
(* (UnpinPage ORs the dirty flag) promises this; the code assigns          *)
(* is_dirty_ = is_dirty, so a later unpin with false clears the flag and   *)
(* the victim is dropped unwritten.                                        *)
NoLostUpdate ==
    \A p \in Allocated \ deleted :
        \/ disk[p] = latest[p]
        \/ p \in DOMAIN pageTable /\ data[pageTable[p]] = latest[p]

(* GetVictimPage asserts that a frame taken from the free list has page    *)
(* id INVALID_PAGE_ID.  DeletePage puts a frame on the free list after     *)
(* ResetMemory, which zeroes the bytes only, so the frame keeps its id.    *)
FreeFramesUnassigned ==
    \A i \in 1 .. Len(freeList) : pageId[freeList[i]] = INVALID_PAGE_ID

(* FetchPage and NewPage, once the free list is empty, evict the replacer's*)
(* victim (GetVictimPage, lru_replacer.cpp Victim): a frame that held an   *)
(* unpinned page and is reused for another page is, of all such frames,    *)
(* the one whose pin count reached 0 longest ago, however the clients'    *)
(* unpins and fetch hits (which take a frame back out) have interleaved.   *)
PoolEvictsLeastRecent ==
    [][\A f \in ToSet(unpinned) :
          pageId'[f] # pageId[f] => f = Head(unpinned)]_vars

=============================================================================
