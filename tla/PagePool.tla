------------------------------ MODULE PagePool ------------------------------
(***************************************************************************)
(* The page pool shared by all data parts: frames in an LRU list, a map    *)
(* from page codes to frames, and a count of references to each frame that *)
(* is changed without a lock when a reference is given up.  Insert and     *)
(* query threads get pages and may have to wait for a clean frame, an      *)
(* insert into a full page for that of a new page while it has the full    *)
(* one; the sync thread writes dirty ones, which may fail, and wakes them  *)
(* up, and the administrator detaches parts, whose pages leave the map but *)
(* not the list, drops or attaches them.  A page is abstracted to the      *)
(* number of its version.                                                  *)
(***************************************************************************)
EXTENDS Naturals, FiniteSets, SequencesExt

CONSTANTS
    Pages,         \* page codes, <<part, page number>>
    NewPages,      \* the pages that no device has at first
    Inserters, Readers,   \* insert and query threads; an inserter does the redo at start
    FrameCnt, AllocCnt,   \* frames in all (totalCacheSize_), frames allocated at a time (kAllocSize)
    NoPage,        \* the code of an empty frame
    OldParts,      \* the parts past the insert window from the beginning
    MaxVer,        \* bound: inserts in all; one into a full page changes two
    MaxAdmin,      \* bound: parts detached or dropped
    MaxFails       \* bound: writes that fail

\* The second reference of an insert, newPageRef: for each inserter one that is no thread.
New(u) == <<"new", u>>

ASSUME PagePoolAssumption ==
    /\ IsFiniteSet(Pages) /\ IsFiniteSet(Inserters) /\ IsFiniteSet(Readers) /\ NoPage \notin Pages
    /\ NewPages \subseteq Pages /\ \A u \in Inserters : New(u) \notin Inserters \cup Readers
    /\ \A c \in Pages : c[1] \in Nat \ {0} /\ c[2] \in Nat
    /\ FrameCnt \in Nat /\ AllocCnt \in 1 .. FrameCnt /\ \E n \in 1 .. FrameCnt : FrameCnt = n * AllocCnt
    /\ Cardinality(Inserters \cup Readers) <= FrameCnt       \* the smallest pool has two thousand frames
    /\ OldParts \subseteq {c[1] : c \in Pages} /\ MaxVer \in Nat /\ MaxAdmin \in Nat /\ MaxFails \in Nat

Threads == Inserters \cup Readers
Users == Threads \cup {New(u) : u \in Inserters}   \* the references to pages

VARIABLES
    phase,         \* "redo" of the log before the sync thread exists, "up"
    frame,         \* PageHdr of each frame
    readList,      \* the LRU list, the most recent first
    freeList,
    useCacheSize,  \* useCacheSize_, in frames
    pageMap,       \* the frame of each page, 0 if it is not in the map
    disk,          \* the data files: a version of each page
    newest,        \* history: the version every reader has to see
    dirtyList,     \* dirtyList_ of all parts
    stranded,      \* frames that a failed write has left dirty and on no list
    user, sync,    \* the threads
    pageMutex,     \* the holder of the mutex of each page number
    old,           \* the parts past the insert window
    place,         \* of each part: "in" the table, "leaving" it, "out"
    admin, fails,  \* number of parts detached or dropped, of writes that failed
    raced          \* history: a reference was counted wrongly

lists == <<readList, freeList, useCacheSize>>
counts == <<admin, fails>>
vars == <<phase, frame, lists, pageMap, disk, newest, dirtyList, stranded, user, sync, pageMutex,
          old, place, counts, raced>>

Frames == 1 .. FrameCnt
Parts == {c[1] : c \in Pages}
PageNos == {c[2] : c \in Pages}
PageNo(f) == frame[f].code[2]

\* PAGEHDR_INIT, PAGEHDR_CLEAR
Cleared == [code |-> NoPage, ref |-> 0, dirty |-> FALSE, init |-> FALSE, ver |-> 0]
IdleUser == [pc |-> "idle", op |-> "query", page |-> NoPage, at |-> 0, seen |-> 0]
IdleSync == [todo |-> {}, copied |-> {}, ver |-> [f \in Frames |-> 0],
             wrote |-> FALSE, failed |-> FALSE]

Holds(t, c) == pageMutex[c[2]] = t
Free(c) == pageMutex[c[2]] = "none"
Waiting(u) == user[u].pc = "wait"
Evictable(f) == frame[f].code # NoPage /\ ~frame[f].dirty /\ frame[f].ref = 0

-----------------------------------------------------------------------------
(* A thread: the mutex of the page number, GetPage, its use of the page.   *)

Threading == UNCHANGED <<phase, sync, old, place, counts, stranded>>
UserStep(u, to) == user' = [user EXCEPT ![u] = to] /\ Threading

Inserted == FoldFunction(LAMBDA a, b : a + b, 0, newest) + Cardinality({v \in Users : user[v].op # "query"})

\* poolMutex_ is free: no thread is between its search for a frame and the wait.
PoolFree == \A v \in Users : user[v].pc # "scan"

\* What an insert needs to begin.
MayInsert(u, c) ==
    /\ u \in Inserters /\ c[1] \notin old /\ Inserted < MaxVer

\* A thread begins, outside of the redo beside the others.  Bound: none begins after a count has gone
\* wrong, the properties say nothing of what comes then.
Begins(u, c) ==
    /\ ~raced /\ u \in Threads /\ user[u].pc = "idle" /\ place[c[1]] = "in"
    /\ phase = "redo" => \A v \in Users : user[v].pc = "idle"

\* An insert into a page of a part within the window, a query of a page of any part.
Lock(u, c, op) ==
    /\ Begins(u, c) /\ Free(c) /\ (c \in NewPages => newest[c] # 0)
    /\ \/ op = "insert" /\ MayInsert(u, c)
       \/ op = "query" /\ u \in Readers /\ phase = "up"
    /\ UserStep(u, [user[u] EXCEPT !.pc = "get", !.op = op, !.page = c])
    /\ pageMutex' = [pageMutex EXCEPT ![c[2]] = u]
    /\ UNCHANGED <<frame, lists, pageMap, disk, newest, dirtyList, raced>>

\* No device has the page, and no AllocPage has chosen it.
Unused(d) == d \in NewPages /\ newest[d] = 0 /\ \A v \in Users : user[v].page # d
Allocates(d) == [IdleUser EXCEPT !.pc = "alloc", !.op = "alloc", !.page = d]

\* The first record of a device: InsertRec calls AllocPage without the mutex of a page.
FirstPage(u, d) ==
    /\ Begins(u, d) /\ MayInsert(u, d) /\ Unused(d)
    /\ UserStep(u, Allocates(d))
    /\ UNCHANGED <<frame, lists, pageMap, disk, newest, dirtyList, pageMutex, raced>>

\* PdbE_PAGE_FILL: InsertRec keeps the mutex of the full page and its reference, and calls AllocPage.
FullPage(u, d) ==
    /\ ~raced /\ u \in Inserters /\ user[u].pc = "use" /\ user[u].op = "insert" /\ user[New(u)].pc = "idle"
    /\ Unused(d) /\ d[1] = user[u].page[1]
    /\ user' = [user EXCEPT ![u].pc = "split", ![New(u)] = Allocates(d)] /\ Threading
    /\ UNCHANGED <<frame, lists, pageMap, disk, newest, dirtyList, pageMutex, raced>>

\* The references for which AllocPage of a part is in GetPage, with allocPageMutex_.
Allocating(p) ==
    {v \in Users : user[v].op = "alloc" /\ user[v].page[1] = p /\ user[v].pc \in {"get", "scan", "wait"}}
AllocPage(u) ==
    /\ user[u].pc = "alloc" /\ Allocating(user[u].page[1]) = {}
    /\ UserStep(u, [user[u] EXCEPT !.pc = "get"])
    /\ UNCHANGED <<frame, lists, pageMap, disk, newest, dirtyList, pageMutex, raced>>

\* PageRef::Attach.  A thread that goes from page to page gives up the one when it has the other;
\* here it does so before.
Attached(fr, f) == [fr EXCEPT ![f].ref = @ + 1]

\* The threads whose unlocked decrement of f has read the count and not yet written it.
Releasing(f) == {v \in Users : user[v].pc = "release" /\ user[v].at = f}

\* list_move, and list_add after list_del: the frame leaves its place in the LRU list for the front.
MoveToFront(f) ==
    <<f>> \o (IF f \in Range(readList) THEN RemoveAt(readList, CHOOSE i \in DOMAIN readList : readList[i] = f)
              ELSE readList)

\* The page is in the map.
GetPage(u) ==
    /\ user[u].pc = "get" /\ PoolFree /\ pageMap[user[u].page] # 0
    /\ LET f == pageMap[user[u].page] IN
       /\ frame' = Attached(frame, f)
       /\ readList' = MoveToFront(f)
       /\ raced' = (raced \/ Releasing(f) # {})
       /\ UserStep(u, [user[u] EXCEPT !.pc = "read", !.at = f])
    /\ UNCHANGED <<freeList, useCacheSize, pageMap, disk, newest, dirtyList, pageMutex>>

\* The other outcome of the race: a decrement's write falls between the read and the write of
\* this increment, and is lost.
GetPageRaced(u) ==
    /\ user[u].pc = "get" /\ PoolFree /\ pageMap[user[u].page] # 0
    /\ LET f == pageMap[user[u].page] IN
       \E v \in Releasing(f) :
          /\ frame' = Attached(frame, f)
          /\ readList' = MoveToFront(f)
          /\ user' = [user EXCEPT ![u].pc = "read", ![u].at = f, ![v] = IdleUser]
    /\ raced' = TRUE /\ Threading
    /\ UNCHANGED <<freeList, useCacheSize, pageMap, disk, newest, dirtyList, pageMutex>>

\* Mutant: the last clean frame is taken, referenced or not.
GetFreePage_m(f, erased) ==
    \/ freeList # <<>> /\ f = Head(freeList) /\ erased = NoPage
    \/ /\ freeList = <<>> /\ f \in Frames /\ ~frame[f].dirty /\ erased = frame[f].code
       /\ \E i \in 1 .. Len(readList) : readList[i] = f /\ \A j \in i + 1 .. Len(readList) : frame[readList[j]].dirty

\* _GetFreePage: the first free frame, or the last in the LRU list that is clean and not referred
\* to, whose page code leaves the map.
GetFreePage(f, erased) ==
    \/ freeList # <<>> /\ f = Head(freeList) /\ erased = NoPage
    \/ /\ freeList = <<>> /\ f \in Frames /\ Evictable(f) /\ erased = frame[f].code
       /\ \E i \in 1 .. Len(readList) : readList[i] = f /\ \A j \in i + 1 .. Len(readList) : ~Evictable(readList[j])

\* Mutant: the frame stays in the free list.
GetNewPage_m(u) ==
    /\ user[u].pc = "get" /\ PoolFree /\ pageMap[user[u].page] = 0
    /\ \E f \in Frames, erased \in Pages \cup {NoPage} :
          /\ GetFreePage(f, erased)
          /\ frame' = Attached([frame EXCEPT ![f] = [Cleared EXCEPT !.code = user[u].page]], f)
          /\ readList' = MoveToFront(f)
          /\ pageMap' = [c \in Pages |-> IF c = user[u].page THEN f ELSE IF c = erased THEN 0 ELSE pageMap[c]]
          /\ UserStep(u, [user[u] EXCEPT !.pc = "read", !.at = f])
    /\ UNCHANGED <<freeList, useCacheSize, disk, newest, dirtyList, pageMutex, raced>>

\* The page gets a frame of its own.
GetNewPage(u) ==
    /\ user[u].pc = "get" /\ PoolFree /\ pageMap[user[u].page] = 0
    /\ \E f \in Frames, erased \in Pages \cup {NoPage} :
          /\ GetFreePage(f, erased)
          /\ frame' = Attached([frame EXCEPT ![f] = [Cleared EXCEPT !.code = user[u].page]], f)
          /\ freeList' = IF freeList = <<>> THEN freeList ELSE Tail(freeList)
          /\ readList' = MoveToFront(f)
          /\ pageMap' = [c \in Pages |-> IF c = user[u].page THEN f ELSE IF c = erased THEN 0 ELSE pageMap[c]]
          /\ UserStep(u, [user[u] EXCEPT !.pc = "read", !.at = f])
    /\ UNCHANGED <<useCacheSize, disk, newest, dirtyList, pageMutex, raced>>

\* _AllocCache, when the free list is empty; it may fail, and is not tried again for a minute.
AllocCache(u) ==
    /\ user[u].pc = "get" /\ PoolFree /\ pageMap[user[u].page] = 0 /\ freeList = <<>> /\ useCacheSize < FrameCnt
    /\ useCacheSize' = useCacheSize + AllocCnt
    /\ freeList' = [i \in 1 .. AllocCnt |-> useCacheSize + i]
    /\ Threading /\ UNCHANGED <<frame, readList, pageMap, disk, newest, dirtyList, user, pageMutex, raced>>

\* There is no frame for the page.  The thread has poolMutex_ until it waits, but neither the end of
\* a write nor that of a reference needs it.
Scan(u) ==
    /\ user[u].pc = "get" /\ PoolFree /\ pageMap[user[u].page] = 0
    /\ freeList = <<>> /\ ~\E f \in Frames : Evictable(f)
    /\ UserStep(u, [user[u] EXCEPT !.pc = "scan"])
    /\ UNCHANGED <<frame, lists, pageMap, disk, newest, dirtyList, pageMutex, raced>>

\* poolVariable_.wait, with every other mutex that the thread has; what was notified before is lost.
Wait(u) ==
    /\ user[u].pc = "scan"
    /\ UserStep(u, [user[u] EXCEPT !.pc = "wait"])
    /\ UNCHANGED <<frame, lists, pageMap, disk, newest, dirtyList, pageMutex, raced>>

\* NormalDataPart::GetPage reads the page from its file into a new frame.
ReadPage(u) ==
    /\ user[u].pc = "read" /\ user[u].op # "alloc"
    /\ LET f == user[u].at IN
       frame' = IF frame[f].init THEN frame
                ELSE [frame EXCEPT ![f].init = TRUE, ![f].ver = disk[user[u].page]]
    /\ UserStep(u, [user[u] EXCEPT !.pc = "use"])
    /\ UNCHANGED <<lists, pageMap, disk, newest, dirtyList, pageMutex, raced>>

\* NormalDataPage::Init makes a new page empty.
InitPage(u) ==
    /\ user[u].pc = "read" /\ user[u].op = "alloc"
    /\ frame' = [frame EXCEPT ![user[u].at].init = TRUE, ![user[u].at].ver = 0]
    /\ UserStep(u, [user[u] EXCEPT !.pc = "use"])
    /\ UNCHANGED <<lists, pageMap, disk, newest, dirtyList, pageMutex, raced>>

\* The page in the frame gets a record or loses some; it was on the list, or left by a failed write,
\* if it was dirty.
Change(f) ==
    /\ frame' = [frame EXCEPT ![f].ver = @ + 1, ![f].dirty = TRUE]
    /\ dirtyList' = IF frame[f].dirty THEN dirtyList ELSE dirtyList \cup {f}
    /\ newest' = [newest EXCEPT ![frame[f].code] = @ + 1]

Used(u) == UserStep(u, [user[u] EXCEPT !.pc = "held", !.op = "query"])
           /\ UNCHANGED <<lists, pageMap, disk, raced>>
Unlock(u) == pageMutex' = [pageMutex EXCEPT ![user[u].page[2]] = "none"]

\* The record is put in the page, or the records of the page are read; the mutex is let go.
UsePage(u) ==
    /\ user[u].pc = "use" /\ user[u].op # "alloc"
    /\ IF user[u].op = "insert" THEN Change(user[u].at) ELSE UNCHANGED <<frame, dirtyList, newest>>
    /\ Unlock(u) /\ Used(u)

\* A new page gets its first records; it has no mutex that the thread took.
FillPage(u) ==
    /\ user[u].pc = "use" /\ user[u].op = "alloc"
    /\ Change(user[u].at) /\ Used(u) /\ UNCHANGED pageMutex

\* The new page is filled.  The full page stays as it is if the record comes after its last one,
\* otherwise it has been split.
EndSplit(u) ==
    /\ user[u].pc = "split" /\ user[New(u)].pc = "held"
    /\ Change(user[u].at) \/ UNCHANGED <<frame, dirtyList, newest>>
    /\ Unlock(u) /\ Used(u)

\* The destructor of PageRef, without a lock: the count is read, then written.  That of newPageRef
\* comes first, when the mutexes are released.
LoadRef(u) ==
    /\ user[u].pc = "held" /\ (u \in Inserters => user[New(u)].pc = "idle")
    /\ \A v \in Inserters : u = New(v) => user[v].pc # "split"
    /\ UserStep(u, [user[u] EXCEPT !.pc = "release", !.seen = frame[user[u].at].ref])
    /\ raced' = (raced \/ Releasing(user[u].at) # {})
    /\ UNCHANGED <<frame, lists, pageMap, disk, newest, dirtyList, pageMutex>>
StoreRef(u) ==
    /\ user[u].pc = "release"
    /\ frame' = [frame EXCEPT ![user[u].at].ref = IF user[u].seen > 0 THEN user[u].seen - 1 ELSE 0]
    /\ UserStep(u, IdleUser)
    /\ UNCHANGED <<lists, pageMap, disk, newest, dirtyList, pageMutex, raced>>

\* The redo is over: the other threads begin.
RedoEnd ==
    /\ phase = "redo" /\ phase' = "up"
    /\ \A u \in Users : user[u].pc = "idle"
    /\ UNCHANGED <<frame, lists, pageMap, disk, newest, dirtyList, stranded, user, sync, pageMutex, old, place, counts, raced>>

-----------------------------------------------------------------------------
(* The sync thread: SyncDirtyPages, WritePages.                            *)

SyncStep(to) == sync' = to /\ UNCHANGED <<phase, lists, pageMap, newest, old, place, admin, raced>>
Woken == [u \in Users |-> IF Waiting(u) THEN [user[u] EXCEPT !.pc = "get"] ELSE user[u]]

SyncBegin ==
    /\ phase = "up" /\ sync.todo = {} /\ sync.copied = {} /\ ~sync.wrote /\ dirtyList # {}
    /\ SyncStep([IdleSync EXCEPT !.todo = dirtyList]) /\ dirtyList' = {}
    /\ UNCHANGED <<frame, disk, stranded, user, pageMutex, fails>>

\* A page is copied into the buffer under the mutex of its number.  Bound: a round is one batch.
SyncCopy ==
    \E f \in sync.todo :
       /\ pageMutex[PageNo(f)] = "none"
       /\ SyncStep([sync EXCEPT !.todo = @ \ {f}, !.copied = @ \cup {f}, !.ver[f] = frame[f].ver])
       /\ UNCHANGED <<frame, disk, dirtyList, stranded, user, pageMutex, fails>>

\* It is written, and, again under the mutex, marked clean or put back on the dirty list.
SyncWrite ==
    /\ sync.todo = {}
    /\ \E f \in sync.copied :
          /\ pageMutex[PageNo(f)] = "none"
          /\ disk' = [disk EXCEPT ![frame[f].code] = sync.ver[f]]
          /\ frame' = [frame EXCEPT ![f].dirty = frame[f].ver # sync.ver[f]]
          /\ dirtyList' = IF frame[f].ver # sync.ver[f] THEN dirtyList \cup {f} ELSE dirtyList
          /\ SyncStep([sync EXCEPT !.copied = @ \ {f}, !.ver[f] = 0, !.wrote = TRUE])
    /\ UNCHANGED <<stranded, user, pageMutex, fails>>

\* The double-write or the data file cannot be written: WritePages returns without NotifyAll, and the
\* pages that it has not marked clean stay dirty and are on no list.
SyncFails ==
    /\ sync.todo = {} /\ sync.copied # {} /\ fails < MaxFails /\ fails' = fails + 1
    /\ stranded' = stranded \cup sync.copied
    /\ SyncStep([IdleSync EXCEPT !.failed = TRUE])
    /\ UNCHANGED <<frame, disk, dirtyList, user, pageMutex>>


\* NotifyAll after the index is written, without poolMutex_.
SyncNotify ==
    /\ sync.todo = {} /\ sync.copied = {} /\ sync.wrote
    /\ SyncStep(IdleSync) /\ user' = Woken
    /\ UNCHANGED <<frame, disk, dirtyList, stranded, pageMutex, fails>>

-----------------------------------------------------------------------------
(* The administrator, for parts past the insert window.                    *)

PassWindow(p) == p \notin old /\ old' = old \cup {p} /\ phase = "up"
    /\ UNCHANGED <<phase, frame, lists, pageMap, disk, newest, dirtyList, stranded, user, sync, pageMutex, place, counts, raced>>

AdminStep == UNCHANGED <<phase, lists, old, sync, pageMutex, stranded, fails, raced>>

\* DetachPart or DropPart: the part is out of the table, and no thread has a reference to it.
RemovePart(p) ==
    /\ phase = "up" /\ p \in old /\ place[p] = "in" /\ admin < MaxAdmin
    /\ place' = [place EXCEPT ![p] = "leaving"] /\ admin' = admin + 1
    /\ AdminStep /\ UNCHANGED <<frame, pageMap, disk, newest, dirtyList, user>>

InUse(p) == \/ \E u \in Users : user[u].pc # "idle" /\ user[u].page[1] = p
            \/ \E f \in sync.todo \cup sync.copied : frame[f].code[1] = p
PagesOf(p) == {f \in Frames : f \in dirtyList /\ frame[f].code[1] = p}

\* What SyncDirtyPages or AbandonDirtyPages does with the dirty pages, and ClearPageForMask.  What is
\* only in a page on no list is lost.
ClearPages(p, writes) ==
    /\ place[p] = "leaving" /\ ~InUse(p) /\ PoolFree /\ place' = [place EXCEPT ![p] = "out"]
    /\ LET dirty == PagesOf(p) IN
       /\ dirtyList' = dirtyList \ dirty
       /\ frame' = [f \in Frames |-> IF f \in dirty THEN [frame[f] EXCEPT !.dirty = FALSE] ELSE frame[f]]
       /\ disk' = [c \in Pages |->
                     IF c[1] # p THEN disk[c]
                     ELSE IF ~writes THEN 0
                     ELSE IF \E f \in dirty : frame[f].code = c
                          THEN frame[CHOOSE f \in dirty : frame[f].code = c].ver ELSE disk[c]]
    /\ newest' = [c \in Pages |-> IF c[1] = p THEN disk'[c] ELSE newest[c]]
    /\ pageMap' = [c \in Pages |-> IF c[1] = p THEN 0 ELSE pageMap[c]]
    /\ user' = Woken
    /\ AdminStep /\ UNCHANGED admin

\* A detached part is attached again, or an empty file in the place of a dropped one.
AttachPart(p) ==
    /\ place[p] = "out" /\ place' = [place EXCEPT ![p] = "in"]
    /\ AdminStep /\ UNCHANGED <<frame, pageMap, disk, newest, dirtyList, user, admin>>

-----------------------------------------------------------------------------
Init ==
    /\ phase = "redo"
    /\ frame = [f \in Frames |-> Cleared] /\ readList = <<>>
    /\ freeList = [i \in 1 .. AllocCnt |-> i] /\ useCacheSize = AllocCnt
    /\ pageMap = [c \in Pages |-> 0] /\ disk = [c \in Pages |-> 0] /\ newest = [c \in Pages |-> 0]
    /\ dirtyList = {} /\ stranded = {} /\ user = [u \in Users |-> IdleUser] /\ sync = IdleSync
    /\ pageMutex = [n \in PageNos |-> "none"]
    /\ old = OldParts /\ place = [p \in Parts |-> "in"] /\ admin = 0 /\ fails = 0 /\ raced = FALSE

UserNext(u) == \/ \E c \in Pages, op \in {"insert", "query"} : Lock(u, c, op)
               \/ \E d \in NewPages : FirstPage(u, d) \/ FullPage(u, d)
               \/ AllocPage(u) \/ GetPage(u) \/ GetPageRaced(u) \/ GetNewPage(u) \/ AllocCache(u) \/ Scan(u) \/ Wait(u)
               \/ ReadPage(u) \/ InitPage(u) \/ UsePage(u) \/ FillPage(u) \/ EndSplit(u) \/ LoadRef(u) \/ StoreRef(u)
SyncNext == SyncBegin \/ SyncCopy \/ SyncWrite \/ SyncFails \/ SyncNotify
AdminNext == \E p \in Parts : \/ PassWindow(p) \/ RemovePart(p) \/ AttachPart(p)
                              \/ \E writes \in BOOLEAN : ClearPages(p, writes)

Next == (\E u \in Users : UserNext(u)) \/ RedoEnd \/ SyncNext \/ AdminNext

\* A thread goes on with what it has begun, and the sync thread with its rounds.
GoesOn(u) == \/ AllocPage(u) \/ GetPage(u) \/ GetNewPage(u) \/ Scan(u) \/ Wait(u) \/ ReadPage(u) \/ InitPage(u)
             \/ UsePage(u) \/ FillPage(u) \/ EndSplit(u) \/ LoadRef(u) \/ StoreRef(u)
Spec == Init /\ [][Next]_vars
FairSpec == Spec /\ WF_vars(SyncBegin) /\ SF_vars(SyncCopy) /\ SF_vars(SyncWrite) /\ WF_vars(SyncNotify)
                 /\ \A u \in Users : WF_vars(GoesOn(u))

-----------------------------------------------------------------------------
(* Properties                                                              *)

\* Every variable has values of its type: no frame is twice in the lists, and a count of references
\* goes no further than the threads, wrong or not.
TypeOK ==
    /\ phase \in {"redo", "up"} /\ raced \in BOOLEAN /\ admin \in 0 .. MaxAdmin /\ fails \in 0 .. MaxFails
    /\ frame \in [Frames -> [code : Pages \cup {NoPage}, ref : 0 .. Cardinality(Users), dirty : BOOLEAN,
                             init : BOOLEAN, ver : Nat]]
    /\ IsInjective(readList \o freeList) /\ Range(readList) \cup Range(freeList) \subseteq 1 .. useCacheSize
    /\ useCacheSize \in AllocCnt .. FrameCnt /\ pageMap \in [Pages -> 0 .. FrameCnt]
    /\ disk \in [Pages -> Nat] /\ newest \in [Pages -> Nat]
    /\ dirtyList \cup stranded \cup sync.todo \cup sync.copied \subseteq Frames
    /\ \A u \in Users : user[u].pc \in {"idle", "alloc", "get", "scan", "wait", "read", "use", "split", "held", "release"}
    /\ pageMutex \in [PageNos -> Threads \cup {"none"}] /\ old \subseteq Parts
    /\ place \in [Parts -> {"in", "leaving", "out"}]

\* A thread that uses a page has it in its frame, as the last insert left it; a dirty frame is the
\* one that the map gives for its page and waits to be written, so that no second copy is read from
\* the file, unless a failed write has left it; and the file has what was inserted into a page whose
\* frame is not dirty: as long as no unlocked change of a reference count has met another.
NewestCopy ==
    raced \/ /\ \A u \in Users : user[u].pc \in {"use", "split"} =>
                  /\ frame[user[u].at].code = user[u].page
                  /\ frame[user[u].at].ver = newest[user[u].page]
             /\ \A f \in Frames : frame[f].dirty /\ f \notin stranded =>
                  /\ pageMap[frame[f].code] = f
                  /\ f \in dirtyList \cup sync.todo \cup sync.copied
             /\ \A c \in Pages : (pageMap[c] # 0 => ~frame[pageMap[c]].dirty) => disk[c] = newest[c]

\* The sync thread needs a page that a thread keeps which cannot go on without a frame: it waits for
\* the page or, having filled it, for a new one, be it behind another AllocPage of the part.
Stuck(v) == Waiting(v) \/ (user[v].pc = "alloc" /\ \E w \in Allocating(user[v].page[1]) : Waiting(w))
Tangled == \E u \in Threads, f \in sync.todo \cup sync.copied :
             Holds(u, frame[f].code) /\ (Waiting(u) \/ (user[u].pc = "split" /\ Stuck(New(u))))

\* The threads that wait for a frame while a page waits to be written are all woken up, unless the sync
\* thread stays tangled with them or a write fails; also when the wake-up of an earlier batch has come
\* between the look at the frames and the wait.  Not during the redo, where nobody writes pages, nor
\* when every frame is clean or left by a failed write: neither the end of a reference nor the growth
\* of the pool notifies.
ToWrite == \E f \in Frames : frame[f].dirty /\ f \notin stranded
SomeWait == \E u \in Users : Waiting(u)
=============================================================================
