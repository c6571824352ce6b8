----------------------------- MODULE NormalPart -----------------------------
(***************************************************************************)
(* One normal data part (storage/normal_data_part.cpp): the records that   *)
(* one device has in one day.  They live in pages, ordered by timestamp; an *)
(* index in memory maps the first timestamp of a page to its number.       *)
(* InsertRec changes pages in the page pool; SyncDirtyPages writes them,    *)
(* SYNC_PAGE_CNT at a time, first to the double-write file, then to the    *)
(* data file, and last their new index entries to the index file.  After a *)
(* crash Open reads the index file and RecoverDW copies the pages of the    *)
(* double-write file back; it may itself be cut off by the next crash.      *)
(*                                                                         *)
(* InsertRec holds the device lock throughout and the lock of the old page *)
(* while it changes it; a new page becomes visible to the writer only when *)
(* it is in dirtyList_.  It is one step.  SyncDirtyPages is one step per   *)
(* lock it takes and per write.                                            *)
(***************************************************************************)
EXTENDS Integers, Sequences, FiniteSets

CONSTANTS
    Keys,        \* the timestamps; the day begins at 0 (bgDayTs_)
    PageCap,     \* records of one size that fit in a page
    MovesLast,   \* how many of them SplitMost moves out of the last page (24 KB)
    MovesMid,    \* and out of another one (32 KB)
    BatchSize,   \* SYNC_PAGE_CNT
    MaxPage,     \* bound: page numbers
    MaxVer,      \* bound: values a key is given
    MaxCrashes,  \* bound
    MaxFails     \* bound: failing writes

ASSUME NormalPartAssumption ==
    /\ Keys \subseteq Nat /\ IsFiniteSet(Keys)
    /\ PageCap \in Nat \ {0, 1}
    /\ MovesLast \in 1 .. PageCap - 1 /\ MovesMid \in 1 .. PageCap - 1
    /\ BatchSize \in Nat \ {0}
    /\ MaxPage \in Nat /\ MaxVer \in Nat /\ MaxCrashes \in Nat /\ MaxFails \in Nat

VARIABLES
    index,       \* normalIdx_.idxMap_: entries [ts, no]
    nextPageNo,  \* nextPageNo_
    pool,        \* page number -> header and content in the page pool
    dirtyList,   \* dirtyList_, page numbers
    sync,        \* SyncDirtyPages, WritePages or RecoverDW: where it is, its locals
    disk,        \* data file: page number -> content
    idxFile,     \* index file: entries [ts, no]
    dw,          \* double-write file: the pages of a batch; <<>> if its CRC is wrong
    latest,      \* history: key -> value last accepted, 0 for none
    marked,      \* history: latest when the full sync that is running began
    safe,        \* history: key -> value a finished full sync has written
    dropped,     \* history: pages a failing write has left behind
    damaged,     \* history: how the structure has been spoilt
    crashes, fails

memVars == <<index, nextPageNo, pool, dirtyList>>
diskVars == <<disk, idxFile, dw>>
history == <<latest, marked, safe, dropped, damaged>>
vars == <<memVars, sync, diskVars, history, crashes, fails>>

PageNos == 1 .. MaxPage
NoRecs == [k \in Keys |-> 0]
Blank == [ts |-> 0, recs |-> NoRecs]

Entries == [ts : Keys \cup {0}, no : PageNos]
Content == [ts : Keys \cup {0}, recs : [Keys -> 0 .. MaxVer]]

\* A page in the buffer of WritePages and in the double-write file; new pages get
\* an index entry.
Copies == [no : PageNos, ts : Keys \cup {0}, recs : [Keys -> 0 .. MaxVer], new : BOOLEAN]

\* init is FALSE for a page that is not in the pool.
\* A page is dirty if curVer_ # syncVer_; due: syncVer_ < rrVer_
\* (PAGEHDR_NEED_SYNC); fresh: rrVer_ < curVer_.
Header == [ts : Keys \cup {0}, recs : [Keys -> 0 .. MaxVer], init : BOOLEAN, due : BOOLEAN,
           fresh : BOOLEAN, onlyMem : BOOLEAN, full : BOOLEAN, grp : 0 .. MaxPage]

\* PAGEHDR_CLEAR, and a page of that content.
Cleared(c) == [ts |-> c.ts, recs |-> c.recs, init |-> TRUE, due |-> FALSE, fresh |-> FALSE,
               onlyMem |-> FALSE, full |-> FALSE, grp |-> 0]
Absent == [Cleared(Blank) EXCEPT !.init = FALSE]
IsDirty(h) == h.due \/ h.fresh
\* PAGEHDR_ROUND_ROBIN, PAGEHDR_SYNC_DATA
RoundRobin(h) == [h EXCEPT !.due = h.due \/ h.fresh, !.fresh = FALSE]
SyncedAsCurrent(h) ==                          \* mutant: syncVer_ = curVer_
    [Cleared([ts |-> h.ts, recs |-> h.recs]) EXCEPT !.grp = 0]
Synced(h) == [h EXCEPT !.due = FALSE, !.onlyMem = FALSE, !.full = FALSE, !.grp = 0]

\* PAGEHDR_DATA_UPDATE, PAGEHDR_SET_ONLY_MEM, PAGEHDR_SET_IS_FULL, PAGEHDR_SET_SPLIT_GRP
Updated(h, recs) == [h EXCEPT !.recs = recs, !.fresh = TRUE]
OnlyMem(h) == [h EXCEPT !.onlyMem = TRUE]
Full(h) == [h EXCEPT !.full = TRUE]
InGroup(h, grp) == [h EXCEPT !.grp = grp]

Held(c) == {k \in Keys : c.recs[k] # 0}
\* GetPage: from the pool, or read from the data file.
Page(p) == IF pool[p].init THEN pool[p] ELSE Cleared(disk[p])
\* AllocPage: the pool finds the number or gives a cleared page; Init empties it.
NewPage(p, k) ==
    [pool[p] EXCEPT !.ts = k, !.recs = NoRecs, !.init = TRUE]

-----------------------------------------------------------------------------
(* NormalPartIdx: the entry to use for a timestamp (PageIdxBinarySearch).   *)

Entry(t, p) == [ts |-> t, no |-> p]
\* e is the last entry at or below the timestamp, or the first of all.
Covers(idx, k, e) ==
    \/ e.ts <= k /\ \A f \in idx : f.ts <= k => f.ts <= e.ts
    \/ \A f \in idx : k < f.ts /\ e.ts <= f.ts
Covering(idx, k) == {e \in idx : Covers(idx, k, e)}
\* GetNextIndex finds nothing
IsLast(idx, e) == \A f \in idx : f.ts <= e.ts

\* The value a reader that knows these entries and these pages finds.
Find(idx, pages, k) ==
    IF Covering(idx, k) = {} THEN 0 ELSE pages[(CHOOSE e \in Covering(idx, k) : TRUE).no].recs[k]
InMemory == [p \in PageNos |-> Page(p)]

-----------------------------------------------------------------------------
(* InsertRec.                                                               *)

\* The page number AllocPage takes is one the index still uses.
Reuse == IF \E e \in index : e.no = nextPageNo THEN {"reused"} ELSE {}

Accept(k) ==
    /\ latest' = [latest EXCEPT ![k] = @ + 1]
    /\ UNCHANGED <<sync, diskVars, marked, safe, dropped, crashes, fails>>

\* The device has no page yet: its first one begins with the day.
InsertFirst(k) ==
    /\ index = {} /\ nextPageNo \in PageNos
    /\ Accept(k)
    /\ pool' = [pool EXCEPT ![nextPageNo] =
                  OnlyMem(Updated(NewPage(nextPageNo, 0), [NoRecs EXCEPT ![k] = latest'[k]]))]
    /\ dirtyList' = dirtyList \cup {nextPageNo}
    /\ index' = {Entry(0, nextPageNo)}
    /\ nextPageNo' = nextPageNo + 1
    /\ UNCHANGED damaged

\* There is room in the page; a record of the same timestamp is replaced.
InsertInPage(k, p) ==
    /\ LET h == Page(p)
       IN  /\ Cardinality(Held(h)) < PageCap
           /\ Accept(k)
           /\ pool' = [pool EXCEPT ![p] = Updated(h, [h.recs EXCEPT ![k] = latest'[k]])]
           /\ dirtyList' = IF IsDirty(h) THEN dirtyList ELSE dirtyList \cup {p}
    /\ UNCHANGED <<index, nextPageNo, damaged>>

\* The page is full (before the timestamp is looked for), and the record comes
\* after its last one: a new page.
InsertAfter(k, p) ==
    /\ nextPageNo \in PageNos
    /\ LET h == Page(p)
           n == nextPageNo
       IN  /\ Cardinality(Held(h)) = PageCap
           /\ \A j \in Held(h) : j < k
           /\ Accept(k)
           /\ pool' = [pool EXCEPT
                 ![p] = IF IsDirty(h) THEN Full(h) ELSE h,
                 ![n] = OnlyMem(Updated(NewPage(n, k), [NoRecs EXCEPT ![k] = latest'[k]]))]
           /\ dirtyList' = dirtyList \cup {n}
           /\ index' = index \cup {Entry(k, n)}
    /\ damaged' = damaged \cup Reuse
    /\ nextPageNo' = nextPageNo + 1

\* SplitMost moves the last records of the page, and never all of them.
MovedOut(h, m) ==
    {k \in Held(h) : Cardinality({j \in Held(h) : j >= k}) <= m}
Least(S) == {k \in S : \A j \in S : k <= j}
\* What stays in the old page, and what the new one gets.
StaysIn(h, tail) == [j \in Keys |-> IF j \in tail THEN 0 ELSE h.recs[j]]
MovedTo(h, tail) == [j \in Keys |-> IF j \in tail THEN h.recs[j] ELSE 0]
\* "tstamp > newDataPage.GetIdxTs()": the record goes to the new page.
ToNewPageSwapped(k, first) == k <= first       \* mutant: into the other page
ToNewPage(k, first) == k > first
\* Both pages of a split go to the disk in one batch, if the old one was there.
SplitGroup(h, p) == IF h.onlyMem THEN h.grp ELSE p

\* The page is full and the record does not come after its last one: a split.
InsertSplit(k, e) ==
    /\ nextPageNo \in PageNos
    /\ LET p == e.no
           h == Page(p)
           n == nextPageNo
           tail == MovedOut(h, IF IsLast(index, e) THEN MovesLast ELSE MovesMid)
           old == StaysIn(h, tail)
           new == MovedTo(h, tail)
       IN \E first \in Least(tail) :
       LET toNew == ToNewPage(k, first)
           b == NewPage(n, first)
       IN  /\ Cardinality(Held(h)) = PageCap
           /\ \E j \in Held(h) : k <= j
           /\ Accept(k)
           /\ pool' = [pool EXCEPT
                 ![p] = InGroup(Full(Updated(h, IF toNew THEN old ELSE [old EXCEPT ![k] = latest'[k]])),
                                SplitGroup(h, p)),
                 ![n] = InGroup(Full(OnlyMem(Updated(b, IF toNew THEN [new EXCEPT ![k] = latest'[k]] ELSE new))),
                                IF h.onlyMem THEN b.grp ELSE p)]
           /\ dirtyList' = dirtyList \cup (IF IsDirty(h) THEN {n} ELSE {n, p})
           /\ index' = index \cup {Entry(first, n)}
           /\ damaged' = damaged \cup Reuse \cup (IF k = first /\ ~toNew THEN {"doubled"} ELSE {})
    /\ nextPageNo' = nextPageNo + 1

InsertRec(k) ==
    /\ sync.pc # "redo" /\ latest[k] < MaxVer
    /\ \/ InsertFirst(k)
       \/ \E e \in Covering(index, k) :
             InsertInPage(k, e.no) \/ InsertAfter(k, e.no) \/ InsertSplit(k, e)

\* The pool gives the memory of a clean page to another one (_GetFreePage).
Evict(p) ==
    /\ pool[p].init /\ ~IsDirty(pool[p])
    /\ pool' = [pool EXCEPT ![p] = Absent]
    /\ UNCHANGED <<index, nextPageNo, dirtyList, sync, diskVars, history, crashes, fails>>

-----------------------------------------------------------------------------
(* SyncDirtyPages.  pass 1 writes the pages of splits in the order of their *)
(* group, pass 2 the others in the order of their numbers; vec gives that   *)
(* order for the pages taken off the list and not yet copied, batch is the  *)
(* buffer of WritePages, and at counts its pages already in the data file.  *)

NoVec == [p \in {} |-> 0]
Vecs == UNION {[S -> 0 .. MaxPage] : S \in SUBSET PageNos}
Syncs == [pc : {"idle", "split", "copy", "dw", "data", "index", "rest", "redo"},
          all : BOOLEAN, pass : {1, 2}, vec : Vecs, batch : Seq(Copies), at : Nat]
Idle == [pc |-> "idle", all |-> FALSE, pass |-> 1, vec |-> NoVec, batch |-> <<>>, at |-> 0]

SyncStep == UNCHANGED <<index, nextPageNo, latest, damaged, crashes>>

\* The pages that PAGEHDR_ROUND_ROBIN is applied to.
ToMarkFull(all) == {p \in dirtyList : pool[p].full \/ pool[p].grp # 0}  \* mutant: syncAll ignored
ToMark(all) == {p \in dirtyList : all \/ pool[p].full \/ pool[p].grp # 0}

\* The round robin over the dirty list, under dirtyMutex_.
Mark(all) ==
    /\ sync.pc = "idle"
    /\ pool' = [p \in PageNos |-> IF p \in ToMark(all) THEN RoundRobin(pool[p]) ELSE pool[p]]
    /\ sync' = [Idle EXCEPT !.pc = "split", !.all = all]
    /\ marked' = IF all THEN latest ELSE NoRecs
    /\ SyncStep /\ UNCHANGED <<dirtyList, diskVars, safe, dropped, fails>>

Due == {p \in dirtyList : pool[p].due}

\* The sync ends; after a full one TableSet commits the sync point.
Ended ==
    /\ sync' = Idle
    /\ safe' = IF sync.all THEN [k \in Keys |-> IF marked[k] > safe[k] THEN marked[k] ELSE safe[k]]
                           ELSE safe
    /\ marked' = NoRecs

\* The end of WritePages.
PassEnds ==
    \/ /\ sync.pass = 1
       /\ sync' = [sync EXCEPT !.pc = "rest", !.pass = 2, !.vec = NoVec, !.batch = <<>>, !.at = 0]
       /\ UNCHANGED <<marked, safe>>
    \/ sync.pass = 2 /\ Ended

TakeSplit ==
    /\ sync.pc = "split"
    /\ LET taken == {p \in Due : pool[p].grp # 0}
       IN  /\ dirtyList' = dirtyList \ taken
           /\ sync' = IF taken = {} THEN [sync EXCEPT !.pc = "rest", !.pass = 2]
                      ELSE [sync EXCEPT !.pc = "copy", !.vec = [p \in taken |-> pool[p].grp]]
    /\ SyncStep /\ UNCHANGED <<pool, diskVars, marked, safe, dropped, fails>>

TakeRest ==
    /\ sync.pc = "rest"
    /\ dirtyList' = dirtyList \ Due
    /\ \/ Due = {} /\ Ended
       \/ /\ Due # {}
          /\ sync' = [sync EXCEPT !.pc = "copy", !.vec = [p \in Due |-> p]]
          /\ UNCHANGED <<marked, safe>>
    /\ SyncStep /\ UNCHANGED <<pool, diskVars, dropped, fails>>

BufferFullLate(b) == Len(b) > BatchSize        \* mutant: one page too many
BufferFull(b) == Len(b) = BatchSize

\* One page is copied to the buffer, under its lock.
CopyPage(p) ==
    /\ sync.pc = "copy" /\ p \in DOMAIN sync.vec
    /\ \A q \in DOMAIN sync.vec : sync.vec[p] <= sync.vec[q]
    /\ pool' = [pool EXCEPT ![p] = RoundRobin(@)]
    /\ LET left == DOMAIN sync.vec \ {p}
           b == Append(sync.batch, [no |-> p, ts |-> pool[p].ts, recs |-> pool[p].recs,
                                    new |-> pool[p].onlyMem])
       IN  sync' = [sync EXCEPT !.vec = [q \in left |-> sync.vec[q]], !.batch = b,
                                !.pc = IF left = {} \/ BufferFull(b) THEN "dw" ELSE "copy"]
    /\ SyncStep /\ UNCHANGED <<dirtyList, diskVars, marked, safe, dropped, fails>>

WriteDwSkipped ==                              \* mutant: no copy is written first
    /\ sync.pc = "dw"
    /\ sync' = [sync EXCEPT !.pc = "data"]
    /\ SyncStep /\ UNCHANGED <<pool, dirtyList, diskVars, marked, safe, dropped, fails>>
WriteDw ==
    /\ sync.pc = "dw"
    /\ dw' = sync.batch
    /\ sync' = [sync EXCEPT !.pc = "data"]
    /\ SyncStep /\ UNCHANGED <<pool, dirtyList, disk, idxFile, marked, safe, dropped, fails>>

\* A page changed since it was copied goes back to the dirty list.
RelistedNever(p) == dirtyList                  \* mutant: the version is not compared
Relisted(p) == IF IsDirty(Synced(pool[p])) THEN dirtyList \cup {p} ELSE dirtyList

\* A page is in the data file.
WriteData ==
    /\ sync.pc = "data"
    /\ LET b == sync.batch[sync.at + 1]
       IN  /\ disk' = [disk EXCEPT ![b.no] = [ts |-> b.ts, recs |-> b.recs]]
           /\ pool' = [pool EXCEPT ![b.no] = Synced(@)]
           /\ dirtyList' = Relisted(b.no)
    /\ sync' = [sync EXCEPT !.at = @ + 1,
                            !.pc = IF sync.at + 1 = Len(sync.batch) THEN "index" ELSE "data"]
    /\ SyncStep /\ UNCHANGED <<idxFile, dw, marked, safe, dropped, fails>>

NewEntries(b) == {Entry(b[i].ts, b[i].no) : i \in {j \in 1 .. Len(b) : b[j].new}}

\* The batch is done: the next one, or the end of the pass.
BatchEnds ==
    \/ /\ DOMAIN sync.vec # {}
       /\ sync' = [sync EXCEPT !.pc = "copy", !.batch = <<>>, !.at = 0]
       /\ UNCHANGED <<marked, safe>>
    \/ DOMAIN sync.vec = {} /\ PassEnds

\* WriteIdx, with its fsync, after every batch.
WriteIdx ==
    /\ sync.pc = "index"
    /\ idxFile' = idxFile \cup NewEntries(sync.batch)
    /\ BatchEnds
    /\ SyncStep /\ UNCHANGED <<pool, dirtyList, disk, dw, dropped, fails>>

Fails(pages) ==
    /\ fails < MaxFails /\ fails' = fails + 1
    /\ dropped' = dropped \cup pages

InBatch == {sync.batch[i].no : i \in 1 .. Len(sync.batch)}

\* A write to the double-write or to the data file fails, and the file may hold a
\* torn page: WritePages returns.  The pages it had not finished are on no list,
\* and those it had finished get no index entry.
WriteFails ==
    /\ Fails(DOMAIN sync.vec \cup InBatch)
    /\ \/ sync.pc = "dw" /\ dw' \in {dw, <<>>} /\ UNCHANGED disk
       \/ /\ sync.pc = "data" /\ UNCHANGED dw
          /\ LET p == sync.batch[sync.at + 1].no
             IN  disk' \in {disk, [disk EXCEPT ![p] = Blank]}
    /\ PassEnds
    /\ SyncStep /\ UNCHANGED <<pool, dirtyList, idxFile>>

\* WriteIdx fails, and WritePages does not look at what it returns.
WriteIdxFails ==
    /\ sync.pc = "index"
    /\ Fails({e.no : e \in NewEntries(sync.batch)})
    /\ BatchEnds
    /\ SyncStep /\ UNCHANGED <<pool, dirtyList, diskVars>>

-----------------------------------------------------------------------------
(* A crash, and the Open and RecoverDW of the next start.                   *)

\* What the three files may hold when the power fails: the write that is under
\* way may be torn.
FilesOf(d, i, w) == [disk |-> d, idxFile |-> i, dw |-> w]
Now == FilesOf(disk, idxFile, dw)
Torn(p) == FilesOf([disk EXCEPT ![p] = Blank], idxFile, dw)
\* The first entries of the batch are in the index file.
Indexed(es) == FilesOf(disk, idxFile \cup es, dw)
CrashOutcomes ==
    {Now} \cup
    (CASE sync.pc = "dw" -> {FilesOf(disk, idxFile, <<>>)}
       [] sync.pc \in {"data", "redo"} /\ sync.at < Len(sync.batch) -> {Torn(sync.batch[sync.at + 1].no)}
       [] sync.pc = "index" ->
            {Indexed(NewEntries(SubSeq(sync.batch, 1, n))) : n \in 1 .. Len(sync.batch)}
       [] sync.pc = "redo" /\ sync.at = Len(sync.batch) ->
            {Indexed({e \in index : \E i \in 1 .. n : e.no = sync.batch[i].no}) : n \in 1 .. Len(sync.batch)}
       [] OTHER -> {})

\* RecoverDW, for one page: it is written, and its entry added unless the index
\* has one of that timestamp.
RedoPageWithoutEntry(s, b) ==                  \* mutant: the index is not repaired
    [s EXCEPT !.disk[b.no] = [ts |-> b.ts, recs |-> b.recs]]
RedoPage(s, b) ==
    [index |-> s.index \cup (IF \E e \in s.index : e.ts = b.ts THEN {} ELSE {Entry(b.ts, b.no)}),
     disk |-> [s.disk EXCEPT ![b.no] = [ts |-> b.ts, recs |-> b.recs]]]

\* The part as Open and RecoverDW leave it, from the files of a crash.
Reopened(o) ==
    LET redo[n \in 0 .. Len(o.dw)] ==
            IF n = 0 THEN [index |-> o.idxFile, disk |-> o.disk]
                     ELSE RedoPage(redo[n - 1], o.dw[n])
    IN  redo[Len(o.dw)]
Recovered(o, k) == LET r == Reopened(o) IN Find(r.index, r.disk, k)

\* GetMaxPageNo() + 1
NextNo(idx) ==
    {n \in 1 .. MaxPage + 1 : (\A e \in idx : e.no < n) /\ (n = 1 \/ \E e \in idx : e.no = n - 1)}

\* The power fails, and Open reads the index file.
Crash ==
    /\ crashes < MaxCrashes /\ crashes' = crashes + 1
    /\ \E o \in CrashOutcomes :
          /\ disk' = o.disk /\ idxFile' = o.idxFile /\ dw' = o.dw
          /\ index' = o.idxFile
          /\ nextPageNo' \in NextNo(o.idxFile)
          /\ sync' = [Idle EXCEPT !.pc = "redo", !.batch = o.dw]
          /\ safe' = [k \in Keys |-> IF safe[k] <= Recovered(o, k) THEN safe[k] ELSE 0]
    /\ pool' = [p \in PageNos |-> Absent]
    /\ dirtyList' = {} /\ dropped' = {}
    /\ marked' = NoRecs
    /\ UNCHANGED <<latest, damaged, fails>>

\* nextPageNo_ moves past the page that GetIndex found for the timestamp, not
\* past the page whose entry is added.
Redo ==
    /\ sync.pc = "redo" /\ sync.at < Len(sync.batch)
    /\ LET b == sync.batch[sync.at + 1]
           r == RedoPage([index |-> index, disk |-> disk], b)
           past == {e.no + 1 : e \in {f \in Covering(index, b.ts) : f.ts # b.ts /\ f.no >= nextPageNo}}
       IN  /\ index' = r.index /\ disk' = r.disk
           /\ nextPageNo' \in (IF past = {} THEN {nextPageNo} ELSE past)
    /\ sync' = [sync EXCEPT !.at = @ + 1]
    /\ UNCHANGED <<pool, dirtyList, idxFile, dw, history, crashes, fails>>

\* A page holds a record that the index looks for in another one.
Strays(idx, pages) ==
    UNION {{<<e.no, k>> : k \in {j \in Held(pages[e.no]) : e \notin Covering(idx, j)}} : e \in idx}
\* Of a split only the new page was written; or a failing write has lost the
\* index entry of the device's first page.
TornRestart ==
    (IF Strays(index, disk) # {} THEN {"torn"} ELSE {}) \cup
    (IF index # {} /\ \A e \in index : e.ts # 0 THEN {"headless"} ELSE {})

\* WriteIdx of RecoverDW; the double-write file is removed and made anew.
EndRedo ==
    /\ sync.pc = "redo" /\ sync.at = Len(sync.batch)
    /\ idxFile' = index
    /\ dw' = <<>>
    /\ sync' = Idle
    /\ latest' = [k \in Keys |-> Find(index, disk, k)]
    /\ damaged' = damaged \cup TornRestart
    /\ UNCHANGED <<memVars, disk, marked, safe, dropped, crashes, fails>>

-----------------------------------------------------------------------------

Init ==
    /\ index = {} /\ idxFile = {}
    /\ nextPageNo = 1
    /\ pool = [p \in PageNos |-> Absent]
    /\ dirtyList = {}
    /\ sync = Idle
    /\ disk = [p \in PageNos |-> Blank]
    /\ dw = <<>>
    /\ latest = NoRecs /\ marked = NoRecs /\ safe = NoRecs
    /\ dropped = {} /\ damaged = {}
    /\ crashes = 0 /\ fails = 0

\* Nothing is claimed of a part once it is damaged: the steps end there.
Next ==
    /\ damaged = {}
    /\ \/ \E k \in Keys : InsertRec(k)
       \/ \E p \in PageNos : Evict(p)
       \/ \E all \in BOOLEAN : Mark(all)
       \/ TakeSplit
       \/ TakeRest
       \/ \E p \in PageNos : CopyPage(p)
       \/ WriteDw
       \/ WriteData
       \/ WriteIdx
       \/ WriteFails
       \/ WriteIdxFails
       \/ Crash
       \/ Redo
       \/ EndRedo

Spec == Init /\ [][Next]_vars

-----------------------------------------------------------------------------
(* Properties.                                                              *)

TypeOK ==
    /\ index \subseteq Entries /\ idxFile \subseteq Entries
    /\ nextPageNo \in 1 .. MaxPage + 1
    /\ pool \in [PageNos -> Header]
    /\ dirtyList \subseteq PageNos
    /\ disk \in [PageNos -> Content]
    /\ dw \in Seq(Copies) /\ Len(dw) <= BatchSize
    /\ sync \in Syncs /\ Len(sync.batch) <= BatchSize /\ sync.at <= Len(sync.batch)
    /\ latest \in [Keys -> 0 .. MaxVer] /\ marked \in [Keys -> 0 .. MaxVer]
    /\ safe \in [Keys -> 0 .. MaxVer]
    /\ dropped \subseteq PageNos /\ damaged \subseteq {"doubled", "reused", "torn", "headless"}
    /\ crashes \in 0 .. MaxCrashes /\ fails \in 0 .. MaxFails

\* The part is open, and nothing has spoilt it.
Sound == sync.pc # "redo" /\ damaged = {}

\* A lookup finds the last value that was accepted, and no page but the one the index names
\* for a timestamp holds it, so that a scan along the index meets each record once, whatever
\* splits, evictions, page writes and restarts came between (GetIndex, GetPage,
\* TraversalDataPage, SplitMost, AddIdx).
LookupLatest ==
    Sound => /\ \A k \in Keys : Find(index, InMemory, k) = latest[k]
             /\ Strays(index, InMemory) = {}

\* A page that is not dirty has its content in the data file, so the pool may give
\* its memory away (curVer_, rrVer_ and syncVer_ with SyncDirtyPages).
CleanIsOnDisk ==
    \A p \in PageNos :
        (pool[p].init /\ ~IsDirty(pool[p])) =>
            pool[p].ts = disk[p].ts /\ pool[p].recs = disk[p].recs

\* The pages the writer has taken off the list and not yet written.
InHand ==
    DOMAIN sync.vec \cup {sync.batch[i].no : i \in sync.at + 1 .. Len(sync.batch)}

\* A dirty page is on the dirty list or in the hands of the writer, so the next
\* full sync writes it: "if (!oldPageDirty) push_back" forgets no page.
DirtyIsListed ==
    \A p \in PageNos \ dropped : IsDirty(pool[p]) => p \in dirtyList \cup InHand

\* The record was moved by a split into a page that has not been written yet, or
\* its page is one a failing write left behind.
InTransit(k) == \E e \in Covering(index, k) : Page(e.no).onlyMem \/ e.no \in dropped

\* What a finished full sync has written survives a power failure at any later
\* moment, RecoverDW included, except for a record in transit; and after the failure a
\* page holds a record of another one only if a split had moved it there and the old
\* page was still to be written.
FlushedStays ==
    damaged = {} =>
        \A o \in CrashOutcomes :
            /\ \A k \in Keys : safe[k] # 0 => Recovered(o, k) >= safe[k] \/ InTransit(k)
            /\ sync.pc # "redo" =>
                 \A s \in LET r == Reopened(o) IN Strays(r.index, r.disk) :
                     IsDirty(Page(s[1])) /\ s[2] \notin Held(Page(s[1]))

\* Both where a record replaces another of its timestamp: a lookup finds the newer value, and
\* a power failure leaves none that is older than the one a full sync wrote.
ValuesKept == LookupLatest /\ FlushedStays

\* The files, read as the next start would read them, change a batch at a time,
\* and a power failure at any moment changes nothing in them (the order of the
\* writes in WritePages, the checksum of the double-write file, RecoverDW).
Files == INSTANCE AtomicPages WITH
    store <- Reopened(Now).disk, entries <- Reopened(Now).index,
    Contents <- Content, Empty <- Blank
AtomicBatches == Files!Spec

\* The primary key of a table is the device and the timestamp (user manual): a
\* timestamp is in one page of the device.
KeyOnce ==
    \A e, f \in index : \A k \in Held(Page(e.no)) \cap Held(Page(f.no)) : e = f
=============================================================================
