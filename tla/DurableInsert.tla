--------------------------- MODULE DurableInsert ---------------------------
(***************************************************************************)
(* What makes an acknowledged insert survive a crash: PDBTable::Insert, the*)
(* commit log (module CommitLog), the page sync of TableSet::SyncDirtyPages*)
(* with its sync points, and the start of DBImpl with its redo.            *)
(*                                                                         *)
(* Insert appends a record to the commit log and only then puts it in a    *)
(* page.  SyncDirtyPages(true) lists the tables, takes a sync point at the *)
(* end of the log, writes the dirty pages of each listed table and commits *)
(* the sync point; redo starts there, and the log files before it are      *)
(* deleted.  A second record of a device and timestamp takes the place of  *)
(* the first one.  A record stands for the page it is in: how records      *)
(* share a page is the subject of module NormalPart.                       *)
(***************************************************************************)
EXTENDS CommitLog

CONSTANTS
    Tables,
    InitTables,   \* the tables there are at the first start
    Targets,      \* record -> its table and its key, as the clients may choose them
    MaxCrashes,   \* bound on crashes
    MaxIdleSyncs, \* bound on timer driven full syncs that find nothing dirty
    MaxFails      \* bound on failing page writes and refused inserts

ASSUME TablesAssumption ==
    /\ InitTables \subseteq Tables
    /\ Targets \subseteq [Recs -> [tab : Tables, key : Nat]]
    /\ \A g \in Targets : \A r, s \in Recs : g[r].key = g[s].key => g[r].tab = g[s].tab
    /\ MaxCrashes \in Nat /\ MaxIdleSyncs \in Nat /\ MaxFails \in Nat

VARIABLES
    target,     \* the table and key (device and timestamp) of each record
    tabs,       \* the open tables, tableMap_
    pc,         \* record -> how far its Insert is
    mem,        \* the records in the pages, in memory or not
    disk,       \* the records that the data files give back after a crash
    stuck,      \* dirty records that no dirty list holds any more
    syncAll,    \* the argument of SyncDirtyPages
    syncing,    \* SyncDirtyPages is running
    tabList,    \* the tables it has yet to visit
    batch,      \* the dirty records the sync of one table is writing
    crashes, idleSyncs, fails,
    replaced,   \* history: <<s, r>> when r took the place of s in its page
    exposed,    \* history: logged before a sync point that did not cover them,
                \* or behind the record that took their place
    owed        \* history: acknowledged and durable at some time

syncVars == <<syncAll, syncing, tabList>>
bounds == <<crashes, idleSyncs, fails>>
vars == <<logVars, target, tabs, pc, mem, disk, stuck, syncVars, batch, bounds, replaced, exposed, owed>>

TabOf(r) == target[r].tab
KeyOf(r) == target[r].key

Running == syncPhase # "down"

\* A page that is not as on disk and that a dirty list still holds.
Dirty == mem \ (disk \cup stuck \cup batch)
DirtyOf(t) == {r \in Dirty : TabOf(r) = t}

\* NormalDataPage::InsertRec is called with replace: the records r ousts.
Ousted(S, r) == {s \in S \ {r} : KeyOf(s) = KeyOf(r)}
Put(S, T) == {s \in S : \A r \in T : KeyOf(s) # KeyOf(r)} \cup T

\* r takes the place of the records of its key in S, and of those that they had
\* replaced themselves.
Replaces(r, S) ==
    {<<q, r>> : q \in Ousted(S, r) \cup
        {p \in Recs \ {r} : \E s \in Ousted(S, r) : <<p, s>> \in replaced}}

Fsynced(r) == \E k \in Codes : \E i \in 1 .. file[k].synced : file[k].units[i] = RecBody(r)

\* What the server promises to keep: acknowledged, and in the part of the log
\* that survives a power failure.
Promise == owed' = owed \cup {r \in Recs : pc'[r] = "acked" /\ Fsynced(r)'}

-----------------------------------------------------------------------------
(* PDBTable::Insert of one record.                                          *)

\* CommitLogList::AppendRec gets logMutex_.
Insert(r) ==
    /\ Running
    /\ pc[r] = "new" /\ TabOf(r) \in tabs
    /\ BeginAppend(<<RecHead(r), RecBody(r)>>)
    /\ pc' = [pc EXCEPT ![r] = "logging"]
    /\ UNCHANGED <<syncPhase, target, tabs, mem, disk, stuck, syncVars, batch, bounds, replaced, exposed, owed>>

\* A step of the log; AppendRec returns with the step that appends the body.
LogWriter ==
    /\ WriterStep
    /\ pc' = [r \in Recs |->
                IF logOp.todo = <<RecBody(r)>> /\ logOp' = NoOp THEN "logged" ELSE pc[r]]
    /\ UNCHANGED <<target, tabs, mem, disk, stuck, syncVars, batch, bounds, replaced, exposed>>
    /\ Promise

\* A record of the same key went into the page first although the log has it
\* behind r: a redo gives that one back.
Inverted(r) ==
    \E b \in RecPlaces :
        /\ RecAt(b) # r /\ KeyOf(RecAt(b)) = KeyOf(r) /\ pc[RecAt(b)] = "acked"
        /\ \A a \in RecPlaces : RecAt(a) = r => RedoBefore(a, b)

\* DataPart::InsertRec, and the answer to the client.  A page that is being
\* written may have been copied already or not; a page that no dirty list holds
\* stays off the lists.
ApplyInsert(r) ==
    /\ Running
    /\ pc[r] = "logged"
    /\ pc' = [pc EXCEPT ![r] = "acked"]
    /\ mem' = Put(mem, {r})
    /\ batch' \in {batch, IF Ousted(batch, r) = {} THEN batch ELSE Put(batch, {r})}
    /\ LET off == Ousted(stuck, r) # {} IN
       /\ stuck' = IF off THEN Put(stuck, {r}) ELSE stuck
       /\ exposed' = IF off \/ Inverted(r) THEN exposed \cup {r} ELSE exposed
    /\ replaced' = replaced \cup Replaces(r, mem)
    /\ UNCHANGED <<logVars, target, tabs, disk, syncVars, bounds>>
    /\ Promise

\* InsertRec fails, on a part that became read-only or a page it cannot read:
\* the client gets an error, the log keeps the record.
RefuseInsert(r) ==
    /\ Running
    /\ pc[r] = "logged"
    /\ fails < MaxFails
    /\ fails' = fails + 1
    /\ pc' = [pc EXCEPT ![r] = "refused"]
    /\ UNCHANGED <<logVars, target, tabs, mem, disk, stuck, syncVars, batch, crashes, idleSyncs,
                   replaced, exposed, owed>>

\* TableSet::CreateTable
CreateTable(t) ==
    /\ Running
    /\ t \notin tabs
    /\ tabs' = tabs \cup {t}
    /\ UNCHANGED <<logVars, target, pc, mem, disk, stuck, syncVars, batch, bounds, replaced, exposed, owed>>

\* DBImpl::_SyncCmtLog
SyncCmtLog ==
    /\ SyncLogFile
    /\ UNCHANGED <<target, tabs, pc, mem, disk, stuck, syncVars, batch, bounds, replaced, exposed, owed>>

-----------------------------------------------------------------------------
(* DBImpl::_SyncTask and TableSet::SyncDirtyPages.                          *)

\* A full sync has log files to delete, or NeedSyncAllPage asks for it.  The
\* timer asks for full syncs for ever; MaxIdleSyncs bounds those that find
\* neither that nor a dirty page.
ToSync == NeedSyncAllPage \/ \E k \in Codes : file[k].ro

\* Every second: a full sync if the timer, the size of the write cache or
\* NeedSyncAllPage ask for it, otherwise one of full and split pages only.
\* GetAllTable lists the tables.
BeginSync(all) ==
    /\ Running
    /\ ~syncing /\ syncPhase = "idle"
    /\ \/ all /\ ToSync
       \/ Dirty # {}
       \/ all /\ idleSyncs < MaxIdleSyncs
    /\ idleSyncs' = IF all /\ ~ToSync /\ Dirty = {} THEN idleSyncs + 1 ELSE idleSyncs
    /\ syncAll' = all
    /\ syncing' = TRUE
    /\ tabList' = tabs
    /\ UNCHANGED <<logVars, target, tabs, pc, mem, disk, stuck, batch, crashes, fails, replaced, exposed, owed>>

\* Records the sync point passes although nothing will write them: logged and
\* not in a page yet, or in a table that the list misses.
PassedOver == {r \in Recs : pc[r] = "logged" \/ (r \in mem /\ TabOf(r) \notin tabList)}

TakeSyncPoint ==
    /\ syncing /\ syncAll
    /\ MakeSyncPoint
    /\ exposed' = exposed \cup PassedOver
    /\ UNCHANGED <<target, tabs, pc, mem, disk, stuck, syncVars, batch, bounds, replaced, owed>>

\* PDBTable::SyncDirtyPages of the next table takes its dirty pages off the
\* list: all of them, or those that are full or split.
SyncTable(t) ==
    /\ syncing /\ t \in tabList /\ batch = {}
    /\ syncAll => syncPhase = "made"
    /\ batch' \in IF syncAll THEN {DirtyOf(t)} ELSE SUBSET DirtyOf(t)
    /\ tabList' = tabList \ {t}
    /\ UNCHANGED <<logVars, target, tabs, pc, mem, disk, stuck, syncAll, syncing, bounds, replaced, exposed, owed>>

\* NormalDataPart::WritePages, one page durable.
WritePage(r) ==
    /\ r \in batch
    /\ disk' = Put(disk, {r})
    /\ batch' = batch \ {r}
    /\ UNCHANGED <<logVars, target, tabs, pc, mem, stuck, syncVars, bounds, replaced, exposed, owed>>

\* WritePages returns an I/O error: what is left is on no list any more, and
\* the error goes no further than PDBTable::SyncDirtyPages.
WriteFails ==
    /\ batch # {} /\ fails < MaxFails
    /\ LET off == {s \in mem : \E r \in batch : KeyOf(s) = KeyOf(r)} IN
       /\ stuck' = stuck \cup off
       /\ exposed' = exposed \cup off
    /\ batch' = {}
    /\ fails' = fails + 1
    /\ UNCHANGED <<logVars, target, tabs, pc, mem, disk, syncVars, crashes, idleSyncs, replaced, owed>>

\* For the mutants: the sync point is committed while pages are being written,
\* and the task never comes to its next round.
EndSyncTooEarly ==
    /\ syncing /\ tabList = {}
    /\ syncing' = FALSE
    /\ \/ syncAll /\ CommitSyncPoint
       \/ ~syncAll /\ UNCHANGED logVars
    /\ UNCHANGED <<target, tabs, pc, mem, disk, stuck, syncAll, tabList, batch, bounds, replaced, exposed, owed>>

EndSyncStuck ==
    /\ syncing /\ tabList = {} /\ batch = {}
    /\ \/ syncAll /\ CommitSyncPoint
       \/ ~syncAll /\ UNCHANGED logVars
    /\ UNCHANGED <<target, tabs, pc, mem, disk, stuck, syncVars, batch, bounds, replaced, exposed, owed>>

\* SyncDirtyPages has visited the last table; CommitSyncPoint if it is full.
EndSync ==
    /\ syncing /\ tabList = {} /\ batch = {}
    /\ syncing' = FALSE
    /\ \/ syncAll /\ CommitSyncPoint
       \/ ~syncAll /\ UNCHANGED logVars
    /\ UNCHANGED <<target, tabs, pc, mem, disk, stuck, syncAll, tabList, batch, bounds, replaced, exposed, owed>>

\* AppendPoint and RemoveExpiredLog
FinishSyncPoint ==
    /\ AppendPoint \/ RemoveExpiredLog \/ RemoveExpiredLogDone
    /\ UNCHANGED <<target, tabs, pc, mem, disk, stuck, syncVars, batch, bounds, replaced, exposed, owed>>

-----------------------------------------------------------------------------
(* Crash, stop and start.                                                   *)

\* Memory is gone: the clients in the middle of a call get no answer.
LoseMemory ==
    /\ crashes < MaxCrashes
    /\ crashes' = crashes + 1
    /\ pc' = [r \in Recs |-> IF pc[r] \in {"logging", "logged"} THEN "failed" ELSE pc[r]]
    /\ mem' = {} /\ stuck' = {} /\ batch' = {}
    /\ syncAll' = FALSE /\ syncing' = FALSE /\ tabList' = {}
    /\ UNCHANGED <<target, tabs, idleSyncs, fails, replaced, exposed>>

PowerFailure ==
    /\ Crash \/ RemoveUnderWriter
    /\ LoseMemory
    /\ UNCHANGED disk
    /\ Promise

\* ServerPDB::Stop and DBImpl::Stop: the clients and the tasks are gone when
\* CloseAllTable writes what the dirty lists hold and Shutdown deletes the log.
Stop ==
    /\ ~syncing
    /\ \A r \in Recs : pc[r] # "logged"
    /\ disk' = Put(disk, Dirty)
    /\ Shutdown
    /\ LoseMemory
    /\ owed' = owed \cup {r \in mem : pc[r] = "acked"}

\* For a mutant: a redo that does not replace.
RedoneFirst(places) ==
    {RecAt(a) : a \in {c \in places : \A b \in places :
        RedoBefore(b, c) => KeyOf(RecAt(b)) # KeyOf(RecAt(c))}}

\* The records that the redo of these places leaves in the pages: each one
\* replaces the one before it, so the last one of each key.
Redone(places) ==
    {RecAt(a) : a \in {c \in places : \A b \in places :
        RedoBefore(c, b) => KeyOf(RecAt(b)) # KeyOf(RecAt(c))}}

\* CommitLogList::Init and DBImpl::Start up to the end of RecoverDataLog.
Start ==
    /\ RecoverLog
    /\ LET places == RedoPlaces(curSyncPos')
           redone == Redone(places)
       IN  /\ mem' = Put(disk, redone)
           /\ replaced' = replaced \cup
                UNION {Replaces(r, disk \cup {RecAt(a) : a \in places}) : r \in redone}
    /\ UNCHANGED <<target, tabs, pc, disk, stuck, syncVars, batch, bounds, exposed, owed>>

-----------------------------------------------------------------------------
Init ==
    /\ LogInit
    /\ target \in Targets
    /\ tabs = InitTables
    /\ pc = [r \in Recs |-> "new"]
    /\ mem = {} /\ disk = {} /\ stuck = {} /\ batch = {}
    /\ syncAll = FALSE /\ syncing = FALSE /\ tabList = {}
    /\ crashes = 0 /\ idleSyncs = 0 /\ fails = 0
    /\ replaced = {} /\ exposed = {} /\ owed = {}

SyncStep ==
    \/ \E all \in BOOLEAN : BeginSync(all)
    \/ TakeSyncPoint
    \/ \E t \in Tables : SyncTable(t)
    \/ \E r \in Recs : WritePage(r)
    \/ WriteFails
    \/ EndSync
    \/ FinishSyncPoint

Next ==
    \/ \E r \in Recs : Insert(r) \/ ApplyInsert(r) \/ RefuseInsert(r)
    \/ LogWriter
    \/ \E t \in Tables : CreateTable(t)
    \/ SyncCmtLog
    \/ SyncStep
    \/ PowerFailure
    \/ Stop
    \/ Start

Spec == Init /\ [][Next]_vars

-----------------------------------------------------------------------------
TypeOK ==
    /\ LogTypeOK
    /\ target \in Targets
    /\ tabs \subseteq Tables /\ tabList \subseteq Tables
    /\ pc \in [Recs -> {"new", "logging", "logged", "acked", "refused", "failed"}]
    /\ mem \subseteq Recs /\ disk \subseteq Recs
    /\ stuck \subseteq Recs /\ batch \subseteq Recs
    /\ syncAll \in BOOLEAN /\ syncing \in BOOLEAN
    /\ crashes \in Nat /\ idleSyncs \in Nat /\ fails \in Nat
    /\ replaced \subseteq Recs \X Recs /\ exposed \subseteq Recs /\ owed \subseteq Recs

\* The places of a log file that hold the body of an accepted record.
AcceptedAt(k, i) ==
    /\ file[k].units[i].t = "body"
    /\ file[k].units[i].r \in mem

\* A committed sync point covers nothing that is not in the data files, save
\* what was exposed when it was taken: every accepted record logged before it
\* is on disk (MakeSyncPoint, SyncDirtyPages, CommitSyncPoint).
SyncPointCovers ==
    (Running /\ ~racyRead) =>
        \A k \in Codes : \A i \in 1 .. Len(file[k].units) :
            (AcceptedAt(k, i) /\ BeginPos(k) + i <= curSyncPos)
                => file[k].units[i].r \in disk \cup exposed

\* The record is in the pages, or one that did not have to give way to it.
StillThere(r) == \E s \in mem : KeyOf(s) = KeyOf(r) /\ <<s, r>> \notin replaced

\* It was exposed, or the record that replaced it.
Excused(r) == r \in exposed \/ \E s \in exposed : <<r, s>> \in replaced

\* A crash neither loses a record that was acknowledged and durable nor brings
\* back one that it had replaced, save the exposed ones: redo finds it in the
\* log or the data files still have it, however often the server crashes and
\* whichever log files it deleted.
NoDurableLoss ==
    (Running /\ ~racyRead) => \A r \in owed : Excused(r) \/ StillThere(r)

-----------------------------------------------------------------------------
(* Progress.  Every thread keeps running; the tick counter of _SyncTask     *)
(* makes a full sync come back for ever, and the log thread, which waits    *)
(* five seconds between two fsyncs, does not keep logMutex_ from AppendPoint.*)

FairSpec ==
    /\ Spec
    /\ \A r \in Recs : WF_vars(ApplyInsert(r))
    /\ WF_vars(LogWriter)
    /\ SF_vars(BeginSync(TRUE))
    /\ SF_vars(FinishSyncPoint)
    /\ WF_vars(TakeSyncPoint)
    /\ WF_vars(\E t \in Tables : SyncTable(t))
    /\ WF_vars(\E r \in Recs : WritePage(r))
    /\ WF_vars(EndSync)

\* Every accepted record reaches the data files, or is replaced before.
FlushedInTheEnd == \A r \in Recs : r \in mem ~> (r \in disk \/ r \notin mem)

\* Every closed log file is deleted in the end (NeedSyncAllPage, _SyncTask,
\* RemoveExpiredLog).
ClosedLogDeleted ==
    \A k \in 1 .. MaxFiles :
        (k \in Codes /\ file[k].ro) ~> k \notin Codes
=============================================================================
