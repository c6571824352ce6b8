------------------------------- MODULE Catalog -------------------------------
(***************************************************************************)
(* The tables of the server: CREATE, ATTACH, DETACH and DROP TABLE one at  *)
(* a time under tabMutex_, a request that adds or deletes a device under   *)
(* devMutex_, an insert of a record and the full sync, none of which takes *)
(* tabMutex_; table.json, the device file and the data file of each table; *)
(* crash, stop and start.                                                  *)
(*                                                                         *)
(* All parts of a table are one here, PartLifecycle has them singly; what  *)
(* the log loses of its buffer is DurableInsert's subject.  A device file  *)
(* is mapped: what was not synced may or may not be on disk after a crash. *)
(* A device or record carries the number of the CREATE it came after, so   *)
(* that what a dropped table had is told from what its successor has.      *)
(***************************************************************************)
EXTENDS Naturals, Sequences, FiniteSets

CONSTANTS
    Tables, Devs,  \* names of tables, device ids
    NoFile,        \* a file that does not exist
    MaxDev,        \* maxDev_, the devices of all tables together
    Codes,         \* the table codes of freeCodeList_
    MaxStmts,      \* bound: statements on tables and devices, and crashes
    Inits          \* bound: the files at the beginning

\* A device: its table, the CREATE it came after, its id; a record: its table and CREATE.
Gens == 0 .. MaxStmts
Items == Tables \X Gens \X Devs
Records == Tables \X Gens

ASSUME CatalogAssumption ==
    /\ {MaxDev, Codes, MaxStmts} \subseteq Nat /\ IsFiniteSet(Tables) /\ IsFiniteSet(Devs)
    /\ NoFile \notin Tables \cup Devs /\ \A S \in (SUBSET Items) \cup (SUBSET Records) : NoFile # S
    /\ \A i \in Inits :
          /\ i.cfg \in [Tables -> {<<>>, <<FALSE>>}] /\ i.dev \in [Tables -> {NoFile} \cup SUBSET Items]
          /\ \A t \in Tables : /\ i.cfg[t] # <<>> => i.dev[t] # NoFile
                               /\ i.dev[t] # NoFile => i.dev[t] \subseteq {t} \X {0} \X Devs
          /\ Cardinality(UNION {i.dev[t] : t \in {u \in Tables : i.cfg[u] # <<>>}}) <= MaxDev

VARIABLES
    server,        \* "up", "down", "torn" (down, table.json cut off) or "refused" (cannot start)
    tab,           \* the PDBTable of each name: open while it is in tabMap_
    codes,         \* how many are left in freeCodeList_
    op, devop, ins, sync,   \* the statement under tabMutex_, that under devMutex_, an insert, the sync task
    cfg,           \* table.json: the entries of each name, TRUE for one with a data part
    dev, synced,   \* the device files as mapped, and as synced
    data,          \* the data files
    log,           \* the records redo would read
    gen, left,     \* history: the CREATEs of each name; the names with files that a DETACH or a crash left
    acked, devs, deleted,   \* history: acknowledged records and devices, deleted devices
    excused, raced,         \* history: records given up and the races met, <<kind, table>>
    stmts

disk == <<cfg, dev, synced, data, log>>
memory == <<tab, codes>>
threads == <<op, devop, ins, sync>>
promised == <<acked, devs, deleted>>
past == <<gen, left, promised, excused, raced>>
vars == <<server, memory, threads, disk, past, stmts>>

Closed == [open |-> FALSE, part |-> FALSE, rows |-> {}, dw |-> FALSE]
NoOp == [kind |-> "none", tab |-> NoFile, pc |-> "idle", total |-> 0]
NoDevOp == [kind |-> "none", tab |-> NoFile, dev |-> NoFile, pc |-> "idle", total |-> 0]
NoIns == [tab |-> NoFile, rec |-> <<>>, pc |-> "idle"]
NoSync == [pc |-> "idle", tabs |-> {}, mark |-> {}]

Up == server = "up"
Open == {t \in Tables : tab[t].open}
Of(t, S) == {r \in S : r[1] = t}
\* Every device names its table, so that the number of all of them is the sum over the tables.
Count(ts) == Cardinality(UNION {dev[t] : t \in {u \in ts : dev[u] # NoFile}})
GetTotalDevCnt == Count(Open)
DevExist(t, d) == dev[t] # NoFile /\ \E g \in 0 .. gen[t] : <<t, g, d>> \in dev[t]
Race(kind, t, holds) == IF holds THEN {<<kind, t>>} ELSE {}

-----------------------------------------------------------------------------
(* Statements on tables.                                                   *)

Begins == Up /\ op.pc = "idle" /\ stmts < MaxStmts /\ stmts' = stmts + 1
OpStep(to) == op' = to /\ UNCHANGED <<server, devop, ins, sync, log, promised>>
Goes(pc) == OpStep([op EXCEPT !.pc = pc]) /\ UNCHANGED stmts
Ends == OpStep(NoOp) /\ UNCHANGED stmts

\* DevIDTable::Create opens the device file with O_CREAT only: it overwrites the field list of a
\* file that is there, and the devices in it stay.
CreateTable(t) ==
    /\ Begins /\ ~tab[t].open
    /\ dev' = [dev EXCEPT ![t] = IF @ = NoFile THEN {} ELSE @]
    /\ gen' = [gen EXCEPT ![t] = @ + 1]
    /\ raced' = raced \cup Race("leftover", t, t \in left) \cup Race("redo", t, Of(t, log) # {})
    /\ OpStep([kind |-> "create", tab |-> t, pc |-> "config", total |-> 0])
    /\ UNCHANGED <<memory, cfg, synced, data, left, excused>>

AttachTable(t) ==
    /\ Begins /\ ~tab[t].open
    /\ OpStep([kind |-> "attach", tab |-> t, pc |-> "open", total |-> 0])
    /\ UNCHANGED <<memory, cfg, dev, synced, data, gen, left, excused, raced>>

\* TableConfig::AddTable does not look for an entry of the name.  It is the second step of CREATE
\* and the last of ATTACH.
AddTable ==
    /\ op.pc = "config" /\ op.kind \in {"create", "attach"}
    /\ cfg' = [cfg EXCEPT ![op.tab] = Append(@, FALSE)]
    /\ IF op.kind = "create" THEN Goes("open") ELSE Ends
    /\ UNCHANGED <<memory, dev, synced, data, gen, left, excused, raced>>

\* OpenTable fails: what CREATE has written stays.
OpenFails ==
    /\ Ends /\ raced' = raced \cup Race("failed", op.tab, op.kind = "create")
    /\ UNCHANGED <<memory, cfg, dev, synced, data, gen, left, excused>>

\* Mutant: the list of codes is not looked at.
OpenTable_m ==
    /\ op.pc = "open" /\ OpStep([op EXCEPT !.pc = "add", !.total = GetTotalDevCnt])
    /\ raced' = raced \cup Race("capacity", op.tab, devop.pc = "add" \/ devop.kind = "delete")
    /\ UNCHANGED <<memory, cfg, dev, synced, data, gen, left, excused, stmts>>

\* The first half of OpenTable, to the count of the devices: without devMutex_, so that one may be
\* about to be added, or deleted and still on disk.
OpenTable ==
    /\ op.pc = "open"
    /\ \/ codes = 0 /\ OpenFails
       \/ /\ codes > 0 /\ OpStep([op EXCEPT !.pc = "add", !.total = GetTotalDevCnt])
          /\ raced' = raced \cup Race("capacity", op.tab, devop.pc = "add" \/ devop.kind = "delete")
          /\ UNCHANGED <<memory, cfg, dev, synced, data, gen, left, excused, stmts>>

\* The second half: the device file, the limit, tabMap_.  A table that is opened has no parts yet.
AddTableHandle ==
    /\ op.pc = "add"
    /\ IF dev[op.tab] = NoFile \/ op.total + Cardinality(dev[op.tab]) > MaxDev THEN OpenFails
       ELSE /\ tab' = [tab EXCEPT ![op.tab] = [Closed EXCEPT !.open = TRUE]]
            /\ codes' = codes - 1
            /\ Goes(IF op.kind = "create" THEN "dw" ELSE "config")
            /\ UNCHANGED <<cfg, dev, synced, data, gen, left, excused, raced>>

\* The last step of CREATE; ATTACH has no such step, and its table no double-write file.
RecoverDW ==
    /\ op.pc = "dw" /\ tab' = [tab EXCEPT ![op.tab].dw = TRUE] /\ Ends
    /\ UNCHANGED <<codes, cfg, dev, synced, data, gen, left, excused, raced>>

\* ATTACH DATAFILE for the parts of a table.
AttachFile(t) ==
    /\ Begins /\ tab[t].open /\ ~tab[t].part /\ data[t] # NoFile
    /\ tab' = [tab EXCEPT ![t].part = TRUE, ![t].rows = data[t]]
    /\ cfg' = [cfg EXCEPT ![t] = IF @ = <<>> THEN @ ELSE <<TRUE>> \o Tail(@)]
    /\ OpStep(NoOp) /\ UNCHANGED <<codes, dev, synced, data, gen, left, excused, raced>>

\* DROP and DETACH take the table out of tabMap_ and wait for its references.
EraseTable(kind, t) ==
    /\ Begins /\ tab[t].open
    /\ tab' = [tab EXCEPT ![t].open = FALSE]
    /\ OpStep([kind |-> kind, tab |-> t, pc |-> "refs", total |-> 0])
    /\ UNCHANGED <<codes, disk, gen, left, excused, raced>>

GetRefCntZero(t) == ins.tab # t /\ ~(devop.tab = t /\ devop.pc = "flush")

AwaitRefs == op.pc = "refs" /\ GetRefCntZero(op.tab) /\ Goes("config")
             /\ UNCHANGED <<memory, disk, gen, left, excused, raced>>

\* Mutant: the entry stays.
DropEntry_m ==
    /\ op.pc = "config" /\ op.kind \in {"drop", "detach"} /\ Goes("files")
    /\ UNCHANGED <<memory, cfg, dev, synced, data, gen, left, excused, raced>>

\* TableConfig::DropTable: the first entry of the name.
DropEntry ==
    /\ op.pc = "config" /\ op.kind \in {"drop", "detach"} /\ Goes("files")
    /\ cfg' = [cfg EXCEPT ![op.tab] = IF @ = <<>> THEN @ ELSE Tail(@)]
    /\ UNCHANGED <<memory, dev, synced, data, gen, left, excused, raced>>

\* PDBTable::DropTable: the files of its parts, then the device file.
DropParts ==
    /\ op.kind = "drop" /\ op.pc = "files" /\ Goes("device file")
    /\ data' = [data EXCEPT ![op.tab] = IF tab[op.tab].part THEN NoFile ELSE @]
    /\ UNCHANGED <<memory, cfg, dev, synced, gen, left, excused, raced>>

\* Mutant: the device file stays.
DropDevFile_m ==
    /\ op.kind = "drop" /\ op.pc = "device file" /\ Ends
    /\ tab' = [tab EXCEPT ![op.tab] = Closed]
    /\ left' = IF data[op.tab] = NoFile THEN left \ {op.tab} ELSE left
    /\ excused' = excused \cup tab[op.tab].rows
    /\ UNCHANGED <<codes, cfg, dev, synced, data, gen, raced>>

DropDevFile ==
    /\ op.kind = "drop" /\ op.pc = "device file" /\ Ends
    /\ tab' = [tab EXCEPT ![op.tab] = Closed]
    /\ dev' = [dev EXCEPT ![op.tab] = NoFile] /\ synced' = [synced EXCEPT ![op.tab] = {}]
    /\ left' = IF data[op.tab] = NoFile THEN left \ {op.tab} ELSE left
    /\ excused' = excused \cup tab[op.tab].rows
    /\ UNCHANGED <<codes, cfg, data, gen, raced>>

\* What SyncDirtyPages writes of a table; without a double-write file every write fails and its
\* pages are on no dirty list any more.
Written(t) == IF tab[t].part /\ tab[t].dw THEN tab[t].rows ELSE data[t]
Unwritten(t) == IF tab[t].part /\ ~tab[t].dw THEN tab[t].rows \ data[t] ELSE {}

\* PDBTable::Close: a full sync of the table; its device file is synced when it is unmapped.
CloseTable ==
    /\ op.kind = "detach" /\ op.pc = "files" /\ Ends
    /\ data' = [data EXCEPT ![op.tab] = Written(op.tab)]
    /\ excused' = excused \cup Unwritten(op.tab)
    /\ synced' = [synced EXCEPT ![op.tab] = dev[op.tab]]
    /\ tab' = [tab EXCEPT ![op.tab] = Closed] /\ left' = left \cup {op.tab}
    /\ UNCHANGED <<codes, cfg, dev, gen, raced>>

-----------------------------------------------------------------------------
(* Devices: INSERT INTO sys_dev and DELETE FROM sys_dev.  InsertDev gives  *)
(* devMutex_ back before it syncs; here the next request waits for that.   *)

DevStep(to) == devop' = to /\ UNCHANGED <<server, memory, op, ins, sync, cfg, data, log, gen, left, acked, excused>>
Added(t, d) == dev[t] \cup {<<t, gen[t], d>>}
Deleted(t, d) == {x \in dev[t] : x[3] # d}
DevBegins == Up /\ devop.pc = "idle" /\ stmts < MaxStmts /\ stmts' = stmts + 1

\* The devices are counted once, without tabMutex_: a table may be on its way into tabMap_, or out
\* of it and still in table.json.
InsertDev(t, d) ==
    /\ DevBegins
    /\ DevStep([kind |-> "add", tab |-> t, dev |-> d, pc |-> "add", total |-> GetTotalDevCnt])
    /\ raced' = raced \cup Race("capacity", t, op.pc \in {"add", "refs", "config"})
    /\ UNCHANGED <<dev, synced, devs, deleted>>

Full(n) == n >= MaxDev

AddDev ==
    /\ devop.kind = "add" /\ devop.pc = "add" /\ UNCHANGED <<synced, devs, raced, stmts>>
    /\ LET t == devop.tab IN
       IF Full(devop.total) \/ ~tab[t].open \/ DevExist(t, devop.dev)
       THEN DevStep(NoDevOp) /\ UNCHANGED <<dev, deleted>>
       ELSE /\ dev' = [dev EXCEPT ![t] = Added(t, devop.dev)]
            /\ deleted' = {x \in deleted : x[1] # t \/ x[3] # devop.dev}
            /\ DevStep([devop EXCEPT !.pc = "flush"])

\* Mutant: the request is answered, the file not synced.
FlushDev_m ==
    /\ devop.kind = "add" /\ devop.pc = "flush" /\ DevStep(NoDevOp)
    /\ devs' = devs \cup {<<devop.tab, gen[devop.tab], devop.dev>>}
    /\ raced' = raced \cup Race("unsynced", devop.tab, ~tab[devop.tab].open)
    /\ UNCHANGED <<dev, synced, deleted, stmts>>

\* The device files of the tables that are in tabMap_ by then, and the answer.
FlushDev ==
    /\ devop.kind = "add" /\ devop.pc = "flush" /\ DevStep(NoDevOp)
    /\ synced' = [t \in Tables |-> IF tab[t].open THEN dev[t] ELSE synced[t]]
    /\ devs' = devs \cup {<<devop.tab, gen[devop.tab], devop.dev>>}
    /\ raced' = raced \cup Race("unsynced", devop.tab, ~tab[devop.tab].open)
    /\ UNCHANGED <<dev, deleted, stmts>>

DelDev(t, d) ==
    /\ DevBegins /\ tab[t].open /\ DevExist(t, d)
    /\ dev' = [dev EXCEPT ![t] = Deleted(t, d)]
    /\ devs' = {x \in devs : x[1] # t \/ x[3] # d}
    /\ DevStep([kind |-> "delete", tab |-> t, dev |-> d, pc |-> "flush", total |-> 0])
    /\ UNCHANGED <<synced, deleted, raced>>

Flush ==
    /\ devop.kind = "delete" /\ DevStep(NoDevOp)
    /\ synced' = [synced EXCEPT ![devop.tab] = dev[devop.tab]]
    /\ deleted' = deleted \cup {<<devop.tab, gen[devop.tab], devop.dev>>}
    /\ UNCHANGED <<dev, devs, raced, stmts>>

-----------------------------------------------------------------------------
(* An insert of one record.                                                *)

InsStep(to) == ins' = to /\ UNCHANGED <<server, codes, op, devop, sync, dev, synced, gen, left, devs, deleted, excused, stmts>>

\* A reference to the table, the device, and the part, which is created unless there are files.
\* AddFilePart finds no entry for a table that ATTACH has yet to enter.  Bound: one record for each
\* name and CREATE, and it is not sent again while the log has it.
Insert(t) ==
    /\ Up /\ ins.pc = "idle" /\ tab[t].open /\ dev[t] # {} /\ <<t, gen[t]>> \notin acked \cup log
    /\ tab[t].part \/ data[t] = NoFile
    /\ tab' = [tab EXCEPT ![t].part = TRUE]
    /\ IF tab[t].part THEN UNCHANGED <<cfg, data, raced>>
       ELSE /\ data' = [data EXCEPT ![t] = {}]
            /\ cfg' = [cfg EXCEPT ![t] = IF @ = <<>> THEN @ ELSE <<TRUE>> \o Tail(@)]
            /\ raced' = raced \cup Race("part", t, cfg[t] = <<>>)
    /\ InsStep([tab |-> t, rec |-> <<t, gen[t]>>, pc |-> "log"])
    /\ UNCHANGED <<log, acked>>

AppendRec ==
    /\ ins.pc = "log" /\ log' = log \cup {ins.rec} /\ InsStep([ins EXCEPT !.pc = "put"])
    /\ UNCHANGED <<tab, cfg, data, acked, raced>>

InsertRec ==
    /\ ins.pc = "put" /\ InsStep(NoIns) /\ acked' = acked \cup {ins.rec}
    /\ tab' = [tab EXCEPT ![ins.tab].rows = @ \cup {ins.rec}]
    /\ UNCHANGED <<cfg, data, log, raced>>

-----------------------------------------------------------------------------
(* The full sync, TableSet::SyncDirtyPages.                                *)

SyncStep(to) == sync' = to /\ UNCHANGED <<server, memory, op, devop, ins, cfg, dev, synced, gen, left, promised, raced, stmts>>

GetAllTable ==
    /\ Up /\ sync.pc = "idle" /\ log # {} /\ SyncStep([NoSync EXCEPT !.pc = "point", !.tabs = Open])
    /\ UNCHANGED <<data, log, excused>>

\* The sync point is behind a record that is not in its page yet, and behind those of a table that
\* was opened after the list was made.
MakeSyncPoint ==
    /\ sync.pc = "point" /\ SyncStep([sync EXCEPT !.pc = "next", !.mark = log])
    /\ excused' = excused \cup {r \in log : r[1] \notin sync.tabs} \cup (IF ins.pc = "put" THEN {ins.rec} ELSE {})
    /\ UNCHANGED <<data, log>>

\* A table that is being detached is not found any more; it writes its own pages later, or a crash
\* comes first.
SyncTable ==
    /\ sync.pc = "next"
    /\ \E t \in sync.tabs :
          /\ SyncStep([sync EXCEPT !.tabs = @ \ {t}])
          /\ data' = IF tab[t].open THEN [data EXCEPT ![t] = Written(t)] ELSE data
          /\ excused' = excused \cup IF tab[t].open THEN Unwritten(t) ELSE Of(t, sync.mark)
    /\ UNCHANGED log

\* Mutant: the log is given up to its end.
CommitSyncPoint_m ==
    /\ sync.pc = "next" /\ sync.tabs = {} /\ SyncStep(NoSync)
    /\ log' = {} /\ UNCHANGED <<data, excused>>

CommitSyncPoint ==
    /\ sync.pc = "next" /\ sync.tabs = {} /\ SyncStep(NoSync)
    /\ log' = log \ sync.mark /\ UNCHANGED <<data, excused>>

-----------------------------------------------------------------------------
(* Crash, stop, start.                                                     *)

NoMemory ==
    /\ tab' = [t \in Tables |-> Closed] /\ codes' = Codes
    /\ op' = NoOp /\ devop' = NoDevOp /\ ins' = NoIns /\ sync' = NoSync

\* The tables with a device file and no entry.
Unlisted == {t \in Tables : dev[t] # NoFile /\ cfg[t] = <<>>}

\* _SaveConfig overwrites table.json in place.  Of a mapped file, what was not synced is a choice.
\* DETACH has taken its entry out before it writes: redo passes over the table.  A DROP cut off is one.
Crash ==
    /\ Up /\ stmts < MaxStmts /\ stmts' = stmts + 1
    /\ server' \in {"down"} \cup (IF op.pc = "config" THEN {"torn"} ELSE {})
    /\ \E kept \in SUBSET UNION {dev[t] \cup synced[t] : t \in {u \in Tables : dev[u] # NoFile}} :
          dev' = [t \in Tables |-> IF dev[t] = NoFile THEN NoFile
                                   ELSE (dev[t] \cap synced[t]) \cup Of(t, kept)]
    /\ synced' = [t \in Tables |-> IF dev'[t] = NoFile THEN {} ELSE dev'[t]]
    /\ left' = left \cup Unlisted
    /\ excused' = excused \cup (IF op.pc \in {"files", "device file"} THEN tab[op.tab].rows ELSE {})
    /\ NoMemory /\ UNCHANGED <<cfg, data, log, gen, promised, raced>>

\* CloseAllTable and Shutdown, after the connections and the tasks have ended.
Stop ==
    /\ Up /\ op = NoOp /\ devop = NoDevOp /\ ins = NoIns /\ sync = NoSync
    /\ server' = "down" /\ NoMemory
    /\ data' = [t \in Tables |-> Written(t)] /\ log' = {}
    /\ synced' = [t \in Tables |-> IF dev[t] = NoFile THEN {} ELSE dev[t]]
    /\ excused' = excused \cup UNION {Unwritten(t) : t \in Tables}
    /\ UNCHANGED <<cfg, dev, gen, left, promised, raced, stmts>>

\* OpenTable and OpenDataPart of every entry.
Listed == {t \in Tables : cfg[t] # <<>>}
CanStart ==
    /\ \A t \in Listed : Len(cfg[t]) = 1 /\ dev[t] # NoFile /\ (cfg[t][1] => data[t] # NoFile)
    /\ Count(Listed) <= MaxDev /\ Cardinality(Listed) <= Codes

\* Redo puts the records of the log into the parts that are there.
Start ==
    /\ server \in {"down", "torn"}
    /\ IF server = "torn" \/ ~CanStart
       THEN server' = "refused" /\ UNCHANGED <<tab, codes>>
       ELSE /\ server' = "up" /\ codes' = Codes - Cardinality(Listed)
            /\ tab' = [t \in Tables |->
                  IF t \notin Listed THEN Closed
                  ELSE [open |-> TRUE, part |-> cfg[t][1], dw |-> TRUE,
                        rows |-> IF cfg[t][1] THEN data[t] \cup Of(t, log) ELSE {}]]
    /\ UNCHANGED <<threads, disk, past, stmts>>

-----------------------------------------------------------------------------
Statement == \E t \in Tables : CreateTable(t) \/ AttachTable(t) \/ AttachFile(t) \/ \E kind \in {"drop", "detach"} : EraseTable(kind, t)
StatementStep == AddTable \/ OpenTable \/ AddTableHandle \/ RecoverDW \/ AwaitRefs \/ DropEntry
                 \/ DropParts \/ DropDevFile \/ CloseTable
DevStatement == \E t \in Tables, d \in Devs : InsertDev(t, d) \/ DelDev(t, d)
DevStatementStep == AddDev \/ FlushDev \/ Flush
SyncerStep == GetAllTable \/ MakeSyncPoint \/ SyncTable \/ CommitSyncPoint

\* The server is to be started; the tables in table.json and device files that were copied to it.
Init ==
    /\ server = "down" /\ tab = [t \in Tables |-> Closed] /\ codes = Codes
    /\ op = NoOp /\ devop = NoDevOp /\ ins = NoIns /\ sync = NoSync
    /\ \E i \in Inits :
          /\ cfg = i.cfg /\ dev = i.dev /\ synced = [t \in Tables |-> IF i.dev[t] = NoFile THEN {} ELSE i.dev[t]]
          /\ left = {t \in Tables : i.dev[t] # NoFile /\ i.cfg[t] = <<>>}
    /\ data = [t \in Tables |-> NoFile] /\ log = {} /\ gen = [t \in Tables |-> 0]
    /\ acked = {} /\ devs = {} /\ deleted = {} /\ excused = {} /\ raced = {} /\ stmts = 0

Next == Statement \/ StatementStep \/ DevStatement \/ DevStatementStep
        \/ (\E t \in Tables : Insert(t)) \/ AppendRec \/ InsertRec
        \/ SyncerStep \/ Crash \/ Stop \/ Start

Spec == Init /\ [][Next]_vars

-----------------------------------------------------------------------------
(* Properties                                                              *)

Races == {"leftover", "redo", "failed", "capacity", "unsynced", "part"}

\* Every variable has values of its type.
TypeOK ==
    /\ server \in {"up", "down", "torn", "refused"} /\ stmts \in 0 .. MaxStmts /\ codes \in 0 .. Codes
    /\ tab \in [Tables -> [open : BOOLEAN, part : BOOLEAN, rows : SUBSET Records, dw : BOOLEAN]]
    /\ op.kind \in {"none", "create", "attach", "drop", "detach"} /\ op.tab \in Tables \cup {NoFile}
    /\ op.pc \in {"idle", "config", "open", "add", "dw", "refs", "files", "device file"}
    /\ devop.kind \in {"none", "add", "delete"} /\ devop.pc \in {"idle", "add", "flush"}
    /\ ins.pc \in {"idle", "log", "put"} /\ sync.pc \in {"idle", "point", "next"}
    /\ sync.tabs \subseteq Tables /\ sync.mark \subseteq Records
    /\ \A t \in Tables : /\ cfg[t] \in Seq(BOOLEAN) /\ gen[t] \in Gens /\ synced[t] \subseteq Items
                         /\ dev[t] = NoFile \/ dev[t] \subseteq Items
                         /\ data[t] = NoFile \/ data[t] \subseteq Records
    /\ log \cup acked \cup excused \subseteq Records /\ left \subseteq Tables
    /\ devs \cup deleted \subseteq Items /\ raced \subseteq Races \X Tables

Raced(kind, t) == <<kind, t>> \in raced
Overcounted == \E t \in Tables : Raced("capacity", t) \/ Raced("leftover", t) \/ Raced("failed", t)

\* At every moment that no entry is being written, the files are such that the server starts: one
\* entry of a name, its files, and no more devices than it opens.  Except after a CREATE that
\* failed in OpenTable, a count of the devices while a table was on its way, and a CREATE over the
\* files that a DETACH or a crash had left.
Startable ==
    /\ \A t \in Listed : Raced("failed", t) \/ (Len(cfg[t]) = 1 /\ dev[t] # NoFile /\ (cfg[t][1] => data[t] # NoFile))
    /\ Overcounted \/ Count(Listed) <= MaxDev

\* An acknowledged record of a table stays in it, and where a start or, after DETACH, ATTACH
\* DATAFILE will find it, until the table is dropped.
OnDisk(r) ==
    LET t == r[1] IN
    \/ data[t] # NoFile /\ r \in data[t]
    \/ r \in log /\ cfg[t] # <<>> /\ cfg[t][1] /\ data[t] # NoFile
    \/ op.kind = "detach" /\ op.tab = t /\ op.pc = "files"
Dropping(t) == op.kind = "drop" /\ op.tab = t
Kept(r) == gen[r[1]] = r[2] /\ ~Dropping(r[1]) /\ ~Raced("part", r[1]) /\ ~Raced("failed", r[1])
RowsStay ==
    \A r \in acked \ excused : Kept(r) => (tab[r[1]].part => r \in tab[r[1]].rows) /\ OnDisk(r)

\* An acknowledged device is known and on disk for good, and a deleted one is neither, unless the
\* table was out of tabMap_ before the request that added it came to sync its file.
DevicesStay ==
    \A t \in Tables : dev[t] # NoFile /\ ~Dropping(t) /\ ~Raced("unsynced", t) =>
       /\ \A x \in Of(t, devs) : x[2] = gen[t] => x \in dev[t] \cap synced[t]
       /\ \A x \in Of(t, deleted) : x[2] = gen[t] => x \notin dev[t] \cup synced[t]

\* A table that is created has nothing of an earlier one of its name, unless files were left, or
\* the log still had records for redo, or a CREATE before had failed.
NothingReturns ==
    \A t \in Open : \/ Raced("leftover", t) \/ Raced("redo", t) \/ Raced("failed", t)
                    \/ \A x \in dev[t] \cup tab[t].rows : x[2] = gen[t]
=============================================================================
