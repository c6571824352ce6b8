---------------------------- MODULE PartLifecycle ----------------------------
(***************************************************************************)
(* The data parts of one table, one for each day: created by the first     *)
(* insert of the day, made read-only by the full sync once the day is past *)
(* the insert window, then compressed by the dump task, and at any time    *)
(* attached, detached or dropped by an administrator.  The parts in memory *)
(* (partVec_, references counted), the config file (table.json) and the    *)
(* data files have to agree after every interleaving of an insert request, *)
(* the sync task, the dump task and the administrator, and after a crash   *)
(* at any moment.  A query holds a reference as the insert request does.   *)
(*                                                                         *)
(* The pages of a part are abstracted to the set of its records: their     *)
(* writing, a partial sync's too, is NormalPart's subject; that the commit *)
(* log may lose its buffer and more is that of DurableInsert.              *)
(***************************************************************************)
EXTENDS Naturals, Sequences, FiniteSets, Functions

CONSTANTS
    Days,          \* the days of the parts (part codes)
    ValidDays,     \* insertValidDay: days before and after today that take inserts
    NoFile,        \* a data file that does not exist
    Kinds,         \* of parts: "normal", "comp"
    FirstNow, MaxNow,   \* bound: the days the clock goes through
    Recs,          \* bound: the records that are inserted, <<day, number>>
    MaxParts,      \* bound: part objects of one life of the server, a start's among them
    MaxEvents      \* bound: commands of the administrator and crashes together

ASSUME PartLifecycleAssumption ==
    /\ Days \subseteq Nat \ {0} /\ ValidDays \in Nat /\ Kinds = {"normal", "comp"}
    /\ Recs \subseteq Days \X Nat /\ \A S \in SUBSET Recs : NoFile # S
    /\ {FirstNow, MaxNow, MaxParts, MaxEvents} \subseteq Nat /\ FirstNow <= MaxNow
    /\ IsFiniteSet(Days) /\ Cardinality(Days) <= MaxParts

VARIABLES
    server,        \* "up", "down", "torn" (down, its config cut off) or "refused" (cannot start)
    now,           \* DateTime::NowDayCode
    parts,         \* the part objects of this life; a reference is an index, 0 none
    vec,           \* partVec_: the part of each day
    cfg,           \* the table's parts in table.json, <<day, kind>>
    files,         \* the data files: records on disk, by kind and day
    log,           \* the records redo would read
    ins, syncer, dump, adm,   \* the threads
    dumpPartCode,  \* the day being compressed, 0 for -1
    cancel,        \* glbCancelCompTask
    acked, late,   \* history: accepted records; those in a part made read-only and not written,
                   \* or logged and not in their part when a full sync began
    gone, raced,   \* history: files taken out, <<day, kind>>; days hit by one of the named races
    crashes

memory == <<parts, vec, ins, syncer, dump, adm, dumpPartCode, cancel>>
disk == <<cfg, files, log>>
past == <<acked, late, gone, raced>>
vars == <<server, now, memory, disk, past, crashes>>

Gone(d) == \E k \in Kinds : <<d, k>> \in gone
Of(d, S) == {r \in S : r[1] = d}
IdleIns == [pc |-> "idle", today |-> 0, day |-> 0, part |-> 0, ref |-> 0, rec |-> 0]
IdleSync == [pc |-> "idle", roDay |-> 0, at |-> 0, ref |-> 0, mark |-> {}]
IdleDump == [pc |-> "idle", from |-> 0, ref |-> 0, part |-> 0]
IdleAdm(n) == [pc |-> "idle", op |-> "none", kind |-> "normal", day |-> 0, part |-> 0, done |-> n]

NormalPartOf(d, recs) == [day |-> d, kind |-> "normal", ro |-> FALSE, recs |-> recs, freed |-> 0]
CompPartOf(d, recs) == [day |-> d, kind |-> "comp", ro |-> TRUE, recs |-> recs, freed |-> 0]

\* From insertValidDay days before today; the day behind the last one is in it too, but only with its
\* first microsecond (tstamp > invalidTstampEd is refused), which any record of it may have.
InWindow(d, today) == d + ValidDays >= today /\ d <= today + ValidDays + 1
Old(d) == d + ValidDays < now

\* Mutant: the reference of the insert request is not counted.
GetRefCntZero_m(p) == p \notin {syncer.ref, dump.ref}
GetRefCntZero(p) == p \notin {ins.ref, syncer.ref, dump.ref}
PartMutexFree == ins.pc # "create"
Up == server = "up"

\* DelPartItem: the first entry of the day, of any two.
DelPartItem(c, d) ==
    IF \E k \in Kinds : <<d, k>> \in c THEN {c \ {<<d, k>>} : k \in {j \in Kinds : <<d, j>> \in c}}
    ELSE {c}

Tick == now < MaxNow /\ now' = now + 1
        /\ UNCHANGED <<server, memory, disk, past, crashes>>

-----------------------------------------------------------------------------
(* One insert request at a time: Insert, GetOrCreateNormalPart.            *)

InsStep(to) == ins' = to /\ UNCHANGED <<server, now, syncer, dump, adm, dumpPartCode, cancel, crashes>>

InsertBegin ==
    /\ Up /\ ins.pc = "idle" /\ \E r \in Recs : InWindow(r[1], now)
    /\ InsStep([IdleIns EXCEPT !.pc = "next", !.today = now])
    /\ UNCHANGED <<parts, vec, disk, past>>

\* The next record is for the day of the last one, whose part is at hand, or
\* GetOrCreateNormalPart finds its part or begins to create it, under partMutex_.  (A record sent
\* again is another one as long as the log has the first.)
NextRec ==
    /\ ins.pc = "next" /\ PartMutexFree
    /\ \E r \in {x \in Recs \ log : InWindow(x[1], ins.today)} :
          LET d == r[1]
              one == [ins EXCEPT !.rec = r]
          IN  \/ /\ d = ins.day /\ InsStep([one EXCEPT !.pc = "log"])
                 /\ raced' = raced \cup (IF ins.ref = 0 THEN {<<"bare", d>>} ELSE {})
                 /\ UNCHANGED <<parts, vec, disk, acked, late, gone>>
              \/ /\ d # ins.day /\ vec[d] # 0 /\ parts[vec[d]].kind = "normal"
                 /\ InsStep([one EXCEPT !.pc = "log", !.day = d, !.part = vec[d], !.ref = vec[d]])
                 /\ UNCHANGED <<parts, vec, disk, past>>
              \/ /\ d # ins.day /\ vec[d] = 0 /\ files["normal"][d] = NoFile /\ Len(parts) < MaxParts
                 /\ files' = [files EXCEPT !["normal"][d] = {}]
                 /\ InsStep([one EXCEPT !.pc = "create", !.day = d, !.part = 0, !.ref = 0])
                 /\ UNCHANGED <<parts, vec, cfg, log, past>>

\* GetOrCreateNormalPart gives up the reference and then fails: for a day with a compressed part,
\* one whose files are there, or any failure for another day.  The request goes on, curPartDay and
\* its part as they were.
NextRecFails ==
    /\ ins.pc = "next" /\ PartMutexFree
    /\ InsStep([ins EXCEPT !.ref = 0]) /\ UNCHANGED <<parts, vec, disk, past>>

\* The rest of GetOrCreateNormalPart, still under partMutex_.
CreatePart ==
    /\ ins.pc = "create"
    /\ parts' = Append(parts, NormalPartOf(ins.day, {}))
    /\ vec' = [vec EXCEPT ![ins.day] = Len(parts) + 1]
    /\ cfg' = cfg \cup {<<ins.day, "normal">>}
    /\ InsStep([ins EXCEPT !.pc = "log", !.part = Len(parts) + 1, !.ref = Len(parts) + 1])
    /\ raced' = raced \cup (IF Gone(ins.day) \/ (adm.part # 0 /\ adm.day = ins.day)
                           THEN {<<"window", ins.day>>} ELSE {})
    /\ UNCHANGED <<files, log, acked, late, gone>>

\* AppendRec, and InsertRec's look at readOnly_.
LogRec ==
    /\ ins.pc = "log"
    /\ log' = log \cup {ins.rec}
    /\ InsStep(IF parts[ins.part].ro THEN [ins EXCEPT !.pc = "next", !.rec = 0] ELSE [ins EXCEPT !.pc = "put"])
    /\ UNCHANGED <<parts, vec, cfg, files, past>>

PutRec ==
    /\ ins.pc = "put"
    /\ parts' = [parts EXCEPT ![ins.part].recs = @ \cup {ins.rec}]
    /\ acked' = acked \cup {ins.rec}
    /\ late' = late \cup (IF parts[ins.part].ro THEN {ins.rec} ELSE {})
    /\ InsStep([ins EXCEPT !.pc = "next", !.rec = 0])
    /\ UNCHANGED <<vec, disk, gone, raced>>

InsertEnd ==
    /\ ins.pc = "next" /\ InsStep(IdleIns) /\ UNCHANGED <<parts, vec, disk, past>>

-----------------------------------------------------------------------------
(* A full sync: PDBTable::SyncDirtyPages between MakeSyncPoint and CommitSyncPoint. *)

SyncStep(to) == syncer' = to /\ UNCHANGED <<server, now, vec, ins, dump, adm, dumpPartCode, cancel, cfg,
                                            acked, gone, crashes>>

SyncBegin ==
    /\ Up /\ syncer.pc = "idle"
    /\ SyncStep([IdleSync EXCEPT !.pc = "next", !.roDay = now, !.mark = log])
    /\ late' = late \cup (IF ins.pc = "put" THEN {ins.rec} ELSE {})
    /\ UNCHANGED <<parts, files, log, raced>>

\* The race of a part that is out of partVec_ and not yet written, or in it without an entry, with a
\* crash or the end of a full sync that did not see it.
Unwritten == IF adm.pc # "idle" THEN {<<"unwritten", adm.day>>} ELSE {}

\* GetDataPartEqualOrGreat, the first part after day "at", and its SyncDirtyPages, if it
\* is a normal part and writable.
SyncNext ==
    /\ syncer.pc = "next" /\ PartMutexFree
    /\ \E d \in Days :
          /\ d > syncer.at /\ vec[d] # 0 /\ \A e \in Days : e > syncer.at /\ vec[e] # 0 => d <= e
          /\ LET p == parts[vec[d]]
                 writes == p.kind = "normal" /\ ~p.ro
             IN  /\ SyncStep([syncer EXCEPT !.pc = IF writes THEN "switch" ELSE "next", !.at = d, !.ref = vec[d]])
                 /\ IF writes /\ files["normal"][d] # NoFile
                    THEN files' = [files EXCEPT !["normal"][d] = p.recs]
                    ELSE UNCHANGED files
    /\ UNCHANGED <<parts, log, late, raced>>

\* Mutant: everything in the log is given up, what came after the sync point as well.
SyncEnd_m ==
    /\ syncer.pc = "next" /\ PartMutexFree /\ \A d \in Days : d > syncer.at => vec[d] = 0
    /\ SyncStep(IdleSync) /\ log' = {}
    /\ raced' = raced \cup Unwritten /\ UNCHANGED <<parts, files, late>>

\* After the last part the sync point is committed.
SyncEnd ==
    /\ syncer.pc = "next" /\ PartMutexFree /\ \A d \in Days : d > syncer.at => vec[d] = 0
    /\ SyncStep(IdleSync)
    /\ log' = log \ syncer.mark
    /\ raced' = raced \cup Unwritten
    /\ UNCHANGED <<parts, files, late>>

SyncSwitch ==
    /\ syncer.pc = "switch"
    /\ LET p == parts[syncer.ref] IN
       IF p.day + ValidDays < syncer.roDay
       THEN /\ parts' = [parts EXCEPT ![syncer.ref].ro = TRUE]
            /\ late' = late \cup {r \in p.recs : files["normal"][p.day] = NoFile \/ r \notin files["normal"][p.day]}
       ELSE UNCHANGED <<parts, late>>
    /\ SyncStep([syncer EXCEPT !.pc = "next"]) /\ UNCHANGED <<files, log, raced>>

-----------------------------------------------------------------------------
(* The dump task: TableSet::DumpToCompress, PDBTable::DumpPartToComp.      *)

DumpStep(to) == dump' = to /\ UNCHANGED <<server, now, ins, syncer, adm, log, acked, late, gone, crashes>>
DumpOnly(to) == DumpStep(to) /\ UNCHANGED <<parts, vec, dumpPartCode, cancel, cfg, files, raced>>

DumpBegin ==
    /\ Up /\ dump.pc = "idle" /\ cancel' = FALSE
    /\ DumpStep([IdleDump EXCEPT !.pc = "next", !.from = now])
    /\ UNCHANGED <<parts, vec, dumpPartCode, cfg, files, raced>>

\* GetDataPartEqualOrLess: the last part before day "from" - insertValidDay, and then before that.
DumpNext ==
    /\ dump.pc = "next" /\ PartMutexFree
    /\ LET older == {d \in Days : d + ValidDays < dump.from /\ vec[d] # 0} IN
       IF cancel \/ older = {} THEN DumpOnly(IdleDump)
       ELSE \E d \in older :
               /\ \A e \in older : e <= d
               /\ LET p == vec[d]
                      dumps == parts[p].kind = "normal" /\ parts[p].ro
                  IN  DumpOnly([dump EXCEPT !.from = d + ValidDays, !.ref = p,
                                            !.part = IF dumps THEN p ELSE 0, !.pc = IF dumps THEN "mark" ELSE "next"])

DumpDay == parts[dump.part].day

\* dumpPartCode_ is set; a compressed file that is already there ends it.
DumpMark ==
    /\ dump.pc = "mark" /\ dumpPartCode' = DumpDay
    /\ DumpStep([dump EXCEPT !.pc = IF files["comp"][DumpDay] = NoFile THEN "scan" ELSE "clear"])
    /\ UNCHANGED <<parts, vec, cancel, cfg, files, raced>>

\* DumpToCompPart reads the records and renames its temporary file at the end; a cancellation is
\* noticed between two pages of records.
DumpScan ==
    /\ dump.pc = "scan" /\ parts[dump.part].recs # {}
    /\ \/ files' = [files EXCEPT !["comp"][DumpDay] = parts[dump.part].recs]
          /\ DumpStep([dump EXCEPT !.pc = "config"])
       \/ cancel /\ DumpStep([dump EXCEPT !.pc = "give up"]) /\ UNCHANGED files
    /\ UNCHANGED <<parts, vec, dumpPartCode, cancel, cfg, raced>>

\* Mutant: the entry of the normal part stays.
SetFilePart_m ==
    /\ dump.pc = "config" /\ cfg' = cfg \cup {<<DumpDay, "comp">>}
    /\ DumpStep([dump EXCEPT !.pc = "swap"])
    /\ UNCHANGED <<parts, vec, dumpPartCode, cancel, files, raced>>

SetFilePart ==
    /\ dump.pc = "config"
    /\ \E c \in DelPartItem(cfg, DumpDay) : cfg' = c \cup {<<DumpDay, "comp">>}
    /\ DumpStep([dump EXCEPT !.pc = "swap"])
    /\ UNCHANGED <<parts, vec, dumpPartCode, cancel, files, raced>>

\* The compressed file cannot be opened: its entry stays.
DumpOpenFails ==
    /\ dump.pc = "swap" /\ DumpOnly([dump EXCEPT !.pc = "give up"])

\* DelOrReplacePart puts the compressed part in, whatever was there before.
DumpSwap ==
    /\ dump.pc = "swap" /\ files["comp"][DumpDay] # NoFile /\ PartMutexFree /\ Len(parts) < MaxParts
    /\ parts' = Append(parts, CompPartOf(DumpDay, files["comp"][DumpDay]))
    /\ vec' = [vec EXCEPT ![DumpDay] = Len(parts) + 1]
    /\ DumpStep([dump EXCEPT !.pc = "wait", !.ref = 0])
    /\ UNCHANGED <<dumpPartCode, cancel, cfg, files, raced>>

DumpDelete ==
    /\ dump.pc = "wait" /\ GetRefCntZero(dump.part)
    /\ parts' = [parts EXCEPT ![dump.part].freed = @ + 1]
    /\ files' = [files EXCEPT !["normal"][DumpDay] = NoFile] /\ dumpPartCode' = 0
    /\ DumpStep([dump EXCEPT !.pc = "next", !.part = 0])
    /\ UNCHANGED <<vec, cancel, cfg, raced>>

\* dumpPartCode_ is -1 again; an error ends the round.
DumpClear ==
    /\ dump.pc \in {"clear", "give up"} /\ dumpPartCode' = 0
    /\ DumpStep(IF dump.pc = "clear" THEN [dump EXCEPT !.pc = "next", !.part = 0] ELSE IdleDump)
    /\ UNCHANGED <<parts, vec, cancel, cfg, files, raced>>

-----------------------------------------------------------------------------
(* The administrator: AttachPart, DetachPart, DropPart, one at a time (tabMutex_). *)

AdmStep(to) == adm' = to /\ UNCHANGED <<server, now, ins, syncer, dump, dumpPartCode, log, late, crashes>>
AdmBegins == Up /\ adm.pc = "idle" /\ adm.done + crashes < MaxEvents

AttachPart(d, k) ==
    /\ AdmBegins /\ PartMutexFree /\ vec[d] = 0 /\ files[k][d] # NoFile /\ Len(parts) < MaxParts
    /\ parts' = Append(parts, IF k = "normal" THEN NormalPartOf(d, files[k][d]) ELSE CompPartOf(d, files[k][d]))
    /\ vec' = [vec EXCEPT ![d] = Len(parts) + 1]
    /\ gone' = gone \ ({d} \X Kinds)
    /\ acked' = IF <<d, k>> \in gone THEN acked ELSE acked \ (Of(d, Recs) \ files[k][d])
    /\ AdmStep([adm EXCEPT !.pc = "add", !.op = "attach", !.kind = k, !.day = d])
    /\ UNCHANGED <<cancel, cfg, files, raced>>

\* AddFilePart does not look for an entry of the day.
AddFilePart ==
    /\ adm.pc = "add" /\ cfg' = cfg \cup {<<adm.day, adm.kind>>}
    /\ raced' = raced \cup (IF \E k \in Kinds : <<adm.day, k>> \in cfg THEN {<<"attach", adm.day>>} ELSE {})
    /\ AdmStep(IdleAdm(adm.done + 1)) /\ UNCHANGED <<parts, vec, cancel, files, gone, acked>>

RemovePart(op, d) ==
    /\ AdmBegins /\ PartMutexFree /\ Old(d) /\ vec[d] # 0
    /\ vec' = [vec EXCEPT ![d] = 0]
    /\ raced' = raced \cup (IF dump.part = vec[d] THEN {<<"dump", d>>} ELSE {})
    /\ AdmStep([adm EXCEPT !.pc = "cancel", !.op = op, !.day = d, !.part = vec[d]])
    /\ UNCHANGED <<parts, cancel, cfg, files, gone, acked>>

\* The dump of this very part is cancelled; then any dump is waited for.
CancelDumpTask ==
    /\ adm.pc = "cancel"
    /\ IF dumpPartCode = adm.day
       THEN cancel' = TRUE /\ AdmStep([adm EXCEPT !.pc = "await"])
       ELSE AdmStep([adm EXCEPT !.pc = "del"]) /\ UNCHANGED cancel
    /\ UNCHANGED <<parts, vec, cfg, files, gone, raced, acked>>
AwaitDump ==
    /\ adm.pc = "await" /\ dumpPartCode = 0 /\ AdmStep([adm EXCEPT !.pc = "del"])
    /\ UNCHANGED <<parts, vec, cancel, cfg, files, gone, raced, acked>>

\* Mutant: the entry stays in the config.
DelFilePart_m ==
    /\ adm.pc = "del" /\ gone' = gone \cup {<<adm.day, parts[adm.part].kind>>}
    /\ AdmStep([adm EXCEPT !.pc = "refs"]) /\ UNCHANGED <<parts, vec, cfg, cancel, files, raced, acked>>

DelFilePart ==
    /\ adm.pc = "del" /\ cfg' \in DelPartItem(cfg, adm.day)
    /\ gone' = gone \cup {<<adm.day, parts[adm.part].kind>>}
    /\ AdmStep([adm EXCEPT !.pc = "refs"]) /\ UNCHANGED <<parts, vec, cancel, files, raced, acked>>

\* Without references the part is written, a normal one that is detached, under syncMutex_ and if
\* its file is still there, or its file is removed; and it is deleted.
EndRemoval(op) ==
    /\ adm.pc = "refs" /\ adm.op = op /\ GetRefCntZero(adm.part)
    /\ parts' = [parts EXCEPT ![adm.part].freed = @ + 1]
    /\ AdmStep(IdleAdm(adm.done + 1)) /\ UNCHANGED <<vec, cancel, cfg, gone, raced>>
DetachEnd ==
    /\ EndRemoval("detach") /\ syncer.pc = "idle" /\ UNCHANGED acked
    /\ LET p == parts[adm.part] IN
       files' = IF p.kind = "normal" /\ files["normal"][p.day] # NoFile
                THEN [files EXCEPT !["normal"][p.day] = p.recs] ELSE files
DropEnd ==
    /\ EndRemoval("drop") /\ files' = [files EXCEPT ![parts[adm.part].kind][adm.day] = NoFile]
    /\ acked' = acked \ Of(adm.day, Recs)

-----------------------------------------------------------------------------
(* Crash, clean stop, start (DBImpl::Start, Stop).                         *)

\* Mutant: the dump task goes on with what it had.
NoMemory_m ==
    /\ parts' = <<>> /\ vec' = [d \in Days |-> 0]
    /\ ins' = IdleIns /\ syncer' = IdleSync /\ adm' = IdleAdm(adm.done)
    /\ UNCHANGED <<dump, dumpPartCode>> /\ cancel' = FALSE

NoMemory ==
    /\ parts' = <<>> /\ vec' = [d \in Days |-> 0]
    /\ ins' = IdleIns /\ syncer' = IdleSync /\ dump' = IdleDump /\ adm' = IdleAdm(adm.done)
    /\ dumpPartCode' = 0 /\ cancel' = FALSE

\* _SaveConfig overwrites table.json in place.
Saving == ins.pc = "create" \/ dump.pc = "config" \/ adm.pc \in {"add", "del"}

Dies ==
    /\ server' \in {"down"} \cup (IF Saving THEN {"torn"} ELSE {})
    /\ NoMemory /\ UNCHANGED <<now, disk, acked, late, gone>>
    /\ raced' = raced \cup Unwritten

Crash == Up /\ adm.done + crashes < MaxEvents /\ crashes' = crashes + 1 /\ Dies

\* A part without a record: Finish reads an arena that Flush has never allocated.
DumpDies == dump.pc = "scan" /\ parts[dump.part].recs = {} /\ Dies /\ UNCHANGED crashes

\* CloseAllTable after the tasks have ended: a full sync that leaves out read-only parts.
Stop ==
    /\ Up /\ ins = IdleIns /\ syncer = IdleSync /\ dump = IdleDump /\ adm.pc = "idle"
    /\ files' = [files EXCEPT !["normal"] =
          [d \in Days |-> IF vec[d] # 0 /\ parts[vec[d]].kind = "normal" /\ ~parts[vec[d]].ro
                          THEN parts[vec[d]].recs ELSE @[d]]]
    /\ log' = {} /\ server' = "down" /\ NoMemory
    /\ UNCHANGED <<now, cfg, past, crashes>>

\* OpenDataPart of every entry: its file is there, and its day has no other entry.
CanStart == \A e \in cfg : files[e[2]][e[1]] # NoFile /\ \A f \in cfg : e[1] = f[1] => e = f

\* Redo puts the records of the log in the normal parts.
Start ==
    /\ server \in {"down", "torn"}
    /\ IF server = "torn" \/ ~CanStart
       THEN server' = "refused" /\ UNCHANGED <<parts, vec>>
       ELSE LET open == {e[1] : e \in cfg}
                Opened(d) == IF <<d, "normal">> \in cfg THEN NormalPartOf(d, files["normal"][d] \cup Of(d, log))
                             ELSE CompPartOf(d, files["comp"][d])
            IN  \E order \in Bijection(1 .. Cardinality(open), open) :
                   /\ server' = "up"
                   /\ parts' = [i \in 1 .. Cardinality(open) |-> Opened(order[i])]
                   /\ vec' = [d \in Days |-> IF d \in open THEN CHOOSE i \in DOMAIN order : order[i] = d ELSE 0]
    /\ UNCHANGED <<now, ins, syncer, dump, adm, dumpPartCode, cancel, disk, past, crashes>>

-----------------------------------------------------------------------------
InsertStep == NextRec \/ NextRecFails \/ CreatePart \/ LogRec \/ PutRec \/ InsertEnd
SyncerStep == SyncBegin \/ SyncNext \/ SyncEnd \/ SyncSwitch
DumperStep == DumpBegin \/ DumpNext \/ DumpMark \/ DumpScan \/ DumpDies \/ SetFilePart
              \/ DumpOpenFails \/ DumpSwap \/ DumpDelete \/ DumpClear
AdmCommand == \E d \in Days : \/ \E k \in Kinds : AttachPart(d, k)
                              \/ \E op \in {"detach", "drop"} : RemovePart(op, d)
AdminStep == AddFilePart \/ CancelDumpTask \/ AwaitDump \/ DelFilePart \/ DetachEnd \/ DropEnd

Init ==
    /\ server = "up" /\ now = FirstNow /\ parts = <<>> /\ vec = [d \in Days |-> 0]
    /\ cfg = {} /\ files = [k \in Kinds |-> [d \in Days |-> NoFile]] /\ log = {}
    /\ ins = IdleIns /\ syncer = IdleSync /\ dump = IdleDump /\ adm = IdleAdm(0)
    /\ dumpPartCode = 0 /\ cancel = FALSE
    /\ acked = {} /\ late = {} /\ gone = {} /\ raced = {} /\ crashes = 0

Next == Tick \/ InsertBegin \/ InsertStep \/ SyncerStep
        \/ DumperStep \/ AdmCommand \/ AdminStep \/ Crash \/ Stop \/ Start

Spec == Init /\ [][Next]_vars

-----------------------------------------------------------------------------
(* Properties                                                              *)

Part == [day : Days, kind : Kinds, ro : BOOLEAN, recs : SUBSET Recs, freed : 0 .. 2]
Raced(d) == \E c \in {"bare", "window", "attach", "dump"} : <<c, d>> \in raced

\* Every variable has values of its type.
TypeOK ==
    /\ server \in {"up", "down", "torn", "refused"} /\ now \in FirstNow .. MaxNow /\ crashes \in 0 .. MaxEvents
    /\ parts \in Seq(Part) /\ Len(parts) <= MaxParts /\ vec \in [Days -> 0 .. Len(parts)]
    /\ cfg \subseteq Days \X Kinds
    /\ \A k \in Kinds, d \in Days : files[k][d] = NoFile \/ files[k][d] \in SUBSET Recs
    /\ log \subseteq Recs /\ acked \cup late \subseteq Recs
    /\ ins.pc \in {"idle", "next", "create", "log", "put"} /\ {ins.part, ins.ref, syncer.ref, dump.ref, dump.part, adm.part} \subseteq 0 .. Len(parts)
    /\ syncer.pc \in {"idle", "next", "switch"} /\ syncer.mark \subseteq Recs
    /\ dump.pc \in {"idle", "next", "mark", "scan", "config", "swap", "wait", "clear", "give up"}
    /\ adm.pc \in {"idle", "add", "cancel", "await", "del", "refs"} /\ adm.done \in 0 .. MaxEvents
    /\ dumpPartCode \in Days \cup {0} /\ cancel \in BOOLEAN
    /\ gone \subseteq Days \X Kinds /\ raced \subseteq {"bare", "window", "attach", "dump", "unwritten"} \X Days

\* A part object is deleted once, when it is out of partVec_ and no thread refers to it or will
\* come back to it, except where the dump of the part was under way when it was detached or
\* dropped, or a request went on after it had given up its reference.
InUse(p) == \/ ~GetRefCntZero(p) \/ \E d \in Days : vec[d] = p
            \/ ins.pc \in {"log", "put"} /\ ins.part = p
            \/ dump.pc \notin {"idle", "clear"} /\ dump.part = p
            \/ adm.pc \notin {"idle", "add"} /\ adm.part = p
NoUseAfterFree ==
    \A p \in 1 .. Len(parts) : Raced(parts[p].day) \/ parts[p].freed = 0 \/ (parts[p].freed = 1 /\ ~InUse(p))

\* A part that was detached or dropped is neither in the table nor in its config, unless its dump
\* was under way or an insert request begun before the day was over made it again.
StaysGone ==
    \A d \in Days : Gone(d) => Raced(d) \/ (vec[d] = 0 /\ \A k \in Kinds : <<d, k>> \notin cfg)

\* At every moment that no entry is being written the files on disk can be started from, unless a
\* part was compressed between its attachment and the entry that AttachPart makes for it.
Startable == \A e \in cfg : \/ Raced(e[1])
                            \/ files[e[2]][e[1]] # NoFile /\ \A f \in cfg : e[1] = f[1] => e = f

\* An accepted record is in the part of its day, and in what a start
\* would find, until the part is detached or dropped or another file
\* is attached; one put in a part between
\* its last sync and its being made read-only, or after, or logged and not put when a full sync
\* began, may be lost.
Administered(d) == adm.pc # "idle" /\ adm.day = d
OnDisk(r) == \E k \in Kinds : /\ <<r[1], k>> \in cfg /\ files[k][r[1]] # NoFile
                              /\ r \in files[k][r[1]] \/ (k = "normal" /\ r \in log)
InTable(r) == vec[r[1]] # 0 /\ r \in parts[vec[r[1]]].recs
RecordsStay ==
    \A r \in acked \ late :
       Gone(r[1]) \/ Administered(r[1]) \/ Raced(r[1]) \/ <<"unwritten", r[1]>> \in raced \/ (OnDisk(r) /\ (Up => InTable(r)))

=============================================================================
