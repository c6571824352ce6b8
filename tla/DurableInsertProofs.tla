------------------------ MODULE DurableInsertProofs ------------------------
(***************************************************************************)
(* Proofs about module DurableInsert: what the log does there is what      *)
(* module CommitLog describes, so its theorems carry over; the sync points *)
(* cover what they promise; and no crash loses a durable insert.           *)
(***************************************************************************)
EXTENDS DurableInsert, CommitLogProofs

LEMMA InitIsLogInit == Init => LogInit
BY DEF Init

\* Every step is a step of the log, or leaves the log alone.
LEMMA StepIsLogStep == [Next]_vars => [LogNext]_logVars
<1> SUFFICES ASSUME [Next]_vars PROVE [LogNext]_logVars
  OBVIOUS
<1>1. ASSUME NEW r \in Recs, Insert(r) PROVE LogNext
  BY <1>1 DEF Insert, Running, AppendRec, LogNext
<1>2. ASSUME NEW r \in Recs, ApplyInsert(r) \/ RefuseInsert(r) PROVE UNCHANGED logVars
  BY <1>2 DEF ApplyInsert, RefuseInsert
<1>3. CASE LogWriter
  BY <1>3 DEF LogWriter, LogNext
<1>4. ASSUME NEW t \in Tables, CreateTable(t) PROVE UNCHANGED logVars
  BY <1>4 DEF CreateTable
<1>5. CASE SyncCmtLog
  BY <1>5 DEF SyncCmtLog, LogNext
<1>6. ASSUME SyncStep PROVE LogNext \/ UNCHANGED logVars
  <2>1. ASSUME NEW all \in BOOLEAN, BeginSync(all) PROVE UNCHANGED logVars
    BY <2>1 DEF BeginSync
  <2>2. CASE TakeSyncPoint
    BY <2>2 DEF TakeSyncPoint, LogNext, SyncPointStep
  <2>3. ASSUME NEW t \in Tables, SyncTable(t) PROVE UNCHANGED logVars
    BY <2>3 DEF SyncTable
  <2>4. ASSUME NEW r \in Recs, WritePage(r) PROVE UNCHANGED logVars
    BY <2>4 DEF WritePage
  <2>5. CASE WriteFails
    BY <2>5 DEF WriteFails
  <2>6. CASE EndSync
    BY <2>6 DEF EndSync, LogNext, SyncPointStep
  <2>7. CASE FinishSyncPoint
    BY <2>7 DEF FinishSyncPoint, LogNext, SyncPointStep
  <2> QED
    BY <1>6, <2>1, <2>2, <2>3, <2>4, <2>5, <2>6, <2>7 DEF SyncStep
<1>7. CASE PowerFailure
  BY <1>7 DEF PowerFailure, LogNext, SyncPointStep
<1>8. CASE Stop
  BY <1>8 DEF Stop, LogNext
<1>9. CASE Start
  BY <1>9 DEF Start, LogNext
<1>10. CASE UNCHANGED vars
  BY <1>10 DEF vars
<1> QED
  BY <1>1, <1>2, <1>3, <1>4, <1>5, <1>6, <1>7, <1>8, <1>9, <1>10 DEF Next

\* The server uses the commit log as module CommitLog describes it: its log
\* behaves like one whose clients, log thread and sync thread run on their own.
THEOREM UsesTheLog == Spec => LogSpec
<1>1. Init => LogInit
  BY InitIsLogInit
<1>2. [Next]_vars => [LogNext]_logVars
  BY StepIsLogStep
<1> QED
  BY <1>1, <1>2, PTL DEF Spec, LogSpec

-----------------------------------------------------------------------------
(* The invariant.                                                           *)

\* Its Insert has not put it in a page.
Fresh(r) == pc[r] \in {"new", "logging", "logged"}

InLog(r) == \E a \in DOMAIN Bodies : Bodies[a] = r

\* A redo from p gives it back.
Behind(r, p) == \E a \in DOMAIN Bodies : Bodies[a] = r /\ Pos(a) > p

\* Acknowledged, and either durable or still in the log: what the server has to
\* look after.  The records that are promised already are among them.
Obliged(r) == r \in owed \/ (pc[r] = "acked" /\ InLog(r))

\* s is r, or took its place; and r did not take the place of s.
Holds(s, r) ==
    /\ KeyOf(s) = KeyOf(r)
    /\ s = r \/ <<r, s>> \in replaced
    /\ <<s, r>> \notin replaced

HeldBy(S, r) == \E s \in S : Holds(s, r)

KeyUnique(S) == \A r, s \in S : KeyOf(r) = KeyOf(s) => r = s

\* The sync task.
CtlInv ==
    /\ ~syncing => batch = {}
    /\ syncing => syncPhase \in {"idle", "made"}
    /\ syncPhase = "made" => syncing /\ syncAll
    /\ syncing /\ syncAll /\ syncPhase = "idle" => batch = {}
    /\ ~Up => /\ mem = {} /\ stuck = {} /\ batch = {} /\ ~syncing
              /\ \A r \in Recs : pc[r] \notin {"logging", "logged"}

\* A record has one place in the log, from the end of its AppendRec on.
LogPcInv ==
    /\ \A a, b \in DOMAIN Bodies : Bodies[a] = Bodies[b] => a = b
    /\ \A a \in DOMAIN Bodies : pc[Bodies[a]] \notin {"new", "logging"}
    /\ \A i \in 1 .. Len(logOp.todo) :
          logOp.todo[i].t = "body" => i = Len(logOp.todo) /\ pc[logOp.todo[i].r] = "logging"

OwedInv ==
    /\ \A r \in owed : pc[r] = "acked"
    /\ \A a \in DOMAIN Bodies : Bodies[a] \in owed => a \in SyncedPlaces
    /\ \A a \in SyncedPlaces : pc[Bodies[a]] = "acked" => Bodies[a] \in owed

\* The pages hold one record of a key; a page that is being written is on disk
\* only with what is being written to it.
PageInv ==
    /\ KeyUnique(mem) /\ KeyUnique(disk) /\ KeyUnique(batch)
    /\ stuck \subseteq exposed
    /\ \A x \in batch, r \in mem \cap disk : KeyOf(x) = KeyOf(r) => x = r

FreshInv ==
    \A r \in Recs : Fresh(r) =>
        /\ r \notin mem \cup disk \cup batch \cup stuck \cup owed
        /\ \A s \in Recs : <<r, s>> \notin replaced /\ <<s, r>> \notin replaced

ReplInv == \A r, s \in Recs : <<s, r>> \in replaced => s # r /\ KeyOf(s) = KeyOf(r)

\* Once logged and not in a page, a record is behind every sync point that is
\* not excused for it.
LoggedInv ==
    ~racyRead => \A r \in Recs : pc[r] = "logged" =>
        \/ r \in exposed
        \/ /\ Behind(r, curSyncPos)
           /\ syncPhase = "made" => Behind(r, nextSyncPos)

\* What a sync point passes is on disk, and what the next one will pass is on
\* disk, being written, or in a table that is still to be visited.
MemInv ==
    ~racyRead => \A a \in DOMAIN Bodies : Bodies[a] \in mem =>
        /\ Pos(a) <= curSyncPos => Bodies[a] \in disk \cup exposed
        /\ syncPhase = "made" /\ Pos(a) <= nextSyncPos =>
              Bodies[a] \in disk \cup exposed \cup batch \/ TabOf(Bodies[a]) \in tabList

\* A crash now would lose nothing.
DiskInv ==
    ~racyRead => \A r \in Recs : Obliged(r) =>
        Excused(r) \/ Behind(r, RedoFrom) \/ HeldBy(disk, r)

\* Nor will one after the sync point that is under way.
MadeInv ==
    (~racyRead /\ syncPhase = "made") => \A r \in Recs : Obliged(r) =>
        \/ Excused(r) \/ Behind(r, nextSyncPos)
        \/ HeldBy(disk, r) \/ HeldBy(batch, r) \/ TabOf(r) \in tabList

\* The writing of a page takes nothing from the disk that is still needed: a
\* record x that was copied before r took its place makes room for r only if a
\* redo gives r back.
BatchInv ==
    ~racyRead => \A r \in Recs : \A x \in batch : (Obliged(r) /\ KeyOf(x) = KeyOf(r)) =>
        \/ Excused(r)
        \/ Behind(r, curSyncPos) /\ (syncPhase = "made" => Behind(r, nextSyncPos))
        \/ Holds(x, r)

\* Nothing is lost while the server runs.
HeldInv ==
    (Up /\ ~racyRead) => \A r \in Recs : Obliged(r) => Excused(r) \/ HeldBy(mem, r)

\* The log has the records in the order in which their Inserts came to it: what
\* is behind one that is in no page yet was not in a page when that one came.
LaterInv ==
    \A a, b \in DOMAIN Bodies : (pc[Bodies[a]] = "logged" /\ Pos(a) < Pos(b)) =>
        /\ pc[Bodies[b]] \in {"logged", "acked", "refused"}
        /\ pc[Bodies[b]] = "refused" =>
              Bodies[b] \notin mem /\ \A x \in Recs : <<Bodies[b], x>> \notin replaced

\* A record that took the place of another is behind it in the log as well, or
\* it is exposed: a redo does not bring the other one back.
OrderInv ==
    ~racyRead => \A a \in DOMAIN Bodies : \A r \in Recs :
        (<<Bodies[a], r>> \in replaced /\ Obliged(r) /\ r \notin exposed) => Behind(r, Pos(a))

CoverInv ==
    /\ LoggedInv /\ MemInv /\ DiskInv /\ MadeInv
    /\ BatchInv /\ HeldInv /\ LaterInv /\ OrderInv

BaseInv == LogInv /\ TypeOK /\ CtlInv /\ LogPcInv /\ OwedInv /\ PageInv /\ FreshInv /\ ReplInv

IInv == BaseInv /\ CoverInv

-----------------------------------------------------------------------------
(* Types.                                                                   *)

LEMMA RecPlacesTyped ==
    ASSUME LogInv
    PROVE  /\ DOMAIN Bodies = RecPlaces
           /\ \A a \in RecPlaces : Bodies[a] = RecAt(a) /\ Bodies[a] \in Recs /\ Pos(a) \in Nat
BY PlacesAreBodies, EndPosCovers DEF LogInv

\* The pairs that r gets when it takes its place in S.
LEMMA ReplacesPairs ==
    ASSUME NEW r, NEW S, NEW q, NEW s, <<q, s>> \in Replaces(r, S)
    PROVE  /\ s = r
           /\ \E t \in Ousted(S, r) : q = t \/ (q \in Recs \ {r} /\ <<q, t>> \in replaced)
BY DEF Replaces

LEMMA ReplacesTyped ==
    ASSUME NEW r \in Recs, NEW S \in SUBSET Recs
    PROVE  Replaces(r, S) \subseteq Recs \X Recs
BY DEF Replaces, Ousted

LEMMA RedoneTyped ==
    ASSUME LogInv, NEW places \in SUBSET RecPlaces
    PROVE  Redone(places) \subseteq Recs /\ {RecAt(a) : a \in places} \subseteq Recs
<1>1. \A a \in places : RecAt(a) \in Recs
  BY RecPlacesTyped
<1> QED
  BY <1>1 DEF Redone

LEMMA InitTypeOK == Init => TypeOK
<1> SUFFICES ASSUME Init PROVE TypeOK
  OBVIOUS
<1>1. LogTypeOK
  BY InitIsLogInit, InitShape DEF ShapeInv
<1> QED
  BY <1>1, TablesAssumption DEF Init, TypeOK

LEMMA LoseMemoryFacts ==
    ASSUME LoseMemory
    PROVE  /\ crashes' = crashes + 1
           /\ mem' = {} /\ stuck' = {} /\ batch' = {}
           /\ syncAll' = FALSE /\ syncing' = FALSE /\ tabList' = {}
           /\ target' = target /\ tabs' = tabs /\ idleSyncs' = idleSyncs /\ fails' = fails
           /\ replaced' = replaced /\ exposed' = exposed
BY DEF LoseMemory

LEMMA NextTypeOK == ASSUME LogInv, LogTypeOK', TypeOK, [Next]_vars PROVE TypeOK'
<1> USE DEF TypeOK
<1>1. ASSUME NEW r \in Recs, Insert(r) PROVE TypeOK'
  BY <1>1 DEF Insert, syncVars, bounds
<1>2. ASSUME NEW r \in Recs, ApplyInsert(r) PROVE TypeOK'
  <2>1. /\ mem' \subseteq Recs /\ batch' \subseteq Recs /\ stuck' \subseteq Recs
        /\ exposed' \subseteq Recs /\ owed' \subseteq Recs
    BY <1>2 DEF ApplyInsert, Put, Promise
  <2>2. replaced' \subseteq Recs \X Recs
    BY <1>2, ReplacesTyped DEF ApplyInsert
  <2>3. pc' \in [Recs -> {"new", "logging", "logged", "acked", "refused", "failed"}]
    BY <1>2 DEF ApplyInsert
  <2> QED
    BY <1>2, <2>1, <2>2, <2>3 DEF ApplyInsert, syncVars, bounds
<1>3. ASSUME NEW r \in Recs, RefuseInsert(r) PROVE TypeOK'
  BY <1>3 DEF RefuseInsert, syncVars
<1>4. CASE LogWriter
  <2>1. owed' \subseteq Recs
    BY <1>4 DEF LogWriter, Promise
  <2>2. pc' \in [Recs -> {"new", "logging", "logged", "acked", "refused", "failed"}]
    BY <1>4 DEF LogWriter
  <2> QED
    BY <1>4, <2>1, <2>2 DEF LogWriter, syncVars, bounds
<1>5. ASSUME NEW t \in Tables, CreateTable(t) PROVE TypeOK'
  BY <1>5 DEF CreateTable, syncVars, bounds
<1>6. CASE SyncCmtLog
  BY <1>6 DEF SyncCmtLog, syncVars, bounds
<1>7. ASSUME NEW all \in BOOLEAN, BeginSync(all) PROVE TypeOK'
  BY <1>7 DEF BeginSync
<1>8. CASE TakeSyncPoint
  BY <1>8 DEF TakeSyncPoint, PassedOver, syncVars, bounds
<1>9. ASSUME NEW t \in Tables, SyncTable(t) PROVE TypeOK'
  <2>1. DirtyOf(t) \subseteq Recs
    BY DEF DirtyOf, Dirty
  <2> QED
    BY <1>9, <2>1 DEF SyncTable, bounds
<1>10. ASSUME NEW r \in Recs, WritePage(r) PROVE TypeOK'
  BY <1>10 DEF WritePage, Put, syncVars, bounds
<1>11. CASE WriteFails
  BY <1>11 DEF WriteFails, syncVars
<1>12. CASE EndSync
  BY <1>12 DEF EndSync, bounds
<1>13. CASE FinishSyncPoint
  BY <1>13 DEF FinishSyncPoint, syncVars, bounds
<1>14. CASE PowerFailure
  <2>1. pc' \in [Recs -> {"new", "logging", "logged", "acked", "refused", "failed"}]
    BY <1>14 DEF PowerFailure, LoseMemory
  <2>2. owed' \subseteq Recs
    BY <1>14 DEF PowerFailure, Promise
  <2> QED
    BY <1>14, <2>1, <2>2, LoseMemoryFacts DEF PowerFailure
<1>15. CASE Stop
  <2>1. pc' \in [Recs -> {"new", "logging", "logged", "acked", "refused", "failed"}]
    BY <1>15 DEF Stop, LoseMemory
  <2>2. disk' \subseteq Recs /\ owed' \subseteq Recs
    BY <1>15 DEF Stop, Put, Dirty
  <2> QED
    BY <1>15, <2>1, <2>2, LoseMemoryFacts DEF Stop
<1>16. CASE Start
  <2>1. PICK places : places = RedoPlaces(curSyncPos')
    OBVIOUS
  <2>2. places \subseteq RecPlaces
    BY <1>16, <2>1, StartRedoes DEF Start
  <2>3. PICK redone, S : redone = Redone(places) /\ S = disk \cup {RecAt(a) : a \in places}
    OBVIOUS
  <2>4. redone \subseteq Recs /\ S \subseteq Recs
    BY <2>2, <2>3, RedoneTyped
  <2>5. mem' = Put(disk, redone) /\ replaced' = replaced \cup UNION {Replaces(r, S) : r \in redone}
    BY <1>16, <2>1, <2>3 DEF Start
  <2>6. mem' \subseteq Recs
    BY <2>4, <2>5 DEF Put
  <2>7. replaced' \subseteq Recs \X Recs
    BY <2>4, <2>5, ReplacesTyped
  <2> QED
    BY <1>16, <2>6, <2>7 DEF Start, syncVars, bounds
<1>17. CASE UNCHANGED vars
  BY <1>17 DEF vars, syncVars, bounds
<1> QED
  BY <1>1, <1>2, <1>3, <1>4, <1>5, <1>6, <1>7, <1>8, <1>9, <1>10, <1>11, <1>12, <1>13, <1>14,
     <1>15, <1>16, <1>17 DEF Next, SyncStep

-----------------------------------------------------------------------------
(* What the steps do to the records in the log.                             *)

SameLog == Bodies' = Bodies /\ SyncedPlaces' = SyncedPlaces

\* All of them leave the records alone, but the writer, the deletion of a file
\* and the end of the process.
LEMMA LogStays ==
    ASSUME LogInv, LogInv', Up
    PROVE  /\ \A units : BeginAppend(units) => SameLog
           /\ SyncLogFile \/ MakeSyncPoint \/ CommitSyncPoint \/ RemoveExpiredLogDone
                \/ UNCHANGED logVars => SameLog
<1>1. ASSUME NEW units, BeginAppend(units) PROVE SameLog
  BY <1>1, BeginAppendBodies DEF SameLog, LogInv
<1>2. ASSUME SyncLogFile \/ MakeSyncPoint \/ CommitSyncPoint \/ RemoveExpiredLogDone
                \/ UNCHANGED logVars
      PROVE  SameLog
  <2>1. file' = file
    BY <1>2 DEF SyncLogFile, MakeSyncPoint, CommitSyncPoint, RemoveExpiredLogDone, logVars
  <2>2. Units' = Units
    BY <2>1 DEF Units, Codes
  <2> QED
    BY <2>1, <2>2, SameUnits DEF SameLog
<1> QED
  BY <1>1, <1>2

LEMMA StartLogStays == ASSUME LogInv, RecoverLog PROVE SameLog
<1>1. file' = file
  BY DEF RecoverLog
<1>2. Units' = Units
  BY <1>1 DEF Units, Codes
<1> QED
  BY <1>1, <1>2, SameUnits DEF SameLog

\* The body of r goes to the log.
Logs(r, e) ==
    /\ r \in Recs /\ pc[r] = "logging" /\ pc' = [pc EXCEPT ![r] = "logged"]
    /\ Added(Bodies', Bodies, e, r) /\ SyncedPlaces' = SyncedPlaces
    /\ ~racyRead => Pos(e) > curSyncPos /\ (syncPhase = "made" => Pos(e) > nextSyncPos)
    /\ syncPhase' = syncPhase /\ logOp' = NoOp

LEMMA LogWriterCases ==
    ASSUME BaseInv, LogInv', LogWriter
    PROVE  /\ Up /\ Up' /\ UNCHANGED <<curSyncPos, nextSyncPos, racyRead>>
           /\ \/ /\ pc' = pc /\ Bodies' = Bodies /\ SyncedPlaces \subseteq SyncedPlaces'
                 /\ syncPhase' = syncPhase \/ (syncPhase = "append" /\ syncPhase' = "expire")
              \/ \E r, e : Logs(r, e)
<1> USE DEF BaseInv
<1>1. /\ Up /\ UNCHANGED <<curSyncPos, nextSyncPos, racyRead>>
      /\ pc \in [Recs -> {"new", "logging", "logged", "acked", "refused", "failed"}]
      /\ pc' = [r \in Recs |-> IF logOp.todo = <<RecBody(r)>> /\ logOp' = NoOp THEN "logged" ELSE pc[r]]
      /\ logOp \in OpType /\ logOp.todo \in Seq(Unit)
  <2>1. logOp # NoOp
    BY DEF LogWriter, WriterStep, PutUnit, FlushStart, MustFlush, FlushEnd, FsyncFile, NoOp
  <2>2. Up
    BY <2>1 DEF LogInv, ShapeInv, CodeInv, Up
  <2> QED
    BY <2>2 DEF LogWriter, WriterStep, PutUnit, FlushStart, FlushEnd, FsyncFile, TypeOK, LogTypeOK, OpType
<1>2. CASE FlushStart \/ FlushEnd \/ FsyncFile
  <2>1. syncPhase' = syncPhase
    BY <1>2 DEF FlushStart, FlushEnd, FsyncFile
  <2>2. Bodies' = Bodies /\ SyncedPlaces \subseteq SyncedPlaces'
    <3>1. CASE FsyncFile
      BY <3>1, FsyncFileBodies DEF LogInv
    <3>2. CASE FlushStart \/ FlushEnd
      <4>1. writeLog \in Codes /\ file[writeLog] \in FileState
        <5>1. writeLog \in Codes
          BY <3>2 DEF FlushStart, FlushEnd, MustFlush, LogInv, ShapeInv, OpInv, NoOp, LogTypeOK
        <5> QED
          BY <5>1 DEF LogInv, ShapeInv, LogTypeOK
      <4>2. /\ Codes' = Codes
            /\ \A k \in Codes : file'[k].units = file[k].units /\ file'[k].synced = file[k].synced
        <5>1. CASE FlushStart
          BY <4>1, <5>1 DEF FlushStart, Codes
        <5>2. CASE FlushEnd
          BY <4>1, <5>2 DEF FlushEnd, Codes
        <5> QED
          BY <3>2, <5>1, <5>2
      <4>3. Units' = Units
        BY <4>2 DEF Units
      <4> QED
        BY <4>2, <4>3, SameUnits
    <3> QED
      BY <1>2, <3>1, <3>2
  <2>3. pc' = pc
    <3> SUFFICES ASSUME NEW r \in Recs, logOp.todo = <<RecBody(r)>>, logOp' = NoOp PROVE FALSE
      BY <1>1
    <3>1. logOp.todo # <<>>
      OBVIOUS
    <3>2. CASE FlushStart \/ FlushEnd
      <4>1. logOp'.todo = logOp.todo
        BY <1>1, <3>2 DEF FlushStart, FlushEnd, OpType
      <4> QED
        BY <3>1, <4>1 DEF NoOp
    <3>3. CASE FsyncFile
      BY <3>1, <3>3 DEF FsyncFile, NoOp, LogInv, ShapeInv, OpInv, LogTypeOK
    <3> QED
      BY <1>2, <3>2, <3>3
  <2> QED
    BY <1>1, <2>1, <2>2, <2>3 DEF Up
<1>3. CASE PutUnit
  <2>1. PICK todo, u : todo = logOp.todo /\ u = todo[1]
    OBVIOUS
  <2>2. todo \in Seq(Unit) /\ todo # <<>> /\ u = Head(todo) /\ Len(todo) \in Nat \ {0} /\ u \in Unit
    BY <1>1, <1>3, <2>1, HeadTailProperties, LenProperties, EmptySeq DEF PutUnit
  <2>3. /\ u.t # "body" => Bodies' = Bodies
        /\ u.t = "body" =>
             \E e : /\ Added(Bodies', Bodies, e, u.r)
                    /\ ~racyRead => Pos(e) > curSyncPos /\ (syncPhase = "made" => Pos(e) > nextSyncPos)
        /\ SyncedPlaces' = SyncedPlaces
    BY <1>3, <2>1, PutUnitBodies DEF LogInv
  <2>4. \A r : todo = <<RecBody(r)>> => u.t = "body" /\ u.r = r
    BY <2>1 DEF RecBody
  <2>5. CASE u.t # "body"
    <3>1. pc' = pc
      BY <1>1, <2>1, <2>4, <2>5
    <3>2. syncPhase' = syncPhase \/ (syncPhase = "append" /\ syncPhase' = "expire")
      <4>1. u.t = "sync" => syncPhase = "append"
        BY <2>1, <2>2 DEF LogInv, SyncInv, OpPointInv
      <4> QED
        BY <1>3, <2>1, <2>2, <4>1 DEF PutUnit
    <3> QED
      BY <1>1, <2>3, <2>5, <3>1, <3>2 DEF Up
  <2>6. CASE u.t = "body"
    <3>1. PICK r : r = u.r
      OBVIOUS
    <3>2. r \in Recs
      BY <2>2, <2>6, <3>1 DEF Unit
    <3>3. Len(todo) = 1 /\ pc[r] = "logging"
      <4>1. 1 \in 1 .. Len(todo)
        BY <2>2
      <4>2. 1 = Len(todo) /\ pc[todo[1].r] = "logging"
        BY <2>1, <2>6, <4>1 DEF LogPcInv
      <4> QED
        BY <2>1, <3>1, <4>2
    <3>4. u = RecBody(r)
      BY <2>2, <2>6, <3>1 DEF Unit, RecBody
    <3>5. todo = <<RecBody(r)>> /\ Tail(todo) = <<>>
      <4>1. PICK one : one = <<RecBody(r)>>
        OBVIOUS
      <4>2. one \in Seq(Unit) /\ Len(one) = 1 /\ one[1] = u /\ Tail(one) = <<>>
        BY <2>2, <3>4, <4>1
      <4>3. todo = one
        BY <2>1, <2>2, <3>3, <4>2, SeqEqual
      <4> QED
        BY <4>1, <4>2, <4>3
    <3>6. logOp' = NoOp /\ syncPhase' = syncPhase
      BY <1>3, <2>1, <2>2, <2>6, <3>5 DEF PutUnit
    <3>7. pc' = [pc EXCEPT ![r] = "logged"]
      BY <1>1, <2>1, <2>4, <3>1, <3>5, <3>6
    <3>8. PICK e : Added(Bodies', Bodies, e, r)
                   /\ (~racyRead => Pos(e) > curSyncPos /\ (syncPhase = "made" => Pos(e) > nextSyncPos))
      BY <2>3, <2>6, <3>1
    <3>9. Logs(r, e)
      BY <2>3, <3>2, <3>3, <3>6, <3>7, <3>8 DEF Logs
    <3> QED
      BY <1>1, <3>6, <3>9 DEF Up
  <2> QED
    BY <2>5, <2>6
<1> QED
  BY <1>2, <1>3 DEF LogWriter, WriterStep

LEMMA FsyncedPlace ==
    ASSUME LogInv, NEW r
    PROVE  Fsynced(r) <=> \E a \in SyncedPlaces : Bodies[a] = r
<1>1. PICK U : U = Units
  OBVIOUS
<1>2. /\ WellFormed(U) /\ DOMAIN U = Codes /\ DOMAIN Bodies = BodyPlaces(U) /\ Bodies = BodiesOf(U)
      /\ \A k \in Codes : U[k] = file[k].units
  BY <1>1, UnitsWellFormed DEF LogInv, Bodies, BodiesOf, Units
<1>3. ASSUME Fsynced(r) PROVE \E a \in SyncedPlaces : Bodies[a] = r
  <2>0. PICK k \in Codes : \E i \in 1 .. file[k].synced : file[k].units[i] = RecBody(r)
    BY <1>3 DEF Fsynced
  <2>1. PICK i \in 1 .. file[k].synced : file[k].units[i] = RecBody(r)
    BY <2>0
  <2>2. PICK n, x : n = Len(U[k]) /\ x = file[k].synced
    OBVIOUS
  <2>3. x \in Nat /\ n \in Nat /\ x <= n /\ n < LogFileSize
    <3>1. file[k] \in FileState /\ FileShape(file[k])
      BY DEF LogInv, ShapeInv, LogTypeOK, FileInv, FileOK, FlushingOK
    <3>2. n \in Nat /\ n < LogFileSize
      BY <1>2, <2>2 DEF WellFormed
    <3> QED
      BY <1>2, <2>2, <3>1, <3>2 DEF FileState, FileShape
  <2>4. i \in 1 .. LogFileSize /\ i <= n /\ i <= x
    BY <2>2, <2>3, SizesAssumption
  <2>5. PICK a : a = <<k, i>>
    OBVIOUS
  <2>6. a[1] = k /\ a[2] = i /\ a \in (DOMAIN U) \X (1 .. LogFileSize)
    BY <1>2, <2>4, <2>5
  <2>7. U[k][i].t = "body" /\ U[k][i].r = r
    BY <1>2, <2>1 DEF RecBody
  <2>8. a \in BodyPlaces(U) /\ BodiesOf(U)[a] = r
    BY <2>2, <2>4, <2>6, <2>7 DEF BodyPlaces, BodiesOf
  <2> QED
    BY <1>2, <2>2, <2>4, <2>6, <2>8 DEF SyncedPlaces
<1>4. ASSUME NEW a \in SyncedPlaces, Bodies[a] = r PROVE Fsynced(r)
  <2>1. PICK k, i : k = a[1] /\ i = a[2]
    OBVIOUS
  <2>2. a \in BodyPlaces(U) /\ i <= file[k].synced
    BY <1>2, <1>4, <2>1 DEF SyncedPlaces
  <2>3. k \in Codes /\ i \in Nat \ {0} /\ i \in 1 .. Len(U[k])
    BY <1>2, <2>1, <2>2, BodyPlace
  <2>4. U[k][i].t = "body" /\ U[k][i].r = r /\ U[k][i] \in Unit
    BY <1>2, <1>4, <2>1, <2>2, <2>3, ElementOfSeq DEF BodyPlaces, BodiesOf, WellFormed
  <2>5. file[k].units[i] = RecBody(r)
    BY <1>2, <2>3, <2>4 DEF RecBody, Unit
  <2>6. i \in 1 .. file[k].synced
    BY <2>2, <2>3, SyncedTyped
  <2> QED
    BY <2>3, <2>5, <2>6 DEF Fsynced
<1> QED
  BY <1>3, <1>4

LEMMA FsyncedPlaces == LogInv => \A r : Fsynced(r) <=> \E a \in SyncedPlaces : Bodies[a] = r
BY FsyncedPlace

LEMMA PromiseOwed ==
    ASSUME LogInv', Promise
    PROVE  owed' = owed \cup {r \in Recs : pc'[r] = "acked" /\ \E a \in SyncedPlaces' : Bodies'[a] = r}
<1>1. \A r : Fsynced(r)' <=> \E a \in SyncedPlaces' : Bodies'[a] = r
  <2>1. (LogInv => \A r : Fsynced(r) <=> \E a \in SyncedPlaces : Bodies[a] = r)'
    BY FsyncedPlaces, PTL
  <2> QED
    BY <2>1
<1> QED
  BY <1>1 DEF Promise

-----------------------------------------------------------------------------
(* The invariants that say where a record and the sync task are.            *)

LEMMA NextCtl ==
    ASSUME BaseInv, LogInv', [Next]_vars
    PROVE  CtlInv'
<1> USE DEF BaseInv
<1>1. ASSUME NEW r \in Recs, Insert(r) PROVE CtlInv'
  BY <1>1 DEF Insert, CtlInv, syncVars, Running, Up
<1>2. ASSUME NEW r \in Recs, ApplyInsert(r) PROVE CtlInv'
  <2>1. batch = {} => batch' = {}
    BY <1>2 DEF ApplyInsert, Ousted
  <2> QED
    BY <1>2, <2>1 DEF ApplyInsert, CtlInv, syncVars, logVars, Running, Up
<1>3. ASSUME NEW r \in Recs, RefuseInsert(r) PROVE CtlInv'
  BY <1>3 DEF RefuseInsert, CtlInv, syncVars, logVars, Running, Up
<1>4. CASE LogWriter
  <2>1. Up /\ Up' /\ (syncPhase' = syncPhase \/ (syncPhase = "append" /\ syncPhase' = "expire"))
    BY <1>4, LogWriterCases DEF Logs
  <2> QED
    BY <1>4, <2>1 DEF LogWriter, CtlInv, syncVars, Up
<1>5. ASSUME NEW t \in Tables, CreateTable(t) PROVE CtlInv'
  BY <1>5 DEF CreateTable, CtlInv, syncVars, logVars, Running, Up
<1>6. CASE SyncCmtLog
  BY <1>6 DEF SyncCmtLog, SyncLogFile, CtlInv, syncVars, Up
<1>7. ASSUME NEW all \in BOOLEAN, BeginSync(all) PROVE CtlInv'
  BY <1>7 DEF BeginSync, CtlInv, logVars, Running, Up
<1>8. CASE TakeSyncPoint
  BY <1>8 DEF TakeSyncPoint, MakeSyncPoint, CtlInv, syncVars, Up
<1>9. ASSUME NEW t \in Tables, SyncTable(t) PROVE CtlInv'
  BY <1>9 DEF SyncTable, CtlInv, logVars, Up
<1>10. ASSUME NEW r \in Recs, WritePage(r) PROVE CtlInv'
  BY <1>10 DEF WritePage, CtlInv, syncVars, logVars, Up
<1>11. CASE WriteFails
  BY <1>11 DEF WriteFails, CtlInv, syncVars, logVars, Up
<1>12. CASE EndSync
  BY <1>12 DEF EndSync, CommitSyncPoint, CtlInv, logVars, Up
<1>13. CASE FinishSyncPoint
  BY <1>13 DEF FinishSyncPoint, AppendPoint, RemoveExpiredLog, RemoveExpiredLogDone, CtlInv, syncVars, Up
<1>14. CASE PowerFailure \/ Stop
  <2>1. syncPhase' = "down"
    BY <1>14 DEF PowerFailure, Stop, Crash, RemoveUnderWriter, Shutdown, Die
  <2>2. LoseMemory
    BY <1>14 DEF PowerFailure, Stop
  <2>3. \A r \in Recs : pc'[r] \notin {"logging", "logged"}
    BY <2>2 DEF LoseMemory
  <2> QED
    BY <2>1, <2>2, <2>3, LoseMemoryFacts DEF CtlInv, Up
<1>15. CASE Start
  BY <1>15 DEF Start, RecoverLog, CtlInv, syncVars, Up
<1>16. CASE UNCHANGED vars
  BY <1>16 DEF vars, syncVars, logVars, CtlInv, Up
<1> QED
  BY <1>1, <1>2, <1>3, <1>4, <1>5, <1>6, <1>7, <1>8, <1>9, <1>10, <1>11, <1>12, <1>13, <1>14,
     <1>15, <1>16 DEF Next, SyncStep

\* A step of the writer leaves what it has to append, or takes a unit off it.
LEMMA WriterTodo ==
    ASSUME LogInv, WriterStep
    PROVE  \/ logOp'.todo = logOp.todo
           \/ logOp'.todo = <<>>
           \/ logOp.todo # <<>> /\ logOp'.todo = Tail(logOp.todo)
<1>1. logOp \in OpType
  BY DEF LogInv, ShapeInv, LogTypeOK, OpType
<1>2. CASE PutUnit
  BY <1>1, <1>2 DEF PutUnit, NoOp, OpType
<1>3. CASE FlushStart \/ FlushEnd
  BY <1>1, <1>3 DEF FlushStart, FlushEnd, OpType
<1>4. CASE FsyncFile
  BY <1>1, <1>4 DEF FsyncFile, NoOp, OpType
<1> QED
  BY <1>2, <1>3, <1>4 DEF WriterStep

BodyLast == \A i \in 1 .. Len(logOp.todo) :
    logOp.todo[i].t = "body" => i = Len(logOp.todo) /\ pc[logOp.todo[i].r] = "logging"

LEMMA NextLogPc ==
    ASSUME BaseInv, LogInv', [Next]_vars
    PROVE  LogPcInv'
<1> USE DEF BaseInv
<1>0. pc \in [Recs -> {"new", "logging", "logged", "acked", "refused", "failed"}]
      /\ \A a \in DOMAIN Bodies : Bodies[a] \in Recs
  BY EndPosCovers DEF TypeOK
<1>1. ASSUME NEW r \in Recs, Insert(r) PROVE LogPcInv'
  <2>1. /\ Bodies' = Bodies /\ pc' = [pc EXCEPT ![r] = "logging"] /\ pc[r] = "new"
        /\ logOp'.todo = <<RecHead(r), RecBody(r)>>
    BY <1>1, LogStays DEF Insert, BeginAppend, SameLog, Running, Up
  <2>2. BodyLast'
    BY <1>0, <2>1 DEF BodyLast, RecHead, RecBody
  <2> QED
    BY <1>0, <2>1, <2>2 DEF LogPcInv, BodyLast
<1>2. ASSUME SameLog, logOp'.todo = logOp.todo \/ \A i \in 1 .. Len(logOp'.todo) : logOp'.todo[i].t # "body",
             \A r \in Recs : pc'[r] \in {"new", "logging"} <=> pc[r] \in {"new", "logging"},
             \A r \in Recs : pc[r] = "logging" => pc'[r] = "logging"
      PROVE  LogPcInv'
  <2>1. BodyLast'
    <3>1. CASE logOp'.todo = logOp.todo
      <4>1. \A i \in 1 .. Len(logOp.todo) : logOp.todo[i].t = "body" => logOp.todo[i].r \in Recs
        BY ElementOfSeq DEF TypeOK, LogTypeOK, Unit
      <4> QED
        BY <1>2, <3>1, <4>1 DEF BodyLast, LogPcInv
    <3> QED
      BY <1>2, <3>1 DEF BodyLast
  <2> QED
    BY <1>0, <1>2, <2>1 DEF LogPcInv, SameLog, BodyLast
<1>3. ASSUME NEW r \in Recs, ApplyInsert(r) PROVE LogPcInv'
  <2>1. SameLog
    BY <1>3, LogStays DEF ApplyInsert, Running, Up
  <2> QED
    BY <1>0, <1>2, <1>3, <2>1 DEF ApplyInsert, logVars
<1>4. ASSUME NEW r \in Recs, RefuseInsert(r) PROVE LogPcInv'
  <2>1. SameLog
    BY <1>4, LogStays DEF RefuseInsert, Running, Up
  <2> QED
    BY <1>0, <1>2, <1>4, <2>1 DEF RefuseInsert, logVars
<1>5. CASE LogWriter
  <2>1. PICK todo, new : todo = logOp.todo /\ new = logOp'.todo
    OBVIOUS
  <2>2. /\ todo \in Seq(Unit)
        /\ new = todo \/ new = <<>> \/ (todo # <<>> /\ new = Tail(todo))
        /\ \A i \in 1 .. Len(todo) : todo[i].t = "body" => i = Len(todo) /\ pc[todo[i].r] = "logging"
    BY <1>5, <2>1, WriterTodo DEF LogWriter, TypeOK, LogTypeOK, LogPcInv
  <2>3. CASE pc' = pc /\ Bodies' = Bodies
    <3>1. \A i \in 1 .. Len(new) : new[i].t = "body" => i = Len(new) /\ pc[new[i].r] = "logging"
      <4>1. CASE todo # <<>> /\ new = Tail(todo)
        <5>1. Len(todo) \in Nat \ {0} /\ Len(new) = Len(todo) - 1
              /\ \A i \in 1 .. Len(new) : new[i] = todo[i + 1]
          BY <2>2, <4>1, LenProperties, HeadTailProperties, EmptySeq
        <5>2. PICK n : n = Len(todo)
          OBVIOUS
        <5>3. n \in Nat \ {0} /\ Len(new) = n - 1
          BY <5>1, <5>2
        <5>4. ASSUME NEW i \in 1 .. Len(new), new[i].t = "body"
              PROVE  i = Len(new) /\ pc[new[i].r] = "logging"
          <6>1. i \in Nat /\ i <= n - 1 /\ i + 1 \in 1 .. n /\ new[i] = todo[i + 1]
            BY <5>1, <5>3, <5>4
          <6>2. i + 1 = n /\ pc[new[i].r] = "logging"
            BY <2>2, <5>2, <5>4, <6>1
          <6> QED
            BY <5>3, <6>1, <6>2
        <5> QED
          BY <5>4
      <4> QED
        BY <2>2, <4>1
    <3> QED
      BY <2>1, <2>3, <3>1 DEF LogPcInv
  <2>4. CASE \E r, e : Logs(r, e)
    <3>1. PICK r, e : Logs(r, e)
      BY <2>4
    <3>2. logOp'.todo = <<>>
      BY <3>1 DEF Logs, NoOp
    <3>3. \A a \in DOMAIN Bodies : Bodies[a] # r
      BY <3>1 DEF Logs, LogPcInv
    <3> QED
      BY <1>0, <3>1, <3>2, <3>3 DEF Logs, Added, LogPcInv
  <2> QED
    BY <1>5, <2>3, <2>4, LogWriterCases
<1>6. ASSUME pc' = pc, UNCHANGED logVars, Up PROVE LogPcInv'
  <2>1. SameLog
    BY <1>6, LogStays
  <2> QED
    BY <1>2, <1>6, <2>1 DEF logVars
<1>7. CASE SyncCmtLog
  <2>1. SyncLogFile /\ pc' = pc
    BY <1>7 DEF SyncCmtLog
  <2>2. Up
    BY <2>1 DEF SyncLogFile, LogInv, ShapeInv, CodeInv, Up
  <2>3. SameLog /\ logOp'.todo = <<>>
    BY <2>1, <2>2, LogStays DEF SyncLogFile
  <2> QED
    BY <1>2, <2>1, <2>3
<1>8. CASE SyncStep
  <2>1. ASSUME MakeSyncPoint \/ CommitSyncPoint \/ RemoveExpiredLogDone, pc' = pc PROVE LogPcInv'
    <3>1. SameLog /\ logOp'.todo = logOp.todo
      BY <2>1, LogStays DEF MakeSyncPoint, CommitSyncPoint, RemoveExpiredLogDone, Up
    <3> QED
      BY <1>2, <2>1, <3>1
  <2>2. ASSUME FinishSyncPoint PROVE LogPcInv'
    <3>1. CASE AppendPoint
      <4>1. pc' = pc /\ SameLog /\ logOp'.todo = <<SyncUnit(curSyncPos)>>
        BY <2>2, <3>1, LogStays DEF FinishSyncPoint, AppendPoint, BeginAppend, Up
      <4>2. \A i \in 1 .. Len(logOp'.todo) : logOp'.todo[i].t # "body"
        BY <4>1 DEF SyncUnit
      <4> QED
        BY <1>2, <4>1, <4>2
    <3>2. CASE RemoveExpiredLog
      <4>1. Subset(Bodies', Bodies) /\ pc' = pc /\ logOp' = logOp
        BY <2>2, <3>2, RemoveBodies DEF FinishSyncPoint, RemoveExpiredLog, LogInv
      <4> QED
        BY <4>1 DEF LogPcInv, Subset
    <3> QED
      BY <2>1, <2>2, <3>1, <3>2 DEF FinishSyncPoint
  <2>3. ASSUME EndSync PROVE LogPcInv'
    BY <1>6, <2>1, <2>3 DEF EndSync, CtlInv
  <2>4. CASE TakeSyncPoint
    BY <2>1, <2>4 DEF TakeSyncPoint
  <2>5. ASSUME NEW all \in BOOLEAN, BeginSync(all) PROVE LogPcInv'
    BY <1>6, <2>5 DEF BeginSync, Running, Up
  <2>6. ASSUME NEW t \in Tables, SyncTable(t) PROVE LogPcInv'
    BY <1>6, <2>6 DEF SyncTable, CtlInv
  <2>7. ASSUME NEW r \in Recs, WritePage(r) PROVE LogPcInv'
    BY <1>6, <2>7 DEF WritePage, CtlInv
  <2>8. CASE WriteFails
    BY <1>6, <2>8 DEF WriteFails, CtlInv
  <2> QED
    BY <1>8, <2>2, <2>3, <2>4, <2>5, <2>6, <2>7, <2>8 DEF SyncStep
<1>9. ASSUME NEW t \in Tables, CreateTable(t) PROVE LogPcInv'
  BY <1>6, <1>9 DEF CreateTable, Running, Up
<1>10. CASE PowerFailure \/ Stop
  <2>1. /\ Subset(Bodies', Bodies) /\ logOp' = NoOp
        /\ pc' = [r \in Recs |-> IF pc[r] \in {"logging", "logged"} THEN "failed" ELSE pc[r]]
    <3>1. Subset(Bodies', Bodies)
      BY <1>10, CrashBodies, NoBodies DEF PowerFailure, Stop, Subset, LogInv
    <3> QED
      BY <1>10, <3>1 DEF PowerFailure, Stop, Crash, RemoveUnderWriter, Shutdown, Die, LoseMemory
  <2>2. logOp'.todo = <<>>
    BY <2>1 DEF NoOp
  <2> QED
    BY <1>0, <2>1, <2>2 DEF LogPcInv, Subset
<1>11. CASE Start
  <2>1. SameLog /\ pc' = pc /\ logOp' = logOp
    BY <1>11, StartLogStays DEF Start, RecoverLog
  <2> QED
    BY <1>2, <2>1
<1>12. CASE UNCHANGED vars
  <2>1. SameLog
    <3>1. file' = file
      BY <1>12 DEF vars, logVars
    <3>2. Units' = Units
      BY <3>1 DEF Units, Codes
    <3> QED
      BY <3>1, <3>2, SameUnits DEF SameLog
  <2> QED
    BY <1>2, <1>12, <2>1 DEF vars, logVars
<1> QED
  BY <1>1, <1>3, <1>4, <1>5, <1>7, <1>8, <1>9, <1>10, <1>11, <1>12 DEF Next

LEMMA LogCases ==
    ASSUME BaseInv, LogInv', [Next]_vars
    PROVE  SameLog \/ LogWriter \/ (FinishSyncPoint /\ RemoveExpiredLog) \/ PowerFailure \/ Stop
<1> USE DEF BaseInv
<1>1. ASSUME NEW r \in Recs, Insert(r) PROVE SameLog
  BY <1>1, LogStays DEF Insert, Running, Up
<1>2. CASE UNCHANGED logVars
  <2>1. Units' = Units /\ file' = file
    BY <1>2 DEF logVars, Units, Codes
  <2> QED
    BY <2>1, SameUnits DEF SameLog
<1>3. CASE SyncCmtLog
  <2>1. SyncLogFile
    BY <1>3 DEF SyncCmtLog
  <2>2. Up
    BY <2>1 DEF SyncLogFile, LogInv, ShapeInv, CodeInv, Up
  <2> QED
    BY <2>1, <2>2, LogStays
<1>4. ASSUME MakeSyncPoint \/ CommitSyncPoint \/ RemoveExpiredLogDone PROVE SameLog
  BY <1>4, LogStays DEF MakeSyncPoint, CommitSyncPoint, RemoveExpiredLogDone, Up
<1>5. ASSUME AppendPoint PROVE SameLog
  BY <1>5, LogStays DEF AppendPoint, Up
<1>6. CASE Start
  BY <1>6, StartLogStays DEF Start
<1>7. CASE SyncStep
  BY <1>2, <1>4, <1>5, <1>7 DEF SyncStep, BeginSync, TakeSyncPoint, SyncTable, WritePage, WriteFails,
     EndSync, FinishSyncPoint
<1> QED
  BY <1>1, <1>2, <1>3, <1>6, <1>7 DEF Next, ApplyInsert, RefuseInsert, CreateTable, vars

LEMMA BodiesTyped == LogInv => \A a \in DOMAIN Bodies : Bodies[a] \in Recs /\ Pos(a) \in Nat
BY EndPosCovers

LEMMA NextOwed ==
    ASSUME BaseInv, LogInv', LogPcInv', [Next]_vars
    PROVE  OwedInv'
<1> USE DEF BaseInv
<1>0. pc \in [Recs -> {"new", "logging", "logged", "acked", "refused", "failed"}]
      /\ owed \subseteq Recs
  BY DEF TypeOK
<1>1. ASSUME Promise,
             \A r \in Recs : pc[r] = "acked" => pc'[r] = "acked",
             \A a \in DOMAIN Bodies' : Bodies'[a] \in owed => a \in SyncedPlaces'
      PROVE  OwedInv'
  <2>1. owed' = owed \cup {r \in Recs : pc'[r] = "acked" /\ \E a \in SyncedPlaces' : Bodies'[a] = r}
    BY <1>1, PromiseOwed
  <2>2. \A r \in owed' : pc'[r] = "acked"
    BY <1>0, <1>1, <2>1 DEF OwedInv
  <2>3. SyncedPlaces' \subseteq DOMAIN Bodies' /\ \A a \in DOMAIN Bodies' : Bodies'[a] \in Recs
    <3>1. (LogInv => \A a \in DOMAIN Bodies : Bodies[a] \in Recs /\ Pos(a) \in Nat)'
      BY BodiesTyped, PTL
    <3> QED
      BY <3>1 DEF SyncedPlaces
  <2>4. ASSUME NEW a \in DOMAIN Bodies', Bodies'[a] \in owed' PROVE a \in SyncedPlaces'
    BY <1>1, <2>1, <2>3, <2>4 DEF LogPcInv
  <2>5. ASSUME NEW a \in SyncedPlaces', pc'[Bodies'[a]] = "acked" PROVE Bodies'[a] \in owed'
    BY <2>1, <2>3, <2>5
  <2> QED
    BY <2>2, <2>4, <2>5 DEF OwedInv
<1>2. ASSUME SameLog \/ (FinishSyncPoint /\ RemoveExpiredLog), owed' = owed,
             \A r \in Recs : pc'[r] = "acked" <=> pc[r] = "acked"
      PROVE  OwedInv'
  <2>1. Subset(Bodies', Bodies) /\ SyncedPlaces' = SyncedPlaces \cap DOMAIN Bodies'
    BY <1>2, RemoveBodies DEF LogInv, SameLog, Subset, SyncedPlaces
  <2>2. \A a \in DOMAIN Bodies : Bodies[a] \in Recs
    BY EndPosCovers
  <2> QED
    BY <1>0, <1>2, <2>1, <2>2 DEF OwedInv, Subset
<1>3. ASSUME NEW r \in Recs, ApplyInsert(r) PROVE OwedInv'
  <2>1. SameLog
    BY <1>3, LogStays DEF ApplyInsert, Running, Up
  <2> QED
    BY <1>0, <1>1, <1>3, <2>1 DEF ApplyInsert, SameLog, OwedInv
<1>4. CASE LogWriter
  <2>1. Promise /\ \A r \in Recs : pc[r] = "acked" => pc'[r] = "acked"
    BY <1>0, <1>4, LogWriterCases DEF LogWriter, Logs
  <2>2. ASSUME NEW a \in DOMAIN Bodies', Bodies'[a] \in owed PROVE a \in SyncedPlaces'
    <3>1. CASE Bodies' = Bodies /\ SyncedPlaces \subseteq SyncedPlaces'
      BY <2>2, <3>1 DEF OwedInv
    <3>2. CASE \E r, e : Logs(r, e)
      <4>1. PICK r, e : Logs(r, e)
        BY <3>2
      <4>2. r \notin owed
        BY <4>1 DEF Logs, OwedInv
      <4> QED
        BY <2>2, <4>1, <4>2 DEF Logs, Added, OwedInv
    <3> QED
      BY <1>4, <3>1, <3>2, LogWriterCases
  <2> QED
    BY <1>1, <2>1, <2>2
<1>5. CASE PowerFailure
  <2>1. Promise /\ pc' = [r \in Recs |-> IF pc[r] \in {"logging", "logged"} THEN "failed" ELSE pc[r]]
    BY <1>5 DEF PowerFailure, LoseMemory
  <2>2. SyncedPlaces' = DOMAIN Bodies'
    BY <1>5, CrashBodies, NoBodies DEF PowerFailure, LogInv
  <2> QED
    BY <1>0, <1>1, <2>1, <2>2
<1>6. CASE Stop
  <2>1. /\ DOMAIN Bodies' = {} /\ SyncedPlaces' = {}
        /\ pc' = [r \in Recs |-> IF pc[r] \in {"logging", "logged"} THEN "failed" ELSE pc[r]]
        /\ owed' = owed \cup {r \in mem : pc[r] = "acked"}
    BY <1>6, NoBodies DEF Stop, LoseMemory
  <2>2. mem \subseteq Recs
    BY DEF TypeOK
  <2> QED
    BY <1>0, <2>1, <2>2 DEF OwedInv
<1>7. ASSUME owed' = owed, \A r \in Recs : pc'[r] = "acked" <=> pc[r] = "acked",
             ~LogWriter, ~PowerFailure, ~Stop
      PROVE  OwedInv'
  BY <1>2, <1>7, LogCases
<1>8. ASSUME NEW r \in Recs, Insert(r) \/ RefuseInsert(r)
      PROVE  owed' = owed /\ \A q \in Recs : pc'[q] = "acked" <=> pc[q] = "acked"
  BY <1>0, <1>8 DEF Insert, RefuseInsert
<1>9. ASSUME (\E t \in Tables : CreateTable(t)) \/ SyncCmtLog \/ SyncStep \/ Start \/ UNCHANGED vars
      PROVE  owed' = owed /\ pc' = pc
  BY <1>9 DEF CreateTable, SyncCmtLog, Start, vars, SyncStep, BeginSync, TakeSyncPoint, SyncTable,
     WritePage, WriteFails, EndSync, FinishSyncPoint
<1> QED
  BY <1>3, <1>4, <1>5, <1>6, <1>7, <1>8, <1>9 DEF Next

-----------------------------------------------------------------------------
(* The pages.                                                               *)

\* The state of the pages: who is in them and who replaced whom.
PagesInv == PageInv /\ FreshInv /\ ReplInv

LEMMA PutFacts ==
    ASSUME NEW S, NEW T
    PROVE  /\ T \subseteq Put(S, T) /\ Put(S, T) \subseteq S \cup T
           /\ \A s \in S : s \in Put(S, T) \/ \E t \in T : KeyOf(s) = KeyOf(t)
           /\ \A s \in Put(S, T) : s \in T \/ (s \in S /\ \A t \in T : KeyOf(s) # KeyOf(t))
           /\ KeyUnique(S) /\ KeyUnique(T) => KeyUnique(Put(S, T))
<1>1. \A s : s \in Put(S, T) <=> s \in T \/ (s \in S /\ \A t \in T : KeyOf(s) # KeyOf(t))
  BY DEF Put
<1>2. ASSUME KeyUnique(S), KeyUnique(T) PROVE KeyUnique(Put(S, T))
  BY <1>1, <1>2 DEF KeyUnique
<1> QED
  BY <1>1, <1>2

\* The redo leaves one record of a key, the one that comes last.
LEMMA RedoneLast ==
    ASSUME LogInv, NEW places \in SUBSET (DOMAIN Bodies), NEW r
    PROVE  r \in Redone(places) <=>
             \E c \in places : /\ Bodies[c] = r
                               /\ \A b \in places : KeyOf(Bodies[b]) = KeyOf(r) => Pos(b) <= Pos(c)
<1>1. \A a \in places : RecAt(a) = Bodies[a] /\ Pos(a) \in Nat
  BY RecPlacesTyped
<1>2. \A b, c \in places : RedoBefore(c, b) <=> Pos(c) < Pos(b)
  <2>1. WellFormed(Units) /\ DOMAIN Bodies = BodyPlaces(Units)
    BY UnitsWellFormed DEF LogInv, Bodies, BodiesOf
  <2> QED
    BY <2>1, PlaceOrder
<1>3. ASSUME NEW c \in places
      PROVE  (\A b \in places : RedoBefore(c, b) => KeyOf(RecAt(b)) # KeyOf(RecAt(c)))
                <=> \A b \in places : KeyOf(Bodies[b]) = KeyOf(Bodies[c]) => Pos(b) <= Pos(c)
  <2>1. \A b \in places : RedoBefore(c, b) <=> ~(Pos(b) <= Pos(c))
    BY <1>1, <1>2
  <2> QED
    BY <1>1, <2>1
<1> QED
  BY <1>1, <1>3 DEF Redone

LEMMA RedoneUnique ==
    ASSUME LogInv, NEW places \in SUBSET (DOMAIN Bodies)
    PROVE  KeyUnique(Redone(places))
<1> SUFFICES ASSUME NEW r \in Redone(places), NEW s \in Redone(places), KeyOf(r) = KeyOf(s) PROVE r = s
  BY DEF KeyUnique
<1>1. PICK c \in places :
          Bodies[c] = r /\ \A b \in places : KeyOf(Bodies[b]) = KeyOf(r) => Pos(b) <= Pos(c)
  BY RedoneLast
<1>2. PICK d \in places :
          Bodies[d] = s /\ \A b \in places : KeyOf(Bodies[b]) = KeyOf(s) => Pos(b) <= Pos(d)
  BY RedoneLast
<1>3. Pos(c) \in Nat /\ Pos(d) \in Nat /\ Pos(c) <= Pos(d) /\ Pos(d) <= Pos(c)
  BY <1>1, <1>2, BodiesTyped
<1>4. Pos(c) = Pos(d)
  BY <1>3
<1>5. c = d
  <2>1. WellFormed(Units) /\ DOMAIN Bodies = BodyPlaces(Units)
    BY UnitsWellFormed DEF LogInv, Bodies, BodiesOf
  <2> QED
    BY <1>4, <2>1, PlaceOrder
<1> QED
  BY <1>1, <1>2, <1>5

\* The last of the places that hold a key.
LEMMA LastPlace ==
    ASSUME LogInv, NEW places \in SUBSET (DOMAIN Bodies), NEW a \in places
    PROVE  \E x \in Redone(places) : KeyOf(x) = KeyOf(Bodies[a])
<1> DEFINE P == {b \in places : KeyOf(Bodies[b]) = KeyOf(Bodies[a])}
           S == {Pos(b) : b \in P}
           n == MaxFiles * LogFileSize
<1>1. n \in Nat
  BY SizesAssumption
<1>2. ASSUME NEW b \in P PROVE Pos(b) \in 1 .. n
  <2>1. /\ b[1] \in Codes /\ b[2] \in Nat \ {0, 1} /\ b[2] <= Len(file[b[1]].units) /\ Pos(b) \in Nat
    BY EndPosCovers
  <2>2. b[1] \in Nat \ {0} /\ b[1] <= MaxFiles /\ Len(file[b[1]].units) \in Nat
        /\ Len(file[b[1]].units) < LogFileSize
    <3>1. WellFormed(Units) /\ DOMAIN Units = Codes /\ Units[b[1]] = file[b[1]].units
      BY <2>1, UnitsWellFormed DEF LogInv, Units
    <3>2. b[1] \in 1 .. MaxFiles
      BY <2>1 DEF LogInv, ShapeInv, LogTypeOK
    <3> QED
      BY <2>1, <3>1, <3>2, SizesAssumption DEF WellFormed
  <2>3. PICK k, i, m, l : k = b[1] /\ i = b[2] /\ m = MaxFiles /\ l = LogFileSize
    OBVIOUS
  <2>4. k \in Nat /\ k >= 1 /\ k <= m /\ i \in Nat /\ i > 0 /\ i < l /\ m \in Nat /\ l \in Nat
    BY <2>1, <2>2, <2>3, SizesAssumption
  <2>5. (k - 1) * l \in Nat /\ (k - 1) * l <= (m - 1) * l /\ (m - 1) * l + l = m * l
    BY <2>4
  <2>6. Pos(b) = (k - 1) * l + i
    BY <2>3 DEF Pos, BeginPos
  <2>7. Pos(b) <= m * l /\ Pos(b) >= 1
    BY <2>4, <2>5, <2>6
  <2> QED
    BY <1>1, <2>1, <2>3, <2>7
<1>3. PICK mx \in S : \A x \in S : x <= mx
  <2>1. S \in SUBSET (1 .. n) /\ S # {}
    BY <1>2
  <2> HIDE DEF S, n
  <2> QED
    BY <1>1, <2>1, MaxExists
<1>4. PICK c \in P : mx = Pos(c)
  BY <1>3
<1>5. \A b \in places : KeyOf(Bodies[b]) = KeyOf(Bodies[c]) => Pos(b) <= Pos(c)
  BY <1>3, <1>4
<1>6. Bodies[c] \in Redone(places)
  BY <1>4, <1>5, RedoneLast
<1> QED
  BY <1>4, <1>6

\* What r takes the place of when it is put in S.
LEMMA NewPairs ==
    ASSUME TypeOK, ReplInv, NEW r \in Recs, NEW S \in SUBSET Recs, NEW q, NEW s, <<q, s>> \in Replaces(r, S)
    PROVE  /\ s = r /\ q \in Recs /\ q # r /\ KeyOf(q) = KeyOf(r)
           /\ q \in S \/ \E t \in S : KeyOf(t) = KeyOf(r) /\ t # r /\ <<q, t>> \in replaced
<1>1. s = r /\ \E t \in Ousted(S, r) : q = t \/ (q \in Recs \ {r} /\ <<q, t>> \in replaced)
  BY ReplacesPairs
<1>2. PICK t \in Ousted(S, r) : q = t \/ (q \in Recs \ {r} /\ <<q, t>> \in replaced)
  BY <1>1
<1>3. t \in S /\ t # r /\ KeyOf(t) = KeyOf(r) /\ t \in Recs
  BY <1>2 DEF Ousted
<1>4. <<q, t>> \in replaced => KeyOf(q) = KeyOf(t)
  BY <1>2, <1>3 DEF ReplInv
<1> QED
  BY <1>1, <1>2, <1>3, <1>4

LEMMA OldPairs ==
    ASSUME NEW r, NEW S, NEW t \in S, t # r, KeyOf(t) = KeyOf(r)
    PROVE  /\ <<t, r>> \in Replaces(r, S)
           /\ \A p \in Recs \ {r} : <<p, t>> \in replaced => <<p, r>> \in Replaces(r, S)
<1>1. t \in Ousted(S, r)
  BY DEF Ousted
<1> QED
  BY <1>1 DEF Replaces

LEMMA ApplyPages ==
    ASSUME BaseInv, LogInv', NEW r \in Recs, ApplyInsert(r)
    PROVE  PagesInv'
<1> USE DEF BaseInv
<1>1. /\ pc \in [Recs -> {"new", "logging", "logged", "acked", "refused", "failed"}]
      /\ pc' = [pc EXCEPT ![r] = "acked"] /\ pc[r] = "logged" /\ owed \subseteq Recs
      /\ mem \subseteq Recs /\ UNCHANGED <<target, disk>>
      /\ mem' = Put(mem, {r}) /\ batch' \in {batch, Put(batch, {r})}
      /\ \/ stuck' = stuck /\ exposed \subseteq exposed'
         \/ stuck' = Put(stuck, {r}) /\ exposed' = exposed \cup {r}
      /\ replaced' = replaced \cup Replaces(r, mem)
  BY DEF ApplyInsert, TypeOK
<1>2. r \notin mem \cup disk \cup batch \cup stuck /\ \A s \in Recs : <<r, s>> \notin replaced
  BY <1>1 DEF FreshInv, Fresh
<1>3. \A q \in owed' : q \in owed \/ pc'[q] = "acked"
  BY PromiseOwed DEF ApplyInsert
<1>4. \A S : Put(S, {r}) \subseteq S \cup {r} /\ \A s \in Put(S, {r}) : s = r \/ (s \in S /\ KeyOf(s) # KeyOf(r))
  BY PutFacts
<1>5. ASSUME NEW q \in Recs, Fresh(q)'
      PROVE  /\ q \notin mem' \cup disk' \cup batch' \cup stuck' \cup owed'
             /\ \A s \in Recs : <<q, s>> \notin replaced' /\ <<s, q>> \notin replaced'
  <2>1. Fresh(q) /\ q # r
    BY <1>1, <1>5 DEF Fresh
  <2>2. /\ q \notin mem \cup disk \cup batch \cup stuck \cup owed
        /\ \A s \in Recs : <<q, s>> \notin replaced /\ <<s, q>> \notin replaced
    BY <2>1 DEF FreshInv
  <2>3. q \notin mem' \cup disk' \cup batch' \cup stuck' \cup owed'
    BY <1>1, <1>3, <1>4, <1>5, <2>1, <2>2 DEF Fresh
  <2>4. ASSUME NEW s \in Recs PROVE <<q, s>> \notin Replaces(r, mem) /\ <<s, q>> \notin Replaces(r, mem)
    BY <1>1, <2>1, <2>2, NewPairs, TypeOK
  <2> QED
    BY <1>1, <2>2, <2>3, <2>4
<1>6. ASSUME NEW q \in Recs, NEW s \in Recs, <<s, q>> \in replaced' PROVE s # q /\ KeyOf(s)' = KeyOf(q)'
  <2>1. s # q /\ KeyOf(s) = KeyOf(q)
    BY <1>1, <1>6, NewPairs DEF ReplInv
  <2> QED
    BY <1>1, <2>1 DEF KeyOf
<1>7. /\ KeyUnique(mem)' /\ KeyUnique(disk)' /\ KeyUnique(batch)'
  <2>1. KeyUnique(mem') /\ KeyUnique(disk) /\ KeyUnique(batch')
    <3>1. KeyUnique({r})
      BY DEF KeyUnique
    <3> QED
      BY <1>1, <3>1, PutFacts DEF PageInv
  <2> QED
    BY <1>1, <2>1 DEF KeyUnique, KeyOf
<1>8. stuck' \subseteq exposed'
  BY <1>1, <1>4 DEF PageInv
<1>9. ASSUME NEW x \in batch', NEW q \in mem' \cap disk', KeyOf(x) = KeyOf(q) PROVE x = q
  <2>1. q # r /\ q \in mem /\ KeyOf(q) # KeyOf(r) /\ x # r
    BY <1>1, <1>2, <1>4, <1>9
  <2>2. x \in batch
    BY <1>1, <1>4, <2>1
  <2>3. q \in mem \cap disk
    BY <1>1, <2>1
  <2> QED
    BY <1>9, <2>2, <2>3 DEF PageInv
<1>10. \A q : KeyOf(q)' = KeyOf(q)
  BY <1>1 DEF KeyOf
<1>11. PageInv'
  BY <1>7, <1>8, <1>9, <1>10 DEF PageInv
<1>12. FreshInv'
  BY <1>5 DEF FreshInv
<1> QED
  BY <1>6, <1>11, <1>12 DEF PagesInv, ReplInv

\* A step that gives the pages no record which was not there, and replaces none.
LEMMA KeepsPages ==
    ASSUME BaseInv, UNCHANGED <<target, replaced>>,
           mem' \in {mem, {}}, disk' = disk, stuck' \subseteq exposed', stuck' \subseteq stuck \cup mem,
           KeyUnique(batch'), batch' \subseteq batch \cup mem,
           \A x \in batch', r \in mem' \cap disk : KeyOf(x) = KeyOf(r) => x = r,
           \A r \in Recs : Fresh(r)' => Fresh(r) /\ r \notin owed'
    PROVE  PagesInv'
<1> USE DEF BaseInv
<1>1. \A q : KeyOf(q)' = KeyOf(q)
  BY DEF KeyOf
<1>2. KeyUnique(mem') /\ KeyUnique(disk')
  BY DEF PageInv, KeyUnique
<1>3. KeyUnique(mem)' /\ KeyUnique(disk)' /\ KeyUnique(batch)'
  BY <1>1, <1>2 DEF KeyUnique
<1>4. PageInv'
  BY <1>1, <1>3 DEF PageInv
<1>5. FreshInv'
  BY DEF FreshInv
<1>6. ReplInv'
  BY <1>1 DEF ReplInv
<1> QED
  BY <1>4, <1>5, <1>6 DEF PagesInv

LEMMA WritePages ==
    ASSUME BaseInv, NEW x \in Recs, WritePage(x)
    PROVE  PagesInv'
<1> USE DEF BaseInv
<1>1. /\ UNCHANGED <<target, pc, mem, stuck, exposed, replaced, owed>>
      /\ x \in batch /\ disk' = Put(disk, {x}) /\ batch' = batch \ {x}
  BY DEF WritePage
<1>2. \A q : KeyOf(q)' = KeyOf(q)
  BY <1>1 DEF KeyOf
<1>3. KeyUnique(mem') /\ KeyUnique(disk') /\ KeyUnique(batch')
  <2>1. KeyUnique({x}) /\ KeyUnique(batch')
    BY <1>1 DEF PageInv, KeyUnique
  <2> QED
    BY <1>1, <2>1, PutFacts DEF PageInv
<1>4. KeyUnique(mem)' /\ KeyUnique(disk)' /\ KeyUnique(batch)'
  BY <1>2, <1>3 DEF KeyUnique
<1>5. ASSUME NEW y \in batch', NEW r \in mem' \cap disk', KeyOf(y) = KeyOf(r) PROVE y = r
  <2>1. r \in mem /\ y \in batch /\ y # x /\ (r \in disk \/ r = x)
    BY <1>1, PutFacts
  <2> QED
    BY <1>1, <1>5, <2>1 DEF PageInv, KeyUnique
<1>6. PageInv'
  BY <1>1, <1>2, <1>4, <1>5 DEF PageInv
<1>7. disk' \subseteq disk \cup batch /\ batch' \subseteq batch
  BY <1>1, PutFacts
<1>8. FreshInv'
  BY <1>1, <1>7 DEF FreshInv, Fresh
<1>9. ReplInv'
  BY <1>1, <1>2 DEF ReplInv
<1> QED
  BY <1>6, <1>8, <1>9 DEF PagesInv

LEMMA StopPages ==
    ASSUME BaseInv, Stop
    PROVE  PagesInv'
<1> USE DEF BaseInv
<1>1. /\ UNCHANGED <<target, exposed, replaced>> /\ disk' = Put(disk, Dirty)
      /\ mem' = {} /\ stuck' = {} /\ batch' = {}
      /\ owed' = owed \cup {r \in mem : pc[r] = "acked"}
      /\ pc' = [r \in Recs |-> IF pc[r] \in {"logging", "logged"} THEN "failed" ELSE pc[r]]
  BY LoseMemoryFacts DEF Stop, LoseMemory
<1>2. \A q : KeyOf(q)' = KeyOf(q)
  BY <1>1 DEF KeyOf
<1>3. KeyUnique(disk')
  <2>1. KeyUnique(Dirty)
    BY DEF PageInv, KeyUnique, Dirty
  <2> QED
    BY <1>1, <2>1, PutFacts DEF PageInv
<1>4. PageInv'
  BY <1>1, <1>2, <1>3 DEF PageInv, KeyUnique
<1>5. disk' \subseteq disk \cup mem
  BY <1>1, PutFacts DEF Dirty
<1>6. \A r \in Recs : Fresh(r)' => Fresh(r)
  BY <1>1 DEF Fresh
<1>7. FreshInv'
  BY <1>1, <1>5, <1>6 DEF FreshInv
<1>8. ReplInv'
  BY <1>1, <1>2 DEF ReplInv
<1> QED
  BY <1>4, <1>7, <1>8 DEF PagesInv

\* What the redo does to the pages.
LEMMA StartFacts ==
    ASSUME BaseInv, Start
    PROVE  \E places, S :
              /\ places \subseteq DOMAIN Bodies
              /\ ~racyRead => places = {a \in DOMAIN Bodies : Pos(a) > RedoFrom}
              /\ Redone(places) \subseteq Recs /\ KeyUnique(Redone(places))
              /\ mem' = Put(disk, Redone(places))
              /\ S \subseteq Recs /\ S = disk \cup {Bodies[a] : a \in places}
              /\ \A q, r : <<q, r>> \in replaced' <=>
                    <<q, r>> \in replaced \/ (r \in Redone(places) /\ <<q, r>> \in Replaces(r, S))
<1> USE DEF BaseInv
<1>1. PICK places : places = RedoPlaces(curSyncPos')
  OBVIOUS
<1>2. places \subseteq RecPlaces /\ DOMAIN Bodies = RecPlaces
      /\ (~racyRead => places = {a \in RecPlaces : Pos(a) > RedoFrom})
  BY <1>1, StartRedoes, RecPlacesTyped DEF Start
<1>3. PICK S : S = disk \cup {RecAt(a) : a \in places}
  OBVIOUS
<1>4. Redone(places) \subseteq Recs /\ {RecAt(a) : a \in places} \subseteq Recs
  BY <1>2, RedoneTyped
<1>5. S \subseteq Recs
  BY <1>3, <1>4 DEF TypeOK
<1>6. S = disk \cup {Bodies[a] : a \in places}
  BY <1>2, <1>3, RecPlacesTyped
<1>7. PICK redone : redone = Redone(places)
  OBVIOUS
<1>8. mem' = Put(disk, redone) /\ replaced' = replaced \cup UNION {Replaces(r, S) : r \in redone}
  BY <1>1, <1>3, <1>7 DEF Start
<1>9. ASSUME NEW q, NEW r
      PROVE  <<q, r>> \in replaced' <=>
                <<q, r>> \in replaced \/ (r \in redone /\ <<q, r>> \in Replaces(r, S))
  BY <1>8, ReplacesPairs
<1>10. KeyUnique(Redone(places))
  BY <1>2, RedoneUnique
<1> QED
  BY <1>2, <1>4, <1>5, <1>6, <1>7, <1>8, <1>9, <1>10

LEMMA StartPages ==
    ASSUME BaseInv, LogInv', Start
    PROVE  PagesInv'
<1> USE DEF BaseInv
<1>1. PICK places, S :
              /\ places \subseteq DOMAIN Bodies
              /\ ~racyRead => places = {a \in DOMAIN Bodies : Pos(a) > RedoFrom}
              /\ Redone(places) \subseteq Recs /\ KeyUnique(Redone(places))
              /\ mem' = Put(disk, Redone(places))
              /\ S \subseteq Recs /\ S = disk \cup {Bodies[a] : a \in places}
              /\ \A q, r : <<q, r>> \in replaced' <=>
                    <<q, r>> \in replaced \/ (r \in Redone(places) /\ <<q, r>> \in Replaces(r, S))
  BY StartFacts
<1>2. /\ UNCHANGED <<target, pc, disk, stuck, batch, exposed, owed>> /\ ~Up
  BY DEF Start, RecoverLog, Up
<1>3. stuck = {} /\ batch = {}
  BY <1>2 DEF CtlInv
<1>4. \A q : KeyOf(q)' = KeyOf(q)
  BY <1>2 DEF KeyOf
<1>5. PageInv'
  <2>1. KeyUnique(mem') /\ KeyUnique(disk')
    BY <1>1, <1>2, PutFacts DEF PageInv
  <2> QED
    BY <1>2, <1>3, <1>4, <2>1 DEF PageInv, KeyUnique
<1>6. ASSUME NEW r \in Recs, Fresh(r)'
      PROVE  /\ r \notin mem' \cup disk' \cup batch' \cup stuck' \cup owed'
             /\ \A s \in Recs : <<r, s>> \notin replaced' /\ <<s, r>> \notin replaced'
  <2>1. Fresh(r) /\ pc[r] \in {"new", "logging"}
    BY <1>2, <1>6 DEF Fresh, CtlInv
  <2>2. /\ r \notin mem \cup disk \cup batch \cup stuck \cup owed
        /\ \A s \in Recs : <<r, s>> \notin replaced /\ <<s, r>> \notin replaced
    BY <2>1 DEF FreshInv
  <2>3. \A a \in places : Bodies[a] # r
    BY <1>1, <2>1 DEF LogPcInv
  <2>4. r \notin S /\ r \notin Redone(places)
    BY <1>1, <2>2, <2>3, RedoneLast
  <2>5. r \notin mem'
    BY <1>1, <2>2, <2>4, PutFacts
  <2>6. ASSUME NEW s \in Recs PROVE <<r, s>> \notin Replaces(s, S)
    BY <1>1, <2>2, <2>4, NewPairs
  <2> QED
    BY <1>1, <1>2, <2>2, <2>4, <2>5, <2>6
<1>7. FreshInv'
  BY <1>6 DEF FreshInv
<1>8. ASSUME NEW r \in Recs, NEW s \in Recs, <<s, r>> \in replaced' PROVE s # r /\ KeyOf(s) = KeyOf(r)
  BY <1>1, <1>8, NewPairs DEF ReplInv
<1> QED
  BY <1>4, <1>5, <1>7, <1>8 DEF PagesInv, ReplInv

LEMMA NextPages ==
    ASSUME BaseInv, LogInv', [Next]_vars
    PROVE  PagesInv'
<1> USE DEF BaseInv
<1>0. /\ pc \in [Recs -> {"new", "logging", "logged", "acked", "refused", "failed"}]
      /\ owed \subseteq Recs
      /\ KeyUnique(batch) /\ stuck \subseteq exposed
      /\ \A x \in batch, r \in mem \cap disk : KeyOf(x) = KeyOf(r) => x = r
      /\ \A r \in Recs : Fresh(r) => r \notin owed
  BY DEF TypeOK, PageInv, FreshInv
<1>1. ASSUME UNCHANGED <<target, mem, disk, stuck, batch, replaced>>, exposed \subseteq exposed',
             \A r \in Recs : Fresh(r)' => Fresh(r) /\ r \notin owed'
      PROVE  PagesInv'
  BY <1>0, <1>1, KeepsPages
<1>2. ASSUME NEW r \in Recs, Insert(r) \/ RefuseInsert(r) PROVE PagesInv'
  <2>1. \A q \in Recs : Fresh(q)' => Fresh(q)
    BY <1>0, <1>2 DEF Insert, RefuseInsert, Fresh
  <2> QED
    BY <1>0, <1>1, <1>2, <2>1 DEF Insert, RefuseInsert
<1>3. CASE LogWriter
  <2>1. \A q \in Recs : Fresh(q)' => Fresh(q)
    BY <1>0, <1>3, LogWriterCases DEF Logs, Fresh
  <2>2. \A q \in owed' : q \in owed \/ pc'[q] = "acked"
    BY <1>3, PromiseOwed DEF LogWriter
  <2> QED
    BY <1>0, <1>1, <1>3, <2>1, <2>2 DEF LogWriter, Fresh
<1>4. ASSUME NEW t \in Tables, CreateTable(t) PROVE PagesInv'
  BY <1>0, <1>1, <1>4 DEF CreateTable, Fresh
<1>5. CASE SyncCmtLog
  BY <1>0, <1>1, <1>5 DEF SyncCmtLog, Fresh
<1>6. ASSUME NEW all \in BOOLEAN, BeginSync(all) PROVE PagesInv'
  BY <1>0, <1>1, <1>6 DEF BeginSync, Fresh
<1>7. CASE TakeSyncPoint
  BY <1>0, <1>1, <1>7 DEF TakeSyncPoint, Fresh
<1>8. ASSUME NEW t \in Tables, SyncTable(t) PROVE PagesInv'
  <2>1. batch' \subseteq DirtyOf(t) /\ DirtyOf(t) \subseteq mem
        /\ UNCHANGED <<target, pc, mem, disk, stuck, exposed, replaced, owed>>
    BY <1>8 DEF SyncTable, DirtyOf, Dirty
  <2>2. KeyUnique(batch') /\ \A x \in batch', r \in mem' \cap disk : KeyOf(x) = KeyOf(r) => x = r
    BY <2>1 DEF PageInv, KeyUnique
  <2> QED
    BY <1>0, <2>1, <2>2, KeepsPages DEF Fresh
<1>9. CASE WriteFails
  <2>1. batch' = {} /\ UNCHANGED <<target, pc, mem, disk, replaced, owed>>
        /\ stuck' \subseteq stuck \cup mem /\ stuck' \subseteq exposed'
    BY <1>0, <1>9 DEF WriteFails
  <2>2. KeyUnique(batch')
    BY <2>1 DEF KeyUnique
  <2> QED
    BY <1>0, <2>1, <2>2, KeepsPages DEF Fresh
<1>10. CASE EndSync
  BY <1>0, <1>1, <1>10 DEF EndSync, Fresh
<1>11. CASE FinishSyncPoint
  BY <1>0, <1>1, <1>11 DEF FinishSyncPoint, Fresh
<1>12. CASE PowerFailure
  <2>1. /\ UNCHANGED <<target, exposed, replaced, disk>>
        /\ mem' = {} /\ stuck' = {} /\ batch' = {} /\ Promise
        /\ pc' = [r \in Recs |-> IF pc[r] \in {"logging", "logged"} THEN "failed" ELSE pc[r]]
    BY <1>12, LoseMemoryFacts DEF PowerFailure, LoseMemory
  <2>2. \A q \in owed' : q \in owed \/ pc'[q] = "acked"
    BY <2>1, PromiseOwed
  <2>3. \A r \in Recs : Fresh(r)' => Fresh(r) /\ r \notin owed'
    BY <1>0, <2>1, <2>2 DEF Fresh
  <2>4. KeyUnique(batch')
    BY <2>1 DEF KeyUnique
  <2> QED
    BY <2>1, <2>3, <2>4, KeepsPages
<1>13. CASE UNCHANGED vars
  BY <1>0, <1>1, <1>13 DEF vars, Fresh
<1> QED
  BY <1>2, <1>3, <1>4, <1>5, <1>6, <1>7, <1>8, <1>9, <1>10, <1>11, <1>12, <1>13, ApplyPages, WritePages,
     StopPages, StartPages DEF Next, SyncStep

LEMMA NextBase == BaseInv /\ LogInv' /\ [Next]_vars => BaseInv'
<1> SUFFICES ASSUME BaseInv, LogInv', [Next]_vars PROVE BaseInv'
  OBVIOUS
<1>1. TypeOK'
  BY NextTypeOK DEF BaseInv, LogInv, ShapeInv
<1>2. CtlInv'
  BY NextCtl
<1>3. LogPcInv'
  BY NextLogPc
<1>4. OwedInv'
  BY <1>3, NextOwed
<1>5. PagesInv'
  BY NextPages
<1> QED
  BY <1>1, <1>2, <1>3, <1>4, <1>5 DEF BaseInv, PagesInv

LEMMA InitInv == Init => IInv
<1> SUFFICES ASSUME Init PROVE IInv
  OBVIOUS
<1>1. LogInv /\ TypeOK
  BY InitIsLogInit, InitLogInv, InitTypeOK
<1>2. Codes = {} /\ syncPhase = "idle" /\ logOp = NoOp
  BY DEF Init, LogInit, Codes
<1>3. DOMAIN Bodies = {} /\ SyncedPlaces = {}
  BY <1>1, <1>2, RecPlacesTyped DEF RecPlaces, SyncedPlaces
<1>4. \A r \in Recs : pc[r] = "new"
  BY DEF Init
<1>5. CtlInv
  BY <1>2, <1>4 DEF Init, CtlInv, Up
<1>6. LogPcInv /\ OwedInv
  BY <1>2, <1>3 DEF Init, LogPcInv, OwedInv, NoOp
<1>7. PageInv /\ FreshInv /\ ReplInv
  BY DEF Init, PageInv, FreshInv, ReplInv, KeyUnique
<1>8. \A r \in Recs : ~Obliged(r)
  BY <1>3 DEF Init, Obliged, InLog
<1>9. CoverInv
  BY <1>2, <1>3, <1>4, <1>8 DEF Init, CoverInv, LoggedInv, MemInv, DiskInv, MadeInv, BatchInv, HeldInv, LaterInv, OrderInv
<1> QED
  BY <1>1, <1>5, <1>6, <1>7, <1>9 DEF IInv, BaseInv

-----------------------------------------------------------------------------
(* What the sync points cover.                                              *)

\* All but LaterInv, which is about the order of the Inserts only.
PointInvs == LoggedInv /\ MemInv /\ DiskInv /\ MadeInv /\ BatchInv /\ HeldInv /\ OrderInv

LEMMA KeyTable ==
    ASSUME TypeOK, NEW r \in Recs, NEW s \in Recs, KeyOf(r) = KeyOf(s)
    PROVE  TabOf(r) = TabOf(s)
BY TablesAssumption DEF TypeOK, KeyOf, TabOf

\* No record gets another place in the log.
LEMMA SameObliged ==
    ASSUME BaseInv, LogInv', Subset(Bodies', Bodies), owed' = owed \/ Promise,
           \A r \in Recs : pc'[r] = "acked" => pc[r] = "acked",
           SyncedPlaces' \subseteq DOMAIN Bodies'
    PROVE  \A r \in Recs : Obliged(r)' => Obliged(r)
<1>1. \A r \in owed' : r \in owed \/ (pc'[r] = "acked" /\ \E a \in SyncedPlaces' : Bodies'[a] = r)
  BY PromiseOwed
<1>2. ASSUME NEW r \in Recs, Obliged(r)' PROVE Obliged(r)
  <2>1. \/ r \in owed
        \/ pc'[r] = "acked" /\ \E a \in DOMAIN Bodies' : Bodies'[a] = r
    BY <1>1, <1>2 DEF Obliged, InLog
  <2> QED
    BY <2>1 DEF Obliged, InLog, Subset
<1> QED
  BY <1>2

LEMMA SameRedoFrom == file' = file /\ syncPhase' = syncPhase /\ curSyncPos' = curSyncPos => RedoFrom' = RedoFrom
<1> SUFFICES ASSUME file' = file, syncPhase' = syncPhase, curSyncPos' = curSyncPos PROVE RedoFrom' = RedoFrom
  OBVIOUS
<1>1. Codes' = Codes /\ (Up' <=> Up)
  BY DEF Codes, Up
<1>2. Back' = Back
  BY <1>1 DEF Back
<1>3. RecoverPoint(Back)' = RecoverPoint(Back)
  <2>1. \A i : PointAt(Back, i)' <=> PointAt(Back, i)
    BY <1>2 DEF PointAt
  <2> QED
    BY <1>2, <2>1 DEF RecoverPoint
<1> QED
  BY <1>1, <1>3 DEF RedoFrom

\* A step that leaves the pages, the places in the log and the sync points alone.
LEMMA QuietCover ==
    ASSUME PointInvs, UNCHANGED <<target, mem, disk, batch, replaced, curSyncPos, nextSyncPos, Bodies>>,
           racyRead => racyRead', exposed \subseteq exposed', Up' = Up, RedoFrom' = RedoFrom,
           syncPhase' = "made" => syncPhase = "made" /\ tabList' = tabList,
           \A r \in Recs : /\ pc'[r] = "logged" => pc[r] = "logged"
                           /\ Obliged(r)' => Obliged(r)
    PROVE  PointInvs'
<1> USE DEF PointInvs
<1>1. /\ \A r, p : Behind(r, p)' <=> Behind(r, p')
      /\ \A r : KeyOf(r)' = KeyOf(r) /\ TabOf(r)' = TabOf(r)
      /\ \A s, r : Holds(s, r)' <=> Holds(s, r)
      /\ \A r : Excused(r) => Excused(r)'
  BY DEF Behind, KeyOf, TabOf, Holds, Excused
<1>2. \A S, r : HeldBy(S, r)' <=> HeldBy(S', r)
  BY <1>1 DEF HeldBy
<1>3. LoggedInv'
  BY <1>1 DEF LoggedInv
<1>4. MemInv'
  BY <1>1 DEF MemInv
<1>5. DiskInv'
  BY <1>1, <1>2 DEF DiskInv
<1>6. MadeInv'
  BY <1>1, <1>2 DEF MadeInv
<1>7. BatchInv'
  BY <1>1 DEF BatchInv
<1>8. HeldInv'
  BY <1>1, <1>2 DEF HeldInv
<1>9. OrderInv'
  BY <1>1 DEF OrderInv
<1> QED
  BY <1>3, <1>4, <1>5, <1>6, <1>7, <1>8, <1>9

LEMMA LogsCover ==
    ASSUME BaseInv, LogInv', CoverInv, LogWriter, NEW r, NEW e, Logs(r, e)
    PROVE  CoverInv'
<1> USE DEF BaseInv, CoverInv
<1>1. /\ r \in Recs /\ pc[r] = "logging" /\ pc' = [pc EXCEPT ![r] = "logged"]
      /\ Added(Bodies', Bodies, e, r) /\ SyncedPlaces' = SyncedPlaces
      /\ ~racyRead => Pos(e) > curSyncPos /\ (syncPhase = "made" => Pos(e) > nextSyncPos)
      /\ syncPhase' = syncPhase /\ Up /\ Up'
      /\ UNCHANGED <<target, mem, disk, batch, tabList, replaced, exposed, curSyncPos, nextSyncPos, racyRead>>
      /\ pc \in [Recs -> {"new", "logging", "logged", "acked", "refused", "failed"}]
      /\ \A a \in DOMAIN Bodies : Bodies[a] \in Recs /\ Pos(a) \in Nat
      /\ Promise /\ owed \subseteq Recs
  BY LogWriterCases, BodiesTyped DEF LogWriter, Logs, syncVars, TypeOK
<1>2. /\ e \notin DOMAIN Bodies /\ DOMAIN Bodies' = DOMAIN Bodies \cup {e} /\ Bodies'[e] = r
      /\ \A a \in DOMAIN Bodies : Bodies'[a] = Bodies[a] /\ Pos(a) < Pos(e) /\ Bodies[a] # r
      /\ Pos(e) \in Nat
  <2>1. (LogInv => \A a \in DOMAIN Bodies : Bodies[a] \in Recs /\ Pos(a) \in Nat)'
    BY BodiesTyped, PTL
  <2>2. e \in DOMAIN Bodies' /\ \A a \in DOMAIN Bodies : Bodies[a] # r
    BY <1>1 DEF Added, LogPcInv
  <2> QED
    BY <1>1, <2>1, <2>2 DEF Added
<1>3. r \notin mem /\ \A s \in Recs : <<r, s>> \notin replaced
  BY <1>1 DEF FreshInv, Fresh
<1>4. /\ \A q, p : Behind(q, p) => Behind(q, p)'
      /\ \A q : KeyOf(q)' = KeyOf(q) /\ TabOf(q)' = TabOf(q)
      /\ \A s, q : Holds(s, q)' <=> Holds(s, q)
      /\ \A q : Excused(q) => Excused(q)'
      /\ RedoFrom' = RedoFrom
  BY <1>1, <1>2 DEF Behind, KeyOf, TabOf, Holds, Excused, RedoFrom
<1>5. \A S, q : HeldBy(S, q)' <=> HeldBy(S', q)
  BY <1>4 DEF HeldBy
<1>6. ASSUME NEW q \in Recs, Obliged(q)' PROVE Obliged(q)
  <2>1. \/ q \in owed
        \/ pc'[q] = "acked" /\ \E a \in DOMAIN Bodies' : Bodies'[a] = q
    <3>1. q \in owed' => q \in owed \/ (pc'[q] = "acked" /\ \E a \in SyncedPlaces' : Bodies'[a] = q)
      BY <1>1, PromiseOwed
    <3>2. SyncedPlaces' \subseteq DOMAIN Bodies'
      BY <1>1, <1>2 DEF SyncedPlaces
    <3> QED
      BY <1>6, <3>1, <3>2 DEF Obliged, InLog
  <2>2. CASE q \in owed
    BY <2>2 DEF Obliged
  <2>3. CASE pc'[q] = "acked" /\ \E a \in DOMAIN Bodies' : Bodies'[a] = q
    <3>1. q # r /\ pc[q] = "acked"
      BY <1>1, <2>3
    <3> QED
      BY <1>2, <2>3, <3>1 DEF Obliged, InLog
  <2> QED
    BY <2>1, <2>2, <2>3
<1>8. LoggedInv'
  <2> SUFFICES ASSUME ~racyRead, NEW q \in Recs, pc'[q] = "logged", q \notin exposed
               PROVE  Behind(q, curSyncPos)' /\ (syncPhase = "made" => Behind(q, nextSyncPos)')
    BY <1>1 DEF LoggedInv
  <2>1. CASE q = r
    BY <1>1, <1>2, <2>1 DEF Behind
  <2>2. CASE q # r
    <3>1. pc[q] = "logged"
      BY <1>1, <2>2
    <3>2. Behind(q, curSyncPos) /\ (syncPhase = "made" => Behind(q, nextSyncPos))
      BY <3>1 DEF LoggedInv
    <3> QED
      BY <1>1, <1>2, <3>2 DEF Behind
  <2> QED
    BY <2>1, <2>2
<1>9. MemInv'
  BY <1>1, <1>2, <1>3, <1>4 DEF MemInv
<1>10. ASSUME NEW q \in Recs
       PROVE  /\ Behind(q, RedoFrom) => Behind(q, RedoFrom)'
              /\ Behind(q, curSyncPos) => Behind(q, curSyncPos)'
              /\ Behind(q, nextSyncPos) => Behind(q, nextSyncPos)'
  BY <1>1, <1>2, <1>4 DEF Behind
<1>11. DiskInv'
  BY <1>1, <1>4, <1>5, <1>6, <1>10 DEF DiskInv
<1>12. MadeInv'
  BY <1>1, <1>4, <1>5, <1>6, <1>10 DEF MadeInv
<1>13. BatchInv'
  BY <1>1, <1>4, <1>6, <1>10 DEF BatchInv
<1>14. HeldInv'
  BY <1>1, <1>4, <1>5, <1>6 DEF HeldInv
<1>15. LaterInv'
  <2> SUFFICES ASSUME NEW a \in DOMAIN Bodies', NEW b \in DOMAIN Bodies',
                      pc'[Bodies'[a]] = "logged", Pos(a) < Pos(b)
               PROVE  /\ pc'[Bodies'[b]] \in {"logged", "acked", "refused"}
                      /\ pc'[Bodies'[b]] = "refused" =>
                            Bodies'[b] \notin mem /\ \A x \in Recs : <<Bodies'[b], x>> \notin replaced
    BY <1>1 DEF LaterInv
  <2>1. CASE b = e
    BY <1>1, <1>2, <2>1
  <2>2. CASE b # e
    <3>1. b \in DOMAIN Bodies /\ a \in DOMAIN Bodies
      BY <1>1, <1>2, <2>2
    <3>2. Bodies'[a] = Bodies[a] /\ Bodies'[b] = Bodies[b] /\ Bodies[a] # r /\ Bodies[b] # r
      BY <1>2, <3>1
    <3>3. pc[Bodies[a]] = "logged" /\ pc'[Bodies[b]] = pc[Bodies[b]]
      BY <1>1, <3>1, <3>2
    <3> QED
      BY <3>1, <3>2, <3>3 DEF LaterInv
  <2> QED
    BY <2>1, <2>2
<1>16. OrderInv'
  <2> SUFFICES ASSUME ~racyRead, NEW a \in DOMAIN Bodies', NEW q \in Recs,
                      <<Bodies'[a], q>> \in replaced, Obliged(q)', q \notin exposed
               PROVE  Behind(q, Pos(a))'
    BY <1>1 DEF OrderInv
  <2>1. a \in DOMAIN Bodies /\ Bodies'[a] = Bodies[a]
    BY <1>2, <1>3
  <2>2. Behind(q, Pos(a))
    BY <1>6, <2>1 DEF OrderInv
  <2> QED
    BY <1>2, <2>2 DEF Behind
<1> QED
  BY <1>8, <1>9, <1>11, <1>12, <1>13, <1>14, <1>15, <1>16

LEMMA ApplyCover ==
    ASSUME BaseInv, LogInv', CoverInv, NEW r \in Recs, ApplyInsert(r)
    PROVE  CoverInv'
<1> USE DEF BaseInv, CoverInv
<1>1. /\ pc \in [Recs -> {"new", "logging", "logged", "acked", "refused", "failed"}]
      /\ pc' = [pc EXCEPT ![r] = "acked"] /\ pc[r] = "logged" /\ owed \subseteq Recs
      /\ mem \subseteq Recs /\ batch \subseteq Recs
      /\ UNCHANGED <<target, disk, tabList, curSyncPos, nextSyncPos, syncPhase, racyRead>>
      /\ Up /\ Up'
      /\ mem' = Put(mem, {r}) /\ exposed \subseteq exposed'
      /\ replaced' = replaced \cup Replaces(r, mem)
      /\ Inverted(r) => r \in exposed'
      /\ Promise
  BY DEF ApplyInsert, TypeOK, Running, Up, logVars, syncVars
<1>2. Bodies' = Bodies /\ SyncedPlaces' = SyncedPlaces
  BY <1>1, LogStays DEF ApplyInsert, SameLog
<1>3. /\ r \notin mem \cup disk \cup batch \cup stuck \cup owed
      /\ \A s \in Recs : <<r, s>> \notin replaced /\ <<s, r>> \notin replaced
  BY <1>1 DEF FreshInv, Fresh
<1>4. /\ mem' \subseteq mem \cup {r} /\ r \in mem' /\ batch' \subseteq batch \cup {r}
      /\ \A s \in mem : s \in mem' \/ KeyOf(s) = KeyOf(r)
      /\ \A s \in mem' : s = r \/ (s \in mem /\ KeyOf(s) # KeyOf(r))
      /\ \A s \in batch : s \in batch' \/ (KeyOf(s) = KeyOf(r) /\ r \in batch')
  <2>1. batch' \in {batch, Put(batch, {r})}
    BY DEF ApplyInsert
  <2> QED
    BY <1>1, <2>1, PutFacts
<1>5. /\ \A q, p : Behind(q, p)' <=> Behind(q, p')
      /\ \A q : KeyOf(q)' = KeyOf(q) /\ TabOf(q)' = TabOf(q)
      /\ \A q : Excused(q) => Excused(q)'
      /\ RedoFrom' = RedoFrom /\ RedoFrom = curSyncPos
  BY <1>1, <1>2 DEF Behind, KeyOf, TabOf, Excused, RedoFrom
<1>6. ASSUME NEW q \in Recs, q # r, Obliged(q)' PROVE Obliged(q)
  <2>1. q \in owed' => q \in owed \/ (pc'[q] = "acked" /\ \E a \in SyncedPlaces : Bodies[a] = q)
    BY <1>1, <1>2, PromiseOwed
  <2> QED
    BY <1>1, <1>2, <1>6, <2>1 DEF Obliged, InLog, SyncedPlaces
<1>7. ASSUME NEW q, NEW s, <<q, s>> \in Replaces(r, mem)
      PROVE  /\ s = r /\ q \in Recs /\ q # r /\ KeyOf(q) = KeyOf(r)
             /\ q \in mem \/ \E t \in mem : KeyOf(t) = KeyOf(r) /\ t # r /\ <<q, t>> \in replaced
  BY <1>1, <1>7, NewPairs
<1>8. \A q, s : q # r /\ Holds(s, q) => Holds(s, q)'
  BY <1>1, <1>5, <1>7 DEF Holds
<1>9. ASSUME NEW q \in Recs, q # r, Obliged(q), KeyOf(q) = KeyOf(r), ~racyRead
      PROVE  Excused(q) \/ Holds(r, q)'
  <2>1. CASE HeldBy(mem, q)
    <3>1. PICK s \in mem : Holds(s, q)
      BY <2>1 DEF HeldBy
    <3>2. s # r /\ KeyOf(s) = KeyOf(r) /\ (s = q \/ <<q, s>> \in replaced)
      BY <1>3, <1>9, <3>1 DEF Holds
    <3>3. <<q, r>> \in Replaces(r, mem)
      BY <1>9, <3>1, <3>2, OldPairs
    <3>4. <<r, q>> \notin replaced'
      BY <1>1, <1>3, <1>7, <1>9
    <3> QED
      BY <1>1, <1>5, <1>9, <3>3, <3>4 DEF Holds
  <2> QED
    BY <1>1, <1>9, <2>1 DEF HeldInv
<1>10. ~racyRead => \/ r \in exposed
                    \/ Behind(r, curSyncPos) /\ (syncPhase = "made" => Behind(r, nextSyncPos))
  BY <1>1 DEF LoggedInv
<1>11. r \in exposed => Excused(r)'
  BY <1>1 DEF Excused
<1>12. LoggedInv'
  BY <1>1, <1>5 DEF LoggedInv
<1>13. MemInv'
  <2> SUFFICES ASSUME ~racyRead, NEW a \in DOMAIN Bodies, Bodies[a] \in mem', Bodies[a] \notin exposed'
               PROVE  /\ Pos(a) <= curSyncPos => Bodies[a] \in disk
                      /\ syncPhase = "made" /\ Pos(a) <= nextSyncPos =>
                            Bodies[a] \in disk \cup batch' \/ TabOf(Bodies[a]) \in tabList
    BY <1>1, <1>2, <1>5 DEF MemInv
  <2>1. CASE Bodies[a] = r
    <3>1. Pos(a) \in Nat /\ curSyncPos \in Nat /\ nextSyncPos \in Nat
      BY BodiesTyped DEF TypeOK, LogTypeOK
    <3>2. \A p : Behind(r, p) => Pos(a) > p
      BY <2>1 DEF Behind, LogPcInv
    <3>3. Pos(a) > curSyncPos /\ (syncPhase = "made" => Pos(a) > nextSyncPos)
      BY <1>1, <1>10, <2>1, <3>2
    <3> QED
      BY <3>1, <3>3
  <2>2. CASE Bodies[a] # r
    <3>1. Bodies[a] \in mem /\ KeyOf(Bodies[a]) # KeyOf(r) /\ Bodies[a] \notin exposed
      BY <1>1, <1>4, <2>2
    <3>2. Bodies[a] \in batch => Bodies[a] \in batch'
      BY <1>4, <3>1
    <3> QED
      BY <3>1, <3>2 DEF MemInv
  <2> QED
    BY <2>1, <2>2
<1>14. DiskInv'
  <2> SUFFICES ASSUME ~racyRead, NEW q \in Recs, Obliged(q)'
               PROVE  Excused(q)' \/ Behind(q, RedoFrom) \/ HeldBy(disk, q)'
    BY <1>1, <1>5 DEF DiskInv
  <2>1. CASE q = r
    BY <1>5, <1>10, <1>11, <2>1
  <2>2. CASE q # r
    BY <1>1, <1>5, <1>6, <1>8, <2>2 DEF DiskInv, HeldBy
  <2> QED
    BY <2>1, <2>2
<1>15. MadeInv'
  <2> SUFFICES ASSUME ~racyRead, syncPhase = "made", NEW q \in Recs, Obliged(q)'
               PROVE  \/ Excused(q)' \/ Behind(q, nextSyncPos)
                      \/ HeldBy(disk, q)' \/ HeldBy(batch, q)' \/ TabOf(q) \in tabList
    BY <1>1, <1>5 DEF MadeInv
  <2>1. CASE q = r
    BY <1>5, <1>10, <1>11, <2>1
  <2>2. CASE q # r /\ HeldBy(batch, q)
    <3>1. PICK x \in batch : Holds(x, q)
      BY <2>2 DEF HeldBy
    <3>2. CASE x \in batch'
      BY <1>8, <2>2, <3>1, <3>2 DEF HeldBy
    <3>3. CASE x \notin batch'
      <4>1. r \in batch' /\ KeyOf(q) = KeyOf(r)
        BY <1>4, <3>1, <3>3 DEF Holds
      <4> QED
        BY <1>5, <1>6, <1>9, <2>2, <4>1 DEF HeldBy
    <3> QED
      BY <3>2, <3>3
  <2>3. CASE q # r /\ ~HeldBy(batch, q)
    <3>1. Excused(q) \/ Behind(q, nextSyncPos) \/ HeldBy(disk, q) \/ TabOf(q) \in tabList
      BY <1>6, <2>3 DEF MadeInv
    <3>2. HeldBy(disk, q) => HeldBy(disk, q)'
      BY <1>1, <1>8, <2>3 DEF HeldBy
    <3> QED
      BY <1>5, <3>1, <3>2
  <2> QED
    BY <2>1, <2>2, <2>3
<1>16. BatchInv'
  <2> SUFFICES ASSUME ~racyRead, NEW q \in Recs, NEW x \in batch', Obliged(q)', KeyOf(x) = KeyOf(q)
               PROVE  \/ Excused(q)'
                      \/ Behind(q, curSyncPos) /\ (syncPhase = "made" => Behind(q, nextSyncPos))
                      \/ Holds(x, q)'
    BY <1>1, <1>5 DEF BatchInv
  <2>1. CASE q = r
    BY <1>10, <1>11, <2>1
  <2>2. CASE q # r /\ x = r
    BY <1>5, <1>6, <1>9, <2>2
  <2>3. CASE q # r /\ x # r
    <3>1. x \in batch
      BY <1>4, <2>3
    <3> QED
      BY <1>5, <1>6, <1>8, <2>3, <3>1 DEF BatchInv
  <2> QED
    BY <2>1, <2>2, <2>3
<1>17. HeldInv'
  <2> SUFFICES ASSUME ~racyRead, NEW q \in Recs, Obliged(q)'
               PROVE  Excused(q)' \/ HeldBy(mem, q)'
    BY <1>1 DEF HeldInv
  <2>1. CASE q = r
    <3>1. <<r, r>> \notin replaced'
      BY <1>1, <1>3, <1>7
    <3> QED
      BY <1>4, <2>1, <3>1 DEF HeldBy, Holds
  <2>2. CASE q # r /\ KeyOf(q) = KeyOf(r)
    BY <1>4, <1>5, <1>6, <1>9, <2>2 DEF HeldBy
  <2>3. CASE q # r /\ KeyOf(q) # KeyOf(r)
    <3>1. Excused(q) \/ HeldBy(mem, q)
      BY <1>1, <1>6, <2>3 DEF HeldInv
    <3>2. ASSUME HeldBy(mem, q) PROVE HeldBy(mem, q)'
      <4>1. PICK s \in mem : Holds(s, q)
        BY <3>2 DEF HeldBy
      <4>2. s \in mem'
        BY <1>4, <2>3, <4>1 DEF Holds
      <4> QED
        BY <1>8, <2>3, <4>1, <4>2 DEF HeldBy
    <3> QED
      BY <1>5, <3>1, <3>2
  <2> QED
    BY <2>1, <2>2, <2>3
<1>18. \A a \in DOMAIN Bodies : Bodies[a] \in Recs /\ Pos(a) \in Nat
  BY BodiesTyped
<1>19. LaterInv'
  <2> SUFFICES ASSUME NEW a \in DOMAIN Bodies, NEW b \in DOMAIN Bodies,
                      pc'[Bodies[a]] = "logged", Pos(a) < Pos(b)
               PROVE  /\ pc'[Bodies[b]] \in {"logged", "acked", "refused"}
                      /\ pc'[Bodies[b]] = "refused" =>
                            Bodies[b] \notin mem' /\ \A x \in Recs : <<Bodies[b], x>> \notin replaced'
    BY <1>2 DEF LaterInv
  <2>1. pc[Bodies[a]] = "logged" /\ (Bodies[b] = r => pc'[Bodies[b]] = "acked")
        /\ (Bodies[b] # r => pc'[Bodies[b]] = pc[Bodies[b]])
    BY <1>1, <1>18
  <2>2. /\ pc[Bodies[b]] \in {"logged", "acked", "refused"}
        /\ pc[Bodies[b]] = "refused" =>
              Bodies[b] \notin mem /\ \A x \in Recs : <<Bodies[b], x>> \notin replaced
    BY <2>1 DEF LaterInv
  <2>3. ASSUME Bodies[b] # r, pc[Bodies[b]] = "refused"
        PROVE  Bodies[b] \notin mem' /\ \A x \in Recs : <<Bodies[b], x>> \notin replaced'
    BY <1>1, <1>4, <1>7, <2>2, <2>3
  <2> QED
    BY <2>1, <2>2, <2>3
<1>20. OrderInv'
  <2> SUFFICES ASSUME ~racyRead, NEW a \in DOMAIN Bodies, NEW q \in Recs,
                      <<Bodies[a], q>> \in replaced', Obliged(q)', q \notin exposed'
               PROVE  Behind(q, Pos(a))
    BY <1>1, <1>2, <1>5 DEF OrderInv
  <2>1. CASE <<Bodies[a], q>> \in replaced
    BY <1>1, <1>3, <1>6, <1>18, <2>1 DEF OrderInv
  <2>2. CASE <<Bodies[a], q>> \in Replaces(r, mem)
    <3>1. PICK s : s = Bodies[a]
      OBVIOUS
    <3>2. /\ q = r /\ s \in Recs /\ s # r /\ KeyOf(s) = KeyOf(r)
          /\ s \in mem \/ \E t \in mem : <<s, t>> \in replaced
      BY <1>7, <2>2, <3>1
    <3>3. PICK c \in DOMAIN Bodies : Bodies[c] = r
      BY <1>1, <1>10, <3>2 DEF Behind
    <3>4. CASE Pos(c) > Pos(a)
      BY <3>2, <3>3, <3>4 DEF Behind
    <3>5. CASE Pos(c) <= Pos(a)
      <4>1. WellFormed(Units) /\ DOMAIN Bodies = BodyPlaces(Units)
        BY UnitsWellFormed DEF LogInv, Bodies, BodiesOf
      <4>2. /\ Pos(c) < Pos(a) /\ RedoBefore(c, a)
        BY <1>18, <3>1, <3>2, <3>3, <3>5, <4>1, PlaceOrder
      <4>3. /\ pc[s] \in {"logged", "acked", "refused"}
            /\ pc[s] = "refused" => s \notin mem /\ \A x \in Recs : <<s, x>> \notin replaced
        BY <1>1, <3>1, <3>3, <4>2 DEF LaterInv
      <4>4. pc[s] = "acked"
        BY <1>1, <3>2, <4>3 DEF FreshInv, Fresh
      <4>5. Inverted(r)
        <5>1. DOMAIN Bodies = RecPlaces /\ \A b \in RecPlaces : Bodies[b] = RecAt(b)
          BY RecPlacesTyped
        <5>2. \A b \in RecPlaces : RecAt(b) = r => RedoBefore(b, a)
          BY <3>3, <4>2, <5>1 DEF LogPcInv
        <5> QED
          BY <3>1, <3>2, <4>4, <5>1, <5>2 DEF Inverted
      <4> QED
        BY <1>1, <3>2, <4>5
    <3> QED
      BY <1>18, <3>3, <3>4, <3>5
  <2> QED
    BY <1>1, <2>1, <2>2
<1> QED
  BY <1>12, <1>13, <1>14, <1>15, <1>16, <1>17, <1>19, <1>20

\* Who holds a record while the pages are in memory.
LEMMA HeldInMem ==
    ASSUME TypeOK, HeldInv, Up, ~racyRead, NEW r \in Recs, Obliged(r), ~Excused(r)
    PROVE  \E s \in mem : /\ Holds(s, r) /\ KeyOf(s) = KeyOf(r) /\ TabOf(s) = TabOf(r)
                          /\ s \notin exposed
                          /\ \A e : s \in e => r \in e \/ \E q \in e : <<r, q>> \in replaced
<1>1. PICK s \in mem : Holds(s, r)
  BY DEF HeldInv, HeldBy
<1>2. KeyOf(s) = KeyOf(r) /\ (s = r \/ <<r, s>> \in replaced)
  BY <1>1 DEF Holds
<1>3. TabOf(s) = TabOf(r)
  BY <1>1, <1>2, KeyTable DEF TypeOK
<1>4. s \notin exposed
  BY <1>2 DEF Excused
<1> QED
  BY <1>1, <1>2, <1>3, <1>4

LEMMA TakeCover ==
    ASSUME BaseInv, LogInv', CoverInv, TakeSyncPoint
    PROVE  CoverInv'
<1> USE DEF BaseInv, CoverInv
<1>1. /\ UNCHANGED <<target, pc, mem, disk, batch, tabList, curSyncPos, replaced, owed>>
      /\ Up /\ Up' /\ (racyRead => racyRead') /\ syncPhase = "idle" /\ batch = {}
      /\ exposed' = exposed \cup PassedOver /\ MakeSyncPoint
  BY DEF TakeSyncPoint, MakeSyncPoint, syncVars, Up, CtlInv
<1>2. Bodies' = Bodies
  BY <1>1, LogStays DEF SameLog
<1>3. /\ \A q, p : Behind(q, p)' <=> Behind(q, p')
      /\ \A q : KeyOf(q)' = KeyOf(q) /\ TabOf(q)' = TabOf(q)
      /\ \A s, q : Holds(s, q)' <=> Holds(s, q)
      /\ \A q : Excused(q) => Excused(q)'
      /\ \A q : Obliged(q)' <=> Obliged(q)
      /\ RedoFrom' = RedoFrom
  BY <1>1, <1>2 DEF Behind, KeyOf, TabOf, Holds, Excused, Obliged, InLog, RedoFrom
<1>4. \A S, q : HeldBy(S, q)' <=> HeldBy(S', q)
  BY <1>3 DEF HeldBy
<1>5. LoggedInv'
  BY <1>1 DEF LoggedInv, PassedOver
<1>6. mem \subseteq Recs
  BY DEF TypeOK
<1>7. MemInv'
  BY <1>1, <1>2, <1>3, <1>6 DEF MemInv, PassedOver
<1>8. DiskInv'
  BY <1>1, <1>3, <1>4 DEF DiskInv
<1>9. MadeInv'
  <2> SUFFICES ASSUME ~racyRead, NEW r \in Recs, Obliged(r), TabOf(r) \notin tabList PROVE Excused(r)'
    BY <1>1, <1>3 DEF MadeInv
  <2>1. CASE Excused(r)
    BY <1>3, <2>1
  <2>2. CASE ~Excused(r)
    <3>1. PICK s \in mem : /\ TabOf(s) = TabOf(r)
                           /\ \A e : s \in e => r \in e \/ \E q \in e : <<r, q>> \in replaced
      BY <1>1, <2>2, HeldInMem
    <3>2. s \in exposed'
      BY <1>1, <1>6, <3>1 DEF PassedOver
    <3> QED
      BY <1>1, <3>1, <3>2 DEF Excused
  <2> QED
    BY <2>1, <2>2
<1>10. BatchInv'
  BY <1>1 DEF BatchInv
<1>11. HeldInv'
  BY <1>1, <1>3, <1>4 DEF HeldInv
<1>12. LaterInv'
  BY <1>1, <1>2 DEF LaterInv
<1>13. OrderInv'
  BY <1>1, <1>2, <1>3 DEF OrderInv
<1> QED
  BY <1>5, <1>7, <1>8, <1>9, <1>10, <1>11, <1>12, <1>13

\* A step of the task between the sync points.
LEMMA SameLogFacts ==
    ASSUME BaseInv, LogInv', Up, UNCHANGED logVars, UNCHANGED <<target, pc, replaced, owed>>,
           exposed \subseteq exposed'
    PROVE  /\ Bodies' = Bodies /\ Up'
           /\ \A q, p : Behind(q, p)' <=> Behind(q, p')
           /\ \A q : KeyOf(q)' = KeyOf(q) /\ TabOf(q)' = TabOf(q)
           /\ \A s, q : Holds(s, q)' <=> Holds(s, q)
           /\ \A q : Excused(q) => Excused(q)'
           /\ \A q : Obliged(q)' <=> Obliged(q)
           /\ RedoFrom' = RedoFrom /\ RedoFrom = curSyncPos
           /\ UNCHANGED <<curSyncPos, nextSyncPos, syncPhase, racyRead>>
           /\ LoggedInv => LoggedInv'
           /\ OrderInv => OrderInv'
<1>1. Bodies' = Bodies
  BY LogStays DEF SameLog, BaseInv
<1>2. UNCHANGED <<curSyncPos, nextSyncPos, syncPhase, racyRead>>
  BY DEF logVars
<1>3. /\ \A q, p : Behind(q, p)' <=> Behind(q, p')
      /\ \A q : KeyOf(q)' = KeyOf(q) /\ TabOf(q)' = TabOf(q)
      /\ \A s, q : Holds(s, q)' <=> Holds(s, q)
      /\ \A q : Excused(q) => Excused(q)'
      /\ \A q : Obliged(q)' <=> Obliged(q)
      /\ Up'
  BY <1>1, <1>2 DEF Behind, KeyOf, TabOf, Holds, Excused, Obliged, InLog, Up
<1>4. RedoFrom' = RedoFrom /\ RedoFrom = curSyncPos
  BY <1>2, <1>3 DEF RedoFrom
<1>5. LoggedInv => LoggedInv'
  BY <1>2, <1>3 DEF LoggedInv
<1>6. OrderInv => OrderInv'
  BY <1>1, <1>2, <1>3 DEF OrderInv
<1> QED
  BY <1>1, <1>2, <1>3, <1>4, <1>5, <1>6

LEMMA SyncTableCover ==
    ASSUME BaseInv, LogInv', CoverInv, NEW t \in Tables, SyncTable(t)
    PROVE  CoverInv'
<1> USE DEF BaseInv, CoverInv
<1>1. /\ UNCHANGED logVars /\ UNCHANGED <<target, pc, mem, disk, stuck, exposed, replaced, owed>>
      /\ Up /\ batch = {} /\ tabList' = tabList \ {t}
      /\ batch' \subseteq DirtyOf(t) /\ (syncPhase = "made" => batch' = DirtyOf(t))
      /\ mem \subseteq Recs
  BY DEF SyncTable, CtlInv, TypeOK
<1>2. /\ Bodies' = Bodies /\ Up'
      /\ \A q, p : Behind(q, p)' <=> Behind(q, p')
      /\ \A q : KeyOf(q)' = KeyOf(q) /\ TabOf(q)' = TabOf(q)
      /\ \A s, q : Holds(s, q)' <=> Holds(s, q)
      /\ \A q : Excused(q) => Excused(q)'
      /\ \A q : Obliged(q)' <=> Obliged(q)
      /\ RedoFrom' = RedoFrom
      /\ UNCHANGED <<curSyncPos, nextSyncPos, syncPhase, racyRead>>
      /\ LoggedInv' /\ OrderInv'
  BY <1>1, SameLogFacts
<1>3. \A S, q : HeldBy(S, q)' <=> HeldBy(S', q)
  BY <1>2 DEF HeldBy
<1>4. /\ DirtyOf(t) \subseteq mem
      /\ \A s \in mem : TabOf(s) = t => s \in DirtyOf(t) \/ s \in disk \cup exposed
  BY <1>1 DEF DirtyOf, Dirty, PageInv
<1>5. MemInv'
  BY <1>1, <1>2, <1>4 DEF MemInv
<1>6. DiskInv'
  BY <1>1, <1>2, <1>3 DEF DiskInv
<1>7. MadeInv'
  <2> SUFFICES ASSUME ~racyRead, syncPhase = "made", NEW r \in Recs, Obliged(r), ~Excused(r),
                      TabOf(r) \notin tabList'
               PROVE  Behind(r, nextSyncPos) \/ HeldBy(disk, r) \/ HeldBy(batch', r)
    BY <1>1, <1>2, <1>3 DEF MadeInv
  <2>1. CASE TabOf(r) = t
    <3>1. PICK s \in mem : Holds(s, r) /\ TabOf(s) = TabOf(r) /\ s \notin exposed
      BY <1>1, HeldInMem
    <3> QED
      BY <1>1, <1>4, <2>1, <3>1 DEF HeldBy
  <2>2. CASE TabOf(r) # t
    <3>1. ~HeldBy(batch, r) /\ TabOf(r) \notin tabList
      BY <1>1, <2>2 DEF HeldBy
    <3> QED
      BY <3>1 DEF MadeInv
  <2> QED
    BY <2>1, <2>2
<1>8. BatchInv'
  <2> SUFFICES ASSUME ~racyRead, NEW r \in Recs, NEW x \in batch', Obliged(r), ~Excused(r), KeyOf(x) = KeyOf(r)
               PROVE  Holds(x, r)
    BY <1>1, <1>2 DEF BatchInv
  <2>1. PICK s \in mem : Holds(s, r) /\ KeyOf(s) = KeyOf(r)
    BY <1>1, HeldInMem
  <2>2. s = x
    BY <1>1, <1>4, <2>1 DEF PageInv, KeyUnique
  <2> QED
    BY <2>1, <2>2
<1>9. HeldInv'
  BY <1>1, <1>2, <1>3 DEF HeldInv
<1>10. LaterInv'
  BY <1>1, <1>2 DEF LaterInv
<1> QED
  BY <1>2, <1>5, <1>6, <1>7, <1>8, <1>9, <1>10

LEMMA WriteCover ==
    ASSUME BaseInv, LogInv', CoverInv, NEW x \in Recs, WritePage(x)
    PROVE  CoverInv'
<1> USE DEF BaseInv, CoverInv
<1>1. /\ UNCHANGED logVars /\ UNCHANGED <<target, pc, mem, tabList, exposed, replaced, owed>>
      /\ Up /\ x \in batch /\ disk' = Put(disk, {x}) /\ batch' = batch \ {x}
  BY DEF WritePage, CtlInv, syncVars
<1>2. /\ Bodies' = Bodies /\ Up'
      /\ \A q, p : Behind(q, p)' <=> Behind(q, p')
      /\ \A q : KeyOf(q)' = KeyOf(q) /\ TabOf(q)' = TabOf(q)
      /\ \A s, q : Holds(s, q)' <=> Holds(s, q)
      /\ \A q : Excused(q) => Excused(q)'
      /\ \A q : Obliged(q)' <=> Obliged(q)
      /\ RedoFrom' = RedoFrom /\ RedoFrom = curSyncPos
      /\ UNCHANGED <<curSyncPos, nextSyncPos, syncPhase, racyRead>>
      /\ LoggedInv' /\ OrderInv'
  BY <1>1, SameLogFacts
<1>3. \A S, q : HeldBy(S, q)' <=> HeldBy(S', q)
  BY <1>2 DEF HeldBy
<1>4. x \in disk' /\ \A s \in disk : s \in disk' \/ KeyOf(s) = KeyOf(x)
  BY <1>1, PutFacts
<1>5. \A r \in mem \cap disk : r \in disk'
  BY <1>1, <1>4 DEF PageInv
<1>6. MemInv'
  BY <1>1, <1>2, <1>4, <1>5 DEF MemInv
<1>7. ASSUME NEW r \in Recs, ~racyRead, Obliged(r), ~Excused(r), HeldBy(disk, r)
      PROVE  \/ Behind(r, curSyncPos) /\ (syncPhase = "made" => Behind(r, nextSyncPos))
             \/ HeldBy(disk', r)
  <2>1. PICK s \in disk : Holds(s, r)
    BY <1>7 DEF HeldBy
  <2>2. CASE s \in disk'
    BY <2>1, <2>2 DEF HeldBy
  <2>3. CASE s \notin disk'
    <3>1. KeyOf(x) = KeyOf(r)
      BY <1>4, <2>1, <2>3 DEF Holds
    <3> QED
      BY <1>1, <1>4, <1>7, <3>1 DEF BatchInv, HeldBy
  <2> QED
    BY <2>2, <2>3
<1>8. DiskInv'
  <2> SUFFICES ASSUME ~racyRead, NEW r \in Recs, Obliged(r), ~Excused(r)
               PROVE  Behind(r, curSyncPos) \/ HeldBy(disk', r)
    BY <1>1, <1>2, <1>3 DEF DiskInv
  <2> QED
    BY <1>2, <1>7 DEF DiskInv
<1>9. MadeInv'
  <2> SUFFICES ASSUME ~racyRead, syncPhase = "made", NEW r \in Recs, Obliged(r), ~Excused(r)
               PROVE  \/ Behind(r, nextSyncPos) \/ HeldBy(disk', r) \/ HeldBy(batch', r)
                      \/ TabOf(r) \in tabList
    BY <1>1, <1>2, <1>3 DEF MadeInv
  <2>1. HeldBy(batch, r) => HeldBy(batch', r) \/ HeldBy(disk', r)
    BY <1>1, <1>4 DEF HeldBy
  <2> QED
    BY <1>7, <2>1 DEF MadeInv
<1>10. BatchInv'
  BY <1>1, <1>2 DEF BatchInv
<1>11. HeldInv'
  BY <1>1, <1>2, <1>3 DEF HeldInv
<1>12. LaterInv'
  BY <1>1, <1>2 DEF LaterInv
<1> QED
  BY <1>2, <1>6, <1>8, <1>9, <1>10, <1>11, <1>12

LEMMA WriteFailsCover ==
    ASSUME BaseInv, LogInv', CoverInv, WriteFails
    PROVE  CoverInv'
<1> USE DEF BaseInv, CoverInv
<1> DEFINE off == {s \in mem : \E r \in batch : KeyOf(s) = KeyOf(r)}
<1>1. /\ UNCHANGED logVars /\ UNCHANGED <<target, pc, mem, disk, tabList, replaced, owed>>
      /\ Up /\ exposed' = exposed \cup off /\ batch' = {}
  BY DEF WriteFails, CtlInv, syncVars
<1>2. /\ Bodies' = Bodies /\ Up'
      /\ \A q, p : Behind(q, p)' <=> Behind(q, p')
      /\ \A q : KeyOf(q)' = KeyOf(q) /\ TabOf(q)' = TabOf(q)
      /\ \A s, q : Holds(s, q)' <=> Holds(s, q)
      /\ \A q : Excused(q) => Excused(q)'
      /\ \A q : Obliged(q)' <=> Obliged(q)
      /\ RedoFrom' = RedoFrom
      /\ UNCHANGED <<curSyncPos, nextSyncPos, syncPhase, racyRead>>
      /\ LoggedInv' /\ OrderInv'
  BY <1>1, SameLogFacts
<1>3. \A S, q : HeldBy(S, q)' <=> HeldBy(S', q)
  BY <1>2 DEF HeldBy
<1>4. MemInv'
  BY <1>1, <1>2 DEF MemInv
<1>5. DiskInv'
  BY <1>1, <1>2, <1>3 DEF DiskInv
<1>6. MadeInv'
  <2> SUFFICES ASSUME ~racyRead, syncPhase = "made", NEW r \in Recs, Obliged(r), ~Excused(r)', ~Excused(r),
                      HeldBy(batch, r)
               PROVE  FALSE
    BY <1>1, <1>2, <1>3 DEF MadeInv
  <2>1. PICK x \in batch : KeyOf(x) = KeyOf(r)
    BY DEF HeldBy, Holds
  <2>2. PICK s \in mem : /\ KeyOf(s) = KeyOf(r)
                         /\ \A e : s \in e => r \in e \/ \E q \in e : <<r, q>> \in replaced
    BY <1>1, HeldInMem
  <2>3. s \in exposed'
    BY <1>1, <2>1, <2>2
  <2> QED
    BY <1>1, <2>2, <2>3 DEF Excused
<1>7. BatchInv'
  BY <1>1 DEF BatchInv
<1>8. HeldInv'
  BY <1>1, <1>2, <1>3 DEF HeldInv
<1>9. LaterInv'
  BY <1>1, <1>2 DEF LaterInv
<1> QED
  BY <1>2, <1>4, <1>5, <1>6, <1>7, <1>8, <1>9

\* The sync point that is committed covers what MemInv and MadeInv say.
LEMMA CommitCover ==
    ASSUME BaseInv, LogInv', CoverInv, EndSync, CommitSyncPoint
    PROVE  CoverInv'
<1> USE DEF BaseInv, CoverInv
<1>1. /\ UNCHANGED <<target, pc, mem, disk, batch, tabList, exposed, replaced, owed, racyRead>>
      /\ Up /\ Up' /\ syncPhase = "made" /\ syncPhase' = "point" /\ curSyncPos' = nextSyncPos
      /\ batch = {} /\ tabList = {}
  BY DEF EndSync, CommitSyncPoint, Up
<1>2. Bodies' = Bodies
  BY <1>1, LogStays DEF SameLog
<1>3. /\ \A q, p : Behind(q, p)' <=> Behind(q, p')
      /\ \A q : KeyOf(q)' = KeyOf(q) /\ TabOf(q)' = TabOf(q)
      /\ \A s, q : Holds(s, q)' <=> Holds(s, q)
      /\ \A q : Excused(q) => Excused(q)'
      /\ \A q : Obliged(q)' <=> Obliged(q)
      /\ RedoFrom' = nextSyncPos
  BY <1>1, <1>2 DEF Behind, KeyOf, TabOf, Holds, Excused, Obliged, InLog, RedoFrom
<1>4. \A S, q : HeldBy(S, q)' <=> HeldBy(S', q)
  BY <1>3 DEF HeldBy
<1>5. LoggedInv'
  BY <1>1, <1>3 DEF LoggedInv
<1>6. MemInv'
  BY <1>1, <1>2, <1>3 DEF MemInv
<1>7. DiskInv'
  BY <1>1, <1>3, <1>4 DEF DiskInv, MadeInv, HeldBy
<1>8. MadeInv' /\ BatchInv'
  BY <1>1 DEF MadeInv, BatchInv
<1>9. HeldInv'
  BY <1>1, <1>3, <1>4 DEF HeldInv
<1>10. LaterInv'
  BY <1>1, <1>2 DEF LaterInv
<1>11. OrderInv'
  BY <1>1, <1>2, <1>3 DEF OrderInv
<1> QED
  BY <1>5, <1>6, <1>7, <1>8, <1>9, <1>10, <1>11

LEMMA RemoveCover ==
    ASSUME BaseInv, LogInv', CoverInv, FinishSyncPoint, RemoveExpiredLog
    PROVE  CoverInv'
<1> USE DEF BaseInv, CoverInv
<1>1. /\ UNCHANGED <<target, pc, mem, disk, batch, tabList, exposed, replaced, owed, racyRead>>
      /\ Up /\ Up' /\ syncPhase = "expire" /\ syncPhase' = "expire" /\ curSyncPos' = curSyncPos
      /\ batch = {}
  BY DEF FinishSyncPoint, RemoveExpiredLog, Up, CtlInv, syncVars
<1>2. /\ Subset(Bodies', Bodies) /\ SyncedPlaces' = SyncedPlaces \cap DOMAIN Bodies'
      /\ \A a \in DOMAIN Bodies \ DOMAIN Bodies' :
            Pos(a) <= curSyncPos /\ \A b \in DOMAIN Bodies' : RedoBefore(a, b)
  BY RemoveBodies DEF LogInv
<1>3. /\ \A q : KeyOf(q)' = KeyOf(q) /\ TabOf(q)' = TabOf(q)
      /\ \A s, q : Holds(s, q)' <=> Holds(s, q)
      /\ \A q : Excused(q)' <=> Excused(q)
      /\ RedoFrom' = RedoFrom /\ RedoFrom = curSyncPos
  BY <1>1 DEF KeyOf, TabOf, Holds, Excused, RedoFrom
<1>4. \A S, q : HeldBy(S, q)' <=> HeldBy(S', q)
  BY <1>3 DEF HeldBy
<1>5. \A r \in Recs : Obliged(r)' => Obliged(r)
  <2>1. SyncedPlaces' \subseteq DOMAIN Bodies'
    BY <1>2
  <2> QED
    BY <1>1, <1>2, <2>1, SameObliged
<1>6. /\ \A a \in DOMAIN Bodies : Bodies[a] \in Recs /\ Pos(a) \in Nat
      /\ \A a, b \in DOMAIN Bodies : RedoBefore(a, b) => Pos(a) < Pos(b)
      /\ curSyncPos \in Nat
  <2>1. WellFormed(Units) /\ DOMAIN Bodies = BodyPlaces(Units)
    BY UnitsWellFormed DEF LogInv, Bodies, BodiesOf
  <2>2. \A a, b \in DOMAIN Bodies : RedoBefore(a, b) => Pos(a) < Pos(b)
    BY <2>1, PlaceOrder
  <2> QED
    BY <2>2, BodiesTyped DEF TypeOK, LogTypeOK
<1>7. ASSUME NEW r, Behind(r, curSyncPos) PROVE Behind(r, curSyncPos)'
  <2>1. PICK a \in DOMAIN Bodies : Bodies[a] = r /\ Pos(a) > curSyncPos
    BY <1>7 DEF Behind
  <2>2. a \in DOMAIN Bodies'
    BY <1>2, <1>6, <2>1
  <2> QED
    BY <1>1, <1>2, <2>1, <2>2 DEF Behind, Subset
<1>8. LoggedInv'
  BY <1>1, <1>7 DEF LoggedInv
<1>9. MemInv'
  BY <1>1, <1>2, <1>3 DEF MemInv, Subset
<1>10. DiskInv'
  BY <1>1, <1>3, <1>4, <1>5, <1>7 DEF DiskInv
<1>11. MadeInv' /\ BatchInv'
  BY <1>1 DEF MadeInv, BatchInv
<1>12. HeldInv'
  BY <1>1, <1>3, <1>4, <1>5 DEF HeldInv
<1>13. LaterInv'
  BY <1>1, <1>2 DEF LaterInv, Subset
<1>14. OrderInv'
  <2> SUFFICES ASSUME ~racyRead, NEW a \in DOMAIN Bodies', NEW r \in Recs,
                      <<Bodies'[a], r>> \in replaced, Obliged(r)', r \notin exposed
               PROVE  Behind(r, Pos(a))'
    BY <1>1 DEF OrderInv
  <2>1. a \in DOMAIN Bodies /\ Bodies'[a] = Bodies[a]
    BY <1>2 DEF Subset
  <2>2. PICK b \in DOMAIN Bodies : Bodies[b] = r /\ Pos(b) > Pos(a)
    BY <1>5, <2>1 DEF OrderInv, Behind
  <2>3. b \in DOMAIN Bodies'
    BY <1>2, <1>6, <2>1, <2>2
  <2> QED
    BY <1>2, <2>2, <2>3 DEF Behind, Subset
<1> QED
  BY <1>8, <1>9, <1>10, <1>11, <1>12, <1>13, <1>14

LEMMA RedoFromTyped == LogInv => RedoFrom \in Nat
BY RedoFromNat

\* The end of the process: nothing is in memory, and no Insert is under way.
LEMMA DownCover ==
    ASSUME BaseInv, LogInv', LoseMemory, syncPhase' = "down"
    PROVE  LoggedInv' /\ MemInv' /\ MadeInv' /\ BatchInv' /\ HeldInv' /\ LaterInv'
<1>1. mem' = {} /\ batch' = {} /\ ~Up'
  BY LoseMemoryFacts DEF Up
<1>2. \A r \in Recs : pc'[r] # "logged"
  BY DEF LoseMemory
<1>3. LoggedInv' /\ MemInv' /\ MadeInv' /\ BatchInv' /\ HeldInv'
  BY <1>1, <1>2 DEF LoggedInv, MemInv, MadeInv, BatchInv, HeldInv
<1>4. LaterInv'
  <2>1. (LogInv => \A a \in DOMAIN Bodies : Bodies[a] \in Recs /\ Pos(a) \in Nat)'
    BY BodiesTyped, PTL
  <2> QED
    BY <1>2, <2>1 DEF LaterInv
<1> QED
  BY <1>3, <1>4

LEMMA PowerCover ==
    ASSUME BaseInv, LogInv', CoverInv, PowerFailure
    PROVE  CoverInv'
<1> USE DEF BaseInv, CoverInv
<1>1. /\ LoseMemory /\ UNCHANGED <<target, disk, exposed, replaced, racyRead>> /\ Promise
      /\ Up /\ syncPhase' = "down" /\ Subset(Bodies', Bodies)
      /\ pc' = [r \in Recs |-> IF pc[r] \in {"logging", "logged"} THEN "failed" ELSE pc[r]]
  <2>1. Subset(Bodies', Bodies)
    BY CrashBodies, NoBodies DEF PowerFailure, LogInv, Subset
  <2> QED
    BY <2>1, LoseMemoryFacts DEF PowerFailure, Crash, RemoveUnderWriter, Die, LoseMemory, Up
<1>2. /\ \A q : KeyOf(q)' = KeyOf(q)
      /\ \A s, q : Holds(s, q)' <=> Holds(s, q)
      /\ \A q : Excused(q)' <=> Excused(q)
  BY <1>1 DEF KeyOf, Holds, Excused
<1>3. \A q : HeldBy(disk, q)' <=> HeldBy(disk, q)
  BY <1>1, <1>2 DEF HeldBy
<1>4. SyncedPlaces' = DOMAIN Bodies'
  BY CrashBodies, NoBodies DEF PowerFailure, LogInv
<1>5. \A r \in Recs : Obliged(r)' => Obliged(r)
  BY <1>1, <1>4, SameObliged
<1>6. ASSUME Crash, NEW r \in Recs, Obliged(r)', NEW a \in DOMAIN Bodies, Bodies[a] = r
      PROVE  a \in DOMAIN Bodies' /\ Bodies'[a] = r
  <2>1. SyncedPlaces \subseteq DOMAIN Bodies'
    BY <1>6, CrashBodies DEF LogInv
  <2>2. CASE r \in owed
    BY <1>1, <1>6, <2>1, <2>2 DEF OwedInv, Subset
  <2>3. CASE r \notin owed
    <3>1. r \in owed' => \E b \in SyncedPlaces' : Bodies'[b] = r
      BY <1>1, <2>3, PromiseOwed
    <3>2. PICK b \in DOMAIN Bodies' : Bodies'[b] = r
      BY <1>4, <1>6, <3>1 DEF Obliged, InLog
    <3> QED
      BY <1>1, <1>6, <3>2 DEF LogPcInv, Subset
  <2> QED
    BY <2>2, <2>3
<1>7. DiskInv'
  <2> SUFFICES ASSUME ~racyRead, NEW r \in Recs, Obliged(r)', ~Excused(r), ~HeldBy(disk, r)
               PROVE  Behind(r, RedoFrom)'
    BY <1>1, <1>2, <1>3 DEF DiskInv
  <2>1. PICK a \in DOMAIN Bodies : Bodies[a] = r /\ Pos(a) > curSyncPos
    BY <1>1, <1>5 DEF DiskInv, Behind, RedoFrom
  <2>2. Pos(a) \in Nat /\ curSyncPos \in Nat
    BY BodiesTyped DEF TypeOK, LogTypeOK
  <2>3. CASE Crash
    <3>1. RedoFrom' <= curSyncPos /\ RedoFrom' \in Nat
      <4>1. RedoFrom' <= curSyncPos
        BY <1>1, <2>3, CrashCut, RedoFromBelow DEF LogInv, Up
      <4>2. (LogInv => RedoFrom \in Nat)'
        BY RedoFromTyped, PTL
      <4> QED
        BY <4>1, <4>2
    <3>2. Pos(a) > RedoFrom'
      BY <2>1, <2>2, <3>1
    <3> QED
      BY <1>6, <2>1, <2>3, <3>2 DEF Behind
  <2>4. CASE RemoveUnderWriter
    <3>1. Pos(a) <= curSyncPos
      BY <2>4, NoBodies
    <3> QED
      BY <2>1, <2>2, <3>1
  <2> QED
    BY <2>3, <2>4 DEF PowerFailure
<1>8. OrderInv'
  <2>1. CASE Crash
    <3> SUFFICES ASSUME ~racyRead, NEW a \in DOMAIN Bodies', NEW r \in Recs,
                        <<Bodies'[a], r>> \in replaced, Obliged(r)', r \notin exposed
                 PROVE  Behind(r, Pos(a))'
      BY <1>1 DEF OrderInv
    <3>1. a \in DOMAIN Bodies /\ Bodies'[a] = Bodies[a]
      BY <1>1 DEF Subset
    <3>2. PICK b \in DOMAIN Bodies : Bodies[b] = r /\ Pos(b) > Pos(a)
      BY <1>5, <3>1 DEF OrderInv, Behind
    <3> QED
      BY <1>6, <2>1, <3>2 DEF Behind
  <2>2. CASE RemoveUnderWriter
    BY <2>2, NoBodies DEF OrderInv
  <2> QED
    BY <2>1, <2>2 DEF PowerFailure
<1> QED
  BY <1>1, <1>7, <1>8, DownCover

LEMMA StopCover ==
    ASSUME BaseInv, LogInv', CoverInv, Stop
    PROVE  CoverInv'
<1> USE DEF BaseInv, CoverInv
<1>1. /\ LoseMemory /\ UNCHANGED <<target, exposed, replaced, racyRead>>
      /\ Up /\ syncPhase' = "down" /\ DOMAIN Bodies' = {} /\ batch = {}
      /\ disk' = Put(disk, Dirty) /\ owed' = owed \cup {r \in mem : pc[r] = "acked"}
      /\ mem \subseteq Recs
  <2>1. DOMAIN Bodies' = {}
    BY NoBodies DEF Stop
  <2>2. ~syncing
    BY DEF Stop
  <2> QED
    BY <2>1, <2>2, LoseMemoryFacts DEF Stop, Shutdown, Die, Up, CtlInv, TypeOK
<1>2. /\ \A q : KeyOf(q)' = KeyOf(q)
      /\ \A s, q : Holds(s, q)' <=> Holds(s, q)
      /\ \A q : Excused(q)' <=> Excused(q)
  BY <1>1 DEF KeyOf, Holds, Excused
<1>3. \A s \in mem : s \in disk' \cup exposed
  <2> SUFFICES ASSUME NEW s \in mem, s \notin exposed, s \notin Dirty PROVE s \in disk'
    BY <1>1, PutFacts
  <2>1. s \in disk
    BY <1>1 DEF Dirty, PageInv
  <2>2. \A t \in Dirty : KeyOf(t) # KeyOf(s)
    BY DEF Dirty, PageInv, KeyUnique
  <2> QED
    BY <1>1, <2>1, <2>2, PutFacts
<1>4. DiskInv'
  <2> SUFFICES ASSUME ~racyRead, NEW r \in Recs, Obliged(r)', ~Excused(r)
               PROVE  HeldBy(disk, r)'
    BY <1>1, <1>2 DEF DiskInv
  <2>1. r \in owed \/ (r \in mem /\ pc[r] = "acked")
    BY <1>1 DEF Obliged, InLog
  <2>2. PICK s \in mem : Holds(s, r) /\ s \notin exposed
    <3>1. CASE r \in owed
      <4>1. Obliged(r)
        BY <3>1 DEF Obliged
      <4> QED
        BY <1>1, <4>1, HeldInMem
    <3>2. CASE r \in mem
      <4>1. Holds(r, r) /\ r \notin exposed
        BY DEF Holds, ReplInv, Excused
      <4> QED
        BY <3>2, <4>1
    <3> QED
      BY <2>1, <3>1, <3>2
  <2> QED
    BY <1>2, <1>3, <2>2 DEF HeldBy
<1>5. OrderInv'
  BY <1>1 DEF OrderInv
<1> QED
  BY <1>1, <1>4, <1>5, DownCover

LEMMA StartCover ==
    ASSUME BaseInv, LogInv', PagesInv', CoverInv, Start
    PROVE  CoverInv'
<1> USE DEF BaseInv, CoverInv
<1>1. PICK places, S :
              /\ places \subseteq DOMAIN Bodies
              /\ ~racyRead => places = {a \in DOMAIN Bodies : Pos(a) > RedoFrom}
              /\ Redone(places) \subseteq Recs /\ KeyUnique(Redone(places))
              /\ mem' = Put(disk, Redone(places))
              /\ S \subseteq Recs /\ S = disk \cup {Bodies[a] : a \in places}
              /\ \A q, r : <<q, r>> \in replaced' <=>
                    <<q, r>> \in replaced \/ (r \in Redone(places) /\ <<q, r>> \in Replaces(r, S))
  BY StartFacts
<1>2. PICK redone : redone = Redone(places)
  OBVIOUS
<1>3. /\ UNCHANGED <<target, pc, disk, batch, exposed, owed, racyRead>> /\ ~Up /\ Up'
      /\ syncPhase' = "idle" /\ curSyncPos' = RedoFrom /\ batch = {}
  BY StartRedoes DEF Start, RecoverLog, Up, CtlInv
<1>4. Bodies' = Bodies
  BY StartLogStays DEF Start, SameLog
<1>5. /\ \A a \in DOMAIN Bodies : Bodies[a] \in Recs /\ Pos(a) \in Nat
      /\ RedoFrom \in Nat /\ disk \subseteq Recs
      /\ \A r \in Recs : pc[r] # "logged"
  BY <1>3, BodiesTyped, RedoFromNat DEF TypeOK, CtlInv
<1>6. /\ \A q, p : Behind(q, p)' <=> Behind(q, p')
      /\ \A q : KeyOf(q)' = KeyOf(q)
      /\ \A q : Excused(q) => Excused(q)'
      /\ \A q : Obliged(q)' <=> Obliged(q)
      /\ RedoFrom' = RedoFrom
  <2>1. RedoFrom' = RedoFrom
    BY <1>3 DEF RedoFrom
  <2>2. \A q : Excused(q) => Excused(q)'
    BY <1>1, <1>3 DEF Excused
  <2> QED
    BY <1>3, <1>4, <2>1, <2>2 DEF Behind, KeyOf, Obliged, InLog
\* The places from which a record is redone, and the last one of each key.
<1>7. /\ redone \subseteq mem' /\ mem' \subseteq disk \cup redone
      /\ \A s \in disk : s \in mem' \/ \E x \in redone : KeyOf(x) = KeyOf(s)
  BY <1>1, <1>2, PutFacts
<1>8. \A a \in places : \E x \in redone : KeyOf(x) = KeyOf(Bodies[a])
  BY <1>1, <1>2, LastPlace
<1>9. \A x \in redone : \E c \in places :
          /\ Bodies[c] = x
          /\ \A b \in places : KeyOf(Bodies[b]) = KeyOf(x) => Pos(b) <= Pos(c)
  BY <1>1, <1>2, RedoneLast
<1>10. ASSUME NEW q, NEW r, <<q, r>> \in replaced', <<q, r>> \notin replaced
       PROVE  /\ r \in redone /\ q \in Recs /\ q # r /\ KeyOf(q) = KeyOf(r)
  BY <1>1, <1>2, <1>10, NewPairs
\* A record that is redone behind r is not one that r replaced.
<1>11. ASSUME ~racyRead, NEW r \in Recs, Obliged(r), ~Excused(r), NEW x \in redone, KeyOf(x) = KeyOf(r), x # r
       PROVE  <<x, r>> \notin replaced'
  <2>1. PICK c \in places :
          Bodies[c] = x /\ \A b \in places : KeyOf(Bodies[b]) = KeyOf(x) => Pos(b) <= Pos(c)
    BY <1>9
  <2>2. ASSUME <<x, r>> \in replaced PROVE FALSE
    <3>1. Behind(r, Pos(c))
      BY <1>1, <1>11, <2>1, <2>2 DEF OrderInv, Excused
    <3>2. PICK b \in DOMAIN Bodies : Bodies[b] = r /\ Pos(b) > Pos(c)
      BY <3>1 DEF Behind
    <3>3. Pos(c) > RedoFrom /\ c \in DOMAIN Bodies
      BY <1>1, <1>11, <2>1
    <3>4. Pos(b) > RedoFrom
      BY <1>5, <3>2, <3>3
    <3>5. b \in places
      BY <1>1, <1>11, <3>2, <3>4
    <3>6. Pos(b) <= Pos(c) /\ Pos(b) \in Nat /\ Pos(c) \in Nat
      BY <1>5, <1>11, <2>1, <3>2, <3>3, <3>5
    <3> QED
      BY <3>2, <3>6
  <2>3. ASSUME <<x, r>> \in replaced', <<x, r>> \notin replaced PROVE FALSE
    <3>1. r \in redone
      BY <1>10, <2>3
    <3> QED
      BY <1>1, <1>2, <1>11, <3>1 DEF KeyUnique
  <2> QED
    BY <2>2, <2>3
<1>12. LoggedInv'
  BY <1>3, <1>5 DEF LoggedInv
<1>13. MemInv'
  <2> SUFFICES ASSUME ~racyRead, NEW a \in DOMAIN Bodies, Bodies[a] \in mem', Pos(a) <= RedoFrom
               PROVE  Bodies[a] \in disk
    BY <1>3, <1>4 DEF MemInv
  <2> SUFFICES ASSUME Bodies[a] \in redone PROVE FALSE
    BY <1>7
  <2>1. PICK c \in places : Bodies[c] = Bodies[a]
    BY <1>9
  <2>2. c = a /\ Pos(a) > RedoFrom
    BY <1>1, <2>1 DEF LogPcInv
  <2> QED
    BY <1>5, <2>2
<1>14. DiskInv'
  <2> SUFFICES ASSUME ~racyRead, NEW r \in Recs, Obliged(r), ~Excused(r), ~Behind(r, RedoFrom)
               PROVE  HeldBy(disk, r)'
    BY <1>3, <1>6 DEF DiskInv
  <2>1. PICK s \in disk : Holds(s, r)
    BY DEF DiskInv, HeldBy
  <2>2. <<s, r>> \notin replaced'
    <3> SUFFICES ASSUME r \in redone PROVE FALSE
      BY <1>10, <2>1 DEF Holds
    <3>1. PICK c \in places : Bodies[c] = r
      BY <1>9
    <3> QED
      BY <1>1, <3>1 DEF Behind
  <2>3. Holds(s, r)'
    BY <1>1, <1>6, <2>1, <2>2 DEF Holds
  <2> QED
    BY <1>3, <2>1, <2>3 DEF HeldBy
<1>15. MadeInv' /\ BatchInv'
  BY <1>3 DEF MadeInv, BatchInv
<1>16. HeldInv'
  <2> SUFFICES ASSUME ~racyRead, NEW r \in Recs, Obliged(r), ~Excused(r)
               PROVE  HeldBy(mem, r)'
    BY <1>3, <1>6 DEF HeldInv
  <2>1. <<r, r>> \notin replaced'
    BY <1>10 DEF ReplInv
  <2>2. CASE r \in redone
    BY <1>7, <2>1, <2>2 DEF HeldBy, Holds
  <2>3. CASE r \notin redone /\ \E x \in redone : KeyOf(x) = KeyOf(r)
    <3>1. PICK x \in redone : KeyOf(x) = KeyOf(r)
      BY <2>3
    <3>2. x # r /\ x \in Recs /\ <<x, r>> \notin replaced'
      BY <1>1, <1>2, <1>11, <2>3, <3>1
    <3>3. <<r, x>> \in replaced'
      <4>1. CASE Behind(r, RedoFrom)
        <5>1. r \in S
          BY <1>1, <4>1 DEF Behind
        <5> QED
          BY <1>1, <1>2, <3>1, <3>2, <5>1, OldPairs
      <4>2. CASE HeldBy(disk, r)
        <5>1. PICK s \in disk : KeyOf(s) = KeyOf(r) /\ (s = r \/ <<r, s>> \in replaced)
          BY <4>2 DEF HeldBy, Holds
        <5>2. s \in S /\ KeyOf(s) = KeyOf(x)
          BY <1>1, <3>1, <5>1
        <5>3. CASE s = x
          BY <1>1, <3>2, <5>1, <5>3
        <5>4. CASE s # x
          BY <1>1, <1>2, <3>1, <3>2, <5>1, <5>2, <5>4, OldPairs
        <5> QED
          BY <5>3, <5>4
      <4> QED
        BY <4>1, <4>2 DEF DiskInv
    <3>4. Holds(x, r)'
      BY <1>6, <3>1, <3>2, <3>3 DEF Holds
    <3> QED
      BY <1>7, <3>1, <3>4 DEF HeldBy
  <2>4. CASE ~\E x \in redone : KeyOf(x) = KeyOf(r)
    <3>1. ~Behind(r, RedoFrom)
      BY <1>1, <1>8, <2>4 DEF Behind
    <3>2. PICK s \in disk : Holds(s, r)
      BY <3>1 DEF DiskInv, HeldBy
    <3>3. s \in mem' /\ KeyOf(s) = KeyOf(r)
      BY <1>7, <2>4, <3>2 DEF Holds
    <3>4. Holds(s, r)'
      BY <1>1, <1>6, <1>10, <2>4, <3>2 DEF Holds
    <3> QED
      BY <3>3, <3>4 DEF HeldBy
  <2> QED
    BY <2>2, <2>3, <2>4
<1>17. LaterInv'
  BY <1>3, <1>4, <1>5 DEF LaterInv
<1>18. OrderInv'
  <2> SUFFICES ASSUME ~racyRead, NEW a \in DOMAIN Bodies, NEW r \in Recs,
                      <<Bodies[a], r>> \in replaced', Obliged(r), r \notin exposed
               PROVE  Behind(r, Pos(a))
    BY <1>3, <1>4, <1>6 DEF OrderInv
  <2>1. CASE <<Bodies[a], r>> \in replaced
    BY <2>1 DEF OrderInv
  <2>2. CASE <<Bodies[a], r>> \notin replaced
    <3>1. r \in redone /\ Bodies[a] # r /\ KeyOf(Bodies[a]) = KeyOf(r)
      BY <1>10, <2>2
    <3>2. PICK c \in places :
              Bodies[c] = r /\ \A b \in places : KeyOf(Bodies[b]) = KeyOf(r) => Pos(b) <= Pos(c)
      BY <1>9, <3>1
    <3>3. c \in DOMAIN Bodies /\ Pos(c) \in Nat /\ Pos(a) \in Nat /\ Pos(c) > RedoFrom
      BY <1>1, <1>5, <3>2
    <3>4. CASE a \in places
      <4>1. Pos(a) <= Pos(c) /\ a # c
        BY <3>1, <3>2, <3>4
      <4>2. Pos(a) # Pos(c)
        <5>1. WellFormed(Units) /\ DOMAIN Bodies = BodyPlaces(Units)
          BY UnitsWellFormed DEF LogInv, Bodies, BodiesOf
        <5> QED
          BY <3>3, <4>1, <5>1, PlaceOrder
      <4>3. Pos(c) > Pos(a)
        BY <3>3, <4>1, <4>2
      <4> QED
        BY <3>2, <3>3, <4>3 DEF Behind
    <3>5. CASE a \notin places
      <4>1. Pos(c) > Pos(a)
        BY <1>1, <1>5, <3>3, <3>5
      <4> QED
        BY <3>2, <3>3, <4>1 DEF Behind
    <3> QED
      BY <3>4, <3>5
  <2> QED
    BY <2>1, <2>2
<1> QED
  BY <1>12, <1>13, <1>14, <1>15, <1>16, <1>17, <1>18

LEMMA NextCover ==
    ASSUME BaseInv, LogInv', PagesInv', CoverInv, [Next]_vars
    PROVE  CoverInv'
<1> USE DEF BaseInv
<1>0. /\ pc \in [Recs -> {"new", "logging", "logged", "acked", "refused", "failed"}]
      /\ LaterInv /\ PointInvs /\ owed \subseteq Recs
  BY DEF TypeOK, CoverInv, PointInvs
<1>1. ASSUME UNCHANGED <<target, mem, disk, batch, replaced, exposed, curSyncPos, nextSyncPos, racyRead, Bodies, owed>>,
             Up' = Up, RedoFrom' = RedoFrom,
             syncPhase' = "made" => syncPhase = "made" /\ tabList' = tabList,
             \A r \in Recs : (pc'[r] = "logged" => pc[r] = "logged") /\ (pc'[r] = "acked" => pc[r] = "acked"),
             LaterInv'
      PROVE  CoverInv'
  <2>1. \A r \in Recs : Obliged(r)' => Obliged(r)
    BY <1>1 DEF Obliged, InLog
  <2> QED
    BY <1>0, <1>1, <2>1, QuietCover DEF PointInvs, CoverInv
<1>2. ASSUME UNCHANGED <<target, mem, disk, batch, replaced, exposed, owed, pc>>,
             Bodies' = Bodies, UNCHANGED <<curSyncPos, nextSyncPos, racyRead>>,
             Up' = Up, RedoFrom' = RedoFrom,
             syncPhase' = "made" => syncPhase = "made" /\ tabList' = tabList
      PROVE  CoverInv'
  <2>1. LaterInv'
    BY <1>0, <1>2 DEF LaterInv
  <2> QED
    BY <1>1, <1>2, <2>1
<1>3. ASSUME Up, Up', curSyncPos' = curSyncPos PROVE RedoFrom' = RedoFrom /\ Up' = Up
  BY <1>3 DEF RedoFrom
<1>4. ASSUME NEW r \in Recs, Insert(r) PROVE CoverInv'
  <2>1. /\ UNCHANGED <<target, mem, disk, batch, tabList, replaced, exposed, curSyncPos, nextSyncPos, racyRead, owed, syncPhase>>
        /\ Up /\ Up' /\ pc[r] = "new" /\ pc' = [pc EXCEPT ![r] = "logging"]
    BY <1>4 DEF Insert, BeginAppend, Running, Up, syncVars
  <2>2. Bodies' = Bodies
    BY <1>4, <2>1, LogStays DEF Insert, SameLog
  <2>3. LaterInv'
    <3>1. \A a \in DOMAIN Bodies : Bodies[a] \in Recs /\ pc[Bodies[a]] # "new"
      BY EndPosCovers DEF LogPcInv
    <3> QED
      BY <1>0, <2>1, <2>2, <3>1 DEF LaterInv
  <2>4. \A q \in Recs : (pc'[q] = "logged" => pc[q] = "logged") /\ (pc'[q] = "acked" => pc[q] = "acked")
    BY <1>0, <2>1
  <2> QED
    BY <1>1, <1>3, <2>1, <2>2, <2>3, <2>4
<1>5. ASSUME NEW r \in Recs, RefuseInsert(r) PROVE CoverInv'
  <2>1. /\ UNCHANGED logVars
        /\ UNCHANGED <<target, mem, disk, batch, tabList, replaced, exposed, owed>>
        /\ Up /\ pc[r] = "logged" /\ pc' = [pc EXCEPT ![r] = "refused"]
    BY <1>5 DEF RefuseInsert, Running, Up, syncVars
  <2>2. Bodies' = Bodies /\ UNCHANGED <<curSyncPos, nextSyncPos, racyRead, syncPhase>> /\ Up'
    BY <2>1, LogStays DEF SameLog, logVars, Up
  <2>3. LaterInv'
    <3>1. \A a \in DOMAIN Bodies : Bodies[a] \in Recs
      BY EndPosCovers
    <3>2. r \notin mem /\ \A s \in Recs : <<r, s>> \notin replaced
      BY <2>1 DEF FreshInv, Fresh
    <3> SUFFICES ASSUME NEW a \in DOMAIN Bodies, NEW b \in DOMAIN Bodies,
                        pc'[Bodies[a]] = "logged", Pos(a) < Pos(b)
                 PROVE  /\ pc'[Bodies[b]] \in {"logged", "acked", "refused"}
                        /\ pc'[Bodies[b]] = "refused" =>
                              Bodies[b] \notin mem /\ \A x \in Recs : <<Bodies[b], x>> \notin replaced
      BY <2>1, <2>2 DEF LaterInv
    <3>3. pc[Bodies[a]] = "logged"
      BY <1>0, <2>1, <3>1
    <3>4. CASE Bodies[b] = r
      BY <1>0, <2>1, <3>2, <3>4
    <3>5. CASE Bodies[b] # r
      <4>1. pc'[Bodies[b]] = pc[Bodies[b]]
        BY <1>0, <2>1, <3>1, <3>5
      <4> QED
        BY <1>0, <3>3, <4>1 DEF LaterInv
    <3> QED
      BY <3>4, <3>5
  <2>4. \A q \in Recs : (pc'[q] = "logged" => pc[q] = "logged") /\ (pc'[q] = "acked" => pc[q] = "acked")
    BY <1>0, <2>1
  <2> QED
    BY <1>1, <1>3, <2>1, <2>2, <2>3, <2>4
<1>6. CASE LogWriter
  <2>1. CASE \E r, e : Logs(r, e)
    BY <1>6, <2>1, LogsCover
  <2>2. CASE /\ pc' = pc /\ Bodies' = Bodies /\ SyncedPlaces \subseteq SyncedPlaces'
             /\ syncPhase' = syncPhase \/ (syncPhase = "append" /\ syncPhase' = "expire")
    <3>1. /\ UNCHANGED <<target, mem, disk, batch, tabList, replaced, exposed, curSyncPos, nextSyncPos, racyRead>>
          /\ Up /\ Up' /\ Promise
      BY <1>6, LogWriterCases DEF LogWriter, syncVars
    <3>2. \A r \in Recs : Obliged(r)' => Obliged(r)
      <4>1. Subset(Bodies', Bodies) /\ SyncedPlaces' \subseteq DOMAIN Bodies'
        BY <2>2 DEF Subset, SyncedPlaces
      <4> QED
        BY <2>2, <3>1, <4>1, SameObliged
    <3>3. LaterInv'
      BY <1>0, <2>2, <3>1 DEF LaterInv
    <3>4. syncPhase' = "made" => syncPhase = "made" /\ tabList' = tabList
      BY <2>2, <3>1
    <3>5. PointInvs'
      BY <1>0, <1>3, <2>2, <3>1, <3>2, <3>4, QuietCover
    <3> QED
      BY <3>3, <3>5 DEF PointInvs, CoverInv
  <2> QED
    BY <1>6, <2>1, <2>2, LogWriterCases
<1>7. ASSUME SameLog, UNCHANGED <<target, mem, disk, batch, replaced, exposed, owed, pc>>,
             UNCHANGED <<curSyncPos, nextSyncPos, racyRead>>, Up, Up',
             syncPhase' = "made" => syncPhase = "made" /\ tabList' = tabList
      PROVE  CoverInv'
  BY <1>2, <1>3, <1>7 DEF SameLog
<1>8. ASSUME UNCHANGED logVars, Up PROVE SameLog /\ UNCHANGED <<curSyncPos, nextSyncPos, racyRead, syncPhase>> /\ Up'
  BY <1>8, LogStays DEF logVars, Up
<1>9. ASSUME NEW t \in Tables, CreateTable(t) PROVE CoverInv'
  BY <1>7, <1>8, <1>9 DEF CreateTable, Running, Up, syncVars
<1>10. CASE SyncCmtLog
  <2>1. SyncLogFile
    BY <1>10 DEF SyncCmtLog
  <2>2. Up
    BY <2>1 DEF SyncLogFile, LogInv, ShapeInv, CodeInv, Up
  <2>3. SameLog /\ Up'
    BY <2>1, <2>2, LogStays DEF SyncLogFile, Up
  <2> QED
    BY <1>7, <1>10, <2>1, <2>2, <2>3 DEF SyncCmtLog, SyncLogFile, syncVars
<1>11. ASSUME NEW all \in BOOLEAN, BeginSync(all) PROVE CoverInv'
  <2>1. UNCHANGED logVars /\ Up /\ syncPhase = "idle"
        /\ UNCHANGED <<target, mem, disk, batch, replaced, exposed, owed, pc>>
    BY <1>11 DEF BeginSync, Running, Up
  <2> QED
    BY <1>7, <1>8, <2>1
<1>12. CASE EndSync
  <2>1. CASE CommitSyncPoint
    BY <1>12, <2>1, CommitCover
  <2>2. CASE UNCHANGED logVars
    BY <1>7, <1>8, <1>12, <2>2 DEF EndSync, CtlInv
  <2> QED
    BY <1>12, <2>1, <2>2 DEF EndSync
<1>13. CASE FinishSyncPoint
  <2>1. CASE RemoveExpiredLog
    BY <1>13, <2>1, RemoveCover
  <2>2. CASE AppendPoint
    <3>1. SameLog
      BY <2>2, LogStays DEF AppendPoint, Up
    <3> QED
      BY <1>7, <1>13, <2>2, <3>1 DEF FinishSyncPoint, AppendPoint, BeginAppend, Up
  <2>3. CASE RemoveExpiredLogDone
    <3>1. SameLog
      BY <2>3, LogStays DEF RemoveExpiredLogDone, Up
    <3> QED
      BY <1>7, <1>13, <2>3, <3>1 DEF FinishSyncPoint, RemoveExpiredLogDone, Up
  <2> QED
    BY <1>13, <2>1, <2>2, <2>3 DEF FinishSyncPoint
<1>14. CASE UNCHANGED vars
  <2>1. file' = file /\ syncPhase' = syncPhase /\ UNCHANGED <<curSyncPos, nextSyncPos, racyRead>>
        /\ UNCHANGED <<target, mem, disk, batch, tabList, replaced, exposed, owed, pc>>
    BY <1>14 DEF vars, logVars, syncVars
  <2>2. Bodies' = Bodies
    <3>1. Units' = Units
      BY <2>1 DEF Units, Codes
    <3> QED
      BY <2>1, <3>1, SameUnits
  <2>3. Up' = Up /\ RedoFrom' = RedoFrom
    BY <2>1, SameRedoFrom DEF Up
  <2> QED
    BY <1>2, <2>1, <2>2, <2>3
<1> QED
  BY <1>4, <1>5, <1>6, <1>9, <1>10, <1>11, <1>12, <1>13, <1>14, ApplyCover, TakeCover, SyncTableCover,
     WriteCover, WriteFailsCover, PowerCover, StopCover, StartCover DEF Next, SyncStep

-----------------------------------------------------------------------------
(* The theorems.                                                            *)

LEMMA NextInv == IInv /\ [Next]_vars => IInv'
<1> SUFFICES ASSUME IInv, [Next]_vars PROVE IInv'
  OBVIOUS
<1>1. LogInv'
  BY StepIsLogStep, NextLogInv DEF IInv, BaseInv
<1>2. BaseInv' /\ PagesInv'
  BY <1>1, NextBase, NextPages DEF IInv
<1>3. CoverInv'
  BY <1>1, <1>2, NextCover DEF IInv
<1> QED
  BY <1>2, <1>3 DEF IInv

LEMMA InsertInvariance == Spec => []IInv
<1>1. Init => IInv
  BY InitInv
<1>2. IInv /\ [Next]_vars => IInv'
  BY NextInv
<1> QED
  BY <1>1, <1>2, PTL DEF Spec

\* Every variable of the server and its log keeps its type, whatever the order
\* of Inserts, syncs, crashes and starts.
THEOREM TypesCorrect == Spec => []TypeOK
<1>1. IInv => TypeOK
  BY DEF IInv, BaseInv
<1> QED
  BY <1>1, InsertInvariance, PTL

\* What MakeSyncPoint, SyncDirtyPages and CommitSyncPoint promise: a committed
\* sync point covers nothing that is not on disk, for every number of records,
\* tables, log files and crashes.
THEOREM SyncPointsCover == Spec => []SyncPointCovers
<1>1. IInv => SyncPointCovers
  <2> SUFFICES ASSUME IInv, ~racyRead, NEW k \in Codes, NEW i \in 1 .. Len(file[k].units),
                      AcceptedAt(k, i), BeginPos(k) + i <= curSyncPos
               PROVE  file[k].units[i].r \in disk \cup exposed
    BY DEF SyncPointCovers
  <2>1. PICK a : a = <<k, i>>
    OBVIOUS
  <2>2. a[1] = k /\ a[2] = i /\ LogInv
    BY <2>1 DEF IInv, BaseInv
  <2>3. i \in 1 .. LogFileSize /\ i <= Len(file[k].units)
    <3>1. WellFormed(Units) /\ DOMAIN Units = Codes /\ Units[k] = file[k].units
      BY <2>2, UnitsWellFormed DEF LogInv, Units
    <3>2. Len(file[k].units) \in Nat /\ Len(file[k].units) < LogFileSize
      BY <3>1 DEF WellFormed
    <3> QED
      BY <3>2, SizesAssumption
  <2>4. a \in RecPlaces
    BY <2>1, <2>2, <2>3 DEF RecPlaces, AcceptedAt
  <2>5. a \in DOMAIN Bodies /\ Bodies[a] = file[k].units[i].r
    BY <2>2, <2>4, RecPlacesTyped DEF RecAt
  <2>6. Bodies[a] \in mem /\ Pos(a) <= curSyncPos
    BY <2>2, <2>5 DEF AcceptedAt, Pos
  <2> QED
    BY <2>5, <2>6 DEF IInv, CoverInv, MemInv
<1> QED
  BY <1>1, InsertInvariance, PTL

\* A crash neither loses a record that was acknowledged and durable nor brings
\* back one that it replaced, save those that the code exposes: for every
\* number of records and tables, and every sequence of crashes, stops and
\* starts (PDBTable::Insert, SyncDirtyPages, RecoverDataLog).
THEOREM NoInsertLost == Spec => []NoDurableLoss
<1>1. IInv => NoDurableLoss
  <2> SUFFICES ASSUME IInv, Running, ~racyRead, NEW r \in owed
               PROVE  Excused(r) \/ StillThere(r)
    BY DEF NoDurableLoss
  <2>1. r \in Recs /\ Obliged(r) /\ Up
    BY DEF Obliged, Running, Up, IInv, BaseInv, TypeOK
  <2>2. Excused(r) \/ HeldBy(mem, r)
    BY <2>1 DEF IInv, CoverInv, HeldInv
  <2>3. HeldBy(mem, r) => StillThere(r)
    BY DEF HeldBy, Holds, StillThere
  <2> QED
    BY <2>2, <2>3
<1> QED
  BY <1>1, InsertInvariance, PTL
=============================================================================
