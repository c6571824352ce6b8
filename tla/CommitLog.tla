----------------------------- MODULE CommitLog -----------------------------
(***************************************************************************)
(* The commit log (src/pinusdb/commitlog): the numbered files *.cmt, the   *)
(* write buffer of the newest one, the sync points and the redo scan.      *)
(*                                                                         *)
(* File k covers the positions [(k-1)*LogFileSize, k*LogFileSize).  A file *)
(* is a sequence of units: its header and every SYNC_INFO record are one   *)
(* unit that carries a sync position; an insert record is two, the record  *)
(* head and the record body, which AppendRecord appends one after the      *)
(* other.  Every operation that writes holds logMutex_ from its first to   *)
(* its last step, so the one running is the value of logOp; MakeSyncPoint  *)
(* reads the end of the newest file without that mutex, between any two of *)
(* these steps.                                                            *)
(***************************************************************************)
EXTENDS Integers, Sequences

CONSTANTS
    Recs,             \* the insert records
    LogFileSize,      \* kCmtLogFileSize, in units
    WriteBufferSize,  \* kWritBufferSize, in units
    MaxFiles          \* bound: file codes are 1 .. MaxFiles

\* A file holds at least its header and one record, and the buffer something.
ASSUME SizesAssumption ==
    /\ LogFileSize \in Nat /\ LogFileSize >= 5
    /\ WriteBufferSize \in Nat \ {0}
    /\ MaxFiles \in Nat

VARIABLES
    file,          \* logFileVec_ and the files it names: code -> contents
    writeLog,      \* pWriteLog_, 0 for nullptr
    nextFileCode,
    curSyncPos,
    nextSyncPos,
    logOp,         \* the operation that holds logMutex_
    syncPhase,     \* where the caller of MakeSyncPoint/CommitSyncPoint is
    racyRead       \* history: some sync point was read inside a writing step

logVars == <<file, writeLog, nextFileCode, curSyncPos, nextSyncPos, logOp,
             syncPhase, racyRead>>

HeadUnit(p) == [t |-> "head", p |-> p]
SyncUnit(p) == [t |-> "sync", p |-> p]
RecHead(r)  == [t |-> "rec", r |-> r]
RecBody(r)  == [t |-> "body", r |-> r]

Unit == [t : {"head", "sync"}, p : Nat] \cup [t : {"rec", "body"}, r : Recs]

\* units: everything appended; the first size of them went to the operating
\* system, the first synced of them survive a power failure; pos is pos_.
FileState == [units : Seq(Unit), size : Nat, pos : Nat, synced : Nat, ro : BOOLEAN]

Codes == DOMAIN file

NoOp == [todo |-> <<>>, stage |-> "none", mid |-> FALSE]

BeginPos(k) == (k - 1) * LogFileSize                        \* GetFileBeginPos

\* Wrong ends, for the mutants: without the buffer, and of the buffer alone.
EndOfFlushed(k) == BeginPos(k) + file[k].size
EndOfBuffer(k) == BeginPos(k) + file[k].pos

EndPos(k) == BeginPos(k) + file[k].size + file[k].pos       \* GetFileEndPos

Front == CHOOSE k \in Codes : \A j \in Codes : k <= j
Back  == CHOOSE k \in Codes : \A j \in Codes : j <= k

-----------------------------------------------------------------------------
(* Writing.  An append, a roll to a new file and an fsync are the steps of  *)
(* one operation under logMutex_.                                           *)

\* For a mutant: a header that names the sync point to come.
NewFileAhead == [units |-> <<HeadUnit(nextSyncPos)>>, size |-> 0, pos |-> 1,
                 synced |-> 0, ro |-> FALSE]

\* CreateLogFile: the header is appended to the buffer, nothing is flushed.
NewFileState == [units |-> <<HeadUnit(curSyncPos)>>, size |-> 0, pos |-> 1,
                 synced |-> 0, ro |-> FALSE]

\* NewLogFile on top of the files f: push_back and pWriteLog_ = it.
NewLogFile(f) ==
    /\ nextFileCode <= MaxFiles
    /\ file' = [k \in Codes \cup {nextFileCode} |->
                    IF k = nextFileCode THEN NewFileState ELSE f[k]]
    /\ writeLog' = nextFileCode
    /\ nextFileCode' = nextFileCode + 1

\* Otherwise AppendRecord and AppendSync answer PdbE_LOGFILE_FULL.
Fits(units) == file[writeLog].size + file[writeLog].pos + Len(units) < LogFileSize

\* The start of AppendRec and AppendPoint: create the first file of this run,
\* or append to pWriteLog_, or close it (CloseWrite) and roll.
BeginAppend(units) ==
    /\ logOp = NoOp
    /\ \/ /\ writeLog = 0
          /\ NewLogFile(file)
          /\ logOp' = [todo |-> units, stage |-> "append", mid |-> FALSE]
       \/ /\ writeLog # 0
          /\ Fits(units)
          /\ logOp' = [todo |-> units, stage |-> "append", mid |-> FALSE]
          /\ UNCHANGED <<file, writeLog, nextFileCode>>
       \/ /\ writeLog # 0
          /\ ~Fits(units)
          /\ file' = [file EXCEPT ![writeLog].ro = TRUE]
          /\ logOp' = [todo |-> units, stage |-> "close", mid |-> FALSE]
          /\ UNCHANGED <<writeLog, nextFileCode>>
    /\ UNCHANGED <<curSyncPos, nextSyncPos, racyRead>>

\* SyncLogFile, every five seconds from the _SyncCmtLog thread.
SyncLogFile ==
    /\ logOp = NoOp
    /\ writeLog # 0
    /\ logOp' = [todo |-> <<>>, stage |-> "fsync", mid |-> FALSE]
    /\ UNCHANGED <<file, writeLog, nextFileCode, curSyncPos, nextSyncPos, syncPhase, racyRead>>

\* Append: the next unit goes to the buffer while there is room in it.
PutUnit ==
    /\ logOp.stage = "append" /\ ~logOp.mid
    /\ logOp.todo # <<>>
    /\ file[writeLog].pos < WriteBufferSize
    /\ LET u == Head(logOp.todo) IN
       /\ file' = [file EXCEPT ![writeLog].units = Append(@, u),
                               ![writeLog].pos = @ + 1]
       /\ logOp' = IF Tail(logOp.todo) = <<>> THEN NoOp
                   ELSE [logOp EXCEPT !.todo = Tail(@)]
       /\ syncPhase' = IF u.t = "sync" THEN "expire" ELSE syncPhase
    /\ UNCHANGED <<writeLog, nextFileCode, curSyncPos, nextSyncPos, racyRead>>

\* FlushBuffer is called by an Append that found the buffer full, by Sync and
\* by CloseWrite.
MustFlush ==
    \/ logOp.stage = "append" /\ file[writeLog].pos = WriteBufferSize
    \/ logOp.stage \in {"close", "fsync"} /\ file[writeLog].pos > 0

\* FlushBuffer, the write and "fileSize_ += pos_": until pos_ is reset the
\* bytes in the buffer are counted twice.
FlushStart ==
    /\ ~logOp.mid
    /\ MustFlush
    /\ file' = [file EXCEPT ![writeLog].size = @ + file[writeLog].pos]
    /\ logOp' = [logOp EXCEPT !.mid = TRUE]
    /\ UNCHANGED <<writeLog, nextFileCode, curSyncPos, nextSyncPos, syncPhase, racyRead>>

\* FlushBuffer, "pos_ = 0".
FlushEnd ==
    /\ logOp.mid
    /\ file' = [file EXCEPT ![writeLog].pos = 0]
    /\ logOp' = [logOp EXCEPT !.mid = FALSE]
    /\ UNCHANGED <<writeLog, nextFileCode, curSyncPos, nextSyncPos, syncPhase, racyRead>>

\* The fsync that ends SyncLogFile, and the one that ends CloseWrite, after
\* which the new file is created and the append starts in it.
FsyncFile ==
    /\ logOp.stage \in {"close", "fsync"} /\ ~logOp.mid
    /\ file[writeLog].pos = 0
    /\ LET f == [file EXCEPT ![writeLog].synced = file[writeLog].size] IN
       \/ /\ logOp.stage = "fsync"
          /\ file' = f
          /\ logOp' = NoOp
          /\ UNCHANGED <<writeLog, nextFileCode>>
       \/ /\ logOp.stage = "close"
          /\ NewLogFile(f)
          /\ logOp' = [logOp EXCEPT !.stage = "append"]
    /\ UNCHANGED <<curSyncPos, nextSyncPos, syncPhase, racyRead>>

WriterStep == PutUnit \/ FlushStart \/ FlushEnd \/ FsyncFile

-----------------------------------------------------------------------------
(* Sync points.                                                             *)

\* What the two unlocked reads of fileSize_ and pos_ can add up to: while
\* FlushBuffer is between its two assignments, either read may see the value
\* before or after them.
EndPosReads(k) ==
    IF logOp.mid /\ k = writeLog
    THEN {EndPos(k), EndPos(k) - file[k].pos, EndPos(k) - 2 * file[k].pos}
    ELSE {EndPos(k)}

\* The read does not fall on the end of a whole record.
RacyEnd(k) ==
    /\ k = writeLog
    /\ \/ logOp.mid
       \/ logOp.todo # <<>> /\ Head(logOp.todo).t = "body"

MakeSyncPoint ==
    /\ syncPhase = "idle"
    /\ syncPhase' = "made"
    /\ IF Codes = {} THEN nextSyncPos' = nextSyncPos
                     ELSE nextSyncPos' \in EndPosReads(Back)
    /\ racyRead' = (racyRead \/ (Codes # {} /\ RacyEnd(Back)))
    /\ UNCHANGED <<file, writeLog, nextFileCode, curSyncPos, logOp>>

\* For a mutant: the assignment is forgotten.
CommitNothing ==
    /\ syncPhase = "made"
    /\ syncPhase' = "point"
    /\ UNCHANGED <<file, writeLog, nextFileCode, curSyncPos, nextSyncPos, logOp, racyRead>>

\* CommitSyncPoint, "curSyncPos_ = nextSyncPos_".
CommitSyncPoint ==
    /\ syncPhase = "made"
    /\ syncPhase' = "point"
    /\ curSyncPos' = nextSyncPos
    /\ UNCHANGED <<file, writeLog, nextFileCode, nextSyncPos, logOp, racyRead>>

\* AppendPoint gets logMutex_.
AppendPoint ==
    /\ syncPhase = "point"
    /\ syncPhase' = "append"
    /\ BeginAppend(<<SyncUnit(curSyncPos)>>)

Expired(k) == file[k].ro /\ EndPos(k) <= curSyncPos

\* RemoveExpiredLog, one file deleted.
RemoveExpiredLog ==
    /\ syncPhase = "expire"
    /\ Codes # {}
    /\ Expired(Front) /\ Front # writeLog
    /\ file' = [k \in Codes \ {Front} |-> file[k]]
    /\ UNCHANGED <<writeLog, nextFileCode, curSyncPos, nextSyncPos, logOp, syncPhase, racyRead>>

\* For a mutant: pWriteLog_ is not reset.
DieWithWriteLog ==
    /\ UNCHANGED <<writeLog, racyRead>>
    /\ logOp' = NoOp
    /\ syncPhase' = "down"
    /\ nextFileCode' = 1 /\ curSyncPos' = 0 /\ nextSyncPos' = 0

\* The memory of the process is gone; the next start begins with Init.
Die ==
    /\ writeLog' = 0
    /\ logOp' = NoOp
    /\ syncPhase' = "down"
    /\ nextFileCode' = 1 /\ curSyncPos' = 0 /\ nextSyncPos' = 0
    /\ UNCHANGED racyRead

\* RemoveExpiredLog does not take logMutex_, and CloseWrite marks a file
\* read-only before it flushes it: a file can be deleted under its writer.  Of
\* the outcomes of that use after delete the model takes the end of the process.
RemoveUnderWriter ==
    /\ syncPhase = "expire"
    /\ Codes # {}
    /\ Expired(Front) /\ Front = writeLog
    /\ file' = [k \in Codes \ {Front} |-> file[k]]
    /\ Die

\* Shutdown, when nobody else runs: a last sync point at the end of the log, so
\* that every file is expired.
Shutdown ==
    /\ syncPhase = "idle" /\ logOp = NoOp
    /\ file' = [k \in {} |-> NewFileState]
    /\ Die

\* RemoveExpiredLog, nothing more to delete.
RemoveExpiredLogDone ==
    /\ syncPhase = "expire"
    /\ Codes = {} \/ ~Expired(Front)
    /\ syncPhase' = "idle"
    /\ UNCHANGED <<file, writeLog, nextFileCode, curSyncPos, nextSyncPos, logOp, racyRead>>

\* NeedSyncAllPage
NeedSyncAllPage == Codes # {} /\ BeginPos(Back) > curSyncPos

-----------------------------------------------------------------------------
(* A power failure, and Init with the redo scan of the next start.          *)

\* The file being written keeps some prefix that holds what was fsynced and
\* nothing that never left the buffer; a file left with its header only is too
\* short for OpenLogFile, and InitLogList deletes it.
Kept(k, lost) ==
    IF file[k].size - lost > file[k].synced THEN file[k].size - lost ELSE file[k].synced

Crash ==
    /\ syncPhase # "down"
    /\ \E lost \in 0 .. LogFileSize :
         file' = [k \in {j \in Codes : Kept(j, lost) > 1} |->
                    LET n == Kept(k, lost) IN
                    [units |-> SubSeq(file[k].units, 1, n), size |-> n,
                     pos |-> 0, synced |-> n, ro |-> TRUE]]
    /\ Die

\* RecoverPoint: the position in the last header or SYNC_INFO record of a file.
PointAt(k, i) ==
    /\ file[k].units[i].t \in {"head", "sync"}
    /\ \A j \in i + 1 .. Len(file[k].units) : file[k].units[j].t \notin {"head", "sync"}

RecoverPoint(k) ==
    file[k].units[CHOOSE i \in 1 .. Len(file[k].units) : PointAt(k, i)].p

\* ReadRecList starts at this offset of file k; a start inside a record fails
\* the CRC test of the first record and the rest of the file is skipped.
ReadOffset(k, p) == IF p > BeginPos(k) THEN p - BeginPos(k) ELSE 0

Aligned(k, p) ==
    ReadOffset(k, p) < Len(file[k].units) =>
        file[k].units[ReadOffset(k, p) + 1].t # "body"

\* GetRedoRecList from p: the places <<file, index>> of the record bodies it
\* returns, in the order in which it returns them.
RecPlaces == {a \in Codes \X (1 .. LogFileSize) :
                 /\ a[2] <= Len(file[a[1]].units)
                 /\ file[a[1]].units[a[2]].t = "body"}

RedoPlaces(p) ==
    {a \in RecPlaces :
        /\ p < EndPos(a[1])
        /\ Aligned(a[1], p)
        /\ a[2] > ReadOffset(a[1], p)}

RecAt(a) == file[a[1]].units[a[2]].r

RedoBefore(a, b) == a[1] < b[1] \/ (a[1] = b[1] /\ a[2] < b[2])

\* Init, with nextSyncPos_ as the redo scan leaves it: at the end of the room
\* of the last file it read.
RecoverLog ==
    /\ syncPhase = "down"
    /\ syncPhase' = "idle"
    /\ IF Codes = {}
       THEN /\ nextFileCode' = 1 /\ curSyncPos' = 0 /\ nextSyncPos' = 0
       ELSE /\ nextFileCode' = Back + 1
            /\ curSyncPos' = RecoverPoint(Back)
            /\ nextSyncPos' = IF curSyncPos' < EndPos(Back)
                              THEN Back * LogFileSize ELSE curSyncPos'
    /\ UNCHANGED <<file, writeLog, logOp, racyRead>>

LogInit ==
    /\ file = [k \in {} |-> NewFileState]
    /\ writeLog = 0 /\ nextFileCode = 1
    /\ curSyncPos = 0 /\ nextSyncPos = 0
    /\ logOp = NoOp /\ syncPhase = "idle" /\ racyRead = FALSE

-----------------------------------------------------------------------------
(* The log on its own: clients append, the log thread flushes, and the sync *)
(* thread takes and commits sync points, in any order.                      *)

AppendRec(r) ==
    /\ syncPhase # "down"
    /\ BeginAppend(<<RecHead(r), RecBody(r)>>)
    /\ UNCHANGED syncPhase

SyncPointStep ==
    \/ MakeSyncPoint \/ CommitSyncPoint \/ AppendPoint
    \/ RemoveExpiredLog \/ RemoveUnderWriter \/ RemoveExpiredLogDone

LogNext ==
    \/ \E r \in Recs : AppendRec(r)
    \/ SyncLogFile
    \/ WriterStep
    \/ SyncPointStep
    \/ Crash
    \/ Shutdown
    \/ RecoverLog

LogSpec == LogInit /\ [][LogNext]_logVars

-----------------------------------------------------------------------------
LogTypeOK ==
    /\ Codes \subseteq 1 .. MaxFiles
    /\ \A k \in Codes : file[k] \in FileState
    /\ writeLog \in {0} \cup Codes
    /\ nextFileCode \in 1 .. MaxFiles + 1
    /\ curSyncPos \in Nat /\ nextSyncPos \in Nat
    /\ logOp \in [todo : Seq(Unit), stage : {"none", "append", "close", "fsync"}, mid : BOOLEAN]
    /\ syncPhase \in {"idle", "made", "point", "append", "expire", "down"}
    /\ racyRead \in BOOLEAN

\* Unless a sync point was read in the middle of a write, the redo scan of the
\* next start returns every insert record that ends behind the recovered sync
\* point, in whichever file it is, and no other (GetRedoRecList, ReadRecList).
RedoExact ==
    (syncPhase = "down" /\ Codes # {} /\ ~racyRead) =>
        LET p == RecoverPoint(Back) IN
        RedoPlaces(p) = {a \in RecPlaces : BeginPos(a[1]) + a[2] > p}

\* With the same proviso no header or SYNC_INFO record names a position behind
\* the committed one: a start never redoes from further than the server had committed (AppendPoint,
\* CreateLogFile, RecoverPoint).
PointsCommitted ==
    (syncPhase # "down" /\ ~racyRead) =>
        \A k \in Codes : \A i \in 1 .. Len(file[k].units) :
            file[k].units[i].t \in {"head", "sync"} =>
                file[k].units[i].p <= curSyncPos

\* While the server runs the committed sync point never moves back, unless one
\* was read in the middle of a write (MakeSyncPoint, CommitSyncPoint).
SyncPointMonotone ==
    [][(syncPhase # "down" /\ syncPhase' # "down" /\ ~racyRead')
           => curSyncPos <= curSyncPos']_logVars
=============================================================================
