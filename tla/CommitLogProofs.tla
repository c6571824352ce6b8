--------------------------- MODULE CommitLogProofs ---------------------------
(***************************************************************************)
(* Proofs about module CommitLog.                                          *)
(*                                                                         *)
(* The first part is type correctness.  LogTypeOK is not inductive: that a *)
(* write goes to a file that exists and has room for it follows from the   *)
(* shape of the files (FileInv), from the stage of the operation under     *)
(* logMutex_ (OpInv) and from the order of the file codes (CodeInv).       *)
(* ShapeInv is their conjunction; one lemma for each action shows that it  *)
(* keeps it.                                                               *)
(*                                                                         *)
(* The rest is about the sync points: a committed one never moves back,    *)
(* and no file names a position behind it.                                 *)
(*                                                                         *)
(* The invariant is about Units, what the files hold, which the steps of   *)
(* the log change in four ways only: not at all, by one unit at the end of *)
(* the newest file, by a new file, and by cutting files off (a deletion or *)
(* a crash).  One lemma about each of them carries the proof.  From there  *)
(* follows what the redo scan returns, and where the bodies of records are *)
(* that a step finds or leaves.                                            *)
(***************************************************************************)
EXTENDS CommitLog, TLAPS, SequenceTheorems, WellFoundedInduction

\* What a file looks like: it starts with its header, and what is appended is
\* what went to the operating system and what the buffer holds.
FileShape(f) ==
    /\ f.synced <= f.size /\ f.size <= Len(f.units)
    /\ Len(f.units) >= 1 /\ Len(f.units) < LogFileSize
    /\ f.units[1].t = "head"

FileOK(f) == FileShape(f) /\ Len(f.units) = f.size + f.pos

\* Between the two assignments of FlushBuffer the buffer is counted twice.
FlushingOK(f) == FileShape(f) /\ Len(f.units) = f.size /\ f.pos <= f.size

FileInv == \A k \in Codes : IF logOp.mid /\ k = writeLog THEN FlushingOK(file[k])
                                                       ELSE FileOK(file[k])

\* The operation under logMutex_.
OpInv ==
    /\ logOp.stage = "none" => logOp = NoOp
    /\ logOp.stage # "none" => writeLog \in Codes
    /\ logOp.stage = "fsync" => logOp.todo = <<>>
    /\ logOp.stage \in {"append", "close"} => Len(logOp.todo) \in {1, 2}
    /\ logOp.stage = "append" => Len(file[writeLog].units) + Len(logOp.todo) < LogFileSize

\* File codes grow; a log that has files writes to the newest or to none.
CodeInv ==
    /\ writeLog # 0 => syncPhase # "down" /\ writeLog = nextFileCode - 1
    /\ syncPhase # "down" => \A k \in Codes : k < nextFileCode
    /\ syncPhase # "down" /\ Codes # {} => nextFileCode - 1 \in Codes
    /\ syncPhase = "expire" => writeLog # 0
    /\ syncPhase = "down" => logOp = NoOp

ShapeInv == LogTypeOK /\ FileInv /\ OpInv /\ CodeInv

LEMMA MaxExists ==
    ASSUME NEW n \in Nat, NEW S \in SUBSET (1 .. n), S # {}
    PROVE  \E m \in S : \A x \in S : x <= m
<1> DEFINE T == {n - x : x \in S}
<1>0. PICK y \in S : TRUE
  OBVIOUS
<1>1. T \subseteq Nat /\ n - y \in T
  BY <1>0
<1>2. PICK d \in T : \A e \in T : ~ (<<e, d>> \in OpToRel(<, Nat))
  BY <1>1, WFMin, NatLessThanWellFounded, Zenon
<1>3. \A e \in T : ~ (e < d)
  BY <1>1, <1>2 DEF OpToRel
<1>4. PICK m \in S : d = n - m
  OBVIOUS
<1>5. ASSUME NEW x \in S PROVE x <= m
  <2>1. n - x \in T
    OBVIOUS
  <2>2. ~ (n - x < n - m)
    BY <1>3, <1>4, <2>1
  <2> QED
    BY <2>2
<1> QED
  BY <1>5

LEMMA BackIsMax ==
    ASSUME LogTypeOK, Codes # {}
    PROVE  Back \in Codes /\ \A j \in Codes : j <= Back
<1>1. \E k \in Codes : \A j \in Codes : j <= k
  BY MaxExists, SizesAssumption DEF LogTypeOK
<1> QED
  BY <1>1 DEF Back

OpType == [todo : Seq(Unit), stage : {"none", "append", "close", "fsync"}, mid : BOOLEAN]

LEMMA InitShape == LogInit => ShapeInv
<1> SUFFICES ASSUME LogInit PROVE ShapeInv
  OBVIOUS
<1>1. Codes = {} /\ logOp = NoOp
  BY DEF LogInit, Codes
<1>2. NoOp \in OpType
  BY EmptySeq DEF NoOp, OpType
<1>3. LogTypeOK
  <2>1. nextFileCode \in 1 .. MaxFiles + 1
    BY SizesAssumption DEF LogInit
  <2>2. logOp \in OpType
    BY <1>1, <1>2
  <2> QED
    BY <1>1, <2>1, <2>2 DEF LogInit, LogTypeOK, OpType
<1>4. FileInv /\ OpInv /\ CodeInv
  BY <1>1 DEF LogInit, FileInv, OpInv, CodeInv, NoOp
<1> QED
  BY <1>3, <1>4 DEF ShapeInv

LEMMA FlushStartShape == ASSUME ShapeInv, FlushStart PROVE ShapeInv'
<1> DEFINE f == file[writeLog]
           g == [f EXCEPT !.size = f.size + f.pos]
<1>1. /\ writeLog \in Codes /\ logOp.stage # "none" /\ ~logOp.mid
      /\ FileOK(f) /\ f \in FileState
  BY DEF ShapeInv, LogTypeOK, FileInv, OpInv, FlushStart, MustFlush
<1>2. /\ g \in FileState
      /\ g.units = f.units /\ g.size = f.size + f.pos /\ g.pos = f.pos /\ g.synced = f.synced
  BY <1>1 DEF FileState
<1>3. /\ Codes' = Codes
      /\ file'[writeLog] = g
      /\ \A k \in Codes \ {writeLog} : file'[k] = file[k]
  BY <1>1 DEF FlushStart, Codes
<1>4. /\ UNCHANGED <<writeLog, nextFileCode, curSyncPos, nextSyncPos, syncPhase, racyRead>>
      /\ logOp' \in OpType
      /\ logOp'.todo = logOp.todo /\ logOp'.stage = logOp.stage /\ logOp'.mid
  BY DEF FlushStart, ShapeInv, LogTypeOK, OpType
<1>5. LogTypeOK'
  BY <1>2, <1>3, <1>4 DEF ShapeInv, LogTypeOK, OpType
<1>6. FileInv'
  <2>1. FlushingOK(g)
    BY <1>1, <1>2 DEF FileOK, FlushingOK, FileShape, FileState
  <2>2. \A k \in Codes \ {writeLog} : FileOK(file[k])
    BY DEF ShapeInv, FileInv
  <2> QED
    BY <1>3, <1>4, <2>1, <2>2 DEF FileInv
<1>7. OpInv'
  BY <1>1, <1>2, <1>3, <1>4 DEF ShapeInv, OpInv
<1>8. CodeInv'
  BY <1>1, <1>3, <1>4 DEF ShapeInv, CodeInv, NoOp
<1> QED
  BY <1>5, <1>6, <1>7, <1>8 DEF ShapeInv

LEMMA FlushEndShape == ASSUME ShapeInv, FlushEnd PROVE ShapeInv'
<1> DEFINE f == file[writeLog]
           g == [f EXCEPT !.pos = 0]
<1>0. logOp.mid /\ logOp.stage # "none"
  BY DEF ShapeInv, OpInv, FlushEnd, NoOp
<1>1. /\ writeLog \in Codes
      /\ FlushingOK(f) /\ f \in FileState
  BY <1>0 DEF ShapeInv, LogTypeOK, FileInv, OpInv
<1>2. /\ g \in FileState
      /\ g.units = f.units /\ g.size = f.size /\ g.pos = 0 /\ g.synced = f.synced
  BY <1>1 DEF FileState
<1>3. /\ Codes' = Codes
      /\ file'[writeLog] = g
      /\ \A k \in Codes \ {writeLog} : file'[k] = file[k]
  BY <1>1 DEF FlushEnd, Codes
<1>4. /\ UNCHANGED <<writeLog, nextFileCode, curSyncPos, nextSyncPos, syncPhase, racyRead>>
      /\ logOp' \in OpType
      /\ logOp'.todo = logOp.todo /\ logOp'.stage = logOp.stage /\ ~logOp'.mid
  BY DEF FlushEnd, ShapeInv, LogTypeOK, OpType
<1>5. LogTypeOK'
  BY <1>2, <1>3, <1>4 DEF ShapeInv, LogTypeOK, OpType
<1>6. FileInv'
  <2>1. FileOK(g)
    BY <1>1, <1>2 DEF FileOK, FlushingOK, FileShape, FileState
  <2>2. \A k \in Codes \ {writeLog} : FileOK(file[k])
    BY DEF ShapeInv, FileInv
  <2> QED
    BY <1>3, <1>4, <2>1, <2>2 DEF FileInv
<1>7. OpInv'
  BY <1>0, <1>1, <1>2, <1>3, <1>4 DEF ShapeInv, OpInv
<1>8. CodeInv'
  BY <1>0, <1>1, <1>3, <1>4 DEF ShapeInv, CodeInv, NoOp
<1> QED
  BY <1>5, <1>6, <1>7, <1>8 DEF ShapeInv

\* One more unit in the buffer.
WithUnit(f, u) == [f EXCEPT !.units = Append(@, u), !.pos = @ + 1]

LEMMA SetUnits ==
    ASSUME NEW f \in FileState, NEW us \in Seq(Unit), NEW h, h = [f EXCEPT !.units = us]
    PROVE  /\ h \in FileState
           /\ h.units = us /\ h.size = f.size /\ h.pos = f.pos
           /\ h.synced = f.synced /\ h.ro = f.ro
BY DEF FileState

LEMMA SetPos ==
    ASSUME NEW f \in FileState, NEW p \in Nat, NEW h, h = [f EXCEPT !.pos = p]
    PROVE  /\ h \in FileState
           /\ h.units = f.units /\ h.size = f.size /\ h.pos = p
           /\ h.synced = f.synced /\ h.ro = f.ro
BY DEF FileState

LEMMA AppendUnit ==
    ASSUME NEW f \in FileState, FileOK(f), NEW u \in Unit,
           Len(f.units) + 1 < LogFileSize,
           NEW g, g = WithUnit(f, u)
    PROVE  /\ g \in FileState /\ FileOK(g)
           /\ Len(g.units) = Len(f.units) + 1
           /\ \A i \in 1 .. Len(f.units) : g.units[i] = f.units[i]
           /\ g.units[Len(f.units) + 1] = u
           /\ g.synced = f.synced /\ g.size = f.size /\ g.ro = f.ro
<1>1. PICK us : us = Append(f.units, u)
  OBVIOUS
<1>2. /\ us \in Seq(Unit) /\ Len(us) = Len(f.units) + 1
      /\ \A i \in 1 .. Len(f.units) : us[i] = f.units[i]
      /\ us[Len(f.units) + 1] = u
  BY <1>1, AppendProperties DEF FileState
<1>3. PICK h : h = [f EXCEPT !.units = us]
  OBVIOUS
<1>4. /\ h \in FileState
      /\ h.units = us /\ h.size = f.size /\ h.pos = f.pos
      /\ h.synced = f.synced /\ h.ro = f.ro
  BY <1>2, <1>3, SetUnits
<1>5. g = [h EXCEPT !.pos = f.pos + 1] /\ f.pos + 1 \in Nat
  BY <1>1, <1>3 DEF WithUnit, FileState
<1>6. /\ g \in FileState
      /\ g.units = us /\ g.size = f.size /\ g.pos = f.pos + 1
      /\ g.synced = f.synced /\ g.ro = f.ro
  BY <1>4, <1>5, SetPos
<1>7. FileOK(g)
  <2>1. PICK n, size, pos, synced :
            n = Len(f.units) /\ size = f.size /\ pos = f.pos /\ synced = f.synced
    OBVIOUS
  <2>2. n \in Nat /\ size \in Nat /\ pos \in Nat /\ synced \in Nat /\ LogFileSize \in Nat
    BY <2>1, LenProperties, SizesAssumption DEF FileState
  <2>3. n >= 1 /\ n + 1 < LogFileSize /\ n = size + pos /\ size <= n /\ synced <= size
    BY <2>1 DEF FileOK, FileShape
  <2>4. size <= n + 1 /\ n + 1 >= 1 /\ n + 1 = size + (pos + 1)
    BY <2>2, <2>3
  <2>5. Len(g.units) = n + 1 /\ g.size = size /\ g.pos = pos + 1 /\ g.synced = synced
    BY <1>2, <1>6, <2>1
  <2>6. g.units[1].t = "head"
    BY <1>2, <1>6, <2>1, <2>2, <2>3 DEF FileOK, FileShape
  <2> QED
    BY <2>3, <2>4, <2>5, <2>6 DEF FileOK, FileShape
<1> QED
  BY <1>2, <1>6, <1>7

LEMMA PutUnitShape == ASSUME ShapeInv, PutUnit PROVE ShapeInv'
<1>1. /\ writeLog \in Codes /\ logOp.stage = "append" /\ ~logOp.mid
      /\ FileOK(file[writeLog]) /\ file[writeLog] \in FileState
      /\ Len(file[writeLog].units) + Len(logOp.todo) < LogFileSize
      /\ logOp.todo \in Seq(Unit) /\ logOp.todo # <<>>
      /\ Len(logOp.todo) \in {1, 2}
  BY DEF ShapeInv, LogTypeOK, FileInv, OpInv, PutUnit, NoOp
<1>2. PICK f, todo : f = file[writeLog] /\ todo = logOp.todo
  OBVIOUS
<1>3. PICK u, rest : u = Head(todo) /\ rest = Tail(todo)
  OBVIOUS
<1>4. PICK g : g = WithUnit(f, u)
  OBVIOUS
<1>5. /\ f \in FileState /\ FileOK(f)
      /\ Len(f.units) + Len(todo) < LogFileSize
      /\ todo \in Seq(Unit) /\ todo # <<>> /\ Len(todo) \in {1, 2}
  BY <1>1, <1>2, Zenon
<1>6. /\ u \in Unit
      /\ rest \in Seq(Unit)
      /\ Len(rest) = Len(todo) - 1
      /\ rest # <<>> => Len(rest) # 0
  BY <1>5, <1>3, HeadTailProperties, EmptySeq
<1>7. /\ Len(f.units) \in Nat /\ LogFileSize \in Nat
      /\ Len(todo) \in Nat /\ Len(rest) \in Nat
  BY <1>5, <1>6, LenProperties, SizesAssumption DEF FileState
<1>8. /\ g \in FileState /\ FileOK(g)
      /\ Len(g.units) = Len(f.units) + 1
  <2>1. Len(f.units) + 1 < LogFileSize
    BY <1>5, <1>7
  <2> QED
    BY <1>4, <1>5, <1>6, <2>1, AppendUnit
<1>9. /\ Codes' = Codes
      /\ file'[writeLog] = g
      /\ \A k \in Codes \ {writeLog} : file'[k] = file[k]
  BY <1>1, <1>2, <1>3, <1>4 DEF PutUnit, WithUnit, Codes
<1>10. /\ UNCHANGED <<writeLog, nextFileCode, curSyncPos, nextSyncPos, racyRead>>
       /\ syncPhase' \in {syncPhase, "expire"}
  BY DEF PutUnit
<1>11. /\ logOp' \in OpType /\ ~logOp'.mid
       /\ \/ logOp' = NoOp
          \/ logOp'.stage = "append" /\ logOp'.todo = rest /\ rest # <<>>
  <2>1. NoOp \in OpType
    BY EmptySeq DEF NoOp, OpType
  <2>2. \/ logOp' = NoOp
        \/ logOp' = [logOp EXCEPT !.todo = rest] /\ rest # <<>>
    BY <1>2, <1>3 DEF PutUnit
  <2> QED
    BY <1>1, <1>6, <2>1, <2>2 DEF ShapeInv, LogTypeOK, OpType, NoOp
<1>12. LogTypeOK'
  BY <1>8, <1>9, <1>10, <1>11 DEF ShapeInv, LogTypeOK, OpType
<1>13. FileInv'
  <2>1. \A k \in Codes \ {writeLog} : FileOK(file[k])
    BY DEF ShapeInv, FileInv
  <2> QED
    BY <1>8, <1>9, <1>10, <1>11, <2>1 DEF FileInv
<1>14. OpInv'
  <2>1. CASE logOp' = NoOp
    BY <2>1 DEF OpInv, NoOp
  <2>2. CASE logOp'.stage = "append" /\ logOp'.todo = rest /\ rest # <<>>
    <3>1. Len(rest) \in {1, 2}
      BY <1>5, <1>6, <1>7, <2>2
    <3>2. Len(g.units) + Len(rest) < LogFileSize
      BY <1>5, <1>6, <1>7, <1>8
    <3> QED
      BY <1>1, <1>9, <1>10, <2>2, <3>1, <3>2 DEF OpInv
  <2> QED
    BY <1>11, <2>1, <2>2
<1>15. CodeInv'
  <2>1. writeLog # 0 /\ syncPhase # "down"
    BY <1>1 DEF ShapeInv, CodeInv, NoOp, LogTypeOK
  <2> QED
    BY <1>9, <1>10, <2>1 DEF ShapeInv, CodeInv
<1> QED
  BY <1>12, <1>13, <1>14, <1>15 DEF ShapeInv

LEMMA NewFile ==
    ASSUME LogTypeOK
    PROVE  /\ NewFileState \in FileState /\ FileOK(NewFileState)
           /\ Len(NewFileState.units) = 1
<1>1. HeadUnit(curSyncPos) \in Unit
  BY DEF LogTypeOK, HeadUnit, Unit
<1>2. PICK us : us = <<HeadUnit(curSyncPos)>>
  OBVIOUS
<1>3. us \in Seq(Unit) /\ Len(us) = 1 /\ us[1].t = "head"
  BY <1>1, <1>2 DEF HeadUnit
<1>4. NewFileState = [units |-> us, size |-> 0, pos |-> 1, synced |-> 0, ro |-> FALSE]
  BY <1>2 DEF NewFileState
<1>5. NewFileState \in FileState
  BY <1>3, <1>4 DEF FileState
<1>6. FileOK(NewFileState)
  <2>1. LogFileSize \in Nat /\ 1 < LogFileSize
    BY SizesAssumption
  <2>2. /\ NewFileState.units = us /\ NewFileState.size = 0
        /\ NewFileState.pos = 1 /\ NewFileState.synced = 0
    BY <1>4
  <2>3. Len(NewFileState.units) = 1 /\ NewFileState.units[1].t = "head"
    BY <1>3, <2>2, Zenon
  <2>4. 0 <= 0 /\ 0 <= 1 /\ 1 >= 1
    OBVIOUS
  <2>5. FileShape(NewFileState)
    BY <2>1, <2>2, <2>3, <2>4, Zenon DEF FileShape
  <2> QED
    BY <1>3, <2>2, <2>5 DEF FileOK
<1> QED
  BY <1>3, <1>4, <1>5, <1>6

\* A new file on top of well-formed ones.
LEMMA RollShape ==
    ASSUME ShapeInv, syncPhase # "down",
           NEW f, \A k \in Codes : f[k] \in FileState /\ FileOK(f[k]),
           NewLogFile(f),
           logOp' \in OpType, ~logOp'.mid, logOp'.stage = "append",
           Len(logOp'.todo) \in {1, 2},
           UNCHANGED <<curSyncPos, nextSyncPos, racyRead>>,
           syncPhase' \in {syncPhase, "append"}
    PROVE  ShapeInv'
<1>1. nextFileCode \in 1 .. MaxFiles
  BY SizesAssumption DEF ShapeInv, LogTypeOK, NewLogFile
<1>2. /\ Codes' = Codes \cup {nextFileCode}
      /\ file'[nextFileCode] = NewFileState
      /\ \A k \in Codes \ {nextFileCode} : file'[k] = f[k]
      /\ writeLog' = nextFileCode /\ nextFileCode' = nextFileCode + 1
  BY DEF NewLogFile, Codes
<1>3. /\ NewFileState \in FileState /\ FileOK(NewFileState)
      /\ Len(NewFileState.units) = 1
  BY NewFile DEF ShapeInv
<1>4. \A k \in Codes' : file'[k] \in FileState /\ FileOK(file'[k])
  BY <1>2, <1>3
<1>5. LogTypeOK'
  <2>1. Codes' \subseteq 1 .. MaxFiles
    BY <1>1, <1>2 DEF ShapeInv, LogTypeOK
  <2>2. nextFileCode' \in 1 .. MaxFiles + 1
    BY <1>1, <1>2, SizesAssumption
  <2> QED
    BY <1>2, <1>4, <2>1, <2>2 DEF ShapeInv, LogTypeOK, OpType
<1>6. FileInv'
  BY <1>4 DEF FileInv
<1>7. OpInv'
  <2>1. Len(file'[writeLog'].units) = 1
    BY <1>2, <1>3
  <2>2. 1 + Len(logOp'.todo) < LogFileSize
    <3>1. PICK n : n = Len(logOp'.todo)
      OBVIOUS
    <3>2. n \in {1, 2}
      BY <3>1
    <3>3. 1 + n < LogFileSize
      BY <3>2, SizesAssumption
    <3> QED
      BY <3>1, <3>3, Zenon
  <2> QED
    BY <1>2, <2>1, <2>2 DEF OpInv
<1>8. CodeInv'
  <2>1. \A k \in Codes' : k < nextFileCode'
    BY <1>1, <1>2 DEF ShapeInv, CodeInv, LogTypeOK
  <2> QED
    BY <1>1, <1>2, <2>1 DEF CodeInv
<1> QED
  BY <1>5, <1>6, <1>7, <1>8 DEF ShapeInv

LEMMA FsyncFileShape == ASSUME ShapeInv, FsyncFile PROVE ShapeInv'
<1>1. PICK w, f : w = writeLog /\ f = file[w]
  OBVIOUS
<1>2. /\ w \in Codes /\ w # 0
      /\ logOp.stage \in {"close", "fsync"} /\ ~logOp.mid
      /\ FileOK(f) /\ f \in FileState
  BY <1>1 DEF ShapeInv, LogTypeOK, FileInv, OpInv, FsyncFile
<1>3. PICK g : g = [f EXCEPT !.synced = f.size]
  OBVIOUS
<1>4. /\ g \in FileState
      /\ g.units = f.units /\ g.size = f.size /\ g.pos = f.pos /\ g.synced = f.size
  BY <1>2, <1>3 DEF FileState
<1>5. FileOK(g)
  BY <1>2, <1>4 DEF FileOK, FileShape, FileState
<1>6. PICK h : h = [file EXCEPT ![writeLog].synced = file[writeLog].size]
  OBVIOUS
<1>7. /\ DOMAIN h = Codes /\ h[w] = g
      /\ \A k \in Codes \ {w} : h[k] = file[k]
  BY <1>1, <1>2, <1>3, <1>6 DEF Codes
<1>8. \A k \in Codes : h[k] \in FileState /\ FileOK(h[k])
  BY <1>1, <1>2, <1>4, <1>5, <1>7 DEF ShapeInv, LogTypeOK, FileInv
<1>9. syncPhase # "down"
  BY <1>1, <1>2 DEF ShapeInv, CodeInv
<1>10. CASE logOp.stage = "fsync"
  <2>1. /\ file' = h /\ logOp' = NoOp
        /\ UNCHANGED <<writeLog, nextFileCode, curSyncPos, nextSyncPos, syncPhase, racyRead>>
    BY <1>6, <1>10 DEF FsyncFile
  <2>2. Codes' = Codes
    BY <1>7, <2>1 DEF Codes
  <2>3. NoOp \in OpType
    BY EmptySeq DEF NoOp, OpType
  <2>4. LogTypeOK'
    BY <1>8, <2>1, <2>2, <2>3 DEF ShapeInv, LogTypeOK, OpType
  <2>5. FileInv'
    BY <1>8, <2>1, <2>2 DEF FileInv, NoOp
  <2>6. OpInv' /\ CodeInv'
    BY <1>9, <2>1, <2>2 DEF ShapeInv, CodeInv, OpInv, NoOp
  <2> QED
    BY <2>4, <2>5, <2>6 DEF ShapeInv
<1>11. CASE logOp.stage = "close"
  <2>1. /\ NewLogFile(h) /\ logOp' = [logOp EXCEPT !.stage = "append"]
        /\ UNCHANGED <<curSyncPos, nextSyncPos, syncPhase, racyRead>>
    BY <1>6, <1>11 DEF FsyncFile
  <2>2. /\ logOp' \in OpType /\ ~logOp'.mid /\ logOp'.stage = "append"
        /\ logOp'.todo = logOp.todo
    BY <1>2, <2>1 DEF ShapeInv, LogTypeOK, OpType
  <2>3. Len(logOp'.todo) \in {1, 2}
    BY <1>11, <2>2 DEF ShapeInv, OpInv
  <2> QED
    BY <1>8, <1>9, <2>1, <2>2, <2>3, RollShape
<1> QED
  BY <1>2, <1>10, <1>11

LEMMA BeginAppendShape ==
    ASSUME ShapeInv, syncPhase # "down",
           NEW units \in Seq(Unit), Len(units) \in {1, 2},
           BeginAppend(units), syncPhase' \in {syncPhase, "append"}
    PROVE  ShapeInv'
<1>1. /\ logOp = NoOp /\ ~logOp.mid
      /\ UNCHANGED <<curSyncPos, nextSyncPos, racyRead>>
  BY DEF BeginAppend, NoOp
<1>2. \A k \in Codes : file[k] \in FileState /\ FileOK(file[k])
  BY <1>1 DEF ShapeInv, LogTypeOK, FileInv
<1>3. CASE logOp' = [todo |-> units, stage |-> "append", mid |-> FALSE]
  <2>1. /\ logOp' \in OpType /\ ~logOp'.mid /\ logOp'.stage = "append"
        /\ logOp'.todo = units
    BY <1>3 DEF OpType
  <2>2. CASE writeLog = 0 /\ NewLogFile(file)
    BY <1>1, <1>2, <2>1, <2>2, RollShape
  <2>3. CASE writeLog # 0 /\ Fits(units) /\ UNCHANGED <<file, writeLog, nextFileCode>>
    <3>1. Codes' = Codes /\ writeLog \in Codes
      BY <2>3 DEF Codes, ShapeInv, LogTypeOK
    <3>2. PICK f, n : f = file[writeLog] /\ n = Len(units)
      OBVIOUS
    <3>3. f \in FileState /\ FileOK(f) /\ f.size + f.pos + n < LogFileSize
      BY <1>2, <2>3, <3>1, <3>2 DEF Fits
    <3>4. Len(f.units) + n < LogFileSize
      BY <3>3 DEF FileOK
    <3>5. LogTypeOK'
      BY <1>1, <2>1, <2>3, <3>1 DEF ShapeInv, LogTypeOK, OpType
    <3>6. FileInv'
      BY <1>2, <2>1, <2>3, <3>1 DEF FileInv
    <3>7. OpInv'
      BY <2>1, <2>3, <3>1, <3>2, <3>4 DEF OpInv
    <3>8. CodeInv'
      BY <2>3, <3>1 DEF ShapeInv, CodeInv
    <3> QED
      BY <3>5, <3>6, <3>7, <3>8 DEF ShapeInv
  <2> QED
    BY <1>3, <2>2, <2>3 DEF BeginAppend
<1>4. CASE logOp' = [todo |-> units, stage |-> "close", mid |-> FALSE]
  <2>1. /\ logOp' \in OpType /\ ~logOp'.mid /\ logOp'.stage = "close"
        /\ logOp'.todo = units
    BY <1>4 DEF OpType
  <2>2. /\ writeLog \in Codes /\ writeLog # 0
        /\ file' = [file EXCEPT ![writeLog].ro = TRUE]
        /\ UNCHANGED <<writeLog, nextFileCode>>
    BY <1>4 DEF BeginAppend, ShapeInv, LogTypeOK
  <2>3. PICK f, g : f = file[writeLog] /\ g = [f EXCEPT !.ro = TRUE]
    OBVIOUS
  <2>4. f \in FileState /\ FileOK(f)
    BY <1>2, <2>2, <2>3
  <2>5. /\ g \in FileState
        /\ g.units = f.units /\ g.size = f.size /\ g.pos = f.pos /\ g.synced = f.synced
    BY <2>3, <2>4 DEF FileState
  <2>6. FileOK(g)
    BY <2>4, <2>5, Zenon DEF FileOK, FileShape
  <2>7. Codes' = Codes /\ \A k \in Codes : file'[k] \in FileState /\ FileOK(file'[k])
    BY <1>2, <2>2, <2>3, <2>5, <2>6 DEF Codes
  <2>8. LogTypeOK'
    BY <1>1, <2>1, <2>2, <2>7 DEF ShapeInv, LogTypeOK, OpType
  <2>9. FileInv' /\ OpInv'
    BY <2>1, <2>2, <2>7 DEF FileInv, OpInv
  <2>10. CodeInv'
    BY <2>2, <2>7 DEF ShapeInv, CodeInv
  <2> QED
    BY <2>8, <2>9, <2>10 DEF ShapeInv
<1> QED
  BY <1>3, <1>4 DEF BeginAppend

LEMMA SyncLogFileShape == ASSUME ShapeInv, SyncLogFile PROVE ShapeInv'
<1>1. /\ writeLog \in Codes /\ writeLog # 0 /\ ~logOp.mid
      /\ UNCHANGED <<file, writeLog, nextFileCode, curSyncPos, nextSyncPos, syncPhase, racyRead>>
  BY DEF SyncLogFile, ShapeInv, LogTypeOK, NoOp
<1>2. Codes' = Codes
  BY <1>1 DEF Codes
<1>3. logOp' \in OpType /\ logOp'.todo = <<>> /\ logOp'.stage = "fsync" /\ ~logOp'.mid
  BY EmptySeq DEF SyncLogFile, OpType
<1>4. LogTypeOK'
  BY <1>1, <1>2, <1>3 DEF ShapeInv, LogTypeOK, OpType
<1>5. FileInv'
  BY <1>1, <1>2, <1>3 DEF ShapeInv, FileInv
<1>6. OpInv' /\ CodeInv'
  BY <1>1, <1>2, <1>3 DEF ShapeInv, OpInv, CodeInv
<1> QED
  BY <1>4, <1>5, <1>6 DEF ShapeInv

\* A sync point is a position.
LEMMA EndPosReadsNat ==
    ASSUME ShapeInv, NEW k \in Codes
    PROVE  EndPosReads(k) \subseteq Nat
<1>1. PICK f, size, pos, b :
          f = file[k] /\ size = f.size /\ pos = f.pos /\ b = BeginPos(k)
  OBVIOUS
<1>2. f \in FileState /\ size \in Nat /\ pos \in Nat
  BY <1>1 DEF ShapeInv, LogTypeOK, FileState
<1>3. b \in Nat
  <2>1. k - 1 \in Nat
    BY SizesAssumption DEF ShapeInv, LogTypeOK
  <2> QED
    BY <1>1, <2>1, SizesAssumption DEF BeginPos
<1>4. PICK e : e = EndPos(k)
  OBVIOUS
<1>5. e = b + size + pos
  BY <1>1, <1>4 DEF EndPos
<1>6. CASE logOp.mid /\ k = writeLog
  <2>1. pos <= size
    BY <1>1, <1>6 DEF ShapeInv, FileInv, FlushingOK
  <2>2. EndPosReads(k) = {e, e - pos, e - 2 * pos}
    BY <1>1, <1>4, <1>6, Zenon DEF EndPosReads
  <2>3. e \in Nat /\ e - pos \in Nat /\ e - 2 * pos \in Nat
    BY <1>2, <1>3, <1>5, <2>1
  <2> QED
    BY <2>2, <2>3
<1>7. CASE ~(logOp.mid /\ k = writeLog)
  BY <1>2, <1>3, <1>4, <1>5, <1>7 DEF EndPosReads
<1> QED
  BY <1>6, <1>7

LEMMA SyncPointShape ==
    ASSUME ShapeInv,
           \/ MakeSyncPoint \/ CommitSyncPoint \/ RemoveExpiredLogDone \/ UNCHANGED logVars
    PROVE  ShapeInv'
<1>1. /\ UNCHANGED <<file, writeLog, nextFileCode, logOp>> /\ Codes' = Codes
      /\ (syncPhase = "down") = (syncPhase' = "down")
      /\ syncPhase' = "expire" => syncPhase = "expire"
      /\ syncPhase' \in {"idle", "made", "point", "append", "expire", "down"}
      /\ racyRead' \in BOOLEAN
  <2>1. syncPhase \in {"idle", "made", "point", "append", "expire", "down"}
        /\ racyRead \in BOOLEAN
    BY DEF ShapeInv, LogTypeOK
  <2> QED
    BY <2>1 DEF MakeSyncPoint, CommitSyncPoint, RemoveExpiredLogDone, logVars, Codes
<1>2. curSyncPos' \in Nat /\ nextSyncPos' \in Nat
  <2>1. CASE MakeSyncPoint
    <3>1. Codes # {} => EndPosReads(Back) \subseteq Nat
      BY BackIsMax, EndPosReadsNat DEF ShapeInv
    <3> QED
      BY <2>1, <3>1 DEF MakeSyncPoint, ShapeInv, LogTypeOK
  <2> QED
    BY <2>1 DEF CommitSyncPoint, RemoveExpiredLogDone, logVars, ShapeInv, LogTypeOK
<1>3. LogTypeOK'
  BY <1>1, <1>2 DEF ShapeInv, LogTypeOK
<1>4. FileInv' /\ OpInv' /\ CodeInv'
  BY <1>1 DEF ShapeInv, FileInv, OpInv, CodeInv
<1> QED
  BY <1>3, <1>4 DEF ShapeInv

LEMMA AppendPointShape == ASSUME ShapeInv, AppendPoint PROVE ShapeInv'
<1>1. PICK units : units = <<SyncUnit(curSyncPos)>>
  OBVIOUS
<1>2. SyncUnit(curSyncPos) \in Unit
  BY DEF ShapeInv, LogTypeOK, SyncUnit, Unit
<1>3. units \in Seq(Unit) /\ Len(units) \in {1, 2}
  BY <1>1, <1>2
<1>4. BeginAppend(units) /\ syncPhase # "down" /\ syncPhase' = "append"
  BY <1>1 DEF AppendPoint
<1> QED
  BY <1>3, <1>4, BeginAppendShape

LEMMA AppendRecShape == ASSUME ShapeInv, NEW r \in Recs, AppendRec(r) PROVE ShapeInv'
<1>1. PICK units : units = <<RecHead(r), RecBody(r)>>
  OBVIOUS
<1>2. RecHead(r) \in Unit /\ RecBody(r) \in Unit
  BY DEF RecHead, RecBody, Unit
<1>3. units \in Seq(Unit) /\ Len(units) \in {1, 2}
  BY <1>1, <1>2
<1>4. BeginAppend(units) /\ syncPhase # "down" /\ syncPhase' = syncPhase
  BY <1>1 DEF AppendRec
<1> QED
  BY <1>3, <1>4, BeginAppendShape

LEMMA RemoveExpiredLogShape == ASSUME ShapeInv, RemoveExpiredLog PROVE ShapeInv'
<1>1. PICK d : d = Front /\ d # writeLog
  BY DEF RemoveExpiredLog
<1>2. /\ Codes' = Codes \ {d}
      /\ \A k \in Codes' : file'[k] = file[k]
      /\ UNCHANGED <<writeLog, nextFileCode, curSyncPos, nextSyncPos, logOp, syncPhase, racyRead>>
  BY <1>1 DEF RemoveExpiredLog, Codes
<1>3. writeLog \in Codes /\ writeLog = nextFileCode - 1 /\ syncPhase = "expire"
  BY DEF RemoveExpiredLog, ShapeInv, LogTypeOK, CodeInv
<1>4. LogTypeOK'
  BY <1>1, <1>2, <1>3 DEF ShapeInv, LogTypeOK
<1>5. FileInv' /\ OpInv'
  BY <1>1, <1>2, <1>3 DEF ShapeInv, FileInv, OpInv
<1>6. CodeInv'
  BY <1>1, <1>2, <1>3 DEF ShapeInv, CodeInv
<1> QED
  BY <1>4, <1>5, <1>6 DEF ShapeInv

LEMMA DieShape ==
    ASSUME ShapeInv, Die, Codes' \subseteq Codes,
           \A k \in Codes' : file'[k] \in FileState /\ FileOK(file'[k])
    PROVE  ShapeInv'
<1>1. /\ writeLog' = 0 /\ logOp' = NoOp /\ syncPhase' = "down" /\ racyRead' = racyRead
      /\ nextFileCode' = 1 /\ curSyncPos' = 0 /\ nextSyncPos' = 0
  BY DEF Die
<1>2. NoOp \in OpType /\ ~NoOp.mid
  BY EmptySeq DEF NoOp, OpType
<1>3. nextFileCode' \in 1 .. MaxFiles + 1
  BY <1>1, SizesAssumption
<1>4. LogTypeOK'
  BY <1>1, <1>2, <1>3 DEF ShapeInv, LogTypeOK, OpType
<1>5. FileInv' /\ OpInv' /\ CodeInv'
  BY <1>1, <1>2 DEF FileInv, OpInv, CodeInv, NoOp
<1> QED
  BY <1>4, <1>5 DEF ShapeInv

LEMMA RemoveUnderWriterShape == ASSUME ShapeInv, RemoveUnderWriter PROVE ShapeInv'
<1>1. PICK d : d = Front /\ d = writeLog
  BY DEF RemoveUnderWriter
<1>2. Codes' = Codes \ {d} /\ \A k \in Codes' : file'[k] = file[k]
  BY <1>1 DEF RemoveUnderWriter, Codes
<1>3. \A k \in Codes' : file'[k] \in FileState /\ FileOK(file'[k])
  BY <1>1, <1>2 DEF ShapeInv, LogTypeOK, FileInv
<1> QED
  BY <1>2, <1>3, DieShape DEF RemoveUnderWriter

LEMMA ShutdownShape == ASSUME ShapeInv, Shutdown PROVE ShapeInv'
<1>1. Codes' = {}
  BY DEF Shutdown, Codes
<1> QED
  BY <1>1, DieShape DEF Shutdown

\* What a crash leaves of a file.
KeptFile(f, n) == [units |-> SubSeq(f.units, 1, n), size |-> n, pos |-> 0, synced |-> n, ro |-> TRUE]

LEMMA KeptRange ==
    ASSUME ShapeInv, NEW k \in Codes, NEW lost \in 0 .. LogFileSize
    PROVE  Kept(k, lost) \in Nat /\ Kept(k, lost) <= Len(file[k].units)
<1>1. PICK f, size, synced, n :
          f = file[k] /\ size = f.size /\ synced = f.synced /\ n = Len(f.units)
  OBVIOUS
<1>2. size \in Nat /\ synced \in Nat /\ n \in Nat
  BY <1>1, LenProperties DEF ShapeInv, LogTypeOK, FileState
<1>3. synced <= size /\ size <= n
  BY <1>1 DEF ShapeInv, FileInv, FileOK, FlushingOK, FileShape
<1>4. Kept(k, lost) = IF size - lost > synced THEN size - lost ELSE synced
  BY <1>1 DEF Kept
<1>5. Kept(k, lost) \in Nat /\ Kept(k, lost) <= n
  BY <1>2, <1>3, <1>4, SizesAssumption
<1> QED
  BY <1>1, <1>5

LEMMA KeptFileOK ==
    ASSUME NEW f \in FileState, FileShape(f), NEW n \in Nat, 1 < n, n <= Len(f.units),
           NEW g, g = KeptFile(f, n)
    PROVE  /\ g \in FileState /\ FileOK(g) /\ Len(g.units) = n
           /\ \A i \in 1 .. n : g.units[i] = f.units[i]
<1>1. PICK us, vs, m : us = f.units /\ vs = SubSeq(us, 1, n) /\ m = Len(us)
  OBVIOUS
<1>2. us \in Seq(Unit) /\ m \in Nat /\ LogFileSize \in Nat
  BY <1>1, LenProperties, SizesAssumption DEF FileState
<1>3. \A i \in 1 .. n : us[i] \in Unit
  <2>1. \A i \in 1 .. m : us[i] \in Unit
    BY <1>1, <1>2, ElementOfSeq
  <2>2. n <= m
    BY <1>1
  <2> QED
    BY <1>2, <2>1, <2>2
<1>4. vs \in Seq(Unit) /\ Len(vs) = n /\ \A i \in 1 .. n : vs[i] = us[i]
  BY <1>1, <1>3, SubSeqProperties
<1>5. /\ g.units = vs /\ g.size = n /\ g.pos = 0 /\ g.synced = n
      /\ g = [units |-> vs, size |-> n, pos |-> 0, synced |-> n, ro |-> TRUE]
  BY <1>1 DEF KeptFile
<1>6. g \in FileState
  BY <1>4, <1>5 DEF FileState
<1>7. m < LogFileSize /\ us[1].t = "head" /\ n <= m
  BY <1>1 DEF FileShape
<1>8. n < LogFileSize /\ n <= n /\ n >= 1 /\ n = n + 0
  BY <1>2, <1>7
<1>9. Len(g.units) = n /\ g.units[1].t = "head"
  BY <1>4, <1>5, <1>7, <1>8
<1>10. FileShape(g)
  BY <1>5, <1>8, <1>9, Zenon DEF FileShape
<1>11. FileOK(g)
  BY <1>5, <1>8, <1>9, <1>10, Zenon DEF FileOK
<1> QED
  BY <1>1, <1>4, <1>5, <1>6, <1>9, <1>11, Zenon

LEMMA CrashFiles ==
    ASSUME ShapeInv, Crash
    PROVE  \E lost \in 0 .. LogFileSize :
              /\ Codes' = {k \in Codes : Kept(k, lost) > 1}
              /\ \A k \in Codes' :
                    /\ file'[k] \in FileState /\ FileOK(file'[k])
                    /\ Len(file'[k].units) = Kept(k, lost)
                    /\ Len(file'[k].units) <= Len(file[k].units)
                    /\ \A i \in 1 .. Len(file'[k].units) : file'[k].units[i] = file[k].units[i]
<1>1. PICK lost \in 0 .. LogFileSize :
          file' = [k \in {j \in Codes : Kept(j, lost) > 1} |-> KeptFile(file[k], Kept(k, lost))]
  BY Zenon DEF Crash, KeptFile
<1>2. Codes' = {k \in Codes : Kept(k, lost) > 1}
  BY <1>1 DEF Codes
<1>3. ASSUME NEW k \in Codes'
      PROVE  /\ file'[k] \in FileState /\ FileOK(file'[k])
             /\ Len(file'[k].units) = Kept(k, lost)
             /\ Len(file'[k].units) <= Len(file[k].units)
             /\ \A i \in 1 .. Len(file'[k].units) : file'[k].units[i] = file[k].units[i]
  <2>1. PICK f, g, n : f = file[k] /\ n = Kept(k, lost) /\ g = KeptFile(f, n)
    OBVIOUS
  <2>2. k \in Codes /\ file'[k] = g
    BY <1>1, <1>2, <2>1
  <2>3. n \in Nat /\ 1 < n /\ n <= Len(f.units)
    BY <1>2, <2>1, <2>2, KeptRange
  <2>4. f \in FileState /\ FileShape(f)
    BY <2>1, <2>2 DEF ShapeInv, LogTypeOK, FileInv, FileOK, FlushingOK
  <2>5. /\ g \in FileState /\ FileOK(g) /\ Len(g.units) = n
        /\ \A i \in 1 .. n : g.units[i] = f.units[i]
    BY <2>1, <2>3, <2>4, KeptFileOK
  <2> QED
    BY <2>1, <2>2, <2>3, <2>5
<1> QED
  BY <1>2, <1>3

LEMMA CrashShape == ASSUME ShapeInv, Crash PROVE ShapeInv'
<1>1. /\ Codes' \subseteq Codes
      /\ \A k \in Codes' : file'[k] \in FileState /\ FileOK(file'[k])
  BY CrashFiles
<1> QED
  BY <1>1, DieShape DEF Crash

\* A file holds a last sync point, its header if nothing else.
LEMMA LastPoint ==
    ASSUME ShapeInv, NEW k \in Codes
    PROVE  \E i \in 1 .. Len(file[k].units) :
              PointAt(k, i) /\ RecoverPoint(k) = file[k].units[i].p
<1>1. PICK us, n : us = file[k].units /\ n = Len(us)
  OBVIOUS
<1>2. us \in Seq(Unit) /\ n \in Nat
  BY <1>1, LenProperties DEF ShapeInv, LogTypeOK, FileState
<1>3. n >= 1 /\ us[1].t = "head"
  BY <1>1 DEF ShapeInv, FileInv, FileOK, FlushingOK, FileShape
<1>4. PICK S : S = {i \in 1 .. n : us[i].t \in {"head", "sync"}}
  OBVIOUS
<1>5. 1 \in S /\ S \in SUBSET (1 .. n)
  BY <1>2, <1>3, <1>4
<1>6. PICK m \in S : \A x \in S : x <= m
  BY <1>2, <1>5, MaxExists
<1>7. m \in 1 .. n /\ us[m].t \in {"head", "sync"}
  BY <1>4, <1>6
<1>8. \A j \in m + 1 .. n : us[j].t \notin {"head", "sync"}
  <2>1. ASSUME NEW j \in m + 1 .. n PROVE j \notin S
    BY <1>2, <1>6, <1>7, <2>1
  <2>2. \A j \in m + 1 .. n : j \in 1 .. n
    BY <1>2, <1>7
  <2> QED
    BY <1>4, <2>1, <2>2
<1>9. PointAt(k, m) /\ m \in 1 .. Len(file[k].units)
  BY <1>1, <1>7, <1>8, Zenon DEF PointAt
<1>10. PICK i \in 1 .. Len(file[k].units) :
          i = CHOOSE j \in 1 .. Len(file[k].units) : PointAt(k, j)
  BY <1>9, Zenon
<1>11. PointAt(k, i)
  BY <1>9, <1>10, Zenon
<1> QED
  BY <1>10, <1>11, Zenon DEF RecoverPoint

LEMMA RecoverLogShape == ASSUME ShapeInv, RecoverLog PROVE ShapeInv'
<1>1. /\ UNCHANGED <<file, writeLog, logOp, racyRead>> /\ Codes' = Codes
      /\ syncPhase = "down" /\ syncPhase' = "idle" /\ logOp = NoOp /\ writeLog = 0
  BY DEF RecoverLog, Codes, ShapeInv, CodeInv
<1>2. CASE Codes = {}
  <2>1. nextFileCode' = 1 /\ curSyncPos' = 0 /\ nextSyncPos' = 0
    BY <1>2 DEF RecoverLog
  <2>2. nextFileCode' \in 1 .. MaxFiles + 1
    BY <2>1, SizesAssumption
  <2>3. LogTypeOK'
    BY <1>1, <1>2, <2>1, <2>2 DEF ShapeInv, LogTypeOK
  <2>4. FileInv' /\ OpInv' /\ CodeInv'
    BY <1>1, <1>2 DEF ShapeInv, FileInv, OpInv, CodeInv
  <2> QED
    BY <2>3, <2>4 DEF ShapeInv
<1>3. CASE Codes # {}
  <2>1. PICK b, p : b = Back /\ p = RecoverPoint(Back)
    OBVIOUS
  <2>2. b \in Codes /\ \A j \in Codes : j <= b
    BY <1>3, <2>1, BackIsMax DEF ShapeInv
  <2>3. b \in 1 .. MaxFiles /\ \A j \in Codes : j \in 1 .. MaxFiles
    BY <2>2 DEF ShapeInv, LogTypeOK
  <2>4. p \in Nat
    <3>1. PICK i \in 1 .. Len(file[b].units) : PointAt(b, i) /\ p = file[b].units[i].p
      BY <2>1, <2>2, LastPoint
    <3>2. file[b].units[i] \in Unit
      BY <2>2, <3>1, ElementOfSeq DEF ShapeInv, LogTypeOK, FileState
    <3> QED
      BY <3>1, <3>2 DEF PointAt, Unit
  <2>5. /\ nextFileCode' = b + 1 /\ curSyncPos' = p
        /\ nextSyncPos' \in {b * LogFileSize, p}
    BY <1>3, <2>1 DEF RecoverLog
  <2>6. nextFileCode' \in 1 .. MaxFiles + 1
    BY <2>3, <2>5, SizesAssumption
  <2>7. nextSyncPos' \in Nat
    <3>1. b * LogFileSize \in Nat
      BY <2>3, SizesAssumption
    <3> QED
      BY <2>4, <2>5, <3>1
  <2>8. LogTypeOK'
    BY <1>1, <2>4, <2>5, <2>6, <2>7 DEF ShapeInv, LogTypeOK
  <2>9. FileInv' /\ OpInv'
    BY <1>1 DEF ShapeInv, FileInv, OpInv
  <2>10. CodeInv'
    <3>1. nextFileCode' - 1 = b /\ \A k \in Codes' : k < nextFileCode'
      BY <1>1, <2>2, <2>3, <2>5
    <3> QED
      BY <1>1, <2>2, <3>1 DEF CodeInv
  <2> QED
    BY <2>8, <2>9, <2>10 DEF ShapeInv
<1> QED
  BY <1>2, <1>3

LEMMA NextShape == ShapeInv /\ [LogNext]_logVars => ShapeInv'
<1> SUFFICES ASSUME ShapeInv, [LogNext]_logVars PROVE ShapeInv'
  OBVIOUS
<1>1. CASE \E r \in Recs : AppendRec(r)
  BY <1>1, AppendRecShape
<1>2. CASE SyncLogFile
  BY <1>2, SyncLogFileShape
<1>3. CASE WriterStep
  BY <1>3, PutUnitShape, FlushStartShape, FlushEndShape, FsyncFileShape DEF WriterStep
<1>4. CASE SyncPointStep
  BY <1>4, SyncPointShape, AppendPointShape, RemoveExpiredLogShape, RemoveUnderWriterShape
     DEF SyncPointStep
<1>5. CASE Crash
  BY <1>5, CrashShape
<1>6. CASE Shutdown
  BY <1>6, ShutdownShape
<1>7. CASE RecoverLog
  BY <1>7, RecoverLogShape
<1>8. CASE UNCHANGED logVars
  BY <1>8, SyncPointShape
<1> QED
  BY <1>1, <1>2, <1>3, <1>4, <1>5, <1>6, <1>7, <1>8 DEF LogNext

\* The type invariant of the log, with the shape of its files.
THEOREM TypeCorrect == LogSpec => []LogTypeOK
<1>1. LogInit => ShapeInv
  BY InitShape
<1>2. ShapeInv /\ [LogNext]_logVars => ShapeInv'
  BY NextShape
<1>3. ShapeInv => LogTypeOK
  BY DEF ShapeInv
<1> QED
  BY <1>1, <1>2, <1>3, PTL DEF LogSpec

-----------------------------------------------------------------------------
(* The sync points.                                                         *)

Units == [k \in Codes |-> file[k].units]
Up == syncPhase # "down"

IsPoint(u) == u.t \in {"head", "sync"}

\* U: the contents of some files.
WellFormed(U) ==
    \A k \in DOMAIN U :
        /\ k \in Nat \ {0}
        /\ U[k] \in Seq(Unit) /\ Len(U[k]) \in Nat
        /\ Len(U[k]) >= 1 /\ Len(U[k]) < LogFileSize
        /\ U[k][1].t = "head"

\* No point lies behind the place where it is written.
Placed(U) ==
    \A k \in DOMAIN U : \A i \in 1 .. Len(U[k]) :
        IsPoint(U[k][i]) => U[k][i].p <= BeginPos(k) + i

\* Later points are not smaller.
Ordered(U) ==
    \A k, l \in DOMAIN U : \A i \in 1 .. Len(U[k]) : \A j \in 1 .. Len(U[l]) :
        (IsPoint(U[k][i]) /\ IsPoint(U[l][j]) /\ (k < l \/ (k = l /\ i < j)))
            => U[k][i].p <= U[l][j].p

\* No point is behind p.
Below(U, p) ==
    \A k \in DOMAIN U : \A i \in 1 .. Len(U[k]) : IsPoint(U[k][i]) => U[k][i].p <= p

TrueEnd(U, k) == BeginPos(k) + Len(U[k])

\* The sync point that AppendPoint is writing is the committed one.
OpPointInv ==
    \A j \in 1 .. Len(logOp.todo) :
        /\ logOp.todo[j].t # "head"
        /\ logOp.todo[j].t = "sync" =>
              /\ logOp.todo[j].p = curSyncPos
              /\ syncPhase = "append" /\ Len(logOp.todo) = 1

\* The sync points in memory do not lie behind the end of the log.
EndsInv ==
    (Up /\ ~racyRead) =>
        /\ curSyncPos <= nextSyncPos
        /\ Codes = {} => curSyncPos = 0 /\ nextSyncPos = 0
        /\ Codes # {} => curSyncPos <= TrueEnd(Units, nextFileCode - 1)
        /\ Codes # {} /\ syncPhase = "made" => nextSyncPos <= TrueEnd(Units, nextFileCode - 1)

PointInv ==
    /\ EndsInv
    /\ (Up /\ ~racyRead) => Below(Units, curSyncPos)
    /\ ~racyRead => Placed(Units) /\ Ordered(Units)

SyncInv == OpPointInv /\ PointInv

-----------------------------------------------------------------------------
(* The four ways in which the contents of the files change, as facts about  *)
(* the contents U before and V after.                                       *)

\* V has no place that U does not have.
CutOf(V, U) ==
    \A k \in DOMAIN V : \A i \in 1 .. Len(V[k]) :
        k \in DOMAIN U /\ i \in 1 .. Len(U[k]) /\ V[k][i] = U[k][i]

\* V has the unit u at the place n, m behind all places of U.
Extends(V, U, n, m, u) ==
    \A k \in DOMAIN V : \A i \in 1 .. Len(V[k]) :
        \/ k = n /\ i = m /\ V[k][i] = u
        \/ /\ k \in DOMAIN U /\ i \in 1 .. Len(U[k]) /\ V[k][i] = U[k][i]
           /\ k < n \/ (k = n /\ i < m)

LEMMA CutKeeps ==
    ASSUME NEW U, NEW V, CutOf(V, U), Placed(U), Ordered(U)
    PROVE  /\ Placed(V) /\ Ordered(V)
           /\ \A p : Below(U, p) => Below(V, p)
<1>1. Placed(V)
  BY DEF CutOf, Placed
<1>2. Ordered(V)
  BY DEF CutOf, Ordered
<1>3. ASSUME NEW p, Below(U, p) PROVE Below(V, p)
  BY <1>3 DEF CutOf, Below
<1> QED
  BY <1>1, <1>2, <1>3

LEMMA ExtendKeeps ==
    ASSUME NEW U, NEW V, NEW n \in Nat, NEW m \in Nat, NEW u,
           Extends(V, U, n, m, u), Placed(U), Ordered(U),
           \A k \in DOMAIN V : k \in Nat,
           IsPoint(u) => Below(U, u.p) /\ u.p \in Nat /\ u.p <= BeginPos(n) + m
    PROVE  /\ Placed(V) /\ Ordered(V)
           /\ \A p : (Below(U, p) /\ (IsPoint(u) => u.p <= p)) => Below(V, p)
<1>1. Placed(V)
  BY DEF Extends, Placed
<1>2. Ordered(V)
  <2> SUFFICES ASSUME NEW k \in DOMAIN V, NEW l \in DOMAIN V,
                      NEW i \in 1 .. Len(V[k]), NEW j \in 1 .. Len(V[l]),
                      IsPoint(V[k][i]), IsPoint(V[l][j]), k < l \/ (k = l /\ i < j)
               PROVE  V[k][i].p <= V[l][j].p
    BY DEF Ordered
  <2>1. \/ k = n /\ i = m /\ V[k][i] = u
        \/ /\ k \in DOMAIN U /\ i \in 1 .. Len(U[k]) /\ V[k][i] = U[k][i]
           /\ k < n \/ (k = n /\ i < m)
    BY DEF Extends
  <2>2. \/ l = n /\ j = m /\ V[l][j] = u
        \/ /\ l \in DOMAIN U /\ j \in 1 .. Len(U[l]) /\ V[l][j] = U[l][j]
           /\ l < n \/ (l = n /\ j < m)
    BY DEF Extends
  <2>3. k \in Nat /\ l \in Nat /\ i \in Int /\ j \in Int
    OBVIOUS
  <2>4. CASE k = n /\ i = m
    <3>1. ~(l < n \/ (l = n /\ j < m)) /\ ~(l = n /\ j = m)
      BY <2>3, <2>4
    <3> QED
      BY <2>2, <3>1
  <2>5. CASE ~(k = n /\ i = m) /\ l = n /\ j = m
    <3>1. k \in DOMAIN U /\ i \in 1 .. Len(U[k]) /\ V[k][i] = U[k][i]
      BY <2>1, <2>5
    <3>2. V[l][j] = u \/ (j < m \/ l < n)
      BY <2>2, <2>5
    <3>3. V[l][j] = u
      BY <2>3, <2>5, <3>2
    <3> QED
      BY <3>1, <3>3 DEF Below
  <2>6. CASE ~(k = n /\ i = m) /\ ~(l = n /\ j = m)
    BY <2>1, <2>2, <2>6 DEF Ordered
  <2> QED
    BY <2>4, <2>5, <2>6
<1>3. ASSUME NEW p, Below(U, p), IsPoint(u) => u.p <= p PROVE Below(V, p)
  BY <1>3 DEF Extends, Below
<1> QED
  BY <1>1, <1>2, <1>3

LEMMA Times == ASSUME NEW a \in Nat, NEW b \in Nat, a <= b, NEW n \in Nat
               PROVE  a * n <= b * n
<1>1. PICK d \in Nat : b = a + d
  <2>1. b - a \in Nat /\ b = a + (b - a)
    OBVIOUS
  <2> QED
    BY <2>1
<1>2. b * n = a * n + d * n
  BY <1>1
<1>3. d * n \in Nat /\ a * n \in Nat
  OBVIOUS
<1> QED
  BY <1>2, <1>3

\* A file starts where the one before it has no room left.
LEMMA BeginOrder ==
    ASSUME NEW k \in Nat \ {0}, NEW l \in Nat \ {0}
    PROVE  /\ BeginPos(k) \in Nat
           /\ k < l => BeginPos(k) + LogFileSize <= BeginPos(l)
<1>1. k - 1 \in Nat /\ l - 1 \in Nat /\ LogFileSize \in Nat
  BY SizesAssumption
<1>2. BeginPos(k) \in Nat
  BY <1>1 DEF BeginPos
<1>3. ASSUME k < l PROVE BeginPos(k) + LogFileSize <= BeginPos(l)
  <2>1. k * LogFileSize <= (l - 1) * LogFileSize
    BY <1>1, <1>3, Times
  <2>2. k * LogFileSize = (k - 1) * LogFileSize + LogFileSize
    BY <1>1
  <2> QED
    BY <2>1, <2>2 DEF BeginPos
<1> QED
  BY <1>2, <1>3

LEMMA UnitsWellFormed ==
    ASSUME ShapeInv
    PROVE  DOMAIN Units = Codes /\ WellFormed(Units)
<1>1. DOMAIN Units = Codes /\ \A k \in Codes : Units[k] = file[k].units
  BY DEF Units
<1>2. ASSUME NEW k \in Codes
      PROVE  /\ k \in Nat \ {0}
             /\ Units[k] \in Seq(Unit) /\ Len(Units[k]) \in Nat
             /\ Len(Units[k]) >= 1 /\ Len(Units[k]) < LogFileSize
             /\ Units[k][1].t = "head"
  <2>1. file[k] \in FileState /\ FileShape(file[k]) /\ k \in 1 .. MaxFiles
    BY DEF ShapeInv, LogTypeOK, FileInv, FileOK, FlushingOK
  <2>2. Units[k] \in Seq(Unit) /\ Len(Units[k]) \in Nat
    BY <1>1, <2>1, LenProperties DEF FileState
  <2> QED
    BY <1>1, <2>1, <2>2 DEF FileShape
<1> QED
  BY <1>1, <1>2 DEF WellFormed

\* The end of the newest file lies before the start of the next.
LEMMA NextBegin ==
    ASSUME ShapeInv, Up
    PROVE  /\ BeginPos(nextFileCode) \in Nat
           /\ Codes # {} => /\ TrueEnd(Units, nextFileCode - 1) \in Nat
                            /\ TrueEnd(Units, nextFileCode - 1) < BeginPos(nextFileCode)
<1>1. nextFileCode \in Nat \ {0}
  BY DEF ShapeInv, LogTypeOK
<1>2. BeginPos(nextFileCode) \in Nat
  BY <1>1, BeginOrder
<1>3. ASSUME Codes # {}
      PROVE  /\ TrueEnd(Units, nextFileCode - 1) \in Nat
             /\ TrueEnd(Units, nextFileCode - 1) < BeginPos(nextFileCode)
  <2>1. PICK b : b = nextFileCode - 1
    OBVIOUS
  <2>2. b \in Codes /\ b \in Nat \ {0} /\ b < nextFileCode
    BY <1>1, <1>3, <2>1, UnitsWellFormed DEF ShapeInv, CodeInv, Up, WellFormed
  <2>3. BeginPos(b) \in Nat /\ BeginPos(b) + LogFileSize <= BeginPos(nextFileCode)
    BY <1>1, <2>2, BeginOrder
  <2>4. PICK n : n = Len(Units[b])
    OBVIOUS
  <2>5. n \in Nat /\ n < LogFileSize
    BY <2>2, <2>4, UnitsWellFormed DEF WellFormed
  <2>6. BeginPos(b) + n \in Nat /\ BeginPos(b) + n < BeginPos(nextFileCode)
    BY <1>2, <2>3, <2>5, SizesAssumption
  <2> QED
    BY <2>1, <2>4, <2>6 DEF TrueEnd
<1> QED
  BY <1>2, <1>3

LEMMA BackIsNewest ==
    ASSUME ShapeInv, Up, Codes # {}
    PROVE  Back = nextFileCode - 1
<1>1. Back \in Codes /\ \A j \in Codes : j <= Back
  BY BackIsMax DEF ShapeInv
<1>2. nextFileCode - 1 \in Codes /\ \A k \in Codes : k < nextFileCode
  BY DEF ShapeInv, CodeInv, Up
<1>3. Back \in Nat /\ nextFileCode \in Nat
  BY <1>1 DEF ShapeInv, LogTypeOK
<1> QED
  BY <1>1, <1>2, <1>3

LEMMA SamePointInv ==
    ASSUME PointInv, Units' = Units, Codes' = Codes,
           UNCHANGED <<nextFileCode, curSyncPos, nextSyncPos, racyRead>>,
           Up <=> Up', syncPhase' = "made" => syncPhase = "made"
    PROVE  PointInv'
BY DEF PointInv, EndsInv, TrueEnd, Below, Placed, Ordered

-----------------------------------------------------------------------------
(* The sync point that is being appended.                                   *)

LEMMA NoOpOpPoint == logOp' = NoOp => OpPointInv'
<1> SUFFICES ASSUME logOp' = NoOp PROVE OpPointInv'
  OBVIOUS
<1>1. Len(logOp'.todo) = 0
  BY DEF NoOp
<1> QED
  BY <1>1 DEF OpPointInv

LEMMA BeginAppendOpPoint ==
    ASSUME NEW units, BeginAppend(units),
           \A j \in 1 .. Len(units) :
              /\ units[j].t # "head"
              /\ units[j].t = "sync" =>
                    units[j].p = curSyncPos /\ syncPhase' = "append" /\ Len(units) = 1
    PROVE  OpPointInv'
<1>1. logOp'.todo = units /\ curSyncPos' = curSyncPos
  BY DEF BeginAppend
<1> QED
  BY <1>1 DEF OpPointInv

LEMMA PutUnitOpPoint == ASSUME ShapeInv, OpPointInv, PutUnit PROVE OpPointInv'
<1>1. CASE logOp' = NoOp
  BY <1>1, NoOpOpPoint
<1>2. CASE logOp' # NoOp
  <2>1. PICK todo, rest : todo = logOp.todo /\ rest = Tail(todo)
    OBVIOUS
  <2>2. logOp'.todo = rest /\ rest # <<>>
    BY <1>2, <2>1 DEF PutUnit, ShapeInv, LogTypeOK
  <2>3. todo \in Seq(Unit) /\ todo # <<>> /\ Len(todo) \in {1, 2} /\ Len(todo) \in Nat
    BY <2>1, LenProperties DEF PutUnit, ShapeInv, LogTypeOK, OpInv
  <2>4. /\ rest \in Seq(Unit) /\ Len(rest) = Len(todo) - 1 /\ Len(rest) # 0
        /\ Len(rest) \in Nat
        /\ \A i \in 1 .. Len(rest) : rest[i] = todo[i + 1]
    BY <2>1, <2>2, <2>3, HeadTailProperties, EmptySeq, LenProperties
  <2>5. Len(todo) # 1
    BY <2>3, <2>4
  <2>6. \A i \in 1 .. Len(todo) : todo[i].t # "head" /\ todo[i].t # "sync"
    BY <2>1, <2>5 DEF OpPointInv
  <2>7. \A i \in 1 .. Len(rest) : rest[i].t # "head" /\ rest[i].t # "sync"
    <3> SUFFICES ASSUME NEW i \in 1 .. Len(rest)
                 PROVE  rest[i].t # "head" /\ rest[i].t # "sync"
      OBVIOUS
    <3>1. i + 1 \in 1 .. Len(todo)
      BY <2>3, <2>4
    <3> QED
      BY <2>4, <2>6, <3>1
  <2> QED
    BY <2>2, <2>7 DEF OpPointInv
<1> QED
  BY <1>1, <1>2

LEMMA NextOpPoint == ASSUME ShapeInv, OpPointInv, [LogNext]_logVars PROVE OpPointInv'
<1>1. ASSUME NEW r \in Recs, AppendRec(r) PROVE OpPointInv'
  <2>1. PICK units : units = <<RecHead(r), RecBody(r)>>
    OBVIOUS
  <2>2. \A j \in 1 .. Len(units) : units[j].t # "head" /\ units[j].t # "sync"
    BY <2>1 DEF RecHead, RecBody
  <2> QED
    BY <1>1, <2>1, <2>2, BeginAppendOpPoint DEF AppendRec
<1>2. CASE SyncLogFile
  <2>1. Len(logOp'.todo) = 0
    BY <1>2 DEF SyncLogFile
  <2> QED
    BY <2>1 DEF OpPointInv
<1>3. CASE PutUnit
  BY <1>3, PutUnitOpPoint
<1>4. CASE FlushStart \/ FlushEnd
  BY <1>4 DEF FlushStart, FlushEnd, OpPointInv, ShapeInv, LogTypeOK
<1>5. CASE FsyncFile
  BY <1>5, NoOpOpPoint DEF FsyncFile, OpPointInv, ShapeInv, LogTypeOK
<1>6. CASE AppendPoint
  <2>1. PICK units : units = <<SyncUnit(curSyncPos)>>
    OBVIOUS
  <2>2. Len(units) = 1 /\ units[1].t = "sync" /\ units[1].p = curSyncPos
    BY <2>1 DEF SyncUnit
  <2> QED
    BY <1>6, <2>1, <2>2, BeginAppendOpPoint DEF AppendPoint
<1>7. CASE MakeSyncPoint \/ CommitSyncPoint \/ RemoveExpiredLog \/ RemoveExpiredLogDone
  BY <1>7 DEF MakeSyncPoint, CommitSyncPoint, RemoveExpiredLog, RemoveExpiredLogDone, OpPointInv
<1>8. CASE RemoveUnderWriter \/ Crash \/ Shutdown
  BY <1>8, NoOpOpPoint DEF RemoveUnderWriter, Crash, Shutdown, Die
<1>9. CASE RecoverLog
  BY <1>9, NoOpOpPoint DEF RecoverLog, ShapeInv, CodeInv
<1>10. CASE UNCHANGED logVars
  BY <1>10 DEF logVars, OpPointInv
<1> QED
  BY <1>1, <1>2, <1>3, <1>4, <1>5, <1>6, <1>7, <1>8, <1>9, <1>10
     DEF LogNext, WriterStep, SyncPointStep

-----------------------------------------------------------------------------
(* The points in the files.                                                 *)

LEMMA NewLogFilePoint ==
    ASSUME ShapeInv, Up, PointInv,
           NEW f, \A k \in Codes : f[k].units = file[k].units,
           NewLogFile(f), UNCHANGED <<curSyncPos, nextSyncPos, racyRead>>, Up',
           syncPhase' = "made" => syncPhase = "made"
    PROVE  PointInv'
<1> DEFINE n == nextFileCode
<1>1. n \in Nat \ {0} /\ \A k \in Codes : k < n /\ k \in Nat
  BY DEF ShapeInv, LogTypeOK, CodeInv, Up
<1>2. PICK U, V, u : U = Units /\ V = Units' /\ u = HeadUnit(curSyncPos)
  OBVIOUS
<1>3. DOMAIN U = Codes /\ \A k \in Codes : U[k] = file[k].units
  BY <1>2 DEF Units
<1>4. /\ Codes' = Codes \cup {n} /\ n \notin Codes /\ nextFileCode' = n + 1
      /\ file'[n].units = <<u>> /\ \A k \in Codes : file'[k] = f[k]
  BY <1>1, <1>2 DEF NewLogFile, Codes, NewFileState
<1>5. /\ DOMAIN V = Codes' /\ V[n] = <<u>> /\ \A k \in Codes : V[k] = U[k]
  BY <1>2, <1>3, <1>4 DEF Units
<1>6. IsPoint(u) /\ u.p = curSyncPos
  BY <1>2 DEF HeadUnit, IsPoint
<1>7. nextFileCode' - 1 = n /\ Codes' # {} /\ TrueEnd(V, n) = BeginPos(n) + 1
  BY <1>1, <1>4, <1>5 DEF TrueEnd
<1>8. CASE ~racyRead
  <2>1. /\ Below(U, curSyncPos) /\ Placed(U) /\ Ordered(U)
        /\ curSyncPos <= nextSyncPos
        /\ Codes = {} => curSyncPos = 0 /\ nextSyncPos = 0
        /\ Codes # {} => curSyncPos <= TrueEnd(U, n - 1)
        /\ Codes # {} /\ syncPhase = "made" => nextSyncPos <= TrueEnd(U, n - 1)
    BY <1>2, <1>8 DEF PointInv, EndsInv, Up
  <2>2. curSyncPos \in Nat /\ nextSyncPos \in Nat
    BY DEF ShapeInv, LogTypeOK
  <2>3. /\ curSyncPos <= BeginPos(n) + 1
        /\ syncPhase = "made" => nextSyncPos <= BeginPos(n) + 1
    <3>1. BeginPos(n) \in Nat
      BY NextBegin
    <3>2. CASE Codes = {}
      BY <2>1, <3>1, <3>2
    <3>3. CASE Codes # {}
      <4>1. TrueEnd(U, n - 1) \in Nat /\ TrueEnd(U, n - 1) < BeginPos(n)
        BY <1>2, <3>3, NextBegin
      <4> QED
        BY <2>1, <2>2, <3>1, <3>3, <4>1
    <3> QED
      BY <3>2, <3>3
  <2>4. Extends(V, U, n, 1, u)
    <3> SUFFICES ASSUME NEW k \in DOMAIN V, NEW i \in 1 .. Len(V[k])
                 PROVE  \/ k = n /\ i = 1 /\ V[k][i] = u
                        \/ /\ k \in DOMAIN U /\ i \in 1 .. Len(U[k]) /\ V[k][i] = U[k][i]
                           /\ k < n \/ (k = n /\ i < 1)
      BY DEF Extends
    <3>1. CASE k = n
      BY <1>5, <3>1
    <3>2. CASE k # n
      BY <1>1, <1>3, <1>4, <1>5, <3>2
    <3> QED
      BY <3>1, <3>2
  <2>5. \A k \in DOMAIN V : k \in Nat
    BY <1>1, <1>4, <1>5
  <2>6. /\ Placed(V) /\ Ordered(V)
        /\ \A p : (Below(U, p) /\ (IsPoint(u) => u.p <= p)) => Below(V, p)
    <3>1. IsPoint(u) => Below(U, u.p) /\ u.p \in Nat /\ u.p <= BeginPos(n) + 1
      BY <1>6, <2>1, <2>2, <2>3
    <3>2. n \in Nat /\ 1 \in Nat
      BY <1>1
    <3> QED
      BY <2>1, <2>4, <2>5, <3>1, <3>2, ExtendKeeps
  <2>7. Below(V, curSyncPos)
    <3>1. IsPoint(u) => u.p <= curSyncPos
      BY <1>6, <2>2
    <3> QED
      BY <2>1, <2>6, <3>1
  <2>8. EndsInv'
    BY <1>2, <1>4, <1>7, <2>1, <2>3 DEF EndsInv, Up
  <2> QED
    BY <1>2, <2>6, <2>7, <2>8 DEF PointInv
<1>9. CASE racyRead
  BY <1>9 DEF PointInv, EndsInv
<1> QED
  BY <1>8, <1>9

LEMMA PutUnitPoint ==
    ASSUME ShapeInv, OpPointInv, PointInv, PutUnit
    PROVE  PointInv'
<1>1. PICK w, todo : w = writeLog /\ todo = logOp.todo
  OBVIOUS
<1>2. PICK u : u = Head(todo)
  OBVIOUS
<1>3. /\ w \in Codes /\ w # 0 /\ Up /\ w = nextFileCode - 1
      /\ todo \in Seq(Unit) /\ todo # <<>>
      /\ FileOK(file[w]) /\ file[w] \in FileState
  BY <1>1 DEF PutUnit, ShapeInv, LogTypeOK, FileInv, OpInv, CodeInv, Up
<1>4. Len(file[w].units) + 1 < LogFileSize
  <2>1. PICK us, n, m : us = file[w].units /\ n = Len(us) /\ m = Len(todo)
    OBVIOUS
  <2>2. n \in Nat /\ m \in Nat /\ m \in {1, 2}
    BY <1>1, <1>3, <2>1, LenProperties DEF FileState, PutUnit, ShapeInv, OpInv
  <2>3. n + m < LogFileSize
    BY <1>1, <2>1 DEF PutUnit, ShapeInv, OpInv
  <2>4. n + 1 < LogFileSize
    BY <2>2, <2>3, SizesAssumption
  <2> QED
    BY <2>1, <2>4
<1>5. u \in Unit
  BY <1>2, <1>3, HeadTailProperties
<1>6. PICK U, V : U = Units /\ V = Units'
  OBVIOUS
<1>7. /\ UNCHANGED <<writeLog, nextFileCode, curSyncPos, nextSyncPos, racyRead>>
      /\ Codes' = Codes /\ (Up <=> Up')
      /\ syncPhase' = "made" => syncPhase = "made"
  BY <1>3 DEF PutUnit, Codes, Up
<1>8. PICK g, n : g = WithUnit(file[w], u) /\ n = Len(U[w])
  OBVIOUS
<1>9. file'[w] = g /\ \A k \in Codes \ {w} : file'[k] = file[k]
  BY <1>1, <1>2, <1>3, <1>8 DEF PutUnit, WithUnit, Codes
<1>10. /\ DOMAIN U = Codes /\ U[w] = file[w].units /\ WellFormed(U)
      /\ DOMAIN V = Codes /\ V[w] = g.units /\ \A k \in Codes \ {w} : V[k] = U[k]
  BY <1>3, <1>6, <1>7, <1>9, UnitsWellFormed DEF Units
<1>11. /\ Len(V[w]) = n + 1 /\ V[w][n + 1] = u
       /\ \A i \in 1 .. n : V[w][i] = U[w][i]
  <2>1. PICK f : f = file[w]
    OBVIOUS
  <2>2. /\ f \in FileState /\ FileOK(f) /\ Len(f.units) + 1 < LogFileSize
        /\ g = WithUnit(f, u) /\ n = Len(f.units)
    BY <1>3, <1>4, <1>8, <1>10, <2>1, Zenon
  <2>3. /\ Len(g.units) = Len(f.units) + 1
        /\ \A i \in 1 .. Len(f.units) : g.units[i] = f.units[i]
        /\ g.units[Len(f.units) + 1] = u
    BY <1>5, <2>2, AppendUnit
  <2> QED
    BY <1>10, <2>1, <2>2, <2>3, Zenon
<1>12. w \in Nat /\ n \in Nat /\ \A k \in Codes : k \in Nat /\ k <= w
  <2>1. \A k \in Codes : k \in Nat /\ k < nextFileCode
    BY <1>3 DEF ShapeInv, LogTypeOK, CodeInv, Up
  <2>2. n \in Nat
    BY <1>3, <1>10, <1>8 DEF WellFormed
  <2>3. nextFileCode \in Nat
    BY DEF ShapeInv, LogTypeOK
  <2> QED
    BY <1>3, <2>1, <2>2, <2>3
<1>13. CASE ~racyRead
  <2>1. /\ Below(U, curSyncPos) /\ Placed(U) /\ Ordered(U) /\ EndsInv
        /\ curSyncPos <= TrueEnd(U, w)
        /\ syncPhase = "made" => nextSyncPos <= TrueEnd(U, w)
    BY <1>3, <1>6, <1>13 DEF PointInv, EndsInv
  <2>2. curSyncPos \in Nat /\ nextSyncPos \in Nat
    BY DEF ShapeInv, LogTypeOK
  <2>3. PICK b : b = BeginPos(w)
    OBVIOUS
  <2>4. b \in Nat /\ TrueEnd(U, w) = b + n /\ TrueEnd(V, w) = b + (n + 1)
    BY <1>3, <1>8, <1>11, <1>12, <2>3, BeginOrder DEF TrueEnd
  <2>5. /\ curSyncPos <= b + (n + 1)
        /\ syncPhase = "made" => nextSyncPos <= b + (n + 1)
    BY <1>12, <2>1, <2>2, <2>4
  <2>6. IsPoint(u) => u.p = curSyncPos
    <3>1. 1 \in 1 .. Len(todo) /\ u = todo[1]
      BY <1>2, <1>3, EmptySeq, LenProperties
    <3>2. u.t # "head" /\ (u.t = "sync" => u.p = curSyncPos)
      BY <1>1, <3>1 DEF OpPointInv
    <3> QED
      BY <3>2 DEF IsPoint
  <2>7. Extends(V, U, w, n + 1, u)
    <3> SUFFICES ASSUME NEW k \in DOMAIN V, NEW i \in 1 .. Len(V[k])
                 PROVE  \/ k = w /\ i = n + 1 /\ V[k][i] = u
                        \/ /\ k \in DOMAIN U /\ i \in 1 .. Len(U[k]) /\ V[k][i] = U[k][i]
                           /\ k < w \/ (k = w /\ i < n + 1)
      BY DEF Extends
    <3>1. CASE k = w /\ i = n + 1
      BY <1>11, <3>1
    <3>2. CASE k = w /\ i # n + 1
      <4>1. i \in 1 .. n
        BY <1>11, <1>12, <3>2
      <4>2. i < n + 1
        BY <1>12, <4>1
      <4> QED
        BY <1>3, <1>10, <1>8, <1>11, <3>2, <4>1, <4>2
    <3>3. CASE k # w
      <4>1. k \in Codes /\ k < w
        BY <1>10, <1>12, <3>3
      <4> QED
        BY <1>10, <3>3, <4>1
    <3> QED
      BY <3>1, <3>2, <3>3
  <2>8. \A k \in DOMAIN V : k \in Nat
    BY <1>10, <1>12
  <2>9. /\ Placed(V) /\ Ordered(V)
        /\ \A p : (Below(U, p) /\ (IsPoint(u) => u.p <= p)) => Below(V, p)
    <3>1. IsPoint(u) => Below(U, u.p) /\ u.p \in Nat /\ u.p <= BeginPos(w) + (n + 1)
      BY <2>1, <2>2, <2>3, <2>5, <2>6
    <3>2. w \in Nat /\ n + 1 \in Nat
      BY <1>12
    <3> QED
      BY <2>1, <2>7, <2>8, <3>1, <3>2, ExtendKeeps
  <2>10. Below(V, curSyncPos)
    <3>1. IsPoint(u) => u.p <= curSyncPos
      BY <2>2, <2>6
    <3> QED
      BY <2>1, <2>9, <3>1
  <2>11. EndsInv'
    <3>1. /\ curSyncPos <= TrueEnd(V, w)
          /\ syncPhase = "made" => nextSyncPos <= TrueEnd(V, w)
      BY <2>4, <2>5
    <3>2. Up /\ ~racyRead /\ Codes # {} /\ curSyncPos <= nextSyncPos
      BY <1>3, <1>13, <2>1 DEF EndsInv
    <3> QED
      BY <1>3, <1>6, <1>7, <3>1, <3>2 DEF EndsInv
  <2> QED
    BY <1>6, <1>7, <2>9, <2>10, <2>11 DEF PointInv
<1>14. CASE racyRead
  BY <1>7, <1>14 DEF PointInv, EndsInv
<1> QED
  BY <1>13, <1>14

\* The flushes, the fsyncs and the steps that write nothing.
LEMMA QuietPoint ==
    ASSUME ShapeInv, PointInv,
           \/ FlushStart \/ FlushEnd \/ SyncLogFile \/ RemoveExpiredLogDone
           \/ UNCHANGED logVars
    PROVE  PointInv'
<1>1. Units' = Units /\ Codes' = Codes
  <2>1. CASE FlushStart
    <3>1. writeLog \in Codes /\ file[writeLog] \in FileState
      BY <2>1 DEF FlushStart, MustFlush, ShapeInv, OpInv, LogTypeOK
    <3> QED
      BY <2>1, <3>1 DEF FlushStart, Units, Codes
  <2>2. CASE FlushEnd
    BY <2>2 DEF FlushEnd, Units, Codes
  <2>3. CASE SyncLogFile \/ RemoveExpiredLogDone \/ UNCHANGED logVars
    BY <2>3 DEF SyncLogFile, RemoveExpiredLogDone, logVars, Units, Codes
  <2> QED
    BY <2>1, <2>2, <2>3
<1>2. /\ UNCHANGED <<nextFileCode, curSyncPos, nextSyncPos, racyRead>>
      /\ Up <=> Up'
      /\ syncPhase' = "made" => syncPhase = "made"
  BY DEF FlushStart, FlushEnd, SyncLogFile, RemoveExpiredLogDone, logVars, Up
<1> QED
  BY <1>1, <1>2, SamePointInv

LEMMA BeginAppendPoint ==
    ASSUME ShapeInv, PointInv, Up, Up',
           NEW units, BeginAppend(units),
           syncPhase' = "made" => syncPhase = "made"
    PROVE  PointInv'
<1>1. UNCHANGED <<curSyncPos, nextSyncPos, racyRead>> /\ (Up <=> Up')
  BY DEF BeginAppend
<1>2. CASE NewLogFile(file)
  BY <1>1, <1>2, NewLogFilePoint
<1>3. CASE UNCHANGED <<file, writeLog, nextFileCode>>
  <2>1. Units' = Units /\ Codes' = Codes
    BY <1>3 DEF Units, Codes
  <2> QED
    BY <1>1, <1>3, <2>1, SamePointInv
<1>4. CASE /\ file' = [file EXCEPT ![writeLog].ro = TRUE]
           /\ UNCHANGED <<writeLog, nextFileCode>>
  <2>1. Codes' = Codes
    BY <1>4 DEF Codes
  <2>2. \A k \in Codes : file'[k].units = file[k].units
    BY <1>4 DEF ShapeInv, LogTypeOK, FileState, Codes
  <2>3. Units' = Units
    BY <2>1, <2>2 DEF Units
  <2> QED
    BY <1>1, <1>4, <2>1, <2>3, SamePointInv
<1> QED
  BY <1>2, <1>3, <1>4 DEF BeginAppend

LEMMA FsyncFilePoint == ASSUME ShapeInv, PointInv, FsyncFile PROVE PointInv'
<1>1. PICK h : h = [file EXCEPT ![writeLog].synced = file[writeLog].size]
  OBVIOUS
<1>2. DOMAIN h = Codes /\ \A k \in Codes : h[k].units = file[k].units
  BY <1>1 DEF Codes, ShapeInv, LogTypeOK, FileState
<1>3. /\ UNCHANGED <<curSyncPos, nextSyncPos, syncPhase, racyRead>>
      /\ Up /\ Up'
  <2>1. logOp # NoOp
    BY DEF FsyncFile, NoOp
  <2> QED
    BY <2>1 DEF FsyncFile, ShapeInv, CodeInv, Up
<1>4. CASE file' = h /\ UNCHANGED <<writeLog, nextFileCode>>
  <2>1. Units' = Units /\ Codes' = Codes
    BY <1>2, <1>4 DEF Units, Codes
  <2> QED
    BY <1>3, <1>4, <2>1, SamePointInv
<1>5. CASE NewLogFile(h)
  BY <1>2, <1>3, <1>5, NewLogFilePoint
<1> QED
  BY <1>1, <1>4, <1>5 DEF FsyncFile

LEMMA MakeSyncPointPoint == ASSUME ShapeInv, PointInv, MakeSyncPoint PROVE PointInv'
<1>1. /\ UNCHANGED <<file, writeLog, nextFileCode, curSyncPos, logOp>>
      /\ Units' = Units /\ Codes' = Codes /\ Up /\ Up'
  BY DEF MakeSyncPoint, Units, Codes, Up
<1>2. CASE ~racyRead'
  <2>1. ~racyRead
    BY <1>2 DEF MakeSyncPoint, ShapeInv, LogTypeOK
  <2>2. /\ Below(Units, curSyncPos) /\ Placed(Units) /\ Ordered(Units)
        /\ curSyncPos <= nextSyncPos
        /\ Codes = {} => curSyncPos = 0 /\ nextSyncPos = 0
        /\ Codes # {} => curSyncPos <= TrueEnd(Units, nextFileCode - 1)
    BY <1>1, <2>1 DEF PointInv, EndsInv
  <2>3. CASE Codes = {}
    <3>1. nextSyncPos' = nextSyncPos
      BY <2>3 DEF MakeSyncPoint
    <3> QED
      BY <1>1, <2>2, <2>3, <3>1 DEF PointInv, EndsInv
  <2>4. CASE Codes # {}
    <3>1. PICK b : b = Back
      OBVIOUS
    <3>2. b \in Codes /\ b = nextFileCode - 1
      BY <1>1, <2>4, <3>1, BackIsMax, BackIsNewest DEF ShapeInv
    <3>3. ~(logOp.mid /\ b = writeLog)
      BY <1>2, <2>4, <3>1 DEF MakeSyncPoint, RacyEnd, ShapeInv, LogTypeOK
    <3>4. nextSyncPos' = EndPos(b)
      BY <2>4, <3>1, <3>3 DEF MakeSyncPoint, EndPosReads
    <3>5. PICK f, us, size, pos : f = file[b] /\ us = f.units /\ size = f.size /\ pos = f.pos
      OBVIOUS
    <3>6. size \in Nat /\ pos \in Nat /\ Len(us) = size + pos
      BY <3>2, <3>3, <3>5 DEF ShapeInv, LogTypeOK, FileState, FileInv, FileOK
    <3>7. BeginPos(b) \in Nat
      BY <3>2, BeginOrder DEF ShapeInv, LogTypeOK
    <3>8. EndPos(b) = BeginPos(b) + size + pos
      BY <3>5 DEF EndPos
    <3>9. TrueEnd(Units, b) = BeginPos(b) + (size + pos)
      <4>1. Units[b] = us
        BY <3>2, <3>5 DEF Units
      <4> QED
        BY <3>6, <4>1 DEF TrueEnd
    <3>10. nextSyncPos' = TrueEnd(Units, b)
      BY <3>4, <3>6, <3>7, <3>8, <3>9
    <3>11. /\ curSyncPos <= nextSyncPos' /\ curSyncPos <= TrueEnd(Units, nextFileCode - 1)
           /\ nextSyncPos' <= TrueEnd(Units, nextFileCode - 1)
      <4>1. TrueEnd(Units, b) \in Nat
        BY <3>6, <3>7, <3>9
      <4> QED
        BY <2>2, <2>4, <3>2, <3>10, <4>1
    <3>12. EndsInv'
      BY <1>1, <2>4, <3>11 DEF EndsInv
    <3> QED
      BY <1>1, <2>2, <3>12 DEF PointInv
  <2> QED
    BY <2>3, <2>4
<1>3. CASE racyRead'
  BY <1>3 DEF PointInv, EndsInv
<1> QED
  BY <1>2, <1>3

LEMMA CommitSyncPointPoint == ASSUME ShapeInv, PointInv, CommitSyncPoint PROVE PointInv'
<1>1. /\ UNCHANGED <<file, writeLog, nextFileCode, nextSyncPos, logOp, racyRead>>
      /\ Units' = Units /\ Codes' = Codes /\ Up /\ Up' /\ curSyncPos' = nextSyncPos
      /\ syncPhase = "made" /\ syncPhase' # "made"
  BY DEF CommitSyncPoint, Units, Codes, Up
<1>2. curSyncPos \in Nat /\ nextSyncPos \in Nat
  BY DEF ShapeInv, LogTypeOK
<1>3. CASE ~racyRead
  <2>1. /\ Below(Units, curSyncPos) /\ Placed(Units) /\ Ordered(Units)
        /\ curSyncPos <= nextSyncPos
        /\ Codes = {} => curSyncPos = 0 /\ nextSyncPos = 0
        /\ Codes # {} => nextSyncPos <= TrueEnd(Units, nextFileCode - 1)
    BY <1>1, <1>3 DEF PointInv, EndsInv
  <2>2. Below(Units, nextSyncPos)
    <3> SUFFICES ASSUME NEW k \in DOMAIN Units, NEW i \in 1 .. Len(Units[k]),
                        IsPoint(Units[k][i])
                 PROVE  Units[k][i].p <= nextSyncPos
      BY DEF Below
    <3>1. PICK q : q = Units[k][i].p
      OBVIOUS
    <3>2. q <= curSyncPos
      BY <2>1, <3>1 DEF Below
    <3>3. q \in Nat
      <4>1. Units[k][i] \in Unit
        BY UnitsWellFormed, ElementOfSeq DEF WellFormed
      <4> QED
        BY <3>1, <4>1 DEF Unit, IsPoint
    <3> QED
      BY <1>2, <2>1, <3>1, <3>2, <3>3
  <2>3. EndsInv'
    BY <1>1, <1>2, <2>1 DEF EndsInv
  <2> QED
    BY <1>1, <2>1, <2>2, <2>3 DEF PointInv
<1>4. CASE racyRead
  BY <1>1, <1>4 DEF PointInv, EndsInv
<1> QED
  BY <1>3, <1>4

\* Files are deleted while the server runs.
LEMMA RemoveExpiredLogPoint == ASSUME ShapeInv, PointInv, RemoveExpiredLog PROVE PointInv'
<1>1. PICK d : d = Front /\ d # writeLog
  BY DEF RemoveExpiredLog
<1>2. /\ Codes' = Codes \ {d}
      /\ \A k \in Codes' : file'[k] = file[k]
      /\ UNCHANGED <<writeLog, nextFileCode, curSyncPos, nextSyncPos, racyRead>>
      /\ syncPhase = "expire" /\ syncPhase' = "expire" /\ Up /\ Up'
  BY <1>1 DEF RemoveExpiredLog, Codes, Up
<1>3. writeLog \in Codes /\ writeLog \in Codes' /\ writeLog = nextFileCode - 1
  BY <1>1, <1>2 DEF ShapeInv, LogTypeOK, CodeInv
<1>4. PICK U, V : U = Units /\ V = Units'
  OBVIOUS
<1>5. DOMAIN V = Codes' /\ DOMAIN U = Codes /\ \A k \in Codes' : V[k] = U[k]
  BY <1>2, <1>4 DEF Units
<1>6. CutOf(V, U)
  BY <1>2, <1>5 DEF CutOf
<1>7. CASE ~racyRead
  <2>1. /\ Below(U, curSyncPos) /\ Placed(U) /\ Ordered(U)
        /\ curSyncPos <= nextSyncPos /\ curSyncPos <= TrueEnd(U, nextFileCode - 1)
    BY <1>2, <1>3, <1>4, <1>7 DEF PointInv, EndsInv
  <2>2. Placed(V) /\ Ordered(V) /\ Below(V, curSyncPos)
    BY <1>6, <2>1, CutKeeps
  <2>3. TrueEnd(V, nextFileCode - 1) = TrueEnd(U, nextFileCode - 1)
    BY <1>3, <1>5 DEF TrueEnd
  <2>4. EndsInv'
    BY <1>2, <1>3, <1>4, <2>1, <2>3 DEF EndsInv
  <2> QED
    BY <1>2, <1>4, <2>2, <2>4 DEF PointInv
<1>8. CASE racyRead
  BY <1>2, <1>8 DEF PointInv, EndsInv
<1> QED
  BY <1>7, <1>8

\* The process ends, and of the files a part remains.
LEMMA DiePoint ==
    ASSUME PointInv, Die, CutOf(Units', Units)
    PROVE  PointInv'
<1>1. ~Up' /\ racyRead' = racyRead
  BY DEF Die, Up
<1>2. PICK U, V : U = Units /\ V = Units'
  OBVIOUS
<1>3. ASSUME ~racyRead PROVE Placed(V) /\ Ordered(V)
  <2>1. Placed(U) /\ Ordered(U)
    BY <1>2, <1>3 DEF PointInv
  <2> QED
    BY <1>2, <2>1, CutKeeps
<1>4. EndsInv'
  BY <1>1 DEF EndsInv
<1> QED
  BY <1>1, <1>2, <1>3, <1>4 DEF PointInv

LEMMA RemoveUnderWriterPoint == ASSUME ShapeInv, PointInv, RemoveUnderWriter PROVE PointInv'
<1>1. Codes' \subseteq Codes /\ \A k \in Codes' : file'[k] = file[k]
  BY DEF RemoveUnderWriter, Codes
<1>2. CutOf(Units', Units)
  BY <1>1 DEF CutOf, Units
<1> QED
  BY <1>2, DiePoint DEF RemoveUnderWriter

LEMMA ShutdownPoint == ASSUME ShapeInv, PointInv, Shutdown PROVE PointInv'
<1>1. Codes' = {}
  BY DEF Shutdown, Codes
<1>2. CutOf(Units', Units)
  BY <1>1 DEF CutOf, Units
<1> QED
  BY <1>2, DiePoint DEF Shutdown

LEMMA CrashCut == ASSUME ShapeInv, Crash PROVE CutOf(Units', Units)
<1>1. PICK lost \in 0 .. LogFileSize :
          /\ Codes' = {k \in Codes : Kept(k, lost) > 1}
          /\ \A k \in Codes' :
                /\ file'[k] \in FileState
                /\ Len(file'[k].units) <= Len(file[k].units)
                /\ \A i \in 1 .. Len(file'[k].units) : file'[k].units[i] = file[k].units[i]
  BY CrashFiles
<1>2. PICK U, V : U = Units /\ V = Units'
  OBVIOUS
<1>3. /\ DOMAIN V = Codes' /\ DOMAIN U = Codes /\ Codes' \subseteq Codes
      /\ \A k \in Codes' : V[k] = file'[k].units
      /\ \A k \in Codes : U[k] = file[k].units
  BY <1>1, <1>2 DEF Units
<1>4. WellFormed(U)
  BY <1>2, UnitsWellFormed
<1>5. \A k \in Codes' : Len(V[k]) \in Nat
  BY <1>1, <1>3, LenProperties DEF FileState
<1>6. CutOf(V, U)
  <2> SUFFICES ASSUME NEW k \in DOMAIN V, NEW i \in 1 .. Len(V[k])
               PROVE  k \in DOMAIN U /\ i \in 1 .. Len(U[k]) /\ V[k][i] = U[k][i]
    BY DEF CutOf
  <2>1. k \in Codes' /\ k \in Codes
    BY <1>3
  <2>2. PICK m, n : m = Len(V[k]) /\ n = Len(U[k])
    OBVIOUS
  <2>3. m \in Nat /\ n \in Nat
    BY <1>3, <1>4, <1>5, <2>1, <2>2 DEF WellFormed
  <2>4. m <= n /\ \A j \in 1 .. m : V[k][j] = U[k][j]
    BY <1>1, <1>3, <2>1, <2>2, Zenon
  <2>5. i \in 1 .. m /\ i \in 1 .. n
    BY <2>2, <2>3, <2>4
  <2> QED
    BY <1>3, <2>1, <2>2, <2>4, <2>5
<1> QED
  BY <1>2, <1>6

LEMMA CrashPoint == ASSUME ShapeInv, PointInv, Crash PROVE PointInv'
BY CrashCut, DiePoint DEF Crash

LEMMA RecoverLogPoint == ASSUME ShapeInv, PointInv, RecoverLog PROVE PointInv'
<1>1. /\ UNCHANGED <<file, writeLog, logOp, racyRead>>
      /\ Units' = Units /\ Codes' = Codes /\ Up' /\ syncPhase' = "idle"
  BY DEF RecoverLog, Units, Codes, Up
<1>2. CASE ~racyRead /\ Codes = {}
  <2>1. curSyncPos' = 0 /\ nextSyncPos' = 0
    BY <1>2 DEF RecoverLog
  <2>2. Below(Units', curSyncPos')
    BY <1>1, <1>2 DEF Below, Units
  <2>3. EndsInv'
    BY <1>1, <1>2, <2>1 DEF EndsInv
  <2> QED
    BY <1>1, <1>2, <2>2, <2>3 DEF PointInv
<1>3. CASE ~racyRead /\ Codes # {}
  <2>1. PICK U, b : U = Units /\ b = Back
    OBVIOUS
  <2>2. b \in Codes /\ \A j \in Codes : j <= b
    BY <1>3, <2>1, BackIsMax DEF ShapeInv
  <2>3. PICK i \in 1 .. Len(file[b].units) : PointAt(b, i) /\ RecoverPoint(b) = file[b].units[i].p
    BY <2>2, LastPoint
  <2>4. /\ DOMAIN U = Codes /\ WellFormed(U)
        /\ \A k \in Codes : U[k] = file[k].units
    BY <2>1, UnitsWellFormed DEF Units
  <2>5. PICK p, n : p = RecoverPoint(b) /\ n = Len(U[b])
    OBVIOUS
  <2>6. /\ i \in 1 .. n /\ n \in Nat /\ p = U[b][i].p /\ IsPoint(U[b][i])
        /\ \A j \in i + 1 .. n : ~IsPoint(U[b][j])
    BY <2>2, <2>3, <2>4, <2>5 DEF PointAt, IsPoint, WellFormed
  <2>7. p \in Nat
    <3>1. U[b][i] \in Unit
      BY <2>2, <2>4, <2>5, <2>6, ElementOfSeq DEF WellFormed
    <3> QED
      BY <2>6, <3>1 DEF Unit, IsPoint
  <2>8. Placed(U) /\ Ordered(U)
    BY <1>3, <2>1 DEF PointInv
  <2>9. Below(U, p)
    <3> SUFFICES ASSUME NEW k \in DOMAIN U, NEW j \in 1 .. Len(U[k]), IsPoint(U[k][j])
                 PROVE  U[k][j].p <= p
      BY DEF Below
    <3>1. k \in Nat /\ b \in Nat /\ k <= b
      BY <2>2, <2>4 DEF WellFormed
    <3>2. CASE k < b \/ (k = b /\ j < i)
      BY <2>2, <2>4, <2>5, <2>6, <2>8, <3>2 DEF Ordered
    <3>3. CASE k = b /\ j = i
      BY <2>6, <2>7, <3>3
    <3>4. CASE k = b /\ j > i
      <4>1. j \in i + 1 .. n
        BY <2>5, <2>6, <3>4
      <4> QED
        BY <2>6, <3>4, <4>1
    <3> QED
      BY <2>5, <2>6, <3>1, <3>2, <3>3, <3>4
  <2>10. BeginPos(b) \in Nat /\ BeginPos(b) + LogFileSize = b * LogFileSize
    <3>1. b \in Nat \ {0} /\ LogFileSize \in Nat
      BY <2>2, <2>4, SizesAssumption DEF WellFormed
    <3>2. b * LogFileSize = (b - 1) * LogFileSize + LogFileSize
      BY <3>1
    <3> QED
      BY <3>1, <3>2, BeginOrder DEF BeginPos
  <2>11. p <= BeginPos(b) + n
    <3>1. p <= BeginPos(b) + i
      BY <2>2, <2>4, <2>5, <2>6, <2>8 DEF Placed
    <3> QED
      BY <2>6, <2>7, <2>10, <3>1
  <2>12. /\ curSyncPos' = p /\ nextFileCode' = b + 1
         /\ nextSyncPos' \in {b * LogFileSize, p}
    BY <1>3, <2>1, <2>5 DEF RecoverLog
  <2>13. p <= b * LogFileSize
    <3>1. n < LogFileSize
      BY <2>2, <2>4, <2>5 DEF WellFormed
    <3> QED
      BY <2>6, <2>7, <2>10, <2>11, <3>1, SizesAssumption
  <2>14. curSyncPos' <= nextSyncPos'
    BY <2>7, <2>12, <2>13
  <2>15. nextFileCode' - 1 = b /\ curSyncPos' <= TrueEnd(U, b)
    BY <2>2, <2>4, <2>5, <2>11, <2>12 DEF TrueEnd, WellFormed
  <2>16. EndsInv'
    BY <1>1, <1>3, <2>1, <2>14, <2>15 DEF EndsInv
  <2> QED
    BY <1>1, <2>1, <2>8, <2>9, <2>12, <2>16 DEF PointInv
<1>4. CASE racyRead
  BY <1>1, <1>4 DEF PointInv, EndsInv
<1> QED
  BY <1>2, <1>3, <1>4

LEMMA NextPoint == ASSUME ShapeInv, SyncInv, [LogNext]_logVars PROVE PointInv'
<1> USE DEF SyncInv
<1>1. ASSUME NEW r \in Recs, AppendRec(r) PROVE PointInv'
  BY <1>1, BeginAppendPoint DEF AppendRec, Up
<1>2. CASE FlushStart \/ FlushEnd \/ SyncLogFile \/ RemoveExpiredLogDone \/ UNCHANGED logVars
  BY <1>2, QuietPoint
<1>3. CASE PutUnit
  BY <1>3, PutUnitPoint
<1>4. CASE FsyncFile
  BY <1>4, FsyncFilePoint
<1>5. CASE AppendPoint
  BY <1>5, BeginAppendPoint DEF AppendPoint, Up
<1>6. CASE MakeSyncPoint
  BY <1>6, MakeSyncPointPoint
<1>7. CASE CommitSyncPoint
  BY <1>7, CommitSyncPointPoint
<1>8. CASE RemoveExpiredLog
  BY <1>8, RemoveExpiredLogPoint
<1>9. CASE RemoveUnderWriter
  BY <1>9, RemoveUnderWriterPoint
<1>10. CASE Shutdown
  BY <1>10, ShutdownPoint
<1>11. CASE Crash
  BY <1>11, CrashPoint
<1>12. CASE RecoverLog
  BY <1>12, RecoverLogPoint
<1> QED
  BY <1>1, <1>2, <1>3, <1>4, <1>5, <1>6, <1>7, <1>8, <1>9, <1>10, <1>11, <1>12
     DEF LogNext, WriterStep, SyncPointStep

LEMMA InitSync == LogInit => SyncInv
<1> SUFFICES ASSUME LogInit PROVE SyncInv
  OBVIOUS
<1>1. Codes = {} /\ Len(logOp.todo) = 0 /\ DOMAIN Units = {}
  BY DEF LogInit, Codes, Units, NoOp
<1>2. OpPointInv
  BY <1>1 DEF OpPointInv
<1>3. PointInv
  BY <1>1 DEF LogInit, PointInv, EndsInv, Below, Placed, Ordered
<1> QED
  BY <1>2, <1>3 DEF SyncInv

LEMMA Invariance == LogSpec => [](ShapeInv /\ SyncInv)
<1>1. LogInit => ShapeInv /\ SyncInv
  BY InitShape, InitSync
<1>2. ShapeInv /\ SyncInv /\ [LogNext]_logVars => (ShapeInv /\ SyncInv)'
  BY NextShape, NextOpPoint, NextPoint DEF SyncInv
<1> QED
  BY <1>1, <1>2, PTL DEF LogSpec

-----------------------------------------------------------------------------
\* No header and no SYNC_INFO record is behind the committed sync point: a
\* start never redoes from further than the server had committed, whatever the
\* number of files, their size and the size of the buffer.
THEOREM PointsAreCommitted == LogSpec => []PointsCommitted
<1>1. ShapeInv /\ SyncInv => PointsCommitted
  <2> SUFFICES ASSUME ShapeInv, SyncInv, syncPhase # "down", ~racyRead,
                      NEW k \in Codes, NEW i \in 1 .. Len(file[k].units),
                      file[k].units[i].t \in {"head", "sync"}
               PROVE  file[k].units[i].p <= curSyncPos
    BY DEF PointsCommitted
  <2>1. Below(Units, curSyncPos)
    BY DEF SyncInv, PointInv, Up
  <2>2. k \in DOMAIN Units /\ Units[k] = file[k].units
    BY DEF Units
  <2> QED
    BY <2>1, <2>2 DEF Below, IsPoint
<1> QED
  BY <1>1, Invariance, PTL

\* The committed sync point does not move back while the server runs: the next
\* one lies between it and the end of the log, in every interleaving of the
\* writers, the log thread and the sync thread, and across every roll to a new
\* file.
THEOREM SyncPointNeverBack == LogSpec => SyncPointMonotone
<1> DEFINE Forward == (syncPhase # "down" /\ syncPhase' # "down" /\ ~racyRead')
                          => curSyncPos <= curSyncPos'
<1>1. ShapeInv /\ SyncInv /\ [LogNext]_logVars => [Forward]_logVars
  <2> SUFFICES ASSUME ShapeInv, SyncInv, LogNext,
                      syncPhase # "down", syncPhase' # "down", ~racyRead'
               PROVE  curSyncPos <= curSyncPos'
    OBVIOUS
  <2>1. curSyncPos \in Nat
    BY DEF ShapeInv, LogTypeOK
  <2>2. CASE CommitSyncPoint
    <3>1. ~racyRead /\ curSyncPos' = nextSyncPos
      BY <2>2 DEF CommitSyncPoint
    <3> QED
      BY <3>1 DEF SyncInv, PointInv, EndsInv, Up
  <2>3. CASE ~CommitSyncPoint
    <3>1. curSyncPos' = curSyncPos
      BY <2>3 DEF LogNext, AppendRec, SyncLogFile, WriterStep, PutUnit, FlushStart, FlushEnd,
                  FsyncFile, SyncPointStep, MakeSyncPoint, AppendPoint, BeginAppend,
                  RemoveExpiredLog, RemoveUnderWriter, RemoveExpiredLogDone, Crash, Shutdown,
                  RecoverLog, Die
    <3> QED
      BY <2>1, <3>1
  <2> QED
    BY <2>2, <2>3
<1> QED
  BY <1>1, Invariance, PTL DEF LogSpec, SyncPointMonotone

-----------------------------------------------------------------------------
(* The redo scan: from the recovered sync point it returns every record    *)
(* behind it and no other.  It drops a file if it starts inside a record,  *)
(* so the invariant is that no sync point lies between the head of a       *)
(* record and its body: none of the files (Whole), and none that is being  *)
(* appended (BodyNext).                                                    *)

\* The unit behind the position q, if there is one, is not the body of a record.
Whole(U, q) ==
    \A k \in DOMAIN U : \A i \in 1 .. Len(U[k]) : BeginPos(k) + i = q + 1 => U[k][i].t # "body"

\* q is a sync point that a file names.
InFiles(U, q) ==
    \E k \in DOMAIN U : \E i \in 1 .. Len(U[k]) : IsPoint(U[k][i]) /\ q = U[k][i].p

\* Or one of the server, or of a full sync that is under way.
Marked(q) ==
    \/ InFiles(Units, q)
    \/ Up /\ q = curSyncPos
    \/ syncPhase = "made" /\ q = nextSyncPos

\* The next unit to be appended is a body.
BodyNext == logOp.todo # <<>> /\ logOp.todo[1].t = "body"

AlignInv ==
    /\ BodyNext => logOp.stage = "append"
    /\ ~racyRead => \A q : Marked(q) =>
            /\ Whole(Units, q)
            /\ BodyNext => q # TrueEnd(Units, writeLog)

\* Files that lose units keep what holds of their points.
LEMMA CutPoints ==
    ASSUME NEW U, NEW V, CutOf(V, U), NEW q
    PROVE  /\ InFiles(V, q) => InFiles(U, q)
           /\ Whole(U, q) => Whole(V, q)
<1>1. ASSUME InFiles(V, q) PROVE InFiles(U, q)
  BY <1>1 DEF InFiles, CutOf
<1>2. ASSUME Whole(U, q) PROVE Whole(V, q)
  BY <1>2 DEF Whole, CutOf
<1> QED
  BY <1>1, <1>2

\* One more unit u behind all others.
LEMMA ExtendPoints ==
    ASSUME NEW U, NEW V, NEW n, NEW m, NEW u, Extends(V, U, n, m, u), NEW q
    PROVE  /\ InFiles(V, q) => InFiles(U, q) \/ (IsPoint(u) /\ q = u.p)
           /\ (Whole(U, q) /\ (u.t = "body" => BeginPos(n) + m # q + 1)) => Whole(V, q)
<1>1. ASSUME InFiles(V, q) PROVE InFiles(U, q) \/ (IsPoint(u) /\ q = u.p)
  BY <1>1 DEF InFiles, Extends
<1>2. ASSUME Whole(U, q), u.t = "body" => BeginPos(n) + m # q + 1 PROVE Whole(V, q)
  BY <1>2 DEF Whole, Extends
<1> QED
  BY <1>1, <1>2

\* What PutUnit does to the contents of the files.
PutUnitFacts(w, U, V, n, u) ==
    /\ w = writeLog /\ U = Units /\ V = Units' /\ n = Len(U[w]) /\ u = logOp.todo[1]
    /\ w \in Codes /\ Codes' = Codes /\ w = nextFileCode - 1 /\ w \in Nat \ {0} /\ Up /\ Up'
    /\ n \in Nat /\ n >= 1 /\ n + 1 < LogFileSize /\ u \in Unit
    /\ DOMAIN U = Codes /\ DOMAIN V = Codes
    /\ Len(V[w]) = n + 1 /\ V[w][n + 1] = u
    /\ \A i \in 1 .. n : V[w][i] = U[w][i]
    /\ \A k \in Codes \ {w} : V[k] = U[k] /\ k < w
    /\ Extends(V, U, w, n + 1, u)

LEMMA PutUnitUnits == ASSUME ShapeInv, PutUnit PROVE \E w, U, V, n, u : PutUnitFacts(w, U, V, n, u)
<1>0. PICK w, U, V, u : w = writeLog /\ U = Units /\ V = Units' /\ u = logOp.todo[1]
  OBVIOUS
<1>n. PICK n : n = Len(U[w])
  OBVIOUS
<1>1. PICK todo : todo = logOp.todo
  OBVIOUS
<1>2. /\ w \in Codes /\ w # 0 /\ Up /\ w = nextFileCode - 1
      /\ todo \in Seq(Unit) /\ todo # <<>>
      /\ FileOK(file[w]) /\ file[w] \in FileState
  BY <1>0, <1>1 DEF PutUnit, ShapeInv, LogTypeOK, FileInv, OpInv, CodeInv, Up
<1>3. u = Head(todo) /\ u \in Unit
  BY <1>0, <1>1, <1>2, HeadTailProperties
<1>4. Len(file[w].units) + 1 < LogFileSize
  <2>1. PICK us, k, m : us = file[w].units /\ k = Len(us) /\ m = Len(todo)
    OBVIOUS
  <2>2. k \in Nat /\ m \in Nat /\ m \in {1, 2}
    BY <1>1, <1>2, <2>1, LenProperties DEF FileState, PutUnit, ShapeInv, OpInv
  <2>3. k + m < LogFileSize
    BY <1>0, <1>1, <2>1 DEF PutUnit, ShapeInv, OpInv
  <2>4. k + 1 < LogFileSize
    BY <2>2, <2>3, SizesAssumption
  <2> QED
    BY <2>1, <2>4
<1>5. UNCHANGED writeLog /\ Codes' = Codes /\ Up'
  BY <1>0, <1>2 DEF PutUnit, Codes, Up
<1>6. PICK g : g = WithUnit(file[w], u)
  OBVIOUS
<1>7. file'[w] = g /\ \A k \in Codes \ {w} : file'[k] = file[k]
  BY <1>0, <1>1, <1>2, <1>3, <1>6 DEF PutUnit, WithUnit, Codes
<1>8. /\ DOMAIN U = Codes /\ U[w] = file[w].units /\ WellFormed(U)
      /\ DOMAIN V = Codes /\ V[w] = g.units /\ \A k \in Codes \ {w} : V[k] = U[k]
  BY <1>0, <1>2, <1>5, <1>7, UnitsWellFormed DEF Units
<1>9. n \in Nat /\ n >= 1 /\ n + 1 < LogFileSize
  BY <1>n, <1>2, <1>4, <1>8 DEF WellFormed
<1>10. /\ Len(V[w]) = n + 1 /\ V[w][n + 1] = u
       /\ \A i \in 1 .. n : V[w][i] = U[w][i]
  <2>1. PICK f : f = file[w]
    OBVIOUS
  <2>2. /\ f \in FileState /\ FileOK(f) /\ Len(f.units) + 1 < LogFileSize
        /\ g = WithUnit(f, u) /\ n = Len(f.units)
    BY <1>n, <1>2, <1>4, <1>6, <1>8, <2>1, Zenon
  <2>3. /\ Len(g.units) = Len(f.units) + 1
        /\ \A i \in 1 .. Len(f.units) : g.units[i] = f.units[i]
        /\ g.units[Len(f.units) + 1] = u
    BY <1>3, <2>2, AppendUnit
  <2> QED
    BY <1>n, <1>8, <2>1, <2>2, <2>3, Zenon
<1>11. w \in Nat \ {0} /\ \A k \in Codes \ {w} : k \in Nat /\ k < w
  <2>1. \A k \in Codes : k \in Nat /\ k < nextFileCode
    BY <1>2 DEF ShapeInv, LogTypeOK, CodeInv, Up
  <2>2. nextFileCode \in Nat
    BY DEF ShapeInv, LogTypeOK
  <2> QED
    BY <1>2, <2>1, <2>2
<1>12. Extends(V, U, w, n + 1, u)
  <2> SUFFICES ASSUME NEW k \in DOMAIN V, NEW i \in 1 .. Len(V[k])
               PROVE  \/ k = w /\ i = n + 1 /\ V[k][i] = u
                      \/ /\ k \in DOMAIN U /\ i \in 1 .. Len(U[k]) /\ V[k][i] = U[k][i]
                         /\ k < w \/ (k = w /\ i < n + 1)
    BY DEF Extends
  <2>1. CASE k = w /\ i = n + 1
    BY <1>10, <2>1
  <2>2. CASE k = w /\ i # n + 1
    <3>1. i \in 1 .. n
      BY <1>9, <1>10, <2>2
    <3>2. i < n + 1
      BY <1>9, <3>1
    <3> QED
      <4>1. k = w /\ i < n + 1 /\ V[k][i] = U[k][i] /\ k \in DOMAIN U
        BY <1>2, <1>8, <1>9, <1>10, <2>2, <3>1
      <4>2. i \in 1 .. Len(U[k])
        BY <1>n, <3>1, <4>1, Zenon
      <4> QED
        BY <4>1, <4>2
  <2>3. CASE k # w
    <3>1. k \in Codes /\ k < w
      BY <1>8, <1>11, <2>3
    <3> QED
      BY <1>8, <2>3, <3>1
  <2> QED
    BY <2>1, <2>2, <2>3
<1> QED
  <2>1. PutUnitFacts(w, U, V, n, u)
    BY <1>0, <1>n, <1>2, <1>3, <1>5, <1>8, <1>9, <1>10, <1>11, <1>12 DEF PutUnitFacts
  <2> QED
    BY <2>1

\* And a new file, which begins behind the end of all others.
LEMMA NewLogFileUnits ==
    ASSUME ShapeInv, Up, NEW f, \A k \in Codes : f[k].units = file[k].units, NewLogFile(f),
           NEW n, n = nextFileCode, NEW U, U = Units, NEW V, V = Units',
           NEW u, u = HeadUnit(curSyncPos)
    PROVE  /\ Codes' = Codes \cup {n} /\ n \notin Codes /\ n \in Nat \ {0}
           /\ \A k \in Codes : k < n /\ file'[k] = f[k]
           /\ file'[n] = NewFileState
           /\ DOMAIN U = Codes /\ DOMAIN V = Codes' /\ V[n] = <<u>> /\ \A k \in Codes : V[k] = U[k]
           /\ Extends(V, U, n, 1, u)
<1>1. n \in Nat \ {0} /\ \A k \in Codes : k < n /\ k \in Nat
  BY DEF ShapeInv, LogTypeOK, CodeInv, Up
<1>2. DOMAIN U = Codes /\ \A k \in Codes : U[k] = file[k].units
  BY DEF Units
<1>3. /\ Codes' = Codes \cup {n} /\ n \notin Codes
      /\ file'[n] = NewFileState /\ file'[n].units = <<u>> /\ \A k \in Codes : file'[k] = f[k]
  BY <1>1 DEF NewLogFile, Codes, NewFileState
<1>4. DOMAIN V = Codes' /\ V[n] = <<u>> /\ \A k \in Codes : V[k] = U[k]
  BY <1>2, <1>3 DEF Units
<1>5. Extends(V, U, n, 1, u)
  <2> SUFFICES ASSUME NEW k \in DOMAIN V, NEW i \in 1 .. Len(V[k])
               PROVE  \/ k = n /\ i = 1 /\ V[k][i] = u
                      \/ /\ k \in DOMAIN U /\ i \in 1 .. Len(U[k]) /\ V[k][i] = U[k][i]
                         /\ k < n \/ (k = n /\ i < 1)
    BY DEF Extends
  <2>1. CASE k = n
    <3>1. PICK s : s = <<u>>
      OBVIOUS
    <3>2. Len(s) = 1 /\ s[1] = u
      BY <3>1
    <3>3. Len(V[k]) = 1 /\ V[k][1] = u
      BY <1>4, <2>1, <3>1, <3>2, Zenon
    <3> QED
      BY <2>1, <3>3
  <2>2. CASE k # n
    BY <1>1, <1>2, <1>3, <1>4, <2>2
  <2> QED
    BY <2>1, <2>2
<1> QED
  BY <1>1, <1>2, <1>3, <1>4, <1>5

-----------------------------------------------------------------------------
(* No sync point inside a record.                                           *)

LEMMA InFilesNat ==
    ASSUME NEW U, WellFormed(U), NEW q, InFiles(U, q)
    PROVE  q \in Nat
<1>1. PICK k \in DOMAIN U : \E i \in 1 .. Len(U[k]) : IsPoint(U[k][i]) /\ q = U[k][i].p
  BY DEF InFiles
<1>2. PICK i \in 1 .. Len(U[k]) : IsPoint(U[k][i]) /\ q = U[k][i].p
  BY <1>1
<1>3. U[k][i] \in Unit
  BY ElementOfSeq DEF WellFormed
<1> QED
  BY <1>2, <1>3 DEF Unit, IsPoint

\* No point lies behind the end of the newest file.
LEMMA MarkedBelow ==
    ASSUME ShapeInv, PointInv, Up, ~racyRead, NEW w \in Codes, w = nextFileCode - 1,
           NEW q, Marked(q)
    PROVE  q \in Nat /\ TrueEnd(Units, w) \in Nat /\ q <= TrueEnd(Units, w)
<1>1. curSyncPos \in Nat /\ nextSyncPos \in Nat
  BY DEF ShapeInv, LogTypeOK
<1>2. /\ curSyncPos <= TrueEnd(Units, w)
      /\ syncPhase = "made" => nextSyncPos <= TrueEnd(Units, w)
      /\ Below(Units, curSyncPos)
  BY DEF PointInv, EndsInv
<1>3. TrueEnd(Units, w) \in Nat
  BY NextBegin
<1>4. CASE InFiles(Units, q)
  <2>1. q \in Nat
    BY <1>4, InFilesNat, UnitsWellFormed
  <2>2. q <= curSyncPos
    BY <1>2, <1>4 DEF InFiles, Below
  <2> QED
    BY <1>1, <1>2, <1>3, <2>1, <2>2
<1>5. CASE q = curSyncPos \/ (syncPhase = "made" /\ q = nextSyncPos)
  BY <1>1, <1>2, <1>3, <1>5
<1> QED
  BY <1>4, <1>5 DEF Marked

\* Steps after which no body is next, and that add no point: the files lose
\* units, or nothing.
LEMMA CutAlign ==
    ASSUME AlignInv, ~BodyNext', racyRead' = racyRead, CutOf(Units', Units),
           Up' => Up /\ curSyncPos' = curSyncPos,
           syncPhase' = "made" => syncPhase = "made" /\ nextSyncPos' = nextSyncPos
    PROVE  AlignInv'
<1> SUFFICES ASSUME ~racyRead, NEW q, Marked(q)' PROVE Whole(Units', q)
  BY DEF AlignInv
<1>1. PICK U, V : U = Units /\ V = Units'
  OBVIOUS
<1>2. CutOf(V, U)
  BY <1>1
<1>3. /\ InFiles(V, q) => InFiles(U, q)
      /\ Whole(U, q) => Whole(V, q)
  BY <1>2, CutPoints
<1>4. Marked(q)
  BY <1>1, <1>3 DEF Marked
<1> QED
  BY <1>1, <1>3, <1>4 DEF AlignInv

\* A new file: its header is a point that the server has already.
LEMMA NewLogFileAlign ==
    ASSUME ShapeInv, Up, Up', AlignInv, ~BodyNext',
           NEW f, \A k \in Codes : f[k].units = file[k].units, NewLogFile(f),
           UNCHANGED <<curSyncPos, nextSyncPos, racyRead>>,
           syncPhase' = "made" => syncPhase = "made"
    PROVE  AlignInv'
<1> SUFFICES ASSUME ~racyRead, NEW q, Marked(q)' PROVE Whole(Units', q)
  BY DEF AlignInv
<1>1. PICK n, U, V, u : n = nextFileCode /\ U = Units /\ V = Units' /\ u = HeadUnit(curSyncPos)
  OBVIOUS
<1>2. Extends(V, U, n, 1, u)
  BY <1>1, NewLogFileUnits
<1>3. u.t # "body" /\ u.p = curSyncPos
  BY <1>1 DEF HeadUnit
<1>4. /\ InFiles(V, q) => InFiles(U, q) \/ q = curSyncPos
      /\ Whole(U, q) => Whole(V, q)
  BY <1>2, <1>3, ExtendPoints
<1>5. Marked(q)
  BY <1>1, <1>4 DEF Marked
<1> QED
  BY <1>1, <1>4, <1>5 DEF AlignInv

LEMMA BeginAppendAlign ==
    ASSUME ShapeInv, AlignInv, Up, Up', NEW units, BeginAppend(units),
           units = <<>> \/ units[1].t # "body",
           syncPhase' = "made" => syncPhase = "made"
    PROVE  AlignInv'
<1>1. UNCHANGED <<curSyncPos, nextSyncPos, racyRead>> /\ ~BodyNext'
  BY DEF BeginAppend, BodyNext
<1>2. CASE NewLogFile(file)
  BY <1>1, <1>2, NewLogFileAlign
<1>3. CASE /\ file' \in {file, [file EXCEPT ![writeLog].ro = TRUE]}
           /\ UNCHANGED <<writeLog, nextFileCode>>
  <2>1. Codes' = Codes
    BY <1>3 DEF Codes
  <2>2. \A k \in Codes : file'[k].units = file[k].units
    <3>1. CASE file' = [file EXCEPT ![writeLog].ro = TRUE]
      BY <3>1 DEF ShapeInv, LogTypeOK, FileState, Codes
    <3> QED
      BY <1>3, <3>1
  <2>3. CutOf(Units', Units)
    BY <2>1, <2>2 DEF Units, CutOf
  <2> QED
    BY <1>1, <2>3, CutAlign
<1> QED
  BY <1>2, <1>3 DEF BeginAppend

LEMMA PutUnitAlign == ASSUME ShapeInv, SyncInv, AlignInv, PutUnit PROVE AlignInv'
<1>0. PICK w, U, V, n, u : PutUnitFacts(w, U, V, n, u)
  BY PutUnitUnits
<1>1. w = writeLog /\ U = Units /\ V = Units' /\ u = logOp.todo[1]
  BY <1>0 DEF PutUnitFacts
<1>2. n = Len(U[w])
  BY <1>0 DEF PutUnitFacts
<1>3. /\ w \in Codes /\ Codes' = Codes /\ w = nextFileCode - 1 /\ w \in Nat \ {0} /\ Up /\ Up'
      /\ n \in Nat /\ n >= 1 /\ n + 1 < LogFileSize /\ u \in Unit
      /\ Len(V[w]) = n + 1
      /\ Extends(V, U, w, n + 1, u)
  BY <1>0 DEF PutUnitFacts
<1>4. /\ UNCHANGED <<writeLog, nextFileCode, curSyncPos, nextSyncPos, racyRead>>
      /\ syncPhase' = "made" => syncPhase = "made"
      /\ logOp.stage = "append" /\ logOp.todo # <<>>
      /\ logOp' = NoOp \/ logOp'.stage = "append"
  BY DEF PutUnit, ShapeInv, LogTypeOK
<1>5. BodyNext' => logOp'.stage = "append"
  BY <1>4 DEF BodyNext, NoOp
<1>6. ASSUME ~racyRead, NEW q, Marked(q)'
      PROVE  Whole(V, q) /\ q # TrueEnd(V, w)
  <2>1. IsPoint(u) => u.p = curSyncPos
    <3>1. logOp.todo \in Seq(Unit)
      BY DEF ShapeInv, LogTypeOK
    <3>2. 1 \in 1 .. Len(logOp.todo)
      BY <1>4, <3>1, EmptySeq, LenProperties
    <3> QED
      BY <1>1, <3>2 DEF SyncInv, OpPointInv, IsPoint
  <2>2. /\ InFiles(V, q) => InFiles(U, q) \/ (IsPoint(u) /\ q = u.p)
        /\ (Whole(U, q) /\ (u.t = "body" => BeginPos(w) + (n + 1) # q + 1)) => Whole(V, q)
    BY <1>3, ExtendPoints
  <2>3. Marked(q)
    BY <1>1, <1>3, <1>4, <1>6, <2>1, <2>2 DEF Marked
  <2>4. q \in Nat /\ TrueEnd(U, w) \in Nat /\ q <= TrueEnd(U, w)
    BY <1>1, <1>3, <1>6, <2>3, MarkedBelow DEF SyncInv
  <2>5. TrueEnd(U, w) = BeginPos(w) + n /\ TrueEnd(V, w) = BeginPos(w) + (n + 1) /\ BeginPos(w) \in Nat
    BY <1>2, <1>3, BeginOrder DEF TrueEnd
  <2>6. q # TrueEnd(V, w)
    BY <1>3, <2>4, <2>5
  <2>7. u.t = "body" => BeginPos(w) + (n + 1) # q + 1
    <3>1. u.t = "body" => q # TrueEnd(U, w)
      BY <1>1, <1>4, <1>6, <2>3 DEF AlignInv, BodyNext
    <3> QED
      BY <1>3, <2>4, <2>5, <3>1
  <2>8. Whole(U, q)
    BY <1>1, <1>6, <2>3 DEF AlignInv
  <2> QED
    BY <2>2, <2>6, <2>7, <2>8
<1> QED
  BY <1>1, <1>4, <1>5, <1>6 DEF AlignInv

LEMMA MakeSyncPointAlign == ASSUME ShapeInv, PointInv, AlignInv, MakeSyncPoint PROVE AlignInv'
<1>1. /\ UNCHANGED <<file, writeLog, nextFileCode, curSyncPos, logOp>>
      /\ Units' = Units /\ Up /\ Up' /\ (BodyNext' <=> BodyNext) /\ syncPhase' = "made"
  BY DEF MakeSyncPoint, Units, Codes, Up, BodyNext
<1>2. ASSUME ~racyRead', NEW q, Marked(q)'
      PROVE  Whole(Units, q) /\ (BodyNext => q # TrueEnd(Units, writeLog))
  <2>1. ~racyRead
    BY <1>2 DEF MakeSyncPoint, ShapeInv, LogTypeOK
  <2>2. CASE Marked(q)
    BY <2>1, <2>2 DEF AlignInv
  <2>3. CASE q = nextSyncPos' /\ Codes = {}
    <3>1. ~BodyNext
      BY <2>3 DEF AlignInv, ShapeInv, OpInv
    <3>2. DOMAIN Units = {}
      BY <2>3 DEF Units
    <3> QED
      BY <3>1, <3>2 DEF Whole
  <2>4. CASE q = nextSyncPos' /\ Codes # {}
    <3>1. PICK b : b = Back
      OBVIOUS
    <3>2. b \in Codes /\ b = nextFileCode - 1 /\ \A k \in Codes : k <= b
      BY <1>1, <2>4, <3>1, BackIsMax, BackIsNewest DEF ShapeInv
    <3>3. ~(logOp.mid /\ b = writeLog)
      BY <1>2, <2>4, <3>1 DEF MakeSyncPoint, RacyEnd, ShapeInv, LogTypeOK
    <3>4. q = EndPos(b)
      BY <2>4, <3>1, <3>3 DEF MakeSyncPoint, EndPosReads
    <3>5. PICK f, us, size, pos : f = file[b] /\ us = f.units /\ size = f.size /\ pos = f.pos
      OBVIOUS
    <3>6. size \in Nat /\ pos \in Nat /\ Len(us) = size + pos
      BY <3>2, <3>3, <3>5 DEF ShapeInv, LogTypeOK, FileState, FileInv, FileOK
    <3>7. BeginPos(b) \in Nat
      BY <3>2, BeginOrder DEF ShapeInv, LogTypeOK
    <3>8. q = BeginPos(b) + Len(us)
      BY <3>4, <3>5, <3>6, <3>7 DEF EndPos
    <3>9. Units[b] = us /\ DOMAIN Units = Codes /\ WellFormed(Units)
      BY <3>2, <3>5, UnitsWellFormed DEF Units
    <3>10. Whole(Units, q)
      <4> SUFFICES ASSUME NEW k \in Codes, NEW i \in 1 .. Len(Units[k])
                   PROVE  BeginPos(k) + i # q + 1
        BY <3>9 DEF Whole
      <4>1. PICK n : n = Len(Units[k])
        OBVIOUS
      <4>2. n \in Nat /\ n < LogFileSize /\ k \in Nat \ {0} /\ b \in Nat \ {0} /\ BeginPos(k) \in Nat
        BY <3>2, <3>9, <4>1, BeginOrder DEF WellFormed
      <4>3. CASE k = b
        BY <3>6, <3>7, <3>8, <3>9, <4>1, <4>2, <4>3
      <4>4. CASE k # b
        <5>1. k < b
          BY <3>2, <4>2, <4>4
        <5>2. BeginPos(k) + LogFileSize <= BeginPos(b)
          BY <4>2, <5>1, BeginOrder
        <5> QED
          BY <3>6, <3>7, <3>8, <4>1, <4>2, <5>2, SizesAssumption
      <4> QED
        BY <4>3, <4>4
    <3>11. ~BodyNext
      <4>1. SUFFICES ASSUME BodyNext PROVE FALSE
        OBVIOUS
      <4>2. logOp.stage = "append" /\ logOp.todo # <<>> /\ logOp.todo[1].t = "body"
        BY <4>1 DEF AlignInv, BodyNext
      <4>3. writeLog \in Codes /\ writeLog # 0
        BY <4>2 DEF ShapeInv, OpInv, LogTypeOK
      <4>4. b = writeLog
        BY <3>2, <4>3 DEF ShapeInv, CodeInv
      <4>5. Head(logOp.todo) = logOp.todo[1]
        BY <4>2, HeadTailProperties DEF ShapeInv, LogTypeOK
      <4> QED
        BY <1>2, <2>4, <3>1, <4>2, <4>4, <4>5 DEF MakeSyncPoint, RacyEnd, ShapeInv, LogTypeOK
    <3> QED
      BY <3>10, <3>11
  <2> QED
    BY <1>1, <1>2, <2>2, <2>3, <2>4 DEF Marked
<1> QED
  BY <1>1, <1>2 DEF AlignInv

LEMMA RecoverLogAlign == ASSUME ShapeInv, AlignInv, RecoverLog PROVE AlignInv'
<1>1. /\ UNCHANGED <<file, writeLog, logOp, racyRead>> /\ syncPhase' = "idle"
      /\ Units' = Units /\ Up' /\ ~BodyNext /\ ~BodyNext'
  BY DEF RecoverLog, Units, Codes, Up, BodyNext, NoOp, ShapeInv, CodeInv
<1> SUFFICES ASSUME ~racyRead, NEW q, Marked(q)' PROVE Whole(Units, q)
  BY <1>1 DEF AlignInv
<1>2. CASE InFiles(Units, q)
  BY <1>2 DEF AlignInv, Marked
<1>3. CASE q = curSyncPos' /\ Codes = {}
  <2>1. DOMAIN Units = {}
    BY <1>3 DEF Units
  <2> QED
    BY <2>1 DEF Whole
<1>4. CASE q = curSyncPos' /\ Codes # {}
  <2>1. PICK b : b = Back
    OBVIOUS
  <2>2. b \in Codes /\ q = RecoverPoint(b)
    BY <1>4, <2>1, BackIsMax DEF RecoverLog, ShapeInv
  <2>3. PICK i \in 1 .. Len(file[b].units) : PointAt(b, i) /\ RecoverPoint(b) = file[b].units[i].p
    BY <2>2, LastPoint
  <2>4. InFiles(Units, q)
    BY <2>2, <2>3 DEF InFiles, PointAt, IsPoint, Units
  <2> QED
    BY <2>4, <1>2
<1> QED
  BY <1>1, <1>2, <1>3, <1>4 DEF Marked

LEMMA NextAlign == ASSUME ShapeInv, SyncInv, AlignInv, [LogNext]_logVars PROVE AlignInv'
<1>1. ASSUME NEW r \in Recs, AppendRec(r) PROVE AlignInv'
  <2>1. PICK units : units = <<RecHead(r), RecBody(r)>>
    OBVIOUS
  <2>2. units[1].t # "body"
    BY <2>1 DEF RecHead
  <2> QED
    BY <1>1, <2>1, <2>2, BeginAppendAlign DEF AppendRec, Up
<1>2. CASE AppendPoint
  <2>1. PICK units : units = <<SyncUnit(curSyncPos)>>
    OBVIOUS
  <2>2. units[1].t # "body"
    BY <2>1 DEF SyncUnit
  <2> QED
    BY <1>2, <2>1, <2>2, BeginAppendAlign DEF AppendPoint, Up
<1>3. CASE PutUnit
  BY <1>3, PutUnitAlign
<1>4. CASE MakeSyncPoint
  BY <1>4, MakeSyncPointAlign DEF SyncInv
<1>5. CASE RecoverLog
  BY <1>5, RecoverLogAlign
<1>6. CASE FsyncFile
  <2>1. PICK h : h = [file EXCEPT ![writeLog].synced = file[writeLog].size]
    OBVIOUS
  <2>2. DOMAIN h = Codes /\ \A k \in Codes : h[k].units = file[k].units
    BY <2>1 DEF Codes, ShapeInv, LogTypeOK, FileState
  <2>3. /\ UNCHANGED <<curSyncPos, nextSyncPos, syncPhase, racyRead>>
        /\ Up /\ Up' /\ ~BodyNext /\ ~BodyNext'
    <3>1. logOp # NoOp /\ logOp.stage # "append"
      BY <1>6 DEF FsyncFile, NoOp
    <3> QED
      BY <1>6, <3>1 DEF FsyncFile, ShapeInv, LogTypeOK, CodeInv, Up, AlignInv, BodyNext, NoOp
  <2>4. CASE file' = h
    <3>1. CutOf(Units', Units)
      BY <2>2, <2>4 DEF Units, CutOf, Codes
    <3> QED
      BY <2>3, <3>1, CutAlign
  <2>5. CASE NewLogFile(h)
    BY <2>2, <2>3, <2>5, NewLogFileAlign
  <2> QED
    BY <1>6, <2>1, <2>4, <2>5 DEF FsyncFile
<1>7. CASE CommitSyncPoint
  <2>1. /\ Units' = Units /\ Up /\ Up' /\ (BodyNext' <=> BodyNext)
        /\ UNCHANGED <<file, writeLog, nextSyncPos, logOp, racyRead>>
        /\ curSyncPos' = nextSyncPos /\ syncPhase = "made" /\ syncPhase' # "made"
    BY <1>7 DEF CommitSyncPoint, Units, Codes, Up, BodyNext
  <2>2. \A q : Marked(q)' => Marked(q)
    BY <2>1 DEF Marked
  <2> QED
    BY <2>1, <2>2 DEF AlignInv
<1>8. CASE FlushStart \/ FlushEnd \/ SyncLogFile \/ RemoveExpiredLogDone \/ UNCHANGED logVars
  <2>1. Units' = Units /\ Codes' = Codes
    <3>1. CASE FlushStart
      <4>1. writeLog \in Codes /\ file[writeLog] \in FileState
        BY <3>1 DEF FlushStart, MustFlush, ShapeInv, OpInv, LogTypeOK
      <4> QED
        BY <3>1, <4>1 DEF FlushStart, Units, Codes
    <3>2. CASE FlushEnd
      BY <3>2 DEF FlushEnd, Units, Codes
    <3>3. CASE SyncLogFile \/ RemoveExpiredLogDone \/ UNCHANGED logVars
      BY <3>3 DEF SyncLogFile, RemoveExpiredLogDone, logVars, Units, Codes
    <3> QED
      BY <1>8, <3>1, <3>2, <3>3
  <2>2. /\ UNCHANGED <<writeLog, curSyncPos, nextSyncPos, racyRead>>
        /\ (Up' <=> Up) /\ (syncPhase' = "made" <=> syncPhase = "made")
        /\ BodyNext' => BodyNext /\ logOp'.stage = logOp.stage
    BY <1>8 DEF FlushStart, FlushEnd, SyncLogFile, RemoveExpiredLogDone, logVars, Up, BodyNext,
                ShapeInv, LogTypeOK
  <2>3. \A q : Marked(q)' => Marked(q)
    BY <2>1, <2>2 DEF Marked
  <2> QED
    BY <2>1, <2>2, <2>3 DEF AlignInv
<1>9. CASE RemoveExpiredLog
  <2>1. CutOf(Units', Units)
    BY <1>9 DEF RemoveExpiredLog, Units, Codes, CutOf
  <2>2. /\ UNCHANGED <<writeLog, curSyncPos, nextSyncPos, racyRead, logOp, syncPhase>>
        /\ (Up' <=> Up) /\ (BodyNext' <=> BodyNext) /\ syncPhase = "expire"
    BY <1>9 DEF RemoveExpiredLog, Up, BodyNext
  <2>3. writeLog \in Codes' /\ Units'[writeLog] = Units[writeLog]
    <3>1. writeLog \in Codes /\ writeLog # Front
      BY <1>9, <2>2 DEF RemoveExpiredLog, ShapeInv, CodeInv, LogTypeOK
    <3> QED
      BY <1>9, <3>1 DEF RemoveExpiredLog, Codes, Units
  <2>4. TrueEnd(Units', writeLog) = TrueEnd(Units, writeLog)
    BY <2>3 DEF TrueEnd
  <2>5. ASSUME NEW q, Marked(q)' PROVE Marked(q) /\ (Whole(Units, q) => Whole(Units', q))
    <3>1. PICK U, V : U = Units /\ V = Units'
      OBVIOUS
    <3>2. (InFiles(V, q) => InFiles(U, q)) /\ (Whole(U, q) => Whole(V, q))
      BY <2>1, <3>1, CutPoints
    <3> QED
      BY <2>2, <2>5, <3>1, <3>2 DEF Marked
  <2> QED
    BY <2>2, <2>4, <2>5 DEF AlignInv
<1>10. CASE RemoveUnderWriter \/ Shutdown \/ Crash
  <2>1. CutOf(Units', Units)
    <3>1. CASE RemoveUnderWriter \/ Shutdown
      BY <3>1 DEF RemoveUnderWriter, Shutdown, Units, Codes, CutOf
    <3>2. CASE Crash
      BY <3>2, CrashCut
    <3> QED
      BY <1>10, <3>1, <3>2
  <2>2. ~BodyNext' /\ ~Up' /\ syncPhase' = "down" /\ racyRead' = racyRead
    BY <1>10 DEF RemoveUnderWriter, Shutdown, Crash, Die, BodyNext, NoOp, Up
  <2> QED
    BY <2>1, <2>2, CutAlign
<1> QED
  BY <1>1, <1>2, <1>3, <1>4, <1>5, <1>6, <1>7, <1>8, <1>9, <1>10
     DEF LogNext, WriterStep, SyncPointStep

LEMMA InitAlign == LogInit => AlignInv
<1> SUFFICES ASSUME LogInit PROVE AlignInv
  OBVIOUS
<1>1. ~BodyNext /\ DOMAIN Units = {}
  BY DEF LogInit, BodyNext, NoOp, Units, Codes
<1> QED
  BY <1>1 DEF AlignInv, Whole

LogInv == ShapeInv /\ SyncInv /\ AlignInv

LEMMA InitLogInv == LogInit => LogInv
BY InitShape, InitSync, InitAlign DEF LogInv

LEMMA NextLogInv == LogInv /\ [LogNext]_logVars => LogInv'
BY NextShape, NextOpPoint, NextPoint, NextAlign DEF LogInv, SyncInv

-----------------------------------------------------------------------------
(* The scan.                                                                *)

\* From a point that is not inside a record, GetRedoRecList returns all the
\* records behind it.
LEMMA RedoSet ==
    ASSUME ShapeInv, syncPhase = "down", NEW p \in Nat, Whole(Units, p)
    PROVE  RedoPlaces(p) = {a \in RecPlaces : BeginPos(a[1]) + a[2] > p}
<1> SUFFICES ASSUME NEW a \in RecPlaces
             PROVE  (/\ p < EndPos(a[1])
                     /\ Aligned(a[1], p)
                     /\ a[2] > ReadOffset(a[1], p)) <=> BeginPos(a[1]) + a[2] > p
  BY DEF RedoPlaces
<1>1. PICK k, i, us : k = a[1] /\ i = a[2] /\ us = file[k].units
  OBVIOUS
<1>2. k \in Codes /\ i \in 1 .. LogFileSize /\ i <= Len(us)
  BY <1>1 DEF RecPlaces
<1>3. PICK n, begin : n = Len(us) /\ begin = BeginPos(k)
  OBVIOUS
<1>4. DOMAIN Units = Codes /\ Units[k] = us /\ WellFormed(Units)
  BY <1>1, <1>2, UnitsWellFormed DEF Units
<1>5. n \in Nat /\ n >= 1 /\ k \in Nat \ {0} /\ us[1].t = "head" /\ i \in Nat /\ i >= 1
  BY <1>2, <1>3, <1>4 DEF WellFormed
<1>6. begin \in Nat
  BY <1>3, <1>5, BeginOrder
<1>7. EndPos(k) = begin + n
  <2>1. PICK f, size, pos : f = file[k] /\ size = f.size /\ pos = f.pos
    OBVIOUS
  <2>2. ~logOp.mid
    BY DEF ShapeInv, CodeInv, NoOp
  <2>3. size \in Nat /\ pos \in Nat /\ n = size + pos
    BY <1>1, <1>2, <1>3, <2>1, <2>2 DEF ShapeInv, LogTypeOK, FileState, FileInv, FileOK
  <2> QED
    BY <1>3, <1>6, <2>1, <2>3 DEF EndPos
<1>8. PICK o : o = ReadOffset(k, p)
  OBVIOUS
<1>9. o = IF p > begin THEN p - begin ELSE 0
  BY <1>3, <1>8 DEF ReadOffset
<1>10. o \in Nat /\ (i > o <=> begin + i > p)
  BY <1>5, <1>6, <1>9
<1>11. o < n => us[o + 1].t # "body"
  <2>1. SUFFICES ASSUME o < n PROVE us[o + 1].t # "body"
    OBVIOUS
  <2>2. CASE p > begin
    <3>1. PICK j : j = o + 1
      OBVIOUS
    <3>2. j \in 1 .. n /\ begin + j = p + 1
      BY <1>5, <1>6, <1>9, <1>10, <2>1, <2>2, <3>1
    <3>3. us[j].t # "body"
      BY <1>2, <1>3, <1>4, <3>2 DEF Whole
    <3> QED
      BY <3>1, <3>3
  <2>3. CASE ~(p > begin)
    BY <1>5, <1>9, <2>3
  <2> QED
    BY <2>2, <2>3
<1>12. Aligned(k, p)
  BY <1>1, <1>3, <1>8, <1>11 DEF Aligned
<1>13. i > o => p < EndPos(k)
  BY <1>2, <1>3, <1>5, <1>6, <1>7, <1>10
<1> QED
  BY <1>1, <1>3, <1>8, <1>10, <1>12, <1>13

\* The recovered sync point is one.
LEMMA RecoveredPoint ==
    ASSUME LogInv, syncPhase = "down", Codes # {}
    PROVE  /\ RecoverPoint(Back) \in Nat /\ InFiles(Units, RecoverPoint(Back))
           /\ ~racyRead => Whole(Units, RecoverPoint(Back))
<1>1. PICK b, p : b = Back /\ p = RecoverPoint(b)
  OBVIOUS
<1>2. b \in Codes
  BY <1>1, BackIsMax DEF LogInv, ShapeInv
<1>3. PICK i \in 1 .. Len(file[b].units) : PointAt(b, i) /\ p = file[b].units[i].p
  BY <1>1, <1>2, LastPoint DEF LogInv
<1>4. InFiles(Units, p)
  BY <1>2, <1>3 DEF InFiles, PointAt, IsPoint, Units
<1>5. p \in Nat
  <2>1. PICK U : U = Units
    OBVIOUS
  <2>2. WellFormed(U) /\ InFiles(U, p)
    BY <1>4, <2>1, UnitsWellFormed DEF LogInv
  <2> QED
    BY <2>2, InFilesNat
<1>6. ~racyRead => Whole(Units, p)
  BY <1>4 DEF LogInv, AlignInv, Marked
<1> QED
  BY <1>1, <1>4, <1>5, <1>6

LEMMA LogInvariance == LogSpec => []LogInv
<1> QED
  BY InitLogInv, NextLogInv, PTL DEF LogSpec

\* Whatever the server was doing when it went down, the redo scan of the next
\* start returns the insert records behind the recovered sync point, all of
\* them and no other: it never starts inside a record, and skips no file.
THEOREM RedoIsExact == LogSpec => []RedoExact
<1>1. LogInv => RedoExact
  <2> SUFFICES ASSUME LogInv, syncPhase = "down", Codes # {}, ~racyRead,
                      NEW p, p = RecoverPoint(Back)
               PROVE  RedoPlaces(p) = {a \in RecPlaces : BeginPos(a[1]) + a[2] > p}
    BY DEF RedoExact
  <2>1. p \in Nat /\ Whole(Units, p)
    BY RecoveredPoint
  <2> QED
    BY <2>1, RedoSet DEF LogInv
<1> QED
  BY <1>1, LogInvariance, PTL

-----------------------------------------------------------------------------
(* The records in the log.  Every step leaves them as they are, or adds one *)
(* behind all others, or takes some away.                                   *)

Pos(a) == BeginPos(a[1]) + a[2]

\* RecPlaces and RecAt of the contents U.
BodyPlaces(U) ==
    {a \in (DOMAIN U) \X (1 .. LogFileSize) : a[2] <= Len(U[a[1]]) /\ U[a[1]][a[2]].t = "body"}
BodiesOf(U) == [a \in BodyPlaces(U) |-> U[a[1]][a[2]].r]

\* The records of the log at their places, and the places that are fsynced.
Bodies == BodiesOf(Units)
SyncedPlaces == {a \in DOMAIN Bodies : a[2] <= file[a[1]].synced}

LEMMA Pairs ==
    ASSUME NEW S, NEW T, NEW a \in S \X T
    PROVE  a = <<a[1], a[2]>> /\ a[1] \in S /\ a[2] \in T
OBVIOUS

LEMMA PlacesAreBodies ==
    ASSUME ShapeInv
    PROVE  DOMAIN Bodies = RecPlaces /\ \A a \in RecPlaces : Bodies[a] = RecAt(a)
<1>1. DOMAIN Units = Codes /\ \A k \in Codes : Units[k] = file[k].units
  BY DEF Units
<1>2. BodyPlaces(Units) = RecPlaces
  <2>1. PICK S, U : S = Codes \X (1 .. LogFileSize) /\ U = Units
    OBVIOUS
  <2>2. \A a \in S : U[a[1]] = file[a[1]].units
    BY <1>1, <2>1, Pairs
  <2>3. RecPlaces = {a \in S : a[2] <= Len(file[a[1]].units) /\ file[a[1]].units[a[2]].t = "body"}
    BY <2>1, Zenon DEF RecPlaces
  <2>4. BodyPlaces(U) = {a \in S : a[2] <= Len(U[a[1]]) /\ U[a[1]][a[2]].t = "body"}
    BY <1>1, <2>1 DEF BodyPlaces
  <2>5. BodyPlaces(U) = RecPlaces
    BY <2>2, <2>3, <2>4
  <2> QED
    BY <2>1, <2>5
<1>3. \A a \in RecPlaces : a[1] \in Codes
  <2>1. \A a \in RecPlaces : a \in Codes \X (1 .. LogFileSize)
    BY Zenon DEF RecPlaces
  <2> QED
    BY <2>1, Pairs
<1> QED
  BY <1>1, <1>2, <1>3 DEF Bodies, BodiesOf, RecAt

\* A place is a file and an index in it.
LEMMA BodyPlace ==
    ASSUME NEW U, WellFormed(U), NEW a \in BodyPlaces(U)
    PROVE  /\ a = <<a[1], a[2]>> /\ a[1] \in DOMAIN U /\ a[1] \in Nat \ {0}
           /\ a[2] \in 1 .. Len(U[a[1]]) /\ a[2] \in Nat \ {0} /\ a[2] < LogFileSize
           /\ BeginPos(a[1]) \in Nat
           /\ BodiesOf(U)[a] \in Recs
<1>1. /\ a = <<a[1], a[2]>> /\ a[1] \in DOMAIN U
      /\ a[2] \in 1 .. LogFileSize /\ a[2] <= Len(U[a[1]])
      /\ U[a[1]][a[2]].t = "body"
  <2>1. /\ a \in (DOMAIN U) \X (1 .. LogFileSize)
        /\ a[2] <= Len(U[a[1]]) /\ U[a[1]][a[2]].t = "body"
    BY Zenon DEF BodyPlaces
  <2>2. a = <<a[1], a[2]>> /\ a[1] \in DOMAIN U /\ a[2] \in 1 .. LogFileSize
    BY <2>1, Pairs
  <2> QED
    BY <2>1, <2>2
<1>2. PICK k, i, n : k = a[1] /\ i = a[2] /\ n = Len(U[k])
  OBVIOUS
<1>3. k \in Nat \ {0} /\ U[k] \in Seq(Unit) /\ n \in Nat /\ n < LogFileSize
  BY <1>1, <1>2 DEF WellFormed
<1>4. i \in Nat \ {0} /\ i \in 1 .. n /\ i < LogFileSize
  BY <1>1, <1>2, <1>3, SizesAssumption
<1>5. BeginPos(k) \in Nat
  BY <1>3, BeginOrder
<1>6. U[k][i] \in Unit /\ U[k][i].t = "body"
  BY <1>1, <1>2, <1>3, <1>4, ElementOfSeq
<1>7. U[k][i].r \in Recs
  BY <1>6 DEF Unit
<1> QED
  BY <1>1, <1>2, <1>3, <1>4, <1>5, <1>7 DEF BodiesOf

\* Places are in the order of their positions.
LEMMA PlaceOrder ==
    ASSUME NEW U, WellFormed(U), NEW a \in BodyPlaces(U), NEW V, WellFormed(V), NEW b \in BodyPlaces(V)
    PROVE  /\ Pos(a) \in Nat /\ Pos(b) \in Nat
           /\ RedoBefore(a, b) <=> Pos(a) < Pos(b)
           /\ Pos(a) = Pos(b) => a = b
<1>1. PICK k, i, l, j : k = a[1] /\ i = a[2] /\ l = b[1] /\ j = b[2]
  OBVIOUS
<1>2. PICK p, q : p = BeginPos(k) /\ q = BeginPos(l)
  OBVIOUS
<1>3. /\ k \in Nat \ {0} /\ i \in Nat \ {0} /\ i < LogFileSize /\ p \in Nat
      /\ l \in Nat \ {0} /\ j \in Nat \ {0} /\ j < LogFileSize /\ q \in Nat
      /\ a = <<k, i>> /\ b = <<l, j>>
  BY <1>1, <1>2, BodyPlace
<1>4. /\ k < l => p + LogFileSize <= q
      /\ l < k => q + LogFileSize <= p
  BY <1>2, <1>3, BeginOrder
<1>5. k = l => p = q
  BY <1>2
<1>6. /\ p + i \in Nat /\ q + j \in Nat
      /\ (k < l \/ (k = l /\ i < j)) <=> p + i < q + j
      /\ p + i = q + j => k = l /\ i = j
  BY <1>3, <1>4, <1>5, SizesAssumption
<1> QED
  BY <1>1, <1>2, <1>3, <1>6 DEF Pos, RedoBefore

LEMMA CutBodies ==
    ASSUME NEW U, NEW V, WellFormed(U), WellFormed(V), CutOf(V, U)
    PROVE  \A a \in BodyPlaces(V) : a \in BodyPlaces(U) /\ BodiesOf(V)[a] = BodiesOf(U)[a]
<1> SUFFICES ASSUME NEW a \in BodyPlaces(V)
             PROVE  a \in BodyPlaces(U) /\ BodiesOf(V)[a] = BodiesOf(U)[a]
  OBVIOUS
<1>1. PICK k, i : k = a[1] /\ i = a[2]
  OBVIOUS
<1>2. a = <<k, i>> /\ k \in DOMAIN V /\ i \in 1 .. Len(V[k]) /\ i \in Nat \ {0} /\ i < LogFileSize
  BY <1>1, BodyPlace
<1>3. V[k][i].t = "body"
  BY <1>1 DEF BodyPlaces
<1>4. k \in DOMAIN U /\ i \in 1 .. Len(U[k]) /\ V[k][i] = U[k][i]
  BY <1>2 DEF CutOf
<1>5. i \in 1 .. LogFileSize /\ i <= Len(U[k])
  BY <1>2, <1>4, SizesAssumption DEF WellFormed
<1>6. a \in (DOMAIN U) \X (1 .. LogFileSize)
  BY <1>2, <1>4, <1>5
<1>7. a \in BodyPlaces(U)
  BY <1>1, <1>3, <1>4, <1>5, <1>6 DEF BodyPlaces
<1> QED
  BY <1>1, <1>4, <1>7 DEF BodiesOf

LEMMA EqualBodies ==
    ASSUME NEW U, NEW V, WellFormed(U), WellFormed(V),
           \A a \in BodyPlaces(V) : a \in BodyPlaces(U) /\ BodiesOf(V)[a] = BodiesOf(U)[a],
           \A a \in BodyPlaces(U) : a \in BodyPlaces(V)
    PROVE  BodiesOf(V) = BodiesOf(U)
<1>1. BodyPlaces(V) = BodyPlaces(U)
  OBVIOUS
<1>2. \A a \in BodyPlaces(V) : V[a[1]][a[2]].r = U[a[1]][a[2]].r
  BY DEF BodiesOf
<1> QED
  BY <1>1, <1>2 DEF BodiesOf

\* V is U with the unit u at the place n, m behind all others.
Grows(V, U, n, m, u) ==
    /\ WellFormed(U) /\ WellFormed(V)
    /\ CutOf(U, V) /\ Extends(V, U, n, m, u)
    /\ n \in DOMAIN V /\ m \in 1 .. Len(V[n]) /\ V[n][m] = u
    /\ ~(n \in DOMAIN U /\ m \in 1 .. Len(U[n]))

LEMMA ExtendOld ==
    ASSUME NEW U, NEW V, NEW n, NEW m, NEW u, Grows(V, U, n, m, u)
    PROVE  /\ \A a \in BodyPlaces(U) : a \in BodyPlaces(V) /\ BodiesOf(U)[a] = BodiesOf(V)[a]
           /\ \A a \in BodyPlaces(V) : a # <<n, m>> => a \in BodyPlaces(U)
<1> USE DEF Grows
<1>1. \A a \in BodyPlaces(U) : a \in BodyPlaces(V) /\ BodiesOf(U)[a] = BodiesOf(V)[a]
  BY CutBodies
<1>2. ASSUME NEW a \in BodyPlaces(V), a # <<n, m>>
      PROVE  a \in BodyPlaces(U)
  <2>1. PICK k, i : k = a[1] /\ i = a[2]
    OBVIOUS
  <2>2. a = <<k, i>> /\ k \in DOMAIN V /\ i \in 1 .. Len(V[k]) /\ i \in Nat \ {0} /\ i < LogFileSize
    BY <2>1, BodyPlace
  <2>3. V[k][i].t = "body"
    BY <2>1 DEF BodyPlaces
  <2>4. ~(k = n /\ i = m)
    BY <1>2, <2>2
  <2>5. k \in DOMAIN U /\ i \in 1 .. Len(U[k]) /\ V[k][i] = U[k][i]
    BY <2>2, <2>4 DEF Extends
  <2>6. i \in 1 .. LogFileSize /\ i <= Len(U[k])
    BY <2>2, <2>5, SizesAssumption DEF WellFormed
  <2>7. a \in (DOMAIN U) \X (1 .. LogFileSize)
    BY <2>2, <2>5, <2>6
  <2> QED
    BY <2>1, <2>3, <2>5, <2>6, <2>7 DEF BodyPlaces
<1> QED
  BY <1>1, <1>2

LEMMA ExtendOther ==
    ASSUME NEW U, NEW V, NEW n, NEW m, NEW u, Grows(V, U, n, m, u), u.t # "body"
    PROVE  BodiesOf(V) = BodiesOf(U)
<1>1. PICK e : e = <<n, m>>
  OBVIOUS
<1>2. e[1] = n /\ e[2] = m
  BY <1>1
<1>3. /\ \A a \in BodyPlaces(U) : a \in BodyPlaces(V) /\ BodiesOf(U)[a] = BodiesOf(V)[a]
      /\ \A a \in BodyPlaces(V) : a # e => a \in BodyPlaces(U)
  BY <1>1, ExtendOld
<1>4. e \notin BodyPlaces(V)
  BY <1>2 DEF BodyPlaces, Grows
<1> QED
  BY <1>3, <1>4, EqualBodies DEF Grows

\* The bodies B and, with r at the place e behind them all, C.
Added(C, B, e, r) ==
    /\ e \notin DOMAIN B /\ DOMAIN C = DOMAIN B \cup {e} /\ C[e] = r
    /\ \A a \in DOMAIN B : C[a] = B[a] /\ Pos(a) < Pos(e)

LEMMA ExtendBody ==
    ASSUME NEW U, NEW V, NEW n, NEW m, NEW u, Grows(V, U, n, m, u), u.t = "body",
           NEW e, e = <<n, m>>
    PROVE  Added(BodiesOf(V), BodiesOf(U), e, u.r)
<1>1. e[1] = n /\ e[2] = m
  OBVIOUS
<1>2. /\ \A a \in BodyPlaces(U) : a \in BodyPlaces(V) /\ BodiesOf(U)[a] = BodiesOf(V)[a]
      /\ \A a \in BodyPlaces(V) : a # e => a \in BodyPlaces(U)
  BY ExtendOld
<1> USE DEF Grows
<1>3. m \in 1 .. LogFileSize /\ m <= Len(V[n])
  BY SizesAssumption DEF WellFormed
<1>4. e \in (DOMAIN V) \X (1 .. LogFileSize)
  BY <1>3
<1>5. e \in BodyPlaces(V)
  BY <1>1, <1>3, <1>4 DEF BodyPlaces
<1>6. e \notin BodyPlaces(U)
  BY <1>1, BodyPlace
<1>7. BodiesOf(V)[e] = u.r
  BY <1>1, <1>5 DEF BodiesOf
<1>8. ASSUME NEW a \in BodyPlaces(U) PROVE Pos(a) < Pos(e)
  <2>1. PICK k, i : k = a[1] /\ i = a[2]
    OBVIOUS
  <2>2. k \in DOMAIN U /\ i \in 1 .. Len(U[k]) /\ a \in BodyPlaces(V) /\ a # e
    BY <1>2, <1>6, <1>8, <2>1, BodyPlace
  <2>3. k \in DOMAIN V /\ i \in 1 .. Len(V[k]) /\ ~(k = n /\ i = m)
    BY <2>2 DEF CutOf
  <2>4. k < n \/ (k = n /\ i < m)
    BY <2>3 DEF Extends
  <2>5. RedoBefore(a, e)
    BY <1>1, <2>1, <2>4 DEF RedoBefore
  <2> QED
    BY <1>5, <1>8, <2>5, PlaceOrder
<1>9. BodyPlaces(V) = BodyPlaces(U) \cup {e}
  BY <1>2, <1>5
<1>10. DOMAIN BodiesOf(V) = BodyPlaces(V) /\ DOMAIN BodiesOf(U) = BodyPlaces(U)
  BY DEF BodiesOf
<1> QED
  BY <1>2, <1>6, <1>7, <1>8, <1>9, <1>10 DEF Added

\* The contents of the files are what they were, and what is fsynced stays so.
LEMMA SameUnits ==
    ASSUME LogInv, Units' = Units, \A k \in Codes : file'[k].synced = file[k].synced
    PROVE  Bodies' = Bodies /\ SyncedPlaces' = SyncedPlaces
<1>1. Bodies' = Bodies
  BY DEF Bodies
<1>2. \A a \in DOMAIN Bodies : a[1] \in Codes
  <2>1. PICK U : U = Units
    OBVIOUS
  <2>2. WellFormed(U) /\ DOMAIN U = Codes /\ DOMAIN Bodies = BodyPlaces(U)
    BY <2>1, UnitsWellFormed DEF LogInv, Bodies, BodiesOf
  <2> QED
    BY <2>2, BodyPlace
<1> QED
  BY <1>1, <1>2 DEF SyncedPlaces

LEMMA SyncedTyped ==
    ASSUME LogInv
    PROVE  \A k \in Codes : file[k].synced \in Nat /\ file[k].size \in Nat /\ file[k].synced <= file[k].size
BY DEF LogInv, ShapeInv, LogTypeOK, FileState, FileInv, FileOK, FlushingOK, FileShape

LEMMA UnitsWellFormedNext ==
    ASSUME ShapeInv'
    PROVE  DOMAIN Units' = Codes' /\ WellFormed(Units')
<1>1. (DOMAIN Units = Codes /\ WellFormed(Units))'
  BY UnitsWellFormed, PTL
<1> QED
  BY <1>1

LEMMA NewLogFileBodies ==
    ASSUME LogInv, ShapeInv', Up, NEW f, NewLogFile(f),
           \A k \in Codes : f[k].units = file[k].units /\ f[k].synced >= file[k].synced
    PROVE  /\ Bodies' = Bodies /\ SyncedPlaces \subseteq SyncedPlaces'
           /\ (\A k \in Codes : f[k].synced = file[k].synced) => SyncedPlaces' = SyncedPlaces
<1>1. PICK n, U, V, u : n = nextFileCode /\ U = Units /\ V = Units' /\ u = HeadUnit(curSyncPos)
  OBVIOUS
<1>2. /\ Codes' = Codes \cup {n} /\ n \notin Codes /\ n \in Nat \ {0}
      /\ \A k \in Codes : k < n /\ file'[k] = f[k]
      /\ DOMAIN U = Codes /\ DOMAIN V = Codes' /\ V[n] = <<u>> /\ \A k \in Codes : V[k] = U[k]
      /\ Extends(V, U, n, 1, u)
  BY <1>1, NewLogFileUnits DEF LogInv
<1>3. WellFormed(U) /\ WellFormed(V)
  BY <1>1, UnitsWellFormed, UnitsWellFormedNext DEF LogInv
<1>4. CutOf(U, V)
  BY <1>2 DEF CutOf
<1>5. u.t # "body"
  BY <1>1 DEF HeadUnit
<1>6. BodiesOf(V) = BodiesOf(U)
  <2>0. PICK m : m = 1
    OBVIOUS
  <2>1. n \in DOMAIN V /\ m \in 1 .. Len(V[n]) /\ V[n][m] = u
        /\ ~(n \in DOMAIN U /\ m \in 1 .. Len(U[n]))
    <3>1. PICK s : s = <<u>>
      OBVIOUS
    <3>2. Len(s) = 1 /\ s[1] = u
      BY <3>1
    <3> QED
      BY <1>2, <2>0, <3>1, <3>2
  <2>2. Extends(V, U, n, m, u)
    BY <1>2, <2>0
  <2>3. Grows(V, U, n, m, u)
    BY <1>3, <1>4, <2>1, <2>2 DEF Grows
  <2> QED
    BY <1>5, <2>3, ExtendOther
<1>7. Bodies' = Bodies
  BY <1>1, <1>6 DEF Bodies
<1>8. ASSUME NEW a \in DOMAIN Bodies PROVE a[1] \in Codes /\ a[2] \in Nat
  <2>1. a \in BodyPlaces(U)
    BY <1>1 DEF Bodies, BodiesOf
  <2> QED
    BY <1>2, <1>3, <2>1, BodyPlace
<1>9. \A k \in Codes : file[k].synced \in Nat /\ file'[k].synced \in Nat /\ file'[k].synced >= file[k].synced
  BY <1>2, SyncedTyped DEF ShapeInv, LogTypeOK, FileState
<1>10. SyncedPlaces \subseteq SyncedPlaces'
  BY <1>7, <1>8, <1>9 DEF SyncedPlaces
<1>11. ASSUME \A k \in Codes : f[k].synced = file[k].synced PROVE SyncedPlaces' = SyncedPlaces
  BY <1>2, <1>7, <1>8, <1>11 DEF SyncedPlaces
<1> QED
  BY <1>7, <1>10, <1>11

LEMMA BeginAppendBodies ==
    ASSUME LogInv, ShapeInv', Up, NEW units, BeginAppend(units)
    PROVE  Bodies' = Bodies /\ SyncedPlaces' = SyncedPlaces
<1>1. CASE NewLogFile(file)
  <2>1. \A k \in Codes : file[k].synced >= file[k].synced
    BY SyncedTyped
  <2> QED
    BY <1>1, <2>1, NewLogFileBodies
<1>2. CASE file' \in {file, [file EXCEPT ![writeLog].ro = TRUE]}
  <2>1. Codes' = Codes
    BY <1>2 DEF Codes
  <2>2. \A k \in Codes : file'[k].units = file[k].units /\ file'[k].synced = file[k].synced
    <3>1. CASE file' = [file EXCEPT ![writeLog].ro = TRUE]
      BY <3>1 DEF LogInv, ShapeInv, LogTypeOK, FileState, Codes
    <3> QED
      BY <1>2, <3>1
  <2>3. Units' = Units
    BY <2>1, <2>2 DEF Units
  <2> QED
    BY <2>2, <2>3, SameUnits
<1> QED
  BY <1>1, <1>2 DEF BeginAppend

\* An fsync, with the new file that may come after it.
LEMMA FsyncFileBodies ==
    ASSUME LogInv, ShapeInv', FsyncFile
    PROVE  Bodies' = Bodies /\ SyncedPlaces \subseteq SyncedPlaces'
<1>1. PICK h : h = [file EXCEPT ![writeLog].synced = file[writeLog].size]
  OBVIOUS
<1>2. writeLog \in Codes /\ Up
  BY DEF FsyncFile, LogInv, ShapeInv, OpInv, CodeInv, LogTypeOK, Up
<1>3. /\ DOMAIN h = Codes
      /\ \A k \in Codes : h[k].units = file[k].units /\ h[k].synced >= file[k].synced
  BY <1>1, <1>2, SyncedTyped DEF Codes, LogInv, ShapeInv, LogTypeOK, FileState
<1>4. CASE NewLogFile(h)
  BY <1>2, <1>3, <1>4, NewLogFileBodies
<1>5. CASE file' = h
  <2>1. Units' = Units
    BY <1>3, <1>5 DEF Units, Codes
  <2>2. Bodies' = Bodies
    BY <2>1 DEF Bodies
  <2>3. ASSUME NEW a \in DOMAIN Bodies PROVE a[1] \in Codes /\ a[2] \in Nat
    <3>1. PICK U : U = Units
      OBVIOUS
    <3>2. WellFormed(U) /\ DOMAIN U = Codes /\ a \in BodyPlaces(U)
      BY <3>1, UnitsWellFormed DEF LogInv, Bodies, BodiesOf
    <3> QED
      BY <3>2, BodyPlace
  <2>4. \A k \in Codes : file[k].synced \in Nat /\ file'[k].synced \in Nat
    BY <1>3, <1>5, SyncedTyped DEF ShapeInv, LogTypeOK, FileState, Codes
  <2> QED
    BY <1>3, <1>5, <2>2, <2>3, <2>4 DEF SyncedPlaces
<1> QED
  BY <1>1, <1>4, <1>5 DEF FsyncFile

LEMMA PutUnitBodies ==
    ASSUME LogInv, ShapeInv', PutUnit
    PROVE  /\ logOp.todo[1].t # "body" => Bodies' = Bodies
           /\ logOp.todo[1].t = "body" =>
                \E e : /\ Added(Bodies', Bodies, e, logOp.todo[1].r)
                       /\ ~racyRead => /\ Pos(e) > curSyncPos
                                       /\ syncPhase = "made" => Pos(e) > nextSyncPos
           /\ SyncedPlaces' = SyncedPlaces
<1>1. PICK w, U, V, n, u : PutUnitFacts(w, U, V, n, u)
  BY PutUnitUnits DEF LogInv
<1>2. PICK m, e : m = n + 1 /\ e = <<w, m>>
  OBVIOUS
<1>3. /\ w = writeLog /\ U = Units /\ V = Units' /\ n = Len(U[w]) /\ u = logOp.todo[1]
      /\ w \in Codes /\ Codes' = Codes /\ w = nextFileCode - 1 /\ w \in Nat \ {0} /\ Up
      /\ n \in Nat /\ n >= 1 /\ m = n + 1 /\ m < LogFileSize
      /\ DOMAIN U = Codes /\ DOMAIN V = Codes
      /\ Len(V[w]) = m /\ V[w][m] = u
      /\ \A i \in 1 .. n : V[w][i] = U[w][i]
      /\ \A k \in Codes \ {w} : V[k] = U[k]
  BY <1>1, <1>2 DEF PutUnitFacts
<1>m. n \in Nat /\ n >= 1 /\ m = n + 1
  BY <1>3
<1>4. Extends(V, U, w, m, u)
  BY <1>1, <1>2 DEF PutUnitFacts
<1>5. WellFormed(U) /\ WellFormed(V)
  BY <1>3, UnitsWellFormed, UnitsWellFormedNext DEF LogInv
<1>6. CutOf(U, V)
  <2> SUFFICES ASSUME NEW k \in DOMAIN U, NEW i \in 1 .. Len(U[k])
               PROVE  k \in DOMAIN V /\ i \in 1 .. Len(V[k]) /\ U[k][i] = V[k][i]
    BY DEF CutOf
  <2>1. CASE k = w
    <3>1. i \in 1 .. n
      BY <1>3, <2>1
    <3>2. i \in 1 .. m
      BY <1>m, <3>1
    <3> QED
      BY <1>3, <2>1, <3>1, <3>2
  <2>2. CASE k # w
    BY <1>3, <2>2
  <2> QED
    BY <2>1, <2>2
<1>7. Grows(V, U, w, m, u)
  <2>1. m \in 1 .. m /\ ~(m \in 1 .. n)
    BY <1>m
  <2>2. m \in 1 .. Len(V[w]) /\ ~(m \in 1 .. Len(U[w]))
    BY <1>3, <2>1
  <2> QED
    BY <1>3, <1>4, <1>5, <1>6, <2>2 DEF Grows
<1>8. Bodies = BodiesOf(U) /\ Bodies' = BodiesOf(V)
  BY <1>3 DEF Bodies
<1>9. ASSUME u.t # "body" PROVE Bodies' = Bodies
  BY <1>7, <1>8, <1>9, ExtendOther
<1>10. ASSUME u.t = "body"
       PROVE  /\ Added(Bodies', Bodies, e, u.r)
              /\ ~racyRead => /\ Pos(e) > curSyncPos
                              /\ syncPhase = "made" => Pos(e) > nextSyncPos
  <2>1. Added(Bodies', Bodies, e, u.r)
    BY <1>2, <1>7, <1>8, <1>10, ExtendBody
  <2>2. ASSUME ~racyRead, NEW q, Marked(q) PROVE Pos(e) > q
    <3>1. q \in Nat /\ q <= TrueEnd(Units, w)
      BY <1>3, <2>2, MarkedBelow DEF LogInv, SyncInv
    <3>2. TrueEnd(Units, w) = BeginPos(w) + n /\ BeginPos(w) \in Nat
      BY <1>3, BeginOrder DEF TrueEnd
    <3>3. Pos(e) = BeginPos(w) + m
      BY <1>2 DEF Pos
    <3> QED
      BY <1>m, <3>1, <3>2, <3>3
  <2>3. Marked(curSyncPos) /\ (syncPhase = "made" => Marked(nextSyncPos))
    BY <1>3 DEF Marked
  <2> QED
    BY <2>1, <2>2, <2>3
<1>11. SyncedPlaces' = SyncedPlaces
  <2>1. \A k \in Codes : file'[k].synced = file[k].synced
    BY <1>3 DEF PutUnit, LogInv, ShapeInv, LogTypeOK, FileState, Codes
  <2>2. \A a \in DOMAIN Bodies : a[1] \in Codes
    BY <1>3, <1>5, <1>8, BodyPlace DEF BodiesOf
  <2>3. CASE u.t # "body"
    BY <1>9, <2>1, <2>2, <2>3 DEF SyncedPlaces
  <2>4. CASE u.t = "body"
    <3>1. DOMAIN Bodies' = DOMAIN Bodies \cup {e}
      BY <1>10, <2>4 DEF Added
    <3>2. e[1] = w /\ e[2] = m
      BY <1>2
    <3>3. ~(m <= file'[w].synced)
      <4>1. PICK f, x : f = file[w] /\ x = f.synced
        OBVIOUS
      <4>2. f \in FileState /\ FileShape(f)
        BY <1>3, <4>1 DEF LogInv, ShapeInv, LogTypeOK, FileInv, FileOK, FlushingOK
      <4>3. n = Len(f.units)
        BY <1>3, <4>1 DEF Units
      <4>4. x \in Nat /\ x <= n
        BY <1>m, <4>1, <4>2, <4>3 DEF FileState, FileShape
      <4>5. ~(m <= x)
        BY <1>m, <4>4
      <4> QED
        BY <1>3, <2>1, <4>1, <4>5
    <3> QED
      BY <2>1, <2>2, <3>1, <3>2, <3>3 DEF SyncedPlaces
  <2> QED
    BY <2>3, <2>4
<1> QED
  BY <1>3, <1>9, <1>10, <1>11

\* C has places of B only.
Subset(C, B) == \A a \in DOMAIN C : a \in DOMAIN B /\ C[a] = B[a]

LEMMA CutUnitsBodies ==
    ASSUME LogInv, ShapeInv', CutOf(Units', Units)
    PROVE  Subset(Bodies', Bodies)
<1>1. PICK U, V : U = Units /\ V = Units'
  OBVIOUS
<1>2. WellFormed(U) /\ WellFormed(V) /\ CutOf(V, U)
  BY <1>1, UnitsWellFormed, UnitsWellFormedNext DEF LogInv
<1>3. \A a \in BodyPlaces(V) : a \in BodyPlaces(U) /\ BodiesOf(V)[a] = BodiesOf(U)[a]
  BY <1>2, CutBodies
<1>4. Bodies = BodiesOf(U) /\ Bodies' = BodiesOf(V)
  BY <1>1 DEF Bodies
<1>5. DOMAIN BodiesOf(U) = BodyPlaces(U) /\ DOMAIN BodiesOf(V) = BodyPlaces(V)
  BY DEF BodiesOf
<1> QED
  BY <1>3, <1>4, <1>5 DEF Subset

LEMMA FrontIsMin ==
    ASSUME LogTypeOK, Codes # {}
    PROVE  Front \in Codes /\ \A j \in Codes : Front <= j
<1>0. PICK y : y \in Codes
  OBVIOUS
<1>n. Codes \subseteq Nat
  BY SizesAssumption DEF LogTypeOK
<1>1. PICK d \in Codes : \A e \in Codes : ~ (<<e, d>> \in OpToRel(<, Nat))
  BY <1>0, <1>n, WFMin, NatLessThanWellFounded, Zenon
<1>2. \A e \in Codes : d <= e
  <2>1. \A e \in Codes : ~ (e < d)
    BY <1>n, <1>1 DEF OpToRel
  <2> QED
    BY <1>n, <2>1
<1>3. \E k \in Codes : \A j \in Codes : k <= j
  BY <1>2
<1> QED
  BY <1>3 DEF Front

\* No record lies behind the end of its file, as GetFileEndPos counts it.
LEMMA EndPosCovers ==
    ASSUME LogInv, NEW a \in DOMAIN Bodies
    PROVE  /\ a[1] \in Codes /\ a[2] \in Nat \ {0, 1} /\ a = <<a[1], a[2]>>
           /\ Pos(a) \in Nat /\ Pos(a) <= EndPos(a[1]) /\ a[2] <= Len(file[a[1]].units)
           /\ Bodies[a] \in Recs
<1>1. PICK U : U = Units
  OBVIOUS
<1>2. WellFormed(U) /\ DOMAIN U = Codes /\ a \in BodyPlaces(U) /\ Bodies = BodiesOf(U)
  BY <1>1, UnitsWellFormed DEF LogInv, Bodies, BodiesOf
<1>3. PICK k, i, p : k = a[1] /\ i = a[2] /\ p = BeginPos(k)
  OBVIOUS
<1>4. /\ k \in Codes /\ i \in 1 .. Len(U[k]) /\ i \in Nat \ {0} /\ p \in Nat /\ a = <<k, i>>
      /\ BodiesOf(U)[a] \in Recs
  BY <1>2, <1>3, BodyPlace
<1>5. i # 1
  <2>1. U[k][i].t = "body"
    BY <1>2, <1>3 DEF BodyPlaces
  <2> QED
    BY <1>2, <1>4, <2>1 DEF WellFormed
<1>6. PICK f, n, size, pos : f = file[k] /\ n = Len(f.units) /\ size = f.size /\ pos = f.pos
  OBVIOUS
<1>7. f \in FileState /\ (FileOK(f) \/ FlushingOK(f)) /\ U[k] = f.units
  BY <1>1, <1>4, <1>6 DEF LogInv, ShapeInv, LogTypeOK, FileInv, Units
<1>8. size \in Nat /\ pos \in Nat /\ n <= size + pos /\ i <= n
  <2>1. n \in Nat
    BY <1>2, <1>4, <1>6, <1>7 DEF WellFormed
  <2>2. size \in Nat /\ pos \in Nat /\ (n = size + pos \/ n = size)
    BY <1>6, <1>7 DEF FileState, FileOK, FlushingOK
  <2> QED
    BY <1>4, <1>6, <1>7, <2>1, <2>2
<1>9. EndPos(k) = p + size + pos
  BY <1>3, <1>6 DEF EndPos
<1>10. Pos(a) = p + i
  BY <1>3 DEF Pos
<1>11. p + i \in Nat /\ p + i <= p + size + pos
  <2>1. n \in Nat /\ i \in Nat /\ p \in Nat
    BY <1>2, <1>4, <1>6, <1>7 DEF WellFormed
  <2> QED
    BY <1>8, <2>1
<1> QED
  BY <1>2, <1>3, <1>4, <1>5, <1>6, <1>8, <1>9, <1>10, <1>11

\* The records of a deleted file are those before all others, and the committed
\* sync point is behind them.
LEMMA RemoveBodies ==
    ASSUME LogInv, ShapeInv', RemoveExpiredLog
    PROVE  /\ Subset(Bodies', Bodies) /\ SyncedPlaces' = SyncedPlaces \cap DOMAIN Bodies'
           /\ \A a \in DOMAIN Bodies \ DOMAIN Bodies' :
                 /\ Pos(a) <= curSyncPos
                 /\ \A b \in DOMAIN Bodies' : RedoBefore(a, b)
<1>1. PICK d : d = Front
  OBVIOUS
<1>2. /\ Codes' = Codes \ {d} /\ Codes # {} /\ Expired(d)
      /\ \A k \in Codes' : file'[k] = file[k]
  BY <1>1 DEF RemoveExpiredLog, Codes
<1>3. d \in Codes /\ \A k \in Codes : d <= k
  BY <1>1, <1>2, FrontIsMin DEF LogInv, ShapeInv
<1>4. PICK U, V : U = Units /\ V = Units'
  OBVIOUS
<1>5. /\ WellFormed(U) /\ WellFormed(V)
      /\ DOMAIN U = Codes /\ DOMAIN V = Codes' /\ \A k \in Codes' : V[k] = U[k]
  BY <1>2, <1>4, UnitsWellFormed, UnitsWellFormedNext DEF LogInv, Units
<1>6. CutOf(V, U)
  BY <1>2, <1>5 DEF CutOf
<1>7. Subset(Bodies', Bodies)
  BY <1>4, <1>6, CutUnitsBodies
<1>8. DOMAIN Bodies = BodyPlaces(U) /\ DOMAIN Bodies' = BodyPlaces(V)
  BY <1>4 DEF Bodies, BodiesOf
<1>9. \A a \in BodyPlaces(U) : a[1] \in Codes
  BY <1>5, BodyPlace
<1>10. \A a \in BodyPlaces(V) : a[1] \in Codes' /\ a[1] # d /\ a[1] \in Codes
  BY <1>2, <1>5, BodyPlace
<1>11. ASSUME NEW a \in BodyPlaces(U), a[1] # d PROVE a \in BodyPlaces(V)
  <2>1. PICK k, i : k = a[1] /\ i = a[2]
    OBVIOUS
  <2>2. k \in Codes' /\ i \in 1 .. LogFileSize /\ a = <<k, i>>
    <3>1. i \in Nat \ {0} /\ i < LogFileSize /\ a = <<k, i>> /\ k \in Codes
      BY <1>5, <2>1, BodyPlace
    <3> QED
      BY <1>2, <1>11, <2>1, <3>1, SizesAssumption
  <2>3. a \in (DOMAIN V) \X (1 .. LogFileSize)
    BY <1>5, <2>2
  <2>4. i <= Len(U[k]) /\ U[k][i].t = "body" /\ V[k] = U[k]
    BY <1>5, <2>1, <2>2 DEF BodyPlaces
  <2> QED
    BY <2>1, <2>3, <2>4 DEF BodyPlaces
<1>12. SyncedPlaces' = SyncedPlaces \cap DOMAIN Bodies'
  BY <1>2, <1>7, <1>8, <1>10 DEF SyncedPlaces, Subset
<1>13. ASSUME NEW a \in DOMAIN Bodies, a \notin DOMAIN Bodies'
       PROVE  Pos(a) <= curSyncPos /\ \A b \in DOMAIN Bodies' : RedoBefore(a, b)
  <2>1. a[1] = d
    BY <1>8, <1>11, <1>13
  <2>2. Pos(a) \in Nat /\ Pos(a) <= EndPos(d)
    BY <2>1, EndPosCovers
  <2>3. EndPos(d) <= curSyncPos /\ EndPos(d) \in Int /\ curSyncPos \in Nat
    <3>1. file[d] \in FileState /\ d \in Nat \ {0} /\ curSyncPos \in Nat
      BY <1>3 DEF LogInv, ShapeInv, LogTypeOK
    <3>2. BeginPos(d) \in Nat
      BY <3>1, BeginOrder
    <3> QED
      BY <1>2, <3>1, <3>2 DEF Expired, EndPos, FileState
  <2>4. ASSUME NEW b \in DOMAIN Bodies' PROVE RedoBefore(a, b)
    <3>1. b[1] \in Codes /\ b[1] # d
      BY <1>8, <1>10
    <3>2. b[1] \in Nat /\ d \in Nat /\ d <= b[1]
      <4>1. \A k \in Codes : k \in Nat
        BY DEF LogInv, ShapeInv, LogTypeOK
      <4> QED
        BY <1>3, <3>1, <4>1
    <3> QED
      BY <2>1, <3>1, <3>2 DEF RedoBefore
  <2> QED
    BY <2>2, <2>3, <2>4
<1> QED
  BY <1>7, <1>12, <1>13

\* A power failure takes records that are not fsynced.
LEMMA CrashBodies ==
    ASSUME LogInv, ShapeInv', Crash
    PROVE  /\ Subset(Bodies', Bodies)
           /\ SyncedPlaces \subseteq DOMAIN Bodies' /\ SyncedPlaces' = DOMAIN Bodies'
<1>1. CutOf(Units', Units)
  BY CrashCut DEF LogInv
<1>2. Subset(Bodies', Bodies)
  BY <1>1, CutUnitsBodies
<1>3. PICK lost \in 0 .. LogFileSize :
          file' = [k \in {j \in Codes : Kept(j, lost) > 1} |-> KeptFile(file[k], Kept(k, lost))]
  BY Zenon DEF Crash, KeptFile
<1>4. Codes' = {k \in Codes : Kept(k, lost) > 1}
  BY <1>3 DEF Codes
<1>5. \A k \in Codes' : /\ file'[k].units = SubSeq(file[k].units, 1, Kept(k, lost))
                        /\ file'[k].synced = Kept(k, lost)
  BY <1>3, <1>4 DEF KeptFile
<1>6. \A k \in Codes' : Len(file'[k].units) = Kept(k, lost)
  <2> SUFFICES ASSUME NEW k \in Codes' PROVE Len(file'[k].units) = Kept(k, lost)
    OBVIOUS
  <2>1. PICK f, n : f = file[k] /\ n = Kept(k, lost)
    OBVIOUS
  <2>2. n \in Nat /\ 1 < n /\ n <= Len(f.units)
    BY <1>4, <2>1, KeptRange DEF LogInv
  <2>3. f \in FileState /\ FileShape(f)
    BY <1>4, <2>1 DEF LogInv, ShapeInv, LogTypeOK, FileInv, FileOK, FlushingOK
  <2>4. Len(KeptFile(f, n).units) = n
    BY <2>2, <2>3, KeptFileOK
  <2> QED
    BY <1>3, <1>4, <2>1, <2>4
<1>7. PICK U, V : U = Units /\ V = Units'
  OBVIOUS
<1>8. /\ WellFormed(U) /\ WellFormed(V) /\ CutOf(V, U)
      /\ DOMAIN U = Codes /\ DOMAIN V = Codes'
      /\ \A k \in Codes' : V[k] = file'[k].units
  BY <1>1, <1>7, UnitsWellFormed, UnitsWellFormedNext DEF LogInv, Units
<1>9. DOMAIN Bodies = BodyPlaces(U) /\ DOMAIN Bodies' = BodyPlaces(V)
  BY <1>7 DEF Bodies, BodiesOf
<1>10. SyncedPlaces' = DOMAIN Bodies'
  <2>1. ASSUME NEW a \in BodyPlaces(V) PROVE a[2] <= file'[a[1]].synced
    <3>1. PICK k, i : k = a[1] /\ i = a[2]
      OBVIOUS
    <3>2. k \in Codes' /\ i <= Len(V[k])
      BY <1>8, <3>1, BodyPlace DEF BodyPlaces
    <3> QED
      BY <1>5, <1>6, <1>8, <3>1, <3>2
  <2> QED
    BY <1>9, <2>1 DEF SyncedPlaces
<1>11. ASSUME NEW a \in SyncedPlaces PROVE a \in DOMAIN Bodies'
  <2>1. PICK k, i : k = a[1] /\ i = a[2]
    OBVIOUS
  <2>2. /\ a \in DOMAIN Bodies /\ k \in Codes /\ i \in Nat \ {0, 1} /\ a = <<k, i>>
        /\ i <= file[k].synced
    BY <1>11, <2>1, EndPosCovers DEF SyncedPlaces
  <2>3. PICK n, x : n = Kept(k, lost) /\ x = file[k].synced
    OBVIOUS
  <2>4. x \in Nat /\ file[k].size \in Nat
    BY <2>2, <2>3, SyncedTyped
  <2>5. n \in Int /\ x <= n
    BY <2>3, <2>4 DEF Kept
  <2>6. i <= n /\ n > 1
    BY <2>2, <2>3, <2>4, <2>5
  <2>7. k \in Codes' /\ Len(V[k]) = n
    BY <1>4, <1>6, <1>8, <2>2, <2>3, <2>6
  <2>8. n < LogFileSize /\ n \in Nat
    BY <1>8, <2>7 DEF WellFormed
  <2>9. i \in 1 .. Len(V[k]) /\ i \in 1 .. LogFileSize
    BY <2>2, <2>6, <2>7, <2>8, SizesAssumption
  <2>10. V[k][i] = U[k][i] /\ U[k][i].t = "body"
    BY <1>8, <1>9, <2>1, <2>2, <2>7, <2>9 DEF CutOf, BodyPlaces
  <2>11. a \in (DOMAIN V) \X (1 .. LogFileSize)
    BY <1>8, <2>2, <2>7, <2>9
  <2>12. i <= Len(V[k])
    BY <2>6, <2>7
  <2>13. a \in BodyPlaces(V)
    BY <2>1, <2>10, <2>11, <2>12 DEF BodyPlaces
  <2> QED
    BY <1>9, <2>13
<1> QED
  BY <1>2, <1>10, <1>11

\* Nothing is left of the log when the last file is deleted under its writer,
\* nor when the server is stopped.
LEMMA NoBodies ==
    ASSUME LogInv, RemoveUnderWriter \/ Shutdown
    PROVE  /\ Codes' = {} /\ DOMAIN Bodies' = {} /\ SyncedPlaces' = {}
           /\ RemoveUnderWriter => \A a \in DOMAIN Bodies : Pos(a) <= curSyncPos
<1>1. ASSUME RemoveUnderWriter
      PROVE  Codes = {writeLog} /\ EndPos(writeLog) <= curSyncPos /\ Codes' = {}
  <2>1. PICK d : d = Front
    OBVIOUS
  <2>2. Codes # {} /\ d = writeLog /\ EndPos(d) <= curSyncPos /\ Codes' = Codes \ {d}
        /\ syncPhase = "expire"
    BY <1>1, <2>1 DEF RemoveUnderWriter, Expired, Codes
  <2>3. d \in Codes /\ \A k \in Codes : d <= k
    BY <2>1, <2>2, FrontIsMin DEF LogInv, ShapeInv
  <2>4. \A k \in Codes : k \in Nat /\ k < nextFileCode
    BY <2>2 DEF LogInv, ShapeInv, LogTypeOK, CodeInv
  <2>5. nextFileCode \in Nat /\ d = nextFileCode - 1
    BY <2>2, <2>3, <2>4 DEF LogInv, ShapeInv, LogTypeOK, CodeInv
  <2>6. \A k \in Codes : k = d
    BY <2>3, <2>4, <2>5
  <2> QED
    BY <2>2, <2>3, <2>6
<1>2. Codes' = {}
  BY <1>1 DEF Shutdown, Codes
<1>3. DOMAIN Bodies' = {} /\ SyncedPlaces' = {}
  <2>1. DOMAIN Units' = {}
    BY <1>2 DEF Units
  <2>2. BodyPlaces(Units') = {}
    <3>1. PICK V : V = Units'
      OBVIOUS
    <3>2. \A a \in BodyPlaces(V) : a \in (DOMAIN V) \X (1 .. LogFileSize)
      BY DEF BodyPlaces
    <3>3. BodyPlaces(V) = {}
      BY <2>1, <3>1, <3>2, Pairs
    <3> QED
      BY <3>1, <3>3
  <2>3. DOMAIN Bodies' = {}
    BY <2>2 DEF Bodies, BodiesOf
  <2> QED
    BY <2>3 DEF SyncedPlaces
<1>4. ASSUME RemoveUnderWriter, NEW a \in DOMAIN Bodies PROVE Pos(a) <= curSyncPos
  <2>1. Pos(a) \in Nat /\ Pos(a) <= EndPos(writeLog) /\ writeLog \in Codes
    BY <1>1, <1>4, EndPosCovers
  <2>2. EndPos(writeLog) \in Int /\ curSyncPos \in Nat
    <3>1. file[writeLog] \in FileState /\ writeLog \in Nat \ {0} /\ curSyncPos \in Nat
      BY <2>1 DEF LogInv, ShapeInv, LogTypeOK
    <3>2. BeginPos(writeLog) \in Nat
      BY <3>1, BeginOrder
    <3> QED
      BY <3>1, <3>2 DEF EndPos, FileState
  <2> QED
    BY <1>1, <1>4, <2>1, <2>2
<1> QED
  BY <1>2, <1>3, <1>4

\* The position from which the records are redone if the server goes down.
RedoFrom == IF Up THEN curSyncPos ELSE IF Codes = {} THEN 0 ELSE RecoverPoint(Back)

LEMMA RedoFromNat == ASSUME LogInv PROVE RedoFrom \in Nat
BY RecoveredPoint DEF RedoFrom, LogInv, ShapeInv, LogTypeOK, Up

\* It does not lie behind the committed sync point.
LEMMA RedoFromBelow ==
    ASSUME LogInv, LogInv', Up, ~racyRead, ~Up', CutOf(Units', Units)
    PROVE  RedoFrom' <= curSyncPos
<1>0. curSyncPos \in Nat
  BY DEF LogInv, ShapeInv, LogTypeOK
<1>1. CASE Codes' = {}
  BY <1>0, <1>1 DEF RedoFrom
<1>2. CASE Codes' # {}
  <2>1. (LogInv /\ syncPhase = "down" /\ Codes # {} => InFiles(Units, RecoverPoint(Back)))'
    BY RecoveredPoint, PTL
  <2>2. PICK U, V, p : U = Units /\ V = Units' /\ p = RecoverPoint(Back)'
    OBVIOUS
  <2>3. InFiles(V, p)
    BY <1>2, <2>1, <2>2 DEF Up
  <2>4. InFiles(U, p)
    BY <2>2, <2>3, CutPoints
  <2>5. Below(U, curSyncPos)
    BY <2>2 DEF LogInv, SyncInv, PointInv
  <2>6. p <= curSyncPos
    BY <2>4, <2>5 DEF InFiles, Below
  <2> QED
    BY <1>2, <2>2, <2>6 DEF RedoFrom
<1> QED
  BY <1>1, <1>2

\* And the start redoes the records that lie behind it.
LEMMA StartRedoes ==
    ASSUME LogInv, RecoverLog
    PROVE  /\ curSyncPos' = RedoFrom /\ RedoPlaces(curSyncPos') \subseteq RecPlaces
           /\ ~racyRead => RedoPlaces(curSyncPos') = {a \in RecPlaces : Pos(a) > RedoFrom}
<1>1. curSyncPos' = RedoFrom /\ syncPhase = "down"
  BY DEF RecoverLog, RedoFrom, Up
<1>2. RedoPlaces(curSyncPos') \subseteq RecPlaces
  BY DEF RedoPlaces
<1>3. ASSUME ~racyRead PROVE RedoPlaces(curSyncPos') = {a \in RecPlaces : Pos(a) > RedoFrom}
  <2>1. PICK p : p = RedoFrom
    OBVIOUS
  <2>2. p \in Nat
    BY <2>1, RedoFromNat
  <2>3. Whole(Units, p)
    <3>1. CASE Codes = {}
      <4>1. DOMAIN Units = {}
        BY <3>1 DEF Units
      <4> QED
        BY <4>1 DEF Whole
    <3>2. CASE Codes # {}
      BY <1>1, <1>3, <2>1, <3>2, RecoveredPoint DEF RedoFrom, Up
    <3> QED
      BY <3>1, <3>2
  <2>4. RedoPlaces(p) = {a \in RecPlaces : BeginPos(a[1]) + a[2] > p}
    BY <1>1, <2>2, <2>3, RedoSet DEF LogInv
  <2> QED
    BY <1>1, <2>1, <2>4 DEF Pos
<1> QED
  BY <1>1, <1>2, <1>3
=============================================================================
