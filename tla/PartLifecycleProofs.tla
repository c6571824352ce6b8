-------------------------- MODULE PartLifecycleProofs --------------------------
(***************************************************************************)
(* What PartLifecycle promises, for any days, records and bounds: the      *)
(* inductive invariant IInv ties the parts in memory, the entries of       *)
(* table.json, the files and the log together at every point of the insert *)
(* request, the full sync, the dump task and the administrator.            *)
(*                                                                         *)
(* Each lemma XKeeps shows that the step X keeps IInv: first what the step *)
(* changes (<1>1), then the parts of IInv that it leaves alone, then those *)
(* it touches.  A day and a record that it does not touch are dealt with   *)
(* by DayFrame and RecFrame.                                               *)
(***************************************************************************)
EXTENDS PartLifecycle, FiniteSetTheorems, TLAPS

-----------------------------------------------------------------------------
(* The inductive invariant.                                                *)

\* The types, and the threads are records of their fields.
InsShape == ins = [pc |-> ins.pc, today |-> ins.today, day |-> ins.day, part |-> ins.part,
                   ref |-> ins.ref, rec |-> ins.rec]
SyncShape == syncer = [pc |-> syncer.pc, roDay |-> syncer.roDay, at |-> syncer.at, ref |-> syncer.ref,
                       mark |-> syncer.mark]
DumpShape == dump = [pc |-> dump.pc, from |-> dump.from, ref |-> dump.ref, part |-> dump.part]
AdmShape == adm = [pc |-> adm.pc, op |-> adm.op, kind |-> adm.kind, day |-> adm.day, part |-> adm.part,
                   done |-> adm.done]
ServerTypes == /\ server \in {"up", "down", "torn", "refused"} /\ now \in FirstNow .. MaxNow
               /\ cancel \in BOOLEAN /\ dumpPartCode \in Days \cup {0}
PartTypes == /\ parts \in Seq(Part) /\ Len(parts) <= MaxParts /\ vec \in [Days -> 0 .. Len(parts)]
DiskTypes == /\ cfg \subseteq Days \X Kinds /\ files \in [Kinds -> [Days -> {NoFile} \cup SUBSET Recs]]
             /\ log \subseteq Recs
PastTypes == /\ acked \subseteq Recs /\ late \subseteq Recs /\ gone \subseteq Days \X Kinds
             /\ raced \subseteq {"bare", "window", "attach", "dump", "unwritten"} \X Days
InsTypes ==
    /\ InsShape
    /\ ins.pc \in {"idle", "next", "create", "log", "put"}
    /\ ins.day \in Days \cup {0} /\ ins.part \in 0 .. Len(parts) /\ ins.ref \in {0, ins.part}
SyncTypes ==
    /\ SyncShape
    /\ syncer.pc \in {"idle", "next", "switch"}
    /\ syncer.at \in Days \cup {0} /\ syncer.ref \in 0 .. Len(parts) /\ syncer.mark \subseteq Recs
DumpTypes ==
    /\ DumpShape
    /\ dump.pc \in {"idle", "next", "mark", "scan", "config", "swap", "wait", "clear", "give up"}
    /\ dump.ref \in 0 .. Len(parts) /\ dump.part \in 0 .. Len(parts)
AdmTypes ==
    /\ AdmShape
    /\ adm.pc \in {"idle", "add", "cancel", "await", "del", "refs"}
    /\ adm.kind \in Kinds /\ adm.day \in Days \cup {0} /\ adm.part \in 0 .. Len(parts)
Types == ServerTypes /\ PartTypes /\ DiskTypes /\ PastTypes /\ InsTypes /\ SyncTypes /\ DumpTypes /\ AdmTypes

\* Without a server there is nothing in memory.
Down ==
    server # "up" =>
       /\ parts = <<>> /\ vec = [d \in Days |-> 0] /\ ins = IdleIns /\ syncer = IdleSync /\ dump = IdleDump
       /\ adm = IdleAdm(adm.done) /\ dumpPartCode = 0

Events == /\ adm.done \in Nat /\ crashes \in Nat /\ adm.done + crashes <= MaxEvents
          /\ (adm.pc # "idle" => adm.done + crashes < MaxEvents)

Dumping == dump.pc \in {"mark", "scan", "config", "swap", "wait", "clear", "give up"}
Removing == adm.pc \in {"cancel", "await", "del", "refs"}
RemovingDay(d) == Removing /\ adm.day = d
DumpingDay(d) == Dumping /\ DumpDay = d
Entries(d) == {k \in Kinds : <<d, k>> \in cfg}
KindOf(p) == parts[p].kind

\* partVec_ has the parts of their days, none of them deleted.
VecParts == \A d \in Days : vec[d] # 0 => parts[vec[d]].day = d /\ parts[vec[d]].freed = 0

InsThread ==
    /\ ins.pc = "idle" => ins = IdleIns
    /\ ins.ref # 0 => parts[ins.ref].freed = 0
    /\ ins.part # 0 => parts[ins.part].day = ins.day /\ KindOf(ins.part) = "normal"
    /\ ins.day # 0 /\ ins.pc # "create" => ins.part # 0
    /\ ins.pc \in {"create", "log", "put"} => ins.rec \in Recs /\ ins.rec[1] = ins.day
    /\ ins.pc \in {"log", "put"} => ins.ref # 0 \/ <<"bare", ins.day>> \in raced
    /\ ins.pc = "create" => ins.part = 0 /\ vec[ins.day] = 0 /\ Len(parts) < MaxParts

SyncThread ==
    /\ syncer.pc = "idle" => syncer = IdleSync
    /\ syncer.ref # 0 => parts[syncer.ref].freed = 0
    /\ syncer.pc = "switch" => syncer.ref # 0 /\ KindOf(syncer.ref) = "normal"
    /\ syncer.mark \subseteq log

DumpThread ==
    /\ dump.pc = "idle" => dump = IdleDump
    /\ dump.ref # 0 => parts[dump.ref].freed = 0
    /\ dump.part # 0 <=> Dumping
    /\ Dumping => KindOf(dump.part) = "normal" /\ parts[dump.part].ro
    /\ Dumping /\ dump.pc # "wait" => dump.ref = dump.part
    /\ dump.pc = "wait" => vec[DumpDay] # dump.part
    /\ dumpPartCode = IF Dumping /\ dump.pc # "mark" THEN DumpDay ELSE 0

AdmThread ==
    /\ adm.pc = "idle" => adm = IdleAdm(adm.done)
    /\ adm.part # 0 <=> Removing
    /\ adm.pc # "idle" => adm.day # 0
    /\ Removing => parts[adm.part].day = adm.day /\ vec[adm.day] # adm.part
    /\ adm.pc = "refs" => <<adm.day, KindOf(adm.part)>> \in gone

\* Who may still delete a part.
Owners ==
    \A p \in 1 .. Len(parts) :
       /\ parts[p].freed = 1 => adm.part # p \/ dump.part # p
       /\ parts[p].freed = 2 => adm.part # p /\ dump.part # p
       /\ adm.part = p /\ dump.part = p => <<"dump", parts[p].day>> \in raced
       /\ ~Raced(parts[p].day) => parts[p].freed = 0 \/ (parts[p].freed = 1 /\ adm.part # p /\ dump.part # p)

\* The day d, in none of the named races.
DumpHasVec(d) == DumpingDay(d) /\ dump.pc # "wait" => vec[d] = dump.part
RemovedIsOut(d) == RemovingDay(d) => vec[d] = 0
WaitHasComp(d) ==
    DumpingDay(d) /\ dump.pc = "wait" =>
       /\ Entries(d) = {"comp"}
       /\ \/ vec[d] # 0 /\ KindOf(vec[d]) = "comp"
          \/ adm.pc \in {"cancel", "await"} /\ adm.day = d /\ KindOf(adm.part) = "comp"
DumpMadeFile(d) ==
    DumpingDay(d) =>
       /\ dump.pc \in {"config", "swap"} => files["comp"][d] # NoFile
       /\ dump.pc = "swap" => Entries(d) = {"comp"}
OneEntry(d) == \A j, k \in Entries(d) : j = k /\ files[k][d] # NoFile
RefsNoEntry(d) == adm.pc = "refs" /\ adm.day = d =>
       Entries(d) = {} /\ \A k \in Kinds : <<d, k>> \in gone => k = KindOf(adm.part)
OutNoEntry(d) == Up /\ vec[d] = 0 => Entries(d) = {} \/ (adm.pc \in {"cancel", "await", "del"} /\ adm.day = d)
GoneIsOut(d) == Gone(d) => /\ Entries(d) = {} /\ vec[d] = 0
                           /\ adm.day = d => adm.pc \in {"idle", "refs"}
CreateHasFile(d) == ins.pc = "create" /\ ins.day = d =>
                       files["normal"][d] # NoFile \/ Gone(d) \/ RemovingDay(d)
AddHasPart(d) == adm.pc = "add" /\ adm.day = d =>
                    vec[d] # 0 /\ (KindOf(vec[d]) = adm.kind \/ Entries(d) # {})
PartHasFile(d) == /\ vec[d] # 0 => files[KindOf(vec[d])][d] # NoFile
                  /\ RemovingDay(d) => files[KindOf(adm.part)][d] # NoFile
RefIsKept(d) == ins.ref # 0 /\ ins.day = d =>
                   \/ ins.ref = vec[d]
                   \/ RemovingDay(d) /\ ins.ref = adm.part
                   \/ DumpingDay(d) /\ ins.ref = dump.part
EntryIsPart(d) ==
    /\ vec[d] # 0 => /\ Entries(d) # {} \/ (adm.pc = "add" /\ adm.day = d)
                     /\ "normal" \in Entries(d) => KindOf(vec[d]) = "normal"
                     /\ "comp" \in Entries(d) => KindOf(vec[d]) = "comp" \/ parts[vec[d]].ro
    /\ RemovingDay(d) /\ "comp" \in Entries(d) => KindOf(adm.part) = "comp" \/ parts[adm.part].ro

DayOK(d) ==
    /\ DumpHasVec(d) /\ RemovedIsOut(d) /\ WaitHasComp(d) /\ DumpMadeFile(d) /\ OneEntry(d) /\ RefsNoEntry(d)
    /\ OutNoEntry(d) /\ GoneIsOut(d) /\ AddHasPart(d) /\ PartHasFile(d) /\ EntryIsPart(d)
InsOK(d) == CreateHasFile(d) /\ RefIsKept(d)
DaysOK == \A d \in Days : ~Raced(d) => DayOK(d) /\ InsOK(d)

\* The record of the insert request.
InsRec ==
    /\ ins.pc \in {"create", "log"} => ins.rec \notin log
    /\ ins.pc = "put" => ins.rec \in late \/ (ins.rec \in log /\ ins.rec \notin syncer.mark)

\* The accepted record r of day d.
Held(r) == r \in acked \ late /\ ~Raced(r[1]) /\ <<"unwritten", r[1]>> \notin raced
InFile(k, r) == files[k][r[1]] # NoFile /\ r \in files[k][r[1]]
\* The full sync writes the part of the day e.
Writes(e) == parts[vec[e]].kind = "normal" /\ ~parts[vec[e]].ro
PartKeeps(p, r) ==
    /\ r \in parts[p].recs
    /\ KindOf(p) = "normal" => InFile("normal", r) \/ (r \in log /\ ~parts[p].ro)
    /\ KindOf(p) = "comp" => InFile("comp", r)
VecKeeps(r) == vec[r[1]] # 0 => PartKeeps(vec[r[1]], r)
RemovedKeeps(r) == RemovingDay(r[1]) => PartKeeps(adm.part, r)
SomewhereUp(r) == Up /\ vec[r[1]] = 0 => Gone(r[1]) \/ RemovingDay(r[1])
SomewhereDown(r) == ~Up => Gone(r[1]) \/ OnDisk(r)
MarkWritten(r) == syncer.pc # "idle" /\ r \in syncer.mark /\ r[1] <= syncer.at
                  /\ vec[r[1]] # 0 /\ KindOf(vec[r[1]]) = "normal"
                  => InFile("normal", r)
DumpKeeps(r) == DumpingDay(r[1]) /\ dump.pc \in {"config", "swap"} => InFile("comp", r)
CompKeeps(r) == <<r[1], "comp">> \in cfg => InFile("comp", r)
GoneKeeps(r) == \A k \in Kinds : <<r[1], k>> \in gone /\ ~RemovingDay(r[1]) => InFile(k, r)
RecOK(r) == VecKeeps(r) /\ RemovedKeeps(r) /\ SomewhereUp(r) /\ SomewhereDown(r) /\ MarkWritten(r)
            /\ DumpKeeps(r) /\ CompKeeps(r) /\ GoneKeeps(r)
RecsOK == \A r \in Recs : Held(r) => RecOK(r)

IInv == /\ Types /\ Down /\ Events /\ VecParts /\ InsThread /\ SyncThread /\ DumpThread /\ AdmThread
        /\ Owners /\ DaysOK /\ InsRec /\ RecsOK

-----------------------------------------------------------------------------
(* The constants.                                                          *)

\* What the proofs use of the assumption on the constants.
LEMMA Constants ==
    /\ Kinds = {"normal", "comp"} /\ "normal" \in Kinds /\ "comp" \in Kinds
    /\ \A d \in Days : d \in Nat /\ d # 0 /\ ~(d <= 0)
    /\ \A r \in Recs : r[1] \in Days
    /\ \A S \in SUBSET Recs : NoFile # S
    /\ {} \in SUBSET Recs /\ NoFile # {}
<1>1. \A d \in Days : d \in Nat /\ d # 0
  BY PartLifecycleAssumption
<1>2. \A d \in Days : ~(d <= 0)
  BY <1>1
<1> QED
  BY <1>1, <1>2, PartLifecycleAssumption

\* The kinds of parts; 0 is no day.
LEMMA TwoKinds == Kinds = {"normal", "comp"} /\ 0 \notin Days
  BY PartLifecycleAssumption

-----------------------------------------------------------------------------
(* The part objects: a new one, and one with another value in a field.     *)

\* A part object is a record of its fields.
LEMMA PartFields ==
    ASSUME NEW x \in Part
    PROVE  /\ x.day \in Days /\ x.kind \in Kinds /\ x.ro \in BOOLEAN /\ x.recs \subseteq Recs /\ x.freed \in 0 .. 2
           /\ x = [day |-> x.day, kind |-> x.kind, ro |-> x.ro, recs |-> x.recs, freed |-> x.freed]
  BY DEF Part

\* A part object comes to the others.
LEMMA NewPart ==
    ASSUME PartTypes, NEW x \in Part, Len(parts) < MaxParts, parts' = Append(parts, x)
    PROVE  /\ parts' \in Seq(Part) /\ Len(parts') = Len(parts) + 1 /\ Len(parts') <= MaxParts
           /\ parts'[Len(parts) + 1] = x /\ \A p \in 1 .. Len(parts) : parts'[p] = parts[p]
  BY PartLifecycleAssumption DEF PartTypes

\* One part object gets another value.
LEMMA ChangedPart ==
    ASSUME PartTypes, NEW q \in 1 .. Len(parts), NEW x \in Part, parts' = [parts EXCEPT ![q] = x]
    PROVE  /\ parts' \in Seq(Part) /\ Len(parts') = Len(parts)
           /\ parts'[q] = x /\ \A p \in 1 .. Len(parts) : p # q => parts'[p] = parts[p]
<1>1. parts \in Seq(Part)
  BY DEF PartTypes
<1>2. parts' \in Seq(Part) /\ Len(parts') = Len(parts)
  BY <1>1
<1> QED
  BY <1>1, <1>2

\* A part is made read-only.
LEMMA ReadOnly ==
    ASSUME PartTypes, NEW q \in 1 .. Len(parts), parts' = [parts EXCEPT ![q].ro = TRUE]
    PROVE  /\ parts' \in Seq(Part) /\ Len(parts') = Len(parts)
           /\ \A p \in 1 .. Len(parts) : p # q => parts'[p] = parts[p]
           /\ parts'[q].ro /\ parts'[q].day = parts[q].day /\ parts'[q].kind = parts[q].kind
           /\ parts'[q].recs = parts[q].recs /\ parts'[q].freed = parts[q].freed
<1> DEFINE x == [parts[q] EXCEPT !.ro = TRUE]
<1>1. parts[q] \in Part
  BY DEF PartTypes
<1>2. /\ x \in Part /\ x.ro /\ x.day = parts[q].day /\ x.kind = parts[q].kind /\ x.recs = parts[q].recs
      /\ x.freed = parts[q].freed
  BY <1>1 DEF Part
<1>3. parts' = [parts EXCEPT ![q] = x]
  OBVIOUS
<1> HIDE DEF x
<1> QED
  BY <1>2, <1>3, ChangedPart

\* A record is put in a part.
LEMMA RecordPut ==
    ASSUME PartTypes, NEW q \in 1 .. Len(parts), NEW r \in Recs, parts' = [parts EXCEPT ![q].recs = @ \cup {r}]
    PROVE  /\ parts' \in Seq(Part) /\ Len(parts') = Len(parts)
           /\ \A p \in 1 .. Len(parts) : p # q => parts'[p] = parts[p]
           /\ parts'[q].recs = parts[q].recs \cup {r} /\ parts'[q].day = parts[q].day
           /\ parts'[q].kind = parts[q].kind /\ parts'[q].ro = parts[q].ro /\ parts'[q].freed = parts[q].freed
<1> DEFINE x == [parts[q] EXCEPT !.recs = @ \cup {r}]
<1>1. parts[q] \in Part
  BY DEF PartTypes
<1>2. /\ x \in Part /\ x.recs = parts[q].recs \cup {r} /\ x.day = parts[q].day /\ x.kind = parts[q].kind
      /\ x.ro = parts[q].ro /\ x.freed = parts[q].freed
  BY <1>1 DEF Part
<1>3. parts' = [parts EXCEPT ![q] = x]
  OBVIOUS
<1> HIDE DEF x
<1> QED
  BY <1>2, <1>3, ChangedPart

\* A part is deleted, for the first or the second time.
LEMMA PartFreed ==
    ASSUME PartTypes, NEW q \in 1 .. Len(parts), parts[q].freed # 2, parts' = [parts EXCEPT ![q].freed = @ + 1]
    PROVE  /\ parts' \in Seq(Part) /\ Len(parts') = Len(parts)
           /\ \A p \in 1 .. Len(parts) : p # q => parts'[p] = parts[p]
           /\ parts'[q].freed = parts[q].freed + 1 /\ parts'[q].day = parts[q].day
           /\ parts'[q].kind = parts[q].kind /\ parts'[q].ro = parts[q].ro /\ parts'[q].recs = parts[q].recs
<1> DEFINE x == [parts[q] EXCEPT !.freed = @ + 1]
<1>1. parts[q] \in Part
  BY DEF PartTypes
<1>2. /\ x \in Part /\ x.freed = parts[q].freed + 1 /\ x.day = parts[q].day /\ x.kind = parts[q].kind
      /\ x.ro = parts[q].ro /\ x.recs = parts[q].recs
  BY <1>1 DEF Part
<1>3. parts' = [parts EXCEPT ![q] = x]
  OBVIOUS
<1> HIDE DEF x
<1> QED
  BY <1>2, <1>3, ChangedPart

\* One file gets other contents, or is made or removed.
LEMMA FileSet ==
    ASSUME DiskTypes, NEW k \in Kinds, NEW e \in Days, NEW x \in {NoFile} \cup SUBSET Recs, files' = [files EXCEPT ![k][e] = x]
    PROVE  /\ files' \in [Kinds -> [Days -> {NoFile} \cup SUBSET Recs]] /\ files'[k][e] = x
           /\ \A j \in Kinds, d \in Days : j # k \/ d # e => files'[j][d] = files[j][d]
<1> DEFINE S == {NoFile} \cup SUBSET Recs
<1>1. files \in [Kinds -> [Days -> S]]
  BY DEF DiskTypes
<1> HIDE DEF S
<1>2. x \in S
  BY DEF S
<1>3. files' \in [Kinds -> [Days -> S]] /\ files'[k][e] = x
  BY <1>1, <1>2
<1>4. \A j \in Kinds, d \in Days : j # k \/ d # e => files'[j][d] = files[j][d]
  BY <1>1
<1> QED
  BY <1>3, <1>4 DEF S

\* Where the values of the variables are.
Ranged ==
    /\ Len(parts) \in Nat /\ 0 \notin Days /\ Kinds = {"normal", "comp"}
    /\ ins.part \in 0 .. Len(parts) /\ ins.ref \in 0 .. Len(parts) /\ syncer.ref \in 0 .. Len(parts)
    /\ dump.ref \in 0 .. Len(parts) /\ dump.part \in 0 .. Len(parts) /\ adm.part \in 0 .. Len(parts)
    /\ \A d \in Days : vec[d] \in 0 .. Len(parts)
    /\ \A p \in 1 .. Len(parts) : parts[p].day \in Days /\ parts[p].kind \in Kinds /\ parts[p].recs \subseteq Recs
    /\ ins.day \in Days \cup {0} /\ adm.day \in Days \cup {0}
    /\ \A k \in Kinds, d \in Days : files[k][d] \in {NoFile} \cup SUBSET Recs

\* The types give the ranges.
LEMMA Ranges == ASSUME Types PROVE Ranged
<1>1. 0 \notin Days /\ Kinds = {"normal", "comp"}
  BY PartLifecycleAssumption
<1>2. /\ Len(parts) \in Nat /\ \A d \in Days : vec[d] \in 0 .. Len(parts)
      /\ \A p \in 1 .. Len(parts) : parts[p] \in Part
  BY DEF Types, PartTypes
<1>3. \A p \in 1 .. Len(parts) : parts[p].day \in Days /\ parts[p].kind \in Kinds /\ parts[p].recs \subseteq Recs
  BY <1>2, PartFields
<1>4. ins.part \in 0 .. Len(parts) /\ ins.ref \in 0 .. Len(parts) /\ ins.day \in Days \cup {0}
  BY <1>2 DEF Types, InsTypes
<1>5. syncer.ref \in 0 .. Len(parts)
  BY <1>2 DEF Types, SyncTypes
<1>6. dump.ref \in 0 .. Len(parts) /\ dump.part \in 0 .. Len(parts)
  BY <1>2 DEF Types, DumpTypes
<1>7. adm.part \in 0 .. Len(parts) /\ adm.day \in Days \cup {0}
  BY <1>2 DEF Types, AdmTypes
<1>8. \A k \in Kinds, d \in Days : files[k][d] \in {NoFile} \cup SUBSET Recs
  BY DEF Types, DiskTypes
<1> QED
  BY <1>1, <1>2, <1>3, <1>4, <1>5, <1>6, <1>7, <1>8 DEF Ranged

\* A new part is the part of its day.
LEMMA PartAdded ==
    ASSUME PartTypes, NEW x \in Part, NEW e \in Days, Len(parts) < MaxParts,
           parts' = Append(parts, x), vec' \in [Days -> 0 .. Len(parts) + 1], vec'[e] = Len(parts) + 1,
           \A d \in Days : d # e => vec'[d] = vec[d]
    PROVE  \E n : /\ n = Len(parts) + 1 /\ Len(parts') = n /\ n \notin 0 .. Len(parts) /\ n \in 1 .. Len(parts')
                  /\ \A i : i \in 1 .. Len(parts') <=> i \in 1 .. Len(parts) \/ i = n
                  /\ PartTypes' /\ parts'[n] = x /\ \A p \in 1 .. Len(parts) : parts'[p] = parts[p]
                  /\ vec'[e] = n /\ \A d \in Days : d # e => vec'[d] = vec[d]
<1>1. /\ parts' \in Seq(Part) /\ Len(parts') = Len(parts) + 1 /\ Len(parts') <= MaxParts
      /\ parts'[Len(parts) + 1] = x /\ \A p \in 1 .. Len(parts) : parts'[p] = parts[p]
  BY NewPart
<1>2. Len(parts) \in Nat /\ vec \in [Days -> 0 .. Len(parts)]
  BY DEF PartTypes
<1>3. vec' \in [Days -> 0 .. Len(parts')]
  BY <1>1
<1>4. PartTypes'
  BY <1>1, <1>3 DEF PartTypes, Part
<1>5. vec'[e] = Len(parts) + 1 /\ \A d \in Days : d # e => vec'[d] = vec[d]
  BY <1>2
<1>6. /\ Len(parts) + 1 \notin 0 .. Len(parts) /\ Len(parts) + 1 \in 1 .. Len(parts')
      /\ \A i : i \in 1 .. Len(parts') <=> i \in 1 .. Len(parts) \/ i = Len(parts) + 1
  BY <1>1, <1>2
<1> QED
  BY <1>1, <1>4, <1>5, <1>6

\* A thread that is busy has a server.
LEMMA BusyIsUp ==
    ASSUME Down, ins.pc # "idle" \/ syncer.pc # "idle" \/ dump.pc # "idle" \/ adm.pc # "idle"
    PROVE  Up
  BY DEF Down, Up, IdleIns, IdleSync, IdleDump, IdleAdm

\* What a step leaves of a part.
Kept(p) == /\ parts'[p].day = parts[p].day /\ parts'[p].kind = parts[p].kind /\ parts'[p].freed = parts[p].freed
           /\ (parts[p].ro => parts'[p].ro) /\ parts[p].recs \subseteq parts'[p].recs

\* What a step leaves of every part it leaves of those that the threads and partVec_ have.
LEMMA AllKept ==
    ASSUME Types, \A p \in 1 .. Len(parts) : Kept(p)
    PROVE  /\ ins.part # 0 => Kept(ins.part)
           /\ ins.ref # 0 => Kept(ins.ref)
           /\ syncer.ref # 0 => Kept(syncer.ref)
           /\ dump.ref # 0 => Kept(dump.ref)
           /\ dump.part # 0 => Kept(dump.part)
           /\ adm.part # 0 => Kept(adm.part)
           /\ \A d \in Days : vec[d] # 0 => Kept(vec[d])
  BY Ranges DEF Ranged

-----------------------------------------------------------------------------
(* What a step does not touch.                                             *)

\* A part keeps its kind, and is at most made read-only.
SamePart(p) == KindOf(p)' = KindOf(p) /\ (parts[p].ro => parts'[p].ro)

\* The part, the entries, the files and the removal of the day are as they were.
SameDay(d) ==
    /\ server' = server /\ vec'[d] = vec[d] /\ (vec[d] # 0 => SamePart(vec[d]))
    /\ \A k \in Kinds : /\ <<d, k>> \in cfg' <=> <<d, k>> \in cfg
                        /\ <<d, k>> \in gone' <=> <<d, k>> \in gone
                        /\ files[k][d] # NoFile => files'[k][d] # NoFile
    /\ adm.day = d \/ adm'.day = d =>
          /\ adm'.day = adm.day /\ adm'.pc = adm.pc /\ adm'.kind = adm.kind /\ adm'.part = adm.part
          /\ RemovingDay(d) => SamePart(adm.part)

\* If the day is being compressed, it was so at the same point, or it is before the entry is written.
DumpFirst(d) == dump'.pc \in {"mark", "scan", "clear", "give up"} /\ dump'.part = vec[d]
SameDump(d) == DumpingDay(d)' => DumpFirst(d) \/ (DumpingDay(d) /\ dump'.pc = dump.pc /\ dump'.part = dump.part)

\* What the step does not touch of the day stays as it was.
LEMMA DayFrame ==
    ASSUME Types, AdmThread, NEW d \in Days, DayOK(d), SameDay(d), SameDump(d)
    PROVE  DayOK(d)'
<1>1. /\ server' = server /\ vec'[d] = vec[d] /\ (vec[d] # 0 => SamePart(vec[d]))
      /\ \A k \in Kinds : files[k][d] # NoFile => files'[k][d] # NoFile
      /\ adm.day = d \/ adm'.day = d =>
            /\ adm'.day = adm.day /\ adm'.pc = adm.pc /\ adm'.kind = adm.kind /\ adm'.part = adm.part
            /\ RemovingDay(d) => SamePart(adm.part)
      /\ Entries(d)' = Entries(d) /\ (\A k \in Kinds : <<d, k>> \in gone' <=> <<d, k>> \in gone)
      /\ RemovingDay(d)' <=> RemovingDay(d)
  BY DEF SameDay, Entries, RemovingDay, Removing
<1>2. DumpingDay(d)' => \/ dump'.pc \in {"mark", "scan", "clear", "give up"} /\ dump'.part = vec[d]
                        \/ DumpingDay(d) /\ dump'.pc = dump.pc /\ dump'.part = dump.part
  BY DEF SameDump, DumpFirst
<1>3. Kinds = {"normal", "comp"}
  BY PartLifecycleAssumption
<1>4. DumpHasVec(d)' /\ RemovedIsOut(d)'
  BY <1>1, <1>2 DEF DayOK, DumpHasVec, RemovedIsOut
<1>5. WaitHasComp(d)'
  BY <1>1, <1>2 DEF DayOK, WaitHasComp, RemovingDay, Removing, SamePart, KindOf
<1>6. DumpMadeFile(d)'
  BY <1>1, <1>2, <1>3 DEF DayOK, DumpMadeFile
<1>7. OneEntry(d)'
  BY <1>1 DEF DayOK, OneEntry, Entries
<1>8. RefsNoEntry(d)'
  BY <1>1, <1>3 DEF DayOK, RefsNoEntry, RemovingDay, Removing, SamePart, KindOf
<1>9. OutNoEntry(d)' /\ GoneIsOut(d)'
  BY <1>1 DEF DayOK, OutNoEntry, GoneIsOut, Gone, Up
<1>10. AddHasPart(d)'
  BY <1>1 DEF DayOK, AddHasPart, SamePart, KindOf
<1>11. PartHasFile(d)'
  <2>1. vec[d] # 0 => KindOf(vec[d])' = KindOf(vec[d])
    BY <1>1 DEF SamePart
  <2>2. RemovingDay(d) => KindOf(adm.part)' = KindOf(adm.part)
    BY <1>1 DEF SamePart, RemovingDay, KindOf
  <2>3. RemovingDay(d) => KindOf(adm.part) \in Kinds
    BY Ranges DEF Ranged, AdmThread, RemovingDay, Removing, KindOf
  <2>4. vec[d] # 0 => KindOf(vec[d]) \in Kinds
    BY Ranges DEF Ranged, KindOf
  <2> QED
    BY <1>1, <2>1, <2>2, <2>3, <2>4 DEF DayOK, PartHasFile, KindOf
<1>12. EntryIsPart(d)'
  <2>1. vec[d] # 0 => KindOf(vec[d])' = KindOf(vec[d]) /\ (parts[vec[d]].ro => parts'[vec'[d]].ro)
    BY <1>1 DEF SamePart
  <2>2. RemovingDay(d) => KindOf(adm.part)' = KindOf(adm.part) /\ (parts[adm.part].ro => parts'[adm'.part].ro)
    BY <1>1 DEF SamePart, RemovingDay, KindOf
  <2> QED
    BY <1>1, <2>1, <2>2 DEF DayOK, EntryIsPart, KindOf
<1> QED
  BY <1>4, <1>5, <1>6, <1>7, <1>8, <1>9, <1>10, <1>11, <1>12 DEF DayOK

\* A part keeps the record, and is made read-only if the record is in its file.
SameKeeping(p, r) ==
    /\ KindOf(p)' = KindOf(p) /\ (r \in parts[p].recs => r \in parts'[p].recs)
    /\ parts'[p].ro => parts[p].ro \/ InFile("normal", r)'

\* The record stays in the files, the log and the parts that had it, and what the full sync has
\* passed is in its file.
SameRec(r) ==
    /\ vec[r[1]] # 0 => SameKeeping(vec[r[1]], r)
    /\ RemovingDay(r[1]) => SameKeeping(adm.part, r)
    /\ \A k \in Kinds : InFile(k, r) => InFile(k, r)'
    /\ r \in log => \/ r \in log' \/ InFile("normal", r)'
                    \/ Up /\ ~RemovingDay(r[1]) /\ (vec[r[1]] = 0 \/ KindOf(vec[r[1]]) = "comp")
    /\ syncer'.pc # "idle" /\ r \in syncer'.mark /\ r[1] <= syncer'.at =>
          \/ syncer.pc # "idle" /\ r \in syncer.mark /\ r[1] <= syncer.at
          \/ vec[r[1]] = 0 \/ KindOf(vec[r[1]]) = "comp" \/ InFile("normal", r)'

\* A record stays where it is through a step that takes it from none of its places.
LEMMA RecFrame ==
    ASSUME NEW r \in Recs, RecOK(r), SameDay(r[1]), SameDump(r[1]), SameRec(r)
    PROVE  RecOK(r)'
<1> DEFINE d == r[1]
<1>1. Kinds = {"normal", "comp"} /\ d \in Days
  BY PartLifecycleAssumption
<1>2. /\ server' = server /\ vec'[d] = vec[d] /\ (vec[d] # 0 => KindOf(vec[d])' = KindOf(vec[d]))
      /\ \A k \in Kinds : <<d, k>> \in cfg' <=> <<d, k>> \in cfg
      /\ \A k \in Kinds : <<d, k>> \in gone' <=> <<d, k>> \in gone
      /\ \A k \in Kinds : files[k][d] # NoFile => files'[k][d] # NoFile
      /\ RemovingDay(d)' <=> RemovingDay(d)
      /\ RemovingDay(d) => adm'.part = adm.part 
  BY <1>1 DEF SameDay, SamePart, RemovingDay, Removing
<1>3. DumpingDay(d)' => dump'.pc \in {"mark", "scan", "clear", "give up"} \/ (DumpingDay(d) /\ dump'.pc = dump.pc)
  BY DEF SameDump, DumpFirst
<1> HIDE DEF d
<1>4. VecKeeps(r)'
  BY <1>1, <1>2 DEF RecOK, VecKeeps, SameRec, SameKeeping, PartKeeps, KindOf, d
<1>5. RemovedKeeps(r)'
  BY <1>1, <1>2 DEF RecOK, RemovedKeeps, SameRec, SameKeeping, PartKeeps, KindOf, d
<1>6. SomewhereUp(r)'
  BY <1>2 DEF RecOK, SomewhereUp, Up, Gone, d
<1>7. SomewhereDown(r)'
  <2>1. ~Up /\ OnDisk(r) => OnDisk(r)'
    <3> SUFFICES ASSUME ~Up, NEW k \in Kinds, <<r[1], k>> \in cfg, files[k][r[1]] # NoFile,
                        r \in files[k][r[1]] \/ (k = "normal" /\ r \in log)
                 PROVE  OnDisk(r)'
      BY DEF OnDisk
    <3>1. InFile(k, r) => InFile(k, r)'
      BY DEF SameRec
    <3>2. r \in log => r \in log' \/ InFile("normal", r)'
      BY DEF SameRec
    <3>3. <<r[1], k>> \in cfg' /\ files'[k][r[1]] # NoFile
      BY <1>2 DEF d
    <3>4. CASE r \in files[k][r[1]]
      BY <3>1, <3>3, <3>4 DEF InFile, OnDisk
    <3>5. CASE k = "normal" /\ r \in log
      BY <3>2, <3>3, <3>5 DEF InFile, OnDisk
    <3> QED
      BY <3>4, <3>5
  <2> QED
    BY <1>2, <2>1 DEF RecOK, SomewhereDown, Up, Gone, d
<1>8. MarkWritten(r)'
  BY <1>1, <1>2 DEF RecOK, MarkWritten, SameRec, d, KindOf
<1>9. DumpKeeps(r)' /\ CompKeeps(r)'
  BY <1>1, <1>2, <1>3 DEF RecOK, DumpKeeps, CompKeeps, SameRec, d
<1>10. GoneKeeps(r)'
  BY <1>2 DEF RecOK, GoneKeeps, SameRec, d
<1> QED
  BY <1>4, <1>5, <1>6, <1>7, <1>8, <1>9, <1>10 DEF RecOK

\* DumpScan that makes the compressed file.
MakesFile == /\ dump.pc = "scan" /\ files' = [files EXCEPT !["comp"][DumpDay] = parts[dump.part].recs]
             /\ DumpStep([dump EXCEPT !.pc = "config"])
             /\ UNCHANGED <<parts, vec, dumpPartCode, cancel, cfg, raced>>

-----------------------------------------------------------------------------
(* The clock and the insert request.                                       *)

\* A day goes by.
LEMMA TickKeeps ==
    ASSUME IInv, Tick
    PROVE  IInv'
<1>0. /\ ServerTypes /\ PartTypes /\ DiskTypes /\ PastTypes /\ InsTypes /\ SyncTypes /\ DumpTypes /\ AdmTypes
      /\ Down /\ Events /\ VecParts /\ InsThread /\ SyncThread /\ DumpThread /\ AdmThread
      /\ Owners /\ DaysOK /\ InsRec /\ RecsOK
  BY DEF IInv, Types
<1>1. /\ now < MaxNow
      /\ now' = now + 1
      /\ UNCHANGED <<server, parts, vec, cfg, files, log, ins, syncer, dump, adm, dumpPartCode,
                     cancel, acked, late, gone, raced, crashes>>
  BY <1>0 DEF Tick, disk, past, memory
<1>2. PartTypes' /\ DiskTypes' /\ PastTypes'
  BY <1>0, <1>1 DEF PartTypes, DiskTypes, PastTypes, Part
<1>3. InsTypes' /\ SyncTypes'
  BY <1>0, <1>1 DEF InsTypes, SyncTypes, InsShape, SyncShape
<1>4. DumpTypes' /\ AdmTypes'
  BY <1>0, <1>1 DEF DumpTypes, AdmTypes, DumpShape, AdmShape
<1>5. Down' /\ Events' /\ VecParts' /\ InsThread'
  BY <1>0, <1>1 DEF Down, Events, VecParts, InsThread, IdleIns, IdleSync, IdleDump, IdleAdm, Up, KindOf
<1>6. SyncThread' /\ DumpThread'
  BY <1>0, <1>1 DEF SyncThread, DumpThread, IdleSync, KindOf, IdleDump, Dumping, DumpDay
<1>7. AdmThread' /\ Owners' /\ InsRec'
  BY <1>0, <1>1 DEF AdmThread, Owners, InsRec, IdleAdm, Removing, KindOf, Raced
<1>8. ServerTypes'
  BY <1>0, <1>1, TwoKinds, PartLifecycleAssumption DEF ServerTypes
<1>9. ASSUME NEW d \in Days, DayOK(d), InsOK(d), ~Raced(d)'
      PROVE  SameDay(d) /\ SameDump(d)
  BY <1>0, <1>1, TwoKinds, <1>9
    DEF SameDay, SameDump, DumpFirst, SamePart, DumpingDay, Dumping, DumpDay, RemovingDay, Removing, Entries,
        KindOf, Gone, Up
<1>10. ASSUME NEW d \in Days, ~Raced(d)'
      PROVE  DayOK(d)' /\ InsOK(d)'
  <2>1. DayOK(d) /\ InsOK(d) /\ ~Raced(d)
    BY <1>0, <1>1, <1>10 DEF DaysOK, Raced
  <2>2. CreateHasFile(d)'
    BY <1>0, <1>1, <1>10, <2>1 DEF InsOK, CreateHasFile, Gone, RemovingDay, Removing
  <2>3. RefIsKept(d)'
    BY <1>0, <1>1, <1>10, <2>1 DEF InsOK, RefIsKept, RemovingDay, Removing, DumpingDay, Dumping, DumpDay
  <2>4. DayOK(d)'
    BY <1>0, <1>9, <1>10, <2>1, DayFrame DEF Types
  <2> QED
    BY <2>2, <2>3, <2>4 DEF InsOK
<1>11. ASSUME NEW r \in Recs, Held(r)'
      PROVE  RecOK(r)'
  <2>0. r[1] \in Days
    BY PartLifecycleAssumption
  <2>1. Held(r) /\ RecOK(r) /\ DayOK(r[1]) /\ InsOK(r[1])
    BY <1>0, <1>1, TwoKinds, <1>11, <2>0 DEF RecsOK, DaysOK, Held, Raced
  <2>2. SameDay(r[1]) /\ SameDump(r[1])
    BY <1>9, <1>11, <2>0, <2>1 DEF Held
  <2>3. SameRec(r)
    BY <1>0, <1>1, TwoKinds, <1>11, <2>0, <2>1 DEF SameRec, SameKeeping, InFile, KindOf
  <2> QED
    BY <2>1, <2>2, <2>3, RecFrame
<1> QED
  BY <1>2, <1>3, <1>4, <1>5, <1>6, <1>7, <1>8, <1>10, <1>11 DEF IInv, Types, DaysOK, RecsOK

\* A request begins.
LEMMA InsertBeginKeeps ==
    ASSUME IInv, InsertBegin
    PROVE  IInv'
<1>0. /\ ServerTypes /\ PartTypes /\ DiskTypes /\ PastTypes /\ InsTypes /\ SyncTypes /\ DumpTypes /\ AdmTypes
      /\ Down /\ Events /\ VecParts /\ InsThread /\ SyncThread /\ DumpThread /\ AdmThread
      /\ Owners /\ DaysOK /\ InsRec /\ RecsOK
  BY DEF IInv, Types
<1>v. Up
  BY DEF InsertBegin
<1>1. /\ ins.pc = "idle"
      /\ ins'.pc = "next"
      /\ ins'.day = 0
      /\ ins'.part = 0
      /\ ins'.ref = 0
      /\ InsShape'
      /\ UNCHANGED <<server, now, parts, vec, cfg, files, log, syncer, dump, adm, dumpPartCode,
                     cancel, acked, late, gone, raced, crashes>>
  BY <1>0 DEF InsertBegin, InsStep, IdleIns, InsTypes, InsShape, disk, past, memory
<1>2. ServerTypes' /\ PartTypes' /\ DiskTypes' /\ PastTypes'
  BY <1>0, <1>1 DEF ServerTypes, PartTypes, DiskTypes, PastTypes, Part
<1>3. SyncTypes'
  BY <1>0, <1>1 DEF SyncTypes, SyncShape
<1>4. DumpTypes' /\ AdmTypes'
  BY <1>0, <1>1 DEF DumpTypes, AdmTypes, DumpShape, AdmShape
<1>5. Events' /\ VecParts'
  BY <1>0, <1>1 DEF Events, VecParts
<1>6. SyncThread' /\ DumpThread'
  BY <1>0, <1>1 DEF SyncThread, DumpThread, IdleSync, KindOf, IdleDump, Dumping, DumpDay
<1>7. AdmThread' /\ Owners'
  BY <1>0, <1>1 DEF AdmThread, Owners, IdleAdm, Removing, KindOf, Raced
<1>8. InsTypes'
  BY <1>0, <1>1, <1>v, TwoKinds DEF InsTypes, InsShape
<1>9. Down'
  BY <1>0, <1>1, <1>v, TwoKinds DEF Down, IdleIns, IdleSync, IdleDump, IdleAdm, Up
<1>10. InsThread'
  BY <1>0, <1>1, <1>v, TwoKinds DEF InsThread, IdleIns, KindOf
<1>11. InsRec'
  BY <1>0, <1>1, <1>v, TwoKinds DEF InsRec, InsThread, SyncThread, IdleSync
<1>12. ASSUME NEW d \in Days, DayOK(d), InsOK(d), ~Raced(d)'
      PROVE  SameDay(d) /\ SameDump(d)
  BY <1>0, <1>1, <1>v, TwoKinds, <1>12
    DEF SameDay, SameDump, DumpFirst, SamePart, DumpingDay, Dumping, DumpDay, RemovingDay, Removing, Entries,
        KindOf, Gone, Up
<1>13. ASSUME NEW d \in Days, ~Raced(d)'
      PROVE  DayOK(d)' /\ InsOK(d)'
  <2>1. DayOK(d) /\ InsOK(d) /\ ~Raced(d)
    BY <1>0, <1>1, <1>13 DEF DaysOK, Raced
  <2>2. CreateHasFile(d)'
    BY <1>0, <1>1, <1>v, <1>13, <2>1 DEF InsOK, CreateHasFile, Gone, RemovingDay, Removing
  <2>3. RefIsKept(d)'
    BY <1>0, <1>1, <1>v, <1>13, <2>1 DEF InsOK, RefIsKept, RemovingDay, Removing, DumpingDay, Dumping, DumpDay
  <2>4. DayOK(d)'
    BY <1>0, <1>12, <1>13, <2>1, DayFrame DEF Types
  <2> QED
    BY <2>2, <2>3, <2>4 DEF InsOK
<1>14. ASSUME NEW r \in Recs, Held(r)'
      PROVE  RecOK(r)'
  <2>0. r[1] \in Days
    BY PartLifecycleAssumption
  <2>1. Held(r) /\ RecOK(r) /\ DayOK(r[1]) /\ InsOK(r[1])
    BY <1>0, <1>1, <1>v, TwoKinds, <1>14, <2>0 DEF RecsOK, DaysOK, Held, Raced
  <2>2. SameDay(r[1]) /\ SameDump(r[1])
    BY <1>12, <1>14, <2>0, <2>1 DEF Held
  <2>3. SameRec(r)
    BY <1>0, <1>1, <1>v, TwoKinds, <1>14, <2>0, <2>1 DEF SameRec, SameKeeping, InFile, KindOf
  <2> QED
    BY <2>1, <2>2, <2>3, RecFrame
<1> QED
  BY <1>2, <1>3, <1>4, <1>5, <1>6, <1>7, <1>8, <1>9, <1>10, <1>11, <1>13, <1>14 DEF IInv, Types, DaysOK, RecsOK

\* The next record is for the day at hand: its part is used without a look at partVec_.
LEMMA NextRecSameKeeps ==
    ASSUME IInv, NEW x \in Recs, ins.pc = "next", x \notin log, x[1] = ins.day,
           InsStep([[ins EXCEPT !.rec = x] EXCEPT !.pc = "log"]),
           raced' = raced \cup (IF ins.ref = 0 THEN {<<"bare", ins.day>>} ELSE {}),
           UNCHANGED <<parts, vec, disk, acked, late, gone>>
    PROVE  IInv'
<1>0. /\ ServerTypes /\ PartTypes /\ DiskTypes /\ PastTypes /\ InsTypes /\ SyncTypes /\ DumpTypes /\ AdmTypes
      /\ Down /\ Events /\ VecParts /\ InsThread /\ SyncThread /\ DumpThread /\ AdmThread
      /\ Owners /\ DaysOK /\ InsRec /\ RecsOK
  BY DEF IInv, Types
<1>1. /\ ins.pc = "next"
      /\ x \notin log
      /\ x[1] = ins.day
      /\ ins'.pc = "log"
      /\ ins'.day = ins.day
      /\ ins'.part = ins.part
      /\ ins'.ref = ins.ref
      /\ ins'.rec = x
      /\ raced' = raced \cup (IF ins.ref = 0 THEN {<<"bare", ins.day>>} ELSE {})
      /\ ins.day \in Days
      /\ InsShape'
      /\ UNCHANGED <<server, now, parts, vec, cfg, files, log, syncer, dump, adm, dumpPartCode,
                     cancel, acked, late, gone, crashes>>
  BY <1>0, PartLifecycleAssumption DEF InsStep, InsTypes, InsShape, disk, past, memory
<1>u. Up
  BY <1>0, <1>1, BusyIsUp
<1>2. ServerTypes' /\ PartTypes' /\ DiskTypes'
  BY <1>0, <1>1 DEF ServerTypes, PartTypes, DiskTypes, Part
<1>3. SyncTypes'
  BY <1>0, <1>1 DEF SyncTypes, SyncShape
<1>4. DumpTypes' /\ AdmTypes'
  BY <1>0, <1>1 DEF DumpTypes, AdmTypes, DumpShape, AdmShape
<1>5. Events' /\ VecParts'
  BY <1>0, <1>1 DEF Events, VecParts
<1>6. SyncThread' /\ DumpThread'
  BY <1>0, <1>1 DEF SyncThread, DumpThread, IdleSync, KindOf, IdleDump, Dumping, DumpDay
<1>7. AdmThread'
  BY <1>0, <1>1 DEF AdmThread, IdleAdm, Removing, KindOf
<1>8. PastTypes'
  BY <1>0, <1>1, <1>u, TwoKinds DEF PastTypes
<1>9. InsTypes'
  BY <1>0, <1>1, <1>u, TwoKinds DEF InsTypes, InsShape
<1>10. Down'
  BY <1>0, <1>1, <1>u, TwoKinds DEF Down, IdleIns, IdleSync, IdleDump, IdleAdm, Up
<1>11. InsThread'
  BY <1>0, <1>1, <1>u, TwoKinds DEF InsThread, IdleIns, KindOf
<1>12. Owners'
  BY <1>0, <1>1, <1>u, TwoKinds DEF Owners, Raced
<1>13. InsRec'
  BY <1>0, <1>1, <1>u, TwoKinds DEF InsRec, InsThread, SyncThread, IdleSync
<1>14. ASSUME NEW d \in Days, DayOK(d), InsOK(d), ~Raced(d)'
      PROVE  SameDay(d) /\ SameDump(d)
  BY <1>0, <1>1, <1>u, TwoKinds, <1>14
    DEF SameDay, SameDump, DumpFirst, SamePart, DumpingDay, Dumping, DumpDay, RemovingDay, Removing, Entries,
        KindOf, Gone, Up
<1>15. ASSUME NEW d \in Days, ~Raced(d)'
      PROVE  DayOK(d)' /\ InsOK(d)'
  <2>1. DayOK(d) /\ InsOK(d) /\ ~Raced(d)
    BY <1>0, <1>1, <1>15 DEF DaysOK, Raced
  <2>2. CreateHasFile(d)'
    BY <1>0, <1>1, <1>u, <1>15, <2>1 DEF InsOK, CreateHasFile, Gone, RemovingDay, Removing
  <2>3. RefIsKept(d)'
    BY <1>0, <1>1, <1>u, <1>15, <2>1 DEF InsOK, RefIsKept, RemovingDay, Removing, DumpingDay, Dumping, DumpDay
  <2>4. DayOK(d)'
    BY <1>0, <1>14, <1>15, <2>1, DayFrame DEF Types
  <2> QED
    BY <2>2, <2>3, <2>4 DEF InsOK
<1>16. ASSUME NEW r \in Recs, Held(r)'
      PROVE  RecOK(r)'
  <2>0. r[1] \in Days
    BY PartLifecycleAssumption
  <2>1. Held(r) /\ RecOK(r) /\ DayOK(r[1]) /\ InsOK(r[1])
    BY <1>0, <1>1, <1>u, TwoKinds, <1>16, <2>0 DEF RecsOK, DaysOK, Held, Raced
  <2>2. SameDay(r[1]) /\ SameDump(r[1])
    BY <1>14, <1>16, <2>0, <2>1 DEF Held
  <2>3. SameRec(r)
    BY <1>0, <1>1, <1>u, TwoKinds, <1>16, <2>0, <2>1 DEF SameRec, SameKeeping, InFile, KindOf
  <2> QED
    BY <2>1, <2>2, <2>3, RecFrame
<1> QED
  BY <1>2, <1>3, <1>4, <1>5, <1>6, <1>7, <1>8, <1>9, <1>10, <1>11, <1>12, <1>13, <1>15, <1>16
    DEF IInv, Types, DaysOK, RecsOK

\* The next record is for another day, whose part is in partVec_ and gets a reference.
LEMMA NextRecFoundKeeps ==
    ASSUME IInv, NEW x \in Recs, ins.pc = "next", x \notin log, vec[x[1]] # 0, parts[vec[x[1]]].kind = "normal",
           InsStep([[ins EXCEPT !.rec = x] EXCEPT !.pc = "log", !.day = x[1], !.part = vec[x[1]], !.ref = vec[x[1]]]),
           UNCHANGED <<parts, vec, disk, past>>
    PROVE  IInv'
<1>0. /\ ServerTypes /\ PartTypes /\ DiskTypes /\ PastTypes /\ InsTypes /\ SyncTypes /\ DumpTypes /\ AdmTypes
      /\ Down /\ Events /\ VecParts /\ InsThread /\ SyncThread /\ DumpThread /\ AdmThread
      /\ Owners /\ DaysOK /\ InsRec /\ RecsOK
  BY DEF IInv, Types
<1>1. /\ ins.pc = "next"
      /\ x \notin log
      /\ x[1] \in Days
      /\ vec[x[1]] # 0
      /\ vec[x[1]] \in 0 .. Len(parts)
      /\ KindOf(vec[x[1]]) = "normal"
      /\ ins'.pc = "log"
      /\ ins'.day = x[1]
      /\ ins'.part = vec[x[1]]
      /\ ins'.ref = vec[x[1]]
      /\ ins'.rec = x
      /\ InsShape'
      /\ UNCHANGED <<server, now, parts, vec, cfg, files, log, syncer, dump, adm, dumpPartCode,
                     cancel, acked, late, gone, raced, crashes>>
  BY <1>0, PartLifecycleAssumption DEF InsStep, KindOf, PartTypes, InsTypes, InsShape, disk, past, memory
<1>u. Up
  BY <1>0, <1>1, BusyIsUp
<1>2. ServerTypes' /\ PartTypes' /\ DiskTypes' /\ PastTypes'
  BY <1>0, <1>1 DEF ServerTypes, PartTypes, DiskTypes, PastTypes, Part
<1>3. SyncTypes'
  BY <1>0, <1>1 DEF SyncTypes, SyncShape
<1>4. DumpTypes' /\ AdmTypes'
  BY <1>0, <1>1 DEF DumpTypes, AdmTypes, DumpShape, AdmShape
<1>5. Events' /\ VecParts'
  BY <1>0, <1>1 DEF Events, VecParts
<1>6. SyncThread' /\ DumpThread'
  BY <1>0, <1>1 DEF SyncThread, DumpThread, IdleSync, KindOf, IdleDump, Dumping, DumpDay
<1>7. AdmThread' /\ Owners'
  BY <1>0, <1>1 DEF AdmThread, Owners, IdleAdm, Removing, KindOf, Raced
<1>8. InsTypes'
  BY <1>0, <1>1, <1>u, TwoKinds DEF InsTypes, InsShape
<1>9. Down'
  BY <1>0, <1>1, <1>u, TwoKinds DEF Down, IdleIns, IdleSync, IdleDump, IdleAdm, Up
<1>10. InsThread'
  BY <1>0, <1>1, <1>u, TwoKinds DEF InsThread, IdleIns, KindOf, VecParts
<1>11. InsRec'
  BY <1>0, <1>1, <1>u, TwoKinds DEF InsRec, InsThread, SyncThread, IdleSync
<1>12. ASSUME NEW d \in Days, DayOK(d), InsOK(d), ~Raced(d)'
      PROVE  SameDay(d) /\ SameDump(d)
  BY <1>0, <1>1, <1>u, TwoKinds, <1>12
    DEF SameDay, SameDump, DumpFirst, SamePart, DumpingDay, Dumping, DumpDay, RemovingDay, Removing, Entries,
        KindOf, Gone, Up
<1>13. ASSUME NEW d \in Days, ~Raced(d)'
      PROVE  DayOK(d)' /\ InsOK(d)'
  <2>1. DayOK(d) /\ InsOK(d) /\ ~Raced(d)
    BY <1>0, <1>1, <1>13 DEF DaysOK, Raced
  <2>2. CreateHasFile(d)'
    BY <1>0, <1>1, <1>u, <1>13, <2>1 DEF InsOK, CreateHasFile, Gone, RemovingDay, Removing
  <2>3. RefIsKept(d)'
    BY <1>0, <1>1, <1>u, <1>13, <2>1 DEF InsOK, RefIsKept, RemovingDay, Removing, DumpingDay, Dumping, DumpDay
  <2>4. DayOK(d)'
    BY <1>0, <1>12, <1>13, <2>1, DayFrame DEF Types
  <2> QED
    BY <2>2, <2>3, <2>4 DEF InsOK
<1>14. ASSUME NEW r \in Recs, Held(r)'
      PROVE  RecOK(r)'
  <2>0. r[1] \in Days
    BY PartLifecycleAssumption
  <2>1. Held(r) /\ RecOK(r) /\ DayOK(r[1]) /\ InsOK(r[1])
    BY <1>0, <1>1, <1>u, TwoKinds, <1>14, <2>0 DEF RecsOK, DaysOK, Held, Raced
  <2>2. SameDay(r[1]) /\ SameDump(r[1])
    BY <1>12, <1>14, <2>0, <2>1 DEF Held
  <2>3. SameRec(r)
    BY <1>0, <1>1, <1>u, TwoKinds, <1>14, <2>0, <2>1 DEF SameRec, SameKeeping, InFile, KindOf
  <2> QED
    BY <2>1, <2>2, <2>3, RecFrame
<1> QED
  BY <1>2, <1>3, <1>4, <1>5, <1>6, <1>7, <1>8, <1>9, <1>10, <1>11, <1>13, <1>14 DEF IInv, Types, DaysOK, RecsOK

\* The next record is for a day without a part and without a file: its file is made.
LEMMA NextRecCreatesKeeps ==
    ASSUME IInv, NEW x \in Recs, ins.pc = "next", x \notin log, vec[x[1]] = 0, files["normal"][x[1]] = NoFile, Len(parts) < MaxParts,
           files' = [files EXCEPT !["normal"][x[1]] = {}],
           InsStep([[ins EXCEPT !.rec = x] EXCEPT !.pc = "create", !.day = x[1], !.part = 0, !.ref = 0]),
           UNCHANGED <<parts, vec, cfg, log, past>>
    PROVE  IInv'
<1>0. /\ ServerTypes /\ PartTypes /\ DiskTypes /\ PastTypes /\ InsTypes /\ SyncTypes /\ DumpTypes /\ AdmTypes
      /\ Down /\ Events /\ VecParts /\ InsThread /\ SyncThread /\ DumpThread /\ AdmThread
      /\ Owners /\ DaysOK /\ InsRec /\ RecsOK
  BY DEF IInv, Types
<1>f. /\ x[1] \in Days /\ NoFile # {} /\ files["normal"][x[1]] = NoFile /\ files'["normal"][x[1]] = {}
      /\ \A k \in Kinds, d \in Days : k # "normal" \/ d # x[1] => files'[k][d] = files[k][d]
      /\ files' \in [Kinds -> [Days -> {NoFile} \cup SUBSET Recs]]
  <2>1. "normal" \in Kinds /\ {} \in {NoFile} \cup SUBSET Recs /\ x[1] \in Days
    BY Constants
  <2>2. /\ files' \in [Kinds -> [Days -> {NoFile} \cup SUBSET Recs]] /\ files'["normal"][x[1]] = {}
        /\ \A k \in Kinds, d \in Days : k # "normal" \/ d # x[1] => files'[k][d] = files[k][d]
    BY <1>0, <2>1 DEF DiskTypes
  <2>3. NoFile # {}
    BY Constants
  <2> QED
    BY <2>1, <2>2, <2>3
<1>1. /\ ins.pc = "next"
      /\ x \notin log
      /\ vec[x[1]] = 0
      /\ Len(parts) < MaxParts
      /\ ins'.pc = "create"
      /\ ins'.day = x[1]
      /\ ins'.part = 0
      /\ ins'.ref = 0
      /\ ins'.rec = x
      /\ InsShape'
      /\ UNCHANGED <<server, now, parts, vec, cfg, log, syncer, dump, adm, dumpPartCode, cancel,
                     acked, late, gone, raced, crashes>>
  BY <1>0 DEF InsStep, InsTypes, InsShape, disk, past, memory
<1>u. Up
  BY <1>0, <1>1, BusyIsUp
<1>2. ServerTypes' /\ PartTypes' /\ PastTypes'
  BY <1>0, <1>1 DEF ServerTypes, PartTypes, PastTypes, Part
<1>3. SyncTypes'
  BY <1>0, <1>1 DEF SyncTypes, SyncShape
<1>4. DumpTypes' /\ AdmTypes'
  BY <1>0, <1>1 DEF DumpTypes, AdmTypes, DumpShape, AdmShape
<1>5. Events' /\ VecParts'
  BY <1>0, <1>1 DEF Events, VecParts
<1>6. SyncThread' /\ DumpThread'
  BY <1>0, <1>1 DEF SyncThread, DumpThread, IdleSync, KindOf, IdleDump, Dumping, DumpDay
<1>7. AdmThread' /\ Owners'
  BY <1>0, <1>1 DEF AdmThread, Owners, IdleAdm, Removing, KindOf, Raced
<1>8. DiskTypes'
  BY <1>0, <1>1, <1>u, <1>f, TwoKinds DEF DiskTypes, InsThread
<1>9. InsTypes'
  BY <1>0, <1>1, <1>u, <1>f, TwoKinds DEF InsTypes, InsShape
<1>10. Down'
  BY <1>0, <1>1, <1>u, <1>f, TwoKinds DEF Down, IdleIns, IdleSync, IdleDump, IdleAdm, Up
<1>11. InsThread'
  BY <1>0, <1>1, <1>u, <1>f, TwoKinds DEF InsThread, IdleIns, KindOf
<1>12. InsRec'
  BY <1>0, <1>1, <1>u, <1>f, TwoKinds DEF InsRec, InsThread, SyncThread, IdleSync
<1>13. ASSUME NEW d \in Days, DayOK(d), InsOK(d), ~Raced(d)'
      PROVE  SameDay(d) /\ SameDump(d)
  BY <1>0, <1>1, <1>u, <1>f, TwoKinds, <1>13
    DEF SameDay, SameDump, DumpFirst, SamePart, DumpingDay, Dumping, DumpDay, RemovingDay, Removing, Entries,
        KindOf, Gone, Up
<1>14. ASSUME NEW d \in Days, ~Raced(d)'
      PROVE  DayOK(d)' /\ InsOK(d)'
  <2>1. DayOK(d) /\ InsOK(d) /\ ~Raced(d)
    BY <1>0, <1>1, <1>14 DEF DaysOK, Raced
  <2>2. CreateHasFile(d)'
    BY <1>0, <1>1, <1>u, <1>f, <1>14, <2>1 DEF InsOK, CreateHasFile, Gone, RemovingDay, Removing
  <2>3. RefIsKept(d)'
    BY <1>0, <1>1, <1>u, <1>f, <1>14, <2>1
      DEF InsOK, RefIsKept, RemovingDay, Removing, DumpingDay, Dumping, DumpDay
  <2>4. DayOK(d)'
    BY <1>0, <1>13, <1>14, <2>1, DayFrame DEF Types
  <2> QED
    BY <2>2, <2>3, <2>4 DEF InsOK
<1>15. ASSUME NEW r \in Recs, Held(r)'
      PROVE  RecOK(r)'
  <2>0. r[1] \in Days
    BY PartLifecycleAssumption
  <2>1. Held(r) /\ RecOK(r) /\ DayOK(r[1]) /\ InsOK(r[1])
    BY <1>0, <1>1, <1>u, <1>f, TwoKinds, <1>15, <2>0 DEF RecsOK, DaysOK, Held, Raced
  <2>2. SameDay(r[1]) /\ SameDump(r[1])
    BY <1>13, <1>15, <2>0, <2>1 DEF Held
  <2>3. SameRec(r)
    BY <1>0, <1>1, <1>u, <1>f, TwoKinds, <1>15, <2>0, <2>1 DEF SameRec, SameKeeping, InFile, KindOf
  <2> QED
    BY <2>1, <2>2, <2>3, RecFrame
<1> QED
  BY <1>2, <1>3, <1>4, <1>5, <1>6, <1>7, <1>8, <1>9, <1>10, <1>11, <1>12, <1>14, <1>15
    DEF IInv, Types, DaysOK, RecsOK

\* The request gives up its reference and goes on.
LEMMA NextRecFailsKeeps ==
    ASSUME IInv, NextRecFails
    PROVE  IInv'
<1>0. /\ ServerTypes /\ PartTypes /\ DiskTypes /\ PastTypes /\ InsTypes /\ SyncTypes /\ DumpTypes /\ AdmTypes
      /\ Down /\ Events /\ VecParts /\ InsThread /\ SyncThread /\ DumpThread /\ AdmThread
      /\ Owners /\ DaysOK /\ InsRec /\ RecsOK
  BY DEF IInv, Types
<1>1. /\ ins.pc = "next"
      /\ ins'.pc = "next"
      /\ ins'.day = ins.day
      /\ ins'.part = ins.part
      /\ ins'.ref = 0
      /\ InsShape'
      /\ UNCHANGED <<server, now, parts, vec, cfg, files, log, syncer, dump, adm, dumpPartCode,
                     cancel, acked, late, gone, raced, crashes>>
  BY <1>0 DEF NextRecFails, InsStep, InsTypes, InsShape, disk, past, memory
<1>u. Up
  BY <1>0, <1>1, BusyIsUp
<1>2. ServerTypes' /\ PartTypes' /\ DiskTypes' /\ PastTypes'
  BY <1>0, <1>1 DEF ServerTypes, PartTypes, DiskTypes, PastTypes, Part
<1>3. SyncTypes'
  BY <1>0, <1>1 DEF SyncTypes, SyncShape
<1>4. DumpTypes' /\ AdmTypes'
  BY <1>0, <1>1 DEF DumpTypes, AdmTypes, DumpShape, AdmShape
<1>5. Events' /\ VecParts'
  BY <1>0, <1>1 DEF Events, VecParts
<1>6. SyncThread' /\ DumpThread'
  BY <1>0, <1>1 DEF SyncThread, DumpThread, IdleSync, KindOf, IdleDump, Dumping, DumpDay
<1>7. AdmThread' /\ Owners'
  BY <1>0, <1>1 DEF AdmThread, Owners, IdleAdm, Removing, KindOf, Raced
<1>8. InsTypes'
  BY <1>0, <1>1, <1>u, TwoKinds DEF InsTypes, InsShape
<1>9. Down'
  BY <1>0, <1>1, <1>u, TwoKinds DEF Down, IdleIns, IdleSync, IdleDump, IdleAdm, Up
<1>10. InsThread'
  BY <1>0, <1>1, <1>u, TwoKinds DEF InsThread, IdleIns, KindOf
<1>11. InsRec'
  BY <1>0, <1>1, <1>u, TwoKinds DEF InsRec, InsThread, SyncThread, IdleSync
<1>12. ASSUME NEW d \in Days, DayOK(d), InsOK(d), ~Raced(d)'
      PROVE  SameDay(d) /\ SameDump(d)
  BY <1>0, <1>1, <1>u, TwoKinds, <1>12
    DEF SameDay, SameDump, DumpFirst, SamePart, DumpingDay, Dumping, DumpDay, RemovingDay, Removing, Entries,
        KindOf, Gone, Up
<1>13. ASSUME NEW d \in Days, ~Raced(d)'
      PROVE  DayOK(d)' /\ InsOK(d)'
  <2>1. DayOK(d) /\ InsOK(d) /\ ~Raced(d)
    BY <1>0, <1>1, <1>13 DEF DaysOK, Raced
  <2>2. CreateHasFile(d)'
    BY <1>0, <1>1, <1>u, <1>13, <2>1 DEF InsOK, CreateHasFile, Gone, RemovingDay, Removing
  <2>3. RefIsKept(d)'
    BY <1>0, <1>1, <1>u, <1>13, <2>1 DEF InsOK, RefIsKept, RemovingDay, Removing, DumpingDay, Dumping, DumpDay
  <2>4. DayOK(d)'
    BY <1>0, <1>12, <1>13, <2>1, DayFrame DEF Types
  <2> QED
    BY <2>2, <2>3, <2>4 DEF InsOK
<1>14. ASSUME NEW r \in Recs, Held(r)'
      PROVE  RecOK(r)'
  <2>0. r[1] \in Days
    BY PartLifecycleAssumption
  <2>1. Held(r) /\ RecOK(r) /\ DayOK(r[1]) /\ InsOK(r[1])
    BY <1>0, <1>1, <1>u, TwoKinds, <1>14, <2>0 DEF RecsOK, DaysOK, Held, Raced
  <2>2. SameDay(r[1]) /\ SameDump(r[1])
    BY <1>12, <1>14, <2>0, <2>1 DEF Held
  <2>3. SameRec(r)
    BY <1>0, <1>1, <1>u, TwoKinds, <1>14, <2>0, <2>1 DEF SameRec, SameKeeping, InFile, KindOf
  <2> QED
    BY <2>1, <2>2, <2>3, RecFrame
<1> QED
  BY <1>2, <1>3, <1>4, <1>5, <1>6, <1>7, <1>8, <1>9, <1>10, <1>11, <1>13, <1>14 DEF IInv, Types, DaysOK, RecsOK

\* The new part comes into partVec_ and table.json: the day was raced if it was taken out meanwhile.
LEMMA CreatePartKeeps ==
    ASSUME IInv, CreatePart
    PROVE  IInv'
<1>0. /\ ServerTypes /\ PartTypes /\ DiskTypes /\ PastTypes /\ InsTypes /\ SyncTypes /\ DumpTypes /\ AdmTypes
      /\ Down /\ Events /\ VecParts /\ InsThread /\ SyncThread /\ DumpThread /\ AdmThread
      /\ Owners /\ DaysOK /\ InsRec /\ RecsOK
  BY DEF IInv, Types
<1>b. Ranged
  BY <1>0, Ranges DEF Types
<1>c. ins.day \in Days /\ vec[ins.day] = 0 /\ Len(parts) < MaxParts /\ ins.part = 0
  BY <1>0, Constants DEF CreatePart, InsThread
<1>r. /\ NormalPartOf(ins.day, {}) \in Part /\ ins.day \in Days /\ Len(parts) < MaxParts
      /\ parts' = Append(parts, NormalPartOf(ins.day, {}))
      /\ vec' \in [Days -> 0 .. Len(parts) + 1] /\ vec'[ins.day] = Len(parts) + 1
      /\ \A d \in Days : d # ins.day => vec'[d] = vec[d]
  <2>1. NormalPartOf(ins.day, {}) \in Part
    BY <1>c, Constants DEF NormalPartOf, Part
  <2>2. vec' = [vec EXCEPT ![ins.day] = Len(parts) + 1] /\ vec \in [Days -> 0 .. Len(parts)] /\ Len(parts) \in Nat
    BY <1>0, <1>b DEF CreatePart, PartTypes, Ranged
  <2>3. /\ vec' \in [Days -> 0 .. Len(parts) + 1] /\ vec'[ins.day] = Len(parts) + 1
        /\ \A d \in Days : d # ins.day => vec'[d] = vec[d]
    BY <1>c, <2>2
  <2> QED
    BY <1>c, <2>1, <2>3 DEF CreatePart
<1>p. PICK n : /\ n = Len(parts) + 1 /\ Len(parts') = n /\ n \notin 0 .. Len(parts) /\ n \in 1 .. Len(parts')
               /\ \A i : i \in 1 .. Len(parts') <=> i \in 1 .. Len(parts) \/ i = n
               /\ PartTypes' /\ parts'[n] = NormalPartOf(ins.day, {})
               /\ \A p \in 1 .. Len(parts) : parts'[p] = parts[p]
               /\ vec'[ins.day] = n /\ \A d \in Days : d # ins.day => vec'[d] = vec[d]
  BY <1>0, <1>r, PartAdded
<1>q. /\ n # 0 /\ n \in 0 .. Len(parts') /\ ins.part \in 0 .. Len(parts') /\ ins.ref \in 0 .. Len(parts')
      /\ syncer.ref \in 0 .. Len(parts') /\ dump.ref \in 0 .. Len(parts') /\ dump.part \in 0 .. Len(parts')
      /\ adm.part \in 0 .. Len(parts')
  BY <1>b, <1>p DEF Ranged
<1>g. /\ n # 0 /\ vec'[ins.day] = n
      /\ parts'[n].day = ins.day
      /\ parts'[n].kind = "normal"
      /\ parts'[n].ro = FALSE
      /\ parts'[n].recs = {}
      /\ parts'[n].freed = 0
      /\ \A d \in Days : d # ins.day => vec'[d] = vec[d] /\ (vec[d] # 0 => parts'[vec[d]] = parts[vec[d]])
      /\ \A d \in Days : vec[d] # n
      /\ dump.part # 0 => parts[dump.part].day \in Days
      /\ adm.part # 0 => adm.day \in Days /\ parts[adm.part].day \in Days
      /\ ins.part # n /\ (ins.part # 0 => parts'[ins.part] = parts[ins.part])
      /\ ins.ref # n /\ (ins.ref # 0 => parts'[ins.ref] = parts[ins.ref])
      /\ syncer.ref # n /\ (syncer.ref # 0 => parts'[syncer.ref] = parts[syncer.ref])
      /\ dump.part # n /\ (dump.part # 0 => parts'[dump.part] = parts[dump.part])
      /\ dump.ref # n /\ (dump.ref # 0 => parts'[dump.ref] = parts[dump.ref])
      /\ adm.part # n /\ (adm.part # 0 => parts'[adm.part] = parts[adm.part])
  <2>1. /\ vec'[ins.day] = n
        /\ parts'[n].day = ins.day
        /\ parts'[n].kind = "normal"
        /\ parts'[n].ro = FALSE
        /\ parts'[n].recs = {}
        /\ parts'[n].freed = 0
    BY <1>p DEF NormalPartOf, CompPartOf
  <2>2. /\ \A d \in Days : d # ins.day => vec'[d] = vec[d] /\ (vec[d] # 0 => parts'[vec[d]] = parts[vec[d]])
        /\ \A d \in Days : vec[d] # n
    BY <1>b, <1>p DEF Ranged
  <2>3. /\ dump.part # 0 => parts[dump.part].day \in Days
        /\ adm.part # 0 => adm.day \in Days /\ parts[adm.part].day \in Days
    BY <1>0, <1>b DEF Ranged, AdmThread
  <2>4. /\ ins.part # n /\ (ins.part # 0 => parts'[ins.part] = parts[ins.part])
        /\ ins.ref # n /\ (ins.ref # 0 => parts'[ins.ref] = parts[ins.ref])
        /\ syncer.ref # n /\ (syncer.ref # 0 => parts'[syncer.ref] = parts[syncer.ref])
        /\ dump.part # n /\ (dump.part # 0 => parts'[dump.part] = parts[dump.part])
        /\ dump.ref # n /\ (dump.ref # 0 => parts'[dump.ref] = parts[dump.ref])
        /\ adm.part # n /\ (adm.part # 0 => parts'[adm.part] = parts[adm.part])
    BY <1>b, <1>p DEF Ranged
  <2> QED
    BY <1>q, <2>1, <2>2, <2>3, <2>4
<1>1. /\ ins.pc = "create"
      /\ ins.part = 0
      /\ ins.ref = 0
      /\ cfg' = cfg \cup {<<ins.day, "normal">>}
      /\ raced' = raced \cup (IF Gone(ins.day) \/ (adm.part # 0 /\ adm.day = ins.day) THEN {<<"window", ins.day>>} ELSE {})
      /\ ins'.pc = "log"
      /\ ins'.day = ins.day
      /\ ins'.part = n
      /\ ins'.ref = n
      /\ ins'.rec = ins.rec
      /\ InsShape'
      /\ UNCHANGED <<server, now, files, log, syncer, dump, adm, dumpPartCode, cancel, acked, late,
                     gone, crashes>>
  BY <1>0, <1>p DEF CreatePart, InsStep, InsThread, InsTypes, InsShape, disk, past, memory
<1>u. Up
  BY <1>0, <1>1, BusyIsUp
<1>2. ServerTypes'
  BY <1>0, <1>1 DEF ServerTypes
<1>3. Events'
  BY <1>0, <1>1 DEF Events
<1>4. PartTypes'
  BY <1>p
<1>5. DiskTypes'
  BY <1>0, <1>1, <1>u, <1>c, <1>g, TwoKinds DEF DiskTypes, InsThread
<1>6. PastTypes'
  BY <1>0, <1>1, <1>u, <1>c, <1>g, TwoKinds DEF PastTypes
<1>7. InsTypes'
  BY <1>0, <1>1, <1>u, <1>c, <1>g, TwoKinds, <1>q DEF InsTypes, InsShape
<1>8. SyncTypes'
  BY <1>0, <1>1, <1>u, <1>c, <1>g, TwoKinds, <1>q DEF SyncTypes, SyncShape
<1>9. DumpTypes'
  BY <1>0, <1>1, <1>u, <1>c, <1>g, TwoKinds, <1>q DEF DumpTypes, DumpShape
<1>10. AdmTypes'
  BY <1>0, <1>1, <1>u, <1>c, <1>g, TwoKinds, <1>q DEF AdmTypes, AdmShape
<1>11. Down'
  BY <1>0, <1>1, <1>u, <1>c, <1>g, TwoKinds DEF Down, IdleIns, IdleSync, IdleDump, IdleAdm, Up
<1>12. VecParts'
  BY <1>0, <1>1, <1>u, <1>c, <1>g, TwoKinds DEF VecParts
<1>13. InsThread'
  BY <1>0, <1>1, <1>u, <1>c, <1>g, TwoKinds DEF InsThread, IdleIns, KindOf
<1>14. SyncThread'
  BY <1>0, <1>1, <1>u, <1>c, <1>g, TwoKinds DEF SyncThread, IdleSync, KindOf
<1>15. DumpThread'
  <2>1. Dumping' <=> Dumping
    BY <1>1 DEF Dumping
  <2>2. dump.part # 0 => DumpDay' = DumpDay /\ KindOf(dump.part)' = KindOf(dump.part) /\ parts'[dump.part].ro = parts[dump.part].ro
    BY <1>1, <1>g DEF DumpDay, KindOf
  <2>3. dump.part # 0 /\ vec[DumpDay] # dump.part => vec'[DumpDay] # dump.part
    BY <1>g DEF DumpDay
  <2>4. dump'.pc = "idle" => dump' = IdleDump
    BY <1>0, <1>1 DEF DumpThread
  <2>5. dump'.ref # 0 => parts'[dump'.ref].freed = 0
    BY <1>0, <1>1, <1>g DEF DumpThread
  <2>6. (dump'.part # 0 <=> Dumping') /\ (Dumping' => KindOf(dump.part)' = "normal" /\ parts'[dump'.part].ro)
    BY <1>0, <1>1, <2>1, <2>2 DEF DumpThread
  <2>7. /\ Dumping' /\ dump'.pc # "wait" => dump'.ref = dump'.part
        /\ dump'.pc = "wait" => vec'[DumpDay'] # dump'.part
    BY <1>0, <1>1, <2>1, <2>2, <2>3 DEF DumpThread, Dumping
  <2>8. dumpPartCode' = IF Dumping' /\ dump'.pc # "mark" THEN DumpDay' ELSE 0
    BY <1>0, <1>1, <2>1, <2>2 DEF DumpThread
  <2> QED
    BY <2>4, <2>5, <2>6, <2>7, <2>8, Zenon DEF DumpThread, IdleDump, KindOf
<1>16. AdmThread'
  BY <1>0, <1>1, <1>u, <1>c, <1>g, TwoKinds DEF AdmThread, IdleAdm, Removing, KindOf
<1>17. Owners'
  BY <1>0, <1>1, <1>p, <1>g DEF Owners, Raced
<1>18. InsRec'
  BY <1>0, <1>1, <1>u, <1>c, <1>g, TwoKinds DEF InsRec, InsThread, SyncThread, IdleSync
<1>19. ASSUME NEW d \in Days, DayOK(d), InsOK(d), ~Raced(d)', d # ins.day
      PROVE  SameDay(d) /\ SameDump(d)
  BY <1>0, <1>1, <1>u, <1>c, <1>g, TwoKinds, <1>19
    DEF SameDay, SameDump, DumpFirst, SamePart, DumpingDay, Dumping, DumpDay, RemovingDay, Removing, Entries,
        KindOf, Gone, Up, DumpThread, AdmThread
<1>20. ASSUME NEW d \in Days, ~Raced(d)'
      PROVE  DayOK(d)' /\ InsOK(d)'
  <2>1. DayOK(d) /\ InsOK(d) /\ ~Raced(d)
    BY <1>0, <1>1, <1>20 DEF DaysOK, Raced
  <2>2. CreateHasFile(d)'
    BY <1>1 DEF CreateHasFile
  <2>3. RefIsKept(d)'
    BY <1>1, <1>g DEF RefIsKept
  <2>4. DayOK(d)'
    <3>1. CASE d # ins.day
      BY <1>0, <1>19, <1>20, <2>1, <3>1, DayFrame DEF Types
    <3>2. CASE d = ins.day
      <4>0. /\ ~Gone(d) /\ ~RemovingDay(d) /\ Entries(d) = {} /\ vec[d] = 0 /\ files["normal"][d] # NoFile
          /\ ~DumpingDay(d) /\ ~(adm.pc = "add" /\ adm.day = d)
          /\ Entries(d)' = {"normal"} /\ vec'[d] = n /\ ~DumpingDay(d)'
        <5>1. ~Gone(d) /\ ~RemovingDay(d)
          BY <1>0, <1>1, <1>u, <1>c, <1>g, TwoKinds, <1>20, <2>1, <3>2 DEF Raced, RemovingDay, AdmThread
        <5>2. Entries(d) = {}
          BY <1>c, <5>1, <1>0, <1>1, <1>u, <1>g, TwoKinds, <1>20, <2>1, <3>2
            DEF DayOK, OutNoEntry, RemovingDay, Removing
        <5>3. files["normal"][d] # NoFile
          BY <5>1, <1>0, <1>1, <1>u, <1>c, <1>g, TwoKinds, <1>20, <2>1, <3>2 DEF InsOK, CreateHasFile
        <5>4. ~DumpingDay(d)
          <6>1. DumpingDay(d) => dump.part # 0
            BY <1>0 DEF DumpThread, DumpingDay
          <6> QED
            BY <1>c, <5>2, <6>1, <1>0, <1>1, <1>u, <1>g, TwoKinds, <1>20, <2>1, <3>2
              DEF DayOK, DumpHasVec, WaitHasComp
        <5>5. ~(adm.pc = "add" /\ adm.day = d)
          BY <1>c, <1>0, <1>1, <1>u, <1>g, TwoKinds, <1>20, <2>1, <3>2 DEF DayOK, AddHasPart
        <5>6. Entries(d)' = {"normal"}
          BY <5>2, Constants, <1>0, <1>1, <1>u, <1>c, <1>g, TwoKinds, <1>20, <2>1, <3>2 DEF Entries
        <5>7. ~DumpingDay(d)'
          BY <1>0, <5>4, <1>1, <1>u, <1>c, <1>g, TwoKinds, <1>20, <2>1, <3>2
            DEF DumpingDay, Dumping, DumpDay, DumpThread
        <5> QED
          BY <1>c, <5>1, <5>2, <5>3, <5>4, <5>5, <5>6, <5>7, <1>0, <1>1, <1>u, <1>g, TwoKinds, <1>20, <2>1, <3>2
      <4>1. DumpHasVec(d)'
        BY <1>0, <1>1, <1>u, <1>c, <1>g, <1>20, <2>1, <3>2, <4>0
          DEF DayOK, DumpHasVec, DumpingDay, Dumping, DumpDay
      <4>2. RemovedIsOut(d)'
        BY <1>0, <1>1, <1>u, <1>c, <1>g, <1>20, <2>1, <3>2, <4>0 DEF DayOK, RemovedIsOut, RemovingDay, Removing
      <4>3. WaitHasComp(d)'
        BY <1>0, <1>1, <1>u, <1>c, <1>g, <1>20, <2>1, <3>2, <4>0
          DEF DayOK, WaitHasComp, DumpingDay, Dumping, DumpDay, Entries, KindOf
      <4>4. DumpMadeFile(d)'
        BY <1>0, <1>1, <1>u, <1>c, <1>g, <1>20, <2>1, <3>2, <4>0
          DEF DayOK, DumpMadeFile, DumpingDay, Dumping, DumpDay, Entries
      <4>5. OneEntry(d)'
        BY <1>0, <1>1, <1>u, <1>c, <1>g, <1>20, <2>1, <3>2, <4>0 DEF DayOK, OneEntry, Entries
      <4>6. RefsNoEntry(d)'
        BY <1>0, <1>1, <1>u, <1>c, <1>g, TwoKinds, <1>20, <2>1, <3>2, <4>0
          DEF DayOK, RefsNoEntry, DumpingDay, Dumping, DumpDay, RemovingDay, Removing, Entries, KindOf, Gone, Up
      <4>7. OutNoEntry(d)'
        BY <1>0, <1>1, <1>u, <1>c, <1>g, <1>20, <2>1, <3>2, <4>0 DEF DayOK, OutNoEntry, Up, Entries
      <4>8. GoneIsOut(d)'
        BY <1>0, <1>1, <1>u, <1>c, <1>g, <1>20, <2>1, <3>2, <4>0 DEF DayOK, GoneIsOut, Gone, Entries
      <4>9. AddHasPart(d)'
        BY <1>0, <1>1, <1>u, <1>c, <1>g, <1>20, <2>1, <3>2, <4>0 DEF DayOK, AddHasPart, Entries, KindOf
      <4>10. PartHasFile(d)'
        BY <1>1, <1>g, <3>2, <4>0 DEF PartHasFile, KindOf, RemovingDay, Removing
      <4>11. EntryIsPart(d)'
        BY <1>0, <1>1, <1>u, <1>c, <1>g, <1>20, <2>1, <3>2, <4>0
          DEF DayOK, EntryIsPart, Entries, KindOf, RemovingDay, Removing
      <4> QED
        BY <4>1, <4>2, <4>3, <4>4, <4>5, <4>6, <4>7, <4>8, <4>9, <4>10, <4>11 DEF DayOK
    <3> QED
      BY <3>1, <3>2
  <2> QED
    BY <2>2, <2>3, <2>4 DEF InsOK
<1>21. ASSUME NEW r \in Recs, Held(r)'
      PROVE  RecOK(r)'
  <2>0. r[1] \in Days
    BY PartLifecycleAssumption
  <2>a. CASE ~(r[1] = ins.day)
    <3>1. Held(r) /\ RecOK(r) /\ DayOK(r[1]) /\ InsOK(r[1])
      BY <1>0, <1>1, <1>u, <1>c, <1>g, TwoKinds, <1>21, <2>0, <2>a DEF RecsOK, DaysOK, Held, Raced
    <3>2. SameDay(r[1]) /\ SameDump(r[1])
      BY <1>19, <1>21, <2>0, <3>1, <2>a DEF Held
    <3>3. SameRec(r)
      BY <1>0, <1>1, <1>u, <1>c, <1>g, TwoKinds, <1>21, <2>0, <3>1, <2>a
        DEF SameRec, SameKeeping, InFile, KindOf, AdmThread, RemovingDay
    <3> QED
      BY <3>1, <3>2, <3>3, RecFrame
  <2>b. CASE r[1] = ins.day
    <3>1. Held(r) /\ RecOK(r)
      BY <1>0, <1>1, <1>u, <1>c, <1>g, TwoKinds, <1>21, <2>0, <2>b DEF RecsOK, Held, Raced
    <3>2. ~Gone(r[1]) /\ ~RemovingDay(r[1])
      BY <1>0, <1>1, <1>u, <1>c, <1>g, TwoKinds, <1>21, <2>0, <2>b DEF Held, Raced, RemovingDay, AdmThread
    <3> QED
      BY <1>c, <1>u, <2>b, <3>1, <3>2 DEF RecOK, SomewhereUp
  <2> QED
    BY <2>a, <2>b
<1> QED
  BY <1>2, <1>3, <1>4, <1>5, <1>6, <1>7, <1>8, <1>9, <1>10, <1>11, <1>12, <1>13, <1>14, <1>15, <1>16, <1>17,
     <1>18, <1>20, <1>21
    DEF IInv, Types, DaysOK, RecsOK

\* The record goes to the log: a part that is read-only by now is not written any more.
LEMMA LogRecKeeps ==
    ASSUME IInv, LogRec
    PROVE  IInv'
<1>0. /\ ServerTypes /\ PartTypes /\ DiskTypes /\ PastTypes /\ InsTypes /\ SyncTypes /\ DumpTypes /\ AdmTypes
      /\ Down /\ Events /\ VecParts /\ InsThread /\ SyncThread /\ DumpThread /\ AdmThread
      /\ Owners /\ DaysOK /\ InsRec /\ RecsOK
  BY DEF IInv, Types
<1>1. /\ ins.pc = "log"
      /\ ins'.pc \in {"put", "next"}
      /\ log' = log \cup {ins.rec}
      /\ ins'.pc = "put" => ins'.rec = ins.rec
      /\ ins'.day = ins.day
      /\ ins'.part = ins.part
      /\ ins'.ref = ins.ref
      /\ InsShape'
      /\ UNCHANGED <<server, now, parts, vec, cfg, files, syncer, dump, adm, dumpPartCode, cancel,
                     acked, late, gone, raced, crashes>>
  BY <1>0 DEF LogRec, InsStep, InsTypes, InsShape, disk, past, memory
<1>u. Up
  BY <1>0, <1>1, BusyIsUp
<1>2. ServerTypes' /\ PartTypes' /\ PastTypes'
  BY <1>0, <1>1 DEF ServerTypes, PartTypes, PastTypes, Part
<1>3. SyncTypes'
  BY <1>0, <1>1 DEF SyncTypes, SyncShape
<1>4. DumpTypes' /\ AdmTypes'
  BY <1>0, <1>1 DEF DumpTypes, AdmTypes, DumpShape, AdmShape
<1>5. Events' /\ VecParts'
  BY <1>0, <1>1 DEF Events, VecParts
<1>6. DumpThread'
  BY <1>0, <1>1 DEF DumpThread, IdleDump, Dumping, KindOf, DumpDay
<1>7. AdmThread' /\ Owners'
  BY <1>0, <1>1 DEF AdmThread, Owners, IdleAdm, Removing, KindOf, Raced
<1>8. DiskTypes'
  BY <1>0, <1>1, <1>u, TwoKinds DEF DiskTypes, InsThread
<1>9. InsTypes'
  BY <1>0, <1>1, <1>u, TwoKinds DEF InsTypes, InsShape
<1>10. Down'
  BY <1>0, <1>1, <1>u, TwoKinds DEF Down, IdleIns, IdleSync, IdleDump, IdleAdm, Up
<1>11. InsThread'
  BY <1>0, <1>1, <1>u, TwoKinds DEF InsThread, IdleIns, KindOf
<1>12. SyncThread'
  BY <1>0, <1>1, <1>u, TwoKinds DEF SyncThread, IdleSync, KindOf
<1>13. InsRec'
  BY <1>0, <1>1, <1>u, TwoKinds DEF InsRec, InsThread, SyncThread, IdleSync
<1>14. ASSUME NEW d \in Days, DayOK(d), InsOK(d), ~Raced(d)'
      PROVE  SameDay(d) /\ SameDump(d)
  BY <1>0, <1>1, <1>u, TwoKinds, <1>14
    DEF SameDay, SameDump, DumpFirst, SamePart, DumpingDay, Dumping, DumpDay, RemovingDay, Removing, Entries,
        KindOf, Gone, Up
<1>15. ASSUME NEW d \in Days, ~Raced(d)'
      PROVE  DayOK(d)' /\ InsOK(d)'
  <2>1. DayOK(d) /\ InsOK(d) /\ ~Raced(d)
    BY <1>0, <1>1, <1>15 DEF DaysOK, Raced
  <2>2. CreateHasFile(d)'
    BY <1>0, <1>1, <1>u, <1>15, <2>1 DEF InsOK, CreateHasFile, Gone, RemovingDay, Removing
  <2>3. RefIsKept(d)'
    BY <1>0, <1>1, <1>u, <1>15, <2>1 DEF InsOK, RefIsKept, RemovingDay, Removing, DumpingDay, Dumping, DumpDay
  <2>4. DayOK(d)'
    BY <1>0, <1>14, <1>15, <2>1, DayFrame DEF Types
  <2> QED
    BY <2>2, <2>3, <2>4 DEF InsOK
<1>16. ASSUME NEW r \in Recs, Held(r)'
      PROVE  RecOK(r)'
  <2>0. r[1] \in Days
    BY PartLifecycleAssumption
  <2>1. Held(r) /\ RecOK(r) /\ DayOK(r[1]) /\ InsOK(r[1])
    BY <1>0, <1>1, <1>u, TwoKinds, <1>16, <2>0 DEF RecsOK, DaysOK, Held, Raced
  <2>2. SameDay(r[1]) /\ SameDump(r[1])
    BY <1>14, <1>16, <2>0, <2>1 DEF Held
  <2>3. SameRec(r)
    BY <1>0, <1>1, <1>u, TwoKinds, <1>16, <2>0, <2>1 DEF SameRec, SameKeeping, InFile, KindOf
  <2> QED
    BY <2>1, <2>2, <2>3, RecFrame
<1> QED
  BY <1>2, <1>3, <1>4, <1>5, <1>6, <1>7, <1>8, <1>9, <1>10, <1>11, <1>12, <1>13, <1>15, <1>16
    DEF IInv, Types, DaysOK, RecsOK

\* The record goes to its part, and is late if the part has been made read-only since LogRec.
LEMMA PutRecKeeps ==
    ASSUME IInv, PutRec
    PROVE  IInv'
<1>0. /\ ServerTypes /\ PartTypes /\ DiskTypes /\ PastTypes /\ InsTypes /\ SyncTypes /\ DumpTypes /\ AdmTypes
      /\ Down /\ Events /\ VecParts /\ InsThread /\ SyncThread /\ DumpThread /\ AdmThread
      /\ Owners /\ DaysOK /\ InsRec /\ RecsOK
  BY DEF IInv, Types
<1>b. Ranged
  BY <1>0, Ranges DEF Types
<1>f. /\ PartTypes' /\ Len(parts') = Len(parts)
      /\ \A p \in 1 .. Len(parts) : Kept(p) /\ parts'[p].ro = parts[p].ro
      /\ ins.part # 0 /\ ins.rec \in parts'[ins.part].recs
  <2> DEFINE q == ins.part
  <2>1. q \in 1 .. Len(parts) /\ ins.rec \in Recs /\ parts' = [parts EXCEPT ![q].recs = @ \cup {ins.rec}]
    BY <1>0, <1>b, Constants DEF InsThread, Ranged, PutRec
  <2>2. /\ parts' \in Seq(Part) /\ Len(parts') = Len(parts)
        /\ \A p \in 1 .. Len(parts) : p # q => parts'[p] = parts[p]
        /\ parts'[q].recs = parts[q].recs \cup {ins.rec} /\ parts'[q].day = parts[q].day
        /\ parts'[q].kind = parts[q].kind /\ parts'[q].ro = parts[q].ro /\ parts'[q].freed = parts[q].freed
    BY <1>0, <2>1, RecordPut
  <2>3. PartTypes'
    BY <1>0, <2>2 DEF PartTypes, Part, PutRec, InsStep
  <2>4. q # 0
    BY <2>1
  <2> HIDE DEF q
  <2>5. \A p \in 1 .. Len(parts) : Kept(p) /\ parts'[p].ro = parts[p].ro
    BY <2>1, <2>2 DEF Kept
  <2> QED
    BY <2>1, <2>2, <2>3, <2>4, <2>5 DEF q
<1>g. /\ Len(parts') = Len(parts)
      /\ ins.part # 0 => Kept(ins.part)
      /\ ins.ref # 0 => Kept(ins.ref)
      /\ syncer.ref # 0 => Kept(syncer.ref)
      /\ dump.ref # 0 => Kept(dump.ref)
      /\ dump.part # 0 => Kept(dump.part)
      /\ adm.part # 0 => Kept(adm.part)
      /\ \A d \in Days : vec[d] # 0 => Kept(vec[d])
  BY <1>0, <1>f, AllKept DEF Types
<1>1. /\ ins.pc = "put"
      /\ acked' = acked \cup {ins.rec}
      /\ late' = late \cup (IF parts[ins.part].ro THEN {ins.rec} ELSE {})
      /\ ins.rec \in Recs
      /\ ins'.pc = "next"
      /\ ins'.day = ins.day
      /\ ins'.part = ins.part
      /\ ins'.ref = ins.ref
      /\ InsShape'
      /\ UNCHANGED <<server, now, vec, cfg, files, log, syncer, dump, adm, dumpPartCode, cancel,
                     gone, raced, crashes>>
  BY <1>0 DEF PutRec, InsStep, InsThread, InsTypes, InsShape, disk, past, memory
<1>u. Up
  BY <1>0, <1>1, BusyIsUp
<1>2. ServerTypes' /\ DiskTypes'
  BY <1>0, <1>1 DEF ServerTypes, DiskTypes
<1>3. Events'
  BY <1>0, <1>1 DEF Events
<1>4. PartTypes'
  BY <1>f
<1>5. PastTypes'
  BY <1>0, <1>1, <1>u, <1>g, TwoKinds DEF PastTypes, Kept
<1>6. InsTypes'
  BY <1>0, <1>1, <1>u, <1>g, TwoKinds, <1>f DEF InsTypes, InsShape, Kept
<1>7. SyncTypes'
  BY <1>0, <1>1, <1>u, <1>g, TwoKinds, <1>f DEF SyncTypes, SyncShape, Kept
<1>8. DumpTypes'
  BY <1>0, <1>1, <1>u, <1>g, TwoKinds, <1>f DEF DumpTypes, DumpShape, Kept
<1>9. AdmTypes'
  BY <1>0, <1>1, <1>u, <1>g, TwoKinds, <1>f DEF AdmTypes, AdmShape, Kept
<1>10. Down'
  BY <1>0, <1>1, <1>u, <1>g, TwoKinds DEF Down, IdleIns, IdleSync, IdleDump, IdleAdm, Up, Kept
<1>11. VecParts'
  BY <1>0, <1>1, <1>u, <1>g, TwoKinds DEF VecParts, Kept
<1>12. InsThread'
  BY <1>0, <1>1, <1>u, <1>g, TwoKinds DEF InsThread, IdleIns, KindOf, Kept
<1>13. SyncThread'
  BY <1>0, <1>1, <1>u, <1>g, TwoKinds DEF SyncThread, IdleSync, KindOf, Kept
<1>14. DumpThread'
  BY <1>0, <1>1, <1>u, <1>g, TwoKinds DEF DumpThread, IdleDump, Dumping, KindOf, DumpDay, Kept
<1>15. AdmThread'
  BY <1>0, <1>1, <1>u, <1>g, TwoKinds DEF AdmThread, IdleAdm, Removing, KindOf, Kept
<1>16. Owners'
  BY <1>0, <1>1, <1>f DEF Owners, Raced, Kept
<1>17. InsRec'
  BY <1>0, <1>1, <1>u, <1>g, TwoKinds DEF InsRec, InsThread, SyncThread, IdleSync, Kept
<1>18. ASSUME NEW d \in Days, DayOK(d), InsOK(d), ~Raced(d)'
      PROVE  SameDay(d) /\ SameDump(d)
  BY <1>0, <1>1, <1>u, <1>g, TwoKinds, <1>18
    DEF SameDay, SameDump, DumpFirst, SamePart, DumpingDay, Dumping, DumpDay, RemovingDay, Removing, Entries,
        KindOf, Gone, Up, Kept, DumpThread, AdmThread
<1>19. ASSUME NEW d \in Days, ~Raced(d)'
      PROVE  DayOK(d)' /\ InsOK(d)'
  <2>1. DayOK(d) /\ InsOK(d) /\ ~Raced(d)
    BY <1>0, <1>1, <1>19 DEF DaysOK, Raced
  <2>2. CreateHasFile(d)'
    BY <1>0, <1>1, <1>u, <1>g, <1>19, <2>1 DEF InsOK, CreateHasFile, Gone, RemovingDay, Removing, Kept
  <2>3. RefIsKept(d)'
    BY <1>0, <1>1, <1>u, <1>g, <1>19, <2>1
      DEF InsOK, RefIsKept, RemovingDay, Removing, DumpingDay, Dumping, DumpDay, Kept
  <2>4. DayOK(d)'
    BY <1>0, <1>18, <1>19, <2>1, DayFrame DEF Types
  <2> QED
    BY <2>2, <2>3, <2>4 DEF InsOK
<1>20. ASSUME NEW r \in Recs, Held(r)'
      PROVE  RecOK(r)'
  <2>0. r[1] \in Days
    BY PartLifecycleAssumption
  <2>a. CASE ~(r = ins.rec)
    <3>1. Held(r) /\ RecOK(r) /\ DayOK(r[1]) /\ InsOK(r[1])
      BY <1>0, <1>1, <1>u, <1>g, TwoKinds, <1>20, <2>0, <2>a DEF RecsOK, DaysOK, Held, Raced
    <3>2. SameDay(r[1]) /\ SameDump(r[1])
      BY <1>18, <1>20, <2>0, <3>1, <2>a DEF Held
    <3>3. SameRec(r)
      BY <1>0, <1>1, <1>f, <1>g, <1>b, <2>0, <3>1, <2>a
        DEF SameRec, SameKeeping, InFile, KindOf, Kept, RemovingDay, AdmThread, Ranged
    <3> QED
      BY <3>1, <3>2, <3>3, RecFrame
  <2>b. CASE r = ins.rec
    <3>1. DayOK(r[1]) /\ InsOK(r[1]) /\ ~Raced(r[1])
      BY <1>0, <1>1, <1>u, <1>g, TwoKinds, <1>20, <2>0, <2>b DEF DaysOK, Held, Raced
    <3>2. /\ ins.part # 0 /\ ins.part \in 1 .. Len(parts) /\ r[1] = ins.day /\ parts[ins.part].day = r[1]
          /\ KindOf(ins.part) = "normal" /\ ins.ref = ins.part
      <4>1. r[1] = ins.day /\ ins.day # 0 /\ ins.part # 0
        BY <1>0, <1>1, <2>0, <2>b, Constants DEF InsThread
      <4>2. <<"bare", ins.day>> \notin raced
        BY <3>1, <4>1 DEF Raced
      <4>3. ins.ref # 0
        BY <1>0, <1>1, <4>2 DEF InsThread
      <4> QED
        BY <1>0, <1>b, <4>1, <4>3 DEF InsThread, InsTypes, Ranged
    <3>3. ~parts[ins.part].ro /\ r \in log /\ r \notin syncer.mark
      BY <1>0, <1>1, <1>u, <1>g, TwoKinds, <1>20, <2>0, <2>b DEF Held, InsRec
    <3>4. ~parts'[ins.part].ro /\ r \in parts'[ins.part].recs /\ KindOf(ins.part)' = "normal"
      BY <1>0, <1>1, <1>u, <1>g, TwoKinds, <1>20, <2>0, <2>b, <1>f, <3>2, <3>3 DEF KindOf, Kept
    <3>5. ~(DumpingDay(r[1]) /\ dump.part = ins.part)
      BY <1>0, <3>3 DEF DumpingDay, DumpThread
    <3>6. CASE ins.part = vec[r[1]]
      <4>1. ~RemovingDay(r[1]) /\ ~Gone(r[1])
        BY <3>1, <3>2, <3>6 DEF DayOK, RemovedIsOut, GoneIsOut
      <4>2. "comp" \notin Entries(r[1])
        BY <3>1, <3>2, <3>3, <3>6 DEF DayOK, EntryIsPart
      <4>3. ~(DumpingDay(r[1]) /\ dump.pc # "wait")
        BY <3>1, <3>5, <3>6 DEF DayOK, DumpHasVec
      <4>4. VecKeeps(r)' /\ RemovedKeeps(r)'
        BY <1>1, <3>2, <3>3, <3>4, <3>6, <4>1
          DEF VecKeeps, RemovedKeeps, PartKeeps, RemovingDay, Removing, KindOf
      <4>5. SomewhereUp(r)' /\ SomewhereDown(r)'
        BY <1>1, <1>u, <3>2, <3>6 DEF SomewhereUp, SomewhereDown, Up
      <4>6. MarkWritten(r)'
        BY <1>1, <3>3 DEF MarkWritten
      <4>7. DumpKeeps(r)' /\ CompKeeps(r)' /\ GoneKeeps(r)'
        BY <1>0, <1>1, <1>g, <4>1, <4>2, <4>3, Constants
          DEF DumpKeeps, CompKeeps, GoneKeeps, Entries, Gone, DumpingDay, Dumping, DumpDay, DumpThread, Kept
      <4> QED
        BY <4>4, <4>5, <4>6, <4>7 DEF RecOK
    <3>7. CASE RemovingDay(r[1]) /\ ins.part = adm.part
      <4>1. vec[r[1]] = 0
        BY <3>1, <3>7 DEF DayOK, RemovedIsOut
      <4>2. "comp" \notin Entries(r[1])
        BY <3>1, <3>2, <3>3, <3>7 DEF DayOK, EntryIsPart
      <4>3. ~(DumpingDay(r[1]) /\ dump.pc # "wait")
        BY <1>0, <3>1, <4>1 DEF DayOK, DumpHasVec, DumpingDay, DumpThread
      <4>4. VecKeeps(r)' /\ RemovedKeeps(r)'
        BY <1>1, <3>2, <3>3, <3>4, <3>7, <4>1
          DEF VecKeeps, RemovedKeeps, PartKeeps, RemovingDay, Removing, KindOf
      <4>5. SomewhereUp(r)' /\ SomewhereDown(r)'
        BY <1>1, <1>u, <3>7 DEF SomewhereUp, SomewhereDown, Up, RemovingDay, Removing
      <4>6. MarkWritten(r)'
        BY <1>1, <3>3 DEF MarkWritten
      <4>7. DumpKeeps(r)' /\ CompKeeps(r)' /\ GoneKeeps(r)'
        BY <1>0, <1>1, <1>g, <3>7, <4>2, <4>3, Constants
          DEF DumpKeeps, CompKeeps, GoneKeeps, Entries, RemovingDay, Removing, DumpingDay, Dumping, DumpDay,
              DumpThread, Kept
      <4> QED
        BY <4>4, <4>5, <4>6, <4>7 DEF RecOK
    <3> QED
      BY <3>1, <3>2, <3>5, <3>6, <3>7 DEF InsOK, RefIsKept
  <2> QED
    BY <2>a, <2>b
<1> QED
  BY <1>2, <1>3, <1>4, <1>5, <1>6, <1>7, <1>8, <1>9, <1>10, <1>11, <1>12, <1>13, <1>14, <1>15, <1>16, <1>17,
     <1>19, <1>20
    DEF IInv, Types, DaysOK, RecsOK

\* The request ends.
LEMMA InsertEndKeeps ==
    ASSUME IInv, InsertEnd
    PROVE  IInv'
<1>0. /\ ServerTypes /\ PartTypes /\ DiskTypes /\ PastTypes /\ InsTypes /\ SyncTypes /\ DumpTypes /\ AdmTypes
      /\ Down /\ Events /\ VecParts /\ InsThread /\ SyncThread /\ DumpThread /\ AdmThread
      /\ Owners /\ DaysOK /\ InsRec /\ RecsOK
  BY DEF IInv, Types
<1>1. /\ ins.pc = "next"
      /\ ins' = IdleIns
      /\ ins'.pc = "idle"
      /\ ins'.day = 0
      /\ ins'.part = 0
      /\ ins'.ref = 0
      /\ InsShape'
      /\ UNCHANGED <<server, now, parts, vec, cfg, files, log, syncer, dump, adm, dumpPartCode,
                     cancel, acked, late, gone, raced, crashes>>
  BY <1>0 DEF InsertEnd, InsStep, IdleIns, InsTypes, InsShape, disk, past, memory
<1>u. Up
  BY <1>0, <1>1, BusyIsUp
<1>2. ServerTypes' /\ PartTypes' /\ DiskTypes' /\ PastTypes'
  BY <1>0, <1>1 DEF ServerTypes, PartTypes, DiskTypes, PastTypes, Part
<1>3. SyncTypes'
  BY <1>0, <1>1 DEF SyncTypes, SyncShape
<1>4. DumpTypes' /\ AdmTypes'
  BY <1>0, <1>1 DEF DumpTypes, AdmTypes, DumpShape, AdmShape
<1>5. Events' /\ VecParts'
  BY <1>0, <1>1 DEF Events, VecParts
<1>6. SyncThread' /\ DumpThread'
  BY <1>0, <1>1 DEF SyncThread, DumpThread, IdleSync, KindOf, IdleDump, Dumping, DumpDay
<1>7. AdmThread' /\ Owners'
  BY <1>0, <1>1 DEF AdmThread, Owners, IdleAdm, Removing, KindOf, Raced
<1>8. InsTypes'
  BY <1>0, <1>1, <1>u, TwoKinds DEF InsTypes, InsShape
<1>9. Down'
  BY <1>0, <1>1, <1>u, TwoKinds DEF Down, IdleIns, IdleSync, IdleDump, IdleAdm, Up
<1>10. InsThread'
  BY <1>0, <1>1, <1>u, TwoKinds DEF InsThread, IdleIns, KindOf
<1>11. InsRec'
  BY <1>0, <1>1, <1>u, TwoKinds DEF InsRec, InsThread, SyncThread, IdleSync
<1>12. ASSUME NEW d \in Days, DayOK(d), InsOK(d), ~Raced(d)'
      PROVE  SameDay(d) /\ SameDump(d)
  BY <1>0, <1>1, <1>u, TwoKinds, <1>12
    DEF SameDay, SameDump, DumpFirst, SamePart, DumpingDay, Dumping, DumpDay, RemovingDay, Removing, Entries,
        KindOf, Gone, Up
<1>13. ASSUME NEW d \in Days, ~Raced(d)'
      PROVE  DayOK(d)' /\ InsOK(d)'
  <2>1. DayOK(d) /\ InsOK(d) /\ ~Raced(d)
    BY <1>0, <1>1, <1>13 DEF DaysOK, Raced
  <2>2. CreateHasFile(d)'
    BY <1>0, <1>1, <1>u, <1>13, <2>1 DEF InsOK, CreateHasFile, Gone, RemovingDay, Removing
  <2>3. RefIsKept(d)'
    BY <1>0, <1>1, <1>u, <1>13, <2>1 DEF InsOK, RefIsKept, RemovingDay, Removing, DumpingDay, Dumping, DumpDay
  <2>4. DayOK(d)'
    BY <1>0, <1>12, <1>13, <2>1, DayFrame DEF Types
  <2> QED
    BY <2>2, <2>3, <2>4 DEF InsOK
<1>14. ASSUME NEW r \in Recs, Held(r)'
      PROVE  RecOK(r)'
  <2>0. r[1] \in Days
    BY PartLifecycleAssumption
  <2>1. Held(r) /\ RecOK(r) /\ DayOK(r[1]) /\ InsOK(r[1])
    BY <1>0, <1>1, <1>u, TwoKinds, <1>14, <2>0 DEF RecsOK, DaysOK, Held, Raced
  <2>2. SameDay(r[1]) /\ SameDump(r[1])
    BY <1>12, <1>14, <2>0, <2>1 DEF Held
  <2>3. SameRec(r)
    BY <1>0, <1>1, <1>u, TwoKinds, <1>14, <2>0, <2>1 DEF SameRec, SameKeeping, InFile, KindOf
  <2> QED
    BY <2>1, <2>2, <2>3, RecFrame
<1> QED
  BY <1>2, <1>3, <1>4, <1>5, <1>6, <1>7, <1>8, <1>9, <1>10, <1>11, <1>13, <1>14 DEF IInv, Types, DaysOK, RecsOK

-----------------------------------------------------------------------------
(* The full sync.                                                          *)

\* A sync point is made: what the log has is now for this sync to write.
LEMMA SyncBeginKeeps ==
    ASSUME IInv, SyncBegin
    PROVE  IInv'
<1>0. /\ ServerTypes /\ PartTypes /\ DiskTypes /\ PastTypes /\ InsTypes /\ SyncTypes /\ DumpTypes /\ AdmTypes
      /\ Down /\ Events /\ VecParts /\ InsThread /\ SyncThread /\ DumpThread /\ AdmThread
      /\ Owners /\ DaysOK /\ InsRec /\ RecsOK
  BY DEF IInv, Types
<1>v. Up
  BY DEF SyncBegin
<1>1. /\ syncer.pc = "idle"
      /\ late' = late \cup (IF ins.pc = "put" THEN {ins.rec} ELSE {})
      /\ syncer'.pc = "next"
      /\ syncer'.at = 0
      /\ syncer'.ref = 0
      /\ syncer'.mark = log
      /\ SyncShape'
      /\ UNCHANGED <<server, now, parts, vec, cfg, files, log, ins, dump, adm, dumpPartCode,
                     cancel, acked, gone, raced, crashes>>
  BY <1>0 DEF SyncBegin, SyncStep, IdleSync, SyncTypes, SyncShape, disk, past, memory
<1>2. ServerTypes' /\ PartTypes' /\ DiskTypes'
  BY <1>0, <1>1 DEF ServerTypes, PartTypes, DiskTypes, Part
<1>3. InsTypes'
  BY <1>0, <1>1 DEF InsTypes, InsShape
<1>4. DumpTypes' /\ AdmTypes'
  BY <1>0, <1>1 DEF DumpTypes, AdmTypes, DumpShape, AdmShape
<1>5. Events' /\ VecParts' /\ InsThread'
  BY <1>0, <1>1 DEF Events, VecParts, InsThread, IdleIns, KindOf
<1>6. DumpThread'
  BY <1>0, <1>1 DEF DumpThread, IdleDump, Dumping, KindOf, DumpDay
<1>7. AdmThread' /\ Owners'
  BY <1>0, <1>1 DEF AdmThread, Owners, IdleAdm, Removing, KindOf, Raced
<1>8. PastTypes'
  BY <1>0, <1>1, <1>v, TwoKinds DEF PastTypes, InsThread
<1>9. SyncTypes'
  BY <1>0, <1>1, <1>v, TwoKinds DEF SyncTypes, SyncShape, DiskTypes
<1>10. Down'
  BY <1>0, <1>1, <1>v, TwoKinds DEF Down, IdleIns, IdleSync, IdleDump, IdleAdm, Up
<1>11. SyncThread'
  BY <1>0, <1>1, <1>v, TwoKinds DEF SyncThread, IdleSync, KindOf
<1>12. InsRec'
  BY <1>0, <1>1, <1>v, TwoKinds DEF InsRec, InsThread, SyncThread, IdleSync
<1>13. ASSUME NEW d \in Days, DayOK(d), InsOK(d), ~Raced(d)'
      PROVE  SameDay(d) /\ SameDump(d)
  BY <1>0, <1>1, <1>v, TwoKinds, <1>13
    DEF SameDay, SameDump, DumpFirst, SamePart, DumpingDay, Dumping, DumpDay, RemovingDay, Removing, Entries,
        KindOf, Gone, Up
<1>14. ASSUME NEW d \in Days, ~Raced(d)'
      PROVE  DayOK(d)' /\ InsOK(d)'
  <2>1. DayOK(d) /\ InsOK(d) /\ ~Raced(d)
    BY <1>0, <1>1, <1>14 DEF DaysOK, Raced
  <2>2. CreateHasFile(d)'
    BY <1>0, <1>1, <1>v, <1>14, <2>1 DEF InsOK, CreateHasFile, Gone, RemovingDay, Removing
  <2>3. RefIsKept(d)'
    BY <1>0, <1>1, <1>v, <1>14, <2>1 DEF InsOK, RefIsKept, RemovingDay, Removing, DumpingDay, Dumping, DumpDay
  <2>4. DayOK(d)'
    BY <1>0, <1>13, <1>14, <2>1, DayFrame DEF Types
  <2> QED
    BY <2>2, <2>3, <2>4 DEF InsOK
<1>15. ASSUME NEW r \in Recs, Held(r)'
      PROVE  RecOK(r)'
  <2>0. r[1] \in Days
    BY PartLifecycleAssumption
  <2>1. Held(r) /\ RecOK(r) /\ DayOK(r[1]) /\ InsOK(r[1])
    BY <1>0, <1>1, <1>v, TwoKinds, <1>15, <2>0 DEF RecsOK, DaysOK, Held, Raced
  <2>2. SameDay(r[1]) /\ SameDump(r[1])
    BY <1>13, <1>15, <2>0, <2>1 DEF Held
  <2>3. SameRec(r)
    <3>1. ~(r[1] <= 0)
      BY <2>0, Constants
    <3> QED
      BY <1>1, <3>1 DEF SameRec, SameKeeping, InFile, KindOf
  <2> QED
    BY <2>1, <2>2, <2>3, RecFrame
<1> QED
  BY <1>2, <1>3, <1>4, <1>5, <1>6, <1>7, <1>8, <1>9, <1>10, <1>11, <1>12, <1>14, <1>15
    DEF IInv, Types, DaysOK, RecsOK

\* The next part is taken and, if it is a writable normal part, written.
LEMMA SyncNextKeeps ==
    ASSUME IInv, NEW e \in Days, syncer.pc = "next", e > syncer.at, vec[e] # 0,
           \A c \in Days : c > syncer.at /\ vec[c] # 0 => e <= c,
           SyncStep([syncer EXCEPT !.pc = IF Writes(e) THEN "switch" ELSE "next", !.at = e, !.ref = vec[e]]),
           IF Writes(e) /\ files["normal"][e] # NoFile THEN files' = [files EXCEPT !["normal"][e] = parts[vec[e]].recs]
           ELSE UNCHANGED files,
           UNCHANGED <<parts, log, late, raced>>
    PROVE  IInv'
<1>0. /\ ServerTypes /\ PartTypes /\ DiskTypes /\ PastTypes /\ InsTypes /\ SyncTypes /\ DumpTypes /\ AdmTypes
      /\ Down /\ Events /\ VecParts /\ InsThread /\ SyncThread /\ DumpThread /\ AdmThread
      /\ Owners /\ DaysOK /\ InsRec /\ RecsOK
  BY DEF IInv, Types
<1>b. Ranged
  BY <1>0, Ranges DEF Types
<1>w. vec[e] \in 1 .. Len(parts)
  BY <1>b DEF Ranged
<1>f. /\ files' \in [Kinds -> [Days -> {NoFile} \cup SUBSET Recs]]
      /\ \A k \in Kinds, d \in Days : k # "normal" \/ d # e => files'[k][d] = files[k][d]
      /\ \/ files'["normal"][e] = files["normal"][e] /\ ~(Writes(e) /\ files["normal"][e] # NoFile)
         \/ Writes(e) /\ files'["normal"][e] = parts[vec[e]].recs /\ files'["normal"][e] # NoFile
      /\ \A k \in Kinds, d \in Days : files[k][d] # NoFile => files'[k][d] # NoFile
  <2>1. parts[vec[e]].recs \in {NoFile} \cup SUBSET Recs /\ parts[vec[e]].recs # NoFile
    BY <1>b, Constants DEF Ranged
  <2>2. CASE Writes(e) /\ files["normal"][e] # NoFile
    <3>1. files' = [files EXCEPT !["normal"][e] = parts[vec[e]].recs]
      BY <2>2
    <3>2. /\ files' \in [Kinds -> [Days -> {NoFile} \cup SUBSET Recs]] /\ files'["normal"][e] = parts[vec[e]].recs
          /\ \A k \in Kinds, d \in Days : k # "normal" \/ d # e => files'[k][d] = files[k][d]
      BY <1>0, <2>1, <3>1, Constants DEF DiskTypes
    <3> QED
      BY <2>1, <2>2, <3>2
  <2>3. CASE ~(Writes(e) /\ files["normal"][e] # NoFile)
    BY <1>0, <2>3 DEF DiskTypes
  <2> QED
    BY <2>2, <2>3
<1>1. /\ syncer.pc = "next"
      /\ vec[e] \in 1 .. Len(parts)
      /\ vec[e] # 0
      /\ parts[vec[e]].freed = 0
      /\ syncer'.pc \in {"next", "switch"}
      /\ syncer'.pc = "switch" => KindOf(vec[e]) = "normal"
      /\ syncer'.at = e
      /\ syncer'.ref = vec[e]
      /\ syncer'.mark = syncer.mark
      /\ SyncShape'
      /\ UNCHANGED <<server, now, parts, vec, cfg, log, ins, dump, adm, dumpPartCode, cancel,
                     acked, late, gone, raced, crashes>>
  BY <1>0, <1>w DEF SyncStep, Writes, KindOf, VecParts, SyncTypes, SyncShape, disk, past, memory
<1>u. Up
  BY <1>0, <1>1, BusyIsUp
<1>2. ServerTypes' /\ PartTypes' /\ PastTypes'
  BY <1>0, <1>1 DEF ServerTypes, PartTypes, PastTypes, Part
<1>3. InsTypes'
  BY <1>0, <1>1 DEF InsTypes, InsShape
<1>4. DumpTypes' /\ AdmTypes'
  BY <1>0, <1>1 DEF DumpTypes, AdmTypes, DumpShape, AdmShape
<1>5. Events' /\ VecParts' /\ InsThread'
  BY <1>0, <1>1 DEF Events, VecParts, InsThread, IdleIns, KindOf
<1>6. DumpThread'
  BY <1>0, <1>1 DEF DumpThread, IdleDump, Dumping, KindOf, DumpDay
<1>7. AdmThread' /\ Owners'
  BY <1>0, <1>1 DEF AdmThread, Owners, IdleAdm, Removing, KindOf, Raced
<1>8. DiskTypes'
  BY <1>0, <1>1, <1>f DEF DiskTypes
<1>9. SyncTypes'
  BY <1>0, <1>1, <1>u, <1>f, TwoKinds DEF SyncTypes, SyncShape
<1>10. Down'
  BY <1>0, <1>1, <1>u, <1>f, TwoKinds DEF Down, IdleIns, IdleSync, IdleDump, IdleAdm, Up
<1>11. SyncThread'
  BY <1>0, <1>1, <1>u, <1>f, TwoKinds DEF SyncThread, IdleSync, KindOf
<1>12. InsRec'
  BY <1>0, <1>1, <1>u, <1>f, TwoKinds DEF InsRec, InsThread, SyncThread, IdleSync
<1>13. ASSUME NEW d \in Days, DayOK(d), InsOK(d), ~Raced(d)'
      PROVE  SameDay(d) /\ SameDump(d)
  BY <1>1, <1>f DEF SameDay, SameDump, SamePart, KindOf, RemovingDay, Removing, DumpingDay, Dumping, DumpDay
<1>14. ASSUME NEW d \in Days, ~Raced(d)'
      PROVE  DayOK(d)' /\ InsOK(d)'
  <2>1. DayOK(d) /\ InsOK(d) /\ ~Raced(d)
    BY <1>0, <1>1, <1>14 DEF DaysOK, Raced
  <2>2. CreateHasFile(d)'
    BY <1>0, <1>1, <1>u, <1>f, TwoKinds, <1>14, <2>1
      DEF InsOK, CreateHasFile, DumpingDay, Dumping, DumpDay, RemovingDay, Removing, Entries, KindOf, Gone, Up
  <2>3. RefIsKept(d)'
    BY <1>0, <1>1, <1>u, <1>f, <1>14, <2>1
      DEF InsOK, RefIsKept, RemovingDay, Removing, DumpingDay, Dumping, DumpDay
  <2>4. DayOK(d)'
    BY <1>0, <1>13, <1>14, <2>1, DayFrame DEF Types
  <2> QED
    BY <2>2, <2>3, <2>4 DEF InsOK
<1>15. ASSUME NEW r \in Recs, Held(r)'
      PROVE  RecOK(r)'
  <2>0. r[1] \in Days
    BY PartLifecycleAssumption
  <2>1. Held(r) /\ RecOK(r) /\ DayOK(r[1]) /\ InsOK(r[1])
    BY <1>0, <1>1, <1>u, <1>f, TwoKinds, <1>15, <2>0 DEF RecsOK, DaysOK, Held, Raced
  <2>2. SameDay(r[1]) /\ SameDump(r[1])
    BY <1>13, <1>15, <2>0, <2>1 DEF Held
  <2>3. SameRec(r)
    <3>1. \A k \in Kinds : InFile(k, r) => InFile(k, r)'
      <4>1. CASE files'["normal"][e] = files["normal"][e]
        BY <1>f, <2>0, <4>1 DEF InFile
      <4>2. CASE r[1] # e
        BY <1>f, <2>0, <4>2 DEF InFile
      <4>3. CASE Writes(e) /\ r[1] = e /\ files'["normal"][e] = parts[vec[e]].recs
        <5>1. r \in parts[vec[e]].recs
          BY <1>1, <2>1, <4>3 DEF RecOK, VecKeeps, PartKeeps
        <5> QED
          BY <1>f, <5>1, <4>3 DEF InFile
      <4> QED
        BY <1>f, <4>1, <4>2, <4>3
    <3>2. /\ vec[r[1]] # 0 => SameKeeping(vec[r[1]], r)
          /\ RemovingDay(r[1]) => SameKeeping(adm.part, r)
      BY <1>1 DEF SameKeeping, KindOf, RemovingDay, Removing
    <3>3. ASSUME r \in syncer.mark, r[1] <= e, vec[r[1]] # 0, KindOf(vec[r[1]]) # "comp"
          PROVE  r[1] <= syncer.at \/ InFile("normal", r)'
      <4>1. CASE r[1] # e
        <5>1. r[1] \in Nat /\ e \in Nat /\ syncer.at \in Nat
          BY <1>0, <2>0, Constants DEF SyncTypes
        <5>2. ~(r[1] > syncer.at)
          BY <3>3, <4>1, <5>1, <2>0
        <5> QED
          BY <5>1, <5>2
      <4>2. CASE r[1] = e /\ ~Writes(e)
        <5>1. KindOf(vec[e]) = "normal" /\ parts[vec[e]].ro
          BY <3>3, <4>2, <1>b DEF Writes, KindOf, Ranged
        <5>2. InFile("normal", r)
          BY <5>1, <4>2, <1>1, <2>1 DEF RecOK, VecKeeps, PartKeeps
        <5> QED
          BY <5>2, <3>1, Constants
      <4>3. CASE r[1] = e /\ Writes(e)
        <5>1. files["normal"][e] # NoFile
          BY <4>3, <1>1, <2>1 DEF DayOK, PartHasFile, Writes, KindOf
        <5>2. r \in parts[vec[e]].recs
          BY <4>3, <1>1, <2>1 DEF RecOK, VecKeeps, PartKeeps
        <5> QED
          BY <1>f, <4>3, <5>1, <5>2 DEF InFile
      <4> QED
        BY <4>1, <4>2, <4>3
    <3> QED
      BY <1>1, <3>1, <3>2, <3>3 DEF SameRec
  <2> QED
    BY <2>1, <2>2, <2>3, RecFrame
<1> QED
  BY <1>2, <1>3, <1>4, <1>5, <1>6, <1>7, <1>8, <1>9, <1>10, <1>11, <1>12, <1>14, <1>15
    DEF IInv, Types, DaysOK, RecsOK

\* A part that is past the window is made read-only: what it has and its file has not is late.
LEMMA SyncSwitchKeeps ==
    ASSUME IInv, SyncSwitch
    PROVE  IInv'
<1>0. /\ ServerTypes /\ PartTypes /\ DiskTypes /\ PastTypes /\ InsTypes /\ SyncTypes /\ DumpTypes /\ AdmTypes
      /\ Down /\ Events /\ VecParts /\ InsThread /\ SyncThread /\ DumpThread /\ AdmThread
      /\ Owners /\ DaysOK /\ InsRec /\ RecsOK
  BY DEF IInv, Types
<1>b. Ranged
  BY <1>0, Ranges DEF Types
<1>f. /\ PartTypes' /\ Len(parts') = Len(parts)
      /\ \A p \in 1 .. Len(parts) : Kept(p) /\ parts'[p].recs = parts[p].recs
      /\ late' \subseteq Recs /\ late \subseteq late'
      /\ \A p \in 1 .. Len(parts) : parts'[p].ro =>
            \/ parts[p].ro
            \/ KindOf(p) = "normal" /\ \A r \in parts[p].recs : r \notin late' => files["normal"][parts[p].day] # NoFile /\ r \in files["normal"][parts[p].day]
  <2> DEFINE q == syncer.ref
  <2>1. q \in 1 .. Len(parts) /\ KindOf(q) = "normal"
    BY <1>0, <1>b DEF SyncThread, Ranged, SyncSwitch
  <2>2. CASE parts' = [parts EXCEPT ![q].ro = TRUE] /\ late' = late \cup {r \in parts[q].recs : files["normal"][parts[q].day] = NoFile \/ r \notin files["normal"][parts[q].day]}
    <3>1. /\ parts' \in Seq(Part) /\ Len(parts') = Len(parts)
          /\ \A p \in 1 .. Len(parts) : p # q => parts'[p] = parts[p]
          /\ parts'[q].ro /\ parts'[q].day = parts[q].day /\ parts'[q].kind = parts[q].kind
          /\ parts'[q].recs = parts[q].recs /\ parts'[q].freed = parts[q].freed
      BY <1>0, <2>1, <2>2, ReadOnly
    <3>2. PartTypes'
      BY <1>0, <3>1 DEF PartTypes, Part, SyncSwitch, SyncStep
    <3>3. parts[q].recs \subseteq Recs
      BY <1>b, <2>1 DEF Ranged
    <3> HIDE DEF q
    <3> QED
      BY <1>0, <2>1, <2>2, <3>1, <3>2, <3>3 DEF Kept, PastTypes, KindOf
  <2>3. CASE UNCHANGED <<parts, late>>
    BY <1>0, <2>3 DEF PartTypes, Part, PastTypes, Kept, SyncSwitch, SyncStep
  <2> QED
    BY <2>2, <2>3 DEF SyncSwitch
<1>g. /\ Len(parts') = Len(parts)
      /\ ins.part # 0 => Kept(ins.part)
      /\ ins.ref # 0 => Kept(ins.ref)
      /\ syncer.ref # 0 => Kept(syncer.ref)
      /\ dump.ref # 0 => Kept(dump.ref)
      /\ dump.part # 0 => Kept(dump.part)
      /\ adm.part # 0 => Kept(adm.part)
      /\ \A d \in Days : vec[d] # 0 => Kept(vec[d])
  BY <1>0, <1>f, AllKept DEF Types
<1>1. /\ syncer.pc = "switch"
      /\ syncer'.pc = "next"
      /\ syncer'.at = syncer.at
      /\ syncer'.ref = syncer.ref
      /\ syncer'.mark = syncer.mark
      /\ SyncShape'
      /\ UNCHANGED <<server, now, vec, cfg, files, log, ins, dump, adm, dumpPartCode, cancel,
                     acked, gone, raced, crashes>>
  BY <1>0 DEF SyncSwitch, SyncStep, SyncTypes, SyncShape, disk, past, memory
<1>u. Up
  BY <1>0, <1>1, BusyIsUp
<1>2. ServerTypes' /\ DiskTypes'
  BY <1>0, <1>1 DEF ServerTypes, DiskTypes
<1>3. Events'
  BY <1>0, <1>1 DEF Events
<1>4. PartTypes'
  BY <1>f
<1>5. PastTypes'
  BY <1>0, <1>1, <1>u, <1>g, TwoKinds, <1>f DEF PastTypes, Kept
<1>6. InsTypes'
  BY <1>0, <1>1, <1>u, <1>g, TwoKinds, <1>f DEF InsTypes, InsShape, Kept
<1>7. SyncTypes'
  BY <1>0, <1>1, <1>u, <1>g, TwoKinds, <1>f DEF SyncTypes, SyncShape, Kept
<1>8. DumpTypes'
  BY <1>0, <1>1, <1>u, <1>g, TwoKinds, <1>f DEF DumpTypes, DumpShape, Kept
<1>9. AdmTypes'
  BY <1>0, <1>1, <1>u, <1>g, TwoKinds, <1>f DEF AdmTypes, AdmShape, Kept
<1>10. Down'
  BY <1>0, <1>1, <1>u, <1>g, TwoKinds DEF Down, IdleIns, IdleSync, IdleDump, IdleAdm, Up, Kept
<1>11. VecParts'
  BY <1>0, <1>1, <1>u, <1>g, TwoKinds DEF VecParts, Kept
<1>12. InsThread'
  BY <1>0, <1>1, <1>u, <1>g, TwoKinds DEF InsThread, IdleIns, KindOf, Kept
<1>13. SyncThread'
  BY <1>0, <1>1, <1>u, <1>g, TwoKinds DEF SyncThread, IdleSync, KindOf, Kept
<1>14. DumpThread'
  BY <1>0, <1>1, <1>u, <1>g, TwoKinds DEF DumpThread, IdleDump, Dumping, KindOf, DumpDay, Kept
<1>15. AdmThread'
  BY <1>0, <1>1, <1>u, <1>g, TwoKinds DEF AdmThread, IdleAdm, Removing, KindOf, Kept
<1>16. Owners'
  BY <1>0, <1>1, <1>f DEF Owners, Raced, Kept
<1>17. InsRec'
  BY <1>0, <1>1, <1>u, <1>g, TwoKinds, <1>f DEF InsRec, InsThread, SyncThread, IdleSync, Kept
<1>18. ASSUME NEW d \in Days, DayOK(d), InsOK(d), ~Raced(d)'
      PROVE  SameDay(d) /\ SameDump(d)
  BY <1>0, <1>1, <1>u, <1>g, TwoKinds, <1>18
    DEF SameDay, SameDump, DumpFirst, SamePart, DumpingDay, Dumping, DumpDay, RemovingDay, Removing, Entries,
        KindOf, Gone, Up, Kept, DumpThread, AdmThread
<1>19. ASSUME NEW d \in Days, ~Raced(d)'
      PROVE  DayOK(d)' /\ InsOK(d)'
  <2>1. DayOK(d) /\ InsOK(d) /\ ~Raced(d)
    BY <1>0, <1>1, <1>19 DEF DaysOK, Raced
  <2>2. CreateHasFile(d)'
    BY <1>0, <1>1, <1>u, <1>g, <1>19, <2>1 DEF InsOK, CreateHasFile, Gone, RemovingDay, Removing, Kept
  <2>3. RefIsKept(d)'
    BY <1>0, <1>1, <1>u, <1>g, <1>19, <2>1
      DEF InsOK, RefIsKept, RemovingDay, Removing, DumpingDay, Dumping, DumpDay, Kept
  <2>4. DayOK(d)'
    BY <1>0, <1>18, <1>19, <2>1, DayFrame DEF Types
  <2> QED
    BY <2>2, <2>3, <2>4 DEF InsOK
<1>20. ASSUME NEW r \in Recs, Held(r)'
      PROVE  RecOK(r)'
  <2>0. r[1] \in Days
    BY PartLifecycleAssumption
  <2>1. Held(r) /\ RecOK(r) /\ DayOK(r[1]) /\ InsOK(r[1])
    BY <1>0, <1>1, <1>u, <1>g, TwoKinds, <1>20, <2>0, <1>f DEF RecsOK, DaysOK, Held, Raced
  <2>2. SameDay(r[1]) /\ SameDump(r[1])
    BY <1>18, <1>20, <2>0, <2>1 DEF Held
  <2>3. SameRec(r)
    <3>1. ASSUME NEW p \in 1 .. Len(parts), r \in parts[p].recs, parts[p].day = r[1], Kept(p), parts'[p].ro
          PROVE  parts[p].ro \/ InFile("normal", r)'
      BY <1>1, <1>f, <3>1, <1>20 DEF Held, InFile
    <3>2. vec[r[1]] # 0 => SameKeeping(vec[r[1]], r)
      <4>1. vec[r[1]] # 0 => r \in parts[vec[r[1]]].recs /\ parts[vec[r[1]]].day = r[1] /\ vec[r[1]] \in 1 .. Len(parts)
        BY <1>0, <1>b, <2>0, <2>1 DEF VecParts, RecOK, VecKeeps, PartKeeps, Ranged
      <4> QED
        BY <1>1, <1>g, <2>0, <3>1, <4>1 DEF SameKeeping, Kept, KindOf
    <3>3. RemovingDay(r[1]) => SameKeeping(adm.part, r)
      <4>1. RemovingDay(r[1]) => r \in parts[adm.part].recs /\ parts[adm.part].day = r[1] /\ adm.part \in 1 .. Len(parts)
        BY <1>0, <1>b, <2>0, <2>1 DEF AdmThread, RecOK, RemovedKeeps, PartKeeps, Ranged, RemovingDay
      <4> QED
        BY <1>1, <1>g, <2>0, <3>1, <4>1 DEF SameKeeping, Kept, KindOf
    <3> QED
      BY <1>1, <3>2, <3>3 DEF SameRec, InFile, KindOf, Kept
  <2> QED
    BY <2>1, <2>2, <2>3, RecFrame
<1> QED
  BY <1>2, <1>3, <1>4, <1>5, <1>6, <1>7, <1>8, <1>9, <1>10, <1>11, <1>12, <1>13, <1>14, <1>15, <1>16, <1>17,
     <1>19, <1>20
    DEF IInv, Types, DaysOK, RecsOK

\* The log gives up what it had at the sync point: each record of it is in its file by now, or late,
\* or its day is taken out.
LEMMA SyncEndKeeps ==
    ASSUME IInv, SyncEnd
    PROVE  IInv'
<1>0. /\ ServerTypes /\ PartTypes /\ DiskTypes /\ PastTypes /\ InsTypes /\ SyncTypes /\ DumpTypes /\ AdmTypes
      /\ Down /\ Events /\ VecParts /\ InsThread /\ SyncThread /\ DumpThread /\ AdmThread
      /\ Owners /\ DaysOK /\ InsRec /\ RecsOK
  BY DEF IInv, Types
<1>1. /\ syncer.pc = "next"
      /\ \A d \in Days : d > syncer.at => vec[d] = 0
      /\ syncer' = IdleSync
      /\ log' = log \ syncer.mark
      /\ raced' = raced \cup Unwritten
      /\ syncer'.pc = "idle"
      /\ syncer'.at = 0
      /\ syncer'.ref = 0
      /\ syncer'.mark = {}
      /\ SyncShape'
      /\ UNCHANGED <<server, now, parts, vec, cfg, files, ins, dump, adm, dumpPartCode, cancel,
                     acked, late, gone, crashes>>
  BY <1>0 DEF SyncEnd, SyncStep, IdleSync, SyncTypes, SyncShape, disk, past, memory
<1>u. Up
  BY <1>0, <1>1, BusyIsUp
<1>2. ServerTypes' /\ PartTypes'
  BY <1>0, <1>1 DEF ServerTypes, PartTypes, Part
<1>3. InsTypes'
  BY <1>0, <1>1 DEF InsTypes, InsShape
<1>4. DumpTypes' /\ AdmTypes'
  BY <1>0, <1>1 DEF DumpTypes, AdmTypes, DumpShape, AdmShape
<1>5. Events' /\ VecParts'
  BY <1>0, <1>1 DEF Events, VecParts
<1>6. DumpThread'
  BY <1>0, <1>1 DEF DumpThread, IdleDump, Dumping, KindOf, DumpDay
<1>7. AdmThread'
  BY <1>0, <1>1 DEF AdmThread, IdleAdm, Removing, KindOf
<1>8. DiskTypes'
  BY <1>0, <1>1, <1>u, TwoKinds DEF DiskTypes, InsThread
<1>9. PastTypes'
  BY <1>0, <1>1, <1>u, TwoKinds DEF PastTypes, Unwritten, AdmThread, AdmTypes
<1>10. SyncTypes'
  BY <1>0, <1>1, <1>u, TwoKinds DEF SyncTypes, SyncShape
<1>11. Down'
  BY <1>0, <1>1, <1>u, TwoKinds DEF Down, IdleIns, IdleSync, IdleDump, IdleAdm, Up
<1>12. InsThread'
  BY <1>0, <1>1, <1>u, TwoKinds DEF InsThread, IdleIns, KindOf
<1>13. SyncThread'
  BY <1>0, <1>1, <1>u, TwoKinds DEF SyncThread, IdleSync, KindOf
<1>14. Owners'
  BY <1>0, <1>1, <1>u, TwoKinds DEF Owners, Raced, Unwritten
<1>15. InsRec'
  BY <1>0, <1>1, <1>u, TwoKinds DEF InsRec, InsThread, SyncThread, IdleSync
<1>16. ASSUME NEW d \in Days, DayOK(d), InsOK(d), ~Raced(d)'
      PROVE  SameDay(d) /\ SameDump(d)
  BY <1>0, <1>1, <1>u, TwoKinds, <1>16
    DEF SameDay, SameDump, DumpFirst, SamePart, DumpingDay, Dumping, DumpDay, RemovingDay, Removing, Entries,
        KindOf, Gone, Up
<1>17. ASSUME NEW d \in Days, ~Raced(d)'
      PROVE  DayOK(d)' /\ InsOK(d)'
  <2>1. DayOK(d) /\ InsOK(d) /\ ~Raced(d)
    BY <1>0, <1>1, <1>17 DEF DaysOK, Raced
  <2>2. CreateHasFile(d)'
    BY <1>0, <1>1, <1>u, <1>17, <2>1 DEF InsOK, CreateHasFile, Gone, RemovingDay, Removing
  <2>3. RefIsKept(d)'
    BY <1>0, <1>1, <1>u, <1>17, <2>1 DEF InsOK, RefIsKept, RemovingDay, Removing, DumpingDay, Dumping, DumpDay
  <2>4. DayOK(d)'
    BY <1>0, <1>16, <1>17, <2>1, DayFrame DEF Types
  <2> QED
    BY <2>2, <2>3, <2>4 DEF InsOK
<1>18. ASSUME NEW r \in Recs, Held(r)'
      PROVE  RecOK(r)'
  <2>0. r[1] \in Days
    BY PartLifecycleAssumption
  <2>1. Held(r) /\ RecOK(r) /\ DayOK(r[1]) /\ InsOK(r[1])
    BY <1>0, <1>1, <1>u, TwoKinds, <1>18, <2>0 DEF RecsOK, DaysOK, Held, Raced
  <2>2. SameDay(r[1]) /\ SameDump(r[1])
    BY <1>16, <1>18, <2>0, <2>1 DEF Held
  <2>3. SameRec(r)
    <3>1. /\ vec[r[1]] # 0 => SameKeeping(vec[r[1]], r)
          /\ RemovingDay(r[1]) => SameKeeping(adm.part, r)
          /\ \A k \in Kinds : InFile(k, r) => InFile(k, r)'
      BY <1>1 DEF SameKeeping, KindOf, RemovingDay, Removing, InFile
    <3>2. ~RemovingDay(r[1])
      BY <1>1, <1>18 DEF Held, Unwritten, RemovingDay, Removing
    <3>3. vec[r[1]] # 0 => r[1] <= syncer.at
      <4>1. r[1] \in Nat /\ syncer.at \in Nat
        BY <1>0, <2>0, Constants DEF SyncTypes
      <4> QED
        BY <1>1, <2>0, <4>1
    <3>4. r \in syncer.mark /\ vec[r[1]] # 0 => KindOf(vec[r[1]]) = "comp" \/ InFile("normal", r)
      <4>1. vec[r[1]] # 0 => KindOf(vec[r[1]]) \in Kinds
        BY <1>0, <2>0, Ranges DEF Types, Ranged, KindOf
      <4> QED
        BY <1>1, <2>1, <3>3, <4>1, Constants DEF RecOK, MarkWritten
    <3> QED
      BY <1>1, <1>u, <3>1, <3>2, <3>4, Constants DEF SameRec
  <2> QED
    BY <2>1, <2>2, <2>3, RecFrame
<1> QED
  BY <1>2, <1>3, <1>4, <1>5, <1>6, <1>7, <1>8, <1>9, <1>10, <1>11, <1>12, <1>13, <1>14, <1>15, <1>17, <1>18
    DEF IInv, Types, DaysOK, RecsOK

-----------------------------------------------------------------------------
(* The dump task.                                                          *)

\* A round begins.
LEMMA DumpBeginKeeps ==
    ASSUME IInv, DumpBegin
    PROVE  IInv'
<1>0. /\ ServerTypes /\ PartTypes /\ DiskTypes /\ PastTypes /\ InsTypes /\ SyncTypes /\ DumpTypes /\ AdmTypes
      /\ Down /\ Events /\ VecParts /\ InsThread /\ SyncThread /\ DumpThread /\ AdmThread
      /\ Owners /\ DaysOK /\ InsRec /\ RecsOK
  BY DEF IInv, Types
<1>v. Up
  BY DEF DumpBegin
<1>1. /\ dump.pc = "idle"
      /\ dump.part = 0
      /\ cancel' = FALSE
      /\ dump'.pc = "next"
      /\ dump'.ref = 0
      /\ dump'.part = 0
      /\ DumpShape'
      /\ UNCHANGED <<server, now, parts, vec, cfg, files, log, ins, syncer, adm, dumpPartCode,
                     acked, late, gone, raced, crashes>>
  BY <1>0 DEF DumpBegin, DumpStep, IdleDump, DumpThread, Dumping, DumpTypes, DumpShape, disk, past, memory
<1>2. PartTypes' /\ DiskTypes' /\ PastTypes'
  BY <1>0, <1>1 DEF PartTypes, DiskTypes, PastTypes, Part
<1>3. InsTypes' /\ SyncTypes'
  BY <1>0, <1>1 DEF InsTypes, SyncTypes, InsShape, SyncShape
<1>4. AdmTypes'
  BY <1>0, <1>1 DEF AdmTypes, AdmShape
<1>5. Events' /\ VecParts' /\ InsThread'
  BY <1>0, <1>1 DEF Events, VecParts, InsThread, IdleIns, KindOf
<1>6. SyncThread'
  BY <1>0, <1>1 DEF SyncThread, IdleSync, KindOf
<1>7. AdmThread' /\ InsRec'
  BY <1>0, <1>1 DEF AdmThread, InsRec, IdleAdm, Removing, KindOf
<1>8. ServerTypes'
  BY <1>0, <1>1, <1>v, TwoKinds DEF ServerTypes
<1>9. DumpTypes'
  BY <1>0, <1>1, <1>v, TwoKinds DEF DumpTypes, DumpShape
<1>10. Down'
  BY <1>0, <1>1, <1>v, TwoKinds DEF Down, IdleIns, IdleSync, IdleDump, IdleAdm, Up
<1>11. DumpThread'
  BY <1>0, <1>1, <1>v, TwoKinds DEF DumpThread, IdleDump, Dumping, KindOf, DumpDay
<1>12. Owners'
  BY <1>0, <1>1, <1>v, TwoKinds DEF Owners, Raced
<1>13. ASSUME NEW d \in Days, DayOK(d), InsOK(d), ~Raced(d)'
      PROVE  SameDay(d) /\ SameDump(d)
  BY <1>0, <1>1, <1>v, TwoKinds, <1>13
    DEF SameDay, SameDump, DumpFirst, SamePart, DumpingDay, Dumping, DumpDay, RemovingDay, Removing, Entries,
        KindOf, Gone, Up
<1>14. ASSUME NEW d \in Days, ~Raced(d)'
      PROVE  DayOK(d)' /\ InsOK(d)'
  <2>1. DayOK(d) /\ InsOK(d) /\ ~Raced(d)
    BY <1>0, <1>1, <1>14 DEF DaysOK, Raced
  <2>2. CreateHasFile(d)'
    BY <1>0, <1>1, <1>v, <1>14, <2>1 DEF InsOK, CreateHasFile, Gone, RemovingDay, Removing
  <2>3. RefIsKept(d)'
    BY <1>0, <1>1, <1>v, <1>14, <2>1 DEF InsOK, RefIsKept, RemovingDay, Removing, DumpingDay, Dumping, DumpDay
  <2>4. DayOK(d)'
    BY <1>0, <1>13, <1>14, <2>1, DayFrame DEF Types
  <2> QED
    BY <2>2, <2>3, <2>4 DEF InsOK
<1>15. ASSUME NEW r \in Recs, Held(r)'
      PROVE  RecOK(r)'
  <2>0. r[1] \in Days
    BY PartLifecycleAssumption
  <2>1. Held(r) /\ RecOK(r) /\ DayOK(r[1]) /\ InsOK(r[1])
    BY <1>0, <1>1, <1>v, TwoKinds, <1>15, <2>0 DEF RecsOK, DaysOK, Held, Raced
  <2>2. SameDay(r[1]) /\ SameDump(r[1])
    BY <1>13, <1>15, <2>0, <2>1 DEF Held
  <2>3. SameRec(r)
    BY <1>0, <1>1, <1>v, TwoKinds, <1>15, <2>0, <2>1 DEF SameRec, SameKeeping, InFile, KindOf
  <2> QED
    BY <2>1, <2>2, <2>3, RecFrame
<1> QED
  BY <1>2, <1>3, <1>4, <1>5, <1>6, <1>7, <1>8, <1>9, <1>10, <1>11, <1>12, <1>14, <1>15
    DEF IInv, Types, DaysOK, RecsOK

\* No part is left, or the round was cancelled.
LEMMA DumpNextEndsKeeps ==
    ASSUME IInv, dump.pc = "next", DumpOnly(IdleDump)
    PROVE  IInv'
<1>0. /\ ServerTypes /\ PartTypes /\ DiskTypes /\ PastTypes /\ InsTypes /\ SyncTypes /\ DumpTypes /\ AdmTypes
      /\ Down /\ Events /\ VecParts /\ InsThread /\ SyncThread /\ DumpThread /\ AdmThread
      /\ Owners /\ DaysOK /\ InsRec /\ RecsOK
  BY DEF IInv, Types
<1>1. /\ dump.pc = "next"
      /\ dump.part = 0
      /\ dump' = IdleDump
      /\ dump'.pc = "idle"
      /\ dump'.ref = 0
      /\ dump'.part = 0
      /\ DumpShape'
      /\ UNCHANGED <<server, now, parts, vec, cfg, files, log, ins, syncer, adm, dumpPartCode,
                     cancel, acked, late, gone, raced, crashes>>
  BY <1>0 DEF DumpOnly, DumpStep, IdleDump, DumpThread, Dumping, DumpTypes, DumpShape, disk, past, memory
<1>u. Up
  BY <1>0, <1>1, BusyIsUp
<1>2. ServerTypes' /\ PartTypes' /\ DiskTypes' /\ PastTypes'
  BY <1>0, <1>1 DEF ServerTypes, PartTypes, DiskTypes, PastTypes, Part
<1>3. InsTypes' /\ SyncTypes'
  BY <1>0, <1>1 DEF InsTypes, SyncTypes, InsShape, SyncShape
<1>4. AdmTypes'
  BY <1>0, <1>1 DEF AdmTypes, AdmShape
<1>5. Events' /\ VecParts' /\ InsThread'
  BY <1>0, <1>1 DEF Events, VecParts, InsThread, IdleIns, KindOf
<1>6. SyncThread'
  BY <1>0, <1>1 DEF SyncThread, IdleSync, KindOf
<1>7. AdmThread' /\ InsRec'
  BY <1>0, <1>1 DEF AdmThread, InsRec, IdleAdm, Removing, KindOf
<1>8. DumpTypes'
  BY <1>0, <1>1, <1>u, TwoKinds DEF DumpTypes, DumpShape
<1>9. Down'
  BY <1>0, <1>1, <1>u, TwoKinds DEF Down, IdleIns, IdleSync, IdleDump, IdleAdm, Up
<1>10. DumpThread'
  BY <1>0, <1>1, <1>u, TwoKinds DEF DumpThread, IdleDump, Dumping, KindOf, DumpDay
<1>11. Owners'
  BY <1>0, <1>1, <1>u, TwoKinds DEF Owners, Raced
<1>12. ASSUME NEW d \in Days, DayOK(d), InsOK(d), ~Raced(d)'
      PROVE  SameDay(d) /\ SameDump(d)
  BY <1>0, <1>1, <1>u, TwoKinds, <1>12
    DEF SameDay, SameDump, DumpFirst, SamePart, DumpingDay, Dumping, DumpDay, RemovingDay, Removing, Entries,
        KindOf, Gone, Up
<1>13. ASSUME NEW d \in Days, ~Raced(d)'
      PROVE  DayOK(d)' /\ InsOK(d)'
  <2>1. DayOK(d) /\ InsOK(d) /\ ~Raced(d)
    BY <1>0, <1>1, <1>13 DEF DaysOK, Raced
  <2>2. CreateHasFile(d)'
    BY <1>0, <1>1, <1>u, <1>13, <2>1 DEF InsOK, CreateHasFile, Gone, RemovingDay, Removing
  <2>3. RefIsKept(d)'
    BY <1>0, <1>1, <1>u, <1>13, <2>1 DEF InsOK, RefIsKept, RemovingDay, Removing, DumpingDay, Dumping, DumpDay
  <2>4. DayOK(d)'
    BY <1>0, <1>12, <1>13, <2>1, DayFrame DEF Types
  <2> QED
    BY <2>2, <2>3, <2>4 DEF InsOK
<1>14. ASSUME NEW r \in Recs, Held(r)'
      PROVE  RecOK(r)'
  <2>0. r[1] \in Days
    BY PartLifecycleAssumption
  <2>1. Held(r) /\ RecOK(r) /\ DayOK(r[1]) /\ InsOK(r[1])
    BY <1>0, <1>1, <1>u, TwoKinds, <1>14, <2>0 DEF RecsOK, DaysOK, Held, Raced
  <2>2. SameDay(r[1]) /\ SameDump(r[1])
    BY <1>12, <1>14, <2>0, <2>1 DEF Held
  <2>3. SameRec(r)
    BY <1>0, <1>1, <1>u, TwoKinds, <1>14, <2>0, <2>1 DEF SameRec, SameKeeping, InFile, KindOf
  <2> QED
    BY <2>1, <2>2, <2>3, RecFrame
<1> QED
  BY <1>2, <1>3, <1>4, <1>5, <1>6, <1>7, <1>8, <1>9, <1>10, <1>11, <1>13, <1>14 DEF IInv, Types, DaysOK, RecsOK

\* The next older part is referred to, and compressed if it is normal and read-only.
LEMMA DumpNextTakesKeeps ==
    ASSUME IInv, NEW e \in Days, dump.pc = "next", vec[e] # 0,
           DumpOnly([dump EXCEPT !.from = e + ValidDays, !.ref = vec[e],
               !.part = IF parts[vec[e]].kind = "normal" /\ parts[vec[e]].ro THEN vec[e] ELSE 0,
               !.pc = IF parts[vec[e]].kind = "normal" /\ parts[vec[e]].ro THEN "mark" ELSE "next"])
    PROVE  IInv'
<1>0. /\ ServerTypes /\ PartTypes /\ DiskTypes /\ PastTypes /\ InsTypes /\ SyncTypes /\ DumpTypes /\ AdmTypes
      /\ Down /\ Events /\ VecParts /\ InsThread /\ SyncThread /\ DumpThread /\ AdmThread
      /\ Owners /\ DaysOK /\ InsRec /\ RecsOK
  BY DEF IInv, Types
<1>b. Ranged
  BY <1>0, Ranges DEF Types
<1>w. vec[e] \in 1 .. Len(parts) /\ e # 0 /\ vec[e] \in 0 .. Len(parts) /\ 0 \in 0 .. Len(parts)
  BY <1>b DEF Ranged
<1>1. /\ dump.pc = "next"
      /\ dump.part = 0
      /\ vec[e] # 0
      /\ vec[e] \in 1 .. Len(parts)
      /\ parts[vec[e]].day = e
      /\ parts[vec[e]].freed = 0
      /\ e # 0
      /\ adm.part # vec[e]
      /\ vec[e] \in 0 .. Len(parts) /\ 0 \in 0 .. Len(parts)
      /\ dump'.ref = vec[e]
      /\ \/ dump'.pc = "mark" /\ dump'.part = vec[e] /\ KindOf(vec[e]) = "normal" /\ parts[vec[e]].ro
         \/ dump'.pc = "next" /\ dump'.part = 0
      /\ DumpShape'
      /\ UNCHANGED <<server, now, parts, vec, cfg, files, log, ins, syncer, adm, dumpPartCode,
                     cancel, acked, late, gone, raced, crashes>>
  BY <1>0, <1>w
    DEF DumpOnly, DumpStep, DumpThread, Dumping, KindOf, VecParts, AdmThread, DumpTypes, DumpShape, disk, past,
        memory
<1>u. Up
  BY <1>0, <1>1, BusyIsUp
<1>2. ServerTypes' /\ PartTypes' /\ DiskTypes' /\ PastTypes'
  BY <1>0, <1>1 DEF ServerTypes, PartTypes, DiskTypes, PastTypes, Part
<1>3. InsTypes' /\ SyncTypes'
  BY <1>0, <1>1 DEF InsTypes, SyncTypes, InsShape, SyncShape
<1>4. AdmTypes'
  BY <1>0, <1>1 DEF AdmTypes, AdmShape
<1>5. Events' /\ VecParts' /\ InsThread'
  BY <1>0, <1>1 DEF Events, VecParts, InsThread, IdleIns, KindOf
<1>6. SyncThread'
  BY <1>0, <1>1 DEF SyncThread, IdleSync, KindOf
<1>7. AdmThread' /\ InsRec'
  BY <1>0, <1>1 DEF AdmThread, InsRec, IdleAdm, Removing, KindOf
<1>8. DumpTypes'
  BY <1>1, <1>0 DEF DumpTypes, DumpShape
<1>9. Down'
  BY <1>0, <1>1, <1>u, TwoKinds DEF Down, IdleIns, IdleSync, IdleDump, IdleAdm, Up
<1>10. DumpThread'
  BY <1>0, <1>1, <1>u, TwoKinds DEF DumpThread, IdleDump, Dumping, KindOf, DumpDay
<1>11. Owners'
  BY <1>0, <1>1, <1>u, TwoKinds DEF Owners, Raced
<1>12. ASSUME NEW d \in Days, DayOK(d), InsOK(d), ~Raced(d)'
      PROVE  SameDay(d) /\ SameDump(d)
  BY <1>0, <1>1, <1>u, TwoKinds, <1>12
    DEF SameDay, SameDump, DumpFirst, SamePart, DumpingDay, Dumping, DumpDay, RemovingDay, Removing, Entries,
        KindOf, Gone, Up
<1>13. ASSUME NEW d \in Days, ~Raced(d)'
      PROVE  DayOK(d)' /\ InsOK(d)'
  <2>1. DayOK(d) /\ InsOK(d) /\ ~Raced(d)
    BY <1>0, <1>1, <1>13 DEF DaysOK, Raced
  <2>2. CreateHasFile(d)'
    BY <1>0, <1>1, <1>u, <1>13, <2>1 DEF InsOK, CreateHasFile, Gone, RemovingDay, Removing
  <2>3. RefIsKept(d)'
    BY <1>0, <1>1, <1>u, <1>13, <2>1 DEF InsOK, RefIsKept, RemovingDay, Removing, DumpingDay, Dumping, DumpDay
  <2>4. DayOK(d)'
    BY <1>0, <1>12, <1>13, <2>1, DayFrame DEF Types
  <2> QED
    BY <2>2, <2>3, <2>4 DEF InsOK
<1>14. ASSUME NEW r \in Recs, Held(r)'
      PROVE  RecOK(r)'
  <2>0. r[1] \in Days
    BY PartLifecycleAssumption
  <2>1. Held(r) /\ RecOK(r) /\ DayOK(r[1]) /\ InsOK(r[1])
    BY <1>0, <1>1, <1>u, TwoKinds, <1>14, <2>0 DEF RecsOK, DaysOK, Held, Raced
  <2>2. SameDay(r[1]) /\ SameDump(r[1])
    BY <1>12, <1>14, <2>0, <2>1 DEF Held
  <2>3. SameRec(r)
    BY <1>0, <1>1, <1>u, TwoKinds, <1>14, <2>0, <2>1 DEF SameRec, SameKeeping, InFile, KindOf
  <2> QED
    BY <2>1, <2>2, <2>3, RecFrame
<1> QED
  BY <1>2, <1>3, <1>4, <1>5, <1>6, <1>7, <1>8, <1>9, <1>10, <1>11, <1>13, <1>14 DEF IInv, Types, DaysOK, RecsOK

\* dumpPartCode_ is set.
LEMMA DumpMarkKeeps ==
    ASSUME IInv, DumpMark
    PROVE  IInv'
<1>0. /\ ServerTypes /\ PartTypes /\ DiskTypes /\ PastTypes /\ InsTypes /\ SyncTypes /\ DumpTypes /\ AdmTypes
      /\ Down /\ Events /\ VecParts /\ InsThread /\ SyncThread /\ DumpThread /\ AdmThread
      /\ Owners /\ DaysOK /\ InsRec /\ RecsOK
  BY DEF IInv, Types
<1>b. Ranged
  BY <1>0, Ranges DEF Types
<1>1. /\ dump.pc = "mark"
      /\ dump.part # 0
      /\ dump'.pc = "scan" \/ dump'.pc = "clear"
      /\ dumpPartCode' = DumpDay
      /\ dump'.ref = dump.ref
      /\ dump'.part = dump.part
      /\ DumpShape'
      /\ UNCHANGED <<server, now, parts, vec, cfg, files, log, ins, syncer, adm, cancel, acked,
                     late, gone, raced, crashes>>
  BY <1>0 DEF DumpMark, DumpStep, DumpThread, Dumping, DumpTypes, DumpShape, disk, past, memory
<1>u. Up
  BY <1>0, <1>1, BusyIsUp
<1>2. PartTypes' /\ DiskTypes' /\ PastTypes'
  BY <1>0, <1>1 DEF PartTypes, DiskTypes, PastTypes, Part
<1>3. InsTypes' /\ SyncTypes'
  BY <1>0, <1>1 DEF InsTypes, SyncTypes, InsShape, SyncShape
<1>4. AdmTypes'
  BY <1>0, <1>1 DEF AdmTypes, AdmShape
<1>5. Events' /\ VecParts' /\ InsThread'
  BY <1>0, <1>1 DEF Events, VecParts, InsThread, IdleIns, KindOf
<1>6. SyncThread'
  BY <1>0, <1>1 DEF SyncThread, IdleSync, KindOf
<1>7. AdmThread' /\ InsRec'
  BY <1>0, <1>1 DEF AdmThread, InsRec, IdleAdm, Removing, KindOf
<1>8. ServerTypes'
  BY <1>0, <1>1, <1>u, TwoKinds, <1>b DEF ServerTypes, DumpDay, Ranged
<1>9. DumpTypes'
  BY <1>0, <1>1, <1>u, TwoKinds DEF DumpTypes, DumpShape
<1>10. Down'
  BY <1>0, <1>1, <1>u, TwoKinds DEF Down, IdleIns, IdleSync, IdleDump, IdleAdm, Up
<1>11. DumpThread'
  BY <1>0, <1>1, <1>u, TwoKinds DEF DumpThread, IdleDump, Dumping, KindOf, DumpDay
<1>12. Owners'
  BY <1>0, <1>1, <1>u, TwoKinds DEF Owners, Raced
<1>13. ASSUME NEW d \in Days, DayOK(d), InsOK(d), ~Raced(d)'
      PROVE  SameDay(d) /\ SameDump(d)
  BY <1>0, <1>1, <1>u, TwoKinds, <1>13
    DEF SameDay, SameDump, DumpFirst, SamePart, DumpingDay, Dumping, DumpDay, RemovingDay, Removing, Entries,
        KindOf, Gone, Up, DayOK, DumpHasVec
<1>14. ASSUME NEW d \in Days, ~Raced(d)'
      PROVE  DayOK(d)' /\ InsOK(d)'
  <2>1. DayOK(d) /\ InsOK(d) /\ ~Raced(d)
    BY <1>0, <1>1, <1>14 DEF DaysOK, Raced
  <2>2. CreateHasFile(d)'
    BY <1>0, <1>1, <1>u, <1>14, <2>1 DEF InsOK, CreateHasFile, Gone, RemovingDay, Removing
  <2>3. RefIsKept(d)'
    BY <1>0, <1>1, <1>u, <1>14, <2>1 DEF InsOK, RefIsKept, RemovingDay, Removing, DumpingDay, Dumping, DumpDay
  <2>4. DayOK(d)'
    BY <1>0, <1>13, <1>14, <2>1, DayFrame DEF Types
  <2> QED
    BY <2>2, <2>3, <2>4 DEF InsOK
<1>15. ASSUME NEW r \in Recs, Held(r)'
      PROVE  RecOK(r)'
  <2>0. r[1] \in Days
    BY PartLifecycleAssumption
  <2>1. Held(r) /\ RecOK(r) /\ DayOK(r[1]) /\ InsOK(r[1])
    BY <1>0, <1>1, <1>u, TwoKinds, <1>15, <2>0 DEF RecsOK, DaysOK, Held, Raced
  <2>2. SameDay(r[1]) /\ SameDump(r[1])
    BY <1>13, <1>15, <2>0, <2>1 DEF Held
  <2>3. SameRec(r)
    BY <1>0, <1>1, <1>u, TwoKinds, <1>15, <2>0, <2>1 DEF SameRec, SameKeeping, InFile, KindOf
  <2> QED
    BY <2>1, <2>2, <2>3, RecFrame
<1> QED
  BY <1>2, <1>3, <1>4, <1>5, <1>6, <1>7, <1>8, <1>9, <1>10, <1>11, <1>12, <1>14, <1>15
    DEF IInv, Types, DaysOK, RecsOK

\* The compressed file is made: it has every record of the part.
LEMMA DumpMakesFileKeeps ==
    ASSUME IInv, MakesFile
    PROVE  IInv'
<1>0. /\ ServerTypes /\ PartTypes /\ DiskTypes /\ PastTypes /\ InsTypes /\ SyncTypes /\ DumpTypes /\ AdmTypes
      /\ Down /\ Events /\ VecParts /\ InsThread /\ SyncThread /\ DumpThread /\ AdmThread
      /\ Owners /\ DaysOK /\ InsRec /\ RecsOK
  BY DEF IInv, Types
<1>b. Ranged
  BY <1>0, Ranges DEF Types
<1>w. /\ dump.part # 0 /\ DumpDay \in Days /\ parts[dump.part].recs # NoFile /\ files'["comp"][DumpDay] = parts[dump.part].recs
      /\ files' \in [Kinds -> [Days -> {NoFile} \cup SUBSET Recs]]
      /\ \A k \in Kinds, d \in Days : k # "comp" \/ d # DumpDay => files'[k][d] = files[k][d]
      /\ \A k \in Kinds, d \in Days : files[k][d] # NoFile => files'[k][d] # NoFile
  <2> DEFINE e == DumpDay
             R == parts[dump.part].recs
  <2>1. dump.part # 0 /\ e \in Days /\ R \subseteq Recs
    BY <1>0, <1>b DEF DumpThread, Dumping, Ranged, DumpDay, MakesFile
  <2>2. R # NoFile /\ R \in {NoFile} \cup SUBSET Recs
    BY <2>1, Constants
  <2>3. files' = [files EXCEPT !["comp"][e] = R]
    BY DEF MakesFile
  <2> HIDE DEF e, R
  <2>4. /\ files' \in [Kinds -> [Days -> {NoFile} \cup SUBSET Recs]] /\ files'["comp"][e] = R
        /\ \A k \in Kinds, d \in Days : k # "comp" \/ d # e => files'[k][d] = files[k][d]
    <3> DEFINE k0 == "comp"
    <3>1. DiskTypes /\ k0 \in Kinds /\ files' = [files EXCEPT ![k0][e] = R]
      BY <1>0, <2>3, Constants
    <3> HIDE DEF k0
    <3>2. /\ files' \in [Kinds -> [Days -> {NoFile} \cup SUBSET Recs]] /\ files'[k0][e] = R
          /\ \A k \in Kinds, d \in Days : k # k0 \/ d # e => files'[k][d] = files[k][d]
      BY <2>1, <2>2, <3>1, FileSet, Zenon
    <3> QED
      BY <3>2 DEF k0
  <2>5. \A k \in Kinds, d \in Days : files[k][d] # NoFile => files'[k][d] # NoFile
    BY <2>2, <2>4
  <2> QED
    BY <2>1, <2>2, <2>4, <2>5 DEF e, R
<1>1. /\ dump.pc = "scan"
      /\ dump.part # 0
      /\ parts[dump.part].recs # NoFile
      /\ files'["comp"][DumpDay] = parts[dump.part].recs
      /\ DumpDay \in Days
      /\ \A k \in Kinds, d \in Days : k # "comp" \/ d # DumpDay => files'[k][d] = files[k][d]
      /\ \A k \in Kinds, d \in Days : files[k][d] # NoFile => files'[k][d] # NoFile
      /\ files' \in [Kinds -> [Days -> {NoFile} \cup SUBSET Recs]]
      /\ dump'.pc = "config"
      /\ dump'.ref = dump.ref
      /\ dump'.part = dump.part
      /\ DumpShape'
      /\ UNCHANGED <<server, now, parts, vec, cfg, log, ins, syncer, adm, dumpPartCode, cancel,
                     acked, late, gone, raced, crashes>>
  BY <1>0, <1>w DEF DumpStep, MakesFile, DumpTypes, DumpShape, disk, past, memory
<1>u. Up
  BY <1>0, <1>1, BusyIsUp
<1>2. ServerTypes' /\ PartTypes' /\ PastTypes'
  BY <1>0, <1>1 DEF ServerTypes, PartTypes, PastTypes, Part
<1>3. InsTypes' /\ SyncTypes'
  BY <1>0, <1>1 DEF InsTypes, SyncTypes, InsShape, SyncShape
<1>4. AdmTypes'
  BY <1>0, <1>1 DEF AdmTypes, AdmShape
<1>5. Events' /\ VecParts' /\ InsThread'
  BY <1>0, <1>1 DEF Events, VecParts, InsThread, IdleIns, KindOf
<1>6. SyncThread'
  BY <1>0, <1>1 DEF SyncThread, IdleSync, KindOf
<1>7. AdmThread' /\ InsRec'
  BY <1>0, <1>1 DEF AdmThread, InsRec, IdleAdm, Removing, KindOf
<1>8. DiskTypes'
  BY <1>0, <1>1, <1>u, TwoKinds DEF DiskTypes, InsThread
<1>9. DumpTypes'
  BY <1>0, <1>1, <1>u, TwoKinds DEF DumpTypes, DumpShape
<1>10. Down'
  BY <1>0, <1>1, <1>u, TwoKinds DEF Down, IdleIns, IdleSync, IdleDump, IdleAdm, Up
<1>11. DumpThread'
  BY <1>0, <1>1, <1>u, TwoKinds DEF DumpThread, IdleDump, Dumping, KindOf, DumpDay
<1>12. Owners'
  BY <1>0, <1>1, <1>u, TwoKinds DEF Owners, Raced
<1>13. ASSUME NEW d \in Days, DayOK(d), InsOK(d), ~Raced(d)', d # DumpDay
      PROVE  SameDay(d) /\ SameDump(d)
  BY <1>0, <1>1, <1>u, TwoKinds, <1>13
    DEF SameDay, SameDump, DumpFirst, SamePart, DumpingDay, Dumping, DumpDay, RemovingDay, Removing, Entries,
        KindOf, Gone, Up
<1>14. ASSUME NEW d \in Days, ~Raced(d)'
      PROVE  DayOK(d)' /\ InsOK(d)'
  <2>1. DayOK(d) /\ InsOK(d) /\ ~Raced(d)
    BY <1>0, <1>1, <1>14 DEF DaysOK, Raced
  <2>2. CreateHasFile(d)'
    BY <1>0, <1>1, <1>u, TwoKinds, <1>14, <2>1
      DEF InsOK, CreateHasFile, DumpingDay, Dumping, DumpDay, RemovingDay, Removing, Entries, KindOf, Gone, Up
  <2>3. RefIsKept(d)'
    BY <1>0, <1>1, <1>u, <1>14, <2>1 DEF InsOK, RefIsKept, RemovingDay, Removing, DumpingDay, Dumping, DumpDay
  <2>4. DayOK(d)'
    <3>1. CASE d # DumpDay
      BY <1>0, <1>13, <1>14, <2>1, <3>1, DayFrame DEF Types
    <3>2. CASE d = DumpDay
      <4>1. DumpHasVec(d)'
        BY <1>0, <1>1, <1>u, <1>14, <2>1, <3>2 DEF DayOK, DumpHasVec, DumpingDay, Dumping, DumpDay
      <4>2. RemovedIsOut(d)'
        BY <1>0, <1>1, <1>u, <1>14, <2>1, <3>2 DEF DayOK, RemovedIsOut, RemovingDay, Removing
      <4>3. WaitHasComp(d)'
        BY <1>0, <1>1, <1>u, <1>14, <2>1, <3>2
          DEF DayOK, WaitHasComp, DumpingDay, Dumping, DumpDay, Entries, KindOf
      <4>4. DumpMadeFile(d)'
        BY <1>0, <1>1, <1>u, <1>14, <2>1, <3>2 DEF DayOK, DumpMadeFile, DumpingDay, Dumping, DumpDay, Entries
      <4>5. OneEntry(d)'
        BY <1>0, <1>1, <1>u, <1>14, <2>1, <3>2 DEF DayOK, OneEntry, Entries
      <4>6. RefsNoEntry(d)'
        BY <1>0, <1>1, <1>u, <1>14, <2>1, <3>2 DEF DayOK, RefsNoEntry, Entries, KindOf
      <4>7. OutNoEntry(d)'
        BY <1>0, <1>1, <1>u, <1>14, <2>1, <3>2 DEF DayOK, OutNoEntry, Up, Entries
      <4>8. GoneIsOut(d)'
        BY <1>0, <1>1, <1>u, <1>14, <2>1, <3>2 DEF DayOK, GoneIsOut, Gone, Entries
      <4>9. AddHasPart(d)'
        BY <1>0, <1>1, <1>u, <1>14, <2>1, <3>2 DEF DayOK, AddHasPart, Entries, KindOf
      <4>10. PartHasFile(d)'
        <5>1. vec[d] = dump.part /\ vec[d] # 0 /\ ~RemovingDay(d)'
          BY <1>1, <2>1, <3>2 DEF DayOK, DumpHasVec, RemovedIsOut, DumpingDay, Dumping, RemovingDay, Removing
        <5>2. KindOf(vec[d]) \in Kinds /\ KindOf(vec[d])' = KindOf(vec[d]) /\ vec'[d] = vec[d]
          BY <1>1, <1>b, <5>1 DEF Ranged, KindOf
        <5> QED
          BY <1>1, <2>1, <5>1, <5>2 DEF DayOK, PartHasFile
      <4>11. EntryIsPart(d)'
        BY <1>0, <1>1, <1>u, <1>14, <2>1, <3>2 DEF DayOK, EntryIsPart, Entries, KindOf, RemovingDay, Removing
      <4> QED
        BY <4>1, <4>2, <4>3, <4>4, <4>5, <4>6, <4>7, <4>8, <4>9, <4>10, <4>11 DEF DayOK
    <3> QED
      BY <3>1, <3>2
  <2> QED
    BY <2>2, <2>3, <2>4 DEF InsOK
<1>15. ASSUME NEW r \in Recs, Held(r)'
      PROVE  RecOK(r)'
  <2>0. r[1] \in Days
    BY PartLifecycleAssumption
  <2>a. CASE ~(r[1] = DumpDay)
    <3>1. Held(r) /\ RecOK(r) /\ DayOK(r[1]) /\ InsOK(r[1])
      BY <1>0, <1>1, <1>u, TwoKinds, <1>15, <2>0, <2>a DEF RecsOK, DaysOK, Held, Raced
    <3>2. SameDay(r[1]) /\ SameDump(r[1])
      BY <1>13, <1>15, <2>0, <3>1, <2>a DEF Held
    <3>3. SameRec(r)
      BY <1>0, <1>1, <1>u, TwoKinds, <1>15, <2>0, <3>1, <2>a DEF SameRec, SameKeeping, InFile, KindOf
    <3> QED
      BY <3>1, <3>2, <3>3, RecFrame
  <2>b. CASE r[1] = DumpDay
    <3>0. /\ Held(r) /\ RecOK(r) /\ DayOK(r[1]) /\ vec[r[1]] = dump.part /\ ~RemovingDay(r[1]) /\ InFile("comp", r)'
         /\ "comp" \in Kinds /\ Kinds = {"normal", "comp"} /\ ~Gone(r[1])
      <4>1. Held(r) /\ RecOK(r) /\ DayOK(r[1])
        BY <1>0, <1>1, <1>u, TwoKinds, <1>15, <2>0, <2>b DEF RecsOK, DaysOK, Held, Raced
      <4>2. vec[r[1]] = dump.part /\ ~RemovingDay(r[1]) /\ ~Gone(r[1])
        BY <1>0, <1>1, <1>u, TwoKinds, <1>15, <2>0, <2>b, <4>1
          DEF DayOK, DumpHasVec, RemovedIsOut, GoneIsOut, DumpingDay, Dumping
      <4> QED
        BY <1>0, <1>1, <1>u, TwoKinds, <1>15, <2>0, <2>b, <4>1, <4>2, Constants
          DEF RecOK, VecKeeps, PartKeeps, InFile
    <3>1. VecKeeps(r)'
      BY <1>0, <1>1, <1>u, <1>15, <2>0, <2>b, <3>0 DEF RecOK, VecKeeps, PartKeeps, InFile, KindOf
    <3>2. RemovedKeeps(r)'
      BY <1>0, <1>1, <1>u, <1>15, <2>0, <2>b, <3>0
        DEF RecOK, RemovedKeeps, RemovingDay, Removing, PartKeeps, InFile, KindOf
    <3>3. SomewhereUp(r)'
      BY <1>0, <1>1, <1>u, <1>15, <2>0, <2>b, <3>0 DEF RecOK, SomewhereUp, Up, Gone, RemovingDay, Removing
    <3>4. SomewhereDown(r)'
      BY <1>0, <1>1, <1>u, <1>15, <2>0, <2>b, <3>0 DEF RecOK, SomewhereDown, Up, Gone, OnDisk
    <3>5. MarkWritten(r)'
      BY <1>0, <1>1, <1>u, <1>15, <2>0, <2>b, <3>0 DEF RecOK, MarkWritten, KindOf, InFile
    <3>6. DumpKeeps(r)'
      BY <1>0, <1>1, <1>u, <1>15, <2>0, <2>b, <3>0 DEF RecOK, DumpKeeps, DumpingDay, Dumping, DumpDay, InFile
    <3>7. CompKeeps(r)'
      BY <1>0, <1>1, <1>u, <1>15, <2>0, <2>b, <3>0 DEF RecOK, CompKeeps, InFile
    <3>8. GoneKeeps(r)'
      BY <1>0, <1>1, <1>u, <1>15, <2>0, <2>b, <3>0 DEF RecOK, GoneKeeps, RemovingDay, Removing, InFile
    <3> QED
      BY <3>1, <3>2, <3>3, <3>4, <3>5, <3>6, <3>7, <3>8 DEF RecOK
  <2> QED
    BY <2>a, <2>b
<1> QED
  BY <1>2, <1>3, <1>4, <1>5, <1>6, <1>7, <1>8, <1>9, <1>10, <1>11, <1>12, <1>14, <1>15
    DEF IInv, Types, DaysOK, RecsOK

\* The cancellation is noticed.
LEMMA DumpGivesUpKeeps ==
    ASSUME IInv, dump.pc = "scan", DumpStep([dump EXCEPT !.pc = "give up"]), UNCHANGED <<files,
                                                                                         parts, vec, dumpPartCode, cancel, cfg, raced>>
    PROVE  IInv'
<1>0. /\ ServerTypes /\ PartTypes /\ DiskTypes /\ PastTypes /\ InsTypes /\ SyncTypes /\ DumpTypes /\ AdmTypes
      /\ Down /\ Events /\ VecParts /\ InsThread /\ SyncThread /\ DumpThread /\ AdmThread
      /\ Owners /\ DaysOK /\ InsRec /\ RecsOK
  BY DEF IInv, Types
<1>1. /\ dump.pc = "scan"
      /\ dump'.pc = "give up"
      /\ dump'.ref = dump.ref
      /\ dump'.part = dump.part
      /\ DumpShape'
      /\ UNCHANGED <<server, now, parts, vec, cfg, files, log, ins, syncer, adm, dumpPartCode,
                     cancel, acked, late, gone, raced, crashes>>
  BY <1>0 DEF DumpStep, DumpTypes, DumpShape, disk, past, memory
<1>u. Up
  BY <1>0, <1>1, BusyIsUp
<1>2. ServerTypes' /\ PartTypes' /\ DiskTypes' /\ PastTypes'
  BY <1>0, <1>1 DEF ServerTypes, PartTypes, DiskTypes, PastTypes, Part
<1>3. InsTypes' /\ SyncTypes'
  BY <1>0, <1>1 DEF InsTypes, SyncTypes, InsShape, SyncShape
<1>4. AdmTypes'
  BY <1>0, <1>1 DEF AdmTypes, AdmShape
<1>5. Events' /\ VecParts' /\ InsThread'
  BY <1>0, <1>1 DEF Events, VecParts, InsThread, IdleIns, KindOf
<1>6. SyncThread'
  BY <1>0, <1>1 DEF SyncThread, IdleSync, KindOf
<1>7. AdmThread' /\ InsRec'
  BY <1>0, <1>1 DEF AdmThread, InsRec, IdleAdm, Removing, KindOf
<1>8. DumpTypes'
  BY <1>0, <1>1, <1>u, TwoKinds DEF DumpTypes, DumpShape
<1>9. Down'
  BY <1>0, <1>1, <1>u, TwoKinds DEF Down, IdleIns, IdleSync, IdleDump, IdleAdm, Up
<1>10. DumpThread'
  BY <1>0, <1>1, <1>u, TwoKinds DEF DumpThread, IdleDump, Dumping, KindOf, DumpDay
<1>11. Owners'
  BY <1>0, <1>1, <1>u, TwoKinds DEF Owners, Raced
<1>12. ASSUME NEW d \in Days, DayOK(d), InsOK(d), ~Raced(d)'
      PROVE  SameDay(d) /\ SameDump(d)
  BY <1>0, <1>1, <1>u, TwoKinds, <1>12
    DEF SameDay, SameDump, DumpFirst, SamePart, DumpingDay, Dumping, DumpDay, RemovingDay, Removing, Entries,
        KindOf, Gone, Up, DayOK, DumpHasVec
<1>13. ASSUME NEW d \in Days, ~Raced(d)'
      PROVE  DayOK(d)' /\ InsOK(d)'
  <2>1. DayOK(d) /\ InsOK(d) /\ ~Raced(d)
    BY <1>0, <1>1, <1>13 DEF DaysOK, Raced
  <2>2. CreateHasFile(d)'
    BY <1>0, <1>1, <1>u, <1>13, <2>1 DEF InsOK, CreateHasFile, Gone, RemovingDay, Removing
  <2>3. RefIsKept(d)'
    BY <1>0, <1>1, <1>u, <1>13, <2>1 DEF InsOK, RefIsKept, RemovingDay, Removing, DumpingDay, Dumping, DumpDay
  <2>4. DayOK(d)'
    BY <1>0, <1>12, <1>13, <2>1, DayFrame DEF Types
  <2> QED
    BY <2>2, <2>3, <2>4 DEF InsOK
<1>14. ASSUME NEW r \in Recs, Held(r)'
      PROVE  RecOK(r)'
  <2>0. r[1] \in Days
    BY PartLifecycleAssumption
  <2>1. Held(r) /\ RecOK(r) /\ DayOK(r[1]) /\ InsOK(r[1])
    BY <1>0, <1>1, <1>u, TwoKinds, <1>14, <2>0 DEF RecsOK, DaysOK, Held, Raced
  <2>2. SameDay(r[1]) /\ SameDump(r[1])
    BY <1>12, <1>14, <2>0, <2>1 DEF Held
  <2>3. SameRec(r)
    BY <1>0, <1>1, <1>u, TwoKinds, <1>14, <2>0, <2>1 DEF SameRec, SameKeeping, InFile, KindOf
  <2> QED
    BY <2>1, <2>2, <2>3, RecFrame
<1> QED
  BY <1>2, <1>3, <1>4, <1>5, <1>6, <1>7, <1>8, <1>9, <1>10, <1>11, <1>13, <1>14 DEF IInv, Types, DaysOK, RecsOK

\* The entry of the normal part is replaced by that of the compressed one.
LEMMA SetFilePartKeeps ==
    ASSUME IInv, SetFilePart
    PROVE  IInv'
<1>0. /\ ServerTypes /\ PartTypes /\ DiskTypes /\ PastTypes /\ InsTypes /\ SyncTypes /\ DumpTypes /\ AdmTypes
      /\ Down /\ Events /\ VecParts /\ InsThread /\ SyncThread /\ DumpThread /\ AdmThread
      /\ Owners /\ DaysOK /\ InsRec /\ RecsOK
  BY DEF IInv, Types
<1>b. Ranged
  BY <1>0, Ranges DEF Types
<1>w. /\ dump.part # 0 /\ DumpDay \in Days /\ <<DumpDay, "comp">> \in cfg' /\ cfg' \subseteq Days \X Kinds
      /\ OneEntry(DumpDay) => \A k \in Kinds : <<DumpDay, k>> \in cfg' <=> k = "comp"
      /\ \A d \in Days, k \in Kinds : d # DumpDay => (<<d, k>> \in cfg' <=> <<d, k>> \in cfg)
  <2> DEFINE e == DumpDay
  <2>1. dump.part # 0 /\ e \in Days
    BY <1>0, <1>b DEF DumpThread, Dumping, Ranged, DumpDay, SetFilePart
  <2>2. PICK c \in DelPartItem(cfg, e) : cfg' = c \cup {<<e, "comp">>}
    BY DEF SetFilePart
  <2> HIDE DEF e
  <2>3. ((\A k \in Kinds : <<e, k>> \notin cfg) /\ c = cfg) \/ \E k \in Kinds : <<e, k>> \in cfg /\ c = cfg \ {<<e, k>>}
    BY <2>2 DEF DelPartItem
  <2>4. cfg' \subseteq Days \X Kinds /\ \A d \in Days, k \in Kinds : d # e => (<<d, k>> \in cfg' <=> <<d, k>> \in cfg)
    BY <1>0, <2>1, <2>2, <2>3, Constants DEF DiskTypes
  <2>5. ASSUME OneEntry(e)
        PROVE  \A k \in Kinds : <<e, k>> \notin c
    <3>1. \A j, k \in Kinds : <<e, j>> \in cfg /\ <<e, k>> \in cfg => j = k
      BY <2>5 DEF OneEntry, Entries
    <3> QED
      BY <2>3, <3>1
  <2>6. OneEntry(e) => \A k \in Kinds : <<e, k>> \in cfg' <=> k = "comp"
    BY <2>2, <2>5
  <2> QED
    BY <2>1, <2>2, <2>4, <2>6 DEF e
<1>1. /\ dump.pc = "config"
      /\ dump.part # 0
      /\ DumpDay \in Days
      /\ <<DumpDay, "comp">> \in cfg' 
      /\ OneEntry(DumpDay) => \A k \in Kinds : <<DumpDay, k>> \in cfg' <=> k = "comp"
      /\ cfg' \subseteq Days \X Kinds
      /\ \A d \in Days, k \in Kinds : d # DumpDay => (<<d, k>> \in cfg' <=> <<d, k>> \in cfg)
      /\ dump'.pc = "swap"
      /\ dump'.ref = dump.ref
      /\ dump'.part = dump.part
      /\ DumpShape'
      /\ UNCHANGED <<server, now, parts, vec, files, log, ins, syncer, adm, dumpPartCode, cancel,
                     acked, late, gone, raced, crashes>>
  BY <1>0, <1>w DEF SetFilePart, DumpStep, DumpTypes, DumpShape, disk, past, memory
<1>u. Up
  BY <1>0, <1>1, BusyIsUp
<1>2. ServerTypes' /\ PartTypes' /\ PastTypes'
  BY <1>0, <1>1 DEF ServerTypes, PartTypes, PastTypes, Part
<1>3. InsTypes' /\ SyncTypes'
  BY <1>0, <1>1 DEF InsTypes, SyncTypes, InsShape, SyncShape
<1>4. AdmTypes'
  BY <1>0, <1>1 DEF AdmTypes, AdmShape
<1>5. Events' /\ VecParts' /\ InsThread'
  BY <1>0, <1>1 DEF Events, VecParts, InsThread, IdleIns, KindOf
<1>6. SyncThread'
  BY <1>0, <1>1 DEF SyncThread, IdleSync, KindOf
<1>7. AdmThread' /\ InsRec'
  BY <1>0, <1>1 DEF AdmThread, InsRec, IdleAdm, Removing, KindOf
<1>8. DiskTypes'
  BY <1>0, <1>1, <1>u, TwoKinds DEF DiskTypes, InsThread
<1>9. DumpTypes'
  BY <1>0, <1>1, <1>u, TwoKinds DEF DumpTypes, DumpShape
<1>10. Down'
  BY <1>0, <1>1, <1>u, TwoKinds DEF Down, IdleIns, IdleSync, IdleDump, IdleAdm, Up
<1>11. DumpThread'
  BY <1>0, <1>1, <1>u, TwoKinds DEF DumpThread, IdleDump, Dumping, KindOf, DumpDay
<1>12. Owners'
  BY <1>0, <1>1, <1>u, TwoKinds DEF Owners, Raced
<1>13. ASSUME NEW d \in Days, DayOK(d), InsOK(d), ~Raced(d)', d # DumpDay
      PROVE  SameDay(d) /\ SameDump(d)
  BY <1>0, <1>1, <1>u, TwoKinds, <1>13
    DEF SameDay, SameDump, DumpFirst, SamePart, DumpingDay, Dumping, DumpDay, RemovingDay, Removing, Entries,
        KindOf, Gone, Up
<1>14. ASSUME NEW d \in Days, ~Raced(d)'
      PROVE  DayOK(d)' /\ InsOK(d)'
  <2>1. DayOK(d) /\ InsOK(d) /\ ~Raced(d)
    BY <1>0, <1>1, <1>14 DEF DaysOK, Raced
  <2>2. CreateHasFile(d)'
    BY <1>0, <1>1, <1>u, <1>14, <2>1 DEF InsOK, CreateHasFile, Gone, RemovingDay, Removing
  <2>3. RefIsKept(d)'
    BY <1>0, <1>1, <1>u, <1>14, <2>1 DEF InsOK, RefIsKept, RemovingDay, Removing, DumpingDay, Dumping, DumpDay
  <2>4. DayOK(d)'
    <3>1. CASE d # DumpDay
      BY <1>0, <1>13, <1>14, <2>1, <3>1, DayFrame DEF Types
    <3>2. CASE d = DumpDay
      <4>0. /\ vec[d] = dump.part /\ vec[d] # 0 /\ ~RemovingDay(d) /\ ~Gone(d) /\ Entries(d)' = {"comp"} /\ files["comp"][d] # NoFile
        <5>1. vec[d] = dump.part /\ files["comp"][d] # NoFile
          BY <1>0, <1>1, <1>u, TwoKinds, <1>14, <2>1, <3>2
            DEF DayOK, DumpHasVec, DumpMadeFile, DumpingDay, Dumping
        <5>2. ~RemovingDay(d) /\ ~Gone(d)
          BY <1>0, <1>1, <1>u, TwoKinds, <1>14, <2>1, <3>2, <5>1 DEF DayOK, RemovedIsOut, GoneIsOut
        <5>3. \A k \in Kinds : <<d, k>> \in cfg' <=> k = "comp"
          BY <1>0, <1>1, <1>u, TwoKinds, <1>14, <2>1, <3>2 DEF DayOK
        <5>4. Entries(d)' = {"comp"}
          BY <1>0, <1>1, <1>u, TwoKinds, <1>14, <2>1, <3>2, <5>3, Constants DEF Entries
        <5> QED
          BY <1>0, <1>1, <1>u, TwoKinds, <1>14, <2>1, <3>2, <5>1, <5>2, <5>4
      <4>1. DumpHasVec(d)'
        BY <1>0, <1>1, <1>u, <1>14, <2>1, <3>2, <4>0 DEF DayOK, DumpHasVec, DumpingDay, Dumping, DumpDay
      <4>2. RemovedIsOut(d)'
        BY <1>0, <1>1, <1>u, <1>14, <2>1, <3>2, <4>0 DEF DayOK, RemovedIsOut, RemovingDay, Removing
      <4>3. WaitHasComp(d)'
        BY <1>0, <1>1, <1>u, <1>14, <2>1, <3>2, <4>0
          DEF DayOK, WaitHasComp, DumpingDay, Dumping, DumpDay, Entries, KindOf
      <4>4. DumpMadeFile(d)'
        BY <1>0, <1>1, <1>u, <1>14, <2>1, <3>2, <4>0
          DEF DayOK, DumpMadeFile, DumpingDay, Dumping, DumpDay, Entries
      <4>5. OneEntry(d)'
        BY <1>0, <1>1, <1>u, <1>14, <2>1, <3>2, <4>0 DEF DayOK, OneEntry, Entries
      <4>6. RefsNoEntry(d)'
        BY <1>0, <1>1, <1>u, TwoKinds, <1>14, <2>1, <3>2, <4>0
          DEF DayOK, RefsNoEntry, DumpingDay, Dumping, DumpDay, RemovingDay, Removing, Entries, KindOf, Gone, Up
      <4>7. OutNoEntry(d)'
        BY <1>0, <1>1, <1>u, <1>14, <2>1, <3>2, <4>0 DEF DayOK, OutNoEntry, Up, Entries
      <4>8. GoneIsOut(d)'
        BY <1>0, <1>1, <1>u, <1>14, <2>1, <3>2, <4>0 DEF DayOK, GoneIsOut, Gone, Entries
      <4>9. AddHasPart(d)'
        BY <1>0, <1>1, <1>u, <1>14, <2>1, <3>2, <4>0 DEF DayOK, AddHasPart, Entries, KindOf
      <4>10. PartHasFile(d)'
        BY <1>0, <1>1, <1>u, <1>14, <2>1, <3>2, <4>0 DEF DayOK, PartHasFile, KindOf, RemovingDay, Removing
      <4>11. EntryIsPart(d)'
        BY <1>0, <1>1, <1>u, <1>14, <2>1, <3>2, <4>0
          DEF DayOK, EntryIsPart, Entries, KindOf, RemovingDay, Removing, DumpThread
      <4> QED
        BY <4>1, <4>2, <4>3, <4>4, <4>5, <4>6, <4>7, <4>8, <4>9, <4>10, <4>11 DEF DayOK
    <3> QED
      BY <3>1, <3>2
  <2> QED
    BY <2>2, <2>3, <2>4 DEF InsOK
<1>15. ASSUME NEW r \in Recs, Held(r)'
      PROVE  RecOK(r)'
  <2>0. r[1] \in Days
    BY PartLifecycleAssumption
  <2>a. CASE ~(r[1] = DumpDay)
    <3>1. Held(r) /\ RecOK(r) /\ DayOK(r[1]) /\ InsOK(r[1])
      BY <1>0, <1>1, <1>u, TwoKinds, <1>15, <2>0, <2>a DEF RecsOK, DaysOK, Held, Raced
    <3>2. SameDay(r[1]) /\ SameDump(r[1])
      BY <1>13, <1>15, <2>0, <3>1, <2>a DEF Held
    <3>3. SameRec(r)
      BY <1>0, <1>1, <1>u, TwoKinds, <1>15, <2>0, <3>1, <2>a DEF SameRec, SameKeeping, InFile, KindOf
    <3> QED
      BY <3>1, <3>2, <3>3, RecFrame
  <2>b. CASE r[1] = DumpDay
    <3>0. /\ Held(r) /\ RecOK(r) /\ DayOK(r[1]) /\ vec[r[1]] = dump.part /\ ~RemovingDay(r[1]) /\ InFile("comp", r)
         /\ Kinds = {"normal", "comp"} /\ ~Gone(r[1])
      <4>1. Held(r) /\ RecOK(r) /\ DayOK(r[1])
        BY <1>0, <1>1, <1>u, TwoKinds, <1>15, <2>0, <2>b DEF RecsOK, DaysOK, Held, Raced
      <4>2. vec[r[1]] = dump.part /\ ~RemovingDay(r[1]) /\ ~Gone(r[1])
        BY <1>0, <1>1, <1>u, TwoKinds, <1>15, <2>0, <2>b, <4>1
          DEF DayOK, DumpHasVec, RemovedIsOut, GoneIsOut, DumpingDay, Dumping
      <4> QED
        BY <1>0, <1>1, <1>u, TwoKinds, <1>15, <2>0, <2>b, <4>1, <4>2, Constants
          DEF RecOK, DumpKeeps, DumpingDay, Dumping
    <3>1. VecKeeps(r)'
      BY <1>0, <1>1, <1>u, <1>15, <2>0, <2>b, <3>0 DEF RecOK, VecKeeps, PartKeeps, InFile, KindOf
    <3>2. RemovedKeeps(r)'
      BY <1>0, <1>1, <1>u, <1>15, <2>0, <2>b, <3>0
        DEF RecOK, RemovedKeeps, RemovingDay, Removing, PartKeeps, InFile, KindOf
    <3>3. SomewhereUp(r)'
      BY <1>0, <1>1, <1>u, <1>15, <2>0, <2>b, <3>0 DEF RecOK, SomewhereUp, Up, Gone, RemovingDay, Removing
    <3>4. SomewhereDown(r)'
      BY <1>0, <1>1, <1>u, <1>15, <2>0, <2>b, <3>0 DEF RecOK, SomewhereDown, Up, Gone, OnDisk
    <3>5. MarkWritten(r)'
      BY <1>0, <1>1, <1>u, <1>15, <2>0, <2>b, <3>0 DEF RecOK, MarkWritten, KindOf, InFile
    <3>6. DumpKeeps(r)'
      BY <1>0, <1>1, <1>u, <1>15, <2>0, <2>b, <3>0 DEF RecOK, DumpKeeps, DumpingDay, Dumping, DumpDay, InFile
    <3>7. CompKeeps(r)'
      BY <1>0, <1>1, <1>u, <1>15, <2>0, <2>b, <3>0 DEF RecOK, CompKeeps, InFile
    <3>8. GoneKeeps(r)'
      BY <1>0, <1>1, <1>u, <1>15, <2>0, <2>b, <3>0 DEF RecOK, GoneKeeps, RemovingDay, Removing, InFile
    <3> QED
      BY <3>1, <3>2, <3>3, <3>4, <3>5, <3>6, <3>7, <3>8 DEF RecOK
  <2> QED
    BY <2>a, <2>b
<1> QED
  BY <1>2, <1>3, <1>4, <1>5, <1>6, <1>7, <1>8, <1>9, <1>10, <1>11, <1>12, <1>14, <1>15
    DEF IInv, Types, DaysOK, RecsOK

\* The compressed file cannot be opened.
LEMMA DumpOpenFailsKeeps ==
    ASSUME IInv, DumpOpenFails
    PROVE  IInv'
<1>0. /\ ServerTypes /\ PartTypes /\ DiskTypes /\ PastTypes /\ InsTypes /\ SyncTypes /\ DumpTypes /\ AdmTypes
      /\ Down /\ Events /\ VecParts /\ InsThread /\ SyncThread /\ DumpThread /\ AdmThread
      /\ Owners /\ DaysOK /\ InsRec /\ RecsOK
  BY DEF IInv, Types
<1>1. /\ dump.pc = "swap"
      /\ dump'.pc = "give up"
      /\ dump'.ref = dump.ref
      /\ dump'.part = dump.part
      /\ DumpShape'
      /\ UNCHANGED <<server, now, parts, vec, cfg, files, log, ins, syncer, adm, dumpPartCode,
                     cancel, acked, late, gone, raced, crashes>>
  BY <1>0 DEF DumpOpenFails, DumpOnly, DumpStep, DumpTypes, DumpShape, disk, past, memory
<1>u. Up
  BY <1>0, <1>1, BusyIsUp
<1>2. ServerTypes' /\ PartTypes' /\ DiskTypes' /\ PastTypes'
  BY <1>0, <1>1 DEF ServerTypes, PartTypes, DiskTypes, PastTypes, Part
<1>3. InsTypes' /\ SyncTypes'
  BY <1>0, <1>1 DEF InsTypes, SyncTypes, InsShape, SyncShape
<1>4. AdmTypes'
  BY <1>0, <1>1 DEF AdmTypes, AdmShape
<1>5. Events' /\ VecParts' /\ InsThread'
  BY <1>0, <1>1 DEF Events, VecParts, InsThread, IdleIns, KindOf
<1>6. SyncThread'
  BY <1>0, <1>1 DEF SyncThread, IdleSync, KindOf
<1>7. AdmThread' /\ InsRec'
  BY <1>0, <1>1 DEF AdmThread, InsRec, IdleAdm, Removing, KindOf
<1>8. DumpTypes'
  BY <1>0, <1>1, <1>u, TwoKinds DEF DumpTypes, DumpShape
<1>9. Down'
  BY <1>0, <1>1, <1>u, TwoKinds DEF Down, IdleIns, IdleSync, IdleDump, IdleAdm, Up
<1>10. DumpThread'
  BY <1>0, <1>1, <1>u, TwoKinds DEF DumpThread, IdleDump, Dumping, KindOf, DumpDay
<1>11. Owners'
  BY <1>0, <1>1, <1>u, TwoKinds DEF Owners, Raced
<1>12. ASSUME NEW d \in Days, DayOK(d), InsOK(d), ~Raced(d)'
      PROVE  SameDay(d) /\ SameDump(d)
  BY <1>0, <1>1, <1>u, TwoKinds, <1>12
    DEF SameDay, SameDump, DumpFirst, SamePart, DumpingDay, Dumping, DumpDay, RemovingDay, Removing, Entries,
        KindOf, Gone, Up, DayOK, DumpHasVec
<1>13. ASSUME NEW d \in Days, ~Raced(d)'
      PROVE  DayOK(d)' /\ InsOK(d)'
  <2>1. DayOK(d) /\ InsOK(d) /\ ~Raced(d)
    BY <1>0, <1>1, <1>13 DEF DaysOK, Raced
  <2>2. CreateHasFile(d)'
    BY <1>0, <1>1, <1>u, <1>13, <2>1 DEF InsOK, CreateHasFile, Gone, RemovingDay, Removing
  <2>3. RefIsKept(d)'
    BY <1>0, <1>1, <1>u, <1>13, <2>1 DEF InsOK, RefIsKept, RemovingDay, Removing, DumpingDay, Dumping, DumpDay
  <2>4. DayOK(d)'
    BY <1>0, <1>12, <1>13, <2>1, DayFrame DEF Types
  <2> QED
    BY <2>2, <2>3, <2>4 DEF InsOK
<1>14. ASSUME NEW r \in Recs, Held(r)'
      PROVE  RecOK(r)'
  <2>0. r[1] \in Days
    BY PartLifecycleAssumption
  <2>1. Held(r) /\ RecOK(r) /\ DayOK(r[1]) /\ InsOK(r[1])
    BY <1>0, <1>1, <1>u, TwoKinds, <1>14, <2>0 DEF RecsOK, DaysOK, Held, Raced
  <2>2. SameDay(r[1]) /\ SameDump(r[1])
    BY <1>12, <1>14, <2>0, <2>1 DEF Held
  <2>3. SameRec(r)
    BY <1>0, <1>1, <1>u, TwoKinds, <1>14, <2>0, <2>1 DEF SameRec, SameKeeping, InFile, KindOf
  <2> QED
    BY <2>1, <2>2, <2>3, RecFrame
<1> QED
  BY <1>2, <1>3, <1>4, <1>5, <1>6, <1>7, <1>8, <1>9, <1>10, <1>11, <1>13, <1>14 DEF IInv, Types, DaysOK, RecsOK

\* The compressed part takes the place of the normal one in partVec_.
LEMMA DumpSwapKeeps ==
    ASSUME IInv, DumpSwap
    PROVE  IInv'
<1>0. /\ ServerTypes /\ PartTypes /\ DiskTypes /\ PastTypes /\ InsTypes /\ SyncTypes /\ DumpTypes /\ AdmTypes
      /\ Down /\ Events /\ VecParts /\ InsThread /\ SyncThread /\ DumpThread /\ AdmThread
      /\ Owners /\ DaysOK /\ InsRec /\ RecsOK
  BY DEF IInv, Types
<1>b. Ranged
  BY <1>0, Ranges DEF Types
<1>c. DumpDay \in Days /\ Len(parts) < MaxParts /\ files["comp"][DumpDay] # NoFile /\ dump.part # 0
  BY <1>0, <1>b DEF DumpSwap, DumpThread, Dumping, DumpDay, Ranged
<1>r. /\ CompPartOf(DumpDay, files["comp"][DumpDay]) \in Part /\ DumpDay \in Days /\ Len(parts) < MaxParts
      /\ parts' = Append(parts, CompPartOf(DumpDay, files["comp"][DumpDay]))
      /\ vec' \in [Days -> 0 .. Len(parts) + 1] /\ vec'[DumpDay] = Len(parts) + 1
      /\ \A d \in Days : d # DumpDay => vec'[d] = vec[d]
  <2> DEFINE e == DumpDay
             f == files["comp"][e]
  <2>0. e \in Days /\ f \in SUBSET Recs
    BY <1>b, <1>c, Constants DEF Ranged
  <2>1. parts' = Append(parts, CompPartOf(e, f)) /\ vec' = [vec EXCEPT ![e] = Len(parts) + 1]
    BY DEF DumpSwap
  <2> HIDE DEF e, f
  <2>2. CompPartOf(e, f) \in Part
    BY <2>0, Constants DEF CompPartOf, Part
  <2>3. vec \in [Days -> 0 .. Len(parts)] /\ Len(parts) \in Nat
    BY <1>0, <1>b DEF PartTypes, Ranged
  <2>4. /\ vec' \in [Days -> 0 .. Len(parts) + 1] /\ vec'[e] = Len(parts) + 1
        /\ \A d \in Days : d # e => vec'[d] = vec[d]
    BY <2>0, <2>1, <2>3
  <2> QED
    BY <1>c, <2>1, <2>2, <2>4 DEF e, f
<1>p. PICK n : /\ n = Len(parts) + 1 /\ Len(parts') = n /\ n \notin 0 .. Len(parts) /\ n \in 1 .. Len(parts')
               /\ \A i : i \in 1 .. Len(parts') <=> i \in 1 .. Len(parts) \/ i = n
               /\ PartTypes' /\ parts'[n] = CompPartOf(DumpDay, files["comp"][DumpDay])
               /\ \A p \in 1 .. Len(parts) : parts'[p] = parts[p]
               /\ vec'[DumpDay] = n /\ \A d \in Days : d # DumpDay => vec'[d] = vec[d]
  BY <1>0, <1>r, PartAdded
<1>q. /\ n # 0 /\ n \in 0 .. Len(parts') /\ ins.part \in 0 .. Len(parts') /\ ins.ref \in 0 .. Len(parts')
      /\ syncer.ref \in 0 .. Len(parts') /\ dump.ref \in 0 .. Len(parts') /\ dump.part \in 0 .. Len(parts')
      /\ adm.part \in 0 .. Len(parts')
  BY <1>b, <1>p DEF Ranged
<1>g. /\ n # 0 /\ vec'[DumpDay] = n
      /\ parts'[n].day = DumpDay
      /\ parts'[n].kind = "comp"
      /\ parts'[n].ro = TRUE
      /\ parts'[n].recs = files["comp"][DumpDay]
      /\ parts'[n].freed = 0
      /\ \A d \in Days : d # DumpDay => vec'[d] = vec[d] /\ (vec[d] # 0 => parts'[vec[d]] = parts[vec[d]])
      /\ \A d \in Days : vec[d] # n
      /\ dump.part # 0 => parts[dump.part].day \in Days
      /\ adm.part # 0 => adm.day \in Days /\ parts[adm.part].day \in Days
      /\ ins.part # n /\ (ins.part # 0 => parts'[ins.part] = parts[ins.part])
      /\ ins.ref # n /\ (ins.ref # 0 => parts'[ins.ref] = parts[ins.ref])
      /\ syncer.ref # n /\ (syncer.ref # 0 => parts'[syncer.ref] = parts[syncer.ref])
      /\ dump.part # n /\ (dump.part # 0 => parts'[dump.part] = parts[dump.part])
      /\ dump.ref # n /\ (dump.ref # 0 => parts'[dump.ref] = parts[dump.ref])
      /\ adm.part # n /\ (adm.part # 0 => parts'[adm.part] = parts[adm.part])
  <2>1. /\ vec'[DumpDay] = n
        /\ parts'[n].day = DumpDay
        /\ parts'[n].kind = "comp"
        /\ parts'[n].ro = TRUE
        /\ parts'[n].recs = files["comp"][DumpDay]
        /\ parts'[n].freed = 0
    BY <1>p DEF NormalPartOf, CompPartOf
  <2>2. /\ \A d \in Days : d # DumpDay => vec'[d] = vec[d] /\ (vec[d] # 0 => parts'[vec[d]] = parts[vec[d]])
        /\ \A d \in Days : vec[d] # n
    BY <1>b, <1>p DEF Ranged
  <2>3. /\ dump.part # 0 => parts[dump.part].day \in Days
        /\ adm.part # 0 => adm.day \in Days /\ parts[adm.part].day \in Days
    BY <1>0, <1>b DEF Ranged, AdmThread
  <2>4. /\ ins.part # n /\ (ins.part # 0 => parts'[ins.part] = parts[ins.part])
        /\ ins.ref # n /\ (ins.ref # 0 => parts'[ins.ref] = parts[ins.ref])
        /\ syncer.ref # n /\ (syncer.ref # 0 => parts'[syncer.ref] = parts[syncer.ref])
        /\ dump.part # n /\ (dump.part # 0 => parts'[dump.part] = parts[dump.part])
        /\ dump.ref # n /\ (dump.ref # 0 => parts'[dump.ref] = parts[dump.ref])
        /\ adm.part # n /\ (adm.part # 0 => parts'[adm.part] = parts[adm.part])
    BY <1>b, <1>p DEF Ranged
  <2> QED
    BY <1>q, <2>1, <2>2, <2>3, <2>4
<1>d. DumpDay' = DumpDay /\ KindOf(dump.part) = "normal" /\ dump' = [dump EXCEPT !.pc = "wait", !.ref = 0]
  <2>1. dump' = [dump EXCEPT !.pc = "wait", !.ref = 0] /\ dump'.part = dump.part
    BY <1>0 DEF DumpSwap, DumpStep, DumpTypes, DumpShape
  <2>2. DumpDay' = DumpDay
    BY <1>c, <1>g, <2>1 DEF DumpDay
  <2>3. KindOf(dump.part) = "normal"
    BY <1>0 DEF DumpThread, Dumping, DumpSwap
  <2> QED
    BY <2>1, <2>2, <2>3
<1>1. /\ dump.pc = "swap"
      /\ dump.part # 0
      /\ DumpDay \in Days
      /\ PartMutexFree
      /\ DumpDay' = DumpDay
      /\ KindOf(dump.part) = "normal"
      /\ dump'.pc = "wait"
      /\ dump'.ref = 0
      /\ dump'.part = dump.part
      /\ DumpShape'
      /\ UNCHANGED <<server, now, cfg, files, log, ins, syncer, adm, dumpPartCode, cancel, acked,
                     late, gone, raced, crashes>>
  BY <1>0, <1>c, <1>d DEF DumpSwap, DumpStep, DumpTypes, DumpShape, disk, past, memory
<1>u. Up
  BY <1>0, <1>1, BusyIsUp
<1>2. ServerTypes' /\ DiskTypes' /\ PastTypes'
  BY <1>0, <1>1 DEF ServerTypes, DiskTypes, PastTypes
<1>3. Events'
  BY <1>0, <1>1 DEF Events
<1>4. InsRec'
  BY <1>0, <1>1 DEF InsRec
<1>5. PartTypes'
  BY <1>p
<1>6. InsTypes'
  BY <1>0, <1>1, <1>u, <1>c, <1>g, TwoKinds, <1>q DEF InsTypes, InsShape
<1>7. SyncTypes'
  BY <1>0, <1>1, <1>u, <1>c, <1>g, TwoKinds, <1>q DEF SyncTypes, SyncShape
<1>8. DumpTypes'
  BY <1>0, <1>1, <1>u, <1>c, <1>g, TwoKinds, <1>q DEF DumpTypes, DumpShape
<1>9. AdmTypes'
  BY <1>0, <1>1, <1>u, <1>c, <1>g, TwoKinds, <1>q DEF AdmTypes, AdmShape
<1>10. Down'
  BY <1>0, <1>1, <1>u, <1>c, <1>g, TwoKinds DEF Down, IdleIns, IdleSync, IdleDump, IdleAdm, Up
<1>11. VecParts'
  BY <1>0, <1>1, <1>u, <1>c, <1>g, TwoKinds DEF VecParts
<1>12. InsThread'
  BY <1>0, <1>1, <1>u, <1>c, <1>g, TwoKinds DEF InsThread, IdleIns, KindOf, PartMutexFree
<1>13. SyncThread'
  BY <1>0, <1>1, <1>u, <1>c, <1>g, TwoKinds DEF SyncThread, IdleSync, KindOf
<1>14. DumpThread'
  <2>1. Dumping' /\ Dumping
    BY <1>1 DEF Dumping
  <2>2. KindOf(dump.part)' = "normal" /\ parts'[dump.part].ro /\ dumpPartCode = DumpDay
    BY <1>0, <1>1, <1>g, <2>1 DEF DumpThread, KindOf
  <2>3. vec'[DumpDay'] # dump'.part
    BY <1>1, <1>g
  <2> QED
    BY <1>1, <2>1, <2>2, <2>3 DEF DumpThread, KindOf
<1>15. AdmThread'
  BY <1>0, <1>1, <1>u, <1>c, <1>g, TwoKinds DEF AdmThread, IdleAdm, Removing, KindOf
<1>16. Owners'
  <2> SUFFICES ASSUME NEW p \in 1 .. Len(parts')
               PROVE  /\ parts'[p].freed = 1 => adm.part # p \/ dump.part # p
                      /\ parts'[p].freed = 2 => adm.part # p /\ dump.part # p
                      /\ adm.part = p /\ dump.part = p => <<"dump", parts'[p].day>> \in raced
                      /\ ~Raced(parts'[p].day) => parts'[p].freed = 0 \/ (parts'[p].freed = 1 /\ adm.part # p /\ dump.part # p)
    BY <1>1 DEF Owners, Raced
  <2>1. CASE p = n
    BY <1>g, <2>1
  <2>2. CASE p \in 1 .. Len(parts)
    BY <1>0, <1>p, <2>2 DEF Owners
  <2> QED
    BY <1>p, <2>1, <2>2
<1>17. ASSUME NEW d \in Days, DayOK(d), InsOK(d), ~Raced(d)', d # DumpDay
      PROVE  SameDay(d) /\ SameDump(d)
  BY <1>0, <1>1, <1>u, <1>c, <1>g, TwoKinds, <1>17
    DEF SameDay, SameDump, DumpFirst, SamePart, DumpingDay, Dumping, DumpDay, RemovingDay, Removing, Entries,
        KindOf, Gone, Up, AdmThread
<1>18. ASSUME NEW d \in Days, ~Raced(d)'
      PROVE  DayOK(d)' /\ InsOK(d)'
  <2>1. DayOK(d) /\ InsOK(d) /\ ~Raced(d)
    BY <1>0, <1>1, <1>18 DEF DaysOK, Raced
  <2>2. CreateHasFile(d)'
    BY <1>1 DEF CreateHasFile, PartMutexFree
  <2>3. RefIsKept(d)'
    <3>1. DayOK(d) /\ RefIsKept(d)
      BY <2>1 DEF InsOK
    <3>2. CASE d = DumpDay
      BY <1>1, <1>g, <3>1, <3>2, <2>1 DEF RefIsKept, DayOK, DumpHasVec, RemovedIsOut, DumpingDay, Dumping
    <3>3. CASE d # DumpDay
      BY <1>1, <1>g, <3>1, <3>3 DEF RefIsKept, DumpingDay, Dumping, RemovingDay, Removing
    <3> QED
      BY <3>2, <3>3
  <2>4. DayOK(d)'
    <3>1. CASE d # DumpDay
      BY <1>0, <1>17, <1>18, <2>1, <3>1, DayFrame DEF Types
    <3>2. CASE d = DumpDay
      <4>0. /\ vec[d] = dump.part /\ ~Gone(d) /\ ~RemovingDay(d) /\ Entries(d) = {"comp"} /\ files["comp"][d] # NoFile
          /\ Entries(d)' = {"comp"} /\ vec'[d] = n /\ ~RemovingDay(d)' /\ ~Gone(d)'
        <5>1. vec[d] = dump.part /\ Entries(d) = {"comp"} /\ files["comp"][d] # NoFile
          BY <1>0, <1>1, <1>u, <1>c, <1>g, TwoKinds, <1>18, <2>1, <3>2
            DEF DayOK, DumpHasVec, DumpMadeFile, DumpingDay, Dumping
        <5>2. ~RemovingDay(d) /\ ~Gone(d)
          BY <1>0, <1>1, <1>u, <1>c, <1>g, TwoKinds, <1>18, <2>1, <3>2, <5>1 DEF DayOK, RemovedIsOut, GoneIsOut
        <5>3. Entries(d)' = Entries(d) /\ (RemovingDay(d)' <=> RemovingDay(d)) /\ (Gone(d)' <=> Gone(d))
          BY <1>1 DEF Entries, RemovingDay, Removing, Gone
        <5> QED
          BY <1>0, <1>1, <1>u, <1>c, <1>g, TwoKinds, <1>18, <2>1, <3>2, <5>1, <5>2, <5>3
      <4>1. DumpHasVec(d)'
        BY <1>0, <1>1, <1>u, <1>c, <1>g, <1>18, <2>1, <3>2, <4>0
          DEF DayOK, DumpHasVec, DumpingDay, Dumping, DumpDay
      <4>2. RemovedIsOut(d)'
        BY <1>0, <1>1, <1>u, <1>c, <1>g, <1>18, <2>1, <3>2, <4>0 DEF DayOK, RemovedIsOut, RemovingDay, Removing
      <4>3. WaitHasComp(d)'
        BY <1>0, <1>1, <1>u, <1>c, <1>g, <1>18, <2>1, <3>2, <4>0
          DEF DayOK, WaitHasComp, DumpingDay, Dumping, DumpDay, Entries, KindOf
      <4>4. DumpMadeFile(d)'
        BY <1>0, <1>1, <1>u, <1>c, <1>g, <1>18, <2>1, <3>2, <4>0
          DEF DayOK, DumpMadeFile, DumpingDay, Dumping, DumpDay, Entries
      <4>5. OneEntry(d)'
        BY <1>0, <1>1, <1>u, <1>c, <1>g, <1>18, <2>1, <3>2, <4>0 DEF DayOK, OneEntry, Entries
      <4>6. RefsNoEntry(d)'
        BY <1>0, <1>1, <1>u, <1>c, <1>g, <1>18, <2>1, <3>2, <4>0 DEF DayOK, RefsNoEntry, Entries, KindOf
      <4>7. OutNoEntry(d)'
        BY <1>0, <1>1, <1>u, <1>c, <1>g, <1>18, <2>1, <3>2, <4>0 DEF DayOK, OutNoEntry, Up, Entries
      <4>8. GoneIsOut(d)'
        BY <1>0, <1>1, <1>u, <1>c, <1>g, <1>18, <2>1, <3>2, <4>0 DEF DayOK, GoneIsOut, Gone, Entries
      <4>9. AddHasPart(d)'
        BY <1>0, <1>1, <1>u, <1>c, <1>g, <1>18, <2>1, <3>2, <4>0 DEF DayOK, AddHasPart, Entries, KindOf
      <4>10. PartHasFile(d)'
        BY <1>1, <1>c, <1>g, <3>2, <4>0 DEF PartHasFile, KindOf
      <4>11. EntryIsPart(d)'
        BY <1>0, <1>1, <1>u, <1>c, <1>g, <1>18, <2>1, <3>2, <4>0
          DEF DayOK, EntryIsPart, Entries, KindOf, RemovingDay, Removing
      <4> QED
        BY <4>1, <4>2, <4>3, <4>4, <4>5, <4>6, <4>7, <4>8, <4>9, <4>10, <4>11 DEF DayOK
    <3> QED
      BY <3>1, <3>2
  <2> QED
    BY <2>2, <2>3, <2>4 DEF InsOK
<1>19. ASSUME NEW r \in Recs, Held(r)'
      PROVE  RecOK(r)'
  <2>0. r[1] \in Days
    BY PartLifecycleAssumption
  <2>a. CASE ~(r[1] = DumpDay)
    <3>1. Held(r) /\ RecOK(r) /\ DayOK(r[1]) /\ InsOK(r[1])
      BY <1>0, <1>1, <1>u, <1>c, <1>g, TwoKinds, <1>19, <2>0, <2>a DEF RecsOK, DaysOK, Held, Raced
    <3>2. SameDay(r[1]) /\ SameDump(r[1])
      BY <1>17, <1>19, <2>0, <3>1, <2>a DEF Held
    <3>3. SameRec(r)
      BY <1>0, <1>1, <1>u, <1>c, <1>g, TwoKinds, <1>19, <2>0, <3>1, <2>a
        DEF SameRec, SameKeeping, InFile, KindOf, AdmThread, RemovingDay
    <3> QED
      BY <3>1, <3>2, <3>3, RecFrame
  <2>b. CASE r[1] = DumpDay
    <3>0. /\ Held(r) /\ RecOK(r) /\ ~RemovingDay(r[1]) /\ ~Gone(r[1]) /\ InFile("comp", r)
         /\ parts'[n].recs = files["comp"][r[1]] /\ Kinds = {"normal", "comp"} 
      <4>1. Held(r) /\ RecOK(r) /\ DayOK(r[1])
        BY <1>0, <1>1, <1>u, <1>c, <1>g, TwoKinds, <1>19, <2>0, <2>b DEF RecsOK, DaysOK, Held, Raced
      <4>2. vec[r[1]] = dump.part /\ ~RemovingDay(r[1]) /\ ~Gone(r[1])
        BY <1>0, <1>1, <1>u, <1>c, <1>g, TwoKinds, <1>19, <2>0, <2>b, <4>1
          DEF DayOK, DumpHasVec, RemovedIsOut, GoneIsOut, DumpingDay, Dumping
      <4> QED
        BY <1>0, <1>1, <1>u, <1>c, <1>g, TwoKinds, <1>19, <2>0, <2>b, <4>1, <4>2, Constants
          DEF RecOK, DumpKeeps, DumpingDay, Dumping
    <3>1. VecKeeps(r)'
      BY <1>0, <1>1, <1>u, <1>c, <1>g, <1>19, <2>0, <2>b, <3>0 DEF RecOK, VecKeeps, PartKeeps, InFile, KindOf
    <3>2. RemovedKeeps(r)'
      BY <1>0, <1>1, <1>u, <1>c, <1>g, <1>19, <2>0, <2>b, <3>0
        DEF RecOK, RemovedKeeps, RemovingDay, Removing, PartKeeps, InFile, KindOf
    <3>3. SomewhereUp(r)'
      BY <1>0, <1>1, <1>u, <1>c, <1>g, <1>19, <2>0, <2>b, <3>0
        DEF RecOK, SomewhereUp, Up, Gone, RemovingDay, Removing
    <3>4. SomewhereDown(r)'
      BY <1>0, <1>1, <1>u, <1>c, <1>g, <1>19, <2>0, <2>b, <3>0 DEF RecOK, SomewhereDown, Up, Gone, OnDisk
    <3>5. MarkWritten(r)'
      BY <1>0, <1>1, <1>u, <1>c, <1>g, <1>19, <2>0, <2>b, <3>0 DEF RecOK, MarkWritten, KindOf, InFile
    <3>6. DumpKeeps(r)'
      BY <1>0, <1>1, <1>u, <1>c, <1>g, <1>19, <2>0, <2>b, <3>0
        DEF RecOK, DumpKeeps, DumpingDay, Dumping, DumpDay, InFile
    <3>7. CompKeeps(r)'
      BY <1>0, <1>1, <1>u, <1>c, <1>g, <1>19, <2>0, <2>b, <3>0 DEF RecOK, CompKeeps, InFile
    <3>8. GoneKeeps(r)'
      BY <1>0, <1>1, <1>u, <1>c, <1>g, <1>19, <2>0, <2>b, <3>0
        DEF RecOK, GoneKeeps, RemovingDay, Removing, InFile
    <3> QED
      BY <3>1, <3>2, <3>3, <3>4, <3>5, <3>6, <3>7, <3>8 DEF RecOK
  <2> QED
    BY <2>a, <2>b
<1> QED
  BY <1>2, <1>3, <1>4, <1>5, <1>6, <1>7, <1>8, <1>9, <1>10, <1>11, <1>12, <1>13, <1>14, <1>15, <1>16, <1>18,
     <1>19
    DEF IInv, Types, DaysOK, RecsOK

\* Without references the normal part is deleted, its file as well: an administrator that took it
\* out before raced with the dump.
LEMMA DumpDeleteKeeps ==
    ASSUME IInv, DumpDelete
    PROVE  IInv'
<1>0. /\ ServerTypes /\ PartTypes /\ DiskTypes /\ PastTypes /\ InsTypes /\ SyncTypes /\ DumpTypes /\ AdmTypes
      /\ Down /\ Events /\ VecParts /\ InsThread /\ SyncThread /\ DumpThread /\ AdmThread
      /\ Owners /\ DaysOK /\ InsRec /\ RecsOK
  BY DEF IInv, Types
<1>b. Ranged
  BY <1>0, Ranges DEF Types
<1>c. /\ DumpDay \in Days /\ dump.part # 0 /\ dump.part \in 1 .. Len(parts) /\ parts[dump.part].freed \in 0 .. 2 /\ 0 # DumpDay
      /\ dump.part \notin {ins.ref, syncer.ref, dump.ref}
      /\ \A d \in Days : vec[d] # dump.part
  <2>1. DumpDay \in Days /\ dump.part # 0 /\ dump.part \in 1 .. Len(parts)
    BY <1>0, <1>b DEF DumpDelete, DumpThread, Dumping, DumpDay, Ranged
  <2>2. parts[dump.part].freed \in 0 .. 2
    BY <1>0, <2>1, PartFields DEF PartTypes
  <2>3. \A d \in Days : vec[d] # dump.part
    BY <1>0, <2>1 DEF DumpDelete, DumpThread, VecParts, DumpDay
  <2> QED
    BY <1>b, <2>1, <2>2, <2>3 DEF DumpDelete, GetRefCntZero, Ranged
<1>f. /\ PartTypes' /\ Len(parts') = Len(parts) /\ parts'[dump.part].freed = parts[dump.part].freed + 1
      /\ \A p \in 1 .. Len(parts) : p # dump.part => parts'[p] = parts[p]
      /\ \A p \in 1 .. Len(parts) : parts'[p].day = parts[p].day /\ parts'[p].kind = parts[p].kind
                                    /\ parts'[p].ro = parts[p].ro /\ parts'[p].recs = parts[p].recs
  <2>1. parts[dump.part].freed # 2
    BY <1>0, <1>c DEF Owners
  <2>2. /\ parts' \in Seq(Part) /\ Len(parts') = Len(parts)
        /\ \A p \in 1 .. Len(parts) : p # dump.part => parts'[p] = parts[p]
        /\ parts'[dump.part].freed = parts[dump.part].freed + 1 /\ parts'[dump.part].day = parts[dump.part].day
        /\ parts'[dump.part].kind = parts[dump.part].kind /\ parts'[dump.part].ro = parts[dump.part].ro
        /\ parts'[dump.part].recs = parts[dump.part].recs
    BY <1>0, <1>c, <2>1, PartFreed DEF DumpDelete
  <2>3. PartTypes'
    BY <1>0, <2>2 DEF PartTypes, Part, DumpDelete
  <2>4. \A p \in 1 .. Len(parts) : parts'[p].day = parts[p].day /\ parts'[p].kind = parts[p].kind
                                    /\ parts'[p].ro = parts[p].ro /\ parts'[p].recs = parts[p].recs
    BY <2>2
  <2> QED
    BY <2>2, <2>3, <2>4
<1>g. /\ Len(parts') = Len(parts)
      /\ \A d \in Days : vec[d] # 0 => parts'[vec[d]] = parts[vec[d]]
      /\ ins.ref # 0 => parts'[ins.ref] = parts[ins.ref]
      /\ syncer.ref # 0 => parts'[syncer.ref] = parts[syncer.ref]
      /\ dump.ref # 0 => parts'[dump.ref] = parts[dump.ref]
      /\ ins.part # 0 => parts'[ins.part].day = parts[ins.part].day /\ parts'[ins.part].kind = parts[ins.part].kind
      /\ adm.part # 0 => /\ parts'[adm.part].day = parts[adm.part].day /\ parts'[adm.part].kind = parts[adm.part].kind
                         /\ parts'[adm.part].ro = parts[adm.part].ro /\ parts'[adm.part].recs = parts[adm.part].recs
  BY <1>b, <1>c, <1>f DEF Ranged
<1>h. /\ files' \in [Kinds -> [Days -> {NoFile} \cup SUBSET Recs]]
      /\ \A k \in Kinds, d \in Days : k # "normal" \/ d # DumpDay => files'[k][d] = files[k][d]
  <2> DEFINE e == DumpDay
  <2>1. files' = [files EXCEPT !["normal"][e] = NoFile] /\ e \in Days
    BY <1>c DEF DumpDelete
  <2> HIDE DEF e
  <2>2. DiskTypes /\ "normal" \in Kinds /\ NoFile \in {NoFile} \cup SUBSET Recs
    BY <1>0, Constants
  <2>3. /\ files' \in [Kinds -> [Days -> {NoFile} \cup SUBSET Recs]]
        /\ \A k \in Kinds, d \in Days : k # "normal" \/ d # e => files'[k][d] = files[k][d]
    BY <2>1, <2>2, FileSet, Zenon
  <2> QED
    BY <2>3 DEF e
<1>1. /\ dump.pc = "wait"
      /\ dump.part # 0
      /\ DumpDay \in Days
      /\ 0 # DumpDay
      /\ ins.ref # dump.part
      /\ dumpPartCode' = 0
      /\ dump'.pc = "next"
      /\ dump'.ref = dump.ref
      /\ dump'.part = 0
      /\ DumpShape'
      /\ UNCHANGED <<server, now, vec, cfg, log, ins, syncer, adm, cancel, acked, late, gone, raced, crashes>>
  BY <1>0, <1>c DEF DumpDelete, DumpStep, GetRefCntZero, DumpTypes, DumpShape, disk, past, memory
<1>u. Up
  BY <1>0, <1>1, BusyIsUp
<1>2. PastTypes'
  BY <1>0, <1>1 DEF PastTypes
<1>3. Events'
  BY <1>0, <1>1 DEF Events
<1>4. InsRec'
  BY <1>0, <1>1 DEF InsRec
<1>5. ServerTypes'
  BY <1>0, <1>1, <1>u, <1>g, TwoKinds DEF ServerTypes
<1>6. PartTypes'
  BY <1>f
<1>7. DiskTypes'
  BY <1>0, <1>1, <1>h DEF DiskTypes
<1>8. InsTypes'
  BY <1>0, <1>1, <1>u, <1>g, TwoKinds, <1>f DEF InsTypes, InsShape
<1>9. SyncTypes'
  BY <1>0, <1>1, <1>u, <1>g, TwoKinds, <1>f DEF SyncTypes, SyncShape
<1>10. DumpTypes'
  BY <1>0, <1>1, <1>u, <1>g, TwoKinds, <1>f DEF DumpTypes, DumpShape
<1>11. AdmTypes'
  BY <1>0, <1>1, <1>u, <1>g, TwoKinds, <1>f DEF AdmTypes, AdmShape
<1>12. Down'
  BY <1>0, <1>1, <1>u, <1>g, TwoKinds DEF Down, IdleIns, IdleSync, IdleDump, IdleAdm, Up
<1>13. VecParts'
  BY <1>0, <1>1, <1>u, <1>g, TwoKinds DEF VecParts
<1>14. InsThread'
  BY <1>0, <1>1, <1>u, <1>g, TwoKinds DEF InsThread, IdleIns, KindOf
<1>15. SyncThread'
  BY <1>0, <1>1, <1>u, <1>g, TwoKinds DEF SyncThread, IdleSync, KindOf
<1>16. DumpThread'
  BY <1>0, <1>1, <1>u, <1>g, TwoKinds DEF DumpThread, IdleDump, Dumping, KindOf, DumpDay
<1>17. AdmThread'
  BY <1>0, <1>1, <1>u, <1>g, TwoKinds DEF AdmThread, IdleAdm, Removing, KindOf
<1>18. Owners'
  <2> DEFINE q == dump.part
  <2> SUFFICES ASSUME NEW p \in 1 .. Len(parts')
               PROVE  /\ parts'[p].freed = 1 => adm.part # p \/ dump'.part # p
                      /\ parts'[p].freed = 2 => adm.part # p /\ dump'.part # p
                      /\ adm.part = p /\ dump'.part = p => <<"dump", parts'[p].day>> \in raced
                      /\ ~Raced(parts'[p].day) => parts'[p].freed = 0 \/ (parts'[p].freed = 1 /\ adm.part # p /\ dump'.part # p)
    BY <1>1 DEF Owners, Raced
  <2>0. p \in 1 .. Len(parts) /\ p # 0
    BY <1>b, <1>f DEF Ranged
  <2>1. CASE p = q
    <3>1. /\ parts[p].freed = 1 => adm.part # p
          /\ parts[p].freed # 2
          /\ adm.part = p => Raced(parts[p].day)
          /\ ~Raced(parts[p].day) => parts[p].freed = 0
      BY <1>0, <2>0, <2>1 DEF Owners, Raced
    <3>2. parts'[p].freed = parts[p].freed + 1 /\ parts[p].freed \in 0 .. 2 /\ parts'[p].day = parts[p].day
      BY <1>f, <1>c, <2>1
    <3> QED
      BY <1>1, <2>0, <2>1, <3>1, <3>2
  <2>2. CASE p # q
    BY <1>0, <1>1, <1>f, <2>0, <2>2 DEF Owners
  <2> QED
    BY <2>1, <2>2
<1>19. ASSUME NEW d \in Days, DayOK(d), InsOK(d), ~Raced(d)', d # DumpDay
      PROVE  SameDay(d) /\ SameDump(d)
  <2>1. RemovingDay(d) => adm.part # 0
    BY <1>0 DEF AdmThread, RemovingDay
  <2>2. ~DumpingDay(d)'
    BY <1>1 DEF DumpingDay, Dumping
  <2>3. SameDay(d)
    BY <1>1, <1>g, <1>h, <1>19, <2>1 DEF SameDay, SamePart, KindOf
  <2> QED
    BY <2>2, <2>3 DEF SameDump
<1>20. ASSUME NEW d \in Days, ~Raced(d)'
      PROVE  DayOK(d)' /\ InsOK(d)'
  <2>1. DayOK(d) /\ InsOK(d) /\ ~Raced(d)
    BY <1>0, <1>1, <1>20 DEF DaysOK, Raced
  <2>2. CreateHasFile(d)'
    <3>1. CASE d = DumpDay
      BY <1>0, <1>1, <2>1, <3>1
        DEF CreateHasFile, InsThread, DayOK, WaitHasComp, DumpingDay, Dumping, RemovingDay, Removing
    <3>2. CASE d # DumpDay
      BY <1>1, <1>h, <2>1, <3>2, Constants DEF InsOK, CreateHasFile, Gone, RemovingDay, Removing
    <3> QED
      BY <3>1, <3>2
  <2>3. RefIsKept(d)'
    BY <1>0, <1>1, <1>u, <1>g, <1>20, <2>1
      DEF InsOK, RefIsKept, RemovingDay, Removing, DumpingDay, Dumping, DumpDay
  <2>4. DayOK(d)'
    <3>1. CASE d # DumpDay
      BY <1>0, <1>19, <1>20, <2>1, <3>1, DayFrame DEF Types
    <3>2. CASE d = DumpDay
      <4>0. /\ Entries(d) = {"comp"} /\ ~Gone(d) /\ files'["comp"][d] # NoFile /\ (RemovingDay(d) <=> RemovingDay(d)')
            /\ vec[d] # 0 => KindOf(vec[d])' = "comp"
            /\ RemovingDay(d) => vec[d] = 0 /\ KindOf(adm.part)' = "comp" /\ KindOf(adm.part)' = KindOf(adm.part)
        <5>1. Entries(d) = {"comp"} /\ ~Gone(d) /\ (RemovingDay(d) => vec[d] = 0)
          BY <1>0, <1>1, <1>u, <1>g, TwoKinds, <1>20, <2>1, <3>2
            DEF DayOK, GoneIsOut, WaitHasComp, RemovedIsOut, DumpingDay, Dumping
        <5>2. vec[d] # 0 => KindOf(vec[d]) = "comp"
          BY <1>0, <1>1, <1>u, <1>g, TwoKinds, <1>20, <2>1, <3>2, <5>1
            DEF DayOK, WaitHasComp, RemovingDay, Removing, DumpingDay, Dumping
        <5>3. RemovingDay(d) => KindOf(adm.part) = "comp"
          BY <1>0, <1>1, <1>u, <1>g, TwoKinds, <1>20, <2>1, <3>2, <5>1
            DEF DayOK, WaitHasComp, RemovingDay, Removing, DumpingDay, Dumping
        <5>4. files["comp"][d] # NoFile
          BY <1>0, <1>1, <1>u, <1>g, TwoKinds, <1>20, <2>1, <3>2, <5>1 DEF DayOK, OneEntry
        <5>5. (RemovingDay(d) <=> RemovingDay(d)') /\ (RemovingDay(d) => adm.part # 0)
          BY <1>0, <1>1 DEF RemovingDay, Removing, AdmThread
        <5> QED
          BY <1>0, <1>1, <1>u, <1>g, TwoKinds, <1>20, <2>1, <3>2, <1>h, <5>1, <5>2, <5>3, <5>4, <5>5, Constants
            DEF KindOf
      <4>1. DumpHasVec(d)'
        BY <1>0, <1>1, <1>u, <1>g, <1>20, <2>1, <3>2, <4>0 DEF DayOK, DumpHasVec, DumpingDay, Dumping, DumpDay
      <4>2. RemovedIsOut(d)'
        BY <1>0, <1>1, <1>u, <1>g, <1>20, <2>1, <3>2, <4>0 DEF DayOK, RemovedIsOut, RemovingDay, Removing
      <4>3. WaitHasComp(d)'
        BY <1>0, <1>1, <1>u, <1>g, <1>20, <2>1, <3>2, <4>0
          DEF DayOK, WaitHasComp, DumpingDay, Dumping, DumpDay, Entries, KindOf
      <4>4. DumpMadeFile(d)'
        BY <1>0, <1>1, <1>u, <1>g, <1>20, <2>1, <3>2, <4>0
          DEF DayOK, DumpMadeFile, DumpingDay, Dumping, DumpDay, Entries
      <4>5. OneEntry(d)'
        BY <1>0, <1>1, <1>u, <1>g, <1>20, <2>1, <3>2, <4>0 DEF DayOK, OneEntry, Entries
      <4>6. RefsNoEntry(d)'
        BY <1>0, <1>1, <1>u, <1>g, <1>20, <2>1, <3>2, <4>0 DEF DayOK, RefsNoEntry, Entries, KindOf
      <4>7. OutNoEntry(d)'
        BY <1>0, <1>1, <1>u, <1>g, <1>20, <2>1, <3>2, <4>0 DEF DayOK, OutNoEntry, Up, Entries
      <4>8. GoneIsOut(d)'
        BY <1>0, <1>1, <1>u, <1>g, <1>20, <2>1, <3>2, <4>0 DEF DayOK, GoneIsOut, Gone, Entries
      <4>9. AddHasPart(d)'
        BY <1>0, <1>1, <1>u, <1>g, <1>20, <2>1, <3>2, <4>0 DEF DayOK, AddHasPart, Entries, KindOf
      <4>10. PartHasFile(d)'
        BY <1>1, <1>h, <3>2, <4>0, Constants DEF PartHasFile
      <4>11. EntryIsPart(d)'
        BY <1>1, <1>g, <3>2, <4>0, <2>1 DEF EntryIsPart, DayOK, KindOf, Entries, RemovingDay, Removing
      <4> QED
        BY <4>1, <4>2, <4>3, <4>4, <4>5, <4>6, <4>7, <4>8, <4>9, <4>10, <4>11 DEF DayOK
    <3> QED
      BY <3>1, <3>2
  <2> QED
    BY <2>2, <2>3, <2>4 DEF InsOK
<1>21. ASSUME NEW r \in Recs, Held(r)'
      PROVE  RecOK(r)'
  <2>0. r[1] \in Days
    BY PartLifecycleAssumption
  <2>a. CASE ~(r[1] = DumpDay)
    <3>1. Held(r) /\ RecOK(r) /\ DayOK(r[1]) /\ InsOK(r[1])
      BY <1>0, <1>1, <1>u, <1>g, TwoKinds, <1>21, <2>0, <2>a DEF RecsOK, DaysOK, Held, Raced
    <3>2. SameDay(r[1]) /\ SameDump(r[1])
      BY <1>19, <1>21, <2>0, <3>1, <2>a DEF Held
    <3>3. SameRec(r)
      BY <1>0, <1>1, <1>u, <1>g, TwoKinds, <1>21, <2>0, <3>1, <2>a, <1>h, <1>b
        DEF SameRec, SameKeeping, InFile, KindOf, AdmThread, RemovingDay
    <3> QED
      BY <3>1, <3>2, <3>3, RecFrame
  <2>b. CASE r[1] = DumpDay
    <3>0. /\ Held(r) /\ RecOK(r) /\ ~Gone(r[1]) /\ Kinds = {"normal", "comp"} /\ files'["comp"][r[1]] = files["comp"][r[1]]
          /\ vec[r[1]] # 0 => KindOf(vec[r[1]])' = "comp" /\ r \in parts'[vec[r[1]]].recs
          /\ RemovingDay(r[1])' => RemovingDay(r[1]) /\ KindOf(adm.part)' = "comp" /\ r \in parts'[adm.part].recs
          /\ InFile("comp", r) /\ InFile("comp", r)'
      <4>1. Held(r) /\ RecOK(r) /\ DayOK(r[1])
        BY <1>0, <1>1, <1>u, <1>g, TwoKinds, <1>21, <2>0, <2>b DEF RecsOK, DaysOK, Held, Raced
      <4>2. Entries(r[1]) = {"comp"} /\ ~Gone(r[1])
        BY <1>0, <1>1, <1>u, <1>g, TwoKinds, <1>21, <2>0, <2>b, <4>1
          DEF DayOK, WaitHasComp, GoneIsOut, DumpingDay, Dumping
      <4>3. vec[r[1]] # 0 => KindOf(vec[r[1]]) = "comp" /\ r \in parts[vec[r[1]]].recs
        BY <1>0, <1>1, <1>u, <1>g, TwoKinds, <1>21, <2>0, <2>b, <4>1
          DEF RecOK, VecKeeps, PartKeeps, DayOK, WaitHasComp, RemovedIsOut, RemovingDay, Removing, DumpingDay,
              Dumping
      <4>4. RemovingDay(r[1]) => KindOf(adm.part) = "comp" /\ r \in parts[adm.part].recs /\ adm.part # 0
        BY <1>0, <1>1, <1>u, <1>g, TwoKinds, <1>21, <2>0, <2>b, <4>1
          DEF RecOK, RemovedKeeps, PartKeeps, DayOK, WaitHasComp, RemovedIsOut, RemovingDay, Removing,
              DumpingDay, Dumping, AdmThread
      <4>5. InFile("comp", r)
        BY <1>0, <1>1, <1>u, <1>g, TwoKinds, <1>21, <2>0, <2>b, <4>1, <4>2 DEF RecOK, CompKeeps, Entries
      <4>6. RemovingDay(r[1])' => RemovingDay(r[1])
        BY <1>1 DEF RemovingDay, Removing
      <4> QED
        BY <1>0, <1>1, <1>u, <1>g, TwoKinds, <1>21, <2>0, <2>b, <1>h, <4>1, <4>2, <4>3, <4>4, <4>5, <4>6,
           Constants
          DEF KindOf, InFile
    <3>1. VecKeeps(r)'
      BY <1>0, <1>1, <1>u, <1>g, <1>21, <2>0, <2>b, <3>0 DEF RecOK, VecKeeps, PartKeeps, InFile, KindOf
    <3>2. RemovedKeeps(r)'
      BY <1>0, <1>1, <1>u, <1>g, <1>21, <2>0, <2>b, <3>0
        DEF RecOK, RemovedKeeps, RemovingDay, Removing, PartKeeps, InFile, KindOf
    <3>3. SomewhereUp(r)'
      BY <1>0, <1>1, <1>u, <1>g, <1>21, <2>0, <2>b, <3>0 DEF RecOK, SomewhereUp, Up, Gone, RemovingDay, Removing
    <3>4. SomewhereDown(r)'
      BY <1>0, <1>1, <1>u, <1>g, <1>21, <2>0, <2>b, <3>0 DEF RecOK, SomewhereDown, Up, Gone, OnDisk
    <3>5. MarkWritten(r)'
      BY <1>0, <1>1, <1>u, <1>g, <1>21, <2>0, <2>b, <3>0 DEF RecOK, MarkWritten, KindOf, InFile
    <3>6. DumpKeeps(r)'
      BY <1>0, <1>1, <1>u, <1>g, <1>21, <2>0, <2>b, <3>0
        DEF RecOK, DumpKeeps, DumpingDay, Dumping, DumpDay, InFile
    <3>7. CompKeeps(r)'
      BY <1>0, <1>1, <1>u, <1>g, <1>21, <2>0, <2>b, <3>0 DEF RecOK, CompKeeps, InFile
    <3>8. GoneKeeps(r)'
      BY <1>0, <1>1, <1>u, <1>g, TwoKinds, <1>21, <2>0, <2>b, <3>0
        DEF RecOK, GoneKeeps, DumpingDay, Dumping, DumpDay, RemovingDay, Removing, Entries, KindOf, Gone, Up,
            InFile, PartKeeps, OnDisk
    <3> QED
      BY <3>1, <3>2, <3>3, <3>4, <3>5, <3>6, <3>7, <3>8 DEF RecOK
  <2> QED
    BY <2>a, <2>b
<1> QED
  BY <1>2, <1>3, <1>4, <1>5, <1>6, <1>7, <1>8, <1>9, <1>10, <1>11, <1>12, <1>13, <1>14, <1>15, <1>16, <1>17,
     <1>18, <1>20, <1>21
    DEF IInv, Types, DaysOK, RecsOK

\* dumpPartCode_ is -1 again.
LEMMA DumpClearKeeps ==
    ASSUME IInv, DumpClear
    PROVE  IInv'
<1>0. /\ ServerTypes /\ PartTypes /\ DiskTypes /\ PastTypes /\ InsTypes /\ SyncTypes /\ DumpTypes /\ AdmTypes
      /\ Down /\ Events /\ VecParts /\ InsThread /\ SyncThread /\ DumpThread /\ AdmThread
      /\ Owners /\ DaysOK /\ InsRec /\ RecsOK
  BY DEF IInv, Types
<1>b. 0 \in 0 .. Len(parts) /\ \A p \in 1 .. Len(parts) : p # 0
  BY <1>0 DEF PartTypes
<1>1. /\ dump.pc = "clear" \/ dump.pc = "give up"
      /\ dump.part # 0
      /\ dumpPartCode' = 0
      /\ dump'.pc = "idle" => dump' = IdleDump
      /\ dump'.ref \in {0, dump.ref} /\ dump'.part = 0 /\ dump'.pc \in {"next", "idle"}
      /\ 0 \in 0 .. Len(parts)
      /\ \A p \in 1 .. Len(parts) : p # 0
      /\ DumpShape'
      /\ UNCHANGED <<server, now, parts, vec, cfg, files, log, ins, syncer, adm, cancel, acked,
                     late, gone, raced, crashes>>
  BY <1>0, <1>b DEF DumpClear, DumpStep, DumpThread, Dumping, IdleDump, DumpTypes, DumpShape, disk, past, memory
<1>u. Up
  BY <1>0, <1>1, BusyIsUp
<1>2. PartTypes' /\ DiskTypes' /\ PastTypes'
  BY <1>0, <1>1 DEF PartTypes, DiskTypes, PastTypes, Part
<1>3. InsTypes' /\ SyncTypes'
  BY <1>0, <1>1 DEF InsTypes, SyncTypes, InsShape, SyncShape
<1>4. AdmTypes'
  BY <1>0, <1>1 DEF AdmTypes, AdmShape
<1>5. Events' /\ VecParts' /\ InsThread'
  BY <1>0, <1>1 DEF Events, VecParts, InsThread, IdleIns, KindOf
<1>6. SyncThread'
  BY <1>0, <1>1 DEF SyncThread, IdleSync, KindOf
<1>7. AdmThread' /\ InsRec'
  BY <1>0, <1>1 DEF AdmThread, InsRec, IdleAdm, Removing, KindOf
<1>8. ServerTypes'
  BY <1>0, <1>1, <1>u, TwoKinds DEF ServerTypes
<1>9. DumpTypes'
  BY <1>0, <1>1, <1>u, TwoKinds DEF DumpTypes, DumpShape
<1>10. Down'
  BY <1>0, <1>1, <1>u, TwoKinds DEF Down, IdleIns, IdleSync, IdleDump, IdleAdm, Up
<1>11. DumpThread'
  BY <1>0, <1>1, <1>u, TwoKinds DEF DumpThread, IdleDump, Dumping, KindOf, DumpDay
<1>12. Owners'
  BY <1>0, <1>1, <1>u, TwoKinds DEF Owners, Raced
<1>13. ASSUME NEW d \in Days, DayOK(d), InsOK(d), ~Raced(d)'
      PROVE  SameDay(d) /\ SameDump(d)
  BY <1>0, <1>1, <1>u, TwoKinds, <1>13
    DEF SameDay, SameDump, DumpFirst, SamePart, DumpingDay, Dumping, DumpDay, RemovingDay, Removing, Entries,
        KindOf, Gone, Up
<1>14. ASSUME NEW d \in Days, ~Raced(d)'
      PROVE  DayOK(d)' /\ InsOK(d)'
  <2>1. DayOK(d) /\ InsOK(d) /\ ~Raced(d)
    BY <1>0, <1>1, <1>14 DEF DaysOK, Raced
  <2>2. CreateHasFile(d)'
    BY <1>0, <1>1, <1>u, <1>14, <2>1 DEF InsOK, CreateHasFile, Gone, RemovingDay, Removing
  <2>3. RefIsKept(d)'
    BY <1>0, <1>1, <1>u, <1>14, <2>1
      DEF InsOK, RefIsKept, RemovingDay, Removing, DumpingDay, Dumping, DumpDay, DayOK, DumpHasVec
  <2>4. DayOK(d)'
    BY <1>0, <1>13, <1>14, <2>1, DayFrame DEF Types
  <2> QED
    BY <2>2, <2>3, <2>4 DEF InsOK
<1>15. ASSUME NEW r \in Recs, Held(r)'
      PROVE  RecOK(r)'
  <2>0. r[1] \in Days
    BY PartLifecycleAssumption
  <2>1. Held(r) /\ RecOK(r) /\ DayOK(r[1]) /\ InsOK(r[1])
    BY <1>0, <1>1, <1>u, TwoKinds, <1>15, <2>0 DEF RecsOK, DaysOK, Held, Raced
  <2>2. SameDay(r[1]) /\ SameDump(r[1])
    BY <1>13, <1>15, <2>0, <2>1 DEF Held
  <2>3. SameRec(r)
    BY <1>0, <1>1, <1>u, TwoKinds, <1>15, <2>0, <2>1 DEF SameRec, SameKeeping, InFile, KindOf
  <2> QED
    BY <2>1, <2>2, <2>3, RecFrame
<1> QED
  BY <1>2, <1>3, <1>4, <1>5, <1>6, <1>7, <1>8, <1>9, <1>10, <1>11, <1>12, <1>14, <1>15
    DEF IInv, Types, DaysOK, RecsOK

-----------------------------------------------------------------------------
(* The administrator.                                                      *)

\* A file becomes a part again: the day is not gone any more.
LEMMA AttachPartKeeps ==
    ASSUME IInv, NEW e \in Days, NEW k \in Kinds, AttachPart(e, k)
    PROVE  IInv'
<1>0. /\ ServerTypes /\ PartTypes /\ DiskTypes /\ PastTypes /\ InsTypes /\ SyncTypes /\ DumpTypes /\ AdmTypes
      /\ Down /\ Events /\ VecParts /\ InsThread /\ SyncThread /\ DumpThread /\ AdmThread
      /\ Owners /\ DaysOK /\ InsRec /\ RecsOK
  BY DEF IInv, Types
<1>b. Ranged
  BY <1>0, Ranges DEF Types
<1>v. Up
  BY DEF AttachPart, AdmBegins
<1>c. Len(parts) < MaxParts /\ files[k][e] # NoFile /\ vec[e] = 0 /\ adm.part = 0 /\ adm.day = 0
  BY <1>0 DEF AttachPart, AdmBegins, AdmThread, IdleAdm
<1> DEFINE x == IF k = "normal" THEN NormalPartOf(e, files[k][e]) ELSE CompPartOf(e, files[k][e])
<1>x. x \in Part /\ x.day = e /\ x.kind = k /\ x.recs = files[k][e] /\ x.freed = 0
  <2>1. files[k][e] \in SUBSET Recs
    BY <1>b, <1>c DEF Ranged
  <2> QED
    BY <2>1, Constants DEF NormalPartOf, CompPartOf, Part
<1>r. /\ x \in Part /\ e \in Days /\ Len(parts) < MaxParts
      /\ parts' = Append(parts, x)
      /\ vec' \in [Days -> 0 .. Len(parts) + 1] /\ vec'[e] = Len(parts) + 1
      /\ \A d \in Days : d # e => vec'[d] = vec[d]
  <2>1. vec' = [vec EXCEPT ![e] = Len(parts) + 1] /\ vec \in [Days -> 0 .. Len(parts)] /\ Len(parts) \in Nat
    BY <1>0, <1>b DEF AttachPart, PartTypes, Ranged
  <2>2. /\ vec' \in [Days -> 0 .. Len(parts) + 1] /\ vec'[e] = Len(parts) + 1
        /\ \A d \in Days : d # e => vec'[d] = vec[d]
    BY <2>1
  <2>3. parts' = Append(parts, x)
    BY DEF AttachPart
  <2> QED
    BY <1>c, <1>x, <2>2, <2>3
<1> HIDE DEF x
<1>s. /\ gone' \subseteq gone /\ (\A j \in Kinds : <<e, j>> \notin gone')
      /\ \A d \in Days, j \in Kinds : d # e => (<<d, j>> \in gone' <=> <<d, j>> \in gone)
      /\ acked' \subseteq acked
      /\ \A r \in Recs : r[1] = e /\ r \in acked' => <<e, k>> \in gone \/ r \in files[k][e]
  <2>1. gone' = gone \ ({e} \X Kinds)
    BY DEF AttachPart
  <2>2. acked' = IF <<e, k>> \in gone THEN acked ELSE acked \ (Of(e, Recs) \ files[k][e])
    BY DEF AttachPart
  <2>3. gone' \subseteq gone /\ \A j \in Kinds : <<e, j>> \notin gone'
    BY <2>1
  <2>4. \A d \in Days, j \in Kinds : d # e => (<<d, j>> \in gone' <=> <<d, j>> \in gone)
    BY <2>1
  <2>5. acked' \subseteq acked /\ \A r \in Recs : r[1] = e /\ r \in acked' => <<e, k>> \in gone \/ r \in files[k][e]
    BY <2>2 DEF Of
  <2> QED
    BY <2>3, <2>4, <2>5
<1>p. PICK n : /\ n = Len(parts) + 1 /\ Len(parts') = n /\ n \notin 0 .. Len(parts) /\ n \in 1 .. Len(parts')
               /\ \A i : i \in 1 .. Len(parts') <=> i \in 1 .. Len(parts) \/ i = n
               /\ PartTypes' /\ parts'[n] = x /\ \A p \in 1 .. Len(parts) : parts'[p] = parts[p]
               /\ vec'[e] = n /\ \A d \in Days : d # e => vec'[d] = vec[d]
  BY <1>0, <1>r, PartAdded
<1>q. /\ n # 0 /\ n \in 0 .. Len(parts') /\ ins.part \in 0 .. Len(parts') /\ ins.ref \in 0 .. Len(parts')
      /\ syncer.ref \in 0 .. Len(parts') /\ dump.ref \in 0 .. Len(parts') /\ dump.part \in 0 .. Len(parts')
      /\ adm.part \in 0 .. Len(parts')
  BY <1>b, <1>p DEF Ranged
<1>g. /\ n # 0 /\ vec'[e] = n
      /\ parts'[n].day = e
      /\ parts'[n].kind = k
      /\ parts'[n].recs = files[k][e]
      /\ parts'[n].freed = 0
      /\ \A d \in Days : d # e => vec'[d] = vec[d] /\ (vec[d] # 0 => parts'[vec[d]] = parts[vec[d]])
      /\ \A d \in Days : vec[d] # n
      /\ dump.part # 0 => parts[dump.part].day \in Days
      /\ adm.part # 0 => adm.day \in Days /\ parts[adm.part].day \in Days
      /\ ins.part # n /\ (ins.part # 0 => parts'[ins.part] = parts[ins.part])
      /\ ins.ref # n /\ (ins.ref # 0 => parts'[ins.ref] = parts[ins.ref])
      /\ syncer.ref # n /\ (syncer.ref # 0 => parts'[syncer.ref] = parts[syncer.ref])
      /\ dump.part # n /\ (dump.part # 0 => parts'[dump.part] = parts[dump.part])
      /\ dump.ref # n /\ (dump.ref # 0 => parts'[dump.ref] = parts[dump.ref])
      /\ adm.part # n /\ (adm.part # 0 => parts'[adm.part] = parts[adm.part])
  <2>1. /\ vec'[e] = n
        /\ parts'[n].day = e
        /\ parts'[n].kind = k
        /\ parts'[n].recs = files[k][e]
        /\ parts'[n].freed = 0
    BY <1>p, <1>x DEF NormalPartOf, CompPartOf
  <2>2. /\ \A d \in Days : d # e => vec'[d] = vec[d] /\ (vec[d] # 0 => parts'[vec[d]] = parts[vec[d]])
        /\ \A d \in Days : vec[d] # n
    BY <1>b, <1>p DEF Ranged
  <2>3. /\ dump.part # 0 => parts[dump.part].day \in Days
        /\ adm.part # 0 => adm.day \in Days /\ parts[adm.part].day \in Days
    BY <1>0, <1>b DEF Ranged, AdmThread
  <2>4. /\ ins.part # n /\ (ins.part # 0 => parts'[ins.part] = parts[ins.part])
        /\ ins.ref # n /\ (ins.ref # 0 => parts'[ins.ref] = parts[ins.ref])
        /\ syncer.ref # n /\ (syncer.ref # 0 => parts'[syncer.ref] = parts[syncer.ref])
        /\ dump.part # n /\ (dump.part # 0 => parts'[dump.part] = parts[dump.part])
        /\ dump.ref # n /\ (dump.ref # 0 => parts'[dump.ref] = parts[dump.ref])
        /\ adm.part # n /\ (adm.part # 0 => parts'[adm.part] = parts[adm.part])
    BY <1>b, <1>p DEF Ranged
  <2> QED
    BY <1>q, <2>1, <2>2, <2>3, <2>4
<1>1. /\ adm.pc = "idle"
      /\ adm.part = 0
      /\ adm.day = 0
      /\ PartMutexFree
      /\ e \in Days
      /\ k \in Kinds
      /\ vec[e] = 0
      /\ adm.done + crashes < MaxEvents
      /\ files[k][e] # NoFile
      /\ gone' \subseteq gone
      /\ acked' \subseteq acked
      /\ \A j \in Kinds : <<e, j>> \notin gone'
      /\ \A d \in Days, j \in Kinds : d # e => (<<d, j>> \in gone' <=> <<d, j>> \in gone)
      /\ \A r \in Recs : r[1] = e /\ r \in acked' => <<e, k>> \in gone \/ r \in files[k][e]
      /\ adm'.pc = "add"
      /\ adm'.kind = k
      /\ adm'.day = e
      /\ adm'.part = 0
      /\ adm'.done = adm.done
      /\ AdmShape'
      /\ UNCHANGED <<server, now, cfg, files, log, ins, syncer, dump, dumpPartCode, cancel, late,
                     raced, crashes>>
  BY <1>0, <1>c, <1>p, <1>s, Constants
    DEF AttachPart, AdmBegins, AdmStep, AdmThread, IdleAdm, Of, AdmTypes, AdmShape, disk, past, memory
<1>2. ServerTypes' /\ DiskTypes'
  BY <1>0, <1>1 DEF ServerTypes, DiskTypes
<1>3. InsRec'
  BY <1>0, <1>1 DEF InsRec
<1>4. PartTypes'
  BY <1>p
<1>5. PastTypes'
  BY <1>0, <1>1, <1>v, <1>g, TwoKinds DEF PastTypes
<1>6. InsTypes'
  BY <1>0, <1>1, <1>v, <1>g, TwoKinds, <1>q DEF InsTypes, InsShape
<1>7. SyncTypes'
  BY <1>0, <1>1, <1>v, <1>g, TwoKinds, <1>q DEF SyncTypes, SyncShape
<1>8. DumpTypes'
  BY <1>0, <1>1, <1>v, <1>g, TwoKinds, <1>q DEF DumpTypes, DumpShape
<1>9. AdmTypes'
  BY <1>0, <1>1, <1>v, <1>g, TwoKinds, <1>b, <1>q DEF AdmTypes, AdmShape, Ranged
<1>10. Down'
  BY <1>0, <1>1, <1>v, <1>g, TwoKinds DEF Down, IdleIns, IdleSync, IdleDump, IdleAdm, Up
<1>11. Events'
  BY <1>0, <1>1, PartLifecycleAssumption DEF Events
<1>12. VecParts'
  BY <1>0, <1>1, <1>v, <1>g, TwoKinds DEF VecParts
<1>13. InsThread'
  BY <1>0, <1>1, <1>v, <1>g, TwoKinds DEF InsThread, IdleIns, KindOf, PartMutexFree
<1>14. SyncThread'
  BY <1>0, <1>1, <1>v, <1>g, TwoKinds DEF SyncThread, IdleSync, KindOf
<1>15. DumpThread'
  <2>1. Dumping' <=> Dumping
    BY <1>1 DEF Dumping
  <2>2. dump.part # 0 => DumpDay' = DumpDay /\ KindOf(dump.part)' = KindOf(dump.part) /\ parts'[dump.part].ro = parts[dump.part].ro
    BY <1>1, <1>g DEF DumpDay, KindOf
  <2>3. dump.part # 0 /\ vec[DumpDay] # dump.part => vec'[DumpDay] # dump.part
    BY <1>g DEF DumpDay
  <2>4. dump'.pc = "idle" => dump' = IdleDump
    BY <1>0, <1>1 DEF DumpThread
  <2>5. dump'.ref # 0 => parts'[dump'.ref].freed = 0
    BY <1>0, <1>1, <1>g DEF DumpThread
  <2>6. (dump'.part # 0 <=> Dumping') /\ (Dumping' => KindOf(dump.part)' = "normal" /\ parts'[dump'.part].ro)
    BY <1>0, <1>1, <2>1, <2>2 DEF DumpThread
  <2>7. /\ Dumping' /\ dump'.pc # "wait" => dump'.ref = dump'.part
        /\ dump'.pc = "wait" => vec'[DumpDay'] # dump'.part
    BY <1>0, <1>1, <2>1, <2>2, <2>3 DEF DumpThread, Dumping
  <2>8. dumpPartCode' = IF Dumping' /\ dump'.pc # "mark" THEN DumpDay' ELSE 0
    BY <1>0, <1>1, <2>1, <2>2 DEF DumpThread
  <2> QED
    BY <2>4, <2>5, <2>6, <2>7, <2>8, Zenon DEF DumpThread, IdleDump, KindOf
<1>16. AdmThread'
  BY <1>0, <1>1, <1>v, <1>g, TwoKinds DEF AdmThread, IdleAdm, Removing, KindOf
<1>17. Owners'
  <2> SUFFICES ASSUME NEW p \in 1 .. Len(parts')
               PROVE  /\ parts'[p].freed = 1 => adm'.part # p \/ dump'.part # p
                      /\ parts'[p].freed = 2 => adm'.part # p /\ dump'.part # p
                      /\ adm'.part = p /\ dump'.part = p => <<"dump", parts'[p].day>> \in raced'
                      /\ ~Raced(parts'[p].day) => parts'[p].freed = 0 \/ (parts'[p].freed = 1 /\ adm'.part # p /\ dump'.part # p)
    BY <1>1 DEF Owners, Raced
  <2>1. CASE p = n
    BY <1>1, <1>g, <2>1
  <2>2. CASE p \in 1 .. Len(parts)
    BY <1>0, <1>1, <1>p, <2>2 DEF Owners
  <2> QED
    BY <1>p, <2>1, <2>2
<1>18. ASSUME NEW d \in Days, DayOK(d), InsOK(d), ~Raced(d)', d # e
      PROVE  SameDay(d) /\ SameDump(d)
  <2>1. adm.day # d /\ adm'.day # d
    BY <1>1, <1>18, Constants
  <2>3. DumpingDay(d)' => DumpingDay(d)
    BY <1>0, <1>1, <1>g DEF DumpingDay, Dumping, DumpDay, DumpThread
  <2>2. SameDay(d)
    BY <1>1, <1>g, <1>18, <2>1 DEF SameDay, SamePart, KindOf
  <2> QED
    BY <1>1, <2>2, <2>3 DEF SameDump
<1>19. ASSUME NEW d \in Days, ~Raced(d)'
      PROVE  DayOK(d)' /\ InsOK(d)'
  <2>1. DayOK(d) /\ InsOK(d) /\ ~Raced(d)
    BY <1>0, <1>1, <1>19 DEF DaysOK, Raced
  <2>2. CreateHasFile(d)'
    BY <1>1 DEF CreateHasFile, PartMutexFree
  <2>3. RefIsKept(d)'
    BY <1>0, <1>1, <1>v, <1>g, <1>19, <2>1
      DEF InsOK, RefIsKept, RemovingDay, Removing, DumpingDay, Dumping, DumpDay
  <2>4. DayOK(d)'
    <3>1. CASE d # e
      BY <1>0, <1>18, <1>19, <2>1, <3>1, DayFrame DEF Types
    <3>2. CASE d = e
      <4>0. /\ Entries(d) = {} /\ Entries(d)' = {} /\ ~DumpingDay(d)' /\ ~RemovingDay(d)' /\ ~Gone(d)'
            /\ KindOf(n)' = k /\ files'[k][d] # NoFile /\ vec'[d] = n /\ n # 0
        <5>1. Entries(d) = {}
          BY <1>0, <1>1, <1>v, <1>g, TwoKinds, <1>19, <2>1, <3>2 DEF DayOK, OutNoEntry
        <5>2. ~DumpingDay(d)
          BY <1>0, <5>1, <1>1, <1>v, <1>g, TwoKinds, <1>19, <2>1, <3>2
            DEF DayOK, DumpHasVec, WaitHasComp, DumpingDay, Dumping, DumpThread
        <5>3. ~DumpingDay(d)'
          BY <1>0, <1>1, <1>g, <5>2 DEF DumpingDay, Dumping, DumpDay, DumpThread
        <5>4. ~RemovingDay(d)' /\ ~Gone(d)'
          BY <1>1, <3>2 DEF RemovingDay, Removing, Gone
        <5>5. Entries(d)' = {}
          BY <1>1, <5>1 DEF Entries
        <5> QED
          BY <1>1, <1>g, <3>2, <5>1, <5>3, <5>4, <5>5 DEF KindOf
      <4>1. DumpHasVec(d)'
        BY <1>0, <1>1, <1>v, <1>g, <1>19, <2>1, <3>2, <4>0 DEF DayOK, DumpHasVec, DumpingDay, Dumping, DumpDay
      <4>2. RemovedIsOut(d)'
        BY <1>0, <1>1, <1>v, <1>g, <1>19, <2>1, <3>2, <4>0 DEF DayOK, RemovedIsOut, RemovingDay, Removing
      <4>3. WaitHasComp(d)'
        BY <1>0, <1>1, <1>v, <1>g, <1>19, <2>1, <3>2, <4>0
          DEF DayOK, WaitHasComp, DumpingDay, Dumping, DumpDay, Entries, KindOf
      <4>4. DumpMadeFile(d)'
        BY <1>0, <1>1, <1>v, <1>g, <1>19, <2>1, <3>2, <4>0
          DEF DayOK, DumpMadeFile, DumpingDay, Dumping, DumpDay, Entries
      <4>5. OneEntry(d)'
        BY <1>0, <1>1, <1>v, <1>g, <1>19, <2>1, <3>2, <4>0 DEF DayOK, OneEntry, Entries
      <4>6. RefsNoEntry(d)'
        BY <1>0, <1>1, <1>v, <1>g, <1>19, <2>1, <3>2, <4>0 DEF DayOK, RefsNoEntry, Entries, KindOf
      <4>7. OutNoEntry(d)'
        BY <1>0, <1>1, <1>v, <1>g, <1>19, <2>1, <3>2, <4>0 DEF DayOK, OutNoEntry, Up, Entries
      <4>8. GoneIsOut(d)'
        BY <1>0, <1>1, <1>v, <1>g, <1>19, <2>1, <3>2, <4>0 DEF DayOK, GoneIsOut, Gone, Entries
      <4>9. AddHasPart(d)'
        BY <1>0, <1>1, <1>v, <1>g, <1>19, <2>1, <3>2, <4>0 DEF DayOK, AddHasPart, Entries, KindOf
      <4>10. PartHasFile(d)'
        BY <1>0, <1>1, <1>v, <1>g, <1>19, <2>1, <3>2, <4>0 DEF DayOK, PartHasFile, KindOf, RemovingDay, Removing
      <4>11. EntryIsPart(d)'
        BY <1>0, <1>1, <1>v, <1>g, <1>19, <2>1, <3>2, <4>0
          DEF DayOK, EntryIsPart, Entries, KindOf, RemovingDay, Removing
      <4> QED
        BY <4>1, <4>2, <4>3, <4>4, <4>5, <4>6, <4>7, <4>8, <4>9, <4>10, <4>11 DEF DayOK
    <3> QED
      BY <3>1, <3>2
  <2> QED
    BY <2>2, <2>3, <2>4 DEF InsOK
<1>20. ASSUME NEW r \in Recs, Held(r)'
      PROVE  RecOK(r)'
  <2>0. r[1] \in Days
    BY PartLifecycleAssumption
  <2>a. CASE ~(r[1] = e)
    <3>1. Held(r) /\ RecOK(r) /\ DayOK(r[1]) /\ InsOK(r[1])
      BY <1>0, <1>1, <1>v, <1>g, TwoKinds, <1>20, <2>0, <2>a DEF RecsOK, DaysOK, Held, Raced
    <3>2. SameDay(r[1]) /\ SameDump(r[1])
      BY <1>18, <1>20, <2>0, <3>1, <2>a DEF Held
    <3>3. SameRec(r)
      BY <1>0, <1>1, <1>v, <1>g, TwoKinds, <1>20, <2>0, <3>1, <2>a
        DEF SameRec, SameKeeping, InFile, KindOf, AdmThread, RemovingDay
    <3> QED
      BY <3>1, <3>2, <3>3, RecFrame
  <2>b. CASE r[1] = e
    <3>0. /\ Kinds = {"normal", "comp"} /\ InFile(k, r) /\ r \in parts'[n].recs /\ <<r[1], "comp">> \notin cfg /\ ~DumpingDay(r[1])'
          /\ ~RemovingDay(r[1])' /\ KindOf(n)' = k /\ (\A j \in Kinds : <<r[1], j>> \notin gone') 
      <4>1. Held(r) /\ RecOK(r) /\ DayOK(r[1])
        BY <1>0, <1>1, <1>v, <1>g, TwoKinds, <1>20, <2>0, <2>b DEF RecsOK, DaysOK, Held, Raced
      <4>2. ~RemovingDay(r[1]) /\ ~RemovingDay(r[1])'
        BY <1>0, <1>1, <1>v, <1>g, TwoKinds, <1>20, <2>0, <2>b DEF RemovingDay, Removing
      <4>3. InFile(k, r)
        BY <1>0, <1>1, <1>v, <1>g, TwoKinds, <1>20, <2>0, <2>b, <4>1, <4>2 DEF RecOK, GoneKeeps, InFile, Held
      <4>4. Entries(r[1]) = {}
        BY <1>0, <1>1, <1>v, <1>g, TwoKinds, <1>20, <2>0, <2>b, <4>1 DEF DayOK, OutNoEntry
      <4>5. ~DumpingDay(r[1])
        BY <1>0, <1>1, <2>b, <4>1, <4>4 DEF DayOK, DumpHasVec, WaitHasComp, DumpingDay, Dumping, DumpThread
      <4>6. ~DumpingDay(r[1])'
        BY <1>0, <1>1, <1>g, <4>5 DEF DumpingDay, Dumping, DumpDay, DumpThread
      <4>7. <<r[1], "comp">> \notin cfg
        BY <4>4, Constants DEF Entries
      <4> QED
        BY <1>1, <1>g, <2>b, <4>2, <4>3, <4>6, <4>7, Constants DEF InFile, KindOf
    <3>1. VecKeeps(r)'
      BY <1>0, <1>1, <1>v, <1>g, <1>20, <2>0, <2>b, <3>0 DEF RecOK, VecKeeps, PartKeeps, InFile, KindOf
    <3>2. RemovedKeeps(r)'
      BY <1>0, <1>1, <1>v, <1>g, <1>20, <2>0, <2>b, <3>0
        DEF RecOK, RemovedKeeps, RemovingDay, Removing, PartKeeps, InFile, KindOf
    <3>3. SomewhereUp(r)'
      BY <1>0, <1>1, <1>v, <1>g, <1>20, <2>0, <2>b, <3>0 DEF RecOK, SomewhereUp, Up, Gone, RemovingDay, Removing
    <3>4. SomewhereDown(r)'
      BY <1>0, <1>1, <1>v, <1>g, <1>20, <2>0, <2>b, <3>0 DEF RecOK, SomewhereDown, Up, Gone, OnDisk
    <3>5. MarkWritten(r)'
      BY <1>0, <1>1, <1>v, <1>g, <1>20, <2>0, <2>b, <3>0 DEF RecOK, MarkWritten, KindOf, InFile
    <3>6. DumpKeeps(r)'
      BY <1>0, <1>1, <1>v, <1>g, <1>20, <2>0, <2>b, <3>0
        DEF RecOK, DumpKeeps, DumpingDay, Dumping, DumpDay, InFile
    <3>7. CompKeeps(r)'
      BY <1>0, <1>1, <1>v, <1>g, <1>20, <2>0, <2>b, <3>0 DEF RecOK, CompKeeps, InFile
    <3>8. GoneKeeps(r)'
      BY <1>0, <1>1, <1>v, <1>g, <1>20, <2>0, <2>b, <3>0 DEF RecOK, GoneKeeps, RemovingDay, Removing, InFile
    <3> QED
      BY <3>1, <3>2, <3>3, <3>4, <3>5, <3>6, <3>7, <3>8 DEF RecOK
  <2> QED
    BY <2>a, <2>b
<1> QED
  BY <1>2, <1>3, <1>4, <1>5, <1>6, <1>7, <1>8, <1>9, <1>10, <1>11, <1>12, <1>13, <1>14, <1>15, <1>16, <1>17,
     <1>19, <1>20
    DEF IInv, Types, DaysOK, RecsOK

\* The attached part gets its entry, a second one if the part was compressed meanwhile.
LEMMA AddFilePartKeeps ==
    ASSUME IInv, AddFilePart
    PROVE  IInv'
<1>0. /\ ServerTypes /\ PartTypes /\ DiskTypes /\ PastTypes /\ InsTypes /\ SyncTypes /\ DumpTypes /\ AdmTypes
      /\ Down /\ Events /\ VecParts /\ InsThread /\ SyncThread /\ DumpThread /\ AdmThread
      /\ Owners /\ DaysOK /\ InsRec /\ RecsOK
  BY DEF IInv, Types
<1>s. /\ raced \subseteq raced' /\ raced' \subseteq raced \cup {<<"attach", adm.day>>} /\ adm.day \in Days /\ adm.kind \in Kinds
      /\ cfg' \subseteq Days \X Kinds
      /\ \A d \in Days, j \in Kinds : <<d, j>> \in cfg' <=> <<d, j>> \in cfg \/ (d = adm.day /\ j = adm.kind)
      /\ <<"attach", adm.day>> \notin raced' => Entries(adm.day) = {}
  <2>1. raced' = raced \cup (IF \E k \in Kinds : <<adm.day, k>> \in cfg THEN {<<"attach", adm.day>>} ELSE {})
    BY DEF AddFilePart
  <2>2. adm.day \in Days /\ adm.kind \in Kinds
    BY <1>0 DEF AdmThread, AdmTypes, AddFilePart
  <2>3. cfg' = cfg \cup {<<adm.day, adm.kind>>} /\ cfg \subseteq Days \X Kinds
    BY <1>0 DEF AddFilePart, DiskTypes
  <2>4. ASSUME Entries(adm.day) # {}
        PROVE  <<"attach", adm.day>> \in raced'
    BY <2>1, <2>4 DEF Entries
  <2> QED
    BY <2>1, <2>2, <2>3, <2>4
<1>1. /\ adm.pc = "add"
      /\ adm.part = 0
      /\ adm' = IdleAdm(adm.done + 1)
      /\ adm'.pc = "idle" /\ adm'.part = 0 /\ adm'.day = 0
      /\ adm.done \in Nat
      /\ adm'.done = adm.done + 1
      /\ adm.day \in Days
      /\ adm.kind \in Kinds
      /\ raced \subseteq raced'
      /\ raced' \subseteq raced \cup {<<"attach", adm.day>>}
      /\ cfg' \subseteq Days \X Kinds
      /\ \A d \in Days, j \in Kinds : <<d, j>> \in cfg' <=> <<d, j>> \in cfg \/ (d = adm.day /\ j = adm.kind)
      /\ <<"attach", adm.day>> \notin raced' => Entries(adm.day) = {}
      /\ AdmShape'
      /\ UNCHANGED <<server, now, parts, vec, files, log, ins, syncer, dump, dumpPartCode, cancel,
                     acked, late, gone, crashes>>
  BY <1>0, <1>s
    DEF AddFilePart, AdmStep, AdmThread, Removing, IdleAdm, Events, AdmTypes, AdmShape, disk, past, memory
<1>u. Up
  BY <1>0, <1>1, BusyIsUp
<1>2. ServerTypes' /\ PartTypes'
  BY <1>0, <1>1 DEF ServerTypes, PartTypes, Part
<1>3. InsTypes' /\ SyncTypes'
  BY <1>0, <1>1 DEF InsTypes, SyncTypes, InsShape, SyncShape
<1>4. DumpTypes'
  BY <1>0, <1>1 DEF DumpTypes, DumpShape
<1>5. VecParts'
  BY <1>0, <1>1 DEF VecParts
<1>6. SyncThread' /\ DumpThread'
  BY <1>0, <1>1 DEF SyncThread, DumpThread, IdleSync, KindOf, IdleDump, Dumping, DumpDay
<1>7. InsRec'
  BY <1>0, <1>1 DEF InsRec
<1>8. DiskTypes'
  BY <1>0, <1>1, <1>u, TwoKinds DEF DiskTypes, InsThread
<1>9. PastTypes'
  BY <1>0, <1>1 DEF PastTypes
<1>10. AdmTypes'
  BY <1>0, <1>1, Constants DEF AdmTypes, AdmShape, IdleAdm
<1>11. Down'
  BY <1>0, <1>1, <1>u, TwoKinds DEF Down, IdleIns, IdleSync, IdleDump, IdleAdm, Up
<1>12. Events'
  BY <1>0, <1>1, PartLifecycleAssumption DEF Events
<1>13. InsThread'
  BY <1>0, <1>1, <1>u, TwoKinds DEF InsThread, IdleIns, KindOf
<1>14. AdmThread'
  BY <1>1 DEF AdmThread, IdleAdm, Removing
<1>15. Owners'
  BY <1>0, <1>1, <1>u, TwoKinds DEF Owners, Raced, AdmThread
<1>16. ASSUME NEW d \in Days, DayOK(d), InsOK(d), ~Raced(d)', d # adm.day
      PROVE  SameDay(d) /\ SameDump(d)
  <2>1. adm.day # d /\ adm'.day # d
    BY <1>1, <1>16, Constants
  <2>2. SameDay(d)
    BY <1>1, <1>16, <2>1 DEF SameDay, SamePart, KindOf
  <2>3. DumpingDay(d)' => DumpingDay(d)
    BY <1>1 DEF DumpingDay, Dumping, DumpDay
  <2> QED
    BY <1>1, <2>2, <2>3 DEF SameDump
<1>17. ASSUME NEW d \in Days, ~Raced(d)'
      PROVE  DayOK(d)' /\ InsOK(d)'
  <2>1. DayOK(d) /\ InsOK(d) /\ ~Raced(d)
    BY <1>0, <1>1, <1>17 DEF DaysOK, Raced
  <2>2. CreateHasFile(d)'
    BY <1>0, <1>1, <1>u, <1>17, <2>1 DEF InsOK, CreateHasFile, Gone, RemovingDay, Removing
  <2>3. RefIsKept(d)'
    BY <1>0, <1>1, <1>u, <1>17, <2>1 DEF InsOK, RefIsKept, RemovingDay, Removing, DumpingDay, Dumping, DumpDay
  <2>4. DayOK(d)'
    <3>1. CASE d # adm.day
      BY <1>0, <1>16, <1>17, <2>1, <3>1, DayFrame DEF Types
    <3>2. CASE d = adm.day
      <4>0. /\ Entries(d) = {} /\ Entries(d)' = {adm.kind} /\ ~(DumpingDay(d)' /\ dump.pc \in {"swap", "wait"}) /\ ~RemovingDay(d)' /\ ~Gone(d)'
            /\ vec[d] # 0 /\ KindOf(vec[d]) = adm.kind /\ KindOf(vec[d])' = adm.kind /\ files[adm.kind][d] # NoFile
        <5>1. Entries(d) = {}
          BY <1>1, <1>17, <3>2 DEF Raced
        <5>2. vec[d] # 0 /\ KindOf(vec[d]) = adm.kind
          BY <1>1, <2>1, <3>2, <5>1 DEF DayOK, AddHasPart
        <5>3. ~Gone(d) /\ ~RemovingDay(d)'
          BY <1>1, <2>1, <5>2 DEF DayOK, GoneIsOut, RemovingDay, Removing
        <5>4. files[adm.kind][d] # NoFile
          BY <2>1, <5>2 DEF DayOK, PartHasFile
        <5>5. ~(DumpingDay(d) /\ dump.pc \in {"swap", "wait"})
          BY <2>1, <5>1 DEF DayOK, WaitHasComp, DumpMadeFile
        <5>6. Entries(d)' = {adm.kind}
          BY <1>1, <3>2, <5>1 DEF Entries
        <5> QED
          BY <1>1, <5>1, <5>2, <5>3, <5>4, <5>5, <5>6 DEF DumpingDay, Dumping, DumpDay, Gone, KindOf
      <4>1. DumpHasVec(d)'
        BY <1>0, <1>1, <1>u, <1>17, <2>1, <3>2, <4>0 DEF DayOK, DumpHasVec, DumpingDay, Dumping, DumpDay
      <4>2. RemovedIsOut(d)'
        BY <1>0, <1>1, <1>u, <1>17, <2>1, <3>2, <4>0 DEF DayOK, RemovedIsOut, RemovingDay, Removing
      <4>3. WaitHasComp(d)'
        BY <1>0, <1>1, <1>u, <1>17, <2>1, <3>2, <4>0
          DEF DayOK, WaitHasComp, DumpingDay, Dumping, DumpDay, Entries, KindOf
      <4>4. DumpMadeFile(d)'
        BY <1>0, <1>1, <1>u, <1>17, <2>1, <3>2, <4>0
          DEF DayOK, DumpMadeFile, DumpingDay, Dumping, DumpDay, Entries
      <4>5. OneEntry(d)'
        BY <1>0, <1>1, <1>u, <1>17, <2>1, <3>2, <4>0 DEF DayOK, OneEntry, Entries
      <4>6. RefsNoEntry(d)'
        BY <1>0, <1>1, <1>u, <1>17, <2>1, <3>2, <4>0 DEF DayOK, RefsNoEntry, Entries, KindOf
      <4>7. OutNoEntry(d)'
        BY <1>0, <1>1, <1>u, <1>17, <2>1, <3>2, <4>0 DEF DayOK, OutNoEntry, Up, Entries
      <4>8. GoneIsOut(d)'
        BY <1>0, <1>1, <1>u, <1>17, <2>1, <3>2, <4>0 DEF DayOK, GoneIsOut, Gone, Entries
      <4>9. AddHasPart(d)'
        BY <1>0, <1>1, <1>u, <1>17, <2>1, <3>2, <4>0 DEF DayOK, AddHasPart, Entries, KindOf
      <4>10. PartHasFile(d)'
        BY <1>0, <1>1, <1>u, <1>17, <2>1, <3>2, <4>0 DEF DayOK, PartHasFile, KindOf, RemovingDay, Removing
      <4>11. EntryIsPart(d)'
        BY <1>0, <1>1, <1>u, <1>17, <2>1, <3>2, <4>0
          DEF DayOK, EntryIsPart, Entries, KindOf, RemovingDay, Removing
      <4> QED
        BY <4>1, <4>2, <4>3, <4>4, <4>5, <4>6, <4>7, <4>8, <4>9, <4>10, <4>11 DEF DayOK
    <3> QED
      BY <3>1, <3>2
  <2> QED
    BY <2>2, <2>3, <2>4 DEF InsOK
<1>18. ASSUME NEW r \in Recs, Held(r)'
      PROVE  RecOK(r)'
  <2>0. r[1] \in Days
    BY PartLifecycleAssumption
  <2>a. CASE ~(r[1] = adm.day)
    <3>1. Held(r) /\ RecOK(r) /\ DayOK(r[1]) /\ InsOK(r[1])
      BY <1>0, <1>1, <1>u, TwoKinds, <1>18, <2>0, <2>a DEF RecsOK, DaysOK, Held, Raced
    <3>2. SameDay(r[1]) /\ SameDump(r[1])
      BY <1>16, <1>18, <2>0, <3>1, <2>a DEF Held
    <3>3. SameRec(r)
      BY <1>0, <1>1, <1>u, TwoKinds, <1>18, <2>0, <3>1, <2>a DEF SameRec, SameKeeping, InFile, KindOf
    <3> QED
      BY <3>1, <3>2, <3>3, RecFrame
  <2>b. CASE r[1] = adm.day
    <3>0. /\ Held(r) /\ RecOK(r) /\ vec[r[1]] # 0 /\ KindOf(vec[r[1]]) = adm.kind /\ ~RemovingDay(r[1]) /\ ~RemovingDay(r[1])'
          /\ adm.kind = "comp" => InFile("comp", r)
      <4>1. Held(r) /\ RecOK(r) /\ DayOK(r[1])
        BY <1>0, <1>1, <1>u, TwoKinds, <1>18, <2>0, <2>b DEF RecsOK, DaysOK, Held, Raced
      <4>2. ~RemovingDay(r[1]) /\ ~RemovingDay(r[1])'
        BY <1>1 DEF RemovingDay, Removing
      <4>3. vec[r[1]] # 0 /\ KindOf(vec[r[1]]) = adm.kind
        <5>1. Entries(r[1]) = {}
          BY <1>1, <2>b, <1>18 DEF Held, Raced
        <5> QED
          BY <1>1, <2>b, <4>1, <5>1 DEF DayOK, AddHasPart
      <4> QED
        BY <4>1, <4>2, <4>3 DEF RecOK, VecKeeps, PartKeeps
    <3>1. VecKeeps(r)'
      BY <1>0, <1>1, <1>u, <1>18, <2>0, <2>b, <3>0 DEF RecOK, VecKeeps, PartKeeps, InFile, KindOf
    <3>2. RemovedKeeps(r)'
      BY <1>0, <1>1, <1>u, <1>18, <2>0, <2>b, <3>0
        DEF RecOK, RemovedKeeps, RemovingDay, Removing, PartKeeps, InFile, KindOf
    <3>3. SomewhereUp(r)'
      BY <1>0, <1>1, <1>u, <1>18, <2>0, <2>b, <3>0 DEF RecOK, SomewhereUp, Up, Gone, RemovingDay, Removing
    <3>4. SomewhereDown(r)'
      BY <1>0, <1>1, <1>u, <1>18, <2>0, <2>b, <3>0 DEF RecOK, SomewhereDown, Up, Gone, OnDisk
    <3>5. MarkWritten(r)'
      BY <1>0, <1>1, <1>u, <1>18, <2>0, <2>b, <3>0 DEF RecOK, MarkWritten, KindOf, InFile
    <3>6. DumpKeeps(r)'
      BY <1>0, <1>1, <1>u, <1>18, <2>0, <2>b, <3>0 DEF RecOK, DumpKeeps, DumpingDay, Dumping, DumpDay, InFile
    <3>7. CompKeeps(r)'
      BY <1>0, <1>1, <1>u, <1>18, <2>0, <2>b, <3>0 DEF RecOK, CompKeeps, InFile
    <3>8. GoneKeeps(r)'
      BY <1>0, <1>1, <1>u, <1>18, <2>0, <2>b, <3>0 DEF RecOK, GoneKeeps, RemovingDay, Removing, InFile
    <3> QED
      BY <3>1, <3>2, <3>3, <3>4, <3>5, <3>6, <3>7, <3>8 DEF RecOK
  <2> QED
    BY <2>a, <2>b
<1> QED
  BY <1>2, <1>3, <1>4, <1>5, <1>6, <1>7, <1>8, <1>9, <1>10, <1>11, <1>12, <1>13, <1>14, <1>15, <1>17, <1>18
    DEF IInv, Types, DaysOK, RecsOK

\* A part is taken out of partVec_: the day was raced if the part was being compressed.
LEMMA RemovePartKeeps ==
    ASSUME IInv, NEW op, NEW e \in Days, RemovePart(op, e)
    PROVE  IInv'
<1>0. /\ ServerTypes /\ PartTypes /\ DiskTypes /\ PastTypes /\ InsTypes /\ SyncTypes /\ DumpTypes /\ AdmTypes
      /\ Down /\ Events /\ VecParts /\ InsThread /\ SyncThread /\ DumpThread /\ AdmThread
      /\ Owners /\ DaysOK /\ InsRec /\ RecsOK
  BY DEF IInv, Types
<1>b. Ranged
  BY <1>0, Ranges DEF Types
<1>v. Up
  BY DEF RemovePart, AdmBegins
<1>s. /\ adm.part = 0 /\ adm.day = 0 /\ parts[vec[e]].day = e /\ parts[vec[e]].freed = 0
      /\ vec'[e] = 0 /\ (\A d \in Days : d # e => vec'[d] = vec[d]) /\ vec' \in [Days -> 0 .. Len(parts)]
      /\ raced \subseteq raced' /\ raced' \subseteq raced \cup {<<"dump", e>>} /\ e # 0 /\ vec[e] \in 0 .. Len(parts)
      /\ dump.part = vec[e] => <<"dump", e>> \in raced'
  <2>1. vec' = [vec EXCEPT ![e] = 0] /\ vec \in [Days -> 0 .. Len(parts)] /\ 0 \in 0 .. Len(parts)
    BY <1>0, <1>b DEF RemovePart, PartTypes, Ranged
  <2>2. raced' = raced \cup (IF dump.part = vec[e] THEN {<<"dump", e>>} ELSE {})
    BY DEF RemovePart
  <2>3. adm.part = 0 /\ adm.day = 0
    BY <1>0 DEF RemovePart, AdmBegins, AdmThread, IdleAdm
  <2>4. parts[vec[e]].day = e /\ parts[vec[e]].freed = 0
    BY <1>0 DEF RemovePart, VecParts
  <2> QED
    BY <1>b, <2>1, <2>2, <2>3, <2>4 DEF Ranged
<1>1. /\ adm.pc = "idle"
      /\ adm.part = 0
      /\ adm.day = 0
      /\ PartMutexFree
      /\ e \in Days
      /\ e # 0
      /\ vec[e] # 0
      /\ vec[e] \in 0 .. Len(parts)
      /\ adm.done + crashes < MaxEvents
      /\ raced \subseteq raced'
      /\ raced' \subseteq raced \cup {<<"dump", e>>}
      /\ dump.part = vec[e] => <<"dump", e>> \in raced'
      /\ vec'[e] = 0
      /\ \A d \in Days : d # e => vec'[d] = vec[d]
      /\ vec' \in [Days -> 0 .. Len(parts)]
      /\ parts[vec[e]].day = e
      /\ parts[vec[e]].freed = 0
      /\ adm'.pc = "cancel"
      /\ adm'.kind = adm.kind
      /\ adm'.day = e
      /\ adm'.part = vec[e]
      /\ adm'.done = adm.done
      /\ AdmShape'
      /\ UNCHANGED <<server, now, parts, cfg, files, log, ins, syncer, dump, dumpPartCode, cancel,
                     acked, late, gone, crashes>>
  BY <1>0, <1>s DEF RemovePart, AdmBegins, AdmStep, AdmTypes, AdmShape, disk, past, memory
<1>2. ServerTypes' /\ DiskTypes'
  BY <1>0, <1>1 DEF ServerTypes, DiskTypes
<1>3. InsTypes' /\ SyncTypes'
  BY <1>0, <1>1 DEF InsTypes, SyncTypes, InsShape, SyncShape
<1>4. DumpTypes'
  BY <1>0, <1>1 DEF DumpTypes, DumpShape
<1>5. SyncThread'
  BY <1>0, <1>1 DEF SyncThread, IdleSync, KindOf
<1>6. InsRec'
  BY <1>0, <1>1 DEF InsRec
<1>7. PartTypes'
  BY <1>0, <1>1, <1>v, TwoKinds DEF PartTypes, Part
<1>8. PastTypes'
  BY <1>0, <1>1 DEF PastTypes
<1>9. AdmTypes'
  BY <1>0, <1>1, <1>v, TwoKinds DEF AdmTypes, AdmShape
<1>10. Down'
  BY <1>0, <1>1, <1>v, TwoKinds DEF Down, IdleIns, IdleSync, IdleDump, IdleAdm, Up
<1>11. Events'
  BY <1>0, <1>1, PartLifecycleAssumption DEF Events
<1>12. VecParts'
  BY <1>0, <1>1, <1>v, TwoKinds DEF VecParts
<1>13. InsThread'
  BY <1>0, <1>1, <1>v, TwoKinds DEF InsThread, IdleIns, KindOf, PartMutexFree
<1>14. DumpThread'
  <2>1. Dumping => dump.part # 0 /\ DumpDay' = DumpDay
    BY <1>0, <1>1 DEF DumpThread, DumpDay
  <2>2. dump.pc = "wait" => vec'[DumpDay'] # dump.part
    BY <1>0, <1>1, <1>b, <2>1 DEF DumpThread, Dumping, DumpDay, Ranged
  <2>3. Dumping' <=> Dumping
    BY <1>1 DEF Dumping
  <2> QED
    BY <1>0, <1>1, <2>1, <2>2, <2>3 DEF DumpThread, IdleDump, KindOf
<1>15. AdmThread'
  BY <1>0, <1>1, <1>v, TwoKinds DEF AdmThread, IdleAdm, Removing, KindOf
<1>16. Owners'
  <2> SUFFICES ASSUME NEW p \in 1 .. Len(parts)
               PROVE  /\ parts[p].freed = 1 => adm'.part # p \/ dump.part # p
                      /\ parts[p].freed = 2 => adm'.part # p /\ dump.part # p
                      /\ adm'.part = p /\ dump.part = p => <<"dump", parts[p].day>> \in raced'
                      /\ ~Raced(parts[p].day)' => parts[p].freed = 0 \/ (parts[p].freed = 1 /\ adm'.part # p /\ dump.part # p)
    BY <1>1 DEF Owners, Raced
  <2>1. CASE p = vec[e]
    <3>1. parts[p].freed = 0 /\ parts[p].day = e /\ (dump.part = p => <<"dump", e>> \in raced')
      BY <1>1, <2>1
    <3> QED
      BY <3>1
  <2>2. CASE p # vec[e]
    BY <1>0, <1>1, <2>2 DEF Owners, Raced
  <2> QED
    BY <2>1, <2>2
<1>17. ASSUME NEW d \in Days, DayOK(d), InsOK(d), ~Raced(d)', d # e
      PROVE  SameDay(d) /\ SameDump(d)
  <2>1. adm.day # d /\ adm'.day # d
    BY <1>1, <1>17, Constants
  <2>2. SameDay(d)
    BY <1>1, <1>17, <2>1 DEF SameDay, SamePart, KindOf
  <2>3. DumpingDay(d)' => DumpingDay(d)
    BY <1>1 DEF DumpingDay, Dumping, DumpDay
  <2> QED
    BY <1>1, <2>2, <2>3 DEF SameDump
<1>18. ASSUME NEW d \in Days, ~Raced(d)'
      PROVE  DayOK(d)' /\ InsOK(d)'
  <2>1. DayOK(d) /\ InsOK(d) /\ ~Raced(d)
    BY <1>0, <1>1, <1>18 DEF DaysOK, Raced
  <2>2. CreateHasFile(d)'
    BY <1>1 DEF CreateHasFile, PartMutexFree
  <2>3. RefIsKept(d)'
    BY <1>0, <1>1, <1>v, <1>18, <2>1 DEF InsOK, RefIsKept, RemovingDay, Removing, DumpingDay, Dumping, DumpDay
  <2>4. DayOK(d)'
    <3>1. CASE d # e
      BY <1>0, <1>17, <1>18, <2>1, <3>1, DayFrame DEF Types
    <3>2. CASE d = e
      <4>0. /\ dump.part # vec[d] /\ (DumpingDay(d) => dump.pc = "wait") /\ ~Gone(d)
            /\ RemovingDay(d)' /\ (DumpingDay(d)' <=> DumpingDay(d)) /\ Entries(d)' = Entries(d)
            /\ KindOf(adm.part)' = KindOf(vec[d])
        <5>1. dump.part # vec[d]
          BY <1>1, <1>18, <3>2 DEF Raced
        <5>2. DumpingDay(d) => dump.pc = "wait"
          BY <2>1, <5>1 DEF DayOK, DumpHasVec
        <5>3. ~Gone(d)
          BY <1>1, <2>1, <3>2 DEF DayOK, GoneIsOut
        <5> QED
          BY <1>1, <3>2, <5>1, <5>2, <5>3
            DEF RemovingDay, Removing, DumpingDay, Dumping, DumpDay, Entries, KindOf
      <4>1. DumpHasVec(d)'
        BY <1>0, <1>1, <1>v, <1>18, <2>1, <3>2, <4>0 DEF DayOK, DumpHasVec, DumpingDay, Dumping, DumpDay
      <4>2. RemovedIsOut(d)'
        BY <1>0, <1>1, <1>v, <1>18, <2>1, <3>2, <4>0 DEF DayOK, RemovedIsOut, RemovingDay, Removing
      <4>3. WaitHasComp(d)'
        BY <1>0, <1>1, <1>v, <1>18, <2>1, <3>2, <4>0
          DEF DayOK, WaitHasComp, DumpingDay, Dumping, DumpDay, Entries, KindOf
      <4>4. DumpMadeFile(d)'
        BY <1>0, <1>1, <1>v, <1>18, <2>1, <3>2, <4>0
          DEF DayOK, DumpMadeFile, DumpingDay, Dumping, DumpDay, Entries
      <4>5. OneEntry(d)'
        BY <1>0, <1>1, <1>v, <1>18, <2>1, <3>2, <4>0 DEF DayOK, OneEntry, Entries
      <4>6. RefsNoEntry(d)'
        BY <1>0, <1>1, <1>v, <1>18, <2>1, <3>2, <4>0 DEF DayOK, RefsNoEntry, Entries, KindOf
      <4>7. OutNoEntry(d)'
        BY <1>0, <1>1, <1>v, <1>18, <2>1, <3>2, <4>0 DEF DayOK, OutNoEntry, Up, Entries
      <4>8. GoneIsOut(d)'
        BY <1>0, <1>1, <1>v, <1>18, <2>1, <3>2, <4>0 DEF DayOK, GoneIsOut, Gone, Entries
      <4>9. AddHasPart(d)'
        BY <1>0, <1>1, <1>v, <1>18, <2>1, <3>2, <4>0 DEF DayOK, AddHasPart, Entries, KindOf
      <4>10. PartHasFile(d)'
        BY <1>0, <1>1, <1>v, <1>18, <2>1, <3>2, <4>0 DEF DayOK, PartHasFile, KindOf, RemovingDay, Removing
      <4>11. EntryIsPart(d)'
        BY <1>0, <1>1, <1>v, <1>18, <2>1, <3>2, <4>0
          DEF DayOK, EntryIsPart, Entries, KindOf, RemovingDay, Removing
      <4> QED
        BY <4>1, <4>2, <4>3, <4>4, <4>5, <4>6, <4>7, <4>8, <4>9, <4>10, <4>11 DEF DayOK
    <3> QED
      BY <3>1, <3>2
  <2> QED
    BY <2>2, <2>3, <2>4 DEF InsOK
<1>19. ASSUME NEW r \in Recs, Held(r)'
      PROVE  RecOK(r)'
  <2>0. r[1] \in Days
    BY PartLifecycleAssumption
  <2>a. CASE ~(r[1] = e)
    <3>1. Held(r) /\ RecOK(r) /\ DayOK(r[1]) /\ InsOK(r[1])
      BY <1>0, <1>1, <1>v, TwoKinds, <1>19, <2>0, <2>a DEF RecsOK, DaysOK, Held, Raced
    <3>2. SameDay(r[1]) /\ SameDump(r[1])
      BY <1>17, <1>19, <2>0, <3>1, <2>a DEF Held
    <3>3. SameRec(r)
      BY <1>0, <1>1, <1>v, TwoKinds, <1>19, <2>0, <3>1, <2>a
        DEF SameRec, SameKeeping, InFile, KindOf, RemovingDay, Removing
    <3> QED
      BY <3>1, <3>2, <3>3, RecFrame
  <2>b. CASE r[1] = e
    <3>0. /\ Held(r) /\ RecOK(r) /\ RemovingDay(r[1])' /\ KindOf(adm.part)' = KindOf(vec[r[1]])
          /\ (DumpingDay(r[1])' => dump.pc = "wait") /\ ~Gone(r[1])
      <4>1. Held(r) /\ RecOK(r) /\ DayOK(r[1])
        BY <1>0, <1>1, <1>v, TwoKinds, <1>19, <2>0, <2>b DEF RecsOK, DaysOK, Held, Raced
      <4>2. dump.part # vec[r[1]]
        BY <1>1, <2>b, <1>19 DEF Held, Raced
      <4>3. DumpingDay(r[1]) => dump.pc = "wait"
        BY <4>1, <4>2 DEF DayOK, DumpHasVec
      <4>4. ~Gone(r[1])
        BY <1>1, <2>b, <4>1 DEF DayOK, GoneIsOut
      <4> QED
        BY <1>1, <2>b, <4>1, <4>3, <4>4 DEF RemovingDay, Removing, DumpingDay, Dumping, DumpDay, KindOf
    <3>1. VecKeeps(r)'
      BY <1>0, <1>1, <1>v, <1>19, <2>0, <2>b, <3>0 DEF RecOK, VecKeeps, PartKeeps, InFile, KindOf
    <3>2. RemovedKeeps(r)'
      BY <1>1, <2>b, <3>0 DEF RecOK, VecKeeps, RemovedKeeps, PartKeeps, KindOf, InFile
    <3>3. SomewhereUp(r)'
      BY <1>0, <1>1, <1>v, <1>19, <2>0, <2>b, <3>0 DEF RecOK, SomewhereUp, Up, Gone, RemovingDay, Removing
    <3>4. SomewhereDown(r)'
      BY <1>0, <1>1, <1>v, <1>19, <2>0, <2>b, <3>0 DEF RecOK, SomewhereDown, Up, Gone, OnDisk
    <3>5. MarkWritten(r)'
      BY <1>0, <1>1, <1>v, <1>19, <2>0, <2>b, <3>0 DEF RecOK, MarkWritten, KindOf, InFile
    <3>6. DumpKeeps(r)'
      BY <1>0, <1>1, <1>v, <1>19, <2>0, <2>b, <3>0 DEF RecOK, DumpKeeps, DumpingDay, Dumping, DumpDay, InFile
    <3>7. CompKeeps(r)'
      BY <1>0, <1>1, <1>v, <1>19, <2>0, <2>b, <3>0 DEF RecOK, CompKeeps, InFile
    <3>8. GoneKeeps(r)'
      BY <1>0, <1>1, <1>v, <1>19, <2>0, <2>b, <3>0 DEF RecOK, GoneKeeps, RemovingDay, Removing, InFile
    <3> QED
      BY <3>1, <3>2, <3>3, <3>4, <3>5, <3>6, <3>7, <3>8 DEF RecOK
  <2> QED
    BY <2>a, <2>b
<1> QED
  BY <1>2, <1>3, <1>4, <1>5, <1>6, <1>7, <1>8, <1>9, <1>10, <1>11, <1>12, <1>13, <1>14, <1>15, <1>16, <1>18,
     <1>19
    DEF IInv, Types, DaysOK, RecsOK

\* A dump of the day is cancelled.
LEMMA CancelDumpTaskKeeps ==
    ASSUME IInv, CancelDumpTask
    PROVE  IInv'
<1>0. /\ ServerTypes /\ PartTypes /\ DiskTypes /\ PastTypes /\ InsTypes /\ SyncTypes /\ DumpTypes /\ AdmTypes
      /\ Down /\ Events /\ VecParts /\ InsThread /\ SyncThread /\ DumpThread /\ AdmThread
      /\ Owners /\ DaysOK /\ InsRec /\ RecsOK
  BY DEF IInv, Types
<1>1. /\ adm.pc = "cancel"
      /\ adm'.pc \in {"await", "del"}
      /\ adm'.pc = "del" => dumpPartCode # adm.day
      /\ dump.pc = "wait" => dumpPartCode = DumpDay
      /\ cancel' \in BOOLEAN
      /\ adm'.op = adm.op
      /\ adm'.kind = adm.kind
      /\ adm'.day = adm.day
      /\ adm'.part = adm.part
      /\ adm'.done = adm.done
      /\ AdmShape'
      /\ UNCHANGED <<server, now, parts, vec, cfg, files, log, ins, syncer, dump, dumpPartCode,
                     acked, late, gone, raced, crashes>>
  BY <1>0 DEF CancelDumpTask, AdmStep, ServerTypes, DumpThread, Dumping, AdmTypes, AdmShape, disk, past, memory
<1>u. Up
  BY <1>0, <1>1, BusyIsUp
<1>2. PartTypes' /\ DiskTypes' /\ PastTypes'
  BY <1>0, <1>1 DEF PartTypes, DiskTypes, PastTypes, Part
<1>3. InsTypes' /\ SyncTypes'
  BY <1>0, <1>1 DEF InsTypes, SyncTypes, InsShape, SyncShape
<1>4. DumpTypes'
  BY <1>0, <1>1 DEF DumpTypes, DumpShape
<1>5. VecParts' /\ InsThread'
  BY <1>0, <1>1 DEF VecParts, InsThread, IdleIns, KindOf
<1>6. SyncThread' /\ DumpThread'
  BY <1>0, <1>1 DEF SyncThread, DumpThread, IdleSync, KindOf, IdleDump, Dumping, DumpDay
<1>7. InsRec'
  BY <1>0, <1>1 DEF InsRec
<1>8. ServerTypes'
  BY <1>0, <1>1, <1>u, TwoKinds DEF ServerTypes
<1>9. AdmTypes'
  BY <1>0, <1>1, <1>u, TwoKinds DEF AdmTypes, AdmShape
<1>10. Down'
  BY <1>0, <1>1, <1>u, TwoKinds DEF Down, IdleIns, IdleSync, IdleDump, IdleAdm, Up
<1>11. Events'
  BY <1>0, <1>1, PartLifecycleAssumption DEF Events
<1>12. AdmThread'
  BY <1>0, <1>1, <1>u, TwoKinds DEF AdmThread, IdleAdm, Removing, KindOf
<1>13. Owners'
  BY <1>0, <1>1, <1>u, TwoKinds DEF Owners, Raced
<1>14. ASSUME NEW d \in Days, DayOK(d), InsOK(d), ~Raced(d)', d # adm.day
      PROVE  SameDay(d) /\ SameDump(d)
  BY <1>0, <1>1, <1>u, TwoKinds, <1>14
    DEF SameDay, SameDump, DumpFirst, SamePart, DumpingDay, Dumping, DumpDay, RemovingDay, Removing, Entries,
        KindOf, Gone, Up
<1>15. ASSUME NEW d \in Days, ~Raced(d)'
      PROVE  DayOK(d)' /\ InsOK(d)'
  <2>1. DayOK(d) /\ InsOK(d) /\ ~Raced(d)
    BY <1>0, <1>1, <1>15 DEF DaysOK, Raced
  <2>2. CreateHasFile(d)'
    BY <1>0, <1>1, <1>u, <1>15, <2>1 DEF InsOK, CreateHasFile, Gone, RemovingDay, Removing
  <2>3. RefIsKept(d)'
    BY <1>0, <1>1, <1>u, <1>15, <2>1 DEF InsOK, RefIsKept, RemovingDay, Removing, DumpingDay, Dumping, DumpDay
  <2>4. DayOK(d)'
    <3>1. CASE d # adm.day
      BY <1>0, <1>14, <1>15, <2>1, <3>1, DayFrame DEF Types
    <3>2. CASE d = adm.day
      <4>1. DumpHasVec(d)'
        BY <1>0, <1>1, <1>u, <1>15, <2>1, <3>2 DEF DayOK, DumpHasVec, DumpingDay, Dumping, DumpDay
      <4>2. RemovedIsOut(d)'
        BY <1>0, <1>1, <1>u, <1>15, <2>1, <3>2 DEF DayOK, RemovedIsOut, RemovingDay, Removing
      <4>3. WaitHasComp(d)'
        BY <1>0, <1>1, <1>u, <1>15, <2>1, <3>2
          DEF DayOK, WaitHasComp, DumpingDay, Dumping, DumpDay, Entries, KindOf
      <4>4. DumpMadeFile(d)'
        BY <1>0, <1>1, <1>u, <1>15, <2>1, <3>2 DEF DayOK, DumpMadeFile, DumpingDay, Dumping, DumpDay, Entries
      <4>5. OneEntry(d)'
        BY <1>0, <1>1, <1>u, <1>15, <2>1, <3>2 DEF DayOK, OneEntry, Entries
      <4>6. RefsNoEntry(d)'
        BY <1>0, <1>1, <1>u, <1>15, <2>1, <3>2 DEF DayOK, RefsNoEntry, Entries, KindOf
      <4>7. OutNoEntry(d)'
        BY <1>0, <1>1, <1>u, <1>15, <2>1, <3>2 DEF DayOK, OutNoEntry, Up, Entries
      <4>8. GoneIsOut(d)'
        BY <1>0, <1>1, <1>u, <1>15, <2>1, <3>2 DEF DayOK, GoneIsOut, Gone, Entries
      <4>9. AddHasPart(d)'
        BY <1>0, <1>1, <1>u, <1>15, <2>1, <3>2 DEF DayOK, AddHasPart, Entries, KindOf
      <4>10. PartHasFile(d)'
        BY <1>0, <1>1, <1>u, <1>15, <2>1, <3>2 DEF DayOK, PartHasFile, KindOf, RemovingDay, Removing
      <4>11. EntryIsPart(d)'
        BY <1>0, <1>1, <1>u, <1>15, <2>1, <3>2 DEF DayOK, EntryIsPart, Entries, KindOf, RemovingDay, Removing
      <4> QED
        BY <4>1, <4>2, <4>3, <4>4, <4>5, <4>6, <4>7, <4>8, <4>9, <4>10, <4>11 DEF DayOK
    <3> QED
      BY <3>1, <3>2
  <2> QED
    BY <2>2, <2>3, <2>4 DEF InsOK
<1>16. ASSUME NEW r \in Recs, Held(r)'
      PROVE  RecOK(r)'
  <2>0. r[1] \in Days
    BY PartLifecycleAssumption
  <2>a. CASE ~(r[1] = adm.day)
    <3>1. Held(r) /\ RecOK(r) /\ DayOK(r[1]) /\ InsOK(r[1])
      BY <1>0, <1>1, <1>u, TwoKinds, <1>16, <2>0, <2>a DEF RecsOK, DaysOK, Held, Raced
    <3>2. SameDay(r[1]) /\ SameDump(r[1])
      BY <1>14, <1>16, <2>0, <3>1, <2>a DEF Held
    <3>3. SameRec(r)
      BY <1>0, <1>1, <1>u, TwoKinds, <1>16, <2>0, <3>1, <2>a DEF SameRec, SameKeeping, InFile, KindOf
    <3> QED
      BY <3>1, <3>2, <3>3, RecFrame
  <2>b. CASE r[1] = adm.day
    <3>0. Held(r) /\ RecOK(r) /\ (RemovingDay(r[1])' <=> RemovingDay(r[1]))
      BY <1>0, <1>1, <1>u, TwoKinds, <1>16, <2>0, <2>b DEF RecsOK, Held, Raced, RemovingDay, Removing
    <3>1. VecKeeps(r)'
      BY <1>0, <1>1, <1>u, <1>16, <2>0, <2>b, <3>0 DEF RecOK, VecKeeps, PartKeeps, InFile, KindOf
    <3>2. RemovedKeeps(r)'
      BY <1>0, <1>1, <1>u, <1>16, <2>0, <2>b, <3>0
        DEF RecOK, RemovedKeeps, RemovingDay, Removing, PartKeeps, InFile, KindOf
    <3>3. SomewhereUp(r)'
      BY <1>0, <1>1, <1>u, <1>16, <2>0, <2>b, <3>0 DEF RecOK, SomewhereUp, Up, Gone, RemovingDay, Removing
    <3>4. SomewhereDown(r)'
      BY <1>0, <1>1, <1>u, <1>16, <2>0, <2>b, <3>0 DEF RecOK, SomewhereDown, Up, Gone, OnDisk
    <3>5. MarkWritten(r)'
      BY <1>0, <1>1, <1>u, <1>16, <2>0, <2>b, <3>0 DEF RecOK, MarkWritten, KindOf, InFile
    <3>6. DumpKeeps(r)'
      BY <1>0, <1>1, <1>u, <1>16, <2>0, <2>b, <3>0 DEF RecOK, DumpKeeps, DumpingDay, Dumping, DumpDay, InFile
    <3>7. CompKeeps(r)'
      BY <1>0, <1>1, <1>u, <1>16, <2>0, <2>b, <3>0 DEF RecOK, CompKeeps, InFile
    <3>8. GoneKeeps(r)'
      BY <1>0, <1>1, <1>u, <1>16, <2>0, <2>b, <3>0 DEF RecOK, GoneKeeps, RemovingDay, Removing, InFile
    <3> QED
      BY <3>1, <3>2, <3>3, <3>4, <3>5, <3>6, <3>7, <3>8 DEF RecOK
  <2> QED
    BY <2>a, <2>b
<1> QED
  BY <1>2, <1>3, <1>4, <1>5, <1>6, <1>7, <1>8, <1>9, <1>10, <1>11, <1>12, <1>13, <1>15, <1>16
    DEF IInv, Types, DaysOK, RecsOK

\* The dump has ended.
LEMMA AwaitDumpKeeps ==
    ASSUME IInv, AwaitDump
    PROVE  IInv'
<1>0. /\ ServerTypes /\ PartTypes /\ DiskTypes /\ PastTypes /\ InsTypes /\ SyncTypes /\ DumpTypes /\ AdmTypes
      /\ Down /\ Events /\ VecParts /\ InsThread /\ SyncThread /\ DumpThread /\ AdmThread
      /\ Owners /\ DaysOK /\ InsRec /\ RecsOK
  BY DEF IInv, Types
<1>b. /\ 0 \notin Days
      /\ dump.part # 0 => DumpDay \in Days
  <2>1. Ranged
    BY <1>0, Ranges DEF Types
  <2> QED
    BY <2>1 DEF Ranged, DumpDay
<1>1. /\ adm.pc = "await"
      /\ dumpPartCode = 0
      /\ dump.pc # "wait"
      /\ adm'.pc = "del"
      /\ adm'.op = adm.op
      /\ adm'.kind = adm.kind
      /\ adm'.day = adm.day
      /\ adm'.part = adm.part
      /\ adm'.done = adm.done
      /\ AdmShape'
      /\ UNCHANGED <<server, now, parts, vec, cfg, files, log, ins, syncer, dump, dumpPartCode,
                     cancel, acked, late, gone, raced, crashes>>
  BY <1>0, <1>b DEF AwaitDump, AdmStep, DumpThread, Dumping, AdmTypes, AdmShape, disk, past, memory
<1>u. Up
  BY <1>0, <1>1, BusyIsUp
<1>2. ServerTypes' /\ PartTypes' /\ DiskTypes' /\ PastTypes'
  BY <1>0, <1>1 DEF ServerTypes, PartTypes, DiskTypes, PastTypes, Part
<1>3. InsTypes' /\ SyncTypes'
  BY <1>0, <1>1 DEF InsTypes, SyncTypes, InsShape, SyncShape
<1>4. DumpTypes'
  BY <1>0, <1>1 DEF DumpTypes, DumpShape
<1>5. VecParts' /\ InsThread'
  BY <1>0, <1>1 DEF VecParts, InsThread, IdleIns, KindOf
<1>6. SyncThread' /\ DumpThread'
  BY <1>0, <1>1 DEF SyncThread, DumpThread, IdleSync, KindOf, IdleDump, Dumping, DumpDay
<1>7. InsRec'
  BY <1>0, <1>1 DEF InsRec
<1>8. AdmTypes'
  BY <1>0, <1>1, <1>u, TwoKinds DEF AdmTypes, AdmShape
<1>9. Down'
  BY <1>0, <1>1, <1>u, TwoKinds DEF Down, IdleIns, IdleSync, IdleDump, IdleAdm, Up
<1>10. Events'
  BY <1>0, <1>1, PartLifecycleAssumption DEF Events
<1>11. AdmThread'
  BY <1>0, <1>1, <1>u, TwoKinds DEF AdmThread, IdleAdm, Removing, KindOf
<1>12. Owners'
  BY <1>0, <1>1, <1>u, TwoKinds DEF Owners, Raced
<1>13. ASSUME NEW d \in Days, DayOK(d), InsOK(d), ~Raced(d)', d # adm.day
      PROVE  SameDay(d) /\ SameDump(d)
  BY <1>0, <1>1, <1>u, TwoKinds, <1>13
    DEF SameDay, SameDump, DumpFirst, SamePart, DumpingDay, Dumping, DumpDay, RemovingDay, Removing, Entries,
        KindOf, Gone, Up
<1>14. ASSUME NEW d \in Days, ~Raced(d)'
      PROVE  DayOK(d)' /\ InsOK(d)'
  <2>1. DayOK(d) /\ InsOK(d) /\ ~Raced(d)
    BY <1>0, <1>1, <1>14 DEF DaysOK, Raced
  <2>2. CreateHasFile(d)'
    BY <1>0, <1>1, <1>u, <1>14, <2>1 DEF InsOK, CreateHasFile, Gone, RemovingDay, Removing
  <2>3. RefIsKept(d)'
    BY <1>0, <1>1, <1>u, <1>14, <2>1 DEF InsOK, RefIsKept, RemovingDay, Removing, DumpingDay, Dumping, DumpDay
  <2>4. DayOK(d)'
    <3>1. CASE d # adm.day
      BY <1>0, <1>13, <1>14, <2>1, <3>1, DayFrame DEF Types
    <3>2. CASE d = adm.day
      <4>1. DumpHasVec(d)'
        BY <1>0, <1>1, <1>u, <1>14, <2>1, <3>2 DEF DayOK, DumpHasVec, DumpingDay, Dumping, DumpDay
      <4>2. RemovedIsOut(d)'
        BY <1>0, <1>1, <1>u, <1>14, <2>1, <3>2 DEF DayOK, RemovedIsOut, RemovingDay, Removing
      <4>3. WaitHasComp(d)'
        BY <1>0, <1>1, <1>u, <1>14, <2>1, <3>2
          DEF DayOK, WaitHasComp, DumpingDay, Dumping, DumpDay, Entries, KindOf
      <4>4. DumpMadeFile(d)'
        BY <1>0, <1>1, <1>u, <1>14, <2>1, <3>2 DEF DayOK, DumpMadeFile, DumpingDay, Dumping, DumpDay, Entries
      <4>5. OneEntry(d)'
        BY <1>0, <1>1, <1>u, <1>14, <2>1, <3>2 DEF DayOK, OneEntry, Entries
      <4>6. RefsNoEntry(d)'
        BY <1>0, <1>1, <1>u, <1>14, <2>1, <3>2 DEF DayOK, RefsNoEntry, Entries, KindOf
      <4>7. OutNoEntry(d)'
        BY <1>0, <1>1, <1>u, <1>14, <2>1, <3>2 DEF DayOK, OutNoEntry, Up, Entries
      <4>8. GoneIsOut(d)'
        BY <1>0, <1>1, <1>u, <1>14, <2>1, <3>2 DEF DayOK, GoneIsOut, Gone, Entries
      <4>9. AddHasPart(d)'
        BY <1>0, <1>1, <1>u, <1>14, <2>1, <3>2 DEF DayOK, AddHasPart, Entries, KindOf
      <4>10. PartHasFile(d)'
        BY <1>0, <1>1, <1>u, <1>14, <2>1, <3>2 DEF DayOK, PartHasFile, KindOf, RemovingDay, Removing
      <4>11. EntryIsPart(d)'
        BY <1>0, <1>1, <1>u, <1>14, <2>1, <3>2 DEF DayOK, EntryIsPart, Entries, KindOf, RemovingDay, Removing
      <4> QED
        BY <4>1, <4>2, <4>3, <4>4, <4>5, <4>6, <4>7, <4>8, <4>9, <4>10, <4>11 DEF DayOK
    <3> QED
      BY <3>1, <3>2
  <2> QED
    BY <2>2, <2>3, <2>4 DEF InsOK
<1>15. ASSUME NEW r \in Recs, Held(r)'
      PROVE  RecOK(r)'
  <2>0. r[1] \in Days
    BY PartLifecycleAssumption
  <2>a. CASE ~(r[1] = adm.day)
    <3>1. Held(r) /\ RecOK(r) /\ DayOK(r[1]) /\ InsOK(r[1])
      BY <1>0, <1>1, <1>u, TwoKinds, <1>15, <2>0, <2>a DEF RecsOK, DaysOK, Held, Raced
    <3>2. SameDay(r[1]) /\ SameDump(r[1])
      BY <1>13, <1>15, <2>0, <3>1, <2>a DEF Held
    <3>3. SameRec(r)
      BY <1>0, <1>1, <1>u, TwoKinds, <1>15, <2>0, <3>1, <2>a DEF SameRec, SameKeeping, InFile, KindOf
    <3> QED
      BY <3>1, <3>2, <3>3, RecFrame
  <2>b. CASE r[1] = adm.day
    <3>0. Held(r) /\ RecOK(r) /\ (RemovingDay(r[1])' <=> RemovingDay(r[1]))
      BY <1>0, <1>1, <1>u, TwoKinds, <1>15, <2>0, <2>b DEF RecsOK, Held, Raced, RemovingDay, Removing
    <3>1. VecKeeps(r)'
      BY <1>0, <1>1, <1>u, <1>15, <2>0, <2>b, <3>0 DEF RecOK, VecKeeps, PartKeeps, InFile, KindOf
    <3>2. RemovedKeeps(r)'
      BY <1>0, <1>1, <1>u, <1>15, <2>0, <2>b, <3>0
        DEF RecOK, RemovedKeeps, RemovingDay, Removing, PartKeeps, InFile, KindOf
    <3>3. SomewhereUp(r)'
      BY <1>0, <1>1, <1>u, <1>15, <2>0, <2>b, <3>0 DEF RecOK, SomewhereUp, Up, Gone, RemovingDay, Removing
    <3>4. SomewhereDown(r)'
      BY <1>0, <1>1, <1>u, <1>15, <2>0, <2>b, <3>0 DEF RecOK, SomewhereDown, Up, Gone, OnDisk
    <3>5. MarkWritten(r)'
      BY <1>0, <1>1, <1>u, <1>15, <2>0, <2>b, <3>0 DEF RecOK, MarkWritten, KindOf, InFile
    <3>6. DumpKeeps(r)'
      BY <1>0, <1>1, <1>u, <1>15, <2>0, <2>b, <3>0 DEF RecOK, DumpKeeps, DumpingDay, Dumping, DumpDay, InFile
    <3>7. CompKeeps(r)'
      BY <1>0, <1>1, <1>u, <1>15, <2>0, <2>b, <3>0 DEF RecOK, CompKeeps, InFile
    <3>8. GoneKeeps(r)'
      BY <1>0, <1>1, <1>u, <1>15, <2>0, <2>b, <3>0 DEF RecOK, GoneKeeps, RemovingDay, Removing, InFile
    <3> QED
      BY <3>1, <3>2, <3>3, <3>4, <3>5, <3>6, <3>7, <3>8 DEF RecOK
  <2> QED
    BY <2>a, <2>b
<1> QED
  BY <1>2, <1>3, <1>4, <1>5, <1>6, <1>7, <1>8, <1>9, <1>10, <1>11, <1>12, <1>14, <1>15
    DEF IInv, Types, DaysOK, RecsOK

\* The entry of the day is deleted, and the part is gone from here on.
LEMMA DelFilePartKeeps ==
    ASSUME IInv, DelFilePart
    PROVE  IInv'
<1>0. /\ ServerTypes /\ PartTypes /\ DiskTypes /\ PastTypes /\ InsTypes /\ SyncTypes /\ DumpTypes /\ AdmTypes
      /\ Down /\ Events /\ VecParts /\ InsThread /\ SyncThread /\ DumpThread /\ AdmThread
      /\ Owners /\ DaysOK /\ InsRec /\ RecsOK
  BY DEF IInv, Types
<1>b. Ranged
  BY <1>0, Ranges DEF Types
<1>s. /\ adm.part # 0 /\ adm.day \in Days /\ cfg' \subseteq cfg /\ KindOf(adm.part) \in Kinds
      /\ \A d \in Days, k \in Kinds : d # adm.day => (<<d, k>> \in cfg' <=> <<d, k>> \in cfg)
      /\ OneEntry(adm.day) => \A k \in Kinds : <<adm.day, k>> \notin cfg'
  <2>1. adm.part # 0 /\ adm.day \in Days /\ KindOf(adm.part) \in Kinds
    BY <1>0, <1>b DEF DelFilePart, AdmThread, Removing, Ranged, KindOf
  <2> DEFINE e == adm.day
  <2>2. cfg' \in DelPartItem(cfg, e) /\ e \in Days
    BY <2>1 DEF DelFilePart
  <2> HIDE DEF e
  <2>3. ((\A k \in Kinds : <<e, k>> \notin cfg) /\ cfg' = cfg) \/ \E k \in Kinds : <<e, k>> \in cfg /\ cfg' = cfg \ {<<e, k>>}
    BY <2>2 DEF DelPartItem
  <2>4. cfg' \subseteq cfg /\ \A d \in Days, k \in Kinds : d # e => (<<d, k>> \in cfg' <=> <<d, k>> \in cfg)
    BY <2>3
  <2>5. ASSUME OneEntry(e)
        PROVE  \A k \in Kinds : <<e, k>> \notin cfg'
    <3>1. \A j, k \in Kinds : <<e, j>> \in cfg /\ <<e, k>> \in cfg => j = k
      BY <2>5 DEF OneEntry, Entries
    <3> QED
      BY <2>3, <3>1
  <2> QED
    BY <2>1, <2>4, <2>5 DEF e
<1>1. /\ adm.pc = "del"
      /\ adm.part # 0
      /\ adm.day \in Days
      /\ cfg' \subseteq cfg
      /\ \A d \in Days, k \in Kinds : d # adm.day => (<<d, k>> \in cfg' <=> <<d, k>> \in cfg)
      /\ OneEntry(adm.day) => \A k \in Kinds : <<adm.day, k>> \notin cfg'
      /\ gone' = gone \cup {<<adm.day, KindOf(adm.part)>>}
      /\ KindOf(adm.part) \in Kinds
      /\ adm'.pc = "refs"
      /\ adm'.kind = adm.kind
      /\ adm'.day = adm.day
      /\ adm'.part = adm.part
      /\ adm'.done = adm.done
      /\ AdmShape'
      /\ UNCHANGED <<server, now, parts, vec, files, log, ins, syncer, dump, dumpPartCode, cancel,
                     acked, late, raced, crashes>>
  BY <1>0, <1>s DEF DelFilePart, AdmStep, KindOf, AdmTypes, AdmShape, disk, past, memory
<1>u. Up
  BY <1>0, <1>1, BusyIsUp
<1>2. ServerTypes' /\ PartTypes'
  BY <1>0, <1>1 DEF ServerTypes, PartTypes, Part
<1>3. InsTypes' /\ SyncTypes'
  BY <1>0, <1>1 DEF InsTypes, SyncTypes, InsShape, SyncShape
<1>4. DumpTypes'
  BY <1>0, <1>1 DEF DumpTypes, DumpShape
<1>5. VecParts' /\ InsThread'
  BY <1>0, <1>1 DEF VecParts, InsThread, IdleIns, KindOf
<1>6. SyncThread' /\ DumpThread'
  BY <1>0, <1>1 DEF SyncThread, DumpThread, IdleSync, KindOf, IdleDump, Dumping, DumpDay
<1>7. InsRec'
  BY <1>0, <1>1 DEF InsRec
<1>8. DiskTypes'
  BY <1>0, <1>1 DEF DiskTypes
<1>9. PastTypes'
  BY <1>0, <1>1 DEF PastTypes
<1>10. AdmTypes'
  BY <1>0, <1>1, <1>u, TwoKinds DEF AdmTypes, AdmShape
<1>11. Down'
  BY <1>0, <1>1, <1>u, TwoKinds DEF Down, IdleIns, IdleSync, IdleDump, IdleAdm, Up
<1>12. Events'
  BY <1>0, <1>1, PartLifecycleAssumption DEF Events
<1>13. AdmThread'
  BY <1>0, <1>1, <1>u, TwoKinds DEF AdmThread, IdleAdm, Removing, KindOf
<1>14. Owners'
  BY <1>0, <1>1, <1>u, TwoKinds DEF Owners, Raced
<1>15. ASSUME NEW d \in Days, DayOK(d), InsOK(d), ~Raced(d)', d # adm.day
      PROVE  SameDay(d) /\ SameDump(d)
  <2>1. adm.day # d
    BY <1>1, <1>15
  <2>2. SameDay(d)
    BY <1>1, <1>15, <2>1 DEF SameDay, SamePart, KindOf
  <2>3. DumpingDay(d)' => DumpingDay(d)
    BY <1>1 DEF DumpingDay, Dumping, DumpDay
  <2> QED
    BY <1>1, <2>2, <2>3 DEF SameDump
<1>16. ASSUME NEW d \in Days, ~Raced(d)'
      PROVE  DayOK(d)' /\ InsOK(d)'
  <2>1. DayOK(d) /\ InsOK(d) /\ ~Raced(d)
    BY <1>0, <1>1, <1>16 DEF DaysOK, Raced
  <2>2. CreateHasFile(d)'
    BY <1>0, <1>1, <1>u, <1>16, <2>1 DEF InsOK, CreateHasFile, Gone, RemovingDay, Removing
  <2>3. RefIsKept(d)'
    BY <1>0, <1>1, <1>u, <1>16, <2>1 DEF InsOK, RefIsKept, RemovingDay, Removing, DumpingDay, Dumping, DumpDay
  <2>4. DayOK(d)'
    <3>1. CASE d # adm.day
      BY <1>0, <1>15, <1>16, <2>1, <3>1, DayFrame DEF Types
    <3>2. CASE d = adm.day
      <4>0. /\ vec[d] = 0 /\ ~DumpingDay(d)' /\ Entries(d)' = {} /\ RemovingDay(d) /\ RemovingDay(d)' /\ ~Gone(d) /\ Gone(d)'
            /\ KindOf(adm.part)' = KindOf(adm.part)
            /\ \A k \in Kinds : <<d, k>> \in gone' => k = KindOf(adm.part)
        <5>1. RemovingDay(d) /\ RemovingDay(d)' /\ vec[d] = 0
          BY <1>1, <2>1, <3>2 DEF DayOK, RemovedIsOut, RemovingDay, Removing
        <5>2. ~DumpingDay(d)
          BY <1>0, <1>1, <2>1, <5>1 DEF DayOK, DumpHasVec, WaitHasComp, DumpingDay, DumpThread
        <5>3. ~Gone(d)
          BY <1>1, <2>1, <3>2 DEF DayOK, GoneIsOut
        <5>4. Entries(d)' = {}
          BY <1>1, <2>1, <3>2 DEF DayOK, Entries
        <5> QED
          BY <1>1, <3>2, <5>1, <5>2, <5>3, <5>4 DEF DumpingDay, Dumping, DumpDay, Gone, KindOf
      <4>1. DumpHasVec(d)'
        BY <1>0, <1>1, <1>u, <1>16, <2>1, <3>2, <4>0 DEF DayOK, DumpHasVec, DumpingDay, Dumping, DumpDay
      <4>2. RemovedIsOut(d)'
        BY <1>0, <1>1, <1>u, <1>16, <2>1, <3>2, <4>0 DEF DayOK, RemovedIsOut, RemovingDay, Removing
      <4>3. WaitHasComp(d)'
        BY <1>0, <1>1, <1>u, <1>16, <2>1, <3>2, <4>0
          DEF DayOK, WaitHasComp, DumpingDay, Dumping, DumpDay, Entries, KindOf
      <4>4. DumpMadeFile(d)'
        BY <1>0, <1>1, <1>u, <1>16, <2>1, <3>2, <4>0
          DEF DayOK, DumpMadeFile, DumpingDay, Dumping, DumpDay, Entries
      <4>5. OneEntry(d)'
        BY <1>0, <1>1, <1>u, <1>16, <2>1, <3>2, <4>0 DEF DayOK, OneEntry, Entries
      <4>6. RefsNoEntry(d)'
        BY <1>0, <1>1, <1>u, <1>16, <2>1, <3>2, <4>0 DEF DayOK, RefsNoEntry, Entries, KindOf
      <4>7. OutNoEntry(d)'
        BY <1>0, <1>1, <1>u, <1>16, <2>1, <3>2, <4>0 DEF DayOK, OutNoEntry, Up, Entries
      <4>8. GoneIsOut(d)'
        BY <1>0, <1>1, <1>u, <1>16, <2>1, <3>2, <4>0 DEF DayOK, GoneIsOut, Gone, Entries
      <4>9. AddHasPart(d)'
        BY <1>0, <1>1, <1>u, <1>16, <2>1, <3>2, <4>0 DEF DayOK, AddHasPart, Entries, KindOf
      <4>10. PartHasFile(d)'
        BY <1>0, <1>1, <1>u, <1>16, <2>1, <3>2, <4>0 DEF DayOK, PartHasFile, KindOf, RemovingDay, Removing
      <4>11. EntryIsPart(d)'
        BY <1>0, <1>1, <1>u, <1>16, <2>1, <3>2, <4>0
          DEF DayOK, EntryIsPart, Entries, KindOf, RemovingDay, Removing
      <4> QED
        BY <4>1, <4>2, <4>3, <4>4, <4>5, <4>6, <4>7, <4>8, <4>9, <4>10, <4>11 DEF DayOK
    <3> QED
      BY <3>1, <3>2
  <2> QED
    BY <2>2, <2>3, <2>4 DEF InsOK
<1>17. ASSUME NEW r \in Recs, Held(r)'
      PROVE  RecOK(r)'
  <2>0. r[1] \in Days
    BY PartLifecycleAssumption
  <2>a. CASE ~(r[1] = adm.day)
    <3>1. Held(r) /\ RecOK(r) /\ DayOK(r[1]) /\ InsOK(r[1])
      BY <1>0, <1>1, <1>u, TwoKinds, <1>17, <2>0, <2>a DEF RecsOK, DaysOK, Held, Raced
    <3>2. SameDay(r[1]) /\ SameDump(r[1])
      BY <1>15, <1>17, <2>0, <3>1, <2>a DEF Held
    <3>3. SameRec(r)
      BY <1>0, <1>1, <1>u, TwoKinds, <1>17, <2>0, <3>1, <2>a
        DEF SameRec, SameKeeping, InFile, KindOf, RemovingDay, Removing
    <3> QED
      BY <3>1, <3>2, <3>3, RecFrame
  <2>b. CASE r[1] = adm.day
    <3>0. /\ Held(r) /\ RecOK(r) /\ RemovingDay(r[1])' /\ RemovingDay(r[1]) /\ vec[r[1]] = 0 /\ ~DumpingDay(r[1])' /\ Gone(r[1])'
          /\ KindOf(adm.part)' = KindOf(adm.part) /\ <<r[1], "comp">> \notin cfg' 
      <4>1. Held(r) /\ RecOK(r) /\ DayOK(r[1])
        BY <1>0, <1>1, <1>u, TwoKinds, <1>17, <2>0, <2>b DEF RecsOK, DaysOK, Held, Raced
      <4>2. RemovingDay(r[1]) /\ RemovingDay(r[1])' /\ vec[r[1]] = 0
        BY <1>1, <2>b, <4>1 DEF DayOK, RemovedIsOut, RemovingDay, Removing
      <4>3. ~DumpingDay(r[1])
        BY <1>0, <1>1, <4>1, <4>2 DEF DayOK, DumpHasVec, WaitHasComp, DumpingDay, DumpThread
      <4>4. <<r[1], "comp">> \notin cfg'
        BY <1>1, <2>b, <4>1, Constants DEF DayOK
      <4> QED
        BY <1>1, <2>b, <4>1, <4>2, <4>3, <4>4 DEF DumpingDay, Dumping, DumpDay, KindOf, Gone
    <3>1. VecKeeps(r)'
      BY <1>0, <1>1, <1>u, <1>17, <2>0, <2>b, <3>0 DEF RecOK, VecKeeps, PartKeeps, InFile, KindOf
    <3>2. RemovedKeeps(r)'
      BY <1>0, <1>1, <1>u, <1>17, <2>0, <2>b, <3>0
        DEF RecOK, RemovedKeeps, RemovingDay, Removing, PartKeeps, InFile, KindOf
    <3>3. SomewhereUp(r)'
      BY <1>0, <1>1, <1>u, <1>17, <2>0, <2>b, <3>0 DEF RecOK, SomewhereUp, Up, Gone, RemovingDay, Removing
    <3>4. SomewhereDown(r)'
      BY <1>0, <1>1, <1>u, <1>17, <2>0, <2>b, <3>0 DEF RecOK, SomewhereDown, Up, Gone, OnDisk
    <3>5. MarkWritten(r)'
      BY <1>0, <1>1, <1>u, <1>17, <2>0, <2>b, <3>0 DEF RecOK, MarkWritten, KindOf, InFile
    <3>6. DumpKeeps(r)'
      BY <1>0, <1>1, <1>u, <1>17, <2>0, <2>b, <3>0 DEF RecOK, DumpKeeps, DumpingDay, Dumping, DumpDay, InFile
    <3>7. CompKeeps(r)'
      BY <1>0, <1>1, <1>u, <1>17, <2>0, <2>b, <3>0 DEF RecOK, CompKeeps, InFile
    <3>8. GoneKeeps(r)'
      BY <1>0, <1>1, <1>u, <1>17, <2>0, <2>b, <3>0 DEF RecOK, GoneKeeps, RemovingDay, Removing, InFile
    <3> QED
      BY <3>1, <3>2, <3>3, <3>4, <3>5, <3>6, <3>7, <3>8 DEF RecOK
  <2> QED
    BY <2>a, <2>b
<1> QED
  BY <1>2, <1>3, <1>4, <1>5, <1>6, <1>7, <1>8, <1>9, <1>10, <1>11, <1>12, <1>13, <1>14, <1>16, <1>17
    DEF IInv, Types, DaysOK, RecsOK

\* Without references the part is written and deleted; its file has every record.
LEMMA DetachEndKeeps ==
    ASSUME IInv, DetachEnd
    PROVE  IInv'
<1>0. /\ ServerTypes /\ PartTypes /\ DiskTypes /\ PastTypes /\ InsTypes /\ SyncTypes /\ DumpTypes /\ AdmTypes
      /\ Down /\ Events /\ VecParts /\ InsThread /\ SyncThread /\ DumpThread /\ AdmThread
      /\ Owners /\ DaysOK /\ InsRec /\ RecsOK
  BY DEF IInv, Types
<1>b. Ranged
  BY <1>0, Ranges DEF Types
<1>c. /\ adm.day \in Days /\ adm.part # 0 /\ adm.part \in 1 .. Len(parts) /\ parts[adm.part].freed \in 0 .. 2 /\ 0 # adm.day
      /\ adm.part \notin {ins.ref, syncer.ref, dump.ref} /\ parts[adm.part].day = adm.day /\ KindOf(adm.part) \in Kinds
      /\ <<adm.day, KindOf(adm.part)>> \in gone
      /\ \A d \in Days : vec[d] # adm.part
  <2>1. adm.day \in Days /\ adm.part # 0 /\ adm.part \in 1 .. Len(parts) /\ KindOf(adm.part) \in Kinds
    BY <1>0, <1>b DEF DetachEnd, EndRemoval, AdmThread, Removing, Ranged, KindOf
  <2>2. parts[adm.part].freed \in 0 .. 2
    BY <1>0, <2>1, PartFields DEF PartTypes
  <2>3. parts[adm.part].day = adm.day /\ vec[adm.day] # adm.part /\ <<adm.day, KindOf(adm.part)>> \in gone
    BY <1>0 DEF DetachEnd, EndRemoval, AdmThread, Removing
  <2>4. \A d \in Days : vec[d] # adm.part
    BY <1>0, <2>1, <2>3 DEF VecParts
  <2> QED
    BY <1>b, <2>1, <2>2, <2>3, <2>4 DEF DetachEnd, EndRemoval, GetRefCntZero, Ranged
<1>f. /\ PartTypes' /\ Len(parts') = Len(parts) /\ parts'[adm.part].freed = parts[adm.part].freed + 1
      /\ \A p \in 1 .. Len(parts) : p # adm.part => parts'[p] = parts[p]
      /\ \A p \in 1 .. Len(parts) : parts'[p].day = parts[p].day /\ parts'[p].kind = parts[p].kind
                                    /\ parts'[p].ro = parts[p].ro /\ parts'[p].recs = parts[p].recs
  <2>1. parts[adm.part].freed # 2
    BY <1>0, <1>c DEF Owners
  <2>2. /\ parts' \in Seq(Part) /\ Len(parts') = Len(parts)
        /\ \A p \in 1 .. Len(parts) : p # adm.part => parts'[p] = parts[p]
        /\ parts'[adm.part].freed = parts[adm.part].freed + 1 /\ parts'[adm.part].day = parts[adm.part].day
        /\ parts'[adm.part].kind = parts[adm.part].kind /\ parts'[adm.part].ro = parts[adm.part].ro
        /\ parts'[adm.part].recs = parts[adm.part].recs
    BY <1>0, <1>c, <2>1, PartFreed DEF DetachEnd, EndRemoval
  <2>3. PartTypes'
    BY <1>0, <2>2 DEF PartTypes, Part, DetachEnd, EndRemoval
  <2>4. \A p \in 1 .. Len(parts) : parts'[p].day = parts[p].day /\ parts'[p].kind = parts[p].kind
                                    /\ parts'[p].ro = parts[p].ro /\ parts'[p].recs = parts[p].recs
    BY <2>2
  <2> QED
    BY <2>2, <2>3, <2>4
<1>g. /\ Len(parts') = Len(parts)
      /\ \A d \in Days : vec[d] # 0 => parts'[vec[d]] = parts[vec[d]]
      /\ ins.ref # 0 => parts'[ins.ref] = parts[ins.ref]
      /\ syncer.ref # 0 => parts'[syncer.ref] = parts[syncer.ref]
      /\ dump.ref # 0 => parts'[dump.ref] = parts[dump.ref]
      /\ ins.part # 0 => parts'[ins.part].day = parts[ins.part].day /\ parts'[ins.part].kind = parts[ins.part].kind
      /\ dump.part # 0 => /\ parts'[dump.part].day = parts[dump.part].day /\ parts'[dump.part].kind = parts[dump.part].kind
                          /\ parts'[dump.part].ro = parts[dump.part].ro /\ parts'[dump.part].recs = parts[dump.part].recs
  BY <1>b, <1>c, <1>f DEF Ranged
<1>h. /\ files' \in [Kinds -> [Days -> {NoFile} \cup SUBSET Recs]]
      /\ \A k \in Kinds, d \in Days : k # "normal" \/ d # adm.day => files'[k][d] = files[k][d]
      /\ \A k \in Kinds, d \in Days : files[k][d] # NoFile => files'[k][d] # NoFile
      /\ KindOf(adm.part) = "normal" /\ files["normal"][adm.day] # NoFile => files'["normal"][adm.day] = parts[adm.part].recs
  <2> DEFINE e == adm.day
             R == parts[adm.part].recs
  <2>1. e \in Days /\ R \in {NoFile} \cup SUBSET Recs /\ R # NoFile /\ DiskTypes /\ "normal" \in Kinds
    BY <1>0, <1>b, <1>c, Constants DEF Ranged
  <2>2. files' = IF KindOf(adm.part) = "normal" /\ files["normal"][e] # NoFile
                 THEN [files EXCEPT !["normal"][e] = R] ELSE files
    BY <1>c DEF DetachEnd, KindOf
  <2> HIDE DEF e, R
  <2>3. CASE KindOf(adm.part) = "normal" /\ files["normal"][e] # NoFile
    <3>1. /\ files' \in [Kinds -> [Days -> {NoFile} \cup SUBSET Recs]] /\ files'["normal"][e] = R
          /\ \A k \in Kinds, d \in Days : k # "normal" \/ d # e => files'[k][d] = files[k][d]
      BY <2>1, <2>2, <2>3, FileSet, Zenon
    <3> QED
      BY <2>1, <3>1 DEF e, R
  <2>4. CASE ~(KindOf(adm.part) = "normal" /\ files["normal"][e] # NoFile)
    BY <2>1, <2>2, <2>4 DEF DiskTypes, e
  <2> QED
    BY <2>3, <2>4
<1>1. /\ adm.pc = "refs"
      /\ adm.part # 0
      /\ adm.day \in Days
      /\ adm.day # 0
      /\ adm.done + crashes < MaxEvents
      /\ adm' = IdleAdm(adm.done + 1)
      /\ adm'.pc = "idle" /\ adm'.part = 0 /\ adm'.day = 0
      /\ adm.done \in Nat
      /\ adm'.done = adm.done + 1
      /\ syncer.pc = "idle"
      /\ AdmShape'
      /\ UNCHANGED <<server, now, vec, cfg, log, ins, syncer, dump, dumpPartCode, cancel, acked,
                     late, gone, raced, crashes>>
  BY <1>0, <1>c DEF DetachEnd, EndRemoval, AdmStep, IdleAdm, Events, AdmTypes, AdmShape, disk, past, memory
<1>u. Up
  BY <1>0, <1>1, BusyIsUp
<1>2. ServerTypes' /\ PastTypes'
  BY <1>0, <1>1 DEF ServerTypes, PastTypes
<1>3. InsRec'
  BY <1>0, <1>1 DEF InsRec
<1>4. PartTypes'
  BY <1>f
<1>5. DiskTypes'
  BY <1>0, <1>1, <1>h DEF DiskTypes
<1>6. InsTypes'
  BY <1>0, <1>1, <1>u, <1>g, TwoKinds, <1>f DEF InsTypes, InsShape
<1>7. SyncTypes'
  BY <1>0, <1>1, <1>u, <1>g, TwoKinds, <1>f DEF SyncTypes, SyncShape
<1>8. DumpTypes'
  BY <1>0, <1>1, <1>u, <1>g, TwoKinds, <1>f DEF DumpTypes, DumpShape
<1>9. AdmTypes'
  BY <1>0, <1>1, <1>b, Constants DEF AdmTypes, AdmShape, IdleAdm, Ranged
<1>10. Down'
  BY <1>0, <1>1, <1>u, <1>g, TwoKinds DEF Down, IdleIns, IdleSync, IdleDump, IdleAdm, Up
<1>11. Events'
  BY <1>0, <1>1, PartLifecycleAssumption DEF Events
<1>12. VecParts'
  BY <1>0, <1>1, <1>g DEF VecParts
<1>13. InsThread'
  BY <1>0, <1>1, <1>u, <1>g, TwoKinds DEF InsThread, IdleIns, KindOf
<1>14. SyncThread'
  BY <1>0, <1>1, <1>g DEF SyncThread, IdleSync, KindOf
<1>15. DumpThread'
  <2>1. Dumping' <=> Dumping
    BY <1>1 DEF Dumping
  <2>2. dump.part # 0 => DumpDay' = DumpDay /\ KindOf(dump.part)' = KindOf(dump.part) /\ (parts[dump.part].ro => parts'[dump.part].ro)
    BY <1>1, <1>g DEF DumpDay, KindOf
  <2>3. dump.ref # 0 => parts'[dump.ref].freed = 0
    BY <1>0, <1>1, <1>g DEF DumpThread
  <2>4. (dump.part # 0 <=> Dumping') /\ (Dumping' => KindOf(dump.part)' = "normal" /\ parts'[dump.part].ro)
    BY <1>0, <1>1, <2>1, <2>2 DEF DumpThread
  <2>5. dumpPartCode' = IF Dumping' /\ dump'.pc # "mark" THEN DumpDay' ELSE 0
    BY <1>0, <1>1, <2>1, <2>2 DEF DumpThread
  <2>6. /\ Dumping' /\ dump'.pc # "wait" => dump'.ref = dump'.part
        /\ dump'.pc = "wait" => vec'[DumpDay'] # dump'.part
        /\ dump'.pc = "idle" => dump' = IdleDump
    BY <1>0, <1>1, <2>1, <2>2 DEF DumpThread, Dumping
  <2> QED
    BY <1>1, <2>3, <2>4, <2>5, <2>6, Zenon DEF DumpThread, IdleDump, KindOf
<1>16. AdmThread'
  BY <1>1 DEF AdmThread, IdleAdm, Removing
<1>17. Owners'
  <2> DEFINE q == adm.part
  <2> SUFFICES ASSUME NEW p \in 1 .. Len(parts')
               PROVE  /\ parts'[p].freed = 1 => adm'.part # p \/ dump.part # p
                      /\ parts'[p].freed = 2 => adm'.part # p /\ dump.part # p
                      /\ adm'.part = p /\ dump.part = p => <<"dump", parts'[p].day>> \in raced
                      /\ ~Raced(parts'[p].day) => parts'[p].freed = 0 \/ (parts'[p].freed = 1 /\ adm'.part # p /\ dump.part # p)
    BY <1>1 DEF Owners, Raced
  <2>0. p \in 1 .. Len(parts) /\ p # 0
    BY <1>b, <1>f DEF Ranged
  <2>1. CASE p = q
    <3>1. /\ parts[p].freed = 1 => dump.part # p
          /\ parts[p].freed # 2
          /\ dump.part = p => Raced(parts[p].day)
          /\ ~Raced(parts[p].day) => parts[p].freed = 0
      BY <1>0, <2>0, <2>1 DEF Owners, Raced
    <3>2. parts'[p].freed = parts[p].freed + 1 /\ parts[p].freed \in 0 .. 2 /\ parts'[p].day = parts[p].day
      BY <1>f, <1>c, <2>1
    <3> QED
      BY <1>1, <2>0, <2>1, <3>1, <3>2
  <2>2. CASE p # q
    BY <1>0, <1>1, <1>f, <2>0, <2>2 DEF Owners
  <2> QED
    BY <2>1, <2>2
<1>18. ASSUME NEW d \in Days, DayOK(d), InsOK(d), ~Raced(d)', d # adm.day
      PROVE  SameDay(d) /\ SameDump(d)
  <2>1. adm.day # d /\ adm'.day # d
    BY <1>1, <1>18, Constants
  <2>2. SameDay(d)
    BY <1>1, <1>g, <1>h, <1>18, <2>1 DEF SameDay, SamePart, KindOf
  <2>3. DumpingDay(d)' => DumpingDay(d)
    BY <1>0, <1>1, <1>g DEF DumpingDay, Dumping, DumpDay, DumpThread
  <2> QED
    BY <1>1, <2>2, <2>3 DEF SameDump
<1>19. ASSUME NEW d \in Days, ~Raced(d)'
      PROVE  DayOK(d)' /\ InsOK(d)'
  <2>1. DayOK(d) /\ InsOK(d) /\ ~Raced(d)
    BY <1>0, <1>1, <1>19 DEF DaysOK, Raced
  <2>2. CreateHasFile(d)'
    <3>1. CASE d = adm.day
      BY <1>1, <1>c, <3>1 DEF CreateHasFile, Gone
    <3>2. CASE d # adm.day
      BY <1>1, <1>h, <2>1, <3>2, Constants DEF InsOK, CreateHasFile, Gone, RemovingDay, Removing
    <3> QED
      BY <3>1, <3>2
  <2>3. RefIsKept(d)'
    BY <1>0, <1>1, <1>c, <1>g, <2>1
      DEF InsOK, RefIsKept, DumpThread, DumpingDay, Dumping, DumpDay, RemovingDay, Removing
  <2>4. DayOK(d)'
    <3>1. CASE d # adm.day
      BY <1>0, <1>18, <1>19, <2>1, <3>1, DayFrame DEF Types
    <3>2. CASE d = adm.day
      <4>0. /\ Entries(d) = {} /\ Entries(d)' = {} /\ vec[d] = 0 /\ ~DumpingDay(d)' /\ ~RemovingDay(d)'
        <5>1. Entries(d) = {} /\ vec[d] = 0
          BY <1>1, <2>1, <3>2 DEF DayOK, RefsNoEntry, RemovedIsOut, RemovingDay, Removing
        <5>2. ~DumpingDay(d)
          BY <1>0, <1>1, <2>1, <5>1 DEF DayOK, DumpHasVec, WaitHasComp, DumpingDay, DumpThread
        <5>3. ~DumpingDay(d)'
          BY <1>0, <1>1, <1>g, <5>2 DEF DumpingDay, Dumping, DumpDay, DumpThread
        <5> QED
          BY <1>1, <5>1, <5>3 DEF RemovingDay, Removing, Entries
      <4>1. DumpHasVec(d)'
        BY <1>0, <1>1, <1>u, <1>g, <1>19, <2>1, <3>2, <4>0 DEF DayOK, DumpHasVec, DumpingDay, Dumping, DumpDay
      <4>2. RemovedIsOut(d)'
        BY <1>0, <1>1, <1>u, <1>g, <1>19, <2>1, <3>2, <4>0 DEF DayOK, RemovedIsOut, RemovingDay, Removing
      <4>3. WaitHasComp(d)'
        BY <1>0, <1>1, <1>u, <1>g, <1>19, <2>1, <3>2, <4>0
          DEF DayOK, WaitHasComp, DumpingDay, Dumping, DumpDay, Entries, KindOf
      <4>4. DumpMadeFile(d)'
        BY <1>0, <1>1, <1>u, <1>g, <1>19, <2>1, <3>2, <4>0
          DEF DayOK, DumpMadeFile, DumpingDay, Dumping, DumpDay, Entries
      <4>5. OneEntry(d)'
        BY <1>0, <1>1, <1>u, <1>g, <1>19, <2>1, <3>2, <4>0 DEF DayOK, OneEntry, Entries
      <4>6. RefsNoEntry(d)'
        BY <1>0, <1>1, <1>u, <1>g, <1>19, <2>1, <3>2, <4>0 DEF DayOK, RefsNoEntry, Entries, KindOf
      <4>7. OutNoEntry(d)'
        BY <1>0, <1>1, <1>u, <1>g, <1>19, <2>1, <3>2, <4>0 DEF DayOK, OutNoEntry, Up, Entries
      <4>8. GoneIsOut(d)'
        BY <1>1, <3>2, <4>0 DEF GoneIsOut, Gone
      <4>9. AddHasPart(d)'
        BY <1>0, <1>1, <1>u, <1>g, <1>19, <2>1, <3>2, <4>0 DEF DayOK, AddHasPart, Entries, KindOf
      <4>10. PartHasFile(d)'
        BY <1>1, <3>2, <4>0 DEF PartHasFile
      <4>11. EntryIsPart(d)'
        BY <1>1, <3>2, <4>0 DEF EntryIsPart
      <4> QED
        BY <4>1, <4>2, <4>3, <4>4, <4>5, <4>6, <4>7, <4>8, <4>9, <4>10, <4>11 DEF DayOK
    <3> QED
      BY <3>1, <3>2
  <2> QED
    BY <2>2, <2>3, <2>4 DEF InsOK
<1>20. ASSUME NEW r \in Recs, Held(r)'
      PROVE  RecOK(r)'
  <2>0. r[1] \in Days
    BY PartLifecycleAssumption
  <2>a. CASE ~(r[1] = adm.day)
    <3>1. Held(r) /\ RecOK(r) /\ DayOK(r[1]) /\ InsOK(r[1])
      BY <1>0, <1>1, <1>u, <1>g, TwoKinds, <1>20, <2>0, <2>a DEF RecsOK, DaysOK, Held, Raced
    <3>2. SameDay(r[1]) /\ SameDump(r[1])
      BY <1>18, <1>20, <2>0, <3>1, <2>a DEF Held
    <3>3. SameRec(r)
      <4>1. ~RemovingDay(r[1])
        BY <1>1, <2>a DEF RemovingDay
      <4> QED
        BY <1>1, <1>g, <1>h, <2>0, <2>a, <4>1 DEF SameRec, SameKeeping, InFile, KindOf
    <3> QED
      BY <3>1, <3>2, <3>3, RecFrame
  <2>b. CASE r[1] = adm.day
    <3>0. /\ Held(r) /\ vec[r[1]] = 0 /\ ~RemovingDay(r[1])' /\ ~DumpingDay(r[1])' /\ Gone(r[1])' /\ <<r[1], "comp">> \notin cfg
          /\ \A k \in Kinds : <<r[1], k>> \in gone => InFile(k, r)' 
      <4>1. Held(r) /\ RecOK(r) /\ DayOK(r[1])
        BY <1>0, <1>1, <1>u, <1>g, TwoKinds, <1>20, <2>0, <2>b DEF RecsOK, DaysOK, Held, Raced
      <4>2. RemovingDay(r[1]) /\ ~RemovingDay(r[1])'
        BY <1>1, <2>b DEF RemovingDay, Removing
      <4>3. vec[r[1]] = 0 /\ Entries(r[1]) = {}
        BY <1>1, <2>b, <4>1, <4>2 DEF DayOK, RemovedIsOut, RefsNoEntry
      <4>4. ~DumpingDay(r[1])
        BY <1>0, <1>1, <4>1, <4>3 DEF DayOK, DumpHasVec, WaitHasComp, DumpingDay, DumpThread
      <4>5. ~DumpingDay(r[1])'
        BY <1>0, <1>1, <1>g, <4>4 DEF DumpingDay, Dumping, DumpDay, DumpThread
      <4>6. \A k \in Kinds : <<r[1], k>> \in gone => k = KindOf(adm.part)
        BY <1>1, <2>b, <4>1 DEF DayOK, RefsNoEntry
      <4>7. r \in parts[adm.part].recs /\ (KindOf(adm.part) = "comp" => InFile("comp", r)) /\ files[KindOf(adm.part)][r[1]] # NoFile
        BY <4>1, <4>2 DEF RecOK, RemovedKeeps, PartKeeps, DayOK, PartHasFile
      <4>8. ASSUME NEW k \in Kinds, k = KindOf(adm.part)
            PROVE  InFile(k, r)'
        <5>1. CASE k = "normal"
          BY <1>c, <1>h, <2>b, <4>7, <4>8, <5>1 DEF InFile
        <5>2. CASE k = "comp"
          BY <1>c, <1>h, <2>b, <4>7, <4>8, <5>2 DEF InFile
        <5> QED
          BY <4>8, <5>1, <5>2, Constants
      <4>9. <<r[1], "comp">> \notin cfg /\ Gone(r[1])'
        BY <1>1, <1>c, <2>b, <4>3, Constants DEF Entries, Gone
      <4> QED
        BY <4>1, <4>2, <4>3, <4>5, <4>6, <4>8, <4>9
    <3>1. VecKeeps(r)'
      BY <1>0, <1>1, <1>u, <1>g, <1>20, <2>0, <2>b, <3>0 DEF RecOK, VecKeeps, PartKeeps, InFile, KindOf
    <3>2. RemovedKeeps(r)'
      BY <1>0, <1>1, <1>u, <1>g, <1>20, <2>0, <2>b, <3>0
        DEF RecOK, RemovedKeeps, RemovingDay, Removing, PartKeeps, InFile, KindOf
    <3>3. SomewhereUp(r)'
      BY <1>0, <1>1, <1>u, <1>g, <1>20, <2>0, <2>b, <3>0 DEF RecOK, SomewhereUp, Up, Gone, RemovingDay, Removing
    <3>4. SomewhereDown(r)'
      BY <1>0, <1>1, <1>u, <1>g, <1>20, <2>0, <2>b, <3>0 DEF RecOK, SomewhereDown, Up, Gone, OnDisk
    <3>5. MarkWritten(r)'
      BY <1>0, <1>1, <1>u, <1>g, <1>20, <2>0, <2>b, <3>0 DEF RecOK, MarkWritten, KindOf, InFile
    <3>6. DumpKeeps(r)'
      BY <1>0, <1>1, <1>u, <1>g, <1>20, <2>0, <2>b, <3>0
        DEF RecOK, DumpKeeps, DumpingDay, Dumping, DumpDay, InFile
    <3>7. CompKeeps(r)'
      BY <1>0, <1>1, <1>u, <1>g, <1>20, <2>0, <2>b, <3>0 DEF RecOK, CompKeeps, InFile
    <3>8. GoneKeeps(r)'
      BY <1>0, <1>1, <1>u, <1>g, <1>20, <2>0, <2>b, <3>0 DEF RecOK, GoneKeeps, RemovingDay, Removing, InFile
    <3> QED
      BY <3>1, <3>2, <3>3, <3>4, <3>5, <3>6, <3>7, <3>8 DEF RecOK
  <2> QED
    BY <2>a, <2>b
<1> QED
  BY <1>2, <1>3, <1>4, <1>5, <1>6, <1>7, <1>8, <1>9, <1>10, <1>11, <1>12, <1>13, <1>14, <1>15, <1>16, <1>17,
     <1>19, <1>20
    DEF IInv, Types, DaysOK, RecsOK

\* Without references the part is deleted and its file with it.
LEMMA DropEndKeeps ==
    ASSUME IInv, DropEnd
    PROVE  IInv'
<1>0. /\ ServerTypes /\ PartTypes /\ DiskTypes /\ PastTypes /\ InsTypes /\ SyncTypes /\ DumpTypes /\ AdmTypes
      /\ Down /\ Events /\ VecParts /\ InsThread /\ SyncThread /\ DumpThread /\ AdmThread
      /\ Owners /\ DaysOK /\ InsRec /\ RecsOK
  BY DEF IInv, Types
<1>b. Ranged
  BY <1>0, Ranges DEF Types
<1>c. /\ adm.day \in Days /\ adm.part # 0 /\ adm.part \in 1 .. Len(parts) /\ parts[adm.part].freed \in 0 .. 2 /\ 0 # adm.day
      /\ adm.part \notin {ins.ref, syncer.ref, dump.ref} /\ parts[adm.part].day = adm.day /\ KindOf(adm.part) \in Kinds
      /\ <<adm.day, KindOf(adm.part)>> \in gone
      /\ \A d \in Days : vec[d] # adm.part
  <2>1. adm.day \in Days /\ adm.part # 0 /\ adm.part \in 1 .. Len(parts) /\ KindOf(adm.part) \in Kinds
    BY <1>0, <1>b DEF DropEnd, EndRemoval, AdmThread, Removing, Ranged, KindOf
  <2>2. parts[adm.part].freed \in 0 .. 2
    BY <1>0, <2>1, PartFields DEF PartTypes
  <2>3. parts[adm.part].day = adm.day /\ vec[adm.day] # adm.part /\ <<adm.day, KindOf(adm.part)>> \in gone
    BY <1>0 DEF DropEnd, EndRemoval, AdmThread, Removing
  <2>4. \A d \in Days : vec[d] # adm.part
    BY <1>0, <2>1, <2>3 DEF VecParts
  <2> QED
    BY <1>b, <2>1, <2>2, <2>3, <2>4 DEF DropEnd, EndRemoval, GetRefCntZero, Ranged
<1>f. /\ PartTypes' /\ Len(parts') = Len(parts) /\ parts'[adm.part].freed = parts[adm.part].freed + 1
      /\ \A p \in 1 .. Len(parts) : p # adm.part => parts'[p] = parts[p]
      /\ \A p \in 1 .. Len(parts) : parts'[p].day = parts[p].day /\ parts'[p].kind = parts[p].kind
                                    /\ parts'[p].ro = parts[p].ro /\ parts'[p].recs = parts[p].recs
  <2>1. parts[adm.part].freed # 2
    BY <1>0, <1>c DEF Owners
  <2>2. /\ parts' \in Seq(Part) /\ Len(parts') = Len(parts)
        /\ \A p \in 1 .. Len(parts) : p # adm.part => parts'[p] = parts[p]
        /\ parts'[adm.part].freed = parts[adm.part].freed + 1 /\ parts'[adm.part].day = parts[adm.part].day
        /\ parts'[adm.part].kind = parts[adm.part].kind /\ parts'[adm.part].ro = parts[adm.part].ro
        /\ parts'[adm.part].recs = parts[adm.part].recs
    BY <1>0, <1>c, <2>1, PartFreed DEF DropEnd, EndRemoval
  <2>3. PartTypes'
    BY <1>0, <2>2 DEF PartTypes, Part, DropEnd, EndRemoval
  <2>4. \A p \in 1 .. Len(parts) : parts'[p].day = parts[p].day /\ parts'[p].kind = parts[p].kind
                                    /\ parts'[p].ro = parts[p].ro /\ parts'[p].recs = parts[p].recs
    BY <2>2
  <2> QED
    BY <2>2, <2>3, <2>4
<1>g. /\ Len(parts') = Len(parts)
      /\ \A d \in Days : vec[d] # 0 => parts'[vec[d]] = parts[vec[d]]
      /\ ins.ref # 0 => parts'[ins.ref] = parts[ins.ref]
      /\ syncer.ref # 0 => parts'[syncer.ref] = parts[syncer.ref]
      /\ dump.ref # 0 => parts'[dump.ref] = parts[dump.ref]
      /\ ins.part # 0 => parts'[ins.part].day = parts[ins.part].day /\ parts'[ins.part].kind = parts[ins.part].kind
      /\ dump.part # 0 => /\ parts'[dump.part].day = parts[dump.part].day /\ parts'[dump.part].kind = parts[dump.part].kind
                          /\ parts'[dump.part].ro = parts[dump.part].ro /\ parts'[dump.part].recs = parts[dump.part].recs
  BY <1>b, <1>c, <1>f DEF Ranged
<1>h. /\ files' \in [Kinds -> [Days -> {NoFile} \cup SUBSET Recs]]
      /\ \A k \in Kinds, d \in Days : d # adm.day => files'[k][d] = files[k][d]
  <2> DEFINE e == adm.day
             k0 == KindOf(adm.part)
  <2>1. e \in Days /\ k0 \in Kinds /\ NoFile \in {NoFile} \cup SUBSET Recs /\ DiskTypes
    BY <1>0, <1>c
  <2>2. files' = [files EXCEPT ![k0][e] = NoFile]
    BY DEF DropEnd, KindOf
  <2> HIDE DEF e, k0
  <2>3. /\ files' \in [Kinds -> [Days -> {NoFile} \cup SUBSET Recs]]
        /\ \A k \in Kinds, d \in Days : k # k0 \/ d # e => files'[k][d] = files[k][d]
    BY <2>1, <2>2, FileSet, Zenon
  <2> QED
    BY <2>3 DEF e
<1>1. /\ adm.pc = "refs"
      /\ adm.part # 0
      /\ adm.day \in Days
      /\ adm.day # 0
      /\ adm.done + crashes < MaxEvents
      /\ adm' = IdleAdm(adm.done + 1)
      /\ adm'.pc = "idle" /\ adm'.part = 0 /\ adm'.day = 0
      /\ adm.done \in Nat
      /\ adm'.done = adm.done + 1
      /\ acked' = {r \in acked : r[1] # adm.day}
      /\ AdmShape'
      /\ UNCHANGED <<server, now, vec, cfg, log, ins, syncer, dump, dumpPartCode, cancel, late,
                     gone, raced, crashes>>
  BY <1>0, <1>c
    DEF DropEnd, EndRemoval, AdmStep, IdleAdm, Events, Of, PastTypes, AdmTypes, AdmShape, disk, past, memory
<1>u. Up
  BY <1>0, <1>1, BusyIsUp
<1>2. ServerTypes'
  BY <1>0, <1>1 DEF ServerTypes
<1>3. InsRec'
  BY <1>0, <1>1 DEF InsRec
<1>4. PartTypes'
  BY <1>f
<1>5. DiskTypes'
  BY <1>0, <1>1, <1>h DEF DiskTypes
<1>6. PastTypes'
  BY <1>0, <1>1, <1>u, <1>g, TwoKinds DEF PastTypes
<1>7. InsTypes'
  BY <1>0, <1>1, <1>u, <1>g, TwoKinds, <1>f DEF InsTypes, InsShape
<1>8. SyncTypes'
  BY <1>0, <1>1, <1>u, <1>g, TwoKinds, <1>f DEF SyncTypes, SyncShape
<1>9. DumpTypes'
  BY <1>0, <1>1, <1>u, <1>g, TwoKinds, <1>f DEF DumpTypes, DumpShape
<1>10. AdmTypes'
  BY <1>0, <1>1, <1>b, Constants DEF AdmTypes, AdmShape, IdleAdm, Ranged
<1>11. Down'
  BY <1>0, <1>1, <1>u, <1>g, TwoKinds DEF Down, IdleIns, IdleSync, IdleDump, IdleAdm, Up
<1>12. Events'
  BY <1>0, <1>1, PartLifecycleAssumption DEF Events
<1>13. VecParts'
  BY <1>0, <1>1, <1>g DEF VecParts
<1>14. InsThread'
  BY <1>0, <1>1, <1>u, <1>g, TwoKinds DEF InsThread, IdleIns, KindOf
<1>15. SyncThread'
  BY <1>0, <1>1, <1>g DEF SyncThread, IdleSync, KindOf
<1>16. DumpThread'
  <2>1. Dumping' <=> Dumping
    BY <1>1 DEF Dumping
  <2>2. dump.part # 0 => DumpDay' = DumpDay /\ KindOf(dump.part)' = KindOf(dump.part) /\ (parts[dump.part].ro => parts'[dump.part].ro)
    BY <1>1, <1>g DEF DumpDay, KindOf
  <2>3. dump.ref # 0 => parts'[dump.ref].freed = 0
    BY <1>0, <1>1, <1>g DEF DumpThread
  <2>4. (dump.part # 0 <=> Dumping') /\ (Dumping' => KindOf(dump.part)' = "normal" /\ parts'[dump.part].ro)
    BY <1>0, <1>1, <2>1, <2>2 DEF DumpThread
  <2>5. dumpPartCode' = IF Dumping' /\ dump'.pc # "mark" THEN DumpDay' ELSE 0
    BY <1>0, <1>1, <2>1, <2>2 DEF DumpThread
  <2>6. /\ Dumping' /\ dump'.pc # "wait" => dump'.ref = dump'.part
        /\ dump'.pc = "wait" => vec'[DumpDay'] # dump'.part
        /\ dump'.pc = "idle" => dump' = IdleDump
    BY <1>0, <1>1, <2>1, <2>2 DEF DumpThread, Dumping
  <2> QED
    BY <1>1, <2>3, <2>4, <2>5, <2>6, Zenon DEF DumpThread, IdleDump, KindOf
<1>17. AdmThread'
  BY <1>1 DEF AdmThread, IdleAdm, Removing
<1>18. Owners'
  <2> DEFINE q == adm.part
  <2> SUFFICES ASSUME NEW p \in 1 .. Len(parts')
               PROVE  /\ parts'[p].freed = 1 => adm'.part # p \/ dump.part # p
                      /\ parts'[p].freed = 2 => adm'.part # p /\ dump.part # p
                      /\ adm'.part = p /\ dump.part = p => <<"dump", parts'[p].day>> \in raced
                      /\ ~Raced(parts'[p].day) => parts'[p].freed = 0 \/ (parts'[p].freed = 1 /\ adm'.part # p /\ dump.part # p)
    BY <1>1 DEF Owners, Raced
  <2>0. p \in 1 .. Len(parts) /\ p # 0
    BY <1>b, <1>f DEF Ranged
  <2>1. CASE p = q
    <3>1. /\ parts[p].freed = 1 => dump.part # p
          /\ parts[p].freed # 2
          /\ dump.part = p => Raced(parts[p].day)
          /\ ~Raced(parts[p].day) => parts[p].freed = 0
      BY <1>0, <2>0, <2>1 DEF Owners, Raced
    <3>2. parts'[p].freed = parts[p].freed + 1 /\ parts[p].freed \in 0 .. 2 /\ parts'[p].day = parts[p].day
      BY <1>f, <1>c, <2>1
    <3> QED
      BY <1>1, <2>0, <2>1, <3>1, <3>2
  <2>2. CASE p # q
    BY <1>0, <1>1, <1>f, <2>0, <2>2 DEF Owners
  <2> QED
    BY <2>1, <2>2
<1>19. ASSUME NEW d \in Days, DayOK(d), InsOK(d), ~Raced(d)', d # adm.day
      PROVE  SameDay(d) /\ SameDump(d)
  <2>1. adm.day # d /\ adm'.day # d
    BY <1>1, <1>19, Constants
  <2>2. SameDay(d)
    BY <1>1, <1>g, <1>h, <1>19, <2>1 DEF SameDay, SamePart, KindOf
  <2>3. DumpingDay(d)' => DumpingDay(d)
    BY <1>0, <1>1, <1>g DEF DumpingDay, Dumping, DumpDay, DumpThread
  <2> QED
    BY <1>1, <2>2, <2>3 DEF SameDump
<1>20. ASSUME NEW d \in Days, ~Raced(d)'
      PROVE  DayOK(d)' /\ InsOK(d)'
  <2>1. DayOK(d) /\ InsOK(d) /\ ~Raced(d)
    BY <1>0, <1>1, <1>20 DEF DaysOK, Raced
  <2>2. CreateHasFile(d)'
    <3>1. CASE d = adm.day
      BY <1>1, <1>c, <3>1 DEF CreateHasFile, Gone
    <3>2. CASE d # adm.day
      BY <1>1, <1>h, <2>1, <3>2, Constants DEF InsOK, CreateHasFile, Gone, RemovingDay, Removing
    <3> QED
      BY <3>1, <3>2
  <2>3. RefIsKept(d)'
    BY <1>0, <1>1, <1>c, <1>g, <2>1
      DEF InsOK, RefIsKept, DumpThread, DumpingDay, Dumping, DumpDay, RemovingDay, Removing
  <2>4. DayOK(d)'
    <3>1. CASE d # adm.day
      BY <1>0, <1>19, <1>20, <2>1, <3>1, DayFrame DEF Types
    <3>2. CASE d = adm.day
      <4>0. /\ Entries(d) = {} /\ Entries(d)' = {} /\ vec[d] = 0 /\ ~DumpingDay(d)' /\ ~RemovingDay(d)'
        <5>1. Entries(d) = {} /\ vec[d] = 0
          BY <1>1, <2>1, <3>2 DEF DayOK, RefsNoEntry, RemovedIsOut, RemovingDay, Removing
        <5>2. ~DumpingDay(d)
          BY <1>0, <1>1, <2>1, <5>1 DEF DayOK, DumpHasVec, WaitHasComp, DumpingDay, DumpThread
        <5>3. ~DumpingDay(d)'
          BY <1>0, <1>1, <1>g, <5>2 DEF DumpingDay, Dumping, DumpDay, DumpThread
        <5> QED
          BY <1>1, <5>1, <5>3 DEF RemovingDay, Removing, Entries
      <4>1. DumpHasVec(d)'
        BY <1>0, <1>1, <1>u, <1>g, <1>20, <2>1, <3>2, <4>0 DEF DayOK, DumpHasVec, DumpingDay, Dumping, DumpDay
      <4>2. RemovedIsOut(d)'
        BY <1>0, <1>1, <1>u, <1>g, <1>20, <2>1, <3>2, <4>0 DEF DayOK, RemovedIsOut, RemovingDay, Removing
      <4>3. WaitHasComp(d)'
        BY <1>0, <1>1, <1>u, <1>g, <1>20, <2>1, <3>2, <4>0
          DEF DayOK, WaitHasComp, DumpingDay, Dumping, DumpDay, Entries, KindOf
      <4>4. DumpMadeFile(d)'
        BY <1>0, <1>1, <1>u, <1>g, <1>20, <2>1, <3>2, <4>0
          DEF DayOK, DumpMadeFile, DumpingDay, Dumping, DumpDay, Entries
      <4>5. OneEntry(d)'
        BY <1>0, <1>1, <1>u, <1>g, <1>20, <2>1, <3>2, <4>0 DEF DayOK, OneEntry, Entries
      <4>6. RefsNoEntry(d)'
        BY <1>0, <1>1, <1>u, <1>g, <1>20, <2>1, <3>2, <4>0 DEF DayOK, RefsNoEntry, Entries, KindOf
      <4>7. OutNoEntry(d)'
        BY <1>0, <1>1, <1>u, <1>g, <1>20, <2>1, <3>2, <4>0 DEF DayOK, OutNoEntry, Up, Entries
      <4>8. GoneIsOut(d)'
        BY <1>1, <3>2, <4>0 DEF GoneIsOut, Gone
      <4>9. AddHasPart(d)'
        BY <1>0, <1>1, <1>u, <1>g, <1>20, <2>1, <3>2, <4>0 DEF DayOK, AddHasPart, Entries, KindOf
      <4>10. PartHasFile(d)'
        BY <1>1, <3>2, <4>0 DEF PartHasFile
      <4>11. EntryIsPart(d)'
        BY <1>1, <3>2, <4>0 DEF EntryIsPart
      <4> QED
        BY <4>1, <4>2, <4>3, <4>4, <4>5, <4>6, <4>7, <4>8, <4>9, <4>10, <4>11 DEF DayOK
    <3> QED
      BY <3>1, <3>2
  <2> QED
    BY <2>2, <2>3, <2>4 DEF InsOK
<1>21. ASSUME NEW r \in Recs, Held(r)'
      PROVE  RecOK(r)'
  <2>0. r[1] \in Days
    BY PartLifecycleAssumption
  <2>a. CASE ~(r[1] = adm.day)
    <3>1. Held(r) /\ RecOK(r) /\ DayOK(r[1]) /\ InsOK(r[1])
      BY <1>0, <1>1, <1>u, <1>g, TwoKinds, <1>21, <2>0, <2>a DEF RecsOK, DaysOK, Held, Raced
    <3>2. SameDay(r[1]) /\ SameDump(r[1])
      BY <1>19, <1>21, <2>0, <3>1, <2>a DEF Held
    <3>3. SameRec(r)
      <4>1. ~RemovingDay(r[1])
        BY <1>1, <2>a DEF RemovingDay
      <4> QED
        BY <1>1, <1>g, <1>h, <2>0, <2>a, <4>1 DEF SameRec, SameKeeping, InFile, KindOf
    <3> QED
      BY <3>1, <3>2, <3>3, RecFrame
  <2>b. CASE r[1] = adm.day
    <3> QED
      BY <1>1, <2>b, <1>21 DEF Held
  <2> QED
    BY <2>a, <2>b
<1> QED
  BY <1>2, <1>3, <1>4, <1>5, <1>6, <1>7, <1>8, <1>9, <1>10, <1>11, <1>12, <1>13, <1>14, <1>15, <1>16, <1>17,
     <1>18, <1>20, <1>21
    DEF IInv, Types, DaysOK, RecsOK

-----------------------------------------------------------------------------
(* The server dies, stops and starts.                                      *)

\* A record that is kept is in its part and on disk, if no command is under way for its day.
LEMMA HeldIsThere ==
    ASSUME IInv, NEW r \in Recs, Held(r), Up, adm.pc = "idle" \/ adm.day # r[1]
    PROVE  Gone(r[1]) \/ (OnDisk(r) /\ InTable(r))
<1> DEFINE d == r[1]
<1>1. d \in Days /\ Kinds = {"normal", "comp"}
  BY PartLifecycleAssumption
<1>2. DayOK(d) /\ RecOK(r)
  BY <1>1 DEF IInv, DaysOK, RecsOK, Held
<1>3. ~RemovingDay(d) /\ ~(adm.pc = "add" /\ adm.day = d)
  BY DEF RemovingDay, Removing
<1>4. CASE vec[d] = 0
  BY <1>2, <1>3, <1>4 DEF RecOK, SomewhereUp
<1>5. CASE vec[d] # 0
  <2>1. PICK k \in Kinds : <<d, k>> \in cfg
    BY <1>2, <1>3, <1>5 DEF DayOK, EntryIsPart, Entries
  <2>2. files[k][d] # NoFile
    BY <1>2, <2>1 DEF DayOK, OneEntry, Entries
  <2>3. InTable(r)
    BY <1>2, <1>5 DEF RecOK, VecKeeps, PartKeeps, InTable
  <2>4. CASE k = "comp"
    <3>1. InFile("comp", r)
      BY <1>2, <2>1, <2>4 DEF RecOK, CompKeeps
    <3> QED
      BY <2>1, <2>2, <2>3, <2>4, <3>1 DEF OnDisk, InFile
  <2>5. CASE k = "normal"
    <3>1. KindOf(vec[d]) = "normal"
      BY <1>2, <1>5, <2>1, <2>5 DEF DayOK, EntryIsPart, Entries
    <3>2. InFile("normal", r) \/ r \in log
      BY <1>2, <1>5, <3>1 DEF RecOK, VecKeeps, PartKeeps
    <3> QED
      BY <2>1, <2>2, <2>3, <2>5, <3>2 DEF OnDisk, InFile
  <2> QED
    BY <1>1, <2>1, <2>4, <2>5
<1> QED
  BY <1>4, <1>5

\* The memory is gone and the disk has what it had, or more.
LEMMA GoneDownKeeps ==
    ASSUME IInv, NoMemory, server' \in {"down", "torn"}, UNCHANGED <<now, cfg, late, gone, acked>>,
           raced \subseteq raced', raced' \subseteq {"bare", "window", "attach", "dump", "unwritten"} \X Days,
           files' \in [Kinds -> [Days -> {NoFile} \cup SUBSET Recs]], log' \subseteq Recs,
           crashes' \in Nat, adm.done + crashes' <= MaxEvents,
           \A k \in Kinds, d \in Days : files[k][d] # NoFile => files'[k][d] # NoFile,
           \A r \in Recs : Held(r)' => /\ Gone(r[1])' \/ OnDisk(r)'
                                       /\ <<r[1], "comp">> \in cfg => InFile("comp", r)'
                                       /\ \A k \in Kinds : <<r[1], k>> \in gone => InFile(k, r)'
    PROVE  IInv'
<1>0. /\ ServerTypes /\ PartTypes /\ DiskTypes /\ PastTypes /\ InsTypes /\ SyncTypes /\ DumpTypes /\ AdmTypes
      /\ Down /\ Events /\ VecParts /\ InsThread /\ SyncThread /\ DumpThread /\ AdmThread
      /\ Owners /\ DaysOK /\ InsRec /\ RecsOK
  BY DEF IInv, Types
<1>1. /\ parts' = <<>> /\ vec' = [d \in Days |-> 0] /\ ins' = IdleIns /\ syncer' = IdleSync /\ dump' = IdleDump
      /\ adm' = IdleAdm(adm.done) /\ dumpPartCode' = 0 /\ cancel' = FALSE /\ adm.done \in Nat
  BY <1>0 DEF NoMemory, Events
<1>2. /\ ins'.pc = "idle" /\ ins'.day = 0 /\ ins'.part = 0 /\ ins'.ref = 0
      /\ syncer'.pc = "idle" /\ syncer'.at = 0 /\ syncer'.ref = 0 /\ syncer'.mark = {}
      /\ dump'.pc = "idle" /\ dump'.ref = 0 /\ dump'.part = 0
      /\ adm'.pc = "idle" /\ adm'.kind = "normal" /\ adm'.day = 0 /\ adm'.part = 0 /\ adm'.done = adm.done
      /\ \A d \in Days : vec'[d] = 0
  BY <1>1 DEF IdleIns, IdleSync, IdleDump, IdleAdm
<1>3. ServerTypes' /\ DiskTypes' /\ PastTypes'
  BY <1>0, <1>1 DEF ServerTypes, DiskTypes, PastTypes
<1>4. PartTypes'
  BY <1>1, PartLifecycleAssumption DEF PartTypes, Part
<1>5. InsTypes' /\ SyncTypes'
  BY <1>1, <1>2 DEF InsTypes, SyncTypes, InsShape, SyncShape, IdleIns, IdleSync
<1>6. DumpTypes' /\ AdmTypes'
  BY <1>1, <1>2, Constants DEF DumpTypes, AdmTypes, DumpShape, AdmShape, IdleDump, IdleAdm
<1>7. Down' /\ Events' /\ VecParts'
  BY <1>0, <1>1, <1>2 DEF Down, Events, VecParts
<1>8. InsThread' /\ SyncThread'
  BY <1>1, <1>2 DEF InsThread, SyncThread
<1>9. DumpThread' /\ AdmThread'
  BY <1>1, <1>2 DEF DumpThread, AdmThread, Dumping, Removing
<1>10. Owners' /\ InsRec'
  BY <1>1, <1>2 DEF Owners, InsRec
<1>11. ASSUME NEW d \in Days, ~Raced(d)'
       PROVE  DayOK(d)' /\ InsOK(d)'
  <2>1. DayOK(d) /\ d # 0
    BY <1>0, <1>11, Constants DEF DaysOK, Raced
  <2>2. Entries(d)' = Entries(d) /\ (Gone(d)' <=> Gone(d)) /\ ~DumpingDay(d)' /\ ~RemovingDay(d)' /\ ~Up'
    BY <1>2 DEF Entries, Gone, DumpingDay, Dumping, RemovingDay, Removing, Up
  <2>3. DumpHasVec(d)' /\ RemovedIsOut(d)' /\ WaitHasComp(d)' /\ DumpMadeFile(d)'
    BY <2>2 DEF DumpHasVec, RemovedIsOut, WaitHasComp, DumpMadeFile
  <2>4. OneEntry(d)'
    BY <2>1, <2>2 DEF DayOK, OneEntry, Entries
  <2>5. RefsNoEntry(d)' /\ OutNoEntry(d)' /\ AddHasPart(d)'
    BY <1>2, <2>2 DEF RefsNoEntry, OutNoEntry, AddHasPart
  <2>6. GoneIsOut(d)'
    BY <1>2, <2>1, <2>2 DEF DayOK, GoneIsOut
  <2>7. PartHasFile(d)' /\ EntryIsPart(d)'
    BY <1>2, <2>2 DEF PartHasFile, EntryIsPart
  <2>8. InsOK(d)'
    BY <1>2 DEF InsOK, CreateHasFile, RefIsKept
  <2> QED
    BY <2>3, <2>4, <2>5, <2>6, <2>7, <2>8 DEF DayOK
<1>12. ASSUME NEW r \in Recs, Held(r)'
       PROVE  RecOK(r)'
  <2>1. r[1] \in Days
    BY PartLifecycleAssumption
  <2>2. ~DumpingDay(r[1])' /\ ~RemovingDay(r[1])' /\ ~Up' /\ vec'[r[1]] = 0
    BY <1>2, <2>1 DEF DumpingDay, Dumping, RemovingDay, Removing, Up
  <2>3. VecKeeps(r)' /\ RemovedKeeps(r)' /\ SomewhereUp(r)' /\ MarkWritten(r)' /\ DumpKeeps(r)'
    BY <2>2 DEF VecKeeps, RemovedKeeps, SomewhereUp, MarkWritten, DumpKeeps
  <2>4. SomewhereDown(r)' /\ CompKeeps(r)' /\ GoneKeeps(r)'
    BY <1>12 DEF SomewhereDown, CompKeeps, GoneKeeps
  <2> QED
    BY <2>3, <2>4 DEF RecOK
<1> QED
  BY <1>3, <1>4, <1>5, <1>6, <1>7, <1>8, <1>9, <1>10, <1>11, <1>12 DEF IInv, Types, DaysOK, RecsOK

\* The server dies with what is in memory; the disk stays as it was.
LEMMA DiesKeeps ==
    ASSUME IInv, Up, Dies, crashes' \in Nat, adm.done + crashes' <= MaxEvents
    PROVE  IInv'
<1>0. DiskTypes /\ PastTypes /\ AdmTypes /\ AdmThread /\ RecsOK /\ DaysOK
  BY DEF IInv, Types
<1>1. /\ NoMemory /\ server' \in {"down", "torn"} /\ UNCHANGED <<now, cfg, files, log, late, gone, acked>>
      /\ raced' = raced \cup Unwritten
  BY DEF Dies, disk
<1>2. raced \subseteq raced' /\ raced' \subseteq {"bare", "window", "attach", "dump", "unwritten"} \X Days
  BY <1>0, <1>1 DEF Unwritten, PastTypes, AdmThread, AdmTypes
<1>3. files' \in [Kinds -> [Days -> {NoFile} \cup SUBSET Recs]] /\ log' \subseteq Recs
  BY <1>0, <1>1 DEF DiskTypes
<1>4. ASSUME NEW r \in Recs, Held(r)'
      PROVE  /\ Gone(r[1])' \/ OnDisk(r)'
             /\ <<r[1], "comp">> \in cfg => InFile("comp", r)'
             /\ \A k \in Kinds : <<r[1], k>> \in gone => InFile(k, r)'
  <2>1. Held(r) /\ (adm.pc = "idle" \/ adm.day # r[1])
    BY <1>1, <1>4 DEF Held, Raced, Unwritten
  <2>2. RecOK(r) /\ ~RemovingDay(r[1])
    BY <1>0, <2>1 DEF RecsOK, RemovingDay, Removing
  <2>3. Gone(r[1]) \/ OnDisk(r)
    BY <2>1, HeldIsThere
  <2>4. Gone(r[1])' \/ OnDisk(r)'
    BY <1>1, <2>3 DEF Gone, OnDisk
  <2> QED
    BY <1>1, <2>2, <2>4 DEF RecOK, CompKeeps, GoneKeeps, InFile
<1> QED
  BY <1>1, <1>2, <1>3, <1>4, GoneDownKeeps

\* A clean stop writes the writable parts and empties the log: the files have every record.
LEMMA StopKeeps ==
    ASSUME IInv, Stop
    PROVE  IInv'
<1>0. PartTypes /\ DiskTypes /\ PastTypes /\ RecsOK /\ DaysOK /\ Events /\ Ranged
  BY Ranges DEF IInv, Types
<1>1. /\ NoMemory /\ server' \in {"down", "torn"} /\ UNCHANGED <<now, cfg, late, gone, acked, raced, crashes>>
      /\ log' = {} /\ adm.pc = "idle" /\ Up
  BY DEF Stop, past
<1>2. /\ files' \in [Kinds -> [Days -> {NoFile} \cup SUBSET Recs]]
      /\ \A d \in Days : files'["comp"][d] = files["comp"][d]
      /\ \A d \in Days : files'["normal"][d] = IF vec[d] # 0 /\ KindOf(vec[d]) = "normal" /\ ~parts[vec[d]].ro
                                             THEN parts[vec[d]].recs ELSE files["normal"][d]
  <2> DEFINE S == {NoFile} \cup SUBSET Recs
             f == [d \in Days |-> IF vec[d] # 0 /\ parts[vec[d]].kind = "normal" /\ ~parts[vec[d]].ro
                                  THEN parts[vec[d]].recs ELSE files["normal"][d]]
  <2>1. files' = [files EXCEPT !["normal"] = f]
    BY DEF Stop
  <2>2. \A d \in Days : vec[d] # 0 => parts[vec[d]].recs \in S
    BY <1>0 DEF Ranged
  <2>3. files \in [Kinds -> [Days -> S]] /\ "normal" \in Kinds /\ "comp" \in Kinds
    BY <1>0, Constants DEF DiskTypes
  <2> HIDE DEF S
  <2>4. f \in [Days -> S]
    BY <2>2, <2>3
  <2>5. \A d \in Days : f[d] = IF vec[d] # 0 /\ KindOf(vec[d]) = "normal" /\ ~parts[vec[d]].ro
                              THEN parts[vec[d]].recs ELSE files["normal"][d]
    BY DEF KindOf
  <2> HIDE DEF f
  <2>6. files' \in [Kinds -> [Days -> S]] /\ files'["normal"] = f /\ files'["comp"] = files["comp"]
    BY <2>1, <2>3, <2>4
  <2> QED
    BY <2>5, <2>6 DEF S
<1>3. ASSUME NEW k \in Kinds, NEW d \in Days, files[k][d] # NoFile
      PROVE  files'[k][d] # NoFile
  <2>1. vec[d] # 0 => parts[vec[d]].recs # NoFile
    BY <1>0, Constants DEF Ranged
  <2> QED
    BY <1>2, <1>3, <2>1, Constants
<1>4. ASSUME NEW r \in Recs, Held(r)'
      PROVE  /\ Gone(r[1])' \/ OnDisk(r)'
             /\ <<r[1], "comp">> \in cfg => InFile("comp", r)'
             /\ \A k \in Kinds : <<r[1], k>> \in gone => InFile(k, r)'
  <2>1. Held(r) /\ r[1] \in Days /\ "normal" \in Kinds /\ "comp" \in Kinds /\ Kinds = {"normal", "comp"}
    BY <1>1, <1>4, Constants DEF Held, Raced
  <2>2. RecOK(r) /\ DayOK(r[1]) /\ ~RemovingDay(r[1])
    BY <1>0, <1>1, <2>1 DEF RecsOK, DaysOK, Held, RemovingDay, Removing
  <2>3. Gone(r[1]) \/ (OnDisk(r) /\ InTable(r))
    BY <1>1, <2>1, HeldIsThere DEF IInv
  <2>4. ASSUME NEW k \in Kinds, <<r[1], k>> \in cfg, OnDisk(r), InTable(r)
        PROVE  files'[k][r[1]] # NoFile /\ r \in files'[k][r[1]]
    <3>1. files'[k][r[1]] # NoFile
      BY <1>3, <2>1, <2>2, <2>4 DEF DayOK, OneEntry, Entries
    <3>2. CASE k = "comp"
      BY <1>2, <2>1, <2>2, <2>4, <3>1, <3>2 DEF RecOK, CompKeeps, InFile
    <3>3. CASE k = "normal"
      <4>1. vec[r[1]] # 0 /\ KindOf(vec[r[1]]) = "normal"
        BY <2>2, <2>4, <3>3 DEF InTable, DayOK, EntryIsPart, Entries
      <4>2. CASE parts[vec[r[1]]].ro
        BY <1>2, <2>1, <2>2, <3>1, <3>3, <4>1, <4>2 DEF RecOK, VecKeeps, PartKeeps, InFile
      <4>3. CASE ~parts[vec[r[1]]].ro
        BY <1>2, <2>1, <2>4, <3>1, <3>3, <4>1, <4>3 DEF InTable
      <4> QED
        BY <4>2, <4>3
    <3> QED
      BY <2>1, <3>2, <3>3
  <2>5. Gone(r[1])' \/ OnDisk(r)'
    <3>1. Gone(r[1]) => Gone(r[1])'
      BY <1>1 DEF Gone
    <3>2. ASSUME OnDisk(r), InTable(r)
          PROVE  OnDisk(r)'
      <4>1. PICK k \in Kinds : <<r[1], k>> \in cfg
        BY <3>2 DEF OnDisk
      <4> QED
        BY <1>1, <2>4, <3>2, <4>1 DEF OnDisk
    <3> QED
      BY <2>3, <3>1, <3>2
  <2>6. <<r[1], "comp">> \in cfg => InFile("comp", r)'
    BY <1>2, <2>1, <2>2 DEF RecOK, CompKeeps, InFile
  <2>7. ASSUME NEW k \in Kinds, <<r[1], k>> \in gone
        PROVE  InFile(k, r)'
    <3>1. vec[r[1]] = 0
      BY <2>2, <2>7 DEF DayOK, GoneIsOut, Gone
    <3>2. InFile(k, r)
      BY <2>2, <2>7 DEF RecOK, GoneKeeps
    <3> QED
      BY <1>2, <2>1, <3>1, <3>2 DEF InFile
  <2> QED
    BY <2>5, <2>6, <2>7
<1>5. crashes' \in Nat /\ adm.done + crashes' <= MaxEvents
  BY <1>0, <1>1 DEF Events
<1>6. raced \subseteq raced' /\ raced' \subseteq {"bare", "window", "attach", "dump", "unwritten"} \X Days /\ log' \subseteq Recs
  BY <1>0, <1>1 DEF PastTypes
<1> QED
  BY <1>1, <1>2, <1>3, <1>4, <1>5, <1>6, GoneDownKeeps

\* The parts that a start opens: one for each entry of the config, with the records of its file, and
\* of the log if it is a normal part.
LEMMA PartsOpened ==
    ASSUME IInv, Start, server' = "up"
    PROVE  /\ CanStart /\ PartTypes' /\ \A p \in 1 .. Len(parts') : parts'[p].freed = 0
           /\ \A d \in Days : vec'[d] = 0 => Entries(d) = {}
           /\ \A d \in Days : vec'[d] # 0 =>
                 LET p == parts'[vec'[d]] IN
                 /\ Entries(d) # {} /\ p.day = d /\ p.freed = 0
                 /\ "normal" \in Entries(d) => p.kind = "normal" /\ ~p.ro /\ p.recs = files["normal"][d] \cup Of(d, log)
                 /\ "normal" \notin Entries(d) => p.kind = "comp" /\ p.recs = files["comp"][d]
<1> DEFINE open == {e[1] : e \in cfg}
           Opened(d) == IF <<d, "normal">> \in cfg THEN NormalPartOf(d, files["normal"][d] \cup Of(d, log))
                        ELSE CompPartOf(d, files["comp"][d])
           N == Cardinality(open)
<1>1. CanStart
  BY DEF Start
<1>2. PICK order \in Bijection(1 .. N, open) :
         /\ parts' = [i \in 1 .. N |-> Opened(order[i])]
         /\ vec' = [d \in Days |-> IF d \in open THEN CHOOSE i \in DOMAIN order : order[i] = d ELSE 0]
  BY DEF Start
<1>3. open \subseteq Days /\ cfg \subseteq Days \X Kinds
  BY DEF IInv, Types, DiskTypes
<1>4. N \in Nat /\ N <= MaxParts
  <2>1. IsFiniteSet(open) /\ Cardinality(open) <= Cardinality(Days)
    BY <1>3, PartLifecycleAssumption, FS_Subset
  <2>2. Cardinality(open) \in Nat /\ Cardinality(Days) \in Nat
    BY <2>1, PartLifecycleAssumption, FS_CardinalityType
  <2> QED
    BY <2>1, <2>2, PartLifecycleAssumption
<1>5. \A d \in Days : d \in open <=> Entries(d) # {}
  <2>1. \A e \in cfg : e[2] \in Kinds /\ e = <<e[1], e[2]>>
    BY <1>3
  <2>2. ASSUME NEW d \in Days, NEW e \in cfg, e[1] = d
        PROVE  Entries(d) # {}
    BY <2>1, <2>2 DEF Entries
  <2>3. ASSUME NEW d \in Days, NEW k \in Entries(d)
        PROVE  d \in open
    BY <2>3 DEF Entries
  <2> QED
    BY <2>2, <2>3
<1>6. ASSUME NEW d \in open
      PROVE  Opened(d) \in Part
  <2>1. d \in Days /\ files \in [Kinds -> [Days -> {NoFile} \cup SUBSET Recs]] /\ Of(d, log) \subseteq Recs
    BY <1>3, <1>6 DEF IInv, Types, DiskTypes, Of
  <2>2. CASE <<d, "normal">> \in cfg
    <3>1. files["normal"][d] # NoFile
      BY <1>1, <2>2 DEF CanStart
    <3>2. files["normal"][d] \in SUBSET Recs
      BY <2>1, <3>1, Constants
    <3> QED
      BY <2>1, <2>2, <3>2, Constants DEF NormalPartOf, Part
  <2>3. CASE <<d, "normal">> \notin cfg
    <3>1. <<d, "comp">> \in cfg
      BY <1>3, <1>5, <2>1, <2>3, Constants DEF Entries
    <3>2. files["comp"][d] # NoFile
      BY <1>1, <3>1 DEF CanStart
    <3>3. files["comp"][d] \in SUBSET Recs
      BY <2>1, <3>2, Constants
    <3> QED
      BY <2>1, <2>3, <3>3, Constants DEF CompPartOf, Part
  <2> QED
    BY <2>2, <2>3
<1> HIDE DEF open, Opened, N
<1>7. /\ order \in [1 .. N -> open]
      /\ \A i, j \in 1 .. N : order[i] = order[j] => i = j
      /\ \A d \in open : \E i \in 1 .. N : order[i] = d
  <2>1. order \in Bijection(1 .. N, open)
    BY <1>2
  <2>2. order \in [1 .. N -> open] /\ IsInjective(order) /\ \A d \in open : \E i \in 1 .. N : order[i] = d
    BY <2>1 DEF Bijection, Injection, Surjection
  <2> QED
    BY <2>2 DEF IsInjective
<1>8. /\ \A d \in open : vec'[d] \in 1 .. N /\ order[vec'[d]] = d
      /\ \A d \in Days \ open : vec'[d] = 0
  <2>1. ASSUME NEW d \in open
        PROVE  vec'[d] \in 1 .. N /\ order[vec'[d]] = d
    <3>1. vec'[d] = CHOOSE i \in 1 .. N : order[i] = d
      BY <1>2, <1>3, <1>7
    <3>2. \E i \in 1 .. N : order[i] = d
      BY <1>7
    <3> QED
      BY <3>1, <3>2
  <2> QED
    BY <1>2, <2>1
<1>9. /\ Len(parts') = N /\ parts' \in Seq(Part) /\ \A i \in 1 .. N : parts'[i] = Opened(order[i])
  BY <1>2, <1>4, <1>6, <1>7
<1>10. vec' \in [Days -> 0 .. Len(parts')]
  <2>1. \A d \in Days : vec'[d] \in 0 .. N
    BY <1>4, <1>8
  <2> QED
    BY <1>2, <1>9, <2>1
<1>11. PartTypes'
  BY <1>4, <1>9, <1>10 DEF PartTypes, Part
<1>12. \A d \in Days : Opened(d).freed = 0 /\ Opened(d).day = d
  BY DEF Opened, NormalPartOf, CompPartOf
<1>13. \A p \in 1 .. Len(parts') : parts'[p].freed = 0
  BY <1>3, <1>7, <1>9, <1>12
<1>14. ASSUME NEW d \in Days, vec'[d] # 0
       PROVE  /\ parts'[vec'[d]] = Opened(d) /\ Entries(d) # {}
  BY <1>5, <1>8, <1>9, <1>14
<1>15. ASSUME NEW d \in Days
       PROVE  /\ "normal" \in Entries(d) => /\ Opened(d).kind = "normal" /\ ~Opened(d).ro
                                            /\ Opened(d).recs = files["normal"][d] \cup Of(d, log)
              /\ "normal" \notin Entries(d) => Opened(d).kind = "comp" /\ Opened(d).recs = files["comp"][d]
  BY Constants DEF Opened, NormalPartOf, CompPartOf, Entries
<1>16. \A d \in Days : vec'[d] = 0 => Entries(d) = {}
  BY <1>4, <1>5, <1>8
<1> QED
  BY <1>1, <1>11, <1>12, <1>13, <1>14, <1>15, <1>16

\* A start opens the parts of table.json and puts the records of the log in the normal ones.
LEMMA StartKeeps ==
    ASSUME IInv, Start
    PROVE  IInv'
<1>0. /\ ServerTypes /\ PartTypes /\ DiskTypes /\ PastTypes /\ InsTypes /\ SyncTypes /\ DumpTypes /\ AdmTypes
      /\ Down /\ Events /\ VecParts /\ InsThread /\ SyncThread /\ DumpThread /\ AdmThread
      /\ Owners /\ DaysOK /\ InsRec /\ RecsOK
  BY DEF IInv, Types
<1>1. /\ UNCHANGED <<now, ins, syncer, dump, adm, dumpPartCode, cancel, cfg, files, log, acked,
                     late, gone, raced, crashes>>
      /\ ins = IdleIns /\ syncer = IdleSync /\ dump = IdleDump /\ adm = IdleAdm(adm.done) /\ dumpPartCode = 0
      /\ server # "up" /\ parts = <<>> /\ vec = [d \in Days |-> 0]
  BY <1>0 DEF Start, disk, past, Down
<1>2. /\ ins.pc = "idle" /\ ins.day = 0 /\ ins.part = 0 /\ ins.ref = 0
      /\ syncer.pc = "idle" /\ syncer.at = 0 /\ syncer.ref = 0 /\ syncer.mark = {}
      /\ dump.pc = "idle" /\ dump.ref = 0 /\ dump.part = 0
      /\ adm.pc = "idle" /\ adm.kind = "normal" /\ adm.day = 0 /\ adm.part = 0
      /\ Len(parts) = 0 /\ (\A d \in Days : vec[d] = 0) /\ ~Up
  BY <1>1 DEF IdleIns, IdleSync, IdleDump, IdleAdm, Up
<1>3. CASE server' = "refused" /\ UNCHANGED <<parts, vec>>
  <2>1. ServerTypes' /\ PartTypes' /\ DiskTypes' /\ PastTypes'
    BY <1>0, <1>1, <1>3 DEF ServerTypes, PartTypes, Part, DiskTypes, PastTypes
  <2>2. InsTypes' /\ SyncTypes'
    BY <1>0, <1>1, <1>3 DEF InsTypes, SyncTypes, InsShape, SyncShape
  <2>9. DumpTypes' /\ AdmTypes'
    BY <1>0, <1>1, <1>3 DEF DumpTypes, AdmTypes, DumpShape, AdmShape
  <2>3. Down' /\ Events' /\ VecParts' /\ InsRec'
    BY <1>0, <1>1, <1>3 DEF Down, Events, VecParts, InsRec
  <2>4. InsThread' /\ SyncThread'
    BY <1>1, <1>2, <1>3 DEF InsThread, SyncThread
  <2>5. DumpThread' /\ AdmThread' /\ Owners'
    BY <1>1, <1>2, <1>3 DEF DumpThread, AdmThread, Dumping, Removing, Owners
  <2>6. ~Up' /\ ~Up
    BY <1>1, <1>3 DEF Up
  <2>7. ASSUME NEW d \in Days, ~Raced(d)'
        PROVE  DayOK(d)' /\ InsOK(d)'
    <3>1. DayOK(d) /\ d # 0
      BY <1>0, <1>1, <2>7, Constants DEF DaysOK, Raced
    <3>2. Entries(d)' = Entries(d) /\ (Gone(d)' <=> Gone(d)) /\ ~DumpingDay(d)' /\ ~RemovingDay(d)' /\ vec'[d] = 0
      BY <1>1, <1>2, <1>3 DEF Entries, Gone, DumpingDay, Dumping, RemovingDay, Removing
    <3>3. DumpHasVec(d)' /\ RemovedIsOut(d)' /\ WaitHasComp(d)' /\ DumpMadeFile(d)'
      BY <3>2 DEF DumpHasVec, RemovedIsOut, WaitHasComp, DumpMadeFile
    <3>4. OneEntry(d)'
      BY <1>1, <3>1, <3>2 DEF DayOK, OneEntry, Entries
    <3>5. RefsNoEntry(d)' /\ OutNoEntry(d)' /\ AddHasPart(d)'
      BY <1>1, <1>2, <2>6 DEF RefsNoEntry, OutNoEntry, AddHasPart
    <3>6. GoneIsOut(d)'
      BY <1>1, <1>2, <3>1, <3>2 DEF DayOK, GoneIsOut
    <3>7. PartHasFile(d)' /\ EntryIsPart(d)'
      BY <3>2 DEF PartHasFile, EntryIsPart
    <3>8. InsOK(d)'
      BY <1>1, <1>2 DEF InsOK, CreateHasFile, RefIsKept
    <3> QED
      BY <3>3, <3>4, <3>5, <3>6, <3>7, <3>8 DEF DayOK
  <2>8. ASSUME NEW r \in Recs, Held(r)'
        PROVE  RecOK(r)'
    <3>1. r[1] \in Days /\ RecOK(r)
      BY <1>0, <1>1, <2>8, PartLifecycleAssumption DEF RecsOK, Held, Raced
    <3>2. ~DumpingDay(r[1])' /\ ~RemovingDay(r[1])' /\ vec'[r[1]] = 0
      BY <1>1, <1>2, <1>3, <3>1 DEF DumpingDay, Dumping, RemovingDay, Removing
    <3>3. VecKeeps(r)' /\ RemovedKeeps(r)' /\ SomewhereUp(r)' /\ MarkWritten(r)' /\ DumpKeeps(r)'
      BY <2>6, <3>2 DEF VecKeeps, RemovedKeeps, SomewhereUp, MarkWritten, DumpKeeps
    <3>4. SomewhereDown(r)' /\ CompKeeps(r)' /\ GoneKeeps(r)'
      BY <1>1, <1>2, <2>6, <3>1 DEF RecOK, SomewhereDown, CompKeeps, GoneKeeps, Gone, OnDisk, InFile, RemovingDay, Removing
    <3> QED
      BY <3>3, <3>4 DEF RecOK
  <2> QED
    BY <2>1, <2>2, <2>3, <2>4, <2>5, <2>7, <2>8, <2>9 DEF IInv, Types, DaysOK, RecsOK
<1>4. CASE server' = "up"
  <2>1. /\ CanStart /\ PartTypes' /\ (\A p \in 1 .. Len(parts') : parts'[p].freed = 0)
        /\ (\A d \in Days : vec'[d] = 0 => Entries(d) = {})
        /\ \A d \in Days : vec'[d] # 0 =>
              /\ Entries(d) # {} /\ parts'[vec'[d]].day = d /\ parts'[vec'[d]].freed = 0
              /\ "normal" \in Entries(d) => /\ parts'[vec'[d]].kind = "normal" /\ ~parts'[vec'[d]].ro
                                            /\ parts'[vec'[d]].recs = files["normal"][d] \cup Of(d, log)
              /\ "normal" \notin Entries(d) => /\ parts'[vec'[d]].kind = "comp"
                                               /\ parts'[vec'[d]].recs = files["comp"][d]
    BY <1>4, PartsOpened
  <2>2. ServerTypes' /\ DiskTypes' /\ PastTypes'
    BY <1>0, <1>1, <1>4 DEF ServerTypes, DiskTypes, PastTypes
  <2>3. 0 \in 0 .. Len(parts')
    BY <2>1 DEF PartTypes
  <2>4. InsTypes' /\ SyncTypes'
    BY <1>0, <1>1, <1>2, <2>3 DEF InsTypes, SyncTypes, InsShape, SyncShape
  <2>5. DumpTypes' /\ AdmTypes'
    BY <1>0, <1>1, <1>2, <2>3 DEF DumpTypes, AdmTypes, DumpShape, AdmShape
  <2>6. Down' /\ Events' /\ VecParts' /\ InsRec'
    BY <1>0, <1>1, <1>4, <2>1 DEF Down, Events, VecParts, InsRec
  <2>7. InsThread' /\ SyncThread'
    BY <1>1, <1>2 DEF InsThread, SyncThread
  <2>8. DumpThread' /\ AdmThread'
    BY <1>1, <1>2 DEF DumpThread, AdmThread, Dumping, Removing
  <2>9. Owners'
    BY <1>1, <1>2, <2>1 DEF Owners
  <2>10. \A d \in Days : \A j, k \in Entries(d) : j = k /\ files[k][d] # NoFile
    <3>1. \A d \in Days : \A j, k \in Entries(d) : <<d, j>> \in cfg /\ <<d, k>> \in cfg
      BY DEF Entries
    <3>2. \A d \in Days : \A j, k \in Kinds : <<d, j>> \in cfg /\ <<d, k>> \in cfg => j = k /\ files[k][d] # NoFile
      BY <2>1 DEF CanStart
    <3> QED
      BY <3>1, <3>2 DEF Entries
  <2>11. ASSUME NEW d \in Days, ~Raced(d)'
         PROVE  DayOK(d)' /\ InsOK(d)'
    <3>1. DayOK(d) /\ d # 0
      BY <1>0, <1>1, <2>11, Constants DEF DaysOK, Raced
    <3>2. Entries(d)' = Entries(d) /\ (Gone(d)' <=> Gone(d)) /\ ~DumpingDay(d)' /\ ~RemovingDay(d)'
      BY <1>1, <1>2 DEF Entries, Gone, DumpingDay, Dumping, RemovingDay, Removing
    <3>3. DumpHasVec(d)' /\ RemovedIsOut(d)' /\ WaitHasComp(d)' /\ DumpMadeFile(d)'
      BY <3>2 DEF DumpHasVec, RemovedIsOut, WaitHasComp, DumpMadeFile
    <3>4. OneEntry(d)'
      BY <1>1, <3>1, <3>2 DEF DayOK, OneEntry, Entries
    <3>5. RefsNoEntry(d)' /\ OutNoEntry(d)' /\ AddHasPart(d)'
      BY <1>1, <1>2, <2>1, <3>2 DEF RefsNoEntry, OutNoEntry, AddHasPart
    <3>6. GoneIsOut(d)'
      BY <1>1, <1>2, <2>1, <3>1, <3>2 DEF DayOK, GoneIsOut
    <3>7. ASSUME vec'[d] # 0
          PROVE  /\ files[KindOf(vec[d])'][d] # NoFile
                 /\ "normal" \in Entries(d) => KindOf(vec[d])' = "normal"
                 /\ "comp" \in Entries(d) => KindOf(vec[d])' = "comp"
      <4>1. CASE "normal" \in Entries(d)
        BY <2>1, <2>10, <3>7, <4>1 DEF KindOf
      <4>2. CASE "normal" \notin Entries(d)
        <5>1. "comp" \in Entries(d)
          <6>1. PICK k \in Entries(d) : TRUE
            BY <2>1, <3>7
          <6>2. k \in Kinds /\ k # "normal"
            BY <4>2, <6>1 DEF Entries
          <6> QED
            BY <6>1, <6>2, Constants
        <5> QED
          BY <2>1, <2>10, <3>7, <4>2, <5>1 DEF KindOf
      <4> QED
        BY <4>1, <4>2
    <3>8. PartHasFile(d)' /\ EntryIsPart(d)'
      BY <1>1, <2>1, <3>2, <3>7 DEF PartHasFile, EntryIsPart
    <3>9. InsOK(d)'
      BY <1>1, <1>2 DEF InsOK, CreateHasFile, RefIsKept
    <3> QED
      BY <3>3, <3>4, <3>5, <3>6, <3>8, <3>9 DEF DayOK
  <2>12. ASSUME NEW r \in Recs, Held(r)'
         PROVE  RecOK(r)'
    <3>1. r[1] \in Days /\ RecOK(r) /\ DayOK(r[1]) /\ Kinds = {"normal", "comp"}
      BY <1>0, <1>1, <2>12, PartLifecycleAssumption DEF RecsOK, DaysOK, Held, Raced
    <3>2. ~DumpingDay(r[1])' /\ ~RemovingDay(r[1])' /\ ~RemovingDay(r[1]) /\ Up'
      BY <1>1, <1>2, <1>4 DEF DumpingDay, Dumping, RemovingDay, Removing, Up
    <3>3. Gone(r[1]) \/ OnDisk(r)
      BY <1>2, <3>1 DEF RecOK, SomewhereDown
    <3>4. ASSUME vec'[r[1]] # 0
          PROVE  PartKeeps(vec[r[1]], r)'
      <4>1. Entries(r[1]) # {} /\ ~Gone(r[1])
        BY <2>1, <3>1, <3>4 DEF DayOK, GoneIsOut
      <4>2. PICK k \in Kinds : /\ k \in Entries(r[1]) /\ files[k][r[1]] # NoFile
                               /\ r \in files[k][r[1]] \/ (k = "normal" /\ r \in log)
        BY <3>3, <4>1 DEF OnDisk, Entries
      <4>3. CASE k = "normal"
        BY <1>1, <2>1, <3>1, <3>4, <4>2, <4>3 DEF PartKeeps, KindOf, InFile, Of
      <4>4. CASE k = "comp"
        <5>1. "normal" \notin Entries(r[1])
          BY <2>10, <3>1, <4>2, <4>4
        <5> QED
          BY <1>1, <2>1, <3>1, <3>4, <4>2, <4>4, <5>1 DEF PartKeeps, KindOf, InFile
      <4> QED
        BY <3>1, <4>3, <4>4
    <3>5. VecKeeps(r)' /\ RemovedKeeps(r)' /\ DumpKeeps(r)' /\ SomewhereDown(r)'
      BY <3>2, <3>4 DEF VecKeeps, RemovedKeeps, DumpKeeps, SomewhereDown
    <3>6. SomewhereUp(r)'
      <4>1. ASSUME vec'[r[1]] = 0
            PROVE  Gone(r[1])'
        <5>1. Entries(r[1]) = {}
          BY <2>1, <3>1, <4>1
        <5>2. ~OnDisk(r)
          BY <5>1 DEF OnDisk, Entries
        <5> QED
          BY <1>1, <3>3, <5>2 DEF Gone
      <4> QED
        BY <4>1 DEF SomewhereUp
    <3>7. MarkWritten(r)'
      BY <1>1, <1>2 DEF MarkWritten
    <3>8. CompKeeps(r)' /\ GoneKeeps(r)'
      BY <1>1, <3>1, <3>2 DEF RecOK, CompKeeps, GoneKeeps, InFile
    <3> QED
      BY <3>5, <3>6, <3>7, <3>8 DEF RecOK
  <2> QED
    BY <2>1, <2>2, <2>4, <2>5, <2>6, <2>7, <2>8, <2>9, <2>11, <2>12 DEF IInv, Types, DaysOK, RecsOK
<1>5. (server' = "refused" /\ UNCHANGED <<parts, vec>>) \/ server' = "up"
  BY DEF Start
<1> QED
  BY <1>3, <1>4, <1>5

\* The table begins without parts.
LEMMA InitInv == ASSUME Init PROVE IInv
<1>1. /\ ins.pc = "idle" /\ ins.day = 0 /\ ins.part = 0 /\ ins.ref = 0
      /\ syncer.pc = "idle" /\ syncer.at = 0 /\ syncer.ref = 0 /\ syncer.mark = {}
      /\ dump.pc = "idle" /\ dump.ref = 0 /\ dump.part = 0
      /\ adm.pc = "idle" /\ adm.kind = "normal" /\ adm.day = 0 /\ adm.part = 0 /\ adm.done = 0
      /\ \A d \in Days : vec[d] = 0
  BY DEF Init, IdleIns, IdleSync, IdleDump, IdleAdm
<1>2. ServerTypes
  <2>1. FirstNow \in FirstNow .. MaxNow
    BY PartLifecycleAssumption
  <2>2. server = "up" /\ now = FirstNow /\ cancel = FALSE /\ dumpPartCode = 0
    BY DEF Init
  <2> QED
    BY <2>1, <2>2 DEF ServerTypes
<1>3. PartTypes
  BY PartLifecycleAssumption DEF Init, PartTypes
<1>4. DiskTypes /\ PastTypes
  BY DEF Init, DiskTypes, PastTypes
<1>5. InsTypes /\ SyncTypes
  BY <1>1 DEF Init, InsTypes, SyncTypes, InsShape, SyncShape, IdleIns, IdleSync
<1>6. DumpTypes /\ AdmTypes
  BY <1>1, Constants DEF Init, DumpTypes, AdmTypes, DumpShape, AdmShape, IdleDump, IdleAdm
<1>7. Down /\ VecParts /\ Events
  BY <1>1, PartLifecycleAssumption DEF Init, Down, VecParts, Events
<1>8. InsThread /\ SyncThread
  BY <1>1 DEF Init, InsThread, SyncThread
<1>9. DumpThread /\ AdmThread
  BY <1>1 DEF Init, DumpThread, AdmThread, Dumping, Removing, IdleAdm
<1>10. Owners /\ InsRec
  BY <1>1 DEF Init, Owners, InsRec
<1>11. ASSUME NEW d \in Days
       PROVE  DayOK(d) /\ InsOK(d)
  <2>1. Entries(d) = {} /\ ~Gone(d) /\ ~DumpingDay(d) /\ ~RemovingDay(d) /\ d # 0 /\ vec[d] = 0
    BY <1>1, Constants DEF Init, Entries, Gone, DumpingDay, Dumping, RemovingDay, Removing
  <2>2. DumpHasVec(d) /\ RemovedIsOut(d) /\ WaitHasComp(d) /\ DumpMadeFile(d)
    BY <2>1 DEF DumpHasVec, RemovedIsOut, WaitHasComp, DumpMadeFile
  <2>3. OneEntry(d) /\ RefsNoEntry(d) /\ OutNoEntry(d) /\ GoneIsOut(d)
    BY <1>1, <2>1 DEF OneEntry, RefsNoEntry, OutNoEntry, GoneIsOut
  <2>4. AddHasPart(d) /\ PartHasFile(d) /\ EntryIsPart(d) /\ InsOK(d)
    BY <1>1, <2>1 DEF AddHasPart, PartHasFile, EntryIsPart, InsOK, CreateHasFile, RefIsKept
  <2> QED
    BY <2>2, <2>3, <2>4 DEF DayOK
<1>12. \A r \in Recs : ~Held(r)
  BY DEF Init, Held
<1> QED
  BY <1>2, <1>3, <1>4, <1>5, <1>6, <1>7, <1>8, <1>9, <1>10, <1>11, <1>12 DEF IInv, Types, DaysOK, RecsOK

-----------------------------------------------------------------------------
(* Every step keeps the invariant.                                         *)

\* The next record of the request, for the day at hand, for a part that is there or for a new one.
LEMMA NextRecKeeps ==
    ASSUME IInv, NextRec
    PROVE  IInv'
<1>1. PICK r \in {x \in Recs \ log : InWindow(x[1], ins.today)} :
         LET d == r[1]
             one == [ins EXCEPT !.rec = r]
         IN  \/ /\ d = ins.day /\ InsStep([one EXCEPT !.pc = "log"])
                /\ raced' = raced \cup (IF ins.ref = 0 THEN {<<"bare", d>>} ELSE {})
                /\ UNCHANGED <<parts, vec, disk, acked, late, gone>>
             \/ /\ d # ins.day /\ vec[d] # 0 /\ parts[vec[d]].kind = "normal"
                /\ InsStep([one EXCEPT !.pc = "log", !.day = d, !.part = vec[d], !.ref = vec[d]])
                /\ UNCHANGED <<parts, vec, disk, past>>
             \/ /\ d # ins.day /\ vec[d] = 0 /\ files["normal"][d] = NoFile /\ Len(parts) < MaxParts
                /\ files' = [files EXCEPT !["normal"][d] = {}]
                /\ InsStep([one EXCEPT !.pc = "create", !.day = d, !.part = 0, !.ref = 0])
                /\ UNCHANGED <<parts, vec, cfg, log, past>>
  BY DEF NextRec
<1>2. ins.pc = "next" /\ r \in Recs /\ r \notin log
  BY DEF NextRec
<1>3. CASE /\ r[1] = ins.day /\ InsStep([[ins EXCEPT !.rec = r] EXCEPT !.pc = "log"])
           /\ raced' = raced \cup (IF ins.ref = 0 THEN {<<"bare", r[1]>>} ELSE {})
           /\ UNCHANGED <<parts, vec, disk, acked, late, gone>>
  BY <1>2, <1>3, NextRecSameKeeps
<1>4. CASE /\ vec[r[1]] # 0 /\ parts[vec[r[1]]].kind = "normal"
           /\ InsStep([[ins EXCEPT !.rec = r] EXCEPT !.pc = "log", !.day = r[1], !.part = vec[r[1]], !.ref = vec[r[1]]])
           /\ UNCHANGED <<parts, vec, disk, past>>
  BY <1>2, <1>4, NextRecFoundKeeps
<1>5. CASE /\ vec[r[1]] = 0 /\ files["normal"][r[1]] = NoFile /\ Len(parts) < MaxParts
           /\ files' = [files EXCEPT !["normal"][r[1]] = {}]
           /\ InsStep([[ins EXCEPT !.rec = r] EXCEPT !.pc = "create", !.day = r[1], !.part = 0, !.ref = 0])
           /\ UNCHANGED <<parts, vec, cfg, log, past>>
  BY <1>2, <1>5, NextRecCreatesKeeps
<1> QED
  BY <1>1, <1>3, <1>4, <1>5, Zenon

\* The full sync goes to its next part.
LEMMA SyncTakesKeeps ==
    ASSUME IInv, SyncNext
    PROVE  IInv'
<1>1. PICK e \in Days :
         /\ e > syncer.at /\ vec[e] # 0 /\ \A c \in Days : c > syncer.at /\ vec[c] # 0 => e <= c
         /\ SyncStep([syncer EXCEPT !.pc = IF Writes(e) THEN "switch" ELSE "next", !.at = e, !.ref = vec[e]])
         /\ IF Writes(e) /\ files["normal"][e] # NoFile
            THEN files' = [files EXCEPT !["normal"][e] = parts[vec[e]].recs]
            ELSE UNCHANGED files
  BY DEF SyncNext, Writes
<1>2. syncer.pc = "next" /\ UNCHANGED <<parts, log, late, raced>>
  BY DEF SyncNext
<1> QED
  BY <1>1, <1>2, SyncNextKeeps

\* The dump task goes to its next part or ends.
LEMMA DumpNextKeeps ==
    ASSUME IInv, DumpNext
    PROVE  IInv'
<1>1. dump.pc = "next"
  BY DEF DumpNext
<1>2. \/ DumpOnly(IdleDump)
      \/ \E e \in Days :
            /\ vec[e] # 0
            /\ DumpOnly([dump EXCEPT !.from = e + ValidDays, !.ref = vec[e],
                            !.part = IF parts[vec[e]].kind = "normal" /\ parts[vec[e]].ro THEN vec[e] ELSE 0,
                            !.pc = IF parts[vec[e]].kind = "normal" /\ parts[vec[e]].ro THEN "mark" ELSE "next"])
  BY DEF DumpNext
<1> QED
  BY <1>1, <1>2, DumpNextEndsKeeps, DumpNextTakesKeeps

\* The records of the part are written to its compressed file, or the cancellation is noticed.
LEMMA DumpScanKeeps ==
    ASSUME IInv, DumpScan
    PROVE  IInv'
<1>1. dump.pc = "scan" /\ UNCHANGED <<parts, vec, dumpPartCode, cancel, cfg, raced>>
  BY DEF DumpScan
<1>2. CASE files' = [files EXCEPT !["comp"][DumpDay] = parts[dump.part].recs] /\ DumpStep([dump EXCEPT !.pc = "config"])
  BY <1>1, <1>2, DumpMakesFileKeeps DEF MakesFile
<1>3. CASE DumpStep([dump EXCEPT !.pc = "give up"]) /\ UNCHANGED files
  BY <1>1, <1>3, DumpGivesUpKeeps
<1> QED
  BY <1>2, <1>3 DEF DumpScan

\* A crash, and the death of the server in the dump task.
LEMMA CrashKeeps ==
    ASSUME IInv, Crash \/ DumpDies
    PROVE  IInv'
<1>1. Events /\ Down /\ MaxEvents \in Nat
  BY PartLifecycleAssumption DEF IInv
<1>2. CASE Crash
  BY <1>1, <1>2, DiesKeeps DEF Crash, Events
<1>3. CASE DumpDies
  BY <1>1, <1>3, DiesKeeps, BusyIsUp DEF DumpDies, Events
<1> QED
  BY <1>2, <1>3

\* A step that changes nothing.
LEMMA StutterKeeps ==
    ASSUME IInv, UNCHANGED vars
    PROVE  IInv'
<1>1. UNCHANGED <<server, now, parts, vec, cfg, files, log, ins, syncer, dump, adm, dumpPartCode,
                  cancel, acked, late, gone, raced, crashes>>
  BY DEF vars, memory, disk, past
<1>2. Types' /\ Down' /\ Events' /\ VecParts' /\ InsThread' /\ SyncThread' /\ DumpThread' /\ AdmThread' /\ Owners'
  <2>1. ServerTypes' /\ PartTypes' /\ DiskTypes' /\ PastTypes'
    BY <1>1 DEF IInv, Types, ServerTypes, PartTypes, DiskTypes, PastTypes, Part
  <2>2. InsTypes' /\ SyncTypes'
    BY <1>1 DEF IInv, Types, InsTypes, SyncTypes, InsShape, SyncShape
  <2>3. Down' /\ Events' /\ VecParts'
    BY <1>1 DEF IInv, Down, Events, VecParts, IdleIns, IdleSync, IdleDump, IdleAdm
  <2>4. InsThread' /\ SyncThread'
    BY <1>1 DEF IInv, InsThread, SyncThread, IdleIns, IdleSync, KindOf
  <2>5. DumpThread' /\ AdmThread'
    BY <1>1 DEF IInv, DumpThread, AdmThread, IdleDump, IdleAdm, Dumping, Removing, KindOf, DumpDay
  <2>6. Owners'
    BY <1>1 DEF IInv, Owners, Raced
  <2>7. DumpTypes' /\ AdmTypes'
    BY <1>1 DEF IInv, Types, DumpTypes, AdmTypes, DumpShape, AdmShape
  <2> QED
    BY <2>1, <2>2, <2>3, <2>4, <2>5, <2>6, <2>7 DEF Types
<1>3. ASSUME NEW d \in Days, DayOK(d)
      PROVE  DayOK(d)'
  <2>1. Types /\ AdmThread
    BY DEF IInv
  <2>2. SameDay(d) /\ SameDump(d)
    BY <1>1 DEF SameDay, SameDump, SamePart, KindOf, DumpingDay, Dumping, DumpDay
  <2> QED
    BY <1>3, <2>1, <2>2, DayFrame
<1>4. DaysOK'
  <2>1. ASSUME NEW d \in Days, InsOK(d)
        PROVE  InsOK(d)'
    BY <1>1, <2>1 DEF InsOK, CreateHasFile, RefIsKept, Gone, RemovingDay, Removing, DumpingDay, Dumping, DumpDay
  <2> QED
    BY <1>1, <1>3, <2>1 DEF IInv, DaysOK, Raced
<1>5. InsRec'
  BY <1>1 DEF IInv, InsRec
<1>6. RecsOK'
  <2>1. ASSUME NEW r \in Recs, Held(r)'
        PROVE  RecOK(r)'
    <3>1. Held(r) /\ RecOK(r) /\ r[1] \in Days
      BY <1>1, <2>1, PartLifecycleAssumption DEF IInv, RecsOK, Held, Raced
    <3>2. SameDay(r[1]) /\ SameDump(r[1])
      BY <1>1 DEF SameDay, SameDump, SamePart, KindOf, DumpingDay, Dumping, DumpDay
    <3>3. SameRec(r)
      BY <1>1 DEF SameRec, SameKeeping, InFile, KindOf
    <3> QED
      BY <3>1, <3>2, <3>3, RecFrame
  <2> QED
    BY <2>1 DEF RecsOK
<1> QED
  BY <1>2, <1>4, <1>5, <1>6 DEF IInv

\* Every step of any thread.
LEMMA NextKeeps ==
    ASSUME IInv, [Next]_vars
    PROVE  IInv'
<1>1. CASE Tick \/ InsertBegin \/ Stop \/ Start
  BY <1>1, TickKeeps, InsertBeginKeeps, StopKeeps, StartKeeps
<1>2. CASE InsertStep
  BY <1>2, NextRecKeeps, NextRecFailsKeeps, CreatePartKeeps, LogRecKeeps, PutRecKeeps, InsertEndKeeps DEF InsertStep
<1>3. CASE SyncerStep
  BY <1>3, SyncBeginKeeps, SyncTakesKeeps, SyncEndKeeps, SyncSwitchKeeps DEF SyncerStep
<1>4. CASE DumperStep
  BY <1>4, DumpBeginKeeps, DumpNextKeeps, DumpMarkKeeps, DumpScanKeeps, CrashKeeps, SetFilePartKeeps,
     DumpOpenFailsKeeps, DumpSwapKeeps, DumpDeleteKeeps, DumpClearKeeps DEF DumperStep
<1>5. CASE AdmCommand
  BY <1>5, AttachPartKeeps, RemovePartKeeps DEF AdmCommand
<1>6. CASE AdminStep
  BY <1>6, AddFilePartKeeps, CancelDumpTaskKeeps, AwaitDumpKeeps, DelFilePartKeeps, DetachEndKeeps, DropEndKeeps
     DEF AdminStep
<1>7. CASE Crash
  BY <1>7, CrashKeeps
<1>8. CASE UNCHANGED vars
  BY <1>8, StutterKeeps
<1> QED
  BY <1>1, <1>2, <1>3, <1>4, <1>5, <1>6, <1>7, <1>8 DEF Next

\* After every interleaving of an insert request, a full sync, the dump task, a command of the
\* administrator, crashes and starts, the parts in memory, the entries of table.json, the files and
\* the log agree in the way that IInv says.
THEOREM LifecycleInvariant == Spec => []IInv
<1>1. Init => IInv
  BY InitInv
<1>2. IInv /\ [Next]_vars => IInv'
  BY NextKeeps
<1> QED
  BY <1>1, <1>2, PTL DEF Spec

\* Every variable has values of its type.
THEOREM LifecycleTypes == Spec => []TypeOK
<1>1. IInv => TypeOK
  <2> SUFFICES ASSUME IInv PROVE TypeOK
    OBVIOUS
  <2>1. /\ ServerTypes /\ PartTypes /\ DiskTypes /\ PastTypes /\ InsTypes /\ SyncTypes /\ DumpTypes /\ AdmTypes
        /\ Events /\ MaxEvents \in Nat /\ Ranged
    BY PartLifecycleAssumption, Ranges DEF IInv, Types
  <2>2. server \in {"up", "down", "torn", "refused"} /\ now \in FirstNow .. MaxNow /\ crashes \in 0 .. MaxEvents /\ adm.done \in 0 .. MaxEvents
    BY <2>1 DEF ServerTypes, Events
  <2>3. parts \in Seq(Part) /\ Len(parts) <= MaxParts /\ vec \in [Days -> 0 .. Len(parts)] /\ cfg \subseteq Days \X Kinds /\ log \subseteq Recs
    BY <2>1 DEF PartTypes, DiskTypes
  <2>4. \A k \in Kinds, d \in Days : files[k][d] = NoFile \/ files[k][d] \in SUBSET Recs
    BY <2>1 DEF DiskTypes
  <2>5. acked \cup late \subseteq Recs /\ gone \subseteq Days \X Kinds /\ raced \subseteq {"bare", "window", "attach", "dump", "unwritten"} \X Days
    BY <2>1 DEF PastTypes
  <2>6. ins.pc \in {"idle", "next", "create", "log", "put"} /\ syncer.pc \in {"idle", "next", "switch"} /\ syncer.mark \subseteq Recs
    BY <2>1 DEF InsTypes, SyncTypes
  <2>7. dump.pc \in {"idle", "next", "mark", "scan", "config", "swap", "wait", "clear", "give up"} /\ adm.pc \in {"idle", "add", "cancel", "await", "del", "refs"}
    BY <2>1 DEF DumpTypes, AdmTypes
  <2>8. {ins.part, ins.ref, syncer.ref, dump.ref, dump.part, adm.part} \subseteq 0 .. Len(parts)
    BY <2>1 DEF Ranged
  <2>9. dumpPartCode \in Days \cup {0} /\ cancel \in BOOLEAN
    BY <2>1 DEF ServerTypes
  <2> QED
    BY <2>2, <2>3, <2>4, <2>5, <2>6, <2>7, <2>8, <2>9 DEF TypeOK
<1> QED
  BY <1>1, LifecycleInvariant, PTL

\* A part object is deleted once, and not while partVec_ or a thread has it: GetRefCntZero and
\* partMutex_ suffice for that, but for a dump of the very part or a request that gave up its reference.
THEOREM PartsNotUsedAfterFree == Spec => []NoUseAfterFree
<1>1. IInv => NoUseAfterFree
  <2> SUFFICES ASSUME IInv, NEW p \in 1 .. Len(parts), ~Raced(parts[p].day), parts[p].freed # 0
               PROVE  parts[p].freed = 1 /\ ~InUse(p)
    BY DEF NoUseAfterFree
  <2>1. VecParts /\ InsThread /\ SyncThread /\ DumpThread /\ AdmThread /\ InsTypes /\ Ranged /\ p # 0
    BY Ranges DEF IInv, Types
  <2>2. parts[p].freed = 1 /\ adm.part # p /\ dump.part # p
    BY DEF IInv, Owners
  <2>3. GetRefCntZero(p)
    BY <2>1, <2>2 DEF InsThread, SyncThread, DumpThread, GetRefCntZero
  <2>4. \A d \in Days : vec[d] # p
    BY <2>1, <2>2 DEF VecParts
  <2>5. ~(ins.pc \in {"log", "put"} /\ ins.part = p)
    <3> SUFFICES ASSUME ins.pc \in {"log", "put"}, ins.part = p
                 PROVE  FALSE
      OBVIOUS
    <3>1. ins.ref = 0
      BY <2>1, <2>2 DEF InsThread, InsTypes
    <3>2. <<"bare", parts[p].day>> \in raced
      BY <2>1, <3>1 DEF InsThread
    <3> QED
      BY <3>2 DEF Raced
  <2> QED
    BY <2>2, <2>3, <2>4, <2>5 DEF InUse
<1> QED
  BY <1>1, LifecycleInvariant, PTL

\* What DetachPart or DropPart has taken out stays out of partVec_ and of table.json, but for an
\* insert request begun before the day was over, or a dump of the very part.
THEOREM PartsStayGone == Spec => []StaysGone
<1>1. IInv => StaysGone
  BY DEF IInv, DaysOK, DayOK, GoneIsOut, Entries, StaysGone
<1> QED
  BY <1>1, LifecycleInvariant, PTL

\* A start finds a file for every entry of table.json and one entry for a day, whatever was under
\* way when the server died, but for an attachment that a dump overtook.
THEOREM AlwaysStartable == Spec => []Startable
<1>1. IInv => Startable
  <2> SUFFICES ASSUME IInv, NEW e \in cfg, ~Raced(e[1])
               PROVE  files[e[2]][e[1]] # NoFile /\ \A f \in cfg : e[1] = f[1] => e = f
    BY DEF Startable
  <2>1. cfg \subseteq Days \X Kinds
    BY DEF IInv, Types, DiskTypes
  <2>2. e[1] \in Days /\ e[2] \in Kinds /\ e = <<e[1], e[2]>>
    BY <2>1
  <2>3. OneEntry(e[1])
    BY <2>2 DEF IInv, DaysOK, DayOK
  <2>4. e[2] \in Entries(e[1]) /\ files[e[2]][e[1]] # NoFile
    BY <2>2, <2>3 DEF OneEntry, Entries
  <2>5. ASSUME NEW f \in cfg, e[1] = f[1]
        PROVE  e = f
    <3>1. f[2] \in Kinds /\ f = <<f[1], f[2]>>
      BY <2>1
    <3>2. f[2] \in Entries(e[1])
      BY <2>5, <3>1 DEF Entries
    <3> QED
      BY <2>2, <2>3, <2>4, <2>5, <3>1, <3>2 DEF OneEntry
  <2> QED
    BY <2>4, <2>5
<1> QED
  BY <1>1, LifecycleInvariant, PTL

\* An accepted record is in the part of its day and in what a start finds on disk, through the
\* part's sync, its compression, crashes and starts, until an administrator takes the part out.
THEOREM AcceptedRecordsStay == Spec => []RecordsStay
<1>1. IInv => RecordsStay
  <2> SUFFICES ASSUME IInv, NEW r \in acked \ late, ~Gone(r[1]), ~Administered(r[1]), ~Raced(r[1]),
                      <<"unwritten", r[1]>> \notin raced
               PROVE  OnDisk(r) /\ (Up => InTable(r))
    BY DEF RecordsStay
  <2>1. r \in Recs /\ Held(r)
    BY DEF IInv, Types, PastTypes, Held
  <2>2. CASE Up
    BY <2>1, <2>2, HeldIsThere DEF Administered
  <2>3. CASE ~Up
    BY <2>1, <2>3 DEF IInv, RecsOK, RecOK, SomewhereDown
  <2> QED
    BY <2>2, <2>3
<1> QED
  BY <1>1, LifecycleInvariant, PTL

=============================================================================
