----------------------------- MODULE CatalogProofs -----------------------------
(***************************************************************************)
(* What Catalog promises, for any tables, devices and bounds: the          *)
(* inductive invariant IInv ties tabMap_, table.json, the device files,    *)
(* the data files and the log together at every point of a statement, a    *)
(* request on devices, an insert and a full sync.                          *)
(*                                                                         *)
(* Each lemma XKeeps shows that the step X keeps IInv: first what the step *)
(* changes (<1>1), then one part of IInv after the other.                  *)
(***************************************************************************)
EXTENDS Catalog, FiniteSetTheorems, SequenceTheorems, TLAPS

-----------------------------------------------------------------------------
(* The inductive invariant.                                                *)

\* The types.
Handle == [open : BOOLEAN, part : BOOLEAN, rows : SUBSET Records, dw : BOOLEAN]
Statements ==
    [kind : {"none", "create", "attach", "drop", "detach"}, tab : Tables \cup {NoFile},
     pc : {"idle", "config", "open", "add", "dw", "refs", "files", "device file"}, total : Nat]
DevStatements ==
    [kind : {"none", "add", "delete"}, tab : Tables \cup {NoFile}, dev : Devs \cup {NoFile},
     pc : {"idle", "add", "flush"}, total : Nat]
Inserts == [tab : Tables \cup {NoFile}, rec : Records \cup {<<>>}, pc : {"idle", "log", "put"}]
Syncs == [pc : {"idle", "point", "next"}, tabs : SUBSET Tables, mark : SUBSET Records]
ServerTypes == server \in {"up", "down", "torn", "refused"} /\ stmts \in 0 .. MaxStmts /\ codes \in 0 .. Codes
TabTypes == tab \in [Tables -> Handle]
OpTypes == op \in Statements
DevOpTypes == devop \in DevStatements
InsTypes == ins \in Inserts
SyncTypes == sync \in Syncs
CfgTypes == cfg \in [Tables -> Seq(BOOLEAN)]
DevTypes == dev \in [Tables -> {NoFile} \cup SUBSET Items]
SyncedTypes == synced \in [Tables -> SUBSET Items]
DataTypes == data \in [Tables -> {NoFile} \cup SUBSET Records]
LogTypes == log \in SUBSET Records
GenTypes == gen \in [Tables -> Gens] /\ \A t \in Tables : gen[t] <= stmts
PastTypes == /\ left \in SUBSET Tables /\ acked \in SUBSET Records /\ excused \in SUBSET Records
             /\ devs \in SUBSET Items /\ deleted \in SUBSET Items /\ raced \in SUBSET (Races \X Tables)

\* Without a server there is nothing in memory.
Down == ~Up => /\ tab = [t \in Tables |-> Closed]
               /\ op = NoOp /\ devop = NoDevOp /\ ins = NoIns /\ sync = NoSync

\* The statement under tabMutex_: where its kind takes it.
OpControl ==
    /\ op.pc = "idle" => op = NoOp
    /\ op.pc # "idle" => op.tab \in Tables
    /\ op.kind = "none" => op.pc = "idle"
    /\ op.kind = "create" => op.pc \in {"config", "open", "add", "dw"}
    /\ op.kind = "attach" => op.pc \in {"open", "add", "config"}
    /\ op.kind = "drop" => op.pc \in {"refs", "config", "files", "device file"}
    /\ op.kind = "detach" => op.pc \in {"refs", "config", "files"}
    /\ op.pc = "add" => codes > 0
At(t) == op.pc # "idle" /\ op.tab = t
Creating(t) == At(t) /\ op.kind = "create" /\ op.pc # "dw"
Attaching(t) == At(t) /\ op.kind = "attach"
Removing(t) == At(t) /\ op.kind \in {"drop", "detach"}
AtRefs(t) == At(t) /\ op.pc = "refs"
\* A removal of which the entry is gone.
Removed(t) == Removing(t) /\ op.pc \in {"files", "device file"}
OpenTabs ==
    \A t \in Tables :
       /\ tab[t].open /\ At(t) => \/ op.kind = "create" /\ op.pc = "dw"
                                  \/ op.kind = "attach" /\ op.pc = "config"
       /\ At(t) /\ op.kind = "create" /\ op.pc = "dw" => tab[t].open
       /\ At(t) /\ op.kind = "attach" /\ op.pc = "config" => tab[t].open
       /\ Up /\ ~tab[t].open /\ ~Removing(t) => tab[t] = Closed
       /\ tab[t].open \/ Removing(t) \/ Creating(t) => dev[t] # NoFile

\* The request on devices has a reference to its table between the change and the sync.
DevControl ==
    /\ devop.pc = "idle" => devop = NoDevOp
    /\ devop.pc # "idle" => devop.tab \in Tables /\ devop.dev \in Devs
    /\ devop.kind = "none" => devop.pc = "idle"
    /\ devop.kind = "delete" => devop.pc = "flush"
    /\ devop.pc = "flush" => tab[devop.tab].open \/ AtRefs(devop.tab)
    /\ devop.kind = "add" /\ devop.pc = "flush" => <<devop.tab, gen[devop.tab], devop.dev>> \in dev[devop.tab]
    /\ devop.kind = "delete" => \A x \in dev[devop.tab] : x[3] # devop.dev

\* The insert has one too, and a part.
InsControl ==
    /\ ins.pc = "idle" => ins = NoIns
    /\ ins.pc # "idle" => /\ ins.tab \in Tables /\ ins.rec = <<ins.tab, gen[ins.tab]>>
                          /\ tab[ins.tab].open \/ AtRefs(ins.tab)
                          /\ tab[ins.tab].part
    /\ ins.pc = "log" => ins.rec \notin log
    /\ ins.pc = "put" => ins.rec \in excused \/ (ins.rec \in log /\ ins.rec \notin sync.mark)

SyncControl ==
    /\ sync.pc = "idle" => sync = NoSync
    /\ sync.pc # "next" => sync.mark = {}
    /\ sync.mark \subseteq log

\* Nothing is of a CREATE to come.
Origins ==
    /\ \A r \in acked \cup log : r[2] <= gen[r[1]]
    /\ \A x \in devs \cup deleted : x[2] <= gen[x[1]]
DevOrigins == \A t \in Tables : /\ dev[t] # NoFile => \A x \in dev[t] : x[1] = t /\ x[2] <= gen[t]
                                /\ \A x \in synced[t] : x[1] = t /\ x[2] <= gen[t]
RowOrigins == \A t \in Tables : /\ \A r \in tab[t].rows : r[1] = t /\ r[2] <= gen[t]
                                /\ data[t] # NoFile => \A r \in data[t] : r[1] = t /\ r[2] <= gen[t]

\* What is synced is in the mapped file, but for the device that is being deleted.
SyncedDevs == \A t \in Tables :
                 /\ dev[t] = NoFile => synced[t] = {}
                 /\ (devop.kind = "delete" /\ devop.tab = t) \/ dev[t] = NoFile \/ synced[t] \subseteq dev[t]

\* A part has a file until DropParts.
PartFiles == \A t \in Tables :
                /\ tab[t].part => data[t] # NoFile \/ (At(t) /\ op.pc = "device file")
                /\ At(t) /\ op.pc = "device file" /\ tab[t].part => data[t] = NoFile

\* The entries of t, for which no CREATE has failed.
HasPart(t) == cfg[t] # <<>> /\ cfg[t][1]
EntryOK(t) ==
    /\ Len(cfg[t]) <= 1
    /\ cfg[t] # <<>> => dev[t] # NoFile
    /\ HasPart(t) => data[t] # NoFile
    /\ Up /\ HasPart(t) => tab[t].part
    /\ Up /\ tab[t].open => cfg[t] # <<>> \/ Attaching(t)
    /\ Up /\ ~tab[t].open /\ cfg[t] # <<>> =>
          \/ Creating(t) /\ op.pc \in {"open", "add"} /\ cfg[t] = <<FALSE>>
          \/ Removing(t) /\ op.pc \in {"refs", "config"}
    /\ Attaching(t) => cfg[t] = <<>>
    /\ Creating(t) /\ op.pc # "config" => cfg[t] # <<>>
LeftOK(t) ==
    /\ dev[t] # NoFile /\ cfg[t] = <<>> => t \in left \/ Creating(t) \/ Removed(t)
    /\ data[t] # NoFile /\ ~HasPart(t) => t \in left \/ (Removed(t) /\ tab[t].part)
EntriesOK == \A t \in Tables : ~Raced("failed", t) => EntryOK(t) /\ LeftOK(t)

\* Nothing of a table that was dropped before.
Fresh(t) == ~Raced("failed", t) /\ ~Raced("leftover", t) /\ ~Raced("redo", t)
NoDevsYet == \A t \in Tables : Creating(t) /\ ~Raced("failed", t) /\ ~Raced("leftover", t) => dev[t] = {}
NewDevs == \A t \in Tables : Fresh(t) =>
              /\ dev[t] # NoFile => \A x \in dev[t] : x[2] = gen[t]
              /\ \A x \in synced[t] : x[2] = gen[t]
NewRows == \A t \in Tables : Fresh(t) =>
              /\ \A r \in tab[t].rows : r[2] = gen[t]
              /\ \A r \in log : r[1] = t => r[2] = gen[t]
              /\ data[t] # NoFile => \A r \in data[t] : r[2] = gen[t]

\* The devices that may be counted: those that a crash may leave of the listed and the open tables.
InDevs(t, x) == dev[t] # NoFile /\ (x \in dev[t] \/ x \in synced[t])
OpenDevs == {x \in Items : \E t \in Tables : tab[t].open /\ InDevs(t, x)}
CountedDevs == {x \in Items : \E t \in Tables : (tab[t].open \/ cfg[t] # <<>>) /\ InDevs(t, x)}
CountsOK ==
    ~Overcounted =>
       /\ Cardinality(CountedDevs) <= MaxDev
       /\ devop.pc = "add" => Cardinality(CountedDevs) <= devop.total /\ op.pc # "add"
       /\ op.pc = "add" => Cardinality(OpenDevs) <= op.total

\* The acknowledged record r.
Own(r) == r \in acked \ excused /\ gen[r[1]] = r[2] /\ ~Raced("part", r[1]) /\ ~Raced("failed", r[1])
InData(r) == data[r[1]] # NoFile /\ r \in data[r[1]]
InRows(r) == tab[r[1]].part => r \in tab[r[1]].rows
InFiles(r) == \/ InData(r)
              \/ r \in log /\ HasPart(r[1])
              \/ Removed(r[1]) /\ tab[r[1]].part
MarkWritten(r) == r \in sync.mark /\ r[1] \notin sync.tabs /\ sync.pc = "next" =>
                     InData(r) \/ (Removed(r[1]) /\ tab[r[1]].part)
RowsOK == \A r \in Records : Own(r) => InRows(r) /\ InFiles(r) /\ MarkWritten(r)

\* The entry of a table says that it has a part.
PartEntry == \A t \in Tables : tab[t].part /\ (tab[t].open \/ AtRefs(t)) /\ ~Raced("part", t) /\ ~Raced("failed", t)
                               => HasPart(t)

\* The devices acknowledged and deleted.
DevsOK == \A t \in Tables : dev[t] # NoFile /\ ~Raced("unsynced", t) =>
             /\ \A x \in devs : x[1] = t /\ x[2] = gen[t] => x \in dev[t] /\ x \in synced[t]
             /\ \A x \in deleted : x[1] = t /\ x[2] = gen[t] => x \notin dev[t] /\ x \notin synced[t]

IInv == /\ ServerTypes /\ TabTypes /\ OpTypes /\ DevOpTypes /\ InsTypes /\ SyncTypes /\ CfgTypes
        /\ DevTypes /\ SyncedTypes /\ DataTypes /\ LogTypes /\ GenTypes /\ PastTypes
        /\ Down /\ OpControl /\ OpenTabs /\ DevControl /\ InsControl /\ SyncControl
        /\ Origins /\ DevOrigins /\ RowOrigins /\ SyncedDevs /\ PartFiles
        /\ EntriesOK /\ NoDevsYet /\ NewDevs /\ NewRows /\ CountsOK /\ RowsOK /\ PartEntry /\ DevsOK

-----------------------------------------------------------------------------
(* The constants, and how many devices there are.                          *)

\* What the proofs use of the assumption on the constants.
LEMMA Constants ==
    /\ NoFile \notin Tables /\ NoFile \notin Devs /\ MaxDev \in Nat /\ Codes \in Nat /\ MaxStmts \in Nat
    /\ NoFile \notin SUBSET Items /\ NoFile \notin SUBSET Records /\ NoFile # {}
    /\ IsFiniteSet(Tables) /\ IsFiniteSet(Devs)
<1>1. \A S \in (SUBSET Items) \cup (SUBSET Records) : NoFile # S
  BY CatalogAssumption
<1>2. NoFile # {}
  <2>1. {} \in (SUBSET Items) \cup (SUBSET Records)
    OBVIOUS
  <2> QED
    BY <1>1, <2>1
<1>3. NoFile \notin SUBSET Items
  BY <1>1
<1>4. NoFile \notin SUBSET Records
  BY <1>1
<1>5. MaxDev \in Nat /\ Codes \in Nat /\ MaxStmts \in Nat
  BY CatalogAssumption
<1> QED
  BY <1>2, <1>3, <1>4, <1>5, CatalogAssumption

\* There are finitely many devices.
LEMMA FiniteItems == IsFiniteSet(Items)
<1>1. IsFiniteSet(Gens)
  BY CatalogAssumption, FS_Interval DEF Gens
<1>2. IsFiniteSet(Gens \X Devs) /\ IsFiniteSet(Tables \X Gens)
  BY <1>1, Constants, FS_Product
<1>3. IsFiniteSet((Tables \X Gens) \X Devs)
  BY <1>2, Constants, FS_Product
<1> DEFINE f == [p \in (Tables \X Gens) \X Devs |-> <<p[1][1], p[1][2], p[2]>>]
<1>4. f \in Surjection((Tables \X Gens) \X Devs, Items)
  <2>1. f \in [(Tables \X Gens) \X Devs -> Items]
    BY DEF Items
  <2>2. ASSUME NEW x \in Items PROVE \E p \in (Tables \X Gens) \X Devs : f[p] = x
    <3>1. x = <<x[1], x[2], x[3]>> /\ x[1] \in Tables /\ x[2] \in Gens /\ x[3] \in Devs
      BY DEF Items
    <3>2. <<<<x[1], x[2]>>, x[3]>> \in (Tables \X Gens) \X Devs
      BY <3>1
    <3>3. f[<<<<x[1], x[2]>>, x[3]>>] = x
      BY <3>1, <3>2
    <3> QED
      BY <3>2, <3>3
  <2> QED
    BY <2>1, <2>2 DEF Surjection
<1> QED
  BY <1>3, <1>4, FS_Surjection

\* A thread that is busy has a server.
LEMMA BusyIsUp ==
    ASSUME Down, op.pc # "idle" \/ devop.pc # "idle" \/ ins.pc # "idle" \/ sync.pc # "idle"
    PROVE  Up
  BY DEF Down, NoOp, NoDevOp, NoIns, NoSync

\* Fewer devices are fewer.
LEMMA Fewer ==
    ASSUME NEW S \in SUBSET Items, NEW T \in SUBSET S
    PROVE  Cardinality(T) \in Nat /\ Cardinality(S) \in Nat /\ Cardinality(T) <= Cardinality(S)
<1>1. IsFiniteSet(S)
  BY FiniteItems, FS_Subset
<1> QED
  BY <1>1, FS_Subset, FS_CardinalityType

\* The counts stay good when fewer devices are counted.
LEMMA CountsShrink ==
    ASSUME CountsOK, DevOpTypes, OpTypes, CountedDevs' \subseteq CountedDevs, OpenDevs' \subseteq OpenDevs,
           devop'.pc = "add" => devop.pc = "add" /\ devop'.total = devop.total,
           op'.pc = "add" => op.pc = "add" /\ op'.total = op.total, raced \subseteq raced'
    PROVE  CountsOK'
<1>1. Overcounted => Overcounted'
  BY DEF Overcounted, Raced
<1>2. CountedDevs \in SUBSET Items /\ OpenDevs \in SUBSET Items
  BY DEF CountedDevs, OpenDevs
<1>3. /\ Cardinality(CountedDevs)' \in Nat /\ Cardinality(CountedDevs) \in Nat
      /\ Cardinality(CountedDevs)' <= Cardinality(CountedDevs)
  BY <1>2, Fewer
<1>4. /\ Cardinality(OpenDevs)' \in Nat /\ Cardinality(OpenDevs) \in Nat
      /\ Cardinality(OpenDevs)' <= Cardinality(OpenDevs)
  BY <1>2, Fewer
<1>5. devop.total \in Nat /\ op.total \in Nat /\ MaxDev \in Nat
  BY Constants DEF DevOpTypes, DevStatements, OpTypes, Statements
<1>6. ASSUME ~Overcounted'
      PROVE  /\ Cardinality(CountedDevs)' <= MaxDev
             /\ devop'.pc = "add" => Cardinality(CountedDevs)' <= devop'.total /\ op'.pc # "add"
             /\ op'.pc = "add" => Cardinality(OpenDevs)' <= op'.total
  <2>1. /\ Cardinality(CountedDevs) <= MaxDev
        /\ devop.pc = "add" => Cardinality(CountedDevs) <= devop.total /\ op.pc # "add"
        /\ op.pc = "add" => Cardinality(OpenDevs) <= op.total
    BY <1>1, <1>6 DEF CountsOK
  <2> QED
    BY <2>1, <1>3, <1>4, <1>5
<1> QED
  BY <1>6 DEF CountsOK

\* A sequence with one more, and with another first element.
LEMMA OneMore ==
    ASSUME NEW S, NEW s \in Seq(S), NEW e \in S
    PROVE  /\ Append(s, e) \in Seq(S) /\ Append(s, e) # <<>> /\ Len(<<e>>) <= 1 /\ <<e>> # <<>> /\ <<e>>[1] = e
           /\ s = <<>> => Append(s, e) = <<e>>
           /\ s # <<>> => Tail(s) \in Seq(S) /\ Len(Tail(s)) = Len(s) - 1 /\ Len(s) >= 1
           /\ Len(s) <= 1 /\ s # <<>> => Tail(s) = <<>>
           /\ s # <<>> => /\ <<e>> \o Tail(s) \in Seq(S) /\ <<e>> \o Tail(s) # <<>>
                         /\ Len(<<e>> \o Tail(s)) = Len(s) /\ (<<e>> \o Tail(s))[1] = e
<1>1. Append(s, e) \in Seq(S)
  OBVIOUS
<1>2. Append(s, e) # <<>>
  <2>1. Len(Append(s, e)) = Len(s) + 1 /\ Len(s) \in Nat
    OBVIOUS
  <2>2. Len(Append(s, e)) # 0
    BY <2>1
  <2> QED
    BY <2>2, EmptySeq
<1>3. Len(<<e>>) <= 1 /\ <<e>> # <<>> /\ <<e>>[1] = e
  OBVIOUS
<1>4. s = <<>> => Append(s, e) = <<e>>
  OBVIOUS
<1>5. s # <<>> => Tail(s) \in Seq(S) /\ Len(Tail(s)) = Len(s) - 1 /\ Len(s) >= 1
  OBVIOUS
<1>6. ASSUME Len(s) <= 1, s # <<>>
      PROVE  Tail(s) = <<>>
  <2>1. Len(s) \in Nat /\ Len(s) >= 1
    BY <1>5, <1>6
  <2> DEFINE n == Len(s)
  <2>2. n = 1
    <3>1. n \in Nat /\ n >= 1 /\ n <= 1
      BY <1>6, <2>1
    <3> HIDE DEF n
    <3> QED
      BY <3>1
  <2>3. Tail(s) \in Seq(S) /\ Len(Tail(s)) = 0
    BY <1>5, <1>6, <2>2
  <2> QED
    BY <2>3, EmptySeq
<1>7. ASSUME s # <<>>
      PROVE  /\ <<e>> \o Tail(s) \in Seq(S) /\ <<e>> \o Tail(s) # <<>>
             /\ Len(<<e>> \o Tail(s)) = Len(s) /\ (<<e>> \o Tail(s))[1] = e
  BY <1>5, <1>7
<1> QED
  BY <1>1, <1>2, <1>3, <1>4, <1>5, <1>6, <1>7

\* The entries of a table, with one more and without the first.
LEMMA Entered ==
    ASSUME NEW s \in Seq(BOOLEAN)
    PROVE  /\ Append(s, FALSE) \in Seq(BOOLEAN) /\ Append(s, FALSE) # <<>>
           /\ s = <<>> => Append(s, FALSE) = <<FALSE>>
           /\ Len(<<FALSE>>) <= 1 /\ ~(<<FALSE>>[1]) /\ <<FALSE>> # <<>>
           /\ s # <<>> => Tail(s) \in Seq(BOOLEAN) /\ Len(Tail(s)) = Len(s) - 1 /\ Len(s) >= 1
           /\ Len(s) <= 1 /\ s # <<>> => Tail(s) = <<>>
           /\ s # <<>> => /\ <<TRUE>> \o Tail(s) \in Seq(BOOLEAN) /\ <<TRUE>> \o Tail(s) # <<>>
                         /\ Len(<<TRUE>> \o Tail(s)) = Len(s) /\ (<<TRUE>> \o Tail(s))[1] = TRUE
<1>1. FALSE \in BOOLEAN /\ TRUE \in BOOLEAN
  OBVIOUS
<1> QED
  BY <1>1, OneMore, Zenon

\* A statement that goes on, and one that ends.
LEMMA GoesOn ==
    ASSUME OpTypes, Goes("config") \/ Goes("open") \/ Goes("dw") \/ Goes("files") \/ Goes("device file"), NEW pc, Goes(pc)
    PROVE  /\ op' \in Statements /\ op'.pc = pc /\ op'.kind = op.kind /\ op'.tab = op.tab /\ op'.total = op.total
           /\ UNCHANGED <<server, devop, ins, sync, log, acked, devs, deleted, stmts>>
  BY DEF OpTypes, Statements, Goes, OpStep, promised

LEMMA EndsNow ==
    ASSUME Ends
    PROVE  /\ op' \in Statements /\ op' = NoOp /\ op'.pc = "idle" /\ op'.kind = "none" /\ op'.tab = NoFile
           /\ UNCHANGED <<server, devop, ins, sync, log, acked, devs, deleted, stmts>>
  BY DEF Statements, Ends, OpStep, NoOp, promised

\* The devices of some tables, counted.
DevsOf(ts) == {x \in Items : \E t \in ts : dev[t] # NoFile /\ x \in dev[t]}
LEMMA Counting ==
    ASSUME DevTypes, NEW ts \in SUBSET Tables
    PROVE  Count(ts) = Cardinality(DevsOf(ts)) /\ Count(ts) \in Nat
<1>1. UNION {dev[t] : t \in {u \in ts : dev[u] # NoFile}} = DevsOf(ts)
  BY DEF DevTypes, DevsOf
<1>2. DevsOf(ts) \in SUBSET Items
  BY DEF DevsOf
<1> QED
  BY <1>1, <1>2, Fewer DEF Count

\* OpenTable counts what is on disk of the open tables, unless a device is being deleted.
LEMMA OpenCount ==
    ASSUME DevTypes, SyncedDevs, devop.kind # "delete"
    PROVE  GetTotalDevCnt \in Nat /\ Cardinality(OpenDevs) <= GetTotalDevCnt
<1>1. Open \in SUBSET Tables
  BY DEF Open
<1>2. DevsOf(Open) \in SUBSET Items /\ OpenDevs \in SUBSET DevsOf(Open)
  BY DEF DevsOf, OpenDevs, InDevs, Open, SyncedDevs
<1> QED
  BY <1>1, <1>2, Counting, Fewer DEF GetTotalDevCnt

\* Two sets of devices together.
LEMMA TwoSets ==
    ASSUME NEW S \in SUBSET Items, NEW T \in SUBSET Items
    PROVE  /\ Cardinality(S \cup T) \in Nat /\ Cardinality(S) \in Nat /\ Cardinality(T) \in Nat
           /\ Cardinality(S \cup T) <= Cardinality(S) + Cardinality(T)
<1>1. IsFiniteSet(S) /\ IsFiniteSet(T)
  BY FiniteItems, FS_Subset
<1>2. IsFiniteSet(S \cap T)
  BY <1>1, FS_Subset
<1>3. /\ Cardinality(S \cup T) = Cardinality(S) + Cardinality(T) - Cardinality(S \cap T)
      /\ IsFiniteSet(S \cup T)
  BY <1>1, FS_Union
<1>4. /\ Cardinality(S) \in Nat /\ Cardinality(T) \in Nat
      /\ Cardinality(S \cap T) \in Nat /\ Cardinality(S \cup T) \in Nat
  BY <1>1, <1>2, <1>3, FS_CardinalityType
<1> QED
  BY <1>3, <1>4

\* The parts of a device and of a record.
LEMMA Fields ==
    /\ \A x \in Items : x[1] \in Tables /\ x[2] \in Gens /\ x[2] \in Nat /\ x[3] \in Devs
    /\ \A r \in Records : r[1] \in Tables /\ r[2] \in Gens /\ r[2] \in Nat
  BY DEF Items, Records, Gens

\* The table of a request between the change and the sync has its device file.
LEMMA RequestFile ==
    ASSUME OpTypes, OpControl, OpenTabs, DevControl, DevTypes, GenTypes, devop.pc = "flush"
    PROVE  /\ devop.tab \in Tables /\ devop.dev \in Devs
           /\ dev[devop.tab] # NoFile /\ dev[devop.tab] \in SUBSET Items
           /\ <<devop.tab, gen[devop.tab], devop.dev>> \in Items /\ gen[devop.tab] <= gen[devop.tab]
<1>1. devop.tab \in Tables /\ devop.dev \in Devs
  BY DEF DevControl
<1>2. tab[devop.tab].open \/ Removing(devop.tab)
  BY DEF DevControl, AtRefs, At, Removing, OpControl, OpTypes, Statements
<1>3. dev[devop.tab] # NoFile
  BY <1>1, <1>2 DEF OpenTabs
<1>4. gen[devop.tab] \in Gens /\ gen[devop.tab] <= gen[devop.tab]
  BY <1>1 DEF GenTypes, Gens
<1> QED
  BY <1>1, <1>3, <1>4 DEF DevTypes, Items

\* The sync of the table t.
SyncTableOf(t) ==
    /\ sync.pc = "next" /\ SyncStep([sync EXCEPT !.tabs = @ \ {t}]) /\ UNCHANGED log
    /\ data' = IF tab[t].open THEN [data EXCEPT ![t] = Written(t)] ELSE data
    /\ excused' = excused \cup IF tab[t].open THEN Unwritten(t) ELSE Of(t, sync.mark)

\* What is in memory without a server.
LEMMA NoMemoryTypes ==
    ASSUME NoMemory
    PROVE  /\ tab' \in [Tables -> Handle] /\ op' \in Statements /\ devop' \in DevStatements
           /\ ins' \in Inserts /\ sync' \in Syncs
  BY DEF NoMemory, Closed, Handle, NoOp, Statements, NoDevOp, DevStatements, NoIns, Inserts, NoSync, Syncs

\* The first of one.
LEMMA First ==
    ASSUME NEW S, NEW s \in Seq(S), Len(s) = 1
    PROVE  s[1] \in S
  OBVIOUS

\* A table that is closed.
LEMMA ClosedHandle == Closed \in Handle /\ ~Closed.open /\ ~Closed.part /\ Closed.rows = {}
  BY DEF Closed, Handle

\* A sequence that is not empty and not longer than one.
LEMMA Single ==
    ASSUME NEW S, NEW s \in Seq(S), s # <<>>, Len(s) <= 1
    PROVE  Len(s) = 1
<1>1. Len(s) \in Nat /\ Len(s) >= 1
  OBVIOUS
<1> DEFINE n == Len(s)
<1>2. n \in Nat /\ n >= 1 /\ n <= 1
  BY <1>1
<1> HIDE DEF n
<1>3. n = 1
  BY <1>2
<1> USE DEF n
<1> QED
  BY <1>3


\* Nobody has the table any more.
LEMMA AwaitRefsKeeps ==
    ASSUME IInv, AwaitRefs
    PROVE  IInv'
<1>0. /\ ServerTypes /\ TabTypes /\ OpTypes /\ DevOpTypes /\ InsTypes /\ SyncTypes /\ CfgTypes
      /\ DevTypes /\ SyncedTypes /\ DataTypes /\ LogTypes /\ GenTypes /\ PastTypes
      /\ Down /\ OpControl /\ OpenTabs /\ DevControl /\ InsControl /\ SyncControl
      /\ Origins /\ DevOrigins /\ RowOrigins /\ SyncedDevs /\ PartFiles
      /\ EntriesOK /\ NoDevsYet /\ NewDevs /\ NewRows /\ CountsOK /\ RowsOK /\ PartEntry /\ DevsOK
  BY DEF IInv
<1>1. /\ Up
      /\ op.pc = "refs"
      /\ op.tab \in Tables
      /\ ins.tab # op.tab
      /\ ~(devop.tab = op.tab /\ devop.pc = "flush")
      /\ op.kind \in {"drop", "detach"}
      /\ op' \in Statements
      /\ op'.pc = "config"
      /\ op'.kind = op.kind
      /\ op'.tab = op.tab
      /\ op'.total = op.total
      /\ UNCHANGED <<server, tab, codes, devop, ins, sync, cfg, dev, synced, data, log, gen, left, acked, devs, deleted, excused, raced, stmts>>
  BY <1>0, BusyIsUp DEF AwaitRefs, GetRefCntZero, OpControl, Goes, Ends, OpStep, Begins, OpTypes, Statements, NoOp, disk, memory, past, promised, threads
<1>2. ServerTypes' /\ TabTypes' /\ DevOpTypes'
  BY <1>0, <1>1 DEF ServerTypes, TabTypes, DevOpTypes
<1>3. InsTypes' /\ SyncTypes' /\ CfgTypes' /\ DevTypes'
  BY <1>0, <1>1 DEF InsTypes, SyncTypes, CfgTypes, DevTypes
<1>4. SyncedTypes' /\ DataTypes' /\ LogTypes' /\ GenTypes' /\ PastTypes'
  BY <1>0, <1>1 DEF SyncedTypes, DataTypes, LogTypes, GenTypes, PastTypes
<1>5. SyncControl'
  BY <1>0, <1>1 DEF SyncControl
<1>6. Origins' /\ DevOrigins' /\ RowOrigins'
  BY <1>0, <1>1 DEF Origins, DevOrigins, RowOrigins
<1>7. SyncedDevs'
  BY <1>0, <1>1 DEF SyncedDevs
<1>8. NewDevs' /\ NewRows'
  BY <1>0, <1>1 DEF NewDevs, NewRows, Fresh, Raced
<1>9. DevsOK'
  BY <1>0, <1>1 DEF DevsOK, Raced
<1>10. OpTypes'
  BY <1>0, <1>1 DEF OpTypes
<1>11. Down'
  BY <1>0, <1>1 DEF Down, Up
<1>12. OpControl'
  BY <1>0, <1>1 DEF OpControl
<1>13. OpenTabs'
  BY <1>0, <1>1 DEF OpenTabs, At, Creating, Removing, Up
<1>14. DevControl'
  BY <1>0, <1>1 DEF DevControl, AtRefs, At
<1>15. InsControl'
  BY <1>0, <1>1 DEF InsControl, AtRefs, At
<1>16. PartFiles'
  BY <1>0, <1>1 DEF PartFiles, At
<1>17. ASSUME NEW u \in Tables, ~Raced("failed", u)'
      PROVE  EntryOK(u)' /\ LeftOK(u)'
  <2>1. EntryOK(u) /\ LeftOK(u) /\ ~Raced("failed", u)
    BY <1>0, <1>1, <1>17 DEF EntriesOK, Raced
  <2>2. EntryOK(u)'
    BY <1>0, <1>1, <2>1 DEF EntryOK, HasPart, Attaching, Creating, Removing, At, Up
  <2>3. LeftOK(u)'
    BY <1>0, <1>1, <2>1 DEF LeftOK, HasPart, Creating, Removed, Removing, At
  <2> QED
    BY <2>2, <2>3
<1>18. NoDevsYet'
  BY <1>0, <1>1 DEF NoDevsYet, Creating, At, Raced
<1>19. CountsOK'
  <2>1. CountedDevs' \subseteq CountedDevs
    BY <1>0, <1>1 DEF CountedDevs, InDevs
  <2>2. OpenDevs' \subseteq OpenDevs
    BY <1>0, <1>1 DEF OpenDevs, InDevs
  <2> QED
    BY <1>0, <1>1, <2>1, <2>2, CountsShrink
<1>20. ASSUME NEW r \in Records, Own(r)'
      PROVE  InRows(r)' /\ InFiles(r)' /\ MarkWritten(r)'
  <2>1. Own(r) /\ ~Raced("failed", r[1]) /\ InRows(r) /\ InFiles(r) /\ MarkWritten(r) /\ r[1] \in Tables /\ EntryOK(r[1])
    BY <1>0, <1>1, <1>20 DEF RowsOK, Own, Raced, Records, EntriesOK
  <2>2. InRows(r)'
    BY <1>1, <2>1 DEF InRows
  <2>3. InFiles(r)'
    BY <1>0, <1>1, <2>1 DEF InFiles, InData, HasPart, Removed, Removing, At
  <2>4. MarkWritten(r)'
    BY <1>0, <1>1, <2>1 DEF MarkWritten, InData, Removed, Removing, At
  <2> QED
    BY <2>2, <2>3, <2>4
<1>21. PartEntry'
  BY <1>0, <1>1 DEF PartEntry, HasPart, AtRefs, At, Raced
<1> QED
  BY <1>2, <1>3, <1>4, <1>5, <1>6, <1>7, <1>8, <1>9, <1>10, <1>11, <1>12, <1>13, <1>14, <1>15, <1>16, <1>18, <1>19, <1>21, <1>17, <1>20 DEF IInv, EntriesOK, RowsOK

\* ATTACH begins.
LEMMA AttachTableKeeps ==
    ASSUME IInv, NEW t \in Tables, AttachTable(t)
    PROVE  IInv'
<1>0. /\ ServerTypes /\ TabTypes /\ OpTypes /\ DevOpTypes /\ InsTypes /\ SyncTypes /\ CfgTypes
      /\ DevTypes /\ SyncedTypes /\ DataTypes /\ LogTypes /\ GenTypes /\ PastTypes
      /\ Down /\ OpControl /\ OpenTabs /\ DevControl /\ InsControl /\ SyncControl
      /\ Origins /\ DevOrigins /\ RowOrigins /\ SyncedDevs /\ PartFiles
      /\ EntriesOK /\ NoDevsYet /\ NewDevs /\ NewRows /\ CountsOK /\ RowsOK /\ PartEntry /\ DevsOK
  BY DEF IInv
<1>1. /\ Up
      /\ op.pc = "idle"
      /\ stmts' = stmts + 1
      /\ stmts < MaxStmts
      /\ ~tab[t].open
      /\ op' \in Statements
      /\ op'.kind = "attach"
      /\ op'.tab = t
      /\ op'.pc = "open"
      /\ op'.total = 0
      /\ UNCHANGED <<server, tab, codes, devop, ins, sync, cfg, dev, synced, data, log, gen, left, acked, devs, deleted, excused, raced>>
  BY <1>0 DEF AttachTable, Up, Goes, Ends, OpStep, Begins, OpTypes, Statements, NoOp, disk, memory, past, promised, threads
<1>2. TabTypes' /\ DevOpTypes'
  BY <1>0, <1>1 DEF TabTypes, DevOpTypes
<1>3. InsTypes' /\ SyncTypes' /\ CfgTypes' /\ DevTypes'
  BY <1>0, <1>1 DEF InsTypes, SyncTypes, CfgTypes, DevTypes
<1>4. SyncedTypes' /\ DataTypes' /\ LogTypes' /\ PastTypes'
  BY <1>0, <1>1 DEF SyncedTypes, DataTypes, LogTypes, PastTypes
<1>5. SyncControl'
  BY <1>0, <1>1 DEF SyncControl
<1>6. Origins' /\ DevOrigins' /\ RowOrigins'
  BY <1>0, <1>1 DEF Origins, DevOrigins, RowOrigins
<1>7. SyncedDevs'
  BY <1>0, <1>1 DEF SyncedDevs
<1>8. NewDevs' /\ NewRows'
  BY <1>0, <1>1 DEF NewDevs, NewRows, Fresh, Raced
<1>9. DevsOK'
  BY <1>0, <1>1 DEF DevsOK, Raced
<1>10. ServerTypes'
  BY <1>0, <1>1, Constants DEF ServerTypes
<1>11. OpTypes'
  BY <1>0, <1>1 DEF OpTypes
<1>12. GenTypes'
  BY <1>0, <1>1, Constants DEF GenTypes, Gens, ServerTypes
<1>13. Down'
  BY <1>0, <1>1 DEF Down, Up
<1>14. OpControl'
  BY <1>0, <1>1 DEF OpControl
<1>15. OpenTabs'
  BY <1>0, <1>1 DEF OpenTabs, At, Creating, Removing, Up
<1>16. DevControl'
  BY <1>0, <1>1 DEF DevControl, AtRefs, At
<1>17. InsControl'
  BY <1>0, <1>1 DEF InsControl, AtRefs, At
<1>18. PartFiles'
  BY <1>0, <1>1 DEF PartFiles, At
<1>19. ASSUME NEW u \in Tables, ~Raced("failed", u)'
      PROVE  EntryOK(u)' /\ LeftOK(u)'
  <2>1. EntryOK(u) /\ LeftOK(u) /\ ~Raced("failed", u)
    BY <1>0, <1>1, <1>19 DEF EntriesOK, Raced
  <2>2. EntryOK(u)'
    BY <1>0, <1>1, <2>1 DEF EntryOK, HasPart, Attaching, Creating, Removing, At, Up
  <2>3. LeftOK(u)'
    BY <1>0, <1>1, <2>1 DEF LeftOK, HasPart, Creating, Removed, Removing, At
  <2> QED
    BY <2>2, <2>3
<1>20. NoDevsYet'
  BY <1>0, <1>1 DEF NoDevsYet, Creating, At, Raced
<1>21. CountsOK'
  <2>1. CountedDevs' \subseteq CountedDevs
    BY <1>0, <1>1 DEF CountedDevs, InDevs
  <2>2. OpenDevs' \subseteq OpenDevs
    BY <1>0, <1>1 DEF OpenDevs, InDevs
  <2> QED
    BY <1>0, <1>1, <2>1, <2>2, CountsShrink
<1>22. ASSUME NEW r \in Records, Own(r)'
      PROVE  InRows(r)' /\ InFiles(r)' /\ MarkWritten(r)'
  <2>1. Own(r) /\ ~Raced("failed", r[1]) /\ InRows(r) /\ InFiles(r) /\ MarkWritten(r) /\ r[1] \in Tables /\ EntryOK(r[1])
    BY <1>0, <1>1, <1>22 DEF RowsOK, Own, Raced, Records, EntriesOK
  <2>2. InRows(r)'
    BY <1>1, <2>1 DEF InRows
  <2>3. InFiles(r)'
    BY <1>0, <1>1, <2>1 DEF InFiles, InData, HasPart, Removed, Removing, At
  <2>4. MarkWritten(r)'
    BY <1>0, <1>1, <2>1 DEF MarkWritten, InData, Removed, Removing, At
  <2> QED
    BY <2>2, <2>3, <2>4
<1>23. PartEntry'
  BY <1>0, <1>1 DEF PartEntry, HasPart, AtRefs, At, Raced
<1> QED
  BY <1>2, <1>3, <1>4, <1>5, <1>6, <1>7, <1>8, <1>9, <1>10, <1>11, <1>12, <1>13, <1>14, <1>15, <1>16, <1>17, <1>18, <1>20, <1>21, <1>23, <1>19, <1>22 DEF IInv, EntriesOK, RowsOK

\* DROP or DETACH begins.
LEMMA EraseTableKeeps ==
    ASSUME IInv, NEW kind \in {"drop", "detach"}, NEW t \in Tables, EraseTable(kind, t)
    PROVE  IInv'
<1>0. /\ ServerTypes /\ TabTypes /\ OpTypes /\ DevOpTypes /\ InsTypes /\ SyncTypes /\ CfgTypes
      /\ DevTypes /\ SyncedTypes /\ DataTypes /\ LogTypes /\ GenTypes /\ PastTypes
      /\ Down /\ OpControl /\ OpenTabs /\ DevControl /\ InsControl /\ SyncControl
      /\ Origins /\ DevOrigins /\ RowOrigins /\ SyncedDevs /\ PartFiles
      /\ EntriesOK /\ NoDevsYet /\ NewDevs /\ NewRows /\ CountsOK /\ RowsOK /\ PartEntry /\ DevsOK
  BY DEF IInv
<1>1. /\ Up
      /\ op.pc = "idle"
      /\ stmts' = stmts + 1
      /\ stmts < MaxStmts
      /\ tab' \in [Tables -> Handle]
      /\ tab[t].open
      /\ ~tab'[t].open
      /\ tab'[t].part = tab[t].part
      /\ tab'[t].rows = tab[t].rows
      /\ tab'[t].dw = tab[t].dw
      /\ \A v \in Tables : v # t => tab'[v] = tab[v]
      /\ op' \in Statements
      /\ op'.kind = kind
      /\ op'.tab = t
      /\ op'.pc = "refs"
      /\ op'.total = 0
      /\ UNCHANGED <<server, codes, devop, ins, sync, cfg, dev, synced, data, log, gen, left, acked, devs, deleted, excused, raced>>
  BY <1>0 DEF EraseTable, Up, TabTypes, Handle, Goes, Ends, OpStep, Begins, OpTypes, Statements, NoOp, disk, memory, past, promised, threads
<1>2. DevOpTypes'
  BY <1>0, <1>1 DEF DevOpTypes
<1>3. InsTypes' /\ SyncTypes' /\ CfgTypes' /\ DevTypes'
  BY <1>0, <1>1 DEF InsTypes, SyncTypes, CfgTypes, DevTypes
<1>4. SyncedTypes' /\ DataTypes' /\ LogTypes' /\ PastTypes'
  BY <1>0, <1>1 DEF SyncedTypes, DataTypes, LogTypes, PastTypes
<1>5. SyncControl'
  BY <1>0, <1>1 DEF SyncControl
<1>6. Origins' /\ DevOrigins'
  BY <1>0, <1>1 DEF Origins, DevOrigins
<1>7. SyncedDevs'
  BY <1>0, <1>1 DEF SyncedDevs
<1>8. NewDevs'
  BY <1>0, <1>1 DEF NewDevs, Fresh, Raced
<1>9. DevsOK'
  BY <1>0, <1>1 DEF DevsOK, Raced
<1>10. ServerTypes'
  BY <1>0, <1>1, Constants DEF ServerTypes
<1>11. TabTypes'
  BY <1>0, <1>1 DEF TabTypes
<1>12. OpTypes'
  BY <1>0, <1>1 DEF OpTypes
<1>13. GenTypes'
  BY <1>0, <1>1, Constants DEF GenTypes, Gens, ServerTypes
<1>14. Down'
  BY <1>0, <1>1 DEF Down, Up
<1>15. OpControl'
  BY <1>0, <1>1 DEF OpControl
<1>16. OpenTabs'
  BY <1>0, <1>1 DEF OpenTabs, At, Creating, Removing, Up
<1>17. DevControl'
  BY <1>0, <1>1 DEF DevControl, AtRefs, At
<1>18. InsControl'
  BY <1>0, <1>1 DEF InsControl, AtRefs, At
<1>19. RowOrigins'
  BY <1>0, <1>1 DEF RowOrigins
<1>20. PartFiles'
  BY <1>0, <1>1 DEF PartFiles, At
<1>21. ASSUME NEW u \in Tables, ~Raced("failed", u)'
      PROVE  EntryOK(u)' /\ LeftOK(u)'
  <2>1. EntryOK(u) /\ LeftOK(u) /\ ~Raced("failed", u)
    BY <1>0, <1>1, <1>21 DEF EntriesOK, Raced
  <2>2. EntryOK(u)'
    BY <1>0, <1>1, <2>1 DEF EntryOK, HasPart, Attaching, Creating, Removing, At, Up
  <2>3. LeftOK(u)'
    BY <1>0, <1>1, <2>1 DEF LeftOK, HasPart, Creating, Removed, Removing, At
  <2> QED
    BY <2>2, <2>3
<1>22. NoDevsYet'
  BY <1>0, <1>1 DEF NoDevsYet, Creating, At, Raced
<1>23. NewRows'
  BY <1>0, <1>1 DEF NewRows, Fresh, Raced
<1>24. CountsOK'
  <2>1. CountedDevs' \subseteq CountedDevs
    BY <1>0, <1>1 DEF CountedDevs, InDevs
  <2>2. OpenDevs' \subseteq OpenDevs
    BY <1>0, <1>1 DEF OpenDevs, InDevs
  <2> QED
    BY <1>0, <1>1, <2>1, <2>2, CountsShrink
<1>25. ASSUME NEW r \in Records, Own(r)'
      PROVE  InRows(r)' /\ InFiles(r)' /\ MarkWritten(r)'
  <2>1. Own(r) /\ ~Raced("failed", r[1]) /\ InRows(r) /\ InFiles(r) /\ MarkWritten(r) /\ r[1] \in Tables /\ EntryOK(r[1])
    BY <1>0, <1>1, <1>25 DEF RowsOK, Own, Raced, Records, EntriesOK
  <2>2. InRows(r)'
    BY <1>0, <1>1, <2>1 DEF InRows
  <2>3. InFiles(r)'
    BY <1>0, <1>1, <2>1 DEF InFiles, InData, HasPart, Removed, Removing, At
  <2>4. MarkWritten(r)'
    BY <1>0, <1>1, <2>1 DEF MarkWritten, InData, Removed, Removing, At
  <2> QED
    BY <2>2, <2>3, <2>4
<1>26. PartEntry'
  BY <1>0, <1>1 DEF PartEntry, HasPart, AtRefs, At, Raced
<1> QED
  BY <1>2, <1>3, <1>4, <1>5, <1>6, <1>7, <1>8, <1>9, <1>10, <1>11, <1>12, <1>13, <1>14, <1>15, <1>16, <1>17, <1>18, <1>19, <1>20, <1>22, <1>23, <1>24, <1>26, <1>21, <1>25 DEF IInv, EntriesOK, RowsOK

\* The files of the parts are deleted.
LEMMA DropPartsKeeps ==
    ASSUME IInv, DropParts
    PROVE  IInv'
<1>0. /\ ServerTypes /\ TabTypes /\ OpTypes /\ DevOpTypes /\ InsTypes /\ SyncTypes /\ CfgTypes
      /\ DevTypes /\ SyncedTypes /\ DataTypes /\ LogTypes /\ GenTypes /\ PastTypes
      /\ Down /\ OpControl /\ OpenTabs /\ DevControl /\ InsControl /\ SyncControl
      /\ Origins /\ DevOrigins /\ RowOrigins /\ SyncedDevs /\ PartFiles
      /\ EntriesOK /\ NoDevsYet /\ NewDevs /\ NewRows /\ CountsOK /\ RowsOK /\ PartEntry /\ DevsOK
  BY DEF IInv
<1>1. /\ Up
      /\ op.pc = "files"
      /\ op.kind = "drop"
      /\ op.tab \in Tables
      /\ data' \in [Tables -> {NoFile} \cup SUBSET Records]
      /\ tab[op.tab].part => data'[op.tab] = NoFile
      /\ ~tab[op.tab].part => data'[op.tab] = data[op.tab]
      /\ \A v \in Tables : v # op.tab => data'[v] = data[v]
      /\ op' \in Statements
      /\ op'.pc = "device file"
      /\ op'.kind = op.kind
      /\ op'.tab = op.tab
      /\ op'.total = op.total
      /\ UNCHANGED <<server, tab, codes, devop, ins, sync, cfg, dev, synced, log, gen, left, acked, devs, deleted, excused, raced, stmts>>
  BY <1>0, BusyIsUp DEF DropParts, OpControl, DataTypes, Goes, Ends, OpStep, Begins, OpTypes, Statements, NoOp, disk, memory, past, promised, threads
<1>2. ServerTypes' /\ TabTypes' /\ DevOpTypes'
  BY <1>0, <1>1 DEF ServerTypes, TabTypes, DevOpTypes
<1>3. InsTypes' /\ SyncTypes' /\ CfgTypes' /\ DevTypes'
  BY <1>0, <1>1 DEF InsTypes, SyncTypes, CfgTypes, DevTypes
<1>4. SyncedTypes' /\ LogTypes' /\ GenTypes' /\ PastTypes'
  BY <1>0, <1>1 DEF SyncedTypes, LogTypes, GenTypes, PastTypes
<1>5. SyncControl'
  BY <1>0, <1>1 DEF SyncControl
<1>6. Origins' /\ DevOrigins'
  BY <1>0, <1>1 DEF Origins, DevOrigins
<1>7. SyncedDevs'
  BY <1>0, <1>1 DEF SyncedDevs
<1>8. NewDevs'
  BY <1>0, <1>1 DEF NewDevs, Fresh, Raced
<1>9. DevsOK'
  BY <1>0, <1>1 DEF DevsOK, Raced
<1>10. OpTypes'
  BY <1>0, <1>1 DEF OpTypes
<1>11. DataTypes'
  BY <1>0, <1>1 DEF DataTypes
<1>12. Down'
  BY <1>0, <1>1 DEF Down, Up
<1>13. OpControl'
  BY <1>0, <1>1 DEF OpControl
<1>14. OpenTabs'
  BY <1>0, <1>1 DEF OpenTabs, At, Creating, Removing, Up
<1>15. DevControl'
  BY <1>0, <1>1 DEF DevControl, AtRefs, At
<1>16. InsControl'
  BY <1>0, <1>1 DEF InsControl, AtRefs, At
<1>17. RowOrigins'
  BY <1>0, <1>1 DEF RowOrigins
<1>18. PartFiles'
  BY <1>0, <1>1 DEF PartFiles, At
<1>19. ASSUME NEW u \in Tables, ~Raced("failed", u)'
      PROVE  EntryOK(u)' /\ LeftOK(u)'
  <2>1. EntryOK(u) /\ LeftOK(u) /\ ~Raced("failed", u)
    BY <1>0, <1>1, <1>19 DEF EntriesOK, Raced
  <2>2. EntryOK(u)'
    BY <1>0, <1>1, <2>1 DEF EntryOK, HasPart, Attaching, Creating, Removing, At, Up, OpenTabs, OpControl
  <2>3. LeftOK(u)'
    BY <1>0, <1>1, <2>1 DEF LeftOK, HasPart, Creating, Removed, Removing, At
  <2> QED
    BY <2>2, <2>3
<1>20. NoDevsYet'
  BY <1>0, <1>1 DEF NoDevsYet, Creating, At, Raced
<1>21. NewRows'
  BY <1>0, <1>1 DEF NewRows, Fresh, Raced
<1>22. CountsOK'
  <2>1. CountedDevs' \subseteq CountedDevs
    BY <1>0, <1>1 DEF CountedDevs, InDevs
  <2>2. OpenDevs' \subseteq OpenDevs
    BY <1>0, <1>1 DEF OpenDevs, InDevs
  <2> QED
    BY <1>0, <1>1, <2>1, <2>2, CountsShrink
<1>23. ASSUME NEW r \in Records, Own(r)'
      PROVE  InRows(r)' /\ InFiles(r)' /\ MarkWritten(r)'
  <2>1. Own(r) /\ ~Raced("failed", r[1]) /\ InRows(r) /\ InFiles(r) /\ MarkWritten(r) /\ r[1] \in Tables /\ EntryOK(r[1])
    BY <1>0, <1>1, <1>23 DEF RowsOK, Own, Raced, Records, EntriesOK
  <2>2. InRows(r)'
    BY <1>1, <2>1 DEF InRows
  <2>3. InFiles(r)'
    BY <1>0, <1>1, <2>1 DEF InFiles, InData, HasPart, Removed, Removing, At
  <2>4. MarkWritten(r)'
    BY <1>0, <1>1, <2>1 DEF MarkWritten, InData, Removed, Removing, At
  <2> QED
    BY <2>2, <2>3, <2>4
<1>24. PartEntry'
  BY <1>0, <1>1 DEF PartEntry, HasPart, AtRefs, At, Raced
<1> QED
  BY <1>2, <1>3, <1>4, <1>5, <1>6, <1>7, <1>8, <1>9, <1>10, <1>11, <1>12, <1>13, <1>14, <1>15, <1>16, <1>17, <1>18, <1>20, <1>21, <1>22, <1>24, <1>19, <1>23 DEF IInv, EntriesOK, RowsOK

\* The entry is written.
LEMMA AddTableKeeps ==
    ASSUME IInv, AddTable
    PROVE  IInv'
<1>0. /\ ServerTypes /\ TabTypes /\ OpTypes /\ DevOpTypes /\ InsTypes /\ SyncTypes /\ CfgTypes
      /\ DevTypes /\ SyncedTypes /\ DataTypes /\ LogTypes /\ GenTypes /\ PastTypes
      /\ Down /\ OpControl /\ OpenTabs /\ DevControl /\ InsControl /\ SyncControl
      /\ Origins /\ DevOrigins /\ RowOrigins /\ SyncedDevs /\ PartFiles
      /\ EntriesOK /\ NoDevsYet /\ NewDevs /\ NewRows /\ CountsOK /\ RowsOK /\ PartEntry /\ DevsOK
  BY DEF IInv
<1>a. op.kind = "create" => Goes("open")
  BY Zenon DEF AddTable
<1>b. op.kind = "attach" => Ends
  BY DEF AddTable
<1>1. /\ Up
      /\ op.pc = "config"
      /\ op.kind \in {"create", "attach"}
      /\ op.tab \in Tables
      /\ cfg' \in [Tables -> Seq(BOOLEAN)]
      /\ cfg'[op.tab] # <<>>
      /\ cfg[op.tab] = <<>> => cfg'[op.tab] = <<FALSE>> /\ Len(cfg'[op.tab]) <= 1 /\ ~cfg'[op.tab][1]
      /\ \A v \in Tables : v # op.tab => cfg'[v] = cfg[v]
      /\ op.kind = "create" => op' \in Statements /\ op'.pc = "open" /\ op'.kind = op.kind /\ op'.tab = op.tab /\ op'.total = op.total
      /\ op.kind = "attach" => op' \in Statements /\ op' = NoOp /\ op'.pc = "idle" /\ op'.kind = "none" /\ op'.tab = NoFile
      /\ op' \in Statements
      /\ UNCHANGED <<server, tab, codes, devop, ins, sync, dev, synced, data, log, gen, left, acked, devs, deleted, excused, raced, stmts>>
  <2>1. Up
    BY <1>0, BusyIsUp, Entered DEF AddTable, OpControl, CfgTypes, disk, memory, past, promised, threads, OpStep, Goes, Ends
  <2>2. op.pc = "config"
    BY <1>0, BusyIsUp, Entered DEF AddTable, OpControl, CfgTypes, disk, memory, past, promised, threads, OpStep, Goes, Ends
  <2>3. op.kind \in {"create", "attach"}
    BY <1>0, BusyIsUp, Entered, <2>2 DEF AddTable, OpControl, CfgTypes, disk, memory, past, promised, threads, OpStep, Goes, Ends
  <2>4. op.tab \in Tables
    BY <1>0, BusyIsUp, Entered, <2>2, <2>3 DEF AddTable, OpControl, CfgTypes, disk, memory, past, promised, threads, OpStep, Goes, Ends
  <2>5. cfg' \in [Tables -> Seq(BOOLEAN)]
    BY <1>0, BusyIsUp, Entered, <2>2, <2>3, <2>4 DEF AddTable, OpControl, CfgTypes, disk, memory, past, promised, threads, OpStep, Goes, Ends
  <2>6. cfg'[op.tab] # <<>>
    BY <1>0, BusyIsUp, Entered, <2>2, <2>3, <2>4 DEF AddTable, OpControl, CfgTypes, disk, memory, past, promised, threads, OpStep, Goes, Ends
  <2>7. cfg[op.tab] = <<>> => cfg'[op.tab] = <<FALSE>> /\ Len(cfg'[op.tab]) <= 1 /\ ~cfg'[op.tab][1]
    BY <1>0, BusyIsUp, Entered, <2>2, <2>3, <2>4 DEF AddTable, OpControl, CfgTypes, disk, memory, past, promised, threads, OpStep, Goes, Ends
  <2>8. \A v \in Tables : v # op.tab => cfg'[v] = cfg[v]
    BY <1>0, BusyIsUp, Entered, <2>2, <2>3, <2>4 DEF AddTable, OpControl, CfgTypes, disk, memory, past, promised, threads, OpStep, Goes, Ends
  <2>9. op.kind = "create" => op' \in Statements /\ op'.pc = "open" /\ op'.kind = op.kind /\ op'.tab = op.tab /\ op'.total = op.total
    BY <1>0, <1>a, GoesOn
  <2>10. op.kind = "attach" => op' \in Statements /\ op' = NoOp /\ op'.pc = "idle" /\ op'.kind = "none" /\ op'.tab = NoFile
    BY <1>b, EndsNow
  <2>11. op' \in Statements
    BY <2>3, <2>9, <2>10
  <2>12. UNCHANGED <<server, tab, codes, devop, ins, sync, dev, synced, data, log, gen, left, acked, devs, deleted, excused, raced, stmts>>
    BY <1>0, BusyIsUp, Entered, <2>2, <2>3, <2>4 DEF AddTable, OpControl, CfgTypes, disk, memory, past, promised, threads, OpStep, Goes, Ends
  <2> QED
    BY <2>1, <2>2, <2>3, <2>4, <2>5, <2>6, <2>7, <2>8, <2>9, <2>10, <2>11, <2>12
<1>2. ~Raced("failed", op.tab) => cfg[op.tab] = <<>> /\ (tab[op.tab].open <=> op.kind = "attach")
  BY <1>0, <1>1 DEF EntriesOK, EntryOK, Creating, Attaching, Removing, At, Up, OpControl, OpenTabs
<1>3. ServerTypes' /\ TabTypes' /\ DevOpTypes'
  BY <1>0, <1>1 DEF ServerTypes, TabTypes, DevOpTypes
<1>4. InsTypes' /\ SyncTypes' /\ DevTypes'
  BY <1>0, <1>1 DEF InsTypes, SyncTypes, DevTypes
<1>5. SyncedTypes' /\ DataTypes' /\ LogTypes' /\ GenTypes' /\ PastTypes'
  BY <1>0, <1>1 DEF SyncedTypes, DataTypes, LogTypes, GenTypes, PastTypes
<1>6. SyncControl'
  BY <1>0, <1>1 DEF SyncControl
<1>7. Origins' /\ DevOrigins' /\ RowOrigins'
  BY <1>0, <1>1 DEF Origins, DevOrigins, RowOrigins
<1>8. SyncedDevs'
  BY <1>0, <1>1 DEF SyncedDevs
<1>9. NewDevs' /\ NewRows'
  BY <1>0, <1>1 DEF NewDevs, NewRows, Fresh, Raced
<1>10. DevsOK'
  BY <1>0, <1>1 DEF DevsOK, Raced
<1>11. OpTypes'
  BY <1>0, <1>1, <1>2 DEF OpTypes
<1>12. CfgTypes'
  BY <1>0, <1>1, <1>2 DEF CfgTypes
<1>13. Down'
  BY <1>0, <1>1, <1>2 DEF Down, Up
<1>14. OpControl'
  BY <1>0, <1>1, <1>2 DEF OpControl
<1>15. OpenTabs'
  BY <1>0, <1>1, <1>2 DEF OpenTabs, At, Creating, Removing, Up
<1>16. DevControl'
  BY <1>0, <1>1, <1>2 DEF DevControl, AtRefs, At
<1>17. InsControl'
  BY <1>0, <1>1, <1>2 DEF InsControl, AtRefs, At
<1>18. PartFiles'
  BY <1>0, <1>1, <1>2 DEF PartFiles, At
<1>19. ASSUME NEW u \in Tables, ~Raced("failed", u)'
      PROVE  EntryOK(u)' /\ LeftOK(u)'
  <2>1. EntryOK(u) /\ LeftOK(u) /\ ~Raced("failed", u)
    BY <1>0, <1>1, <1>19 DEF EntriesOK, Raced
  <2>2. EntryOK(u)'
    <3>1. CASE u = op.tab
      BY <1>0, <1>1, <1>2, <2>1, <3>1 DEF EntryOK, HasPart, Attaching, Creating, Removing, At, Up, OpenTabs
    <3>2. CASE u # op.tab
      BY <1>0, <1>1, <2>1, <3>2 DEF EntryOK, HasPart, Attaching, Creating, Removing, At, Up
    <3> QED
      BY <3>1, <3>2
  <2>3. LeftOK(u)'
    BY <1>0, <1>1, <1>2, <2>1 DEF LeftOK, HasPart, Creating, Removed, Removing, At
  <2> QED
    BY <2>2, <2>3
<1>20. NoDevsYet'
  BY <1>0, <1>1, <1>2 DEF NoDevsYet, Creating, At, Raced
<1>21. CountsOK'
  <2>1. CASE Overcounted'
    BY <2>1 DEF CountsOK
  <2>2. CASE ~Overcounted'
    <3>1. ~Raced("failed", op.tab) /\ ~Raced("leftover", op.tab)
      BY <1>1, <2>2 DEF Overcounted, Raced
    <3>2. op.kind = "create" => dev[op.tab] = {}
      BY <1>0, <1>1, <3>1 DEF NoDevsYet, Creating, At
    <3>3. op.kind = "create" => synced[op.tab] = {}
      BY <1>0, <1>1, <3>1, <3>2, <1>2, Constants DEF SyncedDevs, DevControl, AtRefs
    <3>4. CountedDevs' \subseteq CountedDevs
      BY <1>0, <1>1, <3>1, <3>2, <3>3, <1>2 DEF CountedDevs, InDevs
    <3>5. OpenDevs' \subseteq OpenDevs
      BY <1>1 DEF OpenDevs, InDevs
    <3> QED
      BY <1>0, <1>1, <3>4, <3>5, CountsShrink
  <2> QED
    BY <2>1, <2>2
<1>22. ASSUME NEW r \in Records, Own(r)'
      PROVE  InRows(r)' /\ InFiles(r)' /\ MarkWritten(r)'
  <2>1. Own(r) /\ ~Raced("failed", r[1]) /\ InRows(r) /\ InFiles(r) /\ MarkWritten(r) /\ r[1] \in Tables /\ EntryOK(r[1])
    BY <1>0, <1>1, <1>22 DEF RowsOK, Own, Raced, Records, EntriesOK
  <2>2. InRows(r)'
    BY <1>1, <2>1, <1>2 DEF InRows
  <2>3. InFiles(r)'
    BY <1>0, <1>1, <1>2, <2>1 DEF InFiles, InData, HasPart, Removed, Removing, At
  <2>4. MarkWritten(r)'
    BY <1>0, <1>1, <1>2, <2>1 DEF MarkWritten, InData, Removed, Removing, At
  <2> QED
    BY <2>2, <2>3, <2>4
<1>23. PartEntry'
  BY <1>0, <1>1, <1>2 DEF PartEntry, HasPart, AtRefs, At, Raced
<1> QED
  BY <1>3, <1>4, <1>5, <1>6, <1>7, <1>8, <1>9, <1>10, <1>11, <1>12, <1>13, <1>14, <1>15, <1>16, <1>17, <1>18, <1>20, <1>21, <1>23, <1>19, <1>22 DEF IInv, EntriesOK, RowsOK

\* The entry is removed.
LEMMA DropEntryKeeps ==
    ASSUME IInv, DropEntry
    PROVE  IInv'
<1>0. /\ ServerTypes /\ TabTypes /\ OpTypes /\ DevOpTypes /\ InsTypes /\ SyncTypes /\ CfgTypes
      /\ DevTypes /\ SyncedTypes /\ DataTypes /\ LogTypes /\ GenTypes /\ PastTypes
      /\ Down /\ OpControl /\ OpenTabs /\ DevControl /\ InsControl /\ SyncControl
      /\ Origins /\ DevOrigins /\ RowOrigins /\ SyncedDevs /\ PartFiles
      /\ EntriesOK /\ NoDevsYet /\ NewDevs /\ NewRows /\ CountsOK /\ RowsOK /\ PartEntry /\ DevsOK
  BY DEF IInv
<1>1. /\ Up
      /\ op.pc = "config"
      /\ op.kind \in {"drop", "detach"}
      /\ op.tab \in Tables
      /\ cfg' \in [Tables -> Seq(BOOLEAN)]
      /\ Len(cfg[op.tab]) <= 1 => cfg'[op.tab] = <<>>
      /\ \A v \in Tables : v # op.tab => cfg'[v] = cfg[v]
      /\ op' \in Statements
      /\ op'.pc = "files"
      /\ op'.kind = op.kind
      /\ op'.tab = op.tab
      /\ op'.total = op.total
      /\ UNCHANGED <<server, tab, codes, devop, ins, sync, dev, synced, data, log, gen, left, acked, devs, deleted, excused, raced, stmts>>
  <2>1. Up
    BY <1>0, BusyIsUp, Entered DEF DropEntry, OpControl, CfgTypes, Goes, Ends, OpStep, Begins, OpTypes, Statements, NoOp, disk, memory, past, promised, threads
  <2>2. op.pc = "config"
    BY <1>0, BusyIsUp, Entered DEF DropEntry, OpControl, CfgTypes, Goes, Ends, OpStep, Begins, OpTypes, Statements, NoOp, disk, memory, past, promised, threads
  <2>3. op.kind \in {"drop", "detach"}
    BY <1>0, BusyIsUp, Entered, <2>2 DEF DropEntry, OpControl, CfgTypes, Goes, Ends, OpStep, Begins, OpTypes, Statements, NoOp, disk, memory, past, promised, threads
  <2>4. op.tab \in Tables
    BY <1>0, BusyIsUp, Entered, <2>2, <2>3 DEF DropEntry, OpControl, CfgTypes, Goes, Ends, OpStep, Begins, OpTypes, Statements, NoOp, disk, memory, past, promised, threads
  <2>5. cfg' \in [Tables -> Seq(BOOLEAN)]
    BY <1>0, BusyIsUp, Entered, <2>2, <2>3, <2>4 DEF DropEntry, OpControl, CfgTypes, Goes, Ends, OpStep, Begins, OpTypes, Statements, NoOp, disk, memory, past, promised, threads
  <2>6. Len(cfg[op.tab]) <= 1 => cfg'[op.tab] = <<>>
    BY <1>0, BusyIsUp, Entered, <2>2, <2>3, <2>4 DEF DropEntry, OpControl, CfgTypes, Goes, Ends, OpStep, Begins, OpTypes, Statements, NoOp, disk, memory, past, promised, threads
  <2>7. \A v \in Tables : v # op.tab => cfg'[v] = cfg[v]
    BY <1>0, BusyIsUp, Entered, <2>2, <2>3, <2>4 DEF DropEntry, OpControl, CfgTypes, Goes, Ends, OpStep, Begins, OpTypes, Statements, NoOp, disk, memory, past, promised, threads
  <2>8. op' \in Statements
    BY <1>0, BusyIsUp, Entered, <2>2, <2>3, <2>4 DEF DropEntry, OpControl, CfgTypes, Goes, Ends, OpStep, Begins, OpTypes, Statements, NoOp, disk, memory, past, promised, threads
  <2>9. op'.pc = "files"
    BY <1>0, BusyIsUp, Entered, <2>2, <2>3, <2>4 DEF DropEntry, OpControl, CfgTypes, Goes, Ends, OpStep, Begins, OpTypes, Statements, NoOp, disk, memory, past, promised, threads
  <2>10. op'.kind = op.kind
    BY <1>0, BusyIsUp, Entered, <2>2, <2>3, <2>4, <2>9 DEF DropEntry, OpControl, CfgTypes, Goes, Ends, OpStep, Begins, OpTypes, Statements, NoOp, disk, memory, past, promised, threads
  <2>11. op'.tab = op.tab
    BY <1>0, BusyIsUp, Entered, <2>2, <2>3, <2>4, <2>9, <2>10 DEF DropEntry, OpControl, CfgTypes, Goes, Ends, OpStep, Begins, OpTypes, Statements, NoOp, disk, memory, past, promised, threads
  <2>12. op'.total = op.total
    BY <1>0, BusyIsUp, Entered, <2>2, <2>3, <2>4, <2>9, <2>10 DEF DropEntry, OpControl, CfgTypes, Goes, Ends, OpStep, Begins, OpTypes, Statements, NoOp, disk, memory, past, promised, threads
  <2>13. UNCHANGED <<server, tab, codes, devop, ins, sync, dev, synced, data, log, gen, left, acked, devs, deleted, excused, raced, stmts>>
    BY <1>0, BusyIsUp, Entered, <2>2, <2>3, <2>4, <2>9, <2>10 DEF DropEntry, OpControl, CfgTypes, Goes, Ends, OpStep, Begins, OpTypes, Statements, NoOp, disk, memory, past, promised, threads
  <2> QED
    BY <2>1, <2>2, <2>3, <2>4, <2>5, <2>6, <2>7, <2>8, <2>9, <2>10, <2>11, <2>12, <2>13
<1>2. ~tab[op.tab].open /\ ins.tab # op.tab
  BY <1>0, <1>1, Constants DEF OpenTabs, At, InsControl, AtRefs, NoIns, InsTypes, Inserts
<1>3. ServerTypes' /\ TabTypes' /\ DevOpTypes'
  BY <1>0, <1>1 DEF ServerTypes, TabTypes, DevOpTypes
<1>4. InsTypes' /\ SyncTypes' /\ DevTypes'
  BY <1>0, <1>1 DEF InsTypes, SyncTypes, DevTypes
<1>5. SyncedTypes' /\ DataTypes' /\ LogTypes' /\ GenTypes' /\ PastTypes'
  BY <1>0, <1>1 DEF SyncedTypes, DataTypes, LogTypes, GenTypes, PastTypes
<1>6. SyncControl'
  BY <1>0, <1>1 DEF SyncControl
<1>7. Origins' /\ DevOrigins' /\ RowOrigins'
  BY <1>0, <1>1 DEF Origins, DevOrigins, RowOrigins
<1>8. SyncedDevs'
  BY <1>0, <1>1 DEF SyncedDevs
<1>9. NewDevs' /\ NewRows'
  BY <1>0, <1>1 DEF NewDevs, NewRows, Fresh, Raced
<1>10. DevsOK'
  BY <1>0, <1>1 DEF DevsOK, Raced
<1>11. OpTypes'
  BY <1>0, <1>1, <1>2 DEF OpTypes
<1>12. CfgTypes'
  BY <1>0, <1>1, <1>2 DEF CfgTypes
<1>13. Down'
  BY <1>0, <1>1, <1>2 DEF Down, Up
<1>14. OpControl'
  BY <1>0, <1>1, <1>2 DEF OpControl
<1>15. OpenTabs'
  BY <1>0, <1>1, <1>2 DEF OpenTabs, At, Creating, Removing, Up
<1>16. DevControl'
  BY <1>0, <1>1, <1>2 DEF DevControl, AtRefs, At
<1>17. InsControl'
  BY <1>0, <1>1, <1>2 DEF InsControl, AtRefs, At
<1>18. PartFiles'
  BY <1>0, <1>1, <1>2 DEF PartFiles, At
<1>19. ASSUME NEW u \in Tables, ~Raced("failed", u)'
      PROVE  EntryOK(u)' /\ LeftOK(u)'
  <2>1. EntryOK(u) /\ LeftOK(u) /\ ~Raced("failed", u)
    BY <1>0, <1>1, <1>19 DEF EntriesOK, Raced
  <2>2. EntryOK(u)'
    BY <1>0, <1>1, <1>2, <2>1 DEF EntryOK, HasPart, Attaching, Creating, Removing, At, Up
  <2>3. LeftOK(u)'
    BY <1>0, <1>1, <1>2, <2>1 DEF LeftOK, HasPart, Creating, Removed, Removing, At, EntryOK, Up
  <2> QED
    BY <2>2, <2>3
<1>20. NoDevsYet'
  BY <1>0, <1>1, <1>2 DEF NoDevsYet, Creating, At, Raced
<1>21. CountsOK'
  <2>1. CountedDevs' \subseteq CountedDevs
    BY <1>0, <1>1 DEF CountedDevs, InDevs
  <2>2. OpenDevs' \subseteq OpenDevs
    BY <1>0, <1>1 DEF OpenDevs, InDevs
  <2> QED
    BY <1>0, <1>1, <2>1, <2>2, CountsShrink
<1>22. ASSUME NEW r \in Records, Own(r)'
      PROVE  InRows(r)' /\ InFiles(r)' /\ MarkWritten(r)'
  <2>1. Own(r) /\ ~Raced("failed", r[1]) /\ InRows(r) /\ InFiles(r) /\ MarkWritten(r) /\ r[1] \in Tables /\ EntryOK(r[1])
    BY <1>0, <1>1, <1>22 DEF RowsOK, Own, Raced, Records, EntriesOK
  <2>2. InRows(r)'
    BY <1>1, <2>1, <1>2 DEF InRows
  <2>3. InFiles(r)'
    BY <1>0, <1>1, <1>2, <2>1 DEF InFiles, InData, HasPart, Removed, Removing, At, EntryOK, Up
  <2>4. MarkWritten(r)'
    BY <1>0, <1>1, <1>2, <2>1 DEF MarkWritten, InData, Removed, Removing, At
  <2> QED
    BY <2>2, <2>3, <2>4
<1>23. PartEntry'
  BY <1>0, <1>1, <1>2 DEF PartEntry, HasPart, AtRefs, At, Raced
<1> QED
  BY <1>3, <1>4, <1>5, <1>6, <1>7, <1>8, <1>9, <1>10, <1>11, <1>12, <1>13, <1>14, <1>15, <1>16, <1>17, <1>18, <1>20, <1>21, <1>23, <1>19, <1>22 DEF IInv, EntriesOK, RowsOK

\* CREATE or ATTACH is refused.
LEMMA OpenFailsKeeps ==
    ASSUME IInv, OpenFails, op.pc \in {"open", "add"}
    PROVE  IInv'
<1>0. /\ ServerTypes /\ TabTypes /\ OpTypes /\ DevOpTypes /\ InsTypes /\ SyncTypes /\ CfgTypes
      /\ DevTypes /\ SyncedTypes /\ DataTypes /\ LogTypes /\ GenTypes /\ PastTypes
      /\ Down /\ OpControl /\ OpenTabs /\ DevControl /\ InsControl /\ SyncControl
      /\ Origins /\ DevOrigins /\ RowOrigins /\ SyncedDevs /\ PartFiles
      /\ EntriesOK /\ NoDevsYet /\ NewDevs /\ NewRows /\ CountsOK /\ RowsOK /\ PartEntry /\ DevsOK
  BY DEF IInv
<1>1. /\ Up
      /\ op.pc \in {"open", "add"}
      /\ op.kind \in {"create", "attach"}
      /\ op.tab \in Tables
      /\ op' \in Statements
      /\ op' = NoOp
      /\ op'.pc = "idle"
      /\ op'.kind = "none"
      /\ op'.tab = NoFile
      /\ raced \subseteq raced'
      /\ raced' \in SUBSET (Races \X Tables)
      /\ op.kind = "create" => <<"failed", op.tab>> \in raced'
      /\ UNCHANGED <<server, tab, codes, devop, ins, sync, cfg, dev, synced, data, log, gen, left, acked, devs, deleted, excused, stmts>>
  <2>1. Up
    BY <1>0, BusyIsUp DEF OpenFails, OpControl, Race, Races, PastTypes, Goes, Ends, OpStep, Begins, OpTypes, Statements, NoOp, disk, memory, past, promised, threads
  <2>2. op.pc \in {"open", "add"}
    BY <1>0, BusyIsUp DEF OpenFails, OpControl, Race, Races, PastTypes, Goes, Ends, OpStep, Begins, OpTypes, Statements, NoOp, disk, memory, past, promised, threads
  <2>3. op.kind \in {"create", "attach"}
    BY <1>0, BusyIsUp DEF OpenFails, OpControl, Race, Races, PastTypes, Goes, Ends, OpStep, Begins, OpTypes, Statements, NoOp, disk, memory, past, promised, threads
  <2>4. op.tab \in Tables
    BY <1>0, BusyIsUp, <2>3 DEF OpenFails, OpControl, Race, Races, PastTypes, Goes, Ends, OpStep, Begins, OpTypes, Statements, NoOp, disk, memory, past, promised, threads
  <2>5. op' \in Statements
    BY <1>0, BusyIsUp, <2>3, <2>4 DEF OpenFails, OpControl, Race, Races, PastTypes, Goes, Ends, OpStep, Begins, OpTypes, Statements, NoOp, disk, memory, past, promised, threads
  <2>6. op' = NoOp
    BY <1>0, BusyIsUp, <2>3, <2>4 DEF OpenFails, OpControl, Race, Races, PastTypes, Goes, Ends, OpStep, Begins, OpTypes, Statements, NoOp, disk, memory, past, promised, threads
  <2>7. op'.pc = "idle"
    BY <1>0, BusyIsUp, <2>3, <2>4 DEF OpenFails, OpControl, Race, Races, PastTypes, Goes, Ends, OpStep, Begins, OpTypes, Statements, NoOp, disk, memory, past, promised, threads
  <2>8. op'.kind = "none"
    BY <1>0, BusyIsUp, <2>3, <2>4, <2>7 DEF OpenFails, OpControl, Race, Races, PastTypes, Goes, Ends, OpStep, Begins, OpTypes, Statements, NoOp, disk, memory, past, promised, threads
  <2>9. op'.tab = NoFile
    BY <1>0, BusyIsUp, <2>3, <2>4, <2>7, <2>8 DEF OpenFails, OpControl, Race, Races, PastTypes, Goes, Ends, OpStep, Begins, OpTypes, Statements, NoOp, disk, memory, past, promised, threads
  <2>10. raced \subseteq raced'
    BY <1>0, BusyIsUp, <2>3, <2>4, <2>7, <2>8 DEF OpenFails, OpControl, Race, Races, PastTypes, Goes, Ends, OpStep, Begins, OpTypes, Statements, NoOp, disk, memory, past, promised, threads
  <2>11. raced' \in SUBSET (Races \X Tables)
    BY <1>0, <2>4 DEF OpenFails, PastTypes, Race, Races
  <2>12. op.kind = "create" => <<"failed", op.tab>> \in raced'
    BY <1>0, BusyIsUp, <2>3, <2>4, <2>7, <2>8 DEF OpenFails, OpControl, Race, Races, PastTypes, Goes, Ends, OpStep, Begins, OpTypes, Statements, NoOp, disk, memory, past, promised, threads
  <2>13. UNCHANGED <<server, tab, codes, devop, ins, sync, cfg, dev, synced, data, log, gen, left, acked, devs, deleted, excused, stmts>>
    BY <1>0, BusyIsUp, <2>3, <2>4, <2>7, <2>8, <2>12 DEF OpenFails, OpControl, Race, Races, PastTypes, Goes, Ends, OpStep, Begins, OpTypes, Statements, NoOp, disk, memory, past, promised, threads
  <2> QED
    BY <2>1, <2>2, <2>3, <2>4, <2>5, <2>6, <2>7, <2>8, <2>9, <2>10, <2>11, <2>12, <2>13
<1>2. ServerTypes' /\ TabTypes' /\ DevOpTypes'
  BY <1>0, <1>1 DEF ServerTypes, TabTypes, DevOpTypes
<1>3. InsTypes' /\ SyncTypes' /\ CfgTypes' /\ DevTypes'
  BY <1>0, <1>1 DEF InsTypes, SyncTypes, CfgTypes, DevTypes
<1>4. SyncedTypes' /\ DataTypes' /\ LogTypes' /\ GenTypes'
  BY <1>0, <1>1 DEF SyncedTypes, DataTypes, LogTypes, GenTypes
<1>5. SyncControl'
  BY <1>0, <1>1 DEF SyncControl
<1>6. Origins' /\ DevOrigins' /\ RowOrigins'
  BY <1>0, <1>1 DEF Origins, DevOrigins, RowOrigins
<1>7. SyncedDevs'
  BY <1>0, <1>1 DEF SyncedDevs
<1>8. OpTypes'
  BY <1>0, <1>1 DEF OpTypes
<1>9. PastTypes'
  BY <1>0, <1>1 DEF PastTypes
<1>10. Down'
  BY <1>0, <1>1 DEF Down, Up
<1>11. OpControl'
  BY <1>0, <1>1 DEF OpControl
<1>12. OpenTabs'
  BY <1>0, <1>1 DEF OpenTabs, At, Creating, Removing, Up
<1>13. DevControl'
  BY <1>0, <1>1 DEF DevControl, AtRefs, At
<1>14. InsControl'
  BY <1>0, <1>1 DEF InsControl, AtRefs, At
<1>15. PartFiles'
  BY <1>0, <1>1 DEF PartFiles, At
<1>16. ASSUME NEW u \in Tables, ~Raced("failed", u)'
      PROVE  EntryOK(u)' /\ LeftOK(u)'
  <2>1. EntryOK(u) /\ LeftOK(u) /\ ~Raced("failed", u) /\ (u = op.tab => op.kind = "attach")
    BY <1>0, <1>1, <1>16 DEF EntriesOK, Raced
  <2>2. EntryOK(u)'
    BY <1>0, <1>1, <2>1 DEF EntryOK, HasPart, Attaching, Creating, Removing, At, Up, OpenTabs
  <2>3. LeftOK(u)'
    BY <1>0, <1>1, <2>1 DEF LeftOK, HasPart, Creating, Removed, Removing, At
  <2> QED
    BY <2>2, <2>3
<1>17. NoDevsYet'
  BY <1>0, <1>1 DEF NoDevsYet, Creating, At, Raced
<1>18. NewDevs'
  BY <1>0, <1>1 DEF NewDevs, Fresh, Raced
<1>19. NewRows'
  BY <1>0, <1>1 DEF NewRows, Fresh, Raced
<1>20. CountsOK'
  <2>1. CountedDevs' \subseteq CountedDevs
    BY <1>0, <1>1 DEF CountedDevs, InDevs
  <2>2. OpenDevs' \subseteq OpenDevs
    BY <1>0, <1>1 DEF OpenDevs, InDevs
  <2> QED
    BY <1>0, <1>1, <2>1, <2>2, CountsShrink
<1>21. ASSUME NEW r \in Records, Own(r)'
      PROVE  InRows(r)' /\ InFiles(r)' /\ MarkWritten(r)'
  <2>1. Own(r) /\ ~Raced("failed", r[1]) /\ InRows(r) /\ InFiles(r) /\ MarkWritten(r) /\ r[1] \in Tables /\ EntryOK(r[1])
    BY <1>0, <1>1, <1>21 DEF RowsOK, Own, Raced, Records, EntriesOK
  <2>2. InRows(r)'
    BY <1>1, <2>1 DEF InRows
  <2>3. InFiles(r)'
    BY <1>0, <1>1, <2>1 DEF InFiles, InData, HasPart, Removed, Removing, At
  <2>4. MarkWritten(r)'
    BY <1>0, <1>1, <2>1 DEF MarkWritten, InData, Removed, Removing, At
  <2> QED
    BY <2>2, <2>3, <2>4
<1>22. PartEntry'
  BY <1>0, <1>1 DEF PartEntry, HasPart, AtRefs, At, Raced
<1>23. DevsOK'
  BY <1>0, <1>1 DEF DevsOK, Raced
<1> QED
  BY <1>2, <1>3, <1>4, <1>5, <1>6, <1>7, <1>8, <1>9, <1>10, <1>11, <1>12, <1>13, <1>14, <1>15, <1>17, <1>18, <1>19, <1>20, <1>22, <1>23, <1>16, <1>21 DEF IInv, EntriesOK, RowsOK

\* The devices of the open tables are counted.
LEMMA OpenTableKeeps ==
    ASSUME IInv, OpenTable, ~OpenFails
    PROVE  IInv'
<1>0. /\ ServerTypes /\ TabTypes /\ OpTypes /\ DevOpTypes /\ InsTypes /\ SyncTypes /\ CfgTypes
      /\ DevTypes /\ SyncedTypes /\ DataTypes /\ LogTypes /\ GenTypes /\ PastTypes
      /\ Down /\ OpControl /\ OpenTabs /\ DevControl /\ InsControl /\ SyncControl
      /\ Origins /\ DevOrigins /\ RowOrigins /\ SyncedDevs /\ PartFiles
      /\ EntriesOK /\ NoDevsYet /\ NewDevs /\ NewRows /\ CountsOK /\ RowsOK /\ PartEntry /\ DevsOK
  BY DEF IInv
<1>a. GetTotalDevCnt \in Nat
  BY <1>0, Counting DEF GetTotalDevCnt, Open
<1>1. /\ Up
      /\ op.pc = "open"
      /\ op.kind \in {"create", "attach"}
      /\ op.tab \in Tables
      /\ codes > 0
      /\ op'.total = GetTotalDevCnt /\ op'.kind = op.kind /\ op'.tab = op.tab /\ op'.pc = "add"
      /\ op' \in Statements
      /\ raced \subseteq raced'
      /\ raced' \in SUBSET (Races \X Tables)
      /\ devop.pc = "add" \/ devop.kind = "delete" => <<"capacity", op.tab>> \in raced'
      /\ UNCHANGED <<server, tab, codes, devop, ins, sync, cfg, dev, synced, data, log, gen, left, acked, devs, deleted, excused, stmts>>
  <2>1. Up
    BY <1>0, BusyIsUp DEF OpenTable, OpControl, Race, Races, PastTypes, Goes, Ends, OpStep, Begins, OpTypes, Statements, NoOp, disk, memory, past, promised, threads
  <2>2. op.pc = "open"
    BY <1>0, BusyIsUp DEF OpenTable, OpControl, Race, Races, PastTypes, Goes, Ends, OpStep, Begins, OpTypes, Statements, NoOp, disk, memory, past, promised, threads
  <2>3. op.kind \in {"create", "attach"}
    BY <1>0, BusyIsUp, <2>2 DEF OpenTable, OpControl, Race, Races, PastTypes, Goes, Ends, OpStep, Begins, OpTypes, Statements, NoOp, disk, memory, past, promised, threads
  <2>4. op.tab \in Tables
    BY <1>0, BusyIsUp, <2>2, <2>3 DEF OpenTable, OpControl, Race, Races, PastTypes, Goes, Ends, OpStep, Begins, OpTypes, Statements, NoOp, disk, memory, past, promised, threads
  <2>5. codes > 0
    BY <1>0, BusyIsUp, <2>2, <2>3, <2>4 DEF OpenTable, OpControl, Race, Races, PastTypes, Goes, Ends, OpStep, Begins, OpTypes, Statements, NoOp, disk, memory, past, promised, threads
  <2>6. op'.total = GetTotalDevCnt /\ op'.kind = op.kind /\ op'.tab = op.tab /\ op'.pc = "add"
    BY <1>0 DEF OpenTable, OpStep, OpTypes, Statements
  <2>7. op' \in Statements
    BY <1>0, <1>a DEF OpenTable, OpStep, OpTypes, Statements
  <2>8. raced \subseteq raced'
    BY <1>0, BusyIsUp, <2>2, <2>3, <2>4 DEF OpenTable, OpControl, Race, Races, PastTypes, Goes, Ends, OpStep, Begins, OpTypes, Statements, NoOp, disk, memory, past, promised, threads
  <2>9. raced' \in SUBSET (Races \X Tables)
    BY <1>0, <2>4 DEF OpenTable, PastTypes, Race, Races
  <2>10. devop.pc = "add" \/ devop.kind = "delete" => <<"capacity", op.tab>> \in raced'
    BY <1>0, BusyIsUp, <2>2, <2>3, <2>4 DEF OpenTable, OpControl, Race, Races, PastTypes, Goes, Ends, OpStep, Begins, OpTypes, Statements, NoOp, disk, memory, past, promised, threads
  <2>11. UNCHANGED <<server, tab, codes, devop, ins, sync, cfg, dev, synced, data, log, gen, left, acked, devs, deleted, excused, stmts>>
    BY <1>0, BusyIsUp, <2>2, <2>3, <2>4, <2>10 DEF OpenTable, OpControl, Race, Races, PastTypes, Goes, Ends, OpStep, Begins, OpTypes, Statements, NoOp, disk, memory, past, promised, threads
  <2> QED
    BY <2>1, <2>2, <2>3, <2>4, <2>5, <2>6, <2>7, <2>8, <2>9, <2>10, <2>11
<1>2. ServerTypes' /\ TabTypes' /\ DevOpTypes'
  BY <1>0, <1>1 DEF ServerTypes, TabTypes, DevOpTypes
<1>3. InsTypes' /\ SyncTypes' /\ CfgTypes' /\ DevTypes'
  BY <1>0, <1>1 DEF InsTypes, SyncTypes, CfgTypes, DevTypes
<1>4. SyncedTypes' /\ DataTypes' /\ LogTypes' /\ GenTypes'
  BY <1>0, <1>1 DEF SyncedTypes, DataTypes, LogTypes, GenTypes
<1>5. SyncControl'
  BY <1>0, <1>1 DEF SyncControl
<1>6. Origins' /\ DevOrigins' /\ RowOrigins'
  BY <1>0, <1>1 DEF Origins, DevOrigins, RowOrigins
<1>7. SyncedDevs'
  BY <1>0, <1>1 DEF SyncedDevs
<1>8. OpTypes'
  BY <1>0, <1>1 DEF OpTypes
<1>9. PastTypes'
  BY <1>0, <1>1 DEF PastTypes
<1>10. Down'
  BY <1>0, <1>1 DEF Down, Up
<1>11. OpControl'
  BY <1>0, <1>1 DEF OpControl
<1>12. OpenTabs'
  BY <1>0, <1>1 DEF OpenTabs, At, Creating, Removing, Up
<1>13. DevControl'
  BY <1>0, <1>1 DEF DevControl, AtRefs, At
<1>14. InsControl'
  BY <1>0, <1>1 DEF InsControl, AtRefs, At
<1>15. PartFiles'
  BY <1>0, <1>1 DEF PartFiles, At
<1>16. ASSUME NEW u \in Tables, ~Raced("failed", u)'
      PROVE  EntryOK(u)' /\ LeftOK(u)'
  <2>1. EntryOK(u) /\ LeftOK(u) /\ ~Raced("failed", u)
    BY <1>0, <1>1, <1>16 DEF EntriesOK, Raced
  <2>2. EntryOK(u)'
    BY <1>0, <1>1, <2>1 DEF EntryOK, HasPart, Attaching, Creating, Removing, At, Up
  <2>3. LeftOK(u)'
    BY <1>0, <1>1, <2>1 DEF LeftOK, HasPart, Creating, Removed, Removing, At
  <2> QED
    BY <2>2, <2>3
<1>17. NoDevsYet'
  BY <1>0, <1>1 DEF NoDevsYet, Creating, At, Raced
<1>18. NewDevs'
  BY <1>0, <1>1 DEF NewDevs, Fresh, Raced
<1>19. NewRows'
  BY <1>0, <1>1 DEF NewRows, Fresh, Raced
<1>20. CountsOK'
  <2>1. CASE Overcounted'
    BY <2>1 DEF CountsOK
  <2>2. CASE ~Overcounted'
    <3>1. ~Overcounted /\ devop.pc # "add" /\ devop.kind # "delete"
      BY <1>1, <2>2 DEF Overcounted, Raced
    <3>2. CountedDevs' = CountedDevs /\ OpenDevs' = OpenDevs
      BY <1>1 DEF CountedDevs, OpenDevs, InDevs
    <3>3. Cardinality(CountedDevs) <= MaxDev /\ Cardinality(OpenDevs) <= GetTotalDevCnt
      BY <1>0, <3>1, OpenCount DEF CountsOK
    <3> QED
      BY <1>1, <3>1, <3>2, <3>3 DEF CountsOK
  <2> QED
    BY <2>1, <2>2
<1>21. ASSUME NEW r \in Records, Own(r)'
      PROVE  InRows(r)' /\ InFiles(r)' /\ MarkWritten(r)'
  <2>1. Own(r) /\ ~Raced("failed", r[1]) /\ InRows(r) /\ InFiles(r) /\ MarkWritten(r) /\ r[1] \in Tables /\ EntryOK(r[1])
    BY <1>0, <1>1, <1>21 DEF RowsOK, Own, Raced, Records, EntriesOK
  <2>2. InRows(r)'
    BY <1>1, <2>1 DEF InRows
  <2>3. InFiles(r)'
    BY <1>0, <1>1, <2>1 DEF InFiles, InData, HasPart, Removed, Removing, At
  <2>4. MarkWritten(r)'
    BY <1>0, <1>1, <2>1 DEF MarkWritten, InData, Removed, Removing, At
  <2> QED
    BY <2>2, <2>3, <2>4
<1>22. PartEntry'
  BY <1>0, <1>1 DEF PartEntry, HasPart, AtRefs, At, Raced
<1>23. DevsOK'
  BY <1>0, <1>1 DEF DevsOK, Raced
<1> QED
  BY <1>2, <1>3, <1>4, <1>5, <1>6, <1>7, <1>8, <1>9, <1>10, <1>11, <1>12, <1>13, <1>14, <1>15, <1>17, <1>18, <1>19, <1>20, <1>22, <1>23, <1>16, <1>21 DEF IInv, EntriesOK, RowsOK

\* The table is opened.
LEMMA AddTableHandleKeeps ==
    ASSUME IInv, AddTableHandle, ~OpenFails
    PROVE  IInv'
<1>0. /\ ServerTypes /\ TabTypes /\ OpTypes /\ DevOpTypes /\ InsTypes /\ SyncTypes /\ CfgTypes
      /\ DevTypes /\ SyncedTypes /\ DataTypes /\ LogTypes /\ GenTypes /\ PastTypes
      /\ Down /\ OpControl /\ OpenTabs /\ DevControl /\ InsControl /\ SyncControl
      /\ Origins /\ DevOrigins /\ RowOrigins /\ SyncedDevs /\ PartFiles
      /\ EntriesOK /\ NoDevsYet /\ NewDevs /\ NewRows /\ CountsOK /\ RowsOK /\ PartEntry /\ DevsOK
  BY DEF IInv
<1>a. op.pc = "add" /\ ~(dev[op.tab] = NoFile \/ op.total + Cardinality(dev[op.tab]) > MaxDev)
  BY Zenon DEF AddTableHandle
<1>b. /\ tab' = [tab EXCEPT ![op.tab] = [Closed EXCEPT !.open = TRUE]] /\ codes' = codes - 1
      /\ Goes(IF op.kind = "create" THEN "dw" ELSE "config")
      /\ UNCHANGED <<cfg, dev, synced, data, gen, left, excused, raced>>
  BY Zenon DEF AddTableHandle
<1>1. /\ Up
      /\ op.pc = "add"
      /\ op.kind \in {"create", "attach"}
      /\ op.tab \in Tables
      /\ tab' \in [Tables -> Handle]
      /\ tab'[op.tab].open
      /\ ~tab'[op.tab].part
      /\ tab'[op.tab].rows = {}
      /\ \A v \in Tables : v # op.tab => tab'[v] = tab[v]
      /\ codes > 0 /\ codes' = codes - 1
      /\ dev[op.tab] # NoFile /\ dev[op.tab] \in SUBSET Items
      /\ Cardinality(dev[op.tab]) \in Nat /\ op.total \in Nat /\ op.total + Cardinality(dev[op.tab]) <= MaxDev
      /\ op.kind = "create" => Goes("dw")
      /\ op.kind = "attach" => Goes("config")
      /\ op.kind = "create" => op' \in Statements /\ op'.pc = "dw" /\ op'.kind = op.kind /\ op'.tab = op.tab /\ op'.total = op.total
      /\ op.kind = "attach" => op' \in Statements /\ op'.pc = "config" /\ op'.kind = op.kind /\ op'.tab = op.tab /\ op'.total = op.total
      /\ op' \in Statements /\ op'.kind = op.kind /\ op'.tab = op.tab /\ op'.total = op.total
      /\ UNCHANGED <<server, devop, ins, sync, cfg, dev, synced, data, log, gen, left, acked, devs, deleted, excused, raced, stmts>>
  <2>1. Up
    BY <1>0, BusyIsUp, <1>a, <1>b DEF OpControl, Handle, TabTypes, DevTypes, Closed, disk, memory, past, promised, threads, OpStep, Goes, Ends
  <2>2. op.pc = "add"
    BY <1>0, BusyIsUp, <1>a, <1>b DEF OpControl, Handle, TabTypes, DevTypes, Closed, disk, memory, past, promised, threads, OpStep, Goes, Ends
  <2>3. op.kind \in {"create", "attach"}
    BY <1>0, <2>2 DEF OpControl, OpTypes, Statements
  <2>4. op.tab \in Tables
    BY <1>0, BusyIsUp, <1>a, <1>b, <2>2 DEF OpControl, Handle, TabTypes, DevTypes, Closed, disk, memory, past, promised, threads, OpStep, Goes, Ends
  <2>5. tab' \in [Tables -> Handle]
    BY <1>0, BusyIsUp, <1>a, <1>b, <2>2, <2>4 DEF OpControl, Handle, TabTypes, DevTypes, Closed, disk, memory, past, promised, threads, OpStep, Goes, Ends
  <2>6. tab'[op.tab].open
    BY <1>0, BusyIsUp, <1>a, <1>b, <2>2, <2>4 DEF OpControl, Handle, TabTypes, DevTypes, Closed, disk, memory, past, promised, threads, OpStep, Goes, Ends
  <2>7. ~tab'[op.tab].part
    BY <1>0, BusyIsUp, <1>a, <1>b, <2>2, <2>4 DEF OpControl, Handle, TabTypes, DevTypes, Closed, disk, memory, past, promised, threads, OpStep, Goes, Ends
  <2>8. tab'[op.tab].rows = {}
    BY <1>0, BusyIsUp, <1>a, <1>b, <2>2, <2>4 DEF OpControl, Handle, TabTypes, DevTypes, Closed, disk, memory, past, promised, threads, OpStep, Goes, Ends
  <2>9. \A v \in Tables : v # op.tab => tab'[v] = tab[v]
    BY <1>0, BusyIsUp, <1>a, <1>b, <2>2, <2>4 DEF OpControl, Handle, TabTypes, DevTypes, Closed, disk, memory, past, promised, threads, OpStep, Goes, Ends
  <2>10. codes > 0 /\ codes' = codes - 1
    BY <1>0, BusyIsUp, <1>a, <1>b, <2>2, <2>4 DEF OpControl, Handle, TabTypes, DevTypes, Closed, disk, memory, past, promised, threads, OpStep, Goes, Ends
  <2>11. dev[op.tab] # NoFile /\ dev[op.tab] \in SUBSET Items
    BY <1>0, BusyIsUp, <1>a, <1>b, <2>2, <2>4 DEF OpControl, Handle, TabTypes, DevTypes, Closed, disk, memory, past, promised, threads, OpStep, Goes, Ends
  <2>12. Cardinality(dev[op.tab]) \in Nat /\ op.total \in Nat /\ op.total + Cardinality(dev[op.tab]) <= MaxDev
    <3>1. Cardinality(dev[op.tab]) \in Nat
      BY <2>11, Fewer
    <3>2. op.total \in Nat
      BY <1>0 DEF OpTypes, Statements
    <3> QED
      BY <1>a, <3>1, <3>2, Constants
  <2>13. op.kind = "create" => Goes("dw")
    BY <1>b, Zenon
  <2>14. op.kind = "attach" => Goes("config")
    BY <1>b
  <2>15. op.kind = "create" => op' \in Statements /\ op'.pc = "dw" /\ op'.kind = op.kind /\ op'.tab = op.tab /\ op'.total = op.total
    BY <1>0, <2>13, GoesOn
  <2>16. op.kind = "attach" => op' \in Statements /\ op'.pc = "config" /\ op'.kind = op.kind /\ op'.tab = op.tab /\ op'.total = op.total
    BY <1>0, <2>14, GoesOn
  <2>17. op' \in Statements /\ op'.kind = op.kind /\ op'.tab = op.tab /\ op'.total = op.total
    BY <2>3, <2>15, <2>16
  <2>18. UNCHANGED <<server, devop, ins, sync, cfg, dev, synced, data, log, gen, left, acked, devs, deleted, excused, raced, stmts>>
    BY <1>0, BusyIsUp, <1>a, <1>b, <2>2, <2>4 DEF OpControl, Handle, TabTypes, DevTypes, Closed, disk, memory, past, promised, threads, OpStep, Goes, Ends
  <2> QED
    BY <2>1, <2>2, <2>3, <2>4, <2>5, <2>6, <2>7, <2>8, <2>9, <2>10, <2>11, <2>12, <2>13, <2>14, <2>15, <2>16, <2>17, <2>18
<1>2. tab[op.tab] = Closed /\ ~tab[op.tab].open /\ ~tab[op.tab].part
  BY <1>0, <1>1 DEF OpenTabs, At, Removing, Closed
<1>3. ~Raced("failed", op.tab) => (op.kind = "attach" <=> cfg[op.tab] = <<>>) /\ ~HasPart(op.tab)
  BY <1>0, <1>1, <1>2 DEF EntriesOK, EntryOK, HasPart, Creating, Attaching, Removing, At
<1>4. DevOpTypes'
  BY <1>0, <1>1 DEF DevOpTypes
<1>5. InsTypes' /\ SyncTypes' /\ CfgTypes' /\ DevTypes'
  BY <1>0, <1>1 DEF InsTypes, SyncTypes, CfgTypes, DevTypes
<1>6. SyncedTypes' /\ DataTypes' /\ LogTypes' /\ GenTypes' /\ PastTypes'
  BY <1>0, <1>1 DEF SyncedTypes, DataTypes, LogTypes, GenTypes, PastTypes
<1>7. SyncControl'
  BY <1>0, <1>1 DEF SyncControl
<1>8. Origins' /\ DevOrigins'
  BY <1>0, <1>1 DEF Origins, DevOrigins
<1>9. SyncedDevs'
  BY <1>0, <1>1 DEF SyncedDevs
<1>10. NewDevs'
  BY <1>0, <1>1 DEF NewDevs, Fresh, Raced
<1>11. DevsOK'
  BY <1>0, <1>1 DEF DevsOK, Raced
<1>12. ServerTypes'
  BY <1>0, <1>1, <1>2, <1>3, Constants DEF ServerTypes
<1>13. TabTypes'
  BY <1>0, <1>1, <1>2, <1>3 DEF TabTypes
<1>14. OpTypes'
  BY <1>0, <1>1, <1>2, <1>3 DEF OpTypes
<1>15. Down'
  BY <1>0, <1>1, <1>2, <1>3 DEF Down, Up
<1>16. OpControl'
  BY <1>0, <1>1, <1>2, <1>3 DEF OpControl
<1>17. OpenTabs'
  BY <1>0, <1>1, <1>2, <1>3 DEF OpenTabs, At, Creating, Removing, Up
<1>18. DevControl'
  BY <1>0, <1>1, <1>2, <1>3 DEF DevControl, AtRefs, At
<1>19. InsControl'
  BY <1>0, <1>1, <1>2, <1>3 DEF InsControl, AtRefs, At
<1>20. RowOrigins'
  BY <1>0, <1>1, <1>2, <1>3 DEF RowOrigins
<1>21. PartFiles'
  BY <1>0, <1>1, <1>2, <1>3 DEF PartFiles, At
<1>22. ASSUME NEW u \in Tables, ~Raced("failed", u)'
      PROVE  EntryOK(u)' /\ LeftOK(u)'
  <2>1. EntryOK(u) /\ LeftOK(u) /\ ~Raced("failed", u)
    BY <1>0, <1>1, <1>22 DEF EntriesOK, Raced
  <2>2. EntryOK(u)'
    BY <1>0, <1>1, <1>2, <1>3, <2>1 DEF EntryOK, HasPart, Attaching, Creating, Removing, At, Up
  <2>3. LeftOK(u)'
    BY <1>0, <1>1, <1>2, <1>3, <2>1 DEF LeftOK, HasPart, Creating, Removed, Removing, At
  <2> QED
    BY <2>2, <2>3
<1>23. NoDevsYet'
  BY <1>0, <1>1, <1>2, <1>3 DEF NoDevsYet, Creating, At, Raced
<1>24. NewRows'
  BY <1>0, <1>1, <1>2, <1>3 DEF NewRows, Fresh, Raced
<1>25. CountsOK'
  <2>1. CASE Overcounted
    BY <1>1, <2>1 DEF CountsOK, Overcounted, Raced
  <2>2. CASE ~Overcounted
    <3>1. /\ Cardinality(CountedDevs) <= MaxDev /\ devop.pc # "add" /\ Cardinality(OpenDevs) <= op.total
          /\ \A u \in Tables : ~Raced("failed", u)
      BY <1>0, <1>1, <2>2 DEF CountsOK, Overcounted
    <3>2. Cardinality(CountedDevs') <= MaxDev
      <4>1. CASE op.kind = "create"
        <5>1. CountedDevs' = CountedDevs
          BY <1>1, <1>2, <1>3, <3>1, <4>1 DEF CountedDevs, InDevs
        <5> QED
          BY <3>1, <5>1
      <4>2. CASE op.kind = "attach"
        <5>1. \A u \in Tables : cfg[u] # <<>> => tab[u].open
          BY <1>0, <1>1, <3>1, <4>2 DEF EntriesOK, EntryOK, Creating, Removing, At
        <5>2. synced[op.tab] \subseteq dev[op.tab]
          BY <1>0, <1>1, <1>2 DEF SyncedDevs, DevControl, AtRefs, At
        <5>3. CountedDevs' \subseteq OpenDevs \cup dev[op.tab]
          BY <1>1, <5>1, <5>2 DEF CountedDevs, OpenDevs, InDevs
        <5>4. OpenDevs \in SUBSET Items /\ dev[op.tab] \in SUBSET Items
          BY <1>1 DEF OpenDevs
        <5>5. /\ Cardinality(OpenDevs \cup dev[op.tab]) \in Nat /\ Cardinality(OpenDevs) \in Nat
              /\ Cardinality(OpenDevs \cup dev[op.tab]) <= Cardinality(OpenDevs) + Cardinality(dev[op.tab])
          BY <5>4, TwoSets
        <5>6. /\ Cardinality(CountedDevs') \in Nat
              /\ Cardinality(CountedDevs') <= Cardinality(OpenDevs \cup dev[op.tab])
          BY <5>3, <5>4, Fewer
        <5> QED
          BY <1>1, <3>1, <5>5, <5>6, Constants
      <4> QED
        BY <1>1, <4>1, <4>2
    <3> QED
      BY <1>1, <3>1, <3>2 DEF CountsOK
  <2> QED
    BY <2>1, <2>2
<1>26. ASSUME NEW r \in Records, Own(r)'
      PROVE  InRows(r)' /\ InFiles(r)' /\ MarkWritten(r)'
  <2>1. Own(r) /\ ~Raced("failed", r[1]) /\ InRows(r) /\ InFiles(r) /\ MarkWritten(r) /\ r[1] \in Tables /\ EntryOK(r[1])
    BY <1>0, <1>1, <1>26 DEF RowsOK, Own, Raced, Records, EntriesOK
  <2>2. InRows(r)'
    BY <1>0, <1>1, <1>2, <1>3, <2>1 DEF InRows
  <2>3. InFiles(r)'
    BY <1>0, <1>1, <1>2, <1>3, <2>1 DEF InFiles, InData, HasPart, Removed, Removing, At
  <2>4. MarkWritten(r)'
    BY <1>0, <1>1, <1>2, <1>3, <2>1 DEF MarkWritten, InData, Removed, Removing, At
  <2> QED
    BY <2>2, <2>3, <2>4
<1>27. PartEntry'
  BY <1>0, <1>1, <1>2, <1>3 DEF PartEntry, HasPart, AtRefs, At, Raced
<1> QED
  BY <1>4, <1>5, <1>6, <1>7, <1>8, <1>9, <1>10, <1>11, <1>12, <1>13, <1>14, <1>15, <1>16, <1>17, <1>18, <1>19, <1>20, <1>21, <1>23, <1>24, <1>25, <1>27, <1>22, <1>26 DEF IInv, EntriesOK, RowsOK

\* The double-write file of a table that CREATE made.
LEMMA RecoverDWKeeps ==
    ASSUME IInv, RecoverDW
    PROVE  IInv'
<1>0. /\ ServerTypes /\ TabTypes /\ OpTypes /\ DevOpTypes /\ InsTypes /\ SyncTypes /\ CfgTypes
      /\ DevTypes /\ SyncedTypes /\ DataTypes /\ LogTypes /\ GenTypes /\ PastTypes
      /\ Down /\ OpControl /\ OpenTabs /\ DevControl /\ InsControl /\ SyncControl
      /\ Origins /\ DevOrigins /\ RowOrigins /\ SyncedDevs /\ PartFiles
      /\ EntriesOK /\ NoDevsYet /\ NewDevs /\ NewRows /\ CountsOK /\ RowsOK /\ PartEntry /\ DevsOK
  BY DEF IInv
<1>1. /\ Up
      /\ op.pc = "dw"
      /\ op.kind = "create"
      /\ op.tab \in Tables
      /\ tab' \in [Tables -> Handle]
      /\ tab'[op.tab].open /\ tab[op.tab].open
      /\ tab'[op.tab].part = tab[op.tab].part
      /\ tab'[op.tab].rows = tab[op.tab].rows
      /\ \A v \in Tables : v # op.tab => tab'[v] = tab[v]
      /\ op' \in Statements
      /\ op' = NoOp
      /\ op'.pc = "idle"
      /\ op'.kind = "none"
      /\ op'.tab = NoFile
      /\ UNCHANGED <<server, codes, devop, ins, sync, cfg, dev, synced, data, log, gen, left, acked, devs, deleted, excused, raced, stmts>>
  <2>1. Up
    BY <1>0, BusyIsUp DEF RecoverDW, OpControl, OpenTabs, At, Handle, TabTypes, Goes, Ends, OpStep, Begins, OpTypes, Statements, NoOp, disk, memory, past, promised, threads
  <2>2. op.pc = "dw"
    BY <1>0, BusyIsUp DEF RecoverDW, OpControl, OpenTabs, At, Handle, TabTypes, Goes, Ends, OpStep, Begins, OpTypes, Statements, NoOp, disk, memory, past, promised, threads
  <2>3. op.kind = "create"
    BY <1>0, BusyIsUp, <2>2 DEF RecoverDW, OpControl, OpenTabs, At, Handle, TabTypes, Goes, Ends, OpStep, Begins, OpTypes, Statements, NoOp, disk, memory, past, promised, threads
  <2>4. op.tab \in Tables
    BY <1>0, BusyIsUp, <2>2, <2>3 DEF RecoverDW, OpControl, OpenTabs, At, Handle, TabTypes, Goes, Ends, OpStep, Begins, OpTypes, Statements, NoOp, disk, memory, past, promised, threads
  <2>5. tab' \in [Tables -> Handle]
    BY <1>0, BusyIsUp, <2>2, <2>3, <2>4 DEF RecoverDW, OpControl, OpenTabs, At, Handle, TabTypes, Goes, Ends, OpStep, Begins, OpTypes, Statements, NoOp, disk, memory, past, promised, threads
  <2>6. tab'[op.tab].open /\ tab[op.tab].open
    BY <1>0, BusyIsUp, <2>2, <2>3, <2>4 DEF RecoverDW, OpControl, OpenTabs, At, Handle, TabTypes, Goes, Ends, OpStep, Begins, OpTypes, Statements, NoOp, disk, memory, past, promised, threads
  <2>7. tab'[op.tab].part = tab[op.tab].part
    BY <1>0, BusyIsUp, <2>2, <2>3, <2>4 DEF RecoverDW, OpControl, OpenTabs, At, Handle, TabTypes, Goes, Ends, OpStep, Begins, OpTypes, Statements, NoOp, disk, memory, past, promised, threads
  <2>8. tab'[op.tab].rows = tab[op.tab].rows
    BY <1>0, BusyIsUp, <2>2, <2>3, <2>4 DEF RecoverDW, OpControl, OpenTabs, At, Handle, TabTypes, Goes, Ends, OpStep, Begins, OpTypes, Statements, NoOp, disk, memory, past, promised, threads
  <2>9. \A v \in Tables : v # op.tab => tab'[v] = tab[v]
    BY <1>0, BusyIsUp, <2>2, <2>3, <2>4 DEF RecoverDW, OpControl, OpenTabs, At, Handle, TabTypes, Goes, Ends, OpStep, Begins, OpTypes, Statements, NoOp, disk, memory, past, promised, threads
  <2>10. op' \in Statements
    BY <1>0, BusyIsUp, <2>2, <2>3, <2>4 DEF RecoverDW, OpControl, OpenTabs, At, Handle, TabTypes, Goes, Ends, OpStep, Begins, OpTypes, Statements, NoOp, disk, memory, past, promised, threads
  <2>11. op' = NoOp
    BY <1>0, BusyIsUp, <2>2, <2>3, <2>4 DEF RecoverDW, OpControl, OpenTabs, At, Handle, TabTypes, Goes, Ends, OpStep, Begins, OpTypes, Statements, NoOp, disk, memory, past, promised, threads
  <2>12. op'.pc = "idle"
    BY <1>0, BusyIsUp, <2>2, <2>3, <2>4 DEF RecoverDW, OpControl, OpenTabs, At, Handle, TabTypes, Goes, Ends, OpStep, Begins, OpTypes, Statements, NoOp, disk, memory, past, promised, threads
  <2>13. op'.kind = "none"
    BY <1>0, BusyIsUp, <2>2, <2>3, <2>4, <2>12 DEF RecoverDW, OpControl, OpenTabs, At, Handle, TabTypes, Goes, Ends, OpStep, Begins, OpTypes, Statements, NoOp, disk, memory, past, promised, threads
  <2>14. op'.tab = NoFile
    BY <1>0, BusyIsUp, <2>2, <2>3, <2>4, <2>12, <2>13 DEF RecoverDW, OpControl, OpenTabs, At, Handle, TabTypes, Goes, Ends, OpStep, Begins, OpTypes, Statements, NoOp, disk, memory, past, promised, threads
  <2>15. UNCHANGED <<server, codes, devop, ins, sync, cfg, dev, synced, data, log, gen, left, acked, devs, deleted, excused, raced, stmts>>
    BY <1>0, BusyIsUp, <2>2, <2>3, <2>4, <2>12, <2>13 DEF RecoverDW, OpControl, OpenTabs, At, Handle, TabTypes, Goes, Ends, OpStep, Begins, OpTypes, Statements, NoOp, disk, memory, past, promised, threads
  <2> QED
    BY <2>1, <2>2, <2>3, <2>4, <2>5, <2>6, <2>7, <2>8, <2>9, <2>10, <2>11, <2>12, <2>13, <2>14, <2>15
<1>2. ServerTypes' /\ DevOpTypes'
  BY <1>0, <1>1 DEF ServerTypes, DevOpTypes
<1>3. InsTypes' /\ SyncTypes' /\ CfgTypes' /\ DevTypes'
  BY <1>0, <1>1 DEF InsTypes, SyncTypes, CfgTypes, DevTypes
<1>4. SyncedTypes' /\ DataTypes' /\ LogTypes' /\ GenTypes' /\ PastTypes'
  BY <1>0, <1>1 DEF SyncedTypes, DataTypes, LogTypes, GenTypes, PastTypes
<1>5. SyncControl'
  BY <1>0, <1>1 DEF SyncControl
<1>6. Origins' /\ DevOrigins'
  BY <1>0, <1>1 DEF Origins, DevOrigins
<1>7. SyncedDevs'
  BY <1>0, <1>1 DEF SyncedDevs
<1>8. NewDevs'
  BY <1>0, <1>1 DEF NewDevs, Fresh, Raced
<1>9. DevsOK'
  BY <1>0, <1>1 DEF DevsOK, Raced
<1>10. TabTypes'
  BY <1>0, <1>1 DEF TabTypes
<1>11. OpTypes'
  BY <1>0, <1>1 DEF OpTypes
<1>12. Down'
  BY <1>0, <1>1 DEF Down, Up
<1>13. OpControl'
  BY <1>0, <1>1 DEF OpControl
<1>14. OpenTabs'
  BY <1>0, <1>1 DEF OpenTabs, At, Creating, Removing, Up
<1>15. DevControl'
  BY <1>0, <1>1 DEF DevControl, AtRefs, At
<1>16. InsControl'
  BY <1>0, <1>1 DEF InsControl, AtRefs, At
<1>17. RowOrigins'
  BY <1>0, <1>1 DEF RowOrigins
<1>18. PartFiles'
  BY <1>0, <1>1 DEF PartFiles, At
<1>19. ASSUME NEW u \in Tables, ~Raced("failed", u)'
      PROVE  EntryOK(u)' /\ LeftOK(u)'
  <2>1. EntryOK(u) /\ LeftOK(u) /\ ~Raced("failed", u)
    BY <1>0, <1>1, <1>19 DEF EntriesOK, Raced
  <2>2. EntryOK(u)'
    BY <1>0, <1>1, <2>1 DEF EntryOK, HasPart, Attaching, Creating, Removing, At, Up
  <2>3. LeftOK(u)'
    BY <1>0, <1>1, <2>1 DEF LeftOK, HasPart, Creating, Removed, Removing, At
  <2> QED
    BY <2>2, <2>3
<1>20. NoDevsYet'
  BY <1>0, <1>1 DEF NoDevsYet, Creating, At, Raced
<1>21. NewRows'
  BY <1>0, <1>1 DEF NewRows, Fresh, Raced
<1>22. CountsOK'
  <2>1. CountedDevs' \subseteq CountedDevs
    BY <1>0, <1>1 DEF CountedDevs, InDevs
  <2>2. OpenDevs' \subseteq OpenDevs
    BY <1>0, <1>1 DEF OpenDevs, InDevs
  <2> QED
    BY <1>0, <1>1, <2>1, <2>2, CountsShrink
<1>23. ASSUME NEW r \in Records, Own(r)'
      PROVE  InRows(r)' /\ InFiles(r)' /\ MarkWritten(r)'
  <2>1. Own(r) /\ ~Raced("failed", r[1]) /\ InRows(r) /\ InFiles(r) /\ MarkWritten(r) /\ r[1] \in Tables /\ EntryOK(r[1])
    BY <1>0, <1>1, <1>23 DEF RowsOK, Own, Raced, Records, EntriesOK
  <2>2. InRows(r)'
    BY <1>0, <1>1, <2>1 DEF InRows
  <2>3. InFiles(r)'
    BY <1>0, <1>1, <2>1 DEF InFiles, InData, HasPart, Removed, Removing, At
  <2>4. MarkWritten(r)'
    BY <1>0, <1>1, <2>1 DEF MarkWritten, InData, Removed, Removing, At
  <2> QED
    BY <2>2, <2>3, <2>4
<1>24. PartEntry'
  BY <1>0, <1>1 DEF PartEntry, HasPart, AtRefs, At, Raced
<1> QED
  BY <1>2, <1>3, <1>4, <1>5, <1>6, <1>7, <1>8, <1>9, <1>10, <1>11, <1>12, <1>13, <1>14, <1>15, <1>16, <1>17, <1>18, <1>20, <1>21, <1>22, <1>24, <1>19, <1>23 DEF IInv, EntriesOK, RowsOK

\* CREATE begins.
LEMMA CreateTableKeeps ==
    ASSUME IInv, NEW t \in Tables, CreateTable(t)
    PROVE  IInv'
<1>0. /\ ServerTypes /\ TabTypes /\ OpTypes /\ DevOpTypes /\ InsTypes /\ SyncTypes /\ CfgTypes
      /\ DevTypes /\ SyncedTypes /\ DataTypes /\ LogTypes /\ GenTypes /\ PastTypes
      /\ Down /\ OpControl /\ OpenTabs /\ DevControl /\ InsControl /\ SyncControl
      /\ Origins /\ DevOrigins /\ RowOrigins /\ SyncedDevs /\ PartFiles
      /\ EntriesOK /\ NoDevsYet /\ NewDevs /\ NewRows /\ CountsOK /\ RowsOK /\ PartEntry /\ DevsOK
  BY DEF IInv
<1>a. \A v \in Tables : gen[v] \in Nat /\ gen[v] <= stmts /\ gen[v] + 1 \in 0 .. stmts + 1
  BY <1>0 DEF GenTypes, Gens, ServerTypes
<1>b. gen' = [gen EXCEPT ![t] = @ + 1] /\ gen \in [Tables -> Gens]
  BY <1>0 DEF CreateTable, GenTypes
<1>c. \A v \in Tables : v # t => gen'[v] = gen[v]
  BY <1>b
<1>1. /\ Up
      /\ op.pc = "idle"
      /\ stmts' = stmts + 1
      /\ stmts < MaxStmts
      /\ ~tab[t].open
      /\ dev' \in [Tables -> {NoFile} \cup SUBSET Items]
      /\ dev'[t] # NoFile
      /\ dev[t] # NoFile => dev'[t] = dev[t]
      /\ dev[t] = NoFile => dev'[t] = {}
      /\ \A v \in Tables : v # t => dev'[v] = dev[v]
      /\ gen' \in [Tables -> Gens] /\ \A v \in Tables : gen[v] \in Nat /\ gen'[v] \in Nat /\ gen[v] <= stmts /\ gen[v] <= gen'[v]
      /\ gen'[t] = gen[t] + 1
      /\ \A v \in Tables : v # t => gen'[v] = gen[v]
      /\ raced \subseteq raced'
      /\ raced' \in SUBSET (Races \X Tables)
      /\ t \in left => <<"leftover", t>> \in raced'
      /\ (\E r \in log : r[1] = t) => <<"redo", t>> \in raced'
      /\ op' \in Statements
      /\ op'.kind = "create"
      /\ op'.tab = t
      /\ op'.pc = "config"
      /\ op'.total = 0
      /\ UNCHANGED <<server, tab, codes, devop, ins, sync, cfg, synced, data, log, left, acked, devs, deleted, excused>>
  <2>1. Up
    BY <1>0, <1>b, Constants DEF CreateTable, DevTypes, Of, Up, Race, Races, PastTypes, Goes, Ends, OpStep, Begins, OpTypes, Statements, NoOp, disk, memory, past, promised, threads
  <2>2. op.pc = "idle"
    BY <1>0, <1>b, Constants DEF CreateTable, DevTypes, Of, Up, Race, Races, PastTypes, Goes, Ends, OpStep, Begins, OpTypes, Statements, NoOp, disk, memory, past, promised, threads
  <2>3. stmts' = stmts + 1
    BY <1>0, <1>b, Constants, <2>2 DEF CreateTable, DevTypes, Of, Up, Race, Races, PastTypes, Goes, Ends, OpStep, Begins, OpTypes, Statements, NoOp, disk, memory, past, promised, threads
  <2>4. stmts < MaxStmts
    BY <1>0, <1>b, Constants, <2>2 DEF CreateTable, DevTypes, Of, Up, Race, Races, PastTypes, Goes, Ends, OpStep, Begins, OpTypes, Statements, NoOp, disk, memory, past, promised, threads
  <2>5. ~tab[t].open
    BY <1>0, <1>b, Constants, <2>2 DEF CreateTable, DevTypes, Of, Up, Race, Races, PastTypes, Goes, Ends, OpStep, Begins, OpTypes, Statements, NoOp, disk, memory, past, promised, threads
  <2>6. dev' \in [Tables -> {NoFile} \cup SUBSET Items]
    BY <1>0, <1>b, Constants, <2>2 DEF CreateTable, DevTypes, Of, Up, Race, Races, PastTypes, Goes, Ends, OpStep, Begins, OpTypes, Statements, NoOp, disk, memory, past, promised, threads
  <2>7. dev'[t] # NoFile
    BY <1>0, <1>b, Constants, <2>2 DEF CreateTable, DevTypes, Of, Up, Race, Races, PastTypes, Goes, Ends, OpStep, Begins, OpTypes, Statements, NoOp, disk, memory, past, promised, threads
  <2>8. dev[t] # NoFile => dev'[t] = dev[t]
    BY <1>0, <1>b, Constants, <2>2 DEF CreateTable, DevTypes, Of, Up, Race, Races, PastTypes, Goes, Ends, OpStep, Begins, OpTypes, Statements, NoOp, disk, memory, past, promised, threads
  <2>9. dev[t] = NoFile => dev'[t] = {}
    BY <1>0, <1>b, Constants, <2>2 DEF CreateTable, DevTypes, Of, Up, Race, Races, PastTypes, Goes, Ends, OpStep, Begins, OpTypes, Statements, NoOp, disk, memory, past, promised, threads
  <2>10. \A v \in Tables : v # t => dev'[v] = dev[v]
    BY <1>0, <1>b, Constants, <2>2 DEF CreateTable, DevTypes, Of, Up, Race, Races, PastTypes, Goes, Ends, OpStep, Begins, OpTypes, Statements, NoOp, disk, memory, past, promised, threads
  <2>11. gen' \in [Tables -> Gens] /\ \A v \in Tables : gen[v] \in Nat /\ gen'[v] \in Nat /\ gen[v] <= stmts /\ gen[v] <= gen'[v]
    <3>1. stmts \in Nat /\ stmts + 1 <= MaxStmts
      BY <1>0, <2>4, Constants DEF ServerTypes
    <3>2. gen[t] + 1 \in Gens
      BY <1>a, <3>1, Constants DEF Gens
    <3>3. gen' \in [Tables -> Gens] /\ gen'[t] = gen[t] + 1
      BY <1>b, <3>2
    <3> QED
      BY <1>a, <1>c, <3>3 DEF Gens
  <2>12. gen'[t] = gen[t] + 1
    BY <1>b, <1>c
  <2>13. \A v \in Tables : v # t => gen'[v] = gen[v]
    BY <1>b, <1>c
  <2>14. raced \subseteq raced'
    BY <1>0, <1>b, Constants, <2>2 DEF CreateTable, DevTypes, Of, Up, Race, Races, PastTypes, Goes, Ends, OpStep, Begins, OpTypes, Statements, NoOp, disk, memory, past, promised, threads
  <2>15. raced' \in SUBSET (Races \X Tables)
    BY <1>0 DEF CreateTable, PastTypes, Race, Races
  <2>16. t \in left => <<"leftover", t>> \in raced'
    BY <1>0, <1>b, Constants, <2>2 DEF CreateTable, DevTypes, Of, Up, Race, Races, PastTypes, Goes, Ends, OpStep, Begins, OpTypes, Statements, NoOp, disk, memory, past, promised, threads
  <2>17. (\E r \in log : r[1] = t) => <<"redo", t>> \in raced'
    BY <1>0, <1>b, Constants, <2>2 DEF CreateTable, DevTypes, Of, Up, Race, Races, PastTypes, Goes, Ends, OpStep, Begins, OpTypes, Statements, NoOp, disk, memory, past, promised, threads
  <2>18. op' \in Statements
    BY <1>0, <1>b, Constants, <2>2 DEF CreateTable, DevTypes, Of, Up, Race, Races, PastTypes, Goes, Ends, OpStep, Begins, OpTypes, Statements, NoOp, disk, memory, past, promised, threads
  <2>19. op'.kind = "create"
    BY <1>0, <1>b, Constants, <2>2 DEF CreateTable, DevTypes, Of, Up, Race, Races, PastTypes, Goes, Ends, OpStep, Begins, OpTypes, Statements, NoOp, disk, memory, past, promised, threads
  <2>20. op'.tab = t
    BY <1>0, <1>b, Constants, <2>2, <2>19 DEF CreateTable, DevTypes, Of, Up, Race, Races, PastTypes, Goes, Ends, OpStep, Begins, OpTypes, Statements, NoOp, disk, memory, past, promised, threads
  <2>21. op'.pc = "config"
    BY <1>0, <1>b, Constants, <2>2, <2>19 DEF CreateTable, DevTypes, Of, Up, Race, Races, PastTypes, Goes, Ends, OpStep, Begins, OpTypes, Statements, NoOp, disk, memory, past, promised, threads
  <2>22. op'.total = 0
    BY <1>0, <1>b, Constants, <2>2, <2>19, <2>21 DEF CreateTable, DevTypes, Of, Up, Race, Races, PastTypes, Goes, Ends, OpStep, Begins, OpTypes, Statements, NoOp, disk, memory, past, promised, threads
  <2>23. UNCHANGED <<server, tab, codes, devop, ins, sync, cfg, synced, data, log, left, acked, devs, deleted, excused>>
    BY <1>0, <1>b, Constants, <2>2, <2>19, <2>21 DEF CreateTable, DevTypes, Of, Up, Race, Races, PastTypes, Goes, Ends, OpStep, Begins, OpTypes, Statements, NoOp, disk, memory, past, promised, threads
  <2> QED
    BY <2>1, <2>2, <2>3, <2>4, <2>5, <2>6, <2>7, <2>8, <2>9, <2>10, <2>11, <2>12, <2>13, <2>14, <2>15, <2>16, <2>17, <2>18, <2>19, <2>20, <2>21, <2>22, <2>23
<1>2. tab[t] = Closed /\ tab[t].rows = {}
  BY <1>0, <1>1 DEF OpenTabs, Removing, At, Up, Closed
<1>3. devop.pc = "flush" => devop.tab # t
  BY <1>0, <1>1 DEF DevControl, AtRefs, At
<1>4. ~Raced("failed", t) => cfg[t] = <<>> /\ (dev[t] # NoFile \/ data[t] # NoFile => t \in left)
  BY <1>0, <1>1 DEF EntriesOK, EntryOK, LeftOK, HasPart, Creating, Removing, Removed, At, Up
<1>5. ~Raced("failed", t)' /\ ~Raced("leftover", t)' => dev'[t] = {} /\ synced[t] = {} /\ data[t] = NoFile
  BY <1>0, <1>1, <1>4 DEF SyncedDevs, Raced
<1>6. \A r \in acked \cup log : r[1] \in Tables /\ r[2] \in Nat /\ r[2] <= gen[r[1]] /\ r[2] <= gen'[r[1]]
  BY <1>0, <1>1, Fields DEF Origins, LogTypes, PastTypes
<1>7. \A x \in devs \cup deleted : x[1] \in Tables /\ x[2] \in Nat /\ x[2] <= gen[x[1]] /\ x[2] <= gen'[x[1]]
  BY <1>0, <1>1, Fields DEF Origins, PastTypes
<1>8. /\ \A v \in Tables : dev[v] # NoFile => \A x \in dev[v] : x[1] = v /\ x[2] <= gen[v] /\ x[2] <= gen'[v]
      /\ \A v \in Tables : \A x \in synced[v] : x[1] = v /\ x[2] <= gen[v] /\ x[2] <= gen'[v]
  BY <1>0, <1>1, Fields DEF DevOrigins, DevTypes, SyncedTypes
<1>9. /\ \A v \in Tables : data[v] # NoFile => \A r \in data[v] : r[1] = v /\ r[2] <= gen[v] /\ r[2] <= gen'[v]
      /\ \A v \in Tables : \A r \in tab[v].rows : r[1] = v /\ r[2] <= gen[v] /\ r[2] <= gen'[v]
  BY <1>0, <1>1, Fields DEF RowOrigins, DataTypes, TabTypes, Handle
<1>10. TabTypes' /\ DevOpTypes'
  BY <1>0, <1>1 DEF TabTypes, DevOpTypes
<1>11. InsTypes' /\ SyncTypes' /\ CfgTypes'
  BY <1>0, <1>1 DEF InsTypes, SyncTypes, CfgTypes
<1>12. SyncedTypes' /\ DataTypes' /\ LogTypes'
  BY <1>0, <1>1 DEF SyncedTypes, DataTypes, LogTypes
<1>13. SyncControl'
  BY <1>0, <1>1 DEF SyncControl
<1>14. ServerTypes'
  BY <1>0, <1>1, <1>2, <1>3, <1>4, <1>5, <1>6, <1>7, <1>8, <1>9, Constants DEF ServerTypes
<1>15. OpTypes'
  BY <1>0, <1>1, <1>2, <1>3, <1>4, <1>5, <1>6, <1>7, <1>8, <1>9 DEF OpTypes
<1>16. DevTypes'
  BY <1>0, <1>1, <1>2, <1>3, <1>4, <1>5, <1>6, <1>7, <1>8, <1>9 DEF DevTypes
<1>17. GenTypes'
  BY <1>0, <1>1, <1>2, <1>3, <1>4, <1>5, <1>6, <1>7, <1>8, <1>9, <1>a, <1>b, <1>c DEF GenTypes
<1>18. PastTypes'
  BY <1>0, <1>1, <1>2, <1>3, <1>4, <1>5, <1>6, <1>7, <1>8, <1>9 DEF PastTypes
<1>19. Down'
  BY <1>0, <1>1, <1>2, <1>3, <1>4, <1>5, <1>6, <1>7, <1>8, <1>9 DEF Down, Up
<1>20. OpControl'
  BY <1>0, <1>1, <1>2, <1>3, <1>4, <1>5, <1>6, <1>7, <1>8, <1>9 DEF OpControl
<1>21. OpenTabs'
  BY <1>0, <1>1, <1>2 DEF OpenTabs, At, Creating, Removing, Up
<1>22. DevControl'
  BY <1>0, <1>1, <1>2, <1>3, <1>4, <1>5, <1>6, <1>7, <1>8, <1>9 DEF DevControl, AtRefs, At
<1>23. InsControl'
  BY <1>0, <1>1, <1>2, <1>3, <1>4, <1>5, <1>6, <1>7, <1>8, <1>9 DEF InsControl, AtRefs, At
<1>24. Origins'
  BY <1>0, <1>1, <1>2, <1>3, <1>4, <1>5, <1>6, <1>7, <1>8, <1>9 DEF Origins
<1>25. DevOrigins'
  BY <1>1, <1>8 DEF DevOrigins
<1>26. RowOrigins'
  BY <1>1, <1>9 DEF RowOrigins
<1>27. SyncedDevs'
  BY <1>0, <1>1 DEF SyncedDevs
<1>28. PartFiles'
  BY <1>0, <1>1, <1>2, <1>3, <1>4, <1>5, <1>6, <1>7, <1>8, <1>9 DEF PartFiles, At
<1>29. ASSUME NEW u \in Tables, ~Raced("failed", u)'
      PROVE  EntryOK(u)' /\ LeftOK(u)'
  <2>1. EntryOK(u) /\ LeftOK(u) /\ ~Raced("failed", u)
    BY <1>0, <1>1, <1>29 DEF EntriesOK, Raced
  <2>2. EntryOK(u)'
    BY <1>0, <1>1, <1>2, <1>3, <1>4, <1>5, <1>6, <1>7, <1>8, <1>9, <2>1 DEF EntryOK, HasPart, Attaching, Creating, Removing, At, Up
  <2>3. LeftOK(u)'
    BY <1>0, <1>1, <1>2, <1>3, <1>4, <1>5, <1>6, <1>7, <1>8, <1>9, <2>1 DEF LeftOK, HasPart, Creating, Removed, Removing, At
  <2> QED
    BY <2>2, <2>3
<1>30. NoDevsYet'
  BY <1>0, <1>1, <1>2, <1>3, <1>4, <1>5, <1>6, <1>7, <1>8, <1>9 DEF NoDevsYet, Creating, At, Raced
<1>31. NewDevs'
  <2>1. ASSUME NEW u \in Tables, Fresh(u)'
        PROVE  (dev[u] # NoFile => \A x \in dev[u] : x[2] = gen[u])' /\ (\A x \in synced[u] : x[2] = gen[u])'
    <3>1. CASE u = t
      BY <1>1, <1>2, <1>5, <2>1, <3>1 DEF Fresh, Raced
    <3>2. CASE u # t
      BY <1>0, <1>1, <2>1, <3>2 DEF NewDevs, Fresh, Raced
    <3> QED
      BY <3>1, <3>2
  <2> QED
    BY <2>1 DEF NewDevs
<1>32. NewRows'
  <2>1. ASSUME NEW u \in Tables, Fresh(u)'
        PROVE  (/\ \A r \in tab[u].rows : r[2] = gen[u]
                /\ \A r \in log : r[1] = u => r[2] = gen[u]
                /\ data[u] # NoFile => \A r \in data[u] : r[2] = gen[u])'
    <3>1. CASE u = t
      BY <1>1, <1>2, <1>5, <2>1, <3>1 DEF Fresh, Raced
    <3>2. CASE u # t
      BY <1>0, <1>1, <2>1, <3>2 DEF NewRows, Fresh, Raced
    <3> QED
      BY <3>1, <3>2
  <2> QED
    BY <2>1 DEF NewRows
<1>33. CountsOK'
  <2>1. CASE Overcounted'
    BY <2>1 DEF CountsOK
  <2>2. CASE ~Overcounted'
    <3>1. cfg[t] = <<>>
      BY <1>1, <1>4, <2>2 DEF Overcounted, Raced
    <3>2. CountedDevs' \subseteq CountedDevs /\ OpenDevs' \subseteq OpenDevs
      BY <1>1, <3>1 DEF CountedDevs, OpenDevs, InDevs
    <3> QED
      BY <1>0, <1>1, <3>2, CountsShrink
  <2> QED
    BY <2>1, <2>2
<1>34. ASSUME NEW r \in Records, Own(r)'
      PROVE  InRows(r)' /\ InFiles(r)' /\ MarkWritten(r)'
  <2>1. Own(r) /\ ~Raced("failed", r[1]) /\ InRows(r) /\ InFiles(r) /\ MarkWritten(r) /\ r[1] \in Tables /\ EntryOK(r[1])
    BY <1>0, <1>1, <1>34, <1>6, Fields DEF RowsOK, Own, Raced, Records, EntriesOK
  <2>2. InRows(r)'
    BY <1>1, <2>1, <1>2, <1>3, <1>4, <1>5, <1>6, <1>7, <1>8, <1>9 DEF InRows
  <2>3. InFiles(r)'
    BY <1>0, <1>1, <1>2, <1>3, <1>4, <1>5, <1>6, <1>7, <1>8, <1>9, <2>1 DEF InFiles, InData, HasPart, Removed, Removing, At
  <2>4. MarkWritten(r)'
    BY <1>0, <1>1, <1>2, <1>3, <1>4, <1>5, <1>6, <1>7, <1>8, <1>9, <2>1 DEF MarkWritten, InData, Removed, Removing, At
  <2> QED
    BY <2>2, <2>3, <2>4
<1>35. PartEntry'
  BY <1>0, <1>1, <1>2, <1>3, <1>4, <1>5, <1>6, <1>7, <1>8, <1>9 DEF PartEntry, HasPart, AtRefs, At, Raced
<1>36. DevsOK'
  BY <1>0, <1>1, <1>2, <1>3, <1>4, <1>5, <1>6, <1>7, <1>8, <1>9 DEF DevsOK, Raced
<1> QED
  BY <1>10, <1>11, <1>12, <1>13, <1>14, <1>15, <1>16, <1>17, <1>18, <1>19, <1>20, <1>21, <1>22, <1>23, <1>24, <1>25, <1>26, <1>27, <1>28, <1>30, <1>31, <1>32, <1>33, <1>35, <1>36, <1>29, <1>34 DEF IInv, EntriesOK, RowsOK

\* The files of the parts are attached.
LEMMA AttachFileKeeps ==
    ASSUME IInv, NEW t \in Tables, AttachFile(t)
    PROVE  IInv'
<1>0. /\ ServerTypes /\ TabTypes /\ OpTypes /\ DevOpTypes /\ InsTypes /\ SyncTypes /\ CfgTypes
      /\ DevTypes /\ SyncedTypes /\ DataTypes /\ LogTypes /\ GenTypes /\ PastTypes
      /\ Down /\ OpControl /\ OpenTabs /\ DevControl /\ InsControl /\ SyncControl
      /\ Origins /\ DevOrigins /\ RowOrigins /\ SyncedDevs /\ PartFiles
      /\ EntriesOK /\ NoDevsYet /\ NewDevs /\ NewRows /\ CountsOK /\ RowsOK /\ PartEntry /\ DevsOK
  BY DEF IInv
<1>1. /\ Up
      /\ op.pc = "idle"
      /\ stmts' = stmts + 1
      /\ stmts < MaxStmts
      /\ tab[t].open
      /\ ~tab[t].part
      /\ data[t] # NoFile
      /\ tab' \in [Tables -> Handle]
      /\ tab'[t].open /\ tab'[t].part
      /\ tab'[t].rows = data[t]
      /\ \A v \in Tables : v # t => tab'[v] = tab[v]
      /\ cfg' \in [Tables -> Seq(BOOLEAN)]
      /\ cfg[t] = <<>> => cfg'[t] = <<>>
      /\ cfg[t] # <<>> => cfg'[t] # <<>> /\ cfg'[t][1] /\ Len(cfg'[t]) = Len(cfg[t])
      /\ \A v \in Tables : v # t => cfg'[v] = cfg[v]
      /\ UNCHANGED <<server, codes, op, devop, ins, sync, dev, synced, data, log, gen, left, acked, devs, deleted, excused, raced>>
  <2>1. Up
    BY <1>0, Entered, Constants DEF AttachFile, Up, TabTypes, Handle, DataTypes, CfgTypes, OpControl, Goes, Ends, OpStep, Begins, OpTypes, Statements, NoOp, disk, memory, past, promised, threads
  <2>2. op.pc = "idle"
    BY <1>0, Entered, Constants DEF AttachFile, Up, TabTypes, Handle, DataTypes, CfgTypes, OpControl, Goes, Ends, OpStep, Begins, OpTypes, Statements, NoOp, disk, memory, past, promised, threads
  <2>3. stmts' = stmts + 1
    BY <1>0, Entered, Constants, <2>2 DEF AttachFile, Up, TabTypes, Handle, DataTypes, CfgTypes, OpControl, Goes, Ends, OpStep, Begins, OpTypes, Statements, NoOp, disk, memory, past, promised, threads
  <2>4. stmts < MaxStmts
    BY <1>0, Entered, Constants, <2>2 DEF AttachFile, Up, TabTypes, Handle, DataTypes, CfgTypes, OpControl, Goes, Ends, OpStep, Begins, OpTypes, Statements, NoOp, disk, memory, past, promised, threads
  <2>5. tab[t].open
    BY <1>0, Entered, Constants, <2>2 DEF AttachFile, Up, TabTypes, Handle, DataTypes, CfgTypes, OpControl, Goes, Ends, OpStep, Begins, OpTypes, Statements, NoOp, disk, memory, past, promised, threads
  <2>6. ~tab[t].part
    BY <1>0, Entered, Constants, <2>2 DEF AttachFile, Up, TabTypes, Handle, DataTypes, CfgTypes, OpControl, Goes, Ends, OpStep, Begins, OpTypes, Statements, NoOp, disk, memory, past, promised, threads
  <2>7. data[t] # NoFile
    BY <1>0, Entered, Constants, <2>2 DEF AttachFile, Up, TabTypes, Handle, DataTypes, CfgTypes, OpControl, Goes, Ends, OpStep, Begins, OpTypes, Statements, NoOp, disk, memory, past, promised, threads
  <2>8. tab' \in [Tables -> Handle]
    <3>1. data[t] \in SUBSET Records
      BY <1>0, <2>7 DEF DataTypes
    <3> QED
      BY <1>0, <3>1 DEF AttachFile, TabTypes, Handle
  <2>9. tab'[t].open /\ tab'[t].part
    BY <1>0, Entered, Constants, <2>2 DEF AttachFile, Up, TabTypes, Handle, DataTypes, CfgTypes, OpControl, Goes, Ends, OpStep, Begins, OpTypes, Statements, NoOp, disk, memory, past, promised, threads
  <2>10. tab'[t].rows = data[t]
    BY <1>0, Entered, Constants, <2>2 DEF AttachFile, Up, TabTypes, Handle, DataTypes, CfgTypes, OpControl, Goes, Ends, OpStep, Begins, OpTypes, Statements, NoOp, disk, memory, past, promised, threads
  <2>11. \A v \in Tables : v # t => tab'[v] = tab[v]
    BY <1>0, Entered, Constants, <2>2 DEF AttachFile, Up, TabTypes, Handle, DataTypes, CfgTypes, OpControl, Goes, Ends, OpStep, Begins, OpTypes, Statements, NoOp, disk, memory, past, promised, threads
  <2>12. cfg' \in [Tables -> Seq(BOOLEAN)]
    BY <1>0, Entered, Constants, <2>2 DEF AttachFile, Up, TabTypes, Handle, DataTypes, CfgTypes, OpControl, Goes, Ends, OpStep, Begins, OpTypes, Statements, NoOp, disk, memory, past, promised, threads
  <2>13. cfg[t] = <<>> => cfg'[t] = <<>>
    BY <1>0, Entered, Constants, <2>2 DEF AttachFile, Up, TabTypes, Handle, DataTypes, CfgTypes, OpControl, Goes, Ends, OpStep, Begins, OpTypes, Statements, NoOp, disk, memory, past, promised, threads
  <2>14. cfg[t] # <<>> => cfg'[t] # <<>> /\ cfg'[t][1] /\ Len(cfg'[t]) = Len(cfg[t])
    BY <1>0, Entered, Constants, <2>2 DEF AttachFile, Up, TabTypes, Handle, DataTypes, CfgTypes, OpControl, Goes, Ends, OpStep, Begins, OpTypes, Statements, NoOp, disk, memory, past, promised, threads
  <2>15. \A v \in Tables : v # t => cfg'[v] = cfg[v]
    BY <1>0, Entered, Constants, <2>2 DEF AttachFile, Up, TabTypes, Handle, DataTypes, CfgTypes, OpControl, Goes, Ends, OpStep, Begins, OpTypes, Statements, NoOp, disk, memory, past, promised, threads
  <2>16. UNCHANGED <<server, codes, op, devop, ins, sync, dev, synced, data, log, gen, left, acked, devs, deleted, excused, raced>>
    BY <1>0, Entered, Constants, <2>2 DEF AttachFile, Up, TabTypes, Handle, DataTypes, CfgTypes, OpControl, Goes, Ends, OpStep, Begins, OpTypes, Statements, NoOp, disk, memory, past, promised, threads
  <2> QED
    BY <2>1, <2>2, <2>3, <2>4, <2>5, <2>6, <2>7, <2>8, <2>9, <2>10, <2>11, <2>12, <2>13, <2>14, <2>15, <2>16
<1>2. ~Raced("failed", t) => cfg[t] # <<>>
  BY <1>0, <1>1 DEF EntriesOK, EntryOK, Attaching, At
<1>3. OpTypes' /\ DevOpTypes'
  BY <1>0, <1>1 DEF OpTypes, DevOpTypes
<1>4. InsTypes' /\ SyncTypes' /\ DevTypes'
  BY <1>0, <1>1 DEF InsTypes, SyncTypes, DevTypes
<1>5. SyncedTypes' /\ DataTypes' /\ LogTypes' /\ PastTypes'
  BY <1>0, <1>1 DEF SyncedTypes, DataTypes, LogTypes, PastTypes
<1>6. OpControl'
  BY <1>0, <1>1 DEF OpControl
<1>7. SyncControl'
  BY <1>0, <1>1 DEF SyncControl
<1>8. Origins' /\ DevOrigins'
  BY <1>0, <1>1 DEF Origins, DevOrigins
<1>9. SyncedDevs'
  BY <1>0, <1>1 DEF SyncedDevs
<1>10. NoDevsYet' /\ NewDevs'
  BY <1>0, <1>1 DEF NoDevsYet, NewDevs, Creating, At, Raced, Fresh
<1>11. DevsOK'
  BY <1>0, <1>1 DEF DevsOK, Raced
<1>12. ServerTypes'
  BY <1>0, <1>1, <1>2, Constants DEF ServerTypes
<1>13. TabTypes'
  BY <1>0, <1>1, <1>2 DEF TabTypes
<1>14. CfgTypes'
  BY <1>0, <1>1, <1>2 DEF CfgTypes
<1>15. GenTypes'
  BY <1>0, <1>1, <1>2, Constants DEF GenTypes, Gens, ServerTypes
<1>16. Down'
  BY <1>0, <1>1, <1>2 DEF Down, Up
<1>17. OpenTabs'
  BY <1>0, <1>1, <1>2 DEF OpenTabs, At, Creating, Removing, Up
<1>18. DevControl'
  BY <1>0, <1>1, <1>2 DEF DevControl, AtRefs, At
<1>19. InsControl'
  BY <1>0, <1>1, <1>2 DEF InsControl, AtRefs, At
<1>20. RowOrigins'
  BY <1>0, <1>1, <1>2 DEF RowOrigins
<1>21. PartFiles'
  BY <1>0, <1>1, <1>2 DEF PartFiles, At
<1>22. ASSUME NEW u \in Tables, ~Raced("failed", u)'
      PROVE  EntryOK(u)' /\ LeftOK(u)'
  <2>1. EntryOK(u) /\ LeftOK(u) /\ ~Raced("failed", u)
    BY <1>0, <1>1, <1>22 DEF EntriesOK, Raced
  <2>2. EntryOK(u)'
    BY <1>0, <1>1, <1>2, <2>1 DEF EntryOK, HasPart, Attaching, Creating, Removing, At, Up
  <2>3. LeftOK(u)'
    BY <1>0, <1>1, <1>2, <2>1 DEF LeftOK, HasPart, Creating, Removed, Removing, At, EntryOK, Attaching
  <2> QED
    BY <2>2, <2>3
<1>23. NewRows'
  BY <1>0, <1>1 DEF NewRows, Fresh, Raced
<1>24. CountsOK'
  <2>1. CountedDevs' \subseteq CountedDevs
    BY <1>0, <1>1 DEF CountedDevs, InDevs
  <2>2. OpenDevs' \subseteq OpenDevs
    BY <1>0, <1>1 DEF OpenDevs, InDevs
  <2> QED
    BY <1>0, <1>1, <2>1, <2>2, CountsShrink
<1>25. ASSUME NEW r \in Records, Own(r)'
      PROVE  InRows(r)' /\ InFiles(r)' /\ MarkWritten(r)'
  <2>1. Own(r) /\ ~Raced("failed", r[1]) /\ InRows(r) /\ InFiles(r) /\ MarkWritten(r) /\ r[1] \in Tables /\ EntryOK(r[1])
    BY <1>0, <1>1, <1>25 DEF RowsOK, Own, Raced, Records, EntriesOK
  <2>2. InRows(r)'
    BY <1>0, <1>1, <1>2, <2>1 DEF InRows, EntryOK, HasPart, InFiles, InData, Removed, Removing, At, Up
  <2>3. InFiles(r)'
    BY <1>0, <1>1, <1>2, <2>1 DEF InFiles, InData, HasPart, Removed, Removing, At
  <2>4. MarkWritten(r)'
    BY <1>0, <1>1, <1>2, <2>1 DEF MarkWritten, InData, Removed, Removing, At
  <2> QED
    BY <2>2, <2>3, <2>4
<1>26. PartEntry'
  BY <1>0, <1>1, <1>2 DEF PartEntry, HasPart, AtRefs, At, Raced
<1> QED
  BY <1>3, <1>4, <1>5, <1>6, <1>7, <1>8, <1>9, <1>10, <1>11, <1>12, <1>13, <1>14, <1>15, <1>16, <1>17, <1>18, <1>19, <1>20, <1>21, <1>23, <1>24, <1>26, <1>22, <1>25 DEF IInv, EntriesOK, RowsOK

\* The device file is deleted.
LEMMA DropDevFileKeeps ==
    ASSUME IInv, DropDevFile
    PROVE  IInv'
<1>0. /\ ServerTypes /\ TabTypes /\ OpTypes /\ DevOpTypes /\ InsTypes /\ SyncTypes /\ CfgTypes
      /\ DevTypes /\ SyncedTypes /\ DataTypes /\ LogTypes /\ GenTypes /\ PastTypes
      /\ Down /\ OpControl /\ OpenTabs /\ DevControl /\ InsControl /\ SyncControl
      /\ Origins /\ DevOrigins /\ RowOrigins /\ SyncedDevs /\ PartFiles
      /\ EntriesOK /\ NoDevsYet /\ NewDevs /\ NewRows /\ CountsOK /\ RowsOK /\ PartEntry /\ DevsOK
  BY DEF IInv
<1>1. /\ Up
      /\ op.kind = "drop"
      /\ op.pc = "device file"
      /\ op.tab \in Tables
      /\ tab' \in [Tables -> Handle]
      /\ tab'[op.tab] = Closed
      /\ ~tab'[op.tab].open /\ ~tab'[op.tab].part /\ tab'[op.tab].rows = {}
      /\ \A v \in Tables : v # op.tab => tab'[v] = tab[v]
      /\ dev' \in [Tables -> {NoFile} \cup SUBSET Items]
      /\ dev'[op.tab] = NoFile
      /\ \A v \in Tables : v # op.tab => dev'[v] = dev[v]
      /\ synced' \in [Tables -> SUBSET Items]
      /\ synced'[op.tab] = {}
      /\ \A v \in Tables : v # op.tab => synced'[v] = synced[v]
      /\ left' \in SUBSET Tables
      /\ data[op.tab] # NoFile => left' = left
      /\ \A v \in Tables : v # op.tab => (v \in left <=> v \in left')
      /\ excused' = excused \cup tab[op.tab].rows
      /\ tab[op.tab].rows \in SUBSET Records
      /\ op' \in Statements
      /\ op' = NoOp
      /\ op'.pc = "idle"
      /\ op'.kind = "none"
      /\ op'.tab = NoFile
      /\ UNCHANGED <<server, codes, devop, ins, sync, cfg, data, log, gen, acked, devs, deleted, raced, stmts>>
  <2>1. Up
    BY <1>0, BusyIsUp DEF DropDevFile, TabTypes, Handle, DevTypes, SyncedTypes, PastTypes, OpControl, Closed, Goes, Ends, OpStep, Begins, OpTypes, Statements, NoOp, disk, memory, past, promised, threads
  <2>2. op.kind = "drop"
    BY <1>0, BusyIsUp DEF DropDevFile, TabTypes, Handle, DevTypes, SyncedTypes, PastTypes, OpControl, Closed, Goes, Ends, OpStep, Begins, OpTypes, Statements, NoOp, disk, memory, past, promised, threads
  <2>3. op.pc = "device file"
    BY <1>0, BusyIsUp, <2>2 DEF DropDevFile, TabTypes, Handle, DevTypes, SyncedTypes, PastTypes, OpControl, Closed, Goes, Ends, OpStep, Begins, OpTypes, Statements, NoOp, disk, memory, past, promised, threads
  <2>4. op.tab \in Tables
    BY <1>0, BusyIsUp, <2>2, <2>3 DEF DropDevFile, TabTypes, Handle, DevTypes, SyncedTypes, PastTypes, OpControl, Closed, Goes, Ends, OpStep, Begins, OpTypes, Statements, NoOp, disk, memory, past, promised, threads
  <2>5. tab' \in [Tables -> Handle]
    BY <1>0, BusyIsUp, <2>2, <2>3, <2>4 DEF DropDevFile, TabTypes, Handle, DevTypes, SyncedTypes, PastTypes, OpControl, Closed, Goes, Ends, OpStep, Begins, OpTypes, Statements, NoOp, disk, memory, past, promised, threads
  <2>6. tab'[op.tab] = Closed
    BY <1>0, BusyIsUp, <2>2, <2>3, <2>4 DEF DropDevFile, TabTypes, Handle, DevTypes, SyncedTypes, PastTypes, OpControl, Closed, Goes, Ends, OpStep, Begins, OpTypes, Statements, NoOp, disk, memory, past, promised, threads
  <2>7. ~tab'[op.tab].open /\ ~tab'[op.tab].part /\ tab'[op.tab].rows = {}
    BY <1>0, BusyIsUp, <2>2, <2>3, <2>4 DEF DropDevFile, TabTypes, Handle, DevTypes, SyncedTypes, PastTypes, OpControl, Closed, Goes, Ends, OpStep, Begins, OpTypes, Statements, NoOp, disk, memory, past, promised, threads
  <2>8. \A v \in Tables : v # op.tab => tab'[v] = tab[v]
    BY <1>0, BusyIsUp, <2>2, <2>3, <2>4 DEF DropDevFile, TabTypes, Handle, DevTypes, SyncedTypes, PastTypes, OpControl, Closed, Goes, Ends, OpStep, Begins, OpTypes, Statements, NoOp, disk, memory, past, promised, threads
  <2>9. dev' \in [Tables -> {NoFile} \cup SUBSET Items]
    BY <1>0, BusyIsUp, <2>2, <2>3, <2>4 DEF DropDevFile, TabTypes, Handle, DevTypes, SyncedTypes, PastTypes, OpControl, Closed, Goes, Ends, OpStep, Begins, OpTypes, Statements, NoOp, disk, memory, past, promised, threads
  <2>10. dev'[op.tab] = NoFile
    BY <1>0, BusyIsUp, <2>2, <2>3, <2>4 DEF DropDevFile, TabTypes, Handle, DevTypes, SyncedTypes, PastTypes, OpControl, Closed, Goes, Ends, OpStep, Begins, OpTypes, Statements, NoOp, disk, memory, past, promised, threads
  <2>11. \A v \in Tables : v # op.tab => dev'[v] = dev[v]
    BY <1>0, BusyIsUp, <2>2, <2>3, <2>4 DEF DropDevFile, TabTypes, Handle, DevTypes, SyncedTypes, PastTypes, OpControl, Closed, Goes, Ends, OpStep, Begins, OpTypes, Statements, NoOp, disk, memory, past, promised, threads
  <2>12. synced' \in [Tables -> SUBSET Items]
    BY <1>0, BusyIsUp, <2>2, <2>3, <2>4 DEF DropDevFile, TabTypes, Handle, DevTypes, SyncedTypes, PastTypes, OpControl, Closed, Goes, Ends, OpStep, Begins, OpTypes, Statements, NoOp, disk, memory, past, promised, threads
  <2>13. synced'[op.tab] = {}
    BY <1>0, BusyIsUp, <2>2, <2>3, <2>4 DEF DropDevFile, TabTypes, Handle, DevTypes, SyncedTypes, PastTypes, OpControl, Closed, Goes, Ends, OpStep, Begins, OpTypes, Statements, NoOp, disk, memory, past, promised, threads
  <2>14. \A v \in Tables : v # op.tab => synced'[v] = synced[v]
    BY <1>0, BusyIsUp, <2>2, <2>3, <2>4 DEF DropDevFile, TabTypes, Handle, DevTypes, SyncedTypes, PastTypes, OpControl, Closed, Goes, Ends, OpStep, Begins, OpTypes, Statements, NoOp, disk, memory, past, promised, threads
  <2>15. left' \in SUBSET Tables
    BY <1>0, BusyIsUp, <2>2, <2>3, <2>4 DEF DropDevFile, TabTypes, Handle, DevTypes, SyncedTypes, PastTypes, OpControl, Closed, Goes, Ends, OpStep, Begins, OpTypes, Statements, NoOp, disk, memory, past, promised, threads
  <2>16. data[op.tab] # NoFile => left' = left
    BY <1>0, BusyIsUp, <2>2, <2>3, <2>4 DEF DropDevFile, TabTypes, Handle, DevTypes, SyncedTypes, PastTypes, OpControl, Closed, Goes, Ends, OpStep, Begins, OpTypes, Statements, NoOp, disk, memory, past, promised, threads
  <2>17. \A v \in Tables : v # op.tab => (v \in left <=> v \in left')
    BY <1>0, BusyIsUp, <2>2, <2>3, <2>4 DEF DropDevFile, TabTypes, Handle, DevTypes, SyncedTypes, PastTypes, OpControl, Closed, Goes, Ends, OpStep, Begins, OpTypes, Statements, NoOp, disk, memory, past, promised, threads
  <2>18. excused' = excused \cup tab[op.tab].rows
    BY <1>0, BusyIsUp, <2>2, <2>3, <2>4 DEF DropDevFile, TabTypes, Handle, DevTypes, SyncedTypes, PastTypes, OpControl, Closed, Goes, Ends, OpStep, Begins, OpTypes, Statements, NoOp, disk, memory, past, promised, threads
  <2>19. tab[op.tab].rows \in SUBSET Records
    BY <1>0, BusyIsUp, <2>2, <2>3, <2>4 DEF DropDevFile, TabTypes, Handle, DevTypes, SyncedTypes, PastTypes, OpControl, Closed, Goes, Ends, OpStep, Begins, OpTypes, Statements, NoOp, disk, memory, past, promised, threads
  <2>20. op' \in Statements
    BY <1>0, BusyIsUp, <2>2, <2>3, <2>4 DEF DropDevFile, TabTypes, Handle, DevTypes, SyncedTypes, PastTypes, OpControl, Closed, Goes, Ends, OpStep, Begins, OpTypes, Statements, NoOp, disk, memory, past, promised, threads
  <2>21. op' = NoOp
    BY <1>0, BusyIsUp, <2>2, <2>3, <2>4 DEF DropDevFile, TabTypes, Handle, DevTypes, SyncedTypes, PastTypes, OpControl, Closed, Goes, Ends, OpStep, Begins, OpTypes, Statements, NoOp, disk, memory, past, promised, threads
  <2>22. op'.pc = "idle"
    BY <1>0, BusyIsUp, <2>2, <2>3, <2>4 DEF DropDevFile, TabTypes, Handle, DevTypes, SyncedTypes, PastTypes, OpControl, Closed, Goes, Ends, OpStep, Begins, OpTypes, Statements, NoOp, disk, memory, past, promised, threads
  <2>23. op'.kind = "none"
    BY <1>0, BusyIsUp, <2>2, <2>3, <2>4, <2>22 DEF DropDevFile, TabTypes, Handle, DevTypes, SyncedTypes, PastTypes, OpControl, Closed, Goes, Ends, OpStep, Begins, OpTypes, Statements, NoOp, disk, memory, past, promised, threads
  <2>24. op'.tab = NoFile
    BY <1>0, BusyIsUp, <2>2, <2>3, <2>4, <2>22, <2>23 DEF DropDevFile, TabTypes, Handle, DevTypes, SyncedTypes, PastTypes, OpControl, Closed, Goes, Ends, OpStep, Begins, OpTypes, Statements, NoOp, disk, memory, past, promised, threads
  <2>25. UNCHANGED <<server, codes, devop, ins, sync, cfg, data, log, gen, acked, devs, deleted, raced, stmts>>
    BY <1>0, BusyIsUp, <2>2, <2>3, <2>4, <2>22, <2>23 DEF DropDevFile, TabTypes, Handle, DevTypes, SyncedTypes, PastTypes, OpControl, Closed, Goes, Ends, OpStep, Begins, OpTypes, Statements, NoOp, disk, memory, past, promised, threads
  <2> QED
    BY <2>1, <2>2, <2>3, <2>4, <2>5, <2>6, <2>7, <2>8, <2>9, <2>10, <2>11, <2>12, <2>13, <2>14, <2>15, <2>16, <2>17, <2>18, <2>19, <2>20, <2>21, <2>22, <2>23, <2>24, <2>25
<1>2. ~tab[op.tab].open
  BY <1>0, <1>1 DEF OpenTabs, At
<1>3. (devop.pc = "flush" => devop.tab # op.tab) /\ (ins.pc # "idle" => ins.tab # op.tab)
  BY <1>0, <1>1, <1>2 DEF DevControl, InsControl, AtRefs, At
<1>4. ~Raced("failed", op.tab) => cfg[op.tab] = <<>>
  BY <1>0, <1>1, <1>2 DEF EntriesOK, EntryOK, Creating, Removing
<1>5. ServerTypes' /\ DevOpTypes'
  BY <1>0, <1>1 DEF ServerTypes, DevOpTypes
<1>6. InsTypes' /\ SyncTypes' /\ CfgTypes'
  BY <1>0, <1>1 DEF InsTypes, SyncTypes, CfgTypes
<1>7. DataTypes' /\ LogTypes' /\ GenTypes'
  BY <1>0, <1>1 DEF DataTypes, LogTypes, GenTypes
<1>8. SyncControl'
  BY <1>0, <1>1 DEF SyncControl
<1>9. Origins'
  BY <1>0, <1>1 DEF Origins
<1>10. TabTypes'
  BY <1>0, <1>1, <1>2, <1>3, <1>4 DEF TabTypes
<1>11. OpTypes'
  BY <1>0, <1>1, <1>2, <1>3, <1>4 DEF OpTypes
<1>12. DevTypes'
  BY <1>0, <1>1, <1>2, <1>3, <1>4 DEF DevTypes
<1>13. SyncedTypes'
  BY <1>0, <1>1, <1>2, <1>3, <1>4 DEF SyncedTypes
<1>14. PastTypes'
  BY <1>0, <1>1, <1>2, <1>3, <1>4 DEF PastTypes
<1>15. Down'
  BY <1>0, <1>1, <1>2, <1>3, <1>4 DEF Down, Up
<1>16. OpControl'
  BY <1>0, <1>1, <1>2, <1>3, <1>4 DEF OpControl
<1>17. OpenTabs'
  BY <1>0, <1>1, <1>2, <1>3, <1>4 DEF OpenTabs, At, Creating, Removing, Up
<1>18. DevControl'
  BY <1>0, <1>1, <1>2, <1>3, <1>4 DEF DevControl, AtRefs, At
<1>19. InsControl'
  BY <1>0, <1>1, <1>2, <1>3, <1>4 DEF InsControl, AtRefs, At
<1>20. DevOrigins'
  BY <1>0, <1>1, <1>2, <1>3, <1>4 DEF DevOrigins
<1>21. RowOrigins'
  BY <1>0, <1>1, <1>2, <1>3, <1>4 DEF RowOrigins
<1>22. SyncedDevs'
  BY <1>0, <1>1, <1>2, <1>3, <1>4 DEF SyncedDevs
<1>23. PartFiles'
  BY <1>0, <1>1, <1>2, <1>3, <1>4 DEF PartFiles, At
<1>24. ASSUME NEW u \in Tables, ~Raced("failed", u)'
      PROVE  EntryOK(u)' /\ LeftOK(u)'
  <2>1. EntryOK(u) /\ LeftOK(u) /\ ~Raced("failed", u)
    BY <1>0, <1>1, <1>24 DEF EntriesOK, Raced
  <2>2. EntryOK(u)'
    BY <1>0, <1>1, <1>2, <1>3, <1>4, <2>1 DEF EntryOK, HasPart, Attaching, Creating, Removing, At, Up
  <2>3. LeftOK(u)'
    BY <1>0, <1>1, <1>2, <1>3, <1>4, <2>1 DEF LeftOK, HasPart, Creating, Removed, Removing, At, PartFiles
  <2> QED
    BY <2>2, <2>3
<1>25. NoDevsYet'
  BY <1>0, <1>1, <1>2, <1>3, <1>4 DEF NoDevsYet, Creating, At, Raced
<1>26. NewDevs'
  BY <1>0, <1>1, <1>2, <1>3, <1>4 DEF NewDevs, Fresh, Raced
<1>27. NewRows'
  BY <1>0, <1>1, <1>2, <1>3, <1>4 DEF NewRows, Fresh, Raced
<1>28. CountsOK'
  <2>1. CountedDevs' \subseteq CountedDevs
    BY <1>0, <1>1 DEF CountedDevs, InDevs
  <2>2. OpenDevs' \subseteq OpenDevs
    BY <1>0, <1>1 DEF OpenDevs, InDevs
  <2> QED
    BY <1>0, <1>1, <2>1, <2>2, CountsShrink
<1>29. ASSUME NEW r \in Records, Own(r)'
      PROVE  InRows(r)' /\ InFiles(r)' /\ MarkWritten(r)'
  <2>1. Own(r) /\ ~Raced("failed", r[1]) /\ InRows(r) /\ InFiles(r) /\ MarkWritten(r) /\ r[1] \in Tables /\ EntryOK(r[1]) /\ (r[1] = op.tab => ~tab[op.tab].part)
    BY <1>0, <1>1, <1>29 DEF RowsOK, Own, Raced, Records, EntriesOK, InRows
  <2>2. InRows(r)'
    BY <1>0, <1>1, <1>2, <1>3, <1>4, <2>1 DEF InRows
  <2>3. InFiles(r)'
    BY <1>0, <1>1, <1>2, <1>3, <1>4, <2>1 DEF InFiles, InData, HasPart, Removed, Removing, At
  <2>4. MarkWritten(r)'
    BY <1>0, <1>1, <1>2, <1>3, <1>4, <2>1 DEF MarkWritten, InData, Removed, Removing, At
  <2> QED
    BY <2>2, <2>3, <2>4
<1>30. PartEntry'
  BY <1>0, <1>1, <1>2, <1>3, <1>4 DEF PartEntry, HasPart, AtRefs, At, Raced
<1>31. DevsOK'
  BY <1>0, <1>1, <1>2, <1>3, <1>4 DEF DevsOK, Raced
<1> QED
  BY <1>5, <1>6, <1>7, <1>8, <1>9, <1>10, <1>11, <1>12, <1>13, <1>14, <1>15, <1>16, <1>17, <1>18, <1>19, <1>20, <1>21, <1>22, <1>23, <1>25, <1>26, <1>27, <1>28, <1>30, <1>31, <1>24, <1>29 DEF IInv, EntriesOK, RowsOK

\* The table is written and closed.
LEMMA CloseTableKeeps ==
    ASSUME IInv, CloseTable
    PROVE  IInv'
<1>0. /\ ServerTypes /\ TabTypes /\ OpTypes /\ DevOpTypes /\ InsTypes /\ SyncTypes /\ CfgTypes
      /\ DevTypes /\ SyncedTypes /\ DataTypes /\ LogTypes /\ GenTypes /\ PastTypes
      /\ Down /\ OpControl /\ OpenTabs /\ DevControl /\ InsControl /\ SyncControl
      /\ Origins /\ DevOrigins /\ RowOrigins /\ SyncedDevs /\ PartFiles
      /\ EntriesOK /\ NoDevsYet /\ NewDevs /\ NewRows /\ CountsOK /\ RowsOK /\ PartEntry /\ DevsOK
  BY DEF IInv
<1>1. /\ Up
      /\ op.kind = "detach"
      /\ op.pc = "files"
      /\ op.tab \in Tables
      /\ tab' \in [Tables -> Handle]
      /\ tab'[op.tab] = Closed
      /\ ~tab'[op.tab].open /\ ~tab'[op.tab].part /\ tab'[op.tab].rows = {}
      /\ \A v \in Tables : v # op.tab => tab'[v] = tab[v]
      /\ dev[op.tab] # NoFile
      /\ synced' \in [Tables -> SUBSET Items]
      /\ synced'[op.tab] = dev[op.tab]
      /\ \A v \in Tables : v # op.tab => synced'[v] = synced[v]
      /\ tab[op.tab].part => data[op.tab] # NoFile /\ data[op.tab] \in SUBSET Records
      /\ tab[op.tab].rows \in SUBSET Records
      /\ data' \in [Tables -> {NoFile} \cup SUBSET Records]
      /\ tab[op.tab].part /\ tab[op.tab].dw => data'[op.tab] = tab[op.tab].rows
      /\ ~(tab[op.tab].part /\ tab[op.tab].dw) => data'[op.tab] = data[op.tab]
      /\ \A v \in Tables : v # op.tab => data'[v] = data[v]
      /\ left' = left \cup {op.tab}
      /\ excused' \in SUBSET Records
      /\ excused \subseteq excused'
      /\ tab[op.tab].part /\ ~tab[op.tab].dw => tab[op.tab].rows \ data[op.tab] \subseteq excused'
      /\ op' \in Statements
      /\ op' = NoOp
      /\ op'.pc = "idle"
      /\ op'.kind = "none"
      /\ op'.tab = NoFile
      /\ UNCHANGED <<server, codes, devop, ins, sync, cfg, dev, log, gen, acked, devs, deleted, raced, stmts>>
  <2>1. Up
    BY <1>0, BusyIsUp DEF CloseTable, TabTypes, Handle, DevTypes, SyncedTypes, DataTypes, PastTypes, OpControl, OpenTabs, PartFiles, Removing, At, Written, Unwritten, Closed, Goes, Ends, OpStep, Begins, OpTypes, Statements, NoOp, disk, memory, past, promised, threads
  <2>2. op.kind = "detach"
    BY <1>0, BusyIsUp DEF CloseTable, TabTypes, Handle, DevTypes, SyncedTypes, DataTypes, PastTypes, OpControl, OpenTabs, PartFiles, Removing, At, Written, Unwritten, Closed, Goes, Ends, OpStep, Begins, OpTypes, Statements, NoOp, disk, memory, past, promised, threads
  <2>3. op.pc = "files"
    BY <1>0, BusyIsUp, <2>2 DEF CloseTable, TabTypes, Handle, DevTypes, SyncedTypes, DataTypes, PastTypes, OpControl, OpenTabs, PartFiles, Removing, At, Written, Unwritten, Closed, Goes, Ends, OpStep, Begins, OpTypes, Statements, NoOp, disk, memory, past, promised, threads
  <2>4. op.tab \in Tables
    BY <1>0, BusyIsUp, <2>2, <2>3 DEF CloseTable, TabTypes, Handle, DevTypes, SyncedTypes, DataTypes, PastTypes, OpControl, OpenTabs, PartFiles, Removing, At, Written, Unwritten, Closed, Goes, Ends, OpStep, Begins, OpTypes, Statements, NoOp, disk, memory, past, promised, threads
  <2>5. tab' \in [Tables -> Handle]
    BY <1>0, BusyIsUp, <2>2, <2>3, <2>4 DEF CloseTable, TabTypes, Handle, DevTypes, SyncedTypes, DataTypes, PastTypes, OpControl, OpenTabs, PartFiles, Removing, At, Written, Unwritten, Closed, Goes, Ends, OpStep, Begins, OpTypes, Statements, NoOp, disk, memory, past, promised, threads
  <2>6. tab'[op.tab] = Closed
    BY <1>0, BusyIsUp, <2>2, <2>3, <2>4 DEF CloseTable, TabTypes, Handle, DevTypes, SyncedTypes, DataTypes, PastTypes, OpControl, OpenTabs, PartFiles, Removing, At, Written, Unwritten, Closed, Goes, Ends, OpStep, Begins, OpTypes, Statements, NoOp, disk, memory, past, promised, threads
  <2>7. ~tab'[op.tab].open /\ ~tab'[op.tab].part /\ tab'[op.tab].rows = {}
    BY <1>0, BusyIsUp, <2>2, <2>3, <2>4 DEF CloseTable, TabTypes, Handle, DevTypes, SyncedTypes, DataTypes, PastTypes, OpControl, OpenTabs, PartFiles, Removing, At, Written, Unwritten, Closed, Goes, Ends, OpStep, Begins, OpTypes, Statements, NoOp, disk, memory, past, promised, threads
  <2>8. \A v \in Tables : v # op.tab => tab'[v] = tab[v]
    BY <1>0, BusyIsUp, <2>2, <2>3, <2>4 DEF CloseTable, TabTypes, Handle, DevTypes, SyncedTypes, DataTypes, PastTypes, OpControl, OpenTabs, PartFiles, Removing, At, Written, Unwritten, Closed, Goes, Ends, OpStep, Begins, OpTypes, Statements, NoOp, disk, memory, past, promised, threads
  <2>9. dev[op.tab] # NoFile
    BY <1>0, BusyIsUp, <2>2, <2>3, <2>4 DEF CloseTable, TabTypes, Handle, DevTypes, SyncedTypes, DataTypes, PastTypes, OpControl, OpenTabs, PartFiles, Removing, At, Written, Unwritten, Closed, Goes, Ends, OpStep, Begins, OpTypes, Statements, NoOp, disk, memory, past, promised, threads
  <2>10. synced' \in [Tables -> SUBSET Items]
    BY <1>0, BusyIsUp, <2>2, <2>3, <2>4 DEF CloseTable, TabTypes, Handle, DevTypes, SyncedTypes, DataTypes, PastTypes, OpControl, OpenTabs, PartFiles, Removing, At, Written, Unwritten, Closed, Goes, Ends, OpStep, Begins, OpTypes, Statements, NoOp, disk, memory, past, promised, threads
  <2>11. synced'[op.tab] = dev[op.tab]
    BY <1>0, BusyIsUp, <2>2, <2>3, <2>4 DEF CloseTable, TabTypes, Handle, DevTypes, SyncedTypes, DataTypes, PastTypes, OpControl, OpenTabs, PartFiles, Removing, At, Written, Unwritten, Closed, Goes, Ends, OpStep, Begins, OpTypes, Statements, NoOp, disk, memory, past, promised, threads
  <2>12. \A v \in Tables : v # op.tab => synced'[v] = synced[v]
    BY <1>0, BusyIsUp, <2>2, <2>3, <2>4 DEF CloseTable, TabTypes, Handle, DevTypes, SyncedTypes, DataTypes, PastTypes, OpControl, OpenTabs, PartFiles, Removing, At, Written, Unwritten, Closed, Goes, Ends, OpStep, Begins, OpTypes, Statements, NoOp, disk, memory, past, promised, threads
  <2>13. tab[op.tab].part => data[op.tab] # NoFile /\ data[op.tab] \in SUBSET Records
    BY <1>0, BusyIsUp, <2>2, <2>3, <2>4 DEF CloseTable, TabTypes, Handle, DevTypes, SyncedTypes, DataTypes, PastTypes, OpControl, OpenTabs, PartFiles, Removing, At, Written, Unwritten, Closed, Goes, Ends, OpStep, Begins, OpTypes, Statements, NoOp, disk, memory, past, promised, threads
  <2>14. tab[op.tab].rows \in SUBSET Records
    BY <1>0, BusyIsUp, <2>2, <2>3, <2>4 DEF CloseTable, TabTypes, Handle, DevTypes, SyncedTypes, DataTypes, PastTypes, OpControl, OpenTabs, PartFiles, Removing, At, Written, Unwritten, Closed, Goes, Ends, OpStep, Begins, OpTypes, Statements, NoOp, disk, memory, past, promised, threads
  <2>15. data' \in [Tables -> {NoFile} \cup SUBSET Records]
    BY <1>0, BusyIsUp, <2>2, <2>3, <2>4 DEF CloseTable, TabTypes, Handle, DevTypes, SyncedTypes, DataTypes, PastTypes, OpControl, OpenTabs, PartFiles, Removing, At, Written, Unwritten, Closed, Goes, Ends, OpStep, Begins, OpTypes, Statements, NoOp, disk, memory, past, promised, threads
  <2>16. tab[op.tab].part /\ tab[op.tab].dw => data'[op.tab] = tab[op.tab].rows
    BY <1>0, BusyIsUp, <2>2, <2>3, <2>4 DEF CloseTable, TabTypes, Handle, DevTypes, SyncedTypes, DataTypes, PastTypes, OpControl, OpenTabs, PartFiles, Removing, At, Written, Unwritten, Closed, Goes, Ends, OpStep, Begins, OpTypes, Statements, NoOp, disk, memory, past, promised, threads
  <2>17. ~(tab[op.tab].part /\ tab[op.tab].dw) => data'[op.tab] = data[op.tab]
    BY <1>0, BusyIsUp, <2>2, <2>3, <2>4 DEF CloseTable, TabTypes, Handle, DevTypes, SyncedTypes, DataTypes, PastTypes, OpControl, OpenTabs, PartFiles, Removing, At, Written, Unwritten, Closed, Goes, Ends, OpStep, Begins, OpTypes, Statements, NoOp, disk, memory, past, promised, threads
  <2>18. \A v \in Tables : v # op.tab => data'[v] = data[v]
    BY <1>0, BusyIsUp, <2>2, <2>3, <2>4 DEF CloseTable, TabTypes, Handle, DevTypes, SyncedTypes, DataTypes, PastTypes, OpControl, OpenTabs, PartFiles, Removing, At, Written, Unwritten, Closed, Goes, Ends, OpStep, Begins, OpTypes, Statements, NoOp, disk, memory, past, promised, threads
  <2>19. left' = left \cup {op.tab}
    BY <1>0, BusyIsUp, <2>2, <2>3, <2>4 DEF CloseTable, TabTypes, Handle, DevTypes, SyncedTypes, DataTypes, PastTypes, OpControl, OpenTabs, PartFiles, Removing, At, Written, Unwritten, Closed, Goes, Ends, OpStep, Begins, OpTypes, Statements, NoOp, disk, memory, past, promised, threads
  <2>20. excused' \in SUBSET Records
    BY <1>0, BusyIsUp, <2>2, <2>3, <2>4 DEF CloseTable, TabTypes, Handle, DevTypes, SyncedTypes, DataTypes, PastTypes, OpControl, OpenTabs, PartFiles, Removing, At, Written, Unwritten, Closed, Goes, Ends, OpStep, Begins, OpTypes, Statements, NoOp, disk, memory, past, promised, threads
  <2>21. excused \subseteq excused'
    BY <1>0, BusyIsUp, <2>2, <2>3, <2>4 DEF CloseTable, TabTypes, Handle, DevTypes, SyncedTypes, DataTypes, PastTypes, OpControl, OpenTabs, PartFiles, Removing, At, Written, Unwritten, Closed, Goes, Ends, OpStep, Begins, OpTypes, Statements, NoOp, disk, memory, past, promised, threads
  <2>22. tab[op.tab].part /\ ~tab[op.tab].dw => tab[op.tab].rows \ data[op.tab] \subseteq excused'
    BY <1>0, BusyIsUp, <2>2, <2>3, <2>4 DEF CloseTable, TabTypes, Handle, DevTypes, SyncedTypes, DataTypes, PastTypes, OpControl, OpenTabs, PartFiles, Removing, At, Written, Unwritten, Closed, Goes, Ends, OpStep, Begins, OpTypes, Statements, NoOp, disk, memory, past, promised, threads
  <2>23. op' \in Statements
    BY <1>0, BusyIsUp, <2>2, <2>3, <2>4 DEF CloseTable, TabTypes, Handle, DevTypes, SyncedTypes, DataTypes, PastTypes, OpControl, OpenTabs, PartFiles, Removing, At, Written, Unwritten, Closed, Goes, Ends, OpStep, Begins, OpTypes, Statements, NoOp, disk, memory, past, promised, threads
  <2>24. op' = NoOp
    BY <1>0, BusyIsUp, <2>2, <2>3, <2>4 DEF CloseTable, TabTypes, Handle, DevTypes, SyncedTypes, DataTypes, PastTypes, OpControl, OpenTabs, PartFiles, Removing, At, Written, Unwritten, Closed, Goes, Ends, OpStep, Begins, OpTypes, Statements, NoOp, disk, memory, past, promised, threads
  <2>25. op'.pc = "idle"
    BY <1>0, BusyIsUp, <2>2, <2>3, <2>4 DEF CloseTable, TabTypes, Handle, DevTypes, SyncedTypes, DataTypes, PastTypes, OpControl, OpenTabs, PartFiles, Removing, At, Written, Unwritten, Closed, Goes, Ends, OpStep, Begins, OpTypes, Statements, NoOp, disk, memory, past, promised, threads
  <2>26. op'.kind = "none"
    BY <1>0, BusyIsUp, <2>2, <2>3, <2>4, <2>25 DEF CloseTable, TabTypes, Handle, DevTypes, SyncedTypes, DataTypes, PastTypes, OpControl, OpenTabs, PartFiles, Removing, At, Written, Unwritten, Closed, Goes, Ends, OpStep, Begins, OpTypes, Statements, NoOp, disk, memory, past, promised, threads
  <2>27. op'.tab = NoFile
    BY <1>0, BusyIsUp, <2>2, <2>3, <2>4, <2>25, <2>26 DEF CloseTable, TabTypes, Handle, DevTypes, SyncedTypes, DataTypes, PastTypes, OpControl, OpenTabs, PartFiles, Removing, At, Written, Unwritten, Closed, Goes, Ends, OpStep, Begins, OpTypes, Statements, NoOp, disk, memory, past, promised, threads
  <2>28. UNCHANGED <<server, codes, devop, ins, sync, cfg, dev, log, gen, acked, devs, deleted, raced, stmts>>
    BY <1>0, BusyIsUp, <2>2, <2>3, <2>4, <2>25, <2>26 DEF CloseTable, TabTypes, Handle, DevTypes, SyncedTypes, DataTypes, PastTypes, OpControl, OpenTabs, PartFiles, Removing, At, Written, Unwritten, Closed, Goes, Ends, OpStep, Begins, OpTypes, Statements, NoOp, disk, memory, past, promised, threads
  <2> QED
    BY <2>1, <2>2, <2>3, <2>4, <2>5, <2>6, <2>7, <2>8, <2>9, <2>10, <2>11, <2>12, <2>13, <2>14, <2>15, <2>16, <2>17, <2>18, <2>19, <2>20, <2>21, <2>22, <2>23, <2>24, <2>25, <2>26, <2>27, <2>28
<1>2. ~tab[op.tab].open
  BY <1>0, <1>1 DEF OpenTabs, At
<1>3. (devop.pc = "flush" => devop.tab # op.tab) /\ (ins.pc # "idle" => ins.tab # op.tab)
  BY <1>0, <1>1, <1>2 DEF DevControl, InsControl, AtRefs, At
<1>4. ~Raced("failed", op.tab) => cfg[op.tab] = <<>>
  BY <1>0, <1>1, <1>2 DEF EntriesOK, EntryOK, Creating, Removing
<1>5. \A r \in Records : Own(r)' /\ r[1] = op.tab => data'[op.tab] # NoFile /\ r \in data'[op.tab]
  <2>1. ASSUME NEW r \in Records, Own(r)', r[1] = op.tab
        PROVE  data'[op.tab] # NoFile /\ r \in data'[op.tab]
    <3>1. Own(r) /\ r \notin excused' /\ ~Raced("failed", op.tab)
      BY <1>1, <2>1 DEF Own, Raced
    <3>2. InRows(r) /\ InFiles(r)
      BY <1>0, <3>1 DEF RowsOK
    <3>3. CASE tab[op.tab].part
      <4>1. r \in tab[op.tab].rows
        BY <2>1, <3>2, <3>3 DEF InRows
      <4>2. CASE tab[op.tab].dw
        BY <1>1, <3>3, <4>1, <4>2, Constants
      <4>3. CASE ~tab[op.tab].dw
        BY <1>1, <3>1, <3>3, <4>1, <4>3
      <4> QED
        BY <4>2, <4>3
    <3>4. CASE ~tab[op.tab].part
      <4>1. data[op.tab] # NoFile /\ r \in data[op.tab]
        BY <1>1, <1>4, <2>1, <3>1, <3>2, <3>4 DEF InFiles, InData, HasPart
      <4> QED
        BY <1>1, <3>4, <4>1
    <3> QED
      BY <3>3, <3>4
  <2> QED
    BY <2>1
<1>6. ServerTypes' /\ DevOpTypes'
  BY <1>0, <1>1 DEF ServerTypes, DevOpTypes
<1>7. InsTypes' /\ SyncTypes' /\ CfgTypes' /\ DevTypes'
  BY <1>0, <1>1 DEF InsTypes, SyncTypes, CfgTypes, DevTypes
<1>8. LogTypes' /\ GenTypes'
  BY <1>0, <1>1 DEF LogTypes, GenTypes
<1>9. SyncControl'
  BY <1>0, <1>1 DEF SyncControl
<1>10. Origins'
  BY <1>0, <1>1 DEF Origins
<1>11. TabTypes'
  BY <1>0, <1>1, <1>2, <1>3, <1>4, <1>5 DEF TabTypes
<1>12. OpTypes'
  BY <1>0, <1>1, <1>2, <1>3, <1>4, <1>5 DEF OpTypes
<1>13. SyncedTypes'
  BY <1>0, <1>1, <1>2, <1>3, <1>4, <1>5 DEF SyncedTypes
<1>14. DataTypes'
  BY <1>0, <1>1, <1>2, <1>3, <1>4, <1>5 DEF DataTypes
<1>15. PastTypes'
  BY <1>0, <1>1, <1>2, <1>3, <1>4, <1>5 DEF PastTypes
<1>16. Down'
  BY <1>0, <1>1, <1>2, <1>3, <1>4, <1>5 DEF Down, Up
<1>17. OpControl'
  BY <1>0, <1>1, <1>2, <1>3, <1>4, <1>5 DEF OpControl
<1>18. OpenTabs'
  BY <1>0, <1>1, <1>2, <1>3, <1>4, <1>5 DEF OpenTabs, At, Creating, Removing, Up
<1>19. DevControl'
  BY <1>0, <1>1, <1>2, <1>3, <1>4, <1>5 DEF DevControl, AtRefs, At
<1>20. InsControl'
  BY <1>0, <1>1, <1>2, <1>3, <1>4, <1>5 DEF InsControl, AtRefs, At
<1>21. DevOrigins'
  BY <1>0, <1>1, <1>2, <1>3, <1>4, <1>5 DEF DevOrigins
<1>22. RowOrigins'
  BY <1>0, <1>1, <1>2, <1>3, <1>4, <1>5 DEF RowOrigins
<1>23. SyncedDevs'
  BY <1>0, <1>1, <1>2, <1>3, <1>4, <1>5 DEF SyncedDevs
<1>24. PartFiles'
  BY <1>0, <1>1, <1>2, <1>3, <1>4, <1>5 DEF PartFiles, At
<1>25. ASSUME NEW u \in Tables, ~Raced("failed", u)'
      PROVE  EntryOK(u)' /\ LeftOK(u)'
  <2>1. EntryOK(u) /\ LeftOK(u) /\ ~Raced("failed", u)
    BY <1>0, <1>1, <1>25 DEF EntriesOK, Raced
  <2>2. EntryOK(u)'
    BY <1>0, <1>1, <1>2, <1>3, <1>4, <1>5, <2>1 DEF EntryOK, HasPart, Attaching, Creating, Removing, At, Up
  <2>3. LeftOK(u)'
    BY <1>0, <1>1, <1>2, <1>3, <1>4, <1>5, <2>1 DEF LeftOK, HasPart, Creating, Removed, Removing, At
  <2> QED
    BY <2>2, <2>3
<1>26. NoDevsYet'
  BY <1>0, <1>1, <1>2, <1>3, <1>4, <1>5 DEF NoDevsYet, Creating, At, Raced
<1>27. NewDevs'
  BY <1>0, <1>1, <1>2, <1>3, <1>4, <1>5 DEF NewDevs, Fresh, Raced
<1>28. NewRows'
  BY <1>0, <1>1, <1>2, <1>3, <1>4, <1>5 DEF NewRows, Fresh, Raced
<1>29. CountsOK'
  <2>1. CountedDevs' \subseteq CountedDevs
    BY <1>0, <1>1 DEF CountedDevs, InDevs
  <2>2. OpenDevs' \subseteq OpenDevs
    BY <1>0, <1>1 DEF OpenDevs, InDevs
  <2> QED
    BY <1>0, <1>1, <2>1, <2>2, CountsShrink
<1>30. ASSUME NEW r \in Records, Own(r)'
      PROVE  InRows(r)' /\ InFiles(r)' /\ MarkWritten(r)'
  <2>1. Own(r) /\ ~Raced("failed", r[1]) /\ InRows(r) /\ InFiles(r) /\ MarkWritten(r) /\ r[1] \in Tables /\ EntryOK(r[1])
    BY <1>0, <1>1, <1>30 DEF RowsOK, Own, Raced, Records, EntriesOK
  <2>2. InRows(r)'
    BY <1>0, <1>1, <1>2, <1>3, <1>4, <1>5, <2>1 DEF InRows
  <2>3. InFiles(r)'
    BY <1>1, <1>5, <2>1, <1>30 DEF InFiles, InData, HasPart, Removed, Removing, At
  <2>4. MarkWritten(r)'
    BY <1>1, <1>5, <2>1, <1>30 DEF MarkWritten, InData, Removed, Removing, At
  <2> QED
    BY <2>2, <2>3, <2>4
<1>31. PartEntry'
  BY <1>0, <1>1, <1>2, <1>3, <1>4, <1>5 DEF PartEntry, HasPart, AtRefs, At, Raced
<1>32. DevsOK'
  BY <1>0, <1>1, <1>2, <1>3, <1>4, <1>5 DEF DevsOK, Raced
<1> QED
  BY <1>6, <1>7, <1>8, <1>9, <1>10, <1>11, <1>12, <1>13, <1>14, <1>15, <1>16, <1>17, <1>18, <1>19, <1>20, <1>21, <1>22, <1>23, <1>24, <1>26, <1>27, <1>28, <1>29, <1>31, <1>32, <1>25, <1>30 DEF IInv, EntriesOK, RowsOK

\* The devices are counted before one is added.
LEMMA InsertDevKeeps ==
    ASSUME IInv, NEW t \in Tables, NEW d \in Devs, InsertDev(t, d)
    PROVE  IInv'
<1>0. /\ ServerTypes /\ TabTypes /\ OpTypes /\ DevOpTypes /\ InsTypes /\ SyncTypes /\ CfgTypes
      /\ DevTypes /\ SyncedTypes /\ DataTypes /\ LogTypes /\ GenTypes /\ PastTypes
      /\ Down /\ OpControl /\ OpenTabs /\ DevControl /\ InsControl /\ SyncControl
      /\ Origins /\ DevOrigins /\ RowOrigins /\ SyncedDevs /\ PartFiles
      /\ EntriesOK /\ NoDevsYet /\ NewDevs /\ NewRows /\ CountsOK /\ RowsOK /\ PartEntry /\ DevsOK
  BY DEF IInv
<1>a. GetTotalDevCnt \in Nat
  BY <1>0, Counting DEF GetTotalDevCnt, Open
<1>1. /\ Up
      /\ devop.pc = "idle"
      /\ devop.kind = "none"
      /\ stmts' = stmts + 1
      /\ stmts < MaxStmts
      /\ devop' \in DevStatements
      /\ devop'.kind = "add"
      /\ devop'.tab = t
      /\ devop'.dev = d
      /\ devop'.pc = "add"
      /\ devop'.total = GetTotalDevCnt
      /\ raced \subseteq raced'
      /\ raced' \in SUBSET (Races \X Tables)
      /\ op.pc \in {"add", "refs", "config"} => <<"capacity", t>> \in raced'
      /\ UNCHANGED <<server, tab, codes, op, ins, sync, cfg, dev, synced, data, log, gen, left, acked, devs, deleted, excused>>
  <2>1. Up
    BY <1>0, <1>a DEF InsertDev, DevControl, Up, Race, Races, PastTypes, DevStep, DevBegins, DevOpTypes, DevStatements, NoDevOp, disk, memory, past, promised, threads
  <2>2. devop.pc = "idle"
    BY <1>0, <1>a DEF InsertDev, DevControl, Up, Race, Races, PastTypes, DevStep, DevBegins, DevOpTypes, DevStatements, NoDevOp, disk, memory, past, promised, threads
  <2>3. devop.kind = "none"
    BY <1>0, <1>a, <2>2 DEF InsertDev, DevControl, Up, Race, Races, PastTypes, DevStep, DevBegins, DevOpTypes, DevStatements, NoDevOp, disk, memory, past, promised, threads
  <2>4. stmts' = stmts + 1
    BY <1>0, <1>a, <2>2, <2>3 DEF InsertDev, DevControl, Up, Race, Races, PastTypes, DevStep, DevBegins, DevOpTypes, DevStatements, NoDevOp, disk, memory, past, promised, threads
  <2>5. stmts < MaxStmts
    BY <1>0, <1>a, <2>2, <2>3 DEF InsertDev, DevControl, Up, Race, Races, PastTypes, DevStep, DevBegins, DevOpTypes, DevStatements, NoDevOp, disk, memory, past, promised, threads
  <2>6. devop' \in DevStatements
    BY <1>0, <1>a, <2>2, <2>3 DEF InsertDev, DevControl, Up, Race, Races, PastTypes, DevStep, DevBegins, DevOpTypes, DevStatements, NoDevOp, disk, memory, past, promised, threads
  <2>7. devop'.kind = "add"
    BY <1>0, <1>a, <2>2, <2>3 DEF InsertDev, DevControl, Up, Race, Races, PastTypes, DevStep, DevBegins, DevOpTypes, DevStatements, NoDevOp, disk, memory, past, promised, threads
  <2>8. devop'.tab = t
    BY <1>0, <1>a, <2>2, <2>3, <2>7 DEF InsertDev, DevControl, Up, Race, Races, PastTypes, DevStep, DevBegins, DevOpTypes, DevStatements, NoDevOp, disk, memory, past, promised, threads
  <2>9. devop'.dev = d
    BY <1>0, <1>a, <2>2, <2>3, <2>7 DEF InsertDev, DevControl, Up, Race, Races, PastTypes, DevStep, DevBegins, DevOpTypes, DevStatements, NoDevOp, disk, memory, past, promised, threads
  <2>10. devop'.pc = "add"
    BY <1>0, <1>a, <2>2, <2>3, <2>7 DEF InsertDev, DevControl, Up, Race, Races, PastTypes, DevStep, DevBegins, DevOpTypes, DevStatements, NoDevOp, disk, memory, past, promised, threads
  <2>11. devop'.total = GetTotalDevCnt
    BY <1>0, <1>a, <2>2, <2>3, <2>7, <2>10 DEF InsertDev, DevControl, Up, Race, Races, PastTypes, DevStep, DevBegins, DevOpTypes, DevStatements, NoDevOp, disk, memory, past, promised, threads
  <2>12. raced \subseteq raced'
    BY <1>0, <1>a, <2>2, <2>3, <2>7, <2>10 DEF InsertDev, DevControl, Up, Race, Races, PastTypes, DevStep, DevBegins, DevOpTypes, DevStatements, NoDevOp, disk, memory, past, promised, threads
  <2>13. raced' \in SUBSET (Races \X Tables)
    BY <1>0, <1>a, <2>2, <2>3, <2>7, <2>10 DEF InsertDev, DevControl, Up, Race, Races, PastTypes, DevStep, DevBegins, DevOpTypes, DevStatements, NoDevOp, disk, memory, past, promised, threads
  <2>14. op.pc \in {"add", "refs", "config"} => <<"capacity", t>> \in raced'
    BY <1>0, <1>a, <2>2, <2>3, <2>7, <2>10 DEF InsertDev, DevControl, Up, Race, Races, PastTypes, DevStep, DevBegins, DevOpTypes, DevStatements, NoDevOp, disk, memory, past, promised, threads
  <2>15. UNCHANGED <<server, tab, codes, op, ins, sync, cfg, dev, synced, data, log, gen, left, acked, devs, deleted, excused>>
    BY <1>0, <1>a, <2>2, <2>3, <2>7, <2>10 DEF InsertDev, DevControl, Up, Race, Races, PastTypes, DevStep, DevBegins, DevOpTypes, DevStatements, NoDevOp, disk, memory, past, promised, threads
  <2> QED
    BY <2>1, <2>2, <2>3, <2>4, <2>5, <2>6, <2>7, <2>8, <2>9, <2>10, <2>11, <2>12, <2>13, <2>14, <2>15
<1>2. TabTypes' /\ OpTypes'
  BY <1>0, <1>1 DEF TabTypes, OpTypes
<1>3. InsTypes' /\ SyncTypes' /\ CfgTypes' /\ DevTypes'
  BY <1>0, <1>1 DEF InsTypes, SyncTypes, CfgTypes, DevTypes
<1>4. SyncedTypes' /\ DataTypes' /\ LogTypes'
  BY <1>0, <1>1 DEF SyncedTypes, DataTypes, LogTypes
<1>5. OpControl' /\ OpenTabs'
  BY <1>0, <1>1 DEF OpControl, OpenTabs, At, Creating, Removing, Up
<1>6. InsControl' /\ SyncControl'
  BY <1>0, <1>1 DEF InsControl, SyncControl, AtRefs, At
<1>7. Origins' /\ DevOrigins' /\ RowOrigins'
  BY <1>0, <1>1 DEF Origins, DevOrigins, RowOrigins
<1>8. PartFiles'
  BY <1>0, <1>1 DEF PartFiles, At
<1>9. ServerTypes'
  BY <1>0, <1>1, Constants DEF ServerTypes
<1>10. DevOpTypes'
  BY <1>0, <1>1 DEF DevOpTypes
<1>11. GenTypes'
  BY <1>0, <1>1, Constants DEF GenTypes, Gens, ServerTypes
<1>12. PastTypes'
  BY <1>0, <1>1 DEF PastTypes
<1>13. Down'
  BY <1>0, <1>1 DEF Down, Up
<1>14. DevControl'
  BY <1>0, <1>1 DEF DevControl, AtRefs, At
<1>15. SyncedDevs'
  BY <1>0, <1>1 DEF SyncedDevs
<1>16. ASSUME NEW u \in Tables, ~Raced("failed", u)'
      PROVE  EntryOK(u)' /\ LeftOK(u)'
  <2>1. EntryOK(u) /\ LeftOK(u) /\ ~Raced("failed", u)
    BY <1>0, <1>1, <1>16 DEF EntriesOK, Raced
  <2>2. EntryOK(u)'
    BY <1>1, <2>1 DEF EntryOK, HasPart, Attaching, Creating, Removing, At, Up
  <2>3. LeftOK(u)'
    BY <1>1, <2>1 DEF LeftOK, HasPart, Creating, Removed, Removing, At
  <2> QED
    BY <2>2, <2>3
<1>17. NoDevsYet'
  BY <1>0, <1>1 DEF NoDevsYet, Creating, At, Raced
<1>18. NewDevs'
  BY <1>0, <1>1 DEF NewDevs, Fresh, Raced
<1>19. NewRows'
  BY <1>0, <1>1 DEF NewRows, Fresh, Raced
<1>20. CountsOK'
  <2>1. CASE Overcounted'
    BY <2>1 DEF CountsOK
  <2>2. CASE ~Overcounted'
    <3>1. /\ ~Overcounted /\ op.pc \notin {"add", "refs", "config"}
          /\ \A u \in Tables : ~Raced("failed", u) /\ ~Raced("leftover", u)
      BY <1>1, <2>2 DEF Overcounted, Raced
    <3>2. \A u \in Tables : /\ cfg[u] # <<>> => tab[u].open \/ dev[u] = {}
                            /\ dev[u] # NoFile => synced[u] \subseteq dev[u]
      BY <1>0, <1>1, <3>1 DEF EntriesOK, EntryOK, NoDevsYet, Creating, Removing, SyncedDevs
    <3>3. CountedDevs \subseteq DevsOf(Open)
      BY <3>2 DEF CountedDevs, InDevs, DevsOf, Open
    <3>4. Cardinality(CountedDevs) <= GetTotalDevCnt
      BY <1>0, <3>3, Counting, Fewer DEF GetTotalDevCnt, Open, DevsOf
    <3>5. CountedDevs' = CountedDevs
      BY <1>1 DEF CountedDevs, InDevs
    <3>6. Cardinality(CountedDevs) <= MaxDev
      BY <1>0, <3>1 DEF CountsOK
    <3> QED
      BY <1>1, <3>1, <3>4, <3>5, <3>6 DEF CountsOK
  <2> QED
    BY <2>1, <2>2
<1>21. ASSUME NEW r \in Records, Own(r)'
      PROVE  InRows(r)' /\ InFiles(r)' /\ MarkWritten(r)'
  <2>1. Own(r) /\ ~Raced("failed", r[1]) /\ InRows(r) /\ InFiles(r) /\ MarkWritten(r) /\ r[1] \in Tables /\ EntryOK(r[1])
    BY <1>0, <1>1, <1>21 DEF RowsOK, Own, Raced, Records, EntriesOK
  <2>2. InRows(r)'
    BY <1>1, <2>1 DEF InRows
  <2>3. InFiles(r)'
    BY <1>1, <2>1 DEF InFiles, InData, HasPart, Removed, Removing, At
  <2>4. MarkWritten(r)'
    BY <1>1, <2>1 DEF MarkWritten, InData, Removed, Removing, At
  <2> QED
    BY <2>2, <2>3, <2>4
<1>22. PartEntry'
  BY <1>0, <1>1 DEF PartEntry, HasPart, AtRefs, At, Raced
<1>23. DevsOK'
  BY <1>0, <1>1 DEF DevsOK, Raced
<1> QED
  BY <1>2, <1>3, <1>4, <1>5, <1>6, <1>7, <1>8, <1>9, <1>10, <1>11, <1>12, <1>13, <1>14, <1>15, <1>17, <1>18, <1>19, <1>20, <1>22, <1>23, <1>16, <1>21 DEF IInv, EntriesOK, RowsOK

\* INSERT INTO sys_dev is refused.
LEMMA DevGivesUpKeeps ==
    ASSUME IInv, devop.pc = "add", devop' = NoDevOp,
           UNCHANGED <<server, memory, op, ins, sync, disk, past, stmts>>
    PROVE  IInv'
<1>0. /\ ServerTypes /\ TabTypes /\ OpTypes /\ DevOpTypes /\ InsTypes /\ SyncTypes /\ CfgTypes
      /\ DevTypes /\ SyncedTypes /\ DataTypes /\ LogTypes /\ GenTypes /\ PastTypes
      /\ Down /\ OpControl /\ OpenTabs /\ DevControl /\ InsControl /\ SyncControl
      /\ Origins /\ DevOrigins /\ RowOrigins /\ SyncedDevs /\ PartFiles
      /\ EntriesOK /\ NoDevsYet /\ NewDevs /\ NewRows /\ CountsOK /\ RowsOK /\ PartEntry /\ DevsOK
  BY DEF IInv
<1>1. /\ Up
      /\ devop.pc = "add"
      /\ devop' \in DevStatements
      /\ devop' = NoDevOp
      /\ devop'.pc = "idle"
      /\ devop'.kind = "none"
      /\ devop'.tab = NoFile
      /\ UNCHANGED <<server, tab, codes, op, ins, sync, cfg, dev, synced, data, log, gen, left, acked, devs, deleted, excused, raced, stmts>>
  BY <1>0, BusyIsUp DEF DevStatements, NoDevOp, disk, memory, past, promised, threads
<1>2. ServerTypes' /\ TabTypes' /\ OpTypes'
  BY <1>0, <1>1 DEF ServerTypes, TabTypes, OpTypes
<1>3. InsTypes' /\ SyncTypes' /\ CfgTypes' /\ DevTypes'
  BY <1>0, <1>1 DEF InsTypes, SyncTypes, CfgTypes, DevTypes
<1>4. SyncedTypes' /\ DataTypes' /\ LogTypes' /\ GenTypes' /\ PastTypes'
  BY <1>0, <1>1 DEF SyncedTypes, DataTypes, LogTypes, GenTypes, PastTypes
<1>5. OpControl' /\ OpenTabs'
  BY <1>0, <1>1 DEF OpControl, OpenTabs, At, Creating, Removing, Up
<1>6. InsControl' /\ SyncControl'
  BY <1>0, <1>1 DEF InsControl, SyncControl, AtRefs, At
<1>7. Origins' /\ DevOrigins' /\ RowOrigins'
  BY <1>0, <1>1 DEF Origins, DevOrigins, RowOrigins
<1>8. PartFiles'
  BY <1>0, <1>1 DEF PartFiles, At
<1>9. NoDevsYet' /\ NewDevs' /\ NewRows'
  BY <1>0, <1>1 DEF NoDevsYet, NewDevs, NewRows, Creating, At, Raced, Fresh
<1>10. PartEntry' /\ DevsOK'
  BY <1>0, <1>1 DEF PartEntry, DevsOK, HasPart, AtRefs, At, Raced
<1>11. DevOpTypes'
  BY <1>0, <1>1 DEF DevOpTypes
<1>12. Down'
  BY <1>0, <1>1 DEF Down, Up
<1>13. DevControl'
  BY <1>0, <1>1 DEF DevControl, AtRefs, At
<1>14. SyncedDevs'
  BY <1>0, <1>1 DEF SyncedDevs, DevControl
<1>15. EntriesOK'
  BY <1>0, <1>1 DEF EntriesOK, Raced, EntryOK, LeftOK, HasPart, Attaching, Creating, Removing, At, Up, Removed
<1>16. CountsOK'
  <2>1. CountedDevs' \subseteq CountedDevs
    BY <1>0, <1>1 DEF CountedDevs, InDevs
  <2>2. OpenDevs' \subseteq OpenDevs
    BY <1>0, <1>1 DEF OpenDevs, InDevs
  <2> QED
    BY <1>0, <1>1, <2>1, <2>2, CountsShrink
<1>17. RowsOK'
  BY <1>0, <1>1 DEF RowsOK, Own, Raced, InRows, InFiles, MarkWritten, InData, HasPart, Removed, Removing, At
<1> QED
  BY <1>2, <1>3, <1>4, <1>5, <1>6, <1>7, <1>8, <1>9, <1>10, <1>11, <1>12, <1>13, <1>14, <1>15, <1>16, <1>17 DEF IInv

\* The device is added.
LEMMA AddDevKeeps ==
    ASSUME IInv, AddDev, devop' # NoDevOp
    PROVE  IInv'
<1>0. /\ ServerTypes /\ TabTypes /\ OpTypes /\ DevOpTypes /\ InsTypes /\ SyncTypes /\ CfgTypes
      /\ DevTypes /\ SyncedTypes /\ DataTypes /\ LogTypes /\ GenTypes /\ PastTypes
      /\ Down /\ OpControl /\ OpenTabs /\ DevControl /\ InsControl /\ SyncControl
      /\ Origins /\ DevOrigins /\ RowOrigins /\ SyncedDevs /\ PartFiles
      /\ EntriesOK /\ NoDevsYet /\ NewDevs /\ NewRows /\ CountsOK /\ RowsOK /\ PartEntry /\ DevsOK
  BY DEF IInv
<1>a. /\ devop.kind = "add" /\ devop.pc = "add" /\ UNCHANGED <<synced, devs, raced, stmts>>
      /\ ~(Full(devop.total) \/ ~tab[devop.tab].open \/ DevExist(devop.tab, devop.dev))
  BY Zenon DEF AddDev, DevStep
<1>b. /\ dev' = [dev EXCEPT ![devop.tab] = Added(devop.tab, devop.dev)]
      /\ deleted' = {x \in deleted : x[1] # devop.tab \/ x[3] # devop.dev}
      /\ DevStep([devop EXCEPT !.pc = "flush"])
  BY Zenon DEF AddDev, DevStep
<1>1. /\ Up
      /\ devop.kind = "add"
      /\ devop.pc = "add"
      /\ devop.tab \in Tables
      /\ devop.dev \in Devs
      /\ devop.total < MaxDev
      /\ devop.total \in Nat
      /\ tab[devop.tab].open
      /\ dev[devop.tab] # NoFile
      /\ gen[devop.tab] \in Gens
      /\ dev' \in [Tables -> {NoFile} \cup SUBSET Items]
      /\ dev'[devop.tab] = dev[devop.tab] \cup {<<devop.tab, gen[devop.tab], devop.dev>>}
      /\ \A v \in Tables : v # devop.tab => dev'[v] = dev[v]
      /\ <<devop.tab, gen[devop.tab], devop.dev>> \in Items
      /\ \A v \in Tables : dev'[v] = NoFile <=> dev[v] = NoFile
      /\ deleted' = {x \in deleted : x[1] # devop.tab \/ x[3] # devop.dev}
      /\ devop' \in DevStatements
      /\ devop'.pc = "flush"
      /\ devop'.kind = devop.kind
      /\ devop'.tab = devop.tab
      /\ devop'.dev = devop.dev
      /\ UNCHANGED <<server, tab, codes, op, ins, sync, cfg, synced, data, log, gen, left, acked, devs, excused, raced, stmts>>
  <2>1. Up
    BY <1>0, BusyIsUp, <1>a, <1>b, Constants DEF DevControl, OpenTabs, DevTypes, GenTypes, Added, Full, Items, PastTypes, disk, memory, past, promised, threads, DevStep, DevBegins, DevOpTypes, DevStatements, NoDevOp
  <2>2. devop.kind = "add"
    BY <1>0, BusyIsUp, <1>a, <1>b, Constants DEF DevControl, OpenTabs, DevTypes, GenTypes, Added, Full, Items, PastTypes, disk, memory, past, promised, threads, DevStep, DevBegins, DevOpTypes, DevStatements, NoDevOp
  <2>3. devop.pc = "add"
    BY <1>0, BusyIsUp, <1>a, <1>b, Constants, <2>2 DEF DevControl, OpenTabs, DevTypes, GenTypes, Added, Full, Items, PastTypes, disk, memory, past, promised, threads, DevStep, DevBegins, DevOpTypes, DevStatements, NoDevOp
  <2>4. devop.tab \in Tables
    BY <1>0, BusyIsUp, <1>a, <1>b, Constants, <2>2, <2>3 DEF DevControl, OpenTabs, DevTypes, GenTypes, Added, Full, Items, PastTypes, disk, memory, past, promised, threads, DevStep, DevBegins, DevOpTypes, DevStatements, NoDevOp
  <2>5. devop.dev \in Devs
    BY <1>0, BusyIsUp, <1>a, <1>b, Constants, <2>2, <2>3, <2>4 DEF DevControl, OpenTabs, DevTypes, GenTypes, Added, Full, Items, PastTypes, disk, memory, past, promised, threads, DevStep, DevBegins, DevOpTypes, DevStatements, NoDevOp
  <2>6. devop.total < MaxDev
    BY <1>0, BusyIsUp, <1>a, <1>b, Constants, <2>2, <2>3, <2>4 DEF DevControl, OpenTabs, DevTypes, GenTypes, Added, Full, Items, PastTypes, disk, memory, past, promised, threads, DevStep, DevBegins, DevOpTypes, DevStatements, NoDevOp
  <2>7. devop.total \in Nat
    BY <1>0, BusyIsUp, <1>a, <1>b, Constants, <2>2, <2>3, <2>4 DEF DevControl, OpenTabs, DevTypes, GenTypes, Added, Full, Items, PastTypes, disk, memory, past, promised, threads, DevStep, DevBegins, DevOpTypes, DevStatements, NoDevOp
  <2>8. tab[devop.tab].open
    BY <1>0, BusyIsUp, <1>a, <1>b, Constants, <2>2, <2>3, <2>4 DEF DevControl, OpenTabs, DevTypes, GenTypes, Added, Full, Items, PastTypes, disk, memory, past, promised, threads, DevStep, DevBegins, DevOpTypes, DevStatements, NoDevOp
  <2>9. dev[devop.tab] # NoFile
    BY <1>0, BusyIsUp, <1>a, <1>b, Constants, <2>2, <2>3, <2>4 DEF DevControl, OpenTabs, DevTypes, GenTypes, Added, Full, Items, PastTypes, disk, memory, past, promised, threads, DevStep, DevBegins, DevOpTypes, DevStatements, NoDevOp
  <2>10. gen[devop.tab] \in Gens
    BY <1>0, BusyIsUp, <1>a, <1>b, Constants, <2>2, <2>3, <2>4 DEF DevControl, OpenTabs, DevTypes, GenTypes, Added, Full, Items, PastTypes, disk, memory, past, promised, threads, DevStep, DevBegins, DevOpTypes, DevStatements, NoDevOp
  <2>11. dev' \in [Tables -> {NoFile} \cup SUBSET Items]
    BY <1>0, BusyIsUp, <1>a, <1>b, Constants, <2>2, <2>3, <2>4 DEF DevControl, OpenTabs, DevTypes, GenTypes, Added, Full, Items, PastTypes, disk, memory, past, promised, threads, DevStep, DevBegins, DevOpTypes, DevStatements, NoDevOp
  <2>12. dev'[devop.tab] = dev[devop.tab] \cup {<<devop.tab, gen[devop.tab], devop.dev>>}
    BY <1>0, BusyIsUp, <1>a, <1>b, Constants, <2>2, <2>3, <2>4 DEF DevControl, OpenTabs, DevTypes, GenTypes, Added, Full, Items, PastTypes, disk, memory, past, promised, threads, DevStep, DevBegins, DevOpTypes, DevStatements, NoDevOp
  <2>13. \A v \in Tables : v # devop.tab => dev'[v] = dev[v]
    BY <1>0, BusyIsUp, <1>a, <1>b, Constants, <2>2, <2>3, <2>4 DEF DevControl, OpenTabs, DevTypes, GenTypes, Added, Full, Items, PastTypes, disk, memory, past, promised, threads, DevStep, DevBegins, DevOpTypes, DevStatements, NoDevOp
  <2>14. <<devop.tab, gen[devop.tab], devop.dev>> \in Items
    BY <1>0, BusyIsUp, <1>a, <1>b, Constants, <2>2, <2>3, <2>4 DEF DevControl, OpenTabs, DevTypes, GenTypes, Added, Full, Items, PastTypes, disk, memory, past, promised, threads, DevStep, DevBegins, DevOpTypes, DevStatements, NoDevOp
  <2>15. \A v \in Tables : dev'[v] = NoFile <=> dev[v] = NoFile
    BY <1>0, BusyIsUp, <1>a, <1>b, Constants, <2>2, <2>3, <2>4 DEF DevControl, OpenTabs, DevTypes, GenTypes, Added, Full, Items, PastTypes, disk, memory, past, promised, threads, DevStep, DevBegins, DevOpTypes, DevStatements, NoDevOp
  <2>16. deleted' = {x \in deleted : x[1] # devop.tab \/ x[3] # devop.dev}
    BY <1>0, BusyIsUp, <1>a, <1>b, Constants, <2>2, <2>3, <2>4 DEF DevControl, OpenTabs, DevTypes, GenTypes, Added, Full, Items, PastTypes, disk, memory, past, promised, threads, DevStep, DevBegins, DevOpTypes, DevStatements, NoDevOp
  <2>17. devop' \in DevStatements
    BY <1>0, BusyIsUp, <1>a, <1>b, Constants, <2>2, <2>3, <2>4 DEF DevControl, OpenTabs, DevTypes, GenTypes, Added, Full, Items, PastTypes, disk, memory, past, promised, threads, DevStep, DevBegins, DevOpTypes, DevStatements, NoDevOp
  <2>18. devop'.pc = "flush"
    BY <1>0, BusyIsUp, <1>a, <1>b, Constants, <2>2, <2>3, <2>4 DEF DevControl, OpenTabs, DevTypes, GenTypes, Added, Full, Items, PastTypes, disk, memory, past, promised, threads, DevStep, DevBegins, DevOpTypes, DevStatements, NoDevOp
  <2>19. devop'.kind = devop.kind
    BY <1>0, BusyIsUp, <1>a, <1>b, Constants, <2>2, <2>3, <2>4, <2>18 DEF DevControl, OpenTabs, DevTypes, GenTypes, Added, Full, Items, PastTypes, disk, memory, past, promised, threads, DevStep, DevBegins, DevOpTypes, DevStatements, NoDevOp
  <2>20. devop'.tab = devop.tab
    BY <1>0, BusyIsUp, <1>a, <1>b, Constants, <2>2, <2>3, <2>4, <2>18, <2>19 DEF DevControl, OpenTabs, DevTypes, GenTypes, Added, Full, Items, PastTypes, disk, memory, past, promised, threads, DevStep, DevBegins, DevOpTypes, DevStatements, NoDevOp
  <2>21. devop'.dev = devop.dev
    BY <1>0, BusyIsUp, <1>a, <1>b, Constants, <2>2, <2>3, <2>4, <2>18, <2>19 DEF DevControl, OpenTabs, DevTypes, GenTypes, Added, Full, Items, PastTypes, disk, memory, past, promised, threads, DevStep, DevBegins, DevOpTypes, DevStatements, NoDevOp
  <2>22. UNCHANGED <<server, tab, codes, op, ins, sync, cfg, synced, data, log, gen, left, acked, devs, excused, raced, stmts>>
    BY <1>0, BusyIsUp, <1>a, <1>b, Constants, <2>2, <2>3, <2>4, <2>18, <2>19 DEF DevControl, OpenTabs, DevTypes, GenTypes, Added, Full, Items, PastTypes, disk, memory, past, promised, threads, DevStep, DevBegins, DevOpTypes, DevStatements, NoDevOp
  <2> QED
    BY <2>1, <2>2, <2>3, <2>4, <2>5, <2>6, <2>7, <2>8, <2>9, <2>10, <2>11, <2>12, <2>13, <2>14, <2>15, <2>16, <2>17, <2>18, <2>19, <2>20, <2>21, <2>22
<1>2. ServerTypes' /\ TabTypes' /\ OpTypes'
  BY <1>0, <1>1 DEF ServerTypes, TabTypes, OpTypes
<1>3. InsTypes' /\ SyncTypes' /\ CfgTypes'
  BY <1>0, <1>1 DEF InsTypes, SyncTypes, CfgTypes
<1>4. SyncedTypes' /\ DataTypes' /\ LogTypes' /\ GenTypes'
  BY <1>0, <1>1 DEF SyncedTypes, DataTypes, LogTypes, GenTypes
<1>5. OpControl'
  BY <1>0, <1>1 DEF OpControl
<1>6. InsControl' /\ SyncControl'
  BY <1>0, <1>1 DEF InsControl, SyncControl, AtRefs, At
<1>7. RowOrigins'
  BY <1>0, <1>1 DEF RowOrigins
<1>8. PartFiles'
  BY <1>0, <1>1 DEF PartFiles, At
<1>9. NewRows'
  BY <1>0, <1>1 DEF NewRows, Fresh, Raced
<1>10. PartEntry'
  BY <1>0, <1>1 DEF PartEntry, HasPart, AtRefs, At, Raced
<1>11. DevOpTypes'
  BY <1>0, <1>1 DEF DevOpTypes
<1>12. DevTypes'
  BY <1>0, <1>1 DEF DevTypes
<1>13. PastTypes'
  BY <1>0, <1>1 DEF PastTypes
<1>14. Down'
  BY <1>0, <1>1 DEF Down, Up
<1>15. OpenTabs'
  BY <1>0, <1>1 DEF OpenTabs, At, Creating, Removing, Up
<1>16. DevControl'
  BY <1>0, <1>1 DEF DevControl, AtRefs, At
<1>17. Origins'
  BY <1>0, <1>1 DEF Origins
<1>18. DevOrigins'
  BY <1>0, <1>1, Fields DEF DevOrigins, GenTypes
<1>19. SyncedDevs'
  BY <1>0, <1>1 DEF SyncedDevs
<1>20. ASSUME NEW u \in Tables, ~Raced("failed", u)'
      PROVE  EntryOK(u)' /\ LeftOK(u)'
  <2>1. EntryOK(u) /\ LeftOK(u) /\ ~Raced("failed", u)
    BY <1>0, <1>1, <1>20 DEF EntriesOK, Raced
  <2>2. EntryOK(u)'
    BY <1>0, <1>1, <2>1 DEF EntryOK, HasPart, Attaching, Creating, Removing, At, Up
  <2>3. LeftOK(u)'
    BY <1>0, <1>1, <2>1 DEF LeftOK, HasPart, Creating, Removed, Removing, At
  <2> QED
    BY <2>2, <2>3
<1>21. NoDevsYet'
  BY <1>0, <1>1 DEF NoDevsYet, Creating, At, Raced, OpenTabs
<1>22. NewDevs'
  BY <1>0, <1>1 DEF NewDevs, Fresh, Raced
<1>23. CountsOK'
  <2>1. CASE Overcounted
    BY <1>1, <2>1 DEF CountsOK, Overcounted, Raced
  <2>2. CASE ~Overcounted
    <3>1. Cardinality(CountedDevs) <= devop.total /\ op.pc # "add"
      BY <1>0, <1>1, <2>2 DEF CountsOK
    <3> DEFINE x == <<devop.tab, gen[devop.tab], devop.dev>>
    <3>2. CountedDevs \in SUBSET Items /\ {x} \in SUBSET Items /\ CountedDevs' \in SUBSET (CountedDevs \cup {x})
      BY <1>1 DEF CountedDevs, InDevs
    <3>3. Cardinality({x}) = 1
      BY FS_Singleton
    <3>4. /\ Cardinality(CountedDevs \cup {x}) \in Nat /\ Cardinality(CountedDevs) \in Nat
          /\ Cardinality(CountedDevs \cup {x}) <= Cardinality(CountedDevs) + Cardinality({x})
      BY <3>2, TwoSets
    <3>5. /\ Cardinality(CountedDevs') \in Nat
          /\ Cardinality(CountedDevs') <= Cardinality(CountedDevs \cup {x})
      BY <3>2, Fewer
    <3>6. Cardinality(CountedDevs') <= MaxDev
      BY <1>1, <3>1, <3>3, <3>4, <3>5, Constants
    <3> QED
      BY <1>1, <3>1, <3>6 DEF CountsOK
  <2> QED
    BY <2>1, <2>2
<1>24. RowsOK'
  BY <1>0, <1>1 DEF RowsOK, Own, Raced, InRows, InFiles, MarkWritten, InData, HasPart, Removed, Removing, At
<1>25. DevsOK'
  BY <1>0, <1>1 DEF DevsOK, Raced
<1> QED
  BY <1>2, <1>3, <1>4, <1>5, <1>6, <1>7, <1>8, <1>9, <1>10, <1>11, <1>12, <1>13, <1>14, <1>15, <1>16, <1>17, <1>18, <1>19, <1>21, <1>22, <1>23, <1>24, <1>25, <1>20 DEF IInv, EntriesOK

\* The device files of the open tables are synced.
LEMMA FlushDevKeeps ==
    ASSUME IInv, FlushDev
    PROVE  IInv'
<1>0. /\ ServerTypes /\ TabTypes /\ OpTypes /\ DevOpTypes /\ InsTypes /\ SyncTypes /\ CfgTypes
      /\ DevTypes /\ SyncedTypes /\ DataTypes /\ LogTypes /\ GenTypes /\ PastTypes
      /\ Down /\ OpControl /\ OpenTabs /\ DevControl /\ InsControl /\ SyncControl
      /\ Origins /\ DevOrigins /\ RowOrigins /\ SyncedDevs /\ PartFiles
      /\ EntriesOK /\ NoDevsYet /\ NewDevs /\ NewRows /\ CountsOK /\ RowsOK /\ PartEntry /\ DevsOK
  BY DEF IInv
<1>a. devop.pc = "flush" => /\ devop.tab \in Tables /\ devop.dev \in Devs
                           /\ dev[devop.tab] # NoFile /\ dev[devop.tab] \in SUBSET Items
                           /\ <<devop.tab, gen[devop.tab], devop.dev>> \in Items /\ gen[devop.tab] <= gen[devop.tab]
  BY <1>0, RequestFile
<1>1. /\ Up
      /\ devop.kind = "add"
      /\ devop.pc = "flush"
      /\ devop.tab \in Tables
      /\ devop.dev \in Devs
      /\ synced' \in [Tables -> SUBSET Items]
      /\ \A v \in Tables : tab[v].open => dev[v] # NoFile /\ synced'[v] = dev[v]
      /\ \A v \in Tables : ~tab[v].open => synced'[v] = synced[v]
      /\ <<devop.tab, gen[devop.tab], devop.dev>> \in dev[devop.tab]
      /\ dev[devop.tab] # NoFile /\ dev[devop.tab] \in SUBSET Items /\ <<devop.tab, gen[devop.tab], devop.dev>> \in Items /\ gen[devop.tab] <= gen[devop.tab]
      /\ devs' = devs \cup {<<devop.tab, gen[devop.tab], devop.dev>>}
      /\ raced \subseteq raced'
      /\ raced' \in SUBSET (Races \X Tables)
      /\ ~tab[devop.tab].open => <<"unsynced", devop.tab>> \in raced'
      /\ devop' \in DevStatements
      /\ devop' = NoDevOp
      /\ devop'.pc = "idle"
      /\ devop'.kind = "none"
      /\ devop'.tab = NoFile
      /\ UNCHANGED <<server, tab, codes, op, ins, sync, cfg, dev, data, log, gen, left, acked, deleted, excused, stmts>>
  <2>1. Up
    BY <1>0, BusyIsUp, Constants, <1>a DEF FlushDev, DevControl, OpenTabs, DevTypes, SyncedTypes, Race, Races, PastTypes, DevStep, DevBegins, DevOpTypes, DevStatements, NoDevOp, disk, memory, past, promised, threads
  <2>2. devop.kind = "add"
    BY <1>0, BusyIsUp, Constants, <1>a DEF FlushDev, DevControl, OpenTabs, DevTypes, SyncedTypes, Race, Races, PastTypes, DevStep, DevBegins, DevOpTypes, DevStatements, NoDevOp, disk, memory, past, promised, threads
  <2>3. devop.pc = "flush"
    BY <1>0, BusyIsUp, Constants, <1>a, <2>2 DEF FlushDev, DevControl, OpenTabs, DevTypes, SyncedTypes, Race, Races, PastTypes, DevStep, DevBegins, DevOpTypes, DevStatements, NoDevOp, disk, memory, past, promised, threads
  <2>4. devop.tab \in Tables
    BY <1>0, BusyIsUp, Constants, <1>a, <2>2, <2>3 DEF FlushDev, DevControl, OpenTabs, DevTypes, SyncedTypes, Race, Races, PastTypes, DevStep, DevBegins, DevOpTypes, DevStatements, NoDevOp, disk, memory, past, promised, threads
  <2>5. devop.dev \in Devs
    BY <1>0, BusyIsUp, Constants, <1>a, <2>2, <2>3, <2>4 DEF FlushDev, DevControl, OpenTabs, DevTypes, SyncedTypes, Race, Races, PastTypes, DevStep, DevBegins, DevOpTypes, DevStatements, NoDevOp, disk, memory, past, promised, threads
  <2>6. synced' \in [Tables -> SUBSET Items]
    BY <1>0, BusyIsUp, Constants, <1>a, <2>2, <2>3, <2>4 DEF FlushDev, DevControl, OpenTabs, DevTypes, SyncedTypes, Race, Races, PastTypes, DevStep, DevBegins, DevOpTypes, DevStatements, NoDevOp, disk, memory, past, promised, threads
  <2>7. \A v \in Tables : tab[v].open => dev[v] # NoFile /\ synced'[v] = dev[v]
    BY <1>0, BusyIsUp, Constants, <1>a, <2>2, <2>3, <2>4 DEF FlushDev, DevControl, OpenTabs, DevTypes, SyncedTypes, Race, Races, PastTypes, DevStep, DevBegins, DevOpTypes, DevStatements, NoDevOp, disk, memory, past, promised, threads
  <2>8. \A v \in Tables : ~tab[v].open => synced'[v] = synced[v]
    BY <1>0, BusyIsUp, Constants, <1>a, <2>2, <2>3, <2>4 DEF FlushDev, DevControl, OpenTabs, DevTypes, SyncedTypes, Race, Races, PastTypes, DevStep, DevBegins, DevOpTypes, DevStatements, NoDevOp, disk, memory, past, promised, threads
  <2>9. <<devop.tab, gen[devop.tab], devop.dev>> \in dev[devop.tab]
    BY <1>0, BusyIsUp, Constants, <1>a, <2>2, <2>3, <2>4 DEF FlushDev, DevControl, OpenTabs, DevTypes, SyncedTypes, Race, Races, PastTypes, DevStep, DevBegins, DevOpTypes, DevStatements, NoDevOp, disk, memory, past, promised, threads
  <2>10. dev[devop.tab] # NoFile /\ dev[devop.tab] \in SUBSET Items /\ <<devop.tab, gen[devop.tab], devop.dev>> \in Items /\ gen[devop.tab] <= gen[devop.tab]
    BY <1>0, BusyIsUp, Constants, <1>a, <2>2, <2>3, <2>4 DEF FlushDev, DevControl, OpenTabs, DevTypes, SyncedTypes, Race, Races, PastTypes, DevStep, DevBegins, DevOpTypes, DevStatements, NoDevOp, disk, memory, past, promised, threads
  <2>11. devs' = devs \cup {<<devop.tab, gen[devop.tab], devop.dev>>}
    BY <1>0, BusyIsUp, Constants, <1>a, <2>2, <2>3, <2>4 DEF FlushDev, DevControl, OpenTabs, DevTypes, SyncedTypes, Race, Races, PastTypes, DevStep, DevBegins, DevOpTypes, DevStatements, NoDevOp, disk, memory, past, promised, threads
  <2>12. raced \subseteq raced'
    BY <1>0, BusyIsUp, Constants, <1>a, <2>2, <2>3, <2>4 DEF FlushDev, DevControl, OpenTabs, DevTypes, SyncedTypes, Race, Races, PastTypes, DevStep, DevBegins, DevOpTypes, DevStatements, NoDevOp, disk, memory, past, promised, threads
  <2>13. raced' \in SUBSET (Races \X Tables)
    BY <1>0, <2>4 DEF FlushDev, PastTypes, Race, Races
  <2>14. ~tab[devop.tab].open => <<"unsynced", devop.tab>> \in raced'
    BY <1>0, BusyIsUp, Constants, <1>a, <2>2, <2>3, <2>4 DEF FlushDev, DevControl, OpenTabs, DevTypes, SyncedTypes, Race, Races, PastTypes, DevStep, DevBegins, DevOpTypes, DevStatements, NoDevOp, disk, memory, past, promised, threads
  <2>15. devop' \in DevStatements
    BY <1>0, BusyIsUp, Constants, <1>a, <2>2, <2>3, <2>4 DEF FlushDev, DevControl, OpenTabs, DevTypes, SyncedTypes, Race, Races, PastTypes, DevStep, DevBegins, DevOpTypes, DevStatements, NoDevOp, disk, memory, past, promised, threads
  <2>16. devop' = NoDevOp
    BY <1>0, BusyIsUp, Constants, <1>a, <2>2, <2>3, <2>4 DEF FlushDev, DevControl, OpenTabs, DevTypes, SyncedTypes, Race, Races, PastTypes, DevStep, DevBegins, DevOpTypes, DevStatements, NoDevOp, disk, memory, past, promised, threads
  <2>17. devop'.pc = "idle"
    BY <1>0, BusyIsUp, Constants, <1>a, <2>2, <2>3, <2>4 DEF FlushDev, DevControl, OpenTabs, DevTypes, SyncedTypes, Race, Races, PastTypes, DevStep, DevBegins, DevOpTypes, DevStatements, NoDevOp, disk, memory, past, promised, threads
  <2>18. devop'.kind = "none"
    BY <1>0, BusyIsUp, Constants, <1>a, <2>2, <2>3, <2>4, <2>17 DEF FlushDev, DevControl, OpenTabs, DevTypes, SyncedTypes, Race, Races, PastTypes, DevStep, DevBegins, DevOpTypes, DevStatements, NoDevOp, disk, memory, past, promised, threads
  <2>19. devop'.tab = NoFile
    BY <1>0, BusyIsUp, Constants, <1>a, <2>2, <2>3, <2>4, <2>17, <2>18 DEF FlushDev, DevControl, OpenTabs, DevTypes, SyncedTypes, Race, Races, PastTypes, DevStep, DevBegins, DevOpTypes, DevStatements, NoDevOp, disk, memory, past, promised, threads
  <2>20. UNCHANGED <<server, tab, codes, op, ins, sync, cfg, dev, data, log, gen, left, acked, deleted, excused, stmts>>
    BY <1>0, BusyIsUp, Constants, <1>a, <2>2, <2>3, <2>4, <2>17, <2>18 DEF FlushDev, DevControl, OpenTabs, DevTypes, SyncedTypes, Race, Races, PastTypes, DevStep, DevBegins, DevOpTypes, DevStatements, NoDevOp, disk, memory, past, promised, threads
  <2> QED
    BY <2>1, <2>2, <2>3, <2>4, <2>5, <2>6, <2>7, <2>8, <2>9, <2>10, <2>11, <2>12, <2>13, <2>14, <2>15, <2>16, <2>17, <2>18, <2>19, <2>20
<1>2. ServerTypes' /\ TabTypes' /\ OpTypes'
  BY <1>0, <1>1 DEF ServerTypes, TabTypes, OpTypes
<1>3. InsTypes' /\ SyncTypes' /\ CfgTypes' /\ DevTypes'
  BY <1>0, <1>1 DEF InsTypes, SyncTypes, CfgTypes, DevTypes
<1>4. DataTypes' /\ LogTypes' /\ GenTypes'
  BY <1>0, <1>1 DEF DataTypes, LogTypes, GenTypes
<1>5. OpControl' /\ OpenTabs'
  BY <1>0, <1>1 DEF OpControl, OpenTabs, At, Creating, Removing, Up
<1>6. InsControl' /\ SyncControl'
  BY <1>0, <1>1 DEF InsControl, SyncControl, AtRefs, At
<1>7. RowOrigins'
  BY <1>0, <1>1 DEF RowOrigins
<1>8. PartFiles'
  BY <1>0, <1>1 DEF PartFiles, At
<1>9. DevOpTypes'
  BY <1>0, <1>1 DEF DevOpTypes
<1>10. SyncedTypes'
  BY <1>0, <1>1 DEF SyncedTypes
<1>11. PastTypes'
  BY <1>0, <1>1 DEF PastTypes
<1>12. Down'
  BY <1>0, <1>1 DEF Down, Up
<1>13. DevControl'
  BY <1>0, <1>1 DEF DevControl, AtRefs, At
<1>14. Origins'
  BY <1>0, <1>1 DEF Origins
<1>15. DevOrigins'
  BY <1>0, <1>1 DEF DevOrigins
<1>16. SyncedDevs'
  BY <1>0, <1>1 DEF SyncedDevs
<1>17. ASSUME NEW u \in Tables, ~Raced("failed", u)'
      PROVE  EntryOK(u)' /\ LeftOK(u)'
  <2>1. EntryOK(u) /\ LeftOK(u) /\ ~Raced("failed", u)
    BY <1>0, <1>1, <1>17 DEF EntriesOK, Raced
  <2>2. EntryOK(u)'
    BY <1>1, <2>1 DEF EntryOK, HasPart, Attaching, Creating, Removing, At, Up
  <2>3. LeftOK(u)'
    BY <1>1, <2>1 DEF LeftOK, HasPart, Creating, Removed, Removing, At
  <2> QED
    BY <2>2, <2>3
<1>18. NoDevsYet'
  BY <1>0, <1>1 DEF NoDevsYet, Creating, At, Raced
<1>19. NewDevs'
  BY <1>0, <1>1 DEF NewDevs, Fresh, Raced
<1>20. NewRows'
  BY <1>0, <1>1 DEF NewRows, Fresh, Raced
<1>21. CountsOK'
  <2>1. CountedDevs' \subseteq CountedDevs
    BY <1>0, <1>1 DEF CountedDevs, InDevs
  <2>2. OpenDevs' \subseteq OpenDevs
    BY <1>0, <1>1 DEF OpenDevs, InDevs
  <2> QED
    BY <1>0, <1>1, <2>1, <2>2, CountsShrink
<1>22. ASSUME NEW r \in Records, Own(r)'
      PROVE  InRows(r)' /\ InFiles(r)' /\ MarkWritten(r)'
  <2>1. Own(r) /\ ~Raced("failed", r[1]) /\ InRows(r) /\ InFiles(r) /\ MarkWritten(r) /\ r[1] \in Tables /\ EntryOK(r[1])
    BY <1>0, <1>1, <1>22 DEF RowsOK, Own, Raced, Records, EntriesOK
  <2>2. InRows(r)'
    BY <1>1, <2>1 DEF InRows
  <2>3. InFiles(r)'
    BY <1>1, <2>1 DEF InFiles, InData, HasPart, Removed, Removing, At
  <2>4. MarkWritten(r)'
    BY <1>1, <2>1 DEF MarkWritten, InData, Removed, Removing, At
  <2> QED
    BY <2>2, <2>3, <2>4
<1>23. PartEntry'
  BY <1>0, <1>1 DEF PartEntry, HasPart, AtRefs, At, Raced
<1>24. DevsOK'
  BY <1>0, <1>1 DEF DevsOK, Raced
<1> QED
  BY <1>2, <1>3, <1>4, <1>5, <1>6, <1>7, <1>8, <1>9, <1>10, <1>11, <1>12, <1>13, <1>14, <1>15, <1>16, <1>18, <1>19, <1>20, <1>21, <1>23, <1>24, <1>17, <1>22 DEF IInv, EntriesOK, RowsOK

\* A device is deleted.
LEMMA DelDevKeeps ==
    ASSUME IInv, NEW t \in Tables, NEW d \in Devs, DelDev(t, d)
    PROVE  IInv'
<1>0. /\ ServerTypes /\ TabTypes /\ OpTypes /\ DevOpTypes /\ InsTypes /\ SyncTypes /\ CfgTypes
      /\ DevTypes /\ SyncedTypes /\ DataTypes /\ LogTypes /\ GenTypes /\ PastTypes
      /\ Down /\ OpControl /\ OpenTabs /\ DevControl /\ InsControl /\ SyncControl
      /\ Origins /\ DevOrigins /\ RowOrigins /\ SyncedDevs /\ PartFiles
      /\ EntriesOK /\ NoDevsYet /\ NewDevs /\ NewRows /\ CountsOK /\ RowsOK /\ PartEntry /\ DevsOK
  BY DEF IInv
<1>1. /\ Up
      /\ devop.pc = "idle"
      /\ devop.kind = "none"
      /\ stmts' = stmts + 1
      /\ stmts < MaxStmts
      /\ tab[t].open
      /\ dev[t] # NoFile
      /\ dev[t] \in SUBSET Items
      /\ dev' \in [Tables -> {NoFile} \cup SUBSET Items]
      /\ dev'[t] = {x \in dev[t] : x[3] # d}
      /\ \A v \in Tables : v # t => dev'[v] = dev[v]
      /\ \A v \in Tables : dev'[v] = NoFile <=> dev[v] = NoFile
      /\ devs' = {x \in devs : x[1] # t \/ x[3] # d}
      /\ devop' \in DevStatements
      /\ devop'.kind = "delete"
      /\ devop'.tab = t
      /\ devop'.dev = d
      /\ devop'.pc = "flush"
      /\ UNCHANGED <<server, tab, codes, op, ins, sync, cfg, synced, data, log, gen, left, acked, deleted, excused, raced>>
  <2>1. Up
    BY <1>0, Constants DEF DelDev, DevControl, OpenTabs, DevTypes, Deleted, Up, disk, memory, past, promised, threads, DevStep, DevBegins, DevOpTypes, DevStatements, NoDevOp
  <2>2. devop.pc = "idle"
    BY <1>0, Constants DEF DelDev, DevControl, OpenTabs, DevTypes, Deleted, Up, disk, memory, past, promised, threads, DevStep, DevBegins, DevOpTypes, DevStatements, NoDevOp
  <2>3. devop.kind = "none"
    BY <1>0, Constants, <2>2 DEF DelDev, DevControl, OpenTabs, DevTypes, Deleted, Up, disk, memory, past, promised, threads, DevStep, DevBegins, DevOpTypes, DevStatements, NoDevOp
  <2>4. stmts' = stmts + 1
    BY <1>0, Constants, <2>2, <2>3 DEF DelDev, DevControl, OpenTabs, DevTypes, Deleted, Up, disk, memory, past, promised, threads, DevStep, DevBegins, DevOpTypes, DevStatements, NoDevOp
  <2>5. stmts < MaxStmts
    BY <1>0, Constants, <2>2, <2>3 DEF DelDev, DevControl, OpenTabs, DevTypes, Deleted, Up, disk, memory, past, promised, threads, DevStep, DevBegins, DevOpTypes, DevStatements, NoDevOp
  <2>6. tab[t].open
    BY <1>0, Constants, <2>2, <2>3 DEF DelDev, DevControl, OpenTabs, DevTypes, Deleted, Up, disk, memory, past, promised, threads, DevStep, DevBegins, DevOpTypes, DevStatements, NoDevOp
  <2>7. dev[t] # NoFile
    BY <1>0, Constants, <2>2, <2>3 DEF DelDev, DevControl, OpenTabs, DevTypes, Deleted, Up, disk, memory, past, promised, threads, DevStep, DevBegins, DevOpTypes, DevStatements, NoDevOp
  <2>8. dev[t] \in SUBSET Items
    BY <1>0, Constants, <2>2, <2>3 DEF DelDev, DevControl, OpenTabs, DevTypes, Deleted, Up, disk, memory, past, promised, threads, DevStep, DevBegins, DevOpTypes, DevStatements, NoDevOp
  <2>9. dev' \in [Tables -> {NoFile} \cup SUBSET Items]
    BY <1>0, Constants, <2>2, <2>3 DEF DelDev, DevControl, OpenTabs, DevTypes, Deleted, Up, disk, memory, past, promised, threads, DevStep, DevBegins, DevOpTypes, DevStatements, NoDevOp
  <2>10. dev'[t] = {x \in dev[t] : x[3] # d}
    BY <1>0, Constants, <2>2, <2>3 DEF DelDev, DevControl, OpenTabs, DevTypes, Deleted, Up, disk, memory, past, promised, threads, DevStep, DevBegins, DevOpTypes, DevStatements, NoDevOp
  <2>11. \A v \in Tables : v # t => dev'[v] = dev[v]
    BY <1>0, Constants, <2>2, <2>3 DEF DelDev, DevControl, OpenTabs, DevTypes, Deleted, Up, disk, memory, past, promised, threads, DevStep, DevBegins, DevOpTypes, DevStatements, NoDevOp
  <2>12. \A v \in Tables : dev'[v] = NoFile <=> dev[v] = NoFile
    BY <1>0, Constants, <2>2, <2>3 DEF DelDev, DevControl, OpenTabs, DevTypes, Deleted, Up, disk, memory, past, promised, threads, DevStep, DevBegins, DevOpTypes, DevStatements, NoDevOp
  <2>13. devs' = {x \in devs : x[1] # t \/ x[3] # d}
    BY <1>0, Constants, <2>2, <2>3 DEF DelDev, DevControl, OpenTabs, DevTypes, Deleted, Up, disk, memory, past, promised, threads, DevStep, DevBegins, DevOpTypes, DevStatements, NoDevOp
  <2>14. devop' \in DevStatements
    BY <1>0, Constants, <2>2, <2>3 DEF DelDev, DevControl, OpenTabs, DevTypes, Deleted, Up, disk, memory, past, promised, threads, DevStep, DevBegins, DevOpTypes, DevStatements, NoDevOp
  <2>15. devop'.kind = "delete"
    BY <1>0, Constants, <2>2, <2>3 DEF DelDev, DevControl, OpenTabs, DevTypes, Deleted, Up, disk, memory, past, promised, threads, DevStep, DevBegins, DevOpTypes, DevStatements, NoDevOp
  <2>16. devop'.tab = t
    BY <1>0, Constants, <2>2, <2>3, <2>15 DEF DelDev, DevControl, OpenTabs, DevTypes, Deleted, Up, disk, memory, past, promised, threads, DevStep, DevBegins, DevOpTypes, DevStatements, NoDevOp
  <2>17. devop'.dev = d
    BY <1>0, Constants, <2>2, <2>3, <2>15 DEF DelDev, DevControl, OpenTabs, DevTypes, Deleted, Up, disk, memory, past, promised, threads, DevStep, DevBegins, DevOpTypes, DevStatements, NoDevOp
  <2>18. devop'.pc = "flush"
    BY <1>0, Constants, <2>2, <2>3, <2>15 DEF DelDev, DevControl, OpenTabs, DevTypes, Deleted, Up, disk, memory, past, promised, threads, DevStep, DevBegins, DevOpTypes, DevStatements, NoDevOp
  <2>19. UNCHANGED <<server, tab, codes, op, ins, sync, cfg, synced, data, log, gen, left, acked, deleted, excused, raced>>
    BY <1>0, Constants, <2>2, <2>3, <2>15, <2>18 DEF DelDev, DevControl, OpenTabs, DevTypes, Deleted, Up, disk, memory, past, promised, threads, DevStep, DevBegins, DevOpTypes, DevStatements, NoDevOp
  <2> QED
    BY <2>1, <2>2, <2>3, <2>4, <2>5, <2>6, <2>7, <2>8, <2>9, <2>10, <2>11, <2>12, <2>13, <2>14, <2>15, <2>16, <2>17, <2>18, <2>19
<1>2. TabTypes' /\ OpTypes'
  BY <1>0, <1>1 DEF TabTypes, OpTypes
<1>3. InsTypes' /\ SyncTypes' /\ CfgTypes'
  BY <1>0, <1>1 DEF InsTypes, SyncTypes, CfgTypes
<1>4. SyncedTypes' /\ DataTypes' /\ LogTypes'
  BY <1>0, <1>1 DEF SyncedTypes, DataTypes, LogTypes
<1>5. OpControl'
  BY <1>0, <1>1 DEF OpControl
<1>6. InsControl' /\ SyncControl'
  BY <1>0, <1>1 DEF InsControl, SyncControl, AtRefs, At
<1>7. RowOrigins'
  BY <1>0, <1>1 DEF RowOrigins
<1>8. PartFiles'
  BY <1>0, <1>1 DEF PartFiles, At
<1>9. NewRows'
  BY <1>0, <1>1 DEF NewRows, Fresh, Raced
<1>10. PartEntry'
  BY <1>0, <1>1 DEF PartEntry, HasPart, AtRefs, At, Raced
<1>11. ServerTypes'
  BY <1>0, <1>1, Constants DEF ServerTypes
<1>12. DevOpTypes'
  BY <1>0, <1>1 DEF DevOpTypes
<1>13. DevTypes'
  BY <1>0, <1>1 DEF DevTypes
<1>14. GenTypes'
  BY <1>0, <1>1, Constants DEF GenTypes, Gens, ServerTypes
<1>15. PastTypes'
  BY <1>0, <1>1 DEF PastTypes
<1>16. Down'
  BY <1>0, <1>1 DEF Down, Up
<1>17. OpenTabs'
  BY <1>0, <1>1 DEF OpenTabs, At, Creating, Removing, Up
<1>18. DevControl'
  BY <1>0, <1>1 DEF DevControl, AtRefs, At
<1>19. Origins'
  BY <1>0, <1>1 DEF Origins
<1>20. DevOrigins'
  BY <1>0, <1>1 DEF DevOrigins
<1>21. SyncedDevs'
  BY <1>0, <1>1 DEF SyncedDevs
<1>22. ASSUME NEW u \in Tables, ~Raced("failed", u)'
      PROVE  EntryOK(u)' /\ LeftOK(u)'
  <2>1. EntryOK(u) /\ LeftOK(u) /\ ~Raced("failed", u)
    BY <1>0, <1>1, <1>22 DEF EntriesOK, Raced
  <2>2. EntryOK(u)'
    BY <1>0, <1>1, <2>1 DEF EntryOK, HasPart, Attaching, Creating, Removing, At, Up
  <2>3. LeftOK(u)'
    BY <1>0, <1>1, <2>1 DEF LeftOK, HasPart, Creating, Removed, Removing, At
  <2> QED
    BY <2>2, <2>3
<1>23. NoDevsYet'
  BY <1>0, <1>1 DEF NoDevsYet, Creating, At, Raced
<1>24. NewDevs'
  BY <1>0, <1>1 DEF NewDevs, Fresh, Raced
<1>25. CountsOK'
  <2>1. CountedDevs' \subseteq CountedDevs
    BY <1>0, <1>1 DEF CountedDevs, InDevs
  <2>2. OpenDevs' \subseteq OpenDevs
    BY <1>0, <1>1 DEF OpenDevs, InDevs
  <2> QED
    BY <1>0, <1>1, <2>1, <2>2, CountsShrink
<1>26. RowsOK'
  BY <1>0, <1>1 DEF RowsOK, Own, Raced, InRows, InFiles, MarkWritten, InData, HasPart, Removed, Removing, At
<1>27. DevsOK'
  BY <1>0, <1>1 DEF DevsOK, Raced
<1> QED
  BY <1>2, <1>3, <1>4, <1>5, <1>6, <1>7, <1>8, <1>9, <1>10, <1>11, <1>12, <1>13, <1>14, <1>15, <1>16, <1>17, <1>18, <1>19, <1>20, <1>21, <1>23, <1>24, <1>25, <1>26, <1>27, <1>22 DEF IInv, EntriesOK

\* The device file of a deleted device is synced.
LEMMA FlushKeeps ==
    ASSUME IInv, Flush
    PROVE  IInv'
<1>0. /\ ServerTypes /\ TabTypes /\ OpTypes /\ DevOpTypes /\ InsTypes /\ SyncTypes /\ CfgTypes
      /\ DevTypes /\ SyncedTypes /\ DataTypes /\ LogTypes /\ GenTypes /\ PastTypes
      /\ Down /\ OpControl /\ OpenTabs /\ DevControl /\ InsControl /\ SyncControl
      /\ Origins /\ DevOrigins /\ RowOrigins /\ SyncedDevs /\ PartFiles
      /\ EntriesOK /\ NoDevsYet /\ NewDevs /\ NewRows /\ CountsOK /\ RowsOK /\ PartEntry /\ DevsOK
  BY DEF IInv
<1>a. devop.pc = "flush" => /\ devop.tab \in Tables /\ devop.dev \in Devs
                           /\ dev[devop.tab] # NoFile /\ dev[devop.tab] \in SUBSET Items
                           /\ <<devop.tab, gen[devop.tab], devop.dev>> \in Items /\ gen[devop.tab] <= gen[devop.tab]
  BY <1>0, RequestFile
<1>1. /\ Up
      /\ devop.kind = "delete"
      /\ devop.pc = "flush"
      /\ devop.tab \in Tables
      /\ devop.dev \in Devs
      /\ dev[devop.tab] # NoFile /\ dev[devop.tab] \in SUBSET Items /\ <<devop.tab, gen[devop.tab], devop.dev>> \in Items /\ gen[devop.tab] <= gen[devop.tab]
      /\ \A x \in dev[devop.tab] : x[3] # devop.dev
      /\ synced' \in [Tables -> SUBSET Items]
      /\ synced'[devop.tab] = dev[devop.tab]
      /\ \A v \in Tables : v # devop.tab => synced'[v] = synced[v]
      /\ deleted' = deleted \cup {<<devop.tab, gen[devop.tab], devop.dev>>}
      /\ devop' \in DevStatements
      /\ devop' = NoDevOp
      /\ devop'.pc = "idle"
      /\ devop'.kind = "none"
      /\ devop'.tab = NoFile
      /\ UNCHANGED <<server, tab, codes, op, ins, sync, cfg, dev, data, log, gen, left, acked, devs, excused, raced, stmts>>
  <2>1. Up
    BY <1>0, BusyIsUp, Constants, <1>a DEF Flush, DevControl, OpenTabs, DevTypes, SyncedTypes, DevStep, DevBegins, DevOpTypes, DevStatements, NoDevOp, disk, memory, past, promised, threads
  <2>2. devop.kind = "delete"
    BY <1>0, BusyIsUp, Constants, <1>a DEF Flush, DevControl, OpenTabs, DevTypes, SyncedTypes, DevStep, DevBegins, DevOpTypes, DevStatements, NoDevOp, disk, memory, past, promised, threads
  <2>3. devop.pc = "flush"
    BY <1>0, BusyIsUp, Constants, <1>a, <2>2 DEF Flush, DevControl, OpenTabs, DevTypes, SyncedTypes, DevStep, DevBegins, DevOpTypes, DevStatements, NoDevOp, disk, memory, past, promised, threads
  <2>4. devop.tab \in Tables
    BY <1>0, BusyIsUp, Constants, <1>a, <2>2, <2>3 DEF Flush, DevControl, OpenTabs, DevTypes, SyncedTypes, DevStep, DevBegins, DevOpTypes, DevStatements, NoDevOp, disk, memory, past, promised, threads
  <2>5. devop.dev \in Devs
    BY <1>0, BusyIsUp, Constants, <1>a, <2>2, <2>3, <2>4 DEF Flush, DevControl, OpenTabs, DevTypes, SyncedTypes, DevStep, DevBegins, DevOpTypes, DevStatements, NoDevOp, disk, memory, past, promised, threads
  <2>6. dev[devop.tab] # NoFile /\ dev[devop.tab] \in SUBSET Items /\ <<devop.tab, gen[devop.tab], devop.dev>> \in Items /\ gen[devop.tab] <= gen[devop.tab]
    BY <1>0, BusyIsUp, Constants, <1>a, <2>2, <2>3, <2>4 DEF Flush, DevControl, OpenTabs, DevTypes, SyncedTypes, DevStep, DevBegins, DevOpTypes, DevStatements, NoDevOp, disk, memory, past, promised, threads
  <2>7. \A x \in dev[devop.tab] : x[3] # devop.dev
    BY <1>0, BusyIsUp, Constants, <1>a, <2>2, <2>3, <2>4 DEF Flush, DevControl, OpenTabs, DevTypes, SyncedTypes, DevStep, DevBegins, DevOpTypes, DevStatements, NoDevOp, disk, memory, past, promised, threads
  <2>8. synced' \in [Tables -> SUBSET Items]
    BY <1>0, BusyIsUp, Constants, <1>a, <2>2, <2>3, <2>4 DEF Flush, DevControl, OpenTabs, DevTypes, SyncedTypes, DevStep, DevBegins, DevOpTypes, DevStatements, NoDevOp, disk, memory, past, promised, threads
  <2>9. synced'[devop.tab] = dev[devop.tab]
    BY <1>0, BusyIsUp, Constants, <1>a, <2>2, <2>3, <2>4 DEF Flush, DevControl, OpenTabs, DevTypes, SyncedTypes, DevStep, DevBegins, DevOpTypes, DevStatements, NoDevOp, disk, memory, past, promised, threads
  <2>10. \A v \in Tables : v # devop.tab => synced'[v] = synced[v]
    BY <1>0, BusyIsUp, Constants, <1>a, <2>2, <2>3, <2>4 DEF Flush, DevControl, OpenTabs, DevTypes, SyncedTypes, DevStep, DevBegins, DevOpTypes, DevStatements, NoDevOp, disk, memory, past, promised, threads
  <2>11. deleted' = deleted \cup {<<devop.tab, gen[devop.tab], devop.dev>>}
    BY <1>0, BusyIsUp, Constants, <1>a, <2>2, <2>3, <2>4 DEF Flush, DevControl, OpenTabs, DevTypes, SyncedTypes, DevStep, DevBegins, DevOpTypes, DevStatements, NoDevOp, disk, memory, past, promised, threads
  <2>12. devop' \in DevStatements
    BY <1>0, BusyIsUp, Constants, <1>a, <2>2, <2>3, <2>4 DEF Flush, DevControl, OpenTabs, DevTypes, SyncedTypes, DevStep, DevBegins, DevOpTypes, DevStatements, NoDevOp, disk, memory, past, promised, threads
  <2>13. devop' = NoDevOp
    BY <1>0, BusyIsUp, Constants, <1>a, <2>2, <2>3, <2>4 DEF Flush, DevControl, OpenTabs, DevTypes, SyncedTypes, DevStep, DevBegins, DevOpTypes, DevStatements, NoDevOp, disk, memory, past, promised, threads
  <2>14. devop'.pc = "idle"
    BY <1>0, BusyIsUp, Constants, <1>a, <2>2, <2>3, <2>4 DEF Flush, DevControl, OpenTabs, DevTypes, SyncedTypes, DevStep, DevBegins, DevOpTypes, DevStatements, NoDevOp, disk, memory, past, promised, threads
  <2>15. devop'.kind = "none"
    BY <1>0, BusyIsUp, Constants, <1>a, <2>2, <2>3, <2>4, <2>14 DEF Flush, DevControl, OpenTabs, DevTypes, SyncedTypes, DevStep, DevBegins, DevOpTypes, DevStatements, NoDevOp, disk, memory, past, promised, threads
  <2>16. devop'.tab = NoFile
    BY <1>0, BusyIsUp, Constants, <1>a, <2>2, <2>3, <2>4, <2>14, <2>15 DEF Flush, DevControl, OpenTabs, DevTypes, SyncedTypes, DevStep, DevBegins, DevOpTypes, DevStatements, NoDevOp, disk, memory, past, promised, threads
  <2>17. UNCHANGED <<server, tab, codes, op, ins, sync, cfg, dev, data, log, gen, left, acked, devs, excused, raced, stmts>>
    BY <1>0, BusyIsUp, Constants, <1>a, <2>2, <2>3, <2>4, <2>14, <2>15 DEF Flush, DevControl, OpenTabs, DevTypes, SyncedTypes, DevStep, DevBegins, DevOpTypes, DevStatements, NoDevOp, disk, memory, past, promised, threads
  <2> QED
    BY <2>1, <2>2, <2>3, <2>4, <2>5, <2>6, <2>7, <2>8, <2>9, <2>10, <2>11, <2>12, <2>13, <2>14, <2>15, <2>16, <2>17
<1>2. ServerTypes' /\ TabTypes' /\ OpTypes'
  BY <1>0, <1>1 DEF ServerTypes, TabTypes, OpTypes
<1>3. InsTypes' /\ SyncTypes' /\ CfgTypes' /\ DevTypes'
  BY <1>0, <1>1 DEF InsTypes, SyncTypes, CfgTypes, DevTypes
<1>4. DataTypes' /\ LogTypes' /\ GenTypes'
  BY <1>0, <1>1 DEF DataTypes, LogTypes, GenTypes
<1>5. OpControl' /\ OpenTabs'
  BY <1>0, <1>1 DEF OpControl, OpenTabs, At, Creating, Removing, Up
<1>6. InsControl' /\ SyncControl'
  BY <1>0, <1>1 DEF InsControl, SyncControl, AtRefs, At
<1>7. RowOrigins'
  BY <1>0, <1>1 DEF RowOrigins
<1>8. PartFiles'
  BY <1>0, <1>1 DEF PartFiles, At
<1>9. NoDevsYet' /\ NewRows'
  BY <1>0, <1>1 DEF NoDevsYet, NewRows, Creating, At, Raced, Fresh
<1>10. PartEntry'
  BY <1>0, <1>1 DEF PartEntry, HasPart, AtRefs, At, Raced
<1>11. DevOpTypes'
  BY <1>0, <1>1 DEF DevOpTypes
<1>12. SyncedTypes'
  BY <1>0, <1>1 DEF SyncedTypes
<1>13. PastTypes'
  BY <1>0, <1>1 DEF PastTypes
<1>14. Down'
  BY <1>0, <1>1 DEF Down, Up
<1>15. DevControl'
  BY <1>0, <1>1 DEF DevControl, AtRefs, At
<1>16. Origins'
  BY <1>0, <1>1 DEF Origins
<1>17. DevOrigins'
  BY <1>0, <1>1 DEF DevOrigins
<1>18. SyncedDevs'
  BY <1>0, <1>1 DEF SyncedDevs
<1>19. EntriesOK'
  BY <1>0, <1>1 DEF EntriesOK, Raced, EntryOK, LeftOK, HasPart, Attaching, Creating, Removing, At, Up, Removed
<1>20. NewDevs'
  BY <1>0, <1>1 DEF NewDevs, Fresh, Raced
<1>21. CountsOK'
  <2>1. CountedDevs' \subseteq CountedDevs
    BY <1>0, <1>1 DEF CountedDevs, InDevs
  <2>2. OpenDevs' \subseteq OpenDevs
    BY <1>0, <1>1 DEF OpenDevs, InDevs
  <2> QED
    BY <1>0, <1>1, <2>1, <2>2, CountsShrink
<1>22. RowsOK'
  BY <1>0, <1>1 DEF RowsOK, Own, Raced, InRows, InFiles, MarkWritten, InData, HasPart, Removed, Removing, At
<1>23. DevsOK'
  BY <1>0, <1>1 DEF DevsOK, Raced
<1> QED
  BY <1>2, <1>3, <1>4, <1>5, <1>6, <1>7, <1>8, <1>9, <1>10, <1>11, <1>12, <1>13, <1>14, <1>15, <1>16, <1>17, <1>18, <1>19, <1>20, <1>21, <1>22, <1>23 DEF IInv

\* An insert finds its part.
LEMMA InsertOldKeeps ==
    ASSUME IInv, NEW t \in Tables, Insert(t), tab[t].part
    PROVE  IInv'
<1>0. /\ ServerTypes /\ TabTypes /\ OpTypes /\ DevOpTypes /\ InsTypes /\ SyncTypes /\ CfgTypes
      /\ DevTypes /\ SyncedTypes /\ DataTypes /\ LogTypes /\ GenTypes /\ PastTypes
      /\ Down /\ OpControl /\ OpenTabs /\ DevControl /\ InsControl /\ SyncControl
      /\ Origins /\ DevOrigins /\ RowOrigins /\ SyncedDevs /\ PartFiles
      /\ EntriesOK /\ NoDevsYet /\ NewDevs /\ NewRows /\ CountsOK /\ RowsOK /\ PartEntry /\ DevsOK
  BY DEF IInv
<1>1. /\ Up
      /\ ins.pc = "idle"
      /\ tab[t].open
      /\ tab[t].part
      /\ <<t, gen[t]>> \in Records
      /\ <<t, gen[t]>> \notin acked /\ <<t, gen[t]>> \notin log
      /\ ins' \in Inserts
      /\ ins'.tab = t
      /\ ins'.rec = <<t, gen[t]>>
      /\ ins'.pc = "log"
      /\ UNCHANGED <<server, tab, codes, op, devop, sync, cfg, dev, synced, data, log, gen, left, acked, devs, deleted, excused, raced, stmts>>
  <2>1. UNCHANGED <<cfg, data, raced>> /\ tab' = [tab EXCEPT ![t].part = TRUE]
      BY Zenon DEF Insert
    <2>2. tab' = tab
      BY <1>0, <2>1 DEF TabTypes, Handle
    <2>3. <<t, gen[t]>> \in Records
      BY <1>0 DEF Records, GenTypes
    <2>4. Up /\ ins.pc = "idle" /\ tab[t].open /\ tab[t].part /\ <<t, gen[t]>> \notin acked \cup log
      BY DEF Insert
    <2>5. InsStep([tab |-> t, rec |-> <<t, gen[t]>>, pc |-> "log"]) /\ UNCHANGED <<log, acked>>
      BY DEF Insert
    <2> QED
      BY <2>1, <2>2, <2>3, <2>4, <2>5 DEF InsStep, Inserts
<1>2. ServerTypes' /\ TabTypes' /\ OpTypes' /\ DevOpTypes'
  BY <1>0, <1>1 DEF ServerTypes, TabTypes, OpTypes, DevOpTypes
<1>3. SyncTypes' /\ CfgTypes' /\ DevTypes'
  BY <1>0, <1>1 DEF SyncTypes, CfgTypes, DevTypes
<1>4. SyncedTypes' /\ DataTypes' /\ LogTypes' /\ GenTypes' /\ PastTypes'
  BY <1>0, <1>1 DEF SyncedTypes, DataTypes, LogTypes, GenTypes, PastTypes
<1>5. OpControl' /\ OpenTabs'
  BY <1>0, <1>1 DEF OpControl, OpenTabs, At, Creating, Removing, Up
<1>6. DevControl' /\ SyncControl'
  BY <1>0, <1>1 DEF DevControl, SyncControl, AtRefs, At
<1>7. Origins' /\ DevOrigins' /\ RowOrigins'
  BY <1>0, <1>1 DEF Origins, DevOrigins, RowOrigins
<1>8. SyncedDevs' /\ PartFiles'
  BY <1>0, <1>1 DEF SyncedDevs, PartFiles, At
<1>9. NoDevsYet' /\ NewDevs' /\ NewRows'
  BY <1>0, <1>1 DEF NoDevsYet, NewDevs, NewRows, Creating, At, Raced, Fresh
<1>10. PartEntry' /\ DevsOK'
  BY <1>0, <1>1 DEF PartEntry, DevsOK, HasPart, AtRefs, At, Raced
<1>11. CountsOK'
  BY <1>0, <1>1 DEF CountsOK, Overcounted, Raced, CountedDevs, OpenDevs, InDevs
<1>12. InsTypes'
  BY <1>0, <1>1 DEF InsTypes
<1>13. Down'
  BY <1>0, <1>1 DEF Down, Up
<1>14. InsControl'
  BY <1>0, <1>1 DEF InsControl, AtRefs, At
<1>15. EntriesOK'
  BY <1>0, <1>1 DEF EntriesOK, Raced, EntryOK, LeftOK, HasPart, Attaching, Creating, Removing, At, Up, Removed
<1>16. RowsOK'
  BY <1>0, <1>1 DEF RowsOK, Own, Raced, InRows, InFiles, MarkWritten, InData, HasPart, Removed, Removing, At
<1> QED
  BY <1>2, <1>3, <1>4, <1>5, <1>6, <1>7, <1>8, <1>9, <1>10, <1>11, <1>12, <1>13, <1>14, <1>15, <1>16 DEF IInv

\* An insert creates its part.
LEMMA InsertNewKeeps ==
    ASSUME IInv, NEW t \in Tables, Insert(t), ~tab[t].part
    PROVE  IInv'
<1>0. /\ ServerTypes /\ TabTypes /\ OpTypes /\ DevOpTypes /\ InsTypes /\ SyncTypes /\ CfgTypes
      /\ DevTypes /\ SyncedTypes /\ DataTypes /\ LogTypes /\ GenTypes /\ PastTypes
      /\ Down /\ OpControl /\ OpenTabs /\ DevControl /\ InsControl /\ SyncControl
      /\ Origins /\ DevOrigins /\ RowOrigins /\ SyncedDevs /\ PartFiles
      /\ EntriesOK /\ NoDevsYet /\ NewDevs /\ NewRows /\ CountsOK /\ RowsOK /\ PartEntry /\ DevsOK
  BY DEF IInv
<1>a. /\ data' = [data EXCEPT ![t] = {}]
      /\ cfg' = [cfg EXCEPT ![t] = IF @ = <<>> THEN @ ELSE <<TRUE>> \o Tail(@)]
      /\ raced' = raced \cup Race("part", t, cfg[t] = <<>>)
  BY Zenon DEF Insert
<1>b. tab' = [tab EXCEPT ![t].part = TRUE]
  BY DEF Insert
<1>1. /\ Up
      /\ ins.pc = "idle"
      /\ tab[t].open
      /\ ~tab[t].part
      /\ data[t] = NoFile
      /\ <<t, gen[t]>> \in Records
      /\ <<t, gen[t]>> \notin acked /\ <<t, gen[t]>> \notin log
      /\ tab' \in [Tables -> Handle]
      /\ tab'[t].open /\ tab'[t].part /\ tab'[t].rows = tab[t].rows
      /\ \A v \in Tables : v # t => tab'[v] = tab[v]
      /\ data'[t] = {} /\ data'[t] # NoFile
      /\ \A v \in Tables : v # t => data'[v] = data[v]
      /\ data' \in [Tables -> {NoFile} \cup SUBSET Records]
      /\ \A v \in Tables : v # t => cfg'[v] = cfg[v]
      /\ cfg'[t] \in Seq(BOOLEAN) /\ (cfg[t] = <<>> => cfg'[t] = <<>>) /\ (cfg[t] # <<>> => cfg'[t] # <<>> /\ cfg'[t][1] /\ Len(cfg'[t]) = Len(cfg[t]))
      /\ cfg' \in [Tables -> Seq(BOOLEAN)]
      /\ raced \subseteq raced'
      /\ raced' \in SUBSET (Races \X Tables)
      /\ cfg[t] = <<>> => <<"part", t>> \in raced'
      /\ ins' \in Inserts
      /\ ins'.tab = t
      /\ ins'.rec = <<t, gen[t]>>
      /\ ins'.pc = "log"
      /\ UNCHANGED <<server, codes, op, devop, sync, dev, synced, log, gen, left, acked, devs, deleted, excused, stmts>>
  <2>1. Up
    BY <1>0 DEF Insert, Up, Records, GenTypes, disk, memory, past, promised, threads, InsStep, InsTypes, Inserts, NoIns, InsControl
  <2>2. ins.pc = "idle"
    BY <1>0 DEF Insert, Up, Records, GenTypes, disk, memory, past, promised, threads, InsStep, InsTypes, Inserts, NoIns, InsControl
  <2>3. tab[t].open
    BY <1>0, <2>2 DEF Insert, Up, Records, GenTypes, disk, memory, past, promised, threads, InsStep, InsTypes, Inserts, NoIns, InsControl
  <2>4. ~tab[t].part
    BY <1>0, <2>2 DEF Insert, Up, Records, GenTypes, disk, memory, past, promised, threads, InsStep, InsTypes, Inserts, NoIns, InsControl
  <2>5. data[t] = NoFile
    BY <1>0, <2>2 DEF Insert, Up, Records, GenTypes, disk, memory, past, promised, threads, InsStep, InsTypes, Inserts, NoIns, InsControl
  <2>6. <<t, gen[t]>> \in Records
    BY <1>0, <2>2 DEF Insert, Up, Records, GenTypes, disk, memory, past, promised, threads, InsStep, InsTypes, Inserts, NoIns, InsControl
  <2>7. <<t, gen[t]>> \notin acked /\ <<t, gen[t]>> \notin log
    BY <1>0, <2>2 DEF Insert, Up, Records, GenTypes, disk, memory, past, promised, threads, InsStep, InsTypes, Inserts, NoIns, InsControl
  <2>8. tab' \in [Tables -> Handle]
    BY <1>0, <1>b DEF TabTypes, Handle
  <2>9. tab'[t].open /\ tab'[t].part /\ tab'[t].rows = tab[t].rows
    BY <1>0, <2>3, <1>b DEF TabTypes, Handle
  <2>10. \A v \in Tables : v # t => tab'[v] = tab[v]
    BY <1>0, <1>b DEF TabTypes
  <2>11. data'[t] = {} /\ data'[t] # NoFile
    BY <1>0, <1>a, Constants DEF DataTypes
  <2>12. \A v \in Tables : v # t => data'[v] = data[v]
    BY <1>0, <1>a DEF DataTypes
  <2>13. data' \in [Tables -> {NoFile} \cup SUBSET Records]
    BY <1>0, <1>a DEF DataTypes
  <2>14. \A v \in Tables : v # t => cfg'[v] = cfg[v]
    BY <1>0, <1>a DEF CfgTypes
  <2>15. cfg'[t] \in Seq(BOOLEAN) /\ (cfg[t] = <<>> => cfg'[t] = <<>>) /\ (cfg[t] # <<>> => cfg'[t] # <<>> /\ cfg'[t][1] /\ Len(cfg'[t]) = Len(cfg[t]))
    <3>1. cfg[t] \in Seq(BOOLEAN) /\ cfg'[t] = (IF cfg[t] = <<>> THEN cfg[t] ELSE <<TRUE>> \o Tail(cfg[t]))
      BY <1>0, <1>a DEF CfgTypes
    <3> QED
      BY <3>1, Entered
  <2>16. cfg' \in [Tables -> Seq(BOOLEAN)]
    BY <1>0, <1>a, <2>14, <2>15 DEF CfgTypes
  <2>17. raced \subseteq raced'
    BY <1>a
  <2>18. raced' \in SUBSET (Races \X Tables)
    BY <1>0, <1>a DEF PastTypes, Race, Races
  <2>19. cfg[t] = <<>> => <<"part", t>> \in raced'
    BY <1>a DEF Race
  <2>20. ins' \in Inserts
    BY <1>0, <2>2 DEF Insert, Up, Records, GenTypes, disk, memory, past, promised, threads, InsStep, InsTypes, Inserts, NoIns, InsControl
  <2>21. ins'.tab = t
    BY <1>0, <2>2 DEF Insert, Up, Records, GenTypes, disk, memory, past, promised, threads, InsStep, InsTypes, Inserts, NoIns, InsControl
  <2>22. ins'.rec = <<t, gen[t]>>
    BY <1>0, <2>2 DEF Insert, Up, Records, GenTypes, disk, memory, past, promised, threads, InsStep, InsTypes, Inserts, NoIns, InsControl
  <2>23. ins'.pc = "log"
    BY <1>0, <2>2 DEF Insert, Up, Records, GenTypes, disk, memory, past, promised, threads, InsStep, InsTypes, Inserts, NoIns, InsControl
  <2>24. UNCHANGED <<server, codes, op, devop, sync, dev, synced, log, gen, left, acked, devs, deleted, excused, stmts>>
    BY <1>0, <2>2, <2>23 DEF Insert, Up, Records, GenTypes, disk, memory, past, promised, threads, InsStep, InsTypes, Inserts, NoIns, InsControl
  <2> QED
    BY <2>1, <2>2, <2>3, <2>4, <2>5, <2>6, <2>7, <2>8, <2>9, <2>10, <2>11, <2>12, <2>13, <2>14, <2>15, <2>16, <2>17, <2>18, <2>19, <2>20, <2>21, <2>22, <2>23, <2>24
<1>2. ~Removing(t) /\ ~AtRefs(t) /\ ~Removed(t) /\ ~(At(t) /\ op.pc = "device file")
  BY <1>0, <1>1 DEF OpenTabs, At, Removing, AtRefs, Removed
<1>3. ~Raced("failed", t) => \A r \in Records : r[1] = t => ~Own(r)
  BY <1>0, <1>1, <1>2 DEF RowsOK, InFiles, InData, EntriesOK, EntryOK, HasPart
<1>4. ~Raced("failed", t) /\ cfg[t] = <<>> => t \in left
  BY <1>0, <1>1, <1>2 DEF EntriesOK, LeftOK, EntryOK, Creating, Attaching, OpenTabs
<1>5. /\ tab[t].open /\ tab'[t].open /\ tab'[t].rows = tab[t].rows /\ data'[t] = {} /\ data'[t] # NoFile
      /\ \A v \in Tables : v # t => tab'[v] = tab[v] /\ data'[v] = data[v]
      /\ UNCHANGED <<server, gen, op, log, dev>> /\ raced \subseteq raced'
  BY <1>1
<1>6. ServerTypes' /\ OpTypes' /\ DevOpTypes'
  BY <1>0, <1>1 DEF ServerTypes, OpTypes, DevOpTypes
<1>7. SyncTypes' /\ DevTypes'
  BY <1>0, <1>1 DEF SyncTypes, DevTypes
<1>8. SyncedTypes' /\ LogTypes' /\ GenTypes'
  BY <1>0, <1>1 DEF SyncedTypes, LogTypes, GenTypes
<1>9. OpControl'
  BY <1>0, <1>1 DEF OpControl
<1>10. SyncControl'
  BY <1>0, <1>1 DEF SyncControl
<1>11. Origins' /\ DevOrigins'
  BY <1>0, <1>1 DEF Origins, DevOrigins
<1>12. SyncedDevs'
  BY <1>0, <1>1 DEF SyncedDevs
<1>13. TabTypes'
  BY <1>0, <1>1 DEF TabTypes
<1>14. InsTypes'
  BY <1>0, <1>1, <1>2, <1>3, <1>4, <1>5 DEF InsTypes
<1>15. CfgTypes'
  BY <1>0, <1>1 DEF CfgTypes
<1>16. DataTypes'
  BY <1>0, <1>1 DEF DataTypes
<1>17. PastTypes'
  BY <1>0, <1>1 DEF PastTypes
<1>18. Down'
  BY <1>0, <1>1, <1>2, <1>3, <1>4, <1>5 DEF Down, Up
<1>19. OpenTabs'
  BY <1>0, <1>2, <1>5 DEF OpenTabs, At, Creating, Removing, Up
<1>20. DevControl'
  BY <1>0, <1>1, <1>2, <1>3, <1>4, <1>5 DEF DevControl, AtRefs, At
<1>21. InsControl'
  BY <1>0, <1>1, <1>2, <1>3, <1>4, <1>5 DEF InsControl, AtRefs, At
<1>22. RowOrigins'
  BY <1>0, <1>5 DEF RowOrigins
<1>23. PartFiles'
  BY <1>0, <1>2, <1>5 DEF PartFiles, At
<1>24. ASSUME NEW u \in Tables, ~Raced("failed", u)'
      PROVE  EntryOK(u)' /\ LeftOK(u)'
  <2>1. EntryOK(u) /\ LeftOK(u) /\ ~Raced("failed", u)
    BY <1>0, <1>1, <1>24 DEF EntriesOK, Raced
  <2>2. EntryOK(u)'
    BY <1>0, <1>1, <1>2, <1>3, <1>4, <1>5, <2>1 DEF EntryOK, HasPart, Attaching, Creating, Removing, At, Up
  <2>3. LeftOK(u)'
    BY <1>0, <1>1, <1>2, <1>3, <1>4, <1>5, <2>1 DEF LeftOK, HasPart, Creating, Removed, Removing, At
  <2> QED
    BY <2>2, <2>3
<1>25. NoDevsYet'
  BY <1>0, <1>1 DEF NoDevsYet, Creating, At, Raced
<1>26. NewDevs'
  BY <1>0, <1>1 DEF NewDevs, Fresh, Raced
<1>27. NewRows'
  BY <1>0, <1>5 DEF NewRows, Fresh, Raced
<1>28. CountsOK'
  <2>1. CountedDevs' \subseteq CountedDevs
    BY <1>0, <1>1 DEF CountedDevs, InDevs
  <2>2. OpenDevs' \subseteq OpenDevs
    BY <1>0, <1>1 DEF OpenDevs, InDevs
  <2> QED
    BY <1>0, <1>1, <2>1, <2>2, CountsShrink
<1>29. ASSUME NEW r \in Records, Own(r)'
      PROVE  InRows(r)' /\ InFiles(r)' /\ MarkWritten(r)'
  <2>1. Own(r) /\ ~Raced("failed", r[1]) /\ InRows(r) /\ InFiles(r) /\ MarkWritten(r) /\ r[1] \in Tables /\ EntryOK(r[1]) /\ r[1] # t
    BY <1>0, <1>1, <1>29, <1>3 DEF RowsOK, Own, Raced, Records, EntriesOK
  <2>2. InRows(r)'
    BY <1>0, <1>1, <1>2, <1>3, <1>4, <1>5, <2>1 DEF InRows
  <2>3. InFiles(r)'
    BY <1>0, <1>1, <1>2, <1>3, <1>4, <1>5, <2>1 DEF InFiles, InData, HasPart, Removed, Removing, At
  <2>4. MarkWritten(r)'
    BY <1>0, <1>1, <1>2, <1>3, <1>4, <1>5, <2>1 DEF MarkWritten, InData, Removed, Removing, At
  <2> QED
    BY <2>2, <2>3, <2>4
<1>30. PartEntry'
  BY <1>0, <1>1 DEF PartEntry, HasPart, Raced, AtRefs, At
<1>31. DevsOK'
  BY <1>0, <1>1 DEF DevsOK, Raced
<1> QED
  BY <1>6, <1>7, <1>8, <1>9, <1>10, <1>11, <1>12, <1>13, <1>14, <1>15, <1>16, <1>17, <1>18, <1>19, <1>20, <1>21, <1>22, <1>23, <1>25, <1>26, <1>27, <1>28, <1>30, <1>31, <1>24, <1>29 DEF IInv, EntriesOK, RowsOK

\* The record is logged.
LEMMA AppendRecKeeps ==
    ASSUME IInv, AppendRec
    PROVE  IInv'
<1>0. /\ ServerTypes /\ TabTypes /\ OpTypes /\ DevOpTypes /\ InsTypes /\ SyncTypes /\ CfgTypes
      /\ DevTypes /\ SyncedTypes /\ DataTypes /\ LogTypes /\ GenTypes /\ PastTypes
      /\ Down /\ OpControl /\ OpenTabs /\ DevControl /\ InsControl /\ SyncControl
      /\ Origins /\ DevOrigins /\ RowOrigins /\ SyncedDevs /\ PartFiles
      /\ EntriesOK /\ NoDevsYet /\ NewDevs /\ NewRows /\ CountsOK /\ RowsOK /\ PartEntry /\ DevsOK
  BY DEF IInv
<1>1. /\ Up
      /\ ins.pc = "log"
      /\ ins.tab \in Tables
      /\ ins.rec = <<ins.tab, gen[ins.tab]>>
      /\ ins.rec \in Records
      /\ ins.rec \notin log
      /\ log' = log \cup {ins.rec}
      /\ ins' \in Inserts
      /\ ins'.tab = ins.tab
      /\ ins'.rec = ins.rec
      /\ ins'.pc = "put"
      /\ UNCHANGED <<server, tab, codes, op, devop, sync, cfg, dev, synced, data, gen, left, acked, devs, deleted, excused, raced, stmts>>
  <2>1. Up
    BY <1>0, BusyIsUp DEF AppendRec, Records, GenTypes, disk, memory, past, promised, threads, InsStep, InsTypes, Inserts, NoIns, InsControl
  <2>2. ins.pc = "log"
    BY <1>0, BusyIsUp DEF AppendRec, Records, GenTypes, disk, memory, past, promised, threads, InsStep, InsTypes, Inserts, NoIns, InsControl
  <2>3. ins.tab \in Tables
    BY <1>0, BusyIsUp, <2>2 DEF AppendRec, Records, GenTypes, disk, memory, past, promised, threads, InsStep, InsTypes, Inserts, NoIns, InsControl
  <2>4. ins.rec = <<ins.tab, gen[ins.tab]>>
    BY <1>0, BusyIsUp, <2>2, <2>3 DEF AppendRec, Records, GenTypes, disk, memory, past, promised, threads, InsStep, InsTypes, Inserts, NoIns, InsControl
  <2>5. ins.rec \in Records
    BY <1>0, BusyIsUp, <2>2, <2>3 DEF AppendRec, Records, GenTypes, disk, memory, past, promised, threads, InsStep, InsTypes, Inserts, NoIns, InsControl
  <2>6. ins.rec \notin log
    BY <1>0, BusyIsUp, <2>2, <2>3 DEF AppendRec, Records, GenTypes, disk, memory, past, promised, threads, InsStep, InsTypes, Inserts, NoIns, InsControl
  <2>7. log' = log \cup {ins.rec}
    BY <1>0, BusyIsUp, <2>2, <2>3 DEF AppendRec, Records, GenTypes, disk, memory, past, promised, threads, InsStep, InsTypes, Inserts, NoIns, InsControl
  <2>8. ins' \in Inserts
    BY <1>0, BusyIsUp, <2>2, <2>3 DEF AppendRec, Records, GenTypes, disk, memory, past, promised, threads, InsStep, InsTypes, Inserts, NoIns, InsControl
  <2>9. ins'.tab = ins.tab
    BY <1>0, BusyIsUp, <2>2, <2>3 DEF AppendRec, Records, GenTypes, disk, memory, past, promised, threads, InsStep, InsTypes, Inserts, NoIns, InsControl
  <2>10. ins'.rec = ins.rec
    BY <1>0, BusyIsUp, <2>2, <2>3 DEF AppendRec, Records, GenTypes, disk, memory, past, promised, threads, InsStep, InsTypes, Inserts, NoIns, InsControl
  <2>11. ins'.pc = "put"
    BY <1>0, BusyIsUp, <2>2, <2>3 DEF AppendRec, Records, GenTypes, disk, memory, past, promised, threads, InsStep, InsTypes, Inserts, NoIns, InsControl
  <2>12. UNCHANGED <<server, tab, codes, op, devop, sync, cfg, dev, synced, data, gen, left, acked, devs, deleted, excused, raced, stmts>>
    BY <1>0, BusyIsUp, <2>2, <2>3, <2>11 DEF AppendRec, Records, GenTypes, disk, memory, past, promised, threads, InsStep, InsTypes, Inserts, NoIns, InsControl
  <2> QED
    BY <2>1, <2>2, <2>3, <2>4, <2>5, <2>6, <2>7, <2>8, <2>9, <2>10, <2>11, <2>12
<1>2. ins.rec[1] = ins.tab /\ ins.rec[2] = gen[ins.tab] /\ gen[ins.tab] <= gen[ins.tab]
  BY <1>0, <1>1 DEF GenTypes, Gens
<1>3. ServerTypes' /\ TabTypes' /\ OpTypes' /\ DevOpTypes'
  BY <1>0, <1>1 DEF ServerTypes, TabTypes, OpTypes, DevOpTypes
<1>4. SyncTypes' /\ CfgTypes' /\ DevTypes'
  BY <1>0, <1>1 DEF SyncTypes, CfgTypes, DevTypes
<1>5. SyncedTypes' /\ DataTypes' /\ GenTypes' /\ PastTypes'
  BY <1>0, <1>1 DEF SyncedTypes, DataTypes, GenTypes, PastTypes
<1>6. OpControl' /\ OpenTabs'
  BY <1>0, <1>1 DEF OpControl, OpenTabs, At, Creating, Removing, Up
<1>7. DevControl'
  BY <1>0, <1>1 DEF DevControl, AtRefs, At
<1>8. DevOrigins' /\ RowOrigins'
  BY <1>0, <1>1 DEF DevOrigins, RowOrigins
<1>9. SyncedDevs' /\ PartFiles'
  BY <1>0, <1>1 DEF SyncedDevs, PartFiles, At
<1>10. NoDevsYet' /\ NewDevs'
  BY <1>0, <1>1 DEF NoDevsYet, NewDevs, Creating, At, Raced, Fresh
<1>11. PartEntry' /\ DevsOK'
  BY <1>0, <1>1 DEF PartEntry, DevsOK, HasPart, AtRefs, At, Raced
<1>12. CountsOK'
  BY <1>0, <1>1 DEF CountsOK, Overcounted, Raced, CountedDevs, OpenDevs, InDevs
<1>13. InsTypes'
  BY <1>0, <1>1, <1>2 DEF InsTypes
<1>14. LogTypes'
  BY <1>0, <1>1, <1>2 DEF LogTypes
<1>15. Down'
  BY <1>0, <1>1, <1>2 DEF Down, Up
<1>16. InsControl'
  BY <1>0, <1>1, <1>2 DEF InsControl, AtRefs, At, SyncControl
<1>17. SyncControl'
  BY <1>0, <1>1, <1>2 DEF SyncControl
<1>18. Origins'
  BY <1>0, <1>1, <1>2 DEF Origins
<1>19. EntriesOK'
  BY <1>0, <1>1 DEF EntriesOK, Raced, EntryOK, LeftOK, HasPart, Attaching, Creating, Removing, At, Up, Removed
<1>20. NewRows'
  BY <1>0, <1>1, <1>2 DEF NewRows, Fresh, Raced
<1>21. ASSUME NEW r \in Records, Own(r)'
      PROVE  InRows(r)' /\ InFiles(r)' /\ MarkWritten(r)'
  <2>1. Own(r) /\ ~Raced("failed", r[1]) /\ InRows(r) /\ InFiles(r) /\ MarkWritten(r) /\ r[1] \in Tables /\ EntryOK(r[1])
    BY <1>0, <1>1, <1>21 DEF RowsOK, Own, Raced, Records, EntriesOK
  <2>2. InRows(r)'
    BY <1>1, <2>1, <1>2 DEF InRows
  <2>3. InFiles(r)'
    BY <1>0, <1>1, <1>2, <2>1 DEF InFiles, InData, HasPart, Removed, Removing, At
  <2>4. MarkWritten(r)'
    BY <1>1, <2>1, <1>2 DEF MarkWritten, InData, Removed, Removing, At
  <2> QED
    BY <2>2, <2>3, <2>4
<1> QED
  BY <1>3, <1>4, <1>5, <1>6, <1>7, <1>8, <1>9, <1>10, <1>11, <1>12, <1>13, <1>14, <1>15, <1>16, <1>17, <1>18, <1>19, <1>20, <1>21 DEF IInv, RowsOK

\* The record is put into its page and acknowledged.
LEMMA InsertRecKeeps ==
    ASSUME IInv, InsertRec
    PROVE  IInv'
<1>0. /\ ServerTypes /\ TabTypes /\ OpTypes /\ DevOpTypes /\ InsTypes /\ SyncTypes /\ CfgTypes
      /\ DevTypes /\ SyncedTypes /\ DataTypes /\ LogTypes /\ GenTypes /\ PastTypes
      /\ Down /\ OpControl /\ OpenTabs /\ DevControl /\ InsControl /\ SyncControl
      /\ Origins /\ DevOrigins /\ RowOrigins /\ SyncedDevs /\ PartFiles
      /\ EntriesOK /\ NoDevsYet /\ NewDevs /\ NewRows /\ CountsOK /\ RowsOK /\ PartEntry /\ DevsOK
  BY DEF IInv
<1>1. /\ Up
      /\ ins.pc = "put"
      /\ ins.tab \in Tables
      /\ ins.rec = <<ins.tab, gen[ins.tab]>>
      /\ ins.rec \in Records
      /\ tab[ins.tab].part
      /\ tab[ins.tab].open \/ AtRefs(ins.tab)
      /\ ins.rec \in excused \/ (ins.rec \in log /\ ins.rec \notin sync.mark)
      /\ tab' \in [Tables -> Handle]
      /\ tab'[ins.tab].open = tab[ins.tab].open /\ tab'[ins.tab].part = tab[ins.tab].part /\ tab'[ins.tab].dw = tab[ins.tab].dw
      /\ tab'[ins.tab].rows = tab[ins.tab].rows \cup {ins.rec}
      /\ \A v \in Tables : v # ins.tab => tab'[v] = tab[v]
      /\ acked' = acked \cup {ins.rec}
      /\ ins' \in Inserts
      /\ ins' = NoIns
      /\ ins'.pc = "idle"
      /\ UNCHANGED <<server, codes, op, devop, sync, cfg, dev, synced, data, log, gen, left, devs, deleted, excused, raced, stmts>>
  <2>1. Up
    BY <1>0, BusyIsUp DEF InsertRec, Records, GenTypes, TabTypes, Handle, disk, memory, past, promised, threads, InsStep, InsTypes, Inserts, NoIns, InsControl
  <2>2. ins.pc = "put"
    BY <1>0, BusyIsUp DEF InsertRec, Records, GenTypes, TabTypes, Handle, disk, memory, past, promised, threads, InsStep, InsTypes, Inserts, NoIns, InsControl
  <2>3. ins.tab \in Tables
    BY <1>0, BusyIsUp, <2>2 DEF InsertRec, Records, GenTypes, TabTypes, Handle, disk, memory, past, promised, threads, InsStep, InsTypes, Inserts, NoIns, InsControl
  <2>4. ins.rec = <<ins.tab, gen[ins.tab]>>
    BY <1>0, BusyIsUp, <2>2, <2>3 DEF InsertRec, Records, GenTypes, TabTypes, Handle, disk, memory, past, promised, threads, InsStep, InsTypes, Inserts, NoIns, InsControl
  <2>5. ins.rec \in Records
    BY <1>0, <2>3, <2>4 DEF Records, GenTypes
  <2>6. tab[ins.tab].part
    BY <1>0, BusyIsUp, <2>2, <2>3 DEF InsertRec, Records, GenTypes, TabTypes, Handle, disk, memory, past, promised, threads, InsStep, InsTypes, Inserts, NoIns, InsControl
  <2>7. tab[ins.tab].open \/ AtRefs(ins.tab)
    BY <1>0, BusyIsUp, <2>2, <2>3 DEF InsertRec, Records, GenTypes, TabTypes, Handle, disk, memory, past, promised, threads, InsStep, InsTypes, Inserts, NoIns, InsControl
  <2>8. ins.rec \in excused \/ (ins.rec \in log /\ ins.rec \notin sync.mark)
    BY <1>0, BusyIsUp, <2>2, <2>3 DEF InsertRec, Records, GenTypes, TabTypes, Handle, disk, memory, past, promised, threads, InsStep, InsTypes, Inserts, NoIns, InsControl
  <2>9. tab' \in [Tables -> Handle]
    BY <1>0, <2>3, <2>5 DEF InsertRec, TabTypes, Handle
  <2>10. tab'[ins.tab].open = tab[ins.tab].open /\ tab'[ins.tab].part = tab[ins.tab].part /\ tab'[ins.tab].dw = tab[ins.tab].dw
    BY <1>0, BusyIsUp, <2>2, <2>3 DEF InsertRec, Records, GenTypes, TabTypes, Handle, disk, memory, past, promised, threads, InsStep, InsTypes, Inserts, NoIns, InsControl
  <2>11. tab'[ins.tab].rows = tab[ins.tab].rows \cup {ins.rec}
    BY <1>0, BusyIsUp, <2>2, <2>3 DEF InsertRec, Records, GenTypes, TabTypes, Handle, disk, memory, past, promised, threads, InsStep, InsTypes, Inserts, NoIns, InsControl
  <2>12. \A v \in Tables : v # ins.tab => tab'[v] = tab[v]
    BY <1>0, BusyIsUp, <2>2, <2>3 DEF InsertRec, Records, GenTypes, TabTypes, Handle, disk, memory, past, promised, threads, InsStep, InsTypes, Inserts, NoIns, InsControl
  <2>13. acked' = acked \cup {ins.rec}
    BY <1>0, BusyIsUp, <2>2, <2>3 DEF InsertRec, Records, GenTypes, TabTypes, Handle, disk, memory, past, promised, threads, InsStep, InsTypes, Inserts, NoIns, InsControl
  <2>14. ins' \in Inserts
    BY <1>0, BusyIsUp, <2>2, <2>3 DEF InsertRec, Records, GenTypes, TabTypes, Handle, disk, memory, past, promised, threads, InsStep, InsTypes, Inserts, NoIns, InsControl
  <2>15. ins' = NoIns
    BY <1>0, BusyIsUp, <2>2, <2>3 DEF InsertRec, Records, GenTypes, TabTypes, Handle, disk, memory, past, promised, threads, InsStep, InsTypes, Inserts, NoIns, InsControl
  <2>16. ins'.pc = "idle"
    BY <1>0, BusyIsUp, <2>2, <2>3 DEF InsertRec, Records, GenTypes, TabTypes, Handle, disk, memory, past, promised, threads, InsStep, InsTypes, Inserts, NoIns, InsControl
  <2>17. UNCHANGED <<server, codes, op, devop, sync, cfg, dev, synced, data, log, gen, left, devs, deleted, excused, raced, stmts>>
    BY <1>0, BusyIsUp, <2>2, <2>3, <2>16 DEF InsertRec, Records, GenTypes, TabTypes, Handle, disk, memory, past, promised, threads, InsStep, InsTypes, Inserts, NoIns, InsControl
  <2> QED
    BY <2>1, <2>2, <2>3, <2>4, <2>5, <2>6, <2>7, <2>8, <2>9, <2>10, <2>11, <2>12, <2>13, <2>14, <2>15, <2>16, <2>17
<1>2. ins.rec[1] = ins.tab /\ ins.rec[2] = gen[ins.tab] /\ gen[ins.tab] <= gen[ins.tab]
  BY <1>0, <1>1 DEF GenTypes, Gens
<1>3. ~Raced("part", ins.tab) /\ ~Raced("failed", ins.tab) => HasPart(ins.tab)
  BY <1>0, <1>1 DEF PartEntry
<1>4. tab[ins.tab].open \/ Removing(ins.tab)
  BY <1>0, <1>1 DEF OpControl, OpTypes, Statements, AtRefs, At, Removing
<1>5. ServerTypes' /\ OpTypes' /\ DevOpTypes'
  BY <1>0, <1>1 DEF ServerTypes, OpTypes, DevOpTypes
<1>6. SyncTypes' /\ CfgTypes' /\ DevTypes'
  BY <1>0, <1>1 DEF SyncTypes, CfgTypes, DevTypes
<1>7. SyncedTypes' /\ DataTypes' /\ LogTypes' /\ GenTypes'
  BY <1>0, <1>1 DEF SyncedTypes, DataTypes, LogTypes, GenTypes
<1>8. OpControl'
  BY <1>0, <1>1 DEF OpControl
<1>9. SyncControl'
  BY <1>0, <1>1 DEF SyncControl
<1>10. DevOrigins'
  BY <1>0, <1>1 DEF DevOrigins
<1>11. SyncedDevs'
  BY <1>0, <1>1 DEF SyncedDevs
<1>12. NoDevsYet' /\ NewDevs'
  BY <1>0, <1>1 DEF NoDevsYet, NewDevs, Creating, At, Raced, Fresh
<1>13. DevsOK'
  BY <1>0, <1>1 DEF DevsOK, Raced
<1>14. TabTypes'
  BY <1>0, <1>1, <1>2, <1>3, <1>4 DEF TabTypes
<1>15. InsTypes'
  BY <1>0, <1>1, <1>2, <1>3, <1>4 DEF InsTypes
<1>16. PastTypes'
  BY <1>0, <1>1, <1>2, <1>3, <1>4 DEF PastTypes
<1>17. Down'
  BY <1>0, <1>1, <1>2, <1>3, <1>4 DEF Down, Up
<1>18. OpenTabs'
  BY <1>0, <1>1, <1>2, <1>3, <1>4 DEF OpenTabs, At, Creating, Removing, Up
<1>19. DevControl'
  BY <1>0, <1>1, <1>2, <1>3, <1>4 DEF DevControl, AtRefs, At
<1>20. InsControl'
  BY <1>0, <1>1, <1>2, <1>3, <1>4 DEF InsControl, AtRefs, At
<1>21. Origins'
  BY <1>0, <1>1, <1>2, <1>3, <1>4 DEF Origins
<1>22. RowOrigins'
  BY <1>0, <1>1, <1>2, <1>3, <1>4 DEF RowOrigins
<1>23. PartFiles'
  BY <1>0, <1>1, <1>2, <1>3, <1>4 DEF PartFiles, At
<1>24. ASSUME NEW u \in Tables, ~Raced("failed", u)'
      PROVE  EntryOK(u)' /\ LeftOK(u)'
  <2>1. EntryOK(u) /\ LeftOK(u) /\ ~Raced("failed", u)
    BY <1>0, <1>1, <1>24 DEF EntriesOK, Raced
  <2>2. EntryOK(u)'
    BY <1>0, <1>1, <1>2, <1>3, <1>4, <2>1 DEF EntryOK, HasPart, Attaching, Creating, Removing, At, Up
  <2>3. LeftOK(u)'
    BY <1>0, <1>1, <1>2, <1>3, <1>4, <2>1 DEF LeftOK, HasPart, Creating, Removed, Removing, At
  <2> QED
    BY <2>2, <2>3
<1>25. NewRows'
  BY <1>0, <1>1, <1>2, <1>3, <1>4 DEF NewRows, Fresh, Raced
<1>26. CountsOK'
  <2>1. CountedDevs' \subseteq CountedDevs
    BY <1>0, <1>1 DEF CountedDevs, InDevs
  <2>2. OpenDevs' \subseteq OpenDevs
    BY <1>0, <1>1 DEF OpenDevs, InDevs
  <2> QED
    BY <1>0, <1>1, <2>1, <2>2, CountsShrink
<1>27. RowsOK'
  <2>1. ASSUME NEW r \in Records, Own(r)', r # ins.rec
        PROVE  InRows(r)' /\ InFiles(r)' /\ MarkWritten(r)'
    <3>1. Own(r) /\ InRows(r) /\ InFiles(r) /\ MarkWritten(r) /\ r[1] \in Tables
      BY <1>0, <1>1, <2>1, Fields DEF RowsOK, Own, Raced
    <3>2. InRows(r)'
      BY <1>1, <3>1 DEF InRows
    <3>3. InFiles(r)'
      BY <1>1, <3>1 DEF InFiles, InData, HasPart, Removed, Removing, At
    <3>4. MarkWritten(r)'
      BY <1>1, <3>1 DEF MarkWritten, InData, Removed, Removing, At
    <3> QED
      BY <3>2, <3>3, <3>4
  <2>2. ASSUME NEW r \in Records, Own(r)', r = ins.rec
        PROVE  InRows(r)' /\ InFiles(r)' /\ MarkWritten(r)'
    <3>1. ins.rec \in log /\ ins.rec \notin sync.mark /\ HasPart(ins.tab)
      BY <1>1, <1>2, <1>3, <2>2 DEF Own, Raced
    <3> QED
      BY <1>1, <1>2, <2>2, <3>1 DEF InRows, InFiles, HasPart, MarkWritten
  <2> QED
    BY <2>1, <2>2 DEF RowsOK
<1>28. PartEntry'
  BY <1>0, <1>1, <1>2, <1>3, <1>4 DEF PartEntry, HasPart, AtRefs, At, Raced
<1> QED
  BY <1>5, <1>6, <1>7, <1>8, <1>9, <1>10, <1>11, <1>12, <1>13, <1>14, <1>15, <1>16, <1>17, <1>18, <1>19, <1>20, <1>21, <1>22, <1>23, <1>25, <1>26, <1>27, <1>28, <1>24 DEF IInv, EntriesOK

\* The sync task lists the open tables.
LEMMA GetAllTableKeeps ==
    ASSUME IInv, GetAllTable
    PROVE  IInv'
<1>0. /\ ServerTypes /\ TabTypes /\ OpTypes /\ DevOpTypes /\ InsTypes /\ SyncTypes /\ CfgTypes
      /\ DevTypes /\ SyncedTypes /\ DataTypes /\ LogTypes /\ GenTypes /\ PastTypes
      /\ Down /\ OpControl /\ OpenTabs /\ DevControl /\ InsControl /\ SyncControl
      /\ Origins /\ DevOrigins /\ RowOrigins /\ SyncedDevs /\ PartFiles
      /\ EntriesOK /\ NoDevsYet /\ NewDevs /\ NewRows /\ CountsOK /\ RowsOK /\ PartEntry /\ DevsOK
  BY DEF IInv
<1>1. /\ Up
      /\ sync' \in Syncs
      /\ sync'.pc = "point"
      /\ sync'.tabs = Open
      /\ sync'.mark = {}
      /\ UNCHANGED <<server, tab, codes, op, devop, ins, cfg, dev, synced, data, log, gen, left, acked, devs, deleted, excused, raced, stmts>>
  BY <1>0 DEF GetAllTable, Up, Open, disk, memory, past, promised, threads, SyncStep, SyncTypes, Syncs, NoSync
<1>2. ServerTypes' /\ TabTypes' /\ OpTypes' /\ DevOpTypes'
  BY <1>0, <1>1 DEF ServerTypes, TabTypes, OpTypes, DevOpTypes
<1>3. InsTypes' /\ CfgTypes' /\ DevTypes'
  BY <1>0, <1>1 DEF InsTypes, CfgTypes, DevTypes
<1>4. SyncedTypes' /\ DataTypes' /\ LogTypes' /\ GenTypes' /\ PastTypes'
  BY <1>0, <1>1 DEF SyncedTypes, DataTypes, LogTypes, GenTypes, PastTypes
<1>5. OpControl' /\ OpenTabs'
  BY <1>0, <1>1 DEF OpControl, OpenTabs, At, Creating, Removing, Up
<1>6. DevControl'
  BY <1>0, <1>1 DEF DevControl, AtRefs, At
<1>7. Origins' /\ DevOrigins' /\ RowOrigins'
  BY <1>0, <1>1 DEF Origins, DevOrigins, RowOrigins
<1>8. SyncedDevs' /\ PartFiles'
  BY <1>0, <1>1 DEF SyncedDevs, PartFiles, At
<1>9. NoDevsYet' /\ NewDevs' /\ NewRows'
  BY <1>0, <1>1 DEF NoDevsYet, NewDevs, NewRows, Creating, At, Raced, Fresh
<1>10. PartEntry' /\ DevsOK'
  BY <1>0, <1>1 DEF PartEntry, DevsOK, HasPart, AtRefs, At, Raced
<1>11. CountsOK'
  BY <1>0, <1>1 DEF CountsOK, Overcounted, Raced, CountedDevs, OpenDevs, InDevs
<1>12. SyncTypes'
  BY <1>0, <1>1 DEF SyncTypes
<1>13. Down'
  BY <1>0, <1>1 DEF Down, Up
<1>14. InsControl'
  BY <1>0, <1>1 DEF InsControl, AtRefs, At
<1>15. SyncControl'
  BY <1>0, <1>1 DEF SyncControl
<1>16. EntriesOK'
  BY <1>0, <1>1 DEF EntriesOK, Raced, EntryOK, LeftOK, HasPart, Attaching, Creating, Removing, At, Up, Removed
<1>17. ASSUME NEW r \in Records, Own(r)'
      PROVE  InRows(r)' /\ InFiles(r)' /\ MarkWritten(r)'
  <2>1. Own(r) /\ ~Raced("failed", r[1]) /\ InRows(r) /\ InFiles(r) /\ MarkWritten(r) /\ r[1] \in Tables /\ EntryOK(r[1])
    BY <1>0, <1>1, <1>17 DEF RowsOK, Own, Raced, Records, EntriesOK
  <2>2. InRows(r)'
    BY <1>1, <2>1 DEF InRows
  <2>3. InFiles(r)'
    BY <1>1, <2>1 DEF InFiles, InData, HasPart, Removed, Removing, At
  <2>4. MarkWritten(r)'
    BY <1>0, <1>1, <2>1 DEF MarkWritten, InData, Removed, Removing, At
  <2> QED
    BY <2>2, <2>3, <2>4
<1> QED
  BY <1>2, <1>3, <1>4, <1>5, <1>6, <1>7, <1>8, <1>9, <1>10, <1>11, <1>12, <1>13, <1>14, <1>15, <1>16, <1>17 DEF IInv, RowsOK

\* The sync point.
LEMMA MakeSyncPointKeeps ==
    ASSUME IInv, MakeSyncPoint
    PROVE  IInv'
<1>0. /\ ServerTypes /\ TabTypes /\ OpTypes /\ DevOpTypes /\ InsTypes /\ SyncTypes /\ CfgTypes
      /\ DevTypes /\ SyncedTypes /\ DataTypes /\ LogTypes /\ GenTypes /\ PastTypes
      /\ Down /\ OpControl /\ OpenTabs /\ DevControl /\ InsControl /\ SyncControl
      /\ Origins /\ DevOrigins /\ RowOrigins /\ SyncedDevs /\ PartFiles
      /\ EntriesOK /\ NoDevsYet /\ NewDevs /\ NewRows /\ CountsOK /\ RowsOK /\ PartEntry /\ DevsOK
  BY DEF IInv
<1>1. /\ Up
      /\ sync.pc = "point"
      /\ sync' \in Syncs
      /\ sync'.pc = "next"
      /\ sync'.tabs = sync.tabs
      /\ sync'.mark = log
      /\ excused' \in SUBSET Records
      /\ excused \subseteq excused'
      /\ \A r \in log : r[1] \notin sync.tabs => r \in excused'
      /\ ins.pc = "put" => ins.rec \in excused'
      /\ UNCHANGED <<server, tab, codes, op, devop, ins, cfg, dev, synced, data, log, gen, left, acked, devs, deleted, raced, stmts>>
  <2>1. Up
    BY <1>0, BusyIsUp DEF MakeSyncPoint, PastTypes, LogTypes, InsControl, GenTypes, Records, disk, memory, past, promised, threads, SyncStep, SyncTypes, Syncs, NoSync
  <2>2. sync.pc = "point"
    BY <1>0, BusyIsUp DEF MakeSyncPoint, PastTypes, LogTypes, InsControl, GenTypes, Records, disk, memory, past, promised, threads, SyncStep, SyncTypes, Syncs, NoSync
  <2>3. sync' \in Syncs
    BY <1>0, BusyIsUp, <2>2 DEF MakeSyncPoint, PastTypes, LogTypes, InsControl, GenTypes, Records, disk, memory, past, promised, threads, SyncStep, SyncTypes, Syncs, NoSync
  <2>4. sync'.pc = "next"
    BY <1>0, BusyIsUp, <2>2 DEF MakeSyncPoint, PastTypes, LogTypes, InsControl, GenTypes, Records, disk, memory, past, promised, threads, SyncStep, SyncTypes, Syncs, NoSync
  <2>5. sync'.tabs = sync.tabs
    BY <1>0, BusyIsUp, <2>2, <2>4 DEF MakeSyncPoint, PastTypes, LogTypes, InsControl, GenTypes, Records, disk, memory, past, promised, threads, SyncStep, SyncTypes, Syncs, NoSync
  <2>6. sync'.mark = log
    BY <1>0, BusyIsUp, <2>2, <2>4 DEF MakeSyncPoint, PastTypes, LogTypes, InsControl, GenTypes, Records, disk, memory, past, promised, threads, SyncStep, SyncTypes, Syncs, NoSync
  <2>7. excused' \in SUBSET Records
    BY <1>0, BusyIsUp, <2>2, <2>4 DEF MakeSyncPoint, PastTypes, LogTypes, InsControl, GenTypes, Records, disk, memory, past, promised, threads, SyncStep, SyncTypes, Syncs, NoSync
  <2>8. excused \subseteq excused'
    BY <1>0, BusyIsUp, <2>2, <2>4 DEF MakeSyncPoint, PastTypes, LogTypes, InsControl, GenTypes, Records, disk, memory, past, promised, threads, SyncStep, SyncTypes, Syncs, NoSync
  <2>9. \A r \in log : r[1] \notin sync.tabs => r \in excused'
    BY <1>0, BusyIsUp, <2>2, <2>4 DEF MakeSyncPoint, PastTypes, LogTypes, InsControl, GenTypes, Records, disk, memory, past, promised, threads, SyncStep, SyncTypes, Syncs, NoSync
  <2>10. ins.pc = "put" => ins.rec \in excused'
    BY <1>0, BusyIsUp, <2>2, <2>4 DEF MakeSyncPoint, PastTypes, LogTypes, InsControl, GenTypes, Records, disk, memory, past, promised, threads, SyncStep, SyncTypes, Syncs, NoSync
  <2>11. UNCHANGED <<server, tab, codes, op, devop, ins, cfg, dev, synced, data, log, gen, left, acked, devs, deleted, raced, stmts>>
    BY <1>0, BusyIsUp, <2>2, <2>4, <2>10 DEF MakeSyncPoint, PastTypes, LogTypes, InsControl, GenTypes, Records, disk, memory, past, promised, threads, SyncStep, SyncTypes, Syncs, NoSync
  <2> QED
    BY <2>1, <2>2, <2>3, <2>4, <2>5, <2>6, <2>7, <2>8, <2>9, <2>10, <2>11
<1>2. ServerTypes' /\ TabTypes' /\ OpTypes' /\ DevOpTypes'
  BY <1>0, <1>1 DEF ServerTypes, TabTypes, OpTypes, DevOpTypes
<1>3. InsTypes' /\ CfgTypes' /\ DevTypes'
  BY <1>0, <1>1 DEF InsTypes, CfgTypes, DevTypes
<1>4. SyncedTypes' /\ DataTypes' /\ LogTypes' /\ GenTypes'
  BY <1>0, <1>1 DEF SyncedTypes, DataTypes, LogTypes, GenTypes
<1>5. OpControl' /\ OpenTabs'
  BY <1>0, <1>1 DEF OpControl, OpenTabs, At, Creating, Removing, Up
<1>6. DevControl'
  BY <1>0, <1>1 DEF DevControl, AtRefs, At
<1>7. Origins' /\ DevOrigins' /\ RowOrigins'
  BY <1>0, <1>1 DEF Origins, DevOrigins, RowOrigins
<1>8. SyncedDevs' /\ PartFiles'
  BY <1>0, <1>1 DEF SyncedDevs, PartFiles, At
<1>9. NoDevsYet' /\ NewDevs' /\ NewRows'
  BY <1>0, <1>1 DEF NoDevsYet, NewDevs, NewRows, Creating, At, Raced, Fresh
<1>10. PartEntry' /\ DevsOK'
  BY <1>0, <1>1 DEF PartEntry, DevsOK, HasPart, AtRefs, At, Raced
<1>11. CountsOK'
  BY <1>0, <1>1 DEF CountsOK, Overcounted, Raced, CountedDevs, OpenDevs, InDevs
<1>12. SyncTypes'
  BY <1>0, <1>1 DEF SyncTypes
<1>13. PastTypes'
  BY <1>0, <1>1 DEF PastTypes
<1>14. Down'
  BY <1>0, <1>1 DEF Down, Up
<1>15. InsControl'
  BY <1>0, <1>1 DEF InsControl, AtRefs, At
<1>16. SyncControl'
  BY <1>0, <1>1 DEF SyncControl
<1>17. EntriesOK'
  BY <1>0, <1>1 DEF EntriesOK, Raced, EntryOK, LeftOK, HasPart, Attaching, Creating, Removing, At, Up, Removed
<1>18. ASSUME NEW r \in Records, Own(r)'
      PROVE  InRows(r)' /\ InFiles(r)' /\ MarkWritten(r)'
  <2>1. Own(r) /\ ~Raced("failed", r[1]) /\ InRows(r) /\ InFiles(r) /\ MarkWritten(r) /\ r[1] \in Tables /\ EntryOK(r[1]) /\ r \notin excused'
    BY <1>0, <1>1, <1>18 DEF RowsOK, Own, Raced, Records, EntriesOK
  <2>2. InRows(r)'
    BY <1>1, <2>1 DEF InRows
  <2>3. InFiles(r)'
    BY <1>1, <2>1 DEF InFiles, InData, HasPart, Removed, Removing, At
  <2>4. MarkWritten(r)'
    BY <1>0, <1>1, <2>1 DEF MarkWritten, InData, Removed, Removing, At
  <2> QED
    BY <2>2, <2>3, <2>4
<1> QED
  BY <1>2, <1>3, <1>4, <1>5, <1>6, <1>7, <1>8, <1>9, <1>10, <1>11, <1>12, <1>13, <1>14, <1>15, <1>16, <1>17, <1>18 DEF IInv, RowsOK

\* The sync of a table.
LEMMA SyncTableKeeps ==
    ASSUME IInv, NEW t \in sync.tabs, t \in Tables, SyncTableOf(t)
    PROVE  IInv'
<1>0. /\ ServerTypes /\ TabTypes /\ OpTypes /\ DevOpTypes /\ InsTypes /\ SyncTypes /\ CfgTypes
      /\ DevTypes /\ SyncedTypes /\ DataTypes /\ LogTypes /\ GenTypes /\ PastTypes
      /\ Down /\ OpControl /\ OpenTabs /\ DevControl /\ InsControl /\ SyncControl
      /\ Origins /\ DevOrigins /\ RowOrigins /\ SyncedDevs /\ PartFiles
      /\ EntriesOK /\ NoDevsYet /\ NewDevs /\ NewRows /\ CountsOK /\ RowsOK /\ PartEntry /\ DevsOK
  BY DEF IInv
<1>1. /\ Up
      /\ sync.pc = "next"
      /\ sync' \in Syncs
      /\ sync'.pc = "next"
      /\ sync'.tabs = sync.tabs \ {t}
      /\ sync'.mark = sync.mark
      /\ data' \in [Tables -> {NoFile} \cup SUBSET Records]
      /\ \A v \in Tables : v # t => data'[v] = data[v]
      /\ tab[t].open /\ tab[t].part => data[t] # NoFile
      /\ data'[t] = NoFile <=> data[t] = NoFile
      /\ tab[t].open /\ tab[t].part /\ tab[t].dw => data'[t] = tab[t].rows
      /\ ~(tab[t].open /\ tab[t].part /\ tab[t].dw) => data'[t] = data[t]
      /\ excused' \in SUBSET Records /\ excused \subseteq excused'
      /\ tab[t].open /\ tab[t].part /\ ~tab[t].dw => tab[t].rows \ data[t] \subseteq excused'
      /\ ~tab[t].open => \A r \in sync.mark : r[1] = t => r \in excused'
      /\ UNCHANGED <<server, tab, codes, op, devop, ins, cfg, dev, synced, log, gen, left, acked, devs, deleted, raced, stmts>>
  <2>1. Up
    BY <1>0, BusyIsUp DEF SyncTableOf, Written, Unwritten, Of, DataTypes, TabTypes, Handle, PastTypes, disk, memory, past, promised, threads, SyncStep, SyncTypes, Syncs, NoSync
  <2>2. sync.pc = "next"
    BY <1>0, BusyIsUp DEF SyncTableOf, Written, Unwritten, Of, DataTypes, TabTypes, Handle, PastTypes, disk, memory, past, promised, threads, SyncStep, SyncTypes, Syncs, NoSync
  <2>3. sync' \in Syncs
    BY <1>0, BusyIsUp, <2>2 DEF SyncTableOf, Written, Unwritten, Of, DataTypes, TabTypes, Handle, PastTypes, disk, memory, past, promised, threads, SyncStep, SyncTypes, Syncs, NoSync
  <2>4. sync'.pc = "next"
    BY <1>0, BusyIsUp, <2>2 DEF SyncTableOf, Written, Unwritten, Of, DataTypes, TabTypes, Handle, PastTypes, disk, memory, past, promised, threads, SyncStep, SyncTypes, Syncs, NoSync
  <2>5. sync'.tabs = sync.tabs \ {t}
    BY <1>0, BusyIsUp, <2>2, <2>4 DEF SyncTableOf, Written, Unwritten, Of, DataTypes, TabTypes, Handle, PastTypes, disk, memory, past, promised, threads, SyncStep, SyncTypes, Syncs, NoSync
  <2>6. sync'.mark = sync.mark
    BY <1>0, BusyIsUp, <2>2, <2>4 DEF SyncTableOf, Written, Unwritten, Of, DataTypes, TabTypes, Handle, PastTypes, disk, memory, past, promised, threads, SyncStep, SyncTypes, Syncs, NoSync
  <2>7. data' \in [Tables -> {NoFile} \cup SUBSET Records]
    BY <1>0, BusyIsUp, <2>2, <2>4 DEF SyncTableOf, Written, Unwritten, Of, DataTypes, TabTypes, Handle, PastTypes, disk, memory, past, promised, threads, SyncStep, SyncTypes, Syncs, NoSync
  <2>8. \A v \in Tables : v # t => data'[v] = data[v]
    BY <1>0, BusyIsUp, <2>2, <2>4 DEF SyncTableOf, Written, Unwritten, Of, DataTypes, TabTypes, Handle, PastTypes, disk, memory, past, promised, threads, SyncStep, SyncTypes, Syncs, NoSync
  <2>9. tab[t].open /\ tab[t].part => data[t] # NoFile
    BY <1>0 DEF PartFiles, OpenTabs, At
  <2>10. data'[t] = NoFile <=> data[t] = NoFile
    <3>1. tab[t].open /\ tab[t].part => data[t] # NoFile
      BY <1>0 DEF PartFiles, OpenTabs, At
    <3>2. tab[t].rows \in SUBSET Records
      BY <1>0 DEF TabTypes, Handle
    <3> QED
      BY <1>0, <3>1, <3>2, Constants DEF SyncTableOf, Written, DataTypes
  <2>11. tab[t].open /\ tab[t].part /\ tab[t].dw => data'[t] = tab[t].rows
    BY <1>0, BusyIsUp, <2>2, <2>4 DEF SyncTableOf, Written, Unwritten, Of, DataTypes, TabTypes, Handle, PastTypes, disk, memory, past, promised, threads, SyncStep, SyncTypes, Syncs, NoSync
  <2>12. ~(tab[t].open /\ tab[t].part /\ tab[t].dw) => data'[t] = data[t]
    BY <1>0, BusyIsUp, <2>2, <2>4 DEF SyncTableOf, Written, Unwritten, Of, DataTypes, TabTypes, Handle, PastTypes, disk, memory, past, promised, threads, SyncStep, SyncTypes, Syncs, NoSync
  <2>13. excused' \in SUBSET Records /\ excused \subseteq excused'
    BY <1>0, BusyIsUp, <2>2, <2>4 DEF SyncTableOf, Written, Unwritten, Of, DataTypes, TabTypes, Handle, PastTypes, disk, memory, past, promised, threads, SyncStep, SyncTypes, Syncs, NoSync
  <2>14. tab[t].open /\ tab[t].part /\ ~tab[t].dw => tab[t].rows \ data[t] \subseteq excused'
    BY <1>0, BusyIsUp, <2>2, <2>4 DEF SyncTableOf, Written, Unwritten, Of, DataTypes, TabTypes, Handle, PastTypes, disk, memory, past, promised, threads, SyncStep, SyncTypes, Syncs, NoSync
  <2>15. ~tab[t].open => \A r \in sync.mark : r[1] = t => r \in excused'
    BY <1>0, BusyIsUp, <2>2, <2>4 DEF SyncTableOf, Written, Unwritten, Of, DataTypes, TabTypes, Handle, PastTypes, disk, memory, past, promised, threads, SyncStep, SyncTypes, Syncs, NoSync
  <2>16. UNCHANGED <<server, tab, codes, op, devop, ins, cfg, dev, synced, log, gen, left, acked, devs, deleted, raced, stmts>>
    BY <1>0, BusyIsUp, <2>2, <2>4 DEF SyncTableOf, Written, Unwritten, Of, DataTypes, TabTypes, Handle, PastTypes, disk, memory, past, promised, threads, SyncStep, SyncTypes, Syncs, NoSync
  <2> QED
    BY <2>1, <2>2, <2>3, <2>4, <2>5, <2>6, <2>7, <2>8, <2>9, <2>10, <2>11, <2>12, <2>13, <2>14, <2>15, <2>16
<1>2. Up /\ (tab[t].open => ~Removed(t))
  BY <1>0, <1>1, BusyIsUp DEF OpenTabs, Removed, Removing, At
<1>3. \A r \in Records : Own(r)' /\ r[1] = t /\ tab[t].open => data'[t] # NoFile /\ r \in data'[t]
  <2>1. ASSUME NEW r \in Records, Own(r)', r[1] = t, tab[t].open
        PROVE  data'[t] # NoFile /\ r \in data'[t]
    <3>1. Own(r) /\ r \notin excused' /\ ~Raced("failed", t)
      BY <1>1, <2>1 DEF Own, Raced
    <3>2. InRows(r) /\ InFiles(r)
      BY <1>0, <3>1 DEF RowsOK
    <3>3. CASE tab[t].part
      <4>1. r \in tab[t].rows
        BY <2>1, <3>2, <3>3 DEF InRows
      <4>2. CASE tab[t].dw
        BY <1>1, <2>1, <3>3, <4>1, <4>2, Constants
      <4>3. CASE ~tab[t].dw
        BY <1>1, <2>1, <3>1, <3>3, <4>1, <4>3
      <4> QED
        BY <4>2, <4>3
    <3>4. CASE ~tab[t].part
      <4>1. data[t] # NoFile /\ r \in data[t]
        BY <1>0, <1>1, <1>2, <2>1, <3>1, <3>2, <3>4 DEF InFiles, InData, HasPart, EntriesOK, EntryOK
      <4> QED
        BY <1>1, <3>4, <4>1
    <3> QED
      BY <3>3, <3>4
  <2> QED
    BY <2>1
<1>4. ServerTypes' /\ TabTypes' /\ OpTypes' /\ DevOpTypes'
  BY <1>0, <1>1 DEF ServerTypes, TabTypes, OpTypes, DevOpTypes
<1>5. InsTypes' /\ CfgTypes' /\ DevTypes'
  BY <1>0, <1>1 DEF InsTypes, CfgTypes, DevTypes
<1>6. SyncedTypes' /\ LogTypes' /\ GenTypes'
  BY <1>0, <1>1 DEF SyncedTypes, LogTypes, GenTypes
<1>7. OpControl' /\ OpenTabs'
  BY <1>0, <1>1 DEF OpControl, OpenTabs, At, Creating, Removing, Up
<1>8. DevControl'
  BY <1>0, <1>1 DEF DevControl, AtRefs, At
<1>9. Origins' /\ DevOrigins'
  BY <1>0, <1>1 DEF Origins, DevOrigins
<1>10. SyncedDevs'
  BY <1>0, <1>1 DEF SyncedDevs
<1>11. NoDevsYet' /\ NewDevs'
  BY <1>0, <1>1 DEF NoDevsYet, NewDevs, Creating, At, Raced, Fresh
<1>12. PartEntry' /\ DevsOK'
  BY <1>0, <1>1 DEF PartEntry, DevsOK, HasPart, AtRefs, At, Raced
<1>13. CountsOK'
  BY <1>0, <1>1 DEF CountsOK, Overcounted, Raced, CountedDevs, OpenDevs, InDevs
<1>14. SyncTypes'
  BY <1>0, <1>1, <1>2, <1>3 DEF SyncTypes
<1>15. DataTypes'
  BY <1>0, <1>1, <1>2, <1>3 DEF DataTypes
<1>16. PastTypes'
  BY <1>0, <1>1, <1>2, <1>3 DEF PastTypes
<1>17. Down'
  BY <1>0, <1>1, <1>2, <1>3 DEF Down, Up
<1>18. InsControl'
  BY <1>0, <1>1, <1>2, <1>3 DEF InsControl, AtRefs, At
<1>19. SyncControl'
  BY <1>0, <1>1, <1>2, <1>3 DEF SyncControl
<1>20. RowOrigins'
  BY <1>0, <1>1, <1>2, <1>3 DEF RowOrigins
<1>21. PartFiles'
  BY <1>0, <1>1, <1>2, <1>3 DEF PartFiles, At
<1>22. ASSUME NEW u \in Tables, ~Raced("failed", u)'
      PROVE  EntryOK(u)' /\ LeftOK(u)'
  <2>1. EntryOK(u) /\ LeftOK(u) /\ ~Raced("failed", u)
    BY <1>0, <1>1, <1>22 DEF EntriesOK, Raced
  <2>2. EntryOK(u)'
    BY <1>0, <1>1, <1>2, <1>3, <2>1 DEF EntryOK, HasPart, Attaching, Creating, Removing, At, Up
  <2>3. LeftOK(u)'
    BY <1>0, <1>1, <1>2, <1>3, <2>1 DEF LeftOK, HasPart, Creating, Removed, Removing, At
  <2> QED
    BY <2>2, <2>3
<1>23. NewRows'
  BY <1>0, <1>1, <1>2, <1>3 DEF NewRows, Fresh, Raced
<1>24. ASSUME NEW r \in Records, Own(r)'
      PROVE  InRows(r)' /\ InFiles(r)' /\ MarkWritten(r)'
  <2>1. Own(r) /\ ~Raced("failed", r[1]) /\ InRows(r) /\ InFiles(r) /\ MarkWritten(r) /\ r[1] \in Tables /\ EntryOK(r[1]) /\ r \notin excused'
    BY <1>0, <1>1, <1>24 DEF RowsOK, Own, Raced, Records, EntriesOK
  <2>2. InRows(r)'
    BY <1>1, <2>1, <1>2, <1>3 DEF InRows
  <2>3. InFiles(r)'
    BY <1>1, <1>3, <2>1, <1>24 DEF InFiles, InData, HasPart, Removed, Removing, At
  <2>4. MarkWritten(r)'
    BY <1>1, <1>3, <2>1, <1>24 DEF MarkWritten, InData, Removed, Removing, At
  <2> QED
    BY <2>2, <2>3, <2>4
<1> QED
  BY <1>4, <1>5, <1>6, <1>7, <1>8, <1>9, <1>10, <1>11, <1>12, <1>13, <1>14, <1>15, <1>16, <1>17, <1>18, <1>19, <1>20, <1>21, <1>23, <1>22, <1>24 DEF IInv, EntriesOK, RowsOK

\* The log is given up to the sync point.
LEMMA CommitSyncPointKeeps ==
    ASSUME IInv, CommitSyncPoint
    PROVE  IInv'
<1>0. /\ ServerTypes /\ TabTypes /\ OpTypes /\ DevOpTypes /\ InsTypes /\ SyncTypes /\ CfgTypes
      /\ DevTypes /\ SyncedTypes /\ DataTypes /\ LogTypes /\ GenTypes /\ PastTypes
      /\ Down /\ OpControl /\ OpenTabs /\ DevControl /\ InsControl /\ SyncControl
      /\ Origins /\ DevOrigins /\ RowOrigins /\ SyncedDevs /\ PartFiles
      /\ EntriesOK /\ NoDevsYet /\ NewDevs /\ NewRows /\ CountsOK /\ RowsOK /\ PartEntry /\ DevsOK
  BY DEF IInv
<1>1. /\ Up
      /\ sync.pc = "next"
      /\ sync.tabs = {}
      /\ log' = log \ sync.mark
      /\ sync' \in Syncs
      /\ sync' = NoSync
      /\ sync'.pc = "idle"
      /\ sync'.mark = {}
      /\ UNCHANGED <<server, tab, codes, op, devop, ins, cfg, dev, synced, data, gen, left, acked, devs, deleted, excused, raced, stmts>>
  BY <1>0, BusyIsUp DEF CommitSyncPoint, disk, memory, past, promised, threads, SyncStep, SyncTypes, Syncs, NoSync
<1>2. ServerTypes' /\ TabTypes' /\ OpTypes' /\ DevOpTypes'
  BY <1>0, <1>1 DEF ServerTypes, TabTypes, OpTypes, DevOpTypes
<1>3. InsTypes' /\ CfgTypes' /\ DevTypes'
  BY <1>0, <1>1 DEF InsTypes, CfgTypes, DevTypes
<1>4. SyncedTypes' /\ DataTypes' /\ GenTypes' /\ PastTypes'
  BY <1>0, <1>1 DEF SyncedTypes, DataTypes, GenTypes, PastTypes
<1>5. OpControl' /\ OpenTabs'
  BY <1>0, <1>1 DEF OpControl, OpenTabs, At, Creating, Removing, Up
<1>6. DevControl'
  BY <1>0, <1>1 DEF DevControl, AtRefs, At
<1>7. DevOrigins' /\ RowOrigins'
  BY <1>0, <1>1 DEF DevOrigins, RowOrigins
<1>8. SyncedDevs' /\ PartFiles'
  BY <1>0, <1>1 DEF SyncedDevs, PartFiles, At
<1>9. NoDevsYet' /\ NewDevs'
  BY <1>0, <1>1 DEF NoDevsYet, NewDevs, Creating, At, Raced, Fresh
<1>10. PartEntry' /\ DevsOK'
  BY <1>0, <1>1 DEF PartEntry, DevsOK, HasPart, AtRefs, At, Raced
<1>11. CountsOK'
  BY <1>0, <1>1 DEF CountsOK, Overcounted, Raced, CountedDevs, OpenDevs, InDevs
<1>12. SyncTypes'
  BY <1>0, <1>1 DEF SyncTypes
<1>13. LogTypes'
  BY <1>0, <1>1 DEF LogTypes
<1>14. Down'
  BY <1>0, <1>1 DEF Down, Up
<1>15. InsControl'
  BY <1>0, <1>1 DEF InsControl, AtRefs, At
<1>16. SyncControl'
  BY <1>0, <1>1 DEF SyncControl
<1>17. Origins'
  BY <1>0, <1>1 DEF Origins
<1>18. EntriesOK'
  BY <1>0, <1>1 DEF EntriesOK, Raced, EntryOK, LeftOK, HasPart, Attaching, Creating, Removing, At, Up, Removed
<1>19. NewRows'
  BY <1>0, <1>1 DEF NewRows, Fresh, Raced
<1>20. ASSUME NEW r \in Records, Own(r)'
      PROVE  InRows(r)' /\ InFiles(r)' /\ MarkWritten(r)'
  <2>1. Own(r) /\ ~Raced("failed", r[1]) /\ InRows(r) /\ InFiles(r) /\ MarkWritten(r) /\ r[1] \in Tables /\ EntryOK(r[1])
    BY <1>0, <1>1, <1>20 DEF RowsOK, Own, Raced, Records, EntriesOK
  <2>2. InRows(r)'
    BY <1>1, <2>1 DEF InRows
  <2>3. InFiles(r)'
    BY <1>0, <1>1, <2>1 DEF InFiles, InData, HasPart, Removed, Removing, At, MarkWritten
  <2>4. MarkWritten(r)'
    BY <1>0, <1>1, <2>1 DEF MarkWritten, InData, Removed, Removing, At
  <2> QED
    BY <2>2, <2>3, <2>4
<1> QED
  BY <1>2, <1>3, <1>4, <1>5, <1>6, <1>7, <1>8, <1>9, <1>10, <1>11, <1>12, <1>13, <1>14, <1>15, <1>16, <1>17, <1>18, <1>19, <1>20 DEF IInv, RowsOK

\* The server dies.
LEMMA CrashKeeps ==
    ASSUME IInv, Crash
    PROVE  IInv'
<1>0. /\ ServerTypes /\ TabTypes /\ OpTypes /\ DevOpTypes /\ InsTypes /\ SyncTypes /\ CfgTypes
      /\ DevTypes /\ SyncedTypes /\ DataTypes /\ LogTypes /\ GenTypes /\ PastTypes
      /\ Down /\ OpControl /\ OpenTabs /\ DevControl /\ InsControl /\ SyncControl
      /\ Origins /\ DevOrigins /\ RowOrigins /\ SyncedDevs /\ PartFiles
      /\ EntriesOK /\ NoDevsYet /\ NewDevs /\ NewRows /\ CountsOK /\ RowsOK /\ PartEntry /\ DevsOK
  BY DEF IInv
<1> DEFINE all == UNION {dev[t] \cup synced[t] : t \in {u \in Tables : dev[u] # NoFile}}
<1>a. PICK kept \in SUBSET all :
         /\ dev' = [t \in Tables |-> IF dev[t] = NoFile THEN NoFile ELSE (dev[t] \cap synced[t]) \cup Of(t, kept)]
         /\ synced' = [t \in Tables |-> IF dev'[t] = NoFile THEN {} ELSE dev'[t]]
  BY DEF Crash
<1>b. \A v \in Tables : dev[v] # NoFile => /\ dev[v] \in SUBSET Items /\ dev'[v] \in SUBSET Items
                                         /\ dev[v] \cap synced[v] \subseteq dev'[v] /\ dev'[v] \subseteq dev[v] \cup synced[v]
  <2> SUFFICES ASSUME NEW v \in Tables, dev[v] # NoFile
               PROVE  /\ dev[v] \in SUBSET Items /\ dev'[v] \in SUBSET Items
                      /\ dev[v] \cap synced[v] \subseteq dev'[v] /\ dev'[v] \subseteq dev[v] \cup synced[v]
    OBVIOUS
  <2>1. dev[v] \in SUBSET Items /\ synced[v] \in SUBSET Items
    BY <1>0 DEF DevTypes, SyncedTypes
  <2>2. dev'[v] = (dev[v] \cap synced[v]) \cup Of(v, kept)
    BY <1>a
  <2>3. ASSUME NEW x \in Of(v, kept)
        PROVE  x \in dev[v] \cup synced[v]
    <3>1. PICK u \in Tables : dev[u] # NoFile /\ x \in dev[u] \cup synced[u]
      BY DEF Of
    <3>2. x[1] = u /\ x[1] = v
      BY <1>0, <3>1 DEF DevOrigins, Of
    <3> QED
      BY <3>1, <3>2
  <2> QED
    BY <2>1, <2>2, <2>3
<1>c. excused' = excused \cup (IF op.pc \in {"files", "device file"} THEN tab[op.tab].rows ELSE {})
  BY DEF Crash
<1>1. /\ Up
      /\ server' \in {"down", "torn"}
      /\ ~Up'
      /\ stmts' = stmts + 1 /\ stmts < MaxStmts
      /\ codes' = Codes
      /\ tab' = [v \in Tables |-> Closed]
      /\ op' = NoOp /\ devop' = NoDevOp /\ ins' = NoIns /\ sync' = NoSync
      /\ (\A v \in Tables : tab'[v] = Closed /\ ~tab'[v].open /\ ~tab'[v].part /\ tab'[v].rows = {}) /\ op'.pc = "idle" /\ op'.kind = "none" /\ devop'.pc = "idle" /\ devop'.kind = "none" /\ ins'.pc = "idle" /\ sync'.pc = "idle" /\ sync'.mark = {}
      /\ tab' \in [Tables -> Handle] /\ op' \in Statements /\ devop' \in DevStatements /\ ins' \in Inserts /\ sync' \in Syncs
      /\ dev' \in [Tables -> {NoFile} \cup SUBSET Items]
      /\ \A v \in Tables : dev'[v] = NoFile <=> dev[v] = NoFile
      /\ \A v \in Tables : dev[v] # NoFile => \A x : (x \in dev'[v] => x \in dev[v] \/ x \in synced[v]) /\ (x \in dev[v] /\ x \in synced[v] => x \in dev'[v])
      /\ synced' \in [Tables -> SUBSET Items]
      /\ \A v \in Tables : synced'[v] = (IF dev'[v] = NoFile THEN {} ELSE dev'[v])
      /\ left \subseteq left' /\ left' \in SUBSET Tables
      /\ \A v \in Tables : dev[v] # NoFile /\ cfg[v] = <<>> => v \in left'
      /\ excused \subseteq excused' /\ excused' \in SUBSET Records
      /\ op.pc \in {"files", "device file"} => tab[op.tab].rows \subseteq excused'
      /\ UNCHANGED <<cfg, data, log, gen, acked, devs, deleted, raced>>
  <2>1. Up
    BY <1>0 DEF Crash, NoMemory, Up, Unlisted, PastTypes, disk, memory, past, promised, threads
  <2>2. server' \in {"down", "torn"}
    BY <1>0 DEF Crash, NoMemory, Up, Unlisted, PastTypes, disk, memory, past, promised, threads
  <2>3. ~Up'
    BY <2>2 DEF Up
  <2>4. stmts' = stmts + 1 /\ stmts < MaxStmts
    BY <1>0 DEF Crash, NoMemory, Up, Unlisted, PastTypes, disk, memory, past, promised, threads
  <2>5. codes' = Codes
    BY <1>0 DEF Crash, NoMemory, Up, Unlisted, PastTypes, disk, memory, past, promised, threads
  <2>6. tab' = [v \in Tables |-> Closed]
    BY <1>0 DEF Crash, NoMemory, Up, Unlisted, PastTypes, disk, memory, past, promised, threads
  <2>7. op' = NoOp /\ devop' = NoDevOp /\ ins' = NoIns /\ sync' = NoSync
    BY <1>0 DEF Crash, NoMemory, Up, Unlisted, PastTypes, disk, memory, past, promised, threads
  <2>8. (\A v \in Tables : tab'[v] = Closed /\ ~tab'[v].open /\ ~tab'[v].part /\ tab'[v].rows = {}) /\ op'.pc = "idle" /\ op'.kind = "none" /\ devop'.pc = "idle" /\ devop'.kind = "none" /\ ins'.pc = "idle" /\ sync'.pc = "idle" /\ sync'.mark = {}
    BY <2>6, <2>7 DEF Closed, NoOp, NoDevOp, NoIns, NoSync
  <2>9. tab' \in [Tables -> Handle] /\ op' \in Statements /\ devop' \in DevStatements /\ ins' \in Inserts /\ sync' \in Syncs
    BY NoMemoryTypes DEF Crash
  <2>10. dev' \in [Tables -> {NoFile} \cup SUBSET Items]
    BY <1>0, <1>a, <1>b
  <2>11. \A v \in Tables : dev'[v] = NoFile <=> dev[v] = NoFile
    BY <1>0, <1>a, <1>b, Constants
  <2>12. \A v \in Tables : dev[v] # NoFile => \A x : (x \in dev'[v] => x \in dev[v] \/ x \in synced[v]) /\ (x \in dev[v] /\ x \in synced[v] => x \in dev'[v])
    BY <1>a, <1>b
  <2>13. synced' \in [Tables -> SUBSET Items]
    BY <1>a, <2>10, Constants
  <2>14. \A v \in Tables : synced'[v] = (IF dev'[v] = NoFile THEN {} ELSE dev'[v])
    BY <1>a
  <2>15. left \subseteq left' /\ left' \in SUBSET Tables
    BY <1>0 DEF Crash, NoMemory, Up, Unlisted, PastTypes, disk, memory, past, promised, threads
  <2>16. \A v \in Tables : dev[v] # NoFile /\ cfg[v] = <<>> => v \in left'
    BY <1>0 DEF Crash, NoMemory, Up, Unlisted, PastTypes, disk, memory, past, promised, threads
  <2>17. excused \subseteq excused' /\ excused' \in SUBSET Records
    BY <1>0, <1>c DEF PastTypes, OpControl, TabTypes, Handle
  <2>18. op.pc \in {"files", "device file"} => tab[op.tab].rows \subseteq excused'
    BY <1>c
  <2>19. UNCHANGED <<cfg, data, log, gen, acked, devs, deleted, raced>>
    BY <1>0 DEF Crash, NoMemory, Up, Unlisted, PastTypes, disk, memory, past, promised, threads
  <2> QED
    BY <2>1, <2>2, <2>3, <2>4, <2>5, <2>6, <2>7, <2>8, <2>9, <2>10, <2>11, <2>12, <2>13, <2>14, <2>15, <2>16, <2>17, <2>18, <2>19
<1>2. op'.pc = "idle" /\ op'.kind = "none" /\ devop'.pc = "idle" /\ devop'.kind = "none" /\ ins'.pc = "idle" /\ sync'.pc = "idle" /\ sync'.mark = {}
      /\ op' = NoOp /\ devop' = NoDevOp /\ ins' = NoIns /\ sync' = NoSync /\ UNCHANGED raced
  <2>1. op'.pc = "idle" /\ op'.kind = "none" /\ devop'.pc = "idle" /\ devop'.kind = "none" /\ ins'.pc = "idle" /\ sync'.pc = "idle" /\ sync'.mark = {}
    BY <1>1
  <2>2. op' = NoOp /\ devop' = NoDevOp /\ ins' = NoIns /\ sync' = NoSync
    BY <1>1
  <2>3. UNCHANGED raced
    BY <1>1
  <2> QED
    BY <2>1, <2>2, <2>3, Zenon
<1>3. /\ \A v \in Tables : dev'[v] = NoFile <=> dev[v] = NoFile
      /\ \A v \in Tables : dev[v] # NoFile => \A x : (x \in dev'[v] => x \in dev[v] \/ x \in synced[v]) /\ (x \in dev[v] /\ x \in synced[v] => x \in dev'[v])
      /\ \A v \in Tables : synced'[v] = (IF dev'[v] = NoFile THEN {} ELSE dev'[v])
      /\ UNCHANGED gen
  BY <1>1
<1>4. server' \in {"down", "torn"} /\ stmts' = stmts + 1 /\ stmts < MaxStmts /\ codes' = Codes /\ UNCHANGED gen
  BY <1>1
<1>5. CfgTypes'
  BY <1>0, <1>1 DEF CfgTypes
<1>6. DataTypes' /\ LogTypes'
  BY <1>0, <1>1 DEF DataTypes, LogTypes
<1>7. Origins'
  BY <1>0, <1>1 DEF Origins
<1>8. ServerTypes'
  BY <1>0, <1>4, Constants DEF ServerTypes
<1>9. TabTypes'
  BY <1>0, <1>1, <1>2, <1>3, <1>4 DEF TabTypes
<1>10. OpTypes'
  BY <1>0, <1>1, <1>2, <1>3, <1>4 DEF OpTypes
<1>11. DevOpTypes'
  BY <1>0, <1>1, <1>2, <1>3, <1>4 DEF DevOpTypes
<1>12. InsTypes'
  BY <1>0, <1>1, <1>2, <1>3, <1>4 DEF InsTypes
<1>13. SyncTypes'
  BY <1>0, <1>1, <1>2, <1>3, <1>4 DEF SyncTypes
<1>14. DevTypes'
  BY <1>0, <1>1, <1>2, <1>3, <1>4 DEF DevTypes
<1>15. SyncedTypes'
  BY <1>0, <1>1, <1>2, <1>3, <1>4 DEF SyncedTypes
<1>16. GenTypes'
  BY <1>0, <1>4, Constants DEF GenTypes, Gens, ServerTypes
<1>17. PastTypes'
  BY <1>0, <1>1, <1>2, <1>3, <1>4 DEF PastTypes
<1>18. Down'
  BY <1>0, <1>1, <1>2, <1>3, <1>4 DEF Down, Up
<1>19. OpControl'
  BY <1>0, <1>1, <1>2, <1>3, <1>4 DEF OpControl
<1>20. OpenTabs'
  BY <1>0, <1>1, <1>2, <1>3, <1>4 DEF OpenTabs, At, Creating, Removing, Up
<1>21. DevControl'
  BY <1>0, <1>1, <1>2, <1>3, <1>4 DEF DevControl, AtRefs, At
<1>22. InsControl'
  BY <1>0, <1>1, <1>2, <1>3, <1>4 DEF InsControl, AtRefs, At
<1>23. SyncControl'
  BY <1>2 DEF SyncControl
<1>24. DevOrigins'
  BY <1>0, <1>3 DEF DevOrigins
<1>25. RowOrigins'
  BY <1>0, <1>1, <1>2, <1>3, <1>4 DEF RowOrigins
<1>26. SyncedDevs'
  BY <1>0, <1>1, <1>2, <1>3, <1>4 DEF SyncedDevs
<1>27. PartFiles'
  BY <1>0, <1>1, <1>2, <1>3, <1>4 DEF PartFiles, At
<1>28. ASSUME NEW u \in Tables, ~Raced("failed", u)'
      PROVE  EntryOK(u)' /\ LeftOK(u)'
  <2>1. EntryOK(u) /\ LeftOK(u) /\ ~Raced("failed", u)
    BY <1>0, <1>1, <1>28 DEF EntriesOK, Raced
  <2>2. EntryOK(u)'
    BY <1>0, <1>1, <1>2, <1>3, <1>4, <2>1 DEF EntryOK, HasPart, Attaching, Creating, Removing, At, Up
  <2>3. LeftOK(u)'
    BY <1>0, <1>1, <1>2, <1>3, <1>4, <2>1, Constants DEF LeftOK, HasPart, Creating, Removed, Removing, At, EntryOK, OpenTabs
  <2> QED
    BY <2>2, <2>3
<1>29. NoDevsYet'
  BY <1>0, <1>1, <1>2, <1>3, <1>4 DEF NoDevsYet, Creating, At, Raced
<1>30. NewDevs'
  BY <1>0, <1>2, <1>3 DEF NewDevs, Fresh, Raced
<1>31. NewRows'
  BY <1>0, <1>1 DEF NewRows, Fresh, Raced
<1>32. CountsOK'
  <2>1. CountedDevs' \subseteq CountedDevs
    BY <1>1 DEF CountedDevs, InDevs
  <2>2. OpenDevs' \subseteq OpenDevs
    BY <1>1 DEF OpenDevs
  <2> QED
    BY <1>0, <1>2, <2>1, <2>2, CountsShrink
<1>33. ASSUME NEW r \in Records, Own(r)'
      PROVE  InRows(r)' /\ InFiles(r)' /\ MarkWritten(r)'
  <2>1. Own(r) /\ ~Raced("failed", r[1]) /\ InRows(r) /\ InFiles(r) /\ MarkWritten(r) /\ r[1] \in Tables /\ EntryOK(r[1]) /\ (Removed(r[1]) => ~tab[r[1]].part)
    <3>1. Own(r) /\ r \notin excused' /\ ~Raced("failed", r[1]) /\ r[1] \in Tables
      BY <1>1, <1>33, Fields DEF Own, Raced
    <3>2. InRows(r) /\ InFiles(r) /\ MarkWritten(r) /\ EntryOK(r[1])
      BY <1>0, <3>1 DEF RowsOK, EntriesOK
    <3>3. ASSUME Removed(r[1]), tab[r[1]].part
          PROVE  FALSE
      <4>1. op.tab = r[1] /\ op.pc \in {"files", "device file"}
        BY <3>3 DEF Removed, Removing, At
      <4>2. r \in tab[r[1]].rows
        BY <3>2, <3>3 DEF InRows
      <4> QED
        BY <1>1, <3>1, <4>1, <4>2
    <3> QED
      BY <3>1, <3>2, <3>3
  <2>2. InRows(r)'
    BY <1>0, <1>1, <1>2, <1>3, <1>4, <2>1 DEF InRows
  <2>3. InFiles(r)'
    BY <1>0, <1>1, <1>2, <1>3, <1>4, <2>1 DEF InFiles, InData, HasPart, Removed, Removing, At
  <2>4. MarkWritten(r)'
    BY <1>0, <1>1, <1>2, <1>3, <1>4, <2>1 DEF MarkWritten, InData, Removed, Removing, At
  <2> QED
    BY <2>2, <2>3, <2>4
<1>34. PartEntry'
  BY <1>0, <1>1, <1>2, <1>3, <1>4 DEF PartEntry, HasPart, AtRefs, At, Raced
<1>35. DevsOK'
  BY <1>0, <1>1, <1>3 DEF DevsOK, Raced
<1> QED
  BY <1>5, <1>6, <1>7, <1>8, <1>9, <1>10, <1>11, <1>12, <1>13, <1>14, <1>15, <1>16, <1>17, <1>18, <1>19, <1>20, <1>21, <1>22, <1>23, <1>24, <1>25, <1>26, <1>27, <1>29, <1>30, <1>31, <1>32, <1>34, <1>35, <1>28, <1>33 DEF IInv, EntriesOK, RowsOK

\* The server is stopped.
LEMMA StopKeeps ==
    ASSUME IInv, Stop
    PROVE  IInv'
<1>0. /\ ServerTypes /\ TabTypes /\ OpTypes /\ DevOpTypes /\ InsTypes /\ SyncTypes /\ CfgTypes
      /\ DevTypes /\ SyncedTypes /\ DataTypes /\ LogTypes /\ GenTypes /\ PastTypes
      /\ Down /\ OpControl /\ OpenTabs /\ DevControl /\ InsControl /\ SyncControl
      /\ Origins /\ DevOrigins /\ RowOrigins /\ SyncedDevs /\ PartFiles
      /\ EntriesOK /\ NoDevsYet /\ NewDevs /\ NewRows /\ CountsOK /\ RowsOK /\ PartEntry /\ DevsOK
  BY DEF IInv
<1>1. /\ Up
      /\ server' = "down"
      /\ ~Up'
      /\ op.pc = "idle" /\ devop.kind # "delete"
      /\ codes' = Codes
      /\ tab' = [v \in Tables |-> Closed]
      /\ op' = NoOp /\ devop' = NoDevOp /\ ins' = NoIns /\ sync' = NoSync
      /\ (\A v \in Tables : tab'[v] = Closed /\ ~tab'[v].open /\ ~tab'[v].part /\ tab'[v].rows = {}) /\ op'.pc = "idle" /\ op'.kind = "none" /\ devop'.pc = "idle" /\ devop'.kind = "none" /\ ins'.pc = "idle" /\ sync'.pc = "idle" /\ sync'.mark = {}
      /\ tab' \in [Tables -> Handle] /\ op' \in Statements /\ devop' \in DevStatements /\ ins' \in Inserts /\ sync' \in Syncs
      /\ \A v \in Tables : tab[v].part => data[v] # NoFile
      /\ \A v \in Tables : data'[v] = Written(v)
      /\ \A v \in Tables : tab[v].part /\ tab[v].dw => data'[v] = tab[v].rows
      /\ \A v \in Tables : ~(tab[v].part /\ tab[v].dw) => data'[v] = data[v]
      /\ data' \in [Tables -> {NoFile} \cup SUBSET Records]
      /\ \A v \in Tables : data'[v] = NoFile <=> data[v] = NoFile
      /\ log' = {}
      /\ synced' \in [Tables -> SUBSET Items]
      /\ \A v \in Tables : synced'[v] = (IF dev[v] = NoFile THEN {} ELSE dev[v])
      /\ excused \subseteq excused' /\ excused' \in SUBSET Records
      /\ \A v \in Tables : tab[v].part /\ ~tab[v].dw => tab[v].rows \ data[v] \subseteq excused'
      /\ UNCHANGED <<cfg, dev, gen, left, acked, devs, deleted, raced, stmts>>
  <2>1. Up
    BY <1>0 DEF Stop, NoMemory, NoOp, NoDevOp, Up, disk, memory, past, promised, threads
  <2>2. server' = "down"
    BY <1>0 DEF Stop, NoMemory, NoOp, NoDevOp, Up, disk, memory, past, promised, threads
  <2>3. ~Up'
    BY <2>2 DEF Up
  <2>4. op.pc = "idle" /\ devop.kind # "delete"
    BY <1>0 DEF Stop, NoMemory, NoOp, NoDevOp, Up, disk, memory, past, promised, threads
  <2>5. codes' = Codes
    BY <1>0, <2>4 DEF Stop, NoMemory, NoOp, NoDevOp, Up, disk, memory, past, promised, threads
  <2>6. tab' = [v \in Tables |-> Closed]
    BY <1>0, <2>4 DEF Stop, NoMemory, NoOp, NoDevOp, Up, disk, memory, past, promised, threads
  <2>7. op' = NoOp /\ devop' = NoDevOp /\ ins' = NoIns /\ sync' = NoSync
    BY <1>0, <2>4 DEF Stop, NoMemory, NoOp, NoDevOp, Up, disk, memory, past, promised, threads
  <2>8. (\A v \in Tables : tab'[v] = Closed /\ ~tab'[v].open /\ ~tab'[v].part /\ tab'[v].rows = {}) /\ op'.pc = "idle" /\ op'.kind = "none" /\ devop'.pc = "idle" /\ devop'.kind = "none" /\ ins'.pc = "idle" /\ sync'.pc = "idle" /\ sync'.mark = {}
    BY <2>6, <2>7 DEF Closed, NoOp, NoDevOp, NoIns, NoSync
  <2>9. tab' \in [Tables -> Handle] /\ op' \in Statements /\ devop' \in DevStatements /\ ins' \in Inserts /\ sync' \in Syncs
    BY NoMemoryTypes DEF Stop
  <2>10. \A v \in Tables : tab[v].part => data[v] # NoFile
    BY <1>0, <2>4 DEF PartFiles, At
  <2>11. \A v \in Tables : data'[v] = Written(v)
    BY DEF Stop
  <2>12. \A v \in Tables : tab[v].part /\ tab[v].dw => data'[v] = tab[v].rows
    BY <2>11 DEF Written
  <2>13. \A v \in Tables : ~(tab[v].part /\ tab[v].dw) => data'[v] = data[v]
    BY <2>11 DEF Written
  <2>14. data' \in [Tables -> {NoFile} \cup SUBSET Records]
    BY <1>0 DEF Stop, Written, DataTypes, TabTypes, Handle
  <2>15. \A v \in Tables : data'[v] = NoFile <=> data[v] = NoFile
    BY <1>0, <2>10, <2>12, <2>13, Constants DEF TabTypes, Handle
  <2>16. log' = {}
    BY DEF Stop
  <2>17. synced' \in [Tables -> SUBSET Items]
    BY <1>0 DEF Stop, DevTypes
  <2>18. \A v \in Tables : synced'[v] = (IF dev[v] = NoFile THEN {} ELSE dev[v])
    BY DEF Stop
  <2>19. excused \subseteq excused' /\ excused' \in SUBSET Records
    BY <1>0 DEF Stop, PastTypes, Unwritten, TabTypes, Handle
  <2>20. \A v \in Tables : tab[v].part /\ ~tab[v].dw => tab[v].rows \ data[v] \subseteq excused'
    BY DEF Stop, Unwritten
  <2>21. UNCHANGED <<cfg, dev, gen, left, acked, devs, deleted, raced, stmts>>
    BY <1>0, <2>4 DEF Stop, NoMemory, NoOp, NoDevOp, Up, disk, memory, past, promised, threads
  <2> QED
    BY <2>1, <2>2, <2>3, <2>4, <2>5, <2>6, <2>7, <2>8, <2>9, <2>10, <2>11, <2>12, <2>13, <2>14, <2>15, <2>16, <2>17, <2>18, <2>19, <2>20, <2>21
<1>2. op'.pc = "idle" /\ op'.kind = "none" /\ devop'.pc = "idle" /\ devop'.kind = "none" /\ ins'.pc = "idle" /\ sync'.pc = "idle" /\ sync'.mark = {}
      /\ op' = NoOp /\ devop' = NoDevOp /\ ins' = NoIns /\ sync' = NoSync /\ UNCHANGED raced
  <2>1. op'.pc = "idle" /\ op'.kind = "none" /\ devop'.pc = "idle" /\ devop'.kind = "none" /\ ins'.pc = "idle" /\ sync'.pc = "idle" /\ sync'.mark = {}
    BY <1>1
  <2>2. op' = NoOp /\ devop' = NoDevOp /\ ins' = NoIns /\ sync' = NoSync
    BY <1>1
  <2>3. UNCHANGED raced
    BY <1>1
  <2> QED
    BY <2>1, <2>2, <2>3, Zenon
<1>3. \A r \in Records : Own(r)' => data'[r[1]] # NoFile /\ r \in data'[r[1]]
  <2>1. ASSUME NEW r \in Records, Own(r)'
        PROVE  data'[r[1]] # NoFile /\ r \in data'[r[1]]
    <3>1. Own(r) /\ r \notin excused' /\ ~Raced("failed", r[1]) /\ r[1] \in Tables
      BY <1>1, <2>1, Fields DEF Own, Raced
    <3>2. InRows(r) /\ InFiles(r) /\ EntryOK(r[1])
      BY <1>0, <3>1 DEF RowsOK, EntriesOK
    <3>3. CASE tab[r[1]].part
      <4>1. r \in tab[r[1]].rows
        BY <3>2, <3>3 DEF InRows
      <4>2. CASE tab[r[1]].dw
        BY <1>1, <3>1, <3>3, <4>1, <4>2
      <4>3. CASE ~tab[r[1]].dw
        BY <1>1, <3>1, <3>3, <4>1, <4>3
      <4> QED
        BY <4>2, <4>3
    <3>4. CASE ~tab[r[1]].part
      <4>1. data[r[1]] # NoFile /\ r \in data[r[1]]
        BY <1>1, <3>2, <3>4 DEF InFiles, InData, HasPart, EntryOK
      <4> QED
        BY <1>1, <3>1, <3>4, <4>1
    <3> QED
      BY <3>3, <3>4
  <2> QED
    BY <2>1
<1>4. CfgTypes' /\ DevTypes'
  BY <1>0, <1>1 DEF CfgTypes, DevTypes
<1>5. GenTypes'
  BY <1>0, <1>1 DEF GenTypes
<1>6. ServerTypes'
  BY <1>0, <1>1, <1>2, <1>3, Constants DEF ServerTypes
<1>7. TabTypes'
  BY <1>0, <1>1, <1>2, <1>3 DEF TabTypes
<1>8. OpTypes'
  BY <1>0, <1>1, <1>2, <1>3 DEF OpTypes
<1>9. DevOpTypes'
  BY <1>0, <1>1, <1>2, <1>3 DEF DevOpTypes
<1>10. InsTypes'
  BY <1>0, <1>1, <1>2, <1>3 DEF InsTypes
<1>11. SyncTypes'
  BY <1>0, <1>1, <1>2, <1>3 DEF SyncTypes
<1>12. SyncedTypes'
  BY <1>0, <1>1, <1>2, <1>3 DEF SyncedTypes
<1>13. DataTypes'
  BY <1>0, <1>1, <1>2, <1>3 DEF DataTypes
<1>14. LogTypes'
  BY <1>0, <1>1, <1>2, <1>3 DEF LogTypes
<1>15. PastTypes'
  BY <1>0, <1>1, <1>2, <1>3 DEF PastTypes
<1>16. Down'
  BY <1>0, <1>1, <1>2, <1>3 DEF Down, Up
<1>17. OpControl'
  BY <1>0, <1>1, <1>2, <1>3 DEF OpControl
<1>18. OpenTabs'
  BY <1>0, <1>1, <1>2, <1>3 DEF OpenTabs, At, Creating, Removing, Up
<1>19. DevControl'
  BY <1>0, <1>1, <1>2, <1>3 DEF DevControl, AtRefs, At
<1>20. InsControl'
  BY <1>0, <1>1, <1>2, <1>3 DEF InsControl, AtRefs, At
<1>21. SyncControl'
  BY <1>2 DEF SyncControl
<1>22. Origins'
  BY <1>0, <1>1, <1>2, <1>3 DEF Origins
<1>23. DevOrigins'
  BY <1>0, <1>1, <1>2, <1>3 DEF DevOrigins
<1>24. RowOrigins'
  BY <1>0, <1>1, <1>2, <1>3 DEF RowOrigins
<1>25. SyncedDevs'
  BY <1>0, <1>1, <1>2, <1>3 DEF SyncedDevs
<1>26. PartFiles'
  BY <1>0, <1>1, <1>2, <1>3 DEF PartFiles, At
<1>27. ASSUME NEW u \in Tables, ~Raced("failed", u)'
      PROVE  EntryOK(u)' /\ LeftOK(u)'
  <2>1. EntryOK(u) /\ LeftOK(u) /\ ~Raced("failed", u)
    BY <1>0, <1>1, <1>27 DEF EntriesOK, Raced
  <2>2. EntryOK(u)'
    BY <1>0, <1>1, <1>2, <1>3, <2>1 DEF EntryOK, HasPart, Attaching, Creating, Removing, At, Up
  <2>3. LeftOK(u)'
    BY <1>0, <1>1, <1>2, <1>3, <2>1 DEF LeftOK, HasPart, Creating, Removed, Removing, At
  <2> QED
    BY <2>2, <2>3
<1>28. NoDevsYet'
  BY <1>0, <1>1, <1>2, <1>3 DEF NoDevsYet, Creating, At, Raced
<1>29. NewDevs'
  BY <1>0, <1>1, <1>2, <1>3 DEF NewDevs, Fresh, Raced
<1>30. NewRows'
  BY <1>0, <1>1, <1>2, <1>3 DEF NewRows, Fresh, Raced
<1>31. CountsOK'
  <2>1. CountedDevs' \subseteq CountedDevs
    BY <1>1 DEF CountedDevs, InDevs
  <2>2. OpenDevs' \subseteq OpenDevs
    BY <1>1 DEF OpenDevs
  <2> QED
    BY <1>0, <1>2, <2>1, <2>2, CountsShrink
<1>32. ASSUME NEW r \in Records, Own(r)'
      PROVE  InRows(r)' /\ InFiles(r)' /\ MarkWritten(r)'
  <2>1. Own(r) /\ ~Raced("failed", r[1]) /\ InRows(r) /\ InFiles(r) /\ MarkWritten(r) /\ r[1] \in Tables /\ EntryOK(r[1])
    BY <1>0, <1>1, <1>32 DEF RowsOK, Own, Raced, Records, EntriesOK
  <2>2. InRows(r)'
    BY <1>0, <1>1, <1>2, <1>3, <2>1 DEF InRows
  <2>3. InFiles(r)'
    BY <1>3, <2>1, <1>32 DEF InFiles, InData
  <2>4. MarkWritten(r)'
    BY <1>0, <1>1, <1>2, <1>3, <2>1 DEF MarkWritten, InData, Removed, Removing, At
  <2> QED
    BY <2>2, <2>3, <2>4
<1>33. PartEntry'
  BY <1>0, <1>1, <1>2, <1>3 DEF PartEntry, HasPart, AtRefs, At, Raced
<1>34. DevsOK'
  BY <1>0, <1>1, <1>2, <1>3 DEF DevsOK, Raced
<1> QED
  BY <1>4, <1>5, <1>6, <1>7, <1>8, <1>9, <1>10, <1>11, <1>12, <1>13, <1>14, <1>15, <1>16, <1>17, <1>18, <1>19, <1>20, <1>21, <1>22, <1>23, <1>24, <1>25, <1>26, <1>28, <1>29, <1>30, <1>31, <1>33, <1>34, <1>27, <1>32 DEF IInv, EntriesOK, RowsOK

\* The server does not start.
LEMMA RefuseKeeps ==
    ASSUME IInv, server \in {"down", "torn"}, server' = "refused",
           UNCHANGED <<memory, threads, disk, past, stmts>>
    PROVE  IInv'
<1>0. /\ ServerTypes /\ TabTypes /\ OpTypes /\ DevOpTypes /\ InsTypes /\ SyncTypes /\ CfgTypes
      /\ DevTypes /\ SyncedTypes /\ DataTypes /\ LogTypes /\ GenTypes /\ PastTypes
      /\ Down /\ OpControl /\ OpenTabs /\ DevControl /\ InsControl /\ SyncControl
      /\ Origins /\ DevOrigins /\ RowOrigins /\ SyncedDevs /\ PartFiles
      /\ EntriesOK /\ NoDevsYet /\ NewDevs /\ NewRows /\ CountsOK /\ RowsOK /\ PartEntry /\ DevsOK
  BY DEF IInv
<1>1. /\ server' = "refused"
      /\ ~Up
      /\ ~Up'
      /\ UNCHANGED <<tab, codes, op, devop, ins, sync, cfg, dev, synced, data, log, gen, left, acked, devs, deleted, excused, raced, stmts>>
  BY <1>0 DEF Up, disk, memory, past, promised, threads
<1>2. TabTypes' /\ OpTypes' /\ DevOpTypes'
  BY <1>0, <1>1 DEF TabTypes, OpTypes, DevOpTypes
<1>3. InsTypes' /\ SyncTypes' /\ CfgTypes' /\ DevTypes'
  BY <1>0, <1>1 DEF InsTypes, SyncTypes, CfgTypes, DevTypes
<1>4. SyncedTypes' /\ DataTypes' /\ LogTypes' /\ GenTypes' /\ PastTypes'
  BY <1>0, <1>1 DEF SyncedTypes, DataTypes, LogTypes, GenTypes, PastTypes
<1>5. OpControl'
  BY <1>0, <1>1 DEF OpControl
<1>6. DevControl' /\ InsControl' /\ SyncControl'
  BY <1>0, <1>1 DEF DevControl, InsControl, SyncControl, AtRefs, At
<1>7. Origins' /\ DevOrigins' /\ RowOrigins'
  BY <1>0, <1>1 DEF Origins, DevOrigins, RowOrigins
<1>8. SyncedDevs' /\ PartFiles'
  BY <1>0, <1>1 DEF SyncedDevs, PartFiles, At
<1>9. NoDevsYet' /\ NewDevs' /\ NewRows'
  BY <1>0, <1>1 DEF NoDevsYet, NewDevs, NewRows, Creating, At, Raced, Fresh
<1>10. PartEntry' /\ DevsOK'
  BY <1>0, <1>1 DEF PartEntry, DevsOK, HasPart, AtRefs, At, Raced
<1>11. CountsOK'
  BY <1>0, <1>1 DEF CountsOK, Overcounted, Raced, CountedDevs, OpenDevs, InDevs
<1>12. ServerTypes'
  BY <1>0, <1>1 DEF ServerTypes
<1>13. Down'
  BY <1>0, <1>1 DEF Down, Up
<1>14. OpenTabs'
  BY <1>0, <1>1 DEF OpenTabs, At, Creating, Removing, Up
<1>15. ASSUME NEW u \in Tables, ~Raced("failed", u)'
      PROVE  EntryOK(u)' /\ LeftOK(u)'
  <2>1. EntryOK(u) /\ LeftOK(u) /\ ~Raced("failed", u)
    BY <1>0, <1>1, <1>15 DEF EntriesOK, Raced
  <2>2. EntryOK(u)'
    BY <1>0, <1>1, <2>1 DEF EntryOK, HasPart, Attaching, Creating, Removing, At, Up
  <2>3. LeftOK(u)'
    BY <1>1, <2>1 DEF LeftOK, HasPart, Creating, Removed, Removing, At
  <2> QED
    BY <2>2, <2>3
<1>16. RowsOK'
  BY <1>0, <1>1 DEF RowsOK, Own, Raced, InRows, InFiles, MarkWritten, InData, HasPart, Removed, Removing, At
<1> QED
  BY <1>2, <1>3, <1>4, <1>5, <1>6, <1>7, <1>8, <1>9, <1>10, <1>11, <1>12, <1>13, <1>14, <1>16, <1>15 DEF IInv, EntriesOK

\* The server starts.
LEMMA StartKeeps ==
    ASSUME IInv, Start, server' # "refused"
    PROVE  IInv'
<1>0. /\ ServerTypes /\ TabTypes /\ OpTypes /\ DevOpTypes /\ InsTypes /\ SyncTypes /\ CfgTypes
      /\ DevTypes /\ SyncedTypes /\ DataTypes /\ LogTypes /\ GenTypes /\ PastTypes
      /\ Down /\ OpControl /\ OpenTabs /\ DevControl /\ InsControl /\ SyncControl
      /\ Origins /\ DevOrigins /\ RowOrigins /\ SyncedDevs /\ PartFiles
      /\ EntriesOK /\ NoDevsYet /\ NewDevs /\ NewRows /\ CountsOK /\ RowsOK /\ PartEntry /\ DevsOK
  BY DEF IInv
<1>a. CanStart /\ server \in {"down", "torn"}
  BY Zenon DEF Start
<1>b. server' = "up" /\ codes' = Codes - Cardinality(Listed)
  BY Zenon DEF Start
<1>c. tab' = [t \in Tables |-> IF t \notin Listed THEN Closed
                             ELSE [open |-> TRUE, part |-> cfg[t][1], dw |-> TRUE,
                                   rows |-> IF cfg[t][1] THEN data[t] \cup Of(t, log) ELSE {}]]
  BY Zenon DEF Start
<1>1. /\ ~Up
      /\ Up'
      /\ op.pc = "idle" /\ op.kind = "none" /\ devop.pc = "idle" /\ ins.pc = "idle" /\ sync.pc = "idle" /\ op = NoOp /\ devop = NoDevOp /\ ins = NoIns /\ sync = NoSync
      /\ codes' \in 0 .. Codes /\ server' = "up"
      /\ \A v \in Tables : cfg[v] # <<>> => Len(cfg[v]) = 1 /\ cfg[v][1] \in BOOLEAN /\ dev[v] # NoFile /\ (cfg[v][1] => data[v] # NoFile)
      /\ \A v \in Tables : tab'[v] = (IF cfg[v] = <<>> THEN Closed ELSE [open |-> TRUE, part |-> cfg[v][1], dw |-> TRUE, rows |-> IF cfg[v][1] THEN data[v] \cup Of(v, log) ELSE {}])
      /\ \A v \in Tables : cfg[v] = <<>> => tab'[v] = Closed /\ ~tab'[v].open /\ ~tab'[v].part /\ tab'[v].rows = {}
      /\ \A v \in Tables : cfg[v] # <<>> => tab'[v].open /\ tab'[v].part = cfg[v][1] /\ tab'[v].rows = (IF cfg[v][1] THEN data[v] \cup Of(v, log) ELSE {})
      /\ \A v \in Tables : tab'[v].open <=> cfg[v] # <<>>
      /\ \A v \in Tables : tab'[v].part <=> HasPart(v)
      /\ (\A v \in Tables : HasPart(v) => tab'[v].rows = data[v] \cup Of(v, log)) /\ (\A v \in Tables : ~HasPart(v) => tab'[v].rows = {})
      /\ \A v \in Tables : HasPart(v) => dev[v] # NoFile /\ data[v] # NoFile
      /\ tab' \in [Tables -> Handle]
      /\ UNCHANGED <<op, devop, ins, sync, cfg, dev, synced, data, log, gen, left, acked, devs, deleted, excused, raced, stmts>>
  <2>1. ~Up
    BY <1>0 DEF Start, Down, Up, NoOp, NoDevOp, NoIns, NoSync, disk, memory, past, promised, threads
  <2>2. Up'
    BY <1>b DEF Up
  <2>3. op.pc = "idle" /\ op.kind = "none" /\ devop.pc = "idle" /\ ins.pc = "idle" /\ sync.pc = "idle" /\ op = NoOp /\ devop = NoDevOp /\ ins = NoIns /\ sync = NoSync
    BY <1>0 DEF Start, Down, Up, NoOp, NoDevOp, NoIns, NoSync, disk, memory, past, promised, threads
  <2>4. codes' \in 0 .. Codes /\ server' = "up"
    <3>1. Cardinality(Listed) \in Nat /\ Cardinality(Listed) <= Codes
      BY <1>a, Constants, FS_Subset, FS_CardinalityType DEF CanStart, Listed
    <3> QED
      BY <1>b, <3>1, Constants
  <2>5. \A v \in Tables : cfg[v] # <<>> => Len(cfg[v]) = 1 /\ cfg[v][1] \in BOOLEAN /\ dev[v] # NoFile /\ (cfg[v][1] => data[v] # NoFile)
    <3>1. ASSUME NEW v \in Tables, cfg[v] # <<>>
          PROVE  cfg[v][1] \in BOOLEAN
      <4>1. cfg[v] \in Seq(BOOLEAN) /\ Len(cfg[v]) = 1
        BY <1>0, <1>a, <3>1 DEF CanStart, Listed, CfgTypes
      <4> QED
        BY <4>1, First
    <3> QED
      BY <1>a, <3>1 DEF CanStart, Listed
  <2>6. \A v \in Tables : tab'[v] = (IF cfg[v] = <<>> THEN Closed ELSE [open |-> TRUE, part |-> cfg[v][1], dw |-> TRUE, rows |-> IF cfg[v][1] THEN data[v] \cup Of(v, log) ELSE {}])
    BY <1>c DEF Listed
  <2>7. \A v \in Tables : cfg[v] = <<>> => tab'[v] = Closed /\ ~tab'[v].open /\ ~tab'[v].part /\ tab'[v].rows = {}
    <3>1. ASSUME NEW v \in Tables, cfg[v] = <<>>
          PROVE  tab'[v] = Closed
      BY <2>6, <3>1
    <3> QED
      BY <3>1 DEF Closed
  <2>8. \A v \in Tables : cfg[v] # <<>> => tab'[v].open /\ tab'[v].part = cfg[v][1] /\ tab'[v].rows = (IF cfg[v][1] THEN data[v] \cup Of(v, log) ELSE {})
    <3>1. ASSUME NEW v \in Tables, cfg[v] # <<>>
          PROVE  tab'[v] = [open |-> TRUE, part |-> cfg[v][1], dw |-> TRUE, rows |-> IF cfg[v][1] THEN data[v] \cup Of(v, log) ELSE {}]
      BY <2>6, <3>1
    <3>2. ASSUME NEW v \in Tables, cfg[v] # <<>>
          PROVE  tab'[v].open /\ tab'[v].part = cfg[v][1] /\ tab'[v].rows = IF cfg[v][1] THEN data[v] \cup Of(v, log) ELSE {}
      <4>1. tab'[v] = [open |-> TRUE, part |-> cfg[v][1], dw |-> TRUE, rows |-> IF cfg[v][1] THEN data[v] \cup Of(v, log) ELSE {}]
        BY <3>1, <3>2
      <4> QED
        BY <4>1
    <3> QED
      BY <3>2
  <2>9. \A v \in Tables : tab'[v].open <=> cfg[v] # <<>>
    BY <2>7, <2>8
  <2>10. \A v \in Tables : tab'[v].part <=> HasPart(v)
    BY <2>7, <2>8 DEF HasPart
  <2>11. (\A v \in Tables : HasPart(v) => tab'[v].rows = data[v] \cup Of(v, log)) /\ (\A v \in Tables : ~HasPart(v) => tab'[v].rows = {})
    BY <2>7, <2>8 DEF HasPart
  <2>12. \A v \in Tables : HasPart(v) => dev[v] # NoFile /\ data[v] # NoFile
    BY <2>5 DEF HasPart
  <2>13. tab' \in [Tables -> Handle]
    <3>1. ASSUME NEW v \in Tables
          PROVE  tab'[v] \in Handle
      <4>1. data[v] = NoFile \/ data[v] \in SUBSET Records
        BY <1>0 DEF DataTypes
      <4>2. Of(v, log) \in SUBSET Records
        BY <1>0 DEF LogTypes, Of
      <4>3. CASE cfg[v] = <<>>
        BY <2>7, <4>3, ClosedHandle
      <4>4. CASE cfg[v] # <<>>
        <5>1. cfg[v][1] \in BOOLEAN /\ (cfg[v][1] => data[v] \in SUBSET Records)
          BY <2>5, <4>1, <4>4
        <5>2. (IF cfg[v][1] THEN data[v] \cup Of(v, log) ELSE {}) \in SUBSET Records
          BY <5>1, <4>2
        <5>3. tab'[v] = [open |-> TRUE, part |-> cfg[v][1], dw |-> TRUE, rows |-> IF cfg[v][1] THEN data[v] \cup Of(v, log) ELSE {}]
          BY <2>6, <4>4
        <5> QED
          BY <5>1, <5>2, <5>3 DEF Handle
      <4> QED
        BY <4>3, <4>4
    <3>2. tab' = [t \in Tables |-> tab'[t]]
      BY <1>c
    <3> QED
      BY <3>1, <3>2
  <2>14. UNCHANGED <<op, devop, ins, sync, cfg, dev, synced, data, log, gen, left, acked, devs, deleted, excused, raced, stmts>>
    BY <1>0, <2>3 DEF Start, Down, Up, NoOp, NoDevOp, NoIns, NoSync, disk, memory, past, promised, threads
  <2> QED
    BY <2>1, <2>2, <2>3, <2>4, <2>5, <2>6, <2>7, <2>8, <2>9, <2>10, <2>11, <2>12, <2>13, <2>14
<1>2. /\ \A v \in Tables : HasPart(v) => data[v] # NoFile /\ tab'[v].rows = data[v] \cup Of(v, log)
      /\ \A v \in Tables : ~HasPart(v) => tab'[v].rows = {}
      /\ UNCHANGED <<log, data, gen, raced>>
  BY <1>1
<1>3. (\A v \in Tables : tab'[v].open <=> cfg[v] # <<>>) /\ (\A v \in Tables : tab[v].open => FALSE) /\ UNCHANGED <<cfg, dev, synced>>
  BY <1>0, <1>1 DEF Down, Closed
<1>4. OpTypes' /\ DevOpTypes'
  BY <1>0, <1>1 DEF OpTypes, DevOpTypes
<1>5. InsTypes' /\ SyncTypes' /\ CfgTypes' /\ DevTypes'
  BY <1>0, <1>1 DEF InsTypes, SyncTypes, CfgTypes, DevTypes
<1>6. SyncedTypes' /\ DataTypes' /\ LogTypes' /\ GenTypes' /\ PastTypes'
  BY <1>0, <1>1 DEF SyncedTypes, DataTypes, LogTypes, GenTypes, PastTypes
<1>7. SyncControl'
  BY <1>0, <1>1 DEF SyncControl
<1>8. Origins' /\ DevOrigins'
  BY <1>0, <1>1 DEF Origins, DevOrigins
<1>9. SyncedDevs'
  BY <1>0, <1>1 DEF SyncedDevs
<1>10. NoDevsYet' /\ NewDevs'
  BY <1>0, <1>1 DEF NoDevsYet, NewDevs, Creating, At, Raced, Fresh
<1>11. DevsOK'
  BY <1>0, <1>1 DEF DevsOK, Raced
<1>12. ServerTypes'
  BY <1>0, <1>1, <1>2, <1>3 DEF ServerTypes
<1>13. TabTypes'
  BY <1>0, <1>1, <1>2, <1>3 DEF TabTypes
<1>14. Down'
  BY <1>0, <1>1, <1>2, <1>3 DEF Down, Up
<1>15. OpControl'
  BY <1>0, <1>1, <1>2, <1>3 DEF OpControl
<1>16. OpenTabs'
  BY <1>0, <1>1, <1>2, <1>3 DEF OpenTabs, At, Creating, Removing, Up
<1>17. DevControl'
  BY <1>0, <1>1, <1>2, <1>3 DEF DevControl, AtRefs, At
<1>18. InsControl'
  BY <1>0, <1>1, <1>2, <1>3 DEF InsControl, AtRefs, At
<1>19. RowOrigins'
  <2>1. ASSUME NEW v \in Tables
        PROVE  /\ \A r \in tab'[v].rows : r[1] = v /\ r[2] <= gen'[v]
               /\ data'[v] # NoFile => \A r \in data'[v] : r[1] = v /\ r[2] <= gen'[v]
    <3>1. CASE HasPart(v)
      <4>1. data[v] # NoFile /\ tab'[v].rows = data[v] \cup Of(v, log)
        BY <1>2, <2>1, <3>1
      <4>2. ASSUME NEW r \in Of(v, log)
            PROVE  r[1] = v /\ r[2] <= gen[v]
        BY <1>0, <4>2, Fields DEF Origins, LogTypes, Of
      <4> QED
        BY <1>0, <1>2, <2>1, <4>1, <4>2 DEF RowOrigins
    <3>2. CASE ~HasPart(v)
      BY <1>0, <1>2, <2>1, <3>2 DEF RowOrigins
    <3> QED
      BY <3>1, <3>2
  <2> QED
    BY <2>1 DEF RowOrigins
<1>20. PartFiles'
  BY <1>1 DEF PartFiles, At
<1>21. ASSUME NEW u \in Tables, ~Raced("failed", u)'
      PROVE  EntryOK(u)' /\ LeftOK(u)'
  <2>1. EntryOK(u) /\ LeftOK(u) /\ ~Raced("failed", u)
    BY <1>0, <1>1, <1>21 DEF EntriesOK, Raced
  <2>2. EntryOK(u)'
    BY <1>0, <1>1, <1>2, <1>3, <2>1 DEF EntryOK, HasPart, Attaching, Creating, Removing, At, Up
  <2>3. LeftOK(u)'
    BY <1>0, <1>1, <1>2, <1>3, <2>1 DEF LeftOK, HasPart, Creating, Removed, Removing, At
  <2> QED
    BY <2>2, <2>3
<1>22. NewRows'
  <2>1. ASSUME NEW v \in Tables, Fresh(v)'
        PROVE  /\ \A r \in tab'[v].rows : r[2] = gen'[v]
               /\ \A r \in log' : r[1] = v => r[2] = gen'[v]
               /\ data'[v] # NoFile => \A r \in data'[v] : r[2] = gen'[v]
    <3>1. CASE HasPart(v)
      <4>1. data[v] # NoFile /\ tab'[v].rows = data[v] \cup Of(v, log)
        BY <1>2, <2>1, <3>1
      <4>2. ASSUME NEW r \in Of(v, log)
            PROVE  r[2] = gen[v]
        BY <1>0, <1>2, <2>1, <4>2 DEF NewRows, Of, Fresh, Raced
      <4> QED
        BY <1>0, <1>2, <2>1, <4>1, <4>2 DEF NewRows, Fresh, Raced
    <3>2. CASE ~HasPart(v)
      BY <1>0, <1>2, <2>1, <3>2 DEF NewRows, Fresh, Raced
    <3> QED
      BY <3>1, <3>2
  <2> QED
    BY <2>1 DEF NewRows
<1>23. CountsOK'
  <2>1. CountedDevs' = CountedDevs
    BY <1>3 DEF CountedDevs, InDevs
  <2> QED
    BY <1>0, <1>1, <2>1 DEF CountsOK, Overcounted, Raced
<1>24. ASSUME NEW r \in Records, Own(r)'
      PROVE  InRows(r)' /\ InFiles(r)' /\ MarkWritten(r)'
  <2>1. Own(r) /\ ~Raced("failed", r[1]) /\ InRows(r) /\ InFiles(r) /\ MarkWritten(r) /\ r[1] \in Tables /\ EntryOK(r[1])
    BY <1>0, <1>1, <1>24 DEF RowsOK, Own, Raced, Records, EntriesOK
  <2>2. InRows(r)'
    BY <1>0, <1>1, <1>2, <1>3, <2>1 DEF InRows, InFiles, InData, Of, Removed, Removing, At
  <2>3. InFiles(r)'
    BY <1>0, <1>1, <1>2, <1>3, <2>1 DEF InFiles, InData, HasPart, Removed, Removing, At
  <2>4. MarkWritten(r)'
    BY <1>0, <1>1, <1>2, <1>3, <2>1 DEF MarkWritten, InData, Removed, Removing, At
  <2> QED
    BY <2>2, <2>3, <2>4
<1>25. PartEntry'
  BY <1>0, <1>1, <1>2, <1>3 DEF PartEntry, HasPart, AtRefs, At, Raced
<1> QED
  BY <1>4, <1>5, <1>6, <1>7, <1>8, <1>9, <1>10, <1>11, <1>12, <1>13, <1>14, <1>15, <1>16, <1>17, <1>18, <1>19, <1>20, <1>22, <1>23, <1>25, <1>21, <1>24 DEF IInv, EntriesOK, RowsOK

\* A step that changes nothing.
LEMMA StutterKeeps ==
    ASSUME IInv, UNCHANGED vars
    PROVE  IInv'
<1>1. UNCHANGED <<server, tab, codes, op, devop, ins, sync, cfg, dev, synced, data, log, gen, left, acked, devs, deleted,
                  excused, raced, stmts>>
  BY DEF vars, memory, threads, disk, past, promised
<1>2. /\ ServerTypes /\ TabTypes /\ OpTypes /\ DevOpTypes /\ InsTypes /\ SyncTypes /\ CfgTypes
      /\ DevTypes /\ SyncedTypes /\ DataTypes /\ LogTypes /\ GenTypes /\ PastTypes
      /\ Down /\ OpControl /\ OpenTabs /\ DevControl /\ InsControl /\ SyncControl
      /\ Origins /\ DevOrigins /\ RowOrigins /\ SyncedDevs /\ PartFiles
      /\ EntriesOK /\ NoDevsYet /\ NewDevs /\ NewRows /\ CountsOK /\ RowsOK /\ PartEntry /\ DevsOK
  BY DEF IInv
<1>3. ServerTypes' /\ TabTypes' /\ OpTypes' /\ DevOpTypes'
  BY <1>1, <1>2 DEF ServerTypes, TabTypes, OpTypes, DevOpTypes
<1>4. InsTypes' /\ SyncTypes' /\ CfgTypes' /\ DevTypes'
  BY <1>1, <1>2 DEF InsTypes, SyncTypes, CfgTypes, DevTypes
<1>5. SyncedTypes' /\ DataTypes' /\ LogTypes' /\ GenTypes' /\ PastTypes'
  BY <1>1, <1>2 DEF SyncedTypes, DataTypes, LogTypes, GenTypes, PastTypes
<1>6. Down' /\ OpControl' /\ OpenTabs'
  BY <1>1, <1>2 DEF Down, Up, OpControl, OpenTabs, At, Creating, Removing
<1>7. DevControl' /\ InsControl' /\ SyncControl'
  BY <1>1, <1>2 DEF DevControl, AtRefs, At, InsControl, SyncControl
<1>8. Origins' /\ DevOrigins' /\ RowOrigins'
  BY <1>1, <1>2 DEF Origins, DevOrigins, RowOrigins
<1>9. SyncedDevs' /\ PartFiles'
  BY <1>1, <1>2 DEF SyncedDevs, PartFiles, At
<1>10. NoDevsYet' /\ NewDevs' /\ NewRows'
  BY <1>1, <1>2 DEF NoDevsYet, Creating, At, Raced, NewDevs, Fresh, NewRows
<1>11. PartEntry' /\ DevsOK'
  BY <1>1, <1>2 DEF PartEntry, HasPart, AtRefs, At, Raced, DevsOK
<1>12. CountsOK'
  BY <1>1, <1>2 DEF CountsOK, Overcounted, Raced, CountedDevs, OpenDevs, InDevs
<1>13. EntriesOK'
  BY <1>1, <1>2 DEF EntriesOK, Raced, EntryOK, LeftOK, HasPart, Attaching, Creating, Removing, At, Up, Removed
<1>14. RowsOK'
  BY <1>1, <1>2 DEF RowsOK, Own, Raced, InRows, InFiles, MarkWritten, InData, HasPart, Removed, Removing, At
<1> QED
  BY <1>3, <1>4, <1>5, <1>6, <1>7, <1>8, <1>9, <1>10, <1>11, <1>12, <1>13, <1>14 DEF IInv

-----------------------------------------------------------------------------
(* The beginning.                                                          *)

\* The parts of IInv hold of the files that are there at the beginning.
LEMMA InitKeeps ==
    ASSUME Init
    PROVE  IInv
<1>1. PICK i \in Inits :
         /\ cfg = i.cfg /\ dev = i.dev /\ synced = [t \in Tables |-> IF i.dev[t] = NoFile THEN {} ELSE i.dev[t]]
         /\ left = {t \in Tables : i.dev[t] # NoFile /\ i.cfg[t] = <<>>}
  BY DEF Init
<1>2. /\ i.cfg \in [Tables -> {<<>>, <<FALSE>>}] /\ i.dev \in [Tables -> {NoFile} \cup SUBSET Items]
      /\ \A t \in Tables : i.cfg[t] # <<>> => i.dev[t] # NoFile
      /\ \A t \in Tables : i.dev[t] # NoFile => i.dev[t] \subseteq {t} \X {0} \X Devs
      /\ Cardinality(UNION {i.dev[t] : t \in {u \in Tables : i.cfg[u] # <<>>}}) <= MaxDev
  BY CatalogAssumption
<1>3. /\ server = "down" /\ codes = Codes /\ stmts = 0 /\ \A t \in Tables : tab[t] = Closed /\ data[t] = NoFile /\ gen[t] = 0
      /\ log = {} /\ acked = {} /\ devs = {} /\ deleted = {} /\ excused = {} /\ raced = {}
  BY DEF Init
<1>4. tab = [t \in Tables |-> Closed] /\ op = NoOp /\ devop = NoDevOp /\ ins = NoIns /\ sync = NoSync
  BY DEF Init
<1>5. /\ op.pc = "idle" /\ op.kind = "none" /\ devop.pc = "idle" /\ devop.kind = "none"
      /\ ins.pc = "idle" /\ sync.pc = "idle" /\ sync.mark = {}
  BY <1>4 DEF NoOp, NoDevOp, NoIns, NoSync
<1>6. \A t \in Tables : ~tab[t].open /\ ~tab[t].part /\ tab[t].rows = {}
  BY <1>3, ClosedHandle
<1>7. \A t \in Tables : ~(cfg[t] # <<>> /\ cfg[t][1]) /\ Len(cfg[t]) <= 1 /\ cfg[t] \in Seq(BOOLEAN)
  <2>1. \A t \in Tables : cfg[t] = <<>> \/ cfg[t] = <<FALSE>>
    BY <1>1, <1>2
  <2>2. Len(<<>>) <= 1 /\ Len(<<FALSE>>) <= 1 /\ ~(<<FALSE>>[1]) /\ <<>> \in Seq(BOOLEAN) /\ <<FALSE>> \in Seq(BOOLEAN)
    BY Entered
  <2> QED
    BY <2>1, <2>2
<1>8. \A t \in Tables : ~Up /\ ~At(t)
  BY <1>3, <1>5 DEF Up, At
<1>9. \A t \in Tables : /\ dev[t] = NoFile => synced[t] = {}
                        /\ dev[t] # NoFile => synced[t] = dev[t] /\ dev[t] \in SUBSET Items /\ \A x \in dev[t] : x[1] = t /\ x[2] = 0
                        /\ cfg[t] # <<>> => dev[t] # NoFile
                        /\ dev[t] # NoFile /\ cfg[t] = <<>> => t \in left
  BY <1>1, <1>2
<1>10. ServerTypes /\ TabTypes /\ OpTypes /\ DevOpTypes
  <2>1. ServerTypes
    BY <1>3, Constants DEF ServerTypes
  <2>2. TabTypes
    BY <1>4, ClosedHandle DEF TabTypes
  <2>3. OpTypes /\ DevOpTypes
    BY <1>4 DEF OpTypes, DevOpTypes, NoOp, NoDevOp, Statements, DevStatements
  <2> QED
    BY <2>1, <2>2, <2>3
<1>11. InsTypes /\ SyncTypes /\ CfgTypes /\ DevTypes
  <2>1. InsTypes /\ SyncTypes
    BY <1>4 DEF InsTypes, SyncTypes, NoIns, NoSync, Inserts, Syncs
  <2>2. cfg = [t \in Tables |-> cfg[t]]
    BY <1>1, <1>2
  <2>3. CfgTypes
    BY <1>7, <2>2 DEF CfgTypes
  <2>4. DevTypes
    BY <1>1, <1>2 DEF DevTypes
  <2> QED
    BY <2>1, <2>3, <2>4
<1>12. SyncedTypes /\ DataTypes /\ LogTypes /\ GenTypes /\ PastTypes
  <2>1. SyncedTypes
    BY <1>1, <1>9 DEF SyncedTypes
  <2>2. data = [t \in Tables |-> NoFile] /\ gen = [t \in Tables |-> 0]
    BY DEF Init
  <2>3. 0 \in Gens
    BY Constants DEF Gens
  <2>4. DataTypes /\ GenTypes
    BY <1>3, <2>2, <2>3 DEF DataTypes, GenTypes
  <2>5. LogTypes /\ PastTypes
    BY <1>1, <1>3 DEF LogTypes, PastTypes
  <2> QED
    BY <2>1, <2>4, <2>5
<1>13. Down /\ OpControl /\ OpenTabs /\ DevControl
  BY <1>4, <1>5, <1>6, <1>8 DEF Down, OpControl, OpenTabs, DevControl, Creating, Removing
<1>14. InsControl /\ SyncControl /\ Origins
  BY <1>3, <1>4, <1>5 DEF InsControl, SyncControl, Origins
<1>15. DevOrigins /\ RowOrigins /\ SyncedDevs /\ PartFiles
  <2>1. DevOrigins
    BY <1>3, <1>9 DEF DevOrigins
  <2>2. RowOrigins
    BY <1>3, <1>6 DEF RowOrigins
  <2>3. SyncedDevs
    BY <1>9 DEF SyncedDevs
  <2>4. PartFiles
    BY <1>6, <1>8 DEF PartFiles
  <2> QED
    BY <2>1, <2>2, <2>3, <2>4
<1>16. EntriesOK
  <2>1. ASSUME NEW t \in Tables
        PROVE  EntryOK(t) /\ LeftOK(t)
    <3>1. EntryOK(t)
      BY <1>6, <1>7, <1>8, <1>9 DEF EntryOK, HasPart, Attaching, Creating
    <3>2. LeftOK(t)
      BY <1>3, <1>9 DEF LeftOK
    <3> QED
      BY <3>1, <3>2
  <2> QED
    BY <2>1 DEF EntriesOK
<1>17. NoDevsYet /\ NewDevs /\ NewRows
  BY <1>3, <1>6, <1>8, <1>9 DEF NoDevsYet, NewDevs, NewRows, Creating
<1>18. CountsOK
  <2> DEFINE all == UNION {i.dev[t] : t \in {u \in Tables : i.cfg[u] # <<>>}}
  <2>1. all \in SUBSET Items
    BY <1>2
  <2>2. CountedDevs \in SUBSET all
    BY <1>1, <1>6, <1>9 DEF CountedDevs, InDevs
  <2>3. Cardinality(CountedDevs) \in Nat /\ Cardinality(all) \in Nat /\ Cardinality(CountedDevs) <= Cardinality(all)
    BY <2>1, <2>2, Fewer
  <2> QED
    BY <1>2, <1>5, <2>3, Constants DEF CountsOK
<1>19. RowsOK /\ PartEntry /\ DevsOK
  BY <1>3, <1>6 DEF RowsOK, Own, PartEntry, DevsOK
<1> QED
  BY <1>10, <1>11, <1>12, <1>13, <1>14, <1>15, <1>16, <1>17, <1>18, <1>19 DEF IInv

-----------------------------------------------------------------------------
(* All steps, and the theorems.                                            *)

\* A statement on a table begins.
LEMMA StatementKeeps ==
    ASSUME IInv, Statement
    PROVE  IInv'
<1>1. PICK t \in Tables : CreateTable(t) \/ AttachTable(t) \/ AttachFile(t) \/ \E kind \in {"drop", "detach"} : EraseTable(kind, t)
  BY DEF Statement
<1>2. CASE CreateTable(t)
  BY <1>2, CreateTableKeeps
<1>3. CASE AttachTable(t)
  BY <1>3, AttachTableKeeps
<1>4. CASE AttachFile(t)
  BY <1>4, AttachFileKeeps
<1>5. ASSUME NEW kind \in {"drop", "detach"}, EraseTable(kind, t)
      PROVE  IInv'
  BY <1>5, EraseTableKeeps
<1> QED
  BY <1>1, <1>2, <1>3, <1>4, <1>5

\* Or goes on.
LEMMA StatementStepKeeps ==
    ASSUME IInv, StatementStep
    PROVE  IInv'
<1>1. CASE OpenTable
  <2>1. CASE OpenFails
    <3>1. op.pc = "open"
      BY <1>1 DEF OpenTable
    <3> QED
      BY <2>1, <3>1, OpenFailsKeeps
  <2>2. CASE ~OpenFails
    BY <1>1, <2>2, OpenTableKeeps
  <2> QED
    BY <2>1, <2>2
<1>2. CASE AddTableHandle
  <2>1. CASE OpenFails
    <3>1. op.pc = "add"
      BY <1>2 DEF AddTableHandle
    <3> QED
      BY <2>1, <3>1, OpenFailsKeeps
  <2>2. CASE ~OpenFails
    BY <1>2, <2>2, AddTableHandleKeeps
  <2> QED
    BY <2>1, <2>2
<1> QED
  BY <1>1, <1>2, AddTableKeeps, RecoverDWKeeps, AwaitRefsKeeps, DropEntryKeeps, DropPartsKeeps, DropDevFileKeeps,
     CloseTableKeeps DEF StatementStep

\* The requests on devices.
LEMMA DevicesKeep ==
    ASSUME IInv, DevStatement \/ DevStatementStep
    PROVE  IInv'
<1>1. CASE DevStatement
  <2>1. PICK t \in Tables, d \in Devs : InsertDev(t, d) \/ DelDev(t, d)
    BY <1>1 DEF DevStatement
  <2> QED
    BY <2>1, InsertDevKeeps, DelDevKeeps
<1>2. CASE AddDev
  <2>1. CASE devop' = NoDevOp
    <3>1. devop.pc = "add" /\ UNCHANGED <<synced, devs, raced, stmts>>
      BY <1>2 DEF AddDev
    <3>2. UNCHANGED <<server, memory, op, ins, sync, cfg, data, log, gen, left, acked, excused>> /\ UNCHANGED <<dev, deleted>>
      <4>1. CASE Full(devop.total) \/ ~tab[devop.tab].open \/ DevExist(devop.tab, devop.dev)
        BY <1>2, <4>1 DEF AddDev, DevStep
      <4>2. CASE ~(Full(devop.total) \/ ~tab[devop.tab].open \/ DevExist(devop.tab, devop.dev))
        <5>1. devop' = [devop EXCEPT !.pc = "flush"]
          BY <1>2, <4>2, Zenon DEF AddDev, DevStep
        <5>2. DevOpTypes
          BY DEF IInv
        <5> QED
          BY <2>1, <5>1, <5>2 DEF NoDevOp, DevOpTypes, DevStatements
      <4> QED
        BY <4>1, <4>2
    <3> QED
      BY <2>1, <3>1, <3>2, DevGivesUpKeeps DEF disk, past, promised
  <2>2. CASE devop' # NoDevOp
    BY <1>2, <2>2, AddDevKeeps
  <2> QED
    BY <2>1, <2>2
<1>3. CASE FlushDev
  BY <1>3, FlushDevKeeps
<1>4. CASE Flush
  BY <1>4, FlushKeeps
<1> QED
  BY <1>1, <1>2, <1>3, <1>4 DEF DevStatementStep

\* An insert begins, into a table with or without a part.
LEMMA InsertKeeps ==
    ASSUME IInv, NEW t \in Tables, Insert(t)
    PROVE  IInv'
<1>1. CASE tab[t].part
  BY <1>1, InsertOldKeeps
<1>2. CASE ~tab[t].part
  BY <1>2, InsertNewKeeps
<1> QED
  BY <1>1, <1>2

\* The full sync.
LEMMA SyncerKeeps ==
    ASSUME IInv, SyncerStep
    PROVE  IInv'
<1>1. CASE SyncTable
  <2>1. PICK t \in sync.tabs : SyncTableOf(t)
    BY <1>1 DEF SyncTable, SyncTableOf
  <2>2. t \in Tables
    BY DEF IInv, SyncTypes, Syncs
  <2> QED
    BY <2>1, <2>2, SyncTableKeeps
<1> QED
  BY <1>1, GetAllTableKeeps, MakeSyncPointKeeps, CommitSyncPointKeeps DEF SyncerStep

\* Crash, stop and start.
LEMMA ServerKeeps ==
    ASSUME IInv, Crash \/ Stop \/ Start
    PROVE  IInv'
<1>1. CASE Start
  <2>1. CASE server' = "refused"
    <3>1. server \in {"down", "torn"} /\ UNCHANGED <<threads, disk, past, stmts>>
      BY <1>1 DEF Start
    <3>2. UNCHANGED <<tab, codes>>
      <4>1. CASE server = "torn" \/ ~CanStart
        BY <1>1, <4>1 DEF Start
      <4>2. CASE ~(server = "torn" \/ ~CanStart)
        <5>1. server' = "up"
          BY <1>1, <4>2, Zenon DEF Start
        <5> QED
          BY <2>1, <5>1
      <4> QED
        BY <4>1, <4>2
    <3> QED
      BY <2>1, <3>1, <3>2, RefuseKeeps DEF memory
  <2>2. CASE server' # "refused"
    BY <1>1, <2>2, StartKeeps
  <2> QED
    BY <2>1, <2>2
<1> QED
  BY <1>1, CrashKeeps, StopKeeps

\* The inductive invariant, in every reachable state.
THEOREM Catalogued == Spec => []IInv
<1>1. Init => IInv
  BY InitKeeps
<1>2. IInv /\ [Next]_vars => IInv'
  <2> SUFFICES ASSUME IInv, [Next]_vars
               PROVE  IInv'
    OBVIOUS
  <2>1. CASE UNCHANGED vars
    BY <2>1, StutterKeeps
  <2>2. CASE \E t \in Tables : Insert(t)
    BY <2>2, InsertKeeps
  <2> QED
    BY <2>1, <2>2, StatementKeeps, StatementStepKeeps, DevicesKeep, AppendRecKeeps, InsertRecKeeps, SyncerKeeps, ServerKeeps DEF Next
<1> QED
  BY <1>1, <1>2, PTL DEF Spec

\* Every variable has values of its type.
THEOREM CatalogTypes == Spec => []TypeOK
<1>1. IInv => TypeOK
  <2> SUFFICES ASSUME IInv
               PROVE  TypeOK
    OBVIOUS
  <2>1. /\ server \in {"up", "down", "torn", "refused"} /\ stmts \in 0 .. MaxStmts /\ codes \in 0 .. Codes
        /\ tab \in [Tables -> [open : BOOLEAN, part : BOOLEAN, rows : SUBSET Records, dw : BOOLEAN]]
    BY DEF IInv, ServerTypes, TabTypes, Handle
  <2>2. /\ op.kind \in {"none", "create", "attach", "drop", "detach"} /\ op.tab \in Tables \cup {NoFile}
        /\ op.pc \in {"idle", "config", "open", "add", "dw", "refs", "files", "device file"}
        /\ devop.kind \in {"none", "add", "delete"} /\ devop.pc \in {"idle", "add", "flush"}
    BY DEF IInv, OpTypes, Statements, DevOpTypes, DevStatements
  <2>3. /\ ins.pc \in {"idle", "log", "put"} /\ sync.pc \in {"idle", "point", "next"}
        /\ sync.tabs \subseteq Tables /\ sync.mark \subseteq Records
    BY DEF IInv, InsTypes, Inserts, SyncTypes, Syncs
  <2>4. \A t \in Tables : /\ cfg[t] \in Seq(BOOLEAN) /\ gen[t] \in Gens /\ synced[t] \subseteq Items
                          /\ dev[t] = NoFile \/ dev[t] \subseteq Items
                          /\ data[t] = NoFile \/ data[t] \subseteq Records
    BY DEF IInv, CfgTypes, GenTypes, SyncedTypes, DevTypes, DataTypes
  <2>5. /\ log \cup acked \cup excused \subseteq Records /\ left \subseteq Tables
        /\ devs \cup deleted \subseteq Items /\ raced \subseteq Races \X Tables
    BY DEF IInv, LogTypes, PastTypes
  <2> QED
    BY <2>1, <2>2, <2>3, <2>4, <2>5 DEF TypeOK
<1> QED
  BY <1>1, Catalogued, PTL

\* The files are such that the server starts (Startable): the entries of a name, the files that each
\* entry needs, and the devices of all listed tables together, but for the three races.
THEOREM ServerStarts == Spec => []Startable
<1>1. IInv => Startable
  <2> SUFFICES ASSUME IInv
               PROVE  Startable
    OBVIOUS
  <2>1. ASSUME NEW t \in Listed, ~Raced("failed", t)
        PROVE  Len(cfg[t]) = 1 /\ dev[t] # NoFile /\ (cfg[t][1] => data[t] # NoFile)
    <3>1. t \in Tables /\ cfg[t] # <<>> /\ cfg[t] \in Seq(BOOLEAN)
      BY DEF IInv, Listed, CfgTypes
    <3>2. EntryOK(t)
      BY <2>1, <3>1 DEF IInv, EntriesOK
    <3>3. Len(cfg[t]) = 1
      BY <3>1, <3>2, Single DEF EntryOK
    <3> QED
      BY <3>1, <3>2, <3>3 DEF EntryOK, HasPart
  <2>2. ASSUME ~Overcounted
        PROVE  Count(Listed) <= MaxDev
    <3>1. Listed \in SUBSET Tables
      BY DEF Listed
    <3>2. CountedDevs \in SUBSET Items /\ DevsOf(Listed) \in SUBSET CountedDevs
      BY DEF CountedDevs, DevsOf, InDevs, Listed
    <3>3. Count(Listed) = Cardinality(DevsOf(Listed)) /\ Count(Listed) \in Nat
      BY <3>1, Counting DEF IInv
    <3>4. Cardinality(CountedDevs) \in Nat /\ Cardinality(DevsOf(Listed)) <= Cardinality(CountedDevs)
      BY <3>2, Fewer
    <3>5. Cardinality(CountedDevs) <= MaxDev
      BY <2>2 DEF IInv, CountsOK
    <3> QED
      BY <3>3, <3>4, <3>5, Constants
  <2> QED
    BY <2>1, <2>2 DEF Startable
<1> QED
  BY <1>1, Catalogued, PTL

\* An acknowledged record stays in its table, and where it will be found (RowsStay).
THEOREM RowsFound == Spec => []RowsStay
<1>1. IInv => RowsStay
  <2> SUFFICES ASSUME IInv, NEW r \in acked \ excused, Kept(r)
               PROVE  (tab[r[1]].part => r \in tab[r[1]].rows) /\ OnDisk(r)
    BY DEF RowsStay
  <2>1. Own(r) /\ r \in Records /\ r[1] \in Tables /\ ~Raced("failed", r[1]) /\ ~Dropping(r[1])
    <3>1. r \in Records
      BY DEF IInv, PastTypes
    <3> QED
      BY <3>1, Fields DEF Own, Kept
  <2>2. InRows(r) /\ InFiles(r) /\ EntryOK(r[1]) /\ OpControl
    BY <2>1 DEF IInv, RowsOK, EntriesOK
  <2>3. OnDisk(r)
    BY <2>1, <2>2 DEF OnDisk, InFiles, InData, HasPart, EntryOK, Removed, Removing, At, Dropping, OpControl
  <2> QED
    BY <2>2, <2>3 DEF InRows
<1> QED
  BY <1>1, Catalogued, PTL

\* An acknowledged device is known and synced, a deleted one neither (DevicesStay).
THEOREM DevicesKept == Spec => []DevicesStay
<1>1. IInv => DevicesStay
  BY DEF IInv, DevsOK, DevicesStay, Of
<1> QED
  BY <1>1, Catalogued, PTL

\* A table that is created has nothing of an earlier one of its name (NothingReturns).
THEOREM NothingOld == Spec => []NothingReturns
<1>1. IInv => NothingReturns
  <2> SUFFICES ASSUME IInv, NEW t \in Open, Fresh(t), NEW x \in dev[t] \cup tab[t].rows
               PROVE  x[2] = gen[t]
    BY DEF NothingReturns, Fresh
  <2>1. t \in Tables /\ tab[t].open
    BY DEF Open
  <2>2. dev[t] # NoFile
    BY <2>1 DEF IInv, OpenTabs
  <2> QED
    BY <2>1, <2>2 DEF IInv, NewDevs, NewRows
<1> QED
  BY <1>1, Catalogued, PTL

==============================================================================
