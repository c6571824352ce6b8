------------------------------- MODULE Query -------------------------------
(***************************************************************************)
(* A SELECT on a table: PDBTable::ExecQuery chooses one of the query       *)
(* objects, the query object is built from the statement, the table walks  *)
(* over its parts in the order of the days and every part gives the        *)
(* records of one device after the other to the query object: a page of a  *)
(* normal part record by record (AppendSingle), a block of a compressed    *)
(* part as columns (AppendArray).  Meanwhile the dump thread turns normal  *)
(* parts into compressed ones; the query keeps the part it refers to.      *)
(*                                                                         *)
(* A record is a sequence of values: the device, the time, then the        *)
(* columns of the table.                                                   *)
(***************************************************************************)
EXTENDS ValueItem

CONSTANTS
  Names, Types,      \* the columns of the table
  Records,           \* the records there may be
  Tables,            \* the sets of records that its parts may hold
  Devices,           \* the devices of the table
  DayLen,            \* DateTime::MicrosecondPerDay of the parts
  Missing,           \* day of a part |-> positions of columns it has not
  PageLen,           \* records in a page, and in a block
  DefaultCount,      \* PDB_QUERY_DEFAULT_COUNT
  MaxCount,          \* PDB_QUERY_MAX_COUNT
  Statements         \* the statements of the clients, a sequence

VARIABLES
  stmt,      \* the statement that is executed, 0 for none
  plan,      \* what was built of it
  phase,     \* what its thread is about to do
  table,     \* the records of the table
  comp,      \* day |-> whether the part is compressed
  part,      \* the part the query refers to: [day, comp]
  devs,      \* devIdList: the devices to ask
  pos,       \* the iterator on devIdList
  pages,     \* pages or blocks of the device the part has still to give
  query,     \* the query object
  answer     \* what the client gets

vars == <<stmt, plan, phase, table, comp, part, devs, pos, pages, query, answer>>

Days == DOMAIN Missing
DayOf(ts) == ts \div DayLen
TsOf(rec) == rec[TstampPos].v
DevOf(rec) == rec[DevIdPos].v
MinOf(a, b) == IF a <= b THEN a ELSE b
MaxOf(a, b) == IF a >= b THEN a ELSE b
GreatestOf(S) == CHOOSE x \in S : \A y \in S : x >= y

ASSUME QueryAssumption ==
  /\ \A T \in Tables : T \subseteq Records
  /\ \A r \in Records : DevOf(r) \in Devices /\ TsOf(r) \in 1 .. MaxMicro - 1 /\ DayOf(TsOf(r)) \in Days
  /\ \A r \in Records : \A p \in Missing[DayOf(TsOf(r))] : r[p] = Null
  /\ \A r, s \in Records : r = s \/ DevOf(r) # DevOf(s) \/ TsOf(r) # TsOf(s)
  /\ PageLen > 0 /\ DefaultCount <= MaxCount

RECURSIVE SortedUp(_)
SortedUp(S) == IF S = {} THEN <<>> ELSE <<LeastOf(S)>> \o SortedUp(S \ {LeastOf(S)})
Reversed(s) == [i \in DOMAIN s |-> s[Len(s) + 1 - i]]

RECURSIVE Fold(_, _, _)
Fold(Op(_, _), acc, s) == IF s = <<>> THEN acc ELSE Fold(Op, Op(acc, Head(s)), Tail(s))

RECURSIVE Concat(_)
Concat(ss) == IF ss = <<>> THEN <<>> ELSE Head(ss) \o Concat(Tail(ss))

------------------------------------------------------------------------------
(* Statements and the condition of WHERE. *)

Statement(snapshot, targets, where, group, step, order, offset, count) ==
  [snapshot |-> snapshot, targets |-> targets, where |-> where, group |-> group,
   step |-> step, order |-> order, offset |-> offset, count |-> count]
Nothing == Expr("nothing", "", Null, <<>>)
Table0 == Table(Names, Types, <<>>)

\* ConditionFilter::BuildCondition
Conditions(where) ==
  IF where = Nothing THEN <<>>
  ELSE Image(Conjuncts(where), LAMBDA c : BuildItem(Table0, c))

FilterOf(conds) ==
  LET of(Is(_)) == {GetRange(conds[i]) : i \in {j \in DOMAIN conds : Is(conds[j])}}
      devs0 == of(IsDevIdCondition)
      times == of(IsTstampCondition)
  IN [conds |-> conds,
      ok |-> \A i \in DOMAIN conds : conds[i] # NoItem /\ conds[i].type = "BOOL",
      never |-> \E i \in DOMAIN conds : IsConst(conds[i]) /\ GetValue(conds[i], <<>>) = Bool(FALSE),
      minDev |-> GreatestOf({1} \cup {r.min : r \in devs0}),
      maxDev |-> LeastOf({Int64Max} \cup {r.max : r \in devs0}),
      minTs |-> GreatestOf({0} \cup {r.min : r \in times}),
      maxTs |-> LeastOf({MaxMicro} \cup {r.max : r \in times})]
Filter(where) == FilterOf(Conditions(where))

\* ConditionFilter::RunCondition: up to the first condition that is not true.
RunCondition(conds, rec) ==
  LET x == Image(conds, LAMBDA c : GetValue(c, rec))
      failed == {i \in DOMAIN x : ~IsTrue(x[i])}
  IN IF failed = {} THEN Bool(TRUE)
     ELSE IF x[LeastOf(failed)] = Undef THEN Undef ELSE Bool(FALSE)

\* ConditionFilter::RunConditionArray and MergeFilter, for one record.
RunConditionArray(conds, rec, cols) ==
  LET x == Image(conds, LAMBDA c : GetElement(c, rec, cols))
      failed == {i \in DOMAIN x : ~IsTrue(x[i])}
  IN IF failed = {} THEN Bool(TRUE)
     ELSE IF x[LeastOf(failed)] = Undef THEN Undef ELSE Bool(FALSE)

FilterDevId(filter, dev) ==
  \A i \in DOMAIN filter.conds :
    IsDevIdCondition(filter.conds[i]) => IsTrue(GetValue(filter.conds[i], <<Val("INT64", dev)>>))

\* DevIDTable::QueryDevId: the binary search for the first device of the
\* range, then the scan to the last one; the count is looked at only after a
\* device is taken.
RECURSIVE Search(_, _, _, _, _)
Search(ids, min, lwr, upr, idx) ==
  LET mid == (lwr + upr) \div 2 IN
  CASE lwr > upr -> idx
    [] lwr <= upr /\ ids[mid + 1] = min -> mid
    [] lwr <= upr /\ ids[mid + 1] < min -> Search(ids, min, mid + 1, upr, mid)
    [] lwr <= upr /\ ids[mid + 1] > min -> Search(ids, min, lwr, mid - 1, mid)

QueryDevId(filter, offset, count) ==
  LET ids == SortedUp(Devices)
      from == Search(ids, filter.minDev, 0, Len(ids) - 1, 0) + 1
      last == IF count = 0 THEN MinOf(from, Len(ids)) ELSE Len(ids)
      scanned == {i \in from .. last : \A j \in from .. i - 1 : ids[j] < filter.maxDev}
      found == SelectSeq(SortedUp({ids[i] : i \in scanned}), LAMBDA d : FilterDevId(filter, d))
  IN SubSeq(found, offset + 1, MinOf(Len(found), offset + MaxOf(count, 1)))

------------------------------------------------------------------------------
(* The aggregates, query/group_function.h. *)

Agg(fn, compare, target, type, cond) ==
  [fn |-> fn, compare |-> compare, target |-> target, type |-> type, cond |-> cond]
NoAgg == Agg("none", 0, 0, "NULL", NoItem)

\* The creators of the group fields: the type of the column decides.
CreateGroupField(fn, p, t, cond) ==
  LET numeric == IsNumber(Types[p]) \/ IsReal(Types[p])
      ok == /\ fn \in {"avg", "sum"} => numeric
            /\ fn \in {"min", "max"} => numeric \/ Types[p] = "DATETIME"
  IN IF ok THEN Agg(fn, p, t, IF fn = "count" THEN "INT64" ELSE Types[t], cond) ELSE NoAgg

\* BuildTargetGroupStep: the aggregate on one column, or the value of the
\* second column where the first one is extreme.
AggStep(fn, params, cond) ==
  LET column(i) == FieldPos(Table0, params[i].name)
      known == \A i \in DOMAIN params : params[i].op = "id" /\ column(i) # {}
  IN CASE fn = "count" /\ (params = <<>> \/ params = <<Star>>) -> CreateGroupField(fn, DevIdPos, DevIdPos, cond)
       [] known /\ (Len(params) = 1 \/ (fn \in {"min", "max"} /\ Len(params) = 2)) ->
            CreateGroupField(fn, LeastOf(column(1)), LeastOf(column(Len(params))), cond)
       [] OTHER -> NoAgg

\* BuildTargetGroupItem on an aggregate; the condition of an ..if comes first.
AggIf(e, cond) == IF cond = NoItem THEN NoAgg ELSE AggStep(Sub(e.name), Tail(e.args), cond)
AggOf(e) ==
  IF e.name \in AggFns THEN AggStep(e.name, e.args, NoItem)
  ELSE IF e.args = <<>> THEN NoAgg ELSE AggIf(e, BuildItem(Table0, e.args[1]))

RECURSIVE AggExprs(_)
AggExprs(e) ==
  IF IsAgg(e) THEN <<e>> ELSE Concat(Image(e.args, AggExprs))

\* ResultObject: what each aggregate of a group has so far.
EmptyAgg(agg, dev, ts) ==
  [cnt |-> 0, total |-> 0, cmp |-> Null,
   ts |-> IF agg.fn = "first" THEN MaxMicro ELSE 0,
   val |-> CASE agg.fn = "devid" -> Val("INT64", dev)
             [] agg.fn = "tstamp" -> Val("DATETIME", ts)
             [] agg.fn \notin {"devid", "tstamp"} -> Null]
EmptyObject(aggs, dev, ts) == [i \in DOMAIN aggs |-> EmptyAgg(aggs[i], dev, ts)]

\* ExtremeValueFunc: whether a value replaces the one so far.  Times are not
\* compared at all, and the block form compares an INT64 with the low part of
\* the one so far.
Replaces(agg, x, old, inBlock) ==
  LET before == IF inBlock /\ x.t = "INT64" THEN Wrap32(old.v) ELSE old.v
  IN \/ old = Null
     \/ x.t = "DATETIME"
     \/ agg.fn = "max" /\ x.v > before
     \/ agg.fn = "min" /\ x.v < before

\* AppendSingle of the group fields, and AppendArrayInner for one record.
CountFunc(st, x) == IF x = Null THEN st ELSE [st EXCEPT !.cnt = @ + 1]
SumFunc(st, x) == IF x = Null THEN st ELSE [st EXCEPT !.cnt = @ + 1, !.total = @ + x.v]
AvgFunc(st, x) == SumFunc(st, x)
FirstOrLastFunc(fn, st, x, ts) ==
  IF IF fn = "first" THEN ts < st.ts ELSE ts > st.ts THEN [st EXCEPT !.ts = ts, !.val = x] ELSE st
ExtremeValueFunc(agg, st, rec, inBlock) ==
  LET x == rec[agg.compare] IN
  IF x # Null /\ Replaces(agg, x, st.cmp, inBlock) THEN [st EXCEPT !.cmp = x, !.val = rec[agg.target]] ELSE st

AppendAgg(agg, st, rec, inBlock) ==
  CASE agg.fn = "count" -> CountFunc(st, rec[agg.compare])
    [] agg.fn = "sum" -> SumFunc(st, rec[agg.compare])
    [] agg.fn = "avg" -> AvgFunc(st, rec[agg.compare])
    [] agg.fn \in {"first", "last"} -> FirstOrLastFunc(agg.fn, st, rec[agg.compare], TsOf(rec))
    [] agg.fn \in {"min", "max"} -> ExtremeValueFunc(agg, st, rec, inBlock)
    [] agg.fn \in {"devid", "tstamp"} -> st

\* GetResult.  A sum is an INT64 or a DOUBLE, whatever the column is.
SumResult(agg, st) ==
  IF st.cnt = 0 THEN Null
  ELSE IF IsReal(agg.type) THEN Val("DOUBLE", st.total) ELSE Val("INT64", Wrap64(st.total))
AvgResult(agg, st) == IF st.cnt = 0 THEN Null ELSE Val(agg.type, Quot(st.total, st.cnt))
AggResult(agg, st) ==
  CASE agg.fn = "count" -> Val("INT64", st.cnt)
    [] agg.fn = "sum" -> SumResult(agg, st)
    [] agg.fn = "avg" -> AvgResult(agg, st)
    [] agg.fn \notin {"count", "sum", "avg"} -> st.val

------------------------------------------------------------------------------
(* What BuildQuery makes of a statement. *)

\* PDBTable::ExecQuery: which query object answers the statement.
Kind(st) ==
  CASE st.snapshot -> "snapshot"
    [] ~st.snapshot /\ st.group # "none" -> st.group
    [] ~st.snapshot /\ st.group = "none" ->
         IF \E i \in DOMAIN st.targets : IncludeAgg(st.targets[i]) THEN "all" ELSE "raw"

Refused(st) ==
  \/ Kind(st) # "raw" /\ st.order # "none"
  \/ st.snapshot /\ st.group # "none"
  \/ st.count \notin 0 .. MaxCount \/ st.offset < 0
  \/ Kind(st) \in {"all", "devid", "tstamp"} /\ \E i \in DOMAIN st.targets : st.targets[i] = Star

Targets(st) ==
  Concat([i \in DOMAIN st.targets |->
            IF st.targets[i] = Star THEN [p \in DOMAIN Names |-> Id(Names[p])] ELSE <<st.targets[i]>>])

\* QueryGroup::BuildQuery: what a group keeps is the field it is grouped by
\* and the aggregates of the targets; these are the columns of groupInfo_.
GroupBy(st) ==
  CASE st.group = "devid" -> <<Agg("devid", 0, 0, "INT64", NoItem)>>
    [] st.group = "tstamp" -> <<Agg("tstamp", 0, 0, "DATETIME", NoItem)>>
    [] st.group = "none" -> <<>>
GroupExprs(st) == Concat(Image(st.targets, AggExprs))
GroupFields(st) == GroupBy(st) \o Image(GroupExprs(st), AggOf)
GroupTable(st, fields) ==
  LET by == GroupBy(st) IN
  Table([i \in DOMAIN by |-> st.group], [i \in DOMAIN by |-> by[i].type],
        [i \in DOMAIN GroupExprs(st) |-> [expr |-> GroupExprs(st)[i], type |-> fields[Len(by) + i].type]])

\* IsQueryFirst and IsQueryLast
Only(fn, fields) == \A i \in DOMAIN fields : fields[i].fn \in {fn, "devid", "tstamp"} /\ fields[i].cond = NoItem

\* Which way the query walks; ORDER BY is for the raw query only.
Ascending(st, last) == ~last /\ ~st.snapshot /\ st.order # "desc"

\* QueryGroupTstamp::CustomBuild: offset and count are windows of time.
WindowMin(st, kind, filter) == filter.minTs + IF kind = "tstamp" THEN st.offset * st.step ELSE 0
WindowMax(st, kind, filter) ==
  IF kind = "tstamp" THEN MinOf(WindowMin(st, kind, filter) + st.count * st.step, filter.maxTs) ELSE filter.maxTs

\* The plan from its parts: the filter, the fields of the groups, the items of
\* the targets, which are built on the columns of the table or of the groups.
NoPlan == [ok |-> FALSE, kind |-> "none"]
PlanOf(st, kind, filter, fields, items) ==
  LET grouped == kind \in {"all", "devid", "tstamp"}
      min == WindowMin(st, kind, filter)
      max == WindowMax(st, kind, filter)
      first == grouped /\ Only("first", fields)
      last == grouped /\ ~first /\ Only("last", fields)
      ok == /\ filter.ok
            /\ \A i \in DOMAIN fields : fields[i].fn # "none"
            /\ \A i \in DOMAIN items : items[i] # NoItem
            /\ kind = "tstamp" => filter.minTs # 0
      ids == IF kind = "devid" THEN QueryDevId(filter, st.offset, st.count)
             ELSE QueryDevId(filter, 0, Cardinality(Devices))
  IN IF Refused(st) \/ ~ok THEN NoPlan
     ELSE [ok |-> TRUE, kind |-> kind, filter |-> filter, fields |-> fields, items |-> items,
           min |-> min, max |-> max, step |-> st.step, offset |-> st.offset, count |-> st.count,
           single |-> first \/ last,
           asc |-> Ascending(st, last),
           devs |-> ids,
           empty |-> \/ filter.never
                     \/ kind = "all" /\ st.offset > 0
                     \/ kind = "tstamp" /\ min > max]
PlanOn(st, tab, fields) ==
  PlanOf(st, Kind(st), Filter(st.where), fields, Image(Targets(st), LAMBDA t : BuildItem(tab, t)))
PlanGroups(st, fields) == PlanOn(st, GroupTable(st, fields), fields)
Plan(st) ==
  IF Kind(st) \in {"all", "devid", "tstamp"} THEN PlanGroups(st, GroupFields(st)) ELSE PlanOn(st, Table0, <<>>)

\* The query object: its result so far, the offset it has still to skip, the
\* objects of its groups, the records of its snapshot.
Groups(p) ==
  CASE p.kind = "all" -> IF p.offset = 0 THEN {0} ELSE {}
    [] p.kind = "devid" -> {p.devs[i] : i \in DOMAIN p.devs}
    [] p.kind = "tstamp" -> 0 .. Quot(p.max - p.min + p.step - 1, p.step) - 1
    [] p.kind \in {"raw", "snapshot"} -> {}
NewQuery(p) ==
  [rows |-> <<>>, offset |-> p.offset, recs |-> <<>>,
   objs |-> [k \in Groups(p) |->
               EmptyObject(p.fields, k, IF p.kind = "tstamp" THEN p.min + k * p.step ELSE 0)]]
NoQuery == [rows |-> <<>>, offset |-> 0, recs |-> <<>>, objs |-> <<>>]

\* GetIsFullFlag
IsFull(p, q) == p.kind = "raw" /\ Len(q.rows) >= p.count

\* QuerySnapshot::GetMaxDevId
MaxDevId(p, q) ==
  IF p.kind = "snapshot" /\ Len(q.recs) > p.offset + p.count
    THEN GreatestOf({q.recs[i].dev : i \in DOMAIN q.recs}) ELSE Int64Max

------------------------------------------------------------------------------
(* The records of a part, as the query object gets them. *)

RECURSIVE Chunks(_)
Chunks(s) ==
  IF Len(s) <= PageLen THEN IF s = <<>> THEN <<>> ELSE <<s>>
  ELSE <<SubSeq(s, 1, PageLen)>> \o Chunks(SubSeq(s, PageLen + 1, Len(s)))

OfDevice(day, dev) ==
  LET recs == {r \in table : DevOf(r) = dev /\ DayOf(TsOf(r)) = day}
      times == SortedUp({TsOf(r) : r \in recs})
  IN [i \in DOMAIN times |-> CHOOSE r \in recs : TsOf(r) = times[i]]

\* A mutant: the page that starts before bg and may reach over it is left out.
InRangePages_m(all, bg, ed) ==
  SelectSeq(all, LAMBDA s : TsOf(s[1]) \in bg .. ed)

\* GetDevIdxs, and GetIndex with the tests of NormalDataPart::QueryDevData:
\* from the last page that starts at or before bg to the last one that starts
\* at or before ed.
InRangePages(all, bg, ed) ==
  LET early == {i \in DOMAIN all : TsOf(all[i][1]) <= bg}
      from == IF early = {} THEN 1 ELSE GreatestOf(early)
      upto == Cardinality({i \in DOMAIN all : TsOf(all[i][1]) <= ed})
  IN SubSeq(all, from, upto)

\* TraversalDataPage: from the end of the page, or from where the binary search for the begin of the
\* range stops, which may be the record before it, up to the first record past the other end.
Traversed(p, s) ==
  LET times == Image(s, TsOf)
      seek(ts) == Search(times, ts, 0, Len(s) - 1, 0) + 1
      up == IF times[1] > p.max THEN Len(s) + 1 ELSE IF times[1] < p.min THEN seek(p.min) ELSE 1
      down == IF times[Len(s)] < p.min THEN 0 ELSE IF times[Len(s)] > p.max THEN seek(p.max) ELSE Len(s)
      walk == IF p.asc THEN SubSeq(s, up, Len(s)) ELSE Reversed(SubSeq(s, 1, down))
      past == {i \in DOMAIN walk : IF p.asc THEN TsOf(walk[i]) > p.max ELSE TsOf(walk[i]) < p.min}
  IN IF past = {} THEN walk ELSE SubSeq(walk, 1, LeastOf(past))

\* The pages a device has for the query, in its direction.  A page of a normal
\* part gives the records it is walked over for, a block all of its records; a
\* snapshot looks at the newest record only.
PagesOf(p, pt, dev) ==
  LET turn(s) == IF p.asc THEN s ELSE Reversed(s)
      all == Chunks(OfDevice(pt.day, dev))
      found == turn(InRangePages(all, p.min, p.max))
      newest == turn(all)
  IN IF p.kind = "snapshot"
       THEN IF all = <<>> THEN <<>> ELSE <<turn(Head(newest))>>
       ELSE [i \in DOMAIN found |-> IF pt.comp THEN turn(found[i]) ELSE Traversed(p, found[i])]

------------------------------------------------------------------------------
(* AppendSingle: one record of a normal part. *)

Done(q, added) == [q |-> q, status |-> "ok", added |-> added]
Failed(q, status) == [q |-> q, status |-> status, added |-> FALSE]
RowOf(items, rec) == Image(items, LAMBDA it : GetValue(it, rec))
IsUndef(row) == \E i \in DOMAIN row : row[i] = Undef

GroupId(p, rec) ==
  CASE p.kind = "all" -> 0
    [] p.kind = "devid" -> DevOf(rec)
    [] p.kind = "tstamp" -> Quot(TsOf(rec) - p.min, p.step)

\* ResultObject::AppendSingle, with AggIfExtendFunc::AppendSingle.
Chosen(agg, rec) == agg.cond = NoItem \/ IsTrue(GetValue(agg.cond, rec))
AppendObject(p, obj, rec) ==
  [i \in DOMAIN obj |->
     IF Chosen(p.fields[i], rec) THEN AppendAgg(p.fields[i], obj[i], rec, FALSE) ELSE obj[i]]

RawSingle(p, q, rec) ==
  LET row == RowOf(p.items, rec) IN
  CASE q.offset > 0 -> Done([q EXCEPT !.offset = @ - 1], FALSE)
    [] q.offset = 0 /\ IsUndef(row) -> Failed(q, "undef")
    [] q.offset = 0 /\ ~IsUndef(row) -> Done([q EXCEPT !.rows = Append(@, row)], TRUE)

GroupSingle(p, q, rec) ==
  LET k == GroupId(p, rec)
  IN IF k \in DOMAIN q.objs THEN Done([q EXCEPT !.objs[k] = AppendObject(p, @, rec)], TRUE)
     ELSE Done(q, FALSE)

SnapshotSingle(p, q, rec) ==
  LET row == RowOf(p.items, rec)
  IN IF IsUndef(row) THEN Failed(q, "undef")
     ELSE Done([q EXCEPT !.recs = Append(@, [dev |-> DevOf(rec), row |-> row])], TRUE)

AppendSingle(p, q, rec) ==
  LET cond == RunCondition(p.filter.conds, rec) IN
  CASE IsFull(p, q) -> Failed(q, "full")
    [] ~IsFull(p, q) /\ cond = Undef -> Failed(q, "undef")
    [] ~IsFull(p, q) /\ cond = Bool(FALSE) -> Done(q, FALSE)
    [] ~IsFull(p, q) /\ cond = Bool(TRUE) ->
         IF p.kind = "raw" THEN RawSingle(p, q, rec)
         ELSE IF p.kind = "snapshot" THEN SnapshotSingle(p, q, rec)
         ELSE GroupSingle(p, q, rec)

\* TraversalDataPage: record after record, up to an error, and up to the first
\* record that is added for a query that wants no more of a device.
AppendRecord(p, acc, rec) ==
  IF acc.status # "ok" \/ (p.single /\ acc.added) THEN acc ELSE AppendSingle(p, acc.q, rec)
AppendRecords(p, q, recs) ==
  Fold(LAMBDA acc, rec : AppendRecord(p, acc, rec), Done(q, FALSE),
       IF p.kind = "snapshot" THEN <<Head(recs)>> ELSE recs)

------------------------------------------------------------------------------
(* AppendArray: a block of a compressed part. *)

Selected(p, recs, cols) ==
  SelectSeq(recs, LAMBDA r : RunConditionArray(p.filter.conds, r, cols) = Bool(TRUE))

\* A mutant: a block is not cut at the limit.
RawArray_m(p, q, recs, chosen) ==
  LET rows == [i \in 1 .. Len(chosen) |-> RowOf(p.items, chosen[i])]
  IN Done([q EXCEPT !.rows = @ \o rows], chosen # <<>>)

RawArray(p, q, recs, chosen) ==
  LET skip == MinOf(q.offset, Len(chosen))
      upto == MinOf(Len(chosen), skip + p.count - Len(q.rows))
      rows == [i \in 1 .. upto - skip |-> RowOf(p.items, chosen[skip + i])]
  IN IF Len(chosen) < q.offset THEN Done([q EXCEPT !.offset = @ - Len(chosen)], FALSE)
     ELSE IF \E i \in DOMAIN rows : IsUndef(rows[i]) THEN Failed(q, "undef")
     ELSE Done([q EXCEPT !.offset = @ - skip, !.rows = @ \o rows], chosen # <<>>)

\* AppendArray of a GroupField: the condition of an ..if asks for all the
\* records of the block and gets the selected ones until there are no more.
AggArray(agg, st, recs, chosen, group, cols) ==
  LET add(acc, r) == AppendAgg(agg, acc, r, agg.cond = NoItem)
      target == \E i \in DOMAIN group : group[i][agg.compare] # Null
      missing == \/ agg.compare \notin cols /\ group # <<>>
                 \/ agg.fn \in {"min", "max"} /\ agg.target \notin cols /\ target
      ok(s) == [st |-> s, status |-> "ok"]
  IN CASE agg.fn \in {"devid", "tstamp"} -> ok(st)
       [] agg.fn \notin {"devid", "tstamp"} /\ agg.cond # NoItem ->
            IF Len(chosen) # Len(recs) THEN [st |-> st, status |-> "error"]
            ELSE ok(Fold(add, st, SelectSeq(recs, LAMBDA r : Chosen(agg, r))))
       [] agg.fn \in {"first", "last"} /\ agg.cond = NoItem /\ agg.compare \notin cols ->
            [st |-> st, status |-> "error"]
       [] agg.fn \in {"first", "last"} /\ agg.cond = NoItem /\ agg.compare \in cols ->
            ok(Fold(add, st, group))
       [] agg.fn \in AggFns \ {"first", "last"} /\ agg.cond = NoItem ->
            IF missing THEN [st |-> st, status |-> "undef"] ELSE ok(Fold(add, st, group))

\* The ids of the records of a block; a time outside of the range has none.
BlockIds(p, recs) ==
  {GroupId(p, recs[i]) : i \in {j \in DOMAIN recs : p.kind = "tstamp" => TsOf(recs[j]) \in p.min .. p.max}}
GroupOf(p, chosen, k) ==
  SelectSeq(chosen, LAMBDA r : (p.kind = "tstamp" => TsOf(r) \in p.min .. p.max) /\ GroupId(p, r) = k)

GroupArray(p, q, recs, chosen, cols) ==
  LET keys == BlockIds(p, recs) \cap DOMAIN q.objs
      step(k, i) == AggArray(p.fields[i], q.objs[k][i], recs, chosen, GroupOf(p, chosen, k), cols)
      result == [k \in keys |-> [i \in DOMAIN p.fields |-> step(k, i)]]
      status == UNION {{result[k][i].status : i \in DOMAIN p.fields} : k \in keys}
      objs == [k \in DOMAIN q.objs |->
                 IF k \in keys THEN [i \in DOMAIN p.fields |-> result[k][i].st] ELSE q.objs[k]]
  IN CASE "undef" \in status -> Failed(q, "undef")
       [] "error" \in status /\ "undef" \notin status -> Failed(q, "error")
       [] status \subseteq {"ok"} -> Done([q EXCEPT !.objs = objs], p.kind # "tstamp" /\ chosen # <<>>)

AppendArray(p, q, recs, cols) ==
  LET chosen == Selected(p, recs, cols)
      undef == \E i \in DOMAIN recs : RunConditionArray(p.filter.conds, recs[i], cols) = Undef
  IN CASE p.kind = "snapshot" -> AppendSingle(p, q, recs[1])
       [] p.kind # "snapshot" /\ IsFull(p, q) -> Failed(q, "full")
       [] p.kind # "snapshot" /\ ~IsFull(p, q) /\ undef -> Failed(q, "undef")
       [] p.kind # "snapshot" /\ ~IsFull(p, q) /\ ~undef ->
            IF p.kind = "raw" THEN RawArray(p, q, recs, chosen)
            ELSE GroupArray(p, q, recs, chosen, cols)

------------------------------------------------------------------------------
(* The result. *)

Error == [kind |-> "error", rows |-> <<>>]
NoAnswer == [kind |-> "none", rows |-> <<>>]
Rows(rows) == [kind |-> "rows", rows |-> rows]

\* QueryGroup::GetResult: a row for every group, in the order of the groups.
GroupRows(p, q) ==
  LET keys == SortedUp(DOMAIN q.objs)
      fields(k) == [i \in DOMAIN p.fields |-> AggResult(p.fields[i], q.objs[k][i])]
  IN [i \in DOMAIN keys |-> RowOf(p.items, fields(keys[i]))]

\* QuerySnapshot::GetResult: by device, then the limit.
SnapshotRows(p, q) ==
  LET ids == SortedUp({q.recs[i].dev : i \in DOMAIN q.recs})
      row(d) == (CHOOSE i \in DOMAIN q.recs : q.recs[i].dev = d)
      all == [i \in DOMAIN ids |-> q.recs[row(ids[i])].row]
  IN SubSeq(all, p.offset + 1, MinOf(Len(all), p.offset + p.count))

Result(p, q) ==
  CASE p.kind = "raw" -> q.rows
    [] p.kind = "snapshot" -> SnapshotRows(p, q)
    [] p.kind \notin {"raw", "snapshot"} -> GroupRows(p, q)

------------------------------------------------------------------------------
(* The steps. *)

Init ==
  /\ stmt = 0 /\ plan = NoPlan /\ phase = "idle"
  /\ table \in Tables
  /\ comp \in [Days -> BOOLEAN]
  /\ part = [day |-> 0, comp |-> FALSE]
  /\ devs = <<>> /\ pos = 1 /\ pages = <<>>
  /\ query = NoQuery /\ answer = NoAnswer

\* A mutant: the last part is asked for again.
NextDay_m ==
  LET within == {d \in Days : d \in DayOf(plan.min) .. DayOf(plan.max) /\ IF plan.asc THEN d >= part.day ELSE d <= part.day}
  IN IF within = {} THEN {} ELSE {IF plan.asc THEN LeastOf(within) ELSE GreatestOf(within)}

\* The part that is next in the direction of the query, if any.
NextDay ==
  LET after == {d \in Days : IF plan.asc THEN d > part.day ELSE d < part.day}
      within == {d \in after : d \in DayOf(plan.min) .. DayOf(plan.max)}
  IN IF within = {} THEN {} ELSE {IF plan.asc THEN LeastOf(within) ELSE GreatestOf(within)}

\* PDBTable::ExecQuery and the function for its kind: build the query, ask for
\* the devices, and start unless there is nothing to look for.
Exec(s) ==
  /\ phase = "idle"
  /\ stmt' = s
  /\ plan' = Plan(Statements[s])
  /\ IF ~plan'.ok
       THEN /\ phase' = "done" /\ answer' = Error
            /\ UNCHANGED <<part, devs, query>>
       ELSE /\ query' = NewQuery(plan')
            /\ devs' = plan'.devs
            /\ phase' = IF plan'.devs = <<>> \/ plan'.empty THEN "finish" ELSE "part"
            /\ part' = [day |-> IF plan'.asc THEN DayOf(plan'.min) - 1 ELSE DayOf(plan'.max) + 1,
                        comp |-> FALSE]
            /\ UNCHANGED answer
  /\ UNCHANGED <<table, comp, pos, pages>>

\* QuerySnapshotData stops before the last part when no device is left that
\* could be in the result.
NoneLeft == IF devs = <<>> THEN TRUE ELSE devs[1] > MaxDevId(plan, query)

\* QueryAsc, QueryDesc, QueryFirst, QueryLast and QuerySnapshotData take the
\* next part, under partMutex_, and hold a reference to it.
NextPart ==
  /\ phase = "part"
  /\ IF NextDay = {} \/ NoneLeft
       THEN /\ phase' = "finish" /\ UNCHANGED <<part, pos>>
       ELSE /\ \E d \in NextDay : part' = [day |-> d, comp |-> comp[d]]
            /\ phase' = "device" /\ pos' = 1
  /\ UNCHANGED <<stmt, plan, table, comp, devs, pages, query, answer>>

\* DataPart: the next device of the list.
NextDevice ==
  /\ phase = "device"
  /\ IF pos > Len(devs)
       THEN phase' = "part" /\ UNCHANGED <<pos, pages>>
       ELSE IF devs[pos] > MaxDevId(plan, query)
       THEN phase' = "part" /\ UNCHANGED <<pos, pages>>
       ELSE LET found == PagesOf(plan, part, devs[pos])
            IN IF found = <<>> THEN pos' = pos + 1 /\ UNCHANGED <<phase, pages>>
               ELSE phase' = "page" /\ pages' = found /\ UNCHANGED pos
  /\ UNCHANGED <<stmt, plan, table, comp, part, devs, query, answer>>

\* What a page or block of the device does to the query object.
Appended ==
  IF part.comp THEN AppendArray(plan, query, Head(pages), DOMAIN Names \ Missing[part.day])
  ELSE AppendRecords(plan, query, Head(pages))

\* A mutant: a device of a snapshot stays in the list when its newest record
\* does not meet the condition.
DeviceDone_m(r) == (plan.single \/ plan.kind = "snapshot") /\ r.added

\* No other part is asked for the device.
DeviceDone(r) == (plan.single /\ r.added) \/ plan.kind = "snapshot"

Erase == devs' = SubSeq(devs, 1, pos - 1) \o SubSeq(devs, pos + 1, Len(devs)) /\ UNCHANGED pos

\* One page of NormalDataPart::QueryDevData, under its mutex, or one block of
\* CompDataPart::QueryDevData.  The clock is asked before the next page, and
\* after every block.
AppendPage(late) ==
  /\ phase = "page"
  /\ \E r \in {Appended} :
     /\ query' = r.q
     /\ IF r.status \in {"undef", "error"}
          THEN /\ phase' = IF r.status = "undef" THEN "undefined" ELSE "done"
               /\ answer' = IF r.status = "undef" THEN answer ELSE Error
               /\ pages' = <<>> /\ UNCHANGED <<devs, pos>>
          ELSE IF DeviceDone(r)
          THEN Erase /\ phase' = "device" /\ pages' = <<>> /\ UNCHANGED answer
          ELSE IF IsFull(plan, r.q)
          THEN phase' = "finish" /\ pages' = <<>> /\ UNCHANGED <<devs, pos, answer>>
          ELSE IF late /\ (part.comp \/ Len(pages) > 1)
          THEN phase' = "done" /\ answer' = Error /\ pages' = <<>> /\ UNCHANGED <<devs, pos>>
          ELSE /\ pages' = Tail(pages)
               /\ phase' = IF Len(pages) > 1 THEN "page" ELSE "device"
               /\ pos' = IF Len(pages) > 1 THEN pos ELSE pos + 1
               /\ UNCHANGED <<devs, answer>>
  /\ UNCHANGED <<stmt, plan, table, comp, part>>

Finish ==
  /\ phase = "finish"
  /\ \E rows \in {Result(plan, query)} :
       IF \E i \in DOMAIN rows : IsUndef(rows[i])
         THEN phase' = "undefined" /\ UNCHANGED answer
         ELSE phase' = "done" /\ answer' = Rows(rows)
  /\ UNCHANGED <<stmt, plan, table, comp, part, devs, pos, pages, query>>

Forget ==
  /\ stmt' = 0 /\ plan' = NoPlan /\ phase' = "idle" /\ part' = [day |-> 0, comp |-> FALSE]
  /\ devs' = <<>> /\ pos' = 1 /\ pages' = <<>> /\ query' = NoQuery /\ answer' = NoAnswer
  /\ UNCHANGED <<table, comp>>

\* The answer is sent and the query object deleted.
Reply == phase = "done" /\ Forget

\* After undefined behaviour nothing is known; the modelled outcome is the end
\* of the process and its restart.
Restart == phase = "undefined" /\ Forget

\* PDBTable::DumpToCompress, PartLifecycle: the part of a day is replaced.
Dump(d) == ~comp[d] /\ comp' = [comp EXCEPT ![d] = TRUE]
           /\ UNCHANGED <<stmt, plan, phase, table, part, devs, pos, pages, query, answer>>

Step == NextPart \/ NextDevice \/ (\E late \in BOOLEAN : AppendPage(late)) \/ Finish
Next ==
  \/ \E s \in DOMAIN Statements : Exec(s)
  \/ Step
  \/ Reply
  \/ Restart
  \/ \E d \in Days : Dump(d)

Spec == Init /\ [][Next]_vars

------------------------------------------------------------------------------
(* Properties.  The reference knows neither pages nor blocks nor parts nor   *)
(* ranges: it looks at the set of all records.                             *)

Matching(p) == {r \in table : RunCondition(p.filter.conds, r) = Bool(TRUE)}

\* Days in the direction of the query, devices upwards, times in the direction
\* of the query.
Before(p, r, s) ==
  LET way(a, b) == IF p.asc THEN a < b ELSE a > b IN
  \/ way(DayOf(TsOf(r)), DayOf(TsOf(s)))
  \/ DayOf(TsOf(r)) = DayOf(TsOf(s)) /\ DevOf(r) < DevOf(s)
  \/ DayOf(TsOf(r)) = DayOf(TsOf(s)) /\ DevOf(r) = DevOf(s) /\ way(TsOf(r), TsOf(s))

RECURSIVE InOrder(_, _)
InOrder(p, S) ==
  IF S = {} THEN <<>>
  ELSE LET r == CHOOSE x \in S : \A y \in S \ {x} : Before(p, x, y)
       IN <<r>> \o InOrder(p, S \ {r})

RawExpected(p) ==
  LET all == InOrder(p, Matching(p))
      page == SubSeq(all, p.offset + 1, MinOf(Len(all), p.offset + p.count))
  IN [i \in DOMAIN page |-> RowOf(p.items, page[i])]

\* The values that an aggregate may have on a set of records.
RECURSIVE SumOf(_, _)
SumOf(S, c) == IF S = {} THEN 0 ELSE LET r == CHOOSE x \in S : TRUE IN r[c].v + SumOf(S \ {r}, c)

AggExpected(agg, k, start, S0) ==
  LET S == {r \in S0 : Chosen(agg, r)}
      valued == {r \in S : r[agg.compare] # Null}
      total == SumOf(valued, agg.compare)
      ends == {r \in S : \A x \in S : IF agg.fn = "first" THEN TsOf(r) <= TsOf(x) ELSE TsOf(r) >= TsOf(x)}
      extremes == {r \in valued : \A x \in valued :
                     IF agg.fn = "min" THEN r[agg.compare].v <= x[agg.compare].v
                     ELSE r[agg.compare].v >= x[agg.compare].v}
      orNull(T) == IF T = {} THEN {Null} ELSE T
  IN CASE agg.fn = "devid" -> {Val("INT64", k)}
       [] agg.fn = "tstamp" -> {Val("DATETIME", start)}
       [] agg.fn = "count" -> {Val("INT64", Cardinality(valued))}
       [] agg.fn \in {"sum", "avg"} /\ valued = {} -> {Null}
       [] agg.fn = "sum" /\ valued # {} -> {Val(agg.type, IF IsReal(agg.type) THEN total ELSE Wrap64(total))}
       [] agg.fn = "avg" /\ valued # {} -> {Val(agg.type, Quot(total, Cardinality(valued)))}
       [] agg.fn \in {"first", "last"} -> orNull({r[agg.compare] : r \in ends})
       [] agg.fn \in {"min", "max"} -> orNull({r[agg.target] : r \in extremes})

\* The groups a statement asks for: all records, or the devices of the page,
\* or the windows of time that begin before the range ends.
Wanted(p) ==
  LET ids == SelectSeq(SortedUp(Devices), LAMBDA d : FilterDevId(p.filter, d))
  IN CASE p.kind = "all" -> IF p.offset = 0 THEN <<0>> ELSE <<>>
       [] p.kind = "devid" -> SubSeq(ids, p.offset + 1, MinOf(Len(ids), p.offset + p.count))
       [] p.kind = "tstamp" -> SortedUp({k \in 0 .. p.count - 1 : p.min + k * p.step < p.filter.maxTs})
Members(p, k) ==
  CASE p.kind = "all" -> Matching(p)
    [] p.kind = "devid" -> {r \in Matching(p) : DevOf(r) = k}
    [] p.kind = "tstamp" -> {r \in Matching(p) : TsOf(r) \in p.min + k * p.step .. p.min + (k + 1) * p.step - 1}

RECURSIVE Choices(_)
Choices(sets) ==
  IF sets = <<>> THEN {<<>>} ELSE {<<x>> \o f : x \in Head(sets), f \in Choices(Tail(sets))}

\* The records before the window that a page may give with those of the window: of each device the
\* newest one of that day, when it is less than a step before it; README.md, "Departures".
Strays(p) ==
  IF p.kind # "tstamp" THEN {}
  ELSE {r \in Matching(p) :
          /\ TsOf(r) \in p.min - p.step + 1 .. p.min - 1 /\ DayOf(TsOf(r)) = DayOf(p.min)
          /\ \A x \in table : DevOf(x) = DevOf(r) /\ TsOf(x) < p.min => TsOf(x) <= TsOf(r)}

\* The rows that the group of a key may have; strays fall into the first.
GroupExpected(p, k) ==
  LET may(recs) == Image(p.fields, LAMBDA agg : AggExpected(agg, k, p.min + k * p.step, recs))
      rows(recs) == {RowOf(p.items, f) : f \in Choices(may(recs))}
  IN UNION {rows(Members(p, k) \cup extra) : extra \in SUBSET (IF k = 0 THEN Strays(p) ELSE {})}

\* The newest record of every device in the days of the range, if it matches.
SnapshotExpected(p) ==
  LET seen(d) == {r \in table : DevOf(r) = d /\ DayOf(TsOf(r)) \in DayOf(p.min) .. DayOf(p.max)}
      newest(d) == CHOOSE r \in seen(d) : \A x \in seen(d) : TsOf(r) >= TsOf(x)
      ids == SortedUp({d \in Devices : seen(d) # {} /\ newest(d) \in Matching(p)})
      page == SubSeq(ids, p.offset + 1, MinOf(Len(ids), p.offset + p.count))
  IN [i \in DOMAIN page |-> RowOf(p.items, newest(page[i]))]

\* Where the code departs from the reference; README.md, "Departures".
RECURSIVE DoubleSub(_)
DoubleSub(it) ==
  \/ it.k = "calc" /\ it.op = "sub" /\ it.type = "DOUBLE"
  \/ \E i \in DOMAIN it.args : DoubleSub(it.args[i])
Big(p) == {r \in table : r[p].t = "INT64" /\ r[p].v \notin -Int32Max - 1 .. Int32Max}
Departs(p) ==
  LET blocks == \E d \in Days : comp[d] IN
  \/ blocks /\ \E i \in DOMAIN p.filter.conds : DoubleSub(p.filter.conds[i])
  \/ p.kind = "tstamp" /\ p.single
  \/ p.kind = "devid" /\ p.count = 0
  \/ \E i \in DOMAIN p.fields :
       LET agg == p.fields[i] IN
       \/ agg.fn \in {"min", "max"} /\ Types[agg.compare] = "DATETIME"
       \/ agg.fn \in {"min", "max"} /\ blocks /\ Big(agg.compare) # {}
       \/ agg.fn = "sum" /\ agg.type = "INT32"
       \/ agg.cond # NoItem /\ blocks /\ p.kind = "tstamp"

Answered(kinds) == answer.kind = "rows" /\ plan.kind \in kinds /\ ~Departs(plan)

\* Types; a page holds records of the device the iterator is at and of the day
\* of the part, and a result never exceeds the LIMIT.
TypeOK ==
  /\ stmt \in 0 .. Len(Statements)
  /\ phase \in {"idle", "part", "device", "page", "finish", "done", "undefined"}
  /\ comp \in [Days -> BOOLEAN] /\ part.comp \in BOOLEAN
  /\ \A i, j \in DOMAIN devs : i < j => devs[i] < devs[j]
  /\ pos \in 1 .. Len(devs) + 1
  /\ (phase = "page") = (pages # <<>>)
  /\ \A i \in DOMAIN pages : \A k \in DOMAIN pages[i] :
       DevOf(pages[i][k]) = devs[pos] /\ DayOf(TsOf(pages[i][k])) = part.day
  /\ answer.kind \in {"none", "error", "rows"} /\ (answer # NoAnswer) = (phase = "done")
  /\ phase # "idle" => IF plan.ok THEN Len(query.rows) <= plan.count ELSE answer = Error

\* A SELECT without aggregates answers with the records of the table that meet
\* the condition, in order and without gap or repetition from the offset to the
\* limit, whichever parts are compressed and whenever they become so.
PageExact == Answered({"raw"}) => answer.rows = RawExpected(plan)


\* SELECT FROM SNAPSHOT looks at the newest record of each device and no older
\* one, also when it stops before the last device.
SnapshotExact == Answered({"snapshot"}) => answer.rows = SnapshotExpected(plan)

\* How far a query is from its end: parts, then devices, then pages.
Left(day) == Cardinality({d \in DayOf(plan.min) .. DayOf(plan.max) : d \in Days
                                /\ IF plan.asc THEN d > day ELSE d < day})
Rank ==
  CASE phase = "part" -> 10000 * Left(part.day) + 2
    [] phase = "device" -> 10000 * Left(part.day) + 100 * (Len(devs) + 2 - pos)
    [] phase = "page" -> 10000 * Left(part.day) + 100 * (Len(devs) + 1 - pos) + Len(pages)
    [] phase = "finish" -> 1
    [] phase \in {"done", "undefined"} -> 0

\* Every step of a query brings it nearer to its end, whatever is dumped and
\* erased meanwhile: no part, device or page is asked for twice, and a query
\* cannot run for ever.
Progress == [][stmt # 0 /\ stmt' = stmt /\ comp' = comp => Rank' < Rank]_vars
=============================================================================
