----------------------------- MODULE ValueItem -----------------------------
(***************************************************************************)
(* Expressions of a query: how query/value_item.cpp turns the tree of the  *)
(* parser into a tree of ValueItems, and what such a tree computes.        *)
(*                                                                         *)
(* Every ValueItem computes twice: GetValue on one record, the path of a   *)
(* normal part, and GetValueArray on the selected records of a block, the  *)
(* path of a compressed part.  All the array forms work element by         *)
(* element, so an array form is modelled by the element it computes for a  *)
(* record (GetElement); the two paths share what their code shares and     *)
(* differ where their code differs.                                        *)
(*                                                                         *)
(* A value is [t, v], v an integer: 0/1 for BOOL, half units for DOUBLE,   *)
(* the name of a text for STRING.  INT32 stands for the integer types      *)
(* narrower than INT64, DOUBLE for FLOAT too.  Undef is the result of      *)
(* undefined behaviour.                                                    *)
(***************************************************************************)
EXTENDS Integers, Sequences, FiniteSets

CONSTANTS
  Int32Max, Int64Max,   \* the largest INT32 and INT64
  MaxMicro,             \* DateTime::MaxMicrosecond; MinMicrosecond is 0
  Clock,                \* the time BuildQuery reads for now()
  TimeZone,             \* DateTime::GetSysTimeZone, in microseconds
  Dates,                \* texts that DateTime::Parse accepts |-> their time
  Units,                \* texts that name a unit of time |-> its length
  Day,                  \* DateTime::MicrosecondPerDay
  Matches               \* patterns of LIKE |-> the texts they match

ASSUME ValueItemAssumption ==
  /\ 0 < Int32Max /\ Int32Max < Int64Max /\ 0 < MaxMicro /\ MaxMicro < Int64Max
  /\ \A u \in DOMAIN Units : Units[u] > 0
  /\ \A s \in DOMAIN Dates : Dates[s] \in 0 .. MaxMicro

------------------------------------------------------------------------------
(* Values. *)

Val(t, v) == [t |-> t, v |-> v]
Null == Val("NULL", 0)
Undef == Val("UNDEF", 0)
Bool(p) == Val("BOOL", IF p THEN 1 ELSE 0)
IsTrue(x) == x = Bool(TRUE)
IsNumber(t) == t \in {"INT32", "INT64"}
IsReal(t) == t = "DOUBLE"
AsDouble(x) == IF IsNumber(x.t) THEN 2 * x.v ELSE x.v
Magnitude(n) == IF n < 0 THEN -n ELSE n

Wrap32(n) == ((n + Int32Max + 1) % (2 * (Int32Max + 1))) - (Int32Max + 1)
Wrap64(n) == ((n + Int64Max + 1) % (2 * (Int64Max + 1))) - (Int64Max + 1)

\* The images of the elements of a sequence.  (The concatenation makes TLC
\* compute each of them once.)
Image(s, F(_)) == <<>> \o [i \in DOMAIN s |-> F(s[i])]

\* Division and remainder of C: the quotient is truncated towards zero.
Quot(a, b) ==
  LET q == Magnitude(a) \div Magnitude(b) IN IF (a < 0) = (b < 0) THEN q ELSE -q
Rem(a, b) == a - b * Quot(a, b)

------------------------------------------------------------------------------
(* Expressions, as the parser builds them, and the table they are about:   *)
(* its columns, and for a grouped query the results of its aggregates.     *)

Expr(op, name, val, args) == [op |-> op, name |-> name, val |-> val, args |-> args]
Id(field) == Expr("id", field, Null, <<>>)
Lit(t, v) == Expr("lit", "", Val(t, v), <<>>)
Star == Expr("star", "", Null, <<>>)
Fn(name, args) == Expr("fn", name, Null, args)
Compare(op, left, right) == Expr(op, "", Null, <<left, right>>)
And(left, right) == Expr("and", "", Null, <<left, right>>)
Like(field, pattern) == Expr("like", field, Val("STRING", pattern), <<>>)
IsNull(field) == Expr("isnull", field, Null, <<>>)
IsNotNull(field) == Expr("isnotnull", field, Null, <<>>)
In(field, list) == Expr("in", field, Null, list)
NotIn(field, list) == Expr("notin", field, Null, list)

CompareOps == {"lt", "le", "gt", "ge", "eq", "ne"}
CalcFns == {"add", "sub", "mul", "div", "mod"}
AggFns == {"count", "first", "last", "avg", "min", "max", "sum"}
IfFns == {"countif", "firstif", "lastif", "avgif", "minif", "maxif", "sumif"}
Sub(ifFn) ==
  [countif |-> "count", firstif |-> "first", lastif |-> "last", avgif |-> "avg",
   minif |-> "min", maxif |-> "max", sumif |-> "sum"][ifFn]
IsAgg(e) == e.op = "fn" /\ e.name \in AggFns \cup IfFns

\* Whether an aggregate function occurs anywhere in the expression.
RECURSIVE IncludeAgg(_)
IncludeAgg(e) == IsAgg(e) \/ \E i \in DOMAIN e.args : IncludeAgg(e.args[i])

Table(names, types, aggs) == [names |-> names, types |-> types, aggs |-> aggs]
FieldPos(tab, name) == {p \in DOMAIN tab.names : tab.names[p] = name}
AggPos(tab, e) == {i \in DOMAIN tab.aggs : tab.aggs[i].expr = e}
LeastOf(S) == CHOOSE p \in S : \A q \in S : p <= q
DevIdPos == 1
TstampPos == 2

------------------------------------------------------------------------------
(* ValueItems.  NoItem is the null pointer of a creator that refuses. *)

NoItem == [k |-> "none", type |-> "NULL", op |-> "", pos |-> 0, args |-> <<>>,
           val |-> Null, set |-> {}]
Item(k, type, op, args) ==
  [NoItem EXCEPT !.k = k, !.type = type, !.op = op, !.args = args]
Const(x) == [NoItem EXCEPT !.k = "const", !.type = x.t, !.val = x]
TimeConst(n) ==
  [Const(IF n \in 0 .. MaxMicro - 1 THEN Val("DATETIME", n) ELSE Null) EXCEPT !.type = "DATETIME"]
Field(tab, pos) ==
  LET n == Len(tab.names)
      type == IF pos <= n THEN tab.types[pos] ELSE tab.aggs[pos - n].type
  IN [NoItem EXCEPT !.k = "field", !.type = type, !.pos = pos]

RECURSIVE IsConst(_)
IsConst(it) ==
  \/ it.k = "const"
  \/ /\ it.k \notin {"none", "field"}
     /\ \A i \in DOMAIN it.args : IsConst(it.args[i])

Holds(op, a, b) ==
  \/ op = "lt" /\ a < b
  \/ op = "le" /\ a <= b
  \/ op = "gt" /\ a > b
  \/ op = "ge" /\ a >= b
  \/ op = "eq" /\ a = b
  \/ op = "ne" /\ a # b

\* CalculateFunction on two integers.  The one division whose quotient does
\* not fit traps.
IntResult(op, a, b) ==
  LET int(n) == Val("INT64", Wrap64(n)) IN
  CASE op = "add" -> int(a + b)
    [] op = "sub" -> int(a - b)
    [] op = "mul" -> int(a * b)
    [] op \in {"div", "mod"} /\ b = 0 -> Null
    [] op \in {"div", "mod"} /\ b = -1 /\ a = -Int64Max - 1 -> Undef
    [] op = "div" /\ b # 0 /\ ~(b = -1 /\ a = -Int64Max - 1) -> int(Quot(a, b))
    [] op = "mod" /\ b # 0 /\ ~(b = -1 /\ a = -Int64Max - 1) -> int(Rem(a, b))

\* CalculateFunction on two doubles.  On a block SUB adds.
DoubleResult(op, a, b, inBlock) ==
  CASE op = "add" \/ (op = "sub" /\ inBlock) -> Val("DOUBLE", a + b)
    [] op = "sub" /\ ~inBlock -> Val("DOUBLE", a - b)
    [] op = "mul" -> Val("DOUBLE", (a * b) \div 2)
    [] op = "div" -> IF b = 0 THEN Null ELSE Val("DOUBLE", Quot(2 * a, b))

Calculate(it, x, y, inBlock) ==
  CASE x.t = "NULL" \/ y.t = "NULL" -> Null
    [] x.t # "NULL" /\ y.t # "NULL" /\ it.type = "INT64" -> IntResult(it.op, x.v, y.v)
    [] x.t # "NULL" /\ y.t # "NULL" /\ it.type = "DOUBLE" ->
         DoubleResult(it.op, AsDouble(x), AsDouble(y), inBlock)

DateTimeAdd(x, y) ==
  IF x.t = "DATETIME" /\ y.t = "INT64" /\ x.v + y.v \in 0 .. MaxMicro
    THEN Val("DATETIME", x.v + y.v) ELSE Null

DateTimeDiff(x, y) ==
  IF x.t = "DATETIME" /\ y.t = "DATETIME" THEN Val("INT64", x.v - y.v) ELSE Null

\* DateTimeAlign<IsCeil>: the instance called ceil cuts off what exceeds a
\* multiple of the unit, the other one goes on to the next multiple.
DateTimeAlign(isCeil, x, unit) ==
  LET zone == IF unit = Day THEN TimeZone ELSE 0
      dt == IF isCeil THEN x.v - zone ELSE x.v - zone + unit - 1
  IN IF x.t = "DATETIME" THEN Val("DATETIME", dt - Rem(dt, unit) + zone) ELSE Null

AbsFunction(it, x) ==
  CASE x.t = "NULL" -> Null
    [] x.t # "NULL" /\ it.type = "INT32" -> Val("INT32", Wrap32(Magnitude(x.v)))
    [] x.t # "NULL" /\ it.type = "INT64" -> Val("INT64", Wrap64(Magnitude(x.v)))
    [] x.t # "NULL" /\ it.type = "DOUBLE" -> Val("DOUBLE", Magnitude(x.v))

\* IfFunction: the chosen value, in the type of the result.
InType(type, x) ==
  CASE x.t = "NULL" -> Null
    [] x.t # "NULL" /\ type = "DOUBLE" -> Val("DOUBLE", AsDouble(x))
    [] x.t # "NULL" /\ type # "DOUBLE" -> Val(type, x.v)
IfFunction(it, cond, x, y) == InType(it.type, IF IsTrue(cond) THEN x ELSE y)

NullFunction(it, x) == Bool((x.t = "NULL") = (it.op = "isnull"))
LikeFunction(it, x) == Bool(x.t = "STRING" /\ x.v \in it.set)

\* InFunction: a value of another type is in no list and out of none.  The
\* block form looks up the hash of its own result variable for a text, and
\* reads a column that the part does not have.
InFunction(it, x, present, inBlock) ==
  IF inBlock /\ (~present \/ (x.t = "STRING" /\ it.args[1].type = "STRING")) THEN Undef
  ELSE Bool(x.t = it.args[1].type /\ ((x.v \in it.set) # (it.op = "notin")))

HoldsValues(op, x, y) ==
  IF IsReal(x.t) \/ IsReal(y.t) THEN Holds(op, AsDouble(x), AsDouble(y)) ELSE Holds(op, x.v, y.v)
ValueCompare(it, x, y) ==
  Bool(x.t = it.args[1].type /\ y.t = it.args[2].type /\ HoldsValues(it.op, x, y))

FieldCompare(it, x) == Bool(x.t = it.args[1].type /\ Holds(it.op, x.v, it.val.v))

\* What an item computes from the values of its arguments.
Apply(it, x, present, inBlock) ==
  CASE it.k = "calc" -> Calculate(it, x[1], x[2], inBlock)
    [] it.k = "dtadd" -> DateTimeAdd(x[1], x[2])
    [] it.k = "dtdiff" -> DateTimeDiff(x[1], x[2])
    [] it.k = "align" -> DateTimeAlign(it.op = "ceil", x[1], it.val.v)
    [] it.k = "abs" -> AbsFunction(it, x[1])
    [] it.k = "if" -> IfFunction(it, x[1], x[2], x[3])
    [] it.k = "null" -> NullFunction(it, x[1])
    [] it.k = "like" -> LikeFunction(it, x[1])
    [] it.k = "in" -> InFunction(it, x[1], present, inBlock)
    [] it.k = "vcmp" -> ValueCompare(it, x[1], x[2])
    [] it.k = "fcmp" -> FieldCompare(it, x[1])

\* An AndFunction stops at the first condition that is not true on a record,
\* and runs them all on a block.
AndFunction(x, inBlock) ==
  LET failed == {i \in DOMAIN x : ~IsTrue(x[i])} IN
  CASE failed = {} -> Bool(TRUE)
    [] failed # {} -> IF Undef \in {x[i] : i \in IF inBlock THEN failed ELSE {LeastOf(failed)}}
                        THEN Undef ELSE Bool(FALSE)

\* The value of an item on a record; cols are the columns that the block has.
RECURSIVE Evaluate(_, _, _, _)
Evaluate(it, rec, cols, inBlock) ==
  LET x == Image(it.args, LAMBDA a : Evaluate(a, rec, cols, inBlock))
      present == \A i \in DOMAIN it.args : it.args[i].k = "field" => it.args[i].pos \in cols
  IN CASE it.k = "const" -> it.val
       [] it.k = "field" -> IF rec[it.pos].t = it.type THEN rec[it.pos] ELSE Null
       [] it.k = "and" -> AndFunction(x, inBlock)
       [] it.k \notin {"const", "field", "and"} ->
            IF \E i \in DOMAIN x : x[i] = Undef THEN Undef ELSE Apply(it, x, present, inBlock)

GetValue(it, rec) == Evaluate(it, rec, DOMAIN rec, FALSE)
GetElement(it, rec, cols) == Evaluate(it, rec, cols, TRUE)

------------------------------------------------------------------------------
(* The creators: expression and table to item. *)

\* ConvertStringToDateTime
ToDateTime(it) ==
  LET x == GetValue(it, <<>>)
  IN IF IsConst(it) /\ x.t = "STRING" /\ x.v \in DOMAIN Dates
       THEN TimeConst(Dates[x.v]) ELSE NoItem

\* A constant that is compared with something of a type: texts and integers
\* become times, integers become doubles, where that is possible.
ForType(type, x) ==
  CASE type = "DATETIME" /\ x.t = "STRING" /\ x.v \in DOMAIN Dates -> Val("DATETIME", Dates[x.v])
    [] type = "DATETIME" /\ x.t = "INT64" /\ x.v \in 0 .. MaxMicro - 1 -> Val("DATETIME", x.v)
    [] IsReal(type) /\ x.t = "INT64" -> Val("DOUBLE", 2 * x.v)
    [] OTHER -> x

Whole(a) == \A i \in DOMAIN a : IsNumber(a[i].type)
ValidCalculate(op, a) ==
  /\ \A i \in DOMAIN a : IsNumber(a[i].type) \/ IsReal(a[i].type)
  /\ op = "mod" => Whole(a)
CreateCalculate(op, a) ==
  IF Len(a) = 2 /\ ValidCalculate(op, a)
    THEN Item("calc", IF Whole(a) THEN "INT64" ELSE "DOUBLE", op, a) ELSE NoItem

CreateDateTime(op, a) ==
  LET time == IF a[1].type = "DATETIME" THEN a[1] ELSE ToDateTime(a[1])
      unit == GetValue(a[2], <<>>)
  IN CASE Len(a) # 2 -> NoItem
       [] Len(a) = 2 /\ time = NoItem -> NoItem
       [] Len(a) = 2 /\ time # NoItem /\ op = "datetimeadd" ->
            IF a[2].type = "INT64" THEN Item("dtadd", "DATETIME", op, <<time, a[2]>>) ELSE NoItem
       [] Len(a) = 2 /\ time # NoItem /\ op = "datetimediff" ->
            IF a[2].type = "DATETIME" THEN Item("dtdiff", "INT64", op, <<time, a[2]>>) ELSE NoItem
       [] Len(a) = 2 /\ time # NoItem /\ op \in {"datetimefloor", "datetimeceil"} ->
            IF IsConst(a[2]) /\ unit.t = "STRING" /\ unit.v \in DOMAIN Units
              THEN [Item("align", "DATETIME", IF op = "datetimeceil" THEN "ceil" ELSE "floor", <<time>>)
                      EXCEPT !.val = Val("INT64", Units[unit.v])]
              ELSE NoItem

CreateAbs(a) ==
  IF Len(a) = 1 /\ (IsNumber(a[1].type) \/ IsReal(a[1].type))
    THEN Item("abs", a[1].type, "abs", a) ELSE NoItem

\* The result of two numbers is INT64 and of a double and a number DOUBLE; a
\* number and a double, in that order, are refused.
IfType(x, y) ==
  CASE x.type = y.type -> x.type
    [] x.type # y.type /\ IsNumber(y.type) ->
         IF IsNumber(x.type) THEN "INT64" ELSE IF IsReal(x.type) THEN "DOUBLE" ELSE "none"
    [] OTHER -> "none"
CreateIf(a) ==
  LET x == IF a[2].type = "STRING" /\ a[3].type = "DATETIME" /\ ToDateTime(a[2]) # NoItem
             THEN ToDateTime(a[2]) ELSE a[2]
      y == IF a[2].type = "DATETIME" /\ a[3].type = "STRING" /\ ToDateTime(a[3]) # NoItem
             THEN ToDateTime(a[3]) ELSE a[3]
  IN CASE Len(a) # 3 -> NoItem
       [] Len(a) = 3 /\ a[1].type # "BOOL" -> NoItem
       [] Len(a) = 3 /\ a[1].type = "BOOL" ->
            IF IfType(x, y) = "none" THEN NoItem ELSE Item("if", IfType(x, y), "if", <<a[1], x, y>>)

Ordered(op, type) == op \in {"eq", "ne"} \/ type \notin {"BOOL", "STRING"}

\* A column on the left and a constant on the right.
CreateFieldCompare(op, field, x) ==
  LET y == ForType(field.type, x)
      class(t) == IF IsNumber(t) THEN "INT64" ELSE t
  IN IF class(field.type) = class(y.t) /\ Ordered(op, field.type)
       THEN [Item("fcmp", "BOOL", op, <<field>>) EXCEPT !.pos = field.pos, !.val = y]
       ELSE NoItem

\* Two doubles cannot be compared unless one is a column and one a constant.
Comparable(a, b) ==
  LET numeric(x) == IsNumber(x.type) \/ IsReal(x.type) IN
  \/ numeric(a) /\ numeric(b) /\ ~(IsReal(a.type) /\ IsReal(b.type))
  \/ a.type = b.type /\ a.type \in {"BOOL", "DATETIME", "STRING"}
CreateValueCompare(op, a, b) ==
  IF Comparable(a, b) /\ Ordered(op, a.type) THEN Item("vcmp", "BOOL", op, <<a, b>>) ELSE NoItem

\* convertParamFunc: a constant operand takes the type of the other one.
Converted(a, b) ==
  LET x == GetValue(a, <<>>)
      y == ForType(b.type, x)
  IN IF a.type # b.type /\ IsConst(a) /\ y # x THEN Const(y) ELSE a

CreateIsNull(op, field) == Item("null", "BOOL", op, <<field>>)
CreateLike(field, pattern) ==
  IF field.type # "STRING" THEN NoItem
  ELSE [Item("like", "BOOL", "like", <<field>>) EXCEPT !.set = Matches[pattern]]
CreateIn(op, field, list) ==
  LET type == IF IsNumber(field.type) THEN "INT64" ELSE "STRING"
      vals == {GetValue(list[i], <<>>) : i \in DOMAIN list}
  IN IF /\ IsNumber(field.type) \/ field.type = "STRING"
        /\ list # <<>>
        /\ \A i \in DOMAIN list : IsConst(list[i]) /\ GetValue(list[i], <<>>).t = type
       THEN [Item("in", "BOOL", op, <<field>>) EXCEPT !.pos = field.pos, !.set = {x.v : x \in vals}]
       ELSE NoItem

CreateAnd(items) ==
  IF \A i \in DOMAIN items : items[i].type = "BOOL" THEN Item("and", "BOOL", "and", items) ELSE NoItem

\* The conditions that AND connects, from the left to the right.
RECURSIVE Conjuncts(_)
Conjuncts(e) == IF e.op = "and" THEN Conjuncts(e.args[1]) \o Conjuncts(e.args[2]) ELSE <<e>>

\* CreateOperator: a column against a constant, or two general operands; the
\* left one is converted first.
CreateConverted(op, x, b) == CreateValueCompare(op, x, Converted(b, x))
CreateOperator(op, a, b, column) ==
  CASE b = NoItem \/ a = NoItem -> NoItem
    [] b # NoItem /\ a # NoItem ->
         IF column /\ IsConst(b) THEN CreateFieldCompare(op, a, GetValue(b, <<>>))
         ELSE CreateConverted(op, Converted(a, b), b)

\* The functions that are no aggregates, by name.
CreateFunction(name, a) ==
  CASE name \in CalcFns -> CreateCalculate(name, a)
    [] name \in {"datetimeadd", "datetimediff", "datetimefloor", "datetimeceil"} -> CreateDateTime(name, a)
    [] name = "if" -> CreateIf(a)
    [] name = "abs" -> CreateAbs(a)
    [] name = "now" -> IF a = <<>> THEN TimeConst(Clock) ELSE NoItem
    [] OTHER -> NoItem

\* BuildGeneralValueItem and the creators it chooses from.
RECURSIVE BuildItem(_, _)
BuildItem(tab, e) ==
  LET args == Image(e.args, LAMBDA a : BuildItem(tab, a))
      bad == \E i \in DOMAIN args : args[i] = NoItem
      known == FieldPos(tab, e.name) # {}
      field == Field(tab, LeastOf(FieldPos(tab, e.name)))
      items == Image(Conjuncts(e), LAMBDA c : BuildItem(tab, c))
  IN CASE e.op = "id" -> IF known THEN field ELSE NoItem
       [] e.op = "lit" -> Const(e.val)
       [] e.op = "star" -> NoItem
       [] IsAgg(e) -> IF AggPos(tab, e) = {} THEN NoItem
                      ELSE Field(tab, Len(tab.names) + LeastOf(AggPos(tab, e)))
       [] e.op = "fn" /\ ~IsAgg(e) -> IF bad THEN NoItem ELSE CreateFunction(e.name, args)
       [] e.op \in CompareOps ->
            CreateOperator(e.op, args[1], args[2], e.args[1].op = "id")
       [] e.op = "and" -> IF \E i \in DOMAIN items : items[i] = NoItem THEN NoItem ELSE CreateAnd(items)
       [] e.op = "like" -> IF known THEN CreateLike(field, e.val.v) ELSE NoItem
       [] e.op \in {"isnull", "isnotnull"} -> IF known THEN CreateIsNull(e.op, field) ELSE NoItem
       [] e.op \in {"in", "notin"} -> IF known /\ ~bad THEN CreateIn(e.op, field, args) ELSE NoItem

------------------------------------------------------------------------------
(* The ranges of devices and times that a condition leaves. *)

IsDevIdCondition(it) == it.k \in {"fcmp", "in"} /\ it.pos = DevIdPos
IsTstampCondition(it) == it.k = "fcmp" /\ it.pos = TstampPos

CompareRange(it) ==
  [min |-> IF it.op \in {"gt", "ge", "eq"} THEN it.val.v ELSE 0,
   max |-> IF it.op \in {"lt", "le", "eq"} THEN it.val.v ELSE Int64Max]

\* The devices of a list run from the smallest to the largest positive one.
InRange(it) ==
  LET ids == {x \in it.set : x > 0}
  IN CASE it.op = "notin" -> [min |-> 0, max |-> Int64Max]
       [] it.op = "in" /\ ids = {} -> [min |-> -1, max |-> -1]
       [] it.op = "in" /\ ids # {} ->
            [min |-> LeastOf(ids), max |-> CHOOSE x \in ids : \A y \in ids : x >= y]

GetRange(it) == IF it.k = "in" THEN InRange(it) ELSE CompareRange(it)
==============================================================================
