------------------------------ MODULE MCQuery ------------------------------
(* Three days, three devices, two records to a page or block.  Numbers are    *)
(* scaled: an INT32 has four bits, an INT64 seven; a day is eight units.    *)
EXTENDS Query, TLC

MCNames == <<"devid", "tstamp", "n", "v", "d", "s", "b">>
MCTypes == <<"INT64", "DATETIME", "INT32", "INT64", "DOUBLE", "STRING", "BOOL">>

\* Texts are numbers: 50 is a date, 51 and 52 are units, 61 to 63 any text.
MCDates == (50 :> 12)
MCUnits == (51 :> 2) @@ (52 :> 8)
MCMatches == (70 :> {61, 62})

Rec(dev, ts, n, v, d, s, b) ==
  <<Val("INT64", dev), Val("DATETIME", ts), n, v, d, s, b>>
N(x) == Val("INT32", x)
V(x) == Val("INT64", x)
D(x) == Val("DOUBLE", x)
S(x) == Val("STRING", x)

\* The part of day 1 was made before the table got its column b.
MCMissing == (1 :> {7}) @@ (2 :> {}) @@ (3 :> {})
MCRecords ==
  {Rec(1, 9, N(1), V(5), D(3), S(61), Null),
   Rec(1, 11, N(-2), V(-6), D(-4), S(62), Null),
   Rec(1, 14, N(3), Null, D(5), S(63), Null),
   Rec(1, 17, N(0), V(12), Null, S(61), Bool(TRUE)),
   Rec(1, 20, N(4), V(2), D(1), Null, Bool(FALSE)),
   Rec(1, 21, N(2), V(3), D(7), S(62), Null),
   Rec(2, 10, N(2), V(7), D(2), S(62), Null),
   Rec(2, 15, N(-1), V(-64), D(9), S(61), Null),
   Rec(3, 9, Null, V(1), D(-1), S(63), Null),
   Rec(3, 16, N(5), V(9), D(6), S(61), Bool(TRUE)),
   Rec(3, 18, N(1), V(-3), D(2), S(62), Bool(FALSE)),
   Rec(1, 30, N(3), V(8), D(4), S(61), Bool(TRUE)),
   Rec(2, 24, N(-3), V(4), D(8), S(63), Null)}

\* All of them, all but one, and at most one.
MCTables == {T \in SUBSET MCRecords : Cardinality(T) <= 1 \/ Cardinality(MCRecords \ T) <= 1}

----
(* The statements. *)

I(x) == Lit("INT64", x)
All == Nothing
Select(targets, where, offset, count) ==
  Statement(FALSE, targets, where, "none", 0, "none", offset, count)
Descending(targets, where, offset, count) ==
  [Select(targets, where, offset, count) EXCEPT !.order = "desc"]
ByDev(targets, where, offset, count) ==
  [Select(targets, where, offset, count) EXCEPT !.group = "devid"]
ByTime(step, targets, where, offset, count) ==
  [Select(targets, where, offset, count) EXCEPT !.group = "tstamp", !.step = step]
Snapshot(targets, where, offset, count) ==
  [Select(targets, where, offset, count) EXCEPT !.snapshot = TRUE]
Agg1(name, field) == Fn(name, <<Id(field)>>)
From(t) == Compare("ge", Id("tstamp"), I(t))
Gt(field, x) == Compare("gt", Id(field), I(x))

RawStatements ==
  <<Select(<<Star>>, All, 0, 9),
    Select(<<Star>>, All, 1, 9),
    Descending(<<Id("devid"), Id("tstamp")>>, And(From(10), Compare("le", Id("tstamp"), I(18))), 1, 3),
    Select(<<Id("n"), Id("v")>>, And(Gt("n", 0), Gt("v", 1)), 2, 3),
    Select(<<Fn("add", <<Id("n"), Id("v")>>), Fn("sub", <<Id("d"), Id("v")>>), Fn("mul", <<Id("d"), Id("d")>>),
             Agg1("abs", "v"), Agg1("abs", "n"), Agg1("abs", "d")>>, Compare("lt", Id("v"), I(8)), 0, 9),
    Select(<<Fn("div", <<Id("v"), Id("n")>>)>>, And(Compare("lt", Id("devid"), I(3)), Compare("ne", Id("devid"), I(2))), 0, 9),
    Select(<<Id("v")>>, Compare("ne", Fn("mod", <<Id("v"), Id("n")>>), I(0)), 0, 9),
    Select(<<Fn("div", <<Id("d"), Id("n")>>), Fn("if", <<Gt("n", 1), Id("n"), Id("v")>>), Fn("if", <<Gt("n", 1), Id("d"), Id("v")>>)>>,
           In("devid", <<I(-1), I(2), I(3)>>), 0, 9),
    Select(<<Id("tstamp")>>, And(NotIn("devid", <<I(2)>>), Like("s", 70)), 1, 2),
    Descending(<<Id("tstamp")>>, And(IsNotNull("b"), Compare("eq", Id("b"), Lit("BOOL", 1))), 0, 9),
    Descending(<<Star>>, And(IsNull("b"), Compare("ge", Id("tstamp"), Lit("STRING", 50))), 0, 4),
    Select(<<Fn("datetimefloor", <<Id("tstamp"), Lit("STRING", 51)>>), Fn("datetimeceil", <<Id("tstamp"), Lit("STRING", 52)>>),
             Fn("datetimeadd", <<Id("tstamp"), I(25)>>), Fn("datetimediff", <<Lit("STRING", 50), Id("tstamp")>>)>>,
           Compare("le", Id("tstamp"), Fn("now", <<>>)), 0, 5),
    Select(<<Id("d")>>, Compare("gt", Fn("sub", <<Id("d"), Lit("DOUBLE", 2)>>), Id("n")), 0, 9),
    Select(<<Id("n")>>, In("s", <<Lit("STRING", 61)>>), 0, 9),
    Select(<<Star>>, And(Compare("gt", I(2), I(3)), Gt("n", 0)), 0, 9),
    Select(<<Id("n")>>, And(Gt("devid", 3), Gt("n", 0)), 0, 9),
    Select(<<Id("n")>>, Compare("lt", Id("n"), Id("v")), 0, 0)>>

GroupStatements ==
  <<Select(<<Fn("count", <<Star>>), Agg1("sum", "v"), Agg1("avg", "n"), Agg1("min", "d"),
             Fn("max", <<Id("n"), Id("s")>>)>>, Gt("v", -10), 0, 1),
    Select(<<Agg1("first", "v"), Agg1("first", "d")>>, Gt("n", 0), 0, 1),
    Select(<<Agg1("last", "v")>>, And(Compare("lt", Id("tstamp"), I(18)), Gt("v", 0)), 0, 1),
    Select(<<Agg1("last", "s"), Agg1("count", "d")>>, All, 1, 1),
    Select(<<Fn("countif", <<Gt("n", 0), Id("n")>>), Fn("add", <<Agg1("sum", "v"), I(1)>>)>>, All, 0, 1),
    Select(<<Agg1("max", "tstamp")>>, All, 0, 1),
    Select(<<Agg1("sum", "n")>>, All, 0, 1),
    Select(<<Agg1("max", "v")>>, All, 0, 1),
    Select(<<Agg1("count", "b")>>, Gt("n", 0), 0, 1),
    ByDev(<<Id("devid"), Agg1("count", "n"), Agg1("sum", "d"), Agg1("max", "n")>>, From(10), 0, 9),
    ByDev(<<Id("devid"), Agg1("last", "d")>>, Gt("devid", 1), 1, 1),
    ByDev(<<Agg1("first", "n")>>, Gt("n", 1), 0, 2),
    ByDev(<<Agg1("count", "n")>>, Gt("n", 1), 0, 0),
    ByDev(<<Fn("sumif", <<Compare("gt", Id("d"), Lit("DOUBLE", 0)), Id("v")>>)>>, Gt("n", 0), 0, 9),
    ByTime(4, <<Id("tstamp"), Fn("count", <<>>), Agg1("avg", "v"), Agg1("last", "n")>>,
           And(From(9), Compare("lt", Id("tstamp"), I(20))), 0, 9),
    ByTime(3, <<Agg1("count", "s"), Agg1("min", "n")>>, From(9), 1, 3),
    ByTime(4, <<Fn("count", <<Star>>)>>, From(8), 1, 3),
    ByTime(4, <<Agg1("first", "n")>>, From(9), 0, 3),
    ByTime(4, <<Fn("countif", <<Gt("n", 0), Id("n")>>)>>, From(9), 0, 3),
    ByTime(4, <<Fn("count", <<Star>>)>>, Compare("lt", Id("tstamp"), I(20)), 0, 9)>>

SnapshotStatements ==
  <<Snapshot(<<Star>>, All, 0, 9),
    Snapshot(<<Id("devid"), Id("n")>>, Gt("n", 0), 0, 1),
    Snapshot(<<Id("devid"), Id("b")>>, All, 1, 1),
    Snapshot(<<Id("tstamp")>>, And(Compare("lt", Id("tstamp"), I(15)), Gt("devid", 1)), 0, 9),
    Snapshot(<<Id("s")>>, Compare("ge", Id("n"), I(2)), 0, 9)>>

RefusedStatements ==
  <<[ByDev(<<Id("devid")>>, All, 0, 9) EXCEPT !.order = "desc"],
    ByDev(<<Star>>, All, 0, 9),
    [Snapshot(<<Star>>, All, 0, 9) EXCEPT !.group = "devid"],
    Select(<<Star>>, All, 0, 21),
    Select(<<Star>>, Fn("add", <<Id("n"), I(1)>>), 0, 9),
    Select(<<Star>>, Compare("gt", Fn("sub", <<Id("d"), Lit("DOUBLE", 2)>>), Lit("DOUBLE", 0)), 0, 9),
    Select(<<Fn("if", <<Gt("n", 1), Id("v"), Id("d")>>)>>, All, 0, 9)>>

MCStatements == RawStatements \o GroupStatements \o SnapshotStatements \o RefusedStatements
=============================================================================
