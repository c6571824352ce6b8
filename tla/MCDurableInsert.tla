-------------------------- MODULE MCDurableInsert --------------------------
(* The instances of DurableInsert that TLC checks. *)
EXTENDS DurableInsert, TLC

CONSTANTS r1, r2, t1, t2

\* Two records with keys of their own, the second one in a table that does not
\* exist yet; or both of one device and timestamp in that table.
Rec(t, k) == [tab |-> t, key |-> k]
TwoTables == r1 :> Rec(t1, 1) @@ r2 :> Rec(t2, 2)
OtherWay == r2 :> Rec(t1, 1) @@ r1 :> Rec(t2, 2)
OneKey == r1 :> Rec(t2, 1) @@ r2 :> Rec(t2, 1)
MCTargets == {TwoTables, OtherWay, OneKey}
\* The names of the records tell them apart in no definition, and MCTargets is
\* closed under their exchange.
RecSymmetry == Permutations({r1, r2})
MCOneTable == {r1 :> Rec(t1, 1) @@ r2 :> Rec(t1, 2)}
=============================================================================
