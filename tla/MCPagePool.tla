----------------------------- MODULE MCPagePool -----------------------------
(* The instance of PagePool that TLC checks: two parts that both have a page 1. *)
EXTENDS PagePool

MCPages == {<<1, 1>>, <<1, 2>>, <<2, 1>>}
MCNewPages == {<<1, 2>>}
=============================================================================
