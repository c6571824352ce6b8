----------------------------- MODULE MCSession -----------------------------
(* The instance of Session that TLC checks: one client with three requests, one that only connects. *)
EXTENDS Session

CONSTANTS c1, c2
MCConns == {c1, c2}
MCMaxReq == [c \in MCConns |-> IF c = c1 THEN 3 ELSE 0]
=============================================================================
