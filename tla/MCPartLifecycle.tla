-------------------------- MODULE MCPartLifecycle --------------------------
(* The instance of PartLifecycle that TLC checks. *)
EXTENDS PartLifecycle

MCRecs == {<<1, 1>>}
=============================================================================
