---------------------------- MODULE MCNormalPart ----------------------------
(* The instances of NormalPart that TLC checks. *)
EXTENDS NormalPart

MCKeys == 1 .. 4
MCFewKeys == 1 .. 3
=============================================================================
