---------------------------- MODULE MCDeviceScan ----------------------------
(* The instances of DeviceScan that TLC checks. *)
EXTENDS DeviceScan

MCKeys == 1 .. 4
\* A range that begins inside the day and ends at its last timestamp.
MCRanges == {<<2, 4>>}
=============================================================================
