---------------------------- MODULE MCMemoryWatch ----------------------------
(* A small instance of MemoryWatch for TLC: usage below the thresholds, at *)
(* the warning threshold and above the critical one.                       *)
EXTENDS MemoryWatch

Percentages == {50, 80, 95}
=============================================================================
