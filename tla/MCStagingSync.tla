--------------------------- MODULE MCStagingSync ---------------------------
(* Small instances of StagingSync for TLC. *)
EXTENDS StagingSync

CONSTANTS t1, t2

TwoTicks == {t1, t2}
=============================================================================
