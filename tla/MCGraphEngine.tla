--------------------------- MODULE MCGraphEngine ---------------------------
(* A small instance of GraphEngine for TLC.  A node of a sequential run    *)
(* returns no None: see NoFalsePill of GraphEngine_proofs.  In a parallel  *)
(* run the producer treats an error as a None; errors come with a process  *)
(* that dies.                                                              *)
EXTENDS GraphEngine

CONSTANTS c1, c2

TwoConsumers == {c1, c2}
NoFalsePills ==
  [p \in BOOLEAN |-> IF p THEN {"data", "none"} ELSE {"data", "error"}]
=============================================================================
