---------------------------- MODULE MCPgGateway ----------------------------
(* Small instances of PgGateway for TLC: two streams and one get_db. *)
EXTENDS PgGateway

CONSTANTS s1, s2, g1

AllRequests == {s1, s2, g1}
Streams == {s1, s2}
=============================================================================
