--------------------------- MODULE MCDuckStreams ---------------------------
(* Small instances of DuckStreams for TLC: with one connection and one     *)
(* permit every request is in every other's way.                           *)
EXTENDS DuckStreams

CONSTANTS r1, r2, r3, d1

TwoRequests   == {r1, r2}
ThreeRequests == {r1, r2, r3}
OneConn       == {d1}
=============================================================================
