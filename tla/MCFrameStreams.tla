--------------------------- MODULE MCFrameStreams ---------------------------
(* Small instances of FrameStreams for TLC: two requests of any providers. *)
EXTENDS FrameStreams

CONSTANTS q1, q2

TwoRequests == {q1, q2}
TwoSids == {1, 2}
=============================================================================
