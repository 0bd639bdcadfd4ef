--------------------------- MODULE MCNngPipeline ----------------------------
(* Two senders, one receiver, two messages and two connections, one after the other. *)
EXTENDS NngPipeline

CONSTANTS s1, s2, r1

MCMsg == 1 .. 2
MCSenders == {s1, s2}
MCReceivers == {r1}
MCPipes == 1 .. 2
=============================================================================
