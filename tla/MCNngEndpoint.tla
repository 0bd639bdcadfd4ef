--------------------------- MODULE MCNngEndpoint ----------------------------
(* Memory for three connections: one in use, one in the making, one with the reaper. *)
EXTENDS NngEndpoint

CONSTANTS p1, p2, p3

MCPipes == {p1, p2, p3}
=============================================================================
