---------------------------- MODULE MCAitFilter -----------------------------
(* Instances of AitFilter for TLC. *)
EXTENDS AitFilter

CONSTANTS p1, p2, a1, a2, x, y

MCPmtPid == {p1, p2}
MCAitPid == {a1, a2}
MCContent == {x, y}

=============================================================================
