------------------------------ MODULE MCOsdPage ------------------------------
(* The instance of OsdPage for TLC: each page is made where the last one was. *)
EXTENDS OsdPage, TLC

CONSTANT page1

=============================================================================
