--------------------------- MODULE MCVideoReader ----------------------------
(***************************************************************************)
(* Instances of VideoReader for TLC; the constants are in the cfgs.  The   *)
(* readers are not symmetric: Start takes one by CHOOSE, and a liveness    *)
(* property is checked.                                                    *)
(***************************************************************************)
EXTENDS VideoReader

=============================================================================
