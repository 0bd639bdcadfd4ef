----------------------------- MODULE MCUrlStore -----------------------------
(* Instances of UrlStore for TLC. *)
EXTENDS UrlStore, TLC

CONSTANTS a, b, long

\* Two lines of usual length, and a long one that is read back as both.
Lines  == {a, b, long}
Longs  == {long}
Pieces == long :> <<a, b>>

=============================================================================
