------------------------------ MODULE MCNngAio ------------------------------
(* Instances of NngAio for TLC. *)
EXTENDS NngAio, TLC

CONSTANTS a1, a2, u1, u2

Owners == a1 :> u1 @@ a2 :> u2

\* The first aio is used again, for a message or a sleep, and ended in every way;
\* the second sleeps, as a dialer's timer does, in the timer's list beside it.
Ops  == a1 :> 2 @@ a2 :> 1
Uses == a1 :> {"list", "sleep"} @@ a2 :> {"sleep"}

=============================================================================
