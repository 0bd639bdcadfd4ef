-------------------------- MODULE MCPlayerControl --------------------------
(* Instances of PlayerControl for TLC. *)
EXTENDS PlayerControl

CONSTANTS player1, player2

\* The player on the device and the one a hook may make beside it.
TwoPlayers == {player1, player2}
OnePlayer  == {player1}

=============================================================================
