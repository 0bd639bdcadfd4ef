-------------------------- MODULE MCBrowserProcess --------------------------
(* Instances of BrowserProcessHistory for TLC. *)
EXTENDS BrowserProcessHistory, TLC

CONSTANTS main, svdrp, receiver

\* The main thread and the receiver; the menu and SVDRP commands on one thread.
TwoThreads == {main, receiver}
TwoCommands == main :> Command @@ receiver :> {}

=============================================================================
