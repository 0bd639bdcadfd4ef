------------------------- MODULE BrowserPidProtocol -------------------------
(***************************************************************************)
(* What the plugin promises about the pid register OsrBrowserPid           *)
(* (globals.c:11), whoever writes it and in whatever order:                *)
(*                                                                         *)
(*   - a browser the plugin does not manage is never registered, and its   *)
(*     register never changes;                                             *)
(*   - a managed register holds 0 until the first browser is recorded;     *)
(*   - a pid is recorded at most once, and never over another recorded     *)
(*     pid: between two browsers the register says "manually stopped".     *)
(*                                                                         *)
(* BrowserProcess implements this specification.                           *)
(***************************************************************************)
EXTENDS Integers

CONSTANTS
    Pid        \* the pids fork() can return

\* The values of the register that are no pid (globals.c:16-24, hbbtv.c:373-389).
External   == -1
NotStarted == 0
Stopped    == -2

VARIABLES
    managed,   \* the plugin starts and stops the browser (-s)
    reg,       \* the register
    recorded   \* the pids that have been in it

pvars == <<managed, reg, recorded>>

PInit ==
    /\ managed \in BOOLEAN
    /\ reg = IF managed THEN NotStarted ELSE External
    /\ recorded = {}

\* A browser that was just forked becomes the recorded one.
Record(p) ==
    /\ managed
    /\ reg \notin Pid
    /\ p \notin recorded
    /\ reg' = p
    /\ recorded' = recorded \cup {p}
    /\ UNCHANGED managed

\* A stop forgets the recorded browser.
Forget ==
    /\ reg \in Pid
    /\ reg' = Stopped
    /\ UNCHANGED <<managed, recorded>>

PNext == Forget \/ \E p \in Pid : Record(p)

PSpec == PInit /\ [][PNext]_pvars

=============================================================================
