----------------------- MODULE BrowserProcessHistory ------------------------
(***************************************************************************)
(* BrowserProcess with a history variable, and the properties that refer   *)
(* to what happened before.  It restricts no step.                         *)
(***************************************************************************)
EXTENDS BrowserProcess

VARIABLE
    stopOverlap    \* two threads have been inside stopVdrOsrBrowser at a time

hvars == <<vars, stopOverlap>>

Stopping(t) == pc[t] \in StopPc

\* A second thread enters the body of stopVdrOsrBrowser.
Overlap == \E t, u \in Thread : t # u /\ Stopping(t) /\ StopCheck(u) /\ Stopping(u)'

HInit ==
    /\ Init
    /\ stopOverlap = FALSE

HNext ==
    /\ Next
    /\ stopOverlap' = (stopOverlap \/ Overlap)

HSpec == HInit /\ [][HNext]_hvars
HFairSpec == HSpec /\ Fairness

-----------------------------------------------------------------------------
\* As long as no two threads were inside stopVdrOsrBrowser at the same time,
\* the plugin loses track of no browser: every child that runs is recorded, or
\* about to be (hbbtv.c:308-365, 370-399).
OrphanNeedsOverlap ==
    ~stopOverlap =>
        \A p \in Pid : Live(p) =>
            \/ OsrBrowserPid = p
            \/ \E t \in Thread : pc[t] = "start_record" /\ arg[t] = p

\* Every call returns, however long the browser takes to ping or to end
\* (browsercommunication.c:212-217, hbbtv.c:290, 396), unless stops overlapped.
CallsReturn ==
    \A t \in Thread : (pc[t] # "idle") ~> (pc[t] = "idle" \/ stopOverlap)

\* A browser that ran while it was recorded does not stay a zombie: the signal
\* handler or the stop collects it (hbbtv.c:38-46, 396).
RecordedIsCollected ==
    \A p \in Pid :
        <>(OsrBrowserPid = p /\ Live(p)) =>
            []<>(proc[p] # "zombie" \/ stopOverlap)

=============================================================================
