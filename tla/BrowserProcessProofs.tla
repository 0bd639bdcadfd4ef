------------------------ MODULE BrowserProcessProofs ------------------------
(***************************************************************************)
(* Proofs about BrowserProcess for any threads, commands and pids.         *)
(***************************************************************************)
EXTENDS BrowserProcessHistory, TLAPS

Starting(t) == pc[t] \in {"start_fork", "start_record"}

(***************************************************************************)
(* The inductive invariant.  Only a managed plugin stops or forks; the     *)
(* lock is held from the test of the register to its assignment, while the *)
(* register holds no pid; what is about to be recorded is a forked child;  *)
(* and once something was recorded the register is never 0 again.          *)
(***************************************************************************)
ManagedOnly ==
    \A t \in Thread :
        /\ Stopping(t) \/ Starting(t) => OsrBrowserStart
        /\ Stopping(t) => OsrBrowserPid # NotStarted

LockHeld ==
    \A t \in Thread : Starting(t) => mtx = t /\ OsrBrowserPid \notin Pid

ForkedArg ==
    \A t \in Thread : pc[t] = "start_record" =>
        arg[t] \in Pid /\ proc[arg[t]] # "free"

RecordedForked == OsrBrowserPid \in Pid => proc[OsrBrowserPid] # "free"

IInv == TypeOK /\ ManagedOnly /\ LockHeld /\ ForkedArg /\ RecordedForked

LEMMA InitIInv == Init => IInv
<1> SUFFICES ASSUME Init PROVE IInv
  OBVIOUS
<1>1. TypeOK
  BY ThreadAssumption, PidAssumption, StartAssumption, NobodyAssumption
  DEF Init, TypeOK, Register, ProcState, Pc, Job, StopPc, AlivePc, SendPc, StartPc,
      NotStarted, External, Stopped
<1>2. ManagedOnly /\ LockHeld
  BY ThreadAssumption, PidAssumption, StartAssumption, NobodyAssumption
  DEF Init, StopPc, StartPc, ManagedOnly, LockHeld, Stopping, Starting,
      NotStarted, External, Stopped
<1>3. ForkedArg /\ RecordedForked
  BY PidAssumption DEF Init, ForkedArg, RecordedForked, NotStarted, External, Stopped
<1> QED
  BY <1>1, <1>2, <1>3 DEF IInv

LEMMA NextIInv == IInv /\ [Next]_vars => IInv'
<1> SUFFICES ASSUME IInv, [Next]_vars PROVE IInv'
  OBVIOUS
<1> USE PidAssumption, NobodyAssumption DEF IInv, TypeOK, Register, ProcState, Pc, Job,
        StopPc, AlivePc, SendPc, StartPc, ManagedOnly, LockHeld, ForkedArg,
        RecordedForked, Stopping, Starting, NotStarted, External, Stopped,
        kernel, comm, osd, Goto, Return
<1>1. CASE UNCHANGED vars
  BY <1>1 DEF vars
<1>2. CASE PluginStarted
  BY <1>2 DEF PluginStarted
<1>3. ASSUME NEW t \in Thread, NEW c \in Commands[t], Begin(t, c) PROVE IInv'
  <2>1. c \in {"START", "START_BROWSER", "STOP", "RESTART", "PING"}
    BY CommandsAssumption DEF Command
  <2>2. FirstStep(c) \in {"start_enter", "service", "stop_check", "alive_reap"}
    BY <2>1 DEF FirstStep
  <2>3. \E l \in {"start_enter", "service", "stop_check", "alive_reap"},
           j \in {"START", "STOP", "PING"} :
             pc' = [pc EXCEPT ![t] = l] /\ job' = [job EXCEPT ![t] = j]
    BY <1>3, <2>2 DEF Begin
  <2> QED
    BY <1>3, <2>3 DEF Begin
<1>4. ASSUME NEW t \in Thread, SendBegin(t) PROVE IInv'
  BY <1>4 DEF SendBegin
<1>5. ASSUME NEW t \in Thread, SendProceed(t) PROVE IInv'
  BY <1>5 DEF SendProceed
<1>6. ASSUME NEW t \in Thread, SendTimeout(t) PROVE IInv'
  BY <1>6 DEF SendTimeout
<1>7. ASSUME NEW t \in Thread, SendExternal(t) PROVE IInv'
  BY <1>7 DEF SendExternal
<1>8. ASSUME NEW t \in Thread, AliveReap(t) PROVE IInv'
  BY <1>8 DEF AliveReap, Answer, ReapRecorded
<1>9. ASSUME NEW t \in Thread, AliveProbe(t) PROVE IInv'
  BY <1>9 DEF AliveProbe, Answer
<1>10. ASSUME NEW t \in Thread, SendNn(t) PROVE IInv'
  BY <1>10 DEF SendNn
<1>11. ASSUME NEW t \in Thread, SendRestart(t) PROVE IInv'
  BY <1>11 DEF SendRestart
<1>12. ASSUME NEW t \in Thread, ServiceStart(t) PROVE IInv'
  BY <1>12 DEF ServiceStart
<1>13. ASSUME NEW t \in Thread, StopCheck(t) PROVE IInv'
  BY <1>13 DEF StopCheck, AfterStop
<1>14. ASSUME NEW t \in Thread, StopKill(t) PROVE IInv'
  BY <1>14 DEF StopKill
<1>15. ASSUME NEW t \in Thread, StopCall(t) PROVE IInv'
  BY <1>15 DEF StopCall
<1>16. ASSUME NEW t \in Thread, StopWait(t) PROVE IInv'
  BY <1>16 DEF StopWait, Live
<1>17. ASSUME NEW t \in Thread, StopForget(t) PROVE IInv'
  BY <1>17 DEF StopForget, AfterStop
<1>18. ASSUME NEW t \in Thread, StartEnter(t) PROVE IInv'
  BY <1>18 DEF StartEnter
<1>19. ASSUME NEW t \in Thread, StartFork(t) PROVE IInv'
  BY <1>19 DEF StartFork
<1>20. ASSUME NEW t \in Thread, StartForkFails(t) PROVE IInv'
  BY <1>20 DEF StartForkFails
<1>21. ASSUME NEW t \in Thread, StartRecord(t) PROVE IInv'
  <2> USE <1>21 DEF StartRecord
  <2>1. arg[t] \in Pid /\ proc[arg[t]] # "free" /\ OsrBrowserStart /\ mtx = t
    OBVIOUS
  <2>2. \A u \in Thread : Starting(u) => u = t
    OBVIOUS
  <2>3. TypeOK'
    BY <2>1
  <2>4. ManagedOnly'
    BY <2>1
  <2>5. LockHeld' /\ ForkedArg'
    BY <2>2
  <2>6. RecordedForked'
    BY <2>1
  <2> QED
    BY <2>3, <2>4, <2>5, <2>6
<1>22. CASE Sigchld
  <2>1. proc' \in [Pid -> ProcState] /\ \A p \in Pid : proc[p] # "free" => proc'[p] # "free"
    BY <1>22 DEF Sigchld, ReapRecorded
  <2>2. UNCHANGED <<OsrBrowserStart, OsrBrowserPid, handler, mtx, comm, osdType, pc, job, arg>> /\ sigchld' = FALSE
    BY <1>22 DEF Sigchld
  <2> QED
    BY <2>1, <2>2
<1>23. CASE HeartbeatExpires
  BY <1>23 DEF HeartbeatExpires
<1>24. CASE DispatchClose
  BY <1>24 DEF DispatchClose
<1>25. ASSUME NEW p \in Pid, Exit(p) PROVE IInv'
  BY <1>25 DEF Exit, Live
<1>26. ASSUME NEW p \in Pid \cup {External}, ReceivePing(p) PROVE IInv'
  BY <1>26 DEF ReceivePing
<1>27. QED
  BY <1>1, <1>2, <1>3, <1>4, <1>5, <1>6, <1>7, <1>8, <1>9, <1>10, <1>11, <1>12, <1>13, <1>14, <1>15, <1>16, <1>17, <1>18, <1>19, <1>20, <1>21, <1>22, <1>23, <1>24, <1>25, <1>26 DEF Next, ThreadStep, SendStep, StopStep, StartStep, Environment

LEMMA Invariance == Spec => []IInv
BY InitIInv, NextIInv, PTL DEF Spec

\* Whatever the threads do, the register of a managed browser holds 0, -2 or
\* the pid of a child, and that of an external browser never changes.
THEOREM TypeCorrect == Spec => []TypeOK
<1>1. IInv => TypeOK
  BY DEF IInv
<1> QED
  BY <1>1, Invariance, PTL

\* startVdrOsrBrowser never forks while a browser is recorded, and no two
\* threads fork at the same time.
THEOREM StartsAreExclusive == Spec => []NoForkOverRecorded
<1>1. IInv => NoForkOverRecorded
  BY DEF IInv, LockHeld, Starting, NoForkOverRecorded
<1> QED
  BY <1>1, Invariance, PTL

-----------------------------------------------------------------------------
(* The register implements its protocol.                                   *)

LEMMA InitRefines == Init => Protocol!PInit
BY StartAssumption DEF Init, Protocol!PInit, RecordedPids, NotStarted, External,
       Protocol!NotStarted, Protocol!External

\* A step that leaves the register alone and forks no child outside
\* StartFork leaves the abstract state alone.
LEMMA RecordedUnchanged ==
    ASSUME IInv, UNCHANGED <<OsrBrowserStart, OsrBrowserPid>>,
           \A p \in Pid : proc'[p] = "free" <=> proc[p] = "free",
           \A t \in Thread : pc'[t] = "start_record" <=> pc[t] = "start_record",
           \A t \in Thread : pc[t] = "start_record" => arg'[t] = arg[t]
    PROVE  UNCHANGED Protocol!pvars
BY DEF RecordedPids, Protocol!pvars

\* Every step of the code is a step of the protocol or invisible to it.
LEMMA NextRefines == IInv /\ [Next]_vars => [Protocol!PNext]_(Protocol!pvars)
<1> SUFFICES ASSUME IInv, [Next]_vars PROVE [Protocol!PNext]_(Protocol!pvars)
  OBVIOUS
<1> USE DEF IInv, TypeOK, ProcState, Goto, Return, kernel, comm, osd
<1>1. CASE UNCHANGED vars
  BY <1>1, RecordedUnchanged DEF vars
<1>2. CASE PluginStarted
  BY <1>2, RecordedUnchanged DEF PluginStarted
<1>3. ASSUME NEW t \in Thread, NEW c \in Commands[t], Begin(t, c)
      PROVE UNCHANGED Protocol!pvars
  <2>1. FirstStep(c) # "start_record"
    BY CommandsAssumption DEF FirstStep, Command
  <2> QED
    BY <1>3, <2>1, RecordedUnchanged DEF Begin, Ready
<1>4. ASSUME NEW t \in Thread, SendBegin(t) PROVE UNCHANGED Protocol!pvars
  BY <1>4, RecordedUnchanged DEF SendBegin, Ready
<1>5. ASSUME NEW t \in Thread, SendProceed(t) PROVE UNCHANGED Protocol!pvars
  BY <1>5, RecordedUnchanged DEF SendProceed
<1>6. ASSUME NEW t \in Thread, SendTimeout(t) PROVE UNCHANGED Protocol!pvars
  BY <1>6, RecordedUnchanged DEF SendTimeout
<1>7. ASSUME NEW t \in Thread, SendExternal(t) PROVE UNCHANGED Protocol!pvars
  BY <1>7, RecordedUnchanged DEF SendExternal
<1>8. ASSUME NEW t \in Thread, AliveReap(t) PROVE UNCHANGED Protocol!pvars
  BY <1>8, RecordedUnchanged DEF AliveReap, Answer, ReapRecorded
<1>9. ASSUME NEW t \in Thread, AliveProbe(t) PROVE UNCHANGED Protocol!pvars
  BY <1>9, RecordedUnchanged DEF AliveProbe, Answer
<1>10. ASSUME NEW t \in Thread, SendNn(t) PROVE UNCHANGED Protocol!pvars
  BY <1>10, RecordedUnchanged DEF SendNn
<1>11. ASSUME NEW t \in Thread, SendRestart(t) PROVE UNCHANGED Protocol!pvars
  BY <1>11, RecordedUnchanged DEF SendRestart
<1>12. ASSUME NEW t \in Thread, ServiceStart(t) PROVE UNCHANGED Protocol!pvars
  BY <1>12, RecordedUnchanged DEF ServiceStart
<1>13. ASSUME NEW t \in Thread, StopCheck(t) PROVE UNCHANGED Protocol!pvars
  BY <1>13, RecordedUnchanged DEF StopCheck, AfterStop
<1>14. ASSUME NEW t \in Thread, StopKill(t) PROVE UNCHANGED Protocol!pvars
  BY <1>14, RecordedUnchanged DEF StopKill
<1>15. ASSUME NEW t \in Thread, StopCall(t) PROVE UNCHANGED Protocol!pvars
  BY <1>15, RecordedUnchanged DEF StopCall
<1>16. ASSUME NEW t \in Thread, StopWait(t) PROVE UNCHANGED Protocol!pvars
  BY <1>16, RecordedUnchanged DEF StopWait, Live
<1>17. ASSUME NEW t \in Thread, StartEnter(t) PROVE UNCHANGED Protocol!pvars
  BY <1>17, RecordedUnchanged DEF StartEnter
<1>18. ASSUME NEW t \in Thread, StartForkFails(t) PROVE UNCHANGED Protocol!pvars
  BY <1>18, RecordedUnchanged DEF StartForkFails
<1>19. ASSUME NEW t \in Thread, StopForget(t) PROVE [Protocol!PNext]_(Protocol!pvars)
  <2>1. RecordedPids' = RecordedPids
    BY <1>19 DEF StopForget, AfterStop, RecordedPids
  <2>2. OsrBrowserPid \in Pid \cup {Stopped}
    BY <1>19 DEF StopForget, ManagedOnly, Stopping, StopPc, Register
  <2> QED
    BY <1>19, <2>1, <2>2 DEF StopForget, Stopped, Protocol!Stopped, Protocol!PNext,
       Protocol!Forget, Protocol!pvars
<1>20. ASSUME NEW t \in Thread, StartFork(t) PROVE UNCHANGED Protocol!pvars
  <2>1. PICK p \in Pid : proc[p] = "free" /\ proc' = [proc EXCEPT ![p] = "running"]
                          /\ arg' = [arg EXCEPT ![t] = p]
    BY <1>20 DEF StartFork
  <2>2. /\ pc' = [pc EXCEPT ![t] = "start_record"]
        /\ UNCHANGED <<OsrBrowserStart, OsrBrowserPid>>
    BY <1>20 DEF StartFork
  <2>3. \A u \in Thread : pc[u] # "start_record"
    BY <1>20 DEF StartFork, LockHeld, Starting
  <2>4. RecordedPids' = {q \in Pid : q # p /\ proc[q] # "free"}
    BY <2>1, <2>2, <2>3 DEF RecordedPids
  <2>5. RecordedPids = {q \in Pid : proc[q] # "free"}
    BY <2>3 DEF RecordedPids
  <2> QED
    BY <2>1, <2>2, <2>4, <2>5 DEF Protocol!pvars
<1>21. ASSUME NEW t \in Thread, StartRecord(t) PROVE Protocol!PNext
  <2>1. arg[t] \in Pid /\ proc[arg[t]] # "free" /\ OsrBrowserStart /\ OsrBrowserPid \notin Pid
    BY <1>21 DEF StartRecord, ForkedArg, ManagedOnly, LockHeld, Starting
  <2>2. \A u \in Thread : pc[u] = "start_record" => u = t
    BY <1>21 DEF StartRecord, LockHeld, Starting
  <2>3. RecordedPids' = RecordedPids \cup {arg[t]}
    BY <1>21, <2>1, <2>2 DEF StartRecord, RecordedPids
  <2>4. arg[t] \notin RecordedPids
    BY <1>21 DEF StartRecord, RecordedPids
  <2>5. Protocol!Record(arg[t])
    BY <1>21, <2>1, <2>3, <2>4 DEF StartRecord, Protocol!Record
  <2> QED
    BY <2>1, <2>5 DEF Protocol!PNext
<1>22. CASE Sigchld
  BY <1>22, RecordedUnchanged DEF Sigchld, ReapRecorded
<1>23. CASE HeartbeatExpires
  BY <1>23, RecordedUnchanged DEF HeartbeatExpires
<1>24. CASE DispatchClose
  BY <1>24, RecordedUnchanged DEF DispatchClose
<1>25. ASSUME NEW p \in Pid, Exit(p) PROVE UNCHANGED Protocol!pvars
  BY <1>25, RecordedUnchanged DEF Exit, Live
<1>26. ASSUME NEW p \in Pid \cup {External}, ReceivePing(p) PROVE UNCHANGED Protocol!pvars
  BY <1>26, RecordedUnchanged DEF ReceivePing
<1> QED
  BY <1>1, <1>2, <1>3, <1>4, <1>5, <1>6, <1>7, <1>8, <1>9, <1>10, <1>11, <1>12, <1>13, <1>14, <1>15, <1>16, <1>17, <1>18, <1>19, <1>20, <1>21, <1>22, <1>23, <1>24, <1>25, <1>26 DEF Next, ThreadStep, SendStep, StopStep, StartStep, Environment

\* The code implements the register's protocol: a pid is recorded once, never
\* over another one, and the register says "stopped" between two browsers.
THEOREM ProtocolImplemented == Spec => ImplementsProtocol
<1> QED
  BY Invariance, InitRefines, NextRefines, PTL
  DEF Spec, ImplementsProtocol, Protocol!PSpec

-----------------------------------------------------------------------------
(***************************************************************************)
(* No browser is lost without overlapping stops.  The history variable     *)
(* only watches, so the invariant above holds of HSpec as well.  While no  *)
(* stops overlapped, a thread inside the stop owns the register: nothing   *)
(* is recorded over a pid, and nobody else forgets it; so the thread waits *)
(* for the recorded child, and forgets it only when that child has ended.  *)
(***************************************************************************)
StopOwnsRegister ==
    \A t \in Thread : Stopping(t) =>
        /\ OsrBrowserPid \in Pid
        /\ \A u \in Thread : Stopping(u) => u = t
        /\ pc[t] \in {"stop_wait", "stop_forget"} => arg[t] = OsrBrowserPid
        /\ pc[t] = "stop_forget" => ~Live(OsrBrowserPid)

Tracked ==
    \A p \in Pid : Live(p) =>
        \/ OsrBrowserPid = p
        \/ \E t \in Thread : pc[t] = "start_record" /\ arg[t] = p

OInv == ~stopOverlap => StopOwnsRegister /\ Tracked

LEMMA InitOInv == HInit => OInv
BY DEF HInit, Init, OInv, StopOwnsRegister, Tracked, Stopping, StopPc, Live

LEMMA NextOInv == IInv /\ OInv /\ [HNext]_hvars => OInv'
<1> SUFFICES ASSUME IInv, OInv, [HNext]_hvars, ~stopOverlap' PROVE StopOwnsRegister' /\ Tracked'
  BY DEF OInv
<1>a. ~stopOverlap /\ [Next]_vars /\ (~Overlap \/ UNCHANGED vars)
  <2>1. CASE HNext
    BY <2>1 DEF HNext
  <2>2. CASE UNCHANGED hvars
    BY <2>2 DEF hvars
  <2> QED
    BY <2>1, <2>2
<1>b. StopOwnsRegister /\ Tracked
  BY <1>a DEF OInv
<1> USE <1>a, <1>b, PidAssumption DEF IInv, TypeOK, Register, ProcState, StopOwnsRegister, Tracked,
        Stopping, StopPc, Live, kernel, comm, osd, Goto, Return, NotStarted, External, Stopped
<1>1. CASE UNCHANGED vars
  BY <1>1 DEF vars
<1>2. CASE PluginStarted
  BY <1>2 DEF PluginStarted
<1>3. ASSUME NEW t \in Thread, NEW c \in Commands[t], Begin(t, c)
      PROVE  StopOwnsRegister' /\ Tracked'
  <2>1. FirstStep(c) \in {"start_enter", "service", "stop_check", "alive_reap"}
    BY CommandsAssumption DEF FirstStep, Command
  <2> QED
    BY <1>3, <2>1 DEF Begin, Ready
<1>4. ASSUME NEW t \in Thread, SendBegin(t) PROVE StopOwnsRegister' /\ Tracked'
  BY <1>4 DEF SendBegin, Ready
<1>5. ASSUME NEW t \in Thread, SendProceed(t) PROVE StopOwnsRegister' /\ Tracked'
  BY <1>5 DEF SendProceed
<1>6. ASSUME NEW t \in Thread, SendTimeout(t) PROVE StopOwnsRegister' /\ Tracked'
  BY <1>6 DEF SendTimeout
<1>7. ASSUME NEW t \in Thread, SendExternal(t) PROVE StopOwnsRegister' /\ Tracked'
  BY <1>7 DEF SendExternal
<1>8. ASSUME NEW t \in Thread, AliveReap(t) PROVE StopOwnsRegister' /\ Tracked'
  BY <1>8 DEF AliveReap, Answer, ReapRecorded
<1>9. ASSUME NEW t \in Thread, AliveProbe(t) PROVE StopOwnsRegister' /\ Tracked'
  BY <1>9 DEF AliveProbe, Answer
<1>10. ASSUME NEW t \in Thread, SendNn(t) PROVE StopOwnsRegister' /\ Tracked'
  BY <1>10 DEF SendNn
<1>11. ASSUME NEW t \in Thread, SendRestart(t) PROVE StopOwnsRegister' /\ Tracked'
  BY <1>11 DEF SendRestart
<1>12. ASSUME NEW t \in Thread, ServiceStart(t) PROVE StopOwnsRegister' /\ Tracked'
  BY <1>12 DEF ServiceStart
<1>13. ASSUME NEW t \in Thread, StopCheck(t) PROVE StopOwnsRegister' /\ Tracked'
  BY <1>13 DEF StopCheck, AfterStop, Overlap, vars
<1>14. ASSUME NEW t \in Thread, StopKill(t) PROVE StopOwnsRegister' /\ Tracked'
  BY <1>14 DEF StopKill
<1>15. ASSUME NEW t \in Thread, StopCall(t) PROVE StopOwnsRegister' /\ Tracked'
  BY <1>15 DEF StopCall
<1>16. ASSUME NEW t \in Thread, StopWait(t) PROVE StopOwnsRegister' /\ Tracked'
  BY <1>16 DEF StopWait
<1>17. ASSUME NEW t \in Thread, StopForget(t) PROVE StopOwnsRegister' /\ Tracked'
  BY <1>17 DEF StopForget, AfterStop
<1>18. ASSUME NEW t \in Thread, StartEnter(t) PROVE StopOwnsRegister' /\ Tracked'
  BY <1>18 DEF StartEnter, LockHeld, Starting, ForkedArg
<1>19. ASSUME NEW t \in Thread, StartFork(t) PROVE StopOwnsRegister' /\ Tracked'
  BY <1>19 DEF StartFork, LockHeld, Starting, ForkedArg
<1>20. ASSUME NEW t \in Thread, StartForkFails(t) PROVE StopOwnsRegister' /\ Tracked'
  BY <1>20 DEF StartForkFails, LockHeld, Starting, ForkedArg
<1>21. ASSUME NEW t \in Thread, StartRecord(t) PROVE StopOwnsRegister' /\ Tracked'
  BY <1>21 DEF StartRecord, LockHeld, Starting, ForkedArg
<1>22. CASE Sigchld
  BY <1>22 DEF Sigchld, ReapRecorded
<1>23. CASE HeartbeatExpires
  BY <1>23 DEF HeartbeatExpires
<1>24. CASE DispatchClose
  BY <1>24 DEF DispatchClose
<1>25. ASSUME NEW p \in Pid, Exit(p) PROVE StopOwnsRegister' /\ Tracked'
  BY <1>25 DEF Exit
<1>26. ASSUME NEW p \in Pid \cup {External}, ReceivePing(p) PROVE StopOwnsRegister' /\ Tracked'
  BY <1>26 DEF ReceivePing
<1> QED
  BY <1>1, <1>2, <1>3, <1>4, <1>5, <1>6, <1>7, <1>8, <1>9, <1>10, <1>11, <1>12, <1>13, <1>14, <1>15, <1>16, <1>17, <1>18, <1>19, <1>20, <1>21, <1>22, <1>23, <1>24, <1>25, <1>26 DEF Next, ThreadStep, SendStep, StopStep, StartStep, Environment

\* Every browser that runs is recorded, or about to be, as long as no two
\* threads were inside stopVdrOsrBrowser at the same time.
THEOREM OrphansNeedOverlap == HSpec => []OrphanNeedsOverlap
<1>1. HSpec => Spec
  <2>1. HInit => Init
    BY DEF HInit
  <2>2. [HNext]_hvars => [Next]_vars
    BY DEF HNext, hvars
  <2> QED
    BY <2>1, <2>2, PTL DEF HSpec, Spec
<1>2. HSpec => []IInv
  BY <1>1, Invariance
<1>3. HSpec => []OInv
  BY <1>2, InitOInv, NextOInv, PTL DEF HSpec
<1>4. OInv => OrphanNeedsOverlap
  BY DEF OInv, Tracked, OrphanNeedsOverlap
<1> QED
  BY <1>3, <1>4, PTL

-----------------------------------------------------------------------------
(* A browser somebody else started is left alone.                          *)

\* The answer of isBrowserAlive for it is never "dead", and its register never
\* passes the tests in front of the kill and the fork.
XInv ==
    ~OsrBrowserStart =>
        /\ \A p \in Pid : proc[p] = "free"
        /\ osdType = "MENU"
        /\ \A t \in Thread : pc[t] \notin
              StopPc \cup {"alive_probe", "send_restart", "start_fork", "start_record"}

LEMMA NextXInv == IInv /\ XInv /\ [Next]_vars => XInv'
<1> SUFFICES ASSUME IInv, XInv, [Next]_vars, ~OsrBrowserStart' PROVE XInv'
  BY DEF XInv
<1> USE PidAssumption DEF IInv, TypeOK, Register, XInv, StopPc, kernel, comm, osd, Goto, Return,
        NotStarted, External, Stopped
<1>1. CASE UNCHANGED vars
  BY <1>1 DEF vars
<1>2. CASE PluginStarted
  BY <1>2 DEF PluginStarted
<1>3. ASSUME NEW t \in Thread, NEW c \in Commands[t], Begin(t, c) PROVE XInv'
  <2>1. FirstStep(c) \in {"start_enter", "service", "stop_check", "alive_reap"}
    BY CommandsAssumption DEF FirstStep, Command
  <2> QED
    BY <1>3, <2>1 DEF Begin
<1>4. ASSUME NEW t \in Thread, SendBegin(t) \/ SendStep(t) PROVE XInv'
  BY <1>4 DEF SendBegin, SendStep, SendProceed, SendTimeout, SendExternal, AliveReap,
     AliveProbe, SendNn, SendRestart, ServiceStart, Answer
<1>5. ASSUME NEW t \in Thread, StopStep(t) PROVE XInv'
  BY <1>5 DEF StopStep, StopCheck, StopKill, StopCall, StopWait, StopForget, AfterStop
<1>6. ASSUME NEW t \in Thread, StartStep(t) PROVE XInv'
  BY <1>6 DEF StartStep, StartEnter, StartFork, StartForkFails, StartRecord
<1>7. CASE Environment
  BY <1>7 DEF Environment, Sigchld, ReapRecorded, HeartbeatExpires, DispatchClose,
     Exit, Live, ReceivePing
<1> QED
  BY <1>1, <1>2, <1>3, <1>4, <1>5, <1>6, <1>7 DEF Next, ThreadStep

\* Without -s the plugin forks nothing, signals nothing and declares nothing
\* dead, whatever commands and messages it gets.
THEOREM ExternalLeftAlone == Spec => []ExternalUntouched
<1>1. Init => XInv
  BY DEF Init, XInv, StopPc
<1>2. XInv => ExternalUntouched
  BY DEF XInv, ExternalUntouched
<1> QED
  BY <1>1, <1>2, Invariance, NextXInv, PTL DEF Spec

=============================================================================
