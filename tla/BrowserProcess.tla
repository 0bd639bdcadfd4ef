--------------------------- MODULE BrowserProcess ---------------------------
(***************************************************************************)
(* Supervision of the browser process by the plugin.                       *)
(*                                                                         *)
(* The plugin forks the browser, remembers its pid in the global           *)
(* OsrBrowserPid, terminates it on request, and starts it again when a     *)
(* message cannot be delivered because it died.  All of this runs on       *)
(* several threads of VDR: the main thread (menu, keys, channel switches), *)
(* the SVDRP server, the receiver of the browser's messages and the        *)
(* section filter that reads the AIT.  Only startVdrOsrBrowser takes a     *)
(* lock.  Each access to OsrBrowserPid is a step of its own; the kernel's  *)
(* view of the children (running, zombie, reaped) is the function proc.    *)
(*                                                                         *)
(* Abstracted: the texts of the messages, and a pid is not reused after    *)
(* its process has been reaped.                                            *)
(***************************************************************************)
EXTENDS Integers

CONSTANTS
    Thread,           \* the threads that call SendToBrowser or run commands
    Main,             \* VDR's main thread
    Receiver,         \* the thread of BrowserCommunication
    Commands,         \* Commands[t]: the user commands thread t runs
    Pid,              \* the pids fork() can return
    StartOptions      \* the choices of the option -s an instance looks at

External   == -1      \* no -s: somebody else starts the browser
NotStarted == 0       \* -s, and no browser was ever started
Stopped    == -2      \* stopVdrOsrBrowser has run to its end

Command == {"START", "START_BROWSER", "STOP", "RESTART", "PING"}

ASSUME ThreadAssumption == Main \in Thread /\ Receiver \in Thread
ASSUME PidAssumption == Pid \cap {External, NotStarted, Stopped} = {}
ASSUME CommandsAssumption == Commands \in [Thread -> SUBSET Command]
ASSUME StartAssumption == StartOptions \subseteq BOOLEAN

Nobody == "nobody"

ASSUME NobodyAssumption == Nobody \notin Thread

VARIABLES
    OsrBrowserStart,  \* the option -s: the plugin manages the browser
    OsrBrowserPid,    \* the register
    proc,             \* proc[p]: what the kernel knows of child p
    sigchld,          \* SIGCHLD is pending
    handler,          \* browser_signal_handler is installed
    mtx,              \* owner of browser_start_mtx, or Nobody
    browserStarted,   \* a first ping has been received
    heartbeat,        \* an external browser's last ping is less than 30 s old
    osdType,          \* OsdDispatcher::osdType, as far as SendToBrowser writes it
    pc,               \* pc[t]: the next step of thread t
    job,              \* job[t]: what thread t is doing
    arg               \* arg[t]: fork's result, or the pid waitpid was called with

kernel == <<proc, sigchld, handler>>
comm   == <<browserStarted, heartbeat>>
osd    == <<osdType, OsrBrowserStart>>
vars   == <<OsrBrowserPid, kernel, mtx, comm, osd, pc, job, arg>>

\* A call in progress, as far as its later steps depend on it.
Job == {"SEND", "START", "STOP", "PING"}

ProcState == {"free", "running", "terminating", "zombie", "reaped"}

StopPc  == {"stop_kill", "stop_call", "stop_wait", "stop_forget"}
AlivePc == {"alive_reap", "alive_probe"}
SendPc  == {"send_wait", "send_ext", "send_nn", "send_restart"}
StartPc == {"start_enter", "start_fork", "start_record"}
Pc      == {"absent", "idle", "service", "stop_check"}
             \cup StopPc \cup AlivePc \cup SendPc \cup StartPc

\* A process that has not ended, and one kill(pid, 0) still finds.
Live(p)   == proc[p] \in {"running", "terminating"}
Exists(p) == Live(p) \/ proc[p] = "zombie"

\* waitpid(pid, .., WNOHANG) collects the recorded child if it is a zombie.
ReapRecorded ==
    proc' = [p \in Pid |-> IF p = OsrBrowserPid /\ proc[p] = "zombie"
                             THEN "reaped" ELSE proc[p]]

\* A thread goes on at step l, or its call returns and the frame is gone.
Goto(t, l) == pc' = [pc EXCEPT ![t] = l] /\ UNCHANGED <<job, arg>>

Return(t) ==
    /\ pc' = [pc EXCEPT ![t] = "idle"]
    /\ job' = [job EXCEPT ![t] = "START"]
    /\ arg' = [arg EXCEPT ![t] = NotStarted]

-----------------------------------------------------------------------------
(* cPluginHbbtv::Start runs on the main thread, before the other threads   *)
(* exist; its first step is startVdrOsrBrowser.                            *)

Init ==
    /\ OsrBrowserStart \in StartOptions
    /\ OsrBrowserPid = IF OsrBrowserStart THEN NotStarted ELSE External
    /\ proc = [p \in Pid |-> "free"]
    /\ sigchld = FALSE
    /\ handler = FALSE
    /\ mtx = Nobody
    /\ browserStarted = ~OsrBrowserStart
    /\ heartbeat = FALSE
    /\ osdType = "MENU"
    /\ pc = [t \in Thread |-> IF t = Main THEN "start_enter" ELSE "absent"]
    /\ job = [t \in Thread |-> "START"]
    /\ arg = [t \in Thread |-> NotStarted]

PluginStarted ==
    /\ pc[Main] = "idle"
    /\ Thread # {Main} /\ \A t \in Thread \ {Main} : pc[t] = "absent"
    /\ pc' = [t \in Thread |-> "idle"]
    /\ UNCHANGED <<OsrBrowserPid, kernel, mtx, comm, osd, job, arg>>

Ready(t) == pc[t] = "idle" /\ \A u \in Thread : pc[u] # "absent"

-----------------------------------------------------------------------------
(* A thread begins: a user command, or a message for the browser.          *)

FirstStep(c) ==
    CASE c = "START"               -> "start_enter"
      [] c = "START_BROWSER"       -> "service"
      [] c \in {"STOP", "RESTART"} -> "stop_check"
      [] c = "PING"                -> "alive_reap"

Begin(t, c) ==
    /\ Ready(t)
    /\ pc' = [pc EXCEPT ![t] = FirstStep(c)]
    /\ job' = [job EXCEPT ![t] = IF c \in {"STOP", "PING"} THEN c ELSE "START"]
    /\ UNCHANGED <<OsrBrowserPid, kernel, mtx, comm, osd, arg>>

\* SendToBrowser returns at once after a manual stop.
SendBegin(t) ==
    /\ Ready(t)
    /\ OsrBrowserPid # Stopped
    /\ pc' = [pc EXCEPT ![t] = "send_wait"]
    /\ job' = [job EXCEPT ![t] = "SEND"]
    /\ UNCHANGED <<OsrBrowserPid, kernel, mtx, comm, osd, arg>>

\* The wait for the first ping ends with it ...
SendProceed(t) ==
    /\ pc[t] = "send_wait"
    /\ browserStarted
    /\ Goto(t, "send_ext")
    /\ UNCHANGED <<OsrBrowserPid, kernel, mtx, comm, osd>>

\* Mutant: the wait has no bound.
SendTimeoutNever(t) ==
    /\ pc[t] = "send_wait"
    /\ browserStarted
    /\ Goto(t, "send_ext")
    /\ UNCHANGED <<OsrBrowserPid, kernel, mtx, comm, osd>>

\* ... or after ten rounds of 100 ms.
SendTimeout(t) ==
    /\ pc[t] = "send_wait"
    /\ ~browserStarted
    /\ Goto(t, "send_ext")
    /\ UNCHANGED <<OsrBrowserPid, kernel, mtx, comm, osd>>

\* An external browser that sends no pings gets no messages.
SendExternal(t) ==
    /\ pc[t] = "send_ext"
    /\ IF OsrBrowserPid = External /\ ~heartbeat
         THEN Return(t) ELSE Goto(t, "alive_reap")
    /\ UNCHANGED <<OsrBrowserPid, kernel, mtx, comm, osd>>

-----------------------------------------------------------------------------
(* isBrowserAlive, called by SendToBrowser and by the SVDRP command PING.  *)

Answer(t, alive) ==
    IF job[t] = "PING" THEN Return(t)
    ELSE Goto(t, IF alive THEN "send_nn" ELSE "send_restart")

\* The answer that needs no system call, else waitpid(.., WNOHANG).
AliveReap(t) ==
    /\ pc[t] = "alive_reap"
    /\ \/ /\ OsrBrowserPid = External
          /\ Answer(t, TRUE)
          /\ UNCHANGED proc
       \/ /\ OsrBrowserPid = NotStarted
          /\ Answer(t, FALSE)
          /\ UNCHANGED proc
       \/ /\ OsrBrowserPid \notin {External, NotStarted}
          /\ ReapRecorded
          /\ Goto(t, "alive_probe")
    /\ UNCHANGED <<OsrBrowserPid, sigchld, handler, mtx, comm, osd>>

\* kill(OsrBrowserPid, 0), which reads the register again.
AliveProbe(t) ==
    /\ pc[t] = "alive_probe"
    /\ Answer(t, \E p \in Pid : p = OsrBrowserPid /\ Exists(p))
    /\ UNCHANGED <<OsrBrowserPid, kernel, mtx, comm, osd>>

\* nn_send: the message leaves.
SendNn(t) ==
    /\ pc[t] = "send_nn"
    /\ Return(t)
    /\ UNCHANGED <<OsrBrowserPid, kernel, mtx, comm, osd>>

\* The browser is dead: close the OSD and ask for a restart.
SendRestart(t) ==
    /\ pc[t] = "send_restart"
    /\ osdType' = "CLOSE"
    /\ Goto(t, "service")
    /\ UNCHANGED <<OsrBrowserStart, OsrBrowserPid, kernel, mtx, comm>>

\* Mutant: the dead browser's pid is not given up before the start.
ServiceStartOnly(t) ==
    /\ pc[t] = "service"
    /\ Goto(t, "start_enter")
    /\ UNCHANGED <<OsrBrowserPid, kernel, mtx, comm, osd>>

\* Service START_BROWSER: "try to stop if running", then start.
ServiceStart(t) ==
    /\ pc[t] = "service"
    /\ Goto(t, IF OsrBrowserPid \in Pid THEN "stop_check" ELSE "start_enter")
    /\ UNCHANGED <<OsrBrowserPid, kernel, mtx, comm, osd>>

-----------------------------------------------------------------------------
(* stopVdrOsrBrowser, which takes no lock.                                 *)

AfterStop(t) == IF job[t] = "STOP" THEN Return(t) ELSE Goto(t, "start_enter")

StopCheck(t) ==
    /\ pc[t] = "stop_check"
    /\ IF OsrBrowserPid \in {NotStarted, External, Stopped}
         THEN AfterStop(t) ELSE Goto(t, "stop_kill")
    /\ UNCHANGED <<OsrBrowserPid, kernel, mtx, comm, osd>>

\* kill(OsrBrowserPid, SIGTERM)
StopKill(t) ==
    /\ pc[t] = "stop_kill"
    /\ proc' = [p \in Pid |-> IF p = OsrBrowserPid /\ proc[p] = "running"
                                THEN "terminating" ELSE proc[p]]
    /\ Goto(t, "stop_call")
    /\ UNCHANGED <<OsrBrowserPid, sigchld, handler, mtx, comm, osd>>

\* The argument of waitpid is read ...
StopCall(t) ==
    /\ pc[t] = "stop_call"
    /\ pc' = [pc EXCEPT ![t] = "stop_wait"]
    /\ arg' = [arg EXCEPT ![t] = OsrBrowserPid]
    /\ UNCHANGED <<OsrBrowserPid, kernel, mtx, comm, osd, job>>

\* Mutant: waitpid is called with WNOHANG.
StopWaitNoHang(t) ==
    /\ pc[t] = "stop_wait"
    /\ proc' = [p \in Pid |-> IF p = arg[t] /\ proc[p] = "zombie" THEN "reaped" ELSE proc[p]]
    /\ Goto(t, "stop_forget")
    /\ UNCHANGED <<OsrBrowserPid, sigchld, handler, mtx, comm, osd>>

\* ... and waitpid blocks while that child runs.
StopWait(t) ==
    /\ pc[t] = "stop_wait"
    /\ \A p \in Pid : p = arg[t] => ~Live(p)
    /\ proc' = [p \in Pid |-> IF p = arg[t] /\ proc[p] = "zombie"
                                THEN "reaped" ELSE proc[p]]
    /\ Goto(t, "stop_forget")
    /\ UNCHANGED <<OsrBrowserPid, sigchld, handler, mtx, comm, osd>>

\* Mutant: the register is reset to "not started".
StopForgetAsNew(t) ==
    /\ pc[t] = "stop_forget"
    /\ OsrBrowserPid' = NotStarted
    /\ AfterStop(t)
    /\ UNCHANGED <<kernel, mtx, comm, osd>>

StopForget(t) ==
    /\ pc[t] = "stop_forget"
    /\ OsrBrowserPid' = Stopped
    /\ AfterStop(t)
    /\ UNCHANGED <<kernel, mtx, comm, osd>>

-----------------------------------------------------------------------------
(* startVdrOsrBrowser, under browser_start_mtx.                            *)

\* Not configured, or "already running"; else the thread goes on to fork.
StartEnter(t) ==
    /\ pc[t] = "start_enter"
    /\ mtx = Nobody
    /\ IF ~OsrBrowserStart \/ OsrBrowserPid \in Pid
         THEN Return(t) /\ UNCHANGED mtx
         ELSE Goto(t, "start_fork") /\ mtx' = t
    /\ UNCHANGED <<OsrBrowserPid, kernel, comm, osd>>

StartFork(t) ==
    /\ pc[t] = "start_fork"
    /\ \E p \in Pid :
          /\ proc[p] = "free"
          /\ proc' = [proc EXCEPT ![p] = "running"]
          /\ arg' = [arg EXCEPT ![t] = p]
    /\ pc' = [pc EXCEPT ![t] = "start_record"]
    /\ UNCHANGED <<OsrBrowserPid, sigchld, handler, mtx, comm, osd, job>>

StartForkFails(t) ==
    /\ pc[t] = "start_fork"
    /\ mtx' = Nobody
    /\ Return(t)
    /\ UNCHANGED <<OsrBrowserPid, kernel, comm, osd>>

\* Mutant: no handler is installed for SIGCHLD.
StartRecordNoHandler(t) ==
    /\ pc[t] = "start_record"
    /\ OsrBrowserPid' = arg[t]
    /\ mtx' = Nobody
    /\ Return(t)
    /\ UNCHANGED <<kernel, comm, osd>>

StartRecord(t) ==
    /\ pc[t] = "start_record"
    /\ handler' = TRUE
    /\ OsrBrowserPid' = arg[t]
    /\ mtx' = Nobody
    /\ Return(t)
    /\ UNCHANGED <<proc, sigchld, comm, osd>>

-----------------------------------------------------------------------------
(* The browser, the kernel, the clock and the receiver thread.             *)

\* The browser ends: by itself (a crash, a failed execv) or after SIGTERM.
Exit(p) ==
    /\ Live(p)
    /\ proc' = [proc EXCEPT ![p] = "zombie"]
    /\ sigchld' = TRUE
    /\ UNCHANGED <<OsrBrowserPid, handler, mtx, comm, osd, pc, job, arg>>

\* SIGCHLD is delivered: ignored, or browser_signal_handler runs.
Sigchld ==
    /\ sigchld
    /\ sigchld' = FALSE
    /\ IF handler THEN ReapRecorded ELSE UNCHANGED proc
    /\ UNCHANGED <<OsrBrowserPid, handler, mtx, comm, osd, pc, job, arg>>

\* The receiver takes a ping, perhaps a late one of a browser that is gone.
\* It is inside no call of its own.  Only an external browser's heartbeat is
\* ever asked for (browsercommunication.c:221, hbbtv.c:526).
ReceivePing(p) ==
    /\ Ready(Receiver)
    /\ IF OsrBrowserStart THEN p \in Pid /\ proc[p] # "free" ELSE p = External
    /\ heartbeat' = ~OsrBrowserStart
    /\ browserStarted' = TRUE
    /\ UNCHANGED <<OsrBrowserPid, kernel, mtx, osd, pc, job, arg>>

HeartbeatExpires ==
    /\ heartbeat
    /\ heartbeat' = FALSE
    /\ UNCHANGED <<OsrBrowserPid, kernel, mtx, browserStarted, osd, pc, job, arg>>

\* The main thread takes the plugin call SendToBrowser has put.
DispatchClose ==
    /\ pc[Main] = "idle"
    /\ osdType = "CLOSE"
    /\ osdType' = "MENU"
    /\ UNCHANGED <<OsrBrowserStart, OsrBrowserPid, kernel, mtx, comm, pc, job, arg>>

-----------------------------------------------------------------------------
SendStep(t) ==
    \/ SendProceed(t) \/ SendTimeout(t) \/ SendExternal(t)
    \/ AliveReap(t) \/ AliveProbe(t) \/ SendNn(t)
    \/ SendRestart(t) \/ ServiceStart(t)

StopStep(t) ==
    \/ StopCheck(t) \/ StopKill(t) \/ StopCall(t)
    \/ StopWait(t) \/ StopForget(t)

StartStep(t) ==
    \/ StartEnter(t) \/ StartFork(t) \/ StartForkFails(t) \/ StartRecord(t)

ThreadStep(t) == SendStep(t) \/ StopStep(t) \/ StartStep(t)

Environment ==
    \/ Sigchld
    \/ HeartbeatExpires
    \/ DispatchClose
    \/ \E p \in Pid : Exit(p)
    \/ \E p \in Pid \cup {External} : ReceivePing(p)

Next ==
    \/ PluginStarted
    \/ \E t \in Thread : 
        \/ \E c \in Commands[t] : Begin(t, c)
        \/ SendBegin(t)
        \/ ThreadStep(t)
    \/ Environment

Spec == Init /\ [][Next]_vars

(***************************************************************************)
(* Fairness.  A thread that is inside a call keeps running.  The lock of   *)
(* startVdrOsrBrowser is held for a fork and released, and the calls that  *)
(* compete for it come from a user and from rate-limited messages, so a    *)
(* thread that finds it free again and again gets it at last.  A browser   *)
(* that was sent SIGTERM ends, and a pending signal is delivered.          *)
(***************************************************************************)
Fairness ==
    /\ WF_vars(PluginStarted)
    /\ WF_vars(Sigchld)
    /\ \A t \in Thread : WF_vars(SendStep(t) \/ StopStep(t) \/ StartStep(t))
    /\ \A t \in Thread : SF_vars(StartEnter(t))
    /\ \A p \in Pid : WF_vars(proc[p] = "terminating" /\ Exit(p))

FairSpec == Spec /\ Fairness

-----------------------------------------------------------------------------
(* The type invariant: a managed register holds 0, -2 or a pid and never   *)
(* "external", an external one never changes (globals.c:16, hbbtv.c:365).  *)
Register == IF OsrBrowserStart THEN {NotStarted, Stopped} \cup Pid ELSE {External}

TypeOK ==
    /\ OsrBrowserStart \in BOOLEAN
    /\ OsrBrowserPid \in Register
    /\ proc \in [Pid -> ProcState]
    /\ sigchld \in BOOLEAN
    /\ handler \in BOOLEAN
    /\ mtx \in Thread \cup {Nobody}
    /\ browserStarted \in BOOLEAN
    /\ heartbeat \in BOOLEAN
    /\ osdType \in {"MENU", "CLOSE"}
    /\ pc \in [Thread -> Pc]
    /\ job \in [Thread -> Job]
    /\ arg \in [Thread -> {NotStarted} \cup Register]

\* At most one thread is between the test of the register and its assignment
\* in startVdrOsrBrowser, and no browser is registered meanwhile: a start
\* never overwrites a pid (hbbtv.c:290-365), however stops interleave.
NoForkOverRecorded ==
    \A t \in Thread : pc[t] \in {"start_fork", "start_record"} =>
        /\ OsrBrowserPid \notin Pid
        /\ \A u \in Thread : pc[u] \in {"start_fork", "start_record"} => u = t

\* Without -s the plugin never forks, signals or declares dead a browser it
\* does not own, whatever commands it gets (globals.c:16-19, hbbtv.c:292,379).
ExternalUntouched ==
    ~OsrBrowserStart =>
        /\ \A p \in Pid : proc[p] = "free"
        /\ osdType = "MENU"
        /\ \A t \in Thread : pc[t] \notin StopPc \cup {"send_restart", "start_fork"}

\* The pids that were recorded, and the register's abstract life.
RecordedPids ==
    {p \in Pid : /\ proc[p] # "free"
                 /\ \A t \in Thread : pc[t] = "start_record" => arg[t] # p}

Protocol == INSTANCE BrowserPidProtocol
              WITH managed <- OsrBrowserStart, reg <- OsrBrowserPid,
                   recorded <- RecordedPids

\* BrowserProcess implements the register's protocol (BrowserPidProtocol).
ImplementsProtocol == Protocol!PSpec

\* A send that finds the recorded browser dead leads to another browser, or at
\* least to a fork that fails: the dead one's pid must not make the start
\* believe that a browser is "already running" (hbbtv.c:240-246, 298).
DeadIsReplaced ==
    \A t \in Thread, p \in Pid :
        (pc[t] = "send_restart" /\ OsrBrowserPid = p /\ ~Live(p)) ~>
            (pc[t] = "start_fork" \/ \E q \in Pid : Live(q))

=============================================================================
