---------------------------- MODULE NngEndpoint -----------------------------
(***************************************************************************)
(* How a socket of the plugin gets and keeps its connection to the browser *)
(* (nn_connect, core/dialer.c, the dialer's part of core/socket.c and of   *)
(* transport/ipc/ipc.c), and how nn_close takes both apart with the reaper *)
(* thread (core/pipe.c, core/reap.c).                                      *)
(*                                                                         *)
(* An action is a callback of the task queue, or the part of a function    *)
(* between two locks or waits.  A connection's ipctran_pipe and the        *)
(* nni_pipe made from it have the same name: the first is destroyed last,  *)
(* so a name is free when it is not in tran.  Abstracted: what goes        *)
(* through a pipe (NngPipeline), the aios' own protocol (NngAio), the time *)
(* between two attempts, allocation failures and the statistics.           *)
(***************************************************************************)
EXTENDS Naturals, SequencesExt

CONSTANTS
    Pipes,       \* the pipes' memory, used again when it is free
    NoPipe,      \* NULL
    Dialer, Ep   \* the dialer and the transport's endpoint, as items of the reaper

ASSUME EndpointAssumption ==
    NoPipe \notin Pipes \cup {Dialer, Ep} /\ {Dialer, Ep} \cap Pipes = {} /\ Dialer # Ep

VARIABLES
    peer,        \* the browser listens
    sock,        \* how far nn_close is
    closing,     \* d_closing: the aios of the dialer are closed too
    dialer,      \* is in s_dialers, waits to be reaped, has left s_dialers, is freed
    con,         \* d_con_aio, with its result
    timer,       \* d_tmo_aio
    dial,        \* the transport's attempt: connaio, then negoaio
    dialAlive,   \* the other end of that attempt is still there
    tpipe,       \* the ipctran_pipe of that attempt, then the output of d_con_aio
    tran,        \* the ipctran_pipes that are not freed: the endpoint's refcnt
    ep,          \* the endpoint: in use, with fini set, or freed
    dpipe,       \* d_pipe
    listed,      \* the pipes in d_pipes and s_pipes
    started,     \* the pipes whose protocol was started
    held,        \* the pipes with p_refcnt 1
    closed,      \* the pipes with p_closed
    alive,       \* the pipes whose other end is still there
    reapq,       \* reap_list
    reaping,     \* what the reaper thread is at
    cutOff       \* history: a greeting went to an end that was gone

dialing == <<con, timer, dial, dialAlive, cutOff>>
pipes   == <<dpipe, listed, started, held, closed, alive>>
ipctran == <<tpipe, tran, ep>>
vars    == <<peer, sock, closing, dialer, dialing, ipctran, pipes, reapq, reaping>>

Idle == [at |-> "idle", rv |-> "ok"]

Result(rv) == [at |-> "cb", rv |-> rv]

\* After nn_connect: nni_dialer_start has begun to connect.
Init ==
    /\ peer \in BOOLEAN /\ sock = "open" /\ closing = FALSE /\ dialer = "listed"
    /\ con = [at |-> "wait", rv |-> "ok"] /\ timer = "idle"
    /\ dial = "connect" /\ dialAlive = FALSE
    /\ tpipe = NoPipe /\ tran = {} /\ ep = "used"
    /\ dpipe = NoPipe /\ listed = {} /\ started = {} /\ held = {}
    /\ closed = {} /\ alive = {}
    /\ reapq = <<>> /\ reaping = NoPipe
    /\ cutOff = FALSE

-----------------------------------------------------------------------------
(* The browser.                                                            *)

PeerUp ==
    /\ ~peer /\ peer' = TRUE
    /\ UNCHANGED <<sock, closing, dialer, dialing, ipctran, pipes, reapq, reaping>>

\* It ends or closes its socket, and with it the other end of every connection.
PeerDown ==
    /\ peer /\ peer' = FALSE
    /\ dialAlive' = FALSE /\ alive' = {}
    /\ UNCHANGED <<sock, closing, dialer, con, timer, dial, cutOff, ipctran, dpipe, listed,
                   started, held, closed, reapq, reaping>>

-----------------------------------------------------------------------------
(* The transport.                                                          *)

\* connect(): the kernel takes the connection before the browser accepts it.
\* ipctran_dial_cb makes an ipctran_pipe of it.
DialOk ==
    /\ dial = "connect" /\ peer
    /\ \E p \in Pipes \ tran : tpipe' = p /\ tran' = tran \cup {p}
    /\ dial' = "greet" /\ dialAlive' = TRUE
    /\ UNCHANGED <<peer, sock, closing, dialer, con, timer, cutOff, ep, pipes, reapq, reaping>>

\* The attempt ends with an error, which goes to whoever still waits for it.
DialFails(rv) ==
    /\ dial' = "idle"
    /\ con' = IF con.at = "wait" THEN Result(rv) ELSE con
    /\ UNCHANGED <<peer, sock, closing, dialer, timer, dialAlive, tran, ep, pipes, reaping>>

DialRefused ==
    /\ dial = "connect" /\ ~peer
    /\ DialFails("refused")
    /\ UNCHANGED <<cutOff, tpipe, reapq>>

\* ipctran_pipe_nego_cb with an error: the ipctran_pipe is for the reaper.
NegoFails(rv) ==
    /\ DialFails(rv)
    /\ tpipe' = NoPipe /\ reapq' = Append(reapq, tpipe)

\* ipctran_pipe_start: the greeting is sent.
Greet ==
    /\ dial = "greet" /\ dialAlive
    /\ dial' = "answer"
    /\ UNCHANGED <<peer, sock, closing, dialer, con, timer, dialAlive, cutOff, ipctran, pipes,
                   reapq, reaping>>

\* sendmsg gives EPIPE, which nni_plat_errno makes NNG_ECLOSED.
GreetCutOff ==
    /\ dial = "greet" /\ ~dialAlive
    /\ cutOff' = TRUE
    /\ NegoFails("closed")

\* ipctran_pipe_nego_cb and ipctran_ep_match: the other greeting is there.  When
\* nobody waits any more the ipctran_pipe stays among waitpipes.
Answer ==
    /\ dial = "answer" /\ dial' = "idle"
    /\ IF con.at = "wait" THEN con' = Result("ok") /\ UNCHANGED tpipe
       ELSE tpipe' = NoPipe /\ UNCHANGED con
    /\ UNCHANGED <<peer, sock, closing, dialer, timer, dialAlive, cutOff, tran, ep, pipes, reapq,
                   reaping>>

\* NNG_ECONNSHUT, or after ten seconds NNG_ETIMEDOUT.
NoAnswer ==
    /\ dial = "answer"
    /\ \/ ~dialAlive /\ NegoFails("connshut")
       \/ dialAlive /\ NegoFails("timedout")
    /\ UNCHANGED cutOff

\* The callback of a greeting that ipctran_ep_close has closed.
NegoClosed ==
    /\ dial = "closed"
    /\ NegoFails("closed") /\ UNCHANGED cutOff

\* ipctran_dial_cb of a connect() that ipctran_ep_close has ended.
DialAborted ==
    /\ dial = "aborted" /\ dial' = "idle"
    /\ UNCHANGED <<peer, sock, closing, dialer, con, timer, dialAlive, cutOff, ipctran, pipes,
                   reapq, reaping>>

-----------------------------------------------------------------------------
(* The dialer.                                                             *)

\* dialer_timer_start_locked.
TimerStart == timer' = IF closing THEN timer ELSE "set"

TimerFires ==
    /\ timer = "set" /\ timer' = "cb"
    /\ UNCHANGED <<peer, sock, closing, dialer, con, dial, dialAlive, cutOff, ipctran, pipes,
                   reapq, reaping>>

\* dialer_timer_cb and ipctran_ep_connect; a closed aio is called back at once.
TimerCb ==
    /\ timer = "cb" /\ timer' = "idle"
    /\ IF closing THEN con' = Result("canceled") /\ UNCHANGED dial
       ELSE con' = [at |-> "wait", rv |-> "ok"] /\ dial' = "connect"
    /\ UNCHANGED <<peer, sock, closing, dialer, dialAlive, cutOff, ipctran, pipes, reapq, reaping>>

\* Slip: an attempt that timed out is not tried again either.
ConnectFailedQuietly ==
    /\ con.at = "cb" /\ con.rv # "ok"
    /\ con' = Idle
    /\ IF con.rv \in {"closed", "canceled", "timedout"} THEN UNCHANGED timer ELSE TimerStart
    /\ UNCHANGED <<peer, sock, closing, dialer, dial, dialAlive, cutOff, ipctran, pipes, reapq,
                   reaping>>

\* dialer_connect_cb with an error: after NNG_ECLOSED and NNG_ECANCELED nothing.
ConnectFailed ==
    /\ con.at = "cb" /\ con.rv # "ok"
    /\ con' = Idle
    /\ IF con.rv \in {"closed", "canceled"} THEN UNCHANGED timer ELSE TimerStart
    /\ UNCHANGED <<peer, sock, closing, dialer, dial, dialAlive, cutOff, ipctran, pipes, reapq,
                   reaping>>

\* dialer_connect_cb and nni_dialer_add_pipe: a pipe is made and held.  When the dialer
\* is closing, the ipctran_pipe is forgotten.
ConnectOk ==
    /\ con = Result("ok")
    /\ IF closing THEN con' = Idle /\ UNCHANGED pipes
       ELSE /\ con' = [at |-> "adding", rv |-> "ok"]
            /\ dpipe' = tpipe /\ listed' = listed \cup {tpipe} /\ held' = held \cup {tpipe}
            /\ closed' = closed \ {tpipe} /\ started' = started \ {tpipe}
            /\ alive' = IF dialAlive THEN alive \cup {tpipe} ELSE alive \ {tpipe}
    /\ tpipe' = NoPipe
    /\ UNCHANGED <<peer, sock, closing, dialer, timer, dial, dialAlive, cutOff, tran, ep, reapq,
                   reaping>>

\* Slip: the early return forgets the reference.
AddPipeKeepsRef ==
    /\ con.at = "adding" /\ con' = Idle
    /\ held' = IF dpipe \in closed THEN held ELSE held \ {dpipe}
    /\ started' = IF dpipe \in closed THEN started ELSE started \cup {dpipe}
    /\ UNCHANGED <<peer, sock, closing, dialer, timer, dial, dialAlive, cutOff, ipctran, dpipe,
                   listed, closed, alive, reapq, reaping>>

\* nni_dialer_add_pipe after the callback of the user: the pipe may be closed by now.
AddPipe ==
    /\ con.at = "adding" /\ con' = Idle
    /\ started' = IF dpipe \in closed THEN started ELSE started \cup {dpipe}
    /\ held' = held \ {dpipe}
    /\ UNCHANGED <<peer, sock, closing, dialer, timer, dial, dialAlive, cutOff, ipctran, dpipe,
                   listed, closed, alive, reapq, reaping>>

-----------------------------------------------------------------------------
(* Pipes and the reaper.                                                   *)

\* nni_pipe_close of some pipes: those not yet closed go to the reaper.
ClosePipes(ps) ==
    /\ closed' = closed \cup ps
    /\ reapq' = reapq \o SetToSeq(ps \ closed)

\* The same, when the protocol refuses the pipe (NNG_EPROTO).
PipeRefused ==
    /\ con.at = "adding" /\ dpipe \notin closed /\ con' = Idle
    /\ ClosePipes({dpipe})
    /\ held' = held \ {dpipe}
    /\ UNCHANGED <<peer, sock, closing, dialer, timer, dial, dialAlive, cutOff, ipctran, dpipe,
                   listed, started, alive, reaping>>

\* The protocol's callbacks find that the other end is gone, or the connection broke.
PipeBreaks(p) ==
    /\ p \in (listed \cap started) \ closed
    /\ ClosePipes({p})
    /\ UNCHANGED <<peer, sock, closing, dialer, dialing, ipctran, dpipe, listed, started, held,
                   alive, reaping>>

ReaperTakes ==
    /\ reaping = NoPipe /\ reapq # <<>>
    /\ reaping' = Head(reapq) /\ reapq' = Tail(reapq)
    /\ UNCHANGED <<peer, sock, closing, dialer, dialing, ipctran, pipes>>

\* Slip: the pipe is destroyed while somebody holds it.
ReapPipeHeld ==
    /\ reaping \in listed
    /\ listed' = listed \ {reaping}
    /\ IF dpipe = reaping THEN dpipe' = NoPipe /\ TimerStart ELSE UNCHANGED <<dpipe, timer>>
    /\ UNCHANGED <<peer, sock, closing, dialer, con, dial, dialAlive, cutOff, ipctran, started,
                   held, closed, alive, reapq, reaping>>

\* Slip: the dialer is not told.
ReapPipeQuietly ==
    /\ reaping \in listed \ held
    /\ listed' = listed \ {reaping}
    /\ dpipe' = IF dpipe = reaping THEN NoPipe ELSE dpipe
    /\ UNCHANGED <<peer, sock, closing, dialer, dialing, ipctran, started, held, closed, alive,
                   reapq, reaping>>

\* pipe_destroy waits for the references; nni_pipe_remove takes the pipe off the lists,
\* kicks the timer and wakes nn_close.  The reaper is not done with the pipe yet.
ReapPipe ==
    /\ reaping \in listed \ held
    /\ listed' = listed \ {reaping}
    /\ IF dpipe = reaping THEN dpipe' = NoPipe /\ TimerStart ELSE UNCHANGED <<dpipe, timer>>
    /\ UNCHANGED <<peer, sock, closing, dialer, con, dial, dialAlive, cutOff, ipctran, started,
                   held, closed, alive, reapq, reaping>>

\* ipctran_pipe_fini, of a pipe that has left the lists or of a greeting that failed.
\* The last one of an endpoint with fini set hands it to the reaper.
PipeFreed ==
    /\ reaping \in Pipes \ listed
    /\ tran' = tran \ {reaping} /\ reaping' = NoPipe
    /\ reapq' = IF ep = "fini" /\ tran' = {} THEN Append(reapq, Ep) ELSE reapq
    /\ UNCHANGED <<peer, sock, closing, dialer, dialing, tpipe, ep, pipes>>

\* nni_dialer_reap waits for both callbacks; with pipes left the dialer goes to the end
\* of the list again, otherwise it leaves s_dialers, and nn_close is woken.
ReapDialer ==
    /\ reaping = Dialer /\ dialer = "closed" /\ con = Idle /\ timer = "idle"
    /\ IF listed # {}
       THEN /\ closed' = closed \cup listed
            /\ reapq' = Append(reapq \o SetToSeq(listed \ closed), Dialer)
            /\ reaping' = NoPipe
            /\ UNCHANGED dialer
       ELSE dialer' = "removed" /\ UNCHANGED <<closed, reapq, reaping>>
    /\ UNCHANGED <<peer, sock, closing, dialing, ipctran, dpipe, listed, started, held, alive>>

\* nni_dialer_destroy.  ipctran_ep_fini frees the endpoint after the callback of a
\* connect(), or leaves it to the last of its ipctran_pipes.
DialerDestroyed ==
    /\ reaping = Dialer /\ dialer = "removed"
    /\ \/ tran # {} /\ ep' = "fini"
       \/ tran = {} /\ dial # "aborted" /\ ep' = "freed"
    /\ dialer' = "freed" /\ reaping' = NoPipe
    /\ UNCHANGED <<peer, sock, closing, dialing, tpipe, tran, pipes, reapq>>

\* ipctran_ep_fini as an item of the reaper.
EpFreed ==
    /\ reaping = Ep /\ dial # "aborted"
    /\ ep' = "freed" /\ reaping' = NoPipe
    /\ UNCHANGED <<peer, sock, closing, dialer, dialing, tpipe, tran, pipes, reapq>>

-----------------------------------------------------------------------------
(* nn_close.                                                               *)

\* nni_sock_shutdown and dialer_shutdown_impl close the aios of the dialer; what the
\* transport is at goes on.
Shutdown ==
    /\ sock = "open" /\ sock' = "began"
    /\ closing' = TRUE
    /\ con' = IF con.at = "wait" THEN Result("closed") ELSE con
    /\ timer' = IF timer = "set" THEN "idle" ELSE timer
    /\ UNCHANGED <<peer, dialer, dial, dialAlive, cutOff, ipctran, pipes, reapq, reaping>>

\* ipctran_ep_close and the closing of the dialer's pipes.
CloseTransport ==
    /\ sock = "began" /\ sock' = "shut"
    /\ dial' = CASE dial = "connect" -> "aborted"
                 [] dial \in {"greet", "answer"} -> "closed"
                 [] OTHER -> dial
    /\ ClosePipes(listed)
    /\ UNCHANGED <<peer, closing, dialer, con, timer, dialAlive, cutOff, ipctran, dpipe, listed,
                   started, held, alive, reaping>>

\* nni_dialer_close_rele, and nni_pipe_close of every pipe of the socket.
CloseEndpoints ==
    /\ sock = "shut" /\ sock' = "wait"
    /\ dialer' = "closed"
    /\ closed' = closed \cup listed
    /\ reapq' = Append(reapq, Dialer) \o SetToSeq(listed \ closed)
    /\ UNCHANGED <<peer, closing, dialing, ipctran, dpipe, listed, started, held, alive, reaping>>

\* Slip: nn_close waits for the pipes only.
SocketGonePipes ==
    /\ sock = "wait" /\ listed = {} /\ sock' = "gone"
    /\ UNCHANGED <<peer, closing, dialer, dialing, ipctran, pipes, reapq, reaping>>

\* The wait of nni_sock_shutdown for the lists ends, the socket is destroyed.
SocketGone ==
    /\ sock = "wait" /\ listed = {} /\ dialer \in {"removed", "freed"} /\ sock' = "gone"
    /\ UNCHANGED <<peer, closing, dialer, dialing, ipctran, pipes, reapq, reaping>>

-----------------------------------------------------------------------------

Transport ==
    DialOk \/ DialRefused \/ Greet \/ GreetCutOff \/ NoAnswer \/ NegoClosed \/ DialAborted

Callbacks == TimerFires \/ TimerCb \/ ConnectFailed \/ ConnectOk \/ AddPipe \/ PipeRefused

Reaper ==
    ReaperTakes \/ ReapPipe \/ PipeFreed \/ ReapDialer \/ DialerDestroyed \/ EpFreed

Closing == CloseTransport \/ CloseEndpoints \/ SocketGone

Next ==
    \/ PeerUp \/ PeerDown \/ Shutdown
    \/ Transport \/ Answer \/ Callbacks \/ Reaper \/ Closing
    \/ \E p \in Pipes : PipeBreaks(p)

Spec == Init /\ [][Next]_vars

\* The transport, the task queue, the reaper and nn_close go on, and a pipe without its
\* other end is found to be broken.  A browser that is there answers in the end (it has
\* ten seconds each time) and is of the right protocol.  It may come and go, or stay away.
FairSpec ==
    /\ Spec
    /\ WF_vars(Transport) /\ WF_vars(Callbacks) /\ WF_vars(Reaper) /\ WF_vars(Closing)
    /\ SF_vars(Answer) /\ SF_vars(AddPipe)
    /\ \A p \in Pipes : WF_vars(p \notin alive /\ PipeBreaks(p))

-----------------------------------------------------------------------------

\* What the reaper has or is at.
WithReaper == (ToSet(reapq) \cup {reaping}) \ {NoPipe}

\* The dialer's own pipe is one of the listed pipes, and the transport works for the
\* dialer only while it waits, or until nn_close has closed the endpoint.
TypeOK ==
    /\ peer \in BOOLEAN /\ closing \in BOOLEAN /\ cutOff \in BOOLEAN
    /\ closing <=> sock # "open"
    /\ sock \in {"open", "began", "shut", "wait", "gone"}
    /\ dialer \in {"listed", "closed", "removed", "freed"}
    /\ con.at \in {"idle", "wait", "cb", "adding"}
    /\ con.rv \in {"ok", "refused", "closed", "canceled", "connshut", "timedout"}
    /\ timer \in {"idle", "set", "cb"}
    /\ dial \in {"idle", "connect", "greet", "answer", "closed", "aborted"}
    /\ ep \in {"used", "fini", "freed"}
    /\ tpipe \in tran \cup {NoPipe} /\ tran \subseteq Pipes
    /\ dpipe \in listed \cup {NoPipe} /\ listed \subseteq tran
    /\ alive \subseteq Pipes /\ closed \subseteq Pipes /\ started \subseteq Pipes
    /\ con.at = "wait" => dial \in {"connect", "greet", "answer"}
    /\ dial \in {"connect", "greet", "answer"} => con.at = "wait" \/ sock = "began"
    /\ reaping \in Pipes \cup {Dialer, Ep, NoPipe}

\* At most one of these goes on for a dialer: an attempt to connect, the timer, a pipe.
\* So no aio is started twice (the assertion in aio.c:407) and there is one pipe at a
\* time (nng_dialer.5.adoc:28-29).
OneAttempt ==
    /\ con.at \in {"wait", "cb"} => timer = "idle" /\ listed = {}
    /\ timer # "idle" => listed = {}
    /\ \A p, q \in listed : p = q
    /\ con.at = "adding" => timer = "idle" /\ dpipe # NoPipe

\* pipe.c:72: "Make sure any unlocked holders are done with this": whoever holds a
\* pipe, or is queued to reap it, has one that is not destroyed; each closed pipe is
\* with the reaper once, and the pipe of a connection in the making is not.
HeldIsListed ==
    /\ held \subseteq listed
    /\ IsInjective(reapq) /\ reaping \notin ToSet(reapq)
    /\ WithReaper \cap listed = listed \cap closed
    /\ WithReaper \cap Pipes \subseteq tran \ {tpipe}

\* Once the socket is freed, nothing uses it: no pipe is on its lists, its dialer has
\* left them, no callback of the dialer is to come, and the reaper, which may still be
\* inside pipe_destroy or nni_dialer_destroy, is past the part that takes the socket's
\* lock.  The endpoint, which outlives the socket, is freed after the last connection
\* and greeting that use it, and nobody is to free it again.
GoneIsUnused ==
    /\ sock = "gone" =>
          /\ listed = {} /\ dialer \in {"removed", "freed"}
          /\ con = Idle /\ timer = "idle"
          /\ Dialer \in WithReaper => reaping = Dialer /\ dialer = "removed"
    /\ ep = "freed" =>
          /\ dialer = "freed" /\ tran = {}
          /\ dial = "idle" /\ Ep \notin WithReaper

Trying == con.at # "idle" \/ timer # "idle" \/ dpipe # NoPipe

\* A dialer of an open socket is connecting, waits for the timer or has a pipe, unless
\* its greeting was cut off: no order of broken connections, refusals, timeouts and
\* reaped pipes lets it stop otherwise.
StopsOnlyCutOff == sock = "open" => (Trying \/ cutOff)

Connected == dpipe \in (alive \cap started) \ closed

\* nn_close returns, whatever the dialer, its pipe and the reaper are at.
CloseReturns == sock = "began" ~> sock = "gone"

\* When the browser is there to stay, the socket is connected again and again, unless
\* a greeting was cut off.
Reconnects == <>[](peer /\ sock = "open") => []<>(Connected \/ cutOff)

\* nng_dialer.5.adoc:32: "If the connection is broken, or fails, the dialer object will
\* automatically attempt to reconnect, and will keep doing so until the dialer or
\* socket is destroyed."
KeepsTrying == sock = "open" => Trying
=============================================================================
