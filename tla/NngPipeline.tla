---------------------------- MODULE NngPipeline -----------------------------
(***************************************************************************)
(* The way of a message from nn_send on a push socket to nn_recv on a pull *)
(* socket: the upper write queue, the pipes of the push socket             *)
(* (protocol/pipeline0/push.c), the connections, the pipes of the pull     *)
(* socket (pull.c) and the upper read queue, with connections that come    *)
(* and break, sends that time out, and both sockets closed at any time.    *)
(* The plugin has one socket of each kind, the browser the other ends.     *)
(*                                                                         *)
(* An action is one call under the lock of a queue, with the callbacks'    *)
(* steps between them apart.  Abstracted: the bytes of a message, the      *)
(* handshake of a connection, the dialer that makes one (NngEndpoint), the *)
(* aios' own protocol (NngAio: here a stopped aio cannot be begun).        *)
(***************************************************************************)
EXTENDS NngMsgQueue

CONSTANTS
    Senders,     \* threads in nn_send
    Receivers,   \* threads in nn_recv
    Pipes,       \* the connections, in the order in which they are made
    RecvCap,     \* capacity of the upper read queue: 1
    WireCap      \* bound: messages the connection holds

ASSUME PipelineAssumption ==
    /\ Msg \subseteq Nat /\ None \notin Msg /\ Pipes \subseteq Nat
    /\ {RecvCap, WireCap} \subseteq Nat
    /\ Senders \cap Pipes = {} /\ Receivers \cap Pipes = {}

\* Capacity of the upper write queue, which nobody changes.
SendCap == 0

VARIABLES
    uwq, urq,    \* the upper queues
    sock,        \* the state of the two sockets
    snd, rcv,    \* what the threads in nn_send and nn_recv do
    push, pull,  \* the two ends of a connection
    pushClosed, pullClosed,   \* p_closed of each end
    wire,        \* the messages in the connection
    sent,        \* history: the messages that push0_getq_cb gave to each connection
    accepted, failed,   \* history: the messages of which nn_send reported it
    got          \* history: the messages that nn_recv gave from each connection

queues  == <<uwq, urq>>
ends    == <<push, pull, pushClosed, pullClosed, wire>>
history == <<sent, accepted, failed, got>>
vars    == <<queues, sock, snd, rcv, ends, history>>

writeSide == <<uwq, snd, push, sent, accepted, failed>>
readSide  == <<urq, rcv, pull, got>>

End(at, m) == [at |-> at, msg |-> m]

Init ==
    /\ uwq = NewQueue(SendCap) /\ urq = NewQueue(RecvCap)
    /\ sock = [push |-> "open", pull |-> "open"]
    /\ snd = [s \in Senders |-> End("idle", None)]
    /\ rcv = [r \in Receivers |-> "idle"]
    /\ push = [p \in Pipes |-> End("none", None)]
    /\ pull = [p \in Pipes |-> End("none", None)]
    /\ pushClosed = [p \in Pipes |-> FALSE] /\ pullClosed = [p \in Pipes |-> FALSE]
    /\ wire = [p \in Pipes |-> <<>>] /\ sent = [p \in Pipes |-> <<>>]
    /\ accepted = {} /\ failed = {}
    /\ got = [p \in Pipes |-> <<>>]

-----------------------------------------------------------------------------
(* What the finished operations of a call mean to whom they belong.        *)

IsDone(out, aio) == \E d \in out.done : d.aio = aio

IsOk(out, aio) == \E d \in out.done : d.aio = aio /\ d.rv = "ok"

ResultOf(out, aio) == CHOOSE d \in out.done : d.aio = aio

\* The write queue after a call that makes the threads ss wait: those who are done
\* return from nn_send, and push0_getq_cb will find the message or the error.
WriteQueueIs(out, ss) ==
    /\ uwq' = out.q
    /\ snd' = [s \in Senders |->
                 IF IsDone(out, s) THEN End("idle", None)
                 ELSE IF s \in ss THEN End("wait", snd[s].msg) ELSE snd[s]]
    /\ accepted' = accepted \cup {snd[s].msg : s \in {t \in Senders : IsOk(out, t)}}
    /\ failed' = failed \cup {snd[s].msg :
                     s \in {t \in Senders : IsDone(out, t) /\ ~IsOk(out, t)}}
    /\ sent' = [p \in Pipes |-> IF IsOk(out, p)
                                THEN Append(sent[p], ResultOf(out, p).msg) ELSE sent[p]]

\* What the ends of connections become by the same call, given what they are.
WritersOf(out, now) ==
    [p \in Pipes |-> IF ~IsDone(out, p) THEN now[p]
                     ELSE IF IsOk(out, p) THEN End("got", ResultOf(out, p).msg)
                     ELSE End("stopped", None)]

\* What nn_recv returns with and came through connection p.
GivesOf(out, p) ==
    {d \in out.done : d.aio \in Receivers /\ d.rv = "ok" /\ d.msg \in ToSet(sent[p])}

\* The read queue after a call: nn_recv returns, pull0_putq_cb will find that its
\* message was taken or the error.
ReadQueueIs(out, now) ==
    /\ urq' = out.q
    /\ got' = [p \in Pipes |-> IF GivesOf(out, p) = {} THEN got[p]
                               ELSE Append(got[p], (CHOOSE d \in GivesOf(out, p) : TRUE).msg)]
    /\ pull' = [p \in Pipes |-> IF ~IsDone(out, p) THEN now[p]
                                ELSE End(IF IsOk(out, p) THEN "put" ELSE "stopped", None)]

ReadersOf(out, now) == [r \in Receivers |-> IF IsDone(out, r) THEN "idle" ELSE now[r]]

-----------------------------------------------------------------------------
(* nn_send and nn_recv.                                                    *)

Used == accepted \cup failed \cup {snd[s].msg : s \in Senders}

\* nni_sock_find: refuses a socket that is closed, not one that is closing.
SendFind(s) ==
    /\ snd[s].at = "idle" /\ sock.push \notin {"closed", "freed"}
    /\ \E m \in Msg \ Used :
          /\ \A k \in Msg \ Used : m <= k
          /\ snd' = [snd EXCEPT ![s] = End("found", m)]
    /\ UNCHANGED <<queues, sock, rcv, ends, history>>

\* nni_sock_send and nni_sock_rele: the socket is let go, the operation may wait.
SendPut(s) ==
    /\ snd[s].at = "found"
    /\ \E out \in AioPut(uwq, s, snd[s].msg, TRUE) :
        /\ WriteQueueIs(out, {s})
        /\ push' = WritersOf(out, push)
        /\ UNCHANGED <<readSide, sock, pushClosed, pullClosed, wire>>

\* The send timeout that the plugin sets (what a freed queue makes of it is undefined).
SendTimeout(s) ==
    /\ snd[s].at = "wait" /\ sock.push # "freed"
    /\ \E out \in Cancel(uwq, s, "timedout") :
        /\ WriteQueueIs(out, {})
        /\ UNCHANGED <<readSide, sock, push, pushClosed, pullClosed, wire>>

\* nn_recv: with NN_DONTWAIT it does not wait.
Recv(r, block) ==
    /\ rcv[r] = "idle" /\ sock.pull \notin {"closed", "freed"}
    /\ \E out \in AioGet(urq, r, block) :
        /\ ReadQueueIs(out, pull)
        /\ rcv' = ReadersOf(out, [rcv EXCEPT ![r] = "wait"])
        /\ UNCHANGED <<writeSide, sock, pushClosed, pullClosed, wire>>

RecvTimeout(r) ==
    /\ rcv[r] = "wait"
    /\ \E out \in Cancel(urq, r, "timedout") :
        /\ ReadQueueIs(out, pull)
        /\ rcv' = ReadersOf(out, rcv)
        /\ UNCHANGED <<writeSide, sock, pushClosed, pullClosed, wire>>

-----------------------------------------------------------------------------
(* The pipe of the push socket.                                            *)

\* nni_msgq_aio_get of a pipe: an aio that was closed cannot be begun.
GetNext(p, now) ==
    IF pushClosed[p]
    THEN /\ push' = [now EXCEPT ![p] = End("stopped", None)]
         /\ UNCHANGED <<uwq, snd, sent, accepted, failed>>
    ELSE \E out \in AioGet(uwq, p, TRUE) :
             /\ WriteQueueIs(out, {})
             /\ push' = WritersOf(out, [now EXCEPT ![p] = End("getq", None)])

\* The connection is there: push0_pipe_start and pull0_pipe_start.  The side that
\* dials has one at a time.
Connect(p) ==
    /\ push[p].at = "none" /\ sock.push = "open" /\ sock.pull = "open"
    /\ \A o \in Pipes : o < p => "stopped" \in {push[o].at, pull[o].at}
    /\ GetNext(p, push)
    /\ pull' = [pull EXCEPT ![p] = End("recv", None)]
    /\ UNCHANGED <<urq, rcv, got, sock, pushClosed, pullClosed, wire>>

\* push0_getq_cb; sending with a closed aio ends in push0_send_cb, which frees.
PushGot(p) ==
    /\ push[p].at = "got"
    /\ push' = [push EXCEPT ![p] = IF pushClosed[p] THEN End("stopped", None)
                                   ELSE End("sending", @.msg)]
    /\ UNCHANGED <<queues, sock, snd, rcv, pull, pushClosed, pullClosed, wire, history>>

\* The transport has written the message, which the closing may race.
PushSent(p) ==
    /\ push[p].at = "sending" /\ Len(wire[p]) < WireCap
    /\ wire' = [wire EXCEPT ![p] = Append(@, push[p].msg)]
    /\ push' = [push EXCEPT ![p] = End("sent", None)]
    /\ UNCHANGED <<queues, sock, snd, rcv, pull, pushClosed, pullClosed, history>>

\* push0_send_cb without an error.
PushSendCb(p) ==
    /\ push[p].at = "sent"
    /\ GetNext(p, push)
    /\ UNCHANGED <<readSide, sock, pushClosed, pullClosed, wire>>

\* push0_send_cb with the error of a closed pipe: the message is freed.
PushFail(p) ==
    /\ push[p].at = "sending" /\ pushClosed[p]
    /\ push' = [push EXCEPT ![p] = End("stopped", None)]
    /\ UNCHANGED <<queues, sock, snd, rcv, pull, pushClosed, pullClosed, wire, history>>

\* nni_pipe_close and push0_pipe_close: by push0_recv_cb when the other end is
\* closed, by the socket, or because the connection broke or its process ended.
ClosePush(p) ==
    /\ push[p].at # "none" /\ ~pushClosed[p]
    /\ \E out \in Cancel(uwq, p, "closed") :
        /\ pushClosed' = [pushClosed EXCEPT ![p] = TRUE]
        /\ WriteQueueIs(out, {})
        /\ push' = WritersOf(out, push)
        /\ UNCHANGED <<readSide, sock, pullClosed, wire>>

-----------------------------------------------------------------------------
(* The pipe of the pull socket.                                            *)

\* The transport has read a message; a connection whose other end is closed can
\* still be read to its end.
PullRecv(p) ==
    /\ pull[p].at = "recv" /\ ~pullClosed[p] /\ wire[p] # <<>>
    /\ pull' = [pull EXCEPT ![p] = End("recvd", Head(wire[p]))]
    /\ wire' = [wire EXCEPT ![p] = Tail(@)]
    /\ UNCHANGED <<queues, sock, snd, rcv, push, pushClosed, pullClosed, history>>

\* Slip: the next receive does not wait until the queue took the message.
PullRecvCbNext(p) ==
    /\ pull[p].at = "recvd"
    /\ pull' = [pull EXCEPT ![p] = End("recv", None)]
    /\ UNCHANGED <<urq, rcv, got, writeSide, sock, pushClosed, pullClosed, wire>>

\* pull0_recv_cb and pull0_putq, which frees the message when the pipe is closed.
PullRecvCb(p) ==
    /\ pull[p].at = "recvd"
    /\ \E out \in AioPut(urq, p, pull[p].msg, TRUE) :
        /\ IF pullClosed[p]
           THEN /\ pull' = [pull EXCEPT ![p] = End("stopped", None)]
                /\ UNCHANGED <<urq, rcv, got>>
           ELSE /\ ReadQueueIs(out, [pull EXCEPT ![p].at = "putq"])
                /\ rcv' = ReadersOf(out, rcv)
        /\ UNCHANGED <<writeSide, sock, pushClosed, pullClosed, wire>>

\* pull0_putq_cb without an error: the next receive.
PullPutCb(p) ==
    /\ pull[p].at = "put"
    /\ pull' = [pull EXCEPT ![p] = End("recv", None)]
    /\ UNCHANGED <<queues, sock, snd, rcv, push, pushClosed, pullClosed, wire, history>>

\* pull0_recv_cb with the error of a closed pipe.
PullFail(p) ==
    /\ pull[p].at = "recv" /\ pullClosed[p]
    /\ pull' = [pull EXCEPT ![p] = End("stopped", None)]
    /\ UNCHANGED <<queues, sock, snd, rcv, push, pushClosed, pullClosed, wire, history>>

\* nni_pipe_close and pull0_pipe_close.
ClosePull(p) ==
    /\ push[p].at # "none" /\ ~pullClosed[p]
    /\ \E out \in Cancel(urq, p, "closed") :
        /\ pullClosed' = [pullClosed EXCEPT ![p] = TRUE]
        /\ ReadQueueIs(out, pull)
        /\ UNCHANGED <<writeSide, sock, rcv, pushClosed, wire>>

-----------------------------------------------------------------------------
(* nn_close of the two sockets: the endpoints and their pipes are closed,  *)
(* then the queues, then the pipes must be gone, then nobody may hold it.  *)

Become(x, old, new) == sock[x] = old /\ sock' = [sock EXCEPT ![x] = new]

Shutdown(x) ==
    /\ Become(x, "open", "shut")
    /\ UNCHANGED <<queues, snd, rcv, ends, history>>

ClosedPipes(x) == \A p \in Pipes : push[p].at # "none" =>
                     IF x = "push" THEN pushClosed[p] ELSE pullClosed[p]

CloseWriteQueue ==
    /\ Become("push", "shut", "queued") /\ ClosedPipes("push")
    /\ \E out \in Close(uwq) :
        /\ WriteQueueIs(out, {})
        /\ push' = WritersOf(out, push)
        /\ UNCHANGED <<readSide, pushClosed, pullClosed, wire>>

CloseReadQueue ==
    /\ Become("pull", "shut", "queued") /\ ClosedPipes("pull")
    /\ \E out \in Close(urq) :
        /\ ReadQueueIs(out, pull)
        /\ rcv' = ReadersOf(out, rcv)
        /\ UNCHANGED <<writeSide, pushClosed, pullClosed, wire>>

\* nni_sock_close: nobody finds the socket any more.
CloseSock(x) ==
    /\ Become(x, "queued", "closed")
    /\ \A p \in Pipes : IF x = "push" THEN push[p].at \in {"none", "stopped"}
                        ELSE pull[p].at \in {"none", "stopped"}
    /\ UNCHANGED <<queues, snd, rcv, ends, history>>

\* The references are gone: sock_destroy frees the queues.
FreeSock(x) ==
    /\ Become(x, "closed", "freed")
    /\ x = "push" => \A s \in Senders : snd[s].at # "found"
    /\ UNCHANGED <<queues, snd, rcv, ends, history>>

-----------------------------------------------------------------------------

PushSteps(p) ==
    PushGot(p) \/ PushSent(p) \/ PushSendCb(p) \/ PushFail(p)

PullSteps(p) ==
    PullRecv(p) \/ PullRecvCb(p) \/ PullPutCb(p) \/ PullFail(p)

Next ==
    \/ \E s \in Senders : SendFind(s) \/ SendPut(s) \/ SendTimeout(s)
    \/ \E r \in Receivers : (\E block \in BOOLEAN : Recv(r, block)) \/ RecvTimeout(r)
    \/ \E p \in Pipes : Connect(p) \/ PushSteps(p) \/ PullSteps(p)
                        \/ ClosePush(p) \/ ClosePull(p)
    \/ CloseWriteQueue \/ CloseReadQueue
    \/ \E x \in {"push", "pull"} : Shutdown(x) \/ CloseSock(x) \/ FreeSock(x)

Spec == Init /\ [][Next]_vars

\* The task queue and the transport go on and the receiver asks again and again, as
\* BrowserCommunication::Action does.  Nothing has to be sent, connected or closed.
FairSpec ==
    /\ Spec
    /\ \A r \in Receivers : WF_vars(Recv(r, FALSE))
    /\ \A p \in Pipes : WF_vars(PushSteps(p)) /\ WF_vars(PullSteps(p))

-----------------------------------------------------------------------------

QueueOK(q, cap) ==
    /\ q.cap = cap /\ Len(q.items) <= cap
    /\ ToSet(q.items) \subseteq Msg

\* A queue holds no more messages than its capacity; an operation that waits is in
\* the list of its queue and no other operation is.
TypeOK ==
    /\ QueueOK(uwq, SendCap) /\ QueueOK(urq, RecvCap)
    /\ \A s \in Senders : snd[s].at \in {"idle", "found", "wait"}
    /\ \A s \in Senders : snd[s].at = "wait" <=> Waits(uwq, s)
    /\ \A r \in Receivers : rcv[r] = "wait" <=> Waits(urq, r)
    /\ \A p \in Pipes : push[p].at = "getq" <=> Waits(uwq, p)
    /\ \A p \in Pipes : pull[p].at = "putq" <=> Waits(urq, p)

\* msgqueue.c:152: "The presence of any blocked reader indicates that the queue is
\* empty, otherwise it would have just taken data from the queue"; nor does a writer
\* wait beside a reader, so that no message lies while somebody asks for it.
NobodyWaitsInVain == ReaderMeansEmpty(uwq) /\ ReaderMeansEmpty(urq)

OnTheWay(m) ==
    \/ \E p \in Pipes : m \in {push[p].msg, pull[p].msg} \cup ToSet(wire[p]) \cup ToSet(got[p])
    \/ m \in ToSet(urq.items)

\* A message for which nn_send returned success is on its way or received unless the
\* connection it went through was closed: no queue, callback or cancelled operation
\* loses it.
LostOnlyWithConnection ==
    \A m \in accepted :
       \/ OnTheWay(m)
       \/ \E p \in Pipes : m \in ToSet(sent[p]) /\ (pushClosed[p] \/ pullClosed[p])

Channel == INSTANCE LossyChannel

\* nn_send to nn_recv implements the channel: each message goes through one
\* connection, is received at most once and in the order of its connection, and a
\* send that was reported as failed is never received.
IsLossyChannel == Channel!Spec

\* An accepted message is received in the end, unless its connection is closed.
Delivered ==
    \A m \in Msg : m \in accepted ~>
       \/ \E p \in Pipes : m \in ToSet(got[p])
       \/ \E p \in Pipes : m \in ToSet(sent[p]) /\ (pushClosed[p] \/ pullClosed[p])

\* socket.c:649-651, nni_sock_shutdown: "any threads blocked in entry points will be
\* woken (and the functions they are blocked in will return NNG_ECLOSED.)": nobody
\* waits for a socket that is freed.
NobodyWaitsForFreed == sock.push = "freed" => \A s \in Senders : snd[s].at # "wait"
=============================================================================
