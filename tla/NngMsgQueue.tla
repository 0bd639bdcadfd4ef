---------------------------- MODULE NngMsgQueue -----------------------------
(***************************************************************************)
(* A message queue of nng (core/msgqueue.c) as a value: the messages in    *)
(* its ring and the two lists of operations that wait, and what a call     *)
(* under the queue's lock makes of it.  A call is given by its outcomes,   *)
(* here always one: the queue after it and the operations it finished.     *)
(*                                                                         *)
(* The loops of nni_msgq_run_putq and nni_msgq_run_getq are given by how   *)
(* often they go round.  Abstracted: the indices of the ring, the          *)
(* pollables (nobody asks for the descriptors), allocation failures.  Not  *)
(* here: tryput, flush, resize and set_get_error, which push and pull      *)
(* sockets do not call.                                                    *)
(***************************************************************************)
EXTENDS Integers, SequencesExt

CONSTANTS
    None,        \* NULL
    Msg          \* the messages

\* A writer is an operation with its message, a reader an operation.
Writer(aio, m) == [aio |-> aio, msg |-> m]

\* What nni_aio_finish and its variants are called with.
Done(aio, rv, m) == [aio |-> aio, rv |-> rv, msg |-> m]

Outcome(q, done) == [q |-> q, done |-> done]

\* nni_msgq_init.
NewQueue(cap) == [items |-> <<>>, cap |-> cap, closed |-> FALSE, putq |-> <<>>, getq |-> <<>>]

Least(a, b) == IF a <= b THEN a ELSE b

Drop(s, k) == SubSeq(s, k + 1, Len(s))

Room(q) == q.cap - Len(q.items)

\* The first k readers get the first messages of s.
Handed(q, s, k) == {Done(q.getq[i], "ok", s[i]) : i \in 1 .. k}

\* The writers from the i-th to the k-th are done, and no longer have a message.
Written(q, i, k) == {Done(q.putq[j].aio, "ok", None) : j \in i .. k}

MsgsOf(writers) == [i \in DOMAIN writers |-> writers[i].msg]

\* Slip: the writers fill the ring although a reader waits.
RunPutqRing(q) ==
    LET r == Least(Len(q.putq), Room(q))
    IN  Outcome([q EXCEPT !.items = @ \o SubSeq(MsgsOf(q.putq), 1, r), !.putq = Drop(@, r)],
                Written(q, 1, r))

\* nni_msgq_run_putq: the first h writers hand their messages to readers, and when no
\* reader is left r more find room in the ring.
RunPutq(q) ==
    LET h == Least(Len(q.putq), Len(q.getq))
        r == IF h < Len(q.getq) THEN 0 ELSE Least(Len(q.putq) - h, Room(q))
    IN  Outcome([q EXCEPT !.items = @ \o SubSeq(MsgsOf(q.putq), h + 1, h + r),
                          !.putq = Drop(@, h + r), !.getq = Drop(@, h)],
                Handed(q, MsgsOf(q.putq), h) \cup Written(q, 1, h + r))

\* Slip: a waiting writer is preferred to the ring.
RunGetqWriters(q) ==
    LET w == Least(Len(q.getq), Len(q.putq))
        r == Least(Len(q.getq) - w, Len(q.items))
    IN  Outcome([q EXCEPT !.items = Drop(@, r), !.putq = Drop(@, w), !.getq = Drop(@, r + w)],
                Handed(q, MsgsOf(q.putq) \o q.items, r + w) \cup Written(q, 1, w))

\* Slip: the readers look at the ring only.
RunGetqRingOnly(q) ==
    LET r == Least(Len(q.getq), Len(q.items))
    IN  Outcome([q EXCEPT !.items = Drop(@, r), !.getq = Drop(@, r)], Handed(q, q.items, r))

\* nni_msgq_run_getq: the first r readers empty the ring, w more take from writers.
RunGetq(q) ==
    LET r == Least(Len(q.getq), Len(q.items))
        w == Least(Len(q.getq) - r, Len(q.putq))
    IN  Outcome([q EXCEPT !.items = Drop(@, r), !.putq = Drop(@, w), !.getq = Drop(@, r + w)],
                Handed(q, q.items \o MsgsOf(q.putq), r + w) \cup Written(q, 1, w))

\* nni_msgq_aio_put.  A put that cannot be scheduled fails when it would wait.
AioPut(q, aio, m, scheduled) ==
    IF ~scheduled /\ Room(q) <= 0 /\ q.getq = <<>>
    THEN {Outcome(q, {Done(aio, "timedout", m)})}
    ELSE {RunPutq(w) : w \in {[q EXCEPT !.putq = Append(@, Writer(aio, m))]}}

\* nni_msgq_aio_get, with the error of a closed queue.
AioGet(q, aio, scheduled) ==
    IF q.closed THEN {Outcome(q, {Done(aio, "closed", None)})}
    ELSE IF ~scheduled /\ q.items = <<>> /\ q.putq = <<>>
    THEN {Outcome(q, {Done(aio, "timedout", None)})}
    ELSE {RunGetq(w) : w \in {[q EXCEPT !.getq = Append(@, aio)]}}

Waits(q, aio) ==
    \/ \E i \in DOMAIN q.putq : q.putq[i].aio = aio
    \/ \E i \in DOMAIN q.getq : q.getq[i] = aio

\* nni_msgq_cancel: an operation that waits is finished with the error, and a
\* writer keeps its message.
Cancel(q, aio, rv) ==
    {Outcome([q EXCEPT !.putq = RemoveAt(@, i)], {Done(aio, rv, q.putq[i].msg)}) :
        i \in {j \in DOMAIN q.putq : q.putq[j].aio = aio}}
    \cup {Outcome([q EXCEPT !.getq = RemoveAt(@, i)], {Done(aio, rv, None)}) :
             i \in {j \in DOMAIN q.getq : q.getq[j] = aio}}
    \cup {o \in {Outcome(q, {})} : ~Waits(q, aio)}

\* nni_msgq_close: the messages are freed, everybody who waits gets the error.
Close(q) ==
    {Outcome([q EXCEPT !.closed = TRUE, !.items = <<>>, !.putq = <<>>, !.getq = <<>>],
             {Done(w.aio, "closed", w.msg) : w \in ToSet(q.putq)}
             \cup {Done(r, "closed", None) : r \in ToSet(q.getq)})}

-----------------------------------------------------------------------------

\* msgqueue.c:152: "the presence of any blocked reader indicates that the queue is
\* empty", and no writer waits beside a reader.
ReaderMeansEmpty(q) == q.getq # <<>> => q.items = <<>> /\ q.putq = <<>>
=============================================================================
