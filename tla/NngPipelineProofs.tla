------------------------- MODULE NngPipelineProofs -------------------------
(***************************************************************************)
(* Proofs about NngPipeline, for any number of threads, messages and       *)
(* connections and any capacity of the read queue: the types, that nobody  *)
(* waits for a message that is there, what may lose a message, and that    *)
(* the two sockets implement LossyChannel.                                 *)
(***************************************************************************)
EXTENDS NngPipeline, SequenceTheorems, TLAPS

\* A queue whose writers and readers are of the given kinds.
Queue(ws, rs) ==
    [items : Seq(Msg), cap : Nat, closed : BOOLEAN,
     putq : Seq([aio : ws, msg : Msg]), getq : Seq(rs)]

\* Each operation waits once, and no reader beside a message or a writer.
Orderly(q) == ReaderMeansEmpty(q) /\ IsInjective(q.putq) /\ IsInjective(q.getq)

\* The threads in nn_send, the write queue and the pipes of the push socket.
PushAt == {"none", "getq", "got", "sending", "sent", "stopped"}

WriteTypes ==
    /\ uwq \in Queue(Senders, Pipes) /\ uwq.cap = 0 /\ uwq.items = <<>>
    /\ snd \in [Senders -> [at : {"idle", "found", "wait"}, msg : Msg \cup {None}]]
    /\ push \in [Pipes -> [at : PushAt, msg : Msg \cup {None}]]
    /\ pushClosed \in [Pipes -> BOOLEAN]
    /\ sent \in [Pipes -> Seq(Msg)]
    /\ accepted \subseteq Msg /\ failed \subseteq Msg

WriteLists ==
    /\ Orderly(uwq)
    /\ \A w \in [aio : Senders, msg : Msg] :
          w \in ToSet(uwq.putq) <=> snd[w.aio].at = "wait" /\ w.msg = snd[w.aio].msg
    /\ \A p \in Pipes : p \in ToSet(uwq.getq) <=> push[p].at = "getq"

WriteEnds ==
    /\ uwq.closed => sock.push # "open" /\ \A p \in Pipes : push[p].at # "none" => pushClosed[p]
    /\ \A p \in Pipes : /\ push[p].at = "stopped" => pushClosed[p]
                        /\ push[p].at = "getq" => ~pushClosed[p]
                        /\ push[p].at = "none" => ~pushClosed[p]

WriteInv == WriteLists /\ WriteEnds

\* The receivers, the read queue and the pipes of the pull socket.
PullAt == {"none", "recv", "recvd", "putq", "put", "stopped"}

ReadTypes ==
    /\ urq \in Queue(Pipes, Receivers) /\ urq.cap = RecvCap /\ Len(urq.items) <= RecvCap
    /\ rcv \in [Receivers -> {"idle", "wait"}]
    /\ pull \in [Pipes -> [at : PullAt, msg : Msg \cup {None}]]
    /\ pullClosed \in [Pipes -> BOOLEAN]
    /\ wire \in [Pipes -> Seq(Msg)] /\ got \in [Pipes -> Seq(Msg)]

ReadLists ==
    /\ Orderly(urq)
    /\ \A w \in [aio : Pipes, msg : Msg] :
          w \in ToSet(urq.putq) <=> pull[w.aio].at = "putq" /\ w.msg = pull[w.aio].msg
    /\ \A r \in Receivers : r \in ToSet(urq.getq) <=> rcv[r] = "wait"

ReadEnds ==
    \A p \in Pipes :
        /\ pull[p].at \in {"recvd", "putq"} => pull[p].msg \in Msg
        /\ pull[p].at \notin {"recvd", "putq"} => pull[p].msg = None
        /\ pull[p].at = "putq" => ~pullClosed[p]
        /\ push[p].at = "none" => ~pullClosed[p] /\ pull[p].at = "none"

ReadInv == ReadLists /\ ReadEnds

SockTypes ==
    sock \in [push : {"open", "shut", "queued", "closed", "freed"},
              pull : {"open", "shut", "queued", "closed", "freed"}]

\* A message is with one thread, or its send has one result; what was accepted went into
\* one connection.
MsgInv ==
    /\ \A s \in Senders : /\ snd[s].at = "idle" => snd[s].msg = None
                          /\ snd[s].at # "idle" => snd[s].msg \in Msg \ (accepted \cup failed)
    /\ \A s, t \in Senders : snd[s].msg = snd[t].msg /\ snd[s].msg # None => s = t
    /\ accepted \cap failed = {}
    /\ \A m \in Msg : m \in accepted <=> \E p \in Pipes : \E i \in 1 .. Len(sent[p]) : sent[p][i] = m
    /\ \A p, q \in Pipes : \A i \in 1 .. Len(sent[p]), j \in 1 .. Len(sent[q]) :
          sent[p][i] = sent[q][j] => p = q /\ i = j

\* What came out of a connection is the beginning of what went in.
PrefixInv ==
    \A p \in Pipes :
        /\ Len(got[p]) <= Len(sent[p])
        /\ \A i \in 1 .. Len(got[p]) : got[p][i] = sent[p][i]

\* m is in s behind the first n, which came out; it is not in S, and all that are between
\* are in S.
Coming(m, s, n, S) ==
    /\ m \notin S
    /\ \E i \in n + 1 .. Len(s) : s[i] = m /\ \A k \in n + 1 .. i - 1 : s[k] \in S

First(s, n) == {s[k] : k \in 1 .. n}

Ring == ToSet(urq.items)

\* Whatever is between the sockets comes in the order in which it was sent.
RingInv ==
    \A j \in 1 .. Len(urq.items) :
        \E p \in Pipes : Coming(urq.items[j], sent[p], Len(got[p]), First(urq.items, j - 1))

PullInv ==
    \A p \in Pipes : (pull[p].at \in {"recvd", "putq"} /\ ~pullClosed[p])
        => Coming(pull[p].msg, sent[p], Len(got[p]), Ring)

WireInv ==
    \A p \in Pipes : ~pullClosed[p] =>
        \A j \in 1 .. Len(wire[p]) :
            Coming(wire[p][j], sent[p], Len(got[p]),
                   Ring \cup {pull[p].msg} \cup First(wire[p], j - 1))

Between(p) == Ring \cup {pull[p].msg} \cup ToSet(wire[p])

PushInv ==
    \A p \in Pipes :
        /\ push[p].at = "none" => sent[p] = <<>>
        /\ push[p].at \notin {"got", "sending"} => push[p].msg = None
        /\ push[p].at \in {"got", "sending"} =>
              /\ Len(sent[p]) > 0 /\ push[p].msg = sent[p][Len(sent[p])]
              /\ ~pullClosed[p] => Len(got[p]) < Len(sent[p]) /\ push[p].msg \notin Between(p)
        /\ (~pullClosed[p] /\ push[p].at # "stopped") =>
              \A k \in Len(got[p]) + 1 .. Len(sent[p]) :
                  sent[p][k] \in Between(p) \cup {push[p].msg}

OrderInv == PrefixInv /\ RingInv /\ PullInv /\ WireInv /\ PushInv

IInv == WriteTypes /\ WriteInv /\ ReadTypes /\ ReadInv /\ SockTypes /\ MsgInv /\ OrderInv

-----------------------------------------------------------------------------
(* Sequences.                                                              *)

LEMMA Removed ==
    ASSUME NEW S, NEW s \in Seq(S), NEW i \in 1 .. Len(s)
    PROVE  /\ RemoveAt(s, i) \in Seq(S)
           /\ Len(RemoveAt(s, i)) = Len(s) - 1
           /\ \A j \in 1 .. Len(s) - 1 :
                 RemoveAt(s, i)[j] = IF j < i THEN s[j] ELSE s[j + 1]
<1> DEFINE a == SubSeq(s, 1, i - 1)
           b == SubSeq(s, i + 1, Len(s))
<1>1. /\ a \in Seq(S) /\ Len(a) = i - 1
      /\ \A j \in 1 .. i - 1 : a[j] = s[j]
  <2>1. \A j \in 1 .. i - 1 : s[j] \in S
    OBVIOUS
  <2>2. 1 \in Int /\ i - 1 \in Int
    OBVIOUS
  <2>3. QED
    BY <2>1, <2>2, SubSeqProperties
<1>2. /\ b \in Seq(S) /\ Len(b) = Len(s) - i
      /\ \A j \in 1 .. Len(s) - i : b[j] = s[i + j]
  <2>1. \A j \in i + 1 .. Len(s) : s[j] \in S
    OBVIOUS
  <2>2. i + 1 \in Int /\ Len(s) \in Int
    OBVIOUS
  <2>3. /\ b \in Seq(S) /\ Len(b) = IF i + 1 <= Len(s) THEN Len(s) - (i + 1) + 1 ELSE 0
        /\ \A j \in 1 .. Len(s) - (i + 1) + 1 : b[j] = s[i + 1 + j - 1]
    BY <2>1, <2>2, SubSeqProperties
  <2>4. QED
    BY <2>3
<1>3. /\ a \o b \in Seq(S) /\ Len(a \o b) = Len(a) + Len(b)
      /\ \A j \in 1 .. Len(a) + Len(b) :
            (a \o b)[j] = IF j <= Len(a) THEN a[j] ELSE b[j - Len(a)]
  BY <1>1, <1>2, ConcatProperties
<1>4. RemoveAt(s, i) = a \o b
  BY DEF RemoveAt
<1> HIDE DEF a, b
<1>5. ASSUME NEW j \in 1 .. Len(s) - 1
      PROVE  (a \o b)[j] = IF j < i THEN s[j] ELSE s[j + 1]
  <2>1. j \in 1 .. Len(a) + Len(b)
    BY <1>1, <1>2
  <2>2. CASE j < i
    BY <1>1, <1>2, <1>3, <2>1, <2>2
  <2>3. CASE ~(j < i)
    <3>1. (a \o b)[j] = b[j - (i - 1)] /\ j - (i - 1) \in 1 .. Len(s) - i
      BY <1>1, <1>2, <1>3, <2>1, <2>3
    <3>2. i + (j - (i - 1)) = j + 1
      OBVIOUS
    <3>3. QED
      BY <1>2, <2>3, <3>1, <3>2
  <2>4. QED
    BY <2>2, <2>3
<1>6. Len(a \o b) = Len(s) - 1
  BY <1>1, <1>2, <1>3
<1>7. QED
  BY <1>3, <1>4, <1>5, <1>6

LEMMA Dropped ==
    ASSUME NEW S, NEW s \in Seq(S), NEW k \in 0 .. Len(s)
    PROVE  /\ Drop(s, k) \in Seq(S)
           /\ Len(Drop(s, k)) = Len(s) - k
           /\ \A j \in 1 .. Len(s) - k : Drop(s, k)[j] = s[j + k]
<1>1. \A j \in k + 1 .. Len(s) : s[j] \in S
  OBVIOUS
<1>2. k + 1 \in Int /\ Len(s) \in Int
  OBVIOUS
<1>3. /\ Drop(s, k) \in Seq(S)
      /\ Len(Drop(s, k)) = IF k + 1 <= Len(s) THEN Len(s) - (k + 1) + 1 ELSE 0
      /\ \A j \in 1 .. Len(s) - (k + 1) + 1 : Drop(s, k)[j] = s[k + 1 + j - 1]
  BY <1>1, <1>2, SubSeqProperties DEF Drop
<1>4. QED
  BY <1>3

LEMMA Elements ==
    ASSUME NEW S, NEW s \in Seq(S)
    PROVE  ToSet(s) = {s[i] : i \in 1 .. Len(s)} /\ ToSet(s) \subseteq S
BY DEF ToSet

LEMMA AppendElements ==
    ASSUME NEW S, NEW s \in Seq(S), NEW x \in S
    PROVE  /\ Append(s, x) \in Seq(S) /\ Len(Append(s, x)) = Len(s) + 1
           /\ \A i \in 1 .. Len(s) + 1 : Append(s, x)[i] = IF i <= Len(s) THEN s[i] ELSE x
           /\ ToSet(Append(s, x)) = ToSet(s) \cup {x}
<1>1. /\ Append(s, x) \in Seq(S) /\ Len(Append(s, x)) = Len(s) + 1
      /\ \A i \in 1 .. Len(s) + 1 : Append(s, x)[i] = IF i <= Len(s) THEN s[i] ELSE x
  OBVIOUS
<1>2. ToSet(Append(s, x)) = {Append(s, x)[i] : i \in 1 .. Len(s) + 1}
  BY <1>1, Elements
<1>3. ToSet(s) = {s[i] : i \in 1 .. Len(s)}
  BY Elements
<1>4. ASSUME NEW y \in ToSet(Append(s, x)) PROVE y \in ToSet(s) \cup {x}
  <2>1. PICK i \in 1 .. Len(s) + 1 : y = Append(s, x)[i]
    BY <1>2
  <2>2. CASE i <= Len(s)
    BY <1>1, <1>3, <2>1, <2>2
  <2>3. CASE ~(i <= Len(s))
    BY <1>1, <2>1, <2>3
  <2>4. QED
    BY <2>2, <2>3
<1>5. ASSUME NEW y \in ToSet(s) \cup {x} PROVE y \in ToSet(Append(s, x))
  <2>1. CASE y = x
    BY <1>1, <1>2, <2>1
  <2>2. CASE y \in ToSet(s)
    <3>1. PICK i \in 1 .. Len(s) : y = s[i]
      BY <1>3, <2>2
    <3>2. i \in 1 .. Len(s) + 1 /\ Append(s, x)[i] = y
      BY <1>1, <3>1
    <3>3. QED
      BY <1>2, <3>2
  <2>3. QED
    BY <2>1, <2>2
<1>6. QED
  BY <1>1, <1>4, <1>5

LEMMA TailElements ==
    ASSUME NEW S, NEW s \in Seq(S), s # <<>>
    PROVE  /\ Tail(s) \in Seq(S) /\ Len(Tail(s)) = Len(s) - 1
           /\ \A i \in 1 .. Len(s) - 1 : Tail(s)[i] = s[i + 1]
           /\ Head(s) = s[1] /\ Head(s) \in S /\ Len(s) > 0
           /\ ToSet(s) = {Head(s)} \cup ToSet(Tail(s))
<1>1. /\ Tail(s) \in Seq(S) /\ Len(Tail(s)) = Len(s) - 1
      /\ \A i \in 1 .. Len(s) - 1 : Tail(s)[i] = s[i + 1]
      /\ Head(s) = s[1] /\ Head(s) \in S /\ Len(s) > 0
  OBVIOUS
<1>2. ToSet(s) = {s[i] : i \in 1 .. Len(s)} /\ ToSet(Tail(s)) = {Tail(s)[i] : i \in 1 .. Len(s) - 1}
  BY <1>1, Elements
<1>3. ASSUME NEW y \in ToSet(s) PROVE y \in {Head(s)} \cup ToSet(Tail(s))
  <2>1. PICK i \in 1 .. Len(s) : y = s[i]
    BY <1>2
  <2>2. CASE i = 1
    BY <1>1, <2>1, <2>2
  <2>3. CASE i # 1
    <3>1. i - 1 \in 1 .. Len(s) - 1 /\ Tail(s)[i - 1] = y
      BY <1>1, <2>1, <2>3
    <3>2. QED
      BY <1>2, <3>1
  <2>4. QED
    BY <2>2, <2>3
<1>4. ASSUME NEW y \in {Head(s)} \cup ToSet(Tail(s)) PROVE y \in ToSet(s)
  <2>1. CASE y = Head(s)
    BY <1>1, <1>2, <2>1
  <2>2. CASE y \in ToSet(Tail(s))
    <3>1. PICK i \in 1 .. Len(s) - 1 : y = Tail(s)[i]
      BY <1>2, <2>2
    <3>2. i + 1 \in 1 .. Len(s) /\ s[i + 1] = y
      BY <1>1, <3>1
    <3>3. QED
      BY <1>2, <3>2
  <2>3. QED
    BY <2>1, <2>2
<1>5. QED
  BY <1>1, <1>3, <1>4

-----------------------------------------------------------------------------
(* What a call of the queue comes to, when no reader waits in vain.        *)

LEMMA Messages ==
    ASSUME NEW ws, NEW s \in Seq([aio : ws, msg : Msg])
    PROVE  /\ MsgsOf(s) \in Seq(Msg) /\ Len(MsgsOf(s)) = Len(s)
           /\ \A i \in 1 .. Len(s) : MsgsOf(s)[i] = s[i].msg
<1>1. DOMAIN s = 1 .. Len(s) /\ Len(s) \in Nat /\ \A i \in 1 .. Len(s) : s[i].msg \in Msg
  <2>1. DOMAIN s = 1 .. Len(s) /\ Len(s) \in Nat
    BY LenProperties
  <2>2. \A i \in 1 .. Len(s) : s[i] \in [aio : ws, msg : Msg]
    BY ElementOfSeq
  <2>3. QED
    BY <2>1, <2>2
<1>2. MsgsOf(s) = [i \in 1 .. Len(s) |-> s[i].msg]
  BY <1>1 DEF MsgsOf
<1>3. MsgsOf(s) \in [1 .. Len(s) -> Msg]
  BY <1>1, <1>2
<1>4. MsgsOf(s) \in Seq(Msg) /\ DOMAIN MsgsOf(s) = 1 .. Len(s)
  BY <1>1, <1>3, SeqDef
<1>5. Len(MsgsOf(s)) = Len(s)
  BY <1>1, <1>4, LenProperties
<1>6. QED
  BY <1>2, <1>4, <1>5

\* The queue with other readers, writers or messages.
WithGetq(q, s)  == [q EXCEPT !.getq = s]
WithPutq(q, s)  == [q EXCEPT !.putq = s]
WithItems(q, s) == [q EXCEPT !.items = s]

\* The message m of the operation w goes to the operation r.
Passed(w, m, r) == {Done(r, "ok", m), Done(w, "ok", None)}

\* The operation r takes the message m from the ring.
Taken(m, r) == {Done(r, "ok", m)}

\* A message for a reader who waits goes to it.
LEMMA PutToReader ==
    ASSUME NEW ws, NEW rs, NEW q \in Queue(ws, rs), NEW a \in ws, NEW m \in Msg,
           ReaderMeansEmpty(q), q.getq # <<>>
    PROVE  AioPut(q, a, m, TRUE) =
              {Outcome(WithGetq(q, Tail(q.getq)), Passed(a, m, Head(q.getq)))}
<1> DEFINE w == [q EXCEPT !.putq = Append(@, Writer(a, m))]
<1>1. q.items = <<>> /\ q.putq = <<>> /\ q.getq \in Seq(rs) /\ q.cap \in Nat
  BY DEF ReaderMeansEmpty, Queue
<1>2. w.putq = <<Writer(a, m)>> /\ w.items = <<>> /\ w.getq = q.getq /\ w.cap = q.cap
  BY <1>1 DEF Queue
<1>3. Len(q.getq) \in Nat /\ Len(q.getq) >= 1 /\ Head(q.getq) = q.getq[1]
  BY <1>1
<1>4. Len(w.putq) = 1 /\ Len(w.items) = 0 /\ MsgsOf(w.putq) = <<m>>
  BY <1>2 DEF MsgsOf, Writer
<1>5. Least(Len(w.putq), Len(w.getq)) = 1
  BY <1>2, <1>3, <1>4 DEF Least
<1>6. (IF 1 < Len(w.getq) THEN 0 ELSE Least(Len(w.putq) - 1, Room(w))) = 0
  BY <1>1, <1>2, <1>4 DEF Least, Room
<1>7. Handed(w, MsgsOf(w.putq), 1) = {Done(Head(q.getq), "ok", m)}
  BY <1>2, <1>3, <1>4 DEF Handed
<1>8. Written(w, 1, 1 + 0) = {Done(a, "ok", None)}
  BY <1>2 DEF Written, Writer
<1>9. Drop(w.putq, 1 + 0) = <<>> /\ Drop(w.getq, 1) = Tail(q.getq)
  <2>1. Drop(w.putq, 1 + 0) = <<>>
    BY <1>2, <1>4, SubSeqEmpty DEF Drop
  <2>2. QED
    BY <1>1, <1>2, <2>1, TailIsSubSeq DEF Drop
<1>10. w.items \o SubSeq(MsgsOf(w.putq), 1 + 1, 1 + 0) = <<>>
  <2>1. SubSeq(MsgsOf(w.putq), 1 + 1, 1 + 0) = <<>>
    BY SubSeqEmpty
  <2>2. QED
    BY <1>2, <2>1
<1>11. [w EXCEPT !.items = <<>>, !.putq = <<>>, !.getq = Tail(q.getq)]
          = WithGetq(q, Tail(q.getq))
  BY <1>1 DEF Queue, WithGetq
<1> HIDE DEF w
<1>12. RunPutq(w) = Outcome([w EXCEPT !.items = <<>>, !.putq = <<>>, !.getq = Tail(q.getq)],
                            {Done(Head(q.getq), "ok", m)} \cup {Done(a, "ok", None)})
  BY <1>5, <1>6, <1>7, <1>8, <1>9, <1>10 DEF RunPutq
<1>13. AioPut(q, a, m, TRUE) = {RunPutq(w)}
  BY DEF AioPut, w
<1>14. QED
  BY <1>11, <1>12, <1>13 DEF Passed

\* The first r writers are done.
Stored(w, r) == {Done(w[j].aio, "ok", None) : j \in 1 .. r}

\* The writers with the new one.
Row(q, a, m) == Append(q.putq, Writer(a, m))

\* Without a reader the first r writers put their messages in the ring, as far as there is
\* room, and the others wait.
LEMMA PutToRing ==
    ASSUME NEW ws, NEW rs, NEW q \in Queue(ws, rs), NEW a \in ws, NEW m \in Msg,
           q.getq = <<>>, Len(q.items) <= q.cap
    PROVE  LET w == Row(q, a, m)
               r == Least(Len(w), Room(q))
           IN  AioPut(q, a, m, TRUE) =
                 {Outcome(WithItems(WithPutq(q, Drop(w, r)), q.items \o SubSeq(MsgsOf(w), 1, r)),
                          Stored(w, r))}
<1> DEFINE w == Row(q, a, m)
           r == Least(Len(w), Room(q))
           v == [q EXCEPT !.putq = Append(@, Writer(a, m))]
<1>1. /\ v.putq = w /\ v.items = q.items /\ v.getq = <<>> /\ v.cap = q.cap
      /\ q.cap \in Nat /\ q.items \in Seq(Msg) /\ Len(q.items) \in Nat
  BY DEF Queue, Row
<1>2. w \in Seq([aio : ws, msg : Msg]) /\ Len(w) \in Nat /\ Len(w) >= 1
  BY DEF Queue, Writer, Row
<1>3. Room(v) = Room(q) /\ Room(q) \in Nat
  BY <1>1 DEF Room
<1>4. Least(Len(v.putq), Len(v.getq)) = 0 /\ Len(v.getq) = 0
  BY <1>1, <1>2 DEF Least
<1>5. (IF 0 < Len(v.getq) THEN 0 ELSE Least(Len(v.putq) - 0, Room(v))) = r
  BY <1>1, <1>2, <1>3, <1>4
<1>6. Handed(v, MsgsOf(v.putq), 0) = {}
  BY DEF Handed
<1>7. r \in Nat /\ 0 + r = r
  BY <1>2, <1>3 DEF Least
<1>8. Written(v, 1, r) = Stored(w, r)
  BY <1>1 DEF Written, Stored
<1>9. Drop(v.getq, 0) = <<>>
  BY <1>1, <1>4, SubSeqEmpty DEF Drop
<1>10. [v EXCEPT !.items = q.items \o SubSeq(MsgsOf(w), 1, r), !.putq = Drop(w, r), !.getq = <<>>]
          = WithItems(WithPutq(q, Drop(w, r)), q.items \o SubSeq(MsgsOf(w), 1, r))
  BY DEF Queue, WithItems, WithPutq
<1> HIDE DEF v
<1>11. RunPutq(v) = Outcome([v EXCEPT !.items = q.items \o SubSeq(MsgsOf(w), 1, r),
                                      !.putq = Drop(w, r), !.getq = <<>>],
                            {} \cup Stored(w, r))
  <2>1. v.items \o SubSeq(MsgsOf(v.putq), 0 + 1, 0 + r) = q.items \o SubSeq(MsgsOf(w), 1, r)
    BY <1>1, <1>7
  <2>2. Written(v, 1, 0 + r) = Stored(w, r)
    BY <1>7, <1>8
  <2>3. Drop(v.putq, 0 + r) = Drop(w, r)
    BY <1>1, <1>7
  <2>4. QED
    BY <1>4, <1>5, <1>6, <1>9, <2>1, <2>2, <2>3 DEF RunPutq
<1>12. AioPut(q, a, m, TRUE) = {RunPutq(v)}
  BY DEF AioPut, v
<1>13. QED
  BY <1>10, <1>11, <1>12

\* Without a reader and without room it waits.
LEMMA PutWaits ==
    ASSUME NEW ws, NEW rs, NEW q \in Queue(ws, rs), NEW a \in ws, NEW m \in Msg,
           q.getq = <<>>, Len(q.items) <= q.cap, Len(q.items) >= q.cap
    PROVE  AioPut(q, a, m, TRUE) = {Outcome(WithPutq(q, Row(q, a, m)), {})}
<1> DEFINE w == Row(q, a, m)
<1>1. w \in Seq([aio : ws, msg : Msg]) /\ Len(w) \in Nat /\ q.items \in Seq(Msg)
  BY DEF Queue, Writer, Row
<1>2. Least(Len(w), Room(q)) = 0
  <2>1. q.cap \in Nat /\ Len(q.items) \in Nat
    BY DEF Queue
  <2>2. Room(q) = 0
    BY <2>1 DEF Room
  <2>3. QED
    BY <1>1, <2>2 DEF Least
<1>3. Drop(w, 0) = w
  BY <1>1, SubSeqFull DEF Drop
<1>4. q.items \o SubSeq(MsgsOf(w), 1, 0) = q.items
  BY <1>1, SubSeqEmpty, ConcatEmptySeq
<1> HIDE DEF w
<1>6. AioPut(q, a, m, TRUE) =
        {Outcome(WithItems(WithPutq(q, Drop(w, 0)), q.items \o SubSeq(MsgsOf(w), 1, 0)),
                 Stored(w, 0))}
  <2>1. AioPut(q, a, m, TRUE) =
          {Outcome(WithItems(WithPutq(q, Drop(w, Least(Len(w), Room(q)))),
                             q.items \o SubSeq(MsgsOf(w), 1, Least(Len(w), Room(q)))),
                   Stored(w, Least(Len(w), Room(q))))}
    BY PutToRing DEF w
  <2>2. QED
    BY <1>2, <2>1
<1>7. WithItems(WithPutq(q, w), q.items) = WithPutq(q, w)
  BY DEF Queue, WithItems, WithPutq
<1>8. Stored(w, 0) = {}
  BY DEF Stored
<1>9. QED
  BY <1>3, <1>4, <1>6, <1>7, <1>8 DEF w

\* A reader takes what is first in the ring.
LEMMA GetFromRing ==
    ASSUME NEW ws, NEW rs, NEW q \in Queue(ws, rs), NEW a \in rs, NEW b,
           ReaderMeansEmpty(q), ~q.closed, q.items # <<>>
    PROVE  AioGet(q, a, b) =
              {Outcome(WithItems(q, Tail(q.items)), Taken(Head(q.items), a))}
<1> DEFINE v == [q EXCEPT !.getq = Append(@, a)]
<1>1. q.getq = <<>> /\ q.items \in Seq(Msg) /\ q.putq \in Seq([aio : ws, msg : Msg])
  BY DEF ReaderMeansEmpty, Queue
<1>2. v.getq = <<a>> /\ v.items = q.items /\ v.putq = q.putq
  BY <1>1 DEF Queue
<1>3. Len(q.items) \in Nat /\ Len(q.items) >= 1 /\ Len(q.putq) \in Nat /\ Len(v.getq) = 1
  BY <1>1, <1>2
<1>4. Least(Len(v.getq), Len(v.items)) = 1 /\ Least(Len(v.getq) - 1, Len(v.putq)) = 0
  BY <1>2, <1>3 DEF Least
<1>5. Handed(v, v.items \o MsgsOf(v.putq), 1 + 0) = {Done(a, "ok", Head(q.items))}
  <2>1. MsgsOf(q.putq) \in Seq(Msg)
    BY <1>1, Messages
  <2>2. (q.items \o MsgsOf(q.putq))[1] = Head(q.items)
    <3>1. 1 \in 1 .. Len(q.items) + Len(MsgsOf(q.putq)) /\ 1 <= Len(q.items)
      <4>1. Len(MsgsOf(q.putq)) \in Nat
        BY <2>1, LenProperties
      <4>2. \A x, y \in Nat : x >= 1 => 1 \in 1 .. x + y /\ 1 <= x
        OBVIOUS
      <4>3. QED
        BY <1>3, <4>1, <4>2
    <3>2. (q.items \o MsgsOf(q.putq))[1] = q.items[1]
      BY <1>1, <2>1, <3>1, ConcatProperties
    <3>3. QED
      BY <1>1, <1>3, <3>2
  <2>3. 1 .. 1 + 0 = {1} /\ v.getq[1] = a
    BY <1>2
  <2>4. QED
    BY <1>2, <2>2, <2>3 DEF Handed
<1>6. Written(v, 1, 0) = {}
  BY DEF Written
<1>7. Drop(v.items, 1) = Tail(q.items) /\ Drop(v.putq, 0) = q.putq /\ Drop(v.getq, 1 + 0) = <<>>
  <2>1. Drop(v.items, 1) = Tail(q.items)
    BY <1>1, <1>2, TailIsSubSeq DEF Drop
  <2>2. Drop(v.putq, 0) = q.putq
    BY <1>1, <1>2, SubSeqFull DEF Drop
  <2>3. Drop(v.getq, 1 + 0) = <<>>
    BY <1>3, SubSeqEmpty DEF Drop
  <2>4. QED
    BY <2>1, <2>2, <2>3
<1>8. [v EXCEPT !.items = Tail(q.items), !.putq = q.putq, !.getq = <<>>]
         = WithItems(q, Tail(q.items))
  BY <1>1 DEF Queue, WithItems
<1> HIDE DEF v
<1>9. RunGetq(v) = Outcome([v EXCEPT !.items = Tail(q.items), !.putq = q.putq, !.getq = <<>>],
                           {Done(a, "ok", Head(q.items))} \cup {})
  BY <1>4, <1>5, <1>6, <1>7 DEF RunGetq
<1>10. AioGet(q, a, b) = {RunGetq(v)}
  BY DEF AioGet, v
<1>11. QED
  BY <1>8, <1>9, <1>10 DEF Taken

\* When the ring is empty it takes the message of the first writer.
LEMMA GetFromWriter ==
    ASSUME NEW ws, NEW rs, NEW q \in Queue(ws, rs), NEW a \in rs, NEW b,
           ReaderMeansEmpty(q), ~q.closed, q.items = <<>>, q.putq # <<>>
    PROVE  AioGet(q, a, b) =
              {Outcome(WithPutq(q, Tail(q.putq)), Passed(Head(q.putq).aio, Head(q.putq).msg, a))}
<1> DEFINE v == [q EXCEPT !.getq = Append(@, a)]
<1>1. q.getq = <<>> /\ q.items \in Seq(Msg) /\ q.putq \in Seq([aio : ws, msg : Msg])
  BY DEF ReaderMeansEmpty, Queue
<1>2. v.getq = <<a>> /\ v.items = <<>> /\ v.putq = q.putq
  BY <1>1 DEF Queue
<1>3. /\ Len(v.items) = 0 /\ Len(q.putq) \in Nat /\ Len(q.putq) >= 1 /\ Len(v.getq) = 1
      /\ Head(q.putq) = q.putq[1]
  BY <1>1, <1>2
<1>4. Least(Len(v.getq), Len(v.items)) = 0 /\ Least(Len(v.getq) - 0, Len(v.putq)) = 1
  BY <1>2, <1>3 DEF Least
<1>5. Handed(v, v.items \o MsgsOf(v.putq), 0 + 1) = {Done(a, "ok", Head(q.putq).msg)}
  <2>1. MsgsOf(q.putq) \in Seq(Msg) /\ MsgsOf(q.putq)[1] = Head(q.putq).msg
    <3>1. 1 \in 1 .. Len(q.putq)
      BY <1>3
    <3>2. MsgsOf(q.putq) \in Seq(Msg) /\ \A i \in 1 .. Len(q.putq) : MsgsOf(q.putq)[i] = q.putq[i].msg
      BY <1>1, Messages
    <3>3. QED
      BY <1>3, <3>1, <3>2
  <2>2. <<>> \o MsgsOf(q.putq) = MsgsOf(q.putq)
    BY <2>1, ConcatEmptySeq
  <2>3. 1 .. 0 + 1 = {1} /\ v.getq[1] = a
    BY <1>2
  <2>4. QED
    BY <1>2, <2>1, <2>2, <2>3 DEF Handed
<1>6. Written(v, 1, 1) = {Done(Head(q.putq).aio, "ok", None)}
  BY <1>2, <1>3 DEF Written
<1>7. Drop(v.items, 0) = <<>> /\ Drop(v.putq, 1) = Tail(q.putq) /\ Drop(v.getq, 0 + 1) = <<>>
  <2>1. Drop(v.items, 0) = <<>>
    BY <1>3, SubSeqEmpty DEF Drop
  <2>2. Drop(v.putq, 1) = Tail(q.putq)
    BY <1>1, <1>2, TailIsSubSeq DEF Drop
  <2>3. Drop(v.getq, 0 + 1) = <<>>
    BY <1>3, SubSeqEmpty DEF Drop
  <2>4. QED
    BY <2>1, <2>2, <2>3
<1>8. [v EXCEPT !.items = <<>>, !.putq = Tail(q.putq), !.getq = <<>>]
         = WithPutq(q, Tail(q.putq))
  BY <1>1 DEF Queue, WithPutq
<1> HIDE DEF v
<1>9. RunGetq(v) = Outcome([v EXCEPT !.items = <<>>, !.putq = Tail(q.putq), !.getq = <<>>],
                           {Done(a, "ok", Head(q.putq).msg)}
                              \cup {Done(Head(q.putq).aio, "ok", None)})
  BY <1>4, <1>5, <1>6, <1>7 DEF RunGetq
<1>10. AioGet(q, a, b) = {RunGetq(v)}
  BY DEF AioGet, v
<1>11. QED
  BY <1>8, <1>9, <1>10 DEF Passed

\* The readers with the new one.
Line(q, a) == Append(q.getq, a)

\* A call that can be scheduled (the provers take no TRUE as an argument).
MayWait(b) == b = TRUE

\* When there is nothing, or others wait already, it waits.
LEMMA GetWaits ==
    ASSUME NEW ws, NEW rs, NEW q \in Queue(ws, rs), NEW a \in rs,
           NEW b \in BOOLEAN, MayWait(b), ~q.closed, q.items = <<>>, q.putq = <<>>
    PROVE  AioGet(q, a, b) = {Outcome(WithGetq(q, Line(q, a)), {})}
<1> DEFINE v == [q EXCEPT !.getq = Append(@, a)]
<1>1. q.getq \in Seq(rs) /\ v.getq = Append(q.getq, a) /\ v.items = <<>> /\ v.putq = <<>>
  BY DEF Queue
<1>2. v.getq \in Seq(rs) /\ Len(v.getq) \in Nat /\ Len(v.items) = 0 /\ Len(v.putq) = 0
  BY <1>1
<1>3. Least(Len(v.getq), Len(v.items)) = 0 /\ Least(Len(v.getq) - 0, Len(v.putq)) = 0
  BY <1>2 DEF Least
<1>4. Handed(v, v.items \o MsgsOf(v.putq), 0 + 0) = {} /\ Written(v, 1, 0) = {}
  BY DEF Handed, Written
<1>5. Drop(v.items, 0) = <<>> /\ Drop(v.putq, 0) = <<>> /\ Drop(v.getq, 0 + 0) = v.getq
  <2>1. Drop(v.items, 0) = <<>> /\ Drop(v.putq, 0) = <<>>
    BY <1>2, SubSeqEmpty DEF Drop
  <2>2. Drop(v.getq, 0) = v.getq
    BY <1>2, SubSeqFull DEF Drop
  <2>3. QED
    BY <2>1, <2>2
<1>6. [v EXCEPT !.items = <<>>, !.putq = <<>>, !.getq = v.getq] = v
  BY <1>1 DEF Queue
<1> HIDE DEF v
<1>7. RunGetq(v) = Outcome([v EXCEPT !.items = <<>>, !.putq = <<>>, !.getq = v.getq], {})
  BY <1>3, <1>4, <1>5 DEF RunGetq
<1>8. AioGet(q, a, b) = {RunGetq(v)}
  BY DEF AioGet, v, MayWait
<1>9. QED
  BY <1>6, <1>7, <1>8 DEF v, WithGetq, Line

-----------------------------------------------------------------------------
(* What a call of the write queue means to the threads and the pipes.      *)

\* All that the proofs need of the constants: neither that messages and connections are
\* numbers nor that there are finitely many.
LEMMA Kinds ==
    /\ Senders \cap Pipes = {} /\ Receivers \cap Pipes = {}
    /\ None \notin Msg /\ RecvCap \in Nat
BY PipelineAssumption

USE Kinds

\* The message of thread s goes to pipe p.
HandOver(s, p) ==
    /\ snd' = [snd EXCEPT ![s] = End("idle", None)]
    /\ push' = [push EXCEPT ![p] = End("got", snd[s].msg)]
    /\ sent' = [sent EXCEPT ![p] = Append(@, snd[s].msg)]
    /\ accepted' = accepted \cup {snd[s].msg}
    /\ failed' = failed

\* The sends of the threads in T fail.
FailSends(T) ==
    /\ snd' = [s \in Senders |-> IF s \in T THEN End("idle", None) ELSE snd[s]]
    /\ failed' = failed \cup {snd[s].msg : s \in T}
    /\ UNCHANGED <<push, sent, accepted>>

LEMMA OutcomeParts ==
    ASSUME NEW q, NEW D
    PROVE  Outcome(q, D).q = q /\ Outcome(q, D).done = D
BY DEF Outcome

LEMMA HandsOver ==
    ASSUME WriteTypes, NEW q, NEW s \in Senders, NEW p \in Pipes, NEW ss,
           NEW now, \A r \in Pipes : r # p => now[r] = push[r],
           NEW out, out.q = q, out.done = Passed(s, snd[s].msg, p),
           WriteQueueIs(out, ss), \A t \in Senders : t \in ss => t = s,
           push' = WritersOf(out, now)
    PROVE  uwq' = q /\ HandOver(s, p)
<1>1. s # p
  OBVIOUS
<1>2. out.q = q /\ out.done = {Done(p, "ok", snd[s].msg), Done(s, "ok", None)}
  BY DEF Passed
<1>3. \A a : IsDone(out, a) <=> a \in {s, p}
  BY <1>2 DEF IsDone, Done
<1>4. \A a : IsOk(out, a) <=> a \in {s, p}
  BY <1>2 DEF IsOk, Done
<1>5. ResultOf(out, p).msg = snd[s].msg
  <2>1. \E d \in out.done : d.aio = p
    BY <1>2 DEF Done
  <2>2. ResultOf(out, p) \in out.done /\ ResultOf(out, p).aio = p
    BY <2>1 DEF ResultOf
  <2>3. QED
    BY <1>1, <1>2, <2>2 DEF Done
<1>6. uwq' = q
  BY <1>2 DEF WriteQueueIs
<1>7. snd' = [snd EXCEPT ![s] = End("idle", None)]
  <2>1. \A t \in Senders : t # p
    OBVIOUS
  <2>2. snd' = [t \in Senders |-> IF t = s THEN End("idle", None) ELSE snd[t]]
    BY <1>3, <2>1 DEF WriteQueueIs
  <2>3. QED
    BY <2>2 DEF WriteTypes
<1>8. push' = [push EXCEPT ![p] = End("got", snd[s].msg)]
  <2>1. \A r \in Pipes : r # s
    OBVIOUS
  <2>2. push' = [r \in Pipes |-> IF r = p THEN End("got", snd[s].msg) ELSE now[r]]
    BY <1>3, <1>4, <1>5, <2>1 DEF WritersOf
  <2>3. push' = [r \in Pipes |-> IF r = p THEN End("got", snd[s].msg) ELSE push[r]]
    BY <2>2
  <2>4. QED
    BY <2>3 DEF WriteTypes
<1>9. sent' = [sent EXCEPT ![p] = Append(@, snd[s].msg)]
  <2>1. \A r \in Pipes : r # s
    OBVIOUS
  <2>2. \A r \in Pipes : IsOk(out, r) <=> r = p
    BY <1>4, <2>1
  <2>3. sent' = [r \in Pipes |-> IF IsOk(out, r) THEN Append(sent[r], ResultOf(out, r).msg)
                                               ELSE sent[r]]
    BY DEF WriteQueueIs
  <2>4. sent' = [r \in Pipes |-> IF r = p THEN Append(sent[r], snd[s].msg) ELSE sent[r]]
    BY <1>5, <2>2, <2>3
  <2>5. QED
    BY <2>4 DEF WriteTypes
<1>10. accepted' = accepted \cup {snd[s].msg}
  <2>1. \A t \in Senders : IsOk(out, t) <=> t = s
    BY <1>4
  <2>2. {t \in Senders : IsOk(out, t)} = {s}
    BY <2>1
  <2>3. QED
    BY <2>2 DEF WriteQueueIs
<1>11. failed' = failed
  <2>1. {t \in Senders : IsDone(out, t) /\ ~IsOk(out, t)} = {}
    BY <1>3, <1>4
  <2>2. QED
    BY <2>1 DEF WriteQueueIs
<1>12. QED
  BY <1>6, <1>7, <1>8, <1>9, <1>10, <1>11 DEF HandOver

\* A call that finishes nothing makes its callers wait.
LEMMA NothingDone ==
    ASSUME WriteTypes, NEW q, NEW ss, NEW out, out.q = q, out.done = {}, WriteQueueIs(out, ss),
           NEW now \in [Pipes -> [at : PushAt, msg : Msg \cup {None}]]
    PROVE  /\ uwq' = q
           /\ snd' = [s \in Senders |-> IF s \in ss THEN End("wait", snd[s].msg) ELSE snd[s]]
           /\ WritersOf(out, now) = now
           /\ UNCHANGED <<sent, accepted, failed>>
<1>1. out.q = q /\ out.done = {}
  OBVIOUS
<1>2. \A a : ~IsDone(out, a) /\ ~IsOk(out, a)
  BY <1>1 DEF IsDone, IsOk
<1>3. uwq' = q /\ snd' = [s \in Senders |-> IF s \in ss THEN End("wait", snd[s].msg) ELSE snd[s]]
  BY <1>1, <1>2 DEF WriteQueueIs
<1>4. WritersOf(out, now) = now
  <2>1. WritersOf(out, now) = [p \in Pipes |-> now[p]]
    BY <1>2 DEF WritersOf
  <2>2. QED
    BY <2>1
<1>5. accepted' = accepted /\ failed' = failed
  <2>1. {t \in Senders : IsOk(out, t)} = {}
    BY <1>2
  <2>2. {t \in Senders : IsDone(out, t) /\ ~IsOk(out, t)} = {}
    BY <1>2
  <2>3. QED
    BY <2>1, <2>2 DEF WriteQueueIs
<1>6. sent' = sent
  <2>1. sent' = [p \in Pipes |-> sent[p]]
    BY <1>2 DEF WriteQueueIs
  <2>2. QED
    BY <2>1 DEF WriteTypes
<1>7. QED
  BY <1>3, <1>4, <1>5, <1>6

\* An error for threads only fails their sends.
LEMMA SendersFail ==
    ASSUME WriteTypes, NEW q, NEW T, T \subseteq Senders, NEW out, out.q = q,
           \A a : (IsDone(out, a) <=> a \in T) /\ ~IsOk(out, a),
           WriteQueueIs(out, {}), push' = push \/ push' = WritersOf(out, push)
    PROVE  uwq' = q /\ FailSends(T)
<1>1. uwq' = q
  BY DEF WriteQueueIs
<1>2. snd' = [s \in Senders |-> IF s \in T THEN End("idle", None) ELSE snd[s]]
  BY DEF WriteQueueIs
<1>3. push' = push
  <2>1. \A p \in Pipes : p \notin T
    OBVIOUS
  <2>2. WritersOf(out, push) = [p \in Pipes |-> push[p]]
    BY <2>1 DEF WritersOf
  <2>3. QED
    BY <2>2 DEF WriteTypes
<1>4. accepted' = accepted
  <2>1. {t \in Senders : IsOk(out, t)} = {}
    OBVIOUS
  <2>2. QED
    BY <2>1 DEF WriteQueueIs
<1>5. failed' = failed \cup {snd[s].msg : s \in T}
  <2>1. {t \in Senders : IsDone(out, t) /\ ~IsOk(out, t)} = T
    OBVIOUS
  <2>2. QED
    BY <2>1 DEF WriteQueueIs
<1>6. sent' = sent
  <2>1. sent' = [p \in Pipes |-> sent[p]]
    BY DEF WriteQueueIs
  <2>2. QED
    BY <2>1 DEF WriteTypes
<1>7. QED
  BY <1>1, <1>2, <1>3, <1>4, <1>5, <1>6 DEF FailSends

\* An error for a pipe ends it.
LEMMA PipeEnds ==
    ASSUME WriteTypes, NEW q, NEW p \in Pipes, NEW out, out.q = q, out.done = {Done(p, "closed", None)},
           WriteQueueIs(out, {}),
           NEW now \in [Pipes -> [at : PushAt, msg : Msg \cup {None}]]
    PROVE  /\ uwq' = q
           /\ WritersOf(out, now) = [now EXCEPT ![p] = End("stopped", None)]
           /\ UNCHANGED <<snd, sent, accepted, failed>>
<1>1. out.q = q /\ out.done = {Done(p, "closed", None)}
  OBVIOUS
<1>2. \A a : (IsDone(out, a) <=> a = p) /\ ~IsOk(out, a)
  BY <1>1 DEF IsDone, IsOk, Done
<1>3. \A s \in Senders : ~IsDone(out, s)
  BY <1>2
<1>4. uwq' = q /\ snd' = snd
  <2>1. snd' = [s \in Senders |-> snd[s]]
    BY <1>3 DEF WriteQueueIs
  <2>2. QED
    BY <1>1, <2>1 DEF WriteQueueIs, WriteTypes
<1>5. WritersOf(out, now) = [now EXCEPT ![p] = End("stopped", None)]
  <2>1. WritersOf(out, now) = [r \in Pipes |-> IF r = p THEN End("stopped", None) ELSE now[r]]
    BY <1>2 DEF WritersOf
  <2>2. QED
    BY <2>1
<1>6. accepted' = accepted /\ failed' = failed
  <2>1. {t \in Senders : IsOk(out, t)} = {}
    BY <1>2
  <2>2. {t \in Senders : IsDone(out, t) /\ ~IsOk(out, t)} = {}
    BY <1>3
  <2>3. QED
    BY <2>1, <2>2 DEF WriteQueueIs
<1>7. sent' = sent
  <2>1. sent' = [r \in Pipes |-> sent[r]]
    BY <1>2 DEF WriteQueueIs
  <2>2. QED
    BY <2>1 DEF WriteTypes
<1>8. QED
  BY <1>4, <1>5, <1>6, <1>7

-----------------------------------------------------------------------------
(* Lists without doubles.                                                  *)

LEMMA InjectiveAppend ==
    ASSUME NEW S, NEW s \in Seq(S), NEW x \in S, IsInjective(s), x \notin ToSet(s)
    PROVE  IsInjective(Append(s, x))
<1>1. /\ Append(s, x) \in Seq(S) /\ Len(Append(s, x)) = Len(s) + 1
      /\ \A i \in 1 .. Len(s) + 1 : Append(s, x)[i] = IF i <= Len(s) THEN s[i] ELSE x
  BY AppendElements
<1>2. DOMAIN Append(s, x) = 1 .. Len(s) + 1 /\ DOMAIN s = 1 .. Len(s) /\ Len(s) \in Nat
  BY <1>1, LenProperties
<1>3. \A i \in 1 .. Len(s) : s[i] # x
  BY <1>2 DEF ToSet
<1>4. \A i, j \in 1 .. Len(s) : s[i] = s[j] => i = j
  BY <1>2 DEF IsInjective
<1>5. ASSUME NEW i \in 1 .. Len(s) + 1, NEW j \in 1 .. Len(s) + 1,
             Append(s, x)[i] = Append(s, x)[j]
      PROVE  i = j
  <2>1. CASE i <= Len(s) /\ j <= Len(s)
    BY <1>1, <1>2, <1>4, <1>5, <2>1
  <2>2. CASE ~(i <= Len(s)) \/ ~(j <= Len(s))
    BY <1>1, <1>2, <1>3, <1>5, <2>2
  <2>3. QED
    BY <2>1, <2>2
<1>6. QED
  BY <1>2, <1>5 DEF IsInjective

LEMMA InjectiveRemove ==
    ASSUME NEW S, NEW s \in Seq(S), NEW i \in 1 .. Len(s), IsInjective(s)
    PROVE  IsInjective(RemoveAt(s, i)) /\ ToSet(RemoveAt(s, i)) = ToSet(s) \ {s[i]}
<1> DEFINE t == RemoveAt(s, i)
<1>1. /\ t \in Seq(S) /\ Len(t) = Len(s) - 1
      /\ \A j \in 1 .. Len(s) - 1 : t[j] = IF j < i THEN s[j] ELSE s[j + 1]
  BY Removed
<1> HIDE DEF t
<1>2. DOMAIN t = 1 .. Len(s) - 1 /\ DOMAIN s = 1 .. Len(s) /\ Len(s) \in Nat
  BY <1>1, LenProperties
<1>3. \A a, b \in 1 .. Len(s) : s[a] = s[b] => a = b
  BY <1>2 DEF IsInjective
<1>4. \A a, b \in 1 .. Len(s) - 1 : t[a] = t[b] => a = b
  BY <1>1, <1>2, <1>3
<1>5. ToSet(t) = {t[j] : j \in 1 .. Len(s) - 1} /\ ToSet(s) = {s[j] : j \in 1 .. Len(s)}
  BY <1>2 DEF ToSet
<1>6. ASSUME NEW y \in ToSet(t) PROVE y \in ToSet(s) \ {s[i]}
  <2>1. PICK j \in 1 .. Len(s) - 1 : y = t[j]
    BY <1>5
  <2>2. CASE j < i
    BY <1>1, <1>2, <1>3, <1>5, <2>1, <2>2
  <2>3. CASE ~(j < i)
    <3>1. j + 1 \in 1 .. Len(s) /\ y = s[j + 1] /\ j + 1 # i
      BY <1>1, <1>2, <2>1, <2>3
    <3>2. QED
      BY <1>3, <1>5, <3>1
  <2>4. QED
    BY <2>2, <2>3
<1>7. ASSUME NEW y \in ToSet(s) \ {s[i]} PROVE y \in ToSet(t)
  <2>1. PICK j \in 1 .. Len(s) : y = s[j] /\ j # i
    BY <1>5
  <2>2. CASE j < i
    <3>1. j \in 1 .. Len(s) - 1 /\ t[j] = y
      BY <1>1, <1>2, <2>1, <2>2
    <3>2. QED
      BY <1>5, <3>1
  <2>3. CASE ~(j < i)
    <3>1. j - 1 \in 1 .. Len(s) - 1 /\ ~(j - 1 < i) /\ (j - 1) + 1 = j
      BY <1>2, <2>1, <2>3
    <3>2. t[j - 1] = y
      BY <1>1, <2>1, <3>1
    <3>3. QED
      BY <1>5, <3>1, <3>2
  <2>4. QED
    BY <2>2, <2>3
<1>8. IsInjective(t)
  BY <1>2, <1>4 DEF IsInjective
<1>9. QED
  BY <1>6, <1>7, <1>8 DEF t

LEMMA InjectiveDrop ==
    ASSUME NEW S, NEW s \in Seq(S), NEW k \in 0 .. Len(s), IsInjective(s)
    PROVE  IsInjective(Drop(s, k)) /\ ToSet(Drop(s, k)) = ToSet(s) \ First(s, k)
<1> DEFINE t == Drop(s, k)
<1>1. /\ t \in Seq(S) /\ Len(t) = Len(s) - k
      /\ \A j \in 1 .. Len(s) - k : t[j] = s[j + k]
  BY Dropped
<1> HIDE DEF t
<1>2. DOMAIN t = 1 .. Len(s) - k /\ DOMAIN s = 1 .. Len(s) /\ Len(s) \in Nat
  BY <1>1, LenProperties
<1>3. \A a, b \in 1 .. Len(s) : s[a] = s[b] => a = b
  BY <1>2 DEF IsInjective
<1>4. \A a, b \in 1 .. Len(s) - k : t[a] = t[b] => a = b
  BY <1>1, <1>2, <1>3
<1>5. /\ ToSet(t) = {t[j] : j \in 1 .. Len(s) - k} /\ ToSet(s) = {s[j] : j \in 1 .. Len(s)}
      /\ First(s, k) = {s[j] : j \in 1 .. k}
  BY <1>2 DEF ToSet, First
<1>6. ASSUME NEW y \in ToSet(t) PROVE y \in ToSet(s) \ First(s, k)
  <2>1. PICK j \in 1 .. Len(s) - k : y = t[j]
    BY <1>5
  <2>2. j + k \in 1 .. Len(s) /\ j + k \notin 1 .. k /\ y = s[j + k]
    BY <1>1, <1>2, <2>1
  <2>3. \A n \in 1 .. k : n \in 1 .. Len(s)
    BY <1>2
  <2>4. QED
    BY <1>3, <1>5, <2>2, <2>3
<1>7. ASSUME NEW y \in ToSet(s) \ First(s, k) PROVE y \in ToSet(t)
  <2>1. PICK j \in 1 .. Len(s) : y = s[j] /\ j \notin 1 .. k
    BY <1>5
  <2>2. j - k \in 1 .. Len(s) - k /\ (j - k) + k = j
    BY <1>2, <2>1
  <2>3. t[j - k] = y
    BY <1>1, <2>1, <2>2
  <2>4. QED
    BY <1>5, <2>2, <2>3
<1>8. IsInjective(t)
  BY <1>2, <1>4 DEF IsInjective
<1>9. QED
  BY <1>6, <1>7, <1>8 DEF t

LEMMA InjectiveTail ==
    ASSUME NEW S, NEW s \in Seq(S), s # <<>>, IsInjective(s)
    PROVE  IsInjective(Tail(s)) /\ ToSet(Tail(s)) = ToSet(s) \ {Head(s)}
<1>1. Len(s) \in Nat /\ Len(s) > 0 /\ Head(s) = s[1] /\ Tail(s) = Drop(s, 1)
  BY TailIsSubSeq DEF Drop
<1>2. First(s, 1) = {Head(s)}
  BY <1>1 DEF First
<1>3. QED
  <2>1. 1 \in 0 .. Len(s)
    BY <1>1
  <2>2. QED
    BY <1>1, <1>2, <2>1, InjectiveDrop

-----------------------------------------------------------------------------
(* What the actions come to on the write side.                             *)

\* The message that thread s sends goes to the first pipe that waits.
SendsAtOnce(s) ==
    /\ snd[s].at = "found" /\ uwq.getq # <<>>
    /\ uwq' = WithGetq(uwq, Tail(uwq.getq)) /\ HandOver(s, Head(uwq.getq))

SendWaits(s) ==
    /\ snd[s].at = "found" /\ uwq.getq = <<>>
    /\ uwq' = WithPutq(uwq, Row(uwq, s, snd[s].msg))
    /\ snd' = [snd EXCEPT ![s] = End("wait", snd[s].msg)]
    /\ UNCHANGED <<push, sent, accepted, failed>>

GivesUp(s, i) ==
    /\ snd[s].at = "wait" /\ uwq.putq[i].aio = s
    /\ uwq' = WithPutq(uwq, RemoveAt(uwq.putq, i)) /\ FailSends({s})

\* Pipe p takes the message of the first thread that waits.
Takes(p) ==
    /\ uwq.putq # <<>> /\ ~pushClosed[p]
    /\ uwq' = WithPutq(uwq, Tail(uwq.putq)) /\ HandOver(Head(uwq.putq).aio, p)

PipeWaits(p) ==
    /\ uwq.putq = <<>> /\ ~pushClosed[p]
    /\ uwq' = WithGetq(uwq, Line(uwq, p))
    /\ push' = [push EXCEPT ![p] = End("getq", None)]
    /\ UNCHANGED <<snd, sent, accepted, failed>>

PipeStops(p) ==
    /\ push' = [push EXCEPT ![p] = End("stopped", None)]
    /\ UNCHANGED <<snd, sent, accepted, failed>>

LEMMA SendPutEffect ==
    ASSUME WriteTypes, WriteInv, MsgInv, NEW s \in Senders, SendPut(s)
    PROVE  SendsAtOnce(s) \/ SendWaits(s)
<1> DEFINE m == snd[s].msg
<1>1. snd[s].at = "found" /\ m \in Msg
  BY DEF SendPut, MsgInv
<1>2. uwq \in Queue(Senders, Pipes) /\ ReaderMeansEmpty(uwq)
  BY DEF WriteTypes, WriteInv, WriteLists, Orderly
<1>3. PICK out \in AioPut(uwq, s, m, TRUE) :
         WriteQueueIs(out, {s}) /\ push' = WritersOf(out, push)
  BY DEF SendPut
<1>4. push \in [Pipes -> [at : PushAt, msg : Msg \cup {None}]]
  BY DEF WriteTypes
<1> HIDE DEF m
<1>5. CASE uwq.getq # <<>>
  <2> DEFINE p == Head(uwq.getq)
  <2>1. p \in Pipes
    <3>1. uwq.getq \in Seq(Pipes)
      BY <1>2 DEF Queue
    <3>2. QED
      BY <1>5, <3>1
  <2>2. out = Outcome(WithGetq(uwq, Tail(uwq.getq)), Passed(s, m, p))
    <3>1. uwq.getq # <<>> /\ ReaderMeansEmpty(uwq) /\ uwq \in Queue(Senders, Pipes) /\ m \in Msg
      BY <1>1, <1>2, <1>5
    <3>2. AioPut(uwq, s, m, TRUE) =
             {Outcome(WithGetq(uwq, Tail(uwq.getq)), Passed(s, m, Head(uwq.getq)))}
      BY <3>1, PutToReader
    <3>3. QED
      BY <1>3, <3>2
  <2>3. out.q = WithGetq(uwq, Tail(uwq.getq)) /\ out.done = Passed(s, m, p)
    BY <2>2, OutcomeParts
  <2> HIDE DEF p
  <2>4. uwq' = WithGetq(uwq, Tail(uwq.getq)) /\ HandOver(s, p)
    BY <1>3, <2>1, <2>3, HandsOver DEF m
  <2>5. QED
    BY <1>1, <1>5, <2>4 DEF SendsAtOnce, p
<1>6. CASE uwq.getq = <<>>
  <2>1. Len(uwq.items) <= uwq.cap /\ Len(uwq.items) >= uwq.cap
    BY DEF WriteTypes
  <2>2. out = Outcome(WithPutq(uwq, Row(uwq, s, m)), {})
    <3>1. AioPut(uwq, s, m, TRUE) = {Outcome(WithPutq(uwq, Row(uwq, s, m)), {})}
      BY <1>1, <1>2, <1>6, <2>1, PutWaits
    <3>2. QED
      BY <1>3, <3>1
  <2>3. out.q = WithPutq(uwq, Row(uwq, s, m)) /\ out.done = {}
    BY <2>2, OutcomeParts
  <2>4. /\ uwq' = WithPutq(uwq, Row(uwq, s, m))
        /\ snd' = [t \in Senders |-> IF t \in {s} THEN End("wait", snd[t].msg) ELSE snd[t]]
        /\ WritersOf(out, push) = push
        /\ UNCHANGED <<sent, accepted, failed>>
    BY <1>3, <1>4, <2>3, NothingDone
  <2>5. snd' = [snd EXCEPT ![s] = End("wait", snd[s].msg)]
    BY <2>4 DEF WriteTypes
  <2>6. QED
    BY <1>1, <1>3, <1>6, <2>4, <2>5 DEF SendWaits, m
<1>7. QED
  BY <1>5, <1>6

LEMMA Cancelled ==
    ASSUME NEW ws, NEW rs, NEW q \in Queue(ws, rs), NEW a, NEW rv, NEW out \in Cancel(q, a, rv)
    PROVE  \/ \E i \in 1 .. Len(q.putq) :
                 /\ q.putq[i].aio = a /\ out.q = WithPutq(q, RemoveAt(q.putq, i))
                 /\ out.done = {Done(a, rv, q.putq[i].msg)}
           \/ \E i \in 1 .. Len(q.getq) :
                 /\ q.getq[i] = a /\ out.q = WithGetq(q, RemoveAt(q.getq, i))
                 /\ out.done = {Done(a, rv, None)}
           \/ ~Waits(q, a) /\ out.q = q /\ out.done = {}
<1>1. DOMAIN q.putq = 1 .. Len(q.putq) /\ DOMAIN q.getq = 1 .. Len(q.getq)
  BY DEF Queue
<1>2. CASE \E i \in DOMAIN q.putq : /\ q.putq[i].aio = a
              /\ out = Outcome([q EXCEPT !.putq = RemoveAt(@, i)], {Done(a, rv, q.putq[i].msg)})
  BY <1>1, <1>2 DEF Outcome, WithPutq
<1>3. CASE \E i \in DOMAIN q.getq : /\ q.getq[i] = a
              /\ out = Outcome([q EXCEPT !.getq = RemoveAt(@, i)], {Done(a, rv, None)})
  BY <1>1, <1>3 DEF Outcome, WithGetq
<1>4. CASE out = Outcome(q, {}) /\ ~Waits(q, a)
  BY <1>4 DEF Outcome
<1>5. QED
  BY <1>2, <1>3, <1>4 DEF Cancel

\* What a queue is when it was closed.
Closed(q) == [q EXCEPT !.closed = TRUE, !.items = <<>>, !.putq = <<>>, !.getq = <<>>]

LEMMA SendTimeoutEffect ==
    ASSUME WriteTypes, WriteInv, MsgInv, NEW s \in Senders, SendTimeout(s)
    PROVE  \E i \in 1 .. Len(uwq.putq) : GivesUp(s, i)
<1>1. snd[s].at = "wait" /\ UNCHANGED push
  BY DEF SendTimeout
<1>2. uwq \in Queue(Senders, Pipes)
  BY DEF WriteTypes
<1>3. PICK out \in Cancel(uwq, s, "timedout") : WriteQueueIs(out, {})
  BY DEF SendTimeout
<1>4. Waits(uwq, s)
  <2> DEFINE w == [aio |-> s, msg |-> snd[s].msg]
  <2>1. w \in [aio : Senders, msg : Msg]
    BY <1>1 DEF MsgInv
  <2>2. w \in ToSet(uwq.putq)
    <3>1. snd[w.aio].at = "wait" /\ w.msg = snd[w.aio].msg
      BY <1>1
    <3>2. QED
      BY <2>1, <3>1 DEF WriteInv, WriteLists
  <2>3. PICK i \in DOMAIN uwq.putq : uwq.putq[i] = w
    BY <2>2 DEF ToSet
  <2>4. uwq.putq[i].aio = s
    BY <2>3
  <2>5. QED
    BY <2>4 DEF Waits
<1>5. ~(\E i \in 1 .. Len(uwq.getq) : uwq.getq[i] = s)
  BY <1>2 DEF Queue
<1>6. PICK i \in 1 .. Len(uwq.putq) :
          /\ uwq.putq[i].aio = s /\ out.q = WithPutq(uwq, RemoveAt(uwq.putq, i))
          /\ out.done = {Done(s, "timedout", uwq.putq[i].msg)}
  BY <1>2, <1>3, <1>4, <1>5, Cancelled
<1> DEFINE T == {s}
<1>7. T \subseteq Senders /\ \A a : (IsDone(out, a) <=> a \in T) /\ ~IsOk(out, a)
  BY <1>6 DEF IsDone, IsOk, Done
<1> HIDE DEF T
<1>8. uwq' = WithPutq(uwq, RemoveAt(uwq.putq, i)) /\ FailSends(T)
  BY <1>1, <1>3, <1>6, <1>7, SendersFail
<1>9. QED
  BY <1>1, <1>6, <1>8 DEF GivesUp, T

LEMMA GetNextEffect ==
    ASSUME WriteTypes, WriteInv, MsgInv, NEW p \in Pipes, GetNext(p, push), uwq.closed => pushClosed[p]
    PROVE  \/ pushClosed[p] /\ PipeStops(p) /\ uwq' = uwq
           \/ Takes(p)
           \/ PipeWaits(p)
<1> DEFINE now == [push EXCEPT ![p] = End("getq", None)]
<1>1. CASE pushClosed[p]
  BY <1>1 DEF GetNext, PipeStops
<1>2. CASE ~pushClosed[p]
  <2>0. PICK b \in BOOLEAN : b = TRUE
    OBVIOUS
  <2>1. PICK out \in AioGet(uwq, p, b) : WriteQueueIs(out, {}) /\ push' = WritersOf(out, now)
    <3>1. PICK out \in AioGet(uwq, p, TRUE) : WriteQueueIs(out, {}) /\ push' = WritersOf(out, now)
      BY <1>2 DEF GetNext
    <3>2. QED
      BY <2>0, <3>1, Zenon
  <2>2. uwq \in Queue(Senders, Pipes) /\ ReaderMeansEmpty(uwq) /\ ~uwq.closed /\ uwq.items = <<>>
    BY <1>2 DEF WriteTypes, WriteInv, WriteLists, Orderly
  <2>3. now \in [Pipes -> [at : PushAt, msg : Msg \cup {None}]] /\ \A r \in Pipes : r # p => now[r] = push[r]
    BY DEF WriteTypes, PushAt, End
  <2> HIDE DEF now
  <2>4. CASE uwq.putq # <<>>
    <3> DEFINE s == Head(uwq.putq).aio
               m == Head(uwq.putq).msg
               q == WithPutq(uwq, Tail(uwq.putq))
    <3>1. s \in Senders /\ m = snd[s].msg
      <4> DEFINE W == [aio : Senders, msg : Msg]
      <4>1. uwq.putq \in Seq(W)
        BY <2>2 DEF Queue
      <4> HIDE DEF W
      <4>2. Head(uwq.putq) \in W /\ ToSet(uwq.putq) = {Head(uwq.putq)} \cup ToSet(Tail(uwq.putq))
        BY <2>4, <4>1, TailElements
      <4>3. Head(uwq.putq) \in ToSet(uwq.putq) /\ Head(uwq.putq) \in [aio : Senders, msg : Msg]
        BY <4>2 DEF W
      <4>4. QED
        BY <4>3 DEF WriteInv, WriteLists
    <3>2. AioGet(uwq, p, b) = {Outcome(q, Passed(s, m, p))}
      BY <2>2, <2>4, GetFromWriter
    <3> HIDE DEF s, m, q
    <3>3. out.q = q /\ out.done = Passed(s, snd[s].msg, p)
      <4>1. out = Outcome(q, Passed(s, m, p))
        BY <2>1, <3>2
      <4>2. QED
        BY <3>1, <4>1, OutcomeParts
    <3>4. uwq' = q /\ HandOver(s, p)
      BY <2>1, <2>3, <3>1, <3>3, HandsOver
    <3>5. QED
      BY <1>2, <2>4, <3>4 DEF Takes, s, q
  <2>5. CASE uwq.putq = <<>>
    <3> DEFINE q == WithGetq(uwq, Line(uwq, p))
    <3>1. AioGet(uwq, p, b) = {Outcome(q, {})}
      <4>1. MayWait(b)
        BY <2>0 DEF MayWait
      <4>2. QED
        BY <2>2, <2>5, <4>1, GetWaits
    <3> HIDE DEF q
    <3>2. out.q = q /\ out.done = {}
      BY <2>1, <3>1, OutcomeParts
    <3>3. /\ uwq' = q
          /\ snd' = [s \in Senders |-> IF s \in {} THEN End("wait", snd[s].msg) ELSE snd[s]]
          /\ WritersOf(out, now) = now
          /\ UNCHANGED <<sent, accepted, failed>>
      BY <2>1, <2>3, <3>2, NothingDone
    <3>4. snd' = snd
      <4>1. snd' = [s \in Senders |-> snd[s]]
        BY <3>3
      <4>2. QED
        BY <4>1 DEF WriteTypes
    <3>5. QED
      BY <1>2, <2>1, <2>5, <3>3, <3>4 DEF PipeWaits, q, now
  <2>6. QED
    BY <2>4, <2>5
<1>3. QED
  BY <1>1, <1>2

\* The pipe that waits for a message is taken from its list.
Leaves(p, i) ==
    /\ push[p].at = "getq" /\ uwq.getq[i] = p
    /\ uwq' = WithGetq(uwq, RemoveAt(uwq.getq, i)) /\ PipeStops(p)

LEMMA ClosePushEffect ==
    ASSUME WriteTypes, WriteInv, NEW p \in Pipes, ClosePush(p)
    PROVE  /\ pushClosed' = [pushClosed EXCEPT ![p] = TRUE]
           /\ \/ \E i \in 1 .. Len(uwq.getq) : Leaves(p, i)
              \/ push[p].at # "getq" /\ UNCHANGED writeSide
<1>1. PICK out \in Cancel(uwq, p, "closed") :
         /\ WriteQueueIs(out, {})
         /\ push' = WritersOf(out, push) /\ pushClosed' = [pushClosed EXCEPT ![p] = TRUE]
  BY DEF ClosePush
<1>2. uwq \in Queue(Senders, Pipes) /\ push \in [Pipes -> [at : PushAt, msg : Msg \cup {None}]]
  BY DEF WriteTypes
<1>3. ~(\E i \in 1 .. Len(uwq.putq) : uwq.putq[i].aio = p)
  <2> DEFINE W == [aio : Senders, msg : Msg]
  <2>1. uwq.putq \in Seq(W)
    BY <1>2 DEF Queue
  <2>2. \A w \in W : w.aio # p
    OBVIOUS
  <2> HIDE DEF W
  <2>3. QED
    BY <2>1, <2>2
<1>4. CASE \E i \in 1 .. Len(uwq.getq) : /\ uwq.getq[i] = p
              /\ out.q = WithGetq(uwq, RemoveAt(uwq.getq, i)) /\ out.done = {Done(p, "closed", None)}
  <2>1. PICK i \in 1 .. Len(uwq.getq) : /\ uwq.getq[i] = p
              /\ out.q = WithGetq(uwq, RemoveAt(uwq.getq, i)) /\ out.done = {Done(p, "closed", None)}
    BY <1>4
  <2>2. /\ uwq' = WithGetq(uwq, RemoveAt(uwq.getq, i))
        /\ WritersOf(out, push) = [push EXCEPT ![p] = End("stopped", None)]
        /\ UNCHANGED <<snd, sent, accepted, failed>>
    BY <1>1, <1>2, <2>1, PipeEnds
  <2>3. push[p].at = "getq"
    <3>1. uwq.getq \in Seq(Pipes)
      BY <1>2 DEF Queue
    <3>2. p \in ToSet(uwq.getq)
      BY <2>1, <3>1, Elements
    <3>3. QED
      BY <3>2 DEF WriteInv, WriteLists
  <2>4. QED
    BY <1>1, <2>1, <2>2, <2>3 DEF Leaves, PipeStops
<1>5. CASE ~Waits(uwq, p) /\ out.q = uwq /\ out.done = {}
  <2>1. /\ uwq' = uwq
        /\ snd' = [s \in Senders |-> IF s \in {} THEN End("wait", snd[s].msg) ELSE snd[s]]
        /\ WritersOf(out, push) = push
        /\ UNCHANGED <<sent, accepted, failed>>
    BY <1>1, <1>2, <1>5, NothingDone
  <2>2. snd' = snd
    <3>1. snd' = [s \in Senders |-> snd[s]]
      BY <2>1
    <3>2. QED
      BY <3>1 DEF WriteTypes
  <2>3. push[p].at # "getq"
    <3>1. p \notin ToSet(uwq.getq)
      BY <1>5 DEF Waits, ToSet
    <3>2. QED
      BY <3>1 DEF WriteInv, WriteLists
  <2>4. QED
    BY <1>1, <2>1, <2>2, <2>3 DEF writeSide
<1>6. QED
  BY <1>2, <1>3, <1>4, <1>5, Cancelled

Waiting == {s \in Senders : snd[s].at = "wait"}

LEMMA CloseWriteQueueEffect ==
    ASSUME WriteTypes, WriteInv, MsgInv, CloseWriteQueue
    PROVE  /\ uwq' = Closed(uwq) /\ FailSends(Waiting)
           /\ \A p \in Pipes : push[p].at # "none" => pushClosed[p]
<1>1. \A p \in Pipes : push[p].at # "none" => pushClosed[p]
  BY DEF CloseWriteQueue, ClosedPipes
<1>2. PICK out \in Close(uwq) : WriteQueueIs(out, {}) /\ push' = WritersOf(out, push)
  BY DEF CloseWriteQueue
<1>3. /\ out.q = Closed(uwq)
      /\ out.done = {Done(w.aio, "closed", w.msg) : w \in ToSet(uwq.putq)}
                       \cup {Done(r, "closed", None) : r \in ToSet(uwq.getq)}
  BY <1>2 DEF Close, Outcome, Closed
<1>4. uwq.putq \in Seq([aio : Senders, msg : Msg]) /\ uwq.getq \in Seq(Pipes)
  BY DEF WriteTypes, Queue
<1>5. ToSet(uwq.getq) = {}
  <2>1. ToSet(uwq.getq) \subseteq Pipes
    BY <1>4, Elements
  <2>2. QED
    BY <1>1, <2>1 DEF WriteInv, WriteLists, WriteEnds
<1>6. \A d \in out.done : d.rv = "closed" /\ d.aio \in Waiting
  <2>1. ToSet(uwq.putq) \subseteq [aio : Senders, msg : Msg]
    BY <1>4, Elements
  <2>2. \A w \in ToSet(uwq.putq) : w.aio \in Waiting
    BY <2>1 DEF WriteInv, WriteLists, Waiting
  <2>3. QED
    BY <1>3, <1>5, <2>2 DEF Done
<1>7. \A s \in Waiting : \E d \in out.done : d.aio = s
  <2> TAKE s \in Waiting
  <2> DEFINE w == [aio |-> s, msg |-> snd[s].msg]
  <2>1. s \in Senders /\ w \in [aio : Senders, msg : Msg]
    BY DEF MsgInv, Waiting
  <2>2. w.aio = s /\ snd[w.aio].at = "wait" /\ w.msg = snd[w.aio].msg
    BY DEF Waiting
  <2> HIDE DEF w
  <2>3. w \in ToSet(uwq.putq)
    BY <2>1, <2>2 DEF WriteInv, WriteLists
  <2>4. Done(w.aio, "closed", w.msg) \in out.done
    BY <1>3, <2>3
  <2>5. Done(w.aio, "closed", w.msg).aio = s
    BY <2>2 DEF Done
  <2>6. QED
    BY <2>4, <2>5
<1>8. \A a : (IsDone(out, a) <=> a \in Waiting) /\ ~IsOk(out, a)
  BY <1>6, <1>7 DEF IsDone, IsOk
<1>9. Waiting \subseteq Senders
  BY DEF Waiting
<1>10. uwq' = Closed(uwq) /\ FailSends(Waiting)
  BY <1>2, <1>3, <1>8, <1>9, SendersFail
<1>11. QED
  BY <1>1, <1>10

-----------------------------------------------------------------------------
(* The lists of the write queue and what the threads and pipes are.        *)

LEMMA OtherGetq ==
    ASSUME NEW ws, NEW rs, NEW q \in Queue(ws, rs), NEW s \in Seq(rs)
    PROVE  /\ WithGetq(q, s) \in Queue(ws, rs) /\ WithGetq(q, s).getq = s
           /\ WithGetq(q, s).putq = q.putq /\ WithGetq(q, s).items = q.items
           /\ WithGetq(q, s).cap = q.cap /\ WithGetq(q, s).closed = q.closed
BY DEF WithGetq, Queue

LEMMA OtherPutq ==
    ASSUME NEW ws, NEW rs, NEW q \in Queue(ws, rs), NEW s \in Seq([aio : ws, msg : Msg])
    PROVE  /\ WithPutq(q, s) \in Queue(ws, rs) /\ WithPutq(q, s).putq = s
           /\ WithPutq(q, s).getq = q.getq /\ WithPutq(q, s).items = q.items
           /\ WithPutq(q, s).cap = q.cap /\ WithPutq(q, s).closed = q.closed
BY DEF WithPutq, Queue

LEMMA OtherItems ==
    ASSUME NEW ws, NEW rs, NEW q \in Queue(ws, rs), NEW s \in Seq(Msg)
    PROVE  /\ WithItems(q, s) \in Queue(ws, rs) /\ WithItems(q, s).items = s
           /\ WithItems(q, s).getq = q.getq /\ WithItems(q, s).putq = q.putq
           /\ WithItems(q, s).cap = q.cap /\ WithItems(q, s).closed = q.closed
BY DEF WithItems, Queue

LEMMA ClosedQueue ==
    ASSUME NEW ws, NEW rs, NEW q \in Queue(ws, rs)
    PROVE  /\ Closed(q) \in Queue(ws, rs) /\ Closed(q).closed /\ Closed(q).cap = q.cap
           /\ Closed(q).putq = <<>> /\ Closed(q).getq = <<>> /\ Closed(q).items = <<>>
<1>1. /\ Closed(q).closed = TRUE /\ Closed(q).cap = q.cap /\ Closed(q).putq = <<>>
      /\ Closed(q).getq = <<>> /\ Closed(q).items = <<>>
  BY DEF Closed, Queue
<1>2. <<>> \in Seq(Msg) /\ <<>> \in Seq([aio : ws, msg : Msg]) /\ <<>> \in Seq(rs)
  OBVIOUS
<1>3. Closed(q) \in Queue(ws, rs)
  BY <1>2 DEF Closed, Queue
<1>4. QED
  BY <1>1, <1>3

LEMMA EmptyList ==
    ToSet(<<>>) = {} /\ IsInjective(<<>>)
BY DEF ToSet, IsInjective

LEMMA HandOverTypes ==
    ASSUME WriteTypes, NEW s \in Senders, NEW p \in Pipes, snd[s].msg \in Msg, HandOver(s, p)
    PROVE  /\ snd' \in [Senders -> [at : {"idle", "found", "wait"}, msg : Msg \cup {None}]]
           /\ push' \in [Pipes -> [at : PushAt, msg : Msg \cup {None}]]
           /\ sent' \in [Pipes -> Seq(Msg)]
           /\ accepted' \subseteq Msg /\ failed' \subseteq Msg
<1>1. snd' \in [Senders -> [at : {"idle", "found", "wait"}, msg : Msg \cup {None}]]
  BY DEF WriteTypes, HandOver, End
<1>2. push' \in [Pipes -> [at : PushAt, msg : Msg \cup {None}]]
  BY DEF WriteTypes, HandOver, End, PushAt
<1>3. sent' \in [Pipes -> Seq(Msg)]
  <2>1. \A t \in Seq(Msg) : Append(t, snd[s].msg) \in Seq(Msg)
    OBVIOUS
  <2>2. QED
    BY <2>1 DEF WriteTypes, HandOver
<1>4. accepted' \subseteq Msg /\ failed' \subseteq Msg
  BY DEF WriteTypes, HandOver
<1>5. QED
  BY <1>1, <1>2, <1>3, <1>4

LEMMA FailSendsTypes ==
    ASSUME WriteTypes, NEW T, T \subseteq Senders, \A s \in T : snd[s].msg \in Msg, FailSends(T)
    PROVE  /\ snd' \in [Senders -> [at : {"idle", "found", "wait"}, msg : Msg \cup {None}]]
           /\ push' \in [Pipes -> [at : PushAt, msg : Msg \cup {None}]]
           /\ sent' \in [Pipes -> Seq(Msg)]
           /\ accepted' \subseteq Msg /\ failed' \subseteq Msg
BY DEF WriteTypes, FailSends, End

LEMMA ListsSendAtOnce ==
    ASSUME WriteTypes, WriteInv, MsgInv, NEW s \in Senders, SendsAtOnce(s), UNCHANGED pushClosed
    PROVE  WriteTypes' /\ WriteLists' /\ uwq'.closed = uwq.closed /\ Head(uwq.getq) \in Pipes
           /\ push[Head(uwq.getq)].at = "getq"
<1> DEFINE p == Head(uwq.getq)
           t == Tail(uwq.getq)
<1>1. uwq \in Queue(Senders, Pipes) /\ uwq.getq \in Seq(Pipes)
  BY DEF WriteTypes, Queue
<1>2. /\ uwq.getq # <<>> /\ uwq.putq = <<>> /\ IsInjective(uwq.getq) /\ snd[s].at = "found"
      /\ uwq.items = <<>> /\ uwq.cap = 0
  BY DEF SendsAtOnce, WriteInv, WriteLists, Orderly, ReaderMeansEmpty, WriteTypes
<1>3. p \in Pipes /\ t \in Seq(Pipes) /\ ToSet(uwq.getq) = {p} \cup ToSet(t)
  BY <1>1, <1>2, TailElements
<1>4. IsInjective(t) /\ ToSet(t) = ToSet(uwq.getq) \ {p}
  BY <1>1, <1>2, InjectiveTail
<1>5. push[p].at = "getq"
  BY <1>3 DEF WriteInv, WriteLists
<1>6. uwq' = WithGetq(uwq, t) /\ HandOver(s, p)
  BY DEF SendsAtOnce
<1> HIDE DEF p, t
<1>7. /\ uwq' \in Queue(Senders, Pipes) /\ uwq'.getq = t /\ uwq'.putq = <<>> /\ uwq'.items = <<>>
      /\ uwq'.cap = 0 /\ uwq'.closed = uwq.closed
  BY <1>1, <1>2, <1>3, <1>6, OtherGetq
<1>8. snd[s].msg \in Msg
  BY <1>2 DEF MsgInv
<1>9. WriteTypes'
  BY <1>3, <1>6, <1>7, <1>8, HandOverTypes DEF WriteTypes
<1>10. Orderly(uwq')
  BY <1>4, <1>7, EmptyList DEF Orderly, ReaderMeansEmpty
<1>11. \A w \in [aio : Senders, msg : Msg] :
          w \in ToSet(uwq'.putq) <=> snd'[w.aio].at = "wait" /\ w.msg = snd'[w.aio].msg
  <2>1. \A w \in [aio : Senders, msg : Msg] :
          ~(snd[w.aio].at = "wait" /\ w.msg = snd[w.aio].msg)
    BY <1>2, EmptyList DEF WriteInv, WriteLists
  <2>2. \A a \in Senders : snd'[a] = IF a = s THEN End("idle", None) ELSE snd[a]
    BY <1>6 DEF HandOver, WriteTypes
  <2>3. \A w \in [aio : Senders, msg : Msg] :
          ~(snd'[w.aio].at = "wait" /\ w.msg = snd'[w.aio].msg)
    BY <2>1, <2>2 DEF End
  <2>4. QED
    BY <1>7, <2>3, EmptyList
<1>12. \A r \in Pipes : r \in ToSet(uwq'.getq) <=> push'[r].at = "getq"
  <2>1. \A r \in Pipes : push'[r] = IF r = p THEN End("got", snd[s].msg) ELSE push[r]
    BY <1>6 DEF HandOver, WriteTypes
  <2>2. \A r \in Pipes : r \in ToSet(uwq.getq) <=> push[r].at = "getq"
    BY DEF WriteInv, WriteLists
  <2>3. ToSet(uwq'.getq) = ToSet(uwq.getq) \ {p}
    BY <1>4, <1>7
  <2>4. push'[p].at = "got" /\ \A r \in Pipes : r # p => push'[r] = push[r]
    BY <1>3, <2>1 DEF End
  <2>5. QED
    BY <2>2, <2>3, <2>4
<1>13. QED
  BY <1>3, <1>5, <1>7, <1>9, <1>10, <1>11, <1>12 DEF WriteLists, p

LEMMA ListsSendWaits ==
    ASSUME WriteTypes, WriteInv, MsgInv, NEW s \in Senders, SendWaits(s), UNCHANGED pushClosed
    PROVE  WriteTypes' /\ WriteLists' /\ uwq'.closed = uwq.closed
<1> DEFINE W == [aio : Senders, msg : Msg]
           x == Writer(s, snd[s].msg)
           t == Row(uwq, s, snd[s].msg)
<1>1. uwq \in Queue(Senders, Pipes) /\ uwq.putq \in Seq(W)
  BY DEF WriteTypes, Queue
<1>2. /\ uwq.getq = <<>> /\ IsInjective(uwq.putq) /\ snd[s].at = "found" /\ snd[s].msg \in Msg
      /\ uwq.items = <<>> /\ uwq.cap = 0 /\ IsInjective(uwq.getq)
  BY DEF SendWaits, WriteInv, WriteLists, Orderly, MsgInv, WriteTypes
<1>3. x \in W /\ x.aio = s /\ x.msg = snd[s].msg
  BY <1>2 DEF Writer
<1>4. x \notin ToSet(uwq.putq)
  BY <1>2, <1>3 DEF WriteInv, WriteLists
<1>5. t = Append(uwq.putq, x)
  BY DEF Row
<1>6. /\ uwq' = WithPutq(uwq, t) /\ snd' = [snd EXCEPT ![s] = End("wait", snd[s].msg)]
      /\ UNCHANGED <<push, sent, accepted, failed>>
  BY DEF SendWaits
<1>7. \A w \in W : w.aio = s /\ w.msg = snd[s].msg => w = x
  BY DEF Writer
<1>8. \A a \in Senders : snd'[a] = IF a = s THEN End("wait", snd[s].msg) ELSE snd[a]
  BY <1>6 DEF WriteTypes
<1>9. \A w \in W : w.aio \in Senders
  OBVIOUS
<1>10. \A w \in W : w \in ToSet(uwq.putq) <=> snd[w.aio].at = "wait" /\ w.msg = snd[w.aio].msg
  BY DEF WriteInv, WriteLists
<1> HIDE DEF W, x, t
<1>11. t \in Seq(W) /\ IsInjective(t) /\ ToSet(t) = ToSet(uwq.putq) \cup {x}
  BY <1>1, <1>2, <1>3, <1>4, <1>5, AppendElements, InjectiveAppend
<1>12. /\ uwq' \in Queue(Senders, Pipes) /\ uwq'.getq = <<>> /\ uwq'.putq = t /\ uwq'.items = <<>>
      /\ uwq'.cap = 0 /\ uwq'.closed = uwq.closed
  <2>1. t \in Seq([aio : Senders, msg : Msg])
    BY <1>11 DEF W
  <2>2. QED
    BY <1>1, <1>2, <1>6, <2>1, OtherPutq
<1>13. WriteTypes'
  <2>1. snd' \in [Senders -> [at : {"idle", "found", "wait"}, msg : Msg \cup {None}]]
    BY <1>2, <1>6 DEF WriteTypes, End
  <2>2. QED
    BY <1>6, <1>12, <2>1 DEF WriteTypes
<1>14. Orderly(uwq')
  BY <1>2, <1>11, <1>12 DEF Orderly, ReaderMeansEmpty
<1>15. \A w \in W : w \in ToSet(uwq'.putq) <=> snd'[w.aio].at = "wait" /\ w.msg = snd'[w.aio].msg
  <2> TAKE w \in W
  <2>1. CASE w.aio = s
    BY <1>3, <1>4, <1>7, <1>8, <1>9, <1>10, <1>11, <1>12, <1>2, <2>1 DEF End
  <2>2. CASE w.aio # s
    BY <1>3, <1>8, <1>9, <1>10, <1>11, <1>12, <2>2
  <2>3. QED
    BY <2>1, <2>2
<1>16. \A r \in Pipes : r \in ToSet(uwq'.getq) <=> push'[r].at = "getq"
  BY <1>2, <1>6, <1>12 DEF WriteInv, WriteLists
<1>17. QED
  BY <1>12, <1>13, <1>14, <1>15, <1>16 DEF WriteLists, W

\* What the first or the i-th writer is: a thread with its message.
LEMMA WriterIs ==
    ASSUME WriteTypes, WriteInv, NEW i \in 1 .. Len(uwq.putq)
    PROVE  /\ uwq.putq[i] \in [aio : Senders, msg : Msg] /\ uwq.putq[i] \in ToSet(uwq.putq)
           /\ uwq.putq[i].aio \in Senders /\ snd[uwq.putq[i].aio].at = "wait"
           /\ uwq.putq[i].msg = snd[uwq.putq[i].aio].msg
<1> DEFINE W == [aio : Senders, msg : Msg]
<1>1. uwq.putq \in Seq(W)
  BY DEF WriteTypes, Queue
<1>2. \A w \in W : w.aio \in Senders
  OBVIOUS
<1>3. \A w \in W : w \in ToSet(uwq.putq) <=> snd[w.aio].at = "wait" /\ w.msg = snd[w.aio].msg
  BY DEF WriteInv, WriteLists
<1> HIDE DEF W
<1>4. uwq.putq[i] \in W /\ uwq.putq[i] \in ToSet(uwq.putq)
  BY <1>1, Elements
<1>5. QED
  BY <1>2, <1>3, <1>4 DEF W

\* A thread leaves the list and is idle.
LEMMA ListsWriterLeaves ==
    ASSUME WriteTypes, WriteInv, NEW x \in [aio : Senders, msg : Msg], x \in ToSet(uwq.putq),
           uwq' \in Queue(Senders, Pipes), uwq'.getq = uwq.getq, uwq'.items = uwq.items,
           uwq'.cap = uwq.cap, uwq'.closed = uwq.closed, uwq.putq # <<>>,
           IsInjective(uwq'.putq), ToSet(uwq'.putq) = ToSet(uwq.putq) \ {x}, UNCHANGED pushClosed,
           snd' \in [Senders -> [at : {"idle", "found", "wait"}, msg : Msg \cup {None}]],
           push' \in [Pipes -> [at : PushAt, msg : Msg \cup {None}]],
           sent' \in [Pipes -> Seq(Msg)], accepted' \subseteq Msg, failed' \subseteq Msg,
           snd'[x.aio].at = "idle", \A a \in Senders : a # x.aio => snd'[a] = snd[a],
           \A r \in Pipes : push'[r].at = push[r].at \/ push'[r].at = "got"
    PROVE  WriteTypes' /\ WriteLists' /\ uwq'.closed = uwq.closed
<1>1. uwq \in Queue(Senders, Pipes) /\ uwq.getq = <<>> /\ uwq.cap = 0 /\ uwq.items = <<>>
  BY DEF WriteTypes, WriteInv, WriteLists, Orderly, ReaderMeansEmpty
<1>2. /\ uwq' \in Queue(Senders, Pipes) /\ uwq'.getq = <<>> /\ uwq'.items = <<>>
      /\ uwq'.cap = 0 /\ uwq'.closed = uwq.closed
  BY <1>1
<1>3. WriteTypes'
  BY <1>2 DEF WriteTypes
<1>4. Orderly(uwq')
  BY <1>2, EmptyList DEF Orderly, ReaderMeansEmpty
<1>5. ASSUME NEW w \in [aio : Senders, msg : Msg]
      PROVE  w \in ToSet(uwq'.putq) <=> snd'[w.aio].at = "wait" /\ w.msg = snd'[w.aio].msg
  <2>1. w \in ToSet(uwq.putq) <=> snd[w.aio].at = "wait" /\ w.msg = snd[w.aio].msg
    BY DEF WriteInv, WriteLists
  <2>2. w.aio \in Senders /\ (w \in ToSet(uwq'.putq) <=> w \in ToSet(uwq.putq) /\ w # x)
    BY <1>2
  <2>3. CASE w.aio # x.aio
    BY <2>1, <2>2, <2>3
  <2>4. CASE w.aio = x.aio
    <3>1. x.msg = snd[x.aio].msg
      BY DEF WriteInv, WriteLists
    <3>2. w.msg = snd[w.aio].msg => w = x
      BY <2>4, <3>1
    <3>3. QED
      BY <2>1, <2>2, <2>4, <3>2
  <2>5. QED
    BY <2>3, <2>4
<1>6. \A r \in Pipes : r \in ToSet(uwq'.getq) <=> push'[r].at = "getq"
  BY <1>1, <1>2, EmptyList DEF WriteInv, WriteLists
<1>7. QED
  BY <1>2, <1>3, <1>4, <1>5, <1>6 DEF WriteLists

LEMMA ListsGiveUp ==
    ASSUME WriteTypes, WriteInv, MsgInv, NEW s \in Senders, NEW i \in 1 .. Len(uwq.putq),
           GivesUp(s, i), UNCHANGED pushClosed
    PROVE  WriteTypes' /\ WriteLists' /\ uwq'.closed = uwq.closed
<1> DEFINE W == [aio : Senders, msg : Msg]
           x == uwq.putq[i]
           t == RemoveAt(uwq.putq, i)
<1>1. x \in W /\ x \in ToSet(uwq.putq) /\ x.aio = s
  BY WriterIs DEF GivesUp
<1>2. uwq.putq \in Seq(W) /\ IsInjective(uwq.putq)
  BY DEF WriteTypes, Queue, WriteInv, WriteLists, Orderly
<1> HIDE DEF W
<1>3. t \in Seq(W) /\ IsInjective(t) /\ ToSet(t) = ToSet(uwq.putq) \ {x}
  BY <1>2, Removed, InjectiveRemove
<1>4. uwq.putq # <<>>
  BY <1>1, EmptyList
<1>5. uwq' = WithPutq(uwq, t) /\ FailSends({s})
  BY DEF GivesUp
<1> HIDE DEF t, x
<1>6. /\ snd' \in [Senders -> [at : {"idle", "found", "wait"}, msg : Msg \cup {None}]]
      /\ push' \in [Pipes -> [at : PushAt, msg : Msg \cup {None}]]
      /\ sent' \in [Pipes -> Seq(Msg)]
      /\ accepted' \subseteq Msg /\ failed' \subseteq Msg
  <2> DEFINE T == {s}
  <2>1. T \subseteq Senders /\ \A a \in T : snd[a].msg \in Msg
    BY DEF GivesUp, MsgInv
  <2>2. FailSends(T)
    BY <1>5
  <2> HIDE DEF T
  <2>3. QED
    BY <2>1, <2>2, FailSendsTypes
<1>7. /\ snd'[s].at = "idle" /\ \A a \in Senders : a # s => snd'[a] = snd[a]
      /\ push' = push
  BY <1>5 DEF FailSends, End
<1>8. /\ uwq' \in Queue(Senders, Pipes) /\ uwq'.putq = t /\ uwq'.getq = uwq.getq
      /\ uwq'.items = uwq.items /\ uwq'.cap = uwq.cap /\ uwq'.closed = uwq.closed
  <2>1. t \in Seq([aio : Senders, msg : Msg]) /\ uwq \in Queue(Senders, Pipes)
    BY <1>3 DEF W, WriteTypes
  <2>2. uwq' = WithPutq(uwq, t)
    BY <1>5
  <2>3. QED
    BY <2>1, <2>2, OtherPutq
<1>9. QED
  BY <1>1, <1>3, <1>4, <1>6, <1>7, <1>8, ListsWriterLeaves DEF W

LEMMA ListsTakes ==
    ASSUME WriteTypes, WriteInv, MsgInv, NEW p \in Pipes, Takes(p), UNCHANGED pushClosed
    PROVE  /\ WriteTypes' /\ WriteLists' /\ uwq'.closed = uwq.closed
           /\ Head(uwq.putq).aio \in Senders /\ snd[Head(uwq.putq).aio].at = "wait"
<1> DEFINE W == [aio : Senders, msg : Msg]
           x == uwq.putq[1]
           t == Tail(uwq.putq)
           s == x.aio
<1>1. uwq.putq \in Seq(W) /\ IsInjective(uwq.putq) /\ uwq.putq # <<>>
  BY DEF WriteTypes, Queue, WriteInv, WriteLists, Orderly, Takes
<1>2. t \in Seq(W) /\ Head(uwq.putq) = x /\ 1 \in 1 .. Len(uwq.putq)
  <2> HIDE DEF W
  <2>1. QED
    BY <1>1, TailElements
<1>3. x \in W /\ x \in ToSet(uwq.putq) /\ s \in Senders /\ snd[s].at = "wait"
  BY <1>2, WriterIs
<1>4. IsInjective(t) /\ ToSet(t) = ToSet(uwq.putq) \ {x}
  <2> HIDE DEF W
  <2>1. QED
    BY <1>1, <1>2, InjectiveTail
<1>5. uwq' = WithPutq(uwq, t) /\ HandOver(s, p)
  BY <1>2 DEF Takes
<1> HIDE DEF W, x, t
<1>6. /\ snd' \in [Senders -> [at : {"idle", "found", "wait"}, msg : Msg \cup {None}]]
      /\ push' \in [Pipes -> [at : PushAt, msg : Msg \cup {None}]]
      /\ sent' \in [Pipes -> Seq(Msg)]
      /\ accepted' \subseteq Msg /\ failed' \subseteq Msg
  <2>1. snd[s].msg \in Msg
    BY <1>3 DEF MsgInv
  <2> HIDE DEF s
  <2>2. QED
    BY <1>3, <1>5, <2>1, HandOverTypes
<1>7. snd'[s].at = "idle" /\ \A a \in Senders : a # s => snd'[a] = snd[a]
  BY <1>3, <1>5 DEF HandOver, End, WriteTypes
<1>8. \A r \in Pipes : push'[r].at = push[r].at \/ push'[r].at = "got"
  BY <1>5 DEF HandOver, End, WriteTypes
<1>9. /\ uwq' \in Queue(Senders, Pipes) /\ uwq'.putq = t /\ uwq'.getq = uwq.getq
      /\ uwq'.items = uwq.items /\ uwq'.cap = uwq.cap /\ uwq'.closed = uwq.closed
  <2>1. t \in Seq([aio : Senders, msg : Msg]) /\ uwq \in Queue(Senders, Pipes)
    BY <1>2 DEF W, WriteTypes
  <2>2. QED
    BY <1>5, <2>1, OtherPutq
<1>10. WriteTypes' /\ WriteLists' /\ uwq'.closed = uwq.closed
  BY <1>1, <1>3, <1>4, <1>6, <1>7, <1>8, <1>9, ListsWriterLeaves DEF W, s
<1>11. QED
  BY <1>2, <1>3, <1>10 DEF s

LEMMA ListsPipeWaits ==
    ASSUME WriteTypes, WriteInv, NEW p \in Pipes, PipeWaits(p), push[p].at # "getq",
           ~uwq.closed, UNCHANGED pushClosed
    PROVE  WriteTypes' /\ WriteLists' /\ uwq'.closed = uwq.closed
<1> DEFINE t == Line(uwq, p)
<1>1. /\ uwq \in Queue(Senders, Pipes) /\ uwq.getq \in Seq(Pipes) /\ IsInjective(uwq.getq)
      /\ uwq.putq = <<>> /\ uwq.cap = 0 /\ uwq.items = <<>>
  BY DEF WriteTypes, Queue, WriteInv, WriteLists, Orderly, PipeWaits
<1>2. p \notin ToSet(uwq.getq)
  BY DEF WriteInv, WriteLists
<1>3. t \in Seq(Pipes) /\ IsInjective(t) /\ ToSet(t) = ToSet(uwq.getq) \cup {p}
  BY <1>1, <1>2, AppendElements, InjectiveAppend DEF Line
<1>4. /\ uwq' = WithGetq(uwq, t) /\ push' = [push EXCEPT ![p] = End("getq", None)]
      /\ UNCHANGED <<snd, sent, accepted, failed>>
  BY DEF PipeWaits
<1> HIDE DEF t
<1>5. /\ uwq' \in Queue(Senders, Pipes) /\ uwq'.getq = t /\ uwq'.putq = <<>> /\ uwq'.items = <<>>
      /\ uwq'.cap = 0 /\ uwq'.closed = uwq.closed
  BY <1>1, <1>3, <1>4, OtherGetq
<1>6. WriteTypes'
  <2>1. push' \in [Pipes -> [at : PushAt, msg : Msg \cup {None}]]
    BY <1>4 DEF WriteTypes, PushAt, End
  <2>2. QED
    BY <1>4, <1>5, <2>1 DEF WriteTypes
<1>7. Orderly(uwq')
  BY <1>3, <1>5, EmptyList DEF Orderly, ReaderMeansEmpty
<1>8. \A w \in [aio : Senders, msg : Msg] :
          w \in ToSet(uwq'.putq) <=> snd'[w.aio].at = "wait" /\ w.msg = snd'[w.aio].msg
  BY <1>1, <1>4, <1>5 DEF WriteInv, WriteLists
<1>9. \A r \in Pipes : r \in ToSet(uwq'.getq) <=> push'[r].at = "getq"
  <2>1. \A r \in Pipes : r \in ToSet(uwq.getq) <=> push[r].at = "getq"
    BY DEF WriteInv, WriteLists
  <2>2. push'[p].at = "getq" /\ \A r \in Pipes : r # p => push'[r] = push[r]
    BY <1>4 DEF WriteTypes, End
  <2>3. QED
    BY <1>3, <1>5, <2>1, <2>2
<1>10. QED
  BY <1>5, <1>6, <1>7, <1>8, <1>9 DEF WriteLists

LEMMA ListsLeaves ==
    ASSUME WriteTypes, WriteInv, NEW p \in Pipes, NEW i \in 1 .. Len(uwq.getq), Leaves(p, i),
           pushClosed' \in [Pipes -> BOOLEAN]
    PROVE  WriteTypes' /\ WriteLists' /\ uwq'.closed = uwq.closed
<1> DEFINE t == RemoveAt(uwq.getq, i)
<1>1. /\ uwq \in Queue(Senders, Pipes) /\ uwq.getq \in Seq(Pipes) /\ IsInjective(uwq.getq)
      /\ uwq.cap = 0 /\ uwq.items = <<>>
  BY DEF WriteTypes, Queue, WriteInv, WriteLists, Orderly
<1>2. uwq.getq[i] = p /\ uwq' = WithGetq(uwq, RemoveAt(uwq.getq, i)) /\ PipeStops(p)
  BY DEF Leaves
<1>3. t \in Seq(Pipes) /\ IsInjective(t) /\ ToSet(t) = ToSet(uwq.getq) \ {p}
  BY <1>1, <1>2, Removed, InjectiveRemove
<1>4. uwq.putq = <<>>
  <2>1. uwq.getq # <<>>
    BY <1>1
  <2>2. QED
    BY <2>1 DEF WriteInv, WriteLists, Orderly, ReaderMeansEmpty
<1>5. uwq' = WithGetq(uwq, t)
  BY <1>2
<1> HIDE DEF t
<1>6. /\ uwq' \in Queue(Senders, Pipes) /\ uwq'.getq = t /\ uwq'.putq = <<>> /\ uwq'.items = <<>>
      /\ uwq'.cap = 0 /\ uwq'.closed = uwq.closed
  BY <1>1, <1>3, <1>4, <1>5, OtherGetq
<1>7. WriteTypes'
  <2>1. push' \in [Pipes -> [at : PushAt, msg : Msg \cup {None}]]
    BY <1>2 DEF WriteTypes, PushAt, End, PipeStops
  <2>2. QED
    BY <1>2, <1>6, <2>1 DEF WriteTypes, PipeStops
<1>8. Orderly(uwq')
  BY <1>3, <1>6, EmptyList DEF Orderly, ReaderMeansEmpty
<1>9. \A w \in [aio : Senders, msg : Msg] :
          w \in ToSet(uwq'.putq) <=> snd'[w.aio].at = "wait" /\ w.msg = snd'[w.aio].msg
  BY <1>2, <1>4, <1>6 DEF WriteInv, WriteLists, PipeStops
<1>10. \A r \in Pipes : r \in ToSet(uwq'.getq) <=> push'[r].at = "getq"
  <2>1. \A r \in Pipes : r \in ToSet(uwq.getq) <=> push[r].at = "getq"
    BY DEF WriteInv, WriteLists
  <2>2. push'[p].at = "stopped" /\ \A r \in Pipes : r # p => push'[r] = push[r]
    BY <1>2 DEF WriteTypes, End, PipeStops
  <2>3. QED
    BY <1>3, <1>6, <2>1, <2>2
<1>11. QED
  BY <1>6, <1>7, <1>8, <1>9, <1>10 DEF WriteLists

LEMMA ListsClosed ==
    ASSUME WriteTypes, WriteInv, MsgInv, uwq' = Closed(uwq), FailSends(Waiting),
           \A p \in Pipes : push[p].at # "none" => pushClosed[p], UNCHANGED pushClosed
    PROVE  WriteTypes' /\ WriteLists'
<1>1. uwq \in Queue(Senders, Pipes) /\ uwq.cap = 0
  BY DEF WriteTypes
<1>2. /\ uwq' \in Queue(Senders, Pipes) /\ uwq'.getq = <<>> /\ uwq'.putq = <<>> /\ uwq'.items = <<>>
      /\ uwq'.cap = 0
  <2> DEFINE q == Closed(uwq)
  <2>1. /\ q \in Queue(Senders, Pipes) /\ q.getq = <<>> /\ q.putq = <<>> /\ q.items = <<>>
        /\ q.cap = 0
    BY <1>1, ClosedQueue
  <2> HIDE DEF q
  <2>2. uwq' = q
    BY DEF q
  <2>3. QED
    BY <2>1, <2>2
<1>3. /\ snd' \in [Senders -> [at : {"idle", "found", "wait"}, msg : Msg \cup {None}]]
      /\ push' \in [Pipes -> [at : PushAt, msg : Msg \cup {None}]]
      /\ sent' \in [Pipes -> Seq(Msg)]
      /\ accepted' \subseteq Msg /\ failed' \subseteq Msg
  <2>1. Waiting \subseteq Senders /\ \A s \in Waiting : snd[s].msg \in Msg
    BY DEF Waiting, MsgInv
  <2>2. QED
    BY <2>1, FailSendsTypes
<1>4. WriteTypes'
  BY <1>2, <1>3 DEF WriteTypes
<1>5. Orderly(uwq')
  BY <1>2, EmptyList DEF Orderly, ReaderMeansEmpty
<1>6. \A w \in [aio : Senders, msg : Msg] : snd'[w.aio].at # "wait"
  BY DEF FailSends, Waiting, End
<1>7. \A r \in Pipes : push'[r].at # "getq"
  BY DEF FailSends, WriteInv, WriteEnds
<1>8. QED
  BY <1>2, <1>4, <1>5, <1>6, <1>7, EmptyList DEF WriteLists

-----------------------------------------------------------------------------
(* What becomes of a message.                                              *)

\* What the sent messages are when m went into p.
LEMMA SentMore ==
    ASSUME WriteTypes, NEW s \in Senders, NEW p \in Pipes, snd[s].msg \in Msg, HandOver(s, p)
    PROVE  /\ \A r \in Pipes : r # p => sent'[r] = sent[r]
           /\ sent[p] \in Seq(Msg) /\ Len(sent[p]) \in Nat
           /\ sent'[p] = Append(sent[p], snd[s].msg)
           /\ Len(sent'[p]) = Len(sent[p]) + 1
           /\ \A i \in 1 .. Len(sent[p]) : sent'[p][i] = sent[p][i]
           /\ sent'[p][Len(sent[p]) + 1] = snd[s].msg
<1>1. sent[p] \in Seq(Msg) /\ sent'[p] = Append(sent[p], snd[s].msg)
      /\ \A r \in Pipes : r # p => sent'[r] = sent[r]
  BY DEF WriteTypes, HandOver
<1>2. Len(sent[p]) \in Nat
  BY <1>1
<1> DEFINE t == Append(sent[p], snd[s].msg)
<1>3. /\ Len(t) = Len(sent[p]) + 1
      /\ \A i \in 1 .. Len(sent[p]) + 1 : t[i] = IF i <= Len(sent[p]) THEN sent[p][i] ELSE snd[s].msg
  BY <1>1, AppendElements
<1>4. sent'[p] = t
  BY <1>1
<1> HIDE DEF t
<1>5. \A i \in 1 .. Len(sent[p]) : i \in 1 .. Len(sent[p]) + 1 /\ i <= Len(sent[p])
  BY <1>2
<1>6. Len(sent[p]) + 1 \in 1 .. Len(sent[p]) + 1 /\ ~(Len(sent[p]) + 1 <= Len(sent[p]))
  BY <1>2
<1>7. QED
  BY <1>1, <1>2, <1>3, <1>4, <1>5, <1>6

LEMMA MsgHandOver ==
    ASSUME WriteTypes, MsgInv, NEW s \in Senders, NEW p \in Pipes, snd[s].at # "idle",
           HandOver(s, p)
    PROVE  MsgInv'
<1> DEFINE m == snd[s].msg
           n == Len(sent[p])
<1>1. m \in Msg /\ m \notin accepted /\ m \notin failed /\ m # None
  BY DEF MsgInv
<1>2. /\ \A r \in Pipes : r # p => sent'[r] = sent[r]
      /\ n \in Nat /\ Len(sent'[p]) = n + 1
      /\ \A i \in 1 .. n : sent'[p][i] = sent[p][i]
      /\ sent'[p][n + 1] = m
  BY <1>1, SentMore
<1>3. /\ \A t \in Senders : snd'[t] = IF t = s THEN End("idle", None) ELSE snd[t]
      /\ accepted' = accepted \cup {m} /\ failed' = failed
  BY DEF HandOver, WriteTypes
<1>4. \A r \in Pipes : \A i \in 1 .. Len(sent[r]) : sent[r][i] # m
  BY <1>1 DEF MsgInv
<1> HIDE DEF m, n
<1>5. \A t \in Senders : /\ snd'[t].at = "idle" => snd'[t].msg = None
                         /\ snd'[t].at # "idle" => snd'[t].msg \in Msg \ (accepted' \cup failed')
  <2> TAKE t \in Senders
  <2>1. CASE t = s
    BY <1>3, <2>1 DEF End
  <2>2. CASE t # s
    <3>1. snd[t].msg # m
      BY <1>1, <2>2 DEF MsgInv, m
    <3>2. QED
      BY <1>3, <2>2, <3>1 DEF MsgInv
  <2>3. QED
    BY <2>1, <2>2
<1>6. \A t, u \in Senders : snd'[t].msg = snd'[u].msg /\ snd'[t].msg # None => t = u
  BY <1>3 DEF MsgInv, End
<1>7. accepted' \cap failed' = {}
  BY <1>1, <1>3 DEF MsgInv
<1>8. ASSUME NEW x \in Msg
      PROVE  x \in accepted' <=> \E r \in Pipes : \E i \in 1 .. Len(sent'[r]) : sent'[r][i] = x
  <2>1. x \in accepted <=> \E r \in Pipes : \E i \in 1 .. Len(sent[r]) : sent[r][i] = x
    BY DEF MsgInv
  <2>2. ASSUME NEW r \in Pipes, NEW i \in 1 .. Len(sent[r]), sent[r][i] = x
        PROVE  i \in 1 .. Len(sent'[r]) /\ sent'[r][i] = x
    BY <1>2, <2>2 DEF n
  <2>3. n + 1 \in 1 .. Len(sent'[p])
    BY <1>2
  <2>4. ASSUME NEW r \in Pipes, NEW i \in 1 .. Len(sent'[r]), sent'[r][i] = x
        PROVE  x = m \/ (i \in 1 .. Len(sent[r]) /\ sent[r][i] = x)
    <3>1. CASE r # p
      BY <1>2, <2>4, <3>1
    <3>2. CASE r = p /\ i = n + 1
      BY <1>2, <2>4, <3>2
    <3>3. CASE r = p /\ i # n + 1
      <4>1. i \in 1 .. n
        BY <1>2, <3>3
      <4>2. QED
        BY <1>2, <2>4, <3>3, <4>1 DEF n
    <3>4. QED
      BY <3>1, <3>2, <3>3
  <2>5. QED
    BY <1>2, <1>3, <2>1, <2>2, <2>3, <2>4
<1>9. ASSUME NEW r \in Pipes, NEW u \in Pipes, NEW i \in 1 .. Len(sent'[r]),
             NEW j \in 1 .. Len(sent'[u]), sent'[r][i] = sent'[u][j]
      PROVE  r = u /\ i = j
  <2>1. ASSUME NEW x \in Pipes, NEW k \in 1 .. Len(sent'[x])
        PROVE  \/ x = p /\ k = n + 1 /\ sent'[x][k] = m
               \/ k \in 1 .. Len(sent[x]) /\ sent'[x][k] = sent[x][k] /\ sent'[x][k] # m
    <3>1. CASE x # p
      BY <1>2, <1>4, <3>1
    <3>2. CASE x = p /\ k = n + 1
      BY <1>2, <3>2
    <3>3. CASE x = p /\ k # n + 1
      <4>1. k \in 1 .. n
        BY <1>2, <3>3
      <4>2. QED
        BY <1>2, <1>4, <3>3, <4>1 DEF n
    <3>4. QED
      BY <3>1, <3>2, <3>3
  <2>2. \A x, y \in Pipes : \A k \in 1 .. Len(sent[x]), l \in 1 .. Len(sent[y]) :
          sent[x][k] = sent[y][l] => x = y /\ k = l
    BY DEF MsgInv
  <2>3. /\ \/ r = p /\ i = n + 1 /\ sent'[r][i] = m
           \/ i \in 1 .. Len(sent[r]) /\ sent'[r][i] = sent[r][i] /\ sent'[r][i] # m
        /\ \/ u = p /\ j = n + 1 /\ sent'[u][j] = m
           \/ j \in 1 .. Len(sent[u]) /\ sent'[u][j] = sent[u][j] /\ sent'[u][j] # m
    BY <2>1
  <2>4. QED
    BY <1>9, <2>2, <2>3
<1>10. QED
  BY <1>5, <1>6, <1>7, <1>8, <1>9 DEF MsgInv

LEMMA MsgFail ==
    ASSUME WriteTypes, MsgInv, NEW T, T \subseteq Senders, \A s \in T : snd[s].at # "idle",
           FailSends(T)
    PROVE  MsgInv'
<1>1. /\ \A t \in Senders : snd'[t] = IF t \in T THEN End("idle", None) ELSE snd[t]
      /\ accepted' = accepted /\ sent' = sent
      /\ \A m : m \in failed' <=> m \in failed \/ \E s \in T : m = snd[s].msg
  BY DEF FailSends
<1>2. \A s \in T : snd[s].msg \in Msg \ (accepted \cup failed)
  BY DEF MsgInv
<1>3. \A t \in Senders : /\ snd'[t].at = "idle" => snd'[t].msg = None
                         /\ snd'[t].at # "idle" => snd'[t].msg \in Msg \ (accepted' \cup failed')
  <2> TAKE t \in Senders
  <2>1. CASE t \in T
    BY <1>1, <2>1 DEF End
  <2>2. CASE t \notin T
    <3>1. snd'[t] = snd[t]
      BY <1>1, <2>2
    <3>2. snd[t].at # "idle" => \A s \in T : snd[t].msg # snd[s].msg
      BY <1>2, <2>2 DEF MsgInv
    <3>3. QED
      BY <1>1, <3>1, <3>2 DEF MsgInv
  <2>3. QED
    BY <2>1, <2>2
<1>4. \A t, u \in Senders : snd'[t].msg = snd'[u].msg /\ snd'[t].msg # None => t = u
  BY <1>1 DEF MsgInv, End
<1>5. accepted' \cap failed' = {}
  BY <1>1, <1>2 DEF MsgInv
<1>6. QED
  BY <1>1, <1>3, <1>4, <1>5 DEF MsgInv

LEMMA MsgFind ==
    ASSUME WriteTypes, MsgInv, NEW s \in Senders, SendFind(s)
    PROVE  MsgInv' /\ \E m \in Msg : snd' = [snd EXCEPT ![s] = End("found", m)]
<1>1. PICK m \in Msg \ Used : snd' = [snd EXCEPT ![s] = End("found", m)]
  BY DEF SendFind
<1>2. UNCHANGED <<accepted, failed, sent>>
  BY DEF SendFind, history
<1>3. m \in Msg /\ m \notin accepted /\ m \notin failed /\ \A t \in Senders : snd[t].msg # m
  BY <1>1 DEF Used
<1>4. \A t \in Senders : snd'[t] = IF t = s THEN End("found", m) ELSE snd[t]
  BY <1>1 DEF WriteTypes
<1>5. \A t \in Senders : /\ snd'[t].at = "idle" => snd'[t].msg = None
                         /\ snd'[t].at # "idle" => snd'[t].msg \in Msg \ (accepted' \cup failed')
  BY <1>2, <1>3, <1>4 DEF MsgInv, End
<1>6. \A t, u \in Senders : snd'[t].msg = snd'[u].msg /\ snd'[t].msg # None => t = u
  BY <1>3, <1>4 DEF MsgInv, End
<1>7. MsgInv'
  BY <1>2, <1>5, <1>6 DEF MsgInv
<1>8. QED
  BY <1>1, <1>7

LEMMA MsgWaits ==
    ASSUME WriteTypes, MsgInv, NEW s \in Senders, SendWaits(s)
    PROVE  MsgInv'
<1>1. \A t \in Senders : snd'[t] = IF t = s THEN End("wait", snd[s].msg) ELSE snd[t]
  BY DEF SendWaits, WriteTypes
<1>2. \A t \in Senders : snd'[t].msg = snd[t].msg /\ (snd'[t].at = "idle" <=> snd[t].at = "idle")
  BY <1>1 DEF End, SendWaits
<1>3. UNCHANGED <<accepted, failed, sent>>
  BY DEF SendWaits
<1>4. QED
  BY <1>2, <1>3 DEF MsgInv

-----------------------------------------------------------------------------
(* The order of what is on the way.                                        *)

LEMMA ComingIsIn ==
    ASSUME NEW s \in Seq(Msg), NEW n \in Nat, NEW m, NEW S, Coming(m, s, n, S)
    PROVE  m \in Msg /\ m \notin S /\ \E i \in n + 1 .. Len(s) : i \in 1 .. Len(s) /\ s[i] = m
<1>1. PICK i \in n + 1 .. Len(s) : s[i] = m
  BY DEF Coming
<1>2. i \in 1 .. Len(s) /\ s[i] \in Msg
  BY LenProperties
<1>3. QED
  BY <1>1, <1>2 DEF Coming

LEMMA ComingWider ==
    ASSUME NEW s \in Seq(Msg), NEW n \in Nat, NEW m, NEW S, NEW T, Coming(m, s, n, S), m \notin T,
           \A k \in 1 .. Len(s) : s[k] \in S => s[k] \in T
    PROVE  Coming(m, s, n, T)
<1>1. PICK i \in n + 1 .. Len(s) : s[i] = m /\ \A k \in n + 1 .. i - 1 : s[k] \in S
  BY DEF Coming
<1>2. \A k \in n + 1 .. i - 1 : k \in 1 .. Len(s)
  BY LenProperties
<1>3. \A k \in n + 1 .. i - 1 : s[k] \in T
  BY <1>1, <1>2
<1>4. QED
  BY <1>1, <1>3 DEF Coming

LEMMA ComingLonger ==
    ASSUME NEW s \in Seq(Msg), NEW t \in Seq(Msg), NEW n \in Nat, NEW m, NEW S, Coming(m, s, n, S),
           Len(t) >= Len(s), \A i \in 1 .. Len(s) : t[i] = s[i]
    PROVE  Coming(m, t, n, S)
<1>1. PICK i \in n + 1 .. Len(s) : s[i] = m /\ \A k \in n + 1 .. i - 1 : s[k] \in S
  BY DEF Coming
<1>2. i \in 1 .. Len(s) /\ i \in n + 1 .. Len(t) /\ \A k \in n + 1 .. i - 1 : k \in 1 .. Len(s)
  BY LenProperties
<1>3. t[i] = m /\ \A k \in n + 1 .. i - 1 : t[k] \in S
  BY <1>1, <1>2
<1>4. QED
  BY <1>2, <1>3 DEF Coming

\* When none of what was sent is in S, it is the next.
LEMMA ComingFirst ==
    ASSUME NEW s \in Seq(Msg), NEW n \in Nat, NEW m, NEW S, Coming(m, s, n, S),
           \A k \in 1 .. Len(s) : s[k] \notin S
    PROVE  n + 1 \in 1 .. Len(s) /\ s[n + 1] = m
<1>1. PICK i \in n + 1 .. Len(s) : s[i] = m /\ \A k \in n + 1 .. i - 1 : s[k] \in S
  BY DEF Coming
<1>2. Len(s) \in Nat /\ n + 1 \in 1 .. Len(s)
  BY LenProperties
<1>3. i = n + 1
  <2>1. n + 1 \notin n + 1 .. i - 1
    BY <1>1, <1>2
  <2>2. QED
    BY <2>1
<1>4. QED
  BY <1>1, <1>2, <1>3

\* When the next, x, has come out, the others come without it.
LEMMA ComingNext ==
    ASSUME NEW s \in Seq(Msg), NEW n \in Nat, NEW m, NEW S, Coming(m, s, n, S),
           \A i, j \in 1 .. Len(s) : s[i] = s[j] => i = j,
           n + 1 \in 1 .. Len(s), NEW x, s[n + 1] = x, m # x
    PROVE  Coming(m, s, n + 1, S \ {x})
<1>1. PICK i \in n + 1 .. Len(s) : s[i] = m /\ \A k \in n + 1 .. i - 1 : s[k] \in S
  BY DEF Coming
<1>2. Len(s) \in Nat
  BY LenProperties
<1>3. i # n + 1
  BY <1>1
<1>4. i \in (n + 1) + 1 .. Len(s)
  BY <1>2, <1>3
<1>5. ASSUME NEW k \in (n + 1) + 1 .. i - 1 PROVE s[k] \in S \ {x}
  <2>1. k \in n + 1 .. i - 1 /\ k \in 1 .. Len(s) /\ k # n + 1
    BY <1>2, <1>4
  <2>2. QED
    BY <1>1, <2>1
<1>6. QED
  BY <1>1, <1>4, <1>5 DEF Coming

\* A message that is among what was sent by two pipes is one of the same.
LEMMA SentOnce ==
    ASSUME MsgInv, NEW p \in Pipes, NEW q \in Pipes, NEW i \in 1 .. Len(sent[p]),
           NEW j \in 1 .. Len(sent[q]), sent[p][i] = sent[q][j]
    PROVE  p = q /\ i = j
BY DEF MsgInv

LEMMA Flows ==
    ASSUME WriteTypes, ReadTypes, NEW p \in Pipes
    PROVE  /\ sent[p] \in Seq(Msg) /\ got[p] \in Seq(Msg) /\ wire[p] \in Seq(Msg)
           /\ urq.items \in Seq(Msg) /\ Len(got[p]) \in Nat /\ Len(sent[p]) \in Nat
           /\ Ring \subseteq Msg /\ ToSet(wire[p]) \subseteq Msg
<1>1. /\ sent[p] \in Seq(Msg) /\ got[p] \in Seq(Msg) /\ wire[p] \in Seq(Msg)
      /\ urq.items \in Seq(Msg)
  BY DEF WriteTypes, ReadTypes, Queue
<1>2. QED
  BY <1>1, LenProperties, Elements DEF Ring

\* What is coming through a connection was sent through it.
LEMMA ComingWasSent ==
    ASSUME WriteTypes, ReadTypes, NEW p \in Pipes, NEW m, NEW S,
           Coming(m, sent[p], Len(got[p]), S)
    PROVE  \E r \in Pipes : \E i \in 1 .. Len(sent[r]) : sent[r][i] = m
<1>1. sent[p] \in Seq(Msg) /\ Len(got[p]) \in Nat
  BY Flows
<1>2. \E i \in 1 .. Len(sent[p]) : sent[p][i] = m
  BY <1>1, ComingIsIn
<1>3. QED
  BY <1>2

\* Whatever is between the sockets and not lost with a connection was sent.
LEMMA RingWasSent ==
    ASSUME WriteTypes, ReadTypes, OrderInv, NEW x \in Ring
    PROVE  \E r \in Pipes : \E i \in 1 .. Len(sent[r]) : sent[r][i] = x
<1>1. urq.items \in Seq(Msg)
  BY DEF ReadTypes, Queue
<1>2. PICK j \in 1 .. Len(urq.items) : urq.items[j] = x
  BY <1>1, Elements DEF Ring
<1> DEFINE S == First(urq.items, j - 1)
<1>3. PICK r \in Pipes : Coming(x, sent[r], Len(got[r]), S)
  BY <1>2 DEF OrderInv, RingInv
<1> HIDE DEF S
<1>4. QED
  BY <1>3, ComingWasSent

LEMMA BetweenWasSent ==
    ASSUME WriteTypes, ReadTypes, ReadEnds, OrderInv, NEW p \in Pipes, ~pullClosed[p],
           NEW x \in Between(p)
    PROVE  x = None \/ \E r \in Pipes : \E i \in 1 .. Len(sent[r]) : sent[r][i] = x
<1>1. CASE x \in Ring
  BY <1>1, RingWasSent
<1>2. CASE x = pull[p].msg /\ pull[p].at \in {"recvd", "putq"}
  <2>1. Coming(x, sent[p], Len(got[p]), Ring)
    BY <1>2 DEF OrderInv, PullInv
  <2>2. QED
    BY <2>1, ComingWasSent
<1>3. CASE x = pull[p].msg /\ pull[p].at \notin {"recvd", "putq"}
  BY <1>3 DEF ReadEnds
<1>4. CASE x \in ToSet(wire[p])
  <2>1. PICK j \in 1 .. Len(wire[p]) : wire[p][j] = x
    BY <1>4, Flows, Elements
  <2> DEFINE S == Ring \cup {pull[p].msg} \cup First(wire[p], j - 1)
  <2>2. Coming(x, sent[p], Len(got[p]), S)
    BY <2>1 DEF OrderInv, WireInv
  <2> HIDE DEF S
  <2>3. QED
    BY <2>2, ComingWasSent
<1>5. QED
  BY <1>1, <1>2, <1>3, <1>4 DEF Between

\* What is enough for the order not to be disturbed.
LEMMA OrderKept ==
    ASSUME WriteTypes, ReadTypes, OrderInv, UNCHANGED <<sent, got, wire>>, urq'.items = urq.items,
           \A q \in Pipes :
              /\ pullClosed[q] => pullClosed'[q]
              /\ ~pullClosed'[q] =>
                    /\ pull'[q].msg = pull[q].msg
                    /\ pull'[q].at \in {"recvd", "putq"} => pull[q].at \in {"recvd", "putq"}
              /\ \/ push'[q] = push[q]
                 \/ push'[q].at = "sending" /\ push[q].at = "got" /\ push'[q].msg = push[q].msg
                 \/ push'[q].at = "stopped" /\ push'[q].msg = None
                 \/ push'[q].at = "getq" /\ push[q].at \in {"none", "sent"} /\ push'[q].msg = None
    PROVE  OrderInv'
<1>1. Ring' = Ring
  BY DEF Ring
<1>2. PrefixInv'
  BY DEF OrderInv, PrefixInv
<1>3. RingInv'
  BY DEF OrderInv, RingInv
<1>4. PullInv'
  BY <1>1 DEF OrderInv, PullInv
<1>5. WireInv'
  BY <1>1 DEF OrderInv, WireInv
<1>6. ASSUME NEW q \in Pipes, ~pullClosed'[q] PROVE Between(q)' = Between(q)
  BY <1>1, <1>6 DEF Between
<1>7. ASSUME NEW q \in Pipes
      PROVE  /\ push'[q].at = "none" => sent'[q] = <<>>
             /\ push'[q].at \notin {"got", "sending"} => push'[q].msg = None
             /\ push'[q].at \in {"got", "sending"} =>
                   /\ Len(sent'[q]) > 0 /\ push'[q].msg = sent'[q][Len(sent'[q])]
                   /\ ~pullClosed'[q] => Len(got'[q]) < Len(sent'[q]) /\ push'[q].msg \notin Between(q)'
             /\ (~pullClosed'[q] /\ push'[q].at # "stopped") =>
                   \A k \in Len(got'[q]) + 1 .. Len(sent'[q]) :
                       sent'[q][k] \in Between(q)' \cup {push'[q].msg}
  <2>1. /\ push[q].at = "none" => sent[q] = <<>>
        /\ push[q].at \notin {"got", "sending"} => push[q].msg = None
        /\ push[q].at \in {"got", "sending"} =>
              /\ Len(sent[q]) > 0 /\ push[q].msg = sent[q][Len(sent[q])]
              /\ ~pullClosed[q] => Len(got[q]) < Len(sent[q]) /\ push[q].msg \notin Between(q)
        /\ (~pullClosed[q] /\ push[q].at # "stopped") =>
              \A k \in Len(got[q]) + 1 .. Len(sent[q]) :
                  sent[q][k] \in Between(q) \cup {push[q].msg}
    BY DEF OrderInv, PushInv
  <2>2. CASE push'[q] = push[q]
    BY <1>6, <2>1, <2>2
  <2>3. CASE push'[q].at = "sending" /\ push[q].at = "got" /\ push'[q].msg = push[q].msg
    BY <1>6, <2>1, <2>3
  <2>4. CASE push'[q].at = "stopped" /\ push'[q].msg = None
    BY <2>4
  <2>5. CASE push'[q].at = "getq" /\ push[q].at \in {"none", "sent"} /\ push'[q].msg = None
    BY <1>6, <2>1, <2>5
  <2>6. QED
    BY <2>2, <2>3, <2>4, <2>5
<1>8. PushInv'
  BY <1>7 DEF PushInv
<1>9. QED
  BY <1>2, <1>3, <1>4, <1>5, <1>8 DEF OrderInv

LEMMA OrderHandOver ==
    ASSUME WriteTypes, ReadTypes, ReadEnds, MsgInv, OrderInv,
           NEW s \in Senders, NEW p \in Pipes, snd[s].at # "idle", HandOver(s, p),
           push[p].at \in {"none", "getq", "sent"}, UNCHANGED <<got, wire, pullClosed>>,
           urq'.items = urq.items,
           \A q \in Pipes :
              /\ pull'[q].msg = pull[q].msg
              /\ pull'[q].at \in {"recvd", "putq"} => pull[q].at \in {"recvd", "putq"}
    PROVE  OrderInv'
<1> DEFINE m == snd[s].msg
<1>1. m \in Msg /\ m \notin accepted /\ m # None
  BY DEF MsgInv
<1>2. /\ \A r \in Pipes : r # p => sent'[r] = sent[r]
      /\ sent[p] \in Seq(Msg) /\ Len(sent[p]) \in Nat
      /\ Len(sent'[p]) = Len(sent[p]) + 1
      /\ \A i \in 1 .. Len(sent[p]) : sent'[p][i] = sent[p][i]
      /\ sent'[p][Len(sent[p]) + 1] = m
  BY <1>1, SentMore
<1>3. \A r \in Pipes : \A i \in 1 .. Len(sent[r]) : sent[r][i] # m
  BY <1>1 DEF MsgInv
<1>4. /\ push'[p].at = "got" /\ push'[p].msg = m
      /\ \A r \in Pipes : r # p => push'[r] = push[r]
  BY DEF HandOver, WriteTypes, End
<1>5. sent' \in [Pipes -> Seq(Msg)]
  <2>1. snd[s].msg \in Msg
    BY <1>1
  <2>2. QED
    BY <2>1, HandOverTypes
<1> HIDE DEF m
<1>6. ASSUME NEW r \in Pipes, NEW x, NEW S, Coming(x, sent[r], Len(got[r]), S)
      PROVE  Coming(x, sent'[r], Len(got'[r]), S)
  <2>1. /\ Len(sent'[r]) >= Len(sent[r]) /\ \A i \in 1 .. Len(sent[r]) : sent'[r][i] = sent[r][i]
    BY <1>2, Flows
  <2>2. sent[r] \in Seq(Msg) /\ sent'[r] \in Seq(Msg) /\ Len(got[r]) \in Nat
    BY <1>5, Flows
  <2>3. Coming(x, sent'[r], Len(got[r]), S)
    BY <1>6, <2>1, <2>2, ComingLonger
  <2>4. QED
    BY <2>3
<1>7. Ring' = Ring /\ \A r \in Pipes : Between(r)' = Between(r)
  BY DEF Ring, Between
<1>8. PrefixInv'
  <2>1. ASSUME NEW r \in Pipes
        PROVE  /\ Len(got'[r]) <= Len(sent'[r])
               /\ \A i \in 1 .. Len(got'[r]) : got'[r][i] = sent'[r][i]
    <3>1. /\ Len(got[r]) \in Nat /\ Len(sent[r]) \in Nat /\ Len(got[r]) <= Len(sent[r])
          /\ \A i \in 1 .. Len(got[r]) : got[r][i] = sent[r][i]
      BY Flows DEF OrderInv, PrefixInv
    <3>2. Len(sent'[r]) >= Len(sent[r]) /\ Len(sent'[r]) \in Nat
          /\ \A i \in 1 .. Len(sent[r]) : sent'[r][i] = sent[r][i]
      BY <1>2, <3>1
    <3>3. \A i \in 1 .. Len(got[r]) : i \in 1 .. Len(sent[r])
      BY <3>1
    <3>4. QED
      BY <3>1, <3>2, <3>3
  <2>2. QED
    BY <2>1 DEF PrefixInv
<1>9. RingInv'
  <2>1. ASSUME NEW j \in 1 .. Len(urq.items)
        PROVE  \E r \in Pipes : Coming(urq.items[j], sent'[r], Len(got'[r]), First(urq.items, j - 1))
    BY <1>6 DEF OrderInv, RingInv
  <2>2. QED
    BY <2>1 DEF RingInv
<1>10. PullInv'
  <2>1. ASSUME NEW r \in Pipes, pull'[r].at \in {"recvd", "putq"}, ~pullClosed'[r]
        PROVE  Coming(pull'[r].msg, sent'[r], Len(got'[r]), Ring')
    <3>1. Coming(pull[r].msg, sent[r], Len(got[r]), Ring)
      BY <2>1 DEF OrderInv, PullInv
    <3>2. QED
      BY <1>6, <1>7, <3>1
  <2>2. QED
    BY <2>1 DEF PullInv
<1>11. WireInv'
  <2>1. ASSUME NEW r \in Pipes, ~pullClosed'[r], NEW j \in 1 .. Len(wire[r])
        PROVE  Coming(wire[r][j], sent'[r], Len(got'[r]),
                      Ring \cup {pull[r].msg} \cup First(wire[r], j - 1))
    BY <1>6, <2>1 DEF OrderInv, WireInv
  <2>2. QED
    BY <1>7, <2>1 DEF WireInv
<1>12. PushInv'
  <2>1. ASSUME NEW q \in Pipes
        PROVE  /\ push'[q].at = "none" => sent'[q] = <<>>
               /\ push'[q].at \notin {"got", "sending"} => push'[q].msg = None
               /\ push'[q].at \in {"got", "sending"} =>
                     /\ Len(sent'[q]) > 0 /\ push'[q].msg = sent'[q][Len(sent'[q])]
                     /\ ~pullClosed'[q] => Len(got'[q]) < Len(sent'[q]) /\ push'[q].msg \notin Between(q)'
               /\ (~pullClosed'[q] /\ push'[q].at # "stopped") =>
                     \A k \in Len(got'[q]) + 1 .. Len(sent'[q]) :
                         sent'[q][k] \in Between(q)' \cup {push'[q].msg}
    <3>1. /\ push[q].at = "none" => sent[q] = <<>>
          /\ push[q].at \notin {"got", "sending"} => push[q].msg = None
          /\ push[q].at \in {"got", "sending"} =>
                /\ Len(sent[q]) > 0 /\ push[q].msg = sent[q][Len(sent[q])]
                /\ ~pullClosed[q] => Len(got[q]) < Len(sent[q]) /\ push[q].msg \notin Between(q)
          /\ (~pullClosed[q] /\ push[q].at # "stopped") =>
                \A k \in Len(got[q]) + 1 .. Len(sent[q]) :
                    sent[q][k] \in Between(q) \cup {push[q].msg}
      BY DEF OrderInv, PushInv
    <3>2. CASE q # p
      <4>1. sent'[q] = sent[q] /\ push'[q] = push[q]
        BY <1>2, <1>4, <3>2
      <4>2. QED
        BY <1>7, <3>1, <4>1
    <3>3. CASE q = p
      <4>1. Len(got[p]) \in Nat /\ Len(got[p]) <= Len(sent[p])
        BY Flows DEF OrderInv, PrefixInv
      <4>2. Len(got[p]) < Len(sent'[p]) /\ Len(sent'[p]) > 0 /\ m = sent'[p][Len(sent'[p])]
        BY <1>2, <4>1
      <4>3. ~pullClosed[p] => m \notin Between(p)
        BY <1>1, <1>3, BetweenWasSent
      <4>4. ASSUME ~pullClosed[p], NEW k \in Len(got[p]) + 1 .. Len(sent'[p])
            PROVE  sent'[p][k] \in Between(p) \cup {m}
        <5>1. CASE k = Len(sent[p]) + 1
          BY <1>2, <5>1
        <5>2. CASE k # Len(sent[p]) + 1
          <6>1. k \in Len(got[p]) + 1 .. Len(sent[p]) /\ k \in 1 .. Len(sent[p])
            BY <1>2, <4>1, <5>2
          <6>2. sent[p][k] \in Between(p) \cup {None}
            BY <3>1, <3>3, <4>4, <6>1
          <6>3. sent[p][k] \in Msg
            BY <1>2, <6>1
          <6>4. QED
            BY <1>2, <6>1, <6>2, <6>3
        <5>3. QED
          BY <5>1, <5>2
      <4>5. QED
        BY <1>4, <1>7, <3>3, <4>2, <4>3, <4>4
    <3>4. QED
      BY <3>2, <3>3
  <2>2. QED
    BY <2>1 DEF PushInv
<1>13. QED
  BY <1>8, <1>9, <1>10, <1>11, <1>12 DEF OrderInv

LEMMA OrderPushSent ==
    ASSUME WriteTypes, ReadTypes, ReadEnds, MsgInv, OrderInv, NEW p \in Pipes, PushSent(p)
    PROVE  OrderInv'
<1> DEFINE m == push[p].msg
           n == Len(wire[p])
<1>1. /\ push[p].at = "sending" /\ UNCHANGED <<sent, got, urq, pull, pullClosed>>
      /\ wire'[p] = Append(wire[p], m) /\ \A r \in Pipes : r # p => wire'[r] = wire[r]
      /\ push'[p] = End("sent", None) /\ \A r \in Pipes : r # p => push'[r] = push[r]
  BY DEF PushSent, queues, history, WriteTypes, ReadTypes
<1>2. /\ Len(sent[p]) > 0 /\ m = sent[p][Len(sent[p])]
      /\ ~pullClosed[p] => Len(got[p]) < Len(sent[p]) /\ m \notin Between(p)
      /\ (~pullClosed[p]) => \A k \in Len(got[p]) + 1 .. Len(sent[p]) :
                                sent[p][k] \in Between(p) \cup {m}
  BY <1>1 DEF OrderInv, PushInv
<1>3. /\ sent[p] \in Seq(Msg) /\ wire[p] \in Seq(Msg) /\ Len(sent[p]) \in Nat /\ n \in Nat
      /\ Len(got[p]) \in Nat /\ m \in Msg
  <2>1. /\ sent[p] \in Seq(Msg) /\ wire[p] \in Seq(Msg) /\ Len(sent[p]) \in Nat /\ n \in Nat
        /\ Len(got[p]) \in Nat
    BY Flows, LenProperties
  <2>2. QED
    BY <1>2, <2>1
<1>4. /\ Len(wire'[p]) = n + 1 /\ wire'[p][n + 1] = m
      /\ \A i \in 1 .. n : wire'[p][i] = wire[p][i]
      /\ ToSet(wire'[p]) = ToSet(wire[p]) \cup {m}
  <2> DEFINE t == Append(wire[p], m)
  <2> HIDE DEF m
  <2>1. /\ Len(t) = n + 1 /\ ToSet(t) = ToSet(wire[p]) \cup {m}
        /\ \A i \in 1 .. n + 1 : t[i] = IF i <= n THEN wire[p][i] ELSE m
    BY <1>3, AppendElements
  <2>2. wire'[p] = t
    BY <1>1
  <2> HIDE DEF t, n
  <2>3. n + 1 \in 1 .. n + 1 /\ ~(n + 1 <= n) /\ \A i \in 1 .. n : i \in 1 .. n + 1 /\ i <= n
    BY <1>3
  <2>4. QED
    BY <2>1, <2>2, <2>3
<1> HIDE DEF m, n
<1>5. Ring' = Ring
  BY <1>1 DEF Ring
<1>6. \A i \in 1 .. n : First(wire'[p], i - 1) = First(wire[p], i - 1)
  <2> TAKE i \in 1 .. n
  <2>1. \A k \in 1 .. i - 1 : k \in 1 .. n
    BY <1>3
  <2>2. QED
    BY <1>4, <2>1 DEF First
<1>7. First(wire'[p], n) = ToSet(wire[p])
  <2>1. ToSet(wire[p]) = {wire[p][i] : i \in 1 .. n}
    BY <1>3, Elements DEF n
  <2>2. QED
    BY <1>4, <2>1 DEF First
<1>8. WireInv'
  <2>1. ASSUME NEW r \in Pipes, ~pullClosed'[r], NEW j \in 1 .. Len(wire'[r])
        PROVE  Coming(wire'[r][j], sent'[r], Len(got'[r]),
                      Ring' \cup {pull'[r].msg} \cup First(wire'[r], j - 1))
    <3>1. CASE r # p \/ j # n + 1
      <4>1. j \in 1 .. Len(wire[r]) /\ wire'[r][j] = wire[r][j]
            /\ First(wire'[r], j - 1) = First(wire[r], j - 1)
        <5>1. CASE r # p
          BY <1>1, <5>1
        <5>2. CASE r = p /\ j # n + 1
          <6>1. j \in 1 .. n
            BY <1>3, <1>4, <5>2
          <6>2. QED
            BY <1>4, <1>6, <5>2, <6>1 DEF n
        <5>3. QED
          BY <3>1, <5>1, <5>2
      <4>2. Coming(wire[r][j], sent[r], Len(got[r]),
                   Ring \cup {pull[r].msg} \cup First(wire[r], j - 1))
        BY <1>1, <2>1, <4>1 DEF OrderInv, WireInv
      <4>3. QED
        BY <1>1, <1>5, <4>1, <4>2
    <3>2. CASE r = p /\ j = n + 1
      <4> DEFINE S == Ring \cup {pull[p].msg} \cup ToSet(wire[p])
      <4>1. m \notin S /\ \A k \in Len(got[p]) + 1 .. Len(sent[p]) : sent[p][k] \in S \cup {m}
        BY <1>1, <1>2, <2>1, <3>2 DEF Between
      <4>2. Len(sent[p]) \in Len(got[p]) + 1 .. Len(sent[p])
        BY <1>1, <1>2, <1>3, <2>1, <3>2
      <4>3. ASSUME NEW k \in Len(got[p]) + 1 .. Len(sent[p]) - 1 PROVE sent[p][k] \in S
        <5>1. /\ k \in Len(got[p]) + 1 .. Len(sent[p]) /\ k # Len(sent[p])
              /\ k \in 1 .. Len(sent[p]) /\ Len(sent[p]) \in 1 .. Len(sent[p])
          BY <1>2, <1>3
        <5>2. sent[p][k] # m
          BY <1>2, <5>1, SentOnce
        <5>3. QED
          BY <4>1, <5>1, <5>2
      <4>4. Coming(m, sent[p], Len(got[p]), S)
        BY <1>2, <4>1, <4>2, <4>3 DEF Coming
      <4>5. First(wire'[p], j - 1) = ToSet(wire[p])
        <5>1. j - 1 = n
          BY <1>3, <3>2
        <5>2. QED
          BY <1>7, <5>1
      <4>6. Ring' \cup {pull'[p].msg} \cup First(wire'[p], j - 1) = S
        BY <1>1, <1>5, <4>5
      <4>7. wire'[p][j] = m
        BY <1>4, <3>2
      <4> HIDE DEF S
      <4>8. QED
        BY <1>1, <3>2, <4>4, <4>6, <4>7
    <3>3. QED
      BY <3>1, <3>2
  <2>2. QED
    BY <2>1 DEF WireInv
<1>9. PrefixInv' /\ RingInv' /\ PullInv'
  BY <1>1, <1>5 DEF OrderInv, PrefixInv, RingInv, PullInv
<1>10. PushInv'
  <2>1. \A r \in Pipes : r # p => Between(r)' = Between(r)
    BY <1>1, <1>5 DEF Between
  <2>2. Between(p)' = Between(p) \cup {m}
    BY <1>1, <1>4, <1>5 DEF Between
  <2>3. \A q \in Pipes : q # p =>
               /\ push'[q].at = "none" => sent'[q] = <<>>
               /\ push'[q].at \notin {"got", "sending"} => push'[q].msg = None
               /\ push'[q].at \in {"got", "sending"} =>
                     /\ Len(sent'[q]) > 0 /\ push'[q].msg = sent'[q][Len(sent'[q])]
                     /\ ~pullClosed'[q] => Len(got'[q]) < Len(sent'[q]) /\ push'[q].msg \notin Between(q)'
               /\ (~pullClosed'[q] /\ push'[q].at # "stopped") =>
                     \A k \in Len(got'[q]) + 1 .. Len(sent'[q]) :
                         sent'[q][k] \in Between(q)' \cup {push'[q].msg}
    BY <1>1, <2>1 DEF OrderInv, PushInv
  <2>4. push'[p].at = "sent" /\ push'[p].msg = None
    BY <1>1 DEF End
  <2>5. ~pullClosed[p] => \A k \in Len(got[p]) + 1 .. Len(sent[p]) : sent[p][k] \in Between(p)'
    BY <1>2, <2>2
  <2>6. QED
    BY <1>1, <2>3, <2>4, <2>5 DEF PushInv
<1>11. QED
  BY <1>8, <1>9, <1>10 DEF OrderInv

LEMMA OrderPullRecv ==
    ASSUME WriteTypes, ReadTypes, ReadEnds, MsgInv, OrderInv, NEW p \in Pipes, PullRecv(p)
    PROVE  OrderInv'
<1> DEFINE m == wire[p][1]
           n == Len(wire[p])
<1>1. /\ pull[p].at = "recv" /\ ~pullClosed[p] /\ wire[p] # <<>>
      /\ UNCHANGED <<sent, got, urq, push, pullClosed>>
      /\ wire'[p] = Tail(wire[p]) /\ \A r \in Pipes : r # p => wire'[r] = wire[r]
      /\ pull'[p] = End("recvd", Head(wire[p])) /\ \A r \in Pipes : r # p => pull'[r] = pull[r]
  BY DEF PullRecv, queues, history, WriteTypes, ReadTypes
<1>2. /\ sent[p] \in Seq(Msg) /\ wire[p] \in Seq(Msg) /\ Len(got[p]) \in Nat
  BY Flows
<1>3. /\ n \in Nat /\ n > 0 /\ Len(wire'[p]) = n - 1 /\ Head(wire[p]) = m /\ m \in Msg
      /\ \A i \in 1 .. n - 1 : wire'[p][i] = wire[p][i + 1]
      /\ ToSet(wire[p]) = {m} \cup ToSet(wire'[p])
  BY <1>1, <1>2, TailElements
<1>4. pull[p].msg = None /\ pull'[p].at = "recvd" /\ pull'[p].msg = m
  BY <1>1, <1>3 DEF ReadEnds, End
<1> HIDE DEF m
<1>5. Ring' = Ring
  BY <1>1 DEF Ring
<1>6. Coming(m, sent[p], Len(got[p]), Ring)
  <2> DEFINE S == Ring \cup {pull[p].msg} \cup First(wire[p], 1 - 1)
  <2>1. Coming(m, sent[p], Len(got[p]), S)
    <3>1. 1 \in 1 .. Len(wire[p])
      BY <1>3
    <3>2. QED
      BY <1>1, <3>1 DEF OrderInv, WireInv, m
  <2>2. S = Ring \cup {None}
    BY <1>4 DEF First
  <2>3. \A k \in 1 .. Len(sent[p]) : sent[p][k] # None
    BY <1>2
  <2> HIDE DEF S
  <2>4. m \notin Ring /\ \A k \in 1 .. Len(sent[p]) : sent[p][k] \in S => sent[p][k] \in Ring
    BY <1>2, <2>1, <2>2, <2>3, ComingIsIn
  <2>5. QED
    BY <1>2, <2>1, <2>4, ComingWider
<1>7. PullInv'
  <2>1. ASSUME NEW r \in Pipes, pull'[r].at \in {"recvd", "putq"}, ~pullClosed'[r]
        PROVE  Coming(pull'[r].msg, sent'[r], Len(got'[r]), Ring')
    <3>1. CASE r = p
      BY <1>1, <1>4, <1>5, <1>6, <3>1
    <3>2. CASE r # p
      BY <1>1, <1>5, <2>1, <3>2 DEF OrderInv, PullInv
    <3>3. QED
      BY <3>1, <3>2
  <2>2. QED
    BY <2>1 DEF PullInv
<1>8. ASSUME NEW j \in 1 .. n - 1
      PROVE  Coming(wire[p][j + 1], sent[p], Len(got[p]), Ring \cup {m} \cup First(wire'[p], j - 1))
  <2> DEFINE x == wire[p][j + 1]
             S == Ring \cup {pull[p].msg} \cup First(wire[p], j)
             T == Ring \cup {m} \cup First(wire'[p], j - 1)
  <2>1. Coming(x, sent[p], Len(got[p]), S)
    <3>1. j + 1 \in 1 .. Len(wire[p]) /\ (j + 1) - 1 = j
      BY <1>3
    <3>2. QED
      BY <1>1, <3>1 DEF OrderInv, WireInv
  <2>2. First(wire[p], j) = {m} \cup First(wire'[p], j - 1)
    <3>1. ASSUME NEW y \in First(wire[p], j) PROVE y \in {m} \cup First(wire'[p], j - 1)
      <4>1. PICK k \in 1 .. j : y = wire[p][k]
        BY DEF First
      <4>2. CASE k = 1
        BY <4>1, <4>2 DEF m
      <4>3. CASE k # 1
        <5>1. k - 1 \in 1 .. n - 1 /\ k - 1 \in 1 .. j - 1 /\ (k - 1) + 1 = k
          BY <1>3, <4>3
        <5>2. wire'[p][k - 1] = y
          BY <1>3, <4>1, <5>1
        <5>3. QED
          BY <5>1, <5>2 DEF First
      <4>4. QED
        BY <4>2, <4>3
    <3>2. ASSUME NEW y \in {m} \cup First(wire'[p], j - 1) PROVE y \in First(wire[p], j)
      <4>1. CASE y = m
        <5>1. 1 \in 1 .. j
          OBVIOUS
        <5>2. QED
          BY <4>1, <5>1 DEF First, m
      <4>2. CASE y \in First(wire'[p], j - 1)
        <5>1. PICK k \in 1 .. j - 1 : y = wire'[p][k]
          BY <4>2 DEF First
        <5>2. k + 1 \in 1 .. j /\ k \in 1 .. n - 1
          BY <1>3
        <5>3. y = wire[p][k + 1]
          BY <1>3, <5>1, <5>2
        <5>4. QED
          BY <5>2, <5>3 DEF First
      <4>3. QED
        BY <4>1, <4>2
    <3>3. QED
      BY <3>1, <3>2
  <2>3. S = T \cup {None}
    BY <1>4, <2>2
  <2>4. \A k \in 1 .. Len(sent[p]) : sent[p][k] # None
    BY <1>2
  <2> HIDE DEF S, T, x
  <2>5. x \notin T /\ \A k \in 1 .. Len(sent[p]) : sent[p][k] \in S => sent[p][k] \in T
    BY <1>2, <2>1, <2>3, <2>4, ComingIsIn
  <2>6. Coming(x, sent[p], Len(got[p]), T)
    BY <1>2, <2>1, <2>5, ComingWider
  <2>7. QED
    BY <2>6 DEF x, T
<1>9. WireInv'
  <2>1. ASSUME NEW r \in Pipes, ~pullClosed'[r], NEW j \in 1 .. Len(wire'[r])
        PROVE  Coming(wire'[r][j], sent'[r], Len(got'[r]),
                      Ring' \cup {pull'[r].msg} \cup First(wire'[r], j - 1))
    <3>1. CASE r = p
      <4>1. j \in 1 .. n - 1
        BY <1>3, <3>1
      <4>2. wire'[p][j] = wire[p][j + 1]
        BY <1>3, <4>1
      <4>3. QED
        BY <1>1, <1>4, <1>5, <1>8, <3>1, <4>1, <4>2
    <3>2. CASE r # p
      BY <1>1, <1>5, <2>1, <3>2 DEF OrderInv, WireInv
    <3>3. QED
      BY <3>1, <3>2
  <2>2. QED
    BY <2>1 DEF WireInv
<1>10. PrefixInv' /\ RingInv'
  BY <1>1 DEF OrderInv, PrefixInv, RingInv
<1>11. PushInv'
  <2>1. \A r \in Pipes : r # p => Between(r)' = Between(r)
    BY <1>1, <1>5 DEF Between
  <2>2. Between(p) = Between(p)' \cup {None}
    BY <1>3, <1>4, <1>5 DEF Between
  <2>3. \A q \in Pipes :
               /\ push[q].at = "none" => sent[q] = <<>>
               /\ push[q].at \notin {"got", "sending"} => push[q].msg = None
               /\ push[q].at \in {"got", "sending"} =>
                     /\ Len(sent[q]) > 0 /\ push[q].msg = sent[q][Len(sent[q])]
                     /\ ~pullClosed[q] => Len(got[q]) < Len(sent[q]) /\ push[q].msg \notin Between(q)
               /\ (~pullClosed[q] /\ push[q].at # "stopped") =>
                     \A k \in Len(got[q]) + 1 .. Len(sent[q]) :
                         sent[q][k] \in Between(q) \cup {push[q].msg}
    BY DEF OrderInv, PushInv
  <2>4. ASSUME push[p].at # "stopped", NEW k \in Len(got[p]) + 1 .. Len(sent[p])
        PROVE  sent[p][k] \in Between(p)' \cup {push[p].msg}
    <3>1. sent[p][k] \in Msg
      BY <1>2
    <3>2. QED
      BY <1>1, <2>2, <2>3, <2>4, <3>1
  <2>5. \A q \in Pipes :
               /\ ~pullClosed[q] /\ push[q].msg \notin Between(q) => push[q].msg \notin Between(q)'
               /\ (~pullClosed[q] /\ push[q].at # "stopped") =>
                     \A k \in Len(got[q]) + 1 .. Len(sent[q]) :
                         sent[q][k] \in Between(q)' \cup {push[q].msg}
    BY <2>1, <2>2, <2>3, <2>4
  <2>6. QED
    BY <1>1, <2>3, <2>5 DEF PushInv
<1>12. QED
  BY <1>7, <1>9, <1>10, <1>11 DEF OrderInv

\* The message m, the next of p, has come out.
ComesOut(m, p) ==
    /\ m \in Msg /\ m \in Ring \cup {pull[p].msg}
    /\ Len(got[p]) + 1 \in 1 .. Len(sent[p]) /\ sent[p][Len(got[p]) + 1] = m
    /\ got' = [got EXCEPT ![p] = Append(@, m)]
    /\ Ring' = Ring \ {m}
    /\ UNCHANGED <<sent, wire, push, pullClosed>>
    /\ \A q \in Pipes : ~pullClosed[q] =>
          \/ /\ pull'[q].msg = pull[q].msg
             /\ pull'[q].at \in {"recvd", "putq"} => pull[q].at \in {"recvd", "putq"}
             /\ q = p => pull[q].msg # m
          \/ /\ q = p /\ pull[q].msg = m
             /\ pull'[q].msg = None /\ pull'[q].at \notin {"recvd", "putq"}

LEMMA GotMore ==
    ASSUME WriteTypes, ReadTypes, NEW p \in Pipes, NEW m \in Msg,
           got' = [got EXCEPT ![p] = Append(@, m)]
    PROVE  /\ \A r \in Pipes : r # p => got'[r] = got[r]
           /\ got' \in [Pipes -> Seq(Msg)]
           /\ Len(got[p]) \in Nat /\ Len(got'[p]) = Len(got[p]) + 1
           /\ \A i \in 1 .. Len(got[p]) : got'[p][i] = got[p][i]
           /\ got'[p][Len(got[p]) + 1] = m
<1>1. got[p] \in Seq(Msg) /\ Len(got[p]) \in Nat
  BY Flows
<1> DEFINE t == Append(got[p], m)
<1>2. /\ Len(t) = Len(got[p]) + 1 /\ t \in Seq(Msg)
      /\ \A i \in 1 .. Len(got[p]) + 1 : t[i] = IF i <= Len(got[p]) THEN got[p][i] ELSE m
  BY <1>1, AppendElements
<1>3. got'[p] = t /\ (\A r \in Pipes : r # p => got'[r] = got[r]) /\ got' = [got EXCEPT ![p] = t]
  BY DEF ReadTypes
<1> HIDE DEF t
<1>4. got' \in [Pipes -> Seq(Msg)]
  BY <1>2, <1>3 DEF ReadTypes
<1>5. /\ \A i \in 1 .. Len(got[p]) : i \in 1 .. Len(got[p]) + 1 /\ i <= Len(got[p])
      /\ Len(got[p]) + 1 \in 1 .. Len(got[p]) + 1 /\ ~(Len(got[p]) + 1 <= Len(got[p]))
  BY <1>1
<1>6. QED
  BY <1>1, <1>2, <1>3, <1>4, <1>5

\* What was coming, and is not m, is coming still.
LEMMA ComingAfter ==
    ASSUME WriteTypes, ReadTypes, MsgInv, NEW p \in Pipes, NEW m, ComesOut(m, p),
           NEW q \in Pipes, NEW x, NEW S, Coming(x, sent[q], Len(got[q]), S), x # m,
           NEW T, x \notin T, \A y \in S : y # m => y \in T
    PROVE  Coming(x, sent'[q], Len(got'[q]), T)
<1> DEFINE n == Len(got[p])
           U == S \ {m}
<1>1. /\ m \in Msg /\ n + 1 \in 1 .. Len(sent[p]) /\ sent[p][n + 1] = m /\ UNCHANGED sent
      /\ got' = [got EXCEPT ![p] = Append(@, m)]
  BY DEF ComesOut
<1>2. (\A r \in Pipes : r # p => got'[r] = got[r]) /\ Len(got'[p]) = n + 1
  BY <1>1, GotMore
<1>3. \A k \in 1 .. Len(sent[q]) : sent[q][k] = m => q = p
  BY <1>1, SentOnce
<1> HIDE DEF n
<1>4. sent[q] \in Seq(Msg) /\ Len(got[q]) \in Nat
  BY Flows
<1>5. CASE q = p
  <2>1. \A i, j \in 1 .. Len(sent[p]) : sent[p][i] = sent[p][j] => i = j
    BY SentOnce
  <2>2. Coming(x, sent[p], n, S) /\ sent[p] \in Seq(Msg) /\ n \in Nat
    BY <1>4, <1>5 DEF n
  <2>3. Coming(x, sent[p], n + 1, U)
    BY <1>1, <2>1, <2>2, ComingNext
  <2>4. n + 1 \in Nat /\ \A k \in 1 .. Len(sent[p]) : sent[p][k] \in U => sent[p][k] \in T
    BY <2>2
  <2> HIDE DEF U
  <2>5. Coming(x, sent[p], n + 1, T)
    BY <2>2, <2>3, <2>4, ComingWider
  <2>6. QED
    BY <1>1, <1>2, <1>5, <2>5
<1>6. CASE q # p
  <2>1. \A k \in 1 .. Len(sent[q]) : sent[q][k] \in S => sent[q][k] \in T
    BY <1>3, <1>6
  <2>2. Coming(x, sent[q], Len(got[q]), T)
    BY <1>4, <2>1, ComingWider
  <2>3. QED
    BY <1>1, <1>2, <1>6, <2>2
<1>7. QED
  BY <1>5, <1>6

LEMMA OrderComesOut ==
    ASSUME WriteTypes, ReadTypes, ReadEnds, MsgInv, OrderInv, NEW p \in Pipes, NEW m,
           ComesOut(m, p), RingInv'
    PROVE  OrderInv'
<1> DEFINE n == Len(got[p])
<1>1. /\ m \in Msg /\ m \in Ring \cup {pull[p].msg} /\ Ring' = Ring \ {m}
      /\ n + 1 \in 1 .. Len(sent[p]) /\ sent[p][n + 1] = m
      /\ UNCHANGED <<sent, wire, push, pullClosed>>
  BY DEF ComesOut
<1>2. /\ \A r \in Pipes : r # p => got'[r] = got[r]
      /\ n \in Nat /\ Len(got'[p]) = n + 1
      /\ \A i \in 1 .. n : got'[p][i] = got[p][i]
      /\ got'[p][n + 1] = m
  <2>1. m \in Msg /\ got' = [got EXCEPT ![p] = Append(@, m)]
    BY DEF ComesOut
  <2>2. QED
    BY <2>1, GotMore
<1>3. \A q \in Pipes : \A k \in 1 .. Len(sent[q]) : sent[q][k] = m => q = p /\ k = n + 1
  BY <1>1, SentOnce
<1> HIDE DEF n
<1>4. ASSUME NEW q \in Pipes, NEW x, NEW S, Coming(x, sent[q], Len(got[q]), S), x # m,
             NEW T, x \notin T, \A y \in S : y # m => y \in T
      PROVE  Coming(x, sent'[q], Len(got'[q]), T)
  BY <1>4, ComingAfter
<1>5. ASSUME NEW q \in Pipes, q # p, NEW x, NEW S, Coming(x, sent[q], Len(got[q]), S)
      PROVE  x # m
  <2>1. sent[q] \in Seq(Msg) /\ Len(got[q]) \in Nat
    BY Flows
  <2>2. PICK i \in 1 .. Len(sent[q]) : sent[q][i] = x
    BY <1>5, <2>1, ComingIsIn
  <2>3. QED
    BY <1>3, <1>5, <2>2
<1>6. ASSUME NEW q \in Pipes, ~pullClosed[q]
      PROVE  \/ /\ pull'[q].msg = pull[q].msg
                /\ pull'[q].at \in {"recvd", "putq"} => pull[q].at \in {"recvd", "putq"}
                /\ pull[q].msg # m
             \/ /\ q = p /\ pull[q].msg = m
                /\ pull'[q].msg = None /\ pull'[q].at \notin {"recvd", "putq"}
  <2>1. CASE q = p
    BY <1>6, <2>1 DEF ComesOut
  <2>2. CASE q # p
    <3>1. /\ pull'[q].msg = pull[q].msg
          /\ pull'[q].at \in {"recvd", "putq"} => pull[q].at \in {"recvd", "putq"}
      BY <1>6, <2>2 DEF ComesOut
    <3>2. CASE pull[q].at \in {"recvd", "putq"}
      <4>1. Coming(pull[q].msg, sent[q], Len(got[q]), Ring)
        BY <1>6, <3>2 DEF OrderInv, PullInv
      <4>2. QED
        BY <1>5, <2>2, <3>1, <4>1
    <3>3. CASE pull[q].at \notin {"recvd", "putq"}
      BY <1>1, <3>1, <3>3 DEF ReadEnds
    <3>4. QED
      BY <3>2, <3>3
  <2>3. QED
    BY <2>1, <2>2
<1>7. PrefixInv'
  <2>1. ASSUME NEW q \in Pipes
        PROVE  /\ Len(got'[q]) <= Len(sent'[q])
               /\ \A i \in 1 .. Len(got'[q]) : got'[q][i] = sent'[q][i]
    <3>1. Len(got[q]) <= Len(sent[q]) /\ \A i \in 1 .. Len(got[q]) : got[q][i] = sent[q][i]
      BY DEF OrderInv, PrefixInv
    <3>2. CASE q # p
      BY <1>1, <1>2, <3>1, <3>2
    <3>3. CASE q = p
      <4>1. Len(sent[p]) \in Nat
        BY Flows
      <4>2. n + 1 <= Len(sent[p])
        BY <1>1, <1>2, <4>1
      <4>3. ASSUME NEW i \in 1 .. n + 1 PROVE got'[p][i] = sent[p][i]
        <5>1. CASE i = n + 1
          BY <1>1, <1>2, <5>1
        <5>2. CASE i # n + 1
          <6>1. i \in 1 .. n
            BY <1>2, <5>2
          <6>2. QED
            BY <1>2, <3>1, <3>3, <6>1 DEF n
        <5>3. QED
          BY <5>1, <5>2
      <4>4. QED
        BY <1>1, <1>2, <3>3, <4>2, <4>3
    <3>4. QED
      BY <3>2, <3>3
  <2>2. QED
    BY <2>1 DEF PrefixInv
<1>8. PullInv'
  <2>1. ASSUME NEW q \in Pipes, pull'[q].at \in {"recvd", "putq"}, ~pullClosed'[q]
        PROVE  Coming(pull'[q].msg, sent'[q], Len(got'[q]), Ring')
    <3>1. ~pullClosed[q]
      BY <1>1, <2>1
    <3>2. pull'[q].msg = pull[q].msg /\ pull[q].at \in {"recvd", "putq"} /\ pull[q].msg # m
      BY <1>6, <2>1, <3>1
    <3>3. Coming(pull[q].msg, sent[q], Len(got[q]), Ring)
      BY <3>1, <3>2 DEF OrderInv, PullInv
    <3>4. pull[q].msg \notin Ring' /\ \A y \in Ring : y # m => y \in Ring'
      <4>1. pull[q].msg \notin Ring
        BY <3>3 DEF Coming
      <4>2. QED
        BY <1>1, <4>1
    <3>5. Coming(pull[q].msg, sent'[q], Len(got'[q]), Ring')
      BY <1>4, <3>2, <3>3, <3>4
    <3>6. QED
      BY <1>1, <3>2, <3>5
  <2>2. QED
    BY <2>1 DEF PullInv
<1>9. \A q \in Pipes : sent[q] \in Seq(Msg) /\ sent'[q] \in Seq(Msg) /\ Len(got[q]) \in Nat
                       /\ Len(got'[q]) \in Nat
  <2> TAKE q \in Pipes
  <2>1. sent[q] \in Seq(Msg) /\ Len(got[q]) \in Nat
    BY Flows
  <2>2. Len(got'[q]) \in Nat
    BY <1>2, <2>1
  <2>3. QED
    BY <1>1, <2>1, <2>2
<1>10. WireInv'
  <2>1. ASSUME NEW q \in Pipes, ~pullClosed'[q], NEW j \in 1 .. Len(wire[q])
        PROVE  Coming(wire[q][j], sent'[q], Len(got'[q]),
                      Ring' \cup {pull'[q].msg} \cup First(wire[q], j - 1))
    <3> DEFINE x == wire[q][j]
               S == Ring \cup {pull[q].msg} \cup First(wire[q], j - 1)
               T == Ring' \cup {pull'[q].msg} \cup First(wire[q], j - 1)
    <3>0. ~pullClosed[q]
      BY <1>1, <2>1
    <3>1. Coming(x, sent[q], Len(got[q]), S)
      BY <3>0 DEF OrderInv, WireInv
    <3>2. S \ {m} \subseteq T /\ T \subseteq S \cup {None}
      BY <1>1, <1>6, <3>0
    <3>3. q = p => m \in S
      BY <1>1
    <3>4. \A k \in 1 .. Len(sent'[q]) : sent'[q][k] # None
      BY <1>9
    <3> HIDE DEF x, S, T
    <3>5. x \in Msg /\ x \notin S
      BY <1>9, <3>1, ComingIsIn
    <3>6. x # m
      BY <1>5, <3>1, <3>3, <3>5
    <3>7. x \notin T /\ \A y \in S : y # m => y \in T
      BY <3>2, <3>5
    <3>8. Coming(x, sent'[q], Len(got'[q]), T)
      BY <1>4, <3>1, <3>6, <3>7
    <3>9. QED
      BY <3>8 DEF x, T
  <2>2. QED
    BY <1>1, <2>1 DEF WireInv
<1>11. ASSUME NEW q \in Pipes, ~pullClosed[q]
       PROVE  Between(q) \ {m} \subseteq Between(q)' /\ Between(q)' \subseteq Between(q) \cup {None}
  BY <1>1, <1>6, <1>11 DEF Between
<1>12. PushInv'
  <2>1. ASSUME NEW q \in Pipes
        PROVE  /\ push'[q].at = "none" => sent'[q] = <<>>
               /\ push'[q].at \notin {"got", "sending"} => push'[q].msg = None
               /\ push'[q].at \in {"got", "sending"} =>
                     /\ Len(sent'[q]) > 0 /\ push'[q].msg = sent'[q][Len(sent'[q])]
                     /\ ~pullClosed'[q] => Len(got'[q]) < Len(sent'[q]) /\ push'[q].msg \notin Between(q)'
               /\ (~pullClosed'[q] /\ push'[q].at # "stopped") =>
                     \A k \in Len(got'[q]) + 1 .. Len(sent'[q]) :
                         sent'[q][k] \in Between(q)' \cup {push'[q].msg}
    <3>1. /\ push[q].at = "none" => sent[q] = <<>>
          /\ push[q].at \notin {"got", "sending"} => push[q].msg = None
          /\ push[q].at \in {"got", "sending"} =>
                /\ Len(sent[q]) > 0 /\ push[q].msg = sent[q][Len(sent[q])]
                /\ ~pullClosed[q] => Len(got[q]) < Len(sent[q]) /\ push[q].msg \notin Between(q)
          /\ (~pullClosed[q] /\ push[q].at # "stopped") =>
                \A k \in Len(got[q]) + 1 .. Len(sent[q]) :
                    sent[q][k] \in Between(q) \cup {push[q].msg}
      BY DEF OrderInv, PushInv
    <3>2. ASSUME push[q].at \in {"got", "sending"}, ~pullClosed[q]
          PROVE  Len(got'[q]) < Len(sent[q]) /\ push[q].msg \notin Between(q)'
      <4>1. Len(sent[q]) \in Nat /\ Len(sent[q]) > 0 /\ push[q].msg = sent[q][Len(sent[q])]
            /\ push[q].msg \in Msg /\ Len(got[q]) < Len(sent[q]) /\ push[q].msg \notin Between(q)
        <5>1. Len(sent[q]) \in Nat /\ Len(sent[q]) > 0 /\ push[q].msg = sent[q][Len(sent[q])]
              /\ Len(got[q]) < Len(sent[q]) /\ push[q].msg \notin Between(q)
          BY <3>1, <3>2, Flows
        <5>2. QED
          BY <1>9, <5>1
      <4>2. push[q].msg \notin Between(q)'
        BY <1>11, <3>2, <4>1
      <4>3. CASE q # p
        BY <1>2, <4>1, <4>2, <4>3
      <4>4. CASE q = p
        <5>1. m \in Between(p)
          BY <1>1 DEF Between
        <5>2. Len(sent[p]) # n + 1
          BY <1>1, <4>1, <4>4, <5>1
        <5>3. n < Len(sent[p])
          BY <4>1, <4>4 DEF n
        <5>4. QED
          BY <1>2, <4>1, <4>2, <4>4, <5>2, <5>3
      <4>5. QED
        BY <4>3, <4>4
    <3>3. ASSUME push[q].at # "stopped", ~pullClosed[q], NEW k \in Len(got'[q]) + 1 .. Len(sent[q])
          PROVE  sent[q][k] \in Between(q)' \cup {push[q].msg}
      <4>1. Len(sent[q]) \in Nat /\ Len(got[q]) \in Nat
        BY Flows
      <4>2. k \in Len(got[q]) + 1 .. Len(sent[q]) /\ k \in 1 .. Len(sent[q]) /\ (q = p => k # n + 1)
        BY <1>2, <4>1 DEF n
      <4>3. sent[q][k] # m
        BY <1>3, <4>2
      <4>4. sent[q][k] \in Between(q) \cup {push[q].msg}
        BY <3>1, <3>3, <4>2
      <4>5. QED
        BY <1>11, <3>3, <4>3, <4>4
    <3>4. QED
      BY <1>1, <3>1, <3>2, <3>3
  <2>2. QED
    BY <2>1 DEF PushInv
<1>13. QED
  BY <1>7, <1>8, <1>10, <1>12 DEF OrderInv

-----------------------------------------------------------------------------
(* What a call of the read queue means to the receivers and the pipes.     *)

\* What came out went to a receiver: it is counted for the pipe through which it was sent.
Gives(m) == got' = [p \in Pipes |-> IF m \in ToSet(sent[p]) THEN Append(got[p], m) ELSE got[p]]

Ends == [Pipes -> [at : PullAt, msg : Msg \cup {None}]]

Asking == [Receivers -> {"idle", "wait"}]

\* A call that gives the message m to the receiver r and to nobody else.
LEMMA OneGiven ==
    ASSUME NEW out, NEW r \in Receivers, NEW m, NEW now, ReadQueueIs(out, now),
           \A d : d \in out.done /\ d.aio \in Receivers /\ d.rv = "ok" <=> d = Done(r, "ok", m)
    PROVE  Gives(m)
<1>1. ASSUME NEW p \in Pipes
      PROVE  /\ m \in ToSet(sent[p]) => GivesOf(out, p) # {}
                                        /\ (CHOOSE d \in GivesOf(out, p) : TRUE).msg = m
             /\ m \notin ToSet(sent[p]) => GivesOf(out, p) = {}
  <2>1. Done(r, "ok", m).msg = m
    BY DEF Done
  <2>2. \A d : d \in GivesOf(out, p) <=> d = Done(r, "ok", m) /\ m \in ToSet(sent[p])
    BY <2>1 DEF GivesOf
  <2>3. QED
    BY <2>1, <2>2
<1>2. got' = [p \in Pipes |-> IF GivesOf(out, p) = {} THEN got[p]
                              ELSE Append(got[p], (CHOOSE d \in GivesOf(out, p) : TRUE).msg)]
  BY DEF ReadQueueIs
<1>3. QED
  BY <1>1, <1>2 DEF Gives

LEMMA NothingGiven ==
    ASSUME ReadTypes, NEW out, NEW now, ReadQueueIs(out, now),
           \A d \in out.done : d.aio \in Receivers => d.rv # "ok"
    PROVE  got' = got
<1>1. \A p \in Pipes : GivesOf(out, p) = {}
  BY DEF GivesOf
<1>2. got' = [p \in Pipes |-> got[p]]
  BY <1>1 DEF ReadQueueIs
<1>3. QED
  BY <1>2 DEF ReadTypes

\* The message of pipe p goes to the receiver r.
LEMMA Arrives ==
    ASSUME ReadTypes, NEW q, NEW p \in Pipes, NEW r \in Receivers, NEW m, NEW now,
           \A x \in Pipes : x # p => now[x] = pull[x],
           NEW asks \in Asking, \A x \in Receivers : x # r => asks[x] = rcv[x],
           NEW out, out.q = q, out.done = Passed(p, m, r), ReadQueueIs(out, now)
    PROVE  /\ urq' = q /\ Gives(m) /\ pull' = [pull EXCEPT ![p] = End("put", None)]
           /\ ReadersOf(out, asks) = [rcv EXCEPT ![r] = "idle"]
<1>1. p # r /\ p \notin Receivers /\ r \notin Pipes
  OBVIOUS
<1>2. out.done = {Done(r, "ok", m), Done(p, "ok", None)}
  BY DEF Passed
<1>3. \A a : (IsDone(out, a) <=> a \in {p, r}) /\ (IsOk(out, a) <=> a \in {p, r})
  BY <1>2 DEF IsDone, IsOk, Done
<1>4. urq' = q
  BY DEF ReadQueueIs
<1>5. pull' = [pull EXCEPT ![p] = End("put", None)]
  <2>1. pull' = [x \in Pipes |-> IF x = p THEN End("put", None) ELSE pull[x]]
    <3>1. \A x \in Pipes : (IsDone(out, x) <=> x = p) /\ (IsOk(out, x) <=> x = p)
      BY <1>1, <1>3
    <3>2. pull' = [x \in Pipes |-> IF ~IsDone(out, x) THEN now[x]
                                ELSE End(IF IsOk(out, x) THEN "put" ELSE "stopped", None)]
      BY DEF ReadQueueIs
    <3>3. QED
      BY <3>1, <3>2
  <2>2. QED
    BY <2>1 DEF ReadTypes
<1>6. ReadersOf(out, asks) = [rcv EXCEPT ![r] = "idle"]
  <2>1. \A x \in Receivers : IsDone(out, x) <=> x = r
    BY <1>1, <1>3
  <2>2. ReadersOf(out, asks) = [x \in Receivers |-> IF x = r THEN "idle" ELSE rcv[x]]
    BY <2>1 DEF ReadersOf
  <2>3. QED
    BY <2>2 DEF ReadTypes
<1>7. Gives(m)
  <2>1. \A d : d \in out.done /\ d.aio \in Receivers /\ d.rv = "ok" <=> d = Done(r, "ok", m)
    BY <1>1, <1>2 DEF Done
  <2>2. QED
    BY <2>1, OneGiven
<1>8. QED
  BY <1>4, <1>5, <1>6, <1>7

LEMMA ArrivesFromRing ==
    ASSUME ReadTypes, NEW q, NEW r \in Receivers, NEW m,
           NEW asks \in Asking, \A x \in Receivers : x # r => asks[x] = rcv[x],
           NEW out, out.q = q, out.done = Taken(m, r), ReadQueueIs(out, pull)
    PROVE  /\ urq' = q /\ Gives(m) /\ pull' = pull
           /\ ReadersOf(out, asks) = [rcv EXCEPT ![r] = "idle"]
<1>1. out.done = {Done(r, "ok", m)} /\ \A x \in Pipes : x # r
  BY DEF Taken
<1>2. \A a : IsDone(out, a) <=> a = r
  BY <1>1 DEF IsDone, Done
<1>3. pull' = pull
  <2>1. pull' = [x \in Pipes |-> pull[x]]
    BY <1>1, <1>2 DEF ReadQueueIs
  <2>2. QED
    BY <2>1 DEF ReadTypes
<1>4. ReadersOf(out, asks) = [rcv EXCEPT ![r] = "idle"]
  <2>1. ReadersOf(out, asks) = [x \in Receivers |-> IF x = r THEN "idle" ELSE rcv[x]]
    BY <1>2 DEF ReadersOf
  <2>2. QED
    BY <2>1 DEF ReadTypes
<1>5. Gives(m)
  <2>1. \A d : d \in out.done /\ d.aio \in Receivers /\ d.rv = "ok" <=> d = Done(r, "ok", m)
    BY <1>1 DEF Done
  <2>2. QED
    BY <2>1, OneGiven
<1>6. QED
  BY <1>3, <1>4, <1>5 DEF ReadQueueIs

LEMMA NothingRead ==
    ASSUME ReadTypes, NEW q, NEW now \in Ends, NEW asks \in Asking,
           NEW out, out.q = q, out.done = {}, ReadQueueIs(out, now)
    PROVE  urq' = q /\ pull' = now /\ got' = got /\ ReadersOf(out, asks) = asks
<1>1. \A a : ~IsDone(out, a)
  BY DEF IsDone
<1>2. pull' = now
  <2>1. pull' = [x \in Pipes |-> now[x]]
    BY <1>1 DEF ReadQueueIs
  <2>2. QED
    BY <2>1 DEF Ends
<1>3. ReadersOf(out, asks) = asks
  <2>1. ReadersOf(out, asks) = [x \in Receivers |-> asks[x]]
    BY <1>1 DEF ReadersOf
  <2>2. QED
    BY <2>1 DEF Asking
<1>4. got' = got
  BY NothingGiven
<1>5. QED
  BY <1>2, <1>3, <1>4 DEF ReadQueueIs

\* What the receivers do when those in T return.
Returned(asks, T) == [x \in Receivers |-> IF x \in T THEN "idle" ELSE asks[x]]

\* The receivers in T get an error.
LEMMA ReceiversFail ==
    ASSUME ReadTypes, NEW q, NEW T, T \subseteq Receivers, NEW asks \in Asking,
           NEW out, out.q = q, \A a : IsDone(out, a) <=> a \in T,
           \A d \in out.done : d.rv # "ok", ReadQueueIs(out, pull)
    PROVE  /\ urq' = q /\ pull' = pull /\ got' = got
           /\ ReadersOf(out, asks) = Returned(asks, T)
<1>1. pull' = pull
  <2>1. \A x \in Pipes : ~IsDone(out, x)
    OBVIOUS
  <2>2. pull' = [x \in Pipes |-> pull[x]]
    BY <2>1 DEF ReadQueueIs
  <2>3. QED
    BY <2>2 DEF ReadTypes
<1>2. got' = got
  BY NothingGiven
<1>3. QED
  BY <1>1, <1>2 DEF ReadQueueIs, ReadersOf, Returned

\* Pipe p gets the error.
LEMMA PutEnds ==
    ASSUME ReadTypes, NEW q, NEW p \in Pipes, NEW m,
           NEW out, out.q = q, out.done = {Done(p, "closed", m)}, ReadQueueIs(out, pull)
    PROVE  urq' = q /\ got' = got /\ pull' = [pull EXCEPT ![p] = End("stopped", None)]
<1>1. \A a : (IsDone(out, a) <=> a = p) /\ ~IsOk(out, a)
  BY DEF IsDone, IsOk, Done
<1>2. pull' = [pull EXCEPT ![p] = End("stopped", None)]
  <2>1. pull' = [x \in Pipes |-> IF x = p THEN End("stopped", None) ELSE pull[x]]
    BY <1>1 DEF ReadQueueIs
  <2>2. QED
    BY <2>1 DEF ReadTypes
<1>3. got' = got
  <2>1. \A d \in out.done : d.rv # "ok"
    BY DEF Done
  <2>2. QED
    BY <2>1, NothingGiven
<1>4. QED
  BY <1>2, <1>3 DEF ReadQueueIs

\* The pipes among the first k writers of w.
Moved(w, k) == {p \in Pipes : \E j \in 1 .. k : w[j].aio = p}

LEMMA PutsDone ==
    ASSUME ReadTypes, NEW q, NEW now \in Ends, NEW w, NEW k \in Nat,
           \A j \in 1 .. k : w[j].aio \in Pipes,
           NEW out, out.q = q, out.done = Stored(w, k), ReadQueueIs(out, now)
    PROVE  /\ urq' = q /\ got' = got /\ ReadersOf(out, rcv) = rcv
           /\ pull' = [p \in Pipes |-> IF p \in Moved(w, k) THEN End("put", None) ELSE now[p]]
<1>1. \A a : (IsDone(out, a) <=> \E j \in 1 .. k : w[j].aio = a)
             /\ (IsOk(out, a) <=> \E j \in 1 .. k : w[j].aio = a)
  <2>1. \A d : d \in out.done <=> \E j \in 1 .. k : d = Done(w[j].aio, "ok", None)
    BY DEF Stored
  <2>2. \A a : Done(a, "ok", None).aio = a /\ Done(a, "ok", None).rv = "ok"
    BY DEF Done
  <2> TAKE a
  <2>3. ASSUME NEW j \in 1 .. k, w[j].aio = a PROVE IsDone(out, a) /\ IsOk(out, a)
    <3>1. Done(a, "ok", None) \in out.done
      BY <2>1, <2>3
    <3>2. QED
      BY <2>2, <3>1 DEF IsDone, IsOk
  <2>4. ASSUME NEW d \in out.done, d.aio = a PROVE \E j \in 1 .. k : w[j].aio = a
    BY <2>1, <2>2, <2>4
  <2>5. QED
    BY <2>3, <2>4 DEF IsDone, IsOk
<1>2. \A x \in Receivers : ~IsDone(out, x)
  BY <1>1
<1>3. \A p \in Pipes : (IsDone(out, p) <=> p \in Moved(w, k)) /\ (IsOk(out, p) <=> p \in Moved(w, k))
  BY <1>1 DEF Moved
<1>4. pull' = [p \in Pipes |-> IF p \in Moved(w, k) THEN End("put", None) ELSE now[p]]
  <2>1. pull' = [p \in Pipes |-> IF ~IsDone(out, p) THEN now[p]
                                ELSE End(IF IsOk(out, p) THEN "put" ELSE "stopped", None)]
    BY DEF ReadQueueIs
  <2>2. QED
    BY <1>3, <2>1
<1>5. ReadersOf(out, rcv) = rcv
  <2>1. ReadersOf(out, rcv) = [x \in Receivers |-> rcv[x]]
    BY <1>2 DEF ReadersOf
  <2>2. QED
    BY <2>1 DEF ReadTypes
<1>6. got' = got
  <2>1. \A d \in out.done : d.aio \notin Receivers
    BY DEF Stored, Done
  <2>2. QED
    BY <2>1, NothingGiven
<1>7. QED
  BY <1>4, <1>5, <1>6 DEF ReadQueueIs

-----------------------------------------------------------------------------
(* What the actions come to on the read side.                              *)

RecvFromRing ==
    /\ urq.items # <<>> /\ urq' = WithItems(urq, Tail(urq.items))
    /\ Gives(Head(urq.items)) /\ UNCHANGED <<pull, rcv>>

RecvFromWriter ==
    /\ urq.items = <<>> /\ urq.putq # <<>> /\ urq' = WithPutq(urq, Tail(urq.putq))
    /\ Gives(Head(urq.putq).msg) /\ UNCHANGED rcv
    /\ pull' = [pull EXCEPT ![Head(urq.putq).aio] = End("put", None)]

RecvWaits(r) ==
    /\ urq.items = <<>> /\ urq.putq = <<>> /\ rcv[r] = "idle"
    /\ urq' = WithGetq(urq, Line(urq, r))
    /\ rcv' = [rcv EXCEPT ![r] = "wait"] /\ UNCHANGED <<pull, got>>

RecvGivesUp(r, i) ==
    /\ rcv[r] = "wait" /\ urq.getq[i] = r
    /\ urq' = WithGetq(urq, RemoveAt(urq.getq, i))
    /\ rcv' = [rcv EXCEPT ![r] = "idle"] /\ UNCHANGED <<pull, got>>

\* A closed pipe frees its message.
Frees(p) ==
    pullClosed[p] /\ pull' = [pull EXCEPT ![p] = End("stopped", None)] /\ UNCHANGED <<urq, rcv, got>>

\* Pipe p gives its message to the first receiver that waits.
HandsToReader(p) ==
    /\ urq.getq # <<>> /\ ~pullClosed[p] /\ urq' = WithGetq(urq, Tail(urq.getq))
    /\ Gives(pull[p].msg) /\ pull' = [pull EXCEPT ![p] = End("put", None)]
    /\ rcv' = [rcv EXCEPT ![Head(urq.getq)] = "idle"]

\* Pipe p joins the writers w, of whom the first k put their messages in the ring.
Stores(p, w, k) ==
    /\ urq.getq = <<>> /\ ~pullClosed[p]
    /\ w = Row(urq, p, pull[p].msg) /\ k = Least(Len(w), Room(urq))
    /\ urq' = WithItems(WithPutq(urq, Drop(w, k)), urq.items \o SubSeq(MsgsOf(w), 1, k))
    /\ pull' = [q \in Pipes |-> IF q \in Moved(w, k) THEN End("put", None)
                                ELSE IF q = p THEN End("putq", pull[p].msg) ELSE pull[q]]
    /\ UNCHANGED <<rcv, got>>

\* The pipe that waits to put its message is taken from its list.
PutStops(p, i) ==
    /\ pull[p].at = "putq" /\ urq.putq[i].aio = p
    /\ urq' = WithPutq(urq, RemoveAt(urq.putq, i))
    /\ pull' = [pull EXCEPT ![p] = End("stopped", None)] /\ UNCHANGED <<rcv, got>>

LEMMA RowIs ==
    ASSUME NEW ws, NEW rs, NEW q \in Queue(ws, rs), NEW a \in ws, NEW m \in Msg,
           Len(q.items) <= q.cap
    PROVE  /\ Row(q, a, m) \in Seq([aio : ws, msg : Msg]) /\ Len(Row(q, a, m)) \in Nat
           /\ Len(Row(q, a, m)) = Len(q.putq) + 1
           /\ \A j \in 1 .. Len(q.putq) : Row(q, a, m)[j] = q.putq[j]
           /\ Row(q, a, m)[Len(q.putq) + 1] = Writer(a, m)
           /\ Least(Len(Row(q, a, m)), Room(q)) \in 0 .. Len(Row(q, a, m))
           /\ Least(Len(Row(q, a, m)), Room(q)) <= q.cap - Len(q.items)
<1> DEFINE W == [aio : ws, msg : Msg]
           x == Writer(a, m)
           n == Len(q.putq)
           w == Row(q, a, m)
<1>1. q.putq \in Seq(W) /\ q.cap \in Nat /\ Len(q.items) \in Nat
  BY DEF Queue
<1>2. x \in W
  BY DEF Writer
<1>3. w = Append(q.putq, x)
  BY DEF Row
<1> HIDE DEF W, x, w
<1>4. /\ w \in Seq(W) /\ Len(w) = n + 1 /\ n \in Nat
      /\ \A i \in 1 .. n + 1 : w[i] = IF i <= n THEN q.putq[i] ELSE x
  BY <1>1, <1>2, <1>3, AppendElements
<1>5. /\ \A j \in 1 .. n : w[j] = q.putq[j]
      /\ w[n + 1] = x
  <2>1. /\ \A j \in 1 .. n : j \in 1 .. n + 1 /\ j <= n
        /\ n + 1 \in 1 .. n + 1 /\ ~(n + 1 <= n)
    BY <1>4
  <2>2. QED
    BY <1>4, <2>1
<1>6. Room(q) \in Nat /\ Room(q) = q.cap - Len(q.items)
  BY <1>1 DEF Room
<1>7. Least(Len(w), Room(q)) \in 0 .. Len(w) /\ Least(Len(w), Room(q)) <= Room(q)
  BY <1>4, <1>6 DEF Least
<1>8. QED
  BY <1>4, <1>5, <1>6, <1>7 DEF W, x, w

LEMMA PutterIs ==
    ASSUME ReadTypes, ReadInv, NEW i \in 1 .. Len(urq.putq)
    PROVE  /\ urq.putq[i] \in [aio : Pipes, msg : Msg] /\ urq.putq[i] \in ToSet(urq.putq)
           /\ urq.putq[i].aio \in Pipes /\ pull[urq.putq[i].aio].at = "putq"
           /\ urq.putq[i].msg = pull[urq.putq[i].aio].msg
<1> DEFINE W == [aio : Pipes, msg : Msg]
<1>1. urq.putq \in Seq(W)
  BY DEF ReadTypes, Queue
<1> HIDE DEF W
<1>2. urq.putq[i] \in W /\ urq.putq[i] \in ToSet(urq.putq)
  BY <1>1, Elements
<1>3. urq.putq[i] \in [aio : Pipes, msg : Msg] /\ urq.putq[i].aio \in Pipes
  BY <1>2 DEF W
<1>4. QED
  BY <1>2, <1>3 DEF ReadInv, ReadLists

\* The first writer, when there is one.
LEMMA FirstPutter ==
    ASSUME ReadTypes, ReadInv, urq.putq # <<>>
    PROVE  /\ Head(urq.putq) \in [aio : Pipes, msg : Msg] /\ Head(urq.putq) \in ToSet(urq.putq)
           /\ Head(urq.putq).aio \in Pipes /\ Head(urq.putq).msg \in Msg
           /\ pull[Head(urq.putq).aio].at = "putq"
           /\ Head(urq.putq).msg = pull[Head(urq.putq).aio].msg
<1> DEFINE W == [aio : Pipes, msg : Msg]
<1>1. urq.putq \in Seq(W)
  BY DEF ReadTypes, Queue
<1> HIDE DEF W
<1>2. 1 \in 1 .. Len(urq.putq) /\ Head(urq.putq) = urq.putq[1]
  BY <1>1
<1>3. urq.putq[1] \in [aio : Pipes, msg : Msg]
  BY <1>2, PutterIs
<1>4. QED
  BY <1>2, <1>3, PutterIs

LEMMA RecvEffect ==
    ASSUME ReadTypes, ReadInv, NEW r \in Receivers, NEW block \in BOOLEAN, Recv(r, block)
    PROVE  UNCHANGED readSide \/ RecvFromRing \/ RecvFromWriter \/ RecvWaits(r)
<1> DEFINE asks == [rcv EXCEPT ![r] = "wait"]
<1>1. rcv[r] = "idle"
  BY DEF Recv
<1>2. PICK out \in AioGet(urq, r, block) : ReadQueueIs(out, pull) /\ rcv' = ReadersOf(out, asks)
  BY DEF Recv
<1>3. /\ urq \in Queue(Pipes, Receivers) /\ ReaderMeansEmpty(urq) /\ pull \in Ends
      /\ rcv \in Asking
  BY DEF ReadTypes, ReadInv, ReadLists, Orderly, Ends, Asking
<1>4. asks \in Asking /\ \A x \in Receivers : x # r => asks[x] = rcv[x]
  BY <1>3 DEF Asking
<1> HIDE DEF asks
<1>5. ASSUME out.q = urq, NEW rv, rv # "ok", out.done = {Done(r, rv, None)}
      PROVE  UNCHANGED readSide
  <2> DEFINE T == {r}
  <2>1. T \subseteq Receivers /\ (\A a : IsDone(out, a) <=> a \in T) /\ \A d \in out.done : d.rv # "ok"
    BY <1>5 DEF IsDone, Done
  <2> HIDE DEF T
  <2>2. /\ urq' = urq /\ pull' = pull /\ got' = got
        /\ ReadersOf(out, asks) = Returned(asks, T)
    BY <1>2, <1>4, <1>5, <2>1, ReceiversFail
  <2>3. rcv' = [x \in Receivers |-> rcv[x]]
    BY <1>1, <1>2, <1>4, <2>2 DEF T, Returned
  <2>4. QED
    BY <1>3, <2>2, <2>3 DEF readSide, Asking
<1>6. [rcv EXCEPT ![r] = "idle"] = rcv
  BY <1>1, <1>3 DEF Asking
<1>7. CASE urq.closed
  <2>1. out = Outcome(urq, {Done(r, "closed", None)})
    BY <1>2, <1>7 DEF AioGet
  <2>2. out.q = urq /\ out.done = {Done(r, "closed", None)}
    BY <2>1, OutcomeParts
  <2>3. QED
    BY <1>5, <2>2
<1>8. CASE ~urq.closed /\ urq.items # <<>>
  <2> DEFINE m == Head(urq.items)
             q == WithItems(urq, Tail(urq.items))
  <2>1. AioGet(urq, r, block) = {Outcome(q, Taken(m, r))}
    BY <1>3, <1>8, GetFromRing
  <2> HIDE DEF q, m
  <2>2. out.q = q /\ out.done = Taken(m, r)
    BY <1>2, <2>1, OutcomeParts
  <2>3. /\ urq' = q /\ Gives(m) /\ pull' = pull
        /\ ReadersOf(out, asks) = [rcv EXCEPT ![r] = "idle"]
    BY <1>2, <1>4, <2>2, ArrivesFromRing
  <2>4. QED
    BY <1>2, <1>6, <1>8, <2>3 DEF RecvFromRing, q, m
<1>9. CASE ~urq.closed /\ urq.items = <<>> /\ urq.putq # <<>>
  <2> DEFINE m == Head(urq.putq).msg
             p == Head(urq.putq).aio
             q == WithPutq(urq, Tail(urq.putq))
  <2>1. AioGet(urq, r, block) = {Outcome(q, Passed(p, m, r))}
    BY <1>3, <1>9, GetFromWriter
  <2>2. p \in Pipes
    BY <1>9, FirstPutter
  <2> HIDE DEF q, m, p
  <2>3. out.q = q /\ out.done = Passed(p, m, r)
    BY <1>2, <2>1, OutcomeParts
  <2>4. /\ urq' = q /\ Gives(m) /\ pull' = [pull EXCEPT ![p] = End("put", None)]
        /\ ReadersOf(out, asks) = [rcv EXCEPT ![r] = "idle"]
    BY <1>2, <1>4, <2>2, <2>3, Arrives
  <2>5. QED
    BY <1>2, <1>6, <1>9, <2>4 DEF RecvFromWriter, q, m, p
<1>10. CASE ~urq.closed /\ urq.items = <<>> /\ urq.putq = <<>> /\ ~MayWait(block)
  <2>1. block = FALSE
    BY <1>10 DEF MayWait
  <2>2. out = Outcome(urq, {Done(r, "timedout", None)})
    BY <1>2, <1>10, <2>1 DEF AioGet
  <2>3. out.q = urq /\ out.done = {Done(r, "timedout", None)}
    BY <2>2, OutcomeParts
  <2>4. QED
    BY <1>5, <2>3
<1>11. CASE ~urq.closed /\ urq.items = <<>> /\ urq.putq = <<>> /\ MayWait(block)
  <2> DEFINE q == WithGetq(urq, Line(urq, r))
  <2>1. AioGet(urq, r, block) = {Outcome(q, {})}
    BY <1>3, <1>11, GetWaits
  <2> HIDE DEF q
  <2>2. out.q = q /\ out.done = {}
    BY <1>2, <2>1, OutcomeParts
  <2>3. urq' = q /\ pull' = pull /\ got' = got /\ ReadersOf(out, asks) = asks
    BY <1>2, <1>3, <1>4, <2>2, NothingRead
  <2>4. QED
    BY <1>1, <1>2, <1>11, <2>3 DEF RecvWaits, q, asks
<1>12. QED
  BY <1>7, <1>8, <1>9, <1>10, <1>11

LEMMA RecvTimeoutEffect ==
    ASSUME ReadTypes, ReadInv, NEW r \in Receivers, RecvTimeout(r)
    PROVE  \E i \in 1 .. Len(urq.getq) : RecvGivesUp(r, i)
<1>1. rcv[r] = "wait"
  BY DEF RecvTimeout
<1>2. urq \in Queue(Pipes, Receivers) /\ rcv \in Asking
  BY DEF ReadTypes, Asking
<1>3. PICK out \in Cancel(urq, r, "timedout") : ReadQueueIs(out, pull) /\ rcv' = ReadersOf(out, rcv)
  BY DEF RecvTimeout
<1>4. Waits(urq, r)
  BY <1>1 DEF ReadInv, ReadLists, ToSet, Waits
<1>5. ~(\E i \in 1 .. Len(urq.putq) : urq.putq[i].aio = r)
  BY PutterIs
<1>6. PICK i \in 1 .. Len(urq.getq) :
          /\ urq.getq[i] = r /\ out.q = WithGetq(urq, RemoveAt(urq.getq, i))
          /\ out.done = {Done(r, "timedout", None)}
  BY <1>2, <1>3, <1>4, <1>5, Cancelled
<1> DEFINE T == {r}
<1>7. T \subseteq Receivers /\ (\A a : IsDone(out, a) <=> a \in T) /\ \A d \in out.done : d.rv # "ok"
  BY <1>6 DEF IsDone, Done
<1> HIDE DEF T
<1>8. /\ urq' = WithGetq(urq, RemoveAt(urq.getq, i)) /\ pull' = pull /\ got' = got
      /\ ReadersOf(out, rcv) = Returned(rcv, T)
  BY <1>2, <1>3, <1>6, <1>7, ReceiversFail
<1>9. rcv' = [rcv EXCEPT ![r] = "idle"]
  BY <1>2, <1>3, <1>8 DEF T, Asking, Returned
<1>10. QED
  BY <1>1, <1>6, <1>8, <1>9 DEF RecvGivesUp

LEMMA PullRecvCbEffect ==
    ASSUME ReadTypes, ReadInv, NEW p \in Pipes, PullRecvCb(p)
    PROVE  /\ pull[p].at = "recvd"
           /\ Frees(p) \/ HandsToReader(p) \/ \E w, k : Stores(p, w, k)
<1> DEFINE m == pull[p].msg
           now == [pull EXCEPT ![p].at = "putq"]
<1>1. pull[p].at = "recvd" /\ m \in Msg
  BY DEF PullRecvCb, ReadInv, ReadEnds
<1>2. PICK out \in AioPut(urq, p, m, TRUE) :
        IF pullClosed[p]
        THEN pull' = [pull EXCEPT ![p] = End("stopped", None)] /\ UNCHANGED <<urq, rcv, got>>
        ELSE ReadQueueIs(out, now) /\ rcv' = ReadersOf(out, rcv)
  BY DEF PullRecvCb
<1>3. CASE pullClosed[p]
  BY <1>1, <1>2, <1>3 DEF Frees
<1>4. /\ urq \in Queue(Pipes, Receivers) /\ ReaderMeansEmpty(urq) /\ pull \in Ends
      /\ rcv \in Asking
  BY DEF ReadTypes, ReadInv, ReadLists, Orderly, Ends, Asking
<1>5. now \in Ends /\ now[p] = End("putq", m) /\ \A x \in Pipes : x # p => now[x] = pull[x]
  BY <1>1, <1>4 DEF Ends, PullAt, End
<1> HIDE DEF m, now
<1>6. CASE ~pullClosed[p] /\ urq.getq # <<>>
  <2> DEFINE r == Head(urq.getq)
             q == WithGetq(urq, Tail(urq.getq))
  <2>1. r \in Receivers
    <3>1. urq.getq \in Seq(Receivers)
      BY <1>4 DEF Queue
    <3>2. QED
      BY <1>6, <3>1
  <2>2. AioPut(urq, p, m, TRUE) = {Outcome(q, Passed(p, m, r))}
    <3>1. urq.getq # <<>>
      BY <1>6
    <3>2. AioPut(urq, p, m, TRUE) =
             {Outcome(WithGetq(urq, Tail(urq.getq)), Passed(p, m, Head(urq.getq)))}
      BY <1>1, <1>4, <3>1, PutToReader
    <3>3. QED
      BY <3>2
  <2> HIDE DEF r, q
  <2>3. out.q = q /\ out.done = Passed(p, m, r)
    <3>1. out = Outcome(q, Passed(p, m, r))
      BY <1>2, <2>2, Zenon
    <3>2. QED
      BY <3>1, OutcomeParts
  <2>4. ReadQueueIs(out, now)
    BY <1>2, <1>6
  <2>5. /\ urq' = q /\ Gives(m) /\ pull' = [pull EXCEPT ![p] = End("put", None)]
        /\ ReadersOf(out, rcv) = [rcv EXCEPT ![r] = "idle"]
    BY <1>4, <1>5, <2>1, <2>3, <2>4, Arrives
  <2>6. rcv' = ReadersOf(out, rcv)
    BY <1>2, <1>6
  <2>7. QED
    BY <1>1, <1>6, <2>5, <2>6 DEF HandsToReader, q, r, m
<1>7. CASE ~pullClosed[p] /\ urq.getq = <<>>
  <2> DEFINE w == Row(urq, p, m)
             k == Least(Len(w), Room(urq))
             q == WithItems(WithPutq(urq, Drop(w, k)), urq.items \o SubSeq(MsgsOf(w), 1, k))
  <2>0. Len(urq.items) <= urq.cap
    BY DEF ReadTypes
  <2>1. AioPut(urq, p, m, TRUE) = {Outcome(q, Stored(w, k))}
    BY <1>1, <1>4, <1>7, <2>0, PutToRing
  <2>2. w \in Seq([aio : Pipes, msg : Msg]) /\ Len(w) \in Nat /\ k \in 0 .. Len(w)
    BY <1>1, <1>4, <2>0, RowIs
  <2>3. k \in Nat /\ \A j \in 1 .. k : w[j].aio \in Pipes
    <3> DEFINE W == [aio : Pipes, msg : Msg]
    <3> HIDE DEF W, w
    <3>1. w \in Seq(W)
      BY <2>2 DEF W
    <3>2. \A j \in 1 .. Len(w) : w[j] \in W
      BY <3>1, ElementOfSeq
    <3>3. k \in Nat /\ \A j \in 1 .. k : j \in 1 .. Len(w)
      BY <2>2
    <3>4. QED
      BY <3>2, <3>3 DEF W
  <2> HIDE DEF w, k, q
  <2>4. out.q = q /\ out.done = Stored(w, k) /\ ReadQueueIs(out, now) /\ rcv' = ReadersOf(out, rcv)
    <3>1. out = Outcome(q, Stored(w, k))
      BY <1>2, <2>1, Zenon
    <3>2. out.q = q /\ out.done = Stored(w, k)
      BY <3>1, OutcomeParts
    <3>3. QED
      BY <1>2, <1>7, <3>2
  <2>5. /\ urq' = q /\ got' = got /\ ReadersOf(out, rcv) = rcv
        /\ pull' = [x \in Pipes |-> IF x \in Moved(w, k) THEN End("put", None) ELSE now[x]]
    BY <1>5, <2>3, <2>4, PutsDone
  <2>6. pull' = [x \in Pipes |-> IF x \in Moved(w, k) THEN End("put", None)
                                 ELSE IF x = p THEN End("putq", m) ELSE pull[x]]
    BY <1>5, <2>5
  <2>7. Stores(p, w, k)
    BY <1>7, <2>4, <2>5, <2>6 DEF Stores, q, w, k, m
  <2>8. QED
    BY <1>1, <2>7
<1>8. QED
  BY <1>3, <1>6, <1>7

LEMMA ClosePullEffect ==
    ASSUME ReadTypes, ReadInv, NEW p \in Pipes, ClosePull(p)
    PROVE  /\ pullClosed' = [pullClosed EXCEPT ![p] = TRUE]
           /\ \/ \E i \in 1 .. Len(urq.putq) : PutStops(p, i)
              \/ pull[p].at # "putq" /\ UNCHANGED readSide
<1>1. PICK out \in Cancel(urq, p, "closed") :
         ReadQueueIs(out, pull) /\ pullClosed' = [pullClosed EXCEPT ![p] = TRUE] /\ rcv' = rcv
  BY DEF ClosePull
<1>2. urq \in Queue(Pipes, Receivers) /\ pull \in Ends /\ rcv \in Asking
  BY DEF ReadTypes, Ends, Asking
<1>3. ~(\E i \in 1 .. Len(urq.getq) : urq.getq[i] = p)
  BY <1>2 DEF Queue
<1>4. CASE \E i \in 1 .. Len(urq.putq) : /\ urq.putq[i].aio = p
              /\ out.q = WithPutq(urq, RemoveAt(urq.putq, i))
              /\ out.done = {Done(p, "closed", urq.putq[i].msg)}
  <2>1. PICK i \in 1 .. Len(urq.putq) : /\ urq.putq[i].aio = p
              /\ out.q = WithPutq(urq, RemoveAt(urq.putq, i))
              /\ out.done = {Done(p, "closed", urq.putq[i].msg)}
    BY <1>4
  <2>2. /\ urq' = WithPutq(urq, RemoveAt(urq.putq, i)) /\ got' = got
        /\ pull' = [pull EXCEPT ![p] = End("stopped", None)]
    BY <1>1, <2>1, PutEnds
  <2>3. pull[p].at = "putq"
    BY <2>1, PutterIs
  <2>4. QED
    BY <1>1, <2>1, <2>2, <2>3 DEF PutStops
<1>5. CASE ~Waits(urq, p) /\ out.q = urq /\ out.done = {}
  <2>1. urq' = urq /\ pull' = pull /\ got' = got
    BY <1>1, <1>2, <1>5, NothingRead
  <2>2. pull[p].at # "putq"
    <3>1. ASSUME pull[p].at = "putq" PROVE FALSE
      <4> DEFINE x == [aio |-> p, msg |-> pull[p].msg]
      <4>1. x \in [aio : Pipes, msg : Msg] /\ x.aio = p /\ x.msg = pull[p].msg
        BY <3>1 DEF ReadInv, ReadEnds
      <4> HIDE DEF x
      <4>2. x \in ToSet(urq.putq)
        BY <3>1, <4>1 DEF ReadInv, ReadLists
      <4>3. QED
        BY <1>5, <4>1, <4>2 DEF Waits, ToSet
    <3>2. QED
      BY <3>1
  <2>3. QED
    BY <1>1, <2>1, <2>2 DEF readSide
<1>6. QED
  BY <1>2, <1>3, <1>4, <1>5, Cancelled

LEMMA CloseReadQueueEffect ==
    ASSUME ReadTypes, ReadInv, CloseReadQueue
    PROVE  /\ urq' = Closed(urq) /\ UNCHANGED <<pull, got>>
           /\ rcv' = [r \in Receivers |-> "idle"] /\ urq.putq = <<>>
           /\ \A p \in Pipes : push[p].at # "none" => pullClosed[p]
<1>1. \A p \in Pipes : push[p].at # "none" => pullClosed[p]
  BY DEF CloseReadQueue, ClosedPipes
<1>2. PICK out \in Close(urq) : ReadQueueIs(out, pull) /\ rcv' = ReadersOf(out, rcv)
  BY DEF CloseReadQueue
<1>3. /\ out.q = Closed(urq)
      /\ out.done = {Done(w.aio, "closed", w.msg) : w \in ToSet(urq.putq)}
                       \cup {Done(r, "closed", None) : r \in ToSet(urq.getq)}
  BY <1>2 DEF Close, Outcome, Closed
<1>4. urq.putq \in Seq([aio : Pipes, msg : Msg]) /\ urq.getq \in Seq(Receivers)
  BY DEF ReadTypes, Queue
<1>5. urq.putq = <<>>
  <2>1. ASSUME urq.putq # <<>> PROVE FALSE
    <3>1. Head(urq.putq).aio \in Pipes /\ pull[Head(urq.putq).aio].at = "putq"
      BY <2>1, FirstPutter
    <3>2. QED
      BY <1>1, <3>1 DEF ReadInv, ReadEnds
  <2>2. QED
    BY <2>1
<1> DEFINE T == {r \in Receivers : rcv[r] = "wait"}
<1>6. ToSet(urq.getq) = T
  <2>1. ToSet(urq.getq) \subseteq Receivers
    BY <1>4, Elements
  <2>2. QED
    BY <2>1 DEF ReadInv, ReadLists
<1>7. T \subseteq Receivers
  OBVIOUS
<1> HIDE DEF T
<1>8. ToSet(urq.putq) = {}
  BY <1>5, EmptyList
<1>9. (\A a : IsDone(out, a) <=> a \in T) /\ \A d \in out.done : d.rv # "ok"
  <2>1. \A d : d \in out.done <=> \E r \in T : d = Done(r, "closed", None)
    BY <1>3, <1>6, <1>8
  <2>2. \A a : Done(a, "closed", None).aio = a /\ Done(a, "closed", None).rv = "closed"
    BY DEF Done
  <2>3. QED
    BY <2>1, <2>2 DEF IsDone
<1>10. rcv \in Asking
  BY DEF ReadTypes, Asking
<1>11. urq' = Closed(urq) /\ pull' = pull /\ got' = got /\ ReadersOf(out, rcv) = Returned(rcv, T)
  BY <1>2, <1>3, <1>7, <1>9, <1>10, ReceiversFail
<1>12. rcv' = [r \in Receivers |-> "idle"]
  BY <1>2, <1>10, <1>11 DEF Returned, T, Asking
<1>13. QED
  BY <1>1, <1>5, <1>11, <1>12

-----------------------------------------------------------------------------
(* The lists of the read queue and what the receivers and pipes are.       *)

LEMMA GivesTypes ==
    ASSUME WriteTypes, ReadTypes, NEW m \in Msg, Gives(m)
    PROVE  got' \in [Pipes -> Seq(Msg)]
<1>1. \A p \in Pipes : got[p] \in Seq(Msg) /\ Append(got[p], m) \in Seq(Msg)
  BY DEF ReadTypes
<1>2. QED
  BY <1>1 DEF Gives

\* A message leaves the ring.
LEMMA ListsFromRing ==
    ASSUME WriteTypes, ReadTypes, ReadInv, RecvFromRing, UNCHANGED <<wire, pullClosed>>
    PROVE  (ReadTypes /\ ReadLists)'
<1> DEFINE t == Tail(urq.items)
<1>1. /\ urq \in Queue(Pipes, Receivers) /\ urq.items \in Seq(Msg) /\ urq.items # <<>>
      /\ urq.cap = RecvCap /\ Len(urq.items) <= RecvCap
  BY DEF ReadTypes, Queue, RecvFromRing
<1>2. t \in Seq(Msg) /\ Len(t) <= Len(urq.items) /\ Head(urq.items) \in Msg /\ Len(t) \in Nat
  BY <1>1
<1>3. urq.getq = <<>>
  BY <1>1 DEF ReadInv, ReadLists, Orderly, ReaderMeansEmpty
<1>4. urq' = WithItems(urq, t) /\ pull' = pull /\ rcv' = rcv /\ Gives(Head(urq.items))
  BY DEF RecvFromRing
<1>5. got' \in [Pipes -> Seq(Msg)]
  BY <1>2, <1>4, GivesTypes
<1> HIDE DEF t
<1>6. /\ urq' \in Queue(Pipes, Receivers) /\ urq'.items = t /\ urq'.getq = <<>>
      /\ urq'.putq = urq.putq /\ urq'.cap = RecvCap
  BY <1>1, <1>2, <1>3, <1>4, OtherItems
<1>7. Len(urq'.items) <= RecvCap
  BY <1>1, <1>2, <1>6
<1>8. ReadTypes'
  BY <1>4, <1>5, <1>6, <1>7 DEF ReadTypes
<1>9. ReadLists'
  BY <1>3, <1>4, <1>6 DEF ReadInv, ReadLists, Orderly, ReaderMeansEmpty
<1>10. QED
  BY <1>8, <1>9

\* A writer leaves its list.
LEMMA ListsPutterLeaves ==
    ASSUME ReadTypes, ReadInv, NEW x \in [aio : Pipes, msg : Msg], x \in ToSet(urq.putq),
           urq.putq # <<>>, NEW t \in Seq([aio : Pipes, msg : Msg]),
           urq' = WithPutq(urq, t), IsInjective(t), ToSet(t) = ToSet(urq.putq) \ {x},
           pull' \in Ends, pull'[x.aio].at # "putq",
           \A q \in Pipes : q # x.aio => pull'[q] = pull[q],
           got' \in [Pipes -> Seq(Msg)], UNCHANGED <<rcv, wire>>,
           pullClosed' \in [Pipes -> BOOLEAN]
    PROVE  (ReadTypes /\ ReadLists)'
<1>1. /\ urq \in Queue(Pipes, Receivers) /\ urq.getq = <<>>
      /\ urq.cap = RecvCap /\ Len(urq.items) <= RecvCap
  BY DEF ReadTypes, ReadInv, ReadLists, Orderly, ReaderMeansEmpty
<1>2. /\ urq' \in Queue(Pipes, Receivers) /\ urq'.putq = t /\ urq'.getq = urq.getq
      /\ urq'.items = urq.items /\ urq'.cap = urq.cap
  <2>1. t \in Seq([aio : Pipes, msg : Msg]) /\ urq \in Queue(Pipes, Receivers)
    BY <1>1
  <2>2. urq' = WithPutq(urq, t)
    OBVIOUS
  <2>3. QED
    BY <2>1, <2>2 DEF WithPutq, Queue
<1>3. ReadTypes'
  BY <1>1, <1>2 DEF ReadTypes, Ends
<1>4. Orderly(urq')
  BY <1>1, <1>2, EmptyList DEF Orderly, ReaderMeansEmpty
<1>5. ASSUME NEW w \in [aio : Pipes, msg : Msg]
      PROVE  w \in ToSet(urq'.putq) <=> pull'[w.aio].at = "putq" /\ w.msg = pull'[w.aio].msg
  <2>1. w \in ToSet(urq.putq) <=> pull[w.aio].at = "putq" /\ w.msg = pull[w.aio].msg
    BY DEF ReadInv, ReadLists
  <2>2. w.aio \in Pipes /\ (w \in ToSet(urq'.putq) <=> w \in ToSet(urq.putq) /\ w # x)
    BY <1>2
  <2>3. CASE w.aio # x.aio
    BY <2>1, <2>2, <2>3
  <2>4. CASE w.aio = x.aio
    <3>1. x.msg = pull[x.aio].msg
      BY DEF ReadInv, ReadLists
    <3>2. w.msg = pull[w.aio].msg => w = x
      <4>1. w = Writer(w.aio, w.msg) /\ x = Writer(x.aio, x.msg)
        BY DEF Writer
      <4>2. QED
        BY <2>4, <3>1, <4>1
    <3>3. QED
      BY <2>1, <2>2, <2>4, <3>2
  <2>5. QED
    BY <2>3, <2>4
<1>6. \A r \in Receivers : r \in ToSet(urq'.getq) <=> rcv'[r] = "wait"
  BY <1>2 DEF ReadInv, ReadLists
<1>7. QED
  BY <1>3, <1>4, <1>5, <1>6 DEF ReadLists

LEMMA ListsFromWriter ==
    ASSUME WriteTypes, ReadTypes, ReadInv, RecvFromWriter, UNCHANGED <<wire, pullClosed>>
    PROVE  (ReadTypes /\ ReadLists)'
<1> DEFINE W == [aio : Pipes, msg : Msg]
           x == Head(urq.putq)
           t == Tail(urq.putq)
<1>1. /\ x \in W /\ x \in ToSet(urq.putq) /\ x.aio \in Pipes /\ x.msg \in Msg
      /\ urq.putq # <<>>
  BY FirstPutter DEF RecvFromWriter
<1>2. urq.putq \in Seq(W) /\ IsInjective(urq.putq)
  BY DEF ReadTypes, Queue, ReadInv, ReadLists, Orderly
<1>3. /\ urq' = WithPutq(urq, t) /\ Gives(x.msg) /\ rcv' = rcv
      /\ pull' = [pull EXCEPT ![x.aio] = End("put", None)]
  BY DEF RecvFromWriter
<1>4. t \in Seq(W) /\ IsInjective(t) /\ ToSet(t) = ToSet(urq.putq) \ {x}
  <2> HIDE DEF W
  <2>1. t \in Seq(W)
    BY <1>1, <1>2
  <2>2. QED
    BY <1>1, <1>2, <2>1, InjectiveTail
<1> HIDE DEF W, x, t
<1>5. got' \in [Pipes -> Seq(Msg)]
  BY <1>1, <1>3, GivesTypes
<1>6. /\ pull' \in Ends /\ pull'[x.aio].at # "putq"
      /\ \A q \in Pipes : q # x.aio => pull'[q] = pull[q]
  BY <1>1, <1>3 DEF ReadTypes, Ends, End, PullAt
<1>7. pullClosed' \in [Pipes -> BOOLEAN]
  BY DEF ReadTypes
<1>8. QED
  BY <1>1, <1>3, <1>4, <1>5, <1>6, <1>7, ListsPutterLeaves DEF W

LEMMA ListsPutStops ==
    ASSUME ReadTypes, ReadInv, NEW p \in Pipes, NEW i \in 1 .. Len(urq.putq), PutStops(p, i),
           UNCHANGED wire, pullClosed' \in [Pipes -> BOOLEAN]
    PROVE  (ReadTypes /\ ReadLists)'
<1> DEFINE W == [aio : Pipes, msg : Msg]
           x == urq.putq[i]
           t == RemoveAt(urq.putq, i)
<1>1. x \in W /\ x \in ToSet(urq.putq) /\ x.aio = p
  BY PutterIs DEF PutStops
<1>2. urq.putq \in Seq(W) /\ IsInjective(urq.putq)
  BY DEF ReadTypes, Queue, ReadInv, ReadLists, Orderly
<1>3. /\ urq' = WithPutq(urq, t) /\ UNCHANGED <<rcv, got>>
      /\ pull' = [pull EXCEPT ![p] = End("stopped", None)]
  BY DEF PutStops
<1> HIDE DEF W
<1>4. t \in Seq(W) /\ IsInjective(t) /\ ToSet(t) = ToSet(urq.putq) \ {x}
  BY <1>2, Removed, InjectiveRemove
<1>5. urq.putq # <<>>
  BY <1>1, EmptyList
<1> HIDE DEF x, t
<1>6. /\ pull' \in Ends /\ pull'[x.aio].at # "putq"
      /\ \A q \in Pipes : q # x.aio => pull'[q] = pull[q]
  BY <1>1, <1>3 DEF ReadTypes, Ends, End, PullAt
<1>7. got' \in [Pipes -> Seq(Msg)]
  BY <1>3 DEF ReadTypes
<1>8. QED
  BY <1>1, <1>3, <1>4, <1>5, <1>6, <1>7, ListsPutterLeaves DEF W

LEMMA ListsRecvWaits ==
    ASSUME ReadTypes, ReadInv, NEW r \in Receivers, RecvWaits(r), UNCHANGED <<wire, pullClosed>>
    PROVE  (ReadTypes /\ ReadLists)'
<1> DEFINE t == Line(urq, r)
<1>1. /\ urq \in Queue(Pipes, Receivers) /\ urq.getq \in Seq(Receivers) /\ IsInjective(urq.getq)
      /\ urq.putq = <<>> /\ urq.items = <<>> /\ urq.cap = RecvCap /\ Len(urq.items) <= RecvCap
  BY DEF ReadTypes, Queue, ReadInv, ReadLists, Orderly, RecvWaits
<1>2. r \notin ToSet(urq.getq)
  BY DEF ReadInv, ReadLists, RecvWaits
<1>3. t \in Seq(Receivers) /\ IsInjective(t) /\ ToSet(t) = ToSet(urq.getq) \cup {r}
  BY <1>1, <1>2, AppendElements, InjectiveAppend DEF Line
<1>4. urq' = WithGetq(urq, t) /\ rcv' = [rcv EXCEPT ![r] = "wait"] /\ UNCHANGED <<pull, got>>
  BY DEF RecvWaits
<1> HIDE DEF t
<1>5. /\ urq' \in Queue(Pipes, Receivers) /\ urq'.getq = t /\ urq'.putq = <<>>
      /\ urq'.items = <<>> /\ urq'.cap = urq.cap
  BY <1>1, <1>3, <1>4, OtherGetq
<1>6. ReadTypes'
  <2>1. rcv' \in [Receivers -> {"idle", "wait"}]
    BY <1>4 DEF ReadTypes
  <2>2. QED
    BY <1>1, <1>4, <1>5, <2>1 DEF ReadTypes
<1>7. Orderly(urq')
  BY <1>3, <1>5, EmptyList DEF Orderly, ReaderMeansEmpty
<1>8. \A w \in [aio : Pipes, msg : Msg] :
          w \in ToSet(urq'.putq) <=> pull'[w.aio].at = "putq" /\ w.msg = pull'[w.aio].msg
  BY <1>1, <1>4, <1>5 DEF ReadInv, ReadLists
<1>9. \A x \in Receivers : x \in ToSet(urq'.getq) <=> rcv'[x] = "wait"
  <2>1. \A x \in Receivers : x \in ToSet(urq.getq) <=> rcv[x] = "wait"
    BY DEF ReadInv, ReadLists
  <2>2. rcv'[r] = "wait" /\ \A x \in Receivers : x # r => rcv'[x] = rcv[x]
    BY <1>4 DEF ReadTypes
  <2>3. QED
    BY <1>3, <1>5, <2>1, <2>2
<1>10. QED
  BY <1>6, <1>7, <1>8, <1>9 DEF ReadLists

\* A reader leaves its list.
LEMMA ListsReaderLeaves ==
    ASSUME ReadTypes, ReadInv, NEW r \in Receivers, r \in ToSet(urq.getq),
           NEW t \in Seq(Receivers), urq' = WithGetq(urq, t), IsInjective(t),
           ToSet(t) = ToSet(urq.getq) \ {r}, rcv' = [rcv EXCEPT ![r] = "idle"],
           pull' \in Ends, got' \in [Pipes -> Seq(Msg)], UNCHANGED <<wire, pullClosed>>,
           \A q \in Pipes : pull'[q] = pull[q] \/ (pull'[q].at # "putq" /\ pull[q].at # "putq")
    PROVE  (ReadTypes /\ ReadLists)'
<1>1. urq.getq # <<>>
  BY EmptyList
<1>2. /\ urq \in Queue(Pipes, Receivers) /\ urq.cap = RecvCap /\ Len(urq.items) <= RecvCap
      /\ urq.putq = <<>> /\ urq.items = <<>>
  BY <1>1 DEF ReadTypes, ReadInv, ReadLists, Orderly, ReaderMeansEmpty
<1>3. /\ urq' \in Queue(Pipes, Receivers) /\ urq'.getq = t /\ urq'.putq = <<>>
      /\ urq'.items = <<>> /\ urq'.cap = urq.cap
  BY <1>2, OtherGetq
<1>4. ReadTypes'
  <2>1. rcv' \in [Receivers -> {"idle", "wait"}]
    BY DEF ReadTypes
  <2>2. QED
    BY <1>2, <1>3, <2>1 DEF ReadTypes, Ends
<1>5. Orderly(urq')
  BY <1>3, EmptyList DEF Orderly, ReaderMeansEmpty
<1>6. ASSUME NEW w \in [aio : Pipes, msg : Msg]
      PROVE  w \in ToSet(urq'.putq) <=> pull'[w.aio].at = "putq" /\ w.msg = pull'[w.aio].msg
  <2>1. w \in ToSet(urq.putq) <=> pull[w.aio].at = "putq" /\ w.msg = pull[w.aio].msg
    BY DEF ReadInv, ReadLists
  <2>2. w.aio \in Pipes
    OBVIOUS
  <2>3. QED
    BY <1>2, <1>3, <2>1, <2>2
<1>7. \A x \in Receivers : x \in ToSet(urq'.getq) <=> rcv'[x] = "wait"
  <2>1. \A x \in Receivers : x \in ToSet(urq.getq) <=> rcv[x] = "wait"
    BY DEF ReadInv, ReadLists
  <2>2. rcv'[r] = "idle" /\ \A x \in Receivers : x # r => rcv'[x] = rcv[x]
    BY DEF ReadTypes
  <2>3. QED
    BY <1>3, <2>1, <2>2
<1>8. QED
  BY <1>4, <1>5, <1>6, <1>7 DEF ReadLists

LEMMA ListsRecvGivesUp ==
    ASSUME ReadTypes, ReadInv, NEW r \in Receivers, NEW i \in 1 .. Len(urq.getq),
           RecvGivesUp(r, i), UNCHANGED <<wire, pullClosed>>
    PROVE  (ReadTypes /\ ReadLists)'
<1> DEFINE t == RemoveAt(urq.getq, i)
<1>1. urq.getq \in Seq(Receivers) /\ IsInjective(urq.getq) /\ urq.getq[i] = r
  BY DEF ReadTypes, Queue, ReadInv, ReadLists, Orderly, RecvGivesUp
<1>2. t \in Seq(Receivers) /\ IsInjective(t) /\ ToSet(t) = ToSet(urq.getq) \ {r}
  BY <1>1, Removed, InjectiveRemove
<1>3. r \in ToSet(urq.getq)
  BY <1>1, Elements
<1>4. /\ urq' = WithGetq(urq, t) /\ rcv' = [rcv EXCEPT ![r] = "idle"] /\ pull' = pull
      /\ got' = got
  BY DEF RecvGivesUp
<1> HIDE DEF t
<1>5. pull' \in Ends /\ got' \in [Pipes -> Seq(Msg)]
  BY <1>4 DEF ReadTypes, Ends
<1>6. \A q \in Pipes : pull'[q] = pull[q] \/ (pull'[q].at # "putq" /\ pull[q].at # "putq")
  BY <1>4
<1>7. QED
  BY <1>2, <1>3, <1>4, <1>5, <1>6, ListsReaderLeaves

LEMMA ListsHands ==
    ASSUME WriteTypes, ReadTypes, ReadInv, NEW p \in Pipes, pull[p].at = "recvd",
           HandsToReader(p), UNCHANGED <<wire, pullClosed>>
    PROVE  (ReadTypes /\ ReadLists)'
<1> DEFINE t == Tail(urq.getq)
           r == Head(urq.getq)
<1>1. urq.getq \in Seq(Receivers) /\ IsInjective(urq.getq) /\ urq.getq # <<>>
  BY DEF ReadTypes, Queue, ReadInv, ReadLists, Orderly, HandsToReader
<1>2. t \in Seq(Receivers) /\ r \in Receivers /\ IsInjective(t) /\ ToSet(t) = ToSet(urq.getq) \ {r}
  BY <1>1, InjectiveTail
<1>3. r \in ToSet(urq.getq)
  BY <1>1, TailElements
<1>4. /\ urq' = WithGetq(urq, t) /\ rcv' = [rcv EXCEPT ![r] = "idle"] /\ Gives(pull[p].msg)
      /\ pull' = [pull EXCEPT ![p] = End("put", None)]
  BY DEF HandsToReader
<1> HIDE DEF t, r
<1>5. pull' \in Ends
  BY <1>4 DEF ReadTypes, Ends, End, PullAt
<1>6. got' \in [Pipes -> Seq(Msg)]
  <2>1. pull[p].msg \in Msg
    BY DEF ReadInv, ReadEnds
  <2>2. QED
    BY <1>4, <2>1, GivesTypes
<1>7. \A q \in Pipes : pull'[q] = pull[q] \/ (pull'[q].at # "putq" /\ pull[q].at # "putq")
  BY <1>4 DEF ReadTypes, End
<1>8. QED
  BY <1>2, <1>3, <1>4, <1>5, <1>6, <1>7, ListsReaderLeaves

\* Nothing happens to the queue.
LEMMA ListsReadQuiet ==
    ASSUME ReadTypes, ReadInv, UNCHANGED <<urq, rcv, got>>, pull' \in Ends,
           wire' \in [Pipes -> Seq(Msg)], pullClosed' \in [Pipes -> BOOLEAN],
           \A q \in Pipes : pull'[q] = pull[q] \/ (pull'[q].at # "putq" /\ pull[q].at # "putq")
    PROVE  (ReadTypes /\ ReadLists)'
<1>1. ReadTypes'
  BY DEF ReadTypes, Ends
<1>2. ASSUME NEW w \in [aio : Pipes, msg : Msg]
      PROVE  w \in ToSet(urq.putq) <=> pull'[w.aio].at = "putq" /\ w.msg = pull'[w.aio].msg
  <2>1. w \in ToSet(urq.putq) <=> pull[w.aio].at = "putq" /\ w.msg = pull[w.aio].msg
    BY DEF ReadInv, ReadLists
  <2>2. w.aio \in Pipes
    OBVIOUS
  <2>3. QED
    BY <2>1, <2>2
<1>3. ReadLists'
  BY <1>2 DEF ReadInv, ReadLists
<1>4. QED
  BY <1>1, <1>3

LEMMA ListsReadClosed ==
    ASSUME ReadTypes, ReadInv, urq' = Closed(urq), rcv' = [r \in Receivers |-> "idle"],
           urq.putq = <<>>, UNCHANGED <<pull, got, wire, pullClosed>>
    PROVE  (ReadTypes /\ ReadLists)'
<1>1. /\ urq' \in Queue(Pipes, Receivers) /\ urq'.items = <<>> /\ urq'.putq = <<>>
      /\ urq'.getq = <<>> /\ urq'.cap = RecvCap
  <2>1. urq \in Queue(Pipes, Receivers) /\ urq.cap = RecvCap
    BY DEF ReadTypes
  <2>2. QED
    BY <2>1, ClosedQueue
<1>2. ReadTypes'
  <2>1. Len(urq'.items) <= RecvCap
    BY <1>1
  <2>2. QED
    BY <1>1, <2>1 DEF ReadTypes
<1>3. Orderly(urq')
  BY <1>1, EmptyList DEF Orderly, ReaderMeansEmpty
<1>4. \A w \in [aio : Pipes, msg : Msg] :
          w \in ToSet(urq'.putq) <=> pull'[w.aio].at = "putq" /\ w.msg = pull'[w.aio].msg
  BY <1>1 DEF ReadInv, ReadLists
<1>5. \A r \in Receivers : r \in ToSet(urq'.getq) <=> rcv'[r] = "wait"
  BY <1>1, EmptyList
<1>6. QED
  BY <1>2, <1>3, <1>4, <1>5 DEF ReadLists

\* What the pipes that waited have put, and the message of the new one.
LEMMA ListsStores ==
    ASSUME ReadTypes, ReadInv, NEW p \in Pipes, pull[p].at = "recvd", NEW w, NEW k,
           Stores(p, w, k), UNCHANGED <<wire, pullClosed>>
    PROVE  /\ (ReadTypes /\ ReadLists)'
           /\ w \in Seq([aio : Pipes, msg : Msg]) /\ k \in 0 .. Len(w)
           /\ urq'.items = urq.items \o SubSeq(MsgsOf(w), 1, k)
           /\ \A j \in 1 .. Len(w) :
                 /\ w[j].aio \in Pipes /\ w[j].msg = pull[w[j].aio].msg
                 /\ pull[w[j].aio].at \in {"recvd", "putq"} /\ ~pullClosed[w[j].aio]
           /\ \A i, j \in 1 .. Len(w) : w[i].aio = w[j].aio => i = j
<1> DEFINE W == [aio : Pipes, msg : Msg]
           m == pull[p].msg
           x == Writer(p, m)
           t == Drop(w, k)
           s == urq.items \o SubSeq(MsgsOf(w), 1, k)
<1>1. /\ urq \in Queue(Pipes, Receivers) /\ urq.putq \in Seq(W) /\ urq.items \in Seq(Msg)
      /\ IsInjective(urq.putq) /\ urq.cap = RecvCap /\ Len(urq.items) <= urq.cap
      /\ m \in Msg
  BY DEF ReadTypes, Queue, ReadInv, ReadLists, ReadEnds, Orderly
<1>2. /\ urq.getq = <<>> /\ ~pullClosed[p] /\ w = Row(urq, p, m) /\ k = Least(Len(w), Room(urq))
      /\ urq' = WithItems(WithPutq(urq, t), s) /\ UNCHANGED <<rcv, got>>
      /\ pull' = [q \in Pipes |-> IF q \in Moved(w, k) THEN End("put", None)
                                  ELSE IF q = p THEN End("putq", m) ELSE pull[q]]
  BY DEF Stores
<1>3. x \in W /\ x.aio = p /\ x.msg = m /\ x \notin ToSet(urq.putq)
  <2>1. x \in W /\ x.aio = p /\ x.msg = m
    BY <1>1 DEF Writer
  <2>2. QED
    BY <2>1 DEF ReadInv, ReadLists
<1>4. /\ w \in Seq(W) /\ Len(w) \in Nat /\ k \in 0 .. Len(w)
      /\ k <= urq.cap - Len(urq.items)
  <2> HIDE DEF m
  <2>1. /\ Row(urq, p, m) \in Seq([aio : Pipes, msg : Msg]) /\ Len(Row(urq, p, m)) \in Nat
        /\ Least(Len(Row(urq, p, m)), Room(urq)) \in 0 .. Len(Row(urq, p, m))
        /\ Least(Len(Row(urq, p, m)), Room(urq)) <= urq.cap - Len(urq.items)
    <3>1. urq \in Queue(Pipes, Receivers) /\ m \in Msg /\ Len(urq.items) <= urq.cap
      BY <1>1
    <3>2. QED
      BY <3>1, RowIs
  <2>2. QED
    BY <1>2, <2>1
<1> HIDE DEF m, x, t, s, W
<1>5. IsInjective(w) /\ ToSet(w) = ToSet(urq.putq) \cup {x}
  <2>1. w = Append(urq.putq, x)
    BY <1>2 DEF Row, x
  <2>2. IsInjective(w)
    BY <1>1, <1>3, <2>1, InjectiveAppend
  <2>3. ToSet(w) = ToSet(urq.putq) \cup {x}
    BY <1>1, <1>3, <2>1, AppendElements
  <2>4. QED
    BY <2>2, <2>3
<1>6. t \in Seq(W) /\ IsInjective(t) /\ ToSet(t) = ToSet(w) \ First(w, k)
  BY <1>4, <1>5, Dropped, InjectiveDrop DEF t
<1>7. MsgsOf(w) \in Seq(Msg) /\ Len(MsgsOf(w)) = Len(w)
  BY <1>4, Messages DEF W
<1>8. SubSeq(MsgsOf(w), 1, k) \in Seq(Msg) /\ Len(SubSeq(MsgsOf(w), 1, k)) = k
  <2>1. /\ 1 \in Int /\ k \in Int /\ k \in Nat
        /\ \A j \in 1 .. k : j \in 1 .. Len(MsgsOf(w))
    BY <1>4, <1>7
  <2>2. \A j \in 1 .. k : MsgsOf(w)[j] \in Msg
    BY <1>7, <2>1, ElementOfSeq
  <2>3. /\ SubSeq(MsgsOf(w), 1, k) \in Seq(Msg)
        /\ Len(SubSeq(MsgsOf(w), 1, k)) = IF 1 <= k THEN k - 1 + 1 ELSE 0
    BY <2>1, <2>2, SubSeqProperties
  <2>4. QED
    BY <2>1, <2>3
<1>9. s \in Seq(Msg) /\ Len(s) = Len(urq.items) + k
  BY <1>1, <1>8, ConcatProperties DEF s
<1>10. /\ urq' \in Queue(Pipes, Receivers) /\ urq'.items = s /\ urq'.putq = t
       /\ urq'.getq = <<>> /\ urq'.cap = RecvCap
  <2> DEFINE u == WithPutq(urq, t)
  <2>1. t \in Seq([aio : Pipes, msg : Msg])
    BY <1>6 DEF W
  <2>2. /\ u \in Queue(Pipes, Receivers) /\ u.putq = t /\ u.getq = <<>> /\ u.cap = RecvCap
    BY <1>1, <1>2, <2>1 DEF WithPutq, Queue
  <2>3. urq' = WithItems(u, s)
    BY <1>2
  <2> HIDE DEF u
  <2>4. QED
    BY <1>9, <2>2, <2>3, OtherItems
<1>11. ASSUME NEW y \in ToSet(w)
       PROVE  /\ y \in [aio : Pipes, msg : Msg] /\ y.aio \in Pipes /\ y.msg = pull[y.aio].msg
              /\ pull[y.aio].at \in {"recvd", "putq"} /\ ~pullClosed[y.aio]
  <2>1. y \in W
    BY <1>4, Elements
  <2>2. y \in [aio : Pipes, msg : Msg] /\ y.aio \in Pipes
    BY <2>1 DEF W
  <2>3. CASE y = x
    BY <1>2, <1>3, <2>2, <2>3 DEF m
  <2>4. CASE y # x
    BY <1>5, <2>2, <2>4 DEF ReadInv, ReadLists, ReadEnds
  <2>5. QED
    BY <2>3, <2>4
<1>12. ASSUME NEW y \in ToSet(w), NEW z \in ToSet(w), y.aio = z.aio PROVE y = z
  <2>1. y \in [aio : Pipes, msg : Msg] /\ z \in [aio : Pipes, msg : Msg] /\ y.msg = z.msg
    BY <1>11, <1>12
  <2>2. y = Writer(y.aio, y.msg) /\ z = Writer(z.aio, z.msg)
    BY <2>1 DEF Writer
  <2>3. QED
    BY <1>12, <2>1, <2>2
<1>13. \A j \in 1 .. Len(w) : w[j] \in ToSet(w)
  BY <1>4, Elements
<1>14. \A i, j \in 1 .. Len(w) : w[i].aio = w[j].aio => i = j
  <2> TAKE i, j \in 1 .. Len(w)
  <2>1. w[i].aio = w[j].aio => w[i] = w[j]
    BY <1>12, <1>13
  <2>2. DOMAIN w = 1 .. Len(w)
    BY <1>4, LenProperties
  <2>3. QED
    BY <1>5, <2>1, <2>2 DEF IsInjective
<1>15. \A y \in ToSet(w) : y \in First(w, k) <=> y.aio \in Moved(w, k)
  <2> TAKE y \in ToSet(w)
  <2>1. \A j \in 1 .. k : j \in 1 .. Len(w)
    BY <1>4
  <2>2. ASSUME y.aio \in Moved(w, k) PROVE y \in First(w, k)
    <3>1. PICK j \in 1 .. k : w[j].aio = y.aio
      BY <2>2 DEF Moved
    <3>2. w[j] = y
      BY <1>12, <1>13, <2>1, <3>1
    <3>3. QED
      BY <3>2 DEF First
  <2>3. ASSUME y \in First(w, k) PROVE y.aio \in Moved(w, k)
    BY <1>11, <2>3 DEF First, Moved
  <2>4. QED
    BY <2>2, <2>3
<1>16. ReadTypes'
  <2>1. pull' \in [Pipes -> [at : PullAt, msg : Msg \cup {None}]]
    <3>1. pull \in [Pipes -> [at : PullAt, msg : Msg \cup {None}]]
      BY DEF ReadTypes
    <3>2. /\ End("put", None) \in [at : PullAt, msg : Msg \cup {None}]
          /\ End("putq", m) \in [at : PullAt, msg : Msg \cup {None}]
      BY <1>1 DEF End, PullAt
    <3>3. QED
      BY <1>2, <3>1, <3>2
  <2>2. Len(urq'.items) <= RecvCap
    <3>1. Len(urq.items) \in Nat /\ urq.cap \in Nat /\ k \in Nat
      BY <1>1, <1>4
    <3>2. QED
      BY <1>1, <1>4, <1>9, <1>10, <3>1
  <2>3. QED
    BY <1>2, <1>10, <2>1, <2>2 DEF ReadTypes
<1>17. ReadLists'
  <2>1. Orderly(urq')
    BY <1>6, <1>10, EmptyList DEF Orderly, ReaderMeansEmpty
  <2>2. ASSUME NEW y \in [aio : Pipes, msg : Msg]
        PROVE  y \in ToSet(t) <=> pull'[y.aio].at = "putq" /\ y.msg = pull'[y.aio].msg
    <3>1. y.aio \in Pipes
      OBVIOUS
    <3>2. CASE y.aio \in Moved(w, k)
      <4>1. pull'[y.aio].at = "put"
        BY <1>2, <3>1, <3>2 DEF End
      <4>2. QED
        BY <1>6, <1>15, <3>2, <4>1
    <3>3. CASE y.aio \notin Moved(w, k)
      <4>1. y \in ToSet(t) <=> y \in ToSet(urq.putq) \/ y = x
        BY <1>5, <1>6, <1>15, <3>3
      <4>2. CASE y.aio = p
        <5>1. pull'[y.aio].at = "putq" /\ pull'[y.aio].msg = m
          BY <1>2, <3>1, <3>3, <4>2 DEF End
        <5>2. y \notin ToSet(urq.putq)
          BY <4>2 DEF ReadInv, ReadLists
        <5>3. y = x <=> y.msg = m
          <6>1. y = Writer(y.aio, y.msg)
            BY DEF Writer
          <6>2. QED
            BY <1>3, <4>2, <6>1 DEF x
        <5>4. QED
          BY <4>1, <5>1, <5>2, <5>3
      <4>3. CASE y.aio # p
        <5>1. pull'[y.aio] = pull[y.aio] /\ y # x
          BY <1>2, <1>3, <3>1, <3>3, <4>3
        <5>2. QED
          BY <4>1, <5>1 DEF ReadInv, ReadLists
      <4>4. QED
        BY <4>2, <4>3
    <3>4. QED
      BY <3>2, <3>3
  <2>3. \A r \in Receivers : r \in ToSet(urq'.getq) <=> rcv'[r] = "wait"
    BY <1>2, <1>10 DEF ReadInv, ReadLists
  <2>4. QED
    BY <1>10, <2>1, <2>2, <2>3 DEF ReadLists
<1>18. \A j \in 1 .. Len(w) :
          /\ w[j].aio \in Pipes /\ w[j].msg = pull[w[j].aio].msg
          /\ pull[w[j].aio].at \in {"recvd", "putq"} /\ ~pullClosed[w[j].aio]
  BY <1>11, <1>13
<1>19. QED
  BY <1>4, <1>10, <1>14, <1>16, <1>17, <1>18 DEF W, s

\* The first of what is coming from p goes to a receiver.
LEMMA NextOut ==
    ASSUME WriteTypes, ReadTypes, MsgInv, NEW p \in Pipes, NEW m, NEW S,
           Coming(m, sent[p], Len(got[p]), S), \A k \in 1 .. Len(sent[p]) : sent[p][k] \notin S,
           Gives(m)
    PROVE  /\ m \in Msg /\ Len(got[p]) + 1 \in 1 .. Len(sent[p])
           /\ sent[p][Len(got[p]) + 1] = m /\ got' = [got EXCEPT ![p] = Append(@, m)]
<1>1. sent[p] \in Seq(Msg) /\ Len(got[p]) \in Nat
  BY Flows
<1>2. m \in Msg
  BY <1>1, ComingIsIn
<1>3. Len(got[p]) + 1 \in 1 .. Len(sent[p]) /\ sent[p][Len(got[p]) + 1] = m
  BY <1>1, ComingFirst
<1>4. \A q \in Pipes : m \in ToSet(sent[q]) <=> q = p
  <2> TAKE q \in Pipes
  <2>1. sent[q] \in Seq(Msg)
    BY Flows
  <2>2. m \in ToSet(sent[q]) <=> \E i \in 1 .. Len(sent[q]) : sent[q][i] = m
    BY <2>1, Elements
  <2>3. QED
    BY <1>3, <2>2, SentOnce
<1>5. got' = [got EXCEPT ![p] = Append(@, m)]
  <2>1. got' = [q \in Pipes |-> IF q = p THEN Append(got[q], m) ELSE got[q]]
    BY <1>4 DEF Gives
  <2>2. QED
    BY <2>1 DEF ReadTypes
<1>6. QED
  BY <1>2, <1>3, <1>5

\* No message is twice in the ring.
LEMMA RingOnce ==
    ASSUME WriteTypes, ReadTypes, OrderInv
    PROVE  IsInjective(urq.items)
<1> DEFINE s == urq.items
<1>1. s \in Seq(Msg) /\ DOMAIN s = 1 .. Len(s) /\ Len(s) \in Nat
  BY LenProperties DEF ReadTypes, Queue
<1>2. \A j \in 1 .. Len(s) : s[j] \notin First(s, j - 1)
  BY DEF OrderInv, RingInv, Coming
<1> HIDE DEF s
<1>3. \A i, j \in 1 .. Len(s) : i < j => s[i] # s[j]
  <2> TAKE i, j \in 1 .. Len(s)
  <2>1. i < j => i \in 1 .. j - 1
    BY <1>1
  <2>2. i < j => s[i] \in First(s, j - 1)
    BY <2>1 DEF First
  <2>3. QED
    BY <1>2, <2>2
<1>4. ASSUME NEW i \in 1 .. Len(s), NEW j \in 1 .. Len(s), s[i] = s[j] PROVE i = j
  <2>1. ~(i < j) /\ ~(j < i)
    BY <1>3, <1>4
  <2>2. QED
    BY <1>1, <2>1
<1>5. QED
  BY <1>1, <1>4 DEF IsInjective, s

LEMMA FromRing ==
    ASSUME WriteTypes, ReadTypes, ReadInv, MsgInv, OrderInv, RecvFromRing,
           UNCHANGED <<sent, wire, push, pullClosed>>
    PROVE  OrderInv' /\ \E p \in Pipes : ComesOut(Head(urq.items), p)
<1> DEFINE s == urq.items
           m == Head(s)
           t == Tail(s)
<1>1. s \in Seq(Msg) /\ s # <<>> /\ urq \in Queue(Pipes, Receivers)
  BY DEF ReadTypes, Queue, RecvFromRing
<1>2. /\ Len(s) \in Nat /\ Len(s) >= 1 /\ m = s[1] /\ m \in Msg /\ t \in Seq(Msg)
      /\ Len(t) = Len(s) - 1 /\ \A i \in 1 .. Len(s) - 1 : t[i] = s[i + 1]
  BY <1>1
<1>3. /\ urq' = WithItems(urq, t) /\ Gives(m) /\ pull' = pull
  BY DEF RecvFromRing
<1>4. urq'.items = t
  BY <1>1, <1>3 DEF WithItems, Queue
<1>5. IsInjective(t) /\ ToSet(t) = ToSet(s) \ {m}
  BY <1>1, RingOnce, InjectiveTail
<1>6. Ring' = Ring \ {m} /\ m \in Ring
  <2>1. Ring' = ToSet(t) /\ Ring = ToSet(s)
    BY <1>4 DEF Ring
  <2>2. m \in ToSet(s)
    BY <1>1, TailElements
  <2>3. QED
    BY <1>5, <2>1, <2>2
<1>7. PICK p \in Pipes : Coming(m, sent[p], Len(got[p]), First(s, 0))
  <2>1. 1 \in 1 .. Len(s) /\ 1 - 1 = 0
    BY <1>2
  <2>2. QED
    BY <1>2, <2>1 DEF OrderInv, RingInv
<1>8. First(s, 0) = {}
  BY DEF First
<1> HIDE DEF s, m, t
<1>9. /\ Len(got[p]) + 1 \in 1 .. Len(sent[p]) /\ sent[p][Len(got[p]) + 1] = m
      /\ got' = [got EXCEPT ![p] = Append(@, m)]
  <2> DEFINE S == First(s, 0)
  <2>1. \A k \in 1 .. Len(sent[p]) : sent[p][k] \notin S
    BY <1>8
  <2> HIDE DEF S
  <2>2. Coming(m, sent[p], Len(got[p]), S)
    BY <1>7 DEF S
  <2>3. QED
    BY <1>3, <2>1, <2>2, NextOut
<1>10. \A q \in Pipes : ~pullClosed[q] => pull[q].msg # m
  <2> TAKE q \in Pipes
  <2>1. CASE pull[q].at \in {"recvd", "putq"} /\ ~pullClosed[q]
    <3>1. Coming(pull[q].msg, sent[q], Len(got[q]), Ring)
      BY <2>1 DEF OrderInv, PullInv
    <3>2. QED
      BY <1>6, <3>1 DEF Coming
  <2>2. CASE pull[q].at \notin {"recvd", "putq"}
    BY <1>2, <2>2 DEF ReadInv, ReadEnds
  <2>3. QED
    BY <2>1, <2>2
<1>11. ComesOut(m, p)
  BY <1>2, <1>3, <1>6, <1>9, <1>10 DEF ComesOut
<1>12. RingInv'
  <2>1. ASSUME NEW j \in 1 .. Len(t)
        PROVE  \E q \in Pipes : Coming(t[j], sent'[q], Len(got'[q]), First(t, j - 1))
    <3> DEFINE S == First(s, j)
               T == First(t, j - 1)
               x == t[j]
    <3>1. /\ j + 1 \in 1 .. Len(s) /\ x = s[j + 1] /\ (j + 1) - 1 = j
          /\ j \in 1 .. Len(s) - 1
      BY <1>2
    <3>2. PICK q \in Pipes : Coming(x, sent[q], Len(got[q]), S)
      <4>1. \A i \in 1 .. Len(s) : \E q \in Pipes :
               Coming(s[i], sent[q], Len(got[q]), First(s, i - 1))
        BY DEF OrderInv, RingInv, s
      <4>2. QED
        BY <3>1, <4>1
    <3>3. x # m
      <4>1. x \in ToSet(t)
        BY <1>2, Elements
      <4>2. QED
        BY <1>5, <4>1
    <3>4. x \notin T
      <4>1. DOMAIN t = 1 .. Len(t) /\ \A i \in 1 .. j - 1 : i \in 1 .. Len(t) /\ i # j
        BY <1>2, LenProperties
      <4>2. QED
        BY <1>5, <4>1 DEF First, IsInjective
    <3>5. \A y \in S : y # m => y \in T
      <4> TAKE y \in S
      <4>1. PICK i \in 1 .. j : y = s[i]
        BY DEF First
      <4>2. CASE i = 1
        BY <1>2, <4>1, <4>2
      <4>3. CASE i # 1
        <5>1. i - 1 \in 1 .. j - 1 /\ i - 1 \in 1 .. Len(s) - 1 /\ (i - 1) + 1 = i
          BY <3>1, <4>3
        <5>2. t[i - 1] = y
          BY <1>2, <4>1, <5>1
        <5>3. QED
          BY <5>1, <5>2 DEF First
      <4>4. QED
        BY <4>2, <4>3
    <3> HIDE DEF S, T, x
    <3>6. Coming(x, sent'[q], Len(got'[q]), T)
      BY <1>11, <3>2, <3>3, <3>4, <3>5, ComingAfter
    <3>7. QED
      BY <3>6 DEF T, x
  <2>2. QED
    BY <1>4, <2>1 DEF RingInv
<1>13. OrderInv'
  BY <1>11, <1>12, OrderComesOut DEF ReadInv
<1>14. QED
  BY <1>11, <1>13 DEF m, s

\* The message of a pipe that has it goes to a receiver, when the ring is empty.
LEMMA FromPipe ==
    ASSUME WriteTypes, ReadTypes, ReadInv, MsgInv, OrderInv, NEW p \in Pipes,
           pull[p].at \in {"recvd", "putq"}, ~pullClosed[p], urq.items = <<>>, urq'.items = <<>>,
           Gives(pull[p].msg), pull' = [pull EXCEPT ![p] = End("put", None)],
           UNCHANGED <<sent, wire, push, pullClosed>>
    PROVE  OrderInv' /\ ComesOut(pull[p].msg, p)
<1> DEFINE m == pull[p].msg
<1>1. Coming(m, sent[p], Len(got[p]), Ring)
  BY DEF OrderInv, PullInv
<1>2. Ring = {} /\ Ring' = {}
  BY EmptyList DEF Ring
<1> HIDE DEF m
<1>3. /\ m \in Msg /\ Len(got[p]) + 1 \in 1 .. Len(sent[p]) /\ sent[p][Len(got[p]) + 1] = m
      /\ got' = [got EXCEPT ![p] = Append(@, m)]
  <2>1. Gives(m) /\ \A k \in 1 .. Len(sent[p]) : sent[p][k] \notin Ring
    BY <1>2 DEF m
  <2>2. QED
    BY <1>1, <2>1, NextOut
<1>4. /\ pull'[p].msg = None /\ pull'[p].at \notin {"recvd", "putq"} /\ pull[p].msg = m
      /\ \A q \in Pipes : q # p => pull'[q] = pull[q]
  BY DEF ReadTypes, End, m
<1>5. ComesOut(m, p)
  BY <1>2, <1>3, <1>4 DEF ComesOut
<1>6. RingInv'
  BY DEF RingInv
<1>7. OrderInv'
  BY <1>5, <1>6, OrderComesOut DEF ReadInv
<1>8. QED
  BY <1>5, <1>7 DEF m

\* The receiving socket is closed: what is between the sockets is lost.
LEMMA OrderCleared ==
    ASSUME WriteTypes, ReadTypes, ReadInv, MsgInv, OrderInv, urq'.items = <<>>,
           UNCHANGED <<sent, got, wire, push, pull, pullClosed>>,
           \A p \in Pipes : push[p].at # "none" => pullClosed[p]
    PROVE  OrderInv'
<1>1. \A p \in Pipes : ~pullClosed[p] =>
         push[p].at = "none" /\ sent[p] = <<>> /\ pull[p].at = "none"
  BY DEF ReadInv, ReadEnds, OrderInv, PushInv
<1>2. \A p \in Pipes : ~pullClosed[p] => \A j \in 1 .. Len(wire[p]) : FALSE
  <2> SUFFICES ASSUME NEW p \in Pipes, ~pullClosed[p], NEW j \in 1 .. Len(wire[p]) PROVE FALSE
    OBVIOUS
  <2> DEFINE S == Ring \cup {pull[p].msg} \cup First(wire[p], j - 1)
             x == wire[p][j]
  <2>1. Coming(x, sent[p], Len(got[p]), S)
    BY DEF OrderInv, WireInv
  <2> HIDE DEF S, x
  <2>2. \E i \in Len(got[p]) + 1 .. Len(sent[p]) : i \in 1 .. Len(sent[p])
    <3>1. sent[p] \in Seq(Msg) /\ Len(got[p]) \in Nat
      BY Flows
    <3>2. QED
      BY <2>1, <3>1, ComingIsIn
  <2>3. Len(sent[p]) = 0
    BY <1>1
  <2>4. QED
    BY <2>2, <2>3
<1>3. PrefixInv'
  BY DEF OrderInv, PrefixInv
<1>4. RingInv'
  BY DEF RingInv
<1>5. PullInv' /\ WireInv'
  BY <1>1, <1>2 DEF PullInv, WireInv
<1>6. PushInv'
  <2>1. \A p \in Pipes : ~pullClosed[p] => \A k \in Len(got[p]) + 1 .. Len(sent[p]) : FALSE
    <3> TAKE p \in Pipes
    <3>1. Len(got[p]) \in Nat
      BY Flows
    <3>2. ~pullClosed[p] => Len(sent[p]) = 0
      BY <1>1
    <3>3. QED
      BY <3>1, <3>2
  <2>2. QED
    BY <1>1, <2>1 DEF OrderInv, PushInv
<1>7. QED
  BY <1>3, <1>4, <1>5, <1>6 DEF OrderInv

\* A message that comes from p came through no other pipe.
LEMMA OneWay ==
    ASSUME WriteTypes, ReadTypes, MsgInv, NEW p \in Pipes, NEW q \in Pipes, p # q,
           NEW x, NEW S, Coming(x, sent[p], Len(got[p]), S)
    PROVE  x \in Msg /\ \A k \in 1 .. Len(sent[q]) : sent[q][k] # x
<1>1. sent[p] \in Seq(Msg) /\ Len(got[p]) \in Nat
  BY Flows
<1>2. x \in Msg /\ \E i \in 1 .. Len(sent[p]) : sent[p][i] = x
  BY <1>1, ComingIsIn
<1>3. QED
  BY <1>2, SentOnce

LEMMA OthersMessage ==
    ASSUME WriteTypes, ReadTypes, MsgInv, OrderInv, NEW p \in Pipes, NEW q \in Pipes, p # q,
           pull[p].at \in {"recvd", "putq"}, ~pullClosed[p]
    PROVE  pull[p].msg \in Msg /\ \A k \in 1 .. Len(sent[q]) : sent[q][k] # pull[p].msg
<1>1. Coming(pull[p].msg, sent[p], Len(got[p]), Ring)
  BY DEF OrderInv, PullInv
<1>2. QED
  BY <1>1, OneWay

\* The pipes in N have put their messages in the ring.
LEMMA OrderStored ==
    ASSUME WriteTypes, ReadTypes, ReadInv, MsgInv, OrderInv, RingInv', NEW N,
           UNCHANGED <<sent, got, wire, push, pullClosed>>,
           \A q \in Pipes : q \in N =>
              /\ pull[q].at \in {"recvd", "putq"} /\ ~pullClosed[q]
              /\ pull'[q].msg = None /\ pull'[q].at \notin {"recvd", "putq"},
           \A q \in Pipes : q \notin N =>
              /\ pull'[q].msg = pull[q].msg
              /\ pull'[q].at \in {"recvd", "putq"} => pull[q].at \in {"recvd", "putq"},
           \A y : y \in Ring' <=> y \in Ring \/ \E q \in Pipes : q \in N /\ y = pull[q].msg
    PROVE  OrderInv'
<1>1. ASSUME NEW q \in Pipes, NEW r \in Pipes, r \in N, r # q
      PROVE  pull[r].msg \in Msg /\ \A k \in 1 .. Len(sent[q]) : sent[q][k] # pull[r].msg
  BY <1>1, OthersMessage
<1>2. PrefixInv'
  BY DEF OrderInv, PrefixInv
<1>3. PullInv'
  <2>1. ASSUME NEW q \in Pipes, pull'[q].at \in {"recvd", "putq"}, ~pullClosed[q]
        PROVE  Coming(pull'[q].msg, sent[q], Len(got[q]), Ring')
    <3> DEFINE x == pull[q].msg
    <3>1. q \notin N /\ pull'[q].msg = x /\ pull[q].at \in {"recvd", "putq"}
      BY <2>1
    <3>2. Coming(x, sent[q], Len(got[q]), Ring)
      BY <2>1, <3>1 DEF OrderInv, PullInv
    <3>3. sent[q] \in Seq(Msg) /\ Len(got[q]) \in Nat
      BY Flows
    <3>4. x \notin Ring /\ \E i \in 1 .. Len(sent[q]) : sent[q][i] = x
      BY <3>2, <3>3, ComingIsIn
    <3>5. x \notin Ring'
      BY <1>1, <3>1, <3>4
    <3> HIDE DEF x
    <3>6. Coming(x, sent[q], Len(got[q]), Ring')
      BY <3>2, <3>3, <3>5, ComingWider
    <3>7. QED
      BY <3>1, <3>6
  <2>2. QED
    BY <2>1 DEF PullInv
<1>4. WireInv'
  <2>1. ASSUME NEW q \in Pipes, ~pullClosed[q], NEW j \in 1 .. Len(wire[q])
        PROVE  Coming(wire[q][j], sent[q], Len(got[q]),
                      Ring' \cup {pull'[q].msg} \cup First(wire[q], j - 1))
    <3> DEFINE x == wire[q][j]
               F == First(wire[q], j - 1)
               S == Ring \cup {pull[q].msg} \cup F
               T == Ring' \cup {pull'[q].msg} \cup F
    <3>1. Coming(x, sent[q], Len(got[q]), S)
      BY <2>1 DEF OrderInv, WireInv
    <3>2. sent[q] \in Seq(Msg) /\ Len(got[q]) \in Nat
      BY Flows
    <3>3. S \subseteq T
      BY Zenon
    <3>4. ASSUME NEW y \in T, y # None, \A r \in Pipes : r \in N /\ r # q => y # pull[r].msg
          PROVE  y \in S
      BY <3>4
    <3> HIDE DEF x, S, T
    <3>5. x \in Msg /\ x \notin S /\ \E i \in 1 .. Len(sent[q]) : sent[q][i] = x
      BY <3>1, <3>2, ComingIsIn
    <3>6. x \notin T
      BY <1>1, <3>4, <3>5
    <3>7. Coming(x, sent[q], Len(got[q]), T)
      BY <3>1, <3>2, <3>3, <3>6, ComingWider
    <3>8. QED
      BY <3>7 DEF x, T
  <2>2. QED
    BY <2>1 DEF WireInv
<1>5. ASSUME NEW q \in Pipes
      PROVE  /\ Between(q) \subseteq Between(q)'
             /\ \A y \in Between(q)' :
                   y # None /\ (\A r \in Pipes : r \in N /\ r # q => y # pull[r].msg) => y \in Between(q)
  BY DEF Between
<1>6. PushInv'
  <2>1. ASSUME NEW q \in Pipes
        PROVE  /\ push[q].at = "none" => sent[q] = <<>>
               /\ push[q].at \notin {"got", "sending"} => push[q].msg = None
               /\ push[q].at \in {"got", "sending"} =>
                     /\ Len(sent[q]) > 0 /\ push[q].msg = sent[q][Len(sent[q])]
                     /\ ~pullClosed[q] => Len(got[q]) < Len(sent[q]) /\ push[q].msg \notin Between(q)'
               /\ (~pullClosed[q] /\ push[q].at # "stopped") =>
                     \A k \in Len(got[q]) + 1 .. Len(sent[q]) :
                         sent[q][k] \in Between(q)' \cup {push[q].msg}
    <3>1. /\ push[q].at = "none" => sent[q] = <<>>
          /\ push[q].at \notin {"got", "sending"} => push[q].msg = None
          /\ push[q].at \in {"got", "sending"} =>
                /\ Len(sent[q]) > 0 /\ push[q].msg = sent[q][Len(sent[q])]
                /\ ~pullClosed[q] => Len(got[q]) < Len(sent[q]) /\ push[q].msg \notin Between(q)
          /\ (~pullClosed[q] /\ push[q].at # "stopped") =>
                \A k \in Len(got[q]) + 1 .. Len(sent[q]) :
                    sent[q][k] \in Between(q) \cup {push[q].msg}
      BY DEF OrderInv, PushInv
    <3>2. ASSUME push[q].at \in {"got", "sending"}, ~pullClosed[q]
          PROVE  push[q].msg \notin Between(q)'
      <4> DEFINE x == push[q].msg
                 n == Len(sent[q])
      <4>1. sent[q] \in Seq(Msg) /\ n \in Nat
        BY Flows
      <4>2. x = sent[q][n] /\ n \in 1 .. n /\ x \notin Between(q)
        BY <3>1, <3>2, <4>1
      <4>3. x \in Msg
        BY <4>1, <4>2
      <4>4. \A r \in Pipes : r \in N /\ r # q => x # pull[r].msg
        BY <1>1, <4>2
      <4> HIDE DEF x, n
      <4>5. QED
        BY <1>5, <4>2, <4>3, <4>4 DEF x
    <3>3. QED
      BY <1>5, <3>1, <3>2
  <2>2. QED
    BY <2>1 DEF PushInv
<1>7. QED
  BY <1>2, <1>3, <1>4, <1>6 DEF OrderInv

LEMMA OrderStores ==
    ASSUME WriteTypes, ReadTypes, ReadInv, MsgInv, OrderInv, NEW p \in Pipes,
           pull[p].at = "recvd", NEW w, NEW k, Stores(p, w, k),
           UNCHANGED <<sent, wire, push, pullClosed>>
    PROVE  OrderInv'
<1> DEFINE L == Len(urq.items)
           W == [aio : Pipes, msg : Msg]
           b == SubSeq(MsgsOf(w), 1, k)
           s == urq.items \o b
<1>1. /\ w \in Seq(W) /\ k \in 0 .. Len(w) /\ urq'.items = s
      /\ \A j \in 1 .. Len(w) :
            /\ w[j].aio \in Pipes /\ w[j].msg = pull[w[j].aio].msg
            /\ pull[w[j].aio].at \in {"recvd", "putq"} /\ ~pullClosed[w[j].aio]
      /\ \A i, j \in 1 .. Len(w) : w[i].aio = w[j].aio => i = j
  <2>1. UNCHANGED <<wire, pullClosed>>
    OBVIOUS
  <2>2. w \in Seq([aio : Pipes, msg : Msg]) /\ k \in 0 .. Len(w)
    BY <2>1, ListsStores
  <2>3. urq'.items = urq.items \o SubSeq(MsgsOf(w), 1, k)
    BY <2>1, ListsStores
  <2>4. \A j \in 1 .. Len(w) :
            /\ w[j].aio \in Pipes /\ w[j].msg = pull[w[j].aio].msg
            /\ pull[w[j].aio].at \in {"recvd", "putq"} /\ ~pullClosed[w[j].aio]
    BY <2>1, ListsStores
  <2>5. \A i, j \in 1 .. Len(w) : w[i].aio = w[j].aio => i = j
    BY <2>1, ListsStores
  <2>6. QED
    BY <2>2, <2>3, <2>4, <2>5
<1>2. /\ got' = got
      /\ pull' = [q \in Pipes |-> IF q \in Moved(w, k) THEN End("put", None)
                                  ELSE IF q = p THEN End("putq", pull[p].msg) ELSE pull[q]]
  BY DEF Stores
<1>3. /\ MsgsOf(w) \in Seq(Msg) /\ Len(MsgsOf(w)) = Len(w)
      /\ \A i \in 1 .. Len(w) : MsgsOf(w)[i] = w[i].msg
  BY <1>1, Messages
<1>4. Len(w) \in Nat /\ k \in Nat /\ (\A j \in 1 .. k : j \in 1 .. Len(w)) /\ urq.items \in Seq(Msg)
      /\ L \in Nat
  BY <1>1, LenProperties DEF ReadTypes, Queue
<1> HIDE DEF W
<1>5. b \in Seq(Msg) /\ Len(b) = k /\ \A j \in 1 .. k : b[j] = w[j].msg
  <2>1. \A j \in 1 .. k : MsgsOf(w)[j] \in Msg
    BY <1>3, <1>4, ElementOfSeq
  <2>2. 1 \in Int /\ k \in Int
    BY <1>4
  <2>3. /\ b \in Seq(Msg) /\ Len(b) = IF 1 <= k THEN k - 1 + 1 ELSE 0
        /\ \A j \in 1 .. k - 1 + 1 : b[j] = MsgsOf(w)[1 + j - 1]
    BY <2>1, <2>2, SubSeqProperties
  <2>4. \A j \in 1 .. k : j \in 1 .. k - 1 + 1 /\ 1 + j - 1 = j
    BY <1>4
  <2>5. QED
    BY <1>3, <1>4, <2>3, <2>4
<1> HIDE DEF b
<1>6. /\ s \in Seq(Msg) /\ Len(s) = L + k
      /\ \A i \in 1 .. L + k : s[i] = IF i <= L THEN urq.items[i] ELSE b[i - L]
  <2>1. /\ s \in Seq(Msg) /\ Len(s) = L + Len(b)
        /\ \A i \in 1 .. L + Len(b) : s[i] = IF i <= L THEN urq.items[i] ELSE b[i - L]
    <3> DEFINE a == urq.items
    <3>1. a \in Seq(Msg) /\ b \in Seq(Msg)
      BY <1>4, <1>5
    <3> HIDE DEF a
    <3>2. /\ a \o b \in Seq(Msg) /\ Len(a \o b) = Len(a) + Len(b)
          /\ \A i \in 1 .. Len(a) + Len(b) : (a \o b)[i] = IF i <= Len(a) THEN a[i] ELSE b[i - Len(a)]
      BY <3>1, ConcatProperties
    <3>3. QED
      BY <3>2 DEF a
  <2> HIDE DEF L, s
  <2>2. QED
    BY <1>5, <2>1
<1> HIDE DEF L, s
<1>7. /\ \A i \in 1 .. L : s[i] = urq.items[i]
      /\ \A j \in 1 .. k : s[L + j] = w[j].msg
  <2>1. \A i \in 1 .. L : i \in 1 .. L + k /\ i <= L
    BY <1>4
  <2>2. \A j \in 1 .. k : L + j \in 1 .. L + k /\ ~(L + j <= L) /\ (L + j) - L = j
    BY <1>4
  <2>3. QED
    BY <1>5, <1>6, <2>1, <2>2
<1>8. Ring = {urq.items[i] : i \in 1 .. L} /\ Ring' = {s[i] : i \in 1 .. L + k}
  BY <1>1, <1>4, <1>6, Elements DEF Ring, L
<1>9. \A q \in Pipes : q \in Moved(w, k) <=> \E j \in 1 .. k : w[j].aio = q
  BY DEF Moved
<1>10. ASSUME NEW j \in 1 .. k
       PROVE  /\ w[j].aio \in Pipes /\ w[j].aio \in Moved(w, k) /\ w[j].msg = pull[w[j].aio].msg
              /\ Coming(w[j].msg, sent[w[j].aio], Len(got[w[j].aio]), Ring)
  <2>1. j \in 1 .. Len(w)
    BY <1>4
  <2>2. QED
    BY <1>1, <1>9, <2>1 DEF OrderInv, PullInv
<1>11. \A y : y \in Ring' <=> y \in Ring \/ \E q \in Pipes : q \in Moved(w, k) /\ y = pull[q].msg
  <2>1. ASSUME NEW y \in Ring' PROVE y \in Ring \/ \E q \in Pipes : q \in Moved(w, k) /\ y = pull[q].msg
    <3>1. PICK i \in 1 .. L + k : y = s[i]
      BY <1>8
    <3>2. CASE i \in 1 .. L
      BY <1>7, <1>8, <3>1, <3>2
    <3>3. CASE i \notin 1 .. L
      <4>1. i - L \in 1 .. k /\ L + (i - L) = i
        BY <1>4, <3>3
      <4>2. y = w[i - L].msg
        BY <1>7, <3>1, <4>1
      <4>3. QED
        BY <1>10, <4>1, <4>2
    <3>4. QED
      BY <3>2, <3>3
  <2>2. ASSUME NEW y \in Ring PROVE y \in Ring'
    <3>1. PICK i \in 1 .. L : y = urq.items[i]
      BY <1>8
    <3>2. i \in 1 .. L + k
      BY <1>4
    <3>3. QED
      BY <1>7, <1>8, <3>1, <3>2
  <2>3. ASSUME NEW q \in Pipes, q \in Moved(w, k) PROVE pull[q].msg \in Ring'
    <3>1. PICK j \in 1 .. k : w[j].aio = q
      BY <1>9, <2>3
    <3>2. L + j \in 1 .. L + k
      BY <1>4
    <3>3. s[L + j] = pull[q].msg
      BY <1>7, <1>10, <3>1
    <3>4. QED
      BY <1>8, <3>2, <3>3
  <2>4. QED
    BY <2>1, <2>2, <2>3
<1>12. RingInv'
  <2>1. ASSUME NEW i \in 1 .. L + k
        PROVE  \E q \in Pipes : Coming(s[i], sent[q], Len(got[q]), First(s, i - 1))
    <3>1. CASE i \in 1 .. L
      <4>1. First(s, i - 1) = First(urq.items, i - 1)
        <5>1. \A n \in 1 .. i - 1 : n \in 1 .. L
          BY <1>4, <3>1
        <5>2. QED
          BY <1>7, <5>1 DEF First
      <4>2. QED
        BY <1>7, <3>1, <4>1 DEF OrderInv, RingInv, L
    <3>2. CASE i \notin 1 .. L
      <4> DEFINE j == i - L
                 x == w[j].msg
                 q == w[j].aio
                 T == First(s, i - 1)
      <4>1. j \in 1 .. k /\ L + j = i
        BY <1>4, <3>2
      <4>2. s[i] = x /\ q \in Pipes /\ Coming(x, sent[q], Len(got[q]), Ring)
        BY <1>7, <1>10, <4>1
      <4>3. Ring \subseteq T
        <5>1. \A n \in 1 .. L : n \in 1 .. i - 1
          BY <1>4, <3>2
        <5>2. QED
          BY <1>7, <1>8, <5>1 DEF First
      <4>4. sent[q] \in Seq(Msg) /\ Len(got[q]) \in Nat
        BY <4>2, Flows
      <4>5. x \notin Ring /\ \E n \in 1 .. Len(sent[q]) : sent[q][n] = x
        BY <4>2, <4>4, ComingIsIn
      <4>6. x \notin T
        <5>1. SUFFICES ASSUME NEW n \in 1 .. i - 1, s[n] = x PROVE FALSE
          BY DEF First
        <5>2. CASE n \in 1 .. L
          BY <1>7, <1>8, <4>5, <5>1, <5>2
        <5>3. CASE n \notin 1 .. L
          <6> DEFINE h == n - L
          <6>1. h \in 1 .. k /\ L + h = n /\ h # j /\ h \in 1 .. Len(w) /\ j \in 1 .. Len(w)
            BY <1>4, <4>1, <5>3
          <6> HIDE DEF h, j
          <6>2. w[h].msg = x /\ w[h].aio \in Pipes /\ w[h].aio # q
                /\ Coming(w[h].msg, sent[w[h].aio], Len(got[w[h].aio]), Ring)
            BY <1>1, <1>7, <1>10, <5>1, <6>1
          <6>3. \A m \in 1 .. Len(sent[q]) : sent[q][m] # w[h].msg
            BY <4>2, <6>2, OneWay
          <6>4. QED
            BY <4>5, <6>2, <6>3
        <5>4. QED
          BY <5>2, <5>3
      <4> HIDE DEF x, q, T
      <4>7. Coming(x, sent[q], Len(got[q]), T)
        BY <4>2, <4>3, <4>4, <4>6, ComingWider
      <4>8. QED
        BY <4>2, <4>7 DEF T
    <3>3. QED
      BY <3>1, <3>2
  <2>2. QED
    BY <1>1, <1>2, <1>6, <2>1 DEF RingInv
<1>13. ASSUME NEW q \in Pipes
       PROVE  /\ q \in Moved(w, k) =>
                   /\ pull[q].at \in {"recvd", "putq"} /\ ~pullClosed[q]
                   /\ pull'[q].msg = None /\ pull'[q].at \notin {"recvd", "putq"}
              /\ q \notin Moved(w, k) =>
                   /\ pull'[q].msg = pull[q].msg
                   /\ pull'[q].at \in {"recvd", "putq"} => pull[q].at \in {"recvd", "putq"}
  <2>1. CASE q \in Moved(w, k)
    <3>1. pull'[q] = End("put", None)
      BY <1>2, <2>1
    <3>2. PICK j \in 1 .. k : w[j].aio = q
      BY <1>9, <2>1
    <3>3. j \in 1 .. Len(w)
      BY <1>4
    <3>4. QED
      BY <1>1, <2>1, <3>1, <3>2, <3>3 DEF End
  <2>2. CASE q \notin Moved(w, k)
    <3>1. pull'[q] = IF q = p THEN End("putq", pull[p].msg) ELSE pull[q]
      BY <1>2, <2>2
    <3>2. QED
      BY <2>2, <3>1 DEF End
  <2>3. QED
    BY <2>1, <2>2
<1>14. QED
  BY <1>2, <1>11, <1>12, <1>13, OrderStored

-----------------------------------------------------------------------------
(* Each action keeps the invariant.                                        *)

LEMMA MsgQuiet ==
    ASSUME MsgInv, UNCHANGED <<snd, sent, accepted, failed>>
    PROVE  MsgInv'
BY DEF MsgInv

\* A step that touches no list of the write queue.
LEMMA WriteQuiet ==
    ASSUME WriteTypes, WriteInv, UNCHANGED <<uwq, snd, sent, accepted, failed, pushClosed>>,
           sock.push # "open" => sock'.push # "open",
           push' \in [Pipes -> [at : PushAt, msg : Msg \cup {None}]],
           \A p \in Pipes : \/ push'[p] = push[p]
                            \/ /\ push[p].at \notin {"none", "getq"} /\ push'[p].at \notin {"none", "getq"}
                               /\ push'[p].at = "stopped" => pushClosed[p]
    PROVE  WriteTypes' /\ WriteInv'
<1>1. WriteTypes'
  BY DEF WriteTypes
<1>2. WriteLists'
  <2>1. \A p \in Pipes : p \in ToSet(uwq.getq) <=> push'[p].at = "getq"
    BY DEF WriteInv, WriteLists
  <2>2. QED
    BY <2>1 DEF WriteInv, WriteLists
<1>3. WriteEnds'
  BY DEF WriteInv, WriteEnds
<1>4. QED
  BY <1>1, <1>2, <1>3 DEF WriteInv

\* A step that touches nothing of the receiving side but the wire.
LEMMA ReadQuiet ==
    ASSUME ReadTypes, ReadInv, UNCHANGED <<urq, rcv, pull, got, pullClosed>>,
           wire' \in [Pipes -> Seq(Msg)],
           \A p \in Pipes : push'[p].at = "none" => push[p].at = "none"
    PROVE  ReadTypes' /\ ReadInv'
<1>1. ReadTypes'
  BY DEF ReadTypes
<1>2. ReadLists' /\ ReadEnds'
  BY DEF ReadInv, ReadLists, ReadEnds
<1>3. QED
  BY <1>1, <1>2 DEF ReadInv

\* What pipe p, which takes the next message or waits for one, becomes.
LEMMA NextEnds ==
    ASSUME WriteTypes, WriteInv, NEW p \in Pipes, UNCHANGED <<sock, pushClosed>>,
           uwq'.closed = uwq.closed, ~uwq.closed, ~pushClosed[p],
           \A q \in Pipes : q # p => push'[q] = push[q], push'[p].at \in {"got", "getq"}
    PROVE  WriteEnds'
<1>1. \A q \in Pipes : /\ push'[q].at = "stopped" => pushClosed[q]
                       /\ push'[q].at = "getq" => ~pushClosed[q]
                       /\ push'[q].at = "none" => ~pushClosed[q]
  BY DEF WriteInv, WriteEnds
<1>2. QED
  BY <1>1 DEF WriteEnds

LEMMA SendFindStep ==
    ASSUME IInv, NEW s \in Senders, SendFind(s)
    PROVE  IInv'
<1>1. WriteTypes /\ WriteInv /\ ReadTypes /\ ReadInv /\ SockTypes /\ MsgInv /\ OrderInv
  BY DEF IInv
<1>2. PICK m \in Msg : MsgInv' /\ snd' = [snd EXCEPT ![s] = End("found", m)]
  BY <1>1, MsgFind
<1>3. snd[s].at = "idle" /\ UNCHANGED <<uwq, urq, sock, rcv, push, pull, pushClosed, pullClosed, wire,
                                        sent, accepted, failed, got>>
  BY DEF SendFind, queues, ends, history
<1>4. WriteTypes'
  <2>1. snd' \in [Senders -> [at : {"idle", "found", "wait"}, msg : Msg \cup {None}]]
    BY <1>1, <1>2 DEF WriteTypes, End
  <2>2. QED
    BY <1>1, <1>3, <2>1 DEF WriteTypes
<1>5. WriteLists'
  <2>1. \A t \in Senders : snd'[t] = snd[t] \/ (snd[t].at # "wait" /\ snd'[t].at # "wait")
    BY <1>1, <1>2, <1>3 DEF WriteTypes, End
  <2>2. ASSUME NEW w \in [aio : Senders, msg : Msg]
        PROVE  w \in ToSet(uwq.putq) <=> snd'[w.aio].at = "wait" /\ w.msg = snd'[w.aio].msg
    <3>1. w.aio \in Senders /\ (w \in ToSet(uwq.putq) <=> snd[w.aio].at = "wait" /\ w.msg = snd[w.aio].msg)
      BY <1>1 DEF WriteInv, WriteLists
    <3>2. QED
      BY <2>1, <3>1
  <2>3. QED
    BY <1>1, <1>3, <2>2 DEF WriteInv, WriteLists
<1>6. WriteEnds'
  BY <1>1, <1>3 DEF WriteInv, WriteEnds
<1>7. ReadTypes' /\ ReadInv'
  <2>1. wire' \in [Pipes -> Seq(Msg)]
    BY <1>1, <1>3 DEF ReadTypes
  <2>2. QED
    BY <1>1, <1>3, <2>1, ReadQuiet
<1>8. OrderInv'
  BY <1>1, <1>3, OrderKept
<1>9. QED
  BY <1>1, <1>2, <1>3, <1>4, <1>5, <1>6, <1>7, <1>8 DEF IInv, WriteInv, SockTypes

LEMMA SendPutStep ==
    ASSUME IInv, NEW s \in Senders, SendPut(s)
    PROVE  IInv'
<1>1. WriteTypes /\ WriteInv /\ ReadTypes /\ ReadInv /\ SockTypes /\ MsgInv /\ OrderInv
  BY DEF IInv
<1>2. snd[s].at = "found" /\ UNCHANGED <<urq, rcv, pull, got, sock, pushClosed, pullClosed, wire>>
  BY DEF SendPut, readSide
<1>3. wire' \in [Pipes -> Seq(Msg)] /\ UNCHANGED pushClosed
  BY <1>1, <1>2 DEF ReadTypes
<1>4. CASE SendsAtOnce(s)
  <2> DEFINE p == Head(uwq.getq)
  <2>1. WriteTypes' /\ WriteLists' /\ uwq'.closed = uwq.closed /\ p \in Pipes /\ push[p].at = "getq"
    BY <1>1, <1>3, <1>4, ListsSendAtOnce
  <2>2. HandOver(s, p)
    BY <1>4 DEF SendsAtOnce
  <2> HIDE DEF p
  <2>3. push'[p].at = "got" /\ \A q \in Pipes : q # p => push'[q] = push[q]
    BY <1>1, <2>1, <2>2 DEF HandOver, WriteTypes, End
  <2>4. WriteEnds'
    BY <1>1, <1>2, <2>1, <2>3 DEF WriteInv, WriteEnds
  <2>5. MsgInv'
    BY <1>1, <1>2, <2>1, <2>2, MsgHandOver
  <2>6. ReadTypes' /\ ReadInv'
    BY <1>1, <1>2, <1>3, <2>3, ReadQuiet
  <2>7. OrderInv'
    <3>1. urq'.items = urq.items /\ snd[s].at # "idle" /\ push[p].at \in {"none", "getq", "sent"}
          /\ UNCHANGED <<got, wire, pullClosed>>
      BY <1>2, <2>1
    <3>2. \A q \in Pipes : /\ pull'[q].msg = pull[q].msg
                           /\ pull'[q].at \in {"recvd", "putq"} => pull[q].at \in {"recvd", "putq"}
      BY <1>2
    <3>3. ReadEnds
      BY <1>1 DEF ReadInv
    <3>4. QED
      BY <1>1, <2>1, <2>2, <3>1, <3>2, <3>3, OrderHandOver
  <2>8. QED
    BY <1>1, <1>2, <2>1, <2>4, <2>5, <2>6, <2>7 DEF IInv, WriteInv, SockTypes
<1>5. CASE SendWaits(s)
  <2>1. WriteTypes' /\ WriteLists' /\ uwq'.closed = uwq.closed
    BY <1>1, <1>3, <1>5, ListsSendWaits
  <2>2. MsgInv'
    BY <1>1, <1>5, MsgWaits
  <2>3. UNCHANGED <<push, sent, accepted, failed>>
    BY <1>5 DEF SendWaits
  <2>4. WriteEnds'
    BY <1>1, <1>2, <2>1, <2>3 DEF WriteInv, WriteEnds
  <2>5. ReadTypes' /\ ReadInv'
    BY <1>1, <1>2, <1>3, <2>3, ReadQuiet
  <2>6. OrderInv'
    BY <1>1, <1>2, <2>3, OrderKept
  <2>7. QED
    BY <1>1, <1>2, <2>1, <2>2, <2>4, <2>5, <2>6 DEF IInv, WriteInv, SockTypes
<1>6. QED
  BY <1>1, <1>4, <1>5, SendPutEffect

LEMMA SendTimeoutStep ==
    ASSUME IInv, NEW s \in Senders, SendTimeout(s)
    PROVE  IInv'
<1>1. WriteTypes /\ WriteInv /\ ReadTypes /\ ReadInv /\ SockTypes /\ MsgInv /\ OrderInv
  BY DEF IInv
<1>2. UNCHANGED <<urq, rcv, pull, got, sock, push, pushClosed, pullClosed, wire>>
  BY DEF SendTimeout, readSide
<1>3. wire' \in [Pipes -> Seq(Msg)] /\ UNCHANGED pushClosed
  BY <1>1, <1>2 DEF ReadTypes
<1>4. PICK i \in 1 .. Len(uwq.putq) : GivesUp(s, i)
  BY <1>1, SendTimeoutEffect
<1>5. WriteTypes' /\ WriteLists' /\ uwq'.closed = uwq.closed
  BY <1>1, <1>3, <1>4, ListsGiveUp
<1>6. MsgInv' /\ UNCHANGED <<push, sent, accepted>>
  <2> DEFINE T == {s}
  <2>1. FailSends(T) /\ T \subseteq Senders /\ \A t \in T : snd[t].at # "idle"
    BY <1>4 DEF GivesUp
  <2> HIDE DEF T
  <2>2. QED
    BY <1>1, <2>1, MsgFail DEF FailSends
<1>7. WriteEnds'
  BY <1>1, <1>2, <1>5 DEF WriteInv, WriteEnds
<1>8. ReadTypes' /\ ReadInv'
  BY <1>1, <1>2, <1>3, ReadQuiet
<1>9. OrderInv'
  BY <1>1, <1>2, <1>6, OrderKept
<1>10. QED
  BY <1>1, <1>2, <1>5, <1>6, <1>7, <1>8, <1>9 DEF IInv, WriteInv, SockTypes

\* The steps of the receiving side leave the sending side alone.
LEMMA WriteSideKept ==
    ASSUME IInv, UNCHANGED <<writeSide, pushClosed>>, sock.push # "open" => sock'.push # "open"
    PROVE  WriteTypes' /\ WriteInv' /\ MsgInv' /\ UNCHANGED <<push, sent>>
<1>1. WriteTypes /\ WriteInv /\ MsgInv
  BY DEF IInv
<1>2. UNCHANGED <<uwq, snd, push, sent, accepted, failed, pushClosed>>
  BY DEF writeSide
<1>3. push' \in [Pipes -> [at : PushAt, msg : Msg \cup {None}]]
  BY <1>1, <1>2 DEF WriteTypes
<1>4. WriteTypes' /\ WriteInv'
  BY <1>1, <1>2, <1>3, WriteQuiet
<1>5. QED
  BY <1>1, <1>2, <1>4, MsgQuiet

\* A pipe that has put its message or lost it.
LEMMA ReadEndsAfter ==
    ASSUME ReadTypes, ReadInv, UNCHANGED <<push, pullClosed>>,
           \A q \in Pipes : \/ pull'[q] = pull[q]
                            \/ /\ pull[q].at # "none" /\ pull'[q].at \in {"put", "recv", "stopped"}
                               /\ pull'[q].msg = None
    PROVE  ReadEnds'
<1>1. ASSUME NEW q \in Pipes
      PROVE  /\ pull'[q].at \in {"recvd", "putq"} => pull'[q].msg \in Msg
             /\ pull'[q].at \notin {"recvd", "putq"} => pull'[q].msg = None
             /\ pull'[q].at = "putq" => ~pullClosed[q]
             /\ push[q].at = "none" => ~pullClosed[q] /\ pull'[q].at = "none"
  BY DEF ReadInv, ReadEnds
<1>2. QED
  BY <1>1 DEF ReadEnds

LEMMA RecvStep ==
    ASSUME IInv, NEW r \in Receivers, NEW block \in BOOLEAN, Recv(r, block)
    PROVE  IInv'
<1>1. WriteTypes /\ WriteInv /\ ReadTypes /\ ReadInv /\ SockTypes /\ MsgInv /\ OrderInv
  BY DEF IInv
<1>2. UNCHANGED <<writeSide, sock, pushClosed, pullClosed, wire>>
  BY DEF Recv
<1>3. WriteTypes' /\ WriteInv' /\ MsgInv' /\ UNCHANGED <<push, sent>>
  BY <1>2, WriteSideKept
<1>4. SockTypes'
  BY <1>1, <1>2 DEF SockTypes
<1>5. UNCHANGED <<wire, pullClosed, push, sent>>
  BY <1>2, <1>3
<1>6. CASE UNCHANGED readSide
  <2>1. UNCHANGED <<urq, rcv, pull, got>>
    BY <1>6 DEF readSide
  <2>2. wire' \in [Pipes -> Seq(Msg)]
    BY <1>1, <1>5 DEF ReadTypes
  <2>3. ReadTypes' /\ ReadInv'
    BY <1>1, <1>5, <2>1, <2>2, ReadQuiet
  <2>4. OrderInv'
    BY <1>1, <1>5, <2>1, OrderKept
  <2>5. QED
    BY <1>3, <1>4, <2>3, <2>4 DEF IInv
<1>7. CASE RecvFromRing
  <2>1. (ReadTypes /\ ReadLists)'
    BY <1>1, <1>5, <1>7, ListsFromRing
  <2>2. pull' = pull
    BY <1>7 DEF RecvFromRing
  <2>3. ReadEnds'
    BY <1>1, <1>5, <2>2, ReadEndsAfter
  <2>4. OrderInv'
    BY <1>1, <1>5, <1>7, FromRing
  <2>5. QED
    BY <1>3, <1>4, <2>1, <2>3, <2>4 DEF IInv, ReadInv
<1>8. CASE RecvFromWriter
  <2> DEFINE p == Head(urq.putq).aio
  <2>1. (ReadTypes /\ ReadLists)'
    BY <1>1, <1>5, <1>8, ListsFromWriter
  <2>2. /\ urq.items = <<>> /\ Gives(Head(urq.putq).msg) /\ pull' = [pull EXCEPT ![p] = End("put", None)]
        /\ urq.putq # <<>> /\ urq' = WithPutq(urq, Tail(urq.putq))
    BY <1>8 DEF RecvFromWriter
  <2>3. p \in Pipes /\ pull[p].at = "putq" /\ Head(urq.putq).msg = pull[p].msg /\ ~pullClosed[p]
    <3>1. p \in Pipes /\ pull[p].at = "putq" /\ Head(urq.putq).msg = pull[p].msg
      BY <1>1, <2>2, FirstPutter
    <3>2. QED
      BY <1>1, <3>1 DEF ReadInv, ReadEnds
  <2>4. urq'.items = urq.items
    BY <1>1, <2>2 DEF WithPutq, ReadTypes, Queue
  <2> HIDE DEF p
  <2>5. Gives(pull[p].msg)
    BY <2>2, <2>3
  <2>6. OrderInv'
    <3>1. urq.items = <<>> /\ urq'.items = <<>> /\ pull[p].at \in {"recvd", "putq"}
      BY <2>2, <2>3, <2>4
    <3>2. pull' = [pull EXCEPT ![p] = End("put", None)]
      BY <2>2
    <3>3. QED
      BY <1>1, <1>5, <2>3, <2>5, <3>1, <3>2, FromPipe
  <2>7. ReadEnds'
    <3>1. \A q \in Pipes : \/ pull'[q] = pull[q]
                           \/ /\ pull[q].at # "none" /\ pull'[q].at \in {"put", "recv", "stopped"}
                              /\ pull'[q].msg = None
      BY <1>1, <2>2, <2>3 DEF ReadTypes, End
    <3>2. QED
      BY <1>1, <1>5, <3>1, ReadEndsAfter
  <2>8. QED
    BY <1>3, <1>4, <2>1, <2>6, <2>7 DEF IInv, ReadInv
<1>9. CASE RecvWaits(r)
  <2>1. (ReadTypes /\ ReadLists)'
    BY <1>1, <1>5, <1>9, ListsRecvWaits
  <2>2. UNCHANGED <<pull, got>> /\ urq'.items = urq.items
    BY <1>1, <1>9 DEF RecvWaits, WithGetq, ReadTypes, Queue
  <2>3. ReadEnds'
    BY <1>1, <1>5, <2>2, ReadEndsAfter
  <2>4. OrderInv'
    BY <1>1, <1>5, <2>2, OrderKept
  <2>5. QED
    BY <1>3, <1>4, <2>1, <2>3, <2>4 DEF IInv, ReadInv
<1>10. QED
  BY <1>1, <1>6, <1>7, <1>8, <1>9, RecvEffect

LEMMA RecvTimeoutStep ==
    ASSUME IInv, NEW r \in Receivers, RecvTimeout(r)
    PROVE  IInv'
<1>1. WriteTypes /\ WriteInv /\ ReadTypes /\ ReadInv /\ SockTypes /\ MsgInv /\ OrderInv
  BY DEF IInv
<1>2. UNCHANGED <<writeSide, sock, pushClosed, pullClosed, wire>>
  BY DEF RecvTimeout
<1>3. WriteTypes' /\ WriteInv' /\ MsgInv' /\ UNCHANGED <<push, sent>>
  BY <1>2, WriteSideKept
<1>4. SockTypes' /\ UNCHANGED <<wire, pullClosed, push, sent>>
  BY <1>1, <1>2, <1>3 DEF SockTypes
<1>5. PICK i \in 1 .. Len(urq.getq) : RecvGivesUp(r, i)
  BY <1>1, RecvTimeoutEffect
<1>6. (ReadTypes /\ ReadLists)'
  BY <1>1, <1>4, <1>5, ListsRecvGivesUp
<1>7. UNCHANGED <<pull, got>> /\ urq'.items = urq.items
  BY <1>1, <1>5 DEF RecvGivesUp, WithGetq, ReadTypes, Queue
<1>8. ReadEnds'
  BY <1>1, <1>4, <1>7, ReadEndsAfter
<1>9. OrderInv'
  BY <1>1, <1>4, <1>7, OrderKept
<1>10. QED
  BY <1>3, <1>4, <1>6, <1>8, <1>9 DEF IInv, ReadInv

LEMMA PullRecvCbStep ==
    ASSUME IInv, NEW p \in Pipes, PullRecvCb(p)
    PROVE  IInv'
<1>1. WriteTypes /\ WriteInv /\ ReadTypes /\ ReadInv /\ SockTypes /\ MsgInv /\ OrderInv
  BY DEF IInv
<1>2. UNCHANGED <<writeSide, sock, pushClosed, pullClosed, wire>>
  BY DEF PullRecvCb
<1>3. WriteTypes' /\ WriteInv' /\ MsgInv' /\ UNCHANGED <<push, sent>>
  BY <1>2, WriteSideKept
<1>4. SockTypes' /\ UNCHANGED <<wire, pullClosed, push, sent>>
  BY <1>1, <1>2, <1>3 DEF SockTypes
<1>5. pull[p].at = "recvd" /\ (Frees(p) \/ HandsToReader(p) \/ \E w, k : Stores(p, w, k))
  BY <1>1, PullRecvCbEffect
<1>6. CASE Frees(p)
  <2>1. /\ UNCHANGED <<urq, rcv, got>> /\ pullClosed[p]
        /\ pull'[p] = End("stopped", None) /\ \A q \in Pipes : q # p => pull'[q] = pull[q]
    BY <1>1, <1>6 DEF Frees, ReadTypes
  <2>2. pull' \in Ends
    BY <1>1, <1>6 DEF Frees, ReadTypes, Ends, End, PullAt
  <2>3. wire' \in [Pipes -> Seq(Msg)] /\ pullClosed' \in [Pipes -> BOOLEAN]
    BY <1>1, <1>4 DEF ReadTypes
  <2>4. \A q \in Pipes : pull'[q] = pull[q] \/ (pull'[q].at # "putq" /\ pull[q].at # "putq")
    BY <1>5, <2>1 DEF End
  <2>5. (ReadTypes /\ ReadLists)'
    BY <1>1, <2>1, <2>2, <2>3, <2>4, ListsReadQuiet
  <2>6. \A q \in Pipes : \/ pull'[q] = pull[q]
                         \/ /\ pull[q].at # "none" /\ pull'[q].at \in {"put", "recv", "stopped"}
                            /\ pull'[q].msg = None
    BY <1>5, <2>1 DEF End
  <2>7. ReadEnds'
    BY <1>1, <1>4, <2>6, ReadEndsAfter
  <2>8. OrderInv'
    <3>1. \A q \in Pipes : ~pullClosed'[q] => pull'[q] = pull[q]
      BY <1>4, <2>1
    <3>2. QED
      BY <1>1, <1>4, <2>1, <3>1, OrderKept
  <2>9. QED
    BY <1>3, <1>4, <2>5, <2>7, <2>8 DEF IInv, ReadInv
<1>7. CASE HandsToReader(p)
  <2>1. (ReadTypes /\ ReadLists)'
    BY <1>1, <1>4, <1>5, <1>7, ListsHands
  <2>2. /\ urq.getq # <<>> /\ ~pullClosed[p] /\ Gives(pull[p].msg)
        /\ pull' = [pull EXCEPT ![p] = End("put", None)]
        /\ urq' = WithGetq(urq, Tail(urq.getq))
    BY <1>7 DEF HandsToReader
  <2>3. urq.items = <<>> /\ urq'.items = <<>>
    <3>1. urq.items = <<>>
      BY <1>1, <2>2 DEF ReadInv, ReadLists, Orderly, ReaderMeansEmpty
    <3>2. urq'.items = urq.items
      BY <1>1, <2>2 DEF WithGetq, ReadTypes, Queue
    <3>3. QED
      BY <3>1, <3>2
  <2>4. OrderInv'
    <3>1. pull[p].at \in {"recvd", "putq"}
      BY <1>5
    <3>2. pull' = [pull EXCEPT ![p] = End("put", None)] /\ ~pullClosed[p] /\ Gives(pull[p].msg)
      BY <2>2
    <3>3. QED
      BY <1>1, <1>4, <2>3, <3>1, <3>2, FromPipe
  <2>5. ReadEnds'
    <3>1. \A q \in Pipes : \/ pull'[q] = pull[q]
                           \/ /\ pull[q].at # "none" /\ pull'[q].at \in {"put", "recv", "stopped"}
                              /\ pull'[q].msg = None
      BY <1>1, <1>5, <2>2 DEF ReadTypes, End
    <3>2. QED
      BY <1>1, <1>4, <3>1, ReadEndsAfter
  <2>6. QED
    BY <1>3, <1>4, <2>1, <2>4, <2>5 DEF IInv, ReadInv
<1>8. CASE \E w, k : Stores(p, w, k)
  <2>1. PICK w, k : Stores(p, w, k)
    BY <1>8
  <2>2. /\ (ReadTypes /\ ReadLists)'
        /\ \A j \in 1 .. k : w[j].aio \in Pipes => pull[w[j].aio].at \in {"recvd", "putq"}
    <3>1. (ReadTypes /\ ReadLists)'
      BY <1>1, <1>4, <1>5, <2>1, ListsStores
    <3>2. \A j \in 1 .. Len(w) : pull[w[j].aio].at \in {"recvd", "putq"}
      BY <1>1, <1>4, <1>5, <2>1, ListsStores
    <3>3. w \in Seq([aio : Pipes, msg : Msg]) /\ k \in 0 .. Len(w)
      BY <1>1, <1>4, <1>5, <2>1, ListsStores
    <3>4. \A j \in 1 .. k : j \in 1 .. Len(w)
      BY <3>3
    <3>5. QED
      BY <3>1, <3>2, <3>4
  <2>3. /\ ~pullClosed[p]
        /\ pull' = [q \in Pipes |-> IF q \in Moved(w, k) THEN End("put", None)
                                    ELSE IF q = p THEN End("putq", pull[p].msg) ELSE pull[q]]
    BY <2>1 DEF Stores
  <2>4. OrderInv'
    BY <1>1, <1>4, <1>5, <2>1, OrderStores
  <2>5. ReadEnds'
    <3>1. ASSUME NEW q \in Pipes
          PROVE  /\ pull'[q].at \in {"recvd", "putq"} => pull'[q].msg \in Msg
                 /\ pull'[q].at \notin {"recvd", "putq"} => pull'[q].msg = None
                 /\ pull'[q].at = "putq" => ~pullClosed[q]
                 /\ push[q].at = "none" => ~pullClosed[q] /\ pull'[q].at = "none"
      <4>1. /\ pull[q].at \in {"recvd", "putq"} => pull[q].msg \in Msg
            /\ pull[q].at \notin {"recvd", "putq"} => pull[q].msg = None
            /\ pull[q].at = "putq" => ~pullClosed[q]
            /\ push[q].at = "none" => ~pullClosed[q] /\ pull[q].at = "none"
        BY <1>1 DEF ReadInv, ReadEnds
      <4>2. CASE q \in Moved(w, k)
        <5>1. pull[q].at \in {"recvd", "putq"}
          BY <2>2, <4>2 DEF Moved
        <5>2. pull'[q].at = "put" /\ pull'[q].msg = None
          BY <2>3, <4>2 DEF End
        <5>3. QED
          BY <4>1, <5>1, <5>2
      <4>3. CASE q \notin Moved(w, k) /\ q = p
        <5>1. pull'[q].at = "putq" /\ pull'[q].msg = pull[q].msg
          BY <2>3, <4>3 DEF End
        <5>2. QED
          BY <1>5, <2>3, <4>1, <4>3, <5>1
      <4>4. CASE q \notin Moved(w, k) /\ q # p
        BY <2>3, <4>1, <4>4
      <4>5. QED
        BY <4>2, <4>3, <4>4
    <3>2. QED
      BY <1>4, <3>1 DEF ReadEnds
  <2>6. QED
    BY <1>3, <1>4, <2>2, <2>4, <2>5 DEF IInv, ReadInv
<1>9. QED
  BY <1>5, <1>6, <1>7, <1>8

\* A pipe of the push socket takes the next message or waits for one.
LEMMA NextMessage ==
    ASSUME IInv, NEW p \in Pipes, push[p].at \in {"none", "sent"}, ~uwq.closed,
           Takes(p) \/ PipeWaits(p), UNCHANGED <<urq, got, wire, sock, pushClosed, pullClosed>>,
           \A q \in Pipes : /\ pull'[q].msg = pull[q].msg
                            /\ pull'[q].at \in {"recvd", "putq"} => pull[q].at \in {"recvd", "putq"}
    PROVE  /\ WriteTypes' /\ WriteInv' /\ MsgInv' /\ OrderInv'
           /\ push'[p].at \in {"got", "getq"} /\ \A q \in Pipes : q # p => push'[q] = push[q]
<1>1. WriteTypes /\ WriteInv /\ ReadTypes /\ ReadInv /\ MsgInv /\ OrderInv /\ ReadEnds
  BY DEF IInv, ReadInv
<1>2. UNCHANGED <<sock, pushClosed>>
  OBVIOUS
<1>3. CASE Takes(p)
  <2> DEFINE s == Head(uwq.putq).aio
  <2>1. WriteTypes' /\ WriteLists' /\ uwq'.closed = uwq.closed /\ s \in Senders /\ snd[s].at = "wait"
    BY <1>1, <1>2, <1>3, ListsTakes
  <2>2. HandOver(s, p) /\ ~pushClosed[p]
    BY <1>3 DEF Takes
  <2> HIDE DEF s
  <2>3. push'[p].at = "got" /\ \A q \in Pipes : q # p => push'[q] = push[q]
    BY <1>1, <2>2 DEF HandOver, WriteTypes, End
  <2>4. WriteEnds'
    BY <1>1, <1>2, <2>1, <2>2, <2>3, NextEnds
  <2>5. snd[s].at # "idle"
    BY <2>1
  <2>6. MsgInv'
    BY <1>1, <2>1, <2>2, <2>5, MsgHandOver
  <2>7. OrderInv'
    <3>1. urq'.items = urq.items /\ push[p].at \in {"none", "getq", "sent"}
          /\ UNCHANGED <<got, wire, pullClosed>>
      OBVIOUS
    <3>2. \A q \in Pipes : /\ pull'[q].msg = pull[q].msg
                           /\ pull'[q].at \in {"recvd", "putq"} => pull[q].at \in {"recvd", "putq"}
      OBVIOUS
    <3>3. QED
      BY <1>1, <2>1, <2>2, <2>5, <3>1, <3>2, OrderHandOver
  <2>8. QED
    BY <2>1, <2>3, <2>4, <2>6, <2>7 DEF WriteInv
<1>4. CASE PipeWaits(p)
  <2>1. push[p].at # "getq" /\ ~pushClosed[p]
    BY <1>4 DEF PipeWaits
  <2>2. WriteTypes' /\ WriteLists' /\ uwq'.closed = uwq.closed
    BY <1>1, <1>2, <1>4, <2>1, ListsPipeWaits
  <2>3. /\ UNCHANGED <<snd, sent, accepted, failed>> /\ push'[p] = End("getq", None)
        /\ \A q \in Pipes : q # p => push'[q] = push[q]
    BY <1>1, <1>4 DEF PipeWaits, WriteTypes
  <2>4. push'[p].at = "getq" /\ push'[p].msg = None
    BY <2>3 DEF End
  <2>5. WriteEnds'
    BY <1>1, <1>2, <2>1, <2>2, <2>3, <2>4, NextEnds
  <2>6. MsgInv'
    BY <1>1, <2>3, MsgQuiet
  <2>7. OrderInv'
    <3>1. UNCHANGED <<sent, got, wire>> /\ urq'.items = urq.items
      BY <2>3
    <3>2. \A q \in Pipes :
              /\ pullClosed[q] => pullClosed'[q]
              /\ ~pullClosed'[q] =>
                    /\ pull'[q].msg = pull[q].msg
                    /\ pull'[q].at \in {"recvd", "putq"} => pull[q].at \in {"recvd", "putq"}
              /\ \/ push'[q] = push[q]
                 \/ push'[q].at = "sending" /\ push[q].at = "got" /\ push'[q].msg = push[q].msg
                 \/ push'[q].at = "stopped" /\ push'[q].msg = None
                 \/ push'[q].at = "getq" /\ push[q].at \in {"none", "sent"} /\ push'[q].msg = None
      BY <2>3, <2>4
    <3>3. QED
      BY <1>1, <3>1, <3>2, OrderKept
  <2>8. QED
    BY <2>2, <2>3, <2>4, <2>5, <2>6, <2>7 DEF WriteInv
<1>5. QED
  BY <1>3, <1>4

LEMMA ConnectStep ==
    ASSUME IInv, NEW p \in Pipes, Connect(p)
    PROVE  IInv'
<1>1. WriteTypes /\ WriteInv /\ ReadTypes /\ ReadInv /\ SockTypes /\ MsgInv /\ OrderInv
  BY DEF IInv
<1>2. /\ push[p].at = "none" /\ sock.push = "open" /\ GetNext(p, push)
      /\ pull' = [pull EXCEPT ![p] = End("recv", None)]
      /\ UNCHANGED <<urq, rcv, got, sock, pushClosed, pullClosed, wire>>
  BY DEF Connect
<1>3. ~uwq.closed /\ ~pushClosed[p] /\ pull[p].at = "none" /\ pull[p].msg = None
  BY <1>1, <1>2 DEF WriteInv, WriteEnds, ReadInv, ReadEnds
<1>4. Takes(p) \/ PipeWaits(p)
  BY <1>1, <1>2, <1>3, GetNextEffect
<1>5. /\ pull'[p].at = "recv" /\ pull'[p].msg = None /\ pull' \in Ends
      /\ \A q \in Pipes : q # p => pull'[q] = pull[q]
  <2>1. pull' \in Ends
    BY <1>1, <1>2 DEF ReadTypes, Ends, End, PullAt
  <2>2. QED
    BY <1>1, <1>2, <2>1 DEF ReadTypes, End
<1>6. /\ WriteTypes' /\ WriteInv' /\ MsgInv' /\ OrderInv'
      /\ push'[p].at \in {"got", "getq"} /\ \A q \in Pipes : q # p => push'[q] = push[q]
  <2>1. \A q \in Pipes : /\ pull'[q].msg = pull[q].msg
                         /\ pull'[q].at \in {"recvd", "putq"} => pull[q].at \in {"recvd", "putq"}
    BY <1>3, <1>5
  <2>2. push[p].at \in {"none", "sent"} /\ UNCHANGED <<urq, got, wire, sock, pushClosed, pullClosed>>
    BY <1>2
  <2>3. QED
    BY <1>3, <1>4, <2>1, <2>2, NextMessage
<1>7. (ReadTypes /\ ReadLists)'
  <2>1. \A q \in Pipes : pull'[q] = pull[q] \/ (pull'[q].at # "putq" /\ pull[q].at # "putq")
    BY <1>3, <1>5
  <2>2. wire' \in [Pipes -> Seq(Msg)] /\ pullClosed' \in [Pipes -> BOOLEAN]
    BY <1>1, <1>2 DEF ReadTypes
  <2>3. QED
    BY <1>1, <1>2, <1>5, <2>1, <2>2, ListsReadQuiet
<1>8. ReadEnds'
  <2>1. ASSUME NEW q \in Pipes
        PROVE  /\ pull'[q].at \in {"recvd", "putq"} => pull'[q].msg \in Msg
               /\ pull'[q].at \notin {"recvd", "putq"} => pull'[q].msg = None
               /\ pull'[q].at = "putq" => ~pullClosed[q]
               /\ push'[q].at = "none" => ~pullClosed[q] /\ pull'[q].at = "none"
    BY <1>1, <1>5, <1>6 DEF ReadInv, ReadEnds
  <2>2. QED
    BY <1>2, <2>1 DEF ReadEnds
<1>9. QED
  BY <1>1, <1>2, <1>6, <1>7, <1>8 DEF IInv, ReadInv, SockTypes

\* Steps of a pipe of the push socket that touch no list.
LEMMA PushEnds ==
    ASSUME IInv, NEW p \in Pipes, NEW e, push' = [push EXCEPT ![p] = e],
           e \in [at : {"sending", "sent", "stopped"}, msg : Msg \cup {None}],
           e.at = "stopped" => pushClosed[p], push[p].at \in {"got", "sending", "sent"},
           UNCHANGED <<uwq, urq, snd, rcv, pull, got, sent, accepted, failed, sock, pushClosed, pullClosed>>,
           wire' \in [Pipes -> Seq(Msg)]
    PROVE  WriteTypes' /\ WriteInv' /\ ReadTypes' /\ ReadInv' /\ SockTypes' /\ MsgInv'
<1>1. WriteTypes /\ WriteInv /\ ReadTypes /\ ReadInv /\ SockTypes /\ MsgInv
  BY DEF IInv
<1>2. push'[p] = e /\ \A q \in Pipes : q # p => push'[q] = push[q]
  BY <1>1 DEF WriteTypes
<1>3. push' \in [Pipes -> [at : PushAt, msg : Msg \cup {None}]]
  BY <1>1 DEF WriteTypes, PushAt
<1>4. e.at \notin {"none", "getq"}
  OBVIOUS
<1>5. \A q \in Pipes : \/ push'[q] = push[q]
                       \/ /\ push[q].at \notin {"none", "getq"} /\ push'[q].at \notin {"none", "getq"}
                          /\ push'[q].at = "stopped" => pushClosed[q]
  BY <1>2, <1>4
<1>6. WriteTypes' /\ WriteInv'
  BY <1>1, <1>3, <1>5, WriteQuiet
<1>7. \A q \in Pipes : push'[q].at = "none" => push[q].at = "none"
  BY <1>5
<1>8. ReadTypes' /\ ReadInv'
  BY <1>1, <1>7, ReadQuiet
<1>9. QED
  BY <1>1, <1>6, <1>8, MsgQuiet DEF SockTypes

LEMMA PushGotStep ==
    ASSUME IInv, NEW p \in Pipes, PushGot(p)
    PROVE  IInv'
<1>1. WriteTypes /\ ReadTypes /\ OrderInv
  BY DEF IInv
<1>2. /\ push[p].at = "got"
      /\ UNCHANGED <<uwq, urq, snd, rcv, pull, got, sent, accepted, failed, sock, pushClosed,
                     pullClosed, wire>>
  BY DEF PushGot, queues, history
<1> DEFINE e == IF pushClosed[p] THEN End("stopped", None) ELSE End("sending", push[p].msg)
<1>3. push' = [push EXCEPT ![p] = e]
  BY DEF PushGot
<1>4. /\ e \in [at : {"sending", "sent", "stopped"}, msg : Msg \cup {None}]
      /\ e.at = "stopped" => pushClosed[p]
      /\ \/ e.at = "sending" /\ e.msg = push[p].msg
         \/ e.at = "stopped" /\ e.msg = None
  BY <1>1 DEF WriteTypes, End
<1> HIDE DEF e
<1>5. wire' \in [Pipes -> Seq(Msg)] /\ push[p].at \in {"got", "sending", "sent"}
  BY <1>1, <1>2 DEF ReadTypes
<1>6. WriteTypes' /\ WriteInv' /\ ReadTypes' /\ ReadInv' /\ SockTypes' /\ MsgInv'
  BY <1>2, <1>3, <1>4, <1>5, PushEnds
<1>7. OrderInv'
  <2>1. push'[p] = e /\ \A q \in Pipes : q # p => push'[q] = push[q]
    BY <1>1, <1>3 DEF WriteTypes
  <2>2. \A q \in Pipes :
              /\ pullClosed[q] => pullClosed'[q]
              /\ ~pullClosed'[q] =>
                    /\ pull'[q].msg = pull[q].msg
                    /\ pull'[q].at \in {"recvd", "putq"} => pull[q].at \in {"recvd", "putq"}
              /\ \/ push'[q] = push[q]
                 \/ push'[q].at = "sending" /\ push[q].at = "got" /\ push'[q].msg = push[q].msg
                 \/ push'[q].at = "stopped" /\ push'[q].msg = None
                 \/ push'[q].at = "getq" /\ push[q].at \in {"none", "sent"} /\ push'[q].msg = None
    BY <1>2, <1>4, <2>1
  <2>3. QED
    BY <1>1, <1>2, <2>2, OrderKept
<1>8. QED
  BY <1>6, <1>7 DEF IInv

LEMMA PushSentStep ==
    ASSUME IInv, NEW p \in Pipes, PushSent(p)
    PROVE  IInv'
<1>1. WriteTypes /\ ReadTypes /\ ReadEnds /\ MsgInv /\ OrderInv
  BY DEF IInv, ReadInv
<1>2. /\ push[p].at = "sending" /\ wire' = [wire EXCEPT ![p] = Append(@, push[p].msg)]
      /\ UNCHANGED <<uwq, urq, snd, rcv, pull, got, sent, accepted, failed, sock, pushClosed,
                     pullClosed>>
  BY DEF PushSent, queues, history
<1> DEFINE e == End("sent", None)
<1>3. push' = [push EXCEPT ![p] = e]
  BY DEF PushSent
<1>4. /\ e \in [at : {"sending", "sent", "stopped"}, msg : Msg \cup {None}]
      /\ e.at # "stopped"
  BY DEF End
<1> HIDE DEF e
<1>5. wire' \in [Pipes -> Seq(Msg)] /\ push[p].at \in {"got", "sending", "sent"}
  <2>1. push[p].msg \in Msg
    <3>1. Len(sent[p]) > 0 /\ push[p].msg = sent[p][Len(sent[p])] /\ sent[p] \in Seq(Msg)
      BY <1>1, <1>2, Flows DEF OrderInv, PushInv
    <3>2. QED
      BY <3>1
  <2>2. \A t \in Seq(Msg) : Append(t, push[p].msg) \in Seq(Msg)
    BY <2>1
  <2>3. QED
    BY <1>1, <1>2, <2>2 DEF ReadTypes
<1>6. WriteTypes' /\ WriteInv' /\ ReadTypes' /\ ReadInv' /\ SockTypes' /\ MsgInv'
  BY <1>2, <1>3, <1>4, <1>5, PushEnds
<1>7. OrderInv'
  BY <1>1, OrderPushSent
<1>8. QED
  BY <1>6, <1>7 DEF IInv

\* A pipe stops that is in no list.
LEMMA StopsQuietly ==
    ASSUME IInv, NEW p \in Pipes, pushClosed[p], push[p].at \in {"got", "sending", "sent"},
           push' = [push EXCEPT ![p] = End("stopped", None)],
           UNCHANGED <<uwq, urq, snd, rcv, pull, got, sent, accepted, failed, sock, pushClosed,
                       pullClosed, wire>>
    PROVE  IInv'
<1>1. WriteTypes /\ ReadTypes /\ OrderInv
  BY DEF IInv
<1> DEFINE e == End("stopped", None)
<1>2. e \in [at : {"sending", "sent", "stopped"}, msg : Msg \cup {None}] /\ e.at = "stopped" /\ e.msg = None
  BY DEF End
<1>3. push' = [push EXCEPT ![p] = e]
  OBVIOUS
<1> HIDE DEF e
<1>4. wire' \in [Pipes -> Seq(Msg)]
  BY <1>1 DEF ReadTypes
<1>5. WriteTypes' /\ WriteInv' /\ ReadTypes' /\ ReadInv' /\ SockTypes' /\ MsgInv'
  BY <1>2, <1>3, <1>4, PushEnds
<1>6. OrderInv'
  <2>1. push'[p] = e /\ \A q \in Pipes : q # p => push'[q] = push[q]
    BY <1>1, <1>3 DEF WriteTypes
  <2>2. \A q \in Pipes : push'[q] = push[q] \/ (push'[q].at = "stopped" /\ push'[q].msg = None)
    BY <1>2, <2>1
  <2>3. QED
    BY <1>1, <2>2, OrderKept
<1>7. QED
  BY <1>5, <1>6 DEF IInv

LEMMA PushSendCbStep ==
    ASSUME IInv, NEW p \in Pipes, PushSendCb(p)
    PROVE  IInv'
<1>1. WriteTypes /\ WriteInv /\ ReadTypes /\ ReadInv /\ SockTypes /\ MsgInv
  BY DEF IInv
<1>2. push[p].at = "sent" /\ GetNext(p, push) /\ UNCHANGED <<urq, rcv, pull, got, sock, pushClosed, pullClosed, wire>>
  BY DEF PushSendCb, readSide
<1>3. uwq.closed => pushClosed[p]
  BY <1>1, <1>2 DEF WriteInv, WriteEnds
<1>4. CASE pushClosed[p] /\ PipeStops(p) /\ uwq' = uwq
  <2>1. /\ push' = [push EXCEPT ![p] = End("stopped", None)] /\ pushClosed[p]
        /\ UNCHANGED <<uwq, snd, sent, accepted, failed>>
    BY <1>4 DEF PipeStops
  <2>2. push[p].at \in {"got", "sending", "sent"}
    BY <1>2
  <2>3. UNCHANGED <<uwq, urq, snd, rcv, pull, got, sent, accepted, failed, sock, pushClosed,
                    pullClosed, wire>>
    BY <1>2, <2>1
  <2>4. QED
    BY <2>1, <2>2, <2>3, StopsQuietly
<1>5. CASE Takes(p) \/ PipeWaits(p)
  <2>1. ~uwq.closed
    BY <1>3, <1>5 DEF Takes, PipeWaits
  <2>2. push[p].at \in {"none", "sent"} /\ UNCHANGED <<urq, got, wire, sock, pushClosed, pullClosed>>
    BY <1>2
  <2>3. \A q \in Pipes : /\ pull'[q].msg = pull[q].msg
                         /\ pull'[q].at \in {"recvd", "putq"} => pull[q].at \in {"recvd", "putq"}
    BY <1>2
  <2>4. /\ WriteTypes' /\ WriteInv' /\ MsgInv' /\ OrderInv'
        /\ push'[p].at \in {"got", "getq"} /\ \A q \in Pipes : q # p => push'[q] = push[q]
    BY <1>5, <2>1, <2>2, <2>3, NextMessage
  <2>5. wire' \in [Pipes -> Seq(Msg)] /\ \A q \in Pipes : push'[q].at = "none" => push[q].at = "none"
    BY <1>1, <1>2, <2>4 DEF ReadTypes
  <2>6. ReadTypes' /\ ReadInv'
    BY <1>1, <1>2, <2>5, ReadQuiet
  <2>7. QED
    BY <1>1, <1>2, <2>4, <2>6 DEF IInv, SockTypes
<1>6. QED
  BY <1>1, <1>2, <1>3, <1>4, <1>5, GetNextEffect

LEMMA PushFailStep ==
    ASSUME IInv, NEW p \in Pipes, PushFail(p)
    PROVE  IInv'
<1>1. /\ push[p].at \in {"got", "sending", "sent"} /\ pushClosed[p]
      /\ push' = [push EXCEPT ![p] = End("stopped", None)]
      /\ UNCHANGED <<uwq, urq, snd, rcv, pull, got, sent, accepted, failed, sock, pushClosed,
                     pullClosed, wire>>
  BY DEF PushFail, queues, history
<1>2. QED
  BY <1>1, StopsQuietly

LEMMA PullRecvStep ==
    ASSUME IInv, NEW p \in Pipes, PullRecv(p)
    PROVE  IInv'
<1>1. WriteTypes /\ WriteInv /\ ReadTypes /\ ReadInv /\ SockTypes /\ MsgInv /\ OrderInv /\ ReadEnds
  BY DEF IInv, ReadInv
<1>2. /\ pull[p].at = "recv" /\ ~pullClosed[p] /\ wire[p] # <<>>
      /\ pull' = [pull EXCEPT ![p] = End("recvd", Head(wire[p]))]
      /\ wire' = [wire EXCEPT ![p] = Tail(@)]
      /\ UNCHANGED <<uwq, urq, sock, snd, rcv, push, pushClosed, pullClosed, sent, accepted, failed, got>>
  BY DEF PullRecv, queues, history
<1>3. WriteTypes' /\ WriteInv' /\ MsgInv' /\ SockTypes'
  <2>1. UNCHANGED <<writeSide, pushClosed>> /\ sock' = sock
    BY <1>2 DEF writeSide
  <2>2. QED
    BY <1>1, <2>1, WriteSideKept DEF SockTypes
<1>4. Head(wire[p]) \in Msg /\ Tail(wire[p]) \in Seq(Msg)
  <2>1. wire[p] \in Seq(Msg)
    BY <1>1 DEF ReadTypes
  <2>2. QED
    BY <1>2, <2>1
<1>5. /\ pull'[p].at = "recvd" /\ pull'[p].msg \in Msg /\ pull' \in Ends
      /\ \A q \in Pipes : q # p => pull'[q] = pull[q]
  <2>1. pull' \in Ends
    BY <1>1, <1>2, <1>4 DEF ReadTypes, Ends, End, PullAt
  <2>2. QED
    BY <1>1, <1>2, <1>4, <2>1 DEF ReadTypes, End
<1>6. (ReadTypes /\ ReadLists)'
  <2>1. \A q \in Pipes : pull'[q] = pull[q] \/ (pull'[q].at # "putq" /\ pull[q].at # "putq")
    BY <1>2, <1>5
  <2>2. wire' \in [Pipes -> Seq(Msg)] /\ pullClosed' \in [Pipes -> BOOLEAN]
    BY <1>1, <1>2, <1>4 DEF ReadTypes
  <2>3. QED
    BY <1>1, <1>2, <1>5, <2>1, <2>2, ListsReadQuiet
<1>7. ReadEnds'
  <2>1. ASSUME NEW q \in Pipes
        PROVE  /\ pull'[q].at \in {"recvd", "putq"} => pull'[q].msg \in Msg
               /\ pull'[q].at \notin {"recvd", "putq"} => pull'[q].msg = None
               /\ pull'[q].at = "putq" => ~pullClosed[q]
               /\ push[q].at = "none" => ~pullClosed[q] /\ pull'[q].at = "none"
    BY <1>1, <1>2, <1>5 DEF ReadEnds
  <2>2. QED
    BY <1>2, <2>1 DEF ReadEnds
<1>8. OrderInv'
  BY <1>1, OrderPullRecv
<1>9. QED
  BY <1>3, <1>6, <1>7, <1>8 DEF IInv, ReadInv

\* A pipe of the pull socket that is in no list and has no message.
LEMMA PullMoves ==
    ASSUME IInv, NEW p \in Pipes, NEW at \in {"recv", "stopped"}, pull[p].at \in {"recv", "put"},
           pull' = [pull EXCEPT ![p] = End(at, None)],
           UNCHANGED <<uwq, urq, sock, snd, rcv, push, pushClosed, pullClosed, wire,
                       sent, accepted, failed, got>>
    PROVE  IInv'
<1>1. WriteTypes /\ WriteInv /\ ReadTypes /\ ReadInv /\ SockTypes /\ MsgInv /\ OrderInv /\ ReadEnds
  BY DEF IInv, ReadInv
<1>2. WriteTypes' /\ WriteInv' /\ MsgInv' /\ SockTypes'
  <2>1. UNCHANGED <<writeSide, pushClosed>> /\ sock' = sock
    BY DEF writeSide
  <2>2. QED
    BY <1>1, <2>1, WriteSideKept DEF SockTypes
<1>3. /\ pull'[p].at = at /\ pull'[p].msg = None /\ pull' \in Ends /\ pull[p].msg = None
      /\ \A q \in Pipes : q # p => pull'[q] = pull[q]
  <2>1. pull' \in Ends
    BY <1>1 DEF ReadTypes, Ends, End, PullAt
  <2>2. pull[p].msg = None
    BY <1>1 DEF ReadEnds
  <2>3. QED
    BY <1>1, <2>1, <2>2 DEF ReadTypes, End
<1>4. (ReadTypes /\ ReadLists)'
  <2>1. \A q \in Pipes : pull'[q] = pull[q] \/ (pull'[q].at # "putq" /\ pull[q].at # "putq")
    BY <1>3
  <2>2. wire' \in [Pipes -> Seq(Msg)] /\ pullClosed' \in [Pipes -> BOOLEAN]
    BY <1>1 DEF ReadTypes
  <2>3. QED
    BY <1>1, <1>3, <2>1, <2>2, ListsReadQuiet
<1>5. ReadEnds'
  <2>1. \A q \in Pipes : \/ pull'[q] = pull[q]
                         \/ /\ pull[q].at # "none" /\ pull'[q].at \in {"put", "recv", "stopped"}
                            /\ pull'[q].msg = None
    BY <1>3
  <2>2. QED
    BY <1>1, <2>1, ReadEndsAfter
<1>6. OrderInv'
  <2>1. \A q \in Pipes :
              /\ pull'[q].msg = pull[q].msg
              /\ pull'[q].at \in {"recvd", "putq"} => pull[q].at \in {"recvd", "putq"}
    BY <1>3
  <2>2. QED
    BY <1>1, <2>1, OrderKept
<1>7. QED
  BY <1>2, <1>4, <1>5, <1>6 DEF IInv, ReadInv

LEMMA PullPutCbStep ==
    ASSUME IInv, NEW p \in Pipes, PullPutCb(p)
    PROVE  IInv'
<1>1. /\ pull[p].at \in {"recv", "put"} /\ pull' = [pull EXCEPT ![p] = End("recv", None)]
      /\ UNCHANGED <<uwq, urq, sock, snd, rcv, push, pushClosed, pullClosed, wire,
                     sent, accepted, failed, got>>
  BY DEF PullPutCb, queues, history
<1>2. QED
  BY <1>1, PullMoves

LEMMA PullFailStep ==
    ASSUME IInv, NEW p \in Pipes, PullFail(p)
    PROVE  IInv'
<1>1. /\ pull[p].at \in {"recv", "put"} /\ pull' = [pull EXCEPT ![p] = End("stopped", None)]
      /\ UNCHANGED <<uwq, urq, sock, snd, rcv, push, pushClosed, pullClosed, wire,
                     sent, accepted, failed, got>>
  BY DEF PullFail, queues, history
<1>2. QED
  BY <1>1, PullMoves

LEMMA ClosePushStep ==
    ASSUME IInv, NEW p \in Pipes, ClosePush(p)
    PROVE  IInv'
<1>1. WriteTypes /\ WriteInv /\ ReadTypes /\ ReadInv /\ SockTypes /\ MsgInv /\ OrderInv /\ WriteEnds
  BY DEF IInv, WriteInv
<1>2. /\ push[p].at # "none" /\ ~pushClosed[p]
      /\ UNCHANGED <<urq, rcv, pull, got, sock, pullClosed, wire>>
  BY DEF ClosePush, readSide
<1>3. pushClosed' = [pushClosed EXCEPT ![p] = TRUE]
  BY <1>1, ClosePushEffect
<1>4. /\ pushClosed' \in [Pipes -> BOOLEAN] /\ pushClosed'[p]
      /\ \A q \in Pipes : q # p => pushClosed'[q] = pushClosed[q]
  BY <1>1, <1>3 DEF WriteTypes
<1>5. wire' \in [Pipes -> Seq(Msg)]
  BY <1>1, <1>2 DEF ReadTypes
<1>6. CASE \E i \in 1 .. Len(uwq.getq) : Leaves(p, i)
  <2>1. PICK i \in 1 .. Len(uwq.getq) : Leaves(p, i)
    BY <1>6
  <2>2. WriteTypes' /\ WriteLists' /\ uwq'.closed = uwq.closed
    BY <1>1, <1>4, <2>1, ListsLeaves
  <2>3. /\ UNCHANGED <<snd, sent, accepted, failed>> /\ push'[p] = End("stopped", None)
        /\ \A q \in Pipes : q # p => push'[q] = push[q]
    BY <1>1, <2>1 DEF Leaves, PipeStops, WriteTypes
  <2>4. push'[p].at = "stopped" /\ push'[p].msg = None
    BY <2>3 DEF End
  <2>5. WriteEnds'
    <3>1. \A q \in Pipes : /\ push'[q].at = "stopped" => pushClosed'[q]
                           /\ push'[q].at = "getq" => ~pushClosed'[q]
                           /\ push'[q].at = "none" => ~pushClosed'[q]
      BY <1>1, <1>4, <2>3, <2>4 DEF WriteEnds
    <3>2. uwq'.closed => sock'.push # "open" /\ \A q \in Pipes : push'[q].at # "none" => pushClosed'[q]
      BY <1>1, <1>2, <1>4, <2>2, <2>3, <2>4 DEF WriteEnds
    <3>3. QED
      BY <3>1, <3>2 DEF WriteEnds
  <2>6. MsgInv'
    BY <1>1, <2>3, MsgQuiet
  <2>7. \A q \in Pipes : push'[q].at = "none" => push[q].at = "none"
    BY <2>3, <2>4
  <2>8. ReadTypes' /\ ReadInv'
    BY <1>1, <1>2, <1>5, <2>7, ReadQuiet
  <2>9. OrderInv'
    <3>1. \A q \in Pipes : push'[q] = push[q] \/ (push'[q].at = "stopped" /\ push'[q].msg = None)
      BY <2>3, <2>4
    <3>2. QED
      BY <1>1, <1>2, <2>3, <3>1, OrderKept
  <2>10. QED
    BY <1>1, <1>2, <2>2, <2>5, <2>6, <2>8, <2>9 DEF IInv, WriteInv, SockTypes
<1>7. CASE push[p].at # "getq" /\ UNCHANGED writeSide
  <2>1. UNCHANGED <<uwq, snd, push, sent, accepted, failed>>
    BY <1>7 DEF writeSide
  <2>2. WriteTypes'
    BY <1>1, <1>4, <2>1 DEF WriteTypes
  <2>3. WriteLists'
    BY <1>1, <2>1 DEF WriteInv, WriteLists
  <2>4. WriteEnds'
    <3>1. \A q \in Pipes : /\ push[q].at = "stopped" => pushClosed'[q]
                           /\ push[q].at = "getq" => ~pushClosed'[q]
                           /\ push[q].at = "none" => ~pushClosed'[q]
      BY <1>1, <1>2, <1>4, <1>7 DEF WriteEnds
    <3>2. uwq.closed => sock.push # "open" /\ \A q \in Pipes : push[q].at # "none" => pushClosed'[q]
      BY <1>1, <1>4 DEF WriteEnds
    <3>3. QED
      BY <1>2, <2>1, <3>1, <3>2 DEF WriteEnds
  <2>5. MsgInv'
    BY <1>1, <2>1, MsgQuiet
  <2>6. ReadTypes' /\ ReadInv'
    BY <1>1, <1>2, <1>5, <2>1, ReadQuiet
  <2>7. OrderInv'
    BY <1>1, <1>2, <2>1, OrderKept
  <2>8. QED
    BY <1>1, <1>2, <2>2, <2>3, <2>4, <2>5, <2>6, <2>7 DEF IInv, WriteInv, SockTypes
<1>8. QED
  BY <1>1, <1>6, <1>7, ClosePushEffect

LEMMA ClosePullStep ==
    ASSUME IInv, NEW p \in Pipes, ClosePull(p)
    PROVE  IInv'
<1>1. WriteTypes /\ WriteInv /\ ReadTypes /\ ReadInv /\ SockTypes /\ MsgInv /\ OrderInv /\ ReadEnds
  BY DEF IInv, ReadInv
<1>2. push[p].at # "none" /\ UNCHANGED <<writeSide, sock, rcv, pushClosed, wire>>
  BY DEF ClosePull
<1>3. WriteTypes' /\ WriteInv' /\ MsgInv' /\ SockTypes' /\ UNCHANGED <<push, sent>>
  BY <1>1, <1>2, WriteSideKept DEF SockTypes
<1>4. pullClosed' = [pullClosed EXCEPT ![p] = TRUE]
  BY <1>1, ClosePullEffect
<1>5. /\ pullClosed' \in [Pipes -> BOOLEAN] /\ pullClosed'[p]
      /\ \A q \in Pipes : q # p => pullClosed'[q] = pullClosed[q]
  BY <1>1, <1>4 DEF ReadTypes
<1>6. wire' \in [Pipes -> Seq(Msg)] /\ UNCHANGED wire
  BY <1>1, <1>2 DEF ReadTypes
<1>7. CASE \E i \in 1 .. Len(urq.putq) : PutStops(p, i)
  <2>1. PICK i \in 1 .. Len(urq.putq) : PutStops(p, i)
    BY <1>7
  <2>2. (ReadTypes /\ ReadLists)'
    BY <1>1, <1>5, <1>6, <2>1, ListsPutStops
  <2>3. /\ UNCHANGED <<rcv, got>> /\ pull'[p] = End("stopped", None)
        /\ \A q \in Pipes : q # p => pull'[q] = pull[q]
    BY <1>1, <2>1 DEF PutStops, ReadTypes
  <2>4. urq'.items = urq.items
    BY <1>1, <2>1 DEF PutStops, WithPutq, ReadTypes, Queue
  <2>5. pull'[p].at = "stopped" /\ pull'[p].msg = None
    BY <2>3 DEF End
  <2>6. ReadEnds'
    <3>1. ASSUME NEW q \in Pipes
          PROVE  /\ pull'[q].at \in {"recvd", "putq"} => pull'[q].msg \in Msg
                 /\ pull'[q].at \notin {"recvd", "putq"} => pull'[q].msg = None
                 /\ pull'[q].at = "putq" => ~pullClosed'[q]
                 /\ push[q].at = "none" => ~pullClosed'[q] /\ pull'[q].at = "none"
      BY <1>1, <1>2, <1>5, <2>3, <2>5 DEF ReadEnds
    <3>2. QED
      BY <1>3, <3>1 DEF ReadEnds
  <2>7. OrderInv'
    <3>1. \A q \in Pipes : /\ pullClosed[q] => pullClosed'[q]
                           /\ ~pullClosed'[q] => pull'[q] = pull[q]
      BY <1>5, <2>3
    <3>2. QED
      BY <1>1, <1>3, <1>6, <2>3, <2>4, <3>1, OrderKept
  <2>8. QED
    BY <1>3, <2>2, <2>6, <2>7 DEF IInv, ReadInv
<1>8. CASE pull[p].at # "putq" /\ UNCHANGED readSide
  <2>1. UNCHANGED <<urq, rcv, pull, got>> /\ pull' \in Ends
    BY <1>1, <1>8 DEF readSide, ReadTypes, Ends
  <2>2. (ReadTypes /\ ReadLists)'
    BY <1>1, <1>5, <1>6, <2>1, ListsReadQuiet
  <2>3. ReadEnds'
    <3>1. ASSUME NEW q \in Pipes
          PROVE  /\ pull[q].at \in {"recvd", "putq"} => pull[q].msg \in Msg
                 /\ pull[q].at \notin {"recvd", "putq"} => pull[q].msg = None
                 /\ pull[q].at = "putq" => ~pullClosed'[q]
                 /\ push[q].at = "none" => ~pullClosed'[q] /\ pull[q].at = "none"
      BY <1>1, <1>2, <1>5, <1>8 DEF ReadEnds
    <3>2. QED
      BY <1>3, <2>1, <3>1 DEF ReadEnds
  <2>4. OrderInv'
    <3>1. \A q \in Pipes : pullClosed[q] => pullClosed'[q]
      BY <1>5
    <3>2. QED
      BY <1>1, <1>3, <1>6, <2>1, <3>1, OrderKept
  <2>5. QED
    BY <1>3, <2>2, <2>3, <2>4 DEF IInv, ReadInv
<1>9. QED
  BY <1>1, <1>7, <1>8, ClosePullEffect

\* What becomes of a socket.
LEMMA SocketBecomes ==
    ASSUME SockTypes, NEW x \in {"push", "pull"}, NEW old,
           NEW new \in {"open", "shut", "queued", "closed", "freed"}, Become(x, old, new),
           new # "open"
    PROVE  SockTypes' /\ (sock.push # "open" => sock'.push # "open")
           /\ (x = "push" => sock'.push = new)
BY DEF SockTypes, Become

LEMMA CloseWriteQueueStep ==
    ASSUME IInv, CloseWriteQueue
    PROVE  IInv'
<1>1. WriteTypes /\ WriteInv /\ ReadTypes /\ ReadInv /\ SockTypes /\ MsgInv /\ OrderInv /\ WriteEnds
  BY DEF IInv, WriteInv
<1>2. UNCHANGED <<urq, rcv, pull, got, pushClosed, pullClosed, wire>> /\ Become("push", "shut", "queued")
  BY DEF CloseWriteQueue, readSide
<1>3. SockTypes' /\ sock'.push # "open"
  <2>1. sock'.push = "queued" /\ SockTypes'
    BY <1>1, <1>2, SocketBecomes
  <2>2. QED
    BY <2>1
<1>4. uwq' = Closed(uwq) /\ FailSends(Waiting) /\ \A p \in Pipes : push[p].at # "none" => pushClosed[p]
  BY <1>1, CloseWriteQueueEffect
<1>5. wire' \in [Pipes -> Seq(Msg)] /\ UNCHANGED pushClosed
  BY <1>1, <1>2 DEF ReadTypes
<1>6. WriteTypes' /\ WriteLists'
  BY <1>1, <1>4, <1>5, ListsClosed
<1>7. UNCHANGED <<push, sent>>
  BY <1>4 DEF FailSends
<1>8. WriteEnds'
  BY <1>1, <1>3, <1>4, <1>5, <1>7 DEF WriteEnds
<1>9. MsgInv'
  <2> DEFINE T == Waiting
  <2>1. T \subseteq Senders /\ \A s \in T : snd[s].at # "idle"
    BY DEF Waiting
  <2>2. FailSends(T)
    BY <1>4
  <2> HIDE DEF T
  <2>3. QED
    BY <1>1, <2>1, <2>2, MsgFail
<1>10. ReadTypes' /\ ReadInv'
  BY <1>1, <1>2, <1>5, <1>7, ReadQuiet
<1>11. OrderInv'
  BY <1>1, <1>2, <1>7, OrderKept
<1>12. QED
  BY <1>3, <1>6, <1>8, <1>9, <1>10, <1>11 DEF IInv, WriteInv

LEMMA CloseReadQueueStep ==
    ASSUME IInv, CloseReadQueue
    PROVE  IInv'
<1>1. WriteTypes /\ WriteInv /\ ReadTypes /\ ReadInv /\ SockTypes /\ MsgInv /\ OrderInv
  BY DEF IInv
<1>2. UNCHANGED <<writeSide, pushClosed, pullClosed, wire>> /\ Become("pull", "shut", "queued")
  BY DEF CloseReadQueue
<1>3. SockTypes' /\ (sock.push # "open" => sock'.push # "open")
  BY <1>1, <1>2, SocketBecomes
<1>4. WriteTypes' /\ WriteInv' /\ MsgInv' /\ UNCHANGED <<push, sent>>
  BY <1>2, <1>3, WriteSideKept
<1>5. /\ urq' = Closed(urq) /\ UNCHANGED <<pull, got>>
      /\ rcv' = [r \in Receivers |-> "idle"] /\ urq.putq = <<>>
      /\ \A p \in Pipes : push[p].at # "none" => pullClosed[p]
  BY <1>1, CloseReadQueueEffect
<1>6. (ReadTypes /\ ReadLists)'
  <2>1. UNCHANGED <<pull, got, wire, pullClosed>>
    BY <1>2, <1>5
  <2>2. QED
    BY <1>1, <1>5, <2>1, ListsReadClosed
<1>7. ReadEnds'
  BY <1>1, <1>2, <1>4, <1>5 DEF ReadInv, ReadEnds
<1>8. OrderInv'
  <2>1. urq'.items = <<>>
    BY <1>1, <1>5, ClosedQueue DEF ReadTypes
  <2>2. UNCHANGED <<sent, got, wire, push, pull, pullClosed>>
    BY <1>2, <1>4, <1>5
  <2>3. QED
    BY <1>1, <1>5, <2>1, <2>2, OrderCleared
<1>9. QED
  BY <1>3, <1>4, <1>6, <1>7, <1>8 DEF IInv, ReadInv

\* A step of which only the socket knows.
LEMMA SocketStep ==
    ASSUME IInv, SockTypes', sock.push # "open" => sock'.push # "open",
           UNCHANGED <<queues, snd, rcv, ends, history>>
    PROVE  IInv'
<1>1. WriteTypes /\ ReadTypes /\ ReadInv /\ OrderInv
  BY DEF IInv
<1>2. /\ UNCHANGED <<writeSide, pushClosed>>
      /\ UNCHANGED <<urq, rcv, pull, got, pullClosed, wire, push, sent>>
  BY DEF queues, ends, history, writeSide
<1>3. WriteTypes' /\ WriteInv' /\ MsgInv'
  BY <1>2, WriteSideKept
<1>4. wire' \in [Pipes -> Seq(Msg)]
  BY <1>1, <1>2 DEF ReadTypes
<1>5. ReadTypes' /\ ReadInv'
  BY <1>1, <1>2, <1>4, ReadQuiet
<1>6. OrderInv'
  BY <1>1, <1>2, OrderKept
<1>7. QED
  BY <1>3, <1>5, <1>6 DEF IInv

LEMMA SockStep ==
    ASSUME IInv, NEW x \in {"push", "pull"}, Shutdown(x) \/ CloseSock(x) \/ FreeSock(x)
    PROVE  IInv'
<1>1. SockTypes
  BY DEF IInv
<1>2. /\ UNCHANGED <<queues, snd, rcv, ends, history>>
      /\ Become(x, "open", "shut") \/ Become(x, "queued", "closed") \/ Become(x, "closed", "freed")
  BY DEF Shutdown, CloseSock, FreeSock
<1>3. SockTypes' /\ (sock.push # "open" => sock'.push # "open")
  <2>1. CASE Become(x, "open", "shut")
    BY <1>1, <2>1, SocketBecomes
  <2>2. CASE Become(x, "queued", "closed")
    BY <1>1, <2>2, SocketBecomes
  <2>3. CASE Become(x, "closed", "freed")
    BY <1>1, <2>3, SocketBecomes
  <2>4. QED
    BY <1>2, <2>1, <2>2, <2>3
<1>4. QED
  BY <1>2, <1>3, SocketStep

-----------------------------------------------------------------------------
(* The invariant holds.                                                    *)

LEMMA NewQueueOK ==
    ASSUME NEW ws, NEW rs, NEW cap \in Nat
    PROVE  /\ NewQueue(cap) \in Queue(ws, rs) /\ NewQueue(cap).cap = cap
           /\ NewQueue(cap).items = <<>> /\ NewQueue(cap).putq = <<>> /\ NewQueue(cap).getq = <<>>
           /\ ~NewQueue(cap).closed
<1>1. <<>> \in Seq(Msg) /\ <<>> \in Seq([aio : ws, msg : Msg]) /\ <<>> \in Seq(rs)
  OBVIOUS
<1>2. QED
  BY <1>1 DEF NewQueue, Queue

LEMMA InitIInv == Init => IInv
<1> SUFFICES ASSUME Init PROVE IInv
  OBVIOUS
<1>1. /\ uwq \in Queue(Senders, Pipes) /\ uwq.cap = 0 /\ uwq.items = <<>>
      /\ uwq.putq = <<>> /\ uwq.getq = <<>> /\ ~uwq.closed
  <2>1. 0 \in Nat /\ uwq = NewQueue(0)
    BY DEF Init, SendCap
  <2>2. QED
    BY <2>1, NewQueueOK
<1>2. /\ urq \in Queue(Pipes, Receivers) /\ urq.cap = RecvCap /\ urq.items = <<>>
      /\ urq.putq = <<>> /\ urq.getq = <<>>
  <2>1. urq = NewQueue(RecvCap)
    BY DEF Init
  <2>2. QED
    BY <2>1, NewQueueOK
<1>3. /\ \A s \in Senders : snd[s].at = "idle" /\ snd[s].msg = None
      /\ snd \in [Senders -> [at : {"idle", "found", "wait"}, msg : Msg \cup {None}]]
  BY DEF Init, End
<1>4. /\ \A p \in Pipes : push[p].at = "none" /\ push[p].msg = None
      /\ push \in [Pipes -> [at : PushAt, msg : Msg \cup {None}]]
  BY DEF Init, End, PushAt
<1>5. /\ \A p \in Pipes : pull[p].at = "none" /\ pull[p].msg = None
      /\ pull \in [Pipes -> [at : PullAt, msg : Msg \cup {None}]]
  BY DEF Init, End, PullAt
<1>6. /\ rcv \in [Receivers -> {"idle", "wait"}] /\ \A r \in Receivers : rcv[r] = "idle"
      /\ pushClosed \in [Pipes -> BOOLEAN] /\ pullClosed \in [Pipes -> BOOLEAN]
      /\ \A p \in Pipes : ~pushClosed[p] /\ ~pullClosed[p]
      /\ accepted = {} /\ failed = {} /\ SockTypes
  BY DEF Init, SockTypes
<1>7. /\ \A p \in Pipes : wire[p] = <<>> /\ sent[p] = <<>> /\ got[p] = <<>>
      /\ wire \in [Pipes -> Seq(Msg)] /\ sent \in [Pipes -> Seq(Msg)] /\ got \in [Pipes -> Seq(Msg)]
  <2>1. <<>> \in Seq(Msg)
    OBVIOUS
  <2>2. QED
    BY <2>1 DEF Init
<1>8. Orderly(uwq) /\ Orderly(urq)
  BY <1>1, <1>2, EmptyList DEF Orderly, ReaderMeansEmpty
<1>9. WriteTypes /\ ReadTypes
  <2>1. Len(urq.items) <= RecvCap
    BY <1>2, Kinds
  <2>2. QED
    BY <1>1, <1>2, <1>3, <1>4, <1>5, <1>6, <1>7, <2>1 DEF WriteTypes, ReadTypes
<1>10. WriteInv
  <2>1. WriteLists
    <3>1. \A w \in [aio : Senders, msg : Msg] : w.aio \in Senders
      OBVIOUS
    <3>2. QED
      BY <1>1, <1>3, <1>4, <1>8, <3>1, EmptyList DEF WriteLists
  <2>2. WriteEnds
    BY <1>1, <1>4, <1>6 DEF WriteEnds
  <2>3. QED
    BY <2>1, <2>2 DEF WriteInv
<1>11. ReadInv
  <2>1. ReadLists
    <3>1. \A w \in [aio : Pipes, msg : Msg] : w.aio \in Pipes
      OBVIOUS
    <3>2. QED
      BY <1>2, <1>5, <1>6, <1>8, <3>1, EmptyList DEF ReadLists
  <2>2. ReadEnds
    BY <1>5, <1>6 DEF ReadEnds
  <2>3. QED
    BY <2>1, <2>2 DEF ReadInv
<1>12. \A p \in Pipes : Len(wire[p]) = 0 /\ Len(sent[p]) = 0 /\ Len(got[p]) = 0
  BY <1>7
<1>13. MsgInv
  BY <1>3, <1>6, <1>12 DEF MsgInv
<1>14. OrderInv
  <2>1. Len(urq.items) = 0
    BY <1>2
  <2>2. PrefixInv /\ RingInv /\ PullInv /\ WireInv
    BY <1>5, <1>12, <2>1 DEF PrefixInv, RingInv, PullInv, WireInv
  <2>3. PushInv
    BY <1>4, <1>7, <1>12 DEF PushInv
  <2>4. QED
    BY <2>2, <2>3 DEF OrderInv
<1>15. QED
  BY <1>6, <1>9, <1>10, <1>11, <1>13, <1>14 DEF IInv

LEMMA NextIInv == IInv /\ [Next]_vars => IInv'
<1> SUFFICES ASSUME IInv, [Next]_vars PROVE IInv'
  OBVIOUS
<1>1. CASE \E s \in Senders : SendFind(s) \/ SendPut(s) \/ SendTimeout(s)
  BY <1>1, SendFindStep, SendPutStep, SendTimeoutStep
<1>2. CASE \E r \in Receivers : (\E block \in BOOLEAN : Recv(r, block)) \/ RecvTimeout(r)
  BY <1>2, RecvStep, RecvTimeoutStep
<1>3. ASSUME NEW p \in Pipes, Connect(p) \/ PushSteps(p) \/ PullSteps(p) \/ ClosePush(p) \/ ClosePull(p)
      PROVE  IInv'
  <2>1. CASE PushSteps(p)
    BY <2>1, PushGotStep, PushSentStep, PushSendCbStep, PushFailStep DEF PushSteps
  <2>2. CASE PullSteps(p)
    BY <2>2, PullRecvStep, PullRecvCbStep, PullPutCbStep, PullFailStep DEF PullSteps
  <2>3. CASE Connect(p) \/ ClosePush(p) \/ ClosePull(p)
    BY <2>3, ConnectStep, ClosePushStep, ClosePullStep
  <2>4. QED
    BY <1>3, <2>1, <2>2, <2>3
<1>4. CASE CloseWriteQueue \/ CloseReadQueue
  BY <1>4, CloseWriteQueueStep, CloseReadQueueStep
<1>5. CASE \E x \in {"push", "pull"} : Shutdown(x) \/ CloseSock(x) \/ FreeSock(x)
  BY <1>5, SockStep
<1>6. CASE UNCHANGED vars
  <2>1. UNCHANGED <<queues, snd, rcv, ends, history>> /\ sock' = sock
    BY <1>6 DEF vars
  <2>2. SockTypes'
    BY <2>1 DEF IInv, SockTypes
  <2>3. QED
    BY <2>1, <2>2, SocketStep
<1>7. QED
  BY <1>1, <1>2, <1>3, <1>4, <1>5, <1>6 DEF Next

LEMMA AlwaysIInv == Spec => []IInv
BY InitIInv, NextIInv, PTL DEF Spec

-----------------------------------------------------------------------------
(* What the invariant says.                                                *)

LEMMA WhoWaits ==
    ASSUME NEW ws, NEW rs, NEW q \in Queue(ws, rs)
    PROVE  /\ \A a \in ws \ rs : Waits(q, a) <=> \E i \in 1 .. Len(q.putq) : q.putq[i].aio = a
           /\ \A a \in rs \ ws : Waits(q, a) <=> a \in ToSet(q.getq)
<1> DEFINE W == [aio : ws, msg : Msg]
<1>1. /\ q.putq \in Seq(W) /\ q.getq \in Seq(rs)
      /\ DOMAIN q.putq = 1 .. Len(q.putq) /\ DOMAIN q.getq = 1 .. Len(q.getq)
  BY DEF Queue
<1>2. \A w \in W : w.aio \in ws
  OBVIOUS
<1> HIDE DEF W
<1>3. \A i \in 1 .. Len(q.putq) : q.putq[i].aio \in ws
  BY <1>1, <1>2
<1>4. /\ \A i \in 1 .. Len(q.getq) : q.getq[i] \in rs
      /\ ToSet(q.getq) = {q.getq[i] : i \in 1 .. Len(q.getq)}
  BY <1>1, Elements
<1>5. QED
  BY <1>1, <1>3, <1>4 DEF Waits

LEMMA IInvTypes == IInv => TypeOK
<1> SUFFICES ASSUME IInv PROVE TypeOK
  OBVIOUS
<1>1. WriteTypes /\ WriteInv /\ ReadTypes /\ ReadInv /\ MsgInv
  BY DEF IInv
<1>2. uwq \in Queue(Senders, Pipes) /\ urq \in Queue(Pipes, Receivers)
  BY <1>1 DEF WriteTypes, ReadTypes
<1>3. QueueOK(uwq, SendCap)
  BY <1>1, EmptyList DEF WriteTypes, QueueOK, SendCap
<1>4. QueueOK(urq, RecvCap)
  <2>1. urq.items \in Seq(Msg)
    BY <1>2 DEF Queue
  <2>2. QED
    BY <1>1, <2>1, Elements DEF ReadTypes, QueueOK
<1>5. ASSUME NEW s \in Senders
      PROVE  snd[s].at \in {"idle", "found", "wait"} /\ (snd[s].at = "wait" <=> Waits(uwq, s))
  <2>1. snd[s].at \in {"idle", "found", "wait"}
    BY <1>1 DEF WriteTypes
  <2>2. Waits(uwq, s) <=> \E i \in 1 .. Len(uwq.putq) : uwq.putq[i].aio = s
    <3>1. s \in Senders \ Pipes
      BY Kinds
    <3>2. QED
      BY <1>2, <3>1, WhoWaits
  <2>3. ASSUME NEW i \in 1 .. Len(uwq.putq), uwq.putq[i].aio = s PROVE snd[s].at = "wait"
    BY <1>1, <2>3, WriterIs
  <2>4. ASSUME snd[s].at = "wait" PROVE \E i \in 1 .. Len(uwq.putq) : uwq.putq[i].aio = s
    <3> DEFINE W == [aio : Senders, msg : Msg]
               w == [aio |-> s, msg |-> snd[s].msg]
    <3>1. snd[s].msg \in Msg
      BY <1>1, <2>4 DEF MsgInv
    <3>2. w \in W /\ w.aio = s /\ w.msg = snd[s].msg
      BY <3>1
    <3>3. \A v \in W : v \in ToSet(uwq.putq) <=> snd[v.aio].at = "wait" /\ v.msg = snd[v.aio].msg
      BY <1>1 DEF WriteInv, WriteLists
    <3>4. uwq.putq \in Seq(W)
      BY <1>2 DEF Queue
    <3> HIDE DEF W, w
    <3>5. w \in ToSet(uwq.putq)
      BY <2>4, <3>2, <3>3
    <3>6. PICK i \in 1 .. Len(uwq.putq) : uwq.putq[i] = w
      BY <3>4, <3>5, Elements
    <3>7. QED
      BY <3>2, <3>6
  <2>5. QED
    BY <2>1, <2>2, <2>3, <2>4
<1>6. ASSUME NEW p \in Pipes PROVE push[p].at = "getq" <=> Waits(uwq, p)
  <2>1. p \in Pipes \ Senders
    BY Kinds
  <2>2. Waits(uwq, p) <=> p \in ToSet(uwq.getq)
    BY <1>2, <2>1, WhoWaits
  <2>3. QED
    BY <1>1, <2>2 DEF WriteInv, WriteLists
<1>7. ASSUME NEW r \in Receivers PROVE rcv[r] = "wait" <=> Waits(urq, r)
  <2>1. r \in Receivers \ Pipes
    BY Kinds
  <2>2. Waits(urq, r) <=> r \in ToSet(urq.getq)
    BY <1>2, <2>1, WhoWaits
  <2>3. QED
    BY <1>1, <2>2 DEF ReadInv, ReadLists
<1>8. ASSUME NEW p \in Pipes PROVE pull[p].at = "putq" <=> Waits(urq, p)
  <2>1. p \in Pipes \ Receivers
    BY Kinds
  <2>2. Waits(urq, p) <=> \E i \in 1 .. Len(urq.putq) : urq.putq[i].aio = p
    BY <1>2, <2>1, WhoWaits
  <2>3. ASSUME NEW i \in 1 .. Len(urq.putq), urq.putq[i].aio = p PROVE pull[p].at = "putq"
    BY <1>1, <2>3, PutterIs
  <2>4. ASSUME pull[p].at = "putq" PROVE \E i \in 1 .. Len(urq.putq) : urq.putq[i].aio = p
    <3> DEFINE W == [aio : Pipes, msg : Msg]
               w == [aio |-> p, msg |-> pull[p].msg]
    <3>1. pull[p].msg \in Msg
      BY <1>1, <2>4 DEF ReadInv, ReadEnds
    <3>2. w \in W /\ w.aio = p /\ w.msg = pull[p].msg
      BY <3>1
    <3>3. \A v \in W : v \in ToSet(urq.putq) <=> pull[v.aio].at = "putq" /\ v.msg = pull[v.aio].msg
      BY <1>1 DEF ReadInv, ReadLists
    <3>4. urq.putq \in Seq(W)
      BY <1>2 DEF Queue
    <3> HIDE DEF W, w
    <3>5. w \in ToSet(urq.putq)
      BY <2>4, <3>2, <3>3
    <3>6. PICK i \in 1 .. Len(urq.putq) : urq.putq[i] = w
      BY <3>4, <3>5, Elements
    <3>7. QED
      BY <3>2, <3>6
  <2>5. QED
    BY <2>2, <2>3, <2>4
<1>9. QED
  BY <1>3, <1>4, <1>5, <1>6, <1>7, <1>8 DEF TypeOK

\* A queue holds no more messages than its capacity, and exactly the threads and pipes
\* that wait for a queue are in the list of it that is theirs (nni_msgq_aio_put,
\* nni_msgq_aio_get, nni_msgq_cancel, nni_msgq_close).
THEOREM TypeCorrect == Spec => []TypeOK
BY AlwaysIInv, IInvTypes, PTL

\* In both queues, while an operation waits for a message there is none in the ring and
\* no sender waits (nni_msgq_run_putq and nni_msgq_run_getq go on until one side is empty).
THEOREM NoneWaitsInVain == Spec => []NobodyWaitsInVain
<1>1. IInv => NobodyWaitsInVain
  BY DEF IInv, WriteInv, WriteLists, ReadInv, ReadLists, Orderly, NobodyWaitsInVain
<1>2. QED
  BY <1>1, AlwaysIInv, PTL

LEMMA NotLost == IInv => LostOnlyWithConnection
<1> SUFFICES ASSUME IInv, NEW m \in accepted
             PROVE  OnTheWay(m) \/ \E p \in Pipes : m \in ToSet(sent[p]) /\ (pushClosed[p] \/ pullClosed[p])
  BY DEF LostOnlyWithConnection
<1>1. WriteTypes /\ ReadTypes /\ WriteEnds /\ MsgInv /\ OrderInv
  BY DEF IInv, WriteInv
<1>2. PICK p \in Pipes : \E i \in 1 .. Len(sent[p]) : sent[p][i] = m
  BY <1>1 DEF MsgInv, WriteTypes
<1>3. PICK i \in 1 .. Len(sent[p]) : sent[p][i] = m
  BY <1>2
<1>4. /\ sent[p] \in Seq(Msg) /\ got[p] \in Seq(Msg) /\ wire[p] \in Seq(Msg)
      /\ Len(got[p]) \in Nat /\ Len(sent[p]) \in Nat
  BY <1>1, Flows
<1>5. CASE i <= Len(got[p])
  <2>1. i \in 1 .. Len(got[p])
    BY <1>3, <1>4, <1>5
  <2>2. got[p][i] = m
    BY <1>1, <1>3, <2>1 DEF OrderInv, PrefixInv
  <2>3. m \in ToSet(got[p])
    BY <1>4, <2>1, <2>2, Elements
  <2>4. QED
    BY <2>3 DEF OnTheWay
<1>6. CASE pushClosed[p] \/ pullClosed[p]
  <2>1. m \in ToSet(sent[p])
    BY <1>3, <1>4, Elements
  <2>2. QED
    BY <1>6, <2>1
<1>7. CASE ~(i <= Len(got[p])) /\ ~pushClosed[p] /\ ~pullClosed[p]
  <2>1. push[p].at # "stopped"
    BY <1>1, <1>7 DEF WriteEnds
  <2>2. i \in Len(got[p]) + 1 .. Len(sent[p])
    BY <1>3, <1>4, <1>7
  <2>3. m \in Between(p) \cup {push[p].msg}
    BY <1>1, <1>3, <1>7, <2>1, <2>2 DEF OrderInv, PushInv
  <2>4. QED
    BY <2>3 DEF Between, Ring, OnTheWay
<1>8. QED
  BY <1>5, <1>6, <1>7

\* A message whose nn_send was successful is on its way or received unless the connection
\* that took it was closed: no queue, no callback and no cancelled operation loses one.
THEOREM AcceptedNotLost == Spec => []LostOnlyWithConnection
BY AlwaysIInv, NotLost, PTL

-----------------------------------------------------------------------------
(* The sockets implement the channel.                                      *)

\* A step that the channel does not see.
Unseen == UNCHANGED <<sent, got, failed>>

LEMMA NotSent ==
    ASSUME MsgInv, WriteTypes, NEW m \in Msg, m \notin accepted
    PROVE  ~Channel!Sent(m)
<1>1. \A p \in Pipes : DOMAIN sent[p] = 1 .. Len(sent[p])
  BY DEF WriteTypes
<1>2. \A p \in Pipes : \A i \in 1 .. Len(sent[p]) : sent[p][i] # m
  BY DEF MsgInv
<1>3. QED
  BY <1>1, <1>2 DEF Channel!Sent

LEMMA HandOverIsSend ==
    ASSUME WriteTypes, MsgInv, NEW s \in Senders, NEW p \in Pipes, snd[s].at # "idle",
           HandOver(s, p), UNCHANGED got
    PROVE  Channel!Next
<1> DEFINE m == snd[s].msg
<1>1. m \in Msg /\ m \notin accepted /\ m \notin failed
  BY DEF MsgInv
<1>2. ~Channel!Sent(m)
  BY <1>1, NotSent
<1>3. Channel!Send(m, p)
  BY <1>1, <1>2 DEF Channel!Send, HandOver
<1>4. QED
  BY <1>1, <1>3 DEF Channel!Next

LEMMA FailSendsIsFail ==
    ASSUME WriteTypes, MsgInv, NEW T, T \subseteq Senders, \A s \in T : snd[s].at # "idle",
           FailSends(T), UNCHANGED got
    PROVE  Channel!Next
<1> DEFINE ms == {snd[s].msg : s \in T}
<1>1. ms \subseteq Msg /\ \A m \in ms : m \notin accepted
  BY DEF MsgInv
<1>2. \A m \in ms : ~Channel!Sent(m)
  BY <1>1, NotSent
<1>3. Channel!Fail(ms)
  BY <1>2 DEF Channel!Fail, FailSends
<1>4. ms \in SUBSET Msg
  BY <1>1
<1> HIDE DEF ms
<1>5. QED
  BY <1>3, <1>4 DEF Channel!Next

LEMMA ComesOutIsReceive ==
    ASSUME WriteTypes, ReadTypes, NEW p \in Pipes, NEW m, ComesOut(m, p), UNCHANGED failed
    PROVE  Channel!Next
<1>1. /\ Len(got[p]) + 1 \in 1 .. Len(sent[p]) /\ sent[p][Len(got[p]) + 1] = m
      /\ got' = [got EXCEPT ![p] = Append(@, m)] /\ sent' = sent
  BY DEF ComesOut
<1>2. Len(got[p]) \in Nat /\ Len(sent[p]) \in Nat
  BY Flows
<1>3. Channel!Receive(p)
  BY <1>1, <1>2 DEF Channel!Receive
<1>4. QED
  BY <1>3 DEF Channel!Next

LEMMA NextMessageSeen ==
    ASSUME IInv, NEW p \in Pipes, Takes(p) \/ PipeWaits(p), UNCHANGED <<got, pushClosed>>
    PROVE  Channel!Next \/ Unseen
<1>1. WriteTypes /\ WriteInv /\ MsgInv
  BY DEF IInv
<1>2. CASE Takes(p)
  <2> DEFINE s == Head(uwq.putq).aio
  <2>1. s \in Senders /\ snd[s].at = "wait"
    BY <1>1, <1>2, ListsTakes
  <2>2. HandOver(s, p)
    BY <1>2 DEF Takes
  <2> HIDE DEF s
  <2>3. snd[s].at # "idle"
    BY <2>1
  <2>4. QED
    BY <1>1, <2>1, <2>2, <2>3, HandOverIsSend
<1>3. CASE PipeWaits(p)
  BY <1>3 DEF PipeWaits, Unseen
<1>4. QED
  BY <1>2, <1>3

LEMMA SendersSeen ==
    ASSUME IInv, NEW s \in Senders, SendFind(s) \/ SendPut(s) \/ SendTimeout(s)
    PROVE  Channel!Next \/ Unseen
<1>1. WriteTypes /\ WriteInv /\ MsgInv
  BY DEF IInv
<1>2. CASE SendFind(s)
  BY <1>2 DEF SendFind, history, Unseen
<1>3. CASE SendPut(s)
  <2>1. snd[s].at = "found" /\ UNCHANGED <<got, pushClosed>>
    BY <1>3 DEF SendPut, readSide
  <2>2. CASE SendsAtOnce(s)
    <3> DEFINE p == Head(uwq.getq)
    <3>1. p \in Pipes
      BY <1>1, <2>1, <2>2, ListsSendAtOnce
    <3>2. HandOver(s, p)
      BY <2>2 DEF SendsAtOnce
    <3> HIDE DEF p
    <3>3. snd[s].at # "idle"
      BY <2>1
    <3>4. QED
      BY <1>1, <2>1, <3>1, <3>2, <3>3, HandOverIsSend
  <2>3. CASE SendWaits(s)
    BY <2>1, <2>3 DEF SendWaits, Unseen
  <2>4. QED
    BY <1>1, <1>3, <2>2, <2>3, SendPutEffect
<1>4. CASE SendTimeout(s)
  <2>1. UNCHANGED got
    BY <1>4 DEF SendTimeout, readSide
  <2>2. PICK i \in 1 .. Len(uwq.putq) : GivesUp(s, i)
    BY <1>1, <1>4, SendTimeoutEffect
  <2> DEFINE T == {s}
  <2>3. FailSends(T) /\ T \subseteq Senders /\ \A t \in T : snd[t].at # "idle"
    BY <2>2 DEF GivesUp
  <2> HIDE DEF T
  <2>4. QED
    BY <1>1, <2>1, <2>3, FailSendsIsFail
<1>5. QED
  BY <1>2, <1>3, <1>4

LEMMA ReceiversSeen ==
    ASSUME IInv, NEW r \in Receivers, (\E block \in BOOLEAN : Recv(r, block)) \/ RecvTimeout(r)
    PROVE  Channel!Next \/ Unseen
<1>1. WriteTypes /\ ReadTypes /\ ReadInv /\ MsgInv /\ OrderInv
  BY DEF IInv
<1>2. ASSUME NEW block \in BOOLEAN, Recv(r, block) PROVE Channel!Next \/ Unseen
  <2>1. UNCHANGED <<sent, wire, push, pullClosed>> /\ UNCHANGED failed
    BY <1>2 DEF Recv, writeSide
  <2>2. CASE UNCHANGED readSide
    BY <2>1, <2>2 DEF readSide, Unseen
  <2>3. CASE RecvFromRing
    <3> DEFINE m == Head(urq.items)
    <3>1. PICK p \in Pipes : ComesOut(m, p)
      BY <1>1, <2>1, <2>3, FromRing
    <3> HIDE DEF m
    <3>2. QED
      BY <1>1, <2>1, <3>1, ComesOutIsReceive
  <2>4. CASE RecvFromWriter
    <3> DEFINE p == Head(urq.putq).aio
    <3>1. /\ urq.items = <<>> /\ Gives(Head(urq.putq).msg) /\ pull' = [pull EXCEPT ![p] = End("put", None)]
          /\ urq.putq # <<>> /\ urq' = WithPutq(urq, Tail(urq.putq))
      BY <2>4 DEF RecvFromWriter
    <3>2. p \in Pipes /\ pull[p].at = "putq" /\ Head(urq.putq).msg = pull[p].msg
      BY <1>1, <3>1, FirstPutter
    <3>3. urq'.items = urq.items
      BY <1>1, <3>1 DEF WithPutq, ReadTypes, Queue
    <3> HIDE DEF p
    <3>4. Gives(pull[p].msg) /\ ~pullClosed[p]
      BY <1>1, <3>1, <3>2 DEF ReadInv, ReadEnds
    <3>5. /\ urq.items = <<>> /\ urq'.items = <<>> /\ pull[p].at \in {"recvd", "putq"}
          /\ pull' = [pull EXCEPT ![p] = End("put", None)]
      BY <3>1, <3>2, <3>3
    <3>6. ComesOut(pull[p].msg, p)
      BY <1>1, <2>1, <3>2, <3>4, <3>5, FromPipe
    <3>7. QED
      BY <1>1, <2>1, <3>2, <3>6, ComesOutIsReceive
  <2>5. CASE RecvWaits(r)
    BY <2>1, <2>5 DEF RecvWaits, Unseen
  <2>6. QED
    BY <1>1, <1>2, <2>2, <2>3, <2>4, <2>5, RecvEffect
<1>3. CASE RecvTimeout(r)
  <2>1. UNCHANGED <<sent, failed>>
    BY <1>3 DEF RecvTimeout, writeSide
  <2>2. PICK i \in 1 .. Len(urq.getq) : RecvGivesUp(r, i)
    BY <1>1, <1>3, RecvTimeoutEffect
  <2>3. QED
    BY <2>1, <2>2 DEF RecvGivesUp, Unseen
<1>4. QED
  BY <1>2, <1>3

LEMMA PushSeen ==
    ASSUME IInv, NEW p \in Pipes, Connect(p) \/ PushSteps(p) \/ ClosePush(p)
    PROVE  Channel!Next \/ Unseen
<1>1. WriteTypes /\ WriteInv /\ MsgInv
  BY DEF IInv
<1>2. CASE Connect(p) \/ PushSendCb(p)
  <2>1. GetNext(p, push) /\ UNCHANGED <<got, pushClosed>> /\ (push[p].at = "sent" \/ sock.push = "open")
    BY <1>2 DEF Connect, PushSendCb, readSide
  <2>2. uwq.closed => pushClosed[p]
    <3>1. push[p].at = "sent" => push[p].at # "none"
      OBVIOUS
    <3>2. QED
      BY <1>1, <2>1, <3>1 DEF WriteInv, WriteEnds
  <2>3. CASE pushClosed[p] /\ PipeStops(p) /\ uwq' = uwq
    BY <2>1, <2>3 DEF PipeStops, Unseen
  <2>4. CASE Takes(p) \/ PipeWaits(p)
    BY <2>1, <2>4, NextMessageSeen
  <2>5. QED
    BY <1>1, <2>1, <2>2, <2>3, <2>4, GetNextEffect
<1>3. CASE PushGot(p) \/ PushSent(p) \/ PushFail(p)
  BY <1>3 DEF PushGot, PushSent, PushFail, history, Unseen
<1>4. CASE ClosePush(p)
  <2>1. UNCHANGED got
    BY <1>4 DEF ClosePush, readSide
  <2>2. (\E i \in 1 .. Len(uwq.getq) : Leaves(p, i)) \/ UNCHANGED writeSide
    BY <1>1, <1>4, ClosePushEffect
  <2>3. QED
    BY <2>1, <2>2 DEF Leaves, PipeStops, writeSide, Unseen
<1>5. QED
  BY <1>2, <1>3, <1>4 DEF PushSteps

LEMMA PullSeen ==
    ASSUME IInv, NEW p \in Pipes, PullSteps(p) \/ ClosePull(p)
    PROVE  Channel!Next \/ Unseen
<1>1. WriteTypes /\ ReadTypes /\ ReadInv /\ MsgInv /\ OrderInv
  BY DEF IInv
<1>2. CASE PullRecvCb(p)
  <2>1. UNCHANGED <<sent, wire, push, pullClosed>> /\ UNCHANGED failed
    BY <1>2 DEF PullRecvCb, writeSide
  <2>2. pull[p].at = "recvd" /\ (Frees(p) \/ HandsToReader(p) \/ \E w, k : Stores(p, w, k))
    BY <1>1, <1>2, PullRecvCbEffect DEF PullRecvCb
  <2>3. CASE HandsToReader(p)
    <3>1. /\ urq.getq # <<>> /\ ~pullClosed[p] /\ Gives(pull[p].msg)
          /\ pull' = [pull EXCEPT ![p] = End("put", None)]
          /\ urq' = WithGetq(urq, Tail(urq.getq))
      BY <2>3 DEF HandsToReader
    <3>2. urq.items = <<>>
      BY <1>1, <3>1 DEF ReadInv, ReadLists, Orderly, ReaderMeansEmpty
    <3>3. urq'.items = urq.items
      BY <1>1, <3>1 DEF WithGetq, ReadTypes, Queue
    <3>4. urq'.items = <<>> /\ pull[p].at \in {"recvd", "putq"}
      BY <2>2, <3>2, <3>3
    <3>5. ~pullClosed[p] /\ Gives(pull[p].msg) /\ pull' = [pull EXCEPT ![p] = End("put", None)]
      BY <3>1
    <3>6. ComesOut(pull[p].msg, p)
      BY <1>1, <2>1, <3>2, <3>4, <3>5, FromPipe
    <3>7. QED
      BY <1>1, <2>1, <3>6, ComesOutIsReceive
  <2>4. CASE Frees(p) \/ \E w, k : Stores(p, w, k)
    BY <2>1, <2>4 DEF Frees, Stores, Unseen
  <2>5. QED
    BY <2>2, <2>3, <2>4
<1>3. CASE PullRecv(p) \/ PullPutCb(p) \/ PullFail(p)
  BY <1>3 DEF PullRecv, PullPutCb, PullFail, history, Unseen
<1>4. CASE ClosePull(p)
  <2>1. UNCHANGED <<sent, failed>>
    BY <1>4 DEF ClosePull, writeSide
  <2>2. (\E i \in 1 .. Len(urq.putq) : PutStops(p, i)) \/ UNCHANGED readSide
    BY <1>1, <1>4, ClosePullEffect
  <2>3. QED
    BY <2>1, <2>2 DEF PutStops, readSide, Unseen
<1>5. QED
  BY <1>2, <1>3, <1>4 DEF PullSteps

LEMMA ClosingSeen ==
    ASSUME IInv, CloseWriteQueue \/ CloseReadQueue
    PROVE  Channel!Next \/ Unseen
<1>1. WriteTypes /\ WriteInv /\ ReadTypes /\ ReadInv /\ MsgInv
  BY DEF IInv
<1>2. CASE CloseWriteQueue
  <2>1. UNCHANGED got
    BY <1>2 DEF CloseWriteQueue, readSide
  <2> DEFINE T == Waiting
  <2>2. T \subseteq Senders /\ \A s \in T : snd[s].at # "idle"
    BY DEF Waiting
  <2>3. FailSends(T)
    BY <1>1, <1>2, CloseWriteQueueEffect
  <2> HIDE DEF T
  <2>4. QED
    BY <1>1, <2>1, <2>2, <2>3, FailSendsIsFail
<1>3. CASE CloseReadQueue
  <2>1. UNCHANGED <<sent, failed>>
    BY <1>3 DEF CloseReadQueue, writeSide
  <2>2. UNCHANGED got
    BY <1>1, <1>3, CloseReadQueueEffect
  <2>3. QED
    BY <2>1, <2>2 DEF Unseen
<1>4. QED
  BY <1>2, <1>3

\* nn_send to nn_recv implements the channel: a message is sent when push0_getq_cb gets it
\* and received when nn_recv returns it, and no other step is seen.
THEOREM ImplementsChannel == Spec => IsLossyChannel
<1>1. Init => Channel!Init
  BY DEF Init, Channel!Init
<1>2. IInv /\ [Next]_vars => [Channel!Next]_Channel!vars
  <2> SUFFICES ASSUME IInv, [Next]_vars PROVE Channel!Next \/ Unseen
    BY DEF Channel!vars, Unseen
  <2>1. CASE \E s \in Senders : SendFind(s) \/ SendPut(s) \/ SendTimeout(s)
    BY <2>1, SendersSeen
  <2>2. CASE \E r \in Receivers : (\E block \in BOOLEAN : Recv(r, block)) \/ RecvTimeout(r)
    BY <2>2, ReceiversSeen
  <2>3. ASSUME NEW p \in Pipes, Connect(p) \/ PushSteps(p) \/ PullSteps(p) \/ ClosePush(p) \/ ClosePull(p)
        PROVE  Channel!Next \/ Unseen
    BY <2>3, PushSeen, PullSeen
  <2>4. CASE CloseWriteQueue \/ CloseReadQueue
    BY <2>4, ClosingSeen
  <2>5. CASE \E x \in {"push", "pull"} : Shutdown(x) \/ CloseSock(x) \/ FreeSock(x)
    BY <2>5 DEF Shutdown, CloseSock, FreeSock, history, Unseen
  <2>6. CASE UNCHANGED vars
    BY <2>6 DEF vars, history, Unseen
  <2>7. QED
    BY <2>1, <2>2, <2>3, <2>4, <2>5, <2>6 DEF Next
<1>3. QED
  BY <1>1, <1>2, AlwaysIInv, PTL DEF Spec, IsLossyChannel, Channel!Spec

=============================================================================
