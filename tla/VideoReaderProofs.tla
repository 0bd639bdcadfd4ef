------------------------- MODULE VideoReaderProofs --------------------------
(***************************************************************************)
(* For every number of readers and every size of packets and buffer: while *)
(* no killed reader runs beside its successor, one thread reads, a pause   *)
(* stops it, and it plays whole packets of one connection unless it began  *)
(* behind a rest.  The invariant says at each place of the reader's loop   *)
(* how the kept part, the buffer and the browser's position are aligned.   *)
(***************************************************************************)
EXTENDS VideoReader, SequenceTheorems, TLAPS

-----------------------------------------------------------------------------
(* Arithmetic and sequences.                                               *)

LEMMA Division ==
    ASSUME NEW p \in Nat \ {0}, NEW a \in Nat
    PROVE  /\ a % p \in 0..(p - 1)
           /\ a \div p \in Nat
           /\ a = p * (a \div p) + (a % p)
OBVIOUS

LEMMA SmallModulo ==
    ASSUME NEW p \in Nat \ {0}, NEW a \in 0..(p - 1)
    PROVE  a % p = a
OBVIOUS

\* Whole packets in front do not change the place in a packet.
LEMMA ModuloOfMultiple ==
    ASSUME NEW p \in Nat \ {0}, NEW k \in Nat, NEW j \in 0..(p - 1)
    PROVE  (k * p + j) % p = j
<1> DEFINE a == k * p + j
           q == a \div p
           m == a % p
<1>1. k * p \in Nat /\ a \in Nat
  OBVIOUS
<1>2. m \in 0..(p - 1) /\ q \in Nat /\ a = p * q + m
  BY <1>1, Division
<1>3. p * q + m = p * k + j
  BY <1>2
<1> HIDE DEF a, q, m
<1>4. CASE q > k
  <2>1. PICK d \in Nat : q = k + 1 + d
    BY <1>2, <1>4
  <2>2. p * q = p * k + p + p * d /\ p * d \in Nat /\ p * k \in Nat
    BY <2>1
  <2> QED
    BY <1>2, <1>3, <2>2
<1>5. CASE q < k
  <2>1. PICK d \in Nat : k = q + 1 + d
    BY <1>2, <1>5
  <2>2. p * k = p * q + p + p * d /\ p * d \in Nat /\ p * q \in Nat
    BY <1>2, <2>1
  <2> QED
    BY <1>2, <1>3, <2>2
<1>6. CASE q = k
  <2>1. p * k \in Nat
    OBVIOUS
  <2>2. m = j
    BY <1>2, <1>3, <1>6, <2>1
  <2> QED
    BY <2>2 DEF m, a
<1> QED
  BY <1>2, <1>4, <1>5, <1>6

\* The part that is played and the part that is kept make up the bytes.
LEMMA Split ==
    ASSUME NEW p \in Nat \ {0}, NEW b \in Nat
    PROVE  /\ (b \div p) * p \in 0..b
           /\ ((b \div p) * p) % p = 0
           /\ b - (b \div p) * p = b % p
           /\ b % p \in 0..(p - 1)
           /\ \A j \in 0..(p - 1) : ((b \div p) * p + j) % p = j
<1>1. b \div p \in Nat /\ b % p \in 0..(p - 1) /\ b = p * (b \div p) + (b % p)
  BY Division
<1> DEFINE k == b \div p
<1>2. k * p \in Nat /\ k * p = p * k
  BY <1>1
<1>3. \A j \in 0..(p - 1) : (k * p + j) % p = j
  BY <1>1, ModuloOfMultiple
<1>4. (k * p + 0) % p = 0 /\ k * p + 0 = k * p
  BY <1>2, <1>3
<1> HIDE DEF k
<1>5. k * p \in 0..b /\ b - k * p = b % p
  BY <1>1, <1>2 DEF k
<1> QED
  BY <1>1, <1>3, <1>4, <1>5 DEF k

LEMMA UnitFacts == Garbage \in Unit /\ 0 \in Phase /\ PacketSize \in Nat \ {0}
BY SizeAssumption DEF Garbage, Unit, Phase, NoSocket

LEMMA SeqOf ==
    ASSUME NEW S, NEW n \in Nat, NEW f \in [1..n -> S]
    PROVE  f \in Seq(S) /\ Len(f) = n
OBVIOUS

LEMMA ConcatIs ==
    ASSUME NEW S, NEW s \in Seq(S), NEW t \in Seq(S)
    PROVE  /\ Len(s \o t) = Len(s) + Len(t)
           /\ \A i \in 1..Len(s) : (s \o t)[i] = s[i]
           /\ \A i \in (Len(s) + 1)..(Len(s) + Len(t)) : (s \o t)[i] = t[i - Len(s)]
OBVIOUS

\* The buffer holds the bytes it is said to hold.
LEMMA PrefixIs ==
    ASSUME NEW s \in Seq(Unit), NEW n \in Nat
    PROVE  /\ Prefix(s, n) \in Seq(Unit)
           /\ Len(Prefix(s, n)) = n
           /\ \A i \in 1..n : i <= Len(s) => Prefix(s, n)[i] = s[i]
<1>1. \A i \in 1..n : (IF i <= Len(s) THEN s[i] ELSE Garbage) \in Unit
  BY UnitFacts
<1>2. Prefix(s, n) \in [1..n -> Unit]
  BY <1>1 DEF Prefix
<1>3. Prefix(s, n) \in Seq(Unit) /\ Len(Prefix(s, n)) = n
  BY <1>2, SeqOf
<1> QED
  BY <1>3 DEF Prefix

LEMMA PrefixOfLong ==
    ASSUME NEW s \in Seq(Unit), NEW n \in Nat, NEW m \in Nat, n <= m, Len(s) >= m
    PROVE  Len(Prefix(s, n)) = n /\ \A i \in 1..n : Prefix(s, n)[i] = s[i]
<1>1. /\ Len(Prefix(s, n)) = n
      /\ \A i \in 1..n : i <= Len(s) => Prefix(s, n)[i] = s[i]
  BY PrefixIs
<1>2. \A i \in 1..n : i <= Len(s)
  OBVIOUS
<1> QED
  BY <1>1, <1>2

-----------------------------------------------------------------------------
(* Types.                                                                  *)

LEMMA InitTyped == Init => TypeOK
<1> SUFFICES ASSUME Init PROVE TypeOK
  OBVIOUS
<1>1. current \in Reader
  BY ReaderAssumption DEF Init
<1>2. <<>> \in Seq(Unit)
  OBVIOUS
<1>3. buffer \in [Reader -> Seq(Unit)] /\ tsbuf \in Seq(Unit)
  BY <1>2 DEF Init
<1>4. got \in [Reader -> 0..MaxRecv] /\ filled \in Phase /\ phase \in Phase
      /\ commands \in 0..MaxCommands
  BY UnitFacts, SizeAssumption, BoundAssumption DEF Init
<1> QED
  BY <1>1, <1>3, <1>4 DEF Init, TypeOK, NoSocket

\* A start creates a reader that does not run yet, or does nothing.
LEMMA StartTyped ==
    ASSUME TypeOK, Start \/ UNCHANGED <<threadState, trouble>>
    PROVE  /\ pc' \in [Reader -> {"none", "action", "connect", "check", "reconnect",
                                  "recv", "play", "leave"}]
           /\ cancelled' \in [Reader -> BOOLEAN]
           /\ current' \in Reader /\ running' \in BOOLEAN
           /\ trouble' \in SUBSET Trouble
<1> USE DEF TypeOK, threadState, Trouble
<1>1. CASE running /\ Start
  BY <1>1 DEF Start
<1>2. CASE ~running /\ Start
  <2>1. current' \in Reader
    BY <1>2 DEF Start
  <2>2. Beginning \in SUBSET Trouble
    BY DEF Beginning
  <2> QED
    BY <1>2, <2>1, <2>2 DEF Start, Goto
<1>3. CASE UNCHANGED <<threadState, trouble>>
  BY <1>3
<1> QED
  BY <1>1, <1>2, <1>3

\* What comes from recv and what is kept of it are units again.
LEMMA RecvTyped ==
    ASSUME TypeOK, NEW r \in Reader, Recv(r)
    PROVE  buffer' \in [Reader -> Seq(Unit)] /\ got' \in [Reader -> 0..MaxRecv]
           /\ phase' \in Phase
<1>1. PICK n \in 0..(MaxRecv - filled) :
        /\ got' = [got EXCEPT ![r] = n]
        /\ buffer' = [buffer EXCEPT ![r] = Prefix(@, filled) \o
             [i \in 1..n |-> [conn |-> videosocket, phase |-> (phase + i - 1) % PacketSize]]]
        /\ phase' = (phase + n) % PacketSize
  BY DEF Recv
<1>2. filled \in Nat /\ phase \in Nat /\ n \in 0..MaxRecv /\ videosocket \in Nat
  BY SizeAssumption DEF TypeOK, Phase
<1>3. \A a \in Nat : a % PacketSize \in Phase
  BY SizeAssumption, Division DEF Phase
<1> DEFINE new == [i \in 1..n |-> [conn |-> videosocket, phase |-> (phase + i - 1) % PacketSize]]
           old == Prefix(buffer[r], filled)
<1>4. new \in Seq(Unit)
  <2>1. \A i \in 1..n : phase + i - 1 \in Nat
    BY <1>2
  <2>2. new \in [1..n -> Unit]
    BY <1>2, <1>3, <2>1 DEF Unit
  <2>3. n \in Nat
    BY <1>2
  <2> HIDE DEF new
  <2> QED
    BY <2>2, <2>3, SeqOf
<1>5. old \in Seq(Unit)
  BY <1>2, PrefixIs DEF TypeOK
<1>6. old \o new \in Seq(Unit)
  <2> HIDE DEF old, new
  <2> QED
    BY <1>4, <1>5
<1>7. phase + n \in Nat
  BY <1>2
<1> QED
  BY <1>1, <1>2, <1>3, <1>6, <1>7 DEF TypeOK

\* The rest of the bytes, as PlayPacket keeps it.
Rest(r) == SubSeq(Prefix(buffer[r], Bytes(r)), Packets(r) + 1, Bytes(r))

LEMMA RestIs ==
    ASSUME TypeOK, NEW r \in Reader
    PROVE  /\ Bytes(r) \in Nat /\ Packets(r) \in 0..Bytes(r)
           /\ Bytes(r) - Packets(r) = Bytes(r) % PacketSize
           /\ Bytes(r) % PacketSize \in Phase
           /\ Rest(r) \in Seq(Unit) /\ Len(Rest(r)) = Bytes(r) % PacketSize
           /\ \A i \in 1..Len(Rest(r)) :
                  Rest(r)[i] = Prefix(buffer[r], Bytes(r))[Packets(r) + i]
<1>1. Bytes(r) \in Nat
  BY SizeAssumption DEF TypeOK, Phase, Bytes
<1>2. /\ Packets(r) \in 0..Bytes(r)
      /\ Bytes(r) - Packets(r) = Bytes(r) % PacketSize
      /\ Bytes(r) % PacketSize \in Phase
  BY <1>1, SizeAssumption, Split DEF Packets, Phase
<1> DEFINE s == Prefix(buffer[r], Bytes(r))
           b == Bytes(r)
           k == Packets(r)
<1>3. s \in Seq(Unit) /\ Len(s) = b
  BY <1>1, PrefixIs DEF TypeOK
<1>4. Rest(r) = SubSeq(s, k + 1, b)
  BY DEF Rest
<1>5. b \in Nat /\ k \in 0..b
  BY <1>1, <1>2
<1> HIDE DEF s, b, k
<1>6. SubSeq(s, k + 1, b) \in Seq(Unit) /\ Len(SubSeq(s, k + 1, b)) = b - k
      /\ \A i \in 1..(b - k) : SubSeq(s, k + 1, b)[i] = s[k + i]
  BY <1>3, <1>5
<1> QED
  BY <1>1, <1>2, <1>4, <1>6 DEF s, b, k

LEMMA PlayTyped ==
    ASSUME TypeOK, NEW r \in Reader, PlayPacket(r)
    PROVE  filled' \in Phase /\ tsbuf' \in Seq(Unit)
BY RestIs DEF PlayPacket, Rest, TypeOK

\* Everything a reader does.
LEMMA ReaderTyped == ASSUME TypeOK, NEW r \in Reader, ReaderStep(r) PROVE TypeOK'
<1> USE DEF Own, Goto, locals, stream, control
<1>1. /\ pc' \in [Reader -> {"none", "action", "connect", "check", "reconnect", "recv",
                             "play", "leave"}]
      /\ UNCHANGED <<cancelled, current, pause, attached, stale, handler, mainThread,
                     commands>>
      /\ running' \in BOOLEAN /\ connectRequested' \in BOOLEAN
  BY DEF TypeOK, ReaderStep, Die, Action, Connect, ConnectFails, Copy, Leave, Close,
     ReaderReconnects, Recv, RecvFails, PlayPacket, Ended
<1>2. trouble' \in SUBSET Trouble
  <2>1. trouble \in SUBSET Trouble
    BY DEF TypeOK
  <2> QED
    BY <2>1 DEF ReaderStep, Die, Action, Connect, ConnectFails, Copy, Leave, Close,
       ReaderReconnects, NotConnected, Recv, RecvFails, PlayPacket, Ended, Trouble
<1>3. buffer' \in [Reader -> Seq(Unit)] /\ got' \in [Reader -> 0..MaxRecv]
  <2>1. buffer \in [Reader -> Seq(Unit)] /\ got \in [Reader -> 0..MaxRecv]
        /\ <<>> \in Seq(Unit) /\ 0 \in 0..MaxRecv
    BY SizeAssumption DEF TypeOK
  <2>2. CASE Recv(r)
    BY <2>2, RecvTyped
  <2>3. CASE Copy(r)
    <3>1. filled \in Nat /\ tsbuf \in Seq(Unit)
      BY SizeAssumption DEF TypeOK, Phase
    <3>2. Prefix(tsbuf, filled) \in Seq(Unit)
      BY <3>1, PrefixIs
    <3> QED
      BY <2>1, <2>3, <3>2 DEF Copy
  <2>4. CASE Die(r) \/ ReaderReconnects(r) \/ PlayPacket(r)
    BY <2>1, <2>4 DEF Die, ReaderReconnects, PlayPacket
  <2> QED
    BY <2>1, <2>2, <2>3, <2>4 DEF ReaderStep, Action, Connect, ConnectFails, Leave, Close,
       RecvFails, Ended
<1>4. filled' \in Phase /\ tsbuf' \in Seq(Unit)
  <2>1. filled \in Phase /\ tsbuf \in Seq(Unit) /\ 0 \in Phase
    BY UnitFacts DEF TypeOK
  <2>2. CASE PlayPacket(r)
    BY <2>2, PlayTyped
  <2> QED
    BY <2>1, <2>2 DEF ReaderStep, Die, Action, Connect, ConnectFails, Copy, Leave, Close,
       ReaderReconnects, Recv, RecvFails, Ended
<1>5. videosocket' \in Nat /\ conn' \in Nat /\ phase' \in Phase
  <2>1. videosocket \in Nat /\ conn \in Nat /\ phase \in Phase /\ 0 \in Phase
    BY UnitFacts DEF TypeOK
  <2>2. CASE Recv(r)
    BY <2>1, <2>2, RecvTyped DEF Recv
  <2>3. ASSUME Connected \/ UNCHANGED <<videosocket, conn, phase>>
        PROVE  videosocket' \in Nat /\ conn' \in Nat /\ phase' \in Phase
    BY <2>1, <2>3 DEF Connected
  <2>4. ASSUME videosocket' = NoSocket, UNCHANGED <<conn, phase>>
        PROVE  videosocket' \in Nat /\ conn' \in Nat /\ phase' \in Phase
    BY <2>1, <2>4 DEF NoSocket
  <2>5. CASE Connect(r) \/ ReaderReconnects(r) \/ ConnectFails(r)
    BY <2>3, <2>5 DEF Connect, ReaderReconnects, ConnectFails, NotConnected
  <2>6. CASE Action(r) \/ Close(r)
    BY <2>4, <2>6 DEF Action, Close
  <2>7. CASE Die(r) \/ Copy(r) \/ Leave(r) \/ RecvFails(r) \/ PlayPacket(r) \/ Ended(r)
    BY <2>3, <2>7 DEF Die, Copy, Leave, RecvFails, PlayPacket, Ended
  <2> QED
    BY <2>2, <2>5, <2>6, <2>7 DEF ReaderStep
<1> QED
  BY <1>1, <1>2, <1>3, <1>4, <1>5 DEF TypeOK

\* Everything the main and the receiver thread do.
Steering ==
    MainStep \/ Seek \/ Resume \/ Pause \/ HandlerStep

LEMMA SteeringTyped == ASSUME TypeOK, Steering PROVE TypeOK'
<1> USE DEF TypeOK, locals, stream, Message, Detach, Attach
<1>1. CASE MainAttach
  BY <1>1 DEF MainAttach, threadState
<1>2. CASE MainStart \/ ResumeStart
  <2>1. Start
    BY <1>2 DEF MainStart, ResumeStart
  <2> QED
    BY <1>2, <2>1, StartTyped DEF MainStart, ResumeStart
<1>3. CASE SeekAttach \/ ResumeAttach
  <2>1. Start \/ UNCHANGED <<threadState, trouble>>
    BY <1>3 DEF SeekAttach, ResumeAttach, Activate
  <2> QED
    BY <1>3, <2>1, StartTyped DEF SeekAttach, ResumeAttach
<1>4. CASE Seek \/ Resume \/ Pause
  <2>1. commands' \in 0..MaxCommands /\ handler' \in {"seek_attach", "resume_attach", "cancel"}
    BY <1>4, BoundAssumption DEF Seek, Resume, Pause
  <2>2. attached' \in BOOLEAN /\ pause' \in BOOLEAN
    BY <1>4 DEF Seek, Resume, Pause
  <2> QED
    BY <1>4, <2>1, <2>2 DEF Seek, Resume, Pause, threadState
<1>5. CASE Reconnect
  BY <1>5 DEF Reconnect, threadState, Trouble
<1>6. CASE ResumePause
  BY <1>6 DEF ResumePause, threadState
<1>7. CASE PauseCancel
  BY <1>7 DEF PauseCancel
<1> QED
  BY <1>1, <1>2, <1>3, <1>4, <1>5, <1>6, <1>7 DEF Steering, MainStep, HandlerStep

LEMMA TypeStays == TypeOK /\ [Next]_vars => TypeOK'
<1> SUFFICES ASSUME TypeOK, [Next]_vars PROVE TypeOK'
  OBVIOUS
<1>1. CASE UNCHANGED vars
  BY <1>1 DEF TypeOK, vars, locals, threadState, stream, control
<1> QED
  BY <1>1, ReaderTyped, SteeringTyped DEF Next, Steering

-----------------------------------------------------------------------------
(* One reader at a time, and a pause stops it.                             *)

ReaderThreads ==
    "overlap" \notin trouble =>
        /\ \A r \in Reader : Live(r) => running /\ r = current
        /\ \A r, s \in Reader : Alive(r) /\ Alive(s) => r = s

PauseStops ==
    ("overlap" \notin trouble /\ pause /\ handler # "cancel") =>
        \A r \in Reader : Live(r) => pc[r] \notin {"reconnect", "recv", "play"}

\* After a start that left no trouble the only reader is at its beginning, or
\* the start found the thread running.
LEMMA StartAlone ==
    ASSUME TypeOK, ReaderThreads, Start, "overlap" \notin trouble'
    PROVE  \/ UNCHANGED threadState /\ "overlap" \notin trouble
           \/ /\ running' /\ current' \in Reader
              /\ pc' = [pc EXCEPT ![current'] = "action"]
              /\ \A r \in Reader : ~Alive(r)
<1>1. CASE running
  BY <1>1 DEF Start
<1>2. CASE ~running
  <2>1. /\ running' = TRUE /\ current' \in Reader
        /\ pc' = [pc EXCEPT ![current'] = "action"]
        /\ trouble' = (trouble \cap Persisting) \cup Beginning
    BY <1>2 DEF Start, Goto
  <2>2. \A r \in Reader : Alive(r) => ~cancelled[r]
    BY <2>1 DEF Beginning
  <2>3. (\E r \in Reader : Alive(r)) => "overlap" \notin trouble
    BY <2>1 DEF Persisting
  <2>4. \A r \in Reader : ~Alive(r)
    BY <1>2, <2>2, <2>3 DEF ReaderThreads, Live
  <2> QED
    BY <2>1, <2>4
<1> QED
  BY <1>1, <1>2

LEMMA StartThreads ==
    ASSUME TypeOK, ReaderThreads, PauseStops, Start,
           (pause' /\ handler' # "cancel") => (pause /\ handler # "cancel")
    PROVE  ReaderThreads' /\ PauseStops'
<1> SUFFICES ASSUME "overlap" \notin trouble' PROVE ReaderThreads' /\ PauseStops'
  BY DEF ReaderThreads, PauseStops
<1>1. CASE UNCHANGED threadState /\ "overlap" \notin trouble
  BY <1>1 DEF ReaderThreads, PauseStops, Live, Alive, threadState
<1>2. CASE /\ running' /\ current' \in Reader
           /\ pc' = [pc EXCEPT ![current'] = "action"]
           /\ \A r \in Reader : ~Alive(r)
  <2>1. \A r \in Reader : pc'[r] = IF r = current' THEN "action" ELSE "none"
    BY <1>2 DEF TypeOK, Alive
  <2> QED
    BY <1>2, <2>1 DEF ReaderThreads, PauseStops, Live, Alive
<1> QED
  BY <1>1, <1>2, StartAlone

LEMMA SteeringThreads ==
    ASSUME TypeOK, ReaderThreads, PauseStops, Steering
    PROVE  ReaderThreads' /\ PauseStops'
<1>1. ASSUME UNCHANGED threadState, ("overlap" \in trouble) <=> ("overlap" \in trouble'),
             (pause' /\ handler' # "cancel") => (pause /\ handler # "cancel")
      PROVE  ReaderThreads' /\ PauseStops'
  BY <1>1 DEF ReaderThreads, PauseStops, Live, Alive, threadState
<1>2. CASE MainAttach \/ Seek \/ Resume \/ Pause \/ Reconnect \/ ResumePause
  <2>1. /\ UNCHANGED threadState
        /\ ("overlap" \in trouble) <=> ("overlap" \in trouble')
        /\ (pause' /\ handler' # "cancel") => (pause /\ handler # "cancel")
    <3>1. CASE MainAttach \/ Seek \/ Resume
      BY <3>1 DEF MainAttach, Seek, Resume, Detach, Message
    <3>2. CASE Pause \/ ResumePause
      BY <3>2 DEF Pause, ResumePause, Message
    <3>3. CASE Reconnect
      BY <3>3 DEF Reconnect
    <3> QED
      BY <1>2, <3>1, <3>2, <3>3
  <2> QED
    BY <1>1, <2>1
<1>3. CASE MainStart \/ ResumeStart
  BY <1>3, StartThreads DEF MainStart, ResumeStart
<1>4. CASE SeekAttach \/ ResumeAttach
  <2>1. (pause' /\ handler' # "cancel") => (pause /\ handler # "cancel")
    BY <1>4 DEF SeekAttach, ResumeAttach, Attach
  <2>2. CASE Start
    BY <2>1, <2>2, StartThreads
  <2>3. CASE UNCHANGED <<threadState, trouble>>
    BY <1>1, <2>1, <2>3
  <2> QED
    BY <1>4, <2>2, <2>3 DEF SeekAttach, ResumeAttach, Attach, Activate
<1>5. CASE PauseCancel
  <2> SUFFICES ASSUME "overlap" \notin trouble
               PROVE  ReaderThreads' /\ PauseStops'
    BY <1>5 DEF PauseCancel, ReaderThreads, PauseStops
  <2>1. \A r \in Reader : ~Live(r)'
    BY <1>5 DEF PauseCancel, TypeOK, ReaderThreads, Live, Alive
  <2>2. \A r \in Reader : Alive(r)' <=> Alive(r)
    BY <1>5 DEF PauseCancel, Alive
  <2> QED
    BY <2>1, <2>2 DEF ReaderThreads, PauseStops
<1> QED
  BY <1>2, <1>3, <1>4, <1>5 DEF Steering, MainStep, HandlerStep

LEMMA ReaderKeepsThreads ==
    ASSUME TypeOK, ReaderThreads, PauseStops, NEW r \in Reader, ReaderStep(r)
    PROVE  ReaderThreads' /\ PauseStops'
<1> SUFFICES ASSUME "overlap" \notin trouble' PROVE ReaderThreads' /\ PauseStops'
  BY DEF ReaderThreads, PauseStops
<1> USE DEF Own, Goto, control
<1>1. /\ "overlap" \notin trouble /\ Alive(r)
      /\ UNCHANGED <<cancelled, current, pause, handler>>
      /\ \E l \in {"none", "connect", "check", "reconnect", "recv", "play", "leave"} :
            pc' = [pc EXCEPT ![r] = l]
  BY DEF ReaderStep, Die, Action, Connect, ConnectFails, Copy, Leave, Close,
     ReaderReconnects, NotConnected, Recv, RecvFails, PlayPacket, Ended, Alive
<1>2. running' = running \/ pc' = [pc EXCEPT ![r] = "none"]
  BY DEF ReaderStep, Die, Action, Connect, ConnectFails, Copy, Leave, Close,
     ReaderReconnects, Recv, RecvFails, PlayPacket, Ended
<1>3. ReaderThreads'
  <2>1. \A s \in Reader : s # r => ~Alive(s)
    BY <1>1 DEF ReaderThreads
  <2>2. \A s \in Reader : s # r => ~Alive(s)'
    BY <1>1, <2>1 DEF Alive
  <2>3. CASE running' = running
    BY <1>1, <2>2, <2>3 DEF ReaderThreads, Live, Alive
  <2>4. CASE pc' = [pc EXCEPT ![r] = "none"]
    BY <2>2, <2>4 DEF ReaderThreads, Live, Alive, TypeOK
  <2> QED
    BY <1>2, <2>3, <2>4
<1>4. PauseStops'
  <2> SUFFICES ASSUME pause, handler # "cancel", NEW s \in Reader, Live(s)'
               PROVE  pc'[s] \notin {"reconnect", "recv", "play"}
    BY <1>1 DEF PauseStops
  <2>1. CASE s # r
    BY <1>1, <2>1 DEF PauseStops, Live, Alive, TypeOK
  <2>2. CASE s = r
    <3>1. Live(r) /\ pc[r] \notin {"reconnect", "recv", "play"}
      BY <1>1, <2>2 DEF PauseStops, Live
    <3>2. pc'[r] \in {"none", "connect", "check", "leave"}
      BY <3>1 DEF TypeOK, ReaderStep, Die, Action, Connect, ConnectFails, Copy, Leave, Close,
         ReaderReconnects, Recv, RecvFails, PlayPacket, Ended
    <3> QED
      BY <2>2, <3>2
  <2> QED
    BY <2>1, <2>2
<1> QED
  BY <1>3, <1>4

-----------------------------------------------------------------------------
(* The bytes are aligned with the browser's position.                      *)

\* s begins with n units of the present connection, from a packet's first on.
Holds(s, n) ==
    /\ Len(s) >= n
    /\ \A i \in 1..n : s[i] = [conn |-> videosocket, phase |-> (i - 1) % PacketSize]

LEMMA HoldsPrefix ==
    ASSUME NEW s \in Seq(Unit), NEW m \in Nat, NEW n \in 0..m, Holds(s, m)
    PROVE  Holds(Prefix(s, n), n)
<1> DEFINE unit(i) == [conn |-> videosocket, phase |-> (i - 1) % PacketSize]
<1>1. Len(s) >= m /\ \A i \in 1..m : s[i] = unit(i)
  BY DEF Holds
<1>2. Len(Prefix(s, n)) = n /\ \A i \in 1..n : Prefix(s, n)[i] = s[i]
  BY <1>1, PrefixOfLong
<1>3. \A i \in 1..n : Prefix(s, n)[i] = unit(i)
  <2> HIDE DEF unit
  <2> QED
    BY <1>1, <1>2
<1>4. Len(Prefix(s, n)) >= n
  BY <1>2
<1> QED
  BY <1>3, <1>4 DEF Holds

AlignedAt(r) ==
    /\ pc[r] = "reconnect" => videosocket = NoSocket
    /\ pc[r] = "check" =>
         IF videosocket = NoSocket THEN filled = 0 ELSE filled = phase /\ Holds(tsbuf, filled)
    /\ pc[r] = "recv" =>
         IF videosocket = NoSocket THEN filled = 0 ELSE filled = phase /\ Holds(buffer[r], filled)
    /\ pc[r] = "play" =>
         /\ videosocket # NoSocket
         /\ phase = Bytes(r) % PacketSize
         /\ Holds(buffer[r], Bytes(r))

Aligned ==
    trouble \cap {"overlap", "leftover"} = {} => \A r \in Reader : AlignedAt(r)

\* A reader that is at none of these places is aligned.
LEMMA ElsewhereAligned ==
    ASSUME NEW r, pc[r] \notin {"reconnect", "check", "recv", "play"}
    PROVE  AlignedAt(r)
BY DEF AlignedAt

LEMMA SteeringAligned ==
    ASSUME TypeOK, ReaderThreads, Aligned, Steering
    PROVE  Aligned'
<1> SUFFICES ASSUME trouble' \cap {"overlap", "leftover"} = {}, NEW r \in Reader
             PROVE  AlignedAt(r)'
  BY DEF Aligned
<1>1. UNCHANGED <<locals, stream>>
  BY DEF Steering, MainStep, HandlerStep, MainAttach, MainStart, Seek, Resume, Pause, Detach,
     SeekAttach, ResumeAttach, Attach, Reconnect, ResumePause, ResumeStart, PauseCancel
<1>2. ASSUME pc' = pc, "overlap" \notin trouble, "leftover" \notin trouble
      PROVE  AlignedAt(r)'
  BY <1>1, <1>2 DEF Aligned, AlignedAt, Holds, Bytes, locals, stream
<1>3. CASE Start
  <2>1. "overlap" \notin trouble'
    OBVIOUS
  <2>2. CASE UNCHANGED threadState /\ "overlap" \notin trouble
    <3>1. "leftover" \notin trouble
      BY <1>3, <2>2 DEF Start, Persisting
    <3> QED
      BY <1>2, <2>2, <3>1 DEF threadState
  <2>3. CASE /\ running' /\ current' \in Reader
             /\ pc' = [pc EXCEPT ![current'] = "action"]
             /\ \A s \in Reader : ~Alive(s)
    <3>1. pc'[r] \in {"action", "none"}
      BY <2>3 DEF TypeOK, Alive
    <3> QED
      BY <3>1 DEF AlignedAt
  <2> QED
    BY <1>3, <2>1, <2>2, <2>3, StartAlone
<1>4. CASE UNCHANGED <<threadState, trouble>>
  BY <1>2, <1>4 DEF threadState
<1>5. CASE MainAttach \/ Seek \/ Resume \/ Pause \/ ResumePause \/ PauseCancel
  <2>1. pc' = pc /\ trouble' = trouble
    BY <1>5 DEF MainAttach, Seek, Resume, Pause, ResumePause, PauseCancel, Detach, threadState
  <2> QED
    BY <1>2, <2>1
<1>6. CASE Reconnect
  <2>1. pc' = pc /\ trouble \subseteq trouble'
    BY <1>6 DEF Reconnect, threadState
  <2> QED
    BY <1>2, <2>1
<1> QED
  BY <1>3, <1>4, <1>5, <1>6 DEF Steering, MainStep, HandlerStep, MainStart, ResumeStart,
     SeekAttach, ResumeAttach, Attach, Activate

\* What is received continues what was kept.
LEMMA RecvAligned ==
    ASSUME TypeOK, NEW r \in Reader, Recv(r), AlignedAt(r)
    PROVE  AlignedAt(r)'
<1>1. PICK n \in 0..(MaxRecv - filled) :
        /\ got' = [got EXCEPT ![r] = n]
        /\ buffer' = [buffer EXCEPT ![r] = Prefix(@, filled) \o
             [i \in 1..n |-> [conn |-> videosocket, phase |-> (phase + i - 1) % PacketSize]]]
        /\ phase' = (phase + n) % PacketSize
  BY DEF Recv
<1>2. /\ pc[r] = "recv" /\ pc' = [pc EXCEPT ![r] = "play"]
      /\ videosocket # NoSocket /\ videosocket' = videosocket /\ filled' = filled
  BY DEF Recv, Own, Goto
<1>3. filled = phase /\ Holds(buffer[r], filled)
  BY <1>2 DEF AlignedAt
<1>4. filled \in Nat /\ n \in Nat /\ buffer[r] \in Seq(Unit) /\ phase = filled
  BY <1>3, SizeAssumption DEF TypeOK, Phase
<1> DEFINE new == [i \in 1..n |-> [conn |-> videosocket, phase |-> (phase + i - 1) % PacketSize]]
           old == Prefix(buffer[r], filled)
           unit(i) == [conn |-> videosocket, phase |-> (i - 1) % PacketSize]
<1>5. Len(old) = filled /\ \A i \in 1..filled : old[i] = unit(i)
  <2>1. /\ Len(buffer[r]) >= filled /\ Len(buffer[r]) \in Nat
        /\ \A i \in 1..filled : buffer[r][i] = unit(i)
    BY <1>3, <1>4 DEF Holds
  <2>2. Len(old) = filled /\ \A i \in 1..filled : i <= Len(buffer[r]) => old[i] = buffer[r][i]
    BY <1>4, PrefixIs
  <2> HIDE DEF old, unit
  <2> QED
    BY <1>4, <2>1, <2>2
<1>6. old \in Seq(Unit)
  BY <1>4, PrefixIs
<1>7. Len(new) = n /\ new \in Seq(Unit)
  <2>1. \A i \in 1..n : (phase + i - 1) % PacketSize \in Phase
    <3> SUFFICES ASSUME NEW i \in 1..n PROVE (phase + i - 1) % PacketSize \in Phase
      OBVIOUS
    <3>1. phase + i - 1 \in Nat
      BY <1>4
    <3> QED
      BY <3>1, SizeAssumption, Division DEF Phase
  <2>2. new \in [1..n -> Unit]
    BY <2>1 DEF Unit, TypeOK
  <2> HIDE DEF new
  <2> QED
    BY <1>4, <2>2, SeqOf
<1>8. \A i \in 1..n : new[i] = unit(filled + i)
  BY <1>4
<1> HIDE DEF new, old
<1>9. /\ Len(old \o new) = filled + n
      /\ \A i \in 1..(filled + n) : (old \o new)[i] = unit(i)
  <2>0. Len(old) = filled /\ Len(new) = n
    BY <1>5, <1>7
  <2>1. Len(old \o new) = filled + n
    BY <2>0, <1>6, <1>7, ConcatIs
  <2>2. ASSUME NEW i \in 1..(filled + n) PROVE (old \o new)[i] = unit(i)
    <3>1. CASE i <= filled
      <4>1. i \in 1..filled
        BY <3>1, <1>4
      <4>2. (old \o new)[i] = old[i]
        BY <4>1, <2>0, <1>6, <1>7, ConcatIs
      <4> QED
        BY <4>1, <4>2, <1>5
    <3>2. CASE i > filled
      <4>1. i - filled \in 1..n /\ filled + (i - filled) = i
            /\ i \in (filled + 1)..(filled + n)
        BY <3>2, <1>4
      <4>2. (old \o new)[i] = new[i - filled]
        BY <4>1, <2>0, <1>6, <1>7, ConcatIs
      <4>3. new[i - filled] = unit(filled + (i - filled))
        BY <4>1, <1>8
      <4> QED
        BY <4>1, <4>2, <4>3
    <3>3. i <= filled \/ i > filled
      BY <1>4
    <3> HIDE DEF unit
    <3> QED
      BY <3>1, <3>2, <3>3
  <2> HIDE DEF unit
  <2> QED
    BY <2>1, <2>2
<1>10. buffer'[r] = old \o new /\ got'[r] = n
  BY <1>1 DEF TypeOK, old, new
<1>11. Bytes(r)' = filled + n
  BY <1>2, <1>4, <1>10 DEF Bytes
<1>12. Holds(buffer[r], Bytes(r))'
  BY <1>2, <1>4, <1>9, <1>10, <1>11 DEF Holds
<1>13. phase' = Bytes(r)' % PacketSize
  BY <1>1, <1>4, <1>11
<1>14. pc'[r] = "play"
  BY <1>2 DEF TypeOK
<1> QED
  BY <1>2, <1>12, <1>13, <1>14 DEF AlignedAt

\* What is kept begins with a packet's first unit.
LEMMA PlayAligned ==
    ASSUME TypeOK, NEW r \in Reader, PlayPacket(r), AlignedAt(r)
    PROVE  AlignedAt(r)'
<1>1. /\ pc[r] = "play" /\ pc' = [pc EXCEPT ![r] = "check"]
      /\ videosocket' = videosocket /\ phase' = phase
      /\ filled' = Bytes(r) % PacketSize
      /\ tsbuf' = IF filled' = 0 THEN tsbuf ELSE Rest(r)
  BY DEF PlayPacket, Own, Goto, Rest
<1>2. phase = Bytes(r) % PacketSize /\ Holds(buffer[r], Bytes(r)) /\ videosocket # NoSocket
  BY <1>1 DEF AlignedAt
<1>3. /\ Bytes(r) \in Nat /\ Packets(r) \in 0..Bytes(r)
      /\ Bytes(r) - Packets(r) = filled' /\ filled' \in Phase
      /\ Len(Rest(r)) = filled'
      /\ \A i \in 1..filled' : Rest(r)[i] = Prefix(buffer[r], Bytes(r))[Packets(r) + i]
  BY <1>1, RestIs
<1>4. filled' \in Nat
  BY <1>3, SizeAssumption DEF Phase
<1>5. \A i \in 1..filled' : (Packets(r) + i - 1) % PacketSize = (i - 1) % PacketSize
  <2> SUFFICES ASSUME NEW i \in 1..filled'
               PROVE  (Packets(r) + i - 1) % PacketSize = (i - 1) % PacketSize
    OBVIOUS
  <2>1. i - 1 \in 0..(PacketSize - 1)
    BY <1>3, <1>4, SizeAssumption DEF Phase
  <2>2. (Packets(r) + (i - 1)) % PacketSize = i - 1
    BY <1>3, <2>1, SizeAssumption, Split DEF Packets
  <2>3. (i - 1) % PacketSize = i - 1
    BY <2>1, SizeAssumption, SmallModulo
  <2>4. Packets(r) + i - 1 = Packets(r) + (i - 1)
    BY <1>3, <2>1
  <2> QED
    BY <2>2, <2>3, <2>4
<1>6. \A i \in 1..filled' :
         Rest(r)[i] = [conn |-> videosocket, phase |-> (i - 1) % PacketSize]
  <2> SUFFICES ASSUME NEW i \in 1..filled'
               PROVE  Rest(r)[i] = [conn |-> videosocket, phase |-> (i - 1) % PacketSize]
    OBVIOUS
  <2>1. Packets(r) + i \in 1..Bytes(r)
    BY <1>3, <1>4
  <2>2. /\ buffer[r] \in Seq(Unit) /\ Len(buffer[r]) >= Bytes(r)
        /\ \A j \in 1..Bytes(r) :
               buffer[r][j] = [conn |-> videosocket, phase |-> (j - 1) % PacketSize]
    BY <1>2 DEF Holds, TypeOK
  <2>3. \A j \in 1..Bytes(r) : Prefix(buffer[r], Bytes(r))[j] = buffer[r][j]
    <3>1. Bytes(r) <= Bytes(r)
      BY <1>3
    <3> QED
      BY <1>3, <2>2, <3>1, PrefixOfLong
  <2>4. Rest(r)[i] = Prefix(buffer[r], Bytes(r))[Packets(r) + i]
    BY <1>3
  <2>5. Rest(r)[i] = [conn |-> videosocket, phase |-> (Packets(r) + i - 1) % PacketSize]
    <3>1. Rest(r)[i] = buffer[r][Packets(r) + i]
      BY <2>1, <2>3, <2>4
    <3>2. PICK j \in 1..Bytes(r) : j = Packets(r) + i
      BY <2>1
    <3>3. Rest(r)[i] = [conn |-> videosocket, phase |-> (j - 1) % PacketSize]
      BY <2>2, <3>1, <3>2
    <3>4. j - 1 = Packets(r) + i - 1
      BY <1>3, <1>4, <3>2
    <3> QED
      BY <3>3, <3>4
  <2> QED
    BY <1>5, <2>5
<1>7. Holds(tsbuf, filled)'
  <2>1. CASE filled' = 0
    <3>1. Len(tsbuf) \in Nat
      BY DEF TypeOK
    <3> QED
      BY <1>1, <2>1, <3>1 DEF Holds
  <2>2. CASE filled' # 0
    BY <1>1, <1>3, <1>4, <1>6, <2>2 DEF Holds
  <2> QED
    BY <2>1, <2>2
<1>8. pc'[r] = "check"
  BY <1>1 DEF TypeOK
<1> QED
  BY <1>1, <1>2, <1>7, <1>8 DEF AlignedAt

LEMMA ReaderAligned ==
    ASSUME TypeOK, ReaderThreads, Aligned, NEW r \in Reader, ReaderStep(r)
    PROVE  Aligned'
<1> SUFFICES ASSUME trouble' \cap {"overlap", "leftover"} = {}, NEW s \in Reader
             PROVE  AlignedAt(s)'
  BY DEF Aligned
<1> USE DEF Own, Goto
<1>1. "overlap" \notin trouble /\ Alive(r)
  BY DEF ReaderStep, Die, Action, Connect, ConnectFails, Copy, Leave, Close,
     ReaderReconnects, NotConnected, Recv, RecvFails, PlayPacket, Ended, Alive
<1>2. \E l \in {"none", "connect", "check", "reconnect", "recv", "play", "leave"} :
         pc' = [pc EXCEPT ![r] = l]
  BY DEF ReaderStep, Die, Action, Connect, ConnectFails, Copy, Leave, Close,
     ReaderReconnects, Recv, RecvFails, PlayPacket, Ended
<1>3. CASE s # r
  <2>1. pc[s] = "none"
    BY <1>1, <1>3 DEF ReaderThreads, Alive
  <2>2. pc'[s] = "none"
    BY <1>2, <1>3, <2>1 DEF TypeOK
  <2> QED
    BY <2>2 DEF AlignedAt
<1>4. CASE s = r
  <2>1. ASSUME "leftover" \notin trouble
        PROVE  AlignedAt(r)
    BY <1>1, <2>1 DEF Aligned
  <2>2. CASE Die(r) \/ Action(r) \/ ConnectFails(r) \/ Leave(r) \/ Ended(r)
    <3>1. pc'[r] \in {"none", "connect", "leave"}
      BY <2>2 DEF Die, Action, ConnectFails, Leave, Ended, TypeOK
    <3> QED
      BY <1>4, <3>1 DEF AlignedAt
  <2>3. CASE Connect(r)
    <3>1. filled' = 0 /\ phase' = 0 /\ videosocket' = conn + 1 /\ pc'[r] = "check"
      <4>1. filled' = filled /\ filled = 0
        BY <2>3 DEF Connect
      <4>2. pc' = [pc EXCEPT ![r] = "check"]
        BY <2>3 DEF Connect
      <4> QED
        BY <2>3, <4>1, <4>2 DEF Connect, Connected, TypeOK
    <3>2. Len(tsbuf') \in Nat
      <4>1. tsbuf' = tsbuf /\ tsbuf \in Seq(Unit)
        BY <2>3 DEF Connect, TypeOK
      <4> QED
        BY <4>1
    <3>3. conn + 1 # NoSocket
      BY DEF TypeOK, NoSocket
    <3>4. Holds(tsbuf, 0)'
      BY <3>2 DEF Holds
    <3> QED
      BY <1>4, <3>1, <3>3, <3>4 DEF AlignedAt
  <2>4. CASE Copy(r)
    <3>1. /\ AlignedAt(r) /\ pc[r] = "check" /\ pc'[r] = "recv"
          /\ buffer'[r] = Prefix(tsbuf, filled)
          /\ UNCHANGED <<videosocket, filled, phase>>
      BY <2>1, <2>4 DEF Copy, TypeOK, stream
    <3>2. CASE videosocket = NoSocket
      BY <1>4, <3>1, <3>2 DEF AlignedAt
    <3>3. CASE videosocket # NoSocket
      <4>1. filled = phase /\ Holds(tsbuf, filled)
        BY <3>1, <3>3 DEF AlignedAt
      <4>2. filled \in Nat /\ tsbuf \in Seq(Unit)
        BY SizeAssumption DEF TypeOK, Phase
      <4>3. Holds(Prefix(tsbuf, filled), filled)
        BY <4>1, <4>2, HoldsPrefix
      <4> QED
        BY <1>4, <3>1, <3>3, <4>1, <4>3 DEF AlignedAt, Holds
    <3> QED
      BY <3>2, <3>3
  <2>5. CASE Close(r)
    <3>1. pc'[r] = "reconnect" /\ videosocket' = NoSocket
      BY <2>5 DEF Close, TypeOK
    <3> QED
      BY <1>4, <3>1 DEF AlignedAt
  <2>6. CASE ReaderReconnects(r)
    <3>1. filled' = 0 /\ pc'[r] = "recv" /\ buffer'[r] = <<>>
      BY <2>6 DEF ReaderReconnects, TypeOK
    <3>2. CASE Connected
      <4>1. phase' = 0
        BY <3>2 DEF Connected
      <4> QED
        BY <1>4, <3>1, <4>1 DEF AlignedAt, Holds
    <3>3. CASE NotConnected
      <4>1. AlignedAt(r) /\ pc[r] = "reconnect"
        BY <2>1, <2>6, <3>3 DEF NotConnected, ReaderReconnects
      <4>2. videosocket' = NoSocket
        BY <3>3, <4>1 DEF NotConnected, AlignedAt
      <4> QED
        BY <1>4, <3>1, <4>2 DEF AlignedAt
    <3> QED
      BY <2>6, <3>2, <3>3 DEF ReaderReconnects
  <2>7. CASE Recv(r)
    BY <1>4, <2>1, <2>7, RecvAligned DEF Recv
  <2>8. CASE RecvFails(r)
    <3>1. /\ AlignedAt(r) /\ pc[r] = "recv" /\ pc'[r] = "check"
          /\ videosocket = NoSocket /\ UNCHANGED <<videosocket, filled>>
      BY <2>1, <2>8 DEF RecvFails, TypeOK, stream
    <3> QED
      BY <1>4, <3>1 DEF AlignedAt
  <2>9. CASE PlayPacket(r)
    BY <1>4, <2>1, <2>9, PlayAligned DEF PlayPacket
  <2> QED
    BY <2>2, <2>3, <2>4, <2>5, <2>6, <2>7, <2>8, <2>9 DEF ReaderStep
<1> QED
  BY <1>3, <1>4

-----------------------------------------------------------------------------
(* The invariant and the theorems.                                         *)

IInv == TypeOK /\ ReaderThreads /\ PauseStops /\ Aligned

LEMMA Inductive == Spec => []IInv
<1>1. Init => IInv
  <2> SUFFICES ASSUME Init PROVE IInv
    OBVIOUS
  <2>1. \A r \in Reader : pc[r] = "none"
    BY DEF Init
  <2> QED
    BY <2>1, InitTyped DEF IInv, ReaderThreads, PauseStops, Aligned, AlignedAt, Live, Alive
<1>2. IInv /\ [Next]_vars => IInv'
  <2> SUFFICES ASSUME IInv, [Next]_vars PROVE IInv'
    OBVIOUS
  <2>1. TypeOK'
    BY TypeStays DEF IInv
  <2>2. CASE Steering
    BY <2>1, <2>2, SteeringThreads, SteeringAligned DEF IInv
  <2>3. ASSUME NEW r \in Reader, ReaderStep(r)
        PROVE  IInv'
    BY <2>1, <2>3, ReaderKeepsThreads, ReaderAligned DEF IInv
  <2>4. CASE UNCHANGED vars
    <3>1. ReaderThreads' /\ PauseStops'
      BY <2>4 DEF IInv, ReaderThreads, PauseStops, Live, Alive, vars, threadState, control
    <3>2. Aligned'
      BY <2>4 DEF IInv, Aligned, AlignedAt, Holds, Bytes, vars, locals, threadState, stream
    <3> QED
      BY <2>1, <3>1, <3>2 DEF IInv
  <2> QED
    BY <2>2, <2>3, <2>4 DEF Next, Steering
<1> QED
  BY <1>1, <1>2, PTL DEF Spec

\* Every variable of the reader keeps its type.
THEOREM TypeCorrect == Spec => []TypeOK
<1>1. IInv => TypeOK
  BY DEF IInv
<1> QED
  BY <1>1, Inductive, PTL

\* Unless a killed reader outlived the start of its successor, one thread reads.
THEOREM ReadersAreSingle == Spec => []OneReader
<1>1. IInv => OneReader
  BY DEF IInv, ReaderThreads, OneReader
<1> QED
  BY <1>1, Inductive, PTL

\* After a pause nobody waits for more of the stream who will not be killed.
THEOREM PauseHolds == Spec => []PausedReadsNothing
<1>1. IInv => PausedReadsNothing
  BY DEF IInv, PauseStops, PausedReadsNothing, Live, Alive
<1> QED
  BY <1>1, Inductive, PTL

\* What is played are whole packets of one connection.
THEOREM PacketsAreWhole == Spec => []PlaysWhole
<1>1. ASSUME IInv PROVE PlaysWhole
  <2> SUFFICES ASSUME trouble \cap {"overlap", "leftover"} = {},
                      NEW r \in Reader, pc[r] = "play"
               PROVE  WholePackets(Played(r))
    BY DEF PlaysWhole
  <2>1. videosocket # NoSocket /\ Holds(buffer[r], Bytes(r))
    BY <1>1 DEF IInv, Aligned, AlignedAt
  <2>2. Bytes(r) \in Nat /\ Packets(r) \in 0..Bytes(r) /\ buffer[r] \in Seq(Unit)
    BY <1>1, RestIs DEF IInv, TypeOK
  <2>3. Packets(r) % PacketSize = 0
    BY <2>2, SizeAssumption, Split DEF Packets
  <2>4. Len(Played(r)) = Packets(r) /\ DOMAIN Played(r) = 1..Packets(r)
    <3>1. Packets(r) \in Nat
      BY <2>2
    <3>2. Played(r) \in Seq(Unit) /\ Len(Played(r)) = Packets(r)
      BY <2>2, <3>1, PrefixIs DEF Played
    <3> QED
      BY <3>2
  <2>5. \A i \in 1..Packets(r) :
          Played(r)[i] = [conn |-> videosocket, phase |-> (i - 1) % PacketSize]
    <3>1. Holds(Played(r), Packets(r))
      BY <2>1, <2>2, HoldsPrefix DEF Played
    <3> QED
      BY <3>1 DEF Holds
  <2>6. \A i \in 1..Packets(r) : 1 \in 1..Packets(r)
    BY <2>2
  <2> QED
    BY <2>1, <2>3, <2>4, <2>5, <2>6 DEF WholePackets
<1> QED
  BY <1>1, Inductive, PTL

=============================================================================
