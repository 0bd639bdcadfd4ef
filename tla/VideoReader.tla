---------------------------- MODULE VideoReader -----------------------------
(***************************************************************************)
(* The thread of the video player that reads a transport stream from the   *)
(* browser and plays it (HbbtvVideoPlayer), and the messages SEEK_VIDEO,   *)
(* PAUSE_VIDEO and RESUME_VIDEO that steer it from the receiver thread.    *)
(* They share, without a lock, the socket, the pause flag, the request to  *)
(* reconnect and the part of a packet that is kept for the next read.      *)
(*                                                                         *)
(* cThread::Cancel, as Pause calls it, kills the thread at its next        *)
(* cancellation point and forgets it at once; until then it goes on, and a *)
(* Start creates another one.  cThread's `running' and `active' are set    *)
(* together here and are the one variable running.                         *)
(*                                                                         *)
(* Abstracted: a TS packet has PacketSize units instead of 188 bytes; each *)
(* connection is a stream of its own that begins with a whole packet, as   *)
(* `filled = 0' after a reconnect supposes; a unit is the number of its    *)
(* connection and its place in its packet.  The three transports share     *)
(* their control.  Not modelled: the destructor.                           *)
(***************************************************************************)
EXTENDS Integers, Sequences, FiniteSets

CONSTANTS
    Reader,        \* the incarnations of the reader thread
    PacketSize,    \* 188
    MaxRecv,       \* BUFFER_SIZE
    MayFail,       \* whether a connection may fail
    MaxCommands    \* bounds the messages

ASSUME ReaderAssumption == Reader # {}

ASSUME SizeAssumption ==
    PacketSize \in Nat \ {0} /\ MaxRecv \in Nat /\ MaxRecv >= PacketSize

ASSUME BoundAssumption == MayFail \in BOOLEAN /\ MaxCommands \in Nat

NoSocket == 0      \* no socket, or none that is connected

Phase == 0..(PacketSize - 1)
Unit == [conn : Nat, phase : Phase]
Garbage == [conn |-> NoSocket, phase |-> 0]    \* what the buffer held before

\* What can be wrong: a killed reader still runs beside a new one; the new
\* stream begins behind a part of the old one; a seek ended a pause, so that nobody
\* may be reading; a start found the thread running that was about to end; the
\* last connection failed.
Trouble == {"overlap", "leftover", "paused seek", "lost start", "no connection"}

VARIABLES
    pc,           \* per reader; "none" before it starts and after it ends
    cancelled,    \* per reader: it is to die at its next cancellation point
    buffer,       \* per reader: the bytes in buffer[], the kept part first
    got,          \* per reader: n, the bytes just received
    current,      \* cThread::childTid
    running, pause, attached, connectRequested, videosocket, filled, tsbuf,
    conn, phase,  \* browser: the last connection, the next unit's place in it
    handler,      \* what the receiver thread has still to do for a message
    mainThread,   \* what the main thread has still to do to attach the player
    commands,     \* the messages so far
    trouble,      \* history
    stale         \* history: connections up to this one were there at a seek

locals == <<buffer, got>>
threadState == <<pc, cancelled, current, running>>
stream == <<videosocket, filled, tsbuf, conn, phase>>
control == <<handler, mainThread, commands>>
vars == <<locals, threadState, stream, control, pause, attached, connectRequested,
          trouble, stale>>

Alive(r) == pc[r] # "none"
Live(r) == Alive(r) /\ ~cancelled[r]

Init ==
    /\ pc = [r \in Reader |-> "none"]
    /\ cancelled = [r \in Reader |-> FALSE]
    /\ buffer = [r \in Reader |-> <<>>]
    /\ got = [r \in Reader |-> 0]
    /\ current = CHOOSE r \in Reader : TRUE
    /\ running = FALSE
    /\ pause = FALSE
    /\ attached = FALSE
    /\ connectRequested \in BOOLEAN       \* not initialized
    /\ videosocket = NoSocket
    /\ filled = 0
    /\ tsbuf = <<>>
    /\ conn = 0
    /\ phase = 0
    /\ handler = "idle"
    /\ mainThread = "attach"
    /\ commands = 0
    /\ trouble = {}
    /\ stale = 0

Goto(r, l) == pc' = [pc EXCEPT ![r] = l]

-----------------------------------------------------------------------------
(* Starting and stopping the thread.                                        *)

\* A killed reader may run on; all troubles of an earlier start are over when
\* no reader runs at all.
Beginning == IF \E r \in Reader : Alive(r) /\ cancelled[r] THEN {"overlap"} ELSE {}

Persisting ==
    {"leftover", "no connection"} \cup
        (IF \E r \in Reader : Alive(r) THEN {"overlap"} ELSE {})

\* cThread::Start
Start ==
    \/ /\ running
       /\ trouble' = IF pc[current] = "leave" THEN trouble \cup {"lost start"} ELSE trouble
       /\ UNCHANGED threadState
    \/ /\ ~running
       /\ running' = TRUE
       /\ \E r \in Reader : ~Alive(r)
       /\ current' = CHOOSE r \in Reader : ~Alive(r)
       /\ Goto(current', "action")
       /\ cancelled' = [cancelled EXCEPT ![current'] = FALSE]
       /\ trouble' = (trouble \cap Persisting) \cup Beginning

\* Activate(true)
Activate == IF pause THEN UNCHANGED <<threadState, trouble>> ELSE Start

\* cControl::Attach by the main thread, after MainThreadHook made the player;
\* it looks at pause, and starts the thread afterwards.
MainAttach ==
    /\ mainThread = "attach"
    /\ attached' = TRUE
    /\ mainThread' = IF attached \/ pause THEN "done" ELSE "start"
    /\ UNCHANGED <<locals, threadState, stream, handler, commands, pause,
                   connectRequested, trouble, stale>>

MainStart ==
    /\ mainThread = "start"
    /\ Start
    /\ mainThread' = "done"
    /\ UNCHANGED <<locals, stream, handler, commands, pause, attached,
                   connectRequested, stale>>

-----------------------------------------------------------------------------
(* The messages.                                                            *)

Message(next) ==
    /\ handler = "idle"
    /\ commands < MaxCommands
    /\ commands' = commands + 1
    /\ handler' = next

\* SEEK_VIDEO and RESUME_VIDEO detach the player, attach it again, and go on.
Detach(next) ==
    /\ Message(next)
    /\ attached' = FALSE
    /\ UNCHANGED <<locals, threadState, stream, mainThread, pause, connectRequested,
                   trouble, stale>>

Attach(from, next) ==
    /\ handler = from
    /\ attached' = TRUE
    /\ Activate
    /\ handler' = next
    /\ UNCHANGED <<locals, stream, mainThread, commands, pause, connectRequested, stale>>

Seek == Detach("seek_attach")
SeekAttach == Attach("seek_attach", "reconnect")
Resume == Detach("resume_attach")
ResumeAttach == Attach("resume_attach", "resume")

Reconnect ==
    /\ handler = "reconnect"
    /\ connectRequested' = TRUE
    /\ pause' = FALSE
    /\ handler' = "idle"
    /\ stale' = conn
    /\ trouble' = IF pause THEN trouble \cup {"paused seek"} ELSE trouble
    /\ UNCHANGED <<locals, threadState, stream, mainThread, commands, attached>>

ResumePause ==
    /\ handler = "resume"
    /\ pause' = FALSE
    /\ handler' = "resume_start"
    /\ UNCHANGED <<locals, threadState, stream, mainThread, commands, attached,
                   connectRequested, trouble, stale>>

\* Mutant: the attaching is believed to have started the thread.
ResumeStartByAttach ==
    /\ handler = "resume_start"
    /\ handler' = "idle"
    /\ UNCHANGED <<locals, threadState, stream, mainThread, commands, pause, attached,
                   connectRequested, trouble, stale>>

ResumeStart ==
    /\ handler = "resume_start"
    /\ Start
    /\ handler' = "idle"
    /\ UNCHANGED <<locals, stream, mainThread, commands, pause, attached,
                   connectRequested, stale>>

Pause ==
    /\ Message("cancel")
    /\ pause' = TRUE
    /\ UNCHANGED <<locals, threadState, stream, mainThread, attached, connectRequested,
                   trouble, stale>>

\* Mutant: Cancel(-1), the thread is not killed.
PauseCancelOnly ==
    /\ handler = "cancel"
    /\ running' = FALSE
    /\ handler' = "idle"
    /\ UNCHANGED <<locals, pc, cancelled, current, stream, mainThread, commands, pause,
                   attached, connectRequested, trouble, stale>>

\* cThread::Cancel(0): what runs is forgotten and killed.
PauseCancel ==
    /\ handler = "cancel"
    /\ running' = FALSE
    /\ cancelled' = IF running THEN [cancelled EXCEPT ![current] = TRUE] ELSE cancelled
    /\ handler' = "idle"
    /\ UNCHANGED <<locals, pc, current, stream, mainThread, commands, pause, attached,
                   connectRequested, trouble, stale>>

-----------------------------------------------------------------------------
(* The reader.                                                              *)

Own(r, from) ==
    /\ pc[r] = from
    /\ UNCHANGED <<control, pause, attached, stale, cancelled, current>>

\* A killed thread dies, when it would receive at the latest.
Die(r) ==
    /\ Alive(r) /\ cancelled[r]
    /\ Own(r, pc[r])
    /\ Goto(r, "none")
    /\ buffer' = [buffer EXCEPT ![r] = <<>>]
    /\ got' = [got EXCEPT ![r] = 0]
    /\ UNCHANGED <<running, stream, connectRequested, trouble>>

\* The request made here is taken back as soon as connect begins.
Action(r) ==
    /\ Own(r, "action")
    /\ Goto(r, "connect")
    /\ connectRequested' = FALSE
    /\ videosocket' = NoSocket
    /\ UNCHANGED <<locals, running, filled, tsbuf, conn, phase, trouble>>

Connected ==
    /\ conn' = conn + 1
    /\ videosocket' = conn + 1
    /\ phase' = 0

NotConnected ==
    /\ MayFail
    /\ trouble' = trouble \cup {"no connection"}
    /\ UNCHANGED <<videosocket, conn, phase>>

Connect(r) ==
    /\ Own(r, "connect")
    /\ Connected
    /\ Goto(r, "check")
    /\ trouble' = IF filled = 0 THEN trouble \ {"no connection", "leftover"}
                  ELSE (trouble \ {"no connection"}) \cup {"leftover"}
    /\ UNCHANGED <<locals, running, filled, tsbuf, connectRequested>>

ConnectFails(r) ==
    /\ Own(r, "connect")
    /\ NotConnected
    /\ Goto(r, "leave")
    /\ UNCHANGED <<locals, running, filled, tsbuf, connectRequested>>

Prefix(s, n) == [i \in 1..n |-> IF i <= Len(s) THEN s[i] ELSE Garbage]

\* The loop's condition holds and no reconnect is requested: what is left of
\* the last packet comes first in the buffer.
Copy(r) ==
    /\ Own(r, "check")
    /\ running /\ ~pause /\ ~connectRequested
    /\ buffer' = [buffer EXCEPT ![r] = Prefix(tsbuf, filled)]
    /\ Goto(r, "recv")
    /\ UNCHANGED <<got, running, stream, connectRequested, trouble>>

Leave(r) ==
    /\ Own(r, "check")
    /\ ~running \/ pause
    /\ Goto(r, "leave")
    /\ UNCHANGED <<locals, running, stream, connectRequested, trouble>>

\* A reconnect is requested: close, and the request is taken back.
Close(r) ==
    /\ Own(r, "check")
    /\ running /\ ~pause /\ connectRequested
    /\ videosocket' = NoSocket
    /\ connectRequested' = FALSE
    /\ Goto(r, "reconnect")
    /\ UNCHANGED <<locals, running, filled, tsbuf, conn, phase, trouble>>

\* Mutant: the kept part survives.
ReaderReconnectsKeeping(r) ==
    /\ Own(r, "reconnect")
    /\ \/ Connected /\ trouble' = trouble \ {"no connection", "leftover"}
       \/ NotConnected
    /\ buffer' = [buffer EXCEPT ![r] = Prefix(tsbuf, filled)]
    /\ Goto(r, "recv")
    /\ UNCHANGED <<got, running, filled, tsbuf, connectRequested>>

\* Whether it succeeds is not looked at.
ReaderReconnects(r) ==
    /\ Own(r, "reconnect")
    /\ \/ Connected /\ trouble' = trouble \ {"no connection", "leftover"}
       \/ NotConnected
    /\ filled' = 0
    /\ buffer' = [buffer EXCEPT ![r] = <<>>]
    /\ Goto(r, "recv")
    /\ UNCHANGED <<got, running, tsbuf, connectRequested>>

\* recv appends what has come to the kept part; 0 bytes if the browser closed.
Recv(r) ==
    /\ Own(r, "recv")
    /\ ~cancelled[r]
    /\ videosocket # NoSocket
    /\ \E n \in 0..(MaxRecv - filled) :
         /\ got' = [got EXCEPT ![r] = n]
         /\ buffer' = [buffer EXCEPT ![r] = Prefix(@, filled) \o
              [i \in 1..n |-> [conn |-> videosocket, phase |-> (phase + i - 1) % PacketSize]]]
         /\ phase' = (phase + n) % PacketSize
    /\ Goto(r, "play")
    /\ UNCHANGED <<running, videosocket, filled, tsbuf, conn, connectRequested, trouble>>

\* An error: try again.
RecvFails(r) ==
    /\ Own(r, "recv")
    /\ ~cancelled[r]
    /\ videosocket = NoSocket
    /\ Goto(r, "check")
    /\ UNCHANGED <<locals, running, stream, connectRequested, trouble>>

\* PlayPacket: the bytes there are, and those of them that make up packets.
Bytes(r) == got[r] + filled
Packets(r) == (Bytes(r) \div PacketSize) * PacketSize
Played(r) == Prefix(buffer[r], Packets(r))

\* The packets go to the device, if it is attached; a rest is kept.
PlayPacket(r) ==
    /\ Own(r, "play")
    /\ filled' = Bytes(r) % PacketSize
    /\ tsbuf' = IF filled' = 0 THEN tsbuf
                ELSE SubSeq(Prefix(buffer[r], Bytes(r)), Packets(r) + 1, Bytes(r))
    /\ buffer' = [buffer EXCEPT ![r] = <<>>]
    /\ got' = [got EXCEPT ![r] = 0]
    /\ Goto(r, "check")
    /\ UNCHANGED <<running, videosocket, conn, phase, connectRequested, trouble>>

\* cThread: Action has returned.  A killed reader may come here as well, and
\* what it resets can be its successor's.
Ended(r) ==
    /\ Own(r, "leave")
    /\ running' = FALSE
    /\ Goto(r, "none")
    /\ UNCHANGED <<locals, stream, connectRequested, trouble>>

ReaderStep(r) ==
    \/ Die(r) \/ Action(r) \/ Connect(r) \/ ConnectFails(r)
    \/ Copy(r) \/ Leave(r) \/ Close(r) \/ ReaderReconnects(r)
    \/ Recv(r) \/ RecvFails(r) \/ PlayPacket(r) \/ Ended(r)

-----------------------------------------------------------------------------
MainStep == MainAttach \/ MainStart

HandlerStep ==
    SeekAttach \/ Reconnect \/ ResumeAttach \/ ResumePause \/ ResumeStart \/ PauseCancel

Next ==
    \/ MainStep
    \/ Seek \/ Resume \/ Pause \/ HandlerStep
    \/ \E r \in Reader : ReaderStep(r)

Spec == Init /\ [][Next]_vars

\* The threads run, and the browser sends or closes the connection.
FairSpec ==
    /\ Spec
    /\ WF_vars(MainStep)
    /\ WF_vars(HandlerStep)
    /\ \A r \in Reader : WF_vars(ReaderStep(r))

-----------------------------------------------------------------------------
TypeOK ==
    /\ pc \in [Reader -> {"none", "action", "connect", "check", "reconnect", "recv",
                          "play", "leave"}]
    /\ cancelled \in [Reader -> BOOLEAN]
    /\ buffer \in [Reader -> Seq(Unit)]
    /\ got \in [Reader -> 0..MaxRecv]
    /\ current \in Reader
    /\ running \in BOOLEAN /\ pause \in BOOLEAN /\ attached \in BOOLEAN
    /\ connectRequested \in BOOLEAN
    /\ videosocket \in Nat /\ conn \in Nat /\ stale \in Nat
    /\ filled \in Phase /\ phase \in Phase
    /\ tsbuf \in Seq(Unit)
    /\ handler \in {"idle", "seek_attach", "reconnect", "resume_attach", "resume",
                    "resume_start", "cancel"}
    /\ mainThread \in {"attach", "start", "done"}
    /\ commands \in 0..MaxCommands
    /\ trouble \in SUBSET Trouble

\* Unless a killed reader outlived the start of its successor, one thread at a
\* time reads the stream, and cThread knows it (hbbtvvideocontrol.c:221-229).
OneReader ==
    "overlap" \notin trouble =>
        \A r \in Reader : Live(r) => running /\ r = current

\* A pause stops the stream: nobody waits for more of it who will not be
\* killed, wherever the message met the reader (hbbtvvideocontrol.c:221-224).
PausedReadsNothing ==
    (pause /\ handler = "idle" /\ "overlap" \notin trouble) =>
        \A r \in Reader : pc[r] = "recv" => cancelled[r]

WholePackets(s) ==
    /\ Len(s) % PacketSize = 0
    /\ \A i \in DOMAIN s :
         /\ s[i].phase = (i - 1) % PacketSize
         /\ s[i].conn = s[1].conn /\ s[i].conn # NoSocket

\* What is played are whole packets of one connection, however it was cut into
\* reads, and across seeks; a start behind a rest and two readers at a time
\* are the only exceptions (hbbtvvideocontrol.c:342-353).
PlaysWhole ==
    trouble \cap {"overlap", "leftover"} = {} =>
        \A r \in Reader : pc[r] = "play" => WholePackets(Played(r))

\* When the messages end with the player not paused, video is played on and on,
\* from a connection made after the last seek, whatever moment the seek came
\* at; unless the connection failed, a seek ended a pause, a start met the end
\* of the thread before, or two readers ran at a time (hbbtvvideocontrol.c:103, 216-229, 246-250).
Settled ==
    /\ handler = "idle" /\ mainThread = "done" /\ ~pause
    /\ trouble \subseteq {"leftover"}

VideoFlows ==
    <>[]Settled =>
        /\ <>[](videosocket > stale)
        /\ []<>(\E r \in Reader : pc[r] = "play" /\ attached)

-----------------------------------------------------------------------------
(* What a comment says, and the code does not do.                           *)

\* hbbtvvideocontrol.c:346, "send only full ts packets": so it is, while one
\* thread at a time reads.
OnlyFullPackets ==
    "overlap" \notin trouble =>
        \A r \in Reader : pc[r] = "play" => WholePackets(Played(r))

=============================================================================
