---------------------------- MODULE LossyChannel ----------------------------
(***************************************************************************)
(* What a push socket and a pull socket promise of a message: it goes      *)
(* through at most one connection, and what comes out of a connection is   *)
(* what went in, in that order and each once, up to where the connection   *)
(* was lost.  A send that was reported as failed did not go through any.   *)
(***************************************************************************)
EXTENDS Integers, Sequences

CONSTANTS Msg, Pipes

VARIABLES
    sent,        \* the messages that went into each connection
    got,         \* the messages that came out of it
    failed       \* the messages whose send was reported as failed

vars == <<sent, got, failed>>

Sent(m) == \E p \in Pipes : \E i \in DOMAIN sent[p] : sent[p][i] = m

Init ==
    /\ sent = [p \in Pipes |-> <<>>]
    /\ got = [p \in Pipes |-> <<>>]
    /\ failed = {}

Send(m, p) ==
    /\ ~Sent(m) /\ m \notin failed
    /\ sent' = [sent EXCEPT ![p] = Append(@, m)]
    /\ UNCHANGED <<got, failed>>

\* The next message comes out, and not before it went in.
Receive(p) ==
    /\ Len(got[p]) < Len(sent[p])
    /\ got' = [got EXCEPT ![p] = Append(@, sent[p][Len(@) + 1])]
    /\ UNCHANGED <<sent, failed>>

\* Several sends fail at once when a socket is closed.
Fail(ms) ==
    /\ \A m \in ms : ~Sent(m)
    /\ failed' = failed \cup ms
    /\ UNCHANGED <<sent, got>>

Next ==
    \/ \E m \in Msg, p \in Pipes : Send(m, p)
    \/ \E p \in Pipes : Receive(p)
    \/ \E ms \in SUBSET Msg : Fail(ms)

Spec == Init /\ [][Next]_vars
=============================================================================
