--------------------------- MODULE MCChannelUrls ----------------------------
(* Instances of ChannelUrls for TLC. *)
EXTENDS ChannelUrls

CONSTANTS c1, c2, u1, u2, u3, u4

Application(app, cc, url, ext) == [app |-> app, cc |-> cc, url |-> url, ext |-> ext]

\* Channel c1 changes the address of its autostart application and may drop
\* the second one; c2 has one application.
Auto1    == Application(16, 1, u1, TRUE)
Auto1New == Application(16, 1, u2, FALSE)
Present1 == Application(300, 2, u3, FALSE)
Auto2    == Application(10, 1, u4, FALSE)

MCUrl == {u1, u2, u3, u4}

MCChannel == {c1, c2}
MCApp == {Auto1, Auto1New, Present1, Auto2}
MCAit ==
    [c \in MCChannel |->
        IF c = c1 THEN {<<Present1, Auto1>>, <<Auto1New>>} ELSE {<<Auto2>>}]

=============================================================================
