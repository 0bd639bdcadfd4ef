------------------------ MODULE PlayerControlProofs ------------------------
(***************************************************************************)
(* Proofs about PlayerControl, for any number of players.                  *)
(*                                                                         *)
(* Owned says, for each place at which one thread can be while the other   *)
(* does no work on players, who has the control, who the device and what   *)
(* hbbtvVideoPlayer names.  Deletion and Geometry hold through every       *)
(* overlap: they rest on VDR's lock, and on who changed a size since it    *)
(* was read.                                                               *)
(***************************************************************************)
EXTENDS PlayerControl, TLAPS

MainLabel == Label \ {"stop_check", "detach", "seek_attach"}
RecvLabel == Label \ {"test", "new", "launch"}
DetachPc  == {"reset", "rescale"}

\* Thread t is at l, or in a Detach that returns there.
Towards(t, l) == At(t, l) \/ (th[t].pc \in DetachPc /\ th[t].back = l)

\* Where each thread can be, and where it returns to.
Places ==
    /\ th["main"].pc \in MainLabel /\ th["recv"].pc \in RecvLabel
    /\ th["main"].back # "seek_attach"
    /\ th["recv"].pc \in SizePc => th["recv"].then = "idle"
    /\ th["main"].pc \in SizePc => th["main"].then \in {"idle", "launch"}
    /\ \A t \in Thread : (At(t, "delete") \/ Deleting(t)) => th[t].then \in {"idle", "attach"}
    /\ \A t \in Thread : ~(At(t, "delete") \/ Deleting(t) \/ th[t].pc \in SizePc) => th[t].then = "idle"
    /\ \A t \in Thread : th[t].pc \in DetachPc <=> th[t].back # "idle"
    /\ \A t \in Thread : th[t].pc = "size_apply" => th[t].arg \in {"full", "scaled"}

Nobody   == hbbtvVideoPlayer = None /\ control \notin Players /\ device \notin Players
Playing  == hbbtvVideoPlayer \in Players /\ control = hbbtvVideoPlayer /\ device = hbbtvVideoPlayer
Detached == hbbtvVideoPlayer \in Players /\ control = hbbtvVideoPlayer /\ device \notin Players
Rest     == mutex = None /\ (Nobody \/ Playing)

\* The deletion that makes room for the hook's control.
MakesControl == At("main", "delete") /\ th["main"].then = "attach" /\ control \in Players

AtNew      == At("main", "new") => mutex = None /\ Nobody
AtLaunch   == (At("main", "launch") \/ (th["main"].pc \in SizePc /\ th["main"].then = "launch")) =>
                  /\ mutex = None /\ hbbtvVideoPlayer \in Players
                  /\ th["main"].player = hbbtvVideoPlayer
                  /\ control \notin Players /\ device \notin Players
AtMade     == MakesControl => mutex = "main" /\ Detached /\ th["main"].arg \notin Players
AtDelete(t) == (At(t, "delete") /\ ~(t = "main" /\ MakesControl)) =>
                  /\ mutex = t /\ control \notin Players
                  /\ (th[t].arg \in Players) <=> (hbbtvVideoPlayer \in Players)
                  /\ device \in Players => device = hbbtvVideoPlayer
AtEnd(t)    == (At(t, "delete_detach") \/ Towards(t, "free")) =>
                  /\ mutex = t /\ control \notin Players
                  /\ hbbtvVideoPlayer \in Players /\ th[t].arg = hbbtvVideoPlayer
                  /\ device \in Players => device = hbbtvVideoPlayer /\ At(t, "delete_detach")
AtAttach(t) == At(t, "attach") => mutex = None /\ (Nobody \/ Detached)
AtPut(t)    == Towards(t, "put") =>
                  /\ mutex \in {None, t}
                  /\ \/ Detached /\ th[t].player = hbbtvVideoPlayer
                     \/ Nobody /\ th[t].player = Other
AtActivate(t) == At(t, "activate") =>
                  /\ mutex \in {None, t} /\ ~isHbbtvPlayerActivated
                  /\ \/ Playing /\ th[t].player = hbbtvVideoPlayer
                     \/ Nobody /\ th[t].player = Other
AtShutdown(t) == Towards(t, "shutdown") => mutex = None /\ (Nobody \/ Playing \/ Detached)
AtDetach(t) == At(t, "reset") => device \notin Players
AtStop      == At("recv", "stop_check") => Rest
AtSeek      == /\ At("recv", "detach") => mutex = None /\ Playing
               /\ Towards("recv", "seek_attach") => mutex = None /\ Detached

OnePlaces ==
    /\ AtNew /\ AtLaunch /\ AtMade /\ AtStop /\ AtSeek
    /\ \A t \in Thread : AtDelete(t) /\ AtEnd(t) /\ AtAttach(t) /\ AtPut(t)
                            /\ AtActivate(t) /\ AtShutdown(t) /\ AtDetach(t)

Owned ==
    ~clash =>
        /\ ~(PlayerWork("main") /\ PlayerWork("recv"))
        /\ live = {hbbtvVideoPlayer} \ {None}
        /\ (\A t \in Thread : th[t].pc \notin {"reset", "activate"})
               => (isHbbtvPlayerActivated <=> device \in Players)
        /\ (~PlayerWork("main") /\ ~PlayerWork("recv")) => Rest
        /\ OnePlaces

\* Who deletes has VDR's lock, from Shutdown or Launch to the end.
Deletion ==
    /\ hbbtvVideoPlayer \in live \cup {None}
    /\ \A t \in Thread : At(t, "delete") => mutex = t
    /\ \A t \in Thread : Deleting(t) => mutex = t /\ th[t].arg \in live

\* A size that nobody changed since is the one that the variables have.
Geometry ==
    /\ \A t \in Thread \ crossed : At(t, "size_apply") => th[t].arg = video
    /\ \A t \in Thread \ crossed : At(t, "rescale") => video = "full"
    /\ GeometryAgrees

-----------------------------------------------------------------------------
\* The variables keep their types and the threads their places.
LEMMA PlacesInit == Init => TypeOK /\ Places
<1> USE DEF Init, Idle, Thread, SizePc, Label
<1>1. Init => TypeOK
  <2>1. Init => th \in [Thread -> ThreadState]
    BY DEF ThreadState, Player
  <2> QED
    BY <2>1 DEF TypeOK, Player
<1>2. Init => Places
  BY DEF Places, MainLabel, RecvLabel, DetachPc, Deleting, At
<1> QED
  BY <1>1, <1>2

\* The threads' states: a step of the hook, of the receiver, of a deletion or
\* of an attachment goes to a place it may be at.
LEMMA PlacesStep ==
    ASSUME TypeOK, Places, [Next]_vars
    PROVE  th' \in [Thread -> ThreadState] /\ Places'
<1> USE DEF At, objects, output, geometry, orders, TypeOK, Places, Thread, SizePc, DetachPc,
            Deleting, Label, MainLabel, RecvLabel
<1>1. ASSUME HookTake, Next PROVE th' \in [Thread -> ThreadState] /\ Places'
  <2>1. th' \in [Thread -> ThreadState]
    BY <1>1 DEF HookTake, Go, Player, ThreadState
  <2>2. Places'
    BY <1>1 DEF HookTake, Go, Player, ThreadState
  <2> QED
    BY <2>1, <2>2
<1>2. ASSUME HookTest, Next PROVE th' \in [Thread -> ThreadState] /\ Places'
  <2>1. th' \in [Thread -> ThreadState]
    BY <1>2 DEF HookTest, Go, Player, ThreadState
  <2>2. Places'
    BY <1>2 DEF HookTest, Go, Player, ThreadState
  <2> QED
    BY <2>1, <2>2
<1>3. ASSUME NEW p \in Players, HookNew(p), Next PROVE th' \in [Thread -> ThreadState] /\ Places'
  <2>1. th' \in [Thread -> ThreadState]
    BY <1>3 DEF HookNew, Player, ThreadState
  <2>2. Places'
    BY <1>3 DEF HookNew, Player, ThreadState
  <2> QED
    BY <2>1, <2>2
<1>4. ASSUME HookLaunch, Next PROVE th' \in [Thread -> ThreadState] /\ Places'
  <2>1. th' \in [Thread -> ThreadState]
    BY <1>4 DEF HookLaunch, TakeControl, Player, ThreadState
  <2>2. Places'
    BY <1>4 DEF HookLaunch, TakeControl, Player, ThreadState
  <2> QED
    BY <2>1, <2>2
<1>5. ASSUME ControlEnds, Next PROVE th' \in [Thread -> ThreadState] /\ Places'
  <2>1. th' \in [Thread -> ThreadState]
    <3>1. th' = [th EXCEPT !["main"] = [th["main"] EXCEPT !.arg = control, !.then = "idle", !.player = None, !.pc = "delete"]]
      BY <1>5 DEF ControlEnds, TakeControl, ThreadState
    <3>2. [th["main"] EXCEPT !.arg = control, !.then = "idle", !.player = None, !.pc = "delete"] \in ThreadState
      <4>1. /\ th["main"] \in ThreadState /\ control \in Player \cup {Other}
            /\ None \in Player /\ "delete" \in Label
        BY DEF Player
      <4> HIDE DEF At, TypeOK, Places, SizePc, DetachPc, Deleting, Label, MainLabel, RecvLabel
      <4> QED
        BY <4>1 DEF ThreadState
    <3> QED
      BY <3>1, <3>2
  <2>2. Places'
    BY <1>5 DEF ControlEnds, TakeControl, Player, ThreadState
  <2> QED
    BY <2>1, <2>2
<1>6. ASSUME StopReplay, Next PROVE th' \in [Thread -> ThreadState] /\ Places'
  <2>1. th' \in [Thread -> ThreadState]
    BY <1>6 DEF StopReplay, DetachThen, Go, Player, ThreadState
  <2>2. Places'
    BY <1>6 DEF StopReplay, DetachThen, Go, Player, ThreadState
  <2> QED
    BY <2>1, <2>2
<1>7. ASSUME OtherReplay, Next PROVE th' \in [Thread -> ThreadState] /\ Places'
  <2>1. th' \in [Thread -> ThreadState]
    BY <1>7 DEF OtherReplay, TakeControl, Player, ThreadState
  <2>2. Places'
    BY <1>7 DEF OtherReplay, TakeControl, Player, ThreadState
  <2> QED
    BY <2>1, <2>2
<1>8. ASSUME PageHidden, Next PROVE th' \in [Thread -> ThreadState] /\ Places'
  <2>1. th' \in [Thread -> ThreadState]
    <3>1. th' = [th EXCEPT !["main"] = [th["main"] EXCEPT !.pc = "size_read", !.then = "idle"]]
      BY <1>8 DEF PageHidden, Call, ThreadState
    <3>2. [th["main"] EXCEPT !.pc = "size_read", !.then = "idle"] \in ThreadState
      BY ZenonT(60) DEF ThreadState, Player
    <3> QED
      BY <3>1, <3>2
  <2>2. Places'
    BY <1>8 DEF PageHidden, Call, Player, ThreadState
  <2> QED
    BY <2>1, <2>2
<1>9. ASSUME PageDeleted, Next PROVE th' \in [Thread -> ThreadState] /\ Places'
  <2>1. th' \in [Thread -> ThreadState]
    BY <1>9 DEF PageDeleted, Player, ThreadState
  <2>2. Places'
    BY <1>9 DEF PageDeleted, Player, ThreadState
  <2> QED
    BY <2>1, <2>2
<1>10. ASSUME PlayVideo, Next PROVE th' \in [Thread -> ThreadState] /\ Places'
  <2>1. th' \in [Thread -> ThreadState]
    BY <1>10 DEF PlayVideo, Player, ThreadState
  <2>2. Places'
    BY <1>10 DEF PlayVideo, Player, ThreadState
  <2> QED
    BY <2>1, <2>2
<1>11. ASSUME StopVideo, Next PROVE th' \in [Thread -> ThreadState] /\ Places'
  <2>1. th' \in [Thread -> ThreadState]
    BY <1>11 DEF StopVideo, Go, Player, ThreadState
  <2>2. Places'
    BY <1>11 DEF StopVideo, Go, Player, ThreadState
  <2> QED
    BY <2>1, <2>2
<1>12. ASSUME SeekTest, Next PROVE th' \in [Thread -> ThreadState] /\ Places'
  <2>1. th' \in [Thread -> ThreadState]
    BY <1>12 DEF SeekTest, Go, Player, ThreadState
  <2>2. Places'
    BY <1>12 DEF SeekTest, Go, Player, ThreadState
  <2> QED
    BY <2>1, <2>2
<1>13. ASSUME VideoSize, Next PROVE th' \in [Thread -> ThreadState] /\ Places'
  <2>1. th' \in [Thread -> ThreadState]
    <3>1. th' = [th EXCEPT !["recv"] = [th["recv"] EXCEPT !.pc = "size_read", !.then = "idle"]]
      BY <1>13 DEF VideoSize, Call, ThreadState
    <3>2. [th["recv"] EXCEPT !.pc = "size_read", !.then = "idle"] \in ThreadState
      BY ZenonT(60) DEF ThreadState, Player
    <3> QED
      BY <3>1, <3>2
  <2>2. Places'
    BY <1>13 DEF VideoSize, Call, Player, ThreadState
  <2> QED
    BY <2>1, <2>2
<1>14. ASSUME StopCheck, Next PROVE th' \in [Thread -> ThreadState] /\ Places'
  <2>1. th' \in [Thread -> ThreadState]
    BY <1>14 DEF StopCheck, Go, Player, ThreadState
  <2>2. Places'
    BY <1>14 DEF StopCheck, Go, Player, ThreadState
  <2> QED
    BY <2>1, <2>2
<1>15. ASSUME SeekDetach, Next PROVE th' \in [Thread -> ThreadState] /\ Places'
  <2>1. th' \in [Thread -> ThreadState]
    BY <1>15 DEF SeekDetach, DetachThen, Go, Player, ThreadState
  <2>2. Places'
    BY <1>15 DEF SeekDetach, DetachThen, Go, Player, ThreadState
  <2> QED
    BY <2>1, <2>2
<1>16. ASSUME SeekAttach, Next PROVE th' \in [Thread -> ThreadState] /\ Places'
  <2>1. th' \in [Thread -> ThreadState]
    BY <1>16 DEF SeekAttach, AttachThen, Go, Player, ThreadState
  <2>2. Places'
    BY <1>16 DEF SeekAttach, AttachThen, Go, Player, ThreadState
  <2> QED
    BY <2>1, <2>2
<1>17. ASSUME NEW t \in Thread, Reset(t), Next PROVE th' \in [Thread -> ThreadState] /\ Places'
  <2>1. th' \in [Thread -> ThreadState]
    BY <1>17 DEF Reset, Go, Player, ThreadState
  <2>2. Places'
    BY <1>17 DEF Reset, Go, Player, ThreadState
  <2> QED
    BY <2>1, <2>2
<1>18. ASSUME NEW t \in Thread, Rescale(t), Next PROVE th' \in [Thread -> ThreadState] /\ Places'
  <2>1. th' \in [Thread -> ThreadState]
    BY <1>18 DEF Rescale, Player, ThreadState
  <2>2. Places'
    BY <1>18, SMTT(30) DEF Rescale, Player, ThreadState
  <2> QED
    BY <2>1, <2>2
<1>19. ASSUME NEW t \in Thread, SizeRead(t), Next PROVE th' \in [Thread -> ThreadState] /\ Places'
  <2>1. th' \in [Thread -> ThreadState]
    BY <1>19 DEF SizeRead, Player, ThreadState
  <2>2. Places'
    BY <1>19 DEF SizeRead, Player, ThreadState
  <2> QED
    BY <2>1, <2>2
<1>20. ASSUME NEW t \in Thread, SizeApply(t), Next PROVE th' \in [Thread -> ThreadState] /\ Places'
  <2>1. th' \in [Thread -> ThreadState]
    BY <1>20 DEF SizeApply, Return, Player, ThreadState
  <2>2. Places'
    BY <1>20, SMTT(30) DEF SizeApply, Return, Player, ThreadState
  <2> QED
    BY <2>1, <2>2
<1>21. ASSUME NEW t \in Thread, ControlAttach(t), Next PROVE th' \in [Thread -> ThreadState] /\ Places'
  <2>1. th' \in [Thread -> ThreadState]
    BY <1>21 DEF ControlAttach, AttachThen, Go, Player, ThreadState
  <2>2. Places'
    BY <1>21 DEF ControlAttach, AttachThen, Go, Player, ThreadState
  <2> QED
    BY <2>1, <2>2
<1>22. ASSUME NEW t \in Thread, Put(t), Next PROVE th' \in [Thread -> ThreadState] /\ Places'
  <2>1. th' \in [Thread -> ThreadState]
    BY <1>22 DEF Put, Go, Player, ThreadState
  <2>2. Places'
    BY <1>22 DEF Put, Go, Player, ThreadState
  <2> QED
    BY <2>1, <2>2
<1>23. ASSUME NEW t \in Thread, Activate(t), Next PROVE th' \in [Thread -> ThreadState] /\ Places'
  <2>1. th' \in [Thread -> ThreadState]
    BY <1>23 DEF Activate, Idle, Player, ThreadState
  <2>2. Places'
    BY <1>23 DEF Activate, Idle, Player, ThreadState
  <2> QED
    BY <2>1, <2>2
<1>24. ASSUME NEW t \in Thread, Shutdown(t), Next PROVE th' \in [Thread -> ThreadState] /\ Places'
  <2>1. th' \in [Thread -> ThreadState]
    BY <1>24 DEF Shutdown, TakeControl, Player, ThreadState
  <2>2. Places'
    BY <1>24, SMTT(30) DEF Shutdown, TakeControl, Player, ThreadState
  <2> QED
    BY <2>1, <2>2
<1>25. ASSUME NEW t \in Thread, DeleteReset(t), Next PROVE th' \in [Thread -> ThreadState] /\ Places'
  <2>1. th' \in [Thread -> ThreadState]
    BY <1>25 DEF DeleteReset, Player, ThreadState
  <2>2. Places'
    BY <1>25 DEF DeleteReset, Player, ThreadState
  <2> QED
    BY <2>1, <2>2
<1>26. ASSUME NEW t \in Thread, DeleteDetach(t), Next PROVE th' \in [Thread -> ThreadState] /\ Places'
  <2>1. th' \in [Thread -> ThreadState]
    BY <1>26 DEF DeleteDetach, DetachThen, Go, Player, ThreadState
  <2>2. Places'
    BY <1>26 DEF DeleteDetach, DetachThen, Go, Player, ThreadState
  <2> QED
    BY <2>1, <2>2
<1>27. ASSUME NEW t \in Thread, DeleteFree(t), Next PROVE th' \in [Thread -> ThreadState] /\ Places'
  <2>1. th' \in [Thread -> ThreadState]
    BY <1>27 DEF DeleteFree, Return, Player, ThreadState
  <2>2. Places'
    BY <1>27, SMTT(30) DEF DeleteFree, Return, Player, ThreadState
  <2> QED
    BY <2>1, <2>2
<1>28. ASSUME NEW t \in Thread, DeleteNothing(t), Next PROVE th' \in [Thread -> ThreadState] /\ Places'
  <2>1. th' \in [Thread -> ThreadState]
    BY <1>28 DEF DeleteNothing, Return, Player, ThreadState
  <2>2. Places'
    BY <1>28, SMTT(30) DEF DeleteNothing, Return, Player, ThreadState
  <2> QED
    BY <2>1, <2>2
<1>u. CASE UNCHANGED vars
  BY <1>u DEF vars
<1> QED
  BY <1>1, <1>2, <1>3, <1>4, <1>5, <1>6, <1>7, <1>8, <1>9, <1>10, <1>11, <1>12, <1>13, <1>14,
     <1>15, <1>16, <1>17, <1>18, <1>19, <1>20, <1>21, <1>22, <1>23, <1>24, <1>25, <1>26, <1>27,
     <1>28, <1>u
  DEF Next, Steps, HookSteps, Tells, Attaches, Deletes, MainBegins, RecvBegins, RecvGoesOn

\* The other variables' types.
LEMMA TypeStep ==
    ASSUME TypeOK, Places, [Next]_vars
    PROVE  TypeOK'
<1> USE DEF At, objects, output, geometry, orders, TypeOK, Player
<1>o. Next => clash' \in BOOLEAN /\ crossed' \subseteq Thread /\ stale' \in BOOLEAN
  BY DEF Next, Overlaps
<1>t. th' \in [Thread -> ThreadState]
  BY PlacesStep
<1>1. ASSUME HookTake, Next PROVE TypeOK'
  BY <1>1, <1>o, <1>t, ZenonT(60) DEF HookTake, Go, Thread
<1>2. ASSUME HookTest, Next PROVE TypeOK'
  BY <1>2, <1>o, <1>t DEF HookTest, Go, Thread
<1>3. ASSUME NEW p \in Players, HookNew(p), Next PROVE TypeOK'
  BY <1>3, <1>o, <1>t DEF HookNew, Thread
<1>4. ASSUME HookLaunch, Next PROVE TypeOK'
  BY <1>4, <1>o, <1>t DEF HookLaunch, TakeControl, ThreadState, Places, Thread
<1>5. ASSUME ControlEnds, Next PROVE TypeOK'
  BY <1>5, <1>o, <1>t DEF ControlEnds, TakeControl, Thread
<1>6. ASSUME StopReplay, Next PROVE TypeOK'
  BY <1>6, <1>o, <1>t DEF StopReplay, DetachThen, Go, Thread
<1>7. ASSUME OtherReplay, Next PROVE TypeOK'
  BY <1>7, <1>o, <1>t DEF OtherReplay, TakeControl, Thread
<1>8. ASSUME PageHidden, Next PROVE TypeOK'
  BY <1>8, <1>o, <1>t DEF PageHidden, Call, Thread
<1>9. ASSUME PageDeleted, Next PROVE TypeOK'
  BY <1>9, <1>o, <1>t DEF PageDeleted, Thread
<1>10. ASSUME PlayVideo, Next PROVE TypeOK'
  BY <1>10, <1>o, <1>t DEF PlayVideo, Thread
<1>11. ASSUME StopVideo, Next PROVE TypeOK'
  BY <1>11, <1>o, <1>t DEF StopVideo, Go, Thread
<1>12. ASSUME SeekTest, Next PROVE TypeOK'
  BY <1>12, <1>o, <1>t DEF SeekTest, Go, Thread
<1>13. ASSUME VideoSize, Next PROVE TypeOK'
  BY <1>13, <1>o, <1>t DEF VideoSize, Call, Thread
<1>14. ASSUME StopCheck, Next PROVE TypeOK'
  BY <1>14, <1>o, <1>t DEF StopCheck, Go, Thread
<1>15. ASSUME SeekDetach, Next PROVE TypeOK'
  BY <1>15, <1>o, <1>t DEF SeekDetach, DetachThen, Go, Thread
<1>16. ASSUME SeekAttach, Next PROVE TypeOK'
  BY <1>16, <1>o, <1>t DEF SeekAttach, AttachThen, Go, Thread
<1>17. ASSUME NEW t \in Thread, Reset(t), Next PROVE TypeOK'
  BY <1>17, <1>o, <1>t, ZenonT(60) DEF Reset, Go, ThreadState, Places, Thread
<1>18. ASSUME NEW t \in Thread, Rescale(t), Next PROVE TypeOK'
  BY <1>18, <1>o, <1>t DEF Rescale, ThreadState, Places, Thread
<1>19. ASSUME NEW t \in Thread, SizeRead(t), Next PROVE TypeOK'
  BY <1>19, <1>o, <1>t DEF SizeRead, ThreadState, Places, Thread
<1>20. ASSUME NEW t \in Thread, SizeApply(t), Next PROVE TypeOK'
  BY <1>20, <1>o, <1>t, ZenonT(60) DEF SizeApply, Return, ThreadState, Places, Thread
<1>21. ASSUME NEW t \in Thread, ControlAttach(t), Next PROVE TypeOK'
  BY <1>21, <1>o, <1>t DEF ControlAttach, AttachThen, Go, ThreadState, Places, Thread
<1>22. ASSUME NEW t \in Thread, Put(t), Next PROVE TypeOK'
  BY <1>22, <1>o, <1>t DEF Put, Go, ThreadState, Places, Thread
<1>23. ASSUME NEW t \in Thread, Activate(t), Next PROVE TypeOK'
  BY <1>23, <1>o, <1>t DEF Activate, Idle, ThreadState, Places, Thread
<1>24. ASSUME NEW t \in Thread, Shutdown(t), Next PROVE TypeOK'
  BY <1>24, <1>o, <1>t DEF Shutdown, TakeControl, ThreadState, Places, Thread
<1>25. ASSUME NEW t \in Thread, DeleteReset(t), Next PROVE TypeOK'
  BY <1>25, <1>o, <1>t DEF DeleteReset, ThreadState, Places, Thread
<1>26. ASSUME NEW t \in Thread, DeleteDetach(t), Next PROVE TypeOK'
  BY <1>26, <1>o, <1>t DEF DeleteDetach, DetachThen, Go, ThreadState, Places, Thread
<1>27. ASSUME NEW t \in Thread, DeleteFree(t), Next PROVE TypeOK'
  BY <1>27, <1>o, <1>t DEF DeleteFree, Return, ThreadState, Places, Thread
<1>28. ASSUME NEW t \in Thread, DeleteNothing(t), Next PROVE TypeOK'
  BY <1>28, <1>o, <1>t DEF DeleteNothing, Return, ThreadState, Places, Thread
<1>u. CASE UNCHANGED vars
  BY <1>u DEF vars
<1> QED
  BY <1>1, <1>2, <1>3, <1>4, <1>5, <1>6, <1>7, <1>8, <1>9, <1>10, <1>11, <1>12, <1>13, <1>14,
     <1>15, <1>16, <1>17, <1>18, <1>19, <1>20, <1>21, <1>22, <1>23, <1>24, <1>25, <1>26, <1>27,
     <1>28, <1>u
  DEF Next, Steps, HookSteps, Tells, Attaches, Deletes, MainBegins, RecvBegins, RecvGoesOn

-----------------------------------------------------------------------------
\* As long as there was no clash, where the one thread at work is says who has
\* the control, the device and the player.
LEMMA OwnedInit == Init => Owned
  BY PlayersAssumption DEF Init, Owned, OnePlaces, AtNew, AtLaunch, AtMade, AtDelete, AtEnd, AtAttach,
     AtPut, AtActivate, AtShutdown, AtDetach, AtStop, AtSeek, Towards, DetachPc, MakesControl,
     PlayerWork, SizePc, Rest, Nobody, Playing, Idle, Thread, At

LEMMA OwnedStep ==
    ASSUME TypeOK, Places, Owned, [Next]_vars
    PROVE  Owned'
<1> USE PlayersAssumption
    DEF Owned, OnePlaces, AtNew, AtLaunch, AtMade, AtDelete, AtEnd, AtAttach, AtPut, AtActivate,
        AtShutdown, AtDetach, AtStop, AtSeek, Towards, DetachPc, MakesControl, PlayerWork, SizePc,
        Rest, Nobody, Playing, Detached, Thread, At, objects, output, geometry, orders, None, Other
<1>o. Next => (~clash' => ~clash /\ ~(PlayerWork("main")' /\ PlayerWork("recv")'))
  BY DEF Next, Overlaps
<1>1. ASSUME HookTake, Next PROVE Owned'
  BY <1>1, <1>o
     DEF HookTake, Go, TypeOK, Places, Deleting, Label, MainLabel, RecvLabel, Player, ThreadState
<1>2. ASSUME HookTest, Next PROVE Owned'
  BY <1>2, <1>o
     DEF HookTest, Go, TypeOK, Places, Deleting, Label, MainLabel, RecvLabel, Player, ThreadState
<1>3. ASSUME NEW p \in Players, HookNew(p), Next PROVE Owned'
  BY <1>3, <1>o
     DEF HookNew, TypeOK, Places, Deleting, Label, MainLabel, RecvLabel, Player, ThreadState
<1>4. ASSUME HookLaunch, Next PROVE Owned'
  BY <1>4, <1>o, SMTT(30)
     DEF HookLaunch, TakeControl, TypeOK, Places, Deleting, Label, MainLabel, RecvLabel, Player,
         ThreadState
<1>5. ASSUME ControlEnds, Next PROVE Owned'
  BY <1>5, <1>o, SMTT(30)
     DEF ControlEnds, TakeControl, TypeOK, Places, Deleting, Label, MainLabel, RecvLabel, Player,
         ThreadState
<1>6. ASSUME StopReplay, Next PROVE Owned'
  BY <1>6, <1>o
     DEF StopReplay, DetachThen, Go, TypeOK, Places, Deleting, Label, MainLabel, RecvLabel, Player,
         ThreadState
<1>7. ASSUME OtherReplay, Next PROVE Owned'
  BY <1>7, <1>o, SMTT(30)
     DEF OtherReplay, TakeControl, TypeOK, Places, Deleting, Label, MainLabel, RecvLabel, Player,
         ThreadState
<1>8. ASSUME PageHidden, Next PROVE Owned'
  BY <1>8, <1>o
     DEF PageHidden, Call, TypeOK, Places, Deleting, Label, MainLabel, RecvLabel, Player,
         ThreadState
<1>9. ASSUME PageDeleted, Next PROVE Owned'
  BY <1>9, <1>o
     DEF PageDeleted, TypeOK, Places, Deleting, Label, MainLabel, RecvLabel, Player, ThreadState
<1>10. ASSUME PlayVideo, Next PROVE Owned'
  BY <1>10, <1>o
     DEF PlayVideo, TypeOK, Places, Deleting, Label, MainLabel, RecvLabel, Player, ThreadState
<1>11. ASSUME StopVideo, Next PROVE Owned'
  BY <1>11, <1>o
     DEF StopVideo, Go, TypeOK, Places, Deleting, Label, MainLabel, RecvLabel, Player, ThreadState
<1>12. ASSUME SeekTest, Next PROVE Owned'
  BY <1>12, <1>o
     DEF SeekTest, Go, TypeOK, Places, Deleting, Label, MainLabel, RecvLabel, Player, ThreadState
<1>13. ASSUME VideoSize, Next PROVE Owned'
  BY <1>13, <1>o
     DEF VideoSize, Call, TypeOK, Places, Deleting, Label, MainLabel, RecvLabel, Player,
         ThreadState
<1>14. ASSUME StopCheck, Next PROVE Owned'
  BY <1>14, <1>o
     DEF StopCheck, Go, TypeOK, Places, Deleting, Label, MainLabel, RecvLabel, Player, ThreadState
<1>15. ASSUME SeekDetach, Next PROVE Owned'
  BY <1>15, <1>o
     DEF SeekDetach, DetachThen, Go, TypeOK, Places, Deleting, Label, MainLabel, RecvLabel, Player,
         ThreadState
<1>16. ASSUME SeekAttach, Next PROVE Owned'
  BY <1>16, <1>o
     DEF SeekAttach, AttachThen, Go, TypeOK, Places, Deleting, Label, MainLabel, RecvLabel, Player,
         ThreadState
<1>17. ASSUME NEW t \in Thread, Reset(t), Next PROVE Owned'
  <2>1. CASE t = "main"
    BY <1>17, <1>o, <2>1 DEF Reset, Go, TypeOK, Places, Deleting, Label, MainLabel, RecvLabel, Player, ThreadState
  <2>2. CASE t = "recv"
    BY <1>17, <1>o, <2>2 DEF Reset, Go, TypeOK, Places, Deleting, Label, MainLabel, RecvLabel, Player, ThreadState
  <2> QED
    BY <2>1, <2>2
<1>18. ASSUME NEW t \in Thread, Rescale(t), Next PROVE Owned'
  <2>1. CASE t = "main"
    BY <1>18, <1>o, <2>1, SMTT(30) DEF Rescale, TypeOK, Places, Deleting, Label, MainLabel, RecvLabel, Player, ThreadState
  <2>2. CASE t = "recv"
    BY <1>18, <1>o, <2>2, SMTT(30) DEF Rescale, TypeOK, Places, Deleting, Label, MainLabel, RecvLabel, Player, ThreadState
  <2> QED
    BY <2>1, <2>2
<1>19. ASSUME NEW t \in Thread, SizeRead(t), Next PROVE Owned'
  BY <1>19, <1>o
     DEF SizeRead, TypeOK, Places, Deleting, Label, MainLabel, RecvLabel, Player, ThreadState
<1>20. ASSUME NEW t \in Thread, SizeApply(t), Next PROVE Owned'
  <2> HIDE DEF Owned
  <2>1. /\ th'[t].pc = th[t].then /\ th'[t].then = "idle" /\ th'[t].back = "idle" /\ th[t].pc = "size_apply"
        /\ th'[t].player = th[t].player /\ th[t].then \in {"idle", "launch"} /\ (t = "recv" => th[t].then = "idle")
        /\ \A u \in Thread \ {t} : th'[u] = th[u]
    BY <1>20 DEF SizeApply, Return, TypeOK, Places, Deleting, Label, MainLabel, RecvLabel, Player,
         ThreadState
  <2>2. /\ UNCHANGED <<hbbtvVideoPlayer, live, control, mutex, device, isHbbtvPlayerActivated>>
    BY <1>20 DEF SizeApply, Return, TypeOK, Places, Deleting, Label, MainLabel, RecvLabel, Player,
         ThreadState
  <2>3. hbbtvVideoPlayer \in Players \cup {None} /\ th[t].player \in Players \cup {None, Other}
    BY DEF TypeOK, ThreadState, Player
  <2>4. CASE t = "main"
    BY <1>o, <1>20, <2>1, <2>2, <2>3, <2>4 DEF Owned
  <2>5. CASE t = "recv"
    BY <1>o, <1>20, <2>1, <2>2, <2>3, <2>5 DEF Owned
  <2> QED
    BY <2>4, <2>5
<1>21. ASSUME NEW t \in Thread, ControlAttach(t), Next PROVE Owned'
  <2>1. CASE t = "main"
    BY <1>21, <1>o, <2>1 DEF ControlAttach, AttachThen, Go, TypeOK, Places, Deleting, Label, MainLabel, RecvLabel,
       Player, ThreadState
  <2>2. CASE t = "recv"
    BY <1>21, <1>o, <2>2 DEF ControlAttach, AttachThen, Go, TypeOK, Places, Deleting, Label, MainLabel, RecvLabel,
       Player, ThreadState
  <2> QED
    BY <2>1, <2>2
<1>22. ASSUME NEW t \in Thread, Put(t), Next PROVE Owned'
  <2>1. CASE t = "main"
    BY <1>22, <1>o, <2>1 DEF Put, Go, TypeOK, Places, Deleting, Label, MainLabel, RecvLabel, Player, ThreadState
  <2>2. CASE t = "recv"
    BY <1>22, <1>o, <2>2 DEF Put, Go, TypeOK, Places, Deleting, Label, MainLabel, RecvLabel, Player, ThreadState
  <2> QED
    BY <2>1, <2>2
<1>23. ASSUME NEW t \in Thread, Activate(t), Next PROVE Owned'
  <2> HIDE DEF Owned
  <2>1. /\ th'[t].pc = "idle" /\ th'[t].then = "idle" /\ th'[t].back = "idle" /\ th[t].pc = "activate"
        /\ \A u \in Thread \ {t} : th'[u] = th[u]
    BY <1>23 DEF Activate, Idle, TypeOK, Places, Deleting, Label, MainLabel, RecvLabel, Player,
         ThreadState
  <2>2. /\ isHbbtvPlayerActivated' <=> (th[t].player \in Players \/ isHbbtvPlayerActivated)
        /\ mutex' = IF mutex = t THEN None ELSE mutex
        /\ UNCHANGED <<hbbtvVideoPlayer, live, control, device>>
    BY <1>23 DEF Activate, Idle, TypeOK, Places, Deleting, Label, MainLabel, RecvLabel, Player,
         ThreadState
  <2>3. hbbtvVideoPlayer \in Players \cup {None} /\ th[t].player \in Players \cup {None, Other}
    BY DEF TypeOK, ThreadState, Player
  <2>a. ~clash => (isHbbtvPlayerActivated' <=> device' \in Players) /\ Rest'
    BY <2>1, <2>2, <2>3 DEF Owned
  <2>4. ~clash' => ~clash /\ \A u \in Thread : th'[u].pc \in {"idle", "test"} \cup SizePc
                                           /\ (th'[u].pc \in SizePc => th'[u].then # "launch")
    <3>1. ~clash => ~(PlayerWork("main") /\ PlayerWork("recv"))
      BY DEF Owned
    <3>2. CASE t = "main"
      BY <1>o, <1>23, <2>1, <3>1, <3>2
    <3>3. CASE t = "recv"
      BY <1>o, <1>23, <2>1, <3>1, <3>3
    <3> QED
      BY <3>2, <3>3
  <2>5. ~clash' => OnePlaces'
    BY <2>4
  <2>6. ~clash' => /\ ~(PlayerWork("main")' /\ PlayerWork("recv")')
                   /\ live' = {hbbtvVideoPlayer'} \ {None}
    BY <1>23, <2>2, <2>4 DEF Owned, Activate
  <2> QED
    BY <2>4, <2>5, <2>6, <2>a DEF Owned
<1>24. ASSUME NEW t \in Thread, Shutdown(t), Next PROVE Owned'
  <2> HIDE DEF Owned
  <2>1. /\ th'[t].pc = "delete" /\ th'[t].then \in {"idle", "attach"} /\ th'[t].arg = control
        /\ (t = "main" => th'[t].then = "idle") /\ th[t].pc = "shutdown"
        /\ \A u \in Thread \ {t} : th'[u] = th[u]
    BY <1>24 DEF Shutdown, TakeControl, TypeOK, Places, Deleting, Label, MainLabel, RecvLabel, Player,
         ThreadState
  <2>2. /\ mutex = None /\ mutex' = t /\ control' = None
        /\ UNCHANGED <<hbbtvVideoPlayer, live, device, isHbbtvPlayerActivated>>
    BY <1>24 DEF Shutdown, TakeControl, TypeOK, Places, Deleting, Label, MainLabel, RecvLabel, Player,
         ThreadState
  <2>3. hbbtvVideoPlayer \in Players \cup {None} /\ th[t].player \in Players \cup {None, Other}
    BY DEF TypeOK, ThreadState, Player
  <2>4. CASE t = "main"
    BY <1>o, <1>24, <2>1, <2>2, <2>3, <2>4 DEF Owned
  <2>5. CASE t = "recv"
    BY <1>o, <1>24, <2>1, <2>2, <2>3, <2>5 DEF Owned
  <2> QED
    BY <2>4, <2>5
<1>25. ASSUME NEW t \in Thread, DeleteReset(t), Next PROVE Owned'
  <2>1. CASE t = "main"
    BY <1>25, <1>o, <2>1 DEF DeleteReset, TypeOK, Places, Deleting, Label, MainLabel, RecvLabel, Player, ThreadState
  <2>2. CASE t = "recv"
    BY <1>25, <1>o, <2>2 DEF DeleteReset, TypeOK, Places, Deleting, Label, MainLabel, RecvLabel, Player, ThreadState
  <2> QED
    BY <2>1, <2>2
<1>26. ASSUME NEW t \in Thread, DeleteDetach(t), Next PROVE Owned'
  <2>1. CASE t = "main"
    BY <1>26, <1>o, <2>1 DEF DeleteDetach, DetachThen, Go, TypeOK, Places, Deleting, Label, MainLabel, RecvLabel, Player,
       ThreadState
  <2>2. CASE t = "recv"
    BY <1>26, <1>o, <2>2 DEF DeleteDetach, DetachThen, Go, TypeOK, Places, Deleting, Label, MainLabel, RecvLabel, Player,
       ThreadState
  <2> QED
    BY <2>1, <2>2
<1>27. ASSUME NEW t \in Thread, DeleteFree(t), Next PROVE Owned'
  <2> HIDE DEF Owned
  <2>1. /\ th'[t].pc = th[t].then /\ th'[t].then = "idle" /\ th'[t].back = "idle" /\ th[t].pc = "free"
        /\ th[t].then \in {"idle", "attach"}
        /\ \A u \in Thread \ {t} : th'[u] = th[u]
    BY <1>27 DEF DeleteFree, Return, TypeOK, Places, Deleting, Label, MainLabel, RecvLabel, Player,
         ThreadState
  <2>2. /\ live' = live \ {th[t].arg} /\ hbbtvVideoPlayer' = None /\ mutex' = None
        /\ device' = IF device = th[t].arg THEN None ELSE device
        /\ UNCHANGED <<control, isHbbtvPlayerActivated>>
    BY <1>27 DEF DeleteFree, Return, TypeOK, Places, Deleting, Label, MainLabel, RecvLabel, Player,
         ThreadState
  <2>3. hbbtvVideoPlayer \in Players \cup {None} /\ th[t].player \in Players \cup {None, Other}
    BY DEF TypeOK, ThreadState, Player
  <2>4. CASE t = "main"
    BY <1>o, <1>27, <2>1, <2>2, <2>3, <2>4 DEF Owned
  <2>5. CASE t = "recv"
    BY <1>o, <1>27, <2>1, <2>2, <2>3, <2>5 DEF Owned
  <2> QED
    BY <2>4, <2>5
<1>28. ASSUME NEW t \in Thread, DeleteNothing(t), Next PROVE Owned'
  <2> HIDE DEF Owned
  <2>1. /\ th'[t].pc = th[t].then /\ th'[t].then = "idle" /\ th'[t].back = "idle" /\ th[t].pc = "delete"
        /\ th[t].then \in {"idle", "attach"} /\ (th[t].arg \notin Players \/ hbbtvVideoPlayer = None)
        /\ \A u \in Thread \ {t} : th'[u] = th[u]
    BY <1>28 DEF DeleteNothing, Return, TypeOK, Places, Deleting, Label, MainLabel, RecvLabel, Player,
         ThreadState
  <2>2. /\ mutex' = None /\ device' = IF device = Other /\ th[t].arg = Other THEN None ELSE device
        /\ UNCHANGED <<hbbtvVideoPlayer, live, control, isHbbtvPlayerActivated>>
    BY <1>28 DEF DeleteNothing, Return, TypeOK, Places, Deleting, Label, MainLabel, RecvLabel, Player,
         ThreadState
  <2>3. hbbtvVideoPlayer \in Players \cup {None} /\ th[t].player \in Players \cup {None, Other}
    BY DEF TypeOK, ThreadState, Player
  <2>4. CASE t = "main"
    BY <1>o, <1>28, <2>1, <2>2, <2>3, <2>4 DEF Owned
  <2>5. CASE t = "recv"
    BY <1>o, <1>28, <2>1, <2>2, <2>3, <2>5 DEF Owned
  <2> QED
    BY <2>4, <2>5
<1>u. CASE UNCHANGED vars
  BY <1>u DEF vars
<1> QED
  BY <1>1, <1>2, <1>3, <1>4, <1>5, <1>6, <1>7, <1>8, <1>9, <1>10, <1>11, <1>12, <1>13, <1>14,
     <1>15, <1>16, <1>17, <1>18, <1>19, <1>20, <1>21, <1>22, <1>23, <1>24, <1>25, <1>26, <1>27,
     <1>28, <1>u
  DEF Next, Steps, HookSteps, Tells, Attaches, Deletes, MainBegins, RecvBegins, RecvGoesOn

-----------------------------------------------------------------------------
\* A player that is being deleted is not deleted yet, and by nobody else: who
\* deletes has VDR's lock, and the global is cleared before it is given back.
LEMMA DeletionStep ==
    ASSUME TypeOK, Places, Deletion, [Next]_vars
    PROVE  Deletion'
<1> USE DEF Deletion, Deleting, At, Thread, None, Other, objects, output, geometry, orders
<1>1. ASSUME HookTake, Next PROVE Deletion'
  BY <1>1, PlayersAssumption
     DEF HookTake, Go, TypeOK, Places, SizePc, DetachPc, MainLabel, RecvLabel, Label, ThreadState,
         Player
<1>2. ASSUME HookTest, Next PROVE Deletion'
  BY <1>2, PlayersAssumption
     DEF HookTest, Go, TypeOK, Places, SizePc, DetachPc, MainLabel, RecvLabel, Label, ThreadState,
         Player
<1>3. ASSUME NEW p \in Players, HookNew(p), Next PROVE Deletion'
  BY <1>3, PlayersAssumption
     DEF HookNew, TypeOK, Places, SizePc, DetachPc, MainLabel, RecvLabel, Label, ThreadState,
         Player
<1>4. ASSUME HookLaunch, Next PROVE Deletion'
  <2>1. \A u \in Thread : ~At(u, "delete") /\ ~Deleting(u)
    BY <1>4 DEF HookLaunch, TakeControl
  <2>2. /\ th'["main"].pc = "delete" /\ mutex' = "main"
        /\ \A u \in Thread \ {"main"} : th'[u] = th[u]
    BY <1>4 DEF HookLaunch, TakeControl, TypeOK, ThreadState
  <2>3. UNCHANGED <<hbbtvVideoPlayer, live>>
    BY <1>4 DEF HookLaunch
  <2> QED
    BY <2>1, <2>2, <2>3
<1>5. ASSUME ControlEnds, Next PROVE Deletion'
  <2>1. \A u \in Thread : ~At(u, "delete") /\ ~Deleting(u)
    BY <1>5 DEF ControlEnds, TakeControl
  <2>2. /\ th'["main"].pc = "delete" /\ mutex' = "main"
        /\ \A u \in Thread \ {"main"} : th'[u] = th[u]
    BY <1>5 DEF ControlEnds, TakeControl, TypeOK, ThreadState
  <2>3. UNCHANGED <<hbbtvVideoPlayer, live>>
    BY <1>5 DEF ControlEnds
  <2> QED
    BY <2>1, <2>2, <2>3
<1>6. ASSUME StopReplay, Next PROVE Deletion'
  BY <1>6, PlayersAssumption
     DEF StopReplay, DetachThen, Go, TypeOK, Places, SizePc, DetachPc, MainLabel, RecvLabel, Label,
         ThreadState, Player
<1>7. ASSUME OtherReplay, Next PROVE Deletion'
  <2>1. \A u \in Thread : ~At(u, "delete") /\ ~Deleting(u)
    BY <1>7 DEF OtherReplay, TakeControl
  <2>2. /\ th'["main"].pc = "delete" /\ mutex' = "main"
        /\ \A u \in Thread \ {"main"} : th'[u] = th[u]
    BY <1>7 DEF OtherReplay, TakeControl, TypeOK, ThreadState
  <2>3. UNCHANGED <<hbbtvVideoPlayer, live>>
    BY <1>7 DEF OtherReplay
  <2> QED
    BY <2>1, <2>2, <2>3
<1>8. ASSUME PageHidden, Next PROVE Deletion'
  BY <1>8, PlayersAssumption
     DEF PageHidden, Call, TypeOK, Places, SizePc, DetachPc, MainLabel, RecvLabel, Label,
         ThreadState, Player
<1>9. ASSUME PageDeleted, Next PROVE Deletion'
  BY <1>9, PlayersAssumption
     DEF PageDeleted, TypeOK, Places, SizePc, DetachPc, MainLabel, RecvLabel, Label, ThreadState,
         Player
<1>10. ASSUME PlayVideo, Next PROVE Deletion'
  BY <1>10, PlayersAssumption
     DEF PlayVideo, TypeOK, Places, SizePc, DetachPc, MainLabel, RecvLabel, Label, ThreadState,
         Player
<1>11. ASSUME StopVideo, Next PROVE Deletion'
  BY <1>11, PlayersAssumption
     DEF StopVideo, Go, TypeOK, Places, SizePc, DetachPc, MainLabel, RecvLabel, Label, ThreadState,
         Player
<1>12. ASSUME SeekTest, Next PROVE Deletion'
  BY <1>12, PlayersAssumption
     DEF SeekTest, Go, TypeOK, Places, SizePc, DetachPc, MainLabel, RecvLabel, Label, ThreadState,
         Player
<1>13. ASSUME VideoSize, Next PROVE Deletion'
  BY <1>13, PlayersAssumption
     DEF VideoSize, Call, TypeOK, Places, SizePc, DetachPc, MainLabel, RecvLabel, Label,
         ThreadState, Player
<1>14. ASSUME StopCheck, Next PROVE Deletion'
  BY <1>14, PlayersAssumption
     DEF StopCheck, Go, TypeOK, Places, SizePc, DetachPc, MainLabel, RecvLabel, Label, ThreadState,
         Player
<1>15. ASSUME SeekDetach, Next PROVE Deletion'
  BY <1>15, PlayersAssumption
     DEF SeekDetach, DetachThen, Go, TypeOK, Places, SizePc, DetachPc, MainLabel, RecvLabel, Label,
         ThreadState, Player
<1>16. ASSUME SeekAttach, Next PROVE Deletion'
  BY <1>16, PlayersAssumption
     DEF SeekAttach, AttachThen, Go, TypeOK, Places, SizePc, DetachPc, MainLabel, RecvLabel, Label,
         ThreadState, Player
<1>17. ASSUME NEW t \in Thread, Reset(t), Next PROVE Deletion'
  BY <1>17, PlayersAssumption
     DEF Reset, Go, TypeOK, Places, SizePc, DetachPc, MainLabel, RecvLabel, Label, ThreadState,
         Player
<1>18. ASSUME NEW t \in Thread, Rescale(t), Next PROVE Deletion'
  BY <1>18, PlayersAssumption
     DEF Rescale, TypeOK, Places, SizePc, DetachPc, MainLabel, RecvLabel, Label, ThreadState,
         Player
<1>19. ASSUME NEW t \in Thread, SizeRead(t), Next PROVE Deletion'
  BY <1>19, PlayersAssumption
     DEF SizeRead, TypeOK, Places, SizePc, DetachPc, MainLabel, RecvLabel, Label, ThreadState,
         Player
<1>20. ASSUME NEW t \in Thread, SizeApply(t), Next PROVE Deletion'
  BY <1>20, PlayersAssumption
     DEF SizeApply, Return, TypeOK, Places, SizePc, DetachPc, MainLabel, RecvLabel, Label,
         ThreadState, Player
<1>21. ASSUME NEW t \in Thread, ControlAttach(t), Next PROVE Deletion'
  <2>1. CASE control \notin {None, device}
    <3>1. \A u \in Thread : ~At(u, "delete") /\ ~Deleting(u)
      BY <1>21 DEF ControlAttach
    <3>2. /\ th'[t].pc = "put" \/ (th'[t].pc = "reset" /\ th'[t].back = "put")
          /\ \A u \in Thread \ {t} : th'[u] = th[u]
      BY <1>21, <2>1 DEF ControlAttach, AttachThen, TypeOK, ThreadState
    <3> QED
      BY <1>21, <3>1, <3>2 DEF ControlAttach
  <2>2. CASE control \in {None, device}
    BY <1>21, <2>2 DEF ControlAttach, Go, TypeOK, ThreadState
  <2> QED
    BY <2>1, <2>2
<1>22. ASSUME NEW t \in Thread, Put(t), Next PROVE Deletion'
  BY <1>22, PlayersAssumption
     DEF Put, Go, TypeOK, Places, SizePc, DetachPc, MainLabel, RecvLabel, Label, ThreadState,
         Player
<1>23. ASSUME NEW t \in Thread, Activate(t), Next PROVE Deletion'
  BY <1>23, PlayersAssumption
     DEF Activate, Idle, TypeOK, Places, SizePc, DetachPc, MainLabel, RecvLabel, Label,
         ThreadState, Player
<1>24. ASSUME NEW t \in Thread, Shutdown(t), Next PROVE Deletion'
  <2>1. \A u \in Thread : ~At(u, "delete") /\ ~Deleting(u)
    BY <1>24 DEF Shutdown, TakeControl
  <2>2. /\ th'[t].pc = "delete" /\ mutex' = t
        /\ \A u \in Thread \ {t} : th'[u] = th[u]
    BY <1>24 DEF Shutdown, TakeControl, TypeOK, ThreadState
  <2>3. UNCHANGED <<hbbtvVideoPlayer, live>>
    BY <1>24 DEF Shutdown
  <2> QED
    BY <2>1, <2>2, <2>3
<1>25. ASSUME NEW t \in Thread, DeleteReset(t), Next PROVE Deletion'
  BY <1>25, PlayersAssumption
     DEF DeleteReset, TypeOK, Places, SizePc, DetachPc, MainLabel, RecvLabel, Label, ThreadState,
         Player
<1>26. ASSUME NEW t \in Thread, DeleteDetach(t), Next PROVE Deletion'
  BY <1>26, PlayersAssumption
     DEF DeleteDetach, DetachThen, Go, TypeOK, Places, SizePc, DetachPc, MainLabel, RecvLabel,
         Label, ThreadState, Player
<1>27. ASSUME NEW t \in Thread, DeleteFree(t), Next PROVE Deletion'
  BY <1>27, PlayersAssumption
     DEF DeleteFree, Return, TypeOK, Places, SizePc, DetachPc, MainLabel, RecvLabel, Label,
         ThreadState, Player
<1>28. ASSUME NEW t \in Thread, DeleteNothing(t), Next PROVE Deletion'
  BY <1>28, PlayersAssumption
     DEF DeleteNothing, Return, TypeOK, Places, SizePc, DetachPc, MainLabel, RecvLabel, Label,
         ThreadState, Player
<1>u. CASE UNCHANGED vars
  BY <1>u DEF vars
<1> QED
  BY <1>1, <1>2, <1>3, <1>4, <1>5, <1>6, <1>7, <1>8, <1>9, <1>10, <1>11, <1>12, <1>13, <1>14,
     <1>15, <1>16, <1>17, <1>18, <1>19, <1>20, <1>21, <1>22, <1>23, <1>24, <1>25, <1>26, <1>27,
     <1>28, <1>u
  DEF Next, Steps, HookSteps, Tells, Attaches, Deletes, MainBegins, RecvBegins, RecvGoesOn

-----------------------------------------------------------------------------
\* A size that was read and not changed since is the one the device is told.
LEMMA GeometryStep ==
    ASSUME TypeOK, Places, Geometry, [Next]_vars
    PROVE  Geometry'
<1> USE DEF Geometry, GeometryAgrees, Holds, SizePc, Thread, At, objects, output, geometry, orders
<1>o. Next => /\ \A t \in Thread \ crossed' : (Holds(t) /\ Holds(t)') => t \notin crossed /\ video' = video
              /\ (\A t \in Thread : Holds(t) => Holds(t)') => stale' = stale
              /\ \A t \in Thread : (Holds(t) /\ ~Holds(t)' /\ ~stale') => t \notin crossed
  BY DEF Next, Overlaps
<1>1. ASSUME HookTake, Next PROVE Geometry'
  BY <1>1, <1>o
     DEF HookTake, Go, TypeOK, Places, DetachPc, Deleting, MainLabel, RecvLabel, Label,
         ThreadState
<1>2. ASSUME HookTest, Next PROVE Geometry'
  BY <1>2, <1>o
     DEF HookTest, Go, TypeOK, Places, DetachPc, Deleting, MainLabel, RecvLabel, Label,
         ThreadState
<1>3. ASSUME NEW p \in Players, HookNew(p), Next PROVE Geometry'
  BY <1>3, <1>o
     DEF HookNew, TypeOK, Places, DetachPc, Deleting, MainLabel, RecvLabel, Label, ThreadState
<1>4. ASSUME HookLaunch, Next PROVE Geometry'
  BY <1>4, <1>o
     DEF HookLaunch, TakeControl, TypeOK, Places, DetachPc, Deleting, MainLabel, RecvLabel, Label,
         ThreadState
<1>5. ASSUME ControlEnds, Next PROVE Geometry'
  BY <1>5, <1>o
     DEF ControlEnds, TakeControl, TypeOK, Places, DetachPc, Deleting, MainLabel, RecvLabel, Label,
         ThreadState
<1>6. ASSUME StopReplay, Next PROVE Geometry'
  BY <1>6, <1>o
     DEF StopReplay, DetachThen, Go, TypeOK, Places, DetachPc, Deleting, MainLabel, RecvLabel,
         Label, ThreadState
<1>7. ASSUME OtherReplay, Next PROVE Geometry'
  BY <1>7, <1>o
     DEF OtherReplay, TakeControl, TypeOK, Places, DetachPc, Deleting, MainLabel, RecvLabel, Label,
         ThreadState
<1>8. ASSUME PageHidden, Next PROVE Geometry'
  BY <1>8, <1>o
     DEF PageHidden, Call, TypeOK, Places, DetachPc, Deleting, MainLabel, RecvLabel, Label,
         ThreadState
<1>9. ASSUME PageDeleted, Next PROVE Geometry'
  BY <1>9, <1>o
     DEF PageDeleted, TypeOK, Places, DetachPc, Deleting, MainLabel, RecvLabel, Label, ThreadState
<1>10. ASSUME PlayVideo, Next PROVE Geometry'
  BY <1>10, <1>o
     DEF PlayVideo, TypeOK, Places, DetachPc, Deleting, MainLabel, RecvLabel, Label, ThreadState
<1>11. ASSUME StopVideo, Next PROVE Geometry'
  BY <1>11, <1>o
     DEF StopVideo, Go, TypeOK, Places, DetachPc, Deleting, MainLabel, RecvLabel, Label,
         ThreadState
<1>12. ASSUME SeekTest, Next PROVE Geometry'
  BY <1>12, <1>o
     DEF SeekTest, Go, TypeOK, Places, DetachPc, Deleting, MainLabel, RecvLabel, Label,
         ThreadState
<1>13. ASSUME VideoSize, Next PROVE Geometry'
  BY <1>13, <1>o
     DEF VideoSize, Call, TypeOK, Places, DetachPc, Deleting, MainLabel, RecvLabel, Label,
         ThreadState
<1>14. ASSUME StopCheck, Next PROVE Geometry'
  BY <1>14, <1>o
     DEF StopCheck, Go, TypeOK, Places, DetachPc, Deleting, MainLabel, RecvLabel, Label,
         ThreadState
<1>15. ASSUME SeekDetach, Next PROVE Geometry'
  BY <1>15, <1>o
     DEF SeekDetach, DetachThen, Go, TypeOK, Places, DetachPc, Deleting, MainLabel, RecvLabel,
         Label, ThreadState
<1>16. ASSUME SeekAttach, Next PROVE Geometry'
  BY <1>16, <1>o
     DEF SeekAttach, AttachThen, Go, TypeOK, Places, DetachPc, Deleting, MainLabel, RecvLabel,
         Label, ThreadState
<1>17. ASSUME NEW t \in Thread, Reset(t), Next PROVE Geometry'
  BY <1>17, <1>o
     DEF Reset, Go, TypeOK, Places, DetachPc, Deleting, MainLabel, RecvLabel, Label, ThreadState
<1>18. ASSUME NEW t \in Thread, Rescale(t), Next PROVE Geometry'
  BY <1>18, <1>o
     DEF Rescale, TypeOK, Places, DetachPc, Deleting, MainLabel, RecvLabel, Label, ThreadState
<1>19. ASSUME NEW t \in Thread, SizeRead(t), Next PROVE Geometry'
  BY <1>19, <1>o
     DEF SizeRead, TypeOK, Places, DetachPc, Deleting, MainLabel, RecvLabel, Label, ThreadState
<1>20. ASSUME NEW t \in Thread, SizeApply(t), Next PROVE Geometry'
  BY <1>20, <1>o
     DEF SizeApply, Return, TypeOK, Places, DetachPc, Deleting, MainLabel, RecvLabel, Label,
         ThreadState
<1>21. ASSUME NEW t \in Thread, ControlAttach(t), Next PROVE Geometry'
  BY <1>21, <1>o
     DEF ControlAttach, AttachThen, Go, TypeOK, Places, DetachPc, Deleting, MainLabel, RecvLabel,
         Label, ThreadState
<1>22. ASSUME NEW t \in Thread, Put(t), Next PROVE Geometry'
  BY <1>22, <1>o
     DEF Put, Go, TypeOK, Places, DetachPc, Deleting, MainLabel, RecvLabel, Label, ThreadState
<1>23. ASSUME NEW t \in Thread, Activate(t), Next PROVE Geometry'
  BY <1>23, <1>o
     DEF Activate, Idle, TypeOK, Places, DetachPc, Deleting, MainLabel, RecvLabel, Label,
         ThreadState
<1>24. ASSUME NEW t \in Thread, Shutdown(t), Next PROVE Geometry'
  BY <1>24, <1>o
     DEF Shutdown, TakeControl, TypeOK, Places, DetachPc, Deleting, MainLabel, RecvLabel, Label,
         ThreadState
<1>25. ASSUME NEW t \in Thread, DeleteReset(t), Next PROVE Geometry'
  BY <1>25, <1>o
     DEF DeleteReset, TypeOK, Places, DetachPc, Deleting, MainLabel, RecvLabel, Label, ThreadState
<1>26. ASSUME NEW t \in Thread, DeleteDetach(t), Next PROVE Geometry'
  BY <1>26, <1>o
     DEF DeleteDetach, DetachThen, Go, TypeOK, Places, DetachPc, Deleting, MainLabel, RecvLabel,
         Label, ThreadState
<1>27. ASSUME NEW t \in Thread, DeleteFree(t), Next PROVE Geometry'
  BY <1>27, <1>o
     DEF DeleteFree, Return, TypeOK, Places, DetachPc, Deleting, MainLabel, RecvLabel, Label,
         ThreadState
<1>28. ASSUME NEW t \in Thread, DeleteNothing(t), Next PROVE Geometry'
  BY <1>28, <1>o
     DEF DeleteNothing, Return, TypeOK, Places, DetachPc, Deleting, MainLabel, RecvLabel, Label,
         ThreadState
<1>u. CASE UNCHANGED vars
  BY <1>u DEF vars
<1> QED
  BY <1>1, <1>2, <1>3, <1>4, <1>5, <1>6, <1>7, <1>8, <1>9, <1>10, <1>11, <1>12, <1>13, <1>14,
     <1>15, <1>16, <1>17, <1>18, <1>19, <1>20, <1>21, <1>22, <1>23, <1>24, <1>25, <1>26, <1>27,
     <1>28, <1>u
  DEF Next, Steps, HookSteps, Tells, Attaches, Deletes, MainBegins, RecvBegins, RecvGoesOn

-----------------------------------------------------------------------------
IInv == TypeOK /\ Places /\ Owned /\ Deletion /\ Geometry

THEOREM Invariant == Spec => []IInv
<1>1. Init => IInv
  <2>1. Init => Geometry /\ Deletion
    BY DEF Init, Geometry, GeometryAgrees, Deletion, Deleting, SizePc, Idle, Thread, At
  <2> QED
    BY <2>1, PlacesInit, OwnedInit DEF IInv
<1>2. IInv /\ [Next]_vars => IInv'
  BY PlacesStep, TypeStep, OwnedStep, DeletionStep, GeometryStep DEF IInv
<1> QED
  BY <1>1, <1>2, PTL DEF Spec

\* Every variable keeps its type: for any number of players hbbtvVideoPlayer,
\* the control and the device name players there are (hbbtvvideocontrol.c:19-49).
THEOREM TypeCorrect == Spec => []TypeOK
  BY Invariant, PTL DEF IInv

\* As long as the threads' work on players does not overlap, the control, the
\* device and hbbtvVideoPlayer agree on the one player there is, although a
\* control deletes the player of the global (hbbtvvideocontrol.c:369-374).
THEOREM ControlsOwnTheirPlayer == Spec => []ControlOwnsPlayer
<1>1. IInv => ControlOwnsPlayer
  BY PlayersAssumption DEF IInv, TypeOK, Places, Owned, OnePlaces, AtNew, AtLaunch, AtMade, AtDelete, AtEnd,
     AtAttach, AtPut, AtActivate, AtShutdown, AtDetach, AtStop, AtSeek, Towards, DetachPc, MakesControl,
     PlayerWork, SizePc, Rest, Nobody, Playing, Detached, Thread, At, Deleting, Label, MainLabel, RecvLabel,
     ControlOwnsPlayer, Player, ThreadState
<1> QED
  BY <1>1, Invariant, PTL

\* However the two threads' deletions, the hook and SEEK interleave, no player
\* is deleted twice or through a dangling global (hbbtvvideocontrol.c:31-49 and
\* 369-374).
THEOREM PlayersDeletedOnce == Spec => []DeletedOnce
<1>1. IInv => DeletedOnce
  BY DEF IInv, Deletion, DeletedOnce
<1> QED
  BY <1>1, Invariant, PTL

\* In every interleaving of SetVideoSize, Activate(false) and the destructors
\* the device shows the size of the variables once all are through, unless a
\* destructor reset the variables alone or the size told last was changed by
\* the other thread before it was told (globals.c:104-124,
\* hbbtvvideocontrol.c:60-66).
THEOREM GeometriesAgree == Spec => []GeometryAgrees
<1>1. IInv => GeometryAgrees
  BY DEF IInv, Geometry
<1> QED
  BY <1>1, Invariant, PTL

=============================================================================
