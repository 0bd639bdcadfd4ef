--------------------------- MODULE PlayerControl ---------------------------
(***************************************************************************)
(* Players and controls: how a video of the browser takes VDR's output.    *)
(*                                                                         *)
(* The receiver thread gets PLAY_VIDEO, STOP_VIDEO, SEEK_VIDEO,            *)
(* RESUME_VIDEO and VIDEO_SIZE from the browser.  PLAY only raises a flag, *)
(* on which MainThreadHook makes a player and a control; STOP deletes both *)
(* on the receiver thread, and so do keys and channel switches on the main *)
(* thread.  SEEK and RESUME detach the player from the device and attach   *)
(* it again.  A control deletes not its own player but the one the global  *)
(* hbbtvVideoPlayer names.  VDR's control and its lock, and the device,    *)
(* are external: Launch, Shutdown and Attach are done under VDR's lock.    *)
(*                                                                         *)
(* Abstracted: the player's own thread (module VideoReader), coordinates   *)
(* (the video is full or scaled), and devices that cannot replay.  A call  *)
(* on a deleted player has no effect here; clash says it can happen.       *)
(***************************************************************************)
EXTENDS Naturals

CONSTANT Players      \* the players there can be

None  == "none"
Other == "other"      \* a control, and its player, of VDR or another plugin

ASSUME PlayersAssumption == {None, Other} \cap Players = {}

Thread == {"main", "recv"}

VARIABLES
    hbbtvVideoPlayer, \* the global
    live,             \* the players that are not deleted
    control,          \* VDR's control: None, Other, or that of a player
    mutex,            \* the holder of VDR's control lock
    device,           \* the player attached to the primary device
    isHbbtvPlayerActivated,
    showPlayer,
    video,            \* video_x .. video_height: "full" or "scaled"
    scale,            \* what the device was last told
    th,               \* th[t]: thread t's next step; the size it has read, or
                      \* the control or player it deletes; the player it makes
                      \* or attaches; where it returns to from a call, and
                      \* from Detach
    wanted,           \* history: the browser's last order was PLAY
    quiet,            \* history: a destructor reset the size without telling
    clash,            \* history: both threads were at work on players at once
    crossed,          \* history: the threads about to tell the device a size
                      \* that the other thread has changed meanwhile
    stale             \* history: such a size is what the device was told last

objects  == <<hbbtvVideoPlayer, live, control, mutex>>
output   == <<device, isHbbtvPlayerActivated>>
geometry == <<video, scale, quiet>>
orders   == <<showPlayer, wanted>>
vars     == <<objects, output, geometry, orders, th, clash, crossed, stale>>

Idle == [pc |-> "idle", arg |-> None, player |-> None, then |-> "idle", back |-> "idle"]
At(t, l) == th[t].pc = l
Go(t, l) == th' = [th EXCEPT ![t].pc = l]
Call(t, l, r) == th' = [th EXCEPT ![t].pc = l, ![t].then = r]
Return(t) == th' = [th EXCEPT ![t].pc = th[t].then, ![t].then = "idle", ![t].arg = None]

Init ==
    /\ hbbtvVideoPlayer = None /\ live = {}
    /\ control \in {None, Other} /\ device = control
    /\ mutex = None
    /\ isHbbtvPlayerActivated = FALSE /\ showPlayer = FALSE
    /\ video = "full" /\ scale = "full"
    /\ th = [t \in Thread |-> Idle]
    /\ wanted = FALSE /\ quiet = FALSE
    /\ clash = FALSE /\ crossed = {} /\ stale = FALSE

-----------------------------------------------------------------------------
(* The dangerous overlaps.                                                 *)

SizePc == {"size_read", "size_apply"}

\* Thread t makes, moves or deletes a player.
PlayerWork(t) ==
    /\ th[t].pc \notin {"idle", "test"}
    /\ th[t].pc \in SizePc => th[t].then = "launch"

\* Thread t is about to tell the device a size that it has read or set.
Holds(t) == th[t].pc \in {"size_apply", "rescale"}

Overlaps ==
    LET told == {t \in Thread : Holds(t) /\ ~Holds(t)'} IN
    /\ clash' = (clash \/ \A t \in Thread : PlayerWork(t)')
    /\ crossed' = {t \in Thread : Holds(t) /\ Holds(t)' /\ (t \in crossed \/ video' # video)}
    /\ stale' = IF told = {} THEN stale ELSE told \cap crossed # {}

-----------------------------------------------------------------------------
(* cDevice::Detach and AttachPlayer, with HbbtvVideoPlayer::Activate.      *)

\* The device lets go of p; of ours it calls Activate(false).
DetachThen(t, p, l) ==
    IF device = p /\ p \in Players
      THEN /\ device' = None
           /\ th' = [th EXCEPT ![t].pc = "reset", ![t].back = l]
      ELSE /\ device' = IF device = p THEN None ELSE device
           /\ Go(t, l)

\* The device detaches the player it has first.
AttachThen(t, p) ==
    IF device \in Players
      THEN /\ device' = None
           /\ th' = [th EXCEPT ![t].pc = "reset", ![t].back = "put", ![t].player = p]
      ELSE /\ UNCHANGED device
           /\ th' = [th EXCEPT ![t].pc = "put", ![t].player = p]

\* Slip: the flag is not reset.
ResetActive(t) ==
    /\ At(t, "reset")
    /\ video' = "full"
    /\ Go(t, "rescale")
    /\ UNCHANGED <<objects, output, scale, quiet, orders>>

Reset(t) ==
    /\ At(t, "reset")
    /\ isHbbtvPlayerActivated' = FALSE
    /\ video' = "full"
    /\ Go(t, "rescale")
    /\ UNCHANGED <<objects, device, scale, quiet, orders>>

\* Slip: the device is not told.
RescaleUntold(t) ==
    /\ At(t, "rescale")
    /\ th' = [th EXCEPT ![t].pc = th[t].back, ![t].back = "idle"]
    /\ UNCHANGED <<objects, output, geometry, orders>>

\* ScaleVideo is told the full size, whatever the variables say by now.
Rescale(t) ==
    /\ At(t, "rescale")
    /\ scale' = "full" /\ quiet' = FALSE
    /\ th' = [th EXCEPT ![t].pc = th[t].back, ![t].back = "idle"]
    /\ UNCHANGED <<objects, output, video, orders>>

Put(t) ==
    /\ At(t, "put")
    /\ device' = th[t].player
    /\ Go(t, "activate")
    /\ UNCHANGED <<objects, isHbbtvPlayerActivated, geometry, orders>>

\* Activate(true), of ours; then the lock is released, if it was taken.
Activate(t) ==
    /\ At(t, "activate")
    /\ isHbbtvPlayerActivated' = (th[t].player \in Players \/ isHbbtvPlayerActivated)
    /\ mutex' = IF mutex = t THEN None ELSE mutex
    /\ th' = [th EXCEPT ![t] = Idle]
    /\ UNCHANGED <<hbbtvVideoPlayer, live, control, device, geometry, orders>>

-----------------------------------------------------------------------------
(* SetVideoSize reads the size and tells the device.                       *)

SizeRead(t) ==
    /\ At(t, "size_read")
    /\ th' = [th EXCEPT ![t].arg = video, ![t].pc = "size_apply"]
    /\ UNCHANGED <<objects, output, geometry, orders>>

SizeApply(t) ==
    /\ At(t, "size_apply")
    /\ scale' = th[t].arg
    /\ quiet' = FALSE
    /\ Return(t)
    /\ UNCHANGED <<objects, output, video, orders>>

-----------------------------------------------------------------------------
(* A control is taken from VDR, under VDR's lock, and deleted; its         *)
(* destructor deletes the global's player.                                 *)

TakeControl(t, new, then) ==
    /\ mutex = None
    /\ mutex' = t
    /\ control' = new
    /\ th' = [th EXCEPT ![t].pc = "delete", ![t].arg = control, ![t].then = then, ![t].player = None]

\* cControl::Shutdown, of StopReplay or HidePlayer; the latter goes on to Attach.
Shutdown(t) ==
    /\ At(t, "shutdown")
    /\ TakeControl(t, None, IF t = "recv" THEN "attach" ELSE "idle")
    /\ UNCHANGED <<hbbtvVideoPlayer, live, output, geometry, orders>>

\* ~HbbtvVideoControl, and ~HbbtvVideoPlayer before its Detach.
DeleteReset(t) ==
    /\ At(t, "delete")
    /\ th[t].arg \in Players /\ hbbtvVideoPlayer # None
    /\ video' = "full" /\ quiet' = TRUE
    /\ th' = [th EXCEPT ![t].arg = hbbtvVideoPlayer, ![t].pc = "delete_detach"]
    /\ UNCHANGED <<objects, output, scale, orders>>

DeleteDetach(t) ==
    /\ At(t, "delete_detach")
    /\ DetachThen(t, th[t].arg, "free")
    /\ UNCHANGED <<objects, isHbbtvPlayerActivated, geometry, orders>>

\* Slip: the global keeps naming the deleted player.
DeleteFreeDangling(t) ==
    /\ At(t, "free")
    /\ live' = live \ {th[t].arg}
    /\ mutex' = None
    /\ device' = IF device = th[t].arg THEN None ELSE device
    /\ Return(t)
    /\ UNCHANGED <<hbbtvVideoPlayer, control, isHbbtvPlayerActivated, geometry, orders>>

\* The rest of it: the thread is cancelled and the player is gone; cPlayer's
\* destructor detaches once more, without HbbtvVideoPlayer's Activate.
DeleteFree(t) ==
    /\ At(t, "free")
    /\ live' = live \ {th[t].arg}
    /\ hbbtvVideoPlayer' = None
    /\ mutex' = None
    /\ device' = IF device = th[t].arg THEN None ELSE device
    /\ Return(t)
    /\ UNCHANGED <<control, isHbbtvPlayerActivated, geometry, orders>>

\* Nothing of ours to delete; another control takes its player off the device.
DeleteNothing(t) ==
    /\ At(t, "delete")
    /\ th[t].arg \notin Players \/ hbbtvVideoPlayer = None
    /\ device' = IF device = Other /\ th[t].arg = Other THEN None ELSE device
    /\ mutex' = None
    /\ Return(t)
    /\ UNCHANGED <<hbbtvVideoPlayer, live, control, isHbbtvPlayerActivated, geometry, orders>>

\* cControl::Attach, whoever's control it is by then, under VDR's lock.
ControlAttach(t) ==
    /\ At(t, "attach")
    /\ mutex = None
    /\ IF control \notin {None, device}
         THEN mutex' = t /\ AttachThen(t, control)
         ELSE UNCHANGED <<mutex, device>> /\ Go(t, "idle")
    /\ UNCHANGED <<hbbtvVideoPlayer, live, control, isHbbtvPlayerActivated, geometry, orders>>

-----------------------------------------------------------------------------
(* The main thread: MainThreadHook                                         *)

HookTake ==
    /\ At("main", "idle") /\ showPlayer
    /\ showPlayer' = FALSE
    /\ Go("main", "test")
    /\ UNCHANGED <<objects, output, geometry, wanted>>

\* Slip: a second player is made beside the one that plays.
HookTestAlways ==
    /\ At("main", "test")
    /\ Go("main", "new")
    /\ UNCHANGED <<objects, output, geometry, orders>>

HookTest ==
    /\ At("main", "test")
    /\ Go("main", IF isHbbtvPlayerActivated THEN "idle" ELSE "new")
    /\ UNCHANGED <<objects, output, geometry, orders>>

HookNew(p) ==
    /\ At("main", "new")
    /\ p \notin live
    /\ live' = live \cup {p}
    /\ hbbtvVideoPlayer' = p
    /\ th' = [th EXCEPT !["main"].player = p, !["main"].pc = "size_read", !["main"].then = "launch"]
    /\ UNCHANGED <<control, mutex, output, geometry, orders>>

\* The control belongs to the player just made.
HookLaunch ==
    /\ At("main", "launch")
    /\ TakeControl("main", th["main"].player, "attach")
    /\ UNCHANGED <<hbbtvVideoPlayer, live, output, geometry, orders>>

-----------------------------------------------------------------------------
(* The main thread: what else ends a control or changes the video's size.  *)

\* kBack in the control, or the end of another replay.
ControlEnds ==
    /\ At("main", "idle") /\ control # None
    /\ TakeControl("main", None, "idle")
    /\ UNCHANGED <<hbbtvVideoPlayer, live, output, geometry, orders>>

\* cDevice::StopReplay, at a channel switch: it detaches the player first.
StopReplay ==
    /\ At("main", "idle") /\ device # None
    /\ DetachThen("main", device, "shutdown")
    /\ UNCHANGED <<objects, isHbbtvPlayerActivated, geometry, orders>>

\* Another replay is launched and attached.
OtherReplay ==
    /\ At("main", "idle") /\ control # Other
    /\ TakeControl("main", Other, "attach")
    /\ UNCHANGED <<hbbtvVideoPlayer, live, output, geometry, orders>>

\* CefHbbtvPage::hideBrowser.
PageHidden ==
    /\ At("main", "idle")
    /\ video' = "full"
    /\ Call("main", "size_read", "idle")
    /\ UNCHANGED <<objects, output, scale, quiet, orders>>

\* The end of the page's destructor, after hideBrowser or without it.
PageDeleted ==
    /\ At("main", "idle")
    /\ video' = "full" /\ quiet' = TRUE
    /\ UNCHANGED <<objects, output, scale, orders, th>>

-----------------------------------------------------------------------------
(* The receiver                                                            *)

\* ShowPlayer.
PlayVideo ==
    /\ At("recv", "idle")
    /\ showPlayer' = TRUE /\ wanted' = TRUE
    /\ UNCHANGED <<objects, output, geometry, th>>

\* HidePlayer, on STOP_VIDEO and VIDEO_FAILED.
StopVideo ==
    /\ At("recv", "idle")
    /\ showPlayer' = FALSE /\ wanted' = FALSE
    /\ Go("recv", "stop_check")
    /\ UNCHANGED <<objects, output, geometry>>

\* The lock guard holds controlMutex, which nobody else takes; Control does
\* not get VDR's lock into it.
StopCheck ==
    /\ At("recv", "stop_check")
    /\ Go("recv", IF control \in Players THEN "shutdown" ELSE "idle")
    /\ UNCHANGED <<objects, output, geometry, orders>>

\* SEEK_VIDEO and RESUME_VIDEO; each call reads the global again.
SeekTest ==
    /\ At("recv", "idle") /\ hbbtvVideoPlayer # None
    /\ Go("recv", "detach")
    /\ UNCHANGED <<objects, output, geometry, orders>>

SeekDetach ==
    /\ At("recv", "detach")
    /\ IF hbbtvVideoPlayer = None
         THEN Go("recv", "seek_attach") /\ UNCHANGED device
         ELSE DetachThen("recv", hbbtvVideoPlayer, "seek_attach")
    /\ UNCHANGED <<objects, isHbbtvPlayerActivated, geometry, orders>>

SeekAttach ==
    /\ At("recv", "seek_attach")
    /\ IF hbbtvVideoPlayer = None
         THEN Go("recv", "idle") /\ UNCHANGED device
         ELSE AttachThen("recv", hbbtvVideoPlayer)
    /\ UNCHANGED <<objects, isHbbtvPlayerActivated, geometry, orders>>

\* VIDEO_SIZE.
VideoSize ==
    /\ At("recv", "idle")
    /\ video' \in {"full", "scaled"}
    /\ Call("recv", "size_read", "idle")
    /\ UNCHANGED <<objects, output, scale, quiet, orders>>

-----------------------------------------------------------------------------
HookSteps  == HookTake \/ HookTest \/ HookLaunch \/ \E p \in Players : HookNew(p)
Tells(t)   == Reset(t) \/ Rescale(t) \/ SizeRead(t) \/ SizeApply(t)
Attaches(t) == ControlAttach(t) \/ Put(t) \/ Activate(t)
Deletes(t) == Shutdown(t) \/ DeleteReset(t) \/ DeleteDetach(t) \/ DeleteFree(t) \/ DeleteNothing(t)
MainBegins == ControlEnds \/ StopReplay \/ OtherReplay \/ PageHidden \/ PageDeleted
RecvBegins == PlayVideo \/ StopVideo \/ SeekTest \/ VideoSize
RecvGoesOn == StopCheck \/ SeekDetach \/ SeekAttach

Steps == HookSteps \/ MainBegins \/ RecvBegins \/ RecvGoesOn
           \/ \E t \in Thread : Tells(t) \/ Attaches(t) \/ Deletes(t)

Next == Steps /\ Overlaps

Spec == Init /\ [][Next]_vars

\* Both threads go on with what they have begun, and VDR's main loop calls
\* the hook again and again.
FairSpec ==
    /\ Spec
    /\ SF_vars(HookSteps /\ Overlaps) /\ WF_vars(RecvGoesOn /\ Overlaps)
    /\ \A t \in Thread :
          /\ WF_vars(Tells(t) /\ Overlaps)
          /\ SF_vars(Attaches(t) /\ Overlaps) /\ SF_vars(Deletes(t) /\ Overlaps)

-----------------------------------------------------------------------------
Player == Players \cup {None}
Label  == {"idle", "test", "new", "launch", "attach", "put", "activate", "reset", "rescale",
           "size_read", "size_apply", "delete", "delete_detach", "free", "shutdown",
           "stop_check", "detach", "seek_attach"}
ThreadState == [pc : Label, arg : Player \cup {Other, "full", "scaled"},
                player : Player \cup {Other},
                then : {"idle", "launch", "attach"},
                back : {"idle", "free", "put", "shutdown", "seek_attach"}]

TypeOK ==
    /\ hbbtvVideoPlayer \in Player /\ live \subseteq Players
    /\ control \in Player \cup {Other} /\ device \in Player \cup {Other}
    /\ mutex \in Thread \cup {None}
    /\ isHbbtvPlayerActivated \in BOOLEAN /\ showPlayer \in BOOLEAN
    /\ video \in {"full", "scaled"} /\ scale \in {"full", "scaled"}
    /\ th \in [Thread -> ThreadState]
    /\ wanted \in BOOLEAN /\ quiet \in BOOLEAN
    /\ clash \in BOOLEAN /\ crossed \subseteq Thread /\ stale \in BOOLEAN

\* As long as no work of the two threads on players overlaps: the player of
\* VDR's control is the one hbbtvVideoPlayer names, the only one not deleted,
\* and the device has no other; a player without a control is about to get
\* one or about to be deleted (hbbtv.c:193-202, hbbtvvideocontrol.c:31-49 and
\* 369-374: the control deletes the player of the global).
ControlOwnsPlayer ==
    ~clash =>
        /\ live = {hbbtvVideoPlayer} \ {None}
        /\ device \in Players => device = hbbtvVideoPlayer
        /\ (control \in Players /\ mutex = None) => control = hbbtvVideoPlayer
        /\ hbbtvVideoPlayer \notin {None, control} => \E t \in Thread : PlayerWork(t)

\* The places between taking the global's player to delete it and its end.
Deleting(t) ==
    \/ th[t].pc \in {"delete_detach", "free"}
    \/ th[t].pc \in {"reset", "rescale"} /\ th[t].back = "free"

\* No player is deleted twice or through a pointer that dangles, however the
\* deletions of the two threads, the hook and SEEK interleave: the global
\* names a player that is not deleted, and one thread at most is in its
\* destructor (hbbtvvideocontrol.c:31-49, 369-374; no clash is excluded).
DeletedOnce ==
    /\ hbbtvVideoPlayer \in live \cup {None}
    /\ \A t \in Thread : Deleting(t) => mutex = t /\ th[t].arg \in live

\* Once nobody is about to tell it, the device shows what the video_ variables
\* say, but for a destructor that has reset the variables alone and for a
\* size, told last, that the other thread changed between its reading or
\* setting and its telling (globals.c:104-124, hbbtvvideocontrol.c:35 and
\* 62-65, browsercommunication.c:133-139, cefhbbtvpage.c:72).
GeometryAgrees ==
    (\A t \in Thread : th[t].pc \notin SizePc \cup {"rescale"}) => scale = video \/ quiet \/ stale

\* A PLAY_VIDEO is followed by a video on the device or by a STOP, unless a
\* clash leaves isHbbtvPlayerActivated set for a player that is gone.
PlayIsShown == showPlayer ~> (device \in live \/ ~wanted \/ clash)

\* The claim that STOP_VIDEO ends the video and shows TV again (the comment at
\* hbbtv.c:278), also when it comes just after the hook took the flag.
StoppedStaysStopped ==
    (~wanted /\ ~showPlayer /\ \A t \in Thread : At(t, "idle")) => control \notin Players

=============================================================================
