------------------------------ MODULE OsdPage ------------------------------
(***************************************************************************)
(* The page: how an HbbTV application is put on VDR's OSD.                 *)
(*                                                                         *)
(* VDR's main thread makes a page (OsdDispatcher::get), shows it, gives it *)
(* a new OSD when the size of the OSD changes (MainThreadHook), and        *)
(* deletes it.  The receiver thread draws the browser's pictures on it     *)
(* (readOsdUpdate).  The two share the global hbbtvPage, the page's        *)
(* members and osdType; the page's show_mutex covers part of that.  The    *)
(* browser draws the next picture when it has been sent "OSDU".            *)
(*                                                                         *)
(* Abstracted: pixels and the shared memory; keys and URLs; VDR's list of  *)
(* pixmaps.  The page's memory keeps its contents after delete until it is *)
(* used again.  A test of hbbtvPage and the call on it read it once.       *)
(* resizeOsd is left out: TriggerOsdResize, the only one to set it, is     *)
(* never called.                                                           *)
(***************************************************************************)
EXTENDS Naturals

CONSTANTS
    Pages,         \* addresses a page can have
    Sizes,         \* the legal sizes of VDR's OSD
    MaxUpdates     \* bound: pictures on their way from the browser

None == "none"
Bad  == "bad"      \* a size GetOsdSize may return and SetOsdSize rejects
Unset == "unset"   \* disp_width before the first SetOsdSize: any value

ASSUME PagesAssumption == Pages # {} /\ None \notin Pages
ASSUME SizesAssumption == Sizes # {} /\ {Bad, Unset, None} \cap Sizes = {}
ASSUME MaxUpdatesAssumption == MaxUpdates \in Nat \ {0}

VARIABLES
    hbbtvPage,     \* the global
    obj,           \* obj[p]: the memory of a page
    main,          \* the main thread: step, page, and what follows a delete
    recv,          \* the receiver thread: step, page, and its update
    menu,          \* what VDR shows: nothing, the plugin's menu or a page
    osdType,       \* OsdDispatcher::osdType
    callPending,   \* cRemote::CallPlugin has queued a call of the plugin
    browser,       \* its state, its leave to send a picture, those it sent
    device,        \* the size of VDR's OSD
    lastDisplay,   \* lastDisplayWidth, lastDisplayHeight
    overlap,       \* history: what the main thread did during the update
    outage,        \* history: the browser was not there since the page's OSDU
    failed         \* history: a send has failed while the page is there

conn == <<osdType, callPending, browser, outage, failed>>
hist == <<overlap, outage, failed>>
vars == <<hbbtvPage, obj, main, recv, menu, conn, device, lastDisplay, overlap>>

DisplayPc == {"osd_delete", "osd_new", "pixmap_forget", "size", "lock", "create", "osdu"}
CriticalPc == {"draw", "osdu", "unlock"}
DtorPc    == {"pause", "osd_free", "unlock", "forget"}
MainPc    == {"loop", "call", "load"} \cup DisplayPc \cup DtorPc
RecvPc    == {"idle", "size", "lock"} \cup CriticalPc


\* What a pointer of the page points to: nothing, a live object, a deleted one.
Pointer == {"nil", "live", "dead"}

Size == Sizes \cup {Bad}

Constructed == [live |-> TRUE, osd |-> "nil", pixmap |-> "nil", psize |-> Bad,
                disp |-> Unset, lock |-> "free"]

\* Freed memory to which nobody points any more.
Freed == [Constructed EXCEPT !.live = FALSE]

Waiting == [pc |-> "idle", p |-> None, size |-> Bad]

Init ==
    /\ hbbtvPage = None
    /\ obj = [p \in Pages |-> Freed]
    /\ main = [pc |-> "loop", p |-> None, then |-> "loop"]
    /\ recv = Waiting
    /\ menu = "none"
    /\ osdType = "MENU"
    /\ callPending = FALSE
    /\ browser \in [state : {"up", "down", "silent"}, credit : {FALSE}, updates : {0}]
    /\ device \in Size
    /\ lastDisplay = Bad
    /\ overlap = "none" /\ outage = TRUE /\ failed = FALSE

-----------------------------------------------------------------------------
(* SendToBrowser.  It delivers; or the browser does not listen (stopped by *)
(* the user, an external one without a heartbeat, nn_send timed out); or   *)
(* it is gone: the dispatcher is told to close, the plugin is called, and  *)
(* the browser is started again.                                           *)

Delivers(command) ==
    /\ browser.state = "up"
    /\ browser' = [browser EXCEPT !.credit = IF command = "OSDU" THEN TRUE ELSE @]
    /\ UNCHANGED <<osdType, callPending, failed>>

Ignored ==
    /\ browser.state = "silent"
    /\ UNCHANGED <<osdType, callPending, browser, failed>>

\* Mutant: the plugin is not called.
RestartsUncalled ==
    /\ browser.state = "down"
    /\ osdType' = "CLOSE"
    /\ failed' = (hbbtvPage # None)
    /\ browser' \in {browser, [browser EXCEPT !.state = "up"]}
    /\ UNCHANGED callPending

Restarts ==
    /\ browser.state = "down"
    /\ osdType' = "CLOSE"
    /\ callPending' = TRUE
    /\ failed' = (hbbtvPage # None)
    /\ \E s \in {"up", "down"} : browser' = [browser EXCEPT !.state = s]

\* The result may be ignored by the caller.
Send(command) ==
    /\ Delivers(command) \/ Ignored \/ Restarts
    /\ outage' = (outage \/ browser.state # "up")

-----------------------------------------------------------------------------
(* VDR's main loop.                                                        *)

AtLoop == main.pc = "loop"

\* What the main thread does once it leaves its loop; a delete tells most.
Work(pc) == CASE pc = "loop" -> "none" [] pc \in DtorPc -> "delete" [] OTHER -> "show"

\* It starts this while the receiver may be in an update.
Starts(work) ==
    overlap' = CASE recv.pc = "idle" -> "none" [] overlap = "delete" -> "delete" [] OTHER -> work

\* VDR deletes the page before it does what follows.
DeletePage(next) ==
    /\ main' = [pc |-> "pause", p |-> hbbtvPage, then |-> next]
    /\ menu' = "none"
    /\ Starts("delete")

\* The plugin's entry in the main menu, its key, or the queued call.
CallPlugin ==
    /\ AtLoop
    /\ callPending' \in {callPending, FALSE}
    /\ IF menu = "page"
         THEN DeletePage("call")
         ELSE main' = [main EXCEPT !.pc = "call"] /\ menu' = "none" /\ Starts("show")
    /\ UNCHANGED <<hbbtvPage, obj, recv, osdType, browser, device, lastDisplay, outage, failed>>

\* A choice in the menus of hbbtvmenu.c that ends with osPlugin.
PickInMenu ==
    /\ AtLoop /\ menu = "plugin"
    /\ osdType' \in {"HBBTV", "REOPEN", osdType}
    /\ main' = [main EXCEPT !.pc = "call"]
    /\ menu' = "none"
    /\ Starts("show")
    /\ UNCHANGED <<hbbtvPage, obj, recv, callPending, browser, device, lastDisplay, outage, failed>>

\* The menu is left without a choice.
CloseMenu ==
    /\ AtLoop /\ menu = "plugin"
    /\ menu' = "none"
    /\ UNCHANGED <<hbbtvPage, obj, main, recv, conn, device, lastDisplay, overlap>>

\* ProcessKey: a key of the key map goes to the browser.
PageKey ==
    /\ AtLoop /\ menu = "page"
    /\ Send("KEY")
    /\ UNCHANGED <<hbbtvPage, obj, main, recv, menu, device, lastDisplay, overlap>>

\* ProcessKey(kBack): hideBrowser, then VDR deletes the page ...
PageBack ==
    /\ AtLoop /\ menu = "page"
    /\ Send("PAUSE")
    /\ DeletePage("loop")
    /\ UNCHANGED <<hbbtvPage, obj, recv, device, lastDisplay>>

\* ... and it does so without asking the page when another menu is opened.
PageLeft ==
    /\ AtLoop /\ menu = "page"
    /\ DeletePage("loop")
    /\ UNCHANGED <<hbbtvPage, obj, recv, conn, device, lastDisplay>>

\* MainThreadHook.  OsdSizeChanged says so after every change, and then the
\* size is compared; OsrBrowserPid is not 0 once a page could be loaded.
SizeHook ==
    /\ AtLoop /\ hbbtvPage # None
    /\ device # lastDisplay
    /\ lastDisplay' = device
    /\ main' = [main EXCEPT !.pc = "osd_delete", !.p = hbbtvPage]
    /\ Starts("show")
    /\ UNCHANGED <<hbbtvPage, obj, recv, menu, conn, device>>

-----------------------------------------------------------------------------
(* OsdDispatcher::get                                                      *)

GetMenu ==
    /\ main.pc = "call" /\ osdType = "MENU"
    /\ menu' = "plugin"
    /\ main' = [main EXCEPT !.pc = "loop"]
    /\ UNCHANGED <<hbbtvPage, obj, recv, conn, device, lastDisplay, overlap>>

GetNothing ==
    /\ main.pc = "call" /\ osdType = "CLOSE"
    /\ osdType' = "MENU"
    /\ main' = [main EXCEPT !.pc = "loop"]
    /\ UNCHANGED <<hbbtvPage, obj, recv, menu, callPending, browser, outage, failed, device, lastDisplay, overlap>>

GetPage(p) ==
    /\ main.pc = "call" /\ osdType \in {"HBBTV", "REOPEN"}
    /\ ~obj[p].live
    /\ obj' = [obj EXCEPT ![p] = Constructed]
    /\ hbbtvPage' = p
    /\ main' = [pc |-> "load", p |-> p, then |-> osdType]
    /\ UNCHANGED <<recv, menu, conn, device, lastDisplay, overlap>>

\* loadPage sends RESUME, MODE 2 and the URL, reopen RESUME and OSDU; the first
\* that is not delivered ends it, and the page is deleted again.
LoadPage ==
    /\ main.pc = "load"
    /\ IF browser.state = "up"
         THEN /\ browser' = [browser EXCEPT !.credit = IF main.then = "REOPEN" THEN TRUE ELSE @]
              /\ osdType' = "MENU"
              /\ main' = [main EXCEPT !.pc = "osd_delete", !.then = "loop"]
              /\ menu' = "page"
              /\ UNCHANGED <<callPending, failed, outage, overlap>>
         ELSE /\ osdType' = "CLOSE"
              /\ callPending' = (callPending \/ browser.state = "down")
              /\ failed' = (failed \/ browser.state = "down")
              /\ outage' = TRUE
              /\ \/ browser.state = "down" /\ browser' = [browser EXCEPT !.state = "up"]
                 \/ UNCHANGED browser
              /\ main' = [main EXCEPT !.pc = "pause", !.then = "loop"]
              /\ Starts("delete")
              /\ UNCHANGED menu
    /\ UNCHANGED <<hbbtvPage, obj, recv, device, lastDisplay>>

-----------------------------------------------------------------------------
(* Display and SetOsdSize, on page main.p                                  *)

Go(l) == main' = [main EXCEPT !.pc = l]

\* delete osd takes the OSD's pixmaps with it.
DisplayDelete ==
    /\ main.pc = "osd_delete"
    /\ IF obj[main.p].osd = "nil"
         THEN UNCHANGED obj
         ELSE obj' = [obj EXCEPT ![main.p].osd = "dead",
                                 ![main.p].pixmap = IF @ = "nil" THEN @ ELSE "dead",
                                 ![main.p].psize = Bad]
    /\ Go("osd_new")
    /\ UNCHANGED <<hbbtvPage, recv, menu, conn, device, lastDisplay, overlap>>

DisplayNew ==
    /\ main.pc = "osd_new"
    /\ obj' = [obj EXCEPT ![main.p].osd = "live"]
    /\ Go("pixmap_forget")
    /\ UNCHANGED <<hbbtvPage, recv, menu, conn, device, lastDisplay, overlap>>

\* Mutant: the pixmap of the deleted OSD is kept.
SizeForgetNot ==
    /\ main.pc = "pixmap_forget"
    /\ Go("size")
    /\ UNCHANGED <<hbbtvPage, obj, recv, menu, conn, device, lastDisplay, overlap>>

\* The new OSD is asked to destroy the pixmap of the deleted one.
SizeForget ==
    /\ main.pc = "pixmap_forget"
    /\ obj' = [obj EXCEPT ![main.p].pixmap = "nil"]
    /\ Go("size")
    /\ UNCHANGED <<hbbtvPage, recv, menu, conn, device, lastDisplay, overlap>>

\* Mutant: the page keeps the first legal size it was given.
SizeReadOnce ==
    /\ main.pc = "size"
    /\ obj' = [obj EXCEPT ![main.p].disp = IF @ \in Sizes THEN @ ELSE device]
    /\ Go("lock") \/ Go("osdu")
    /\ UNCHANGED <<hbbtvPage, recv, menu, conn, device, lastDisplay, overlap>>

\* An illegal size and an area the OSD does not accept end SetOsdSize.
SizeRead ==
    /\ main.pc = "size"
    /\ obj' = [obj EXCEPT ![main.p].disp = device]
    /\ \/ device # Bad /\ Go("lock")
       \/ Go("osdu")
    /\ UNCHANGED <<hbbtvPage, recv, menu, conn, device, lastDisplay, overlap>>

\* Mutant: the pixmap is made without the lock.
SizeLockNot ==
    /\ main.pc = "lock"
    /\ Go("create")
    /\ UNCHANGED <<hbbtvPage, obj, recv, menu, conn, device, lastDisplay, overlap>>

SizeLock ==
    /\ main.pc = "lock"
    /\ obj[main.p].lock = "free"
    /\ obj' = [obj EXCEPT ![main.p].lock = "main"]
    /\ Go("create")
    /\ UNCHANGED <<hbbtvPage, recv, menu, conn, device, lastDisplay, overlap>>

SizeCreate ==
    /\ main.pc = "create"
    /\ obj' = [obj EXCEPT ![main.p].pixmap = "live", ![main.p].psize = obj[main.p].disp,
                          ![main.p].lock = "free"]
    /\ Go("osdu")
    /\ UNCHANGED <<hbbtvPage, recv, menu, conn, device, lastDisplay, overlap>>

DisplayOsdu ==
    /\ main.pc = "osdu"
    /\ Delivers("OSDU") \/ Ignored \/ Restarts
    /\ outage' = (browser.state # "up")
    /\ Go("loop")
    /\ UNCHANGED <<hbbtvPage, obj, recv, menu, device, lastDisplay, overlap>>

-----------------------------------------------------------------------------
(* ~CefHbbtvPage, on page main.p                                           *)

\* The browser is paused when a player exists that VDR has detached.
DtorPause ==
    /\ main.pc = "pause"
    /\ Send("PAUSE") \/ UNCHANGED conn
    /\ Go("osd_free")
    /\ UNCHANGED <<hbbtvPage, obj, recv, menu, device, lastDisplay, overlap>>

DtorOsd ==
    /\ main.pc = "osd_free"
    /\ obj' = [obj EXCEPT ![main.p].osd = "nil",
                          ![main.p].pixmap = IF @ = "nil" THEN @ ELSE "dead",
                          ![main.p].psize = Bad]
    /\ Go("unlock")
    /\ UNCHANGED <<hbbtvPage, recv, menu, conn, device, lastDisplay, overlap>>

\* show_mutex is unlocked, whoever holds it.
DtorUnlock ==
    /\ main.pc = "unlock"
    /\ obj' = [obj EXCEPT ![main.p].lock = "free"]
    /\ Go("forget")
    /\ UNCHANGED <<hbbtvPage, recv, menu, conn, device, lastDisplay, overlap>>

DtorForget ==
    /\ main.pc = "forget"
    /\ obj' = [obj EXCEPT ![main.p] =
                  IF recv.p = main.p THEN [@ EXCEPT !.pixmap = "nil", !.live = FALSE] ELSE Freed]
    /\ hbbtvPage' = None
    /\ main' = [pc |-> main.then, p |-> None, then |-> "loop"]
    /\ failed' = FALSE
    /\ overlap' = IF recv.pc = "idle" THEN "none" ELSE overlap
    /\ UNCHANGED <<recv, menu, osdType, callPending, browser, device, lastDisplay, outage>>

-----------------------------------------------------------------------------
(* The receiver: message type 2, readOsdUpdate                             *)

\* A delete that is not over stays in mind for the next update.
Finishes ==
    /\ recv' = Waiting
    /\ overlap' = IF overlap = "delete" /\ ~AtLoop THEN "delete" ELSE "none"

RecvGo(l) == recv' = [recv EXCEPT !.pc = l]

RecvUpdate ==
    /\ recv.pc = "idle" /\ browser.updates > 0
    /\ browser' = [browser EXCEPT !.updates = @ - 1]
    /\ IF hbbtvPage = None
         THEN UNCHANGED <<recv, overlap>>
         ELSE /\ recv' = [pc |-> "size", p |-> hbbtvPage, size |-> Bad]
              /\ overlap' = IF overlap = "delete" /\ ~AtLoop THEN "delete" ELSE Work(main.pc)
    /\ UNCHANGED <<hbbtvPage, obj, main, menu, osdType, callPending, outage, failed, device, lastDisplay>>

\* An update for a page without a legal size is dropped, and no OSDU is sent.
RecvSize ==
    /\ recv.pc = "size"
    /\ obj[recv.p].disp \in Sizes \cup {Unset}
    /\ RecvGo("lock")
    /\ UNCHANGED <<hbbtvPage, obj, main, menu, conn, device, lastDisplay, overlap>>

RecvDrop ==
    /\ recv.pc = "size"
    /\ obj[recv.p].disp \in {Bad, Unset}
    /\ Finishes
    /\ obj' = [obj EXCEPT ![recv.p] = IF @.live THEN @ ELSE Freed]
    /\ UNCHANGED <<hbbtvPage, main, menu, conn, device, lastDisplay>>

\* Mutant: garbage ends the update without the OSDU.
RecvLockSilent ==
    /\ recv.pc = "lock"
    /\ obj[recv.p].lock = "free"
    /\ obj' = [obj EXCEPT ![recv.p].lock = "recv"]
    /\ \/ RecvGo("unlock")
       \/ recv' = [recv EXCEPT !.pc = "draw", !.size = obj[recv.p].disp]
    /\ UNCHANGED <<hbbtvPage, main, menu, conn, device, lastDisplay, overlap>>

\* With the lock: an unknown text or an illegal picture size ends it with an
\* OSDU; else the picture is scaled to the page's size.
RecvLock ==
    /\ recv.pc = "lock"
    /\ obj[recv.p].lock = "free"
    /\ obj' = [obj EXCEPT ![recv.p].lock = "recv"]
    /\ \/ RecvGo("osdu")
       \/ recv' = [recv EXCEPT !.pc = "draw", !.size = obj[recv.p].disp]
    /\ UNCHANGED <<hbbtvPage, main, menu, conn, device, lastDisplay, overlap>>

RecvDraw ==
    /\ recv.pc = "draw"
    /\ recv' = [recv EXCEPT !.pc = "osdu", !.size = Bad]
    /\ UNCHANGED <<hbbtvPage, obj, main, menu, conn, device, lastDisplay, overlap>>

RecvOsdu ==
    /\ recv.pc = "osdu"
    /\ Send("OSDU")
    /\ RecvGo("unlock")
    /\ UNCHANGED <<hbbtvPage, obj, main, menu, device, lastDisplay, overlap>>

RecvUnlock ==
    /\ recv.pc = "unlock"
    /\ obj' = [obj EXCEPT ![recv.p] = IF @.live THEN [@ EXCEPT !.lock = "free"] ELSE Freed]
    /\ Finishes
    /\ UNCHANGED <<hbbtvPage, main, menu, conn, device, lastDisplay>>

-----------------------------------------------------------------------------
(* The surroundings: the browser, the user's commands, VDR's output device. *)

BrowserPaints ==
    /\ browser.state = "up" /\ browser.credit /\ browser.updates < MaxUpdates
    /\ browser' = [browser EXCEPT !.credit = FALSE, !.updates = @ + 1]
    /\ UNCHANGED <<hbbtvPage, obj, main, recv, menu, osdType, callPending, outage, failed, device, lastDisplay, overlap>>

\* It dies, stops listening, or another one is started by a command.
BrowserChanges ==
    /\ \E s \in {"up", "down", "silent"} \ {browser.state} :
         browser' = [browser EXCEPT !.state = s, !.credit = FALSE]
    /\ outage' = TRUE
    /\ UNCHANGED <<hbbtvPage, obj, main, recv, menu, osdType, callPending, failed, device, lastDisplay, overlap>>

\* Only the hook and SetOsdSize look at it: a change that falls between two of
\* their looks is made right before the second.
DeviceChanges ==
    /\ main.pc \in {"loop", "size"}
    /\ device' \in Size \ {device}
    /\ UNCHANGED <<hbbtvPage, obj, main, recv, menu, conn, lastDisplay, overlap>>

-----------------------------------------------------------------------------
Display == DisplayDelete \/ DisplayNew \/ SizeForget \/ SizeRead
             \/ SizeLock \/ SizeCreate \/ DisplayOsdu
Dtor == DtorPause \/ DtorOsd \/ DtorUnlock \/ DtorForget
Get  == GetMenu \/ GetNothing \/ (\E p \in Pages : GetPage(p)) \/ LoadPage
Loop == CallPlugin \/ PickInMenu \/ CloseMenu \/ PageKey \/ PageBack \/ PageLeft \/ SizeHook
Recv == RecvUpdate \/ RecvSize \/ RecvDrop \/ RecvLock \/ RecvDraw
          \/ RecvOsdu \/ RecvUnlock
Environment == BrowserPaints \/ BrowserChanges \/ DeviceChanges

Next == Loop \/ Get \/ Display \/ Dtor \/ Recv \/ Environment

Spec == Init /\ [][Next]_vars

\* Both threads are run; each turn of VDR's loop runs the hook and takes a key,
\* and the queued call is one.
\* The receiver holds show_mutex for one update and waits for the browser in
\* between, so the main thread gets the lock it asks for again and again.
FairSpec ==
    /\ Spec
    /\ WF_vars(Get \/ Display \/ Dtor)
    /\ WF_vars(Recv)
    /\ SF_vars(SizeLock)
    /\ WF_vars(SizeHook)
    /\ SF_vars(CallPlugin /\ callPending /\ ~callPending')

-----------------------------------------------------------------------------
PageMemory == [live : BOOLEAN, osd : Pointer, pixmap : Pointer, psize : Size \cup {Unset},
               disp : Size \cup {Unset}, lock : {"free", "main", "recv"}]
MainThread == [pc : MainPc, p : Pages \cup {None}, then : {"loop", "call", "HBBTV", "REOPEN"}]
Receiver   == [pc : RecvPc, p : Pages \cup {None}, size : Size \cup {Unset}]
Browser    == [state : {"up", "down", "silent"}, credit : BOOLEAN, updates : 0 .. MaxUpdates]

PageTypes ==
    /\ obj \in [Pages -> PageMemory]
    /\ hbbtvPage \in Pages \cup {None} /\ (hbbtvPage # None => obj[hbbtvPage].live)

ThreadTypes ==
    /\ main \in MainThread
    /\ recv \in Receiver
    /\ menu \in {"none", "plugin", "page"}
    /\ overlap \in {"none", "show", "delete"}

ConnTypes ==
    /\ osdType \in {"MENU", "HBBTV", "REOPEN", "CLOSE"}
    /\ browser \in Browser
    /\ callPending \in BOOLEAN /\ outage \in BOOLEAN /\ failed \in BOOLEAN

TypeOK == PageTypes /\ ThreadTypes /\ ConnTypes /\ device \in Size /\ lastDisplay \in Size

\* An update that no Display, get or delete of the main thread overlaps works
\* on a live page and a live OSD, and draws on a pixmap of that OSD a picture
\* scaled to the pixmap's size: what readOsdUpdate relies on and show_mutex
\* does not give (cefhbbtvpage.c:247-354 against 80-116 and 49-73).
UpdateAloneIsSafe ==
    (recv.pc # "idle" /\ overlap = "none") =>
        /\ obj[recv.p].live
        /\ obj[recv.p].osd = "live"
        /\ obj[recv.p].pixmap # "dead"
        /\ (recv.pc = "draw" /\ obj[recv.p].pixmap = "live")
              => recv.size = obj[recv.p].psize

\* What show_mutex does give: as long as no delete overlaps it, an update is
\* made to a live page, and no picture is drawn while SetOsdSize makes the
\* pixmap (cefhbbtvpage.c:161-173 against 259-353).
CreateExcludesDraw ==
    (recv.pc # "idle" /\ overlap # "delete") =>
        /\ obj[recv.p].live
        /\ ~(main.pc = "create" /\ recv.pc \in CriticalPc)

\* The exchange of OSDU and picture does not break off: while a page of legal
\* size is shown and the browser it was shown with is there, the browser may
\* send a picture, or one is on its way, or one is being drawn.  Pictures that
\* were dropped for lack of a page or of a size have been made good.
ChainUnbroken ==
    (menu = "page" /\ AtLoop /\ obj[hbbtvPage].disp \in Sizes /\ ~outage) =>
        browser.credit \/ browser.updates > 0 \/ recv.pc # "idle"

\* A send that finds no browser gets the page closed (browsercommunication.c
\* 228-240 and the close branch of OsdDispatcher::get).
FailedSendClosesPage == failed ~> ~failed

\* A new OSD size that the hook has not seen before reaches the page.
ResizeReachesPage ==
    \A s \in Sizes :
        (hbbtvPage # None /\ device = s /\ lastDisplay # s)
            ~> (hbbtvPage = None \/ device # s \/ obj[hbbtvPage].disp = s)

=============================================================================
