--------------------------- MODULE OsdPageProofs ---------------------------
(***************************************************************************)
(* Proofs about OsdPage, for any number of page addresses, OSD sizes and   *)
(* pictures on their way: the types, what an update may rely on when the   *)
(* main thread is not at work, what show_mutex excludes, and why the       *)
(* exchange of OSDU and picture does not break off.                        *)
(***************************************************************************)
EXTENDS OsdPage, TLAPS

Pointed == DisplayPc \cup DtorPc \cup {"load"}

\* The main thread's step agrees with what is shown and with hbbtvPage.
MainInv ==
    /\ main.pc = "loop" => (hbbtvPage # None <=> menu = "page")
    /\ main.pc = "call" => hbbtvPage = None /\ menu = "none" /\ main.then = "loop"
    /\ main.pc \in Pointed => main.p = hbbtvPage /\ hbbtvPage # None
    /\ main.pc \in DisplayPc => menu = "page" /\ main.then = "loop"
    /\ main.pc \in DtorPc \cup {"load"} => menu = "none"
    /\ main.pc = "loop" => main.then = "loop"
    /\ main.pc \in DtorPc => main.then \in {"loop", "call"}
    /\ main.pc = "load" => main.then \in {"HBBTV", "REOPEN"}

\* Only hbbtvPage is a live page.
OneLive == \A q \in Pages : obj[q].live => q = hbbtvPage

\* A page nobody works on, and how far Display has come with one.
Shown(o) ==
    /\ o.osd = "live"
    /\ o.pixmap # "dead"
    /\ o.pixmap = "live" => o.psize = o.disp

PageInv ==
    hbbtvPage # None =>
        /\ main.pc \in {"loop", "osdu"} => Shown(obj[hbbtvPage])
        /\ main.pc \in {"size", "lock", "create"} =>
              obj[hbbtvPage].osd = "live" /\ obj[hbbtvPage].pixmap = "nil"
        /\ main.pc = "pixmap_forget" => obj[hbbtvPage].osd = "live"

\* The receiver's update and what the history says of it.
RecvInv ==
    /\ recv.pc = "idle" => recv = Waiting
    /\ recv.pc # "idle" => recv.p \in Pages
    /\ (recv.pc # "idle" /\ overlap = "none") => AtLoop
    /\ (recv.pc # "idle" /\ overlap # "delete") =>
          recv.p = hbbtvPage /\ main.pc \notin DtorPc
    /\ (recv.pc = "draw" /\ overlap = "none") => recv.size = obj[recv.p].disp

\* show_mutex, as long as no delete has interfered.
LockInv ==
    /\ (main.pc = "create" /\ overlap # "delete") => obj[hbbtvPage].lock = "main"
    /\ (recv.pc \in CriticalPc /\ overlap # "delete") => obj[recv.p].lock = "recv"

IInv == TypeOK /\ MainInv /\ OneLive /\ PageInv /\ RecvInv /\ LockInv

-----------------------------------------------------------------------------
USE DEF None, Bad, Unset, DisplayPc, DtorPc, CriticalPc, Pointed, AtLoop, Pointer, Size,
        MainPc, RecvPc, PageMemory, MainThread, Receiver, Browser, conn
USE PagesAssumption, SizesAssumption, MaxUpdatesAssumption

LEMMA InitIInv == Init => IInv
<1> SUFFICES ASSUME Init PROVE IInv
  OBVIOUS
<1>1. PageTypes
  BY DEF Init, PageTypes, Freed, Constructed
<1>2. ThreadTypes
  BY DEF Init, ThreadTypes, Waiting
<1>3. ConnTypes /\ device \in Size /\ lastDisplay \in Size
  <2>1. browser \in Browser
    <3>1. 0 \in 0 .. MaxUpdates
      OBVIOUS
    <3>2. QED
      BY <3>1 DEF Init
  <2>2. QED
    BY <2>1 DEF Init, ConnTypes
<1>4. MainInv /\ OneLive /\ PageInv /\ RecvInv /\ LockInv
  BY DEF Init, MainInv, OneLive, PageInv, RecvInv, LockInv, Freed, Constructed, Waiting
<1>5. QED
  BY <1>1, <1>2, <1>3, <1>4 DEF IInv, TypeOK

\* A send keeps the types, whatever comes of it.
LEMMA SendTypes ==
    ASSUME ConnTypes, NEW command, outage' \in BOOLEAN,
           Delivers(command) \/ Ignored \/ Restarts
    PROVE  ConnTypes'
<1>1. CASE Delivers(command)
  <2>1. browser' \in Browser
    <3>1. CASE command = "OSDU"
      BY <1>1, <3>1 DEF ConnTypes, Delivers
    <3>2. CASE command # "OSDU"
      BY <1>1, <3>2 DEF ConnTypes, Delivers
    <3>3. QED
      BY <3>1, <3>2
  <2>2. QED
    BY <1>1, <2>1 DEF ConnTypes, Delivers
<1>2. CASE Ignored
  BY <1>2 DEF ConnTypes, Ignored
<1>3. CASE Restarts
  <2>1. osdType' = "CLOSE" /\ callPending' = TRUE /\ failed' = (hbbtvPage # None)
    BY <1>3 DEF Restarts
  <2>2. failed' \in BOOLEAN
    BY <2>1
  <2>3. PICK s \in {"up", "down"} : browser' = [browser EXCEPT !.state = s]
    BY <1>3 DEF Restarts
  <2>4. QED
    BY <2>1, <2>2, <2>3 DEF ConnTypes
<1>4. QED
  BY <1>1, <1>2, <1>3

LEMMA LoopStep == IInv /\ Loop => IInv'
<1> SUFFICES ASSUME IInv, Loop PROVE IInv'
  OBVIOUS
<1> USE DEF IInv, TypeOK
<1>1. CASE CallPlugin
  <2>1. PageTypes'
    BY <1>1 DEF CallPlugin, DeletePage, Starts, PageTypes, MainInv, RecvInv, ThreadTypes
  <2>2. ThreadTypes'
    BY <1>1 DEF CallPlugin, DeletePage, Starts, PageTypes, ThreadTypes, MainInv
  <2>3. ConnTypes'
    BY <1>1 DEF CallPlugin, DeletePage, Starts, ConnTypes
  <2>4. device' \in Size /\ lastDisplay' \in Size
    BY <1>1 DEF CallPlugin, DeletePage, Starts
  <2>5. MainInv'
    BY <1>1 DEF CallPlugin, DeletePage, Starts, MainInv, PageTypes, ThreadTypes
  <2>6. OneLive'
    BY <1>1 DEF CallPlugin, DeletePage, Starts, OneLive, MainInv, PageTypes, ThreadTypes, RecvInv
  <2>7. PageInv'
    BY <1>1 DEF CallPlugin, DeletePage, Starts, PageInv, Shown, MainInv, PageTypes, ThreadTypes
  <2>8. RecvInv'
    BY <1>1 DEF CallPlugin, DeletePage, Starts, RecvInv, MainInv, PageTypes, ThreadTypes, Waiting
  <2>9. LockInv'
    BY <1>1 DEF CallPlugin, DeletePage, Starts, LockInv, RecvInv, MainInv, PageTypes, ThreadTypes, Waiting
  <2>10. QED
    BY <2>1, <2>2, <2>3, <2>4, <2>5, <2>6, <2>7, <2>8, <2>9
<1>2. CASE PickInMenu
  <2>1. PageTypes'
    BY <1>2 DEF PickInMenu, Starts, PageTypes, MainInv, RecvInv, ThreadTypes
  <2>2. ThreadTypes'
    BY <1>2 DEF PickInMenu, Starts, PageTypes, ThreadTypes, MainInv
  <2>3. ConnTypes'
    BY <1>2 DEF PickInMenu, Starts, ConnTypes
  <2>4. device' \in Size /\ lastDisplay' \in Size
    BY <1>2 DEF PickInMenu, Starts
  <2>5. MainInv'
    BY <1>2 DEF PickInMenu, Starts, MainInv, PageTypes, ThreadTypes
  <2>6. OneLive'
    BY <1>2 DEF PickInMenu, Starts, OneLive, MainInv, PageTypes, ThreadTypes, RecvInv
  <2>7. PageInv'
    BY <1>2 DEF PickInMenu, Starts, PageInv, Shown, MainInv, PageTypes, ThreadTypes
  <2>8. RecvInv'
    BY <1>2 DEF PickInMenu, Starts, RecvInv, MainInv, PageTypes, ThreadTypes, Waiting
  <2>9. LockInv'
    BY <1>2 DEF PickInMenu, Starts, LockInv, RecvInv, MainInv, PageTypes, ThreadTypes, Waiting
  <2>10. QED
    BY <2>1, <2>2, <2>3, <2>4, <2>5, <2>6, <2>7, <2>8, <2>9
<1>3. CASE CloseMenu
  <2>1. PageTypes'
    BY <1>3 DEF CloseMenu, PageTypes, MainInv, RecvInv, ThreadTypes
  <2>2. ThreadTypes'
    BY <1>3 DEF CloseMenu, PageTypes, ThreadTypes, MainInv
  <2>3. ConnTypes'
    BY <1>3 DEF CloseMenu, ConnTypes
  <2>4. device' \in Size /\ lastDisplay' \in Size
    BY <1>3 DEF CloseMenu
  <2>5. MainInv'
    BY <1>3 DEF CloseMenu, MainInv, PageTypes, ThreadTypes
  <2>6. OneLive'
    BY <1>3 DEF CloseMenu, OneLive, MainInv, PageTypes, ThreadTypes, RecvInv
  <2>7. PageInv'
    BY <1>3 DEF CloseMenu, PageInv, Shown, MainInv, PageTypes, ThreadTypes
  <2>8. RecvInv'
    BY <1>3 DEF CloseMenu, RecvInv, MainInv, PageTypes, ThreadTypes, Waiting
  <2>9. LockInv'
    BY <1>3 DEF CloseMenu, LockInv, RecvInv, MainInv, PageTypes, ThreadTypes, Waiting
  <2>10. QED
    BY <2>1, <2>2, <2>3, <2>4, <2>5, <2>6, <2>7, <2>8, <2>9
<1>4. CASE PageKey
  <2>1. PageTypes'
    BY <1>4 DEF PageKey, Send, PageTypes, MainInv, RecvInv, ThreadTypes
  <2>2. ThreadTypes'
    BY <1>4 DEF PageKey, Send, PageTypes, ThreadTypes, MainInv
  <2>3. ConnTypes'
    <3>1. outage' \in BOOLEAN
      BY <1>4 DEF PageKey, Send, ConnTypes
    <3>2. QED
      BY <1>4, <3>1, SendTypes DEF PageKey, Send
  <2>4. device' \in Size /\ lastDisplay' \in Size
    BY <1>4 DEF PageKey, Send
  <2>5. MainInv'
    BY <1>4 DEF PageKey, Send, MainInv, PageTypes, ThreadTypes
  <2>6. OneLive'
    BY <1>4 DEF PageKey, Send, OneLive, MainInv, PageTypes, ThreadTypes, RecvInv
  <2>7. PageInv'
    BY <1>4 DEF PageKey, Send, PageInv, Shown, MainInv, PageTypes, ThreadTypes
  <2>8. RecvInv'
    BY <1>4 DEF PageKey, Send, RecvInv, MainInv, PageTypes, ThreadTypes, Waiting
  <2>9. LockInv'
    BY <1>4 DEF PageKey, Send, LockInv, RecvInv, MainInv, PageTypes, ThreadTypes, Waiting
  <2>10. QED
    BY <2>1, <2>2, <2>3, <2>4, <2>5, <2>6, <2>7, <2>8, <2>9
<1>5. CASE PageBack
  <2>1. PageTypes'
    BY <1>5 DEF PageBack, DeletePage, Starts, Send, PageTypes, MainInv, RecvInv, ThreadTypes
  <2>2. ThreadTypes'
    BY <1>5 DEF PageBack, DeletePage, Starts, Send, PageTypes, ThreadTypes, MainInv
  <2>3. ConnTypes'
    <3>1. outage' \in BOOLEAN
      BY <1>5 DEF PageBack, DeletePage, Starts, Send, ConnTypes
    <3>2. QED
      BY <1>5, <3>1, SendTypes DEF PageBack, DeletePage, Starts, Send
  <2>4. device' \in Size /\ lastDisplay' \in Size
    BY <1>5 DEF PageBack, DeletePage, Starts, Send
  <2>5. MainInv'
    BY <1>5 DEF PageBack, DeletePage, Starts, Send, MainInv, PageTypes, ThreadTypes
  <2>6. OneLive'
    BY <1>5 DEF PageBack, DeletePage, Starts, Send, OneLive, MainInv, PageTypes, ThreadTypes, RecvInv
  <2>7. PageInv'
    BY <1>5 DEF PageBack, DeletePage, Starts, Send, PageInv, Shown, MainInv, PageTypes, ThreadTypes
  <2>8. RecvInv'
    BY <1>5 DEF PageBack, DeletePage, Starts, Send, RecvInv, MainInv, PageTypes, ThreadTypes, Waiting
  <2>9. LockInv'
    BY <1>5 DEF PageBack, DeletePage, Starts, Send, LockInv, RecvInv, MainInv, PageTypes, ThreadTypes, Waiting
  <2>10. QED
    BY <2>1, <2>2, <2>3, <2>4, <2>5, <2>6, <2>7, <2>8, <2>9
<1>6. CASE PageLeft
  <2>1. PageTypes'
    BY <1>6 DEF PageLeft, DeletePage, Starts, PageTypes, MainInv, RecvInv, ThreadTypes
  <2>2. ThreadTypes'
    BY <1>6 DEF PageLeft, DeletePage, Starts, PageTypes, ThreadTypes, MainInv
  <2>3. ConnTypes'
    BY <1>6 DEF PageLeft, DeletePage, Starts, ConnTypes
  <2>4. device' \in Size /\ lastDisplay' \in Size
    BY <1>6 DEF PageLeft, DeletePage, Starts
  <2>5. MainInv'
    BY <1>6 DEF PageLeft, DeletePage, Starts, MainInv, PageTypes, ThreadTypes
  <2>6. OneLive'
    BY <1>6 DEF PageLeft, DeletePage, Starts, OneLive, MainInv, PageTypes, ThreadTypes, RecvInv
  <2>7. PageInv'
    BY <1>6 DEF PageLeft, DeletePage, Starts, PageInv, Shown, MainInv, PageTypes, ThreadTypes
  <2>8. RecvInv'
    BY <1>6 DEF PageLeft, DeletePage, Starts, RecvInv, MainInv, PageTypes, ThreadTypes, Waiting
  <2>9. LockInv'
    BY <1>6 DEF PageLeft, DeletePage, Starts, LockInv, RecvInv, MainInv, PageTypes, ThreadTypes, Waiting
  <2>10. QED
    BY <2>1, <2>2, <2>3, <2>4, <2>5, <2>6, <2>7, <2>8, <2>9
<1>7. CASE SizeHook
  <2>1. PageTypes'
    BY <1>7 DEF SizeHook, Starts, PageTypes, MainInv, RecvInv, ThreadTypes
  <2>2. ThreadTypes'
    BY <1>7 DEF SizeHook, Starts, PageTypes, ThreadTypes, MainInv
  <2>3. ConnTypes'
    BY <1>7 DEF SizeHook, Starts, ConnTypes
  <2>4. device' \in Size /\ lastDisplay' \in Size
    BY <1>7 DEF SizeHook, Starts
  <2>5. MainInv'
    BY <1>7 DEF SizeHook, Starts, MainInv, PageTypes, ThreadTypes
  <2>6. OneLive'
    BY <1>7 DEF SizeHook, Starts, OneLive, MainInv, PageTypes, ThreadTypes, RecvInv
  <2>7. PageInv'
    BY <1>7 DEF SizeHook, Starts, PageInv, Shown, MainInv, PageTypes, ThreadTypes
  <2>8. RecvInv'
    BY <1>7 DEF SizeHook, Starts, RecvInv, MainInv, PageTypes, ThreadTypes, Waiting
  <2>9. LockInv'
    BY <1>7 DEF SizeHook, Starts, LockInv, RecvInv, MainInv, PageTypes, ThreadTypes, Waiting
  <2>10. QED
    BY <2>1, <2>2, <2>3, <2>4, <2>5, <2>6, <2>7, <2>8, <2>9
<1>8. QED
  BY <1>1, <1>2, <1>3, <1>4, <1>5, <1>6, <1>7 DEF Loop

LEMMA GetStep == IInv /\ Get => IInv'
<1> SUFFICES ASSUME IInv, Get PROVE IInv'
  OBVIOUS
<1> USE DEF IInv, TypeOK
<1>1. CASE GetMenu
  <2>1. PageTypes'
    BY <1>1 DEF GetMenu, PageTypes, MainInv, RecvInv, ThreadTypes
  <2>2. ThreadTypes'
    BY <1>1 DEF GetMenu, PageTypes, ThreadTypes, MainInv
  <2>3. ConnTypes'
    BY <1>1 DEF GetMenu, ConnTypes
  <2>4. device' \in Size /\ lastDisplay' \in Size
    BY <1>1 DEF GetMenu
  <2>5. MainInv'
    BY <1>1 DEF GetMenu, MainInv, PageTypes, ThreadTypes
  <2>6. OneLive'
    BY <1>1 DEF GetMenu, OneLive, MainInv, PageTypes, ThreadTypes, RecvInv
  <2>7. PageInv'
    BY <1>1 DEF GetMenu, PageInv, Shown, MainInv, PageTypes, ThreadTypes
  <2>8. RecvInv'
    BY <1>1 DEF GetMenu, RecvInv, MainInv, PageTypes, ThreadTypes, Waiting
  <2>9. LockInv'
    BY <1>1 DEF GetMenu, LockInv, RecvInv, MainInv, PageTypes, ThreadTypes, Waiting
  <2>10. QED
    BY <2>1, <2>2, <2>3, <2>4, <2>5, <2>6, <2>7, <2>8, <2>9
<1>2. CASE GetNothing
  <2>1. PageTypes'
    BY <1>2 DEF GetNothing, PageTypes, MainInv, RecvInv, ThreadTypes
  <2>2. ThreadTypes'
    BY <1>2 DEF GetNothing, PageTypes, ThreadTypes, MainInv
  <2>3. ConnTypes'
    BY <1>2 DEF GetNothing, ConnTypes
  <2>4. device' \in Size /\ lastDisplay' \in Size
    BY <1>2 DEF GetNothing
  <2>5. MainInv'
    BY <1>2 DEF GetNothing, MainInv, PageTypes, ThreadTypes
  <2>6. OneLive'
    BY <1>2 DEF GetNothing, OneLive, MainInv, PageTypes, ThreadTypes, RecvInv
  <2>7. PageInv'
    BY <1>2 DEF GetNothing, PageInv, Shown, MainInv, PageTypes, ThreadTypes
  <2>8. RecvInv'
    BY <1>2 DEF GetNothing, RecvInv, MainInv, PageTypes, ThreadTypes, Waiting
  <2>9. LockInv'
    BY <1>2 DEF GetNothing, LockInv, RecvInv, MainInv, PageTypes, ThreadTypes, Waiting
  <2>10. QED
    BY <2>1, <2>2, <2>3, <2>4, <2>5, <2>6, <2>7, <2>8, <2>9
<1>3. ASSUME NEW p \in Pages, GetPage(p) PROVE IInv'
  <2>1. PageTypes'
    BY <1>3 DEF GetPage, Constructed, PageTypes, MainInv, RecvInv, ThreadTypes
  <2>2. ThreadTypes'
    BY <1>3 DEF GetPage, Constructed, PageTypes, ThreadTypes, MainInv
  <2>3. ConnTypes'
    BY <1>3 DEF GetPage, Constructed, ConnTypes
  <2>4. device' \in Size /\ lastDisplay' \in Size
    BY <1>3 DEF GetPage, Constructed
  <2>5. MainInv'
    BY <1>3 DEF GetPage, Constructed, MainInv, PageTypes, ThreadTypes
  <2>6. OneLive'
    BY <1>3 DEF GetPage, Constructed, OneLive, MainInv, PageTypes, ThreadTypes, RecvInv
  <2>7. PageInv'
    BY <1>3 DEF GetPage, Constructed, PageInv, Shown, MainInv, PageTypes, ThreadTypes
  <2>8. RecvInv'
    BY <1>3 DEF GetPage, Constructed, RecvInv, MainInv, PageTypes, ThreadTypes, Waiting
  <2>9. LockInv'
    BY <1>3 DEF GetPage, Constructed, LockInv, RecvInv, MainInv, PageTypes, ThreadTypes, Waiting
  <2>10. QED
    BY <2>1, <2>2, <2>3, <2>4, <2>5, <2>6, <2>7, <2>8, <2>9
<1>4. CASE LoadPage
  <2>0. /\ browser.state = "up" => main' = [pc |-> "osd_delete", p |-> main.p, then |-> "loop"]
        /\ browser.state # "up" => main' = [pc |-> "pause", p |-> main.p, then |-> "loop"]
        /\ main.p \in Pages
    BY <1>4 DEF LoadPage, ThreadTypes, MainInv
  <2>1. PageTypes'
    BY <1>4 DEF LoadPage, Starts, PageTypes, MainInv, RecvInv, ThreadTypes
  <2>2. ThreadTypes'
    <3>1. CASE browser.state = "up"
      BY <1>4, <2>0, <3>1 DEF LoadPage, Starts, PageTypes, ThreadTypes, MainInv
    <3>2. CASE browser.state # "up"
      BY <1>4, <2>0, <3>2 DEF LoadPage, Starts, PageTypes, ThreadTypes, MainInv
    <3>3. QED
      BY <3>1, <3>2
  <2>3. ConnTypes'
    BY <1>4 DEF LoadPage, Starts, ConnTypes
  <2>4. device' \in Size /\ lastDisplay' \in Size
    BY <1>4 DEF LoadPage, Starts
  <2>5. MainInv'
    <3>1. CASE browser.state = "up"
      BY <1>4, <2>0, <3>1 DEF LoadPage, Starts, MainInv, PageTypes, ThreadTypes
    <3>2. CASE browser.state # "up"
      BY <1>4, <2>0, <3>2 DEF LoadPage, Starts, MainInv, PageTypes, ThreadTypes
    <3>3. QED
      BY <3>1, <3>2
  <2>6. OneLive'
    BY <1>4 DEF LoadPage, Starts, OneLive, MainInv, PageTypes, ThreadTypes, RecvInv
  <2>7. PageInv'
    <3>1. CASE browser.state = "up"
      BY <1>4, <3>1, ZenonT(60) DEF LoadPage, Starts, PageInv, Shown, MainInv, PageTypes, ThreadTypes
    <3>2. CASE browser.state # "up"
      BY <1>4, <3>2, ZenonT(60) DEF LoadPage, Starts, PageInv, Shown, MainInv, PageTypes, ThreadTypes
    <3>3. QED
      BY <3>1, <3>2
  <2>8. RecvInv'
    <3>1. CASE browser.state = "up"
      BY <1>4, <3>1, ZenonT(60) DEF LoadPage, Starts, RecvInv, MainInv, PageTypes, ThreadTypes, Waiting
    <3>2. CASE browser.state # "up"
      BY <1>4, <3>2 DEF LoadPage, Starts, RecvInv, MainInv, PageTypes, ThreadTypes, Waiting
    <3>3. QED
      BY <3>1, <3>2
  <2>9. LockInv'
    <3>1. CASE browser.state = "up"
      BY <1>4, <3>1, ZenonT(60) DEF LoadPage, Starts, LockInv, RecvInv, MainInv, PageTypes, ThreadTypes, Waiting
    <3>2. CASE browser.state # "up"
      BY <1>4, <3>2, ZenonT(60) DEF LoadPage, Starts, LockInv, RecvInv, MainInv, PageTypes, ThreadTypes, Waiting
    <3>3. QED
      BY <3>1, <3>2
  <2>10. QED
    BY <2>1, <2>2, <2>3, <2>4, <2>5, <2>6, <2>7, <2>8, <2>9
<1>5. QED
  BY <1>1, <1>2, <1>3, <1>4 DEF Get

LEMMA DisplayStep == IInv /\ Display => IInv'
<1> SUFFICES ASSUME IInv, Display PROVE IInv'
  OBVIOUS
<1> USE DEF IInv, TypeOK
<1>1. CASE DisplayDelete
  <2>1. PageTypes'
    BY <1>1 DEF DisplayDelete, Go, PageTypes, MainInv, RecvInv, ThreadTypes
  <2>2. ThreadTypes'
    BY <1>1 DEF DisplayDelete, Go, PageTypes, ThreadTypes, MainInv
  <2>3. ConnTypes'
    BY <1>1 DEF DisplayDelete, Go, ConnTypes
  <2>4. device' \in Size /\ lastDisplay' \in Size
    BY <1>1 DEF DisplayDelete, Go
  <2>5. MainInv'
    BY <1>1 DEF DisplayDelete, Go, MainInv, PageTypes, ThreadTypes
  <2>6. OneLive'
    BY <1>1 DEF DisplayDelete, Go, OneLive, MainInv, PageTypes, ThreadTypes, RecvInv
  <2>7. PageInv'
    BY <1>1 DEF DisplayDelete, Go, PageInv, Shown, MainInv, PageTypes, ThreadTypes
  <2>8. RecvInv'
    BY <1>1 DEF DisplayDelete, Go, RecvInv, MainInv, PageTypes, ThreadTypes, Waiting
  <2>9. LockInv'
    BY <1>1 DEF DisplayDelete, Go, LockInv, RecvInv, MainInv, PageTypes, ThreadTypes, Waiting
  <2>10. QED
    BY <2>1, <2>2, <2>3, <2>4, <2>5, <2>6, <2>7, <2>8, <2>9
<1>2. CASE DisplayNew
  <2>1. PageTypes'
    BY <1>2 DEF DisplayNew, Go, PageTypes, MainInv, RecvInv, ThreadTypes
  <2>2. ThreadTypes'
    BY <1>2 DEF DisplayNew, Go, PageTypes, ThreadTypes, MainInv
  <2>3. ConnTypes'
    BY <1>2 DEF DisplayNew, Go, ConnTypes
  <2>4. device' \in Size /\ lastDisplay' \in Size
    BY <1>2 DEF DisplayNew, Go
  <2>5. MainInv'
    BY <1>2 DEF DisplayNew, Go, MainInv, PageTypes, ThreadTypes
  <2>6. OneLive'
    BY <1>2 DEF DisplayNew, Go, OneLive, MainInv, PageTypes, ThreadTypes, RecvInv
  <2>7. PageInv'
    BY <1>2 DEF DisplayNew, Go, PageInv, Shown, MainInv, PageTypes, ThreadTypes
  <2>8. RecvInv'
    BY <1>2 DEF DisplayNew, Go, RecvInv, MainInv, PageTypes, ThreadTypes, Waiting
  <2>9. LockInv'
    BY <1>2 DEF DisplayNew, Go, LockInv, RecvInv, MainInv, PageTypes, ThreadTypes, Waiting
  <2>10. QED
    BY <2>1, <2>2, <2>3, <2>4, <2>5, <2>6, <2>7, <2>8, <2>9
<1>3. CASE SizeForget
  <2>1. PageTypes'
    BY <1>3 DEF SizeForget, Go, PageTypes, MainInv, RecvInv, ThreadTypes
  <2>2. ThreadTypes'
    BY <1>3 DEF SizeForget, Go, PageTypes, ThreadTypes, MainInv
  <2>3. ConnTypes'
    BY <1>3 DEF SizeForget, Go, ConnTypes
  <2>4. device' \in Size /\ lastDisplay' \in Size
    BY <1>3 DEF SizeForget, Go
  <2>5. MainInv'
    BY <1>3 DEF SizeForget, Go, MainInv, PageTypes, ThreadTypes
  <2>6. OneLive'
    BY <1>3 DEF SizeForget, Go, OneLive, MainInv, PageTypes, ThreadTypes, RecvInv
  <2>7. PageInv'
    BY <1>3 DEF SizeForget, Go, PageInv, Shown, MainInv, PageTypes, ThreadTypes
  <2>8. RecvInv'
    BY <1>3 DEF SizeForget, Go, RecvInv, MainInv, PageTypes, ThreadTypes, Waiting
  <2>9. LockInv'
    BY <1>3 DEF SizeForget, Go, LockInv, RecvInv, MainInv, PageTypes, ThreadTypes, Waiting
  <2>10. QED
    BY <2>1, <2>2, <2>3, <2>4, <2>5, <2>6, <2>7, <2>8, <2>9
<1>4. CASE SizeRead
  <2>1. PageTypes'
    BY <1>4 DEF SizeRead, Go, PageTypes, MainInv, RecvInv, ThreadTypes
  <2>2. ThreadTypes'
    BY <1>4 DEF SizeRead, Go, PageTypes, ThreadTypes, MainInv
  <2>3. ConnTypes'
    BY <1>4 DEF SizeRead, Go, ConnTypes
  <2>4. device' \in Size /\ lastDisplay' \in Size
    BY <1>4 DEF SizeRead, Go
  <2>5. MainInv'
    BY <1>4 DEF SizeRead, Go, MainInv, PageTypes, ThreadTypes
  <2>6. OneLive'
    BY <1>4 DEF SizeRead, Go, OneLive, MainInv, PageTypes, ThreadTypes, RecvInv
  <2>7. PageInv'
    BY <1>4 DEF SizeRead, Go, PageInv, Shown, MainInv, PageTypes, ThreadTypes
  <2>8. RecvInv'
    BY <1>4 DEF SizeRead, Go, RecvInv, MainInv, PageTypes, ThreadTypes, Waiting
  <2>9. LockInv'
    BY <1>4 DEF SizeRead, Go, LockInv, RecvInv, MainInv, PageTypes, ThreadTypes, Waiting
  <2>10. QED
    BY <2>1, <2>2, <2>3, <2>4, <2>5, <2>6, <2>7, <2>8, <2>9
<1>5. CASE SizeLock
  <2>1. PageTypes'
    BY <1>5 DEF SizeLock, Go, PageTypes, MainInv, RecvInv, ThreadTypes
  <2>2. ThreadTypes'
    BY <1>5 DEF SizeLock, Go, PageTypes, ThreadTypes, MainInv
  <2>3. ConnTypes'
    BY <1>5 DEF SizeLock, Go, ConnTypes
  <2>4. device' \in Size /\ lastDisplay' \in Size
    BY <1>5 DEF SizeLock, Go
  <2>5. MainInv'
    BY <1>5 DEF SizeLock, Go, MainInv, PageTypes, ThreadTypes
  <2>6. OneLive'
    BY <1>5 DEF SizeLock, Go, OneLive, MainInv, PageTypes, ThreadTypes, RecvInv
  <2>7. PageInv'
    BY <1>5 DEF SizeLock, Go, PageInv, Shown, MainInv, PageTypes, ThreadTypes
  <2>8. RecvInv'
    BY <1>5 DEF SizeLock, Go, RecvInv, MainInv, PageTypes, ThreadTypes, Waiting
  <2>9. LockInv'
    BY <1>5 DEF SizeLock, Go, LockInv, RecvInv, MainInv, PageTypes, ThreadTypes, Waiting
  <2>10. QED
    BY <2>1, <2>2, <2>3, <2>4, <2>5, <2>6, <2>7, <2>8, <2>9
<1>6. CASE SizeCreate
  <2>1. PageTypes'
    <3> DEFINE new == [obj[main.p] EXCEPT !.pixmap = "live", !.psize = obj[main.p].disp,
                                            !.lock = "free"]
    <3>1. main.p \in Pages /\ obj[main.p] \in PageMemory
      BY <1>6 DEF SizeCreate, Go, PageTypes, MainInv, RecvInv, ThreadTypes
    <3>2. new \in PageMemory
      BY <3>1 DEF Freed, Constructed
    <3>3. obj' = [obj EXCEPT ![main.p] = new]
      BY <1>6 DEF SizeCreate, Go
    <3>4. obj' \in [Pages -> PageMemory]
      BY <3>1, <3>2, <3>3 DEF PageTypes
    <3>5. hbbtvPage' = hbbtvPage /\ new.live = obj[main.p].live
      BY <1>6, <3>1 DEF SizeCreate
    <3>6. hbbtvPage # None => obj'[hbbtvPage].live
      <4>1. hbbtvPage # None => hbbtvPage \in Pages /\ obj[hbbtvPage].live
        BY DEF PageTypes
      <4>2. QED
        BY <3>1, <3>3, <3>5, <4>1 DEF PageTypes
    <3>7. QED
      BY <3>4, <3>5, <3>6 DEF PageTypes
  <2>2. ThreadTypes'
    BY <1>6 DEF SizeCreate, Go, PageTypes, ThreadTypes, MainInv
  <2>3. ConnTypes'
    BY <1>6 DEF SizeCreate, Go, ConnTypes
  <2>4. device' \in Size /\ lastDisplay' \in Size
    BY <1>6 DEF SizeCreate, Go
  <2>5. MainInv'
    BY <1>6 DEF SizeCreate, Go, MainInv, PageTypes, ThreadTypes
  <2>6. OneLive'
    BY <1>6 DEF SizeCreate, Go, OneLive, MainInv, PageTypes, ThreadTypes, RecvInv
  <2>7. PageInv'
    BY <1>6 DEF SizeCreate, Go, PageInv, Shown, MainInv, PageTypes, ThreadTypes
  <2>8. RecvInv'
    BY <1>6 DEF SizeCreate, Go, RecvInv, MainInv, PageTypes, ThreadTypes, Waiting
  <2>9. LockInv'
    BY <1>6 DEF SizeCreate, Go, LockInv, RecvInv, MainInv, PageTypes, ThreadTypes, Waiting
  <2>10. QED
    BY <2>1, <2>2, <2>3, <2>4, <2>5, <2>6, <2>7, <2>8, <2>9
<1>7. CASE DisplayOsdu
  <2>1. PageTypes'
    BY <1>7 DEF DisplayOsdu, Go, PageTypes, MainInv, RecvInv, ThreadTypes
  <2>2. ThreadTypes'
    BY <1>7 DEF DisplayOsdu, Go, PageTypes, ThreadTypes, MainInv
  <2>3. ConnTypes'
    <3>1. outage' \in BOOLEAN
      BY <1>7 DEF DisplayOsdu, Go, ConnTypes
    <3>2. QED
      BY <1>7, <3>1, SendTypes DEF DisplayOsdu, Go
  <2>4. device' \in Size /\ lastDisplay' \in Size
    BY <1>7 DEF DisplayOsdu, Go
  <2>5. MainInv'
    BY <1>7 DEF DisplayOsdu, Go, MainInv, PageTypes, ThreadTypes
  <2>6. OneLive'
    BY <1>7 DEF DisplayOsdu, Go, OneLive, MainInv, PageTypes, ThreadTypes, RecvInv
  <2>7. PageInv'
    BY <1>7 DEF DisplayOsdu, Go, PageInv, Shown, MainInv, PageTypes, ThreadTypes
  <2>8. RecvInv'
    BY <1>7 DEF DisplayOsdu, Go, RecvInv, MainInv, PageTypes, ThreadTypes, Waiting
  <2>9. LockInv'
    BY <1>7 DEF DisplayOsdu, Go, LockInv, RecvInv, MainInv, PageTypes, ThreadTypes, Waiting
  <2>10. QED
    BY <2>1, <2>2, <2>3, <2>4, <2>5, <2>6, <2>7, <2>8, <2>9
<1>8. QED
  BY <1>1, <1>2, <1>3, <1>4, <1>5, <1>6, <1>7 DEF Display

LEMMA DtorStep == IInv /\ Dtor => IInv'
<1> SUFFICES ASSUME IInv, Dtor PROVE IInv'
  OBVIOUS
<1> USE DEF IInv, TypeOK
<1>1. CASE DtorPause
  <2>1. PageTypes'
    BY <1>1 DEF DtorPause, Go, Send, PageTypes, MainInv, RecvInv, ThreadTypes
  <2>2. ThreadTypes'
    BY <1>1 DEF DtorPause, Go, Send, PageTypes, ThreadTypes, MainInv
  <2>3. ConnTypes'
    <3>1. outage' \in BOOLEAN
      BY <1>1 DEF DtorPause, Go, Send, ConnTypes
    <3>2. QED
      BY <1>1, <3>1, SendTypes DEF DtorPause, Go, Send, ConnTypes
  <2>4. device' \in Size /\ lastDisplay' \in Size
    BY <1>1 DEF DtorPause, Go, Send
  <2>5. MainInv'
    BY <1>1 DEF DtorPause, Go, Send, MainInv, PageTypes, ThreadTypes
  <2>6. OneLive'
    BY <1>1 DEF DtorPause, Go, Send, OneLive, MainInv, PageTypes, ThreadTypes, RecvInv
  <2>7. PageInv'
    BY <1>1 DEF DtorPause, Go, Send, PageInv, Shown, MainInv, PageTypes, ThreadTypes
  <2>8. RecvInv'
    BY <1>1 DEF DtorPause, Go, Send, RecvInv, MainInv, PageTypes, ThreadTypes, Waiting
  <2>9. LockInv'
    BY <1>1 DEF DtorPause, Go, Send, LockInv, RecvInv, MainInv, PageTypes, ThreadTypes, Waiting
  <2>10. QED
    BY <2>1, <2>2, <2>3, <2>4, <2>5, <2>6, <2>7, <2>8, <2>9
<1>2. CASE DtorOsd
  <2>1. PageTypes'
    BY <1>2 DEF DtorOsd, Go, PageTypes, MainInv, RecvInv, ThreadTypes
  <2>2. ThreadTypes'
    BY <1>2 DEF DtorOsd, Go, PageTypes, ThreadTypes, MainInv
  <2>3. ConnTypes'
    BY <1>2 DEF DtorOsd, Go, ConnTypes
  <2>4. device' \in Size /\ lastDisplay' \in Size
    BY <1>2 DEF DtorOsd, Go
  <2>5. MainInv'
    BY <1>2 DEF DtorOsd, Go, MainInv, PageTypes, ThreadTypes
  <2>6. OneLive'
    BY <1>2 DEF DtorOsd, Go, OneLive, MainInv, PageTypes, ThreadTypes, RecvInv
  <2>7. PageInv'
    BY <1>2 DEF DtorOsd, Go, PageInv, Shown, MainInv, PageTypes, ThreadTypes
  <2>8. RecvInv'
    BY <1>2 DEF DtorOsd, Go, RecvInv, MainInv, PageTypes, ThreadTypes, Waiting
  <2>9. LockInv'
    BY <1>2 DEF DtorOsd, Go, LockInv, RecvInv, MainInv, PageTypes, ThreadTypes, Waiting
  <2>10. QED
    BY <2>1, <2>2, <2>3, <2>4, <2>5, <2>6, <2>7, <2>8, <2>9
<1>3. CASE DtorUnlock
  <2>1. PageTypes'
    BY <1>3 DEF DtorUnlock, Go, PageTypes, MainInv, RecvInv, ThreadTypes
  <2>2. ThreadTypes'
    BY <1>3 DEF DtorUnlock, Go, PageTypes, ThreadTypes, MainInv
  <2>3. ConnTypes'
    BY <1>3 DEF DtorUnlock, Go, ConnTypes
  <2>4. device' \in Size /\ lastDisplay' \in Size
    BY <1>3 DEF DtorUnlock, Go
  <2>5. MainInv'
    BY <1>3 DEF DtorUnlock, Go, MainInv, PageTypes, ThreadTypes
  <2>6. OneLive'
    BY <1>3 DEF DtorUnlock, Go, OneLive, MainInv, PageTypes, ThreadTypes, RecvInv
  <2>7. PageInv'
    BY <1>3 DEF DtorUnlock, Go, PageInv, Shown, MainInv, PageTypes, ThreadTypes
  <2>8. RecvInv'
    BY <1>3 DEF DtorUnlock, Go, RecvInv, MainInv, PageTypes, ThreadTypes, Waiting
  <2>9. LockInv'
    BY <1>3 DEF DtorUnlock, Go, LockInv, RecvInv, MainInv, PageTypes, ThreadTypes, Waiting
  <2>10. QED
    BY <2>1, <2>2, <2>3, <2>4, <2>5, <2>6, <2>7, <2>8, <2>9
<1>4. CASE DtorForget
  <2>1. PageTypes'
    <3> DEFINE new == IF recv.p = main.p THEN [obj[main.p] EXCEPT !.pixmap = "nil", !.live = FALSE]
                     ELSE Freed
    <3>1. main.p \in Pages /\ obj[main.p] \in PageMemory
      BY <1>4 DEF DtorForget, PageTypes, MainInv, RecvInv, ThreadTypes
    <3>2. new \in PageMemory
      BY <3>1 DEF Freed, Constructed
    <3>3. obj' = [obj EXCEPT ![main.p] = new]
      BY <1>4 DEF DtorForget
    <3>4. obj' \in [Pages -> PageMemory]
      BY <3>1, <3>2, <3>3 DEF PageTypes
    <3>5. QED
      BY <1>4, <3>1, <3>3, <3>4 DEF DtorForget, PageTypes
  <2>2. ThreadTypes'
    BY <1>4 DEF DtorForget, Freed, Constructed, PageTypes, ThreadTypes, MainInv
  <2>3. ConnTypes'
    BY <1>4 DEF DtorForget, Freed, Constructed, ConnTypes
  <2>4. device' \in Size /\ lastDisplay' \in Size
    BY <1>4 DEF DtorForget, Freed, Constructed
  <2>5. MainInv'
    BY <1>4 DEF DtorForget, Freed, Constructed, MainInv, PageTypes, ThreadTypes
  <2>6. OneLive'
    BY <1>4 DEF DtorForget, Freed, Constructed, OneLive, MainInv, PageTypes, ThreadTypes, RecvInv
  <2>7. PageInv'
    BY <1>4 DEF DtorForget, Freed, Constructed, PageInv, Shown, MainInv, PageTypes, ThreadTypes
  <2>8. RecvInv'
    BY <1>4 DEF DtorForget, Freed, Constructed, RecvInv, MainInv, PageTypes, ThreadTypes, Waiting
  <2>9. LockInv'
    BY <1>4 DEF DtorForget, Freed, Constructed, LockInv, RecvInv, MainInv, PageTypes, ThreadTypes, Waiting
  <2>10. QED
    BY <2>1, <2>2, <2>3, <2>4, <2>5, <2>6, <2>7, <2>8, <2>9
<1>5. QED
  BY <1>1, <1>2, <1>3, <1>4 DEF Dtor

LEMMA RecvStep == IInv /\ Recv => IInv'
<1> SUFFICES ASSUME IInv, Recv PROVE IInv'
  OBVIOUS
<1> USE DEF IInv, TypeOK
<1>1. CASE RecvUpdate
  <2>1. PageTypes'
    BY <1>1 DEF RecvUpdate, Work, PageTypes, MainInv, RecvInv, ThreadTypes
  <2>2. ThreadTypes'
    BY <1>1 DEF RecvUpdate, Work, PageTypes, ThreadTypes, MainInv
  <2>3. ConnTypes'
    BY <1>1 DEF RecvUpdate, Work, ConnTypes
  <2>4. device' \in Size /\ lastDisplay' \in Size
    BY <1>1 DEF RecvUpdate, Work
  <2>5. MainInv'
    BY <1>1 DEF RecvUpdate, Work, MainInv, PageTypes, ThreadTypes
  <2>6. OneLive'
    BY <1>1 DEF RecvUpdate, Work, OneLive, MainInv, PageTypes, ThreadTypes, RecvInv
  <2>7. PageInv'
    BY <1>1 DEF RecvUpdate, Work, PageInv, Shown, MainInv, PageTypes, ThreadTypes
  <2>8. RecvInv'
    BY <1>1 DEF RecvUpdate, Work, RecvInv, MainInv, PageTypes, ThreadTypes, Waiting
  <2>9. LockInv'
    BY <1>1 DEF RecvUpdate, Work, LockInv, RecvInv, MainInv, PageTypes, ThreadTypes, Waiting
  <2>10. QED
    BY <2>1, <2>2, <2>3, <2>4, <2>5, <2>6, <2>7, <2>8, <2>9
<1>2. CASE RecvSize
  <2>1. PageTypes'
    BY <1>2 DEF RecvSize, RecvGo, PageTypes, MainInv, RecvInv, ThreadTypes
  <2>2. ThreadTypes'
    BY <1>2 DEF RecvSize, RecvGo, PageTypes, ThreadTypes, MainInv
  <2>3. ConnTypes'
    BY <1>2 DEF RecvSize, RecvGo, ConnTypes
  <2>4. device' \in Size /\ lastDisplay' \in Size
    BY <1>2 DEF RecvSize, RecvGo
  <2>5. MainInv'
    BY <1>2 DEF RecvSize, RecvGo, MainInv, PageTypes, ThreadTypes
  <2>6. OneLive'
    BY <1>2 DEF RecvSize, RecvGo, OneLive, MainInv, PageTypes, ThreadTypes, RecvInv
  <2>7. PageInv'
    BY <1>2 DEF RecvSize, RecvGo, PageInv, Shown, MainInv, PageTypes, ThreadTypes
  <2>8. RecvInv'
    BY <1>2 DEF RecvSize, RecvGo, RecvInv, MainInv, PageTypes, ThreadTypes, Waiting
  <2>9. LockInv'
    BY <1>2 DEF RecvSize, RecvGo, LockInv, RecvInv, MainInv, PageTypes, ThreadTypes, Waiting
  <2>10. QED
    BY <2>1, <2>2, <2>3, <2>4, <2>5, <2>6, <2>7, <2>8, <2>9
<1>3. CASE RecvDrop
  <2>1. PageTypes'
    <3> DEFINE new == IF obj[recv.p].live THEN obj[recv.p] ELSE Freed
    <3>1. recv.p \in Pages /\ obj[recv.p] \in PageMemory
      BY <1>3 DEF RecvDrop, PageTypes, MainInv, RecvInv, ThreadTypes
    <3>2. new \in PageMemory
      BY <3>1 DEF Freed, Constructed
    <3>3. obj' = [obj EXCEPT ![recv.p] = new]
      BY <1>3 DEF RecvDrop
    <3>4. obj' \in [Pages -> PageMemory]
      BY <3>1, <3>2, <3>3 DEF PageTypes
    <3>5. QED
      BY <1>3, <3>1, <3>3, <3>4 DEF RecvDrop, PageTypes
  <2>2. ThreadTypes'
    BY <1>3 DEF RecvDrop, Finishes, Waiting, Freed, Constructed, PageTypes, ThreadTypes, MainInv
  <2>3. ConnTypes'
    BY <1>3 DEF RecvDrop, Finishes, Waiting, Freed, Constructed, ConnTypes
  <2>4. device' \in Size /\ lastDisplay' \in Size
    BY <1>3 DEF RecvDrop, Finishes, Waiting, Freed, Constructed
  <2>5. MainInv'
    BY <1>3 DEF RecvDrop, Finishes, Waiting, Freed, Constructed, MainInv, PageTypes, ThreadTypes
  <2>6. OneLive'
    BY <1>3 DEF RecvDrop, Finishes, Waiting, Freed, Constructed, OneLive, MainInv, PageTypes, ThreadTypes, RecvInv
  <2>7. PageInv'
    BY <1>3 DEF RecvDrop, Finishes, Waiting, Freed, Constructed, PageInv, Shown, MainInv, PageTypes, ThreadTypes
  <2>8. RecvInv'
    BY <1>3 DEF RecvDrop, Finishes, Waiting, Freed, Constructed, RecvInv, MainInv, PageTypes, ThreadTypes
  <2>9. LockInv'
    BY <1>3 DEF RecvDrop, Finishes, Waiting, Freed, Constructed, LockInv, RecvInv, MainInv, PageTypes, ThreadTypes
  <2>10. QED
    BY <2>1, <2>2, <2>3, <2>4, <2>5, <2>6, <2>7, <2>8, <2>9
<1>4. CASE RecvLock
  <2>0. recv' = [recv EXCEPT !.pc = "osdu"] \/ recv' = [recv EXCEPT !.pc = "draw", !.size = obj[recv.p].disp]
    BY <1>4 DEF RecvLock, RecvGo
  <2>1. PageTypes'
    BY <1>4 DEF RecvLock, PageTypes, MainInv, RecvInv, ThreadTypes
  <2>2. ThreadTypes'
    <3>1. CASE recv' = [recv EXCEPT !.pc = "osdu"]
      BY <1>4, <3>1 DEF RecvLock, PageTypes, ThreadTypes, MainInv
    <3>2. CASE recv' = [recv EXCEPT !.pc = "draw", !.size = obj[recv.p].disp]
      <4>1. obj[recv.p].disp \in Size \cup {Unset}
        BY <1>4 DEF RecvLock, PageTypes, RecvInv
      <4>2. recv' \in Receiver
        BY <3>2, <4>1 DEF ThreadTypes
      <4>3. QED
        BY <1>4, <4>2 DEF RecvLock, ThreadTypes
    <3>3. QED
      BY <3>1, <3>2, <2>0
  <2>3. ConnTypes'
    BY <1>4 DEF RecvLock, ConnTypes
  <2>4. device' \in Size /\ lastDisplay' \in Size
    BY <1>4 DEF RecvLock
  <2>5. MainInv'
    BY <1>4 DEF RecvLock, MainInv, PageTypes, ThreadTypes
  <2>6. OneLive'
    BY <1>4 DEF RecvLock, OneLive, MainInv, PageTypes, ThreadTypes, RecvInv
  <2>7. PageInv'
    BY <1>4 DEF RecvLock, PageInv, Shown, MainInv, PageTypes, ThreadTypes
  <2>8. RecvInv'
    <3>1. CASE recv' = [recv EXCEPT !.pc = "osdu"]
      BY <1>4, <3>1 DEF RecvLock, RecvInv, MainInv, PageTypes, ThreadTypes, Waiting
    <3>2. CASE recv' = [recv EXCEPT !.pc = "draw", !.size = obj[recv.p].disp]
      BY <1>4, <3>2 DEF RecvLock, RecvInv, MainInv, PageTypes, ThreadTypes, Waiting
    <3>3. QED
      BY <3>1, <3>2, <2>0
  <2>9. LockInv'
    <3>1. CASE recv' = [recv EXCEPT !.pc = "osdu"]
      BY <1>4, <3>1 DEF RecvLock, LockInv, RecvInv, MainInv, PageTypes, ThreadTypes, Waiting
    <3>2. CASE recv' = [recv EXCEPT !.pc = "draw", !.size = obj[recv.p].disp]
      BY <1>4, <3>2 DEF RecvLock, LockInv, RecvInv, MainInv, PageTypes, ThreadTypes, Waiting
    <3>3. QED
      BY <3>1, <3>2, <2>0
  <2>10. QED
    BY <2>1, <2>2, <2>3, <2>4, <2>5, <2>6, <2>7, <2>8, <2>9
<1>5. CASE RecvDraw
  <2>1. PageTypes'
    BY <1>5 DEF RecvDraw, RecvGo, PageTypes, MainInv, RecvInv, ThreadTypes
  <2>2. ThreadTypes'
    BY <1>5 DEF RecvDraw, RecvGo, PageTypes, ThreadTypes, MainInv
  <2>3. ConnTypes'
    BY <1>5 DEF RecvDraw, RecvGo, ConnTypes
  <2>4. device' \in Size /\ lastDisplay' \in Size
    BY <1>5 DEF RecvDraw, RecvGo
  <2>5. MainInv'
    BY <1>5 DEF RecvDraw, RecvGo, MainInv, PageTypes, ThreadTypes
  <2>6. OneLive'
    BY <1>5 DEF RecvDraw, RecvGo, OneLive, MainInv, PageTypes, ThreadTypes, RecvInv
  <2>7. PageInv'
    BY <1>5 DEF RecvDraw, RecvGo, PageInv, Shown, MainInv, PageTypes, ThreadTypes
  <2>8. RecvInv'
    BY <1>5 DEF RecvDraw, RecvGo, RecvInv, MainInv, PageTypes, ThreadTypes, Waiting
  <2>9. LockInv'
    BY <1>5 DEF RecvDraw, RecvGo, LockInv, RecvInv, MainInv, PageTypes, ThreadTypes, Waiting
  <2>10. QED
    BY <2>1, <2>2, <2>3, <2>4, <2>5, <2>6, <2>7, <2>8, <2>9
<1>6. CASE RecvOsdu
  <2>1. PageTypes'
    BY <1>6 DEF RecvOsdu, RecvGo, Send, PageTypes, MainInv, RecvInv, ThreadTypes
  <2>2. ThreadTypes'
    BY <1>6 DEF RecvOsdu, RecvGo, Send, PageTypes, ThreadTypes, MainInv
  <2>3. ConnTypes'
    <3>1. outage' \in BOOLEAN
      BY <1>6 DEF RecvOsdu, RecvGo, Send, ConnTypes
    <3>2. QED
      BY <1>6, <3>1, SendTypes DEF RecvOsdu, RecvGo, Send
  <2>4. device' \in Size /\ lastDisplay' \in Size
    BY <1>6 DEF RecvOsdu, RecvGo, Send
  <2>5. MainInv'
    BY <1>6 DEF RecvOsdu, RecvGo, Send, MainInv, PageTypes, ThreadTypes
  <2>6. OneLive'
    BY <1>6 DEF RecvOsdu, RecvGo, Send, OneLive, MainInv, PageTypes, ThreadTypes, RecvInv
  <2>7. PageInv'
    BY <1>6 DEF RecvOsdu, RecvGo, Send, PageInv, Shown, MainInv, PageTypes, ThreadTypes
  <2>8. RecvInv'
    BY <1>6 DEF RecvOsdu, RecvGo, Send, RecvInv, MainInv, PageTypes, ThreadTypes, Waiting
  <2>9. LockInv'
    BY <1>6 DEF RecvOsdu, RecvGo, Send, LockInv, RecvInv, MainInv, PageTypes, ThreadTypes, Waiting
  <2>10. QED
    BY <2>1, <2>2, <2>3, <2>4, <2>5, <2>6, <2>7, <2>8, <2>9
<1>7. CASE RecvUnlock
  <2>1. PageTypes'
    <3> DEFINE new == IF obj[recv.p].live THEN [obj[recv.p] EXCEPT !.lock = "free"] ELSE Freed
    <3>1. recv.p \in Pages /\ obj[recv.p] \in PageMemory
      BY <1>7 DEF RecvUnlock, PageTypes, MainInv, RecvInv, ThreadTypes
    <3>2. new \in PageMemory
      BY <3>1 DEF Freed, Constructed
    <3>3. obj' = [obj EXCEPT ![recv.p] = new]
      BY <1>7 DEF RecvUnlock
    <3>4. obj' \in [Pages -> PageMemory]
      BY <3>1, <3>2, <3>3 DEF PageTypes
    <3>5. QED
      BY <1>7, <3>1, <3>3, <3>4 DEF RecvUnlock, PageTypes
  <2>2. ThreadTypes'
    BY <1>7 DEF RecvUnlock, Finishes, Waiting, Freed, Constructed, PageTypes, ThreadTypes, MainInv
  <2>3. ConnTypes'
    BY <1>7 DEF RecvUnlock, Finishes, Waiting, Freed, Constructed, ConnTypes
  <2>4. device' \in Size /\ lastDisplay' \in Size
    BY <1>7 DEF RecvUnlock, Finishes, Waiting, Freed, Constructed
  <2>5. MainInv'
    BY <1>7 DEF RecvUnlock, Finishes, Waiting, Freed, Constructed, MainInv, PageTypes, ThreadTypes
  <2>6. OneLive'
    BY <1>7 DEF RecvUnlock, Finishes, Waiting, Freed, Constructed, OneLive, MainInv, PageTypes, ThreadTypes, RecvInv
  <2>7. PageInv'
    BY <1>7 DEF RecvUnlock, Finishes, Waiting, Freed, Constructed, PageInv, Shown, MainInv, PageTypes, ThreadTypes
  <2>8. RecvInv'
    BY <1>7 DEF RecvUnlock, Finishes, Waiting, Freed, Constructed, RecvInv, MainInv, PageTypes, ThreadTypes
  <2>9. LockInv'
    BY <1>7 DEF RecvUnlock, Finishes, Waiting, Freed, Constructed, LockInv, RecvInv, MainInv, PageTypes, ThreadTypes
  <2>10. QED
    BY <2>1, <2>2, <2>3, <2>4, <2>5, <2>6, <2>7, <2>8, <2>9
<1>8. QED
  BY <1>1, <1>2, <1>3, <1>4, <1>5, <1>6, <1>7 DEF Recv

LEMMA EnvironmentStep == IInv /\ (Environment \/ UNCHANGED vars) => IInv'
<1> SUFFICES ASSUME IInv, Environment \/ UNCHANGED vars PROVE IInv'
  OBVIOUS
<1> USE DEF IInv, TypeOK
<1>1. CASE BrowserPaints
  <2>1. PageTypes'
    BY <1>1 DEF BrowserPaints, PageTypes, MainInv, RecvInv, ThreadTypes
  <2>2. ThreadTypes'
    BY <1>1 DEF BrowserPaints, PageTypes, ThreadTypes, MainInv
  <2>3. ConnTypes'
    <3>1. browser.updates + 1 \in 0 .. MaxUpdates
      BY <1>1 DEF BrowserPaints, ConnTypes
    <3>2. browser' \in Browser
      BY <1>1, <3>1 DEF BrowserPaints, ConnTypes
    <3>3. QED
      BY <1>1, <3>2 DEF BrowserPaints, ConnTypes
  <2>4. device' \in Size /\ lastDisplay' \in Size
    BY <1>1 DEF BrowserPaints
  <2>5. MainInv'
    BY <1>1 DEF BrowserPaints, MainInv, PageTypes, ThreadTypes
  <2>6. OneLive'
    BY <1>1 DEF BrowserPaints, OneLive, MainInv, PageTypes, ThreadTypes, RecvInv
  <2>7. PageInv'
    BY <1>1 DEF BrowserPaints, PageInv, Shown, MainInv, PageTypes, ThreadTypes
  <2>8. RecvInv'
    BY <1>1 DEF BrowserPaints, RecvInv, MainInv, PageTypes, ThreadTypes, Waiting
  <2>9. LockInv'
    BY <1>1 DEF BrowserPaints, LockInv, RecvInv, MainInv, PageTypes, ThreadTypes, Waiting
  <2>10. QED
    BY <2>1, <2>2, <2>3, <2>4, <2>5, <2>6, <2>7, <2>8, <2>9
<1>2. CASE BrowserChanges
  <2>1. PageTypes'
    BY <1>2 DEF BrowserChanges, PageTypes, MainInv, RecvInv, ThreadTypes
  <2>2. ThreadTypes'
    BY <1>2 DEF BrowserChanges, PageTypes, ThreadTypes, MainInv
  <2>3. ConnTypes'
    BY <1>2 DEF BrowserChanges, ConnTypes
  <2>4. device' \in Size /\ lastDisplay' \in Size
    BY <1>2 DEF BrowserChanges
  <2>5. MainInv'
    BY <1>2 DEF BrowserChanges, MainInv, PageTypes, ThreadTypes
  <2>6. OneLive'
    BY <1>2 DEF BrowserChanges, OneLive, MainInv, PageTypes, ThreadTypes, RecvInv
  <2>7. PageInv'
    BY <1>2 DEF BrowserChanges, PageInv, Shown, MainInv, PageTypes, ThreadTypes
  <2>8. RecvInv'
    BY <1>2 DEF BrowserChanges, RecvInv, MainInv, PageTypes, ThreadTypes, Waiting
  <2>9. LockInv'
    BY <1>2 DEF BrowserChanges, LockInv, RecvInv, MainInv, PageTypes, ThreadTypes, Waiting
  <2>10. QED
    BY <2>1, <2>2, <2>3, <2>4, <2>5, <2>6, <2>7, <2>8, <2>9
<1>3. CASE DeviceChanges
  <2>1. PageTypes'
    BY <1>3 DEF DeviceChanges, PageTypes, MainInv, RecvInv, ThreadTypes
  <2>2. ThreadTypes'
    BY <1>3 DEF DeviceChanges, PageTypes, ThreadTypes, MainInv
  <2>3. ConnTypes'
    BY <1>3 DEF DeviceChanges, ConnTypes
  <2>4. device' \in Size /\ lastDisplay' \in Size
    BY <1>3 DEF DeviceChanges
  <2>5. MainInv'
    BY <1>3 DEF DeviceChanges, MainInv, PageTypes, ThreadTypes
  <2>6. OneLive'
    BY <1>3 DEF DeviceChanges, OneLive, MainInv, PageTypes, ThreadTypes, RecvInv
  <2>7. PageInv'
    BY <1>3 DEF DeviceChanges, PageInv, Shown, MainInv, PageTypes, ThreadTypes
  <2>8. RecvInv'
    BY <1>3 DEF DeviceChanges, RecvInv, MainInv, PageTypes, ThreadTypes, Waiting
  <2>9. LockInv'
    BY <1>3 DEF DeviceChanges, LockInv, RecvInv, MainInv, PageTypes, ThreadTypes, Waiting
  <2>10. QED
    BY <2>1, <2>2, <2>3, <2>4, <2>5, <2>6, <2>7, <2>8, <2>9
<1>4. CASE UNCHANGED vars
  <2>1. PageTypes'
    BY <1>4 DEF vars, PageTypes, MainInv, RecvInv, ThreadTypes
  <2>2. ThreadTypes'
    BY <1>4 DEF vars, PageTypes, ThreadTypes, MainInv
  <2>3. ConnTypes'
    BY <1>4 DEF vars, ConnTypes
  <2>4. device' \in Size /\ lastDisplay' \in Size
    BY <1>4 DEF vars
  <2>5. MainInv'
    BY <1>4 DEF vars, MainInv, PageTypes, ThreadTypes
  <2>6. OneLive'
    BY <1>4 DEF vars, OneLive, MainInv, PageTypes, ThreadTypes, RecvInv
  <2>7. PageInv'
    BY <1>4 DEF vars, PageInv, Shown, MainInv, PageTypes, ThreadTypes
  <2>8. RecvInv'
    BY <1>4 DEF vars, RecvInv, MainInv, PageTypes, ThreadTypes, Waiting
  <2>9. LockInv'
    BY <1>4 DEF vars, LockInv, RecvInv, MainInv, PageTypes, ThreadTypes, Waiting
  <2>10. QED
    BY <2>1, <2>2, <2>3, <2>4, <2>5, <2>6, <2>7, <2>8, <2>9
<1>5. QED
  BY <1>1, <1>2, <1>3, <1>4 DEF Environment

\* The inductive invariant holds of the specification.
LEMMA Inductive == Spec => []IInv
<1>1. IInv /\ [Next]_vars => IInv'
  BY LoopStep, GetStep, DisplayStep, DtorStep, RecvStep, EnvironmentStep DEF Next
<1>2. QED
  BY InitIInv, <1>1, PTL DEF Spec

-----------------------------------------------------------------------------
\* The types, and hbbtvPage never points to a deleted page between two steps.
THEOREM TypeCorrect == Spec => []TypeOK
<1>1. IInv => TypeOK
  BY DEF IInv
<1>2. QED
  BY Inductive, <1>1, PTL

\* An update the main thread does not overlap is safe, whatever the sizes and
\* however many pages have been shown before (cefhbbtvpage.c:247-354).
THEOREM UpdatesAloneAreSafe == Spec => []UpdateAloneIsSafe
<1>1. IInv => UpdateAloneIsSafe
  BY DEF IInv, TypeOK, PageTypes, PageInv, Shown, RecvInv, UpdateAloneIsSafe
<1>2. QED
  BY Inductive, <1>1, PTL

\* show_mutex keeps drawing and SetOsdSize apart unless a delete interferes.
THEOREM CreatesExcludeDraws == Spec => []CreateExcludesDraw
<1>1. IInv => CreateExcludesDraw
  BY DEF IInv, TypeOK, PageTypes, MainInv, RecvInv, LockInv, CreateExcludesDraw
<1>2. QED
  BY Inductive, <1>1, PTL

-----------------------------------------------------------------------------
(* The exchange of OSDU and picture.  The browser's leave to paint passes  *)
(* from credit to a picture on its way to the receiver's update; what could *)
(* lose it is an update of a page that has been deleted meanwhile, which   *)
(* ends without an OSDU.  The next page's Display has sent its own then.   *)

Pending == browser.credit \/ browser.updates > 0

ChainInv ==
    ~outage =>
        /\ recv.pc = "unlock" => Pending
        /\ (AtLoop /\ menu = "page" /\ recv.pc # "idle" /\ recv.p # hbbtvPage) => Pending
        /\ (AtLoop /\ menu = "page" /\ recv.pc = "idle" /\ obj[hbbtvPage].disp \in Sizes) => Pending

\* No send takes the browser's leave away: without an outage it was there.
LEMMA SendKeepsPending ==
    ASSUME ConnTypes, NEW command, Delivers(command) \/ Ignored \/ Restarts
    PROVE  /\ browser.state = "up" /\ Pending => Pending'
           /\ browser.state = "up" /\ command = "OSDU" => Pending'
<1>1. CASE Delivers(command)
  <2>1. CASE command = "OSDU"
    BY <1>1, <2>1 DEF ConnTypes, Delivers, Pending
  <2>2. CASE command # "OSDU"
    BY <1>1, <2>2 DEF ConnTypes, Delivers, Pending
  <2>3. QED
    BY <2>1, <2>2
<1>2. CASE Ignored
  BY <1>2 DEF Ignored
<1>3. CASE Restarts
  BY <1>3 DEF Restarts
<1>4. QED
  BY <1>1, <1>2, <1>3

LEMMA ChainStep == IInv /\ ChainInv /\ [Next]_vars => ChainInv'
<1> SUFFICES ASSUME IInv, ChainInv, [Next]_vars, ~outage' PROVE ChainInv'
  BY DEF ChainInv
<1> USE DEF IInv, TypeOK
<1>0. ConnTypes /\ ThreadTypes /\ PageTypes
  OBVIOUS
<1>1. CASE CallPlugin
  BY <1>0, <1>1 DEF ChainInv, Pending, CallPlugin, DeletePage, Starts, MainInv, OneLive, RecvInv, ThreadTypes, PageTypes, ConnTypes
<1>2. CASE PickInMenu
  BY <1>0, <1>2 DEF ChainInv, Pending, PickInMenu, Starts, MainInv, OneLive, RecvInv, ThreadTypes, PageTypes, ConnTypes
<1>3. CASE CloseMenu
  BY <1>0, <1>3 DEF ChainInv, Pending, CloseMenu, MainInv, OneLive, RecvInv, ThreadTypes, PageTypes, ConnTypes
<1>4. CASE PageKey
  BY <1>0, <1>4, SendKeepsPending DEF ChainInv, Pending, PageKey, Send, MainInv, OneLive, RecvInv, ThreadTypes, PageTypes, ConnTypes
<1>5. CASE PageBack
  <2>1. ~AtLoop' /\ recv' = recv
    BY <1>5 DEF PageBack, DeletePage
  <2>2. QED
    BY <1>0, <1>5, <2>1, SendKeepsPending DEF ChainInv, PageBack, Send
<1>6. CASE PageLeft
  BY <1>0, <1>6 DEF ChainInv, Pending, PageLeft, DeletePage, Starts, MainInv, OneLive, RecvInv, ThreadTypes, PageTypes, ConnTypes
<1>7. CASE SizeHook
  BY <1>0, <1>7 DEF ChainInv, Pending, SizeHook, Starts, MainInv, OneLive, RecvInv, ThreadTypes, PageTypes, ConnTypes
<1>8. CASE GetMenu
  BY <1>0, <1>8 DEF ChainInv, Pending, GetMenu, MainInv, OneLive, RecvInv, ThreadTypes, PageTypes, ConnTypes
<1>9. CASE GetNothing
  BY <1>0, <1>9 DEF ChainInv, Pending, GetNothing, MainInv, OneLive, RecvInv, ThreadTypes, PageTypes, ConnTypes
<1>10. ASSUME NEW p \in Pages, GetPage(p) PROVE ChainInv'
  BY <1>0, <1>10 DEF ChainInv, Pending, GetPage, MainInv, OneLive, RecvInv, ThreadTypes, PageTypes, ConnTypes
<1>11. CASE LoadPage
  BY <1>0, <1>11, ZenonT(60) DEF ChainInv, Pending, LoadPage, Starts, MainInv, OneLive, RecvInv, ThreadTypes, PageTypes, ConnTypes
<1>12. CASE DisplayDelete
  BY <1>0, <1>12 DEF ChainInv, Pending, DisplayDelete, Go, MainInv, OneLive, RecvInv, ThreadTypes, PageTypes, ConnTypes
<1>13. CASE DisplayNew
  BY <1>0, <1>13 DEF ChainInv, Pending, DisplayNew, Go, MainInv, OneLive, RecvInv, ThreadTypes, PageTypes, ConnTypes
<1>14. CASE SizeForget
  BY <1>0, <1>14 DEF ChainInv, Pending, SizeForget, Go, MainInv, OneLive, RecvInv, ThreadTypes, PageTypes, ConnTypes
<1>15. CASE SizeRead
  BY <1>0, <1>15 DEF ChainInv, Pending, SizeRead, Go, MainInv, OneLive, RecvInv, ThreadTypes, PageTypes, ConnTypes
<1>16. CASE SizeLock
  BY <1>0, <1>16 DEF ChainInv, Pending, SizeLock, Go, MainInv, OneLive, RecvInv, ThreadTypes, PageTypes, ConnTypes
<1>17. CASE SizeCreate
  BY <1>0, <1>17 DEF ChainInv, Pending, SizeCreate, Go, MainInv, OneLive, RecvInv, ThreadTypes, PageTypes, ConnTypes
<1>18. CASE DisplayOsdu
  BY <1>0, <1>18, SendKeepsPending DEF ChainInv, Pending, DisplayOsdu, Go, Send, MainInv, OneLive, RecvInv, ThreadTypes, PageTypes, ConnTypes
<1>19. CASE DtorPause
  BY <1>0, <1>19, SendKeepsPending DEF ChainInv, Pending, DtorPause, Go, Send, MainInv, OneLive, RecvInv, ThreadTypes, PageTypes, ConnTypes
<1>20. CASE DtorOsd
  BY <1>0, <1>20 DEF ChainInv, Pending, DtorOsd, Go, MainInv, OneLive, RecvInv, ThreadTypes, PageTypes, ConnTypes
<1>21. CASE DtorUnlock
  BY <1>0, <1>21 DEF ChainInv, Pending, DtorUnlock, Go, MainInv, OneLive, RecvInv, ThreadTypes, PageTypes, ConnTypes
<1>22. CASE DtorForget
  BY <1>0, <1>22 DEF ChainInv, Pending, DtorForget, MainInv, OneLive, RecvInv, ThreadTypes, PageTypes, ConnTypes
<1>23. CASE RecvUpdate
  BY <1>0, <1>23 DEF ChainInv, Pending, RecvUpdate, MainInv, OneLive, RecvInv, ThreadTypes, PageTypes, ConnTypes
<1>24. CASE RecvSize
  BY <1>0, <1>24 DEF ChainInv, Pending, RecvSize, RecvGo, MainInv, OneLive, RecvInv, ThreadTypes, PageTypes, ConnTypes
<1>25. CASE RecvDrop
  BY <1>0, <1>25 DEF ChainInv, Pending, RecvDrop, Finishes, Waiting, Freed, Constructed, MainInv, OneLive, RecvInv, ThreadTypes, PageTypes, ConnTypes
<1>26. CASE RecvLock
  <2>1. recv'.pc \in {"osdu", "draw"} /\ recv'.p = recv.p
    BY <1>0, <1>26 DEF RecvLock, RecvGo, ThreadTypes
  <2>2. QED
    BY <1>0, <1>26, <2>1 DEF ChainInv, Pending, RecvLock
<1>27. CASE RecvDraw
  BY <1>0, <1>27 DEF ChainInv, Pending, RecvDraw, RecvGo, MainInv, OneLive, RecvInv, ThreadTypes, PageTypes, ConnTypes
<1>28. CASE RecvOsdu
  BY <1>0, <1>28, SendKeepsPending DEF ChainInv, Pending, RecvOsdu, RecvGo, Send, MainInv, OneLive, RecvInv, ThreadTypes, PageTypes, ConnTypes
<1>29. CASE RecvUnlock
  BY <1>0, <1>29 DEF ChainInv, Pending, RecvUnlock, Finishes, Waiting, Freed, Constructed, MainInv, OneLive, RecvInv, ThreadTypes, PageTypes, ConnTypes
<1>30. CASE BrowserPaints
  BY <1>0, <1>30 DEF ChainInv, Pending, BrowserPaints, MainInv, OneLive, RecvInv, ThreadTypes, PageTypes, ConnTypes
<1>31. CASE BrowserChanges
  BY <1>0, <1>31 DEF ChainInv, Pending, BrowserChanges, MainInv, OneLive, RecvInv, ThreadTypes, PageTypes, ConnTypes
<1>32. CASE DeviceChanges
  BY <1>0, <1>32 DEF ChainInv, Pending, DeviceChanges, MainInv, OneLive, RecvInv, ThreadTypes, PageTypes, ConnTypes
<1>33. CASE UNCHANGED vars
  BY <1>33 DEF ChainInv, Pending, vars
<1>34. QED
  BY <1>1, <1>2, <1>3, <1>4, <1>5, <1>6, <1>7, <1>8, <1>9, <1>10, <1>11, <1>12, <1>13, <1>14,
     <1>15, <1>16, <1>17, <1>18, <1>19, <1>20, <1>21, <1>22, <1>23, <1>24, <1>25, <1>26,
     <1>27, <1>28, <1>29, <1>30, <1>31, <1>32, <1>33
     DEF Next, Loop, Get, Display, Dtor, Recv, Environment

\* While a page of legal size is shown and its browser is there, a picture may
\* be sent, is on its way or is being drawn: of every page, whatever updates
\* were begun for deleted ones (cefhbbtvpage.c:80-116 and 247-354).
THEOREM ChainsUnbroken == Spec => []ChainUnbroken
<1>1. Init => ChainInv
  BY DEF Init, ChainInv
<1>2. IInv /\ ChainInv => ChainUnbroken
  BY DEF ChainInv, ChainUnbroken, Pending
<1>3. QED
  BY Inductive, ChainStep, <1>1, <1>2, PTL DEF Spec

=============================================================================
