---------------------------- MODULE ChannelUrls -----------------------------
(***************************************************************************)
(* Who reads and writes the list of the channel's applications, and what   *)
(* the browser is told.                                                    *)
(*                                                                         *)
(* The thread that switches channels (cHbbtvDeviceStatus::ChannelSwitch)   *)
(* detaches the AIT filter and clears the list before VDR tunes, tells the *)
(* browser the new channel, adds the applications remembered for it and    *)
(* attaches a new filter.  The section handler runs the filter, which adds *)
(* the applications of a received AIT and remembers them.  The receiver of *)
(* the browser's messages answers SEND_INIT with the channel and the whole *)
(* list.  The list has no lock: switch and filter are kept apart only by   *)
(* VDR, whose Detach waits for a running Process and runs none afterwards. *)
(*                                                                         *)
(* A message is sent before the entry is inserted, which may take seconds, *)
(* and its sender does not look at whether it was sent.                    *)
(*                                                                         *)
(* Abstracted: the PAT and PMT that lead to the AIT.                       *)
(***************************************************************************)
EXTENDS UrlList

CONSTANTS
    Channel,     \* the channels
    Url,         \* the addresses
    App,         \* the applications, as an AIT describes them
    Ait,         \* Ait[c]: the application loops channel c may broadcast
    NoChannel,   \* no channel, or no device
    NoEntry      \* a null pointer

Entry == [id : Byte, cc : Byte, url : Url, ext : BOOLEAN]
Lines == [chan : Channel, id : Byte, cc : Byte, url : Url, ext : BOOLEAN]

ASSUME AppAssumption ==
    App \subseteq [app : Uint16, cc : Byte, url : Url, ext : BOOLEAN]

ASSUME AitAssumption ==
    /\ Ait \in [Channel -> SUBSET Seq(App)]
    /\ NoChannel \notin Channel
    /\ NoEntry \notin Entry

VARIABLES
    list,        \* cHbbtvURLs::hbbtvURLs
    allUrls,     \* cHbbtvURLs::allURLs, the lines ever seen
    current,     \* cDevice::CurrentChannel()
    attached,    \* cHbbtvDeviceStatus::device is set and has the filter
    switch,      \* the step of the channel switch
    target,      \* the channel that is switched to
    row,         \* the row of allUrls the switch has reached
    loop,        \* the applications the running Process has still to add
    adding,      \* adding[w]: AddSortedUniqe has sent it and not yet inserted it
    asked,       \* the browser's SEND_INIT is on its way
    init,        \* the step of the answer to SEND_INIT
    announced,   \* the channel the answer has looked up
    cursor,      \* the list's element the answer has reached
    told,        \* the channel the browser was told last
    known,       \* the entries the browser was sent
    missed       \* history: the others, of which a sending failed or met the last one

switchVars == <<switch, target, row, attached>>
initVars   == <<init, announced, cursor>>
sent       == <<known, missed>>
browserVars == <<asked, told, sent>>
vars == <<list, allUrls, current, switchVars, loop, adding, initVars, browserVars>>

\* The threads that call AddSortedUniqe.
Writer == {"switch", "filter"}

Init ==
    /\ list = <<>>
    /\ allUrls = <<>>
    /\ current = NoChannel
    /\ attached = FALSE
    /\ switch = "idle"
    /\ target = NoChannel
    /\ row = 1
    /\ loop = <<>>
    /\ adding = [w \in Writer |-> NoEntry]
    /\ init = "idle"
    /\ announced = NoChannel
    /\ cursor = NoEntry
    /\ asked = FALSE
    /\ told = NoChannel
    /\ known = {} /\ missed = {}

\* SendToBrowser: the message is sent, or the browser was stopped, is away, is
\* started again, or nn_send fails.
SendAppUrl(e) ==
    \/ known' = known \cup {e} /\ missed' = missed \ {e}
    \/ missed' = missed \cup ({e} \ known) /\ UNCHANGED known

\* Mutant: the entry is not sent.
AddUnsent(w, e) ==
    /\ adding[w] = NoEntry
    /\ adding' = [adding EXCEPT ![w] = e]
    /\ UNCHANGED sent

\* AddSortedUniqe: "at first send data to the browser", ...
AddSend(w, e) ==
    /\ adding[w] = NoEntry
    /\ SendAppUrl(e)
    /\ adding' = [adding EXCEPT ![w] = e]

\* ... then insert, whatever came of it.
AddInsert(w) ==
    /\ adding[w] # NoEntry
    /\ list' = Add(list, adding[w])
    /\ adding' = [adding EXCEPT ![w] = NoEntry]

-----------------------------------------------------------------------------
(* The channel switch.                                                     *)

\* Mutant: the list is kept.
SwitchBeginKeepsList(c) ==
    /\ switch = "idle"
    /\ attached => loop = <<>>
    /\ switch' = "tune"
    /\ target' = c
    /\ attached' = FALSE
    /\ UNCHANGED <<list, allUrls, current, row, loop, adding, initVars, browserVars>>

\* ChannelSwitch(0): detach, which waits for a running Process, and clear.
SwitchBegin(c) ==
    /\ switch = "idle"
    /\ attached => loop = <<>>
    /\ switch' = "tune"
    /\ target' = c
    /\ attached' = FALSE
    /\ list' = IF attached THEN <<>> ELSE list
    /\ UNCHANGED <<allUrls, current, row, loop, adding, initVars, browserVars>>

\* VDR cannot tune and reports nothing more.
TuneFails ==
    /\ switch = "tune"
    /\ switch' = "idle" /\ target' = NoChannel
    /\ UNCHANGED <<list, allUrls, current, row, attached, loop, adding, initVars, browserVars>>

TuneSucceeds ==
    /\ switch = "tune"
    /\ switch' = "tell"
    /\ current' = target
    /\ UNCHANGED <<list, allUrls, target, row, attached, loop, adding, initVars, browserVars>>

\* ChannelSwitch(n): the CHANNEL message, which may fail, then the rows of this
\* channel.
SwitchTell ==
    /\ switch = "tell"
    /\ told' \in {told, target}
    /\ row' = 1
    /\ switch' = "add"
    /\ UNCHANGED <<list, allUrls, current, target, attached, loop, adding, initVars, asked, sent>>

AtRow == switch = "add" /\ row <= Len(allUrls)

\* The row is another channel's.
SwitchSkip ==
    /\ AtRow
    /\ allUrls[row].chan # target
    /\ row' = row + 1
    /\ UNCHANGED <<list, allUrls, current, switch, target, attached, loop, adding, initVars, browserVars>>

SwitchSend ==
    /\ AtRow
    /\ allUrls[row].chan = target
    /\ AddSend("switch", FromLine(allUrls[row]))
    /\ UNCHANGED <<list, allUrls, current, switchVars, loop, initVars, asked, told>>

SwitchInsert ==
    /\ AddInsert("switch")
    /\ row' = row + 1
    /\ UNCHANGED <<allUrls, current, switch, target, attached, loop, initVars, browserVars>>

SwitchAttach ==
    /\ switch = "add"
    /\ row > Len(allUrls)
    /\ attached' = TRUE
    /\ switch' = "idle" /\ target' = NoChannel /\ row' = 1
    /\ UNCHANGED <<list, allUrls, current, loop, adding, initVars, browserVars>>

-----------------------------------------------------------------------------
(* The filter: cAIT adds and remembers the applications one by one.        *)

AitReceived ==
    /\ attached
    /\ loop = <<>>
    /\ \E l \in Ait[current] : loop' = l
    /\ UNCHANGED <<list, allUrls, current, switchVars, adding, initVars, browserVars>>

\* The line carries the channel that is current now.
Remember(e) ==
    LET l == Line(current, e)
    IN  allUrls' = IF \E i \in 1..Len(allUrls) : allUrls[i] = l
                     THEN allUrls ELSE <<l>> \o allUrls

AitSend ==
    /\ loop # <<>>
    /\ AddSend("filter", NewUrl(Head(loop)))
    /\ UNCHANGED <<list, allUrls, current, switchVars, loop, initVars, asked, told>>

AitInsert ==
    /\ AddInsert("filter")
    /\ Remember(adding["filter"])
    /\ loop' = Tail(loop)
    /\ UNCHANGED <<current, switchVars, initVars, browserVars>>

-----------------------------------------------------------------------------
(* The answer to SEND_INIT.                                                *)

\* A browser starts: it knows nothing, and asks.  What was sent to the one
\* before it and is not in the list yet may miss the answer, too.
BrowserStart ==
    /\ asked' = TRUE
    /\ told' = NoChannel
    /\ known' = {}
    /\ missed' = {adding[w] : w \in Writer} \ {NoEntry}
    /\ UNCHANGED <<list, allUrls, current, switchVars, loop, adding, initVars>>

\* The receiver looks up the channel; SendToBrowser may wait for a second.
InitBegin ==
    /\ init = "idle"
    /\ asked
    /\ current # NoChannel
    /\ asked' = FALSE
    /\ announced' = current
    /\ init' = "tell"
    /\ UNCHANGED <<list, allUrls, current, switchVars, loop, adding, cursor, told, sent>>

InitTell ==
    /\ init = "tell"
    /\ told' \in {told, announced}
    /\ announced' = NoChannel
    /\ init' = "first"
    /\ UNCHANGED <<list, allUrls, current, switchVars, loop, adding, cursor, asked, sent>>

\* The walk reaches element i of the list, or its end.
WalkTo(i) ==
    IF i <= Len(list) THEN init' = "send" /\ cursor' = list[i]
    ELSE init' = "idle" /\ cursor' = NoEntry

InitFirst ==
    /\ init = "first"
    /\ WalkTo(1)
    /\ UNCHANGED <<list, allUrls, current, switchVars, loop, adding, announced, asked, told, sent>>

\* The element may have been deleted meanwhile; its text is garbage then.
InitSend ==
    /\ init = "send"
    /\ IF Listed(list, cursor) THEN SendAppUrl(cursor) ELSE UNCHANGED sent
    /\ init' = "next"
    /\ UNCHANGED <<list, allUrls, current, switchVars, loop, adding, announced, cursor, asked, told>>

\* The successor of a deleted element is anything.
InitNext ==
    /\ init = "next"
    /\ IF Listed(list, cursor)
         THEN \E i \in 1..Len(list) : list[i] = cursor /\ WalkTo(i + 1)
         ELSE \E i \in 1..(Len(list) + 1) : WalkTo(i)
    /\ UNCHANGED <<list, allUrls, current, switchVars, loop, adding, announced, asked, told, sent>>

-----------------------------------------------------------------------------
Next ==
    \/ \E c \in Channel : SwitchBegin(c)
    \/ TuneFails \/ TuneSucceeds
    \/ SwitchTell \/ SwitchSkip \/ SwitchSend \/ SwitchInsert \/ SwitchAttach
    \/ AitReceived \/ AitSend \/ AitInsert
    \/ BrowserStart
    \/ InitBegin \/ InitTell \/ InitFirst \/ InitSend \/ InitNext

Spec == Init /\ [][Next]_vars

-----------------------------------------------------------------------------
TypeOK ==
    /\ list \in Seq(Entry)
    /\ allUrls \in Seq(Lines)
    /\ current \in Channel \cup {NoChannel}
    /\ attached \in BOOLEAN
    /\ switch \in {"idle", "tune", "tell", "add"}
    /\ target \in Channel \cup {NoChannel}
    /\ row \in 1..(Len(allUrls) + 1)
    /\ loop \in Seq(App)
    /\ adding \in [Writer -> Entry \cup {NoEntry}]
    /\ asked \in BOOLEAN
    /\ init \in {"idle", "tell", "first", "send", "next"}
    /\ announced \in Channel \cup {NoChannel}
    /\ cursor \in Entry \cup {NoEntry}
    /\ told \in Channel \cup {NoChannel}
    /\ known \subseteq Entry /\ missed \subseteq Entry

\* The list is strictly ascending in control code and application id, whoever
\* has added to it (hbbtvurl.c:140-174).
ListSorted == Sorted(list)

\* The addresses a channel's AIT names.
UrlsOf(c) == UNION {{l[i].url : i \in 1..Len(l)} : l \in Ait[c]}

\* No application of another channel is in the list: not from a filter that
\* outlives the switch, nor from the store under a wrong name (status.c:29-75,
\* ait.c:133-142).
ListOfChannel ==
    switch # "tune" =>
        \A i \in 1..Len(list) : current # NoChannel /\ list[i].url \in UrlsOf(current)

\* The filter and the switch never write the list at the same time, although
\* no lock protects it (status.c:37-44, 72).
WritersApart == loop # <<>> => attached /\ switch = "idle"

\* Whatever the store knows of the current channel is in the list once the
\* filter is attached, the lines the filter adds included (status.c:62-68).
StoredIsListed ==
    (attached /\ current # NoChannel) =>
        \A i \in 1..Len(allUrls) :
            allUrls[i].chan = current => Contains(list, FromLine(allUrls[i]))

Quiet == switch = "idle" /\ loop = <<>> /\ init = "idle" /\ ~asked

\* When nothing is under way, the browser has been sent every entry of the
\* list since it started, though it asks at any time and the list changes
\* under the walk (browsercommunication.c:145-155, hbbtvurl.c:126-134).  The
\* only entries it can lack are those whose last sending failed and those that
\* were on their way from the sending to the list when it started.
BrowserKnowsList ==
    Quiet => \A i \in 1..Len(list) : list[i] \in known \cup missed

\* What the sources say and the code does not do: TLC finds both violated.
\* browsercommunication.c:144, "send current channel to browser": when nothing
\* is under way, the channel sent last is the current one.
BrowserKnowsChannel == Quiet /\ attached => told = current

\* hbbtvurl.h:49, "considered unique if ControlCOde and ApplicationID is
\* different": an application is refused only if one of the same control code
\* and application id is in the list.
RefusedOnlyIfEqual ==
    [][AitInsert =>
        LET a == Head(loop)
        IN  \E i \in 1..Len(list') : \E b \in App :
                /\ b.url = list'[i].url
                /\ b.app = a.app /\ b.cc = a.cc]_vars

=============================================================================
