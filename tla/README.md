# Formal model of vdr-plugin-hbbtv

The VDR plugin *hbbtv* lets the Video Disk Recorder show HbbTV applications.
It does not render them itself: a separate program, *vdrosrbrowser*, does, and
the plugin starts and supervises it, tells it what channel and which key, shows
the pictures it draws on VDR's OSD, and plays the video it streams.  The two
talk over *nng*, whose source is part of the repository.  This directory holds
TLA+ modules of the plugin's own logic and of the part of nng it runs on, the
TLC configurations that check them on small instances, and TLAPS proofs.

All references `file:line` are to files of the repository; `map` in
`PROJECT.json` names the lines each definition stands for.

## 1. Inventory

| Component | Source | State | Operations |
|---|---|---|---|
| Browser process supervision | hbbtv.c 38-46, 229-251, 287-400, 515-542; globals.c 15-37 | `OsrBrowserPid` (-1 external, 0 never started, -2 stopped, else a pid), `browser_start_mtx`, the child process, the SIGCHLD handler | start, stop, restart, is-alive, automatic restart |
| Communication | browsercommunication.c | two nanomsg sockets, `browserStarted`, `lastHeartbeat`, the receiver thread | SendToBrowser, receive loop, Heartbeat, SendKey |
| Plugin | hbbtv.c | `showPlayer`, `currentUrlChannel`, the URL writer thread | Start, Stop, MainThreadHook, Service, SVDRP commands |
| URL store | hbbtv.c 81-167, hbbtvurl.c `AllURLs` | the list of all URLs ever seen, its file | read at start, insert, write every five minutes and at stop |
| URL list | hbbtvurl.c | the sorted list of the channel's applications | AddSortedUniqe, clear at a channel switch, (un)parsing of a line |
| AIT filter | ait.c | PAT/PMT/AIT pids, version numbers, sync state | SetStatus, Process, Trigger |
| Channel status | status.c | the filter attached to the device, channel ids | ChannelSwitch |
| OSD page | cefhbbtvpage.c | `hbbtvPage`, the OSD, its pixmap, `show_mutex` | Display, loadPage, reopen, readOsdUpdate, key forwarding, close |
| OSD dispatcher and menus | osddispatcher.c, hbbtvmenu.c | `osdType`, `hbbtvUrl`, menu items, bookmarks | MainMenuAction, the menus' keys |
| Video player | hbbtvvideocontrol.c | socket, packet buffer and its fill, the player's thread | Reconnect, Pause, Resume, the three readers |
| Player and control | hbbtvvideocontrol.c, hbbtv.c 182-227, 278-284 | `hbbtvVideoPlayer`, VDR's control, the device, `showPlayer` | PLAY, STOP, SEEK, MainThreadHook, both destructors, Activate |
| Video geometry | globals.c 77-124 | `video_x, video_y, video_width, video_height` | SetVideoSize, default size |
| nng: asynchronous I/O | nng core/aio.c, core/taskq.c | aios, their tasks, the list of deadlines | begin, schedule, finish, abort, close, stop, fini, expire |
| nng: queues and pipeline sockets | nng core/msgqueue.c, protocol/pipeline0, nng.c, compat/nanomsg/nn.c | the upper queues, the pipes' aios | nn_send, nn_recv, the callbacks of push and pull, nn_close |
| nng: dialer, pipes, reaper | nng core/dialer.c, socket.c, pipe.c, reap.c, transport/ipc | the dialer, its timer and pipe, references, the reaper's list | connect, greet, redial, add, close and destroy a pipe, nn_close |
| Shared memory | osdshm.c | the pixel buffer the browser writes | attach, detach |

How they interact.  VDR's **main thread** runs the menus, keys, MainThreadHook,
the channel-switch callback and the plugin's Start and Stop.  The **SVDRP
server** runs SVDRPCommand on a thread of its own, the **section handler** runs
the AIT filter, and the plugin's own **receiver thread** takes the browser's
messages: status texts (handled in place or handed to `Service`), OSD updates
(`readOsdUpdate` of the page), pings.  The **player thread** reads the video
socket, the **URL writer** is a detached thread.  All of them reach
`SendToBrowser`, and through it the restart of the browser.  Below them run
nng's threads: those of the **task queue** call back, one **expires** deadlines,
the **poller** completes what the kernel has done, the **reaper** destroys.
The plugin's shared state is plain global variables; there are three locks
(`browser_start_mtx`, `show_mutex`, `controlMutex`) and each covers less than
the state it is near.

What is hard, and to what the properties aim (every hazard with its line is in
`PROJECT.json`):

* stop and restart of the browser by several threads, with only *start* locked;
  the pid read again between kill, wait and reset; the asynchronous SIGCHLD
  handler; a pid that stays recorded after a crash;
* a receiver thread that waits for an event only it can deliver;
* the page, the player and the device status used by a thread while another
  deletes them;
* the ping-pong of OSD updates, which stops for good when one answer is lost;
* the video reader that assembles transport-stream packets from datagrams of
  any size, and is restarted in the middle of a packet by seek and resume;
* the AIT state machine: a channel switch between two sections, a version that
  does not change, a table that is never seen again;
* the URL list: order and uniqueness under keys that are narrower than the data;
* the URL file: truncated before it is written, by a thread nobody joins;
* in nng: cancel functions called after the lock was given back, an aio released
  while its task or its timer is at work, a message that waits beside somebody
  who asks for it, a dialer that must start exactly one thing when another ends,
  and pipes closed by three parties and destroyed by one.

## 2. Modules and plan

In order of importance; (P) marks what is proved as well.

| Step | Modules | State |
|---|---|---|
| 1 | `BrowserPidProtocol`, `BrowserProcess`, `BrowserProcessHistory`: the supervision (P) | done, section 3 |
| 2 | `UrlList`, `ChannelUrls`: the list of applications, the channel switch, the AIT's applications, SEND_INIT (P) | done, section 4 |
| 3 | `AitFilter`: PAT, PMT and AIT sections in any order (P) | done, section 5 |
| 4 | `VideoReader`: the player's thread, packet framing, pause, resume, seek (P) | done, section 6 |
| 5 | `OsdPage`: the page, its OSD and pixmap between the main and the receiver thread, `show_mutex`, the chain of OSDU messages, `osdType` (P) | done, section 7 |
| 6 | `PlayerControl`: making and deleting players and controls, the video geometry (P) | done, section 8 |
| 7 | `UrlStore`: the file, the detached writer thread, crashes, Stop (P) | done, section 9 |
| 8 | `NngAio`: asynchronous operations, tasks, deadlines (P) | done, section 10 |
| 9 | `NngMsgQueue`, `NngPipeline`, `LossyChannel`: from nn_send to nn_recv (P) | done, section 11 |
| 10 | `NngEndpoint`: dialer, pipes, reaper, nn_close (P) | done, section 12 |
| 11 | composition: the receive loop as one thread of all its messages; the order of deletions in Stop | left |

`BrowserProcess` and `BrowserPidProtocol`, and `NngPipeline` and `LossyChannel`,
are a detailed and an abstract specification of the same thing; `ChannelUrls`
is built on `UrlList` and `NngPipeline` on `NngMsgQueue`.  In the modules of the
plugin a send to the browser may fail where its result decides something
(`BrowserProcess`, `ChannelUrls`, `OsdPage`); one that nn_send took they take for delivered,
which is what `NngPipeline` and `NngEndpoint` show up to a broken connection.

Every component has a type invariant, and every one is proved (`TypeCorrect`,
`StoreTypeCorrect`, `AioTypeCorrect`, `EndpointTypeCorrect`); the runs do not check them
again.  Two proof modules hold the theorems of two components each
(`ApplicationProofs` and `NngCoreProofs`); so that both can be extended there, the
definitions of `UrlStore` and `NngAio` have names of their own (`StoreInit`,
`AioNext`, ...).

## 3. Browser process supervision

`BrowserPidProtocol` is the abstract promise of the register `OsrBrowserPid`: an
external browser's register never changes; a managed one goes from 0 to a pid,
from a pid to "stopped" and from there to a pid that was never recorded before.

`BrowserProcess` is the code.  A thread `t` has a program counter `pc[t]`, the
call it is in (`job[t]`) and the local that matters (`arg[t]`: the result of
fork, or the pid waitpid was called with).  Every access to the register and
every system call is a step of its own, so the model has exactly the races the
code has.  `proc` is the kernel's view of the children: a browser runs until it
exits by itself (a crash, a failed exec) or because of SIGTERM, is then a
zombie until somebody waits for it, and the SIGCHLD handler may run between any
two steps.  `Commands[t]` says which user commands a thread runs; every thread
sends messages.  `Init` is the state in which `cPluginHbbtv::Start` calls
startVdrOsrBrowser on the main thread; the other threads exist only when Start
is done (`PluginStarted`).

Abstractions: message texts; pids are not reused (a reused pid could be sent a
SIGTERM meant for the dead browser, a hazard no run shows); heartbeats of a
managed browser, which no step of this component asks for.

`BrowserProcessHistory` adds a history variable (two stops have overlapped) and
the properties that need it.

Run process: two threads, of which the main one runs all commands and both send,
two pids, started with -s and without.  It shows `OrphanNeedsOverlap` (browsers
are lost only when stops overlap), `ImplementsProtocol` (the register follows
`BrowserPidProtocol`), and the liveness `CallsReturn`, `RecordedIsCollected` and
`DeadIsReplaced`.

Bounds.  Two pids allow a browser, its replacement and then a failing fork;
losing a browser takes two of them.  Two threads allow a command that overlaps
an automatic restart, or two restarts; every interaction found needs two, and
the theorems hold for any number.

Fairness.  A thread inside a call runs on (weak fairness of its steps).  The
lock is held for a fork and contended by a user and by messages, so a thread
waiting for it gets it (strong fairness of `StartEnter`).  A browser that was
sent SIGTERM exits, a pending signal is delivered.  Nothing forces a browser to
ping, a user to act or a running browser to end.

Proved in `BrowserProcessProofs`, for every set of threads, commands and pids:
`TypeCorrect`, `StartsAreExclusive`, `ProtocolImplemented`,
`OrphansNeedOverlap`, `ExternalLeftAlone`.  The inductive invariant `IInv` adds
to the type invariant that a thread between the pid test and the assignment
holds the lock while the register holds no pid (`LockHeld`), that what is about
to be recorded is a forked child (`ForkedArg`), that whatever is recorded was
forked, and that stops and forks happen only to managed browsers.  The orphan
theorem needs that, as long as stops do not overlap, a stopping thread *owns*
the register (`StopOwnsRegister`): starts do not write over a pid, nobody else
forgets it, so the pid it waits for is the recorded one.  Assumptions: the named
ASSUMEs of `BrowserProcess` (the sentinels are no pids, the main thread and the
receiver are threads).  Liveness is only model-checked.

## 4. The application list and the channel switch

`UrlList` holds the pure part: an entry (application id and control code narrowed
to a byte, as the constructor's `uchar` parameters do), `Compare`, the three
cases of the insertion in `AddSortedUniqe`, the line an entry is stored as and
what is left of it when it is read (`FromString` loses the last field).

`ChannelUrls` has the three parties that share the list.  The main thread
switches channels (`SwitchBegin`: detach the filter, clear the list;
`TuneSucceeds` or `TuneFails`: VDR's; `SwitchTell`, then row by row `SwitchSkip` or
`SwitchSend` and `SwitchInsert`, `SwitchAttach`).  The section handler delivers an AIT
(`AitReceived`) and adds its applications one by one (`AitSend`, `AitInsert`), to the
list and to the lines remembered.  `AddSortedUniqe` sends first and inserts then, and
the sending may take seconds (ten rounds of waiting, nn_send's timeout), so the two
are steps of their own (`AddSend`, `AddInsert`) with a browser's start or a part of
the walk possibly in between.  Every sending may fail, and no caller looks at it
(`SendAppUrl`).
The receiver thread answers SEND_INIT (`InitBegin` looks the channel up,
`InitTell` sends it, then the walk `InitFirst`, `InitSend`, `InitNext`).  The list
has no lock, so the walk may stand on an element that is deleted: what it reads
there is undefined, and the model lets it go on anywhere in the list or end.

Assumed of VDR: `Detach` of a filter waits for a running `Process` and lets none
run afterwards; a channel switch is reported with 0 before and the channel's
number after tuning.  Abstracted: the AIT's remaining descriptors.

`BrowserKnowsList` therefore has a history: `missed` has the entries of which a
sending failed, or went to the browser before the present one while the entry was
not inserted yet.  These are the only entries of the list that a browser can lack
when nothing is under way; a later sending takes them out again.  That the code
neither looks at a failed sending nor repeats it is not a property but what `missed`
records.

| Run | Instance | Shows |
|---|---|---|
| urls_safety | two channels; one with two AITs, an address that changes and an id of more than a byte | `ListSorted`, `ListOfChannel`, `BrowserKnowsList` |

Bounds.  There is no counter to bound: the store holds every line at most once,
so the state is finite.  Two channels are enough for "the other channel's"
entries; three entries reach the insertion's front, middle and end.

Proved in `ChannelUrlsProofs`, for all channels, applications and AITs:
`TypeCorrect`, `ListIsSorted`, `WritersAreApart`, `ListIsOfChannel`,
`StoredAreListed`, `BrowserIsToldList`.  The insertion's contract is a lemma of its own (for a sorted
list the result is sorted, holds the new key, and nothing else is new or lost).
The invariant adds in which phases of a switch the filter can be attached and
running (`Phases`), that a running `Process` adds applications of the current
channel and every stored line names one of its own (`OfChannel`), and that each
row the switch has passed is in the list if it is the channel's (`RowsListed`).
`BrowserIsToldList` needs an invariant of its own that follows the walk through every
change of the list, `WalkInv`: an entry the browser has neither been sent nor missed is one the walk
has yet to say (`Unsaid`), because it is asked for, has just begun, or stands before
that entry in the order of the list.  An entry is sent, or missed, before it is
inserted (`Adding` says which entry is under way), and an insertion keeps the order of
the others; an element can vanish under the walk only when the list is cleared, and
then whatever is in the list was sent or missed when it was added, so it does not
matter where a walk over freed memory goes on.

## 5. The AIT filter

`AitFilter` is `cAitFilter`: what has been read is remembered by version
(`patVersion`, `pmtVersion`), `filters` counts the filters VDR has for each pid.
One section is one step, since `Process` runs under the section handler's lock:
`ProcessPat`, and for a PMT `PmtChanged` (start over at the PAT), `PmtNothingNew`
and `PmtNewAits`, `ProcessAit` and `DamagedAit` (the filter is deleted although the
checksum is wrong).  `SetStatusOn` and `SetStatusOff` are VDR's reports of the
signal, `Elapse` is the passing of the seconds until the next check, and the
broadcaster changes tables at any time.

Run ait_filter: two PMT pids, two AIT pids with two contents, three changes of
tables or signal, and version numbers that begin at 31 so that the first change
wraps.  It shows `StaysAttentive` and the liveness `AitFound`.  Three changes
are a change of each of two tables and a loss of signal, or a change and its
undoing.  `MaxChanges` may be at most 31 for any
instance (a named assumption): after 32 changes between two looks a table has
its old version number again and is not read, as for every receiver.

Fairness: tables are repeated (weak fairness of `ProcessPat` and of the PMT's
steps), a damaged section is followed by an intact one sooner or later (strong
fairness of `ProcessAit`), time passes, a lost signal returns.

Assumed: a pid carries one kind of table, and the PMT of one service (the code
does not compare the PMT's service id; a known hazard).

Proved in `ApplicationProofs`, for all pids, contents and bounds: `TypeCorrect`,
`FiltersAreSingle`, `FiltersAreOwn`, `FilterListens`.  The conjunction of the four
is inductive: none is by itself, since a deletion takes away one filter, which
leaves none only if there was at most one, and of the right pid only if there
is no other.

## 6. The video reader

`VideoReader` models `HbbtvVideoPlayer`'s thread against the messages SEEK_VIDEO,
PAUSE_VIDEO and RESUME_VIDEO, which the receiver thread handles in several
steps (detach, attach, and then Reconnect or Resume), and the main thread, which
attaches the player first.  Each reader is an incarnation of the thread: `Cancel(0)`
kills it at its next cancellation point and forgets it at once, so `Start` can
create the next one beside it; both then share `videosocket`, `filled`, `tsbuf`
and `connectRequested`.  The loop's steps follow the code: the request is tested
(`Copy`, `Leave`, `Close`), a new connection sets `filled` to 0
(`ReaderReconnects`), the rest of the last packet is copied in front, `Recv`
appends, `PlayPacket` plays whole packets and keeps the rest.

The stream is a sequence of units, `PacketSize` to a packet; a unit is the number
of its connection and its place in its packet.  So "whole packets of one
connection" can be said of what is played.  That a connection begins with a
whole packet is what the code supposes when it sets `filled` to 0.  The three
transports share their control; a UDP datagram larger than the buffer and the
lost rest of it are not modelled.

History: `trouble` names what has gone wrong and not been made good (two readers
at a time; a stream begun behind a rest; a seek that ended a pause; a start that
met a thread about to end; a connection that failed), `stale` the connections
there were at the last seek.  The code does all of these; the properties say what
holds outside them, and that each is over once a reader begins or connects anew.

| Run | Instance | Shows |
|---|---|---|
| video_reader | 2 readers, packets of 2 units, reads of up to 3, 3 messages, connections may fail | `OneReader`, `PlaysWhole`, `VideoFlows` |

Bounds.  Two readers are a killed one and its successor; three messages make a
pause, a resume and a seek in any order; a read gives from nothing to a packet
and a rest, and behind a kept rest anything from less than a packet to one packet.

Fairness: the threads run, and a reader that waits for data gets some or the end
of the stream (weak fairness of each reader).

Proved in `VideoReaderProofs`, for any number of readers and messages and any
sizes: `TypeCorrect`, `ReadersAreSingle`, `PauseHolds`, `PacketsAreWhole`.  The
invariant `Aligned` says at each place of the loop that the kept part, the buffer
and the browser's position agree: at `check` the kept part is as long as the
browser is inside a packet, and is the packet's beginning.  The arithmetic it
needs (dividing a number of bytes into packets and a rest) is proved from
`Division`; `ReaderThreads` says that outside an overlap there is one reader and
cThread knows it.

## 7. The OSD page

`OsdPage` has two threads.  The main thread is VDR's loop (`AtLoop`): it calls the
plugin (`Get*`, the modes of `OsdDispatcher::get`), hands keys to what is shown,
runs `MainThreadHook` (`SizeHook`), and deletes what is closed.  `Display` with
`SetOsdSize` (`DisplayDelete` .. `DisplayOsdu`) and the destructor (`DtorPause` ..
`DtorForget`) are walked step by step, since the receiver's `readOsdUpdate`
(`RecvSize`, `RecvLock`, `RecvDraw`, `RecvOsdu`, `RecvUnlock`) may come between any
two.  `obj[p]` is the page's memory: what its two pointers point to (nothing, a live
object, a deleted one), the size drawn for, the lock.  Every send is `Send`: without
a browser it sets `osdType` to CLOSE and queues a call of the plugin.

History: `overlap` (what the main thread did during the update under way),
`outage` (the browser was away since the page's last OSDU), `failed`.  The code
protects less than it needs: `UpdateAloneIsSafe` says what an update may rely on
when nothing overlaps it, `CreateExcludesDraw` what `show_mutex` adds; the
difference is the two hazards listed at cefhbbtvpage.c:133 and
browsercommunication.c:169.

Run osd_page: one address for pages (so that each page is made where the last one
was, the worst case for stale pointers), two legal sizes beside illegal and unset
ones, one picture on its way.  It shows the two invariants, `ChainUnbroken`, and
the liveness `FailedSendClosesPage` and `ResizeReachesPage`.  More addresses or
sizes add no case the code tells apart, and the theorems hold for any number.
`ResizeReachesPage` is about a size that differs from the one the hook compared
last: a size that changes after that comparison and changes back after SetOsdSize
has read it is missed by the code, since lastDisplay already names it.  The device
changes only where it is looked at (in the hook and in SetOsdSize), which leaves no
outcome out: a change between two looks is the same as one right before the second.

Fairness: both threads run; the hook runs in every turn of VDR's loop; a queued
call is handled in the end though keys may be before it (strong), and the lock is
free between two updates again and again (strong fairness of `SizeLock`).

Proved in `OsdPageProofs`: `TypeCorrect` (between two steps `hbbtvPage` never points
to a deleted page), `UpdatesAloneAreSafe`, `CreatesExcludeDraws`, `ChainsUnbroken`.  The invariant
`IInv` says how far each thread's step agrees with the page's memory (`PageInv`,
`RecvInv`), that only `hbbtvPage` is live (`OneLive`) and who holds the lock
(`LockInv`).  `ChainInv` adds where the browser's leave to paint is as long as the
browser stays: an update of a page that was deleted meanwhile ends without an OSDU,
and the next page's `Display` has sent its own by then.

## 8. Players, controls and the geometry

`PlayerControl` has the receiver thread with the browser's PLAY, STOP, SEEK, RESUME
and VIDEO_SIZE, and the main thread with the hook that makes player and control
(`HookTake`, `HookTest`, `HookNew`, `HookLaunch`) and all that ends one (keys,
`StopReplay`, other replays, hidden and deleted pages).

VDR's `cDevice::Detach` is a call of three unlocked steps: the device lets go of the
player (`DetachThen`), `Activate(false)` resets the flag and the variables (`Reset`),
and tells the device the full size (`Rescale`); it reaches `Activate` only for the
player the device has.  Attaching is `AttachThen` (which detaches first), `Put` and
`Activate`.  Deleting is `Shutdown` or `HookLaunch` under VDR's lock, then
`DeleteReset`, `DeleteDetach` with the steps of the call, and `DeleteFree`, on
whichever thread.  The control's destructor deletes not its own player but the one of
the global, as in the code.  `SetVideoSize` reads the size and applies it in two steps.

History: `clash` (both threads worked on players at once), `crossed` (the threads
about to tell the device a size that the other thread has changed meanwhile), `stale`
(such a size is what the device was told last; the next good telling ends it), `quiet`
(a destructor reset the size without telling the device), `wanted`.

Run player_control: two players, the one on the device and the one that a hook may
make beside it.  It shows `ControlOwnsPlayer`, `GeometryAgrees`, `DeletedOnce` and the
liveness `PlayIsShown`.  `GeometryAgrees` and `DeletedOnce` hold through every overlap;
`ControlOwnsPlayer` and `PlayIsShown` say nothing after a `clash`, with which a second
player may exist beside the control's, be lost without a control, or the device keep a
deleted one.  A VIDEO_SIZE between `Reset` and `Rescale` leaves the device full and the
variables scaled until the next telling: that is in the model, as `stale`.  That
HidePlayer's Shutdown may end a replay that was launched after its test
(hbbtv.c:281-283) is in the model as well; no property forbids it.  Fairness: a thread
goes on with what it has begun and VDR's loop calls the hook again and again (strong
where it needs VDR's control lock, which nobody keeps).

Proved in `PlayerControlProofs`, for any number of players: `TypeCorrect`,
`ControlsOwnTheirPlayer`, `GeometriesAgree`, `PlayersDeletedOnce`.  `Owned` says for
each pair of places, without a clash, who has the control, the device and the global.
`Deletion` adds to `DeletedOnce` that who deletes has VDR's lock from the start, and
`Geometry` to `GeometryAgrees` that a thread which nobody crossed is about to tell what
the variables say.

## 9. The stored applications

`UrlStore` is the list `allURLs` and its file over any sequence of starts, stops,
crashes and failures.  Start reads (`ReadLine`; each line goes in front, a line of
1023 characters or more comes back as two) to the end of the file (`ReadToEnd`) or
until fopen or fgets fails (`ReadFails`), the AIT filter inserts (`AddUrl`), the
detached writer waits, truncates, prints row by row and closes (`WaitEnds`, `Open`,
`PrintRow`, `Close`) or cannot open the file (`OpenFails`); stdio may flush at any
time, the disk may refuse what it flushes (`WriteFails`, which the code does not
notice), and the process may end at any step (`Exit`, `Crash`).

The code has no protection against these failures, and the properties say exactly what
is left.  History: `torn` (the file was truncated and not written to its end since),
`short` (the list was read from a torn file or not to its end), `failed` (the writer's
last round could not open or write), `safe` (the lines of the last file that was
written to its end).  `ClosedIsKept`: the safe lines are in the file unless it is torn,
and in the list unless it is short.  A VDR whose list is short writes it over a
complete file five minutes later: those lines are lost, and `safe` is then what the new
file has.  `CloseWritesAll`: a file written to its end has all that the list had when
it was opened.  `KnownIsWritten`: each round of the writer brings the lines known at its
start into the file unless that round fails; a line added during the last walk after
Stop is lost.

Run url_store: two short lines and a long one whose pieces are the short ones; the
state is finite without any bound, so starts, crashes and failures are unbounded.
Fairness: the writer thread runs.  Proved in `ApplicationProofs`, for any lines:
`StoreTypeCorrect`, `ListHasNoDoubles`, `ClosedFilesAreKept`, `ClosesWriteAll`.  The
heart is `Walk`: what has not been printed yet stands at the writer's index or behind
it, because insertions are made in front.

## 10. nng: asynchronous operations

`NngAio` models the aio, its task and the timer's thread.  An action is a section
under `nni_aio_lk`, the task queue's lock or the provider's; that the cancel function
is taken under one and called after it (`Take`, then `CallCancel`) is the window the
properties are about.  Consumers begin and schedule operations on a provider's list
or sleep, and abort, close, stop or release; the provider completes, also
synchronously; workers run callbacks, which may begin the next operation or release
their own aio.

Run nng_aio: one aio is used twice and ended in every way, the other sleeps beside it
in the timer's list; one worker; timeouts of 0 and 1, a clock up to 1.  These are the
least with which an operation is followed by another while a stale cancel is under way
and two deadlines are in the list.  It shows `CompletedOnce`, `ReleasedIsUnused`,
`TimersInOrder`, and the liveness `StopReturns` and `DeadlineEnds`.  Fairness: every thread and the clock go
on; that a message comes is not assumed.

Proved in `NngCoreProofs`, for any aios, consumers, workers, timeouts and bounds:
`AioTypeCorrect`, `CompletesOnce`, `ReleasedAreUnused`, `TimersAreInOrder`.  `AioInv` says that an operation
is in one place at a time (`Placed`): on the provider's list, asleep, between begin and
schedule on one thread, in the task queue, or in its callback.  The counters follow the
places (`Counted`): `task_busy` is the number of threads inside the aio's callback and
one for an operation that is open, and as many operations were begun as were called
back and are open.  A cancel function that is called late is harmless because it looks
for the operation again and finishes only what waits or sleeps (`ListInv`).  For the
release (`FreeInv`): who releases an aio has stopped it, has taken its cancel function
and is alone with it, and goes on only when the timer has let go.
`TimersInOrder` needs, beside `AioInv`, that the list has nobody without a deadline
(`TimerInv`): an insertion cuts the sorted list behind the last deadline that is not
later, a removal keeps the order of the rest.  That the late call
may end the *next* operation of the aio is no contradiction to this; it is the
statement `TimesOutInTime` of section 13.  One simplification: an operation is begun
when its aio is idle or from its own callback, while push.c:187 begins one from the
callback of another aio, which may find its own callback returning.  Assumptions: an aio has one consumer, a
consumer one aio, and the kinds of threads and `None` are distinct (`AioAssumption`).

## 11. nng: from nn_send to nn_recv

`NngMsgQueue` gives a queue as a value and each call under its lock as the outcome: the
queue after it and the operations it finished.  `NngPipeline` puts the push socket's
upper queue, the connections' two ends with their callbacks, and the pull socket's
upper queue between threads in `nn_send` and `nn_recv`; connections are made and break,
sends and receives time out, and `nn_close` of either socket goes through its phases
(`Shutdown`, `CloseWriteQueue`/`CloseReadQueue`, `CloseSock`, `FreeSock`).

`LossyChannel` is the abstract promise: each message goes through at most one
connection and comes out of it at most once, in order, and a send reported as failed is
never received.  `IsLossyChannel` is the refinement, `LostOnlyWithConnection` adds what
is *not* lost, `NobodyWaitsInVain` the comment at msgqueue.c:152, `Delivered` the
liveness.

Run nng_pipeline: two senders and one receiver (the plugin has several threads that
send and one that receives), two messages, two connections one after the other, the
capacities 0 and 1 that push and pull have, one message in a connection.  A queue holds
at most one, so two messages fill it and wait behind it.  Fairness: callbacks go on, and
the receiver asks again and again, as `BrowserCommunication::Action` does.

Proved in `NngPipelineProofs`, for any threads, messages, connections and capacity of
the read queue: `TypeCorrect`, `NoneWaitsInVain`, `AcceptedNotLost`,
`ImplementsChannel`.  First each call of `NngMsgQueue` is shown to give what its name
says (the loops of `RunPutq` and `RunGetq` are folds; on an orderly queue they take the
first messages and the first readers).  The inductive invariant has three parts.
`WriteInv` and `ReadInv`: exactly the threads and pipes that wait for a queue are in its
lists, once, and never a reader beside a message or a writer.  `MsgInv`: a message is
with one thread or has one result, and an accepted one went into one place of one
connection.  `OrderInv`: what came out of a connection (`got`) is the beginning of what
went in (`sent`), and what is between (in the ring, with the pull pipe, on the wire,
with the push pipe) stands in that order, each only behind what is further on its way.
In the refinement a message is sent when the push pipe gets it (`HandOver`), fails when
nn_send returns an error (`FailSends`) and is received when nn_recv returns it
(`ComesOut`); every other step is a stutter.  A message is lost only with its
connection: a closing socket, a timeout or a full queue loses none by itself.
Assumptions: threads and pipes are distinct, `None` is no message and the capacity is a
number (`PipelineAssumption`).

## 12. nng: dialer, pipes and reaper

`NngEndpoint` is how a socket of the plugin gets, keeps and gives back its connection:
the transport's attempt (connect, greeting, answer), the dialer's two aios, the pipe
that is added, refused, closed by the other end or by `nn_close`, and destroyed by the
reaper, whose destruction starts the dialer's timer again; and `nn_close` in its stages.
The browser may come and go at any step.  `held` is a pipe's reference count, `cutOff`
remembers that a greeting was sent to an end that was gone.

The reaper's work is cut where others may go on: `ReapPipe` takes a pipe off the lists
(`nni_pipe_remove`, which wakes `nn_close`) and `PipeFreed` ends `pipe_destroy`;
`ReapDialer` takes the dialer off the list and `DialerDestroyed` frees it.  The reaper
also has the ipctran_pipes of greetings that failed or were closed
(`ipctran_pipe_reap`), and the endpoint when the dialer was destroyed before the last
of them (`EpFreed`); `tran` is the endpoint's reference count.  `nn_close` closes the
dialer's aios first (`Shutdown`) and the transport then (`CloseTransport`); an answer
in between finds nobody who waits.

Run nng_endpoint: memory for three connections, one in use, one in the making and one
with the reaper.  It shows `OneAttempt` (a dialer never starts an aio twice),
`HeldIsListed`, `GoneIsUnused`, `StopsOnlyCutOff`, and the liveness `CloseReturns` and
`Reconnects`.  `GoneIsUnused` does not say that nothing is left: when `nn_close` frees the
socket the reaper may be inside `pipe_destroy` or `nni_dialer_destroy`, and ipctran_pipes
and the endpoint may wait for it; it says that what is left is past every use of the
socket, and that the endpoint outlives whatever uses it.  Fairness: transport, task
queue, reaper and `nn_close` go on, a pipe without its other end is found broken, and a
browser that is there answers in the end and is of the right protocol (strong).

Two things that the model has and no property complains of: an ipctran_pipe whose
greeting is answered while `nn_close` is at work is handed to nobody (`ConnectOk` when
`closing`, socket.c:1408-1411; `Answer` without a waiter, ipc.c:198-201), so it and the
endpoint stay in memory; and the callback of a closed greeting may come after the
dialer is freed (`dial = "closed"` with `dialer = "freed"`), where ipc.c:273-274 still
counts the error in the dialer's statistics, which the model leaves out.

Proved in `NngCoreProofs`, for any number of pipes: `EndpointTypeCorrect`, `OneThingAtATime`,
`HeldPipesAreNotDestroyed`, `OnlyACutOffStopsIt`, `NothingUsesAFreedSocket`.  The invariant
adds what each result of the connect aio means (`Causes`), that the only reference is that
of the callback which adds a pipe (`HeldByCallback`), when there is an ipctran_pipe in the
making and until which stage of `nn_close` (`Attempt`), what each stage has left of the
dialer and the endpoint (`Stages`), and what the reaper has: each closed pipe, the closed
dialer and the endpoint without references once, no ipctran_pipe that is freed (`Queued`).

## 13. What the sources say and the code does not do

Two runs end in a counterexample; `findings` in `PROJECT.json` quotes the lines.

| Run | Statement | What happens |
|---|---|---|
| stop_lost | "stop video player and show TV again" (hbbtv.c:278) | a STOP_VIDEO that comes while MainThreadHook makes the control finds neither flag nor control; the video starts after it |
| redial | a dialer "will keep doing so until the dialer or socket is destroyed" (nng_dialer.5.adoc:32) | a browser that ends between the connection and the greeting gives NNG_ECLOSED, which the dialer takes for its own end: it stays idle for ever |

Statements that have a definition but no run, because the counterexample is of the
same kind or the fault known; each is an invariant or an action property that TLC
refutes when it is added to the component's cfg:

| Definition | Statement | What happens |
|---|---|---|
| `ChannelUrls!BrowserKnowsChannel` | "send current channel to browser" (browsercommunication.c:144) | the channel is looked up before a send that waits |
| `ChannelUrls!RefusedOnlyIfEqual` | "unique if ControlCOde and ApplicationID is different" (hbbtvurl.h:49) | ids are compared by their lower byte (refuted when two ids differ by 256) |
| `VideoReader!OnlyFullPackets` | "send only full ts packets" (hbbtvvideocontrol.c:346) | a rest kept over pause and resume is put before the new stream |
| `NngAio!TimesOutInTime` | an operation is aborted when its timer expires (nng_aio_set_timeout.3.adoc) | the stale call of aio.c:590 may cancel the next operation |
| `NngPipeline!NobodyWaitsForFreed` | "any threads blocked in entry points will be woken" (socket.c:649) | nng.c:236 releases the socket before the wait |

Met while modelling and stated by no property: a message that had passed the test of
browsercommunication.c:205 restarts a browser the user has stopped meanwhile
(HISTORY:8); an entry whose address alone has changed is refused (hbbtvurl.c:148); hbbtvmenu.c:84 looks
the chosen row up again in a list that may have changed; the result of a reconnect is
not looked at (hbbtvvideocontrol.c:285); waitpid has no timeout (hbbtv.c:396); the PMT's
service id is not compared (ait.c:219); nng's redial time doubles without a bound when
no maximum is set, the default (socket.c:1376).

## 14. What is only model-checked

Liveness under fairness is beyond the prover: `CallsReturn`, `RecordedIsCollected`,
`DeadIsReplaced`, `AitFound`, `VideoFlows`, `FailedSendClosesPage`, `ResizeReachesPage`,
`PlayIsShown`, `KnownIsWritten`, `StopReturns`, `DeadlineEnds`, `Delivered`, `CloseReturns`,
`Reconnects`.  Every invariant and every action property of a passing run is stated by
a theorem, as are the refinements `ImplementsProtocol` and `IsLossyChannel`.  All
theorems hold under the named ASSUMEs of the module they are about, which the passing runs
evaluate.

## 15. What is not modelled

* Of the plugin: the shared memory (a buffer of the kernel's), the key map (a constant
  table), configuration, translations and tools (data and scripts), the texts and
  bookmark files of the menus, the SVDRP commands that only send, the order of
  deletions in Stop.
* The composition of the receiver: `BrowserProcess`, `ChannelUrls`, `VideoReader`,
  `PlayerControl` and `OsdPage` each have the receiver thread handle *their* messages
  beside the other threads; that one message is handled after another is a restriction
  none of them needs for its properties.
* Of nng: everything the plugin never opens or is built without, which is most of it:
  the protocols other than pipeline, the transports other than ipc, HTTP,
  WebSocket, TLS and ZeroTier, devices, listeners; the statistics, which the plugin
  never reads; and what the modelled parts take for granted: the pollers, id tables, threads and locks of the platform.
  There is no behaviour of this program to state of the former, and the latter is the
  operating system's contract.  By lines this is more than nine tenths of the C code
  in the repository.
* VDR and libsi, which are not in the repository: modelled from their use and marked
  external.

To check: `tlc -config X.cfg MCmodule` for a row of `runs`, `tlapm Module.tla` for
the eight `*Proofs` modules.
