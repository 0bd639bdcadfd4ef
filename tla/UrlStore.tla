----------------------------- MODULE UrlStore ------------------------------
(***************************************************************************)
(* The stored applications: the list allURLs in memory and the file        *)
(* hbbtv_urls.list, over starts, stops and crashes of VDR.                 *)
(*                                                                         *)
(* Start reads the file into the list.  The AIT filter puts new lines in   *)
(* front of it.  A writer thread writes the whole list every five minutes  *)
(* and once more when Stop tells it to end; it opens the file with "w",    *)
(* which truncates it, walks the list by index without a lock and closes   *)
(* the file.  The thread is detached, so Stop does not wait for it, and    *)
(* the end of the process ends it wherever it is.  The file may fail to    *)
(* open or to be read, which leaves lines out of the list, and to open or  *)
(* to be written, which leaves them out of the file.                       *)
(*                                                                         *)
(* Abstracted: the lines (distinct values; a long one is read back as two  *)
(* pieces), the five minutes (any time), stdio's buffer (what was printed  *)
(* may reach the disk at any time, and does at fclose and at a regular     *)
(* exit).  That the filter may move the list's memory under the writer is  *)
(* undefined and not followed further.                                     *)
(***************************************************************************)
EXTENDS Naturals, Sequences

CONSTANTS
    Line,        \* the lines an AIT can lead to
    Long,        \* those of them with 1023 characters or more
    Piece        \* Piece[l]: the two pieces a long line l is read back as

ASSUME LineAssumption ==
    /\ Long \subseteq Line
    /\ Piece \in [Long -> Line \X Line]

VARIABLES
    vdr,         \* "down", "start", "up", or "stopped": Stop was called
    allURLs,     \* the list in memory
    file,        \* the lines on the disk
    printed,     \* the lines in stdio's buffer
    writer,      \* "none", "wait", "open", "print"
    row,         \* the index of the reading Start or of the writer
    running,     \* urlwriter_running
    torn,        \* history: the file was truncated and not written to its end since
    short,       \* history: the list was read from a torn file, or not to its end
    failed,      \* history: in its last round the writer could not open or write
    begun,       \* history: the lines known when the writer opened the file
    safe         \* history: the lines of the last file written to its end

outcome == <<torn, failed, begun, safe>>
storeVars == <<vdr, allURLs, file, printed, writer, row, running, outcome, short>>

Set(s) == {s[i] : i \in 1 .. Len(s)}

InsertUnique(s, l) == IF l \in Set(s) THEN s ELSE <<l>> \o s

StoreInit ==
    /\ vdr = "down"
    /\ allURLs = <<>> /\ file = <<>> /\ printed = <<>>
    /\ writer = "none" /\ row = 1 /\ running = FALSE
    /\ torn = FALSE /\ short = FALSE /\ failed = FALSE
    /\ begun = {} /\ safe = {}

-----------------------------------------------------------------------------
(* VDR's main thread.                                                      *)

Start ==
    /\ vdr = "down"
    /\ vdr' = "start"
    /\ row' = 1
    /\ short' = torn
    /\ UNCHANGED <<allURLs, file, printed, writer, running, outcome>>

\* Slip: the list holds only the line read last.
ReadLineLast ==
    /\ vdr = "start" /\ row <= Len(file)
    /\ allURLs' = <<file[row]>>
    /\ row' = row + 1
    /\ UNCHANGED <<vdr, file, printed, writer, running, outcome, short>>

\* Each line is put in front of the list, which so is the file turned round;
\* of a long one fgets gives two pieces.
ReadLine ==
    /\ vdr = "start" /\ row <= Len(file)
    /\ allURLs' = IF file[row] \in Long
                    THEN InsertUnique(InsertUnique(allURLs, Piece[file[row]][1]), Piece[file[row]][2])
                    ELSE InsertUnique(allURLs, file[row])
    /\ row' = row + 1
    /\ UNCHANGED <<vdr, file, printed, writer, running, outcome, short>>

StartWriter ==
    /\ vdr' = "up"
    /\ writer' = "wait" /\ running' = TRUE
    /\ row' = 1
    /\ UNCHANGED <<allURLs, file, printed, outcome>>

ReadToEnd ==
    /\ vdr = "start" /\ row > Len(file)
    /\ StartWriter
    /\ UNCHANGED short

\* fopen gives no file (row is 1 then), or fgets nothing more: Start goes on
\* with the lines it has, and the writer will write no others.
ReadFails ==
    /\ vdr = "start" /\ row <= Len(file)
    /\ StartWriter
    /\ short' = TRUE

\* joinable is false: nothing is waited for.
Stop ==
    /\ vdr = "up"
    /\ vdr' = "stopped"
    /\ running' = FALSE
    /\ UNCHANGED <<allURLs, file, printed, writer, row, outcome, short>>

Gone ==
    /\ vdr' = "down"
    /\ allURLs' = <<>> /\ printed' = <<>> /\ writer' = "none" /\ row' = 1
    /\ running' = FALSE /\ begun' = {}
    /\ short' = FALSE /\ failed' = FALSE
    /\ UNCHANGED <<torn, safe>>

\* A regular exit flushes the open file.
Exit ==
    /\ vdr = "stopped"
    /\ Gone
    /\ file' = file \o printed

Crash ==
    /\ vdr # "down"
    /\ Gone
    /\ UNCHANGED file

-----------------------------------------------------------------------------
(* The AIT filter and the writer thread.                                   *)

AddUrl(l) ==
    /\ vdr = "up"
    /\ allURLs' = InsertUnique(allURLs, l)
    /\ UNCHANGED <<vdr, file, printed, writer, row, running, outcome, short>>

\* Slip: the writer leaves its loop as soon as it is told to.
WaitEndsEarly ==
    /\ writer = "wait"
    /\ writer' = IF running THEN "open" ELSE "none"
    /\ failed' = FALSE
    /\ UNCHANGED <<vdr, allURLs, file, printed, row, running, torn, begun, safe, short>>

\* The wait is over after five minutes or at once when Stop says so.
WaitEnds ==
    /\ writer = "wait"
    /\ writer' = "open"
    /\ failed' = FALSE
    /\ UNCHANGED <<vdr, allURLs, file, printed, row, running, torn, begun, safe, short>>

RoundEnds == writer' = IF running THEN "wait" ELSE "none"

\* No file, no round; the file stays what it is.
OpenFails ==
    /\ writer = "open"
    /\ RoundEnds
    /\ failed' = TRUE
    /\ UNCHANGED <<vdr, allURLs, file, printed, row, running, torn, begun, safe, short>>

Open ==
    /\ writer = "open"
    /\ writer' = "print" /\ row' = 1
    /\ file' = <<>>
    /\ begun' = Set(allURLs)
    /\ torn' = TRUE
    /\ UNCHANGED <<vdr, allURLs, printed, running, failed, safe, short>>

PrintRow ==
    /\ writer = "print" /\ row <= Len(allURLs)
    /\ printed' = Append(printed, allURLs[row])
    /\ row' = row + 1
    /\ UNCHANGED <<vdr, allURLs, file, writer, running, outcome, short>>

\* The buffer is full.
Flush ==
    /\ writer = "print" /\ printed # <<>>
    /\ file' = file \o printed
    /\ printed' = <<>>
    /\ UNCHANGED <<vdr, allURLs, writer, row, running, outcome, short>>

\* The disk does not take what was printed; nobody looks at what fprintf and
\* fclose return.
WriteFails ==
    /\ writer = "print" /\ printed # <<>>
    /\ printed' = <<>>
    /\ failed' = TRUE
    /\ UNCHANGED <<vdr, allURLs, file, writer, row, running, torn, begun, safe, short>>

Closed ==
    /\ file' = file \o printed
    /\ printed' = <<>>
    /\ IF failed THEN UNCHANGED <<safe, torn, short>>
       ELSE safe' = Set(file') /\ torn' = FALSE /\ short' = FALSE
    /\ RoundEnds
    /\ UNCHANGED <<vdr, allURLs, row, running, failed, begun>>

\* Slip: the walk leaves out the last row.
CloseEarly ==
    /\ writer = "print" /\ row >= Len(allURLs)
    /\ Closed

Close ==
    /\ writer = "print" /\ row > Len(allURLs)
    /\ Closed

-----------------------------------------------------------------------------
Writer == WaitEnds \/ Open \/ OpenFails \/ PrintRow \/ Flush \/ WriteFails \/ Close

StoreNext ==
    \/ Start \/ ReadLine \/ ReadToEnd \/ ReadFails \/ Stop \/ Exit \/ Crash
    \/ Writer
    \/ \E l \in Line : AddUrl(l)

StoreSpec == StoreInit /\ [][StoreNext]_storeVars
FairStoreSpec == StoreSpec /\ WF_storeVars(WaitEnds \/ Open \/ OpenFails \/ PrintRow \/ Close)

-----------------------------------------------------------------------------
StoreTypeOK ==
    /\ vdr \in {"down", "start", "up", "stopped"}
    /\ allURLs \in Seq(Line) /\ file \in Seq(Line) /\ printed \in Seq(Line)
    /\ writer \in {"none", "wait", "open", "print"}
    /\ row \in Nat \ {0} /\ (writer # "none" => row <= Len(allURLs) + 1)
    /\ running \in BOOLEAN
    /\ torn \in BOOLEAN /\ short \in BOOLEAN /\ failed \in BOOLEAN
    /\ begun \subseteq Line /\ safe \subseteq Line

\* A file that is written to its end has every line that was in the list when
\* it was opened, also when the filter inserts lines during the walk: the index
\* may then print a line twice, never skip one (hbbtv.c:97-105, ait.c:141-143).
CloseWritesAll ==
    [][(writer = "print" /\ writer' # "print" /\ vdr' # "down" /\ ~failed) => begun \subseteq safe']_storeVars

\* Over any starts, stops, crashes and failures, the lines of the last file
\* that was written to its end are in the file unless it was truncated since
\* (hbbtv.c:99); and they are in the list of a VDR that could read its file to
\* the end and found it whole (hbbtv.c:132-145), so that its next write, by
\* CloseWritesAll, does not lose them.  A VDR that could not read the file
\* writes what it has over it: that loss is the code's.
ClosedIsKept ==
    /\ ~torn => safe \ Long \subseteq Set(file)
    /\ (vdr \in {"up", "stopped"} /\ ~short) => safe \ Long \subseteq Set(allURLs)

\* A line that is in the list when a round of the writer comes gets into the
\* file in that round unless the file fails to open or to take it (then failed
\* is set until the next round begins) or the process ends: Stop gives the
\* writer one more round, but does not wait for it (hbbtv.c:92-100, 159-167).
\* A line that comes during the writer's last walk is lost.
KnownIsWritten ==
    \A l \in Line :
        (writer \in {"wait", "open"} /\ ~failed /\ l \in Set(allURLs))
            ~> (l \in Set(file) \/ failed \/ vdr = "down")

\* The list never holds a line twice, although the file may.
NoDoubles == \A i, j \in 1 .. Len(allURLs) : i # j => allURLs[i] # allURLs[j]

=============================================================================
