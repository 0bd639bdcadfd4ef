------------------------------ MODULE UrlList -------------------------------
(***************************************************************************)
(* The sorted list of a channel's applications (cHbbtvURLs), as operators  *)
(* on sequences.  An entry keeps one byte of the application id (id), the  *)
(* control code (cc), the address (url: base and location) and whether the *)
(* address has an extension (ext).  Name and priority play no role.        *)
(***************************************************************************)
EXTENDS Integers, Sequences

Byte   == 0..255
Uint16 == 0..65535

Uchar(n) == n % 256

\* The constructor narrows the 16 bits of the AIT's application id to a byte.
NewUrl(a) == [id |-> Uchar(a.app), cc |-> Uchar(a.cc), url |-> a.url, ext |-> a.ext]

\* Negative, zero or positive: the order of the list.
Compare(e, f) == IF e.cc # f.cc THEN e.cc - f.cc ELSE e.id - f.id

\* The list with e in front of position i.
InsertBefore(list, i, e) ==
    [j \in 1..(Len(list) + 1) |->
        IF j < i THEN list[j] ELSE IF j = i THEN e ELSE list[j - 1]]

\* Where the walk along the smaller entries ends.
InsertPosition(list, e) ==
    CHOOSE i \in 1..(Len(list) + 1) :
        /\ \A j \in 1..(i - 1) : Compare(list[j], e) < 0
        /\ i <= Len(list) => Compare(list[i], e) >= 0

Listed(list, e)   == \E i \in 1..Len(list) : list[i] = e
Contains(list, e) == \E i \in 1..Len(list) : Compare(list[i], e) = 0

\* Mutant: no search for an equal entry.
AddUnchecked(list, e) == InsertBefore(list, InsertPosition(list, e), e)

\* AddSortedUniqe, without the message to the browser.
Add(list, e) ==
    IF Contains(list, e) THEN list ELSE InsertBefore(list, InsertPosition(list, e), e)

\* A line of the URL store: the entry with a channel's name in front, and the
\* entry read back from it.  The parser stops at the last separator, so the
\* field behind it, the extension, is lost.
Line(channel, e) == [chan |-> channel, id |-> e.id, cc |-> e.cc, url |-> e.url, ext |-> e.ext]

FromLine(l) == [id |-> l.id, cc |-> l.cc, url |-> l.url, ext |-> FALSE]

\* Strictly ascending, and so without two equal entries.
Sorted(list) ==
    \A i, j \in 1..Len(list) : i < j => Compare(list[i], list[j]) < 0

=============================================================================
