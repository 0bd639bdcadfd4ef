------------------------- MODULE ChannelUrlsProofs --------------------------
(***************************************************************************)
(* Proofs about UrlList and ChannelUrls, for any channels, AITs and ids.   *)
(***************************************************************************)
EXTENDS ChannelUrls, WellFoundedInduction, TLAPS

-----------------------------------------------------------------------------
(* The list.                                                               *)

\* Compare is an integer whose sign turns with its arguments.
LEMMA CompareSign ==
    ASSUME NEW e \in Entry, NEW f \in Entry
    PROVE  /\ Compare(e, f) \in Int
           /\ Compare(e, f) < 0 <=> Compare(f, e) > 0
           /\ Compare(e, f) = 0 <=> Compare(f, e) = 0
<1>1. \A h \in Entry : h.cc \in Int /\ h.id \in Int
  BY DEF Entry, Byte
<1>2. e.cc \in Int /\ f.cc \in Int /\ e.id \in Int /\ f.id \in Int
  BY <1>1
<1> QED
  BY <1>2 DEF Compare

\* What is before f is before all f is before.
LEMMA CompareTransitive ==
    ASSUME NEW e \in Entry, NEW f \in Entry, NEW g \in Entry,
           Compare(e, f) < 0, Compare(f, g) < 0
    PROVE  Compare(e, g) < 0
<1>1. \A h \in Entry : h.cc \in Int /\ h.id \in Int
  BY DEF Entry, Byte
<1>2. /\ e.cc \in Int /\ f.cc \in Int /\ g.cc \in Int
      /\ e.id \in Int /\ f.id \in Int /\ g.id \in Int
  BY <1>1
<1> QED
  BY <1>2 DEF Compare

LEMMA EqualToItself ==
    ASSUME NEW e \in Entry
    PROVE  Compare(e, e) = 0
<1>1. e.cc \in Int /\ e.id \in Int
  BY DEF Entry, Byte
<1> QED
  BY <1>1 DEF Compare

\* Every non-empty set of naturals has a least element.
LEMMA Least ==
    ASSUME NEW T, T \subseteq Nat, T # {}
    PROVE  \E x \in T : \A y \in T : x <= y
<1>1. PICK x \in T : \A y \in T : <<y, x>> \notin OpToRel(<, Nat)
  BY NatLessThanWellFounded, WFMin
<1>2. \A y \in T : ~(y < x)
  BY <1>1 DEF OpToRel
<1> QED
  BY <1>2

\* The walk of AddSortedUniqe ends in front of the first entry that is not
\* smaller, or at the end.
LEMMA PositionExists ==
    ASSUME NEW l \in Seq(Entry), NEW e \in Entry
    PROVE  LET p == InsertPosition(l, e)
           IN  /\ p \in 1..(Len(l) + 1)
               /\ \A j \in 1..(p - 1) : Compare(l[j], e) < 0
               /\ p <= Len(l) => Compare(l[p], e) >= 0
<1> DEFINE T == {i \in 1..(Len(l) + 1) : i <= Len(l) => Compare(l[i], e) >= 0}
<1>1. T \subseteq Nat /\ Len(l) + 1 \in T
  OBVIOUS
<1>2. PICK p \in T : \A y \in T : p <= y
  BY <1>1, Least
<1>3. \A j \in 1..(p - 1) : Compare(l[j], e) < 0
  <2> TAKE j \in 1..(p - 1)
  <2>1. j < p /\ j \in 1..Len(l) /\ j \in 1..(Len(l) + 1)
    OBVIOUS
  <2>2. j \notin T
    <3> HIDE DEF T
    <3> QED
      BY <1>1, <1>2, <2>1
  <2>3. ~(Compare(l[j], e) >= 0)
    BY <2>1, <2>2
  <2>4. l[j] \in Entry
    BY <2>1
  <2>5. Compare(l[j], e) \in Int
    BY <2>4, CompareSign
  <2> QED
    BY <2>3, <2>5
<1> QED
  BY <1>2, <1>3 DEF InsertPosition

\* What InsertBefore returns.
LEMMA InsertContents ==
    ASSUME NEW l \in Seq(Entry), NEW e \in Entry, NEW p \in 1..(Len(l) + 1)
    PROVE  LET m == InsertBefore(l, p, e)
           IN  /\ m \in Seq(Entry)
               /\ Len(m) = Len(l) + 1
               /\ \A j \in 1..(Len(l) + 1) :
                    m[j] = IF j < p THEN l[j] ELSE IF j = p THEN e ELSE l[j - 1]
<1> DEFINE m == InsertBefore(l, p, e)
<1> DEFINE n == Len(l) + 1
<1>1. \A j \in 1..n : (IF j < p THEN l[j] ELSE IF j = p THEN e ELSE l[j - 1]) \in Entry
  <2> TAKE j \in 1..n
  <2>1. CASE j < p
    BY <2>1
  <2>2. CASE j = p
    BY <2>2
  <2>3. CASE j > p
    BY <2>3
  <2> QED
    BY <2>1, <2>2, <2>3
<1>2. m \in [1..n -> Entry]
  BY <1>1 DEF InsertBefore
<1>3. m \in Seq(Entry) /\ Len(m) = n
  BY <1>2
<1> QED
  BY <1>3 DEF InsertBefore

\* Add keeps the list strictly ascending, loses no entry and no key, adds
\* nothing but e, and makes sure that an entry equal to e is there.
LEMMA AddKeepsOrder ==
    ASSUME NEW l \in Seq(Entry), NEW e \in Entry
    PROVE  /\ Add(l, e) \in Seq(Entry)
           /\ Sorted(l) => Sorted(Add(l, e))
           /\ Contains(Add(l, e), e)
           /\ \A f \in Entry : Contains(l, f) => Contains(Add(l, e), f)
           /\ \A f : Listed(l, f) => Listed(Add(l, e), f)
           /\ \A i \in 1..Len(Add(l, e)) :
                Add(l, e)[i] = e \/ \E j \in 1..Len(l) : Add(l, e)[i] = l[j]
<1>0. Compare(e, e) = 0
  BY EqualToItself
<1>1. CASE Contains(l, e)
  BY <1>1 DEF Add
<1>2. CASE ~Contains(l, e)
  <2> DEFINE p == InsertPosition(l, e)
             m == InsertBefore(l, p, e)
  <2> HIDE DEF p, m
  <2>1. Add(l, e) = m
    BY <1>2 DEF Add, m, p
  <2>2. /\ p \in 1..(Len(l) + 1)
        /\ \A j \in 1..(p - 1) : Compare(l[j], e) < 0
        /\ p <= Len(l) => Compare(l[p], e) >= 0
    BY PositionExists DEF p
  <2>3. /\ m \in Seq(Entry)
        /\ Len(m) = Len(l) + 1
        /\ \A j \in 1..(Len(l) + 1) :
             m[j] = IF j < p THEN l[j] ELSE IF j = p THEN e ELSE l[j - 1]
    BY <2>2, InsertContents DEF m
  <2>4. m[p] = e /\ p \in 1..Len(m)
    BY <2>2, <2>3
  <2>5. \A i \in 1..Len(l) :
          \/ i \in 1..Len(m) /\ i < p /\ m[i] = l[i]
          \/ i + 1 \in 1..Len(m) /\ i + 1 > p /\ m[i + 1] = l[i]
    BY <2>2, <2>3
  <2>6. \A i \in 1..Len(m) : m[i] = e \/ \E j \in 1..Len(l) : m[i] = l[j]
    <3> TAKE i \in 1..Len(m)
    <3>1. CASE i < p
      BY <3>1, <2>2, <2>3
    <3>2. CASE i = p
      BY <3>2, <2>4
    <3>3. CASE i > p
      <4>1. i - 1 \in 1..Len(l) /\ m[i] = l[i - 1]
        BY <3>3, <2>2, <2>3
      <4> QED
        BY <4>1
    <3> QED
      BY <3>1, <3>2, <3>3, <2>2
  <2>7. Contains(m, e)
    BY <2>4, <1>0 DEF Contains
  <2>8. \A f \in Entry : Contains(l, f) => Contains(m, f)
    BY <2>5 DEF Contains
  <2>9. \A f : Listed(l, f) => Listed(m, f)
    BY <2>5 DEF Listed
  <2>10. ASSUME Sorted(l) PROVE Sorted(m)
    <3>1. \A j \in p..Len(l) : Compare(e, l[j]) < 0
      <4> TAKE j \in p..Len(l)
      <4>1. p \in 1..Len(l) /\ j \in 1..Len(l) /\ l[p] \in Entry /\ l[j] \in Entry
        BY <2>2
      <4>2. Compare(l[p], e) > 0
        <5>1. Compare(l[p], e) # 0 /\ Compare(l[p], e) \in Int
          BY <1>2, <4>1, CompareSign DEF Contains
        <5> QED
          BY <5>1, <4>1, <2>2, CompareSign
      <4>3. Compare(e, l[p]) < 0
        BY <4>1, <4>2, CompareSign
      <4>4. p < j => Compare(l[p], l[j]) < 0
        BY <4>1, <2>10 DEF Sorted
      <4> QED
        BY <2>2, <4>1, <4>3, <4>4, CompareTransitive
    <3> SUFFICES ASSUME NEW i \in 1..Len(m), NEW j \in 1..Len(m), i < j
                 PROVE  Compare(m[i], m[j]) < 0
      BY DEF Sorted
    <3>2. CASE j < p
      BY <3>2, <2>2, <2>3, <2>10 DEF Sorted
    <3>3. CASE j = p
      BY <3>3, <2>2, <2>3
    <3>4. CASE i < p /\ j > p
      <4>1. /\ m[i] = l[i] /\ m[j] = l[j - 1]
            /\ i \in 1..Len(l) /\ j - 1 \in 1..Len(l) /\ i < j - 1
        BY <3>4, <2>2, <2>3
      <4> QED
        BY <4>1, <3>4, <2>2, <2>10 DEF Sorted
    <3>5. CASE i = p
      <4>1. m[i] = e /\ m[j] = l[j - 1] /\ j - 1 \in p..Len(l)
        BY <3>5, <2>2, <2>3
      <4> QED
        BY <4>1, <3>1
    <3>6. CASE i > p
      <4>1. /\ m[i] = l[i - 1] /\ m[j] = l[j - 1]
            /\ i - 1 \in 1..Len(l) /\ j - 1 \in 1..Len(l) /\ i - 1 < j - 1
        BY <3>6, <2>2, <2>3
      <4> QED
        BY <4>1, <2>10 DEF Sorted
    <3> QED
      BY <3>2, <3>3, <3>4, <3>5, <3>6, <2>2
  <2> QED
    BY <2>1, <2>3, <2>6, <2>7, <2>8, <2>9, <2>10
<1> QED
  BY <1>1, <1>2

-----------------------------------------------------------------------------
(* Entries and lines.                                                      *)

LEMMA EntriesAreTyped ==
    /\ \A a \in App : NewUrl(a) \in Entry /\ NewUrl(a).url = a.url
    /\ \A l \in Lines : FromLine(l) \in Entry /\ FromLine(l).url = l.url
    /\ \A c \in Channel, e \in Entry :
         /\ Line(c, e) \in Lines
         /\ Line(c, e).chan = c
         /\ Line(c, e).url = e.url
<1>1. \A a \in App : NewUrl(a) \in Entry /\ NewUrl(a).url = a.url
  <2> TAKE a \in App
  <2>1. a \in [app : Uint16, cc : Byte, url : Url, ext : BOOLEAN]
    BY AppAssumption
  <2>2. a.app \in Uint16 /\ a.cc \in Byte /\ a.url \in Url /\ a.ext \in BOOLEAN
    BY <2>1
  <2>3. \A n \in Uint16 \cup Byte : Uchar(n) \in Byte
    <3>1. \A n \in Nat : n % 256 \in 0..255
      OBVIOUS
    <3>2. Uint16 \cup Byte \subseteq Nat
      BY DEF Uint16, Byte
    <3> QED
      BY <3>1, <3>2 DEF Byte, Uchar
  <2> QED
    BY <2>2, <2>3 DEF NewUrl, Entry
<1> QED
  BY <1>1 DEF FromLine, Line, Lines, Entry

\* The entry read back from a line equals the entry the line was made of.
LEMMA LineKeepsKey ==
    ASSUME NEW l \in Seq(Entry), NEW c \in Channel, NEW e \in Entry, Contains(l, e)
    PROVE  Contains(l, FromLine(Line(c, e)))
  BY DEF Contains, Compare, Line, FromLine

-----------------------------------------------------------------------------
(* The inductive invariant.                                                *)

\* The filter is attached only between switches, and without a filter the
\* list is empty except while the switch fills it.
Phases ==
    /\ loop # <<>> => attached
    /\ attached => switch = "idle" /\ current \in Channel
    /\ switch # "idle" => target \in Channel
    /\ switch \in {"tell", "add"} => current = target
    /\ (~attached /\ switch # "add") => list = <<>>

\* What AddSortedUniqe has sent is the row's or the application's entry.
Adding ==
    /\ adding["switch"] # NoEntry =>
         AtRow /\ allUrls[row].chan = target /\ adding["switch"] = FromLine(allUrls[row])
    /\ adding["filter"] # NoEntry => loop # <<>> /\ adding["filter"] = NewUrl(Head(loop))

\* Every address is of the channel it is filed under.
OfChannel ==
    /\ \A i \in 1..Len(loop) : loop[i].url \in UrlsOf(current)
    /\ \A i \in 1..Len(allUrls) : allUrls[i].url \in UrlsOf(allUrls[i].chan)
    /\ \A i \in 1..Len(list) : list[i].url \in UrlsOf(current)

\* The channel's rows are in the list, as far as the switch has come.
RowsListed ==
    /\ attached =>
         \A i \in 1..Len(allUrls) :
            allUrls[i].chan = current => Contains(list, FromLine(allUrls[i]))
    /\ switch = "add" =>
         \A i \in 1..(row - 1) :
            allUrls[i].chan = target => Contains(list, FromLine(allUrls[i]))

IInv == TypeOK /\ ListSorted /\ Phases /\ Adding /\ OfChannel /\ RowsListed

LEMMA InitHolds == Init => IInv
<1> SUFFICES ASSUME Init PROVE IInv
  OBVIOUS
<1>1. TypeOK
  <2>1. list \in Seq(Entry) /\ allUrls \in Seq(Lines) /\ loop \in Seq(App)
    BY DEF Init
  <2>2. row \in 1..(Len(allUrls) + 1)
    BY DEF Init
  <2>3. /\ current \in Channel \cup {NoChannel} /\ target \in Channel \cup {NoChannel}
        /\ announced \in Channel \cup {NoChannel} /\ told \in Channel \cup {NoChannel}
        /\ cursor \in Entry \cup {NoEntry}
    BY DEF Init
  <2>4. /\ attached \in BOOLEAN /\ asked \in BOOLEAN /\ known \subseteq Entry /\ missed \subseteq Entry
        /\ adding \in [Writer -> Entry \cup {NoEntry}]
        /\ switch \in {"idle", "tune", "tell", "add"}
        /\ init \in {"idle", "tell", "first", "send", "next"}
    BY DEF Init
  <2> QED
    BY <2>1, <2>2, <2>3, <2>4 DEF TypeOK
<1>2. ListSorted /\ Phases /\ Adding /\ OfChannel /\ RowsListed
  BY DEF Init, ListSorted, Sorted, Phases, Adding, Writer, OfChannel, RowsListed
<1> QED
  BY <1>1, <1>2 DEF IInv

\* Steps that leave the list, its readers and the switch alone.
LEMMA BystanderStep ==
    ASSUME IInv, TypeOK',
           UNCHANGED <<list, allUrls, current, attached, switch, target, row, loop, adding>>
    PROVE  IInv'
<1> USE DEF IInv, ListSorted, Phases, Adding, AtRow, OfChannel, RowsListed
<1>1. ListSorted' /\ Phases' /\ Adding'
  OBVIOUS
<1>2. OfChannel'
  OBVIOUS
<1>3. RowsListed'
  OBVIOUS
<1> QED
  BY <1>1, <1>2, <1>3

\* An entry that is sent is known or missed afterwards, and so are those that
\* were.
LEMMA SendHears ==
    ASSUME IInv, NEW e \in Entry, SendAppUrl(e)
    PROVE  /\ known' \subseteq Entry /\ missed' \subseteq Entry
           /\ known' \cup missed' = known \cup missed \cup {e}
  BY DEF IInv, TypeOK, SendAppUrl

\* What SwitchInsert and AitInsert share: the list grows by an entry of the
\* channel.
LEMMA InsertStep ==
    ASSUME IInv, NEW w \in Writer, NEW e \in Entry, e.url \in UrlsOf(current), AddInsert(w), adding[w] = e
    PROVE  /\ list' \in Seq(Entry)
           /\ adding' \in [Writer -> Entry \cup {NoEntry}]
           /\ ListSorted'
           /\ \A i \in 1..Len(list') : list'[i].url \in UrlsOf(current)
           /\ Contains(list', e)
           /\ \A f \in Entry : Contains(list, f) => Contains(list', f)
<1>1. list \in Seq(Entry)
  BY DEF IInv, TypeOK
<1>2. list' = Add(list, e)
  BY DEF AddInsert
<1>6. adding' \in [Writer -> Entry \cup {NoEntry}]
  BY DEF AddInsert, IInv, TypeOK
<1>3. ListSorted'
  BY <1>1, <1>2, AddKeepsOrder DEF IInv, ListSorted
<1>4. \A i \in 1..Len(list') : list'[i] = e \/ \E j \in 1..Len(list) : list'[i] = list[j]
  <2>1. \A i \in 1..Len(Add(list, e)) :
          Add(list, e)[i] = e \/ \E j \in 1..Len(list) : Add(list, e)[i] = list[j]
    BY Zenon, <1>1, AddKeepsOrder
  <2> QED
    BY Zenon, <2>1, <1>2
<1>5. \A i \in 1..Len(list') : list'[i].url \in UrlsOf(current)
  BY <1>4 DEF IInv, OfChannel
<1> QED
  BY <1>1, <1>2, <1>3, <1>5, <1>6, AddKeepsOrder

\* What SwitchSend and AitSend share: nothing but the entry under way changes.
LEMMA SendStep ==
    ASSUME IInv, NEW w \in Writer, NEW e \in Entry, AddSend(w, e)
    PROVE  /\ known' \subseteq Entry /\ missed' \subseteq Entry
           /\ adding' \in [Writer -> Entry \cup {NoEntry}]
           /\ adding'[w] = e /\ \A v \in Writer : v # w => adding'[v] = adding[v]
  BY SendHears DEF IInv, TypeOK, AddSend

-----------------------------------------------------------------------------
(* Every step keeps the invariant.                                         *)

LEMMA BrowserSteps ==
    ASSUME IInv,
           BrowserStart \/ InitBegin \/ InitTell \/ InitFirst \/ InitSend \/ InitNext
    PROVE  IInv'
<1>1. UNCHANGED <<list, allUrls, current, attached, switch, target, row, loop, adding>>
  BY DEF BrowserStart, InitBegin, InitTell, InitFirst, InitSend, InitNext, switchVars
<1>2. TypeOK'
  <2>0. TypeOK
    BY DEF IInv
  <2>1. CASE BrowserStart
    <3>1. missed' \subseteq Entry
      BY <2>0, <2>1 DEF TypeOK, BrowserStart, Writer
    <3> QED
      BY <2>0, <2>1, <1>1, <3>1 DEF TypeOK, BrowserStart, initVars
  <2>2. CASE InitBegin
    BY <2>0, <2>2, <1>1 DEF TypeOK, InitBegin, sent
  <2>3. CASE InitTell
    BY <2>0, <2>3, <1>1 DEF TypeOK, InitTell, sent
  <2>4. ASSUME NEW i \in 1..(Len(list) + 1), WalkTo(i)
        PROVE  cursor' \in Entry \cup {NoEntry} /\ init' \in {"send", "idle"}
    BY <2>0, <2>4 DEF TypeOK, WalkTo
  <2>5. CASE InitFirst
    <3>1. cursor' \in Entry \cup {NoEntry} /\ init' \in {"send", "idle"}
      BY <2>0, <2>4, <2>5 DEF TypeOK, InitFirst
    <3> QED
      BY <2>0, <2>5, <1>1, <3>1 DEF TypeOK, InitFirst, sent
  <2>6. CASE InitSend
    <3>1. known' \subseteq Entry /\ missed' \subseteq Entry
      <4>1. CASE Listed(list, cursor)
        <5>1. cursor \in Entry /\ SendAppUrl(cursor)
          BY <2>0, <2>6, <4>1 DEF TypeOK, InitSend, Listed
        <5> QED
          BY <5>1, SendHears
      <4>2. CASE ~Listed(list, cursor)
        BY <2>0, <2>6, <4>2 DEF TypeOK, InitSend, sent
      <4> QED
        BY <4>1, <4>2
    <3> QED
      BY <2>0, <2>6, <1>1, <3>1 DEF TypeOK, InitSend
  <2>7. CASE InitNext
    <3>1. PICK i \in 1..(Len(list) + 1) : WalkTo(i)
      BY <2>0, <2>7 DEF TypeOK, InitNext
    <3>2. cursor' \in Entry \cup {NoEntry} /\ init' \in {"send", "idle"}
      BY <2>4, <3>1
    <3> QED
      BY <2>0, <2>7, <1>1, <3>2 DEF TypeOK, InitNext, sent
  <2> QED
    BY <2>1, <2>2, <2>3, <2>5, <2>6, <2>7
<1> QED
  BY <1>1, <1>2, BystanderStep

LEMMA SwitchSteps ==
    ASSUME IInv,
           (\E c \in Channel : SwitchBegin(c)) \/ TuneFails \/ TuneSucceeds \/ SwitchTell
             \/ SwitchAttach
    PROVE  IInv'
<1> USE DEF IInv, TypeOK, ListSorted, Phases, Adding, AtRow, OfChannel, RowsListed, initVars, browserVars, sent
<1>1. ASSUME NEW c \in Channel, SwitchBegin(c) PROVE IInv'
  <2>1. list' = <<>> /\ loop = <<>>
    BY <1>1 DEF SwitchBegin
  <2>2. /\ UNCHANGED <<allUrls, current, row, loop, adding, asked, init, announced, cursor, told, known, missed>>
        /\ switch' = "tune" /\ attached' = FALSE /\ target' = c
    BY <1>1 DEF SwitchBegin
  <2>3. TypeOK'
    <3>1. list' \in Seq(Entry)
      BY <2>1
    <3> QED
      BY <2>2, <3>1
  <2>4. ListSorted' /\ Phases'
    BY <2>1, <2>2 DEF Sorted
  <2>5. OfChannel' /\ RowsListed'
    BY <2>1, <2>2
  <2>9. Adding'
    BY <2>1, <2>2, <1>1 DEF SwitchBegin
  <2> QED
    BY <2>3, <2>4, <2>5, <2>9
<1>2. CASE TuneFails
  BY <1>2 DEF TuneFails
<1>3. CASE TuneSucceeds
  <2>1. list = <<>> /\ loop = <<>> /\ ~attached
    BY <1>3 DEF TuneSucceeds
  <2>2. /\ UNCHANGED <<list, allUrls, target, row, attached, loop, adding, asked, init, announced, cursor,
                       told, known, missed>>
        /\ switch' = "tell" /\ current' = target /\ target \in Channel
    BY <1>3 DEF TuneSucceeds
  <2>3. TypeOK' /\ ListSorted' /\ Phases'
    BY <2>1, <2>2 DEF Sorted
  <2>4. OfChannel' /\ RowsListed'
    BY <2>1, <2>2
  <2>9. Adding'
    BY <2>1, <2>2, <1>3 DEF TuneSucceeds
  <2> QED
    BY <2>3, <2>4, <2>9
<1>4. CASE SwitchTell
  <2>1. /\ UNCHANGED <<list, allUrls, current, target, attached, loop, adding, asked, init, announced,
                       cursor, known, missed>>
        /\ switch = "tell" /\ switch' = "add" /\ told' \in {told, target} /\ row' = 1
    BY <1>4 DEF SwitchTell
  <2>2. TypeOK' /\ ListSorted' /\ Phases'
    BY <2>1
  <2>3. OfChannel'
    BY <2>1
  <2>4. RowsListed'
    BY <2>1
  <2>9. Adding'
    BY <2>1
  <2> QED
    BY <2>2, <2>3, <2>4, <2>9
<1>5. CASE SwitchAttach
  <2>1. /\ UNCHANGED <<list, allUrls, current, loop, adding, asked, init, announced,
                       cursor, told, known, missed>>
        /\ switch = "add" /\ switch' = "idle" /\ attached' = TRUE /\ row = Len(allUrls) + 1
        /\ target' = NoChannel /\ row' = 1
    BY <1>5 DEF SwitchAttach
  <2>2. TypeOK' /\ ListSorted' /\ Phases' /\ OfChannel'
    BY <2>1
  <2>3. RowsListed'
    BY <2>1
  <2>9. Adding'
    BY <2>1
  <2> QED
    BY <2>2, <2>3, <2>9
<1> QED
  BY <1>1, <1>2, <1>3, <1>4, <1>5

LEMMA SwitchRowSteps ==
    ASSUME IInv, SwitchSkip \/ SwitchSend \/ SwitchInsert
    PROVE  IInv'
<1> USE DEF IInv
<1>1. AtRow
  BY DEF SwitchSkip, SwitchSend, SwitchInsert, AddInsert, Adding
<1>2. /\ switch = "add" /\ row \in 1..Len(allUrls) /\ ~attached /\ loop = <<>>
      /\ current = target /\ allUrls \in Seq(Lines)
  BY <1>1 DEF AtRow, TypeOK, Phases
<1>3. UNCHANGED <<allUrls, current, switch, target, attached, loop, asked, init, announced, cursor, told>>
  BY DEF SwitchSkip, SwitchSend, SwitchInsert, initVars, browserVars, switchVars
<1> DEFINE l == allUrls[row]
<1>4. l \in Lines /\ FromLine(l) \in Entry /\ FromLine(l).url = l.url
  BY <1>2, EntriesAreTyped
<1>5. CASE SwitchSkip
  <2>1. UNCHANGED <<list, adding, known, missed>> /\ l.chan # target /\ row' = row + 1
    BY <1>5 DEF SwitchSkip, browserVars, sent
  <2>2. adding["switch"] = NoEntry
    BY <2>1 DEF Adding
  <2>3. TypeOK' /\ Phases' /\ OfChannel' /\ ListSorted'
    BY <1>2, <1>3, <2>1 DEF TypeOK, Phases, OfChannel, ListSorted
  <2>4. RowsListed' /\ Adding'
    BY <1>2, <1>3, <2>1, <2>2 DEF RowsListed, TypeOK, Adding
  <2> QED
    BY <2>3, <2>4
<1>6. CASE SwitchSend
  <2>1. UNCHANGED <<list, row>> /\ l.chan = target /\ AddSend("switch", FromLine(l))
    BY <1>6 DEF SwitchSend, switchVars
  <2>2. /\ known' \subseteq Entry /\ missed' \subseteq Entry
        /\ adding' \in [Writer -> Entry \cup {NoEntry}]
        /\ adding'["switch"] = FromLine(l) /\ adding'["filter"] = adding["filter"]
    BY <1>4, <2>1, SendStep DEF Writer
  <2>3. TypeOK' /\ Phases' /\ OfChannel' /\ ListSorted' /\ RowsListed'
    BY <1>3, <2>1, <2>2 DEF TypeOK, Phases, OfChannel, ListSorted, RowsListed
  <2>4. Adding'
    BY <1>1, <1>3, <2>1, <2>2 DEF Adding, AtRow
  <2> QED
    BY <2>3, <2>4
<1>7. CASE SwitchInsert
  <2>1. UNCHANGED <<known, missed>> /\ row' = row + 1 /\ AddInsert("switch")
        /\ l.chan = target /\ adding["switch"] = FromLine(l)
    BY <1>7 DEF SwitchInsert, AddInsert, browserVars, sent, Adding
  <2>2. FromLine(l).url \in UrlsOf(current)
    BY <1>2, <1>4, <2>1 DEF OfChannel
  <2>3. /\ list' \in Seq(Entry)
        /\ adding' \in [Writer -> Entry \cup {NoEntry}]
        /\ ListSorted'
        /\ \A i \in 1..Len(list') : list'[i].url \in UrlsOf(current)
        /\ Contains(list', FromLine(l))
        /\ \A f \in Entry : Contains(list, f) => Contains(list', f)
    BY <2>1, <2>2, <1>4, InsertStep DEF Writer
  <2>4. TypeOK' /\ Phases'
    BY <1>2, <1>3, <2>1, <2>3 DEF TypeOK, Phases
  <2>5. OfChannel'
    BY <1>3, <2>3 DEF OfChannel
  <2>6. RowsListed'
    <3> SUFFICES ASSUME NEW i \in 1..row, allUrls[i].chan = target
                 PROVE  Contains(list', FromLine(allUrls[i]))
      BY <1>2, <1>3, <2>1 DEF RowsListed, TypeOK
    <3>1. CASE i = row
      BY <3>1, <2>3
    <3>2. CASE i < row
      <4>1. FromLine(allUrls[i]) \in Entry /\ Contains(list, FromLine(allUrls[i]))
        BY <3>2, <1>2, EntriesAreTyped DEF RowsListed, TypeOK
      <4> QED
        BY <4>1, <2>3
    <3> QED
      BY <3>1, <3>2, <1>2
  <2>7. Adding'
    <3>1. adding'["switch"] = NoEntry /\ adding'["filter"] = adding["filter"]
      BY <2>1 DEF AddInsert, TypeOK, Writer
    <3> QED
      BY <3>1, <1>3 DEF Adding
  <2> QED
    BY <2>3, <2>4, <2>5, <2>6, <2>7
<1> QED
  BY <1>5, <1>6, <1>7

LEMMA AitReceivedStep ==
    ASSUME IInv, AitReceived
    PROVE  IInv'
<1>1. /\ UNCHANGED <<list, allUrls, current, switch, target, row, attached, adding, asked, init,
                     announced, cursor, told, known, missed>>
      /\ attached /\ current \in Channel /\ switch = "idle" /\ loop = <<>>
  BY DEF AitReceived, switchVars, initVars, browserVars, sent, IInv, Phases
<1>2. PICK l \in Ait[current] : loop' = l
  BY DEF AitReceived
<1>3. l \in Seq(App)
  BY <1>1, AitAssumption
<1>4. \A i \in 1..Len(l) : l[i].url \in UrlsOf(current)
  BY DEF UrlsOf
<1>5. TypeOK' /\ ListSorted' /\ Phases' /\ Adding'
  BY <1>1, <1>2, <1>3 DEF IInv, TypeOK, ListSorted, Phases, Adding, AtRow
<1>6. OfChannel'
  BY <1>1, <1>2, <1>4 DEF IInv, OfChannel
<1>7. RowsListed'
  BY <1>1 DEF IInv, RowsListed
<1> QED
  BY <1>5, <1>6, <1>7 DEF IInv

LEMMA AitSendStep ==
    ASSUME IInv, AitSend
    PROVE  IInv'
<1>0. IInv
  OBVIOUS
<1>1. /\ UNCHANGED <<list, allUrls, current, switch, target, row, attached, loop, asked, init, announced, cursor, told>>
      /\ loop # <<>> /\ loop \in Seq(App) /\ AddSend("filter", NewUrl(Head(loop)))
  BY DEF AitSend, switchVars, initVars, IInv, TypeOK
<1>2. NewUrl(Head(loop)) \in Entry
  <2>1. Head(loop) \in App
    BY <1>1
  <2> QED
    BY <2>1, EntriesAreTyped
<1>3. /\ known' \subseteq Entry /\ missed' \subseteq Entry
      /\ adding' \in [Writer -> Entry \cup {NoEntry}]
      /\ adding'["filter"] = NewUrl(Head(loop)) /\ adding'["switch"] = adding["switch"]
  BY <1>1, <1>2, SendStep DEF Writer
<1>4. TypeOK' /\ Phases' /\ OfChannel' /\ ListSorted' /\ RowsListed'
  BY <1>0, <1>1, <1>3 DEF IInv, TypeOK, Phases, OfChannel, ListSorted, RowsListed
<1>5. Adding'
  BY <1>0, <1>1, <1>3 DEF IInv, Adding, AtRow
<1> QED
  BY <1>4, <1>5 DEF IInv

LEMMA AitInsertStep ==
    ASSUME IInv, AitInsert
    PROVE  IInv'
<1>0. IInv
  OBVIOUS
<1>1. /\ UNCHANGED <<current, switch, target, row, attached, asked, init, announced, cursor, told,
                     known, missed>>
      /\ loop # <<>> /\ attached /\ current \in Channel /\ switch = "idle"
      /\ loop' = Tail(loop) /\ loop \in Seq(App) /\ allUrls \in Seq(Lines)
  BY DEF AitInsert, AddInsert, Adding, switchVars, initVars, browserVars, sent, IInv, Phases, TypeOK
<1> DEFINE a == Head(loop)
           e == NewUrl(a)
           l == Line(current, e)
<1>2. a \in App /\ a = loop[1] /\ 1 \in 1..Len(loop)
  BY <1>1
<1>3. e \in Entry /\ e.url = a.url
  BY <1>2, EntriesAreTyped
<1>4. l \in Lines /\ l.chan = current /\ l.url = e.url /\ FromLine(l) \in Entry
  BY <1>1, <1>3, EntriesAreTyped
<1>5. a.url \in UrlsOf(current)
  BY <1>2 DEF IInv, OfChannel
<1>6. AddInsert("filter") /\ adding["filter"] = e
  BY DEF AitInsert, AddInsert, IInv, Adding
<1>7. /\ list' \in Seq(Entry)
      /\ adding' \in [Writer -> Entry \cup {NoEntry}]
      /\ ListSorted'
      /\ \A i \in 1..Len(list') : list'[i].url \in UrlsOf(current)
      /\ Contains(list', e)
      /\ \A f \in Entry : Contains(list, f) => Contains(list', f)
  BY <1>3, <1>5, <1>6, InsertStep DEF Writer
<1>8. Contains(list', FromLine(l))
  BY <1>1, <1>3, <1>7, LineKeepsKey
<1>9. loop' \in Seq(App) /\ \A i \in 1..Len(loop') : loop'[i].url \in UrlsOf(current)
  <2>1. loop' \in Seq(App) /\ Len(loop') = Len(loop) - 1 /\ Len(loop) \in Nat
    BY <1>1
  <2>2. \A i \in 1..Len(loop') : loop'[i] = loop[i + 1] /\ i + 1 \in 1..Len(loop)
    BY <1>1, <2>1
  <2> QED
    BY <2>1, <2>2 DEF IInv, OfChannel
<1>10. \/ allUrls' = allUrls
       \/ allUrls' = <<l>> \o allUrls
  BY <1>6 DEF AitInsert, Remember
<1>11. /\ allUrls' \in Seq(Lines) /\ Len(allUrls') >= Len(allUrls) /\ Len(allUrls') \in Nat
       /\ \A i \in 1..Len(allUrls') :
            allUrls'[i] = l \/ \E j \in 1..Len(allUrls) : allUrls'[i] = allUrls[j]
  <2>1. CASE allUrls' = allUrls
    BY <2>1, <1>1
  <2>2. CASE allUrls' = <<l>> \o allUrls
    <3>1. <<l>> \in Seq(Lines) /\ Len(<<l>>) = 1 /\ <<l>>[1] = l
      BY <1>4
    <3>2. allUrls' \in Seq(Lines) /\ Len(allUrls') = Len(allUrls) + 1 /\ Len(allUrls) \in Nat
      BY <2>2, <3>1, <1>1
    <3>3. \A i \in 1..Len(allUrls') : i = 1 \/ i - 1 \in 1..Len(allUrls)
      BY <3>2
    <3>4. allUrls'[1] = l
      BY <2>2, <3>1, <1>1
    <3>5. \A i \in 1..Len(allUrls') : i # 1 => allUrls'[i] = allUrls[i - 1]
      BY <2>2, <3>1, <3>2, <1>1
    <3> QED
      BY <3>2, <3>3, <3>4, <3>5
  <2> QED
    BY <2>1, <2>2, <1>10
<1>12. TypeOK'
  <2>1. row' \in 1..(Len(allUrls') + 1)
    BY <1>0, <1>1, <1>11 DEF IInv, TypeOK
  <2> QED
    BY <1>0, <1>1, <1>7, <1>9, <1>11, <2>1 DEF IInv, TypeOK
<1>13. Phases'
  BY <1>0, <1>1 DEF IInv, Phases
<1>16. Adding'
  <2>1. adding'["filter"] = NoEntry /\ adding'["switch"] = adding["switch"]
    BY <1>0, <1>6 DEF AddInsert, IInv, TypeOK, Writer
  <2>2. adding["switch"] = NoEntry
    BY <1>0, <1>1 DEF IInv, Adding, AtRow
  <2> QED
    BY <2>1, <2>2 DEF Adding
<1>14. OfChannel'
  <2>1. \A i \in 1..Len(allUrls') : allUrls'[i].url \in UrlsOf(allUrls'[i].chan)
    BY <1>0, <1>3, <1>4, <1>5, <1>11 DEF IInv, OfChannel
  <2> QED
    BY <2>1, <1>1, <1>7, <1>9 DEF OfChannel
<1>15. RowsListed'
  <2> SUFFICES ASSUME NEW i \in 1..Len(allUrls'), allUrls'[i].chan = current
               PROVE  Contains(list', FromLine(allUrls'[i]))
    BY <1>1 DEF RowsListed
  <2>1. CASE allUrls'[i] = l
    BY <2>1, <1>8
  <2>2. ASSUME NEW j \in 1..Len(allUrls), allUrls'[i] = allUrls[j]
        PROVE  Contains(list', FromLine(allUrls'[i]))
    <3>1. allUrls[j] \in Lines /\ Contains(list, FromLine(allUrls[j]))
      BY <1>0, <1>1, <2>2 DEF IInv, RowsListed
    <3> QED
      BY <3>1, <2>2, <1>7, EntriesAreTyped
  <2> QED
    BY <2>1, <2>2, <1>11
<1> QED
  BY <1>7, <1>12, <1>13, <1>14, <1>15, <1>16 DEF IInv

LEMMA StepHolds == IInv /\ [Next]_vars => IInv'
<1> SUFFICES ASSUME IInv, [Next]_vars PROVE IInv'
  OBVIOUS
<1>1. CASE UNCHANGED vars
  <2>1. TypeOK'
    BY <1>1 DEF IInv, TypeOK, vars, switchVars, initVars, browserVars, sent
  <2> QED
    BY <1>1, <2>1, BystanderStep DEF vars, switchVars
<1>2. CASE Next
  BY <1>2, BrowserSteps, SwitchSteps, SwitchRowSteps, AitReceivedStep, AitSendStep, AitInsertStep DEF Next
<1> QED
  BY <1>1, <1>2

LEMMA Invariance == Spec => []IInv
<1> QED
  BY InitHolds, StepHolds, PTL DEF Spec

-----------------------------------------------------------------------------
(* What the browser knows.                                                 *)

\* The walk that answers SEND_INIT has not said e yet: it is asked for, or
\* begun, or stands at e or before it.
Unsaid(e) ==
    \/ asked
    \/ init \in {"tell", "first"}
    \/ init = "send" /\ Listed(list, cursor) /\ Compare(cursor, e) <= 0
    \/ init = "next" /\ Listed(list, cursor) /\ Compare(cursor, e) < 0

\* What has been sent or should have been.
Heard == known \cup missed

\* What the browser has not heard is still to be said.  If the walk's element
\* was deleted, the list was cleared, and all that is in it was sent before it
\* was inserted.
WalkInv ==
    /\ \A i \in 1..Len(list) : list[i] \in Heard \/ Unsaid(list[i])
    /\ \A w \in Writer : adding[w] # NoEntry => adding[w] \in Heard

\* The list as the walk sees it: typed, and in the order of its positions.
LEMMA ListFacts ==
    ASSUME IInv
    PROVE  /\ list \in Seq(Entry) /\ Len(list) \in Nat
           /\ \A i \in 1..Len(list) : list[i] \in Entry
           /\ \A i, j \in 1..Len(list) : i <= j => Compare(list[i], list[j]) <= 0
           /\ \A i, j \in 1..Len(list) : Compare(list[i], list[j]) <= 0 => i <= j
           /\ \A i, j \in 1..Len(list) : Compare(list[i], list[j]) < 0 => i < j
<1>1. list \in Seq(Entry) /\ Sorted(list)
  BY DEF IInv, TypeOK, ListSorted
<1>2. Len(list) \in Nat /\ \A i \in 1..Len(list) : list[i] \in Entry
  BY <1>1
<1> SUFFICES ASSUME NEW i \in 1..Len(list), NEW j \in 1..Len(list)
             PROVE  /\ i <= j => Compare(list[i], list[j]) <= 0
                    /\ Compare(list[i], list[j]) <= 0 => i <= j
                    /\ Compare(list[i], list[j]) < 0 => i < j
  BY <1>1, <1>2
<1> DEFINE c == Compare(list[i], list[j])
           d == Compare(list[j], list[i])
<1>3. list[i] \in Entry /\ list[j] \in Entry
  BY <1>2
<1>4. /\ c \in Int /\ d \in Int
      /\ d < 0 <=> c > 0
      /\ i = j => c = 0
  BY <1>3, CompareSign, EqualToItself
<1>5. (i < j => c < 0) /\ (j < i => d < 0)
  BY <1>1 DEF Sorted
<1> HIDE DEF c, d
<1>6. i \in Int /\ j \in Int
  OBVIOUS
<1>7. /\ i <= j => c <= 0
      /\ c <= 0 => i <= j
      /\ c < 0 => i < j
  BY <1>4, <1>5, <1>6
<1> QED
  BY <1>7 DEF c

\* Entries are sent before they are inserted; the others keep their place.
LEMMA WalkSurvivesInsert ==
    ASSUME IInv, WalkInv, NEW w \in Writer, AddInsert(w), UNCHANGED <<asked, init, cursor, known, missed>>
    PROVE  WalkInv'
<1> DEFINE e == adding[w]
<1>1. list \in Seq(Entry) /\ list' = Add(list, e) /\ e \in Entry /\ Heard' = Heard /\ e \in Heard
  BY DEF AddInsert, IInv, TypeOK, Heard, WalkInv
<1>2. \A f : Listed(list, f) => Listed(list', f)
  BY Zenon, <1>1, AddKeepsOrder
<1>3. \A i \in 1..Len(list') : list'[i] = e \/ \E j \in 1..Len(list) : list'[i] = list[j]
  <2>1. \A i \in 1..Len(Add(list, e)) :
          Add(list, e)[i] = e \/ \E j \in 1..Len(list) : Add(list, e)[i] = list[j]
    BY Zenon, <1>1, AddKeepsOrder
  <2> QED
    BY Zenon, <2>1, <1>1
<1>4. \A v \in Writer : adding'[v] # NoEntry => adding'[v] \in Heard'
  BY <1>1 DEF WalkInv, AddInsert, IInv, TypeOK
<1> SUFFICES ASSUME NEW i \in 1..Len(list')
             PROVE  list'[i] \in Heard' \/ Unsaid(list[i])'
  BY <1>4 DEF WalkInv
<1>5. CASE list'[i] = e
  BY <1>5, <1>1
<1>6. ASSUME NEW j \in 1..Len(list), list'[i] = list[j]
      PROVE  list'[i] \in Heard' \/ Unsaid(list[i])'
  <2>1. list[j] \in Heard \/ Unsaid(list[j])
    BY DEF WalkInv
  <2>2. CASE list[j] \in Heard
    BY <2>2, <1>1, <1>6
  <2>3. CASE Unsaid(list[j])
    <3>1. Unsaid(list'[i])
      BY <2>3, <1>6
    <3> QED
      BY <3>1, <1>2 DEF Unsaid
  <2> QED
    BY <2>1, <2>2, <2>3
<1> QED
  BY <1>3, <1>5, <1>6

\* A sending only adds to what has been heard.
LEMMA WalkSurvivesSend ==
    ASSUME IInv, WalkInv, NEW w \in Writer, NEW e \in Entry, AddSend(w, e), UNCHANGED <<list, asked, init, cursor>>
    PROVE  WalkInv'
<1>1. Heard' = Heard \cup {e}
  BY SendHears DEF AddSend, Heard
<1>2. adding'[w] = e /\ \A v \in Writer : v # w => adding'[v] = adding[v]
  BY SendStep
<1>3. \A v \in Writer : adding'[v] # NoEntry => adding'[v] \in Heard'
  BY <1>1, <1>2 DEF WalkInv
<1>4. \A i \in 1..Len(list') : list'[i] \in Heard' \/ Unsaid(list[i])'
  BY <1>1 DEF WalkInv, Unsaid
<1> QED
  BY <1>3, <1>4 DEF WalkInv

\* The walk's own steps.
LEMMA WalkGoesOn ==
    ASSUME IInv, WalkInv, InitFirst \/ InitSend \/ InitNext
    PROVE  WalkInv'
<1>0. UNCHANGED <<list, asked, adding>> /\ Heard \subseteq Heard'
      /\ ((InitSend /\ Listed(list, cursor)) => cursor \in Heard')
  <2>1. CASE InitSend /\ Listed(list, cursor)
    <3>1. cursor \in Entry /\ SendAppUrl(cursor)
      BY <2>1 DEF InitSend, IInv, TypeOK, Listed
    <3>2. Heard' = Heard \cup {cursor}
      BY <3>1, SendHears DEF Heard
    <3> QED
      BY <2>1, <3>2 DEF InitSend
  <2>2. CASE ~(InitSend /\ Listed(list, cursor))
    BY <2>2 DEF InitFirst, InitSend, InitNext, sent, Heard
  <2> QED
    BY <2>1, <2>2
<1>a. \A v \in Writer : adding'[v] # NoEntry => adding'[v] \in Heard'
  BY <1>0 DEF WalkInv
<1>1. /\ Len(list) \in Nat
      /\ \A i \in 1..Len(list) : list[i] \in Entry
      /\ \A i, j \in 1..Len(list) : i <= j => Compare(list[i], list[j]) <= 0
      /\ \A i, j \in 1..Len(list) : Compare(list[i], list[j]) <= 0 => i <= j
      /\ \A i, j \in 1..Len(list) : Compare(list[i], list[j]) < 0 => i < j
  BY ListFacts
<1> SUFFICES ASSUME NEW j \in 1..Len(list), list[j] \notin Heard', ~asked
             PROVE  Unsaid(list[j])'
  BY <1>0, <1>a DEF WalkInv, Unsaid
\* The walk has reached an element that is not behind j.
<1>2. ASSUME NEW i \in 1..(Len(list) + 1), i <= j, WalkTo(i)
      PROVE  Unsaid(list[j])'
  <2>1. i \in 1..Len(list)
    BY <1>1, <1>2
  <2>2. init' = "send" /\ cursor' = list[i]
    BY <2>1, <1>2 DEF WalkTo
  <2>3. Listed(list', cursor')
    BY <2>1, <2>2, <1>0 DEF Listed
  <2>4. Compare(list[i], list[j]) <= 0
    BY <2>1, <1>1, <1>2
  <2> QED
    BY <2>2, <2>3, <2>4, <1>0 DEF Unsaid
<1>3. CASE InitFirst
  BY <1>3, <1>1, <1>2 DEF InitFirst
<1>4. CASE InitSend
  <2>1. list[j] \notin Heard /\ init = "send" /\ init' = "next" /\ cursor' = cursor
    BY <1>0, <1>4 DEF InitSend
  <2>2. Listed(list, cursor) /\ Compare(cursor, list[j]) <= 0
    BY <2>1 DEF WalkInv, Unsaid
  <2>3. cursor \in Heard'
    BY <2>2, <1>4, <1>0
  <2>4. PICK k \in 1..Len(list) : list[k] = cursor
    BY <2>2 DEF Listed
  <2>5. k <= j /\ k # j
    BY <2>2, <2>3, <2>4, <1>1
  <2>6. Compare(list[k], list[j]) < 0
    BY <2>4, <2>5, <1>1 DEF IInv, ListSorted, Sorted
  <2> QED
    BY <2>1, <2>2, <2>4, <2>6, <1>0 DEF Unsaid
<1>5. CASE InitNext
  <2>1. list[j] \notin Heard /\ init = "next"
    BY <1>0, <1>5 DEF InitNext
  <2>2. Listed(list, cursor) /\ Compare(cursor, list[j]) < 0
    BY <2>1 DEF WalkInv, Unsaid
  <2>3. PICK i \in 1..Len(list) : list[i] = cursor /\ WalkTo(i + 1)
    BY <2>2, <1>5 DEF InitNext
  <2>4. i < j
    BY <2>2, <2>3, <1>1
  <2>5. i + 1 \in 1..(Len(list) + 1) /\ i + 1 <= j
    BY <2>4, <1>1
  <2> QED
    BY <2>3, <2>5, <1>2
<1> QED
  BY <1>3, <1>4, <1>5

LEMMA WalkStep == IInv /\ WalkInv /\ [Next]_vars => WalkInv'
<1> SUFFICES ASSUME IInv, WalkInv, [Next]_vars PROVE WalkInv'
  OBVIOUS
<1> USE DEF switchVars, initVars, browserVars, sent
\* Steps that the walk does not notice.
<1>1. ASSUME UNCHANGED <<list, adding, asked, init, cursor, known, missed>> PROVE WalkInv'
  BY <1>1 DEF WalkInv, Unsaid, Heard
<1>2. ASSUME NEW c \in Channel, SwitchBegin(c) PROVE WalkInv'
  <2>1. list' = <<>> /\ UNCHANGED <<adding, known, missed>>
    BY <1>2 DEF SwitchBegin, IInv, Phases
  <2> QED
    BY <2>1 DEF WalkInv, Heard
<1>3. CASE TuneFails \/ TuneSucceeds \/ SwitchTell \/ SwitchSkip \/ SwitchAttach \/ AitReceived
  BY <1>3, <1>1 DEF TuneFails, TuneSucceeds, SwitchTell, SwitchSkip, SwitchAttach, AitReceived
<1>4. CASE SwitchSend
  <2>1. AddSend("switch", FromLine(allUrls[row])) /\ UNCHANGED <<list, asked, init, cursor>>
        /\ row \in 1..Len(allUrls)
    BY <1>4 DEF SwitchSend, AtRow, IInv, TypeOK
  <2>2. FromLine(allUrls[row]) \in Entry
    <3>1. allUrls[row] \in Lines
      BY <2>1 DEF IInv, TypeOK
    <3> QED
      BY <3>1, EntriesAreTyped
  <2> QED
    BY <2>1, <2>2, WalkSurvivesSend DEF Writer
<1>5. CASE AitSend
  <2>1. UNCHANGED <<list, asked, init, cursor>> /\ AddSend("filter", NewUrl(Head(loop)))
    BY <1>5 DEF AitSend
  <2>2. NewUrl(Head(loop)) \in Entry
    <3>1. loop \in Seq(App) /\ loop # <<>>
      BY <1>5 DEF AitSend, IInv, TypeOK
    <3>2. Head(loop) \in App
      BY <3>1
    <3> QED
      BY <3>2, EntriesAreTyped
  <2> QED
    BY <2>1, <2>2, WalkSurvivesSend DEF Writer
<1>10. CASE SwitchInsert \/ AitInsert
  BY <1>10, WalkSurvivesInsert DEF SwitchInsert, AitInsert, Writer
<1>6. CASE BrowserStart
  BY <1>6 DEF BrowserStart, WalkInv, Unsaid, Heard
<1>7. CASE InitBegin \/ InitTell
  BY <1>7 DEF InitBegin, InitTell, WalkInv, Unsaid, Heard
<1>8. CASE InitFirst \/ InitSend \/ InitNext
  BY <1>8, WalkGoesOn
<1>9. CASE UNCHANGED vars
  BY <1>9, <1>1 DEF vars
<1> QED
  BY <1>2, <1>3, <1>4, <1>5, <1>6, <1>7, <1>8, <1>9, <1>10 DEF Next

LEMMA WalkInvariance == Spec => []WalkInv
<1>1. Init => WalkInv
  BY DEF Init, WalkInv, Writer
<1> QED
  BY <1>1, WalkStep, Invariance, PTL DEF Spec

-----------------------------------------------------------------------------
(* The theorems.                                                           *)

\* Ids and control codes stay bytes and the switch's row stays a row of the
\* store, or the one behind its end.
THEOREM TypeCorrect == Spec => []TypeOK
<1>1. IInv => TypeOK
  BY DEF IInv
<1> QED
  BY <1>1, Invariance, PTL

\* AddSortedUniqe keeps the list strictly ascending, whoever calls it.
THEOREM ListIsSorted == Spec => []ListSorted
<1>1. IInv => ListSorted
  BY DEF IInv
<1> QED
  BY <1>1, Invariance, PTL

\* Detaching before clearing and attaching after filling keep the filter and
\* the switch from writing the list at the same time.
THEOREM WritersAreApart == Spec => []WritersApart
<1>1. IInv => WritersApart
  BY DEF IInv, Phases, WritersApart
<1> QED
  BY <1>1, Invariance, PTL

\* The list never names an address of another channel.
THEOREM ListIsOfChannel == Spec => []ListOfChannel
<1>1. IInv => ListOfChannel
  <2> SUFFICES ASSUME IInv, switch # "tune", NEW i \in 1..Len(list)
               PROVE  current # NoChannel /\ list[i].url \in UrlsOf(current)
    BY DEF ListOfChannel
  <2>1. list[i].url \in UrlsOf(current)
    BY DEF IInv, OfChannel
  <2>2. list # <<>>
    OBVIOUS
  <2>3. attached \/ switch = "add"
    BY <2>2 DEF IInv, Phases
  <2>4. current \in Channel
    BY <2>3 DEF IInv, Phases
  <2> QED
    BY <2>1, <2>4, AitAssumption
<1> QED
  BY <1>1, Invariance, PTL

\* While the filter is attached, every row the store has of the channel is in
\* the list.
THEOREM StoredAreListed == Spec => []StoredIsListed
<1>1. IInv => StoredIsListed
  BY DEF IInv, RowsListed, StoredIsListed
<1> QED
  BY <1>1, Invariance, PTL

\* Once the answer to SEND_INIT is over and nothing else is under way, every
\* entry of the list was sent to the browser since it started, although the
\* list is cleared and filled while the answer walks along it, except those
\* whose sending failed or went to the browser before it.
THEOREM BrowserIsToldList == Spec => []BrowserKnowsList
<1>1. WalkInv => BrowserKnowsList
  BY DEF WalkInv, Heard, Unsaid, BrowserKnowsList, Quiet
<1> QED
  BY <1>1, WalkInvariance, PTL

=============================================================================
