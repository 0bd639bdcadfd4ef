------------------------- MODULE ApplicationProofs -------------------------
(***************************************************************************)
(* Proofs about the two components through which applications come in and  *)
(* are kept: AitFilter, for every set of pids and every bound, and         *)
(* UrlStore, for any set of lines.                                         *)
(***************************************************************************)
EXTENDS AitFilter, UrlStore, FiniteSetTheorems, TLAPS

-----------------------------------------------------------------------------
(* AitFilter: the filters are neither doubled nor lost.  The conjunction   *)
(* of the four invariants is inductive; no one of the last three is by     *)
(* itself: a new PMT filter is the first of its pid because only the old   *)
(* PMT had one, and the filter is attentive because a deletion triggers or *)
(* is made up for.                                                         *)

Pids == PmtPid \cup AitPid

\* The types of the variables that the code owns.
FilterTypeOK ==
    /\ on \in BOOLEAN
    /\ filters \in [Pids -> Nat]
    /\ patVersion \in Version \cup {NoVersion}
    /\ pmtVersion \in Version \cup {NoVersion}
    /\ pmtPid \in PmtPid \cup {NoPid}
    /\ pmtNextCheck \in {"none", "running", "over"}
    /\ seen \in [AitPid -> Content \cup {Nothing}]

BroadcastTypeOK ==
    /\ pat \in [version : Version, pmt : PmtPid \cup {NoPid}]
    /\ pmt \in [version : Version, aits : SUBSET AitPid]
    /\ ait \in [AitPid -> Content]
    /\ changes \in 0..MaxChanges

IInv == BroadcastTypeOK /\ FilterTypeOK /\ NoDoubleFilter /\ OnlyOwnPmt /\ StaysAttentive

-----------------------------------------------------------------------------
\* cFilter::Del touches the filter of one pid and leaves none behind if there
\* was at most one.
LEMMA DelRemoves ==
    ASSUME NEW f \in [Pids -> Nat], NEW p \in Pids
    PROVE  /\ Del(f, p) \in [Pids -> Nat]
           /\ f[p] <= 1 => Del(f, p)[p] = 0
           /\ Del(f, p)[p] <= f[p]
           /\ \A q \in Pids \ {p} : Del(f, p)[q] = f[q]
<1>1. Del(f, p) = [f EXCEPT ![p] = IF f[p] > 0 THEN f[p] - 1 ELSE 0]
  BY DEF Del
<1>2. (IF f[p] > 0 THEN f[p] - 1 ELSE 0) \in Nat
  OBVIOUS
<1> QED
  BY <1>1, <1>2

\* Every AIT that is added gets one more filter, the PMT loses some of its
\* own, and the other pids keep theirs.
LEMMA AddAitsMoves ==
    ASSUME BroadcastTypeOK, FilterTypeOK, NEW new \in SUBSET AitPid, AddAits(new)
    PROVE  /\ filters' \in [Pids -> Nat]
           /\ \A p \in new : filters'[p] = filters[p] + 1
           /\ \A p \in Pids \ new : filters'[p] <= filters[p]
<1>1. Cardinality(new) \in Nat
  BY PidAssumption, FS_Subset, FS_CardinalityType
<1>2. DOMAIN filters = Pids /\ \A p \in Pids : filters[p] \in Nat
  BY DEF FilterTypeOK
<1>3. new \subseteq Pids
  BY DEF Pids
<1> DEFINE g(p) == IF p \in new THEN filters[p] + 1
                   ELSE IF p # pmtPid THEN filters[p]
                   ELSE IF filters[p] > Cardinality(new) THEN filters[p] - Cardinality(new)
                   ELSE 0
<1>4. \A p \in Pids : g(p) \in Nat /\ (p \notin new => g(p) <= filters[p])
  BY <1>1, <1>2
<1>5. filters' = [p \in Pids |-> g(p)]
  BY <1>2 DEF AddAits
<1> QED
  BY <1>3, <1>4, <1>5

-----------------------------------------------------------------------------
LEMMA InitHolds == Init => IInv
<1> SUFFICES ASSUME Init PROVE IInv
  OBVIOUS
<1> USE PidAssumption, VersionAssumption, BoundAssumption DEF Init
<1>1. BroadcastTypeOK
  BY DEF BroadcastTypeOK
<1>2. FilterTypeOK
  BY DEF FilterTypeOK, Pids
<1> QED
  BY <1>1, <1>2 DEF IInv, NoDoubleFilter, OnlyOwnPmt, StaysAttentive

\* The broadcaster's part of the type.
LEMMA BroadcastStays == BroadcastTypeOK /\ [Next]_vars => BroadcastTypeOK'
<1> SUFFICES ASSUME BroadcastTypeOK, [Next]_vars PROVE BroadcastTypeOK'
  OBVIOUS
<1> USE BoundAssumption DEF BroadcastTypeOK
<1>1. \A v \in Version : NextVersion(v) \in Version
  BY DEF Version, NextVersion
<1>2. CASE PatChanges
  BY <1>1, <1>2 DEF PatChanges, Change
<1>3. CASE PmtChanges
  BY <1>1, <1>3 DEF PmtChanges, Change
<1>4. CASE AitChanges
  BY <1>4 DEF AitChanges, Change
<1>5. CASE SetStatusOff
  BY <1>5 DEF SetStatusOff, Trigger, broadcast
<1>6. CASE UNCHANGED <<broadcast, changes>>
  BY <1>6 DEF broadcast
<1> QED
  BY <1>2, <1>3, <1>4, <1>5, <1>6 DEF Next, SetStatusOn, ProcessPat, PmtChanged,
     PmtNothingNew, PmtNewAits, ProcessAit, DamagedAit, AitReceived, Elapse, vars

\* The filter's part: its type and the three invariants.
LEMMA FilterStays ==
    IInv /\ [Next]_vars => FilterTypeOK' /\ NoDoubleFilter' /\ OnlyOwnPmt' /\ StaysAttentive'
<1> SUFFICES ASSUME IInv, [Next]_vars
             PROVE  FilterTypeOK' /\ NoDoubleFilter' /\ OnlyOwnPmt' /\ StaysAttentive'
  OBVIOUS
<1> USE PidAssumption, VersionAssumption
<1> DEFINE F == FilterTypeOK' /\ NoDoubleFilter' /\ OnlyOwnPmt' /\ StaysAttentive'
<1>1. CASE SetStatusOn
  <2>1. FilterTypeOK'
    BY <1>1 DEF IInv, FilterTypeOK, SetStatusOn, Trigger
  <2> QED
    BY <1>1, <2>1 DEF IInv, SetStatusOn, Trigger, NoDoubleFilter, OnlyOwnPmt, StaysAttentive
<1>2. CASE SetStatusOff
  <2>1. FilterTypeOK'
    BY <1>2 DEF IInv, FilterTypeOK, SetStatusOff, Trigger, Pids
  <2> QED
    BY <1>2, <2>1 DEF IInv, SetStatusOff, Trigger, NoDoubleFilter, OnlyOwnPmt, StaysAttentive
<1>3. CASE ProcessPat
  <2> DEFINE f == IF pmtPid = NoPid THEN filters ELSE Del(filters, pmtPid)
  <2>1. pat.pmt \in PmtPid \cup {NoPid} /\ pat.version \in Version
    BY DEF IInv, BroadcastTypeOK
  <2>0. filters \in [Pids -> Nat] /\ \A p \in Pids : filters[p] <= 1
    BY DEF IInv, FilterTypeOK, NoDoubleFilter, Pids
  <2>9. pmtPid # NoPid => pmtPid \in Pids
    BY DEF IInv, FilterTypeOK, Pids
  <2>2. f \in [Pids -> Nat] /\ \A p \in Pids : f[p] <= 1
    <3>1. CASE pmtPid = NoPid
      BY <2>0, <3>1
    <3>2. CASE pmtPid # NoPid
      <4>1. f = Del(filters, pmtPid)
        BY <3>2
      <4>2. f \in [Pids -> Nat] /\ f[pmtPid] = 0 /\ \A q \in Pids \ {pmtPid} : f[q] = filters[q]
        BY <2>0, <2>9, <3>2, <4>1, DelRemoves
      <4> QED
        BY <2>0, <4>2
    <3> QED
      BY <3>1, <3>2
  <2>3. \A p \in PmtPid : f[p] = 0
    <3> SUFFICES ASSUME NEW p \in PmtPid PROVE f[p] = 0
      OBVIOUS
    <3>1. CASE p = pmtPid
      <4>1. p # NoPid /\ p \in Pids
        BY DEF Pids
      <4> QED
        BY <2>0, <3>1, <4>1, DelRemoves
    <3>2. CASE p # pmtPid
      <4>1. filters[p] = 0
        BY <3>2 DEF IInv, FilterTypeOK, OnlyOwnPmt, Pids
      <4> QED
        BY <2>0, <2>9, <3>2, <4>1, DelRemoves DEF Pids
    <3> QED
      BY <3>1, <3>2
  <2>4. PmtMoves(f) /\ on /\ on' = on /\ pmtVersion' = pmtVersion /\ seen' = seen
    BY <1>3 DEF ProcessPat
  <2> HIDE DEF f
  <2>5. CASE pat.pmt = NoPid
    <3>1. filters' = f /\ pmtPid' = NoPid /\ pmtNextCheck' = pmtNextCheck
          /\ patVersion' = pat.version
      BY <2>4, <2>5 DEF PmtMoves
    <3>2. FilterTypeOK'
      BY <2>1, <2>2, <2>4, <3>1 DEF IInv, FilterTypeOK
    <3> QED
      BY <2>2, <2>3, <3>1, <3>2 DEF NoDoubleFilter, OnlyOwnPmt, StaysAttentive, Pids
  <2>6. CASE pat.pmt # NoPid
    <3>1. filters' = [f EXCEPT ![pat.pmt] = f[pat.pmt] + 1] /\ pmtPid' = pat.pmt
          /\ pmtNextCheck' = "running" /\ patVersion' = pat.version
      BY <2>4, <2>6 DEF PmtMoves
    <3>2. pat.pmt \in Pids /\ filters' = [f EXCEPT ![pat.pmt] = 1]
      <4>1. pat.pmt \in PmtPid
        BY <2>1, <2>6
      <4>2. f[pat.pmt] + 1 = 1
        BY <2>3, <4>1
      <4> QED
        BY <3>1, <4>1, <4>2 DEF Pids
    <3>3. FilterTypeOK'
      BY <2>1, <2>2, <2>4, <3>1, <3>2 DEF IInv, FilterTypeOK
    <3> QED
      BY <2>1, <2>2, <2>3, <2>4, <3>1, <3>2, <3>3
         DEF NoDoubleFilter, OnlyOwnPmt, StaysAttentive, Pids
  <2> QED
    BY <2>5, <2>6
<1>4. CASE PmtChanged
  <2>1. pmtPid \in Pids
    BY <1>4 DEF PmtChanged, PmtDue, IInv, FilterTypeOK, Pids
  <2>2. filters' = Del(filters, pmtPid) /\ pmtPid' = pmtPid /\ patVersion' = NoVersion
    BY <1>4 DEF PmtChanged, Trigger
  <2>3. filters' \in [Pids -> Nat] /\ \A p \in Pids : filters'[p] <= filters[p]
    BY <2>1, <2>2, DelRemoves DEF IInv, FilterTypeOK
  <2>4. FilterTypeOK'
    BY <1>4, <2>3 DEF IInv, FilterTypeOK, PmtChanged, Trigger
  <2> QED
    BY <2>2, <2>3, <2>4 DEF IInv, FilterTypeOK, NoDoubleFilter, OnlyOwnPmt, StaysAttentive, Pids
<1>5. CASE PmtNothingNew
  <2>1. FilterTypeOK'
    BY <1>5 DEF IInv, BroadcastTypeOK, FilterTypeOK, PmtNothingNew
  <2> QED
    BY <1>5, <2>1 DEF IInv, PmtNothingNew, NoDoubleFilter, OnlyOwnPmt, StaysAttentive
<1>6. CASE PmtNewAits
  <2> DEFINE new == {p \in pmt.aits : ~Matches(p)}
  <2>1. new \in SUBSET AitPid
    BY DEF IInv, BroadcastTypeOK
  <2>2. AddAits(new) /\ on /\ pmtPid' = pmtPid /\ patVersion' = NoVersion
    BY <1>6 DEF PmtNewAits, PmtRead, PmtDue, Matches, Trigger
  <2>3. \A p \in new : filters[p] = 0
    BY <2>1, <2>2 DEF Matches, IInv, FilterTypeOK, Pids
  <2> HIDE DEF new
  <2>4. /\ filters' \in [Pids -> Nat]
        /\ \A p \in new : filters'[p] = filters[p] + 1
        /\ \A p \in Pids \ new : filters'[p] <= filters[p]
    BY <2>1, <2>2, AddAitsMoves DEF IInv
  <2>5. FilterTypeOK'
    BY <1>6, <2>4 DEF IInv, FilterTypeOK, PmtNewAits, Trigger
  <2>6. NoDoubleFilter'
    BY <2>3, <2>4 DEF IInv, FilterTypeOK, NoDoubleFilter, Pids
  <2>7. OnlyOwnPmt'
    BY <2>1, <2>2, <2>4 DEF IInv, FilterTypeOK, OnlyOwnPmt, Pids
  <2> QED
    BY <2>2, <2>5, <2>6, <2>7 DEF StaysAttentive
<1>7. ASSUME NEW p \in AitPid, AitReceived(p), seen' \in [AitPid -> Content \cup {Nothing}]
      PROVE  F
  <2>1. filters' = Del(filters, p) /\ pmtPid' = pmtPid /\ patVersion' = patVersion /\ on' = on
    BY <1>7 DEF AitReceived
  <2>2. filters' \in [Pids -> Nat] /\ (\A q \in Pids : filters'[q] <= filters[q])
        /\ \A q \in PmtPid : filters'[q] = filters[q]
    <3>1. filters \in [Pids -> Nat] /\ p \in Pids /\ p \notin PmtPid
      BY DEF IInv, FilterTypeOK, Pids
    <3>2. /\ filters' \in [Pids -> Nat] /\ filters'[p] <= filters[p]
          /\ \A q \in Pids \ {p} : filters'[q] = filters[q]
      BY <2>1, <3>1, DelRemoves
    <3>3. \A q \in Pids : filters[q] \in Nat
      BY <3>1
    <3> QED
      BY <3>1, <3>2, <3>3 DEF Pids
  <2>3. FilterTypeOK'
    BY <1>7, <2>2 DEF IInv, FilterTypeOK, AitReceived
  <2>4. NoDoubleFilter' /\ OnlyOwnPmt'
    BY <2>1, <2>2 DEF IInv, FilterTypeOK, NoDoubleFilter, OnlyOwnPmt, Pids
  <2>5. StaysAttentive'
    BY <2>1, <2>2 DEF IInv, FilterTypeOK, StaysAttentive
  <2> QED
    BY <2>3, <2>4, <2>5
<1>8. ASSUME NEW p \in AitPid, ProcessAit(p) \/ DamagedAit(p) PROVE F
  <2>1. seen' \in [AitPid -> Content \cup {Nothing}]
    BY <1>8 DEF ProcessAit, DamagedAit, IInv, FilterTypeOK, BroadcastTypeOK
  <2> QED
    BY <1>7, <1>8, <2>1 DEF ProcessAit, DamagedAit
<1>9. CASE Elapse
  <2>1. FilterTypeOK'
    BY <1>9 DEF IInv, FilterTypeOK, Elapse
  <2> QED
    BY <1>9, <2>1 DEF IInv, Elapse, NoDoubleFilter, OnlyOwnPmt, StaysAttentive
<1>10. CASE PatChanges \/ PmtChanges \/ AitChanges \/ UNCHANGED vars
  <2>1. UNCHANGED <<on, filters, patVersion, pmtVersion, pmtPid, pmtNextCheck, seen>>
    BY <1>10 DEF PatChanges, PmtChanges, AitChanges, Change, vars
  <2> QED
    BY <2>1 DEF IInv, FilterTypeOK, NoDoubleFilter, OnlyOwnPmt, StaysAttentive
<1> QED
  BY <1>1, <1>2, <1>3, <1>4, <1>5, <1>6, <1>8, <1>9, <1>10 DEF Next

LEMMA Inductive == Spec => []IInv
<1>1. IInv /\ [Next]_vars => IInv'
  BY BroadcastStays, FilterStays DEF IInv
<1> QED
  BY InitHolds, <1>1, PTL DEF Spec

-----------------------------------------------------------------------------
\* cAitFilter's variables keep their types and no filter count becomes
\* negative, whatever the broadcaster changes.
THEOREM TypeCorrect == Spec => []TypeOK
<1>1. IInv => TypeOK
  BY DEF IInv, BroadcastTypeOK, FilterTypeOK, Pids, TypeOK
<1> QED
  BY Inductive, <1>1, PTL

\* No pid is listened to twice (cAitFilter::Process).
THEOREM FiltersAreSingle == Spec => []NoDoubleFilter
<1>1. IInv => NoDoubleFilter
  BY DEF IInv
<1> QED
  BY Inductive, <1>1, PTL

\* Only the PMT of the last PAT is listened to (cAitFilter::Process).
THEOREM FiltersAreOwn == Spec => []OnlyOwnPmt
<1>1. IInv => OnlyOwnPmt
  BY DEF IInv
<1> QED
  BY Inductive, <1>1, PTL

\* The filter does not go deaf: a known PAT's PMT is listened to.
THEOREM FilterListens == Spec => []StaysAttentive
<1>1. IInv => StaysAttentive
  BY DEF IInv
<1> QED
  BY Inductive, <1>1, PTL

-----------------------------------------------------------------------------
(* UrlStore: the list, its file and the writer.  The heart of it is Walk:  *)
(* what the writer has not printed yet stands at its index or behind,      *)
(* because the filter inserts in front of the list.                        *)

LEMMA SetConcat ==
    ASSUME NEW S, NEW s \in Seq(S), NEW t \in Seq(S)
    PROVE  s \o t \in Seq(S) /\ Set(s \o t) = Set(s) \cup Set(t)
<1>1. s \o t \in Seq(S) /\ Len(s \o t) = Len(s) + Len(t) /\ Len(s) \in Nat /\ Len(t) \in Nat
  OBVIOUS
<1>2. \A i \in 1 .. Len(s) : (s \o t)[i] = s[i]
  BY <1>1
<1>3. \A i \in 1 .. Len(t) : (s \o t)[i + Len(s)] = t[i]
  BY <1>1
<1>4. Set(s \o t) \subseteq Set(s) \cup Set(t)
  <2> SUFFICES ASSUME NEW i \in 1 .. Len(s) + Len(t) PROVE (s \o t)[i] \in Set(s) \cup Set(t)
    BY <1>1 DEF Set
  <2>1. CASE i <= Len(s)
    BY <2>1, <1>1, <1>2 DEF Set
  <2>2. CASE i > Len(s)
    <3>1. i - Len(s) \in 1 .. Len(t) /\ (i - Len(s)) + Len(s) = i
      BY <2>2, <1>1
    <3> QED
      BY <3>1, <1>3 DEF Set
  <2> QED
    BY <2>1, <2>2, <1>1
<1>5. Set(s) \subseteq Set(s \o t)
  BY <1>1, <1>2 DEF Set
<1>6. Set(t) \subseteq Set(s \o t)
  <2> SUFFICES ASSUME NEW i \in 1 .. Len(t) PROVE t[i] \in Set(s \o t)
    BY DEF Set
  <2>1. i + Len(s) \in 1 .. Len(s \o t)
    BY <1>1
  <2> QED
    BY <2>1, <1>3 DEF Set
<1> QED
  BY <1>1, <1>4, <1>5, <1>6

LEMMA SetSingle ==
    ASSUME NEW S, NEW l \in S
    PROVE  <<l>> \in Seq(S) /\ Len(<<l>>) = 1 /\ <<l>>[1] = l /\ Set(<<l>>) = {l}
  BY DEF Set

Distinct(s) == \A i, j \in 1 .. Len(s) : i # j => s[i] # s[j]

\* What stood at an index or behind it still does.
Behind(s, r) ==
    \A k \in 1 .. Len(s) + 1 :
        k <= Len(r) + 1 /\ {s[i] : i \in k .. Len(s)} \subseteq {r[i] : i \in k .. Len(r)}

\* InsertUnique adds the line, keeps the others and makes no double.
LEMMA Inserted ==
    ASSUME NEW S, NEW s \in Seq(S), NEW l \in S
    PROVE  /\ InsertUnique(s, l) \in Seq(S)
           /\ Set(InsertUnique(s, l)) = Set(s) \cup {l}
           /\ Distinct(s) => Distinct(InsertUnique(s, l))
           /\ Behind(s, InsertUnique(s, l))
<1> DEFINE r == <<l>> \o s
<1>0. Len(s) \in Nat
  OBVIOUS
<1>1. CASE l \in Set(s)
  BY <1>0, <1>1 DEF InsertUnique, Behind
<1>2. CASE l \notin Set(s)
  <2>1. r \in Seq(S) /\ Set(r) = {l} \cup Set(s)
    <3>1. <<l>> \in Seq(S)
      OBVIOUS
    <3>2. r \in Seq(S) /\ Set(r) = Set(<<l>>) \cup Set(s)
      BY <3>1, SetConcat, ZenonT(60)
    <3> HIDE DEF r
    <3> QED
      BY <3>2, SetSingle
  <2>2. Len(r) = Len(s) + 1 /\ Len(s) \in Nat /\ r[1] = l /\ \A i \in 1 .. Len(s) : r[i + 1] = s[i]
    BY SetSingle
  <2>3. ASSUME \A i, j \in 1 .. Len(s) : i # j => s[i] # s[j],
               NEW i \in 1 .. Len(r), NEW j \in 1 .. Len(r), i < j
        PROVE  r[i] # r[j]
    <3>1. j - 1 \in 1 .. Len(s) /\ r[j] = s[j - 1]
      <4>1. j - 1 \in 1 .. Len(s) /\ (j - 1) + 1 = j
        BY <2>2, <2>3
      <4> QED
        BY <4>1, <2>2
    <3>2. CASE i = 1
      BY <3>1, <3>2, <2>2, <1>2 DEF Set
    <3>3. CASE i > 1
      <4>1. i - 1 \in 1 .. Len(s) /\ (i - 1) + 1 = i /\ i - 1 # j - 1
        BY <2>2, <2>3, <3>3
      <4>2. r[i] = s[i - 1]
        BY <4>1, <2>2
      <4> QED
        BY <4>1, <4>2, <3>1, <2>3
    <3> QED
      BY <3>2, <3>3
  <2>4. ASSUME NEW k \in 1 .. Len(s) + 1, NEW i \in k .. Len(s)
        PROVE  s[i] \in {r[n] : n \in k .. Len(r)}
    <3>1. i + 1 \in k .. Len(r) /\ i \in 1 .. Len(s)
      BY <2>2
    <3> QED
      BY <3>1, <2>2
  <2>5. \A i, j \in 1 .. Len(r) : i # j => i < j \/ j < i
    BY <2>2
  <2>6. InsertUnique(s, l) = r
    BY <1>2 DEF InsertUnique
  <2>7. Distinct(s) => Distinct(r)
    <3> SUFFICES ASSUME Distinct(s), NEW i \in 1 .. Len(r), NEW j \in 1 .. Len(r), i # j PROVE r[i] # r[j]
      BY DEF Distinct
    <3>1. CASE i < j
      BY <3>1, <2>3 DEF Distinct
    <3>2. CASE j < i
      BY <3>2, <2>3 DEF Distinct
    <3> QED
      BY <3>1, <3>2, <2>5
  <2>8. Behind(s, r)
    <3>1. \A k \in 1 .. Len(s) + 1 : k <= Len(r) + 1
      BY <2>2
    <3> QED
      BY <3>1, <2>4 DEF Behind
  <2> HIDE DEF r
  <2> QED
    BY <2>1, <2>6, <2>7, <2>8
<1> QED
  BY <1>1, <1>2

-----------------------------------------------------------------------------
Rest(k) == {allURLs[i] : i \in k .. Len(allURLs)}

StorePhases ==
    /\ vdr \in {"down", "start"} => writer = "none"
    /\ vdr = "down" => allURLs = <<>>
    /\ vdr = "start" => row <= Len(file) + 1
    /\ writer # "print" => printed = <<>>
    /\ writer = "print" => torn
    /\ (vdr = "start" /\ ~short) => ~torn

Walk ==
    writer = "print" =>
        /\ ~failed => begun \subseteq Set(file) \cup Set(printed) \cup Rest(row)
        /\ Set(file) \cup Set(printed) \subseteq Set(allURLs)

Kept ==
    /\ ~torn => safe \ Long \subseteq Set(file)
    /\ (vdr \in {"up", "stopped"} /\ ~short) => safe \ Long \subseteq Set(allURLs)
    /\ (vdr = "start" /\ ~short) => {file[i] : i \in 1 .. row - 1} \ Long \subseteq Set(allURLs)

StoreInv == StoreTypeOK /\ StorePhases /\ NoDoubles /\ Walk /\ Kept

LEMMA StoreInitHolds == StoreInit => StoreInv
<1> SUFFICES ASSUME StoreInit PROVE StoreInv
  OBVIOUS
<1>1. StoreTypeOK
  <2>1. allURLs \in Seq(Line) /\ file \in Seq(Line) /\ printed \in Seq(Line)
    BY DEF StoreInit
  <2>2. row \in Nat \ {0} /\ writer = "none" /\ begun \subseteq Line /\ safe \subseteq Line
    BY DEF StoreInit
  <2> QED
    BY <2>1, <2>2 DEF StoreInit, StoreTypeOK
<1>2. StorePhases /\ Walk
  BY DEF StoreInit, StorePhases, Walk
<1>3. NoDoubles /\ Kept
  BY DEF StoreInit, NoDoubles, Kept
<1> QED
  BY <1>1, <1>2, <1>3 DEF StoreInv

LEMMA StoreStepHolds == StoreInv /\ [StoreNext]_storeVars => StoreInv'
<1> SUFFICES ASSUME StoreInv, [StoreNext]_storeVars PROVE StoreInv'
  OBVIOUS
<1> USE LineAssumption DEF StoreInv
<1>s. /\ Set(<<>>) = {} /\ <<>> \in Seq(Line)
      /\ allURLs \in Seq(Line) /\ file \in Seq(Line) /\ printed \in Seq(Line)
      /\ file \o <<>> = file
      /\ file \o printed \in Seq(Line) /\ Set(file \o printed) = Set(file) \cup Set(printed)
  <2>1. allURLs \in Seq(Line) /\ file \in Seq(Line) /\ printed \in Seq(Line)
    BY DEF StoreTypeOK
  <2>2. Set(<<>>) = {} /\ <<>> \in Seq(Line) /\ file \o <<>> = file
    BY <2>1 DEF Set
  <2> QED
    BY <2>1, <2>2, SetConcat
<1>t. allURLs \in Seq(Line) /\ file \in Seq(Line) /\ printed \in Seq(Line)
  BY <1>s
<1>n. NoDoubles <=> Distinct(allURLs)
  BY DEF NoDoubles, Distinct
<1>m. NoDoubles' <=> Distinct(allURLs')
  BY DEF NoDoubles, Distinct
<1>1. CASE Start
  BY <1>1, <1>s DEF Start, StoreTypeOK, StorePhases, NoDoubles, Walk, Kept, outcome
<1>2. CASE ReadLine
  <2>1. row \in 1 .. Len(file) /\ file[row] \in Line
    BY <1>2, <1>s DEF ReadLine, StoreTypeOK
  <2>2. /\ allURLs' \in Seq(Line) /\ NoDoubles'
        /\ Set(allURLs) \subseteq Set(allURLs') /\ (file[row] \notin Long => file[row] \in Set(allURLs'))
    <3>1. CASE file[row] \notin Long
      <4>1. allURLs' = InsertUnique(allURLs, file[row])
        BY <3>1, <1>2 DEF ReadLine
      <4>2. /\ InsertUnique(allURLs, file[row]) \in Seq(Line)
            /\ Set(InsertUnique(allURLs, file[row])) = Set(allURLs) \cup {file[row]}
            /\ Distinct(allURLs) => Distinct(InsertUnique(allURLs, file[row]))
        BY <2>1, <1>t, Inserted
      <4> QED
        BY <4>1, <4>2, <1>n, <1>m
    <3>2. CASE file[row] \in Long
      <4> DEFINE h == Piece[file[row]][1]  t == Piece[file[row]][2]  m == InsertUnique(allURLs, h)
      <4>1. h \in Line /\ t \in Line
        BY <3>2
      <4>3. allURLs' = InsertUnique(m, t)
        BY <3>2, <1>2 DEF ReadLine
      <4> HIDE DEF h, t
      <4>2. /\ m \in Seq(Line) /\ Set(m) = Set(allURLs) \cup {h}
            /\ Distinct(m)
        <5>1. Distinct(allURLs)
          BY <1>n
        <5>2. /\ InsertUnique(allURLs, h) \in Seq(Line)
              /\ Set(InsertUnique(allURLs, h)) = Set(allURLs) \cup {h}
              /\ Distinct(allURLs) => Distinct(InsertUnique(allURLs, h))
          BY <4>1, <1>t, Inserted
        <5> QED
          BY <5>1, <5>2
      <4> HIDE DEF m
      <4>m. m \in Seq(Line)
        BY <4>2
      <4>4. allURLs' \in Seq(Line) /\ Set(allURLs') = Set(m) \cup {t} /\ NoDoubles'
        <5>1. /\ InsertUnique(m, t) \in Seq(Line) /\ Set(InsertUnique(m, t)) = Set(m) \cup {t}
              /\ Distinct(m) => Distinct(InsertUnique(m, t))
          BY <4>1, <4>m, Inserted
        <5> QED
          BY <5>1, <4>2, <4>3, <1>m
      <4> QED
        BY <4>4, <4>2, <3>2
    <3> QED
      BY <3>1, <3>2
  <2>3. row' = row + 1 /\ UNCHANGED <<vdr, file, printed, writer, running, torn, failed, begun, safe, short>>
        /\ vdr = "start" /\ row \in Nat /\ Len(file) \in Nat
    BY <1>2, <1>s DEF ReadLine, StoreTypeOK, outcome
  <2>4. StoreTypeOK'
    BY <2>1, <2>2, <2>3 DEF StoreTypeOK, StorePhases
  <2>5. StorePhases' /\ Walk'
    BY <2>1, <2>2, <2>3 DEF StorePhases, Walk
  <2>6. Kept'
    <3>1. {file[i] : i \in 1 .. row' - 1} \subseteq {file[i] : i \in 1 .. row - 1} \cup {file[row]}
      BY <2>3
    <3> QED
      BY <3>1, <2>2, <2>3 DEF Kept
  <2> QED
    BY <2>2, <2>4, <2>5, <2>6
<1>3. CASE ReadToEnd
  <2>1. {file[i] : i \in 1 .. row - 1} = Set(file)
    BY <1>3, <1>s, SMTT(30) DEF ReadToEnd, StoreTypeOK, StorePhases, Set
  <2>2. StorePhases' /\ Walk' /\ NoDoubles'
    BY <1>3, <1>s DEF ReadToEnd, StartWriter, StoreTypeOK, StorePhases, Walk, NoDoubles, outcome
  <2>3. StoreTypeOK'
    BY <1>3, <1>s DEF ReadToEnd, StartWriter, StoreTypeOK, outcome
  <2>4. Kept'
    BY <1>3, <2>1 DEF ReadToEnd, StartWriter, StoreTypeOK, StorePhases, Kept, outcome
  <2> QED
    BY <2>2, <2>3, <2>4
<1>13. CASE ReadFails
  <2>1. StorePhases' /\ Walk' /\ NoDoubles'
    BY <1>13, <1>s DEF ReadFails, StartWriter, StoreTypeOK, StorePhases, Walk, NoDoubles, outcome
  <2>2. StoreTypeOK'
    BY <1>13, <1>s DEF ReadFails, StartWriter, StoreTypeOK, outcome
  <2>3. Kept'
    BY <1>13 DEF ReadFails, StartWriter, Kept, outcome
  <2> QED
    BY <2>1, <2>2, <2>3
<1>4. CASE Stop
  <2>1. UNCHANGED <<allURLs, file, printed, writer, row, torn, failed, begun, safe, short>> /\ vdr = "up" /\ vdr' = "stopped"
        /\ running' = FALSE
    BY <1>4 DEF Stop, outcome
  <2>2. StoreTypeOK'
    BY <2>1 DEF StoreTypeOK
  <2>3. StorePhases' /\ NoDoubles' /\ Walk' /\ Kept'
    BY <2>1 DEF StorePhases, NoDoubles, Walk, Kept, Rest
  <2> QED
    BY <2>2, <2>3
<1>5. ASSUME Exit \/ Crash PROVE StoreInv'
  <2>1. Gone /\ file' \in Seq(Line) /\ (writer # "print" => file' = file)
    BY <1>5, <1>s DEF Exit, Crash, StorePhases
  <2>2. /\ allURLs' = <<>> /\ printed' = <<>> /\ writer' = "none" /\ row' = 1 /\ vdr' = "down"
        /\ running' = FALSE /\ begun' = {} /\ torn' = torn /\ safe' = safe
          /\ short' = FALSE /\ failed' = FALSE
    BY <2>1 DEF Gone
  <2>3. StoreTypeOK'
    <3>1. allURLs' \in Seq(Line) /\ printed' \in Seq(Line) /\ file' \in Seq(Line)
      BY <2>1, <2>2
    <3>2. row' \in Nat \ {0} /\ writer' = "none" /\ begun' \subseteq Line
      BY <2>2
    <3>3. torn \in BOOLEAN /\ safe \subseteq Line
      BY DEF StoreTypeOK
    <3>4. torn' \in BOOLEAN /\ safe' \subseteq Line /\ short' \in BOOLEAN /\ failed' \in BOOLEAN
      BY <2>2, <3>3, Zenon
    <3> QED
      BY <2>2, <3>1, <3>2, <3>4 DEF StoreTypeOK
  <2>4. StorePhases' /\ Walk'
    BY <2>2 DEF StorePhases, Walk
  <2>5. Kept'
    BY <2>1, <2>2 DEF Kept, StorePhases
  <2>6. NoDoubles'
    <3>1. Len(allURLs') = 0
      BY <2>2
    <3> QED
      BY <3>1 DEF NoDoubles
  <2> QED
    BY <2>3, <2>4, <2>5, <2>6
<1>6. ASSUME NEW l \in Line, AddUrl(l) PROVE StoreInv'
  <2>1. /\ allURLs' \in Seq(Line) /\ NoDoubles' /\ Set(allURLs) \subseteq Set(allURLs')
        /\ \A k \in 1 .. Len(allURLs) + 1 : k <= Len(allURLs') + 1 /\ Rest(k) \subseteq Rest(k)'
    <3>1. allURLs' = InsertUnique(allURLs, l)
      BY <1>6 DEF AddUrl
    <3>2. allURLs' \in Seq(Line) /\ Set(allURLs') = Set(allURLs) \cup {l} /\ Behind(allURLs, allURLs')
      BY <3>1, <1>s, Inserted
    <3>3. NoDoubles'
      BY <3>1, <1>s, <1>n, <1>m, Inserted
    <3> QED
      BY <3>2, <3>3 DEF Behind, Rest
  <2>2. UNCHANGED <<vdr, file, printed, writer, row, running, torn, failed, begun, safe, short>> /\ vdr = "up"
    BY <1>6 DEF AddUrl, outcome
  <2>3. StoreTypeOK'
    BY <2>1, <2>2, <1>s DEF StoreTypeOK, StorePhases
  <2>4. StorePhases' /\ Kept'
    BY <2>1, <2>2 DEF StorePhases, Kept
  <2>5. Walk'
    <3>1. writer = "print" => row \in 1 .. Len(allURLs) + 1
      BY <1>s DEF StoreTypeOK
    <3> QED
      BY <3>1, <2>1, <2>2 DEF Walk
  <2> QED
    BY <2>1, <2>3, <2>4, <2>5
<1>7. CASE WaitEnds
  BY <1>7, <1>s DEF WaitEnds, StoreTypeOK, StorePhases, NoDoubles, Walk, Kept
<1>8. CASE Open
  <2>1. Rest(1) = Set(allURLs)
    BY DEF Rest, Set
  <2>2. StoreTypeOK'
    BY <1>8, <1>s DEF Open, StoreTypeOK, Set
  <2>3. StorePhases' /\ NoDoubles' /\ Kept'
    BY <1>8, <1>s DEF Open, StorePhases, NoDoubles, Kept
  <2>4. Walk'
    BY <1>8, <2>1, <1>s DEF Open, StorePhases, Walk, Rest
  <2> QED
    BY <2>2, <2>3, <2>4
<1>9. CASE PrintRow
  <2>1. row \in 1 .. Len(allURLs) /\ allURLs[row] \in Line /\ allURLs[row] \in Set(allURLs)
    BY <1>9, <1>s DEF PrintRow, StoreTypeOK, Set
  <2>2. printed' \in Seq(Line) /\ Set(printed') = Set(printed) \cup {allURLs[row]}
    <3>1. printed' = printed \o <<allURLs[row]>>
      BY <1>9, <2>1, <1>s DEF PrintRow
    <3>2. <<allURLs[row]>> \in Seq(Line)
      BY <2>1
    <3>3. printed \o <<allURLs[row]>> \in Seq(Line)
          /\ Set(printed \o <<allURLs[row]>>) = Set(printed) \cup Set(<<allURLs[row]>>)
      <4> DEFINE u == <<allURLs[row]>>
      <4>1. u \in Seq(Line) /\ printed \in Seq(Line)
        BY <3>2, <1>t
      <4> HIDE DEF u
      <4>2. printed \o u \in Seq(Line) /\ Set(printed \o u) = Set(printed) \cup Set(u)
        BY <4>1, SetConcat
      <4> QED
        BY <4>2 DEF u
    <3>4. Set(<<allURLs[row]>>) = {allURLs[row]}
      BY <2>1, SetSingle
    <3> QED
      BY <3>1, <3>3, <3>4
  <2>3. row' = row + 1 /\ writer = "print" /\ UNCHANGED <<vdr, allURLs, file, writer, running, torn, failed, begun, safe, short>>
    BY <1>9 DEF PrintRow, outcome
  <2>4. Rest(row) \subseteq Rest(row + 1) \cup {allURLs[row]}
    BY <2>1 DEF Rest
  <2>5. Walk'
    BY <2>1, <2>2, <2>3, <2>4 DEF Walk, Rest
  <2>6. StoreTypeOK'
    BY <2>1, <2>2, <2>3 DEF StoreTypeOK
  <2>7. StorePhases' /\ NoDoubles' /\ Kept'
    BY <2>3 DEF StorePhases, NoDoubles, Kept
  <2> QED
    BY <2>5, <2>6, <2>7
<1>10. CASE Flush
  <2>1. file' \in Seq(Line) /\ Set(file') = Set(file) \cup Set(printed) /\ printed' = <<>> /\ writer = "print"
        /\ UNCHANGED <<vdr, allURLs, writer, row, running, torn, failed, begun, safe, short>>
    BY <1>10, <1>s DEF Flush, outcome
  <2>2. StoreTypeOK'
    BY <2>1, <1>s DEF StoreTypeOK
  <2>3. StorePhases' /\ NoDoubles' /\ Kept'
    BY <2>1 DEF StorePhases, NoDoubles, Kept
  <2>4. Walk'
    BY <2>1, <1>s DEF Walk, Rest
  <2> QED
    BY <2>2, <2>3, <2>4
<1>11. CASE Close
  <2>1. file' \in Seq(Line) /\ Set(file') = Set(file) \cup Set(printed) /\ printed' = <<>> /\ writer = "print"
        /\ writer' \in {"wait", "none"}
        /\ UNCHANGED <<vdr, allURLs, row, running, failed, begun>>
        /\ IF failed THEN UNCHANGED <<safe, torn, short>>
           ELSE safe' = Set(file') /\ torn' = FALSE /\ short' = FALSE
    BY <1>11, <1>s DEF Close, Closed, RoundEnds
  <2>2. Set(file') \subseteq Line
    BY <2>1 DEF Set
  <2>3. StoreTypeOK'
    BY <2>1, <2>2, <1>s DEF StoreTypeOK
  <2>4. StorePhases' /\ NoDoubles' /\ Walk'
    BY <2>1 DEF StorePhases, NoDoubles, Walk
  <2>5. Kept'
    BY <2>1 DEF StorePhases, Walk, Kept
  <2> QED
    BY <2>3, <2>4, <2>5
<1>14. CASE OpenFails
  BY <1>14, <1>s DEF OpenFails, RoundEnds, StoreTypeOK, StorePhases, NoDoubles, Walk, Kept
<1>15. CASE WriteFails
  <2>1. Set(printed') \subseteq Set(printed) /\ printed' \in Seq(Line)
    BY <1>15, <1>s DEF WriteFails
  <2> QED
    BY <1>15, <2>1, <1>s DEF WriteFails, StoreTypeOK, StorePhases, NoDoubles, Walk, Kept
<1>12. CASE UNCHANGED storeVars
  BY <1>12 DEF storeVars, outcome, StoreTypeOK, StorePhases, NoDoubles, Walk, Kept, Rest
<1> QED
  BY <1>1, <1>2, <1>3, <1>4, <1>5, <1>6, <1>7, <1>8, <1>9, <1>10, <1>11, <1>12, <1>13,
     <1>14, <1>15 DEF StoreNext, Writer

\* The inductive invariant holds over any sequence of starts, stops and crashes.
LEMMA StoreInvariant == StoreSpec => []StoreInv
  BY StoreInitHolds, StoreStepHolds, PTL DEF StoreSpec

\* The list, the file and the writer's index keep their types: the index never
\* leaves the list, whatever is inserted during the walk (hbbtv.c:101-103).
THEOREM StoreTypeCorrect == StoreSpec => []StoreTypeOK
  BY StoreInvariant, PTL DEF StoreInv

\* InsertUnique and the test of Start keep the list free of doubles
\* (hbbtv.c:138-139, ait.c:141-143), although the file may have some.
THEOREM ListHasNoDoubles == StoreSpec => []NoDoubles
  BY StoreInvariant, PTL DEF StoreInv

\* What the last file written to its end had is in the file unless it was
\* truncated since, and in the list of every VDR that could read it, over any
\* starts, stops, crashes and failures (hbbtv.c:97-105, 132-145).
THEOREM ClosedFilesAreKept == StoreSpec => []ClosedIsKept
<1>1. StoreInv => ClosedIsKept
  BY DEF StoreInv, Kept, ClosedIsKept
<1> QED
  BY <1>1, StoreInvariant, PTL

\* A file written to its end has every line the list had when it was opened,
\* although the list grows during the walk (hbbtv.c:97-105).
THEOREM ClosesWriteAll == StoreSpec => CloseWritesAll
<1>1. StoreInv /\ [StoreNext]_storeVars =>
        [(writer = "print" /\ writer' # "print" /\ vdr' # "down" /\ ~failed) => begun \subseteq safe']_storeVars
  <2> SUFFICES ASSUME StoreInv, StoreNext, writer = "print", writer' # "print", vdr' # "down", ~failed
               PROVE  begun \subseteq safe'
    OBVIOUS
  <2>1. Close
    BY DEF StoreNext, Start, ReadLine, ReadToEnd, ReadFails, StartWriter, Stop, Exit, Crash, Gone, Writer, WaitEnds,
           Open, OpenFails, PrintRow, Flush, WriteFails, AddUrl, StoreInv, StorePhases
  <2>2. file \in Seq(Line) /\ printed \in Seq(Line) /\ Rest(row) = {}
    BY <2>1 DEF Close, StoreInv, StoreTypeOK, Rest
  <2> QED
    BY <2>1, <2>2, SetConcat DEF Close, Closed, StoreInv, Walk
<1> QED
  BY <1>1, StoreInvariant, PTL DEF StoreSpec, CloseWritesAll

=============================================================================
