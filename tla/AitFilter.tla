----------------------------- MODULE AitFilter ------------------------------
(***************************************************************************)
(* The section filter that finds the AIT of a service (cAitFilter): the    *)
(* PAT tells where the service's PMT is, the PMT where its AITs are.  Each *)
(* table is listened to by a filter that the code adds and deletes; what   *)
(* has been read is remembered by version.                                 *)
(*                                                                         *)
(* The broadcaster repeats the tables and may change them at any time;     *)
(* sections may be damaged; the tuner may lose the signal.  Process runs   *)
(* under the filter's mutex, so a section is one step.                     *)
(*                                                                         *)
(* Abstracted: the seconds until the next check are running or over.  A    *)
(* pid carries one kind of table and the PMT of one service.               *)
(***************************************************************************)
EXTENDS Integers, FiniteSets

CONSTANTS
    PmtPid, AitPid,   \* the pids of PMTs and of AITs
    NoPid,            \* pid -1
    FirstVersion,     \* the version of PAT and PMT at the beginning
    NoVersion,        \* version -1
    Content,          \* the contents of AITs
    Nothing,          \* no content
    MaxChanges        \* bounds the changes of tables and signal

ASSUME PidAssumption ==
    /\ IsFiniteSet(AitPid)
    /\ PmtPid \cap AitPid = {}
    /\ NoPid \notin PmtPid \cup AitPid

\* The 5 bits of a version number; it wraps.
Version == 0..31
NextVersion(v) == (v + 1) % 32

ASSUME VersionAssumption == FirstVersion \in Version /\ NoVersion \notin Version

\* With 32 changes between two looks a table seems unchanged.
ASSUME BoundAssumption == MaxChanges \in 0..31

VARIABLES
    pat,         \* broadcast: [version, pmt]: the PMT pid of the service
    pmt,         \* broadcast: [version, aits]: the pids of its AITs
    ait,         \* broadcast: the content of the AIT at each pid
    changes,     \* the changes so far
    on,          \* cFilter::on, the device has a signal
    filters,     \* how many filters cFilter has for each pid
    patVersion, pmtVersion, pmtPid,
    pmtNextCheck,   \* "none" (0), "running", "over"
    seen         \* the content last read from each pid

broadcast == <<pat, pmt, ait>>
vars == <<broadcast, changes, on, filters, patVersion, pmtVersion, pmtPid, pmtNextCheck, seen>>

Init ==
    /\ pat \in [version : {FirstVersion}, pmt : PmtPid \cup {NoPid}]
    /\ pmt \in [version : {FirstVersion}, aits : SUBSET AitPid]
    /\ ait \in [AitPid -> Content]
    /\ changes = 0
    /\ on = FALSE
    /\ filters = [p \in PmtPid \cup AitPid |-> 0]
    /\ patVersion = NoVersion
    /\ pmtVersion = NoVersion
    /\ pmtPid = NoPid
    /\ pmtNextCheck = "none"
    /\ seen = [p \in AitPid |-> Nothing]

\* cFilter::Del deletes one filter if there is one.
Del(f, p) == [f EXCEPT ![p] = IF @ > 0 THEN @ - 1 ELSE 0]

Matches(p) == on /\ filters[p] > 0

\* Trigger(-1), the pid of the PMT is kept.
Trigger ==
    /\ patVersion' = NoVersion
    /\ pmtVersion' = NoVersion
    /\ pmtNextCheck' = "none"

-----------------------------------------------------------------------------
(* VDR switches the filter on and off with the signal.  Switching it off   *)
(* deletes all filters but the PAT's.                                      *)

SetStatusOn ==
    /\ ~on
    /\ on' = TRUE
    /\ Trigger
    /\ UNCHANGED <<broadcast, changes, filters, pmtPid, seen>>

SetStatusOff ==
    /\ on
    /\ changes < MaxChanges
    /\ changes' = changes + 1
    /\ on' = FALSE
    /\ filters' = [p \in PmtPid \cup AitPid |-> 0]
    /\ Trigger
    /\ UNCHANGED <<broadcast, pmtPid, seen>>

-----------------------------------------------------------------------------
(* The sections.                                                           *)

\* The filters and the pid once a changed PAT is read.
PmtMoves(f) ==
    /\ pmtPid' = pat.pmt
    /\ patVersion' = pat.version
    /\ IF pat.pmt = NoPid THEN filters' = f /\ UNCHANGED pmtNextCheck
       ELSE filters' = [f EXCEPT ![pat.pmt] = @ + 1] /\ pmtNextCheck' = "running"

\* A PAT of the version already read, or during the idle time, is ignored.
ProcessPat ==
    /\ on
    /\ pmtNextCheck # "running"
    /\ patVersion # pat.version
    /\ PmtMoves(IF pmtPid = NoPid THEN filters ELSE Del(filters, pmtPid))
    /\ UNCHANGED <<broadcast, changes, on, pmtVersion, seen>>

PmtDue ==
    /\ pmtPid # NoPid
    /\ pmtPid = pat.pmt
    /\ Matches(pmtPid)
    /\ pmtVersion = NoVersion \/ pmtNextCheck # "running"

\* The version is another one than before: start again at the PAT.
PmtChangedNoTrigger ==
    /\ PmtDue
    /\ pmtVersion \notin {NoVersion, pmt.version}
    /\ filters' = Del(filters, pmtPid)
    /\ UNCHANGED <<broadcast, changes, on, patVersion, pmtVersion, pmtPid, pmtNextCheck, seen>>

PmtChanged ==
    /\ PmtDue
    /\ pmtVersion \notin {NoVersion, pmt.version}
    /\ filters' = Del(filters, pmtPid)
    /\ Trigger
    /\ UNCHANGED <<broadcast, changes, on, pmtPid, seen>>

PmtRead ==
    /\ PmtDue
    /\ pmtVersion \in {NoVersion, pmt.version}

\* All AITs of the PMT are being listened to.
PmtNothingNew ==
    /\ PmtRead
    /\ \A p \in pmt.aits : Matches(p)
    /\ pmtVersion' = pmt.version
    /\ UNCHANGED <<broadcast, changes, on, filters, patVersion, pmtPid, pmtNextCheck, seen>>

\* For each new AIT: a filter, one PMT filter less, and SetStatus(true), which
\* triggers.
AddAits(new) ==
    filters' = [p \in DOMAIN filters |->
        IF p \in new THEN filters[p] + 1
        ELSE IF p # pmtPid THEN filters[p]
        ELSE IF filters[p] > Cardinality(new) THEN filters[p] - Cardinality(new)
        ELSE 0]

\* Mutant: no Trigger.
PmtNewAitsNoTrigger ==
    /\ PmtRead
    /\ \E p \in pmt.aits : ~Matches(p)
    /\ AddAits({p \in pmt.aits : ~Matches(p)})
    /\ pmtVersion' = pmt.version
    /\ UNCHANGED <<broadcast, changes, on, patVersion, pmtPid, pmtNextCheck, seen>>

PmtNewAits ==
    /\ PmtRead
    /\ \E p \in pmt.aits : ~Matches(p)
    /\ AddAits({p \in pmt.aits : ~Matches(p)})
    /\ Trigger
    /\ UNCHANGED <<broadcast, changes, on, pmtPid, seen>>

\* An AIT is read, or damaged: its filter is deleted all the same.
AitReceived(p) ==
    /\ Matches(p)
    /\ p \in pmt.aits
    /\ filters' = Del(filters, p)
    /\ pmtNextCheck' = "running"
    /\ UNCHANGED <<broadcast, changes, on, patVersion, pmtVersion, pmtPid>>

ProcessAit(p) == AitReceived(p) /\ seen' = [seen EXCEPT ![p] = ait[p]]

DamagedAit(p) == AitReceived(p) /\ UNCHANGED seen

\* PMT_SCAN_IDLE seconds have passed.
Elapse ==
    /\ pmtNextCheck = "running"
    /\ pmtNextCheck' = "over"
    /\ UNCHANGED <<broadcast, changes, on, filters, patVersion, pmtVersion, pmtPid, seen>>

-----------------------------------------------------------------------------
(* The broadcaster.  A change of the PAT or the PMT gets the next version.  *)

Change ==
    /\ changes < MaxChanges
    /\ changes' = changes + 1
    /\ UNCHANGED <<on, filters, patVersion, pmtVersion, pmtPid, pmtNextCheck, seen>>

PatChanges ==
    /\ Change
    /\ pat' \in [version : {NextVersion(pat.version)}, pmt : PmtPid \cup {NoPid}]
    /\ UNCHANGED <<pmt, ait>>

PmtChanges ==
    /\ Change
    /\ pmt' \in [version : {NextVersion(pmt.version)}, aits : SUBSET AitPid]
    /\ UNCHANGED <<pat, ait>>

AitChanges ==
    /\ Change
    /\ \E p \in AitPid, c \in Content : ait' = [ait EXCEPT ![p] = c]
    /\ UNCHANGED <<pat, pmt>>

-----------------------------------------------------------------------------
Next ==
    \/ SetStatusOn \/ SetStatusOff
    \/ ProcessPat
    \/ PmtChanged \/ PmtNothingNew \/ PmtNewAits
    \/ \E p \in AitPid : ProcessAit(p) \/ DamagedAit(p)
    \/ Elapse
    \/ PatChanges \/ PmtChanges \/ AitChanges

Spec == Init /\ [][Next]_vars

\* The tables are repeated, not every repetition is damaged, time passes and
\* a lost signal returns.
FairSpec ==
    /\ Spec
    /\ WF_vars(SetStatusOn)
    /\ WF_vars(ProcessPat)
    /\ WF_vars(PmtChanged \/ PmtNothingNew \/ PmtNewAits)
    /\ WF_vars(Elapse)
    /\ \A p \in AitPid : SF_vars(ProcessAit(p))

-----------------------------------------------------------------------------
TypeOK ==
    /\ pat \in [version : Version, pmt : PmtPid \cup {NoPid}]
    /\ pmt \in [version : Version, aits : SUBSET AitPid]
    /\ ait \in [AitPid -> Content]
    /\ changes \in 0..MaxChanges
    /\ on \in BOOLEAN
    /\ filters \in [PmtPid \cup AitPid -> Nat]
    /\ patVersion \in Version \cup {NoVersion}
    /\ pmtVersion \in Version \cup {NoVersion}
    /\ pmtPid \in PmtPid \cup {NoPid}
    /\ pmtNextCheck \in {"none", "running", "over"}
    /\ seen \in [AitPid -> Content \cup {Nothing}]

\* No pid is ever listened to twice, whatever the order of the sections: the
\* code adds and deletes filters in four places (ait.c:192, 205, 227, 258).
NoDoubleFilter == \A p \in PmtPid \cup AitPid : filters[p] <= 1

\* No PMT is listened to but the one the last PAT named (ait.c:190-206).
OnlyOwnPmt == \A p \in PmtPid : filters[p] > 0 => p = pmtPid

\* The filter never goes deaf: as long as it believes to know the PAT and the
\* service has a PMT, it listens to that PMT (ait.c:227-228, 259-260).
StaysAttentive ==
    (patVersion # NoVersion /\ pmtPid # NoPid) => on /\ filters[pmtPid] = 1

\* An AIT that is broadcast and signalled is read in its present content
\* sooner or later, though its version is never compared, its filter is
\* deleted after one section, damaged or not, and the tables that lead to it
\* may change meanwhile (ait.c:215-282).
AitFound ==
    \A p \in AitPid :
        []<>(on /\ pat.pmt # NoPid /\ p \in pmt.aits => seen[p] = ait[p])

=============================================================================
