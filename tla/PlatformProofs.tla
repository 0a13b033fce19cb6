---------------------------- MODULE PlatformProofs ----------------------------
(***************************************************************************)
(* Proofs about the parts around the run lifecycle: the settings overlay,  *)
(* the repository's ladder of permissions, the delivery of escalations,    *)
(* the supervisor's ceiling, the hard spend ceiling and the ledger of dead *)
(* time.  They share no state; each has its own specification, its own     *)
(* inductive invariant and its own theorems.  At the end they are put      *)
(* together, with the parts of GitHubProofs: the sum that MCPlatform       *)
(* explores is each of its parts.                                          *)
(***************************************************************************)
EXTENDS MCPlatform, GitHubProofs, TableFacts

-----------------------------------------------------------------------------
(* The settings overlay.  The argument: the rows of a refresh were what the *)
(* table held when they were read, and the revision it reads afterwards is  *)
(* no earlier; the history is only ever appended to, so this is still so    *)
(* when they are swapped in, however late and in whatever order that        *)
(* happens.                                                                 *)

SettingsSpec == SettingsInit /\ [][SettingsNext]_settingVars

\* Rows that the table held at some revision from since on, up to the revision
\* that goes with them; revision 0 is no revision.
Covered(rows, since, revision) ==
  /\ rows \in [Keys -> Entries]
  /\ revision \in 0..Len(settingHistory)
  /\ revision # 0 => Shows(rows, since, revision)

\* What a process holds: its overlay, and each refresh that is under way, which
\* first has its rows and then the revision too.
OverlayOK(o) ==
  /\ DOMAIN o = {"rows", "revision", "status"}
  /\ Covered(o.rows, 1, o.revision)
  /\ o.status \in {"loaded", "unavailable"}
RefreshOK(f) ==
  /\ DOMAIN f = {"step", "rows", "revision", "key", "since"}
  /\ f.step \in {"idle", "due", "rows", "read"}
  /\ f.since \in 1..Len(settingHistory)
  /\ Covered(f.rows, f.since, f.revision)
  /\ f.step = "rows" => Shows(f.rows, f.since, Len(settingHistory))
  /\ f.step = "read" => f.revision # 0

\* The table and its history.
HistoryOK ==
  /\ settingRows \in [Keys -> Entries]
  /\ settingHistory \in Seq([Keys -> Entries])
  /\ Len(settingHistory) \in 1..(MaxSettingWrites + 1)
  /\ settingHistory[Len(settingHistory)] = settingRows

Values == SettingValues \cup {Default, Fallback}

\* The services of a process hold values the registry accepts or a default.
CacheOK ==
  /\ DOMAIN settingCache = Processes
  /\ \A p \in Processes : settingCache[p] \in [Keys -> Values]

CopiesOK ==
  /\ DOMAIN overlay = Processes /\ \A p \in Processes : OverlayOK(overlay[p])
  /\ DOMAIN refreshes = Processes
  /\ \A p \in Processes : /\ DOMAIN refreshes[p] = Slots
                          /\ \A s \in Slots : RefreshOK(refreshes[p][s])

SettingsInv == HistoryOK /\ CopiesOK /\ CacheOK /\ outages \in 0..MaxOutages

\* An empty copy and an idle refresh claim no revision.
LEMMA EmptyCopies == HistoryOK => OverlayOK(NoOverlay) /\ RefreshOK(NoRefresh)
<1> SUFFICES ASSUME HistoryOK PROVE OverlayOK(NoOverlay) /\ RefreshOK(NoRefresh)
  OBVIOUS
<1>1. NoRows \in [Keys -> Entries] BY DEF NoRows, Entries
<1>2. Covered(NoRows, 1, 0) BY <1>1 DEF Covered, HistoryOK
<1>3. 1 \in 1..Len(settingHistory) BY DEF HistoryOK
<1> QED BY <1>2, <1>3 DEF OverlayOK, RefreshOK, NoOverlay, NoRefresh

\* Whatever a row holds, it resolves to a value the registry accepts or to a
\* default (resolve, parseOperatorSetting).
LEMMA ResolveType ==
  ASSUME NEW k \in Keys, NEW rows \in [Keys -> Entries] PROVE resolve(k, rows) \in Values
<1>1. environmentValue(k) \in Values
  <2>1. Environment[k] = Absent \/ \E v \in SettingValues \cup {Rejected} : Environment[k] = Plain(v)
    BY SettingConstants
  <2>2. CASE Environment[k] = Absent
    BY <2>2 DEF environmentValue, Absent, Values
  <2>3. ASSUME NEW v \in SettingValues \cup {Rejected}, Environment[k] = Plain(v)
        PROVE  environmentValue(k) \in Values
    BY <2>3 DEF environmentValue, parseOperatorSetting, Plain, Values, Rejected
  <2> QED BY <2>1, <2>2, <2>3
<1>2. \/ rows[k] = Absent
      \/ \E v \in SettingValues \cup {Rejected} : rows[k] = Plain(v)
      \/ \E v \in SettingValues \cup {Unreadable} : rows[k] = Sealed(v)
  BY DEF Entries
<1>3. CASE rows[k] = Absent
  BY <1>1, <1>3 DEF resolve, Absent
<1>4. ASSUME NEW v \in SettingValues \cup {Rejected}, rows[k] = Plain(v)
      PROVE  resolve(k, rows) \in Values
  BY <1>4 DEF resolve, parseOperatorSetting, Plain, Values, Rejected
<1>5. ASSUME NEW v \in SettingValues \cup {Unreadable}, rows[k] = Sealed(v)
      PROVE  resolve(k, rows) \in Values
  BY <1>1, <1>5 DEF resolve, parseOperatorSetting, Sealed, Values, Unreadable
<1> QED BY <1>2, <1>3, <1>4, <1>5

\* A write appends: rows that a stretch of the history showed it still shows, and
\* a longer stretch shows no less.
LEMMA ShowsStays ==
  ASSUME HistoryOK, NEW row \in [Keys -> Entries], NEW rows, NEW since \in Nat \ {0},
         NEW revision \in 0..Len(settingHistory),
         settingHistory' = Append(settingHistory, row), Shows(rows, since, revision)
  PROVE  Shows(rows, since, revision)' /\ Shows(rows, since, Len(settingHistory))'
<1>1. PICK n \in since..revision : rows = settingHistory[n] BY DEF Shows
<1>2. /\ Len(settingHistory) \in Nat
      /\ Len(settingHistory') = Len(settingHistory) + 1 BY DEF HistoryOK
<1>3. settingHistory'[n] = settingHistory[n] BY <1>1, <1>2 DEF HistoryOK
<1>4. n \in since..Len(settingHistory') BY <1>1, <1>2
<1> QED BY <1>1, <1>3, <1>4 DEF Shows

\* So do the copies and the refreshes.
LEMMA CopiesStay ==
  ASSUME HistoryOK, NEW row \in [Keys -> Entries], settingHistory' = Append(settingHistory, row)
  PROVE  /\ \A o : OverlayOK(o) => OverlayOK(o)'
         /\ \A f : RefreshOK(f) => RefreshOK(f)'
<1>1. /\ Len(settingHistory) \in Nat
      /\ Len(settingHistory') = Len(settingHistory) + 1 BY DEF HistoryOK
<1>2. ASSUME NEW rows, NEW since \in Nat \ {0}, NEW revision, Covered(rows, since, revision)
      PROVE  Covered(rows, since, revision)'
  <2>1. revision \in 0..Len(settingHistory) BY <1>2 DEF Covered
  <2>2. revision # 0 => Shows(rows, since, revision)'
    BY <1>2, <2>1, ShowsStays DEF Covered
  <2>3. revision \in 0..Len(settingHistory') BY <1>1, <2>1
  <2> QED BY <1>2, <2>2, <2>3 DEF Covered
<1>3. ASSUME NEW o, OverlayOK(o) PROVE OverlayOK(o)'
  BY <1>2, <1>3 DEF OverlayOK
<1>4. ASSUME NEW f, RefreshOK(f) PROVE RefreshOK(f)'
  <2>1. f.since \in Nat \ {0} /\ f.since \in 1..Len(settingHistory')
    BY <1>1, <1>4 DEF RefreshOK
  <2>2. Covered(f.rows, f.since, f.revision)' BY <1>2, <1>4, <2>1 DEF RefreshOK
  <2>3. f.step = "rows" => Shows(f.rows, f.since, Len(settingHistory))'
    <3>1. Len(settingHistory) \in 0..Len(settingHistory) BY <1>1
    <3> QED BY <1>4, <2>1, <3>1, ShowsStays DEF RefreshOK
  <2> QED BY <1>4, <2>1, <2>2, <2>3 DEF RefreshOK
<1> QED BY <1>3, <1>4

\* So they are while nothing is written.
LEMMA CopiesKeep ==
  ASSUME UNCHANGED settingHistory
  PROVE  /\ \A o : OverlayOK(o) => OverlayOK(o)'
         /\ \A f : RefreshOK(f) => RefreshOK(f)'
BY DEF OverlayOK, RefreshOK, Covered, Shows

\* The start: one revision, and nothing read yet.
LEMMA SettingsStart == SettingsInit => SettingsInv
<1> SUFFICES ASSUME SettingsInit PROVE SettingsInv OBVIOUS
<1>1. HistoryOK BY SettingConstants DEF SettingsInit, HistoryOK
<1>2. CopiesOK BY <1>1, EmptyCopies DEF SettingsInit, CopiesOK
<1>3. NoRows \in [Keys -> Entries] BY DEF NoRows, Entries
<1>4. CacheOK BY <1>3, ResolveType DEF SettingsInit, CacheOK, Resolved
<1> QED BY <1>1, <1>2, <1>4, SettingConstants DEF SettingsInit, SettingsInv

\* A statement of a refresh changes that refresh only.
LEMMA StatementInv ==
  ASSUME SettingsInv, NEW p \in Processes, NEW s \in Slots, NEW from, NEW to, NEW rows,
         NEW revision, Statement(p, s, from, to, rows, revision),
         RefreshOK([refreshes[p][s] EXCEPT !.step = to, !.rows = rows, !.revision = revision])
  PROVE  SettingsInv'
<1> DEFINE f == [refreshes[p][s] EXCEPT !.step = to, !.rows = rows, !.revision = revision]
<1>1. HistoryOK /\ CopiesOK BY DEF SettingsInv
<1>2. refreshes' = [refreshes EXCEPT ![p][s] = f] BY DEF Statement
<1>3. UNCHANGED <<settingRows, settingHistory, overlay, settingCache, outages>> BY DEF Statement
<1>4. RefreshOK(f) OBVIOUS
<1>5. CopiesOK'
  <2>1. PICK x : x = f OBVIOUS
  <2>2. refreshes' = [refreshes EXCEPT ![p][s] = x] /\ RefreshOK(x) BY <1>2, <1>4, <2>1
  <2> HIDE DEF f
  <2>3. RefreshOK(x)' BY <1>3, <2>2, CopiesKeep
  <2> QED BY <1>1, <1>3, <2>2, <2>3, CopiesKeep DEF CopiesOK
<1> QED BY <1>3, <1>5 DEF SettingsInv, HistoryOK, CacheOK

\* A refresh that reads: the rows of this moment, which the last entry of the
\* history is; or the revision of this moment, to rows of this moment or before
\* (refresh).
LEMMA ReadOverlayInv ==
  ASSUME SettingsInv, NEW p \in Processes, NEW s \in Slots, ReadOverlay(p, s)
  PROVE  SettingsInv'
<1> DEFINE f == refreshes[p][s]
           n == Len(settingHistory)
<1>1. HistoryOK /\ RefreshOK(f) BY DEF SettingsInv, CopiesOK
<1>2. n \in Nat \ {0} /\ f.since \in 1..n BY <1>1 DEF HistoryOK, RefreshOK
<1>3. Shows(settingRows, f.since, n)
  <2>1. n \in f.since..n /\ settingRows = settingHistory[n] BY <1>1, <1>2 DEF HistoryOK
  <2> QED BY <2>1 DEF Shows
<1>4. RefreshOK([f EXCEPT !.step = "rows", !.rows = settingRows, !.revision = 0])
  <2> DEFINE g == [f EXCEPT !.step = "rows", !.rows = settingRows, !.revision = 0]
  <2>1. /\ DOMAIN g = {"step", "rows", "revision", "key", "since"} /\ g.step = "rows"
        /\ g.rows = settingRows /\ g.revision = 0 /\ g.since = f.since
    BY <1>1 DEF RefreshOK
  <2>2. Covered(settingRows, f.since, 0) BY <1>1, <1>2 DEF Covered, HistoryOK
  <2> HIDE DEF g
  <2>3. RefreshOK(g) BY <1>2, <1>3, <2>1, <2>2 DEF RefreshOK
  <2> QED BY <2>3 DEF g
<1>5. ASSUME f.step = "rows"
      PROVE  RefreshOK([f EXCEPT !.step = "read", !.rows = f.rows, !.revision = n])
  <2> DEFINE g == [f EXCEPT !.step = "read", !.rows = f.rows, !.revision = n]
  <2>1. /\ DOMAIN g = {"step", "rows", "revision", "key", "since"} /\ g.step = "read"
        /\ g.rows = f.rows /\ g.revision = n /\ g.since = f.since
    BY <1>1 DEF RefreshOK
  <2>2. Covered(f.rows, f.since, n) BY <1>1, <1>2, <1>5 DEF Covered, RefreshOK
  <2> HIDE DEF g
  <2>3. RefreshOK(g) BY <1>2, <2>1, <2>2 DEF RefreshOK
  <2> QED BY <2>3 DEF g
<1>6. CASE Statement(p, s, First(s), "rows", settingRows, 0)
  BY <1>4, <1>6, StatementInv
<1>7. CASE Statement(p, s, "rows", "read", f.rows, settingRevision)
  <2>1. f.step = "rows" BY <1>7 DEF Statement
  <2>2. RefreshOK([f EXCEPT !.step = "read", !.rows = f.rows, !.revision = settingRevision])
    BY <1>5, <2>1 DEF settingRevision
  <2> QED BY <1>7, <2>2, StatementInv
<1> QED BY <1>6, <1>7 DEF ReadOverlay

\* The services that listen keep a value or a default (notifyChanged).
LEMMA NotifyType ==
  ASSUME CacheOK, NEW p \in Processes, NEW keys, NEW rows \in [Keys -> Entries],
         notifyChanged(p, keys, rows)
  PROVE  CacheOK'
<1> DEFINE c == [k \in Keys |-> IF k \in keys THEN resolve(k, rows) ELSE settingCache[p][k]]
<1>1. c \in [Keys -> Values] BY ResolveType DEF CacheOK
<1>2. settingCache' = [settingCache EXCEPT ![p] = c] BY DEF notifyChanged
<1> QED
  <2> HIDE DEF c
  <2> QED BY <1>1, <1>2 DEF CacheOK

\* The swap: what the refresh read becomes the copy (refresh).
LEMMA ApplyOverlayInv ==
  ASSUME SettingsInv, NEW p \in Processes, NEW s \in Slots, ApplyOverlay(p, s)
  PROVE  SettingsInv'
<1> DEFINE f == refreshes[p][s]
           o == [rows |-> f.rows, revision |-> f.revision, status |-> "loaded"]
<1>1. HistoryOK /\ CopiesOK /\ RefreshOK(f) /\ CacheOK BY DEF SettingsInv, CopiesOK
<1>2. OverlayOK(o)
  <2>1. Covered(f.rows, f.since, f.revision) /\ f.since \in 1..Len(settingHistory)
    BY <1>1 DEF RefreshOK
  <2>2. \A x \in f.since..f.revision : x \in 1..f.revision
    BY <1>1, <2>1 DEF Covered, HistoryOK
  <2>3. Covered(f.rows, 1, f.revision) BY <2>1, <2>2 DEF Covered, Shows
  <2> QED BY <2>3 DEF OverlayOK
<1>3. overlay' = [overlay EXCEPT ![p] = o] /\ refreshes' = [refreshes EXCEPT ![p][s] = NoRefresh]
  BY DEF ApplyOverlay
<1>4. UNCHANGED <<settingRows, settingHistory, outages>> BY DEF ApplyOverlay
<1>5. CacheOK'
  <2>1. f.rows \in [Keys -> Entries] BY <1>1 DEF RefreshOK, Covered
  <2> QED BY <1>1, <2>1, NotifyType DEF ApplyOverlay
<1>6. CopiesOK'
  <2>1. RefreshOK(NoRefresh) BY <1>1, EmptyCopies
  <2>2. PICK x : x = o OBVIOUS
  <2>3. overlay' = [overlay EXCEPT ![p] = x] /\ OverlayOK(x) BY <1>2, <1>3, <2>2
  <2> HIDE DEF f, o
  <2>4. OverlayOK(x)' /\ RefreshOK(NoRefresh)'
    BY <1>4, <2>1, <2>3, CopiesKeep
  <2> QED BY <1>1, <1>3, <1>4, <2>3, <2>4, CopiesKeep DEF CopiesOK
<1> QED BY <1>4, <1>5, <1>6 DEF SettingsInv, HistoryOK

\* The read fails and the copy stays (markUnavailable).
LEMMA MarkUnavailableInv ==
  ASSUME SettingsInv, NEW p \in Processes, NEW s \in Slots, markUnavailable(p, s)
  PROVE  SettingsInv'
<1> DEFINE o == [overlay[p] EXCEPT !.status = "unavailable"]
<1>1. HistoryOK /\ CopiesOK /\ OverlayOK(overlay[p]) /\ CacheOK BY DEF SettingsInv, CopiesOK
<1>2. OverlayOK(o) BY <1>1 DEF OverlayOK
<1>3. overlay' = [overlay EXCEPT ![p] = o] /\ refreshes' = [refreshes EXCEPT ![p][s] = NoRefresh]
  BY DEF markUnavailable
<1>4. UNCHANGED <<settingRows, settingHistory>> BY DEF markUnavailable
<1>5. CacheOK'
  <2>1. overlay[p].rows \in [Keys -> Entries] BY <1>1 DEF OverlayOK, Covered
  <2> QED BY <1>1, <2>1, NotifyType DEF markUnavailable
<1>6. CopiesOK'
  <2>1. RefreshOK(NoRefresh) BY <1>1, EmptyCopies
  <2>2. PICK x : x = o OBVIOUS
  <2>3. overlay' = [overlay EXCEPT ![p] = x] /\ OverlayOK(x) BY <1>2, <1>3, <2>2
  <2> HIDE DEF o
  <2>4. OverlayOK(x)' /\ RefreshOK(NoRefresh)'
    BY <1>4, <2>1, <2>3, CopiesKeep
  <2> QED BY <1>1, <1>3, <1>4, <2>3, <2>4, CopiesKeep DEF CopiesOK
<1>7. outages' \in 0..MaxOutages BY SettingConstants DEF SettingsInv, markUnavailable
<1> QED BY <1>4, <1>5, <1>6, <1>7 DEF SettingsInv, HistoryOK

\* A write: one more row in the table's history, and a refresh that is due (set,
\* clear).
LEMMA WriteSettingInv ==
  ASSUME SettingsInv, NEW p \in Processes, NEW k \in Keys, NEW e \in Entries,
         WriteSetting(p, k, e)
  PROVE  SettingsInv'
<1> PICK n : n = settingRevision + 1 OBVIOUS
<1> DEFINE row == [settingRows EXCEPT ![k] = e]
           f   == [NoRefresh EXCEPT !.step = "due", !.key = k, !.since = n]
<1>1. HistoryOK /\ CopiesOK BY DEF SettingsInv
<1>2. row \in [Keys -> Entries] BY <1>1 DEF HistoryOK
<1>3. /\ settingRows' = row /\ settingHistory' = Append(settingHistory, row)
      /\ refreshes' = [refreshes EXCEPT ![p]["write"] = f]
      /\ UNCHANGED <<overlay, settingCache, outages>>
      /\ Len(settingHistory) <= MaxSettingWrites
  BY DEF WriteSetting, settingRevision
<1>4. HistoryOK'
  <2> HIDE DEF row
  <2> QED BY <1>1, <1>2, <1>3, SettingConstants DEF HistoryOK
<1>5. /\ \A o : OverlayOK(o) => OverlayOK(o)'
      /\ \A g : RefreshOK(g) => RefreshOK(g)'
  BY <1>1, <1>2, <1>3, CopiesStay
<1>6. RefreshOK(f)'
  <2>1. NoRows \in [Keys -> Entries] BY DEF NoRows, Entries
  <2>2. /\ DOMAIN f = {"step", "rows", "revision", "key", "since"} /\ f.step = "due"
        /\ f.rows = NoRows /\ f.revision = 0 /\ f.since = n
    BY DEF NoRefresh
  <2>3. Len(settingHistory) \in Nat /\ Len(settingHistory') = Len(settingHistory) + 1
    BY <1>1, <1>3 DEF HistoryOK
  <2>4. f.since \in 1..Len(settingHistory') BY <2>2, <2>3 DEF settingRevision
  <2>5. Covered(NoRows, f.since, 0)' BY <2>1, <2>3 DEF Covered
  <2> HIDE DEF f
  <2> QED BY <2>2, <2>4, <2>5 DEF RefreshOK
<1>7. CopiesOK'
  <2> HIDE DEF f, row
  <2> QED BY <1>1, <1>3, <1>5, <1>6 DEF CopiesOK, Slots
<1> QED BY <1>3, <1>4, <1>7 DEF SettingsInv, CacheOK

\* A process that starts over holds nothing (onModuleInit).
LEMMA RestartProcessInv ==
  ASSUME SettingsInv, NEW p \in Processes, RestartProcess(p)
  PROVE  SettingsInv'
<1>1. HistoryOK /\ CopiesOK /\ CacheOK BY DEF SettingsInv
<1>2. OverlayOK(NoOverlay) /\ RefreshOK(NoRefresh) BY <1>1, EmptyCopies
<1>3. NoRows \in [Keys -> Entries] BY DEF NoRows, Entries
<1>4. Resolved(NoRows) \in [Keys -> Values] BY <1>3, ResolveType DEF Resolved
<1>5. CacheOK' BY <1>1, <1>4 DEF RestartProcess, CacheOK
<1>6. CopiesOK' BY <1>1, <1>2 DEF RestartProcess, CopiesOK, OverlayOK, RefreshOK, Covered, Shows
<1>7. outages' \in 0..MaxOutages BY SettingConstants DEF SettingsInv, RestartProcess
<1> QED BY <1>1, <1>5, <1>6, <1>7 DEF SettingsInv, HistoryOK, RestartProcess

\* The invariant is inductive.
LEMMA SettingsStep == SettingsInv /\ [SettingsNext]_settingVars => SettingsInv'
<1>1. ASSUME SettingsInv, SettingsNext PROVE SettingsInv'
  BY <1>1, ReadOverlayInv, ApplyOverlayInv, MarkUnavailableInv, WriteSettingInv,
     RestartProcessInv DEF SettingsNext, Refresh
<1>2. ASSUME SettingsInv, UNCHANGED settingVars PROVE SettingsInv'
  BY <1>2 DEF SettingsInv, HistoryOK, CopiesOK, CacheOK, OverlayOK, RefreshOK, Covered, Shows,
              settingVars
<1> QED BY <1>1, <1>2

\* What a process applies is a whole state of the table, never later than the
\* revision reported with it, and the refresh at the end of a write shows that
\* write or a later one, for any number of processes, keys, writes and outages
\* (refresh, set, clear).
THEOREM OverlaysCoverTheirRows == SettingsSpec => []OverlayCoversItsRows
<1>1. SettingsInv => OverlayCoversItsRows
  <2> SUFFICES ASSUME SettingsInv, NEW p \in Processes
               PROVE  /\ overlay[p].revision # 0
                           => Shows(overlay[p].rows, 1, overlay[p].revision)
                      /\ \A s \in Slots : refreshes[p][s].step = "read"
                           => Shows(refreshes[p][s].rows, refreshes[p][s].since,
                                    refreshes[p][s].revision)
    BY DEF OverlayCoversItsRows
  <2> QED BY DEF SettingsInv, CopiesOK, OverlayOK, RefreshOK, Covered
<1> QED BY <1>1, SettingsStart, SettingsStep, PTL DEF SettingsSpec

\* The settings keep their types: every service resolves every key to a value
\* the registry accepts or a default, whatever an earlier build left in the rows.
THEOREM SettingsAreTyped == SettingsSpec => []SettingsOK
<1>1. SettingsInv => SettingsOK
  BY DEF SettingsInv, HistoryOK, CopiesOK, CacheOK, OverlayOK, RefreshOK, Covered, Shows,
         SettingsOK, settingRevision, Values
<1> QED BY <1>1, SettingsStart, SettingsStep, PTL DEF SettingsSpec

-----------------------------------------------------------------------------
(* The repository's ladder.  The types hold for any number of operators;    *)
(* the rule for retired repositories needs that a request is answered       *)
(* before the next one is sent, and then rests on this: what a request read *)
(* is still what the row says when it writes.                               *)

\* The row, and what a request carries.
RowShape(r) ==
  /\ DOMAIN r = {"id", "rungs", "retired"}
  /\ r.id \in 0..(MaxRepositoryRequests + 1) /\ r.rungs \subseteq Rungs
  /\ r.retired \in BOOLEAN
  /\ r.id = 0 => r.rungs = {}
RequestShape(q) ==
  /\ DOMAIN q = {"op", "on", "off", "seen"}
  /\ q.op \in {"none", "register", "update", "retire", "unretire", "remove"}
  /\ q.on \subseteq Rungs

RepositoryShape ==
  /\ RowShape(repository)
  /\ DOMAIN requests = Operators /\ \A o \in Operators : RequestShape(requests[o])
  /\ hasWorkOrders \in BOOLEAN /\ (hasWorkOrders => Registered)
  /\ reachable \in BOOLEAN /\ requestCount \in 0..MaxRepositoryRequests

\* An operator waits for each answer.
OneOperator == \A o1, o2 \in Operators : o1 = o2

\* What a request has read is still so, and a retired row takes no rung.
StillSo(o) ==
  requests[o].op # "none" =>
    /\ requests[o].seen = repository
    /\ requests[o].op = "update" /\ repository.retired => requests[o].on = {}

LadderInv ==
  /\ RepositoryShape
  /\ \A o \in Operators : StillSo(o)
  /\ RetiredIsOffTheLadder

\* The ladders a request may name hold rungs only.
LEMMA LaddersAreRungs == \A on \in Ladders : on \subseteq Rungs
BY DEF Ladders, Rungs

\* A read changes the operator's request and nothing else.
LEMMA RequestShapes ==
  ASSUME RepositoryShape, NEW o \in Operators, NEW on \in Ladders, NEW off,
         NEW op \in {"register", "update", "retire", "unretire", "remove"},
         Request(o, op, on, off)
  PROVE  /\ RepositoryShape' /\ UNCHANGED repository
         /\ requests' = [requests EXCEPT ![o] =
              [op |-> op, on |-> on, off |-> off, seen |-> repository]]
<1> DEFINE q == [op |-> op, on |-> on, off |-> off, seen |-> repository]
<1>1. RequestShape(q) BY LaddersAreRungs DEF RequestShape
<1>2. requests' = [requests EXCEPT ![o] = q] BY DEF Request
<1>3. UNCHANGED <<repository, hasWorkOrders, reachable>> /\ requestCount' \in 0..MaxRepositoryRequests
  BY RepositoryConstants DEF Request, RepositoryShape
<1> QED
  <2> HIDE DEF q
  <2>1. RepositoryShape' BY <1>1, <1>2, <1>3 DEF RepositoryShape, Registered, RowShape
  <2> QED BY <2>1, <1>2, <1>3 DEF q

\* The five reads, each one a request (register, update, retire, unretire, remove).
LEMMA ReadsRequest ==
  ASSUME NEW o \in Operators, NEW on \in Ladders, NEW off \in Ladders,
         RegisterRead(o, on) \/ UpdateRead(o, on, off)
         \/ RetireRead(o) \/ UnretireRead(o) \/ RemoveRead(o)
  PROVE  \E x \in Ladders, y \in Ladders,
            op \in {"register", "update", "retire", "unretire", "remove"} :
           Request(o, op, x, y) /\ (op = "update" /\ repository.retired => x = {})
<1>1. {} \in Ladders BY DEF Ladders
<1> QED BY <1>1 DEF RegisterRead, UpdateRead, RetireRead, UnretireRead, RemoveRead, RungsAllowed

\* A write ends the request and leaves a row of the right shape.
LEMMA FinishShapes ==
  ASSUME RepositoryShape, NEW o \in Operators, NEW row, RowShape(row), Finish(o, row),
         hasWorkOrders' \in BOOLEAN, hasWorkOrders' => row.id # 0
  PROVE  RepositoryShape'
<1>1. RequestShape(NoRequest) BY DEF RequestShape, NoRequest
<1> QED BY <1>1 DEF RepositoryShape, Finish, Registered, RowShape

\* What the row is after a write, by the request that writes it.
RowAfter(o) ==
  CASE requests[o].op = "register" ->
         [id |-> requestCount + 1, rungs |-> requests[o].on, retired |-> FALSE]
    [] requests[o].op = "update"   ->
         [repository EXCEPT !.rungs = (repository.rungs \cup requests[o].on) \ requests[o].off]
    [] requests[o].op = "retire"   -> [repository EXCEPT !.rungs = {}, !.retired = TRUE]
    [] requests[o].op = "unretire" -> [repository EXCEPT !.rungs = {"observe"}, !.retired = FALSE]
    [] OTHER                       -> NoRepository

WritesRow(o) ==
  \/ RegisterCreate(o) \/ UpdateWrite(o) \/ RetireCommit(o) \/ UnretireCommit(o)
  \/ RemoveDelete(o)

\* A write of the row ends the operation that made it.
LEMMA WriteFinishes ==
  ASSUME RepositoryShape, NEW o \in Operators, WritesRow(o)
  PROVE  /\ Finish(o, RowAfter(o)) /\ RowShape(RowAfter(o))
         /\ hasWorkOrders' \in BOOLEAN /\ (hasWorkOrders' => RowAfter(o).id # 0)
         /\ requests[o].op \in {"register", "update", "retire", "unretire", "remove"}
<1>0. RowShape(repository) /\ RequestShape(requests[o]) BY DEF RepositoryShape
<1>1. CASE RegisterCreate(o)
  <2>1. RowAfter(o) = [id |-> requestCount + 1, rungs |-> requests[o].on, retired |-> FALSE]
    BY <1>1 DEF RegisterCreate, RowAfter
  <2>2. requestCount + 1 \in 1..(MaxRepositoryRequests + 1) /\ requests[o].on \subseteq Rungs
    BY <1>0, RepositoryConstants DEF RepositoryShape, RequestShape
  <2>3. RowShape(RowAfter(o)) /\ RowAfter(o).id # 0
    BY <2>1, <2>2, RepositoryConstants DEF RowShape
  <2> QED BY <1>1, <2>1, <2>3 DEF RegisterCreate, RepositoryShape
<1>2. CASE UpdateWrite(o)
  BY <1>0, <1>2 DEF UpdateWrite, SameRow, Registered, RowAfter, RowShape, RequestShape,
     RepositoryShape
<1>3. CASE RetireCommit(o)
  BY <1>0, <1>3 DEF RetireCommit, SameRow, Registered, RowAfter, RowShape, RepositoryShape
<1>4. CASE UnretireCommit(o)
  BY <1>0, <1>4 DEF UnretireCommit, SameRow, Registered, RowAfter, RowShape, RepositoryShape, Rungs
<1>5. CASE RemoveDelete(o)
  <2>1. RowAfter(o) = NoRepository BY <1>5 DEF RemoveDelete, RowAfter
  <2>2. RowShape(NoRepository) BY RepositoryConstants DEF RowShape, NoRepository
  <2> QED BY <1>5, <2>1, <2>2 DEF RemoveDelete
<1> QED BY <1>1, <1>2, <1>3, <1>4, <1>5 DEF WritesRow

\* The types are inductive, whoever sends requests at the same time.
LEMMA RepositoryShapeStep ==
  RepositoryShape /\ [RepositoryNext]_repositoryVars => RepositoryShape'
<1>1. ASSUME RepositoryShape, NEW o \in Operators, NEW on \in Ladders, NEW off \in Ladders,
             RegisterRead(o, on) \/ UpdateRead(o, on, off)
             \/ RetireRead(o) \/ UnretireRead(o) \/ RemoveRead(o)
      PROVE  RepositoryShape'
  BY <1>1, ReadsRequest, RequestShapes
<1>2. ASSUME RepositoryShape, NEW o \in Operators, WritesRow(o) PROVE RepositoryShape'
  BY <1>2, WriteFinishes, FinishShapes
<1>3. ASSUME RepositoryShape, NEW o \in Operators, RequestFails(o) PROVE RepositoryShape'
  <2>1. RequestShape(NoRequest) BY DEF RequestShape, NoRequest
  <2> QED BY <1>3, <2>1 DEF RequestFails, RepositoryShape, Registered, RowShape
<1>4. ASSUME RepositoryShape, WorkOrderAppears \/ AccessChanges PROVE RepositoryShape'
  <2>1. /\ RowShape(repository)' /\ requestCount' \in 0..MaxRepositoryRequests
        /\ (DOMAIN requests = Operators /\ \A o \in Operators : RequestShape(requests[o]))'
    BY <1>4 DEF WorkOrderAppears, AccessChanges, RepositoryShape, RowShape
  <2>2. hasWorkOrders' \in BOOLEAN /\ reachable' \in BOOLEAN
    BY <1>4, Zenon DEF WorkOrderAppears, AccessChanges, RepositoryShape
  <2>3. (hasWorkOrders => Registered)'
    <3>1. CASE WorkOrderAppears
      BY <1>4, <3>1 DEF WorkOrderAppears, RepositoryShape, RowShape, Registered
    <3>2. CASE AccessChanges
      BY <1>4, <3>2 DEF AccessChanges, RepositoryShape, Registered
    <3> QED BY <1>4, <3>1, <3>2
  <2> QED BY <2>1, <2>2, <2>3 DEF RepositoryShape
<1>5. ASSUME RepositoryShape, UNCHANGED repositoryVars PROVE RepositoryShape'
  BY <1>5 DEF repositoryVars, RepositoryShape, Registered, RowShape
<1>6. {} \in Ladders BY DEF Ladders
<1> QED BY <1>1, <1>2, <1>3, <1>4, <1>5, <1>6 DEF RepositoryNext, WritesRow

\* With one request at a time, what a request read stays true, and so the row a
\* write leaves obeys the rule.
LEMMA LadderStep ==
  ASSUME OneOperator PROVE LadderInv /\ [RepositoryNext]_repositoryVars => LadderInv'
<1> SUFFICES ASSUME LadderInv, [RepositoryNext]_repositoryVars PROVE LadderInv'
  OBVIOUS
<1>0. RepositoryShape /\ RepositoryShape' /\ {} \in Ladders
  BY RepositoryShapeStep DEF LadderInv, Ladders
<1>1. ASSUME NEW o \in Operators, NEW on \in Ladders, NEW off \in Ladders,
             RegisterRead(o, on) \/ UpdateRead(o, on, off)
             \/ RetireRead(o) \/ UnretireRead(o) \/ RemoveRead(o)
      PROVE  LadderInv'
  <2>1. PICK x \in Ladders, y \in Ladders,
             op \in {"register", "update", "retire", "unretire", "remove"} :
          Request(o, op, x, y) /\ (op = "update" /\ repository.retired => x = {})
    BY <1>1, ReadsRequest
  <2>2. /\ UNCHANGED repository
        /\ requests' = [requests EXCEPT ![o] =
             [op |-> op, on |-> x, off |-> y, seen |-> repository]]
    BY <1>0, <2>1, RequestShapes
  <2> QED BY <1>0, <2>1, <2>2, OneOperator
          DEF LadderInv, StillSo, RetiredIsOffTheLadder, OneOperator, RepositoryShape
<1>2. ASSUME NEW o \in Operators, WritesRow(o) PROVE LadderInv'
  <2>1. /\ Finish(o, RowAfter(o))
        /\ requests[o].op \in {"register", "update", "retire", "unretire", "remove"}
        /\ RowShape(repository) /\ DOMAIN requests = Operators
    BY <1>0, <1>2, WriteFinishes DEF RepositoryShape
  <2>2. RowAfter(o).retired => RowAfter(o).rungs = {}
    BY <2>1 DEF LadderInv, RetiredIsOffTheLadder, StillSo, RowAfter, RowShape, NoRepository
  <2> QED BY <1>0, <2>1, <2>2, OneOperator
          DEF LadderInv, StillSo, RetiredIsOffTheLadder, OneOperator, Finish, NoRequest
<1>3. ASSUME NEW o \in Operators, RequestFails(o) PROVE LadderInv'
  BY <1>0, <1>3 DEF LadderInv, StillSo, RetiredIsOffTheLadder, RequestFails, NoRequest,
     RepositoryShape
<1>4. CASE WorkOrderAppears \/ AccessChanges
  BY <1>0, <1>4 DEF LadderInv, StillSo, RetiredIsOffTheLadder, WorkOrderAppears, AccessChanges
<1>5. CASE UNCHANGED repositoryVars
  BY <1>0, <1>5 DEF LadderInv, StillSo, RetiredIsOffTheLadder, repositoryVars
<1> QED BY <1>0, <1>1, <1>2, <1>3, <1>4, <1>5 DEF RepositoryNext, WritesRow

\* No row and no request at the start.
LEMMA LadderStart == RepositoryInit => LadderInv
<1> SUFFICES ASSUME RepositoryInit PROVE LadderInv OBVIOUS
<1>1. RowShape(NoRepository) BY RepositoryConstants DEF RowShape, NoRepository
<1>2. RequestShape(NoRequest) BY DEF RequestShape, NoRequest
<1>3. RepositoryShape
  <2>1. RowShape(repository) BY <1>1 DEF RepositoryInit
  <2>2. DOMAIN requests = Operators /\ \A o \in Operators : RequestShape(requests[o])
    BY <1>2 DEF RepositoryInit
  <2>3. /\ hasWorkOrders \in BOOLEAN /\ (hasWorkOrders => Registered) /\ reachable \in BOOLEAN
    BY DEF RepositoryInit
  <2>4. requestCount \in 0..MaxRepositoryRequests BY RepositoryConstants DEF RepositoryInit
  <2> QED BY <2>1, <2>2, <2>3, <2>4 DEF RepositoryShape
<1> QED BY <1>3 DEF RepositoryInit, LadderInv, StillSo, RetiredIsOffTheLadder, NoRequest, NoRepository

\* The registration keeps its types, and work orders hang on a registered row,
\* however many operators send requests at the same time.
THEOREM RepositoriesAreTyped == RepositorySpec => []RepositoriesOK
<1>1. RepositoryShape => RepositoriesOK
  BY DEF RepositoryShape, RowShape, RequestShape, RepositoriesOK
<1>2. RepositoryInit => RepositoryShape BY LadderStart DEF LadderInv
<1> QED BY <1>1, <1>2, RepositoryShapeStep, PTL DEF RepositorySpec

\* schema.prisma's rule that a retired repository has all four flags off: kept
\* through any sequence of requests of an operator who waits for each answer.
\* The hypothesis is needed: update checks retiredAt on the row it read and
\* writes after an await.
THEOREM RetiredStaysOff ==
  ASSUME OneOperator PROVE RepositorySpec => []RetiredIsOffTheLadder
<1>1. LadderInv => RetiredIsOffTheLadder BY DEF LadderInv
<1>2. LadderInv /\ [RepositoryNext]_repositoryVars => LadderInv' BY LadderStep
<1> QED BY <1>1, <1>2, LadderStart, PTL DEF RepositorySpec

-----------------------------------------------------------------------------
(* The delivery of escalations.  An escalation is loaded while its recorded *)
(* attempts are below the limit, but a send is recorded a step later, by a  *)
(* pass that may have died, other passes may have loaded the row meanwhile, *)
(* and attempts are also raised by receipts.  So the bound is carried by    *)
(* two accounts of every escalation: its sends are covered by its attempts, *)
(* the passes that died and those that are recording a send; and the sends  *)
(* made and still to be made by passes that have loaded it never exceed the *)
(* bound.  A pass that loads takes part in neither yet, which is what       *)
(* leaves room for it.                                                      *)

EscalationSpec == EscalationInit /\ [][EscalationNext]_escalationVars

EscalationStatuses == UNRESOLVED \cup {"acknowledged", "resolved"}

EscalationRow(e) ==
  /\ DOMAIN e = {"subject", "status", "attempts", "receipt", "overdue", "deliveredAt",
                 "acknowledgedAt"}
  /\ e.subject \in Subjects /\ e.status \in EscalationStatuses
  /\ e.attempts \in Nat /\ e.receipt \in Nat

\* The table, and the sends of the rows it has: a receipt is of a send.
TableOK ==
  /\ IsSeq(escalations) /\ Len(escalations) <= MaxEscalations
  /\ \A i \in DOMAIN escalations : /\ EscalationRow(escalations[i])
                                   /\ escalations[i].receipt <= sends[i]
  /\ sends \in [EscalationIds -> Nat]
  /\ \A i \in EscalationIds : i \notin DOMAIN escalations => sends[i] = 0

ReceiptsOK ==
  \A r \in shown \cup receipts : /\ r \in EscalationIds \X Nat
                                 /\ r[1] \in DOMAIN escalations /\ r[2] <= sends[r[1]]

\* A pass: the send it is recording is one that was made, of a row that it no
\* longer has to send.
PassOK(d) ==
  /\ DOMAIN d = {"step", "todo", "id", "number", "accepted"}
  /\ d.step \in {"idle", "deliver", "write", "fail"}
  /\ d.todo \subseteq DOMAIN escalations
  /\ d.accepted \in Transports
  /\ d.step = "write" => /\ d.id \in DOMAIN escalations /\ d.id \notin d.todo
                         /\ d.number \in Nat /\ d.number <= sends[d.id]

DispatcherOK ==
  /\ DOMAIN dispatcher = DispatchPasses
  /\ \A p \in DispatchPasses : PassOK(dispatcher[p])

\* The passes that have loaded i and have yet to send it.
StillToSend(i) ==
  {p \in DispatchPasses : dispatcher[p].step \in {"deliver", "write"} /\ i \in dispatcher[p].todo}

RecordingNow(i)  == Cardinality(Recording(i))
ToSendNow(i)     == Cardinality(StillToSend(i))
OtherPasses      == Cardinality(DispatchPasses) - 1

Accounted ==
  /\ \A i \in DOMAIN escalations :
       sends[i] <= escalations[i].attempts + dispatchFaults + RecordingNow(i)
  /\ \A i \in EscalationIds :
       sends[i] + ToSendNow(i) <= MAX_DELIVERY_ATTEMPTS + OtherPasses + dispatchFaults

CountersOK ==
  /\ subscriptions \in [Devices -> 0..NotSubscribed]
  /\ dispatchFaults \in 0..MaxDispatchFaults

EscalationInv == TableOK /\ ReceiptsOK /\ DispatcherOK /\ Accounted /\ CountersOK

\* The ids of the table are ids of escalations.
LEMMA EscalationIdsOK ==
  TableOK => /\ DOMAIN escalations \subseteq EscalationIds
             /\ DOMAIN escalations = 1..Len(escalations) /\ Len(escalations) \in Nat
BY SeqIds, EscalationConstants DEF TableOK, EscalationIds

\* The oldest of some rows is one of them.
LEMMA OldestIsOne ==
  ASSUME NEW S, S \subseteq Nat, S # {} PROVE Oldest(S) \in S
<1>1. \E i \in S : \A j \in S : i <= j BY LeastId
<1> QED BY <1>1 DEF Oldest

\* A set that one element joins or leaves.
LEMMA OneMoves ==
  ASSUME NEW T, IsFiniteSet(T), NEW S, S \subseteq T, NEW U, U \subseteq T,
         NEW p, S \ {p} = U \ {p}
  PROVE  /\ Cardinality(S) \in Nat /\ Cardinality(U) \in Nat
         /\ p \in S /\ p \notin U => Cardinality(U) = Cardinality(S) - 1
         /\ p \notin S /\ p \in U => Cardinality(U) = Cardinality(S) + 1
         /\ (p \in S <=> p \in U) => Cardinality(U) = Cardinality(S)
<1>1. IsFiniteSet(S) /\ IsFiniteSet(U) BY FS_Subset
<1>2. Cardinality(S) \in Nat /\ Cardinality(U) \in Nat BY <1>1, FS_CardinalityType
<1>3. /\ Cardinality(S \ {p}) = IF p \in S THEN Cardinality(S) - 1 ELSE Cardinality(S)
      /\ Cardinality(U \ {p}) = IF p \in U THEN Cardinality(U) - 1 ELSE Cardinality(U)
  BY <1>1, FS_RemoveElement
<1> QED BY <1>2, <1>3

\* How many passes there are, and how many record a send or have one to make.
LEMMA CountsAreNat ==
  ASSUME NEW i
  PROVE  /\ RecordingNow(i) \in Nat /\ ToSendNow(i) \in Nat /\ OtherPasses \in Nat
<1>1. IsFiniteSet(DispatchPasses) BY EscalationConstants
<1>2. Recording(i) \subseteq DispatchPasses /\ StillToSend(i) \subseteq DispatchPasses
  BY DEF Recording, StillToSend
<1>3. IsFiniteSet(Recording(i)) /\ IsFiniteSet(StillToSend(i)) BY <1>1, <1>2, FS_Subset
<1>4. PICK p : p \in DispatchPasses BY EscalationConstants
<1>5. Cardinality(DispatchPasses) \in Nat /\ Cardinality(DispatchPasses \ {p}) \in Nat
      /\ Cardinality(DispatchPasses \ {p}) = Cardinality(DispatchPasses) - 1
  BY <1>1, <1>4, FS_RemoveElement, FS_CardinalityType
<1> QED BY <1>3, <1>5, FS_CardinalityType DEF RecordingNow, ToSendNow, OtherPasses

\* A step of one pass moves it in or out of these sets, and no other.
LEMMA CountsMove ==
  ASSUME NEW p \in DispatchPasses, NEW i,
         \A q \in DispatchPasses : q # p => dispatcher'[q] = dispatcher[q]
  PROVE  /\ RecordingNow(i) \in Nat /\ RecordingNow(i)' \in Nat
         /\ ToSendNow(i) \in Nat /\ ToSendNow(i)' \in Nat
         /\ p \in Recording(i) /\ p \notin Recording(i)'
              => RecordingNow(i)' = RecordingNow(i) - 1
         /\ p \notin Recording(i) /\ p \in Recording(i)'
              => RecordingNow(i)' = RecordingNow(i) + 1
         /\ (p \in Recording(i) <=> p \in Recording(i)') => RecordingNow(i)' = RecordingNow(i)
         /\ p \in StillToSend(i) /\ p \notin StillToSend(i)'
              => ToSendNow(i)' = ToSendNow(i) - 1
         /\ p \notin StillToSend(i) /\ p \in StillToSend(i)'
              => ToSendNow(i)' = ToSendNow(i) + 1
         /\ (p \in StillToSend(i) <=> p \in StillToSend(i)') => ToSendNow(i)' = ToSendNow(i)
<1>1. IsFiniteSet(DispatchPasses) BY EscalationConstants
<1>2. /\ Recording(i) \subseteq DispatchPasses /\ Recording(i)' \subseteq DispatchPasses
      /\ Recording(i) \ {p} = Recording(i)' \ {p}
  BY DEF Recording
<1>3. /\ StillToSend(i) \subseteq DispatchPasses /\ StillToSend(i)' \subseteq DispatchPasses
      /\ StillToSend(i) \ {p} = StillToSend(i)' \ {p}
  BY DEF StillToSend
<1>4. RecordingNow(i)' = Cardinality(Recording(i)') /\ ToSendNow(i)' = Cardinality(StillToSend(i)')
  BY DEF RecordingNow, ToSendNow
<1>5. RecordingNow(i) = Cardinality(Recording(i)) /\ ToSendNow(i) = Cardinality(StillToSend(i))
  BY DEF RecordingNow, ToSendNow
<1> QED BY <1>1, <1>2, <1>3, <1>4, <1>5, OneMoves

\* A pass that does neither leaves room for itself.
LEMMA CountsFit ==
  ASSUME DispatcherOK, NEW p \in DispatchPasses, NEW i,
         p \notin Recording(i), p \notin StillToSend(i)
  PROVE  RecordingNow(i) + ToSendNow(i) <= OtherPasses
<1> DEFINE R == Recording(i)
           S == StillToSend(i)
           Q == DispatchPasses \ {p}
<1>1. /\ IsFiniteSet(Q) /\ Cardinality(Q) = OtherPasses
  BY EscalationConstants, FS_RemoveElement DEF OtherPasses
<1>2. R \subseteq Q /\ S \subseteq Q BY DEF Recording, StillToSend
<1>3. R \cap S = {} BY DEF Recording, StillToSend, DispatcherOK, PassOK
<1>4. R \cup S \subseteq Q BY <1>2
<1>5. RecordingNow(i) = Cardinality(R) /\ ToSendNow(i) = Cardinality(S)
  BY DEF RecordingNow, ToSendNow
<1> HIDE DEF R, S, Q
<1>6. /\ IsFiniteSet(R) /\ IsFiniteSet(S) /\ Cardinality(R \cup S) <= Cardinality(Q)
  BY <1>1, <1>2, <1>4, FS_Subset
<1>7. Cardinality(R \cup S) = Cardinality(R) + Cardinality(S) - Cardinality(R \cap S)
  BY <1>6, FS_Union
<1>8. Cardinality(R \cap S) = 0 BY <1>3, FS_EmptySet
<1>9. Cardinality(R) \in Nat /\ Cardinality(S) \in Nat BY <1>6, FS_CardinalityType
<1> QED BY <1>1, <1>5, <1>6, <1>7, <1>8, <1>9

\* The numbers of the accounts.
LEMMA AccountsAreNat ==
  ASSUME TableOK, CountersOK
  PROVE  /\ MAX_DELIVERY_ATTEMPTS \in Nat \ {0} /\ OtherPasses \in Nat /\ dispatchFaults \in Nat
         /\ \A i : RecordingNow(i) \in Nat /\ ToSendNow(i) \in Nat
         /\ \A i \in EscalationIds : sends[i] \in Nat
         /\ DOMAIN escalations \subseteq EscalationIds
         /\ \A i \in DOMAIN escalations : escalations[i].attempts \in Nat
BY CountsAreNat, EscalationConstants, EscalationIdsOK DEF TableOK, CountersOK, EscalationRow

\* Nothing is raised and nothing is sent at the start.
LEMMA EscalationStart == EscalationInit => EscalationInv
<1> SUFFICES ASSUME EscalationInit PROVE EscalationInv OBVIOUS
<1> USE EscalationConstants DEF EscalationInit
<1>1. TableOK BY SeqEmpty DEF TableOK
<1>2. ReceiptsOK BY DEF ReceiptsOK
<1>3. DispatcherOK BY DEF DispatcherOK, PassOK, NotDispatching, Transports
<1>4. CountersOK BY DEF CountersOK, NotSubscribed
<1>5. Accounted
  <2>1. \A i : StillToSend(i) = {} BY DEF StillToSend, NotDispatching
  <2>2. \A i : ToSendNow(i) = 0 BY <2>1, FS_EmptySet DEF ToSendNow
  <2>3. \A i \in EscalationIds : sends[i] = 0 OBVIOUS
  <2>4. DOMAIN escalations = {} BY SeqEmpty
  <2> QED BY <1>1, <1>4, <2>2, <2>3, <2>4, AccountsAreNat DEF Accounted
<1> QED BY <1>1, <1>2, <1>3, <1>4, <1>5 DEF EscalationInv

\* A step that rewrites rows without losing an attempt, and leaves the sends and
\* the passes alone, keeps the accounts.
LEMMA RowsRewritten ==
  ASSUME EscalationInv, IsSeq(escalations'), DOMAIN escalations' = DOMAIN escalations,
         Len(escalations') = Len(escalations),
         \A i \in DOMAIN escalations : /\ EscalationRow(escalations'[i])
                                       /\ escalations'[i].receipt <= sends[i]
                                       /\ escalations'[i].attempts >= escalations[i].attempts,
         shown' \subseteq shown, receipts' \subseteq receipts,
         UNCHANGED <<sends, dispatcher, subscriptions, dispatchFaults>>
  PROVE  EscalationInv'
<1>0. TableOK /\ ReceiptsOK /\ DispatcherOK /\ Accounted /\ CountersOK BY DEF EscalationInv
<1>1. TableOK' BY <1>0 DEF TableOK
<1>2. ReceiptsOK' BY <1>0 DEF ReceiptsOK
<1>3. DispatcherOK' BY <1>0 DEF DispatcherOK, PassOK
<1>4. CountersOK' BY <1>0 DEF CountersOK
<1>5. Accounted'
  <2>1. \A i : RecordingNow(i)' = RecordingNow(i) /\ ToSendNow(i)' = ToSendNow(i)
    BY DEF RecordingNow, ToSendNow, Recording, StillToSend
  <2>2. ASSUME NEW i \in DOMAIN escalations
        PROVE  sends[i] <= escalations'[i].attempts + dispatchFaults + RecordingNow(i)
    <3>1. /\ sends[i] \in Nat /\ escalations[i].attempts \in Nat
          /\ dispatchFaults \in Nat /\ RecordingNow(i) \in Nat
      BY <1>0, AccountsAreNat
    <3>2. escalations'[i].attempts \in Nat BY DEF EscalationRow
    <3>3. sends[i] <= escalations[i].attempts + dispatchFaults + RecordingNow(i)
      BY <1>0 DEF Accounted
    <3> QED BY <3>1, <3>2, <3>3
  <2> QED BY <1>0, <2>1, <2>2 DEF Accounted
<1> QED BY <1>1, <1>2, <1>3, <1>4, <1>5 DEF EscalationInv

\* A row is replaced by one that has the shape, a receipt of a send and no fewer
\* attempts (acknowledge, resolveStale, markDelivered, sweepOverdue).
LEMMA RowReplaced ==
  ASSUME EscalationInv, NEW i \in DOMAIN escalations, NEW e, EscalationRow(e),
         e.receipt <= sends[i], e.attempts >= escalations[i].attempts,
         escalations' = [escalations EXCEPT ![i] = e],
         shown' \subseteq shown, receipts' \subseteq receipts,
         UNCHANGED <<sends, dispatcher, subscriptions, dispatchFaults>>
  PROVE  EscalationInv'
<1>1. IsSeq(escalations) BY DEF EscalationInv, TableOK
<1>2. /\ IsSeq(escalations') /\ Len(escalations') = Len(escalations)
      /\ DOMAIN escalations' = DOMAIN escalations
      /\ \A j \in DOMAIN escalations : escalations'[j] = IF j = i THEN e ELSE escalations[j]
  BY <1>1, SeqReplace
<1>3. \A j \in DOMAIN escalations :
        EscalationRow(escalations[j]) /\ escalations[j].receipt <= sends[j]
  BY DEF EscalationInv, TableOK
<1>4. ASSUME NEW j \in DOMAIN escalations
      PROVE  /\ EscalationRow(escalations'[j]) /\ escalations'[j].receipt <= sends[j]
             /\ escalations'[j].attempts >= escalations[j].attempts
  <2>1. CASE j = i BY <1>2, <2>1
  <2>2. CASE j # i
    <3>1. escalations[j].attempts \in Nat BY <1>3 DEF EscalationRow
    <3> QED BY <1>2, <1>3, <2>2, <3>1
  <2> QED BY <2>1, <2>2
<1> QED BY <1>2, <1>4, RowsRewritten

\* raiseFrom: a new row has no sends yet.
LEMMA RaiseFromInv ==
  ASSUME EscalationInv, NEW s \in Subjects, RaiseFrom(s) PROVE EscalationInv'
<1> DEFINE n == Len(escalations) + 1
           e == [subject |-> s, status |-> "raised", attempts |-> 0, receipt |-> 0,
                 overdue |-> FALSE, deliveredAt |-> FALSE, acknowledgedAt |-> FALSE]
<1>0. TableOK /\ ReceiptsOK /\ DispatcherOK /\ Accounted /\ CountersOK
  BY DEF EscalationInv
<1>1. /\ DOMAIN escalations \subseteq EscalationIds
      /\ DOMAIN escalations = 1..Len(escalations) /\ Len(escalations) \in Nat
  BY <1>0, EscalationIdsOK
<1>2. /\ escalations' = Append(escalations, e) /\ Len(escalations) < MaxEscalations
      /\ UNCHANGED <<sends, shown, receipts, dispatcher, subscriptions, dispatchFaults>>
  BY DEF RaiseFrom
<1>3. EscalationRow(e) /\ e.attempts = 0 /\ e.receipt = 0
  BY DEF EscalationRow, EscalationStatuses, UNRESOLVED
<1> HIDE DEF e
<1>4. /\ IsSeq(escalations') /\ Len(escalations') = n /\ DOMAIN escalations' = 1..n
      /\ \A i \in DOMAIN escalations : escalations'[i] = escalations[i]
      /\ escalations'[n] = e
  BY <1>0, <1>2, SeqAppend DEF TableOK
<1>5. n \in EscalationIds /\ n \notin DOMAIN escalations /\ n \in Nat
      /\ DOMAIN escalations' = DOMAIN escalations \cup {n}
  BY <1>1, <1>2, <1>4, EscalationConstants DEF EscalationIds
<1> HIDE DEF n
<1>6. sends[n] = 0 BY <1>0, <1>5 DEF TableOK
<1>7. TableOK'
  BY <1>0, <1>2, <1>3, <1>4, <1>5, <1>6, EscalationConstants DEF TableOK, n
<1>8. ReceiptsOK' BY <1>0, <1>2, <1>4, <1>5 DEF ReceiptsOK
<1>9. DispatcherOK' BY <1>0, <1>2, <1>5 DEF DispatcherOK, PassOK
<1>10. CountersOK' BY <1>0, <1>2 DEF CountersOK
<1>11. Accounted'
  <2>1. \A i : RecordingNow(i)' = RecordingNow(i) /\ ToSendNow(i)' = ToSendNow(i)
    BY <1>2 DEF RecordingNow, ToSendNow, Recording, StillToSend
  <2>2. dispatchFaults \in Nat /\ RecordingNow(n) \in Nat BY <1>0, AccountsAreNat
  <2>3. sends[n] <= escalations'[n].attempts + dispatchFaults + RecordingNow(n)
    BY <1>3, <1>4, <1>6, <2>2
  <2> QED BY <1>0, <1>2, <1>4, <1>5, <2>1, <2>3 DEF Accounted, OtherPasses
<1> QED BY <1>7, <1>8, <1>9, <1>10, <1>11 DEF EscalationInv

\* resolveStale and resolveSystem touch the status only.
LEMMA ResolveStaleInv ==
  ASSUME EscalationInv, NEW s \in Subjects, ResolveStale(s) PROVE EscalationInv'
<1>1. /\ escalations' = [i \in DOMAIN escalations |->
            IF i \in Unresolved(s)
              THEN [escalations[i] EXCEPT !.status = "resolved", !.overdue = FALSE]
              ELSE escalations[i]]
      /\ UNCHANGED <<sends, shown, receipts, dispatcher, subscriptions, dispatchFaults>>
  BY DEF ResolveStale
<1>2. IsSeq(escalations) BY DEF EscalationInv, TableOK
<1>3. escalations' = [i \in DOMAIN escalations |-> escalations'[i]] BY <1>1
<1>4. /\ IsSeq(escalations') /\ Len(escalations') = Len(escalations)
      /\ DOMAIN escalations' = DOMAIN escalations
  BY <1>2, <1>3, SeqUpdate
<1>5. ASSUME NEW i \in DOMAIN escalations
      PROVE  /\ EscalationRow(escalations'[i]) /\ escalations'[i].receipt <= sends[i]
             /\ escalations'[i].attempts >= escalations[i].attempts
  <2>1. EscalationRow(escalations[i]) /\ escalations[i].receipt <= sends[i]
    BY DEF EscalationInv, TableOK
  <2>2. \/ escalations'[i] = escalations[i]
        \/ escalations'[i] = [escalations[i] EXCEPT !.status = "resolved", !.overdue = FALSE]
    BY <1>1
  <2>3. escalations[i].attempts \in Nat BY <2>1 DEF EscalationRow
  <2>4. CASE escalations'[i] = escalations[i] BY <2>1, <2>3, <2>4
  <2>5. CASE escalations'[i] =
               [escalations[i] EXCEPT !.status = "resolved", !.overdue = FALSE]
    <3>1. /\ escalations'[i].receipt = escalations[i].receipt
          /\ escalations'[i].attempts = escalations[i].attempts
      BY <2>1, <2>5 DEF EscalationRow
    <3>2. EscalationRow(escalations'[i])
      BY <2>1, <2>5 DEF EscalationRow, EscalationStatuses
    <3> QED BY <2>1, <2>3, <3>1, <3>2
  <2> QED BY <2>2, <2>4, <2>5
<1> QED BY <1>1, <1>4, <1>5, RowsRewritten

\* A status, an acknowledgement or a deadline is written by id.
LEMMA AcknowledgeInv ==
  ASSUME EscalationInv, NEW i \in DOMAIN escalations, Acknowledge(i) \/ ReceiptTimeout(i)
  PROVE  EscalationInv'
<1>1. EscalationRow(escalations[i]) /\ escalations[i].receipt <= sends[i]
  BY DEF EscalationInv, TableOK
<1>2. UNCHANGED <<sends, shown, receipts, dispatcher, subscriptions, dispatchFaults>>
  BY DEF Acknowledge, ReceiptTimeout
<1>3. CASE Acknowledge(i)
  <2> DEFINE e == [escalations[i] EXCEPT !.status = "acknowledged", !.acknowledgedAt = TRUE,
                                         !.overdue = FALSE]
  <2>1. escalations' = [escalations EXCEPT ![i] = e] BY <1>3 DEF Acknowledge
  <2>2. EscalationRow(e) /\ e.receipt = escalations[i].receipt
        /\ e.attempts = escalations[i].attempts
    BY <1>1 DEF EscalationRow, EscalationStatuses
  <2>3. e.attempts >= escalations[i].attempts BY <1>1, <2>2 DEF EscalationRow
  <2> HIDE DEF e
  <2> QED BY <1>1, <1>2, <2>1, <2>2, <2>3, RowReplaced
<1>4. CASE ReceiptTimeout(i)
  <2> DEFINE e == [escalations[i] EXCEPT !.overdue = TRUE]
  <2>1. escalations' = [escalations EXCEPT ![i] = e] BY <1>4 DEF ReceiptTimeout
  <2>2. EscalationRow(e) /\ e.receipt = escalations[i].receipt
        /\ e.attempts = escalations[i].attempts
    BY <1>1 DEF EscalationRow
  <2>3. e.attempts >= escalations[i].attempts BY <1>1, <2>2 DEF EscalationRow
  <2> HIDE DEF e
  <2> QED BY <1>1, <1>2, <2>1, <2>2, <2>3, RowReplaced
<1> QED BY <1>3, <1>4

\* markDelivered counts the receipt as an attempt, which covers no send and
\* takes none away.
LEMMA MarkDeliveredInv ==
  ASSUME EscalationInv, NEW r \in shown \cup receipts, MarkDelivered(r) PROVE EscalationInv'
<1> DEFINE i == r[1]
           e == [escalations[i] EXCEPT !.status = "delivered", !.deliveredAt = TRUE,
                                       !.receipt = r[2], !.attempts = escalations[i].attempts + 1,
                                       !.overdue = FALSE]
<1>1. i \in DOMAIN escalations /\ r[2] \in Nat /\ r[2] <= sends[i]
  BY DEF EscalationInv, ReceiptsOK
<1>2. EscalationRow(escalations[i]) BY <1>1 DEF EscalationInv, TableOK
<1>3. EscalationRow(e) /\ e.receipt = r[2] /\ e.attempts = escalations[i].attempts + 1
  BY <1>1, <1>2 DEF EscalationRow, EscalationStatuses, UNRESOLVED
<1>4. e.attempts >= escalations[i].attempts BY <1>2, <1>3 DEF EscalationRow
<1>5. /\ shown' \subseteq shown /\ receipts' \subseteq receipts
      /\ UNCHANGED <<sends, dispatcher, subscriptions, dispatchFaults>>
      /\ UNCHANGED escalations \/ escalations' = [escalations EXCEPT ![i] = e]
  BY DEF MarkDelivered
<1> HIDE DEF e, i
<1>6. CASE UNCHANGED escalations
  <2>1. \A j \in DOMAIN escalations : /\ EscalationRow(escalations[j])
                                      /\ escalations[j].receipt <= sends[j]
    BY DEF EscalationInv, TableOK
  <2>2. \A j \in DOMAIN escalations : escalations[j].attempts >= escalations[j].attempts
    BY <2>1 DEF EscalationRow
  <2>3. IsSeq(escalations) BY DEF EscalationInv, TableOK
  <2> QED BY <1>5, <1>6, <2>1, <2>2, <2>3, RowsRewritten
<1>7. CASE escalations' = [escalations EXCEPT ![i] = e]
  BY <1>1, <1>3, <1>4, <1>5, <1>7, RowReplaced
<1> QED BY <1>5, <1>6, <1>7

\* A step of one pass, other than loading, moves the accounts by what it sends,
\* records, gives up or fails.
LEMMA PassAccounted ==
  ASSUME EscalationInv, TableOK', CountersOK', NEW p \in DispatchPasses,
         \A q \in DispatchPasses : q # p => dispatcher'[q] = dispatcher[q],
         DOMAIN escalations' = DOMAIN escalations, dispatchFaults' >= dispatchFaults,
         \A i : p \in StillToSend(i)' => p \in StillToSend(i),
         \A i \in EscalationIds :
           \/ sends'[i] = sends[i]
           \/ sends'[i] = sends[i] + 1 /\ p \in StillToSend(i) /\ p \notin StillToSend(i)'
                                       /\ p \notin Recording(i) /\ p \in Recording(i)',
         \A i \in DOMAIN escalations :
           /\ escalations'[i].attempts >= escalations[i].attempts
           /\ p \in Recording(i) /\ p \notin Recording(i)' =>
                \/ escalations'[i].attempts = escalations[i].attempts + 1
                \/ dispatchFaults' = dispatchFaults + 1
  PROVE  Accounted'
<1>0. /\ TableOK /\ CountersOK /\ Accounted
      /\ \A i \in DOMAIN escalations : i \in EscalationIds
  BY EscalationIdsOK DEF EscalationInv
<1>1. /\ MAX_DELIVERY_ATTEMPTS \in Nat /\ OtherPasses \in Nat /\ dispatchFaults \in Nat
  BY <1>0, AccountsAreNat
<1>2. dispatchFaults' \in Nat BY EscalationConstants DEF CountersOK
<1>3. ASSUME NEW i \in DOMAIN escalations
      PROVE  sends'[i] <= escalations'[i].attempts + dispatchFaults' + RecordingNow(i)'
  <2>1. /\ sends[i] \in Nat /\ escalations[i].attempts \in Nat
        /\ sends[i] <= escalations[i].attempts + dispatchFaults + RecordingNow(i)
    BY <1>0, AccountsAreNat DEF Accounted
  <2>2. sends'[i] \in Nat /\ escalations'[i].attempts \in Nat
    BY <1>0 DEF TableOK, EscalationRow
  <2>3. /\ RecordingNow(i) \in Nat /\ RecordingNow(i)' \in Nat
        /\ p \in Recording(i) /\ p \notin Recording(i)'
             => RecordingNow(i)' = RecordingNow(i) - 1
        /\ p \notin Recording(i) /\ p \in Recording(i)'
             => RecordingNow(i)' = RecordingNow(i) + 1
        /\ (p \in Recording(i) <=> p \in Recording(i)') => RecordingNow(i)' = RecordingNow(i)
    BY CountsMove
  <2>4. CASE sends'[i] = sends[i]
    <3>1. CASE p \in Recording(i) /\ p \notin Recording(i)'
      BY <1>1, <1>2, <2>1, <2>2, <2>3, <2>4, <3>1
    <3>2. CASE ~(p \in Recording(i) /\ p \notin Recording(i)')
      <4>1. RecordingNow(i)' >= RecordingNow(i) BY <2>3, <3>2
      <4> QED BY <1>1, <1>2, <2>1, <2>2, <2>3, <2>4, <4>1
    <3> QED BY <3>1, <3>2
  <2>5. CASE sends'[i] = sends[i] + 1 /\ p \notin Recording(i) /\ p \in Recording(i)'
    BY <1>1, <1>2, <2>1, <2>2, <2>3, <2>5
  <2> QED BY <1>0, <2>4, <2>5
<1>4. ASSUME NEW i \in EscalationIds
      PROVE  sends'[i] + ToSendNow(i)' <= MAX_DELIVERY_ATTEMPTS + OtherPasses + dispatchFaults'
  <2>1. /\ sends[i] \in Nat
        /\ sends[i] + ToSendNow(i) <= MAX_DELIVERY_ATTEMPTS + OtherPasses + dispatchFaults
    BY <1>0, AccountsAreNat DEF Accounted
  <2>2. /\ ToSendNow(i) \in Nat /\ ToSendNow(i)' \in Nat
        /\ p \in StillToSend(i) /\ p \notin StillToSend(i)'
             => ToSendNow(i)' = ToSendNow(i) - 1
        /\ (p \in StillToSend(i) <=> p \in StillToSend(i)') => ToSendNow(i)' = ToSendNow(i)
    BY CountsMove
  <2>3. CASE sends'[i] = sends[i]
    <3>1. ToSendNow(i)' <= ToSendNow(i) BY <2>2
    <3> QED BY <1>1, <1>2, <2>1, <2>2, <2>3, <3>1
  <2>4. CASE sends'[i] = sends[i] + 1 /\ p \in StillToSend(i) /\ p \notin StillToSend(i)'
    BY <1>1, <1>2, <2>1, <2>2, <2>4
  <2> QED BY <2>3, <2>4
<1>5. OtherPasses' = OtherPasses BY DEF OtherPasses
<1> QED BY <1>3, <1>4, <1>5 DEF Accounted

\* loadPending: what is to be sent has attempts left, its sends are covered by
\* those and by passes that are recording, and the pass that loads was idle.
LEMMA LoadPendingInv ==
  ASSUME EscalationInv, NEW p \in DispatchPasses, LoadPending(p) PROVE EscalationInv'
<1> DEFINE todo == {i \in Pending : Cardinality({j \in Pending : j < i}) < DispatchTake}
           d == [NotDispatching EXCEPT !.step = "deliver", !.todo = todo]
<1>0. TableOK /\ ReceiptsOK /\ DispatcherOK /\ Accounted /\ CountersOK BY DEF EscalationInv
<1>1. /\ dispatcher[p].step = "idle" /\ dispatcher' = [dispatcher EXCEPT ![p] = d]
      /\ UNCHANGED <<escalations, sends, shown, receipts, subscriptions, dispatchFaults>>
  BY DEF LoadPending
<1>2. PassOK(d) /\ d.step = "deliver" /\ d.todo \subseteq Pending
  BY DEF PassOK, NotDispatching, Transports, Pending
<1> HIDE DEF d, todo
<1>3. /\ dispatcher'[p] = d /\ DOMAIN dispatcher' = DispatchPasses
      /\ \A q \in DispatchPasses : q # p => dispatcher'[q] = dispatcher[q]
  BY <1>0, <1>1 DEF DispatcherOK
<1>4. DispatcherOK' BY <1>0, <1>1, <1>2, <1>3 DEF DispatcherOK, PassOK
<1>5. TableOK' /\ ReceiptsOK' /\ CountersOK' BY <1>0, <1>1 DEF TableOK, ReceiptsOK, CountersOK
<1>6. \A i : /\ p \notin Recording(i) /\ p \notin StillToSend(i) /\ p \notin Recording(i)'
             /\ p \in StillToSend(i)' => i \in Pending
  BY <1>1, <1>2, <1>3 DEF Recording, StillToSend
<1>7. /\ MAX_DELIVERY_ATTEMPTS \in Nat /\ OtherPasses \in Nat /\ dispatchFaults \in Nat
      /\ OtherPasses' = OtherPasses
  BY <1>0, AccountsAreNat DEF OtherPasses
<1>8. ASSUME NEW i \in DOMAIN escalations
      PROVE  sends[i] <= escalations[i].attempts + dispatchFaults + RecordingNow(i)'
  <2>1. RecordingNow(i)' = RecordingNow(i) BY <1>3, <1>6, CountsMove
  <2> QED BY <1>0, <2>1 DEF Accounted
<1>9. ASSUME NEW i \in EscalationIds
      PROVE  sends[i] + ToSendNow(i)' <= MAX_DELIVERY_ATTEMPTS + OtherPasses + dispatchFaults
  <2>1. /\ sends[i] \in Nat
        /\ sends[i] + ToSendNow(i) <= MAX_DELIVERY_ATTEMPTS + OtherPasses + dispatchFaults
    BY <1>0, AccountsAreNat DEF Accounted
  <2>2. /\ RecordingNow(i) \in Nat /\ ToSendNow(i) \in Nat /\ ToSendNow(i)' \in Nat
        /\ (p \in StillToSend(i)' => ToSendNow(i)' = ToSendNow(i) + 1)
        /\ (p \notin StillToSend(i)' => ToSendNow(i)' = ToSendNow(i))
    BY <1>3, <1>6, CountsMove
  <2>3. CASE p \in StillToSend(i)'
    <3>1. i \in DOMAIN escalations /\ escalations[i].attempts < MAX_DELIVERY_ATTEMPTS
      BY <1>6, <2>3 DEF Pending
    <3>2. /\ escalations[i].attempts \in Nat
          /\ sends[i] <= escalations[i].attempts + dispatchFaults + RecordingNow(i)
      BY <1>0, <3>1, AccountsAreNat DEF Accounted
    <3>3. RecordingNow(i) + ToSendNow(i) <= OtherPasses BY <1>0, <1>6, CountsFit
    <3> QED BY <1>7, <2>1, <2>2, <2>3, <3>1, <3>2, <3>3
  <2>4. CASE p \notin StillToSend(i)' BY <2>1, <2>2, <2>4
  <2> QED BY <2>3, <2>4
<1>10. Accounted' BY <1>1, <1>7, <1>8, <1>9 DEF Accounted
<1> QED BY <1>4, <1>5, <1>10 DEF EscalationInv

\* deliver, up to its update: one more send, of a row that the pass still had to
\* send, and from here on a send that it is recording.
LEMMA SendInv ==
  ASSUME EscalationInv, NEW p \in DispatchPasses, NEW ok \in SUBSET Devices,
         NEW gone \in SUBSET Devices, NEW webhook \in BOOLEAN, Send(p, ok, gone, webhook)
  PROVE  EscalationInv'
<1>p. PICK i : i = Oldest(dispatcher[p].todo) OBVIOUS
<1>0. /\ TableOK /\ ReceiptsOK /\ DispatcherOK /\ Accounted /\ CountersOK
      /\ DOMAIN escalations \subseteq EscalationIds
      /\ \A j \in DOMAIN escalations : j \in Nat
      /\ PassOK(dispatcher[p])
  BY EscalationIdsOK DEF EscalationInv, DispatcherOK
<1>1. i \in dispatcher[p].todo /\ i \in DOMAIN escalations
  <2>1. dispatcher[p].todo \subseteq Nat BY <1>0 DEF PassOK
  <2> QED BY <1>0, <1>p, <2>1, OldestIsOne DEF Send, PassOK
<1>2. /\ dispatcher[p].step = "deliver"
      /\ sends' = [sends EXCEPT ![i] = sends[i] + 1]
      /\ shown' \subseteq shown \cup {<<i, sends[i] + 1>>}
      /\ UNCHANGED <<escalations, receipts, dispatchFaults>>
  BY <1>p DEF Send
<1>3. /\ dispatcher'[p].step = "write" /\ dispatcher'[p].id = i
      /\ dispatcher'[p].number = sends[i] + 1
      /\ dispatcher'[p].todo = dispatcher[p].todo \ {i}
      /\ dispatcher'[p].accepted \in Transports
      /\ DOMAIN dispatcher'[p] = {"step", "todo", "id", "number", "accepted"}
      /\ DOMAIN dispatcher' = DispatchPasses
      /\ \A q \in DispatchPasses : q # p => dispatcher'[q] = dispatcher[q]
  BY <1>0, <1>p DEF Send, DispatcherOK, PassOK, Transports
<1>4. subscriptions' \in [Devices -> 0..NotSubscribed]
  <2>1. subscriptions' = [d \in Devices |->
          CASE d \in ok -> 0
            [] d \in gone -> NotSubscribed
            [] d \in targets \ (ok \cup gone) -> subscriptions[d] + 1
            [] OTHER -> subscriptions[d]]
    BY DEF Send, RecordOutcomes
  <2>2. ASSUME NEW d \in Devices PROVE subscriptions'[d] \in 0..NotSubscribed
    <3>1. subscriptions[d] \in 0..NotSubscribed BY <1>0 DEF CountersOK
    <3>2. d \in targets => subscriptions[d] + 1 \in 0..NotSubscribed
      BY <3>1, EscalationConstants DEF targets, NotSubscribed
    <3>3. subscriptions'[d] \in {0, NotSubscribed, subscriptions[d]}
          \/ (d \in targets /\ subscriptions'[d] = subscriptions[d] + 1)
      BY <2>1
    <3> QED BY <3>1, <3>2, <3>3, EscalationConstants DEF NotSubscribed
  <2> QED BY <2>1, <2>2
<1>5. sends[i] \in Nat BY <1>0, <1>1 DEF TableOK
<1>6. sends \in [EscalationIds -> Nat] /\ i \in EscalationIds BY <1>0, <1>1 DEF TableOK
<1>7. /\ sends' \in [EscalationIds -> Nat] /\ sends'[i] = sends[i] + 1
      /\ \A j \in EscalationIds : j # i => sends'[j] = sends[j]
      /\ \A j \in EscalationIds : sends[j] <= sends'[j]
  BY <1>2, <1>5, <1>6
<1>8. TableOK'
  <2>1. ASSUME NEW j \in DOMAIN escalations PROVE escalations[j].receipt <= sends'[j]
    <3>1. escalations[j].receipt \in Nat /\ escalations[j].receipt <= sends[j]
      BY <1>0 DEF TableOK, EscalationRow
    <3>2. sends[j] \in Nat /\ sends'[j] \in Nat /\ sends[j] <= sends'[j]
      BY <1>0, <1>6, <1>7
    <3> QED BY <3>1, <3>2
  <2> QED BY <1>0, <1>1, <1>2, <1>7, <2>1 DEF TableOK
<1>9. ReceiptsOK'
  <2>1. ASSUME NEW r \in shown' \cup receipts'
        PROVE  r \in EscalationIds \X Nat /\ r[1] \in DOMAIN escalations /\ r[2] <= sends'[r[1]]
    <3>1. CASE r \in shown \cup receipts
      <4>1. /\ r \in EscalationIds \X Nat /\ r[1] \in DOMAIN escalations /\ r[2] <= sends[r[1]]
        BY <1>0, <3>1 DEF ReceiptsOK
      <4>2. /\ r[2] \in Nat /\ r[1] \in EscalationIds BY <4>1
      <4>3. sends[r[1]] \in Nat /\ sends'[r[1]] \in Nat /\ sends[r[1]] <= sends'[r[1]]
        BY <1>6, <1>7, <4>2
      <4> QED BY <4>1, <4>2, <4>3
    <3>2. CASE r = <<i, sends[i] + 1>>
      BY <1>1, <1>5, <1>6, <1>7, <3>2
    <3> QED BY <1>2, <2>1, <3>1, <3>2
  <2> QED BY <1>2, <2>1 DEF ReceiptsOK
<1>10. DispatcherOK'
  <2>1. ASSUME NEW q \in DispatchPasses, q # p PROVE PassOK(dispatcher[q])'
    <3>1. PassOK(dispatcher[q]) /\ dispatcher'[q] = dispatcher[q]
      BY <1>0, <1>3, <2>1 DEF DispatcherOK
    <3>2. dispatcher[q].step = "write" => dispatcher[q].number <= sends'[dispatcher[q].id]
      <4>1. ASSUME dispatcher[q].step = "write"
            PROVE  dispatcher[q].number <= sends'[dispatcher[q].id]
        <5>1. /\ dispatcher[q].id \in EscalationIds /\ dispatcher[q].number \in Nat
              /\ dispatcher[q].number <= sends[dispatcher[q].id]
          BY <1>0, <3>1, <4>1 DEF PassOK
        <5>2. /\ sends[dispatcher[q].id] \in Nat /\ sends'[dispatcher[q].id] \in Nat
              /\ sends[dispatcher[q].id] <= sends'[dispatcher[q].id]
          BY <1>6, <1>7, <5>1
        <5> QED BY <5>1, <5>2
      <4> QED BY <4>1
    <3> QED BY <1>2, <3>1, <3>2 DEF PassOK
  <2>2. PassOK(dispatcher[p])'
    BY <1>0, <1>1, <1>2, <1>3, <1>5, <1>7 DEF PassOK
  <2> QED BY <1>3, <2>1, <2>2 DEF DispatcherOK
<1>11. CountersOK' BY <1>0, <1>2, <1>4 DEF CountersOK
<1>12. Accounted'
  <2>1. \A j : p \in StillToSend(j)' => p \in StillToSend(j)
    BY <1>2, <1>3 DEF StillToSend
  <2>2. /\ p \in StillToSend(i) /\ p \notin StillToSend(i)'
        /\ p \in Recording(i)' /\ \A j : p \notin Recording(j)
    <3>1. p \in StillToSend(i) BY <1>1, <1>2 DEF StillToSend
    <3>2. p \notin StillToSend(i)' BY <1>3 DEF StillToSend
    <3>3. p \in Recording(i)' BY <1>3 DEF Recording
    <3>4. \A j : p \notin Recording(j) BY <1>2 DEF Recording
    <3> QED BY <3>1, <3>2, <3>3, <3>4
  <2>3. ASSUME NEW j \in EscalationIds
        PROVE  \/ sends'[j] = sends[j]
               \/ sends'[j] = sends[j] + 1 /\ p \in StillToSend(j) /\ p \notin StillToSend(j)'
                                           /\ p \notin Recording(j) /\ p \in Recording(j)'
    <3>1. CASE j = i BY <1>7, <2>2, <3>1
    <3>2. CASE j # i BY <1>7, <3>2
    <3> QED BY <3>1, <3>2
  <2>4. \A j \in DOMAIN escalations : escalations'[j].attempts >= escalations[j].attempts
    <3>1. \A j \in DOMAIN escalations : escalations[j].attempts \in Nat
      BY <1>0, AccountsAreNat
    <3> QED BY <1>2, <3>1
  <2>5. dispatchFaults' >= dispatchFaults BY <1>0, <1>2, AccountsAreNat
  <2> QED BY <1>2, <1>3, <1>8, <1>11, <2>1, <2>2, <2>3, <2>4, <2>5, PassAccounted
<1> QED BY <1>8, <1>9, <1>10, <1>11, <1>12 DEF EscalationInv

\* deliver's update: the attempt that covers the send, and the next one is due.
LEMMA RecordSendInv ==
  ASSUME EscalationInv, NEW p \in DispatchPasses, RecordSend(p) PROVE EscalationInv'
<1> DEFINE i == dispatcher[p].id
           n == dispatcher[p].number
           e == escalations[i]
           f == [e EXCEPT !.status = "failed", !.attempts = e.attempts + 1]
           d == [e EXCEPT !.status = "dispatched", !.attempts = e.attempts + 1,
                          !.receipt = n, !.overdue = FALSE]
           row == IF dispatcher[p].accepted = "none" THEN f ELSE d
<1>0. /\ TableOK /\ ReceiptsOK /\ DispatcherOK /\ Accounted /\ CountersOK
      /\ PassOK(dispatcher[p])
  BY DEF EscalationInv, DispatcherOK
<1>1. /\ dispatcher[p].step = "write" /\ i \in DOMAIN escalations
      /\ n \in Nat /\ n <= sends[i]
  BY <1>0 DEF RecordSend, PassOK
<1>2. /\ EscalationRow(e) /\ e.receipt <= sends[i] /\ e.attempts \in Nat
  BY <1>0, <1>1 DEF TableOK, EscalationRow
<1>3. /\ escalations' = [escalations EXCEPT ![i] = row]
      /\ shown' \subseteq shown
      /\ UNCHANGED <<sends, receipts, subscriptions, dispatchFaults>>
  BY DEF RecordSend
<1>4. /\ dispatcher'[p].step = "deliver" /\ dispatcher'[p].todo = dispatcher[p].todo
      /\ dispatcher'[p].accepted = "none"
      /\ DOMAIN dispatcher'[p] = {"step", "todo", "id", "number", "accepted"}
      /\ DOMAIN dispatcher' = DispatchPasses
      /\ \A q \in DispatchPasses : q # p => dispatcher'[q] = dispatcher[q]
  BY <1>0 DEF RecordSend, DispatcherOK, PassOK
<1>5. EscalationRow(row) /\ row.receipt <= sends[i] /\ row.attempts = e.attempts + 1
  <2>1. EscalationRow(f) /\ f.receipt <= sends[i] /\ f.attempts = e.attempts + 1
    BY <1>2 DEF EscalationRow, EscalationStatuses, UNRESOLVED
  <2>2. EscalationRow(d) /\ d.receipt <= sends[i] /\ d.attempts = e.attempts + 1
    BY <1>1, <1>2 DEF EscalationRow, EscalationStatuses, UNRESOLVED
  <2> QED BY <2>1, <2>2
<1> HIDE DEF row, f, d
<1>6. /\ IsSeq(escalations') /\ Len(escalations') = Len(escalations)
      /\ DOMAIN escalations' = DOMAIN escalations
      /\ \A j \in DOMAIN escalations : escalations'[j] = IF j = i THEN row ELSE escalations[j]
  BY <1>0, <1>3, SeqReplace DEF TableOK
<1>7. TableOK' BY <1>0, <1>3, <1>5, <1>6 DEF TableOK
<1>8. ReceiptsOK' BY <1>0, <1>3, <1>6 DEF ReceiptsOK
<1>9. DispatcherOK'
  <2>1. PassOK(dispatcher[p])' BY <1>0, <1>4, <1>6 DEF PassOK, Transports
  <2>2. ASSUME NEW q \in DispatchPasses, q # p PROVE PassOK(dispatcher[q])'
    <3>1. PassOK(dispatcher[q]) /\ dispatcher'[q] = dispatcher[q]
      BY <1>0, <1>4, <2>2 DEF DispatcherOK
    <3> QED BY <1>3, <1>6, <3>1 DEF PassOK
  <2> QED BY <1>4, <2>1, <2>2 DEF DispatcherOK
<1>10. CountersOK' BY <1>0, <1>3 DEF CountersOK
<1>11. Accounted'
  <2>1. \A j : p \in StillToSend(j)' => p \in StillToSend(j)
    BY <1>1, <1>4 DEF StillToSend
  <2>2. \A j \in DOMAIN escalations :
          /\ escalations'[j].attempts >= escalations[j].attempts
          /\ p \in Recording(j) => escalations'[j].attempts = escalations[j].attempts + 1
    <3>1. \A j \in DOMAIN escalations : escalations[j].attempts \in Nat
      BY <1>0, AccountsAreNat
    <3>2. \A j : p \in Recording(j) => j = i BY DEF Recording
    <3> QED BY <1>5, <1>6, <3>1, <3>2
  <2>3. dispatchFaults' >= dispatchFaults BY <1>0, <1>3, AccountsAreNat
  <2> QED BY <1>3, <1>4, <1>6, <1>7, <1>10, <2>1, <2>2, <2>3, PassAccounted
<1> QED BY <1>7, <1>8, <1>9, <1>10, <1>11 DEF EscalationInv

\* A pass that is not recording a send moves on, or any pass dies, with its
\* unrecorded send: the fault covers it.
LEMMA PassMoves ==
  ASSUME EscalationInv, NEW p \in DispatchPasses, DispatcherOK',
         \A q \in DispatchPasses : q # p => dispatcher'[q] = dispatcher[q],
         dispatcher'[p].step \in {"idle", "fail"}, CountersOK',
         \/ dispatcher[p].step # "write" /\ UNCHANGED dispatchFaults
         \/ dispatchFaults' = dispatchFaults + 1,
         IsSeq(escalations'), DOMAIN escalations' = DOMAIN escalations,
         Len(escalations') = Len(escalations),
         \A i \in DOMAIN escalations : /\ EscalationRow(escalations'[i])
                                       /\ escalations'[i].receipt = escalations[i].receipt
                                       /\ escalations'[i].attempts = escalations[i].attempts,
         UNCHANGED <<sends, shown, receipts>>
  PROVE  EscalationInv'
<1>0. TableOK /\ ReceiptsOK /\ DispatcherOK /\ Accounted /\ CountersOK BY DEF EscalationInv
<1>1. TableOK' /\ ReceiptsOK' BY <1>0 DEF TableOK, ReceiptsOK
<1>2. \A i : /\ p \notin StillToSend(i)'
             /\ p \in Recording(i) => dispatchFaults' = dispatchFaults + 1
  BY DEF StillToSend, Recording
<1>3. dispatchFaults' >= dispatchFaults BY <1>0, AccountsAreNat
<1>4. \A i \in DOMAIN escalations : escalations'[i].attempts >= escalations[i].attempts
  <2>1. \A i \in DOMAIN escalations : escalations[i].attempts \in Nat BY <1>0, AccountsAreNat
  <2> QED BY <2>1
<1>5. Accounted' BY <1>1, <1>2, <1>3, <1>4, PassAccounted
<1> QED BY <1>1, <1>5 DEF EscalationInv

\* The rows stay as they are.
LEMMA RowsStay ==
  ASSUME TableOK, UNCHANGED escalations
  PROVE  /\ IsSeq(escalations') /\ DOMAIN escalations' = DOMAIN escalations
         /\ Len(escalations') = Len(escalations)
         /\ \A i \in DOMAIN escalations : /\ EscalationRow(escalations'[i])
                                          /\ escalations'[i].receipt = escalations[i].receipt
                                          /\ escalations'[i].attempts = escalations[i].attempts
BY DEF TableOK

\* One pass changes to another state of its own (the others keep theirs).
LEMMA PassReplaced ==
  ASSUME DispatcherOK, NEW p \in DispatchPasses, NEW d,
         dispatcher' = [dispatcher EXCEPT ![p] = d], PassOK(d)',
         DOMAIN escalations' = DOMAIN escalations, UNCHANGED sends
  PROVE  /\ DispatcherOK' /\ dispatcher'[p] = d
         /\ \A q \in DispatchPasses : q # p => dispatcher'[q] = dispatcher[q]
BY DEF DispatcherOK, PassOK

\* sweepOverdue: the rows no device confirmed in time are failed by id.
LEMMA SweepOverdueInv ==
  ASSUME EscalationInv, NEW p \in DispatchPasses, OverdueRead(p) \/ SweepOverdue(p)
  PROVE  EscalationInv'
<1>0. /\ TableOK /\ DispatcherOK /\ CountersOK /\ \A j \in DOMAIN escalations : j \in Nat
      /\ PassOK(dispatcher[p])
  BY EscalationIdsOK DEF EscalationInv, DispatcherOK
<1>1. CASE OverdueRead(p)
  <2>1. PICK d : d = IF Overdue = {} THEN NotDispatching
                     ELSE [NotDispatching EXCEPT !.step = "fail", !.todo = Overdue]
    OBVIOUS
  <2>2. /\ dispatcher[p].step # "write" /\ dispatcher' = [dispatcher EXCEPT ![p] = d]
        /\ UNCHANGED <<escalations, sends, shown, receipts, subscriptions, dispatchFaults>>
    BY <1>1, <2>1 DEF OverdueRead
  <2>3. d.step \in {"idle", "fail"} /\ PassOK(d)
    BY <2>1 DEF PassOK, NotDispatching, Transports, Overdue
  <2>4. PassOK(d)' BY <2>2, <2>3 DEF PassOK
  <2>5. CountersOK' BY <1>0, <2>2 DEF CountersOK
  <2> QED BY <1>0, <2>2, <2>3, <2>4, <2>5, RowsStay, PassReplaced, PassMoves
<1>2. CASE SweepOverdue(p)
  <2> DEFINE i == Oldest(dispatcher[p].todo)
             e == [escalations[i] EXCEPT !.status = "failed", !.overdue = FALSE]
  <2>1. PICK d : d = IF dispatcher[p].todo = {i} THEN NotDispatching
                     ELSE [dispatcher[p] EXCEPT !.todo = dispatcher[p].todo \ {i}]
    OBVIOUS
  <2>2. /\ dispatcher[p].step = "fail" /\ dispatcher' = [dispatcher EXCEPT ![p] = d]
        /\ escalations' = [escalations EXCEPT ![i] = e]
        /\ UNCHANGED <<sends, shown, receipts, subscriptions, dispatchFaults>>
    BY <1>2, <2>1 DEF SweepOverdue
  <2>3. d.step \in {"idle", "fail"} /\ PassOK(d)
    <3>1. CASE d = NotDispatching BY <3>1 DEF PassOK, NotDispatching, Transports
    <3>2. CASE d = [dispatcher[p] EXCEPT !.todo = dispatcher[p].todo \ {i}]
      <4>1. /\ d.step = "fail" /\ d.todo \subseteq dispatcher[p].todo
            /\ d.accepted = dispatcher[p].accepted /\ DOMAIN d = DOMAIN dispatcher[p]
        BY <1>0, <2>2, <3>2 DEF PassOK
      <4> QED BY <1>0, <2>2, <4>1 DEF PassOK
    <3> QED BY <2>1, <3>1, <3>2
  <2>4. \A j \in DOMAIN escalations : EscalationRow(escalations[j]) BY <1>0 DEF TableOK
  <2>5. i \in DOMAIN escalations =>
          /\ EscalationRow(e) /\ e.receipt = escalations[i].receipt
          /\ e.attempts = escalations[i].attempts
    BY <2>4 DEF EscalationRow, EscalationStatuses, UNRESOLVED
  <2> HIDE DEF e, i
  <2>6. /\ IsSeq(escalations') /\ Len(escalations') = Len(escalations)
        /\ DOMAIN escalations' = DOMAIN escalations
        /\ \A j \in DOMAIN escalations : escalations'[j] = IF j = i THEN e ELSE escalations[j]
    BY <1>0, <2>2, SeqReplace DEF TableOK
  <2>7. \A j \in DOMAIN escalations : /\ EscalationRow(escalations'[j])
                                      /\ escalations'[j].receipt = escalations[j].receipt
                                      /\ escalations'[j].attempts = escalations[j].attempts
    BY <2>4, <2>5, <2>6
  <2>8. PassOK(d)' BY <2>2, <2>3, <2>6 DEF PassOK
  <2>9. CountersOK' BY <1>0, <2>2 DEF CountersOK
  <2> QED BY <1>0, <2>2, <2>3, <2>6, <2>7, <2>8, <2>9, PassReplaced, PassMoves
<1> QED BY <1>1, <1>2

\* A pass that dies takes its unrecorded send with it.
LEMMA DispatchFailsInv ==
  ASSUME EscalationInv, NEW p \in DispatchPasses, DispatchFails(p) PROVE EscalationInv'
<1>0. TableOK /\ DispatcherOK /\ CountersOK BY DEF EscalationInv
<1>1. /\ dispatcher' = [dispatcher EXCEPT ![p] = NotDispatching]
      /\ dispatchFaults' = dispatchFaults + 1 /\ dispatchFaults < MaxDispatchFaults
      /\ UNCHANGED <<escalations, sends, shown, receipts, subscriptions>>
  BY DEF DispatchFails
<1>2. CountersOK' BY <1>0, <1>1, EscalationConstants DEF CountersOK
<1>3. PassOK(NotDispatching)' BY DEF PassOK, NotDispatching, Transports
<1>4. NotDispatching.step = "idle" BY DEF NotDispatching
<1> QED BY <1>0, <1>1, <1>2, <1>3, <1>4, RowsStay, PassReplaced, PassMoves

\* recordReceipt only looks the receipt up; a subscription is no part of the
\* accounts.
LEMMA DevicesInv ==
  ASSUME EscalationInv, \/ \E r \in shown \cup receipts : RecordReceipt(r)
                        \/ \E d \in Devices : Subscribe(d) \/ Unsubscribe(d)
  PROVE  EscalationInv'
<1>0. TableOK /\ ReceiptsOK /\ DispatcherOK /\ Accounted /\ CountersOK BY DEF EscalationInv
<1>1. /\ UNCHANGED <<escalations, sends, shown, dispatcher, dispatchFaults>>
      /\ receipts' \subseteq shown \cup receipts
      /\ subscriptions' \in [Devices -> 0..NotSubscribed]
  BY <1>0, EscalationConstants DEF RecordReceipt, Subscribe, Unsubscribe, CountersOK, NotSubscribed
<1>2. \A i : RecordingNow(i)' = RecordingNow(i) /\ ToSendNow(i)' = ToSendNow(i)
  BY <1>1 DEF RecordingNow, ToSendNow, Recording, StillToSend
<1>3. TableOK' /\ ReceiptsOK' /\ DispatcherOK'
  BY <1>0, <1>1 DEF TableOK, ReceiptsOK, DispatcherOK, PassOK
<1>4. Accounted' /\ CountersOK' BY <1>0, <1>1, <1>2 DEF Accounted, CountersOK, OtherPasses
<1> QED BY <1>3, <1>4 DEF EscalationInv

\* The accounts are kept by every step of the passes, of the devices and of those
\* who raise, acknowledge and resolve.
LEMMA EscalationStep == EscalationInv /\ [EscalationNext]_escalationVars => EscalationInv'
<1>1. ASSUME EscalationInv, EscalationNext PROVE EscalationInv'
  BY <1>1, RaiseFromInv, ResolveStaleInv, AcknowledgeInv, MarkDeliveredInv, LoadPendingInv,
     SendInv, RecordSendInv, SweepOverdueInv, DispatchFailsInv, DevicesInv
     DEF EscalationNext, Dispatch
<1>2. ASSUME EscalationInv, UNCHANGED escalationVars PROVE EscalationInv'
  <2>1. \A i : RecordingNow(i)' = RecordingNow(i) /\ ToSendNow(i)' = ToSendNow(i)
    BY <1>2 DEF RecordingNow, ToSendNow, Recording, StillToSend, escalationVars
  <2> QED BY <1>2, <2>1 DEF EscalationInv, TableOK, ReceiptsOK, DispatcherOK, PassOK, Accounted,
     CountersOK, OtherPasses, escalationVars
<1> QED BY <1>1, <1>2

\* Nobody is paged for ever: MAX_DELIVERY_ATTEMPTS sends, one for each other pass
\* and one for each pass that died, for any number of overlapping passes,
\* escalations, devices and faults (deliver, loadPending, markDelivered,
\* sweepOverdue).
THEOREM SendsBounded == EscalationSpec => []SendsAreBounded
<1>1. EscalationInv => SendsAreBounded
  <2> SUFFICES ASSUME EscalationInv, NEW i \in EscalationIds
               PROVE  sends[i] <= MAX_DELIVERY_ATTEMPTS + (Cardinality(DispatchPasses) - 1)
                                  + dispatchFaults
    BY DEF SendsAreBounded
  <2>1. /\ MAX_DELIVERY_ATTEMPTS \in Nat /\ OtherPasses \in Nat /\ dispatchFaults \in Nat
        /\ sends[i] \in Nat /\ ToSendNow(i) \in Nat
    BY AccountsAreNat DEF EscalationInv
  <2>2. sends[i] + ToSendNow(i) <= MAX_DELIVERY_ATTEMPTS + OtherPasses + dispatchFaults
    BY DEF EscalationInv, Accounted
  <2>3. sends[i] <= MAX_DELIVERY_ATTEMPTS + OtherPasses + dispatchFaults BY <2>1, <2>2
  <2> QED BY <2>3 DEF OtherPasses
<1> QED BY <1>1, EscalationStart, EscalationStep, PTL DEF EscalationSpec

\* Escalations keep their types; in particular a stored receipt is that of a
\* send that was made.
THEOREM EscalationsAreTyped == EscalationSpec => []EscalationsOK
<1>1. EscalationInv => EscalationsOK
  BY EscalationIdsOK DEF EscalationInv, TableOK, ReceiptsOK, DispatcherOK, PassOK, CountersOK,
     EscalationRow, EscalationStatuses, EscalationsOK
<1> QED BY <1>1, EscalationStart, EscalationStep, PTL DEF EscalationSpec

-----------------------------------------------------------------------------
(* The supervisor's ceiling.  The argument: what the log holds can only     *)
(* shrink while a tick is under way, so the tally the tick began with bounds *)
(* it; the gate in front of a proposer bounds that tally and the tick's own  *)
(* spend together, and a proposer adds at most MAX_PER_INVOCATION calls.     *)

SupervisorSpec == SupervisorInit /\ [][SupervisorNext]_supervisorVars

Outcomes == {"skipped_disabled", "skipped_budget", "skipped_quota", "failed", "partial", "completed"}

LogOK ==
  /\ IsSeq(decisionLog) /\ Len(decisionLog) <= MaxTicks
  /\ \A i \in DOMAIN decisionLog : decisionLog[i].outcome \in Outcomes /\ decisionLog[i].cost \in Nat

\* A tick has its row's place in the log from the start.
TickOK ==
  /\ DOMAIN tick = {"at", "limit", "tally", "ran", "calls", "cost", "unpriced", "failed", "stopped"}
  /\ tick.at \in {"idle", "tally", "snapshot", "between", "propose", "record"}
  /\ tick.limit \in SupervisorLimits \cup {NoLimit} /\ tick.tally \in Nat /\ tick.cost \in Nat
  /\ tick.ran \in 0..ProposerCount /\ tick.calls \in 0..MAX_PER_INVOCATION
  /\ tick.at # "idle" => Len(decisionLog) < MaxTicks

\* What is known of the tick's own spend, step by step (evaluateSpend, runProposers).
TickBounded ==
  /\ tick.at \in {"idle", "tally", "snapshot"} \/ tick.ran = 0 => tick.cost = 0
  /\ tick.at = "propose" => tick.ran > 0
  /\ tick.at \in {"snapshot", "between", "propose", "record"} =>
       tick.limit \in Nat /\ ledgerTally <= tick.tally /\ tick.tally < tick.limit
  /\ tick.at = "propose" => tick.tally + tick.cost < tick.limit + tick.calls * Dearest
  /\ tick.at \in {"between", "record"} =>
       tick.tally + tick.cost < tick.limit + MAX_PER_INVOCATION * Dearest

SupervisorInv ==
  /\ supervisorLimit \in SupervisorLimits \cup {NoLimit} /\ enabled \in BOOLEAN
  /\ limitChanges \in 0..MaxLimitChanges /\ LogOK /\ TickOK /\ TickBounded

\* There is a dearest call.
LEMMA DearestIs == Dearest \in Nat /\ \A q \in CallPrices : q <= Dearest
<1>1. Dearest \in CallPrices /\ \A q \in CallPrices : q <= Dearest
  <2>1. \E p \in CallPrices : \A q \in CallPrices : q <= p BY SupervisorConstants
  <2> QED BY <2>1, Zenon DEF Dearest
<1> QED BY <1>1, SupervisorConstants

\* What the calls of a proposer can cost grows with them.
LEMMA CallsCost ==
  ASSUME NEW n \in Nat, NEW m \in Nat, n <= m, NEW d \in Nat
  PROVE  n * d \in Nat /\ n * d <= m * d /\ (n + 1) * d = n * d + d /\ 0 * d = 0
<1>1. PICK k \in Nat : m = n + k
  <2>1. m - n \in Nat /\ m = n + (m - n) OBVIOUS
  <2> QED BY <2>1
<1>2. m * d = n * d + k * d /\ k * d \in Nat /\ n * d \in Nat BY <1>1
<1> QED BY <1>2

\* The costs of the decision log are a column.
LEMMA LogColumn ==
  ASSUME LogOK
  PROVE  Column([i \in DOMAIN decisionLog |-> decisionLog[i].cost]) /\ ledgerTally \in Nat
<1> DEFINE f == [i \in DOMAIN decisionLog |-> decisionLog[i].cost]
<1>1. DOMAIN decisionLog = 1..Len(decisionLog) /\ Len(decisionLog) \in Nat BY SeqIds DEF LogOK
<1>2. IsFiniteSet(DOMAIN decisionLog) BY <1>1, FS_Interval
<1>3. Column(f) BY <1>2 DEF LogOK, Column
<1> HIDE DEF f
<1>4. ledgerTally = SumOf(f) BY DEF ledgerTally, f
<1>5. SumOf(f) \in Nat BY <1>3, SumIsNat
<1> QED BY <1>3, <1>4, <1>5 DEF f

\* What was asked of the ledger is the same while the log is the same.
LEMMA TallyStays == decisionLog' = decisionLog => ledgerTally' = ledgerTally
BY DEF ledgerTally

\* A tick ends with its row in the log, or without it (recordInvocation).
LEMMA LoggedInv ==
  ASSUME SupervisorInv, tick.at # "idle" \/ Len(decisionLog) < MaxTicks,
         NEW outcome \in Outcomes, NEW cost \in Nat, NEW unpriced,
         Logged(Row(outcome, cost, unpriced)), OnlyTheTick
  PROVE  SupervisorInv'
<1> PICK w : w = Row(outcome, cost, unpriced) OBVIOUS
<1>1. w.outcome \in Outcomes /\ w.cost \in Nat BY DEF Row
<1>2. LogOK /\ Len(decisionLog) < MaxTicks BY DEF SupervisorInv, TickOK
<1>3. LogOK'
  <2>1. CASE decisionLog' = decisionLog BY <1>2, <2>1 DEF LogOK
  <2>2. CASE decisionLog' = Append(decisionLog, w)
    <3>1. IsSeq(decisionLog) /\ DOMAIN decisionLog = 1..Len(decisionLog) /\ Len(decisionLog) \in Nat
      BY <1>2, SeqIds DEF LogOK
    <3>2. /\ IsSeq(decisionLog') /\ Len(decisionLog') = Len(decisionLog) + 1
          /\ DOMAIN decisionLog' = 1..(Len(decisionLog) + 1)
          /\ \A i \in DOMAIN decisionLog : decisionLog'[i] = decisionLog[i]
          /\ decisionLog'[Len(decisionLog) + 1] = w
      BY <2>2, <3>1, SeqAppend
    <3>3. ASSUME NEW i \in DOMAIN decisionLog'
          PROVE  decisionLog'[i].outcome \in Outcomes /\ decisionLog'[i].cost \in Nat
      <4>1. i \in DOMAIN decisionLog \/ i = Len(decisionLog) + 1 BY <3>1, <3>2
      <4> QED BY <1>1, <1>2, <3>2, <4>1 DEF LogOK
    <3>4. Len(decisionLog') <= MaxTicks BY <1>2, <3>1, <3>2, SupervisorConstants
    <3> QED BY <3>2, <3>3, <3>4 DEF LogOK
  <2> QED BY <2>1, <2>2 DEF Logged
<1>4. tick' = NoInvocation BY DEF Logged
<1>5. TickOK' BY <1>4, SupervisorConstants DEF TickOK, NoInvocation
<1>6. TickBounded' BY <1>4 DEF TickBounded, NoInvocation
<1> QED BY <1>3, <1>5, <1>6 DEF SupervisorInv, OnlyTheTick

\* The oldest row leaves the window: the log holds no more than before.
LEMMA WindowRollsInv == ASSUME SupervisorInv, WindowRolls PROVE SupervisorInv'
<1> DEFINE f == [i \in DOMAIN decisionLog |-> decisionLog[i].cost]
<1> PICK u : u = Tail(decisionLog) OBVIOUS
<1>1. LogOK BY DEF SupervisorInv
<1>2. decisionLog' = u /\ decisionLog # <<>> BY DEF WindowRolls
<1>3. PICK S : decisionLog \in Seq(S) BY <1>1 DEF LogOK, IsSeq
<1>4. /\ u \in Seq(S) /\ Len(decisionLog) \in Nat /\ Len(u) = Len(decisionLog) - 1 /\ Len(u) \in Nat
      /\ DOMAIN u = 1..Len(u) /\ DOMAIN decisionLog = 1..Len(decisionLog)
      /\ \A i \in 1..Len(u) : u[i] = decisionLog[i + 1]
  BY <1>2, <1>3
<1>5. IsSeq(u) BY <1>4 DEF IsSeq
<1>6. LogOK'
  <2>1. Len(u) <= MaxTicks BY <1>1, <1>4, SupervisorConstants DEF LogOK
  <2>2. ASSUME NEW i \in DOMAIN u PROVE u[i].outcome \in Outcomes /\ u[i].cost \in Nat
    <3>1. i + 1 \in DOMAIN decisionLog /\ u[i] = decisionLog[i + 1] BY <1>4
    <3> QED BY <1>1, <3>1 DEF LogOK
  <2> QED BY <1>2, <1>5, <2>1, <2>2 DEF LogOK
<1>7. ledgerTally' <= ledgerTally /\ ledgerTally' \in Nat /\ ledgerTally \in Nat
  <2> PICK g : g = [i \in DOMAIN u |-> u[i].cost] OBVIOUS
  <2> PICK h : h = [i \in DOMAIN u |-> i + 1] OBVIOUS
  <2>1. Column(f) /\ ledgerTally \in Nat BY <1>1, LogColumn
  <2>2. Column(g) /\ SumOf(g) \in Nat
    <3>1. IsFiniteSet(DOMAIN u) BY <1>4, FS_Interval
    <3>2. \A i \in DOMAIN u : u[i].cost \in Nat BY <1>2, <1>6 DEF LogOK
    <3>3. Column(g) BY <3>1, <3>2 DEF Column
    <3> QED BY <3>3, SumIsNat
  <2>3. DOMAIN f = 1..Len(decisionLog) /\ DOMAIN g = 1..Len(u) BY <1>4
  <2>4. h \in Injection(DOMAIN g, DOMAIN f)
    <3>1. h \in [DOMAIN g -> DOMAIN f] BY <1>4, <2>3
    <3>2. \A i, j \in DOMAIN g : h[i] = h[j] => i = j BY <1>4, <2>3
    <3> QED BY <3>1, <3>2 DEF Injection, IsInjective
  <2>5. \A i \in DOMAIN g : g[i] = f[h[i]]
    <3>1. ASSUME NEW i \in DOMAIN g PROVE g[i] = f[h[i]]
      <4>1. h[i] = i + 1 /\ i + 1 \in DOMAIN decisionLog /\ u[i] = decisionLog[i + 1] BY <1>4, <2>3
      <4>2. g[i] = u[i].cost BY <2>3
      <4> QED BY <4>1, <4>2
    <3> QED BY <3>1
  <2>6. ledgerTally = SumOf(f) BY DEF ledgerTally
  <2>7. ledgerTally' = SumOf(g) BY <1>2 DEF ledgerTally
  <2> HIDE DEF f
  <2>8. SumOf(g) <= SumOf(f) BY <2>1, <2>2, <2>4, <2>5, SumMoved
  <2> QED BY <2>1, <2>2, <2>6, <2>7, <2>8
<1>8. tick' = tick BY DEF WindowRolls
<1>9. Len(decisionLog') <= Len(decisionLog) /\ Len(decisionLog') \in Nat /\ Len(decisionLog) \in Nat
  BY <1>2, <1>4
<1>10. TickOK' BY <1>8, <1>9, SupervisorConstants DEF TickOK, SupervisorInv
<1>11. TickBounded'
  <2>1. tick.tally \in Nat BY DEF SupervisorInv, TickOK
  <2> QED BY <1>7, <1>8, <2>1 DEF TickBounded, SupervisorInv
<1> QED BY <1>6, <1>10, <1>11 DEF SupervisorInv, WindowRolls

\* The task starts a tick, or logs that it is disabled (SupervisorTask).
LEMMA InvokeInv == ASSUME SupervisorInv, Invoke PROVE SupervisorInv'
<1>1. Len(decisionLog) < MaxTicks /\ OnlyTheTick BY DEF Invoke, Room
<1>2. CASE enabled
  <2>1. tick' = [NoInvocation EXCEPT !.at = "tally", !.limit = supervisorLimit] /\ decisionLog' = decisionLog
    BY <1>2 DEF Invoke
  <2>2. LogOK' BY <2>1 DEF SupervisorInv, LogOK
  <2>3. TickOK' BY <1>1, <2>1, SupervisorConstants DEF SupervisorInv, TickOK, NoInvocation
  <2>4. TickBounded' BY <2>1 DEF TickBounded, NoInvocation
  <2> QED BY <1>1, <2>2, <2>3, <2>4 DEF SupervisorInv, OnlyTheTick
<1>3. CASE ~enabled
  <2>1. Logged(Row("skipped_disabled", 0, 0)) BY <1>3 DEF Invoke, Skip
  <2> QED BY <1>1, <2>1, LoggedInv DEF Outcomes
<1> QED BY <1>2, <1>3

\* A skip of a tick under way (supervisor.service.ts, the gates).
LEMMA SkipInv ==
  ASSUME SupervisorInv, tick.at # "idle", OnlyTheTick,
         Skip("skipped_budget") \/ Skip("failed") \/ Skip("skipped_quota")
  PROVE  SupervisorInv'
<1>1. PICK outcome \in Outcomes : Logged(Row(outcome, 0, 0)) BY DEF Skip, Outcomes
<1> QED BY <1>1, LoggedInv

\* The gate in front of the tick (evaluateSpend).
LEMMA ReadTallyInv == ASSUME SupervisorInv, ReadTally PROVE SupervisorInv'
<1>1. tick.at = "tally" /\ OnlyTheTick BY DEF ReadTally
<1>2. CASE Skip("skipped_budget") \/ Skip("failed") BY <1>1, <1>2, SkipInv
<1>3. CASE /\ assessSupervisorSpend(tick.limit, ledgerTally)
           /\ tick' = [tick EXCEPT !.at = "snapshot", !.tally = ledgerTally]
           /\ UNCHANGED decisionLog
  <2>1. ledgerTally \in Nat /\ ledgerTally' = ledgerTally
    BY <1>3, LogColumn, TallyStays DEF SupervisorInv
  <2> PICK a \in Nat : a = ledgerTally BY <2>1
  <2>2. LogOK' BY <1>3 DEF SupervisorInv, LogOK
  <2>3. tick.limit # NoLimit /\ a < tick.limit BY <1>3 DEF assessSupervisorSpend
  <2>4. tick.limit \in Nat BY <2>3, SupervisorConstants DEF SupervisorInv, TickOK
  <2>5. tick' = [tick EXCEPT !.at = "snapshot", !.tally = a] BY <1>3
  <2>6. TickOK' BY <1>1, <1>3, <2>5 DEF SupervisorInv, TickOK
  <2>7. TickBounded' BY <1>1, <2>1, <2>3, <2>4, <2>5 DEF SupervisorInv, TickOK, TickBounded
  <2> QED BY <1>1, <2>2, <2>6, <2>7 DEF SupervisorInv, OnlyTheTick
<1> QED BY <1>2, <1>3 DEF ReadTally

\* The snapshot lets the tick go on, or ends it (collectSnapshot).
LEMMA CollectSnapshotInv == ASSUME SupervisorInv, CollectSnapshot PROVE SupervisorInv'
<1>1. tick.at = "snapshot" /\ OnlyTheTick BY DEF CollectSnapshot
<1>2. CASE Skip("skipped_quota") \/ Skip("failed") BY <1>1, <1>2, SkipInv
<1>3. CASE Goes("between") /\ UNCHANGED decisionLog
  <2>1. ledgerTally' = ledgerTally BY <1>3, TallyStays
  <2>2. tick' = [tick EXCEPT !.at = "between"] BY <1>3 DEF Goes
  <2>3. LogOK' /\ TickOK' BY <1>1, <1>3, <2>2 DEF SupervisorInv, LogOK, TickOK
  <2>4. PICK c \in Nat : c = MAX_PER_INVOCATION * Dearest
    BY DearestIs, CallsCost, SupervisorConstants
  <2>5. tick.cost = 0 /\ tick.tally < tick.limit /\ tick.tally \in Nat /\ tick.limit \in Nat
    BY <1>1 DEF SupervisorInv, TickBounded, TickOK
  <2>6. TickBounded' BY <1>1, <2>1, <2>2, <2>4, <2>5 DEF SupervisorInv, TickOK, TickBounded
  <2> QED BY <1>1, <2>3, <2>6 DEF SupervisorInv, OnlyTheTick
<1> QED BY <1>2, <1>3 DEF CollectSnapshot

\* The gate between proposers: a proposer starts only under the ceiling, with
\* what this tick has spent counted in (runProposers).
LEMMA NextProposerInv == ASSUME SupervisorInv, NextProposer PROVE SupervisorInv'
<1> USE DEF SupervisorInv
<1>1. tick.at = "between" /\ OnlyTheTick /\ decisionLog' = decisionLog BY DEF NextProposer
<1>2. ledgerTally' = ledgerTally /\ LogOK' BY <1>1, TallyStays DEF LogOK
<1>3. CASE tick' = [tick EXCEPT !.at = "record"] \/ tick' = [tick EXCEPT !.at = "record", !.stopped = TRUE]
  <2>1. TickOK' BY <1>1, <1>3 DEF TickOK
  <2>2. TickBounded' BY <1>1, <1>2, <1>3 DEF TickOK, TickBounded
  <2> QED BY <1>1, <1>2, <2>1, <2>2 DEF OnlyTheTick
<1>4. CASE /\ tick.ran # ProposerCount
           /\ tick.ran = 0 \/ assessSupervisorSpend(tick.limit, withTickSpend(tick.tally, tick.cost))
           /\ tick' = [tick EXCEPT !.at = "propose", !.ran = @ + 1, !.calls = 0]
  <2>1. /\ tick.ran \in 0..ProposerCount /\ tick.tally \in Nat /\ tick.cost \in Nat
        /\ tick.limit \in Nat /\ tick.tally < tick.limit /\ ledgerTally <= tick.tally
        /\ tick.ran = 0 => tick.cost = 0
    BY <1>1 DEF TickOK, TickBounded
  <2>2. TickOK' BY <1>1, <1>4, <2>1, SupervisorConstants DEF TickOK
  <2>3. tick.tally + tick.cost < tick.limit
    BY <1>4, <2>1 DEF assessSupervisorSpend, withTickSpend
  <2>4. 0 * Dearest = 0 BY DearestIs, CallsCost
  <2>5. /\ tick'.at = "propose" /\ tick'.ran = tick.ran + 1 /\ tick'.calls = 0
        /\ tick'.limit = tick.limit /\ tick'.tally = tick.tally /\ tick'.cost = tick.cost
    BY <1>4 DEF TickOK
  <2>6. tick'.calls * Dearest = 0 BY <2>4, <2>5
  <2>7. tick'.ran > 0 /\ tick'.ran # 0 BY <2>1, <2>5
  <2>8. tick'.tally + tick'.cost < tick'.limit + tick'.calls * Dearest
    BY <2>1, <2>3, <2>5, <2>6
  <2>9. TickBounded' BY <1>2, <2>1, <2>5, <2>7, <2>8 DEF TickBounded
  <2> QED BY <1>1, <1>2, <2>2, <2>9 DEF OnlyTheTick
<1> QED
  <2>1. CASE tick.ran = ProposerCount BY <1>3, <2>1 DEF NextProposer, Goes
  <2>2. CASE /\ tick.ran # ProposerCount /\ tick.ran > 0
             /\ ~assessSupervisorSpend(tick.limit, withTickSpend(tick.tally, tick.cost))
    BY <1>3, <2>2 DEF NextProposer
  <2>3. CASE /\ tick.ran # ProposerCount
             /\ ~(tick.ran > 0 /\ ~assessSupervisorSpend(tick.limit, withTickSpend(tick.tally, tick.cost)))
    <3>1. tick' = [tick EXCEPT !.at = "propose", !.ran = @ + 1, !.calls = 0]
      BY <2>3 DEF NextProposer
    <3>2. tick.ran \in Nat BY DEF TickOK
    <3>3. tick.ran = 0 \/ assessSupervisorSpend(tick.limit, withTickSpend(tick.tally, tick.cost))
      BY <2>3, <3>2
    <3> QED BY <1>4, <2>3, <3>1, <3>3
  <2> QED BY <2>1, <2>2, <2>3

\* One call costs at most the dearest (the proposers' loops).
LEMMA AskInv == ASSUME SupervisorInv, Ask PROVE SupervisorInv'
<1> USE DEF SupervisorInv
<1>1. tick.at = "propose" /\ tick.calls < MAX_PER_INVOCATION /\ OnlyTheTick /\ decisionLog' = decisionLog
  BY DEF Ask
<1>2. ledgerTally' = ledgerTally /\ LogOK' BY <1>1, TallyStays DEF LogOK
<1>3. PICK price \in Nat : /\ price <= Dearest
                           /\ \/ tick' = [tick EXCEPT !.calls = @ + 1, !.cost = @ + price]
                              \/ price = 0 /\ tick' = [tick EXCEPT !.calls = @ + 1, !.unpriced = 1]
  <2>1. CASE \E p \in CallPrices : tick' = [tick EXCEPT !.calls = @ + 1, !.cost = @ + p]
    <3>1. PICK p \in CallPrices : tick' = [tick EXCEPT !.calls = @ + 1, !.cost = @ + p] BY <2>1
    <3>2. p \in Nat /\ p <= Dearest BY DearestIs, SupervisorConstants
    <3> QED BY <3>1, <3>2
  <2>2. CASE tick' = [tick EXCEPT !.calls = @ + 1, !.unpriced = 1]
    <3>1. 0 \in Nat /\ 0 <= Dearest BY DearestIs
    <3> QED BY <2>2, <3>1
  <2> QED BY <2>1, <2>2 DEF Ask
<1>4. /\ tick'.at = "propose" /\ tick'.calls = tick.calls + 1 /\ tick'.cost = tick.cost + price
      /\ tick'.ran = tick.ran /\ tick'.limit = tick.limit /\ tick'.tally = tick.tally
  <2>1. CASE tick' = [tick EXCEPT !.calls = @ + 1, !.cost = @ + price] BY <1>1, <2>1 DEF TickOK
  <2>2. CASE price = 0 /\ tick' = [tick EXCEPT !.calls = @ + 1, !.unpriced = 1]
    <3>1. tick.cost = tick.cost + 0 BY DEF TickOK
    <3> QED BY <1>1, <2>2, <3>1 DEF TickOK
  <2> QED BY <1>3, <2>1, <2>2
<1>5. /\ tick.calls \in Nat /\ tick.cost \in Nat /\ tick.tally \in Nat /\ tick.limit \in Nat
      /\ tick.tally + tick.cost < tick.limit + tick.calls * Dearest
      /\ ledgerTally <= tick.tally /\ tick.tally < tick.limit /\ tick.ran > 0
  BY <1>1 DEF TickOK, TickBounded
<1>6. (tick.calls + 1) * Dearest = tick.calls * Dearest + Dearest /\ tick.calls * Dearest \in Nat
  BY <1>5, DearestIs, CallsCost
<1>7. tick.tally + (tick.cost + price) < tick.limit + (tick.calls + 1) * Dearest
  <2> PICK c \in Nat : c = tick.calls * Dearest BY <1>6
  <2>1. tick.tally + (tick.cost + price) < tick.limit + (c + Dearest) BY <1>3, <1>5, DearestIs
  <2> QED BY <1>6, <2>1
<1>8. TickOK'
  <2>1. DOMAIN tick' = DOMAIN tick BY <1>3
  <2>2. tick.cost + price \in Nat /\ tick.calls + 1 \in 0..MAX_PER_INVOCATION
    BY <1>1, <1>5, SupervisorConstants
  <2> QED BY <1>1, <1>4, <2>1, <2>2 DEF TickOK
<1>9. TickBounded'
  <2>1. tick.ran # 0 BY <1>5 DEF TickOK
  <2> QED BY <1>2, <1>4, <1>5, <1>7, <2>1 DEF TickBounded
<1> QED BY <1>1, <1>2, <1>8, <1>9 DEF OnlyTheTick

\* A proposer that returns or throws made at most its calls.
LEMMA ProposerEndsInv == ASSUME SupervisorInv, ProposerEnds PROVE SupervisorInv'
<1> USE DEF SupervisorInv
<1>1. tick.at = "propose" /\ OnlyTheTick /\ decisionLog' = decisionLog BY DEF ProposerEnds
<1>2. ledgerTally' = ledgerTally /\ LogOK' BY <1>1, TallyStays DEF LogOK
<1>3. PICK threw \in BOOLEAN : tick' = [tick EXCEPT !.at = "between", !.failed = @ \/ threw]
  BY DEF ProposerEnds
<1>4. /\ tick'.at = "between" /\ tick'.calls = tick.calls /\ tick'.cost = tick.cost
      /\ tick'.ran = tick.ran /\ tick'.limit = tick.limit /\ tick'.tally = tick.tally
  BY <1>3 DEF TickOK
<1>5. /\ tick.calls \in Nat /\ tick.calls <= MAX_PER_INVOCATION /\ tick.cost \in Nat
      /\ tick.tally \in Nat /\ tick.limit \in Nat
      /\ tick.tally + tick.cost < tick.limit + tick.calls * Dearest
      /\ ledgerTally <= tick.tally /\ tick.tally < tick.limit /\ tick.ran > 0
  BY <1>1, SupervisorConstants DEF TickOK, TickBounded
<1>6. PICK c \in Nat, m \in Nat :
        c = tick.calls * Dearest /\ m = MAX_PER_INVOCATION * Dearest /\ c <= m
  <2>1. tick.calls * Dearest \in Nat /\ tick.calls * Dearest <= MAX_PER_INVOCATION * Dearest
    BY <1>5, DearestIs, CallsCost, SupervisorConstants
  <2>2. MAX_PER_INVOCATION * Dearest \in Nat BY DearestIs, CallsCost, SupervisorConstants
  <2> QED BY <2>1, <2>2
<1>7. tick.tally + tick.cost < tick.limit + m BY <1>5, <1>6
<1>8. TickOK' BY <1>1, <1>3 DEF TickOK
<1>9. TickBounded'
  <2>1. tick.ran # 0 BY <1>5 DEF TickOK
  <2> QED BY <1>2, <1>4, <1>5, <1>6, <1>7, <2>1 DEF TickBounded
<1> QED BY <1>1, <1>2, <1>8, <1>9 DEF OnlyTheTick

\* The other steps leave the tick alone or end it.
LEMMA SupervisorStep == SupervisorInv /\ [SupervisorNext]_supervisorVars => SupervisorInv'
<1>1. ASSUME SupervisorInv, RecordInvocation PROVE SupervisorInv'
  <2>1. tick.at # "idle" /\ OnlyTheTick /\ tick.cost \in Nat
    BY <1>1 DEF RecordInvocation, SupervisorInv, TickOK
  <2>2. PICK outcome \in Outcomes : Logged(Row(outcome, tick.cost, tick.unpriced))
    BY <1>1 DEF RecordInvocation, Outcomes
  <2> PICK cost \in Nat : cost = tick.cost BY <2>1
  <2> PICK unpriced : unpriced = tick.unpriced OBVIOUS
  <2>3. Logged(Row(outcome, cost, unpriced)) BY <2>2
  <2> QED BY <1>1, <2>1, <2>3, LoggedInv
<1>2. ASSUME SupervisorInv, SupervisorRestarts PROVE SupervisorInv'
  <2>1. tick' = NoInvocation /\ decisionLog' = decisionLog BY <1>2 DEF SupervisorRestarts
  <2>2. LogOK' BY <1>2, <2>1 DEF SupervisorInv, LogOK
  <2>3. TickOK' BY <2>1, SupervisorConstants DEF TickOK, NoInvocation
  <2>4. TickBounded' BY <2>1 DEF TickBounded, NoInvocation
  <2> QED BY <1>2, <2>2, <2>3, <2>4 DEF SupervisorInv, SupervisorRestarts
<1>3. ASSUME SupervisorInv, ChangeLimit PROVE SupervisorInv'
  <2>1. decisionLog' = decisionLog /\ tick' = tick BY <1>3 DEF ChangeLimit
  <2>2. ledgerTally' = ledgerTally BY <2>1, TallyStays
  <2>3. LogOK' /\ TickOK' BY <1>3, <2>1 DEF SupervisorInv, LogOK, TickOK
  <2>4. TickBounded' BY <1>3, <2>1, <2>2 DEF SupervisorInv, TickBounded
  <2>5. limitChanges' \in 0..MaxLimitChanges BY <1>3, SupervisorConstants DEF SupervisorInv, ChangeLimit
  <2> QED BY <1>3, <2>3, <2>4, <2>5 DEF SupervisorInv, ChangeLimit
<1>4. ASSUME SupervisorInv, UNCHANGED supervisorVars PROVE SupervisorInv'
  <2>1. decisionLog' = decisionLog /\ tick' = tick BY <1>4 DEF supervisorVars
  <2>2. ledgerTally' = ledgerTally BY <2>1, TallyStays
  <2>3. LogOK' /\ TickOK' BY <1>4, <2>1 DEF SupervisorInv, LogOK, TickOK
  <2>4. TickBounded' BY <1>4, <2>1, <2>2 DEF SupervisorInv, TickBounded
  <2> QED BY <1>4, <2>3, <2>4 DEF SupervisorInv, supervisorVars
<1> QED BY <1>1, <1>2, <1>3, <1>4, InvokeInv, ReadTallyInv, CollectSnapshotInv, NextProposerInv,
           AskInv, ProposerEndsInv, WindowRollsInv DEF SupervisorNext

\* No tick, and an empty log (SupervisorService).
LEMMA SupervisorStart == SupervisorInit => SupervisorInv
<1> SUFFICES ASSUME SupervisorInit PROVE SupervisorInv OBVIOUS
<1>1. LogOK BY SeqEmpty, SupervisorConstants DEF SupervisorInit, LogOK
<1>2. TickOK /\ TickBounded
  BY SupervisorConstants DEF SupervisorInit, TickOK, TickBounded, NoInvocation
<1>3. enabled \in BOOLEAN BY DEF SupervisorInit
<1>4. limitChanges \in 0..MaxLimitChanges /\ supervisorLimit \in SupervisorLimits \cup {NoLimit}
  BY SupervisorConstants DEF SupervisorInit
<1> QED BY <1>1, <1>2, <1>3, <1>4 DEF SupervisorInv

\* What the log holds and what a tick has spent pass the ceiling the tick began
\* with by less than the calls of one proposer, for any prices, proposers and
\* ceilings and however often the ceiling changes under a tick
\* (supervisor-spend-gate.ts, supervisor.service.ts).
THEOREM OvershootIsBounded == SupervisorSpec => []SupervisorOvershoot
<1>1. ASSUME SupervisorInv, tick.cost > 0
      PROVE  ledgerTally + tick.cost < tick.limit + MAX_PER_INVOCATION * Dearest
  <2>1. /\ tick.at \in {"between", "propose", "record"} /\ tick.cost \in Nat /\ tick.tally \in Nat
        /\ tick.limit \in Nat /\ ledgerTally <= tick.tally /\ tick.calls \in Nat
        /\ tick.calls <= MAX_PER_INVOCATION
    BY <1>1, SupervisorConstants DEF SupervisorInv, TickOK, TickBounded
  <2>2. PICK c \in Nat, m \in Nat :
          c = tick.calls * Dearest /\ m = MAX_PER_INVOCATION * Dearest /\ c <= m
    <3>1. tick.calls * Dearest \in Nat /\ tick.calls * Dearest <= MAX_PER_INVOCATION * Dearest
      BY <2>1, DearestIs, CallsCost, SupervisorConstants
    <3>2. MAX_PER_INVOCATION * Dearest \in Nat BY DearestIs, CallsCost, SupervisorConstants
    <3> QED BY <3>1, <3>2
  <2>3. tick.tally + tick.cost < tick.limit + m
    BY <1>1, <2>1, <2>2 DEF SupervisorInv, TickBounded
  <2>4. PICK a \in Nat : a = ledgerTally BY <1>1, LogColumn DEF SupervisorInv
  <2> QED BY <2>1, <2>2, <2>3, <2>4
<1>2. SupervisorInv => SupervisorOvershoot BY <1>1 DEF SupervisorOvershoot
<1> QED BY <1>2, SupervisorStart, SupervisorStep, PTL DEF SupervisorSpec

\* The supervisor's state keeps its types; the log never passes its bound.
THEOREM SupervisorIsTyped == SupervisorSpec => []SupervisorOK
<1>1. SupervisorInv => SupervisorOK
  BY DEF SupervisorInv, LogOK, TickOK, Outcomes, SupervisorOK
<1> QED BY <1>1, SupervisorStart, SupervisorStep, PTL DEF SupervisorSpec

-----------------------------------------------------------------------------
(* The hard spend ceiling.  The argument: an order that started counts in    *)
(* the ledger at no less than it spent, at its ceiling until it reports and  *)
(* at its cost from then on; what an admission adds is added to the ledger's *)
(* answer, which nothing but the admitted pass can raise before it acts.     *)

\* One pass dispatches at a time: the interval of the reconciler's timer is longer
\* than its pass.  The drain is under no lease, so nothing else keeps them apart.
OneDispatcher == \A d1, d2 \in Dispatchers : d1 = d2

\* The row of an order and its processes.
SpendRow(o, r) ==
  /\ DOMAIN r = {"state", "cost", "live", "own", "orphan", "loose", "gone", "over", "resumed"}
  /\ r.state \in {"absent", "running", "blocked", "stalled", "ended"}
  /\ r.cost \in NoCost..MaxProcessSpend
  /\ r.own \in 0..MaxProcessSpend /\ r.loose \in 0..MaxProcessSpend /\ r.gone \in Nat
  /\ r.live \in BOOLEAN /\ r.orphan \in BOOLEAN /\ r.over \in BOOLEAN /\ r.resumed \in BOOLEAN
  /\ r.live => r.state \in {"running", "blocked"}
  /\ ~r.live => r.own = 0
  /\ ~r.orphan => r.loose = 0
  /\ r.cost # NoCost => r.state = "ended"
  /\ r.state = "absent" => ~r.orphan /\ r.gone = 0 /\ ~r.resumed

\* A run that was started once has one process, which the restart of the API or
\* its own end moves; a reported cost is what that process spent.
OneProcess(r) ==
  ~r.resumed => /\ r.live => ~r.orphan /\ r.gone = 0
                /\ r.orphan => r.gone = 0
                /\ r.cost # NoCost => ~r.orphan /\ r.gone = r.cost

\* Its agent kept to the order's ceiling.
KeptTo(o, r) ==
  (~r.resumed /\ ~r.over /\ OrderCeiling[o] # Unbounded) =>
    r.own <= OrderCeiling[o] /\ r.loose <= OrderCeiling[o] /\ r.gone <= OrderCeiling[o]

AdmissionOK(a) ==
  DOMAIN a = {"order", "resume"} /\ a.order \in Orders \cup {NoOrder} /\ a.resume \in BOOLEAN

\* What a pass has been admitted to add.
Admitted(a) ==
  IF a.order \in Orders /\ ~a.resume /\ OrderCeiling[a.order] # Unbounded
    THEN OrderCeiling[a.order] ELSE 0

\* The condition of FirstAttemptsWithinCeiling.
FirstAttempts == OrdersKeepTheirCeilings /\ \A o \in Orders : ~spendRuns[o].resumed

\* The ledger and what has been admitted are under the ceiling.
LedgerBounded ==
  (OneDispatcher /\ FirstAttempts) =>
    tally <= highest /\ \A d \in Dispatchers : tally + Admitted(admission[d]) <= highest

SpendShape ==
  /\ hardCeiling \in CeilingSettings \cup {Unset} /\ highest \in Nat /\ hardCeiling <= highest
  /\ DOMAIN spendRuns = Orders
  /\ \A o \in Orders : SpendRow(o, spendRuns[o]) /\ OneProcess(spendRuns[o]) /\ KeptTo(o, spendRuns[o])
  /\ DOMAIN admission = Dispatchers /\ \A d \in Dispatchers : AdmissionOK(admission[d])
  /\ ceilingChanges \in 0..MaxSpendChanges /\ spendRestarts \in 0..MaxSpendRestarts

SpendInv == SpendShape /\ LedgerBounded

\* What a run counts at: its cost, its order's ceiling, or nothing (SpendLedgerService.tally).
CountedAt(o, cost) ==
  IF cost # NoCost THEN cost ELSE IF OrderCeiling[o] # Unbounded THEN OrderCeiling[o] ELSE 0

\* Counted reads the cost alone.
LEMMA CountedIs == \A o : Counted(o) = CountedAt(o, spendRuns[o].cost)
BY DEF Counted, CountedAt

\* It is a whole number of dollars.
LEMMA CountedType ==
  ASSUME NEW o \in Orders, NEW cost \in NoCost..MaxProcessSpend PROVE CountedAt(o, cost) \in Nat
BY SpendConstants DEF CountedAt, NoCost, Unbounded

\* The ledger's column for any rows.
LEMMA LedgerColumn ==
  ASSUME NEW R \in SUBSET Orders, NEW c, \A o \in R : c[o] \in NoCost..MaxProcessSpend
  PROVE  Column([o \in R |-> CountedAt(o, c[o])]) /\ SumOf([o \in R |-> CountedAt(o, c[o])]) \in Nat
<1> PICK f : f = [o \in R |-> CountedAt(o, c[o])] OBVIOUS
<1>1. IsFiniteSet(R) BY SpendConstants, FS_Subset
<1>2. \A o \in R : CountedAt(o, c[o]) \in Nat BY CountedType
<1>3. Column(f) BY <1>1, <1>2 DEF Column
<1> QED BY <1>3, SumIsNat

\* The tally in terms of the rows' costs.
LEMMA TallyIs ==
  tally = SumOf([x \in Rows |-> CountedAt(x, spendRuns[x].cost)])
<1>1. [x \in Rows |-> Counted(x)] = [x \in Rows |-> CountedAt(x, spendRuns[x].cost)] BY CountedIs
<1> QED BY <1>1 DEF tally

\* The same after a step.
LEMMA TallyNextIs ==
  tally' = SumOf([x \in Rows' |-> CountedAt(x, spendRuns'[x].cost)])
<1>1. (tally = SumOf([x \in Rows |-> CountedAt(x, spendRuns[x].cost)]))' BY TallyIs, PTL
<1> QED BY <1>1

\* A step that creates no row, raises no count and admits nothing keeps the
\* invariant: an agent's step, a resume, a restart, a lost run.
LEMMA RunsMove ==
  ASSUME SpendInv, hardCeiling' = hardCeiling, highest' = highest, ceilingChanges' = ceilingChanges,
         spendRestarts' \in 0..MaxSpendRestarts,
         DOMAIN spendRuns' = Orders, DOMAIN admission' = Dispatchers,
         \A d \in Dispatchers : admission'[d] \in {admission[d], NoAdmission},
         \A o \in Orders :
           /\ SpendRow(o, spendRuns'[o]) /\ OneProcess(spendRuns'[o]) /\ KeptTo(o, spendRuns'[o])
           /\ spendRuns'[o].state = "absent" <=> spendRuns[o].state = "absent"
           /\ spendRuns[o].over => spendRuns'[o].over
           /\ spendRuns[o].resumed => spendRuns'[o].resumed
           /\ \/ spendRuns'[o].cost = spendRuns[o].cost
              \/ /\ spendRuns[o].cost = NoCost
                 /\ (OrderCeiling[o] # Unbounded /\ ~spendRuns'[o].over /\ ~spendRuns'[o].resumed)
                      => spendRuns'[o].cost <= OrderCeiling[o]
  PROVE  SpendInv'
<1>1. SpendShape /\ LedgerBounded BY DEF SpendInv
<1>2. \A d \in Dispatchers : AdmissionOK(admission'[d])
  <2>1. AdmissionOK(NoAdmission) BY DEF AdmissionOK, NoAdmission
  <2> QED BY <1>1, <2>1 DEF SpendShape
<1>3. SpendShape' BY <1>1, <1>2 DEF SpendShape, SpendRow, OneProcess, KeptTo, AdmissionOK
<1>4. Rows' = Rows /\ Rows \subseteq Orders BY DEF Rows
<1>5. ASSUME FirstAttempts' PROVE FirstAttempts
  BY <1>4, <1>5 DEF FirstAttempts, OrdersKeepTheirCeilings
<1>6. ASSUME FirstAttempts' PROVE tally' <= tally /\ tally \in Nat /\ tally' \in Nat
  <2> PICK R : R = Rows OBVIOUS
  <2> PICK c : c = [o \in Orders |-> spendRuns[o].cost] OBVIOUS
  <2> PICK e : e = [o \in Orders |-> spendRuns'[o].cost] OBVIOUS
  <2> PICK f : f = [o \in R |-> CountedAt(o, c[o])] OBVIOUS
  <2> PICK g : g = [o \in R |-> CountedAt(o, e[o])] OBVIOUS
  <2>1. R \in SUBSET Orders BY <1>4
  <2>2. \A o \in R : c[o] \in NoCost..MaxProcessSpend /\ e[o] \in NoCost..MaxProcessSpend
    BY <1>1, <2>1 DEF SpendShape, SpendRow
  <2>3. Column(f) /\ Column(g) /\ SumOf(f) \in Nat /\ SumOf(g) \in Nat
    BY <2>1, <2>2, LedgerColumn
  <2>4. tally = SumOf(f)
    <3>1. [o \in Rows |-> CountedAt(o, spendRuns[o].cost)] = f BY <2>1
    <3> QED BY <3>1, TallyIs
  <2>5. tally' = SumOf(g)
    <3>1. [o \in Rows' |-> CountedAt(o, spendRuns'[o].cost)] = g BY <1>4, <2>1
    <3> QED BY <3>1, TallyNextIs
  <2>6. ASSUME NEW o \in R PROVE g[o] <= f[o]
    <3>1. o \in Orders /\ o \in Rows' BY <1>4, <2>1
    <3>2. OrderCeiling[o] # Unbounded /\ ~spendRuns'[o].over /\ ~spendRuns'[o].resumed
      BY <1>6, <3>1 DEF FirstAttempts, OrdersKeepTheirCeilings
    <3>3. c[o] = spendRuns[o].cost /\ e[o] = spendRuns'[o].cost BY <3>1
    <3>4. e[o] = c[o] \/ (c[o] = NoCost /\ e[o] <= OrderCeiling[o]) BY <3>1, <3>2, <3>3
    <3>5. CountedAt(o, c[o]) \in Nat /\ CountedAt(o, e[o]) \in Nat BY <2>2, <3>1, CountedType
    <3>6. CountedAt(o, e[o]) <= CountedAt(o, c[o])
      <4>1. CASE e[o] = c[o] BY <3>5, <4>1
      <4>2. CASE c[o] = NoCost /\ e[o] <= OrderCeiling[o] BY <3>2, <3>5, <4>2 DEF CountedAt
      <4> QED BY <3>4, <4>1, <4>2
    <3> QED BY <3>6
  <2>7. DOMAIN f = R /\ DOMAIN g = R OBVIOUS
  <2>8. SumOf(g) <= SumOf(f) BY <2>3, <2>6, <2>7, SumGrows
  <2> QED BY <2>3, <2>4, <2>5, <2>8
<1>7. LedgerBounded'
  <2> SUFFICES ASSUME OneDispatcher, FirstAttempts'
               PROVE  tally' <= highest' /\ \A d \in Dispatchers : tally' + Admitted(admission'[d]) <= highest'
    BY DEF LedgerBounded, Admitted, OneDispatcher
  <2>1. /\ highest' \in Nat /\ highest' = highest /\ tally' <= tally /\ tally \in Nat /\ tally' \in Nat
        /\ tally <= highest /\ \A d \in Dispatchers : tally + Admitted(admission[d]) <= highest
    BY <1>1, <1>5, <1>6 DEF LedgerBounded, SpendShape
  <2>2. \A d \in Dispatchers : Admitted(admission[d]) \in Nat
    BY <1>1, SpendConstants DEF SpendShape, AdmissionOK, Admitted, Unbounded
  <2>3. Admitted(NoAdmission) = 0 BY SpendConstants DEF Admitted, NoAdmission
  <2>4. ASSUME NEW d \in Dispatchers PROVE tally' + Admitted(admission'[d]) <= highest'
    <3> PICK a \in Nat, b \in Nat, n \in Nat, m \in Nat :
          a = tally /\ b = tally' /\ n = Admitted(admission[d]) /\ m = highest
      BY <1>1, <2>1, <2>2
    <3>1. b <= a /\ a + n <= m /\ b <= m BY <2>1
    <3>2. Admitted(admission'[d]) = n \/ Admitted(admission'[d]) = 0 BY <2>3
    <3> QED BY <2>1, <3>1, <3>2
  <2> QED BY <2>1, <2>4
<1> QED BY <1>3, <1>7 DEF SpendInv

\* A step on one run that keeps its row well formed and does not raise its count.
LEMMA OneRunMoves ==
  ASSUME SpendInv, NEW o \in Orders, NEW r, spendRuns' = [spendRuns EXCEPT ![o] = r],
         hardCeiling' = hardCeiling, highest' = highest, ceilingChanges' = ceilingChanges,
         spendRestarts' = spendRestarts, DOMAIN admission' = Dispatchers,
         \A d \in Dispatchers : admission'[d] \in {admission[d], NoAdmission},
         SpendRow(o, r), OneProcess(r), KeptTo(o, r),
         r.state = "absent" <=> spendRuns[o].state = "absent",
         spendRuns[o].over => r.over, spendRuns[o].resumed => r.resumed,
         \/ r.cost = spendRuns[o].cost
         \/ /\ spendRuns[o].cost = NoCost
            /\ (OrderCeiling[o] # Unbounded /\ ~r.over /\ ~r.resumed) => r.cost <= OrderCeiling[o]
  PROVE  SpendInv'
<1>1. SpendShape BY DEF SpendInv
<1>2. /\ DOMAIN spendRuns' = Orders /\ spendRuns'[o] = r
      /\ \A x \in Orders : x # o => spendRuns'[x] = spendRuns[x]
  BY <1>1 DEF SpendShape
<1>3. spendRestarts' \in 0..MaxSpendRestarts BY <1>1 DEF SpendShape
<1>4. ASSUME NEW x \in Orders
      PROVE  /\ SpendRow(x, spendRuns'[x]) /\ OneProcess(spendRuns'[x]) /\ KeptTo(x, spendRuns'[x])
             /\ spendRuns'[x].state = "absent" <=> spendRuns[x].state = "absent"
             /\ spendRuns[x].over => spendRuns'[x].over
             /\ spendRuns[x].resumed => spendRuns'[x].resumed
             /\ \/ spendRuns'[x].cost = spendRuns[x].cost
                \/ /\ spendRuns[x].cost = NoCost
                   /\ (OrderCeiling[x] # Unbounded /\ ~spendRuns'[x].over /\ ~spendRuns'[x].resumed)
                        => spendRuns'[x].cost <= OrderCeiling[x]
  <2>1. CASE x = o BY <1>2, <2>1
  <2>2. CASE x # o BY <1>1, <1>2, <2>2 DEF SpendShape
  <2> QED BY <2>1, <2>2
<1> QED BY <1>2, <1>3, <1>4, RunsMove

\* What the invariant says of one run.
LEMMA RunFacts ==
  ASSUME SpendInv, NEW o \in Orders
  PROVE  SpendRow(o, spendRuns[o]) /\ OneProcess(spendRuns[o]) /\ KeptTo(o, spendRuns[o])
BY DEF SpendInv, SpendShape

\* The next dollar of an agent: one past its ceiling is remembered in `over`.
LEMMA SpendsKeep == ASSUME SpendInv, NEW o \in Orders, AgentSpends(o) PROVE SpendInv'
<1> PICK r : r = spendRuns[o] OBVIOUS
<1>1. SpendRow(o, r) /\ OneProcess(r) /\ KeptTo(o, r) BY RunFacts
<1>2. OrderCeiling[o] \in Nat \cup {-1} /\ MaxProcessSpend \in Nat BY SpendConstants DEF Unbounded
<1>3. /\ hardCeiling' = hardCeiling /\ highest' = highest /\ ceilingChanges' = ceilingChanges
      /\ spendRestarts' = spendRestarts /\ admission' = admission
      /\ DOMAIN admission' = Dispatchers
  BY DEF AgentSpends, SpendInv, SpendShape
<1>4. CASE /\ r.live /\ r.own < MaxProcessSpend
           /\ spendRuns' = [spendRuns EXCEPT ![o] =
                [r EXCEPT !.own = r.own + 1, !.over = r.over \/ r.own >= OrderCeiling[o]]]
  <2>0. PICK e : e = [r EXCEPT !.own = r.own + 1, !.over = r.over \/ r.own >= OrderCeiling[o]]
    OBVIOUS
  <2>1. /\ DOMAIN e = DOMAIN r /\ e.state = r.state /\ e.cost = r.cost /\ e.live = r.live
        /\ e.own = r.own + 1 /\ e.orphan = r.orphan /\ e.loose = r.loose /\ e.gone = r.gone
        /\ e.resumed = r.resumed
    BY <1>1, <2>0 DEF SpendRow
  <2>2. e.over = (r.over \/ r.own >= OrderCeiling[o]) BY <1>1, <2>0 DEF SpendRow
  <2>3. e.over \in BOOLEAN /\ (r.over => e.over) /\ (~e.over => ~r.over /\ ~(r.own >= OrderCeiling[o]))
    BY <2>2, Zenon
  <2>4. SpendRow(o, e) BY <1>1, <1>2, <1>4, <2>1, <2>3 DEF SpendRow
  <2>5. OneProcess(e) BY <1>1, <1>4, <2>1 DEF OneProcess
  <2>6. KeptTo(o, e) BY <1>1, <1>2, <2>1, <2>3 DEF KeptTo, SpendRow, Unbounded
  <2>7. /\ e.state = "absent" <=> spendRuns[o].state = "absent"
        /\ e.cost = spendRuns[o].cost
        /\ spendRuns[o].over => e.over
        /\ spendRuns[o].resumed => e.resumed
    BY <2>1, <2>3
  <2>8. \A d \in Dispatchers : admission'[d] \in {admission[d], NoAdmission} BY <1>3
  <2>9. spendRuns' = [spendRuns EXCEPT ![o] = e] BY <1>4, <2>0
  <2> QED BY <1>3, <2>4, <2>5, <2>6, <2>7, <2>8, <2>9, OneRunMoves
<1>5. CASE /\ r.orphan /\ r.loose < MaxProcessSpend
           /\ spendRuns' = [spendRuns EXCEPT ![o] =
                [r EXCEPT !.loose = r.loose + 1, !.over = r.over \/ r.loose >= OrderCeiling[o]]]
  <2>0. PICK e : e = [r EXCEPT !.loose = r.loose + 1, !.over = r.over \/ r.loose >= OrderCeiling[o]]
    OBVIOUS
  <2>1. /\ DOMAIN e = DOMAIN r /\ e.state = r.state /\ e.cost = r.cost /\ e.live = r.live
        /\ e.own = r.own /\ e.orphan = r.orphan /\ e.loose = r.loose + 1 /\ e.gone = r.gone
        /\ e.resumed = r.resumed
    BY <1>1, <2>0 DEF SpendRow
  <2>2. e.over = (r.over \/ r.loose >= OrderCeiling[o]) BY <1>1, <2>0 DEF SpendRow
  <2>3. e.over \in BOOLEAN /\ (r.over => e.over) /\ (~e.over => ~r.over /\ ~(r.loose >= OrderCeiling[o]))
    BY <2>2, Zenon
  <2>4. SpendRow(o, e) BY <1>1, <1>2, <1>5, <2>1, <2>3 DEF SpendRow
  <2>5. OneProcess(e) BY <1>1, <1>5, <2>1 DEF OneProcess
  <2>6. KeptTo(o, e) BY <1>1, <1>2, <2>1, <2>3 DEF KeptTo, SpendRow, Unbounded
  <2>7. /\ e.state = "absent" <=> spendRuns[o].state = "absent"
        /\ e.cost = spendRuns[o].cost
        /\ spendRuns[o].over => e.over
        /\ spendRuns[o].resumed => e.resumed
    BY <2>1, <2>3
  <2>8. \A d \in Dispatchers : admission'[d] \in {admission[d], NoAdmission} BY <1>3
  <2>9. spendRuns' = [spendRuns EXCEPT ![o] = e] BY <1>5, <2>0
  <2> QED BY <1>3, <2>4, <2>5, <2>6, <2>7, <2>8, <2>9, OneRunMoves
<1> QED BY <1>4, <1>5 DEF AgentSpends

\* A parked agent, a lost run and an orphan's end change no count.
LEMMA QuietMovesKeep ==
  ASSUME SpendInv, NEW o \in Orders, AgentParks(o) \/ MarkLost(o) \/ OrphanEnds(o) PROVE SpendInv'
<1> PICK r : r = spendRuns[o] OBVIOUS
<1>1. SpendRow(o, r) /\ OneProcess(r) /\ KeptTo(o, r) BY RunFacts
<1>2. OrderCeiling[o] \in Nat \cup {-1} /\ MaxProcessSpend \in Nat BY SpendConstants DEF Unbounded
<1>3. /\ hardCeiling' = hardCeiling /\ highest' = highest /\ ceilingChanges' = ceilingChanges
      /\ spendRestarts' = spendRestarts /\ admission' = admission
      /\ DOMAIN admission' = Dispatchers
  BY DEF AgentParks, MarkLost, OrphanEnds, SpendInv, SpendShape
<1>4. ASSUME NEW st \in {"blocked", "stalled"}, spendRuns' = [spendRuns EXCEPT ![o].state = st],
             r.state \in {"running", "blocked"}, st = "stalled" => ~r.live
      PROVE  SpendInv'
  <2> PICK e : e = [r EXCEPT !.state = st] OBVIOUS
  <2>1. /\ DOMAIN e = DOMAIN r /\ e.state = st /\ e.cost = r.cost /\ e.live = r.live
        /\ e.own = r.own /\ e.orphan = r.orphan /\ e.loose = r.loose /\ e.gone = r.gone
        /\ e.over = r.over /\ e.resumed = r.resumed
    BY <1>1 DEF SpendRow
  <2>2. SpendRow(o, e) BY <1>1, <1>2, <1>4, <2>1 DEF SpendRow
  <2>3. OneProcess(e) /\ KeptTo(o, e) BY <1>1, <2>1 DEF OneProcess, KeptTo
  <2>4. spendRuns' = [spendRuns EXCEPT ![o] = e] BY <1>4
  <2>5. /\ e.state = "absent" <=> spendRuns[o].state = "absent"
        /\ e.cost = spendRuns[o].cost
        /\ spendRuns[o].over => e.over
        /\ spendRuns[o].resumed => e.resumed
    BY <1>4, <2>1
  <2>6. \A d \in Dispatchers : admission'[d] \in {admission[d], NoAdmission} BY <1>3
  <2> QED BY <1>3, <2>2, <2>3, <2>4, <2>5, <2>6, OneRunMoves
<1>5. CASE AgentParks(o) BY <1>4, <1>5 DEF AgentParks
<1>6. CASE MarkLost(o) BY <1>4, <1>6 DEF MarkLost
<1>7. CASE OrphanEnds(o)
  <2> PICK e : e = [r EXCEPT !.orphan = FALSE, !.loose = 0, !.gone = r.gone + r.loose] OBVIOUS
  <2>1. /\ DOMAIN e = DOMAIN r /\ e.state = r.state /\ e.cost = r.cost /\ e.live = r.live
        /\ e.own = r.own /\ e.orphan = FALSE /\ e.loose = 0 /\ e.gone = r.gone + r.loose
        /\ e.over = r.over /\ e.resumed = r.resumed
    BY <1>1 DEF SpendRow
  <2>2. r.orphan BY <1>7 DEF OrphanEnds
  <2>3. SpendRow(o, e) BY <1>1, <1>2, <2>1, <2>2 DEF SpendRow
  <2>4. OneProcess(e) BY <1>1, <2>1, <2>2 DEF OneProcess
  <2>5. KeptTo(o, e) BY <1>1, <1>2, <2>1, <2>2 DEF KeptTo, OneProcess, SpendRow, Unbounded
  <2>6. spendRuns' = [spendRuns EXCEPT ![o] = e] BY <1>7 DEF OrphanEnds
  <2>7. /\ e.state = "absent" <=> spendRuns[o].state = "absent"
        /\ e.cost = spendRuns[o].cost
        /\ spendRuns[o].over => e.over
        /\ spendRuns[o].resumed => e.resumed
    BY <2>1
  <2>8. \A d \in Dispatchers : admission'[d] \in {admission[d], NoAdmission} BY <1>3
  <2> QED BY <1>3, <2>3, <2>4, <2>5, <2>6, <2>7, <2>8, OneRunMoves
<1> QED BY <1>5, <1>6, <1>7

\* The last event: a cost that is reported is what the one process spent.
LEMMA EndsKeep == ASSUME SpendInv, NEW o \in Orders, AgentEnds(o) PROVE SpendInv'
<1> PICK r : r = spendRuns[o] OBVIOUS
<1>1. SpendRow(o, r) /\ OneProcess(r) /\ KeptTo(o, r) BY RunFacts
<1>2. OrderCeiling[o] \in Nat \cup {-1} /\ MaxProcessSpend \in Nat BY SpendConstants DEF Unbounded
<1>3. /\ hardCeiling' = hardCeiling /\ highest' = highest /\ ceilingChanges' = ceilingChanges
      /\ spendRestarts' = spendRestarts /\ admission' = admission
      /\ DOMAIN admission' = Dispatchers
  BY DEF AgentEnds, SpendInv, SpendShape
<1>4. r.live /\ r.cost = NoCost BY <1>1 DEF AgentEnds, SpendRow
<1>5. PICK costed \in BOOLEAN :
        spendRuns' = [spendRuns EXCEPT ![o] =
          [r EXCEPT !.state = "ended", !.live = FALSE, !.own = 0, !.gone = r.gone + r.own,
                    !.cost = IF ~costed THEN r.cost
                             ELSE IF r.cost = NoCost THEN r.own ELSE r.cost + r.own]]
  BY DEF AgentEnds
<1>6. PICK e : e = [r EXCEPT !.state = "ended", !.live = FALSE, !.own = 0, !.gone = r.gone + r.own,
                    !.cost = IF ~costed THEN r.cost
                             ELSE IF r.cost = NoCost THEN r.own ELSE r.cost + r.own] OBVIOUS
<1>7. /\ DOMAIN e = DOMAIN r /\ e.state = "ended" /\ e.live = FALSE
      /\ e.own = 0 /\ e.orphan = r.orphan /\ e.loose = r.loose /\ e.gone = r.gone + r.own
      /\ e.over = r.over /\ e.resumed = r.resumed
  BY <1>1, <1>6 DEF SpendRow
<1>8. e.cost = r.cost \/ e.cost = r.own BY <1>1, <1>4, <1>6 DEF SpendRow
<1>9. SpendRow(o, e)
  <2>1. e.live \in BOOLEAN /\ ~e.live BY <1>7, Zenon
  <2>2. e.cost \in NoCost..MaxProcessSpend BY <1>1, <1>2, <1>8 DEF SpendRow, NoCost
  <2> QED BY <1>1, <1>2, <1>7, <2>1, <2>2 DEF SpendRow
<1>10. OneProcess(e) BY <1>1, <1>4, <1>7, <1>8 DEF OneProcess, SpendRow, NoCost
<1>11. KeptTo(o, e) BY <1>1, <1>2, <1>4, <1>7 DEF KeptTo, OneProcess, SpendRow, Unbounded
<1>12. (OrderCeiling[o] # Unbounded /\ ~e.over /\ ~e.resumed) =>
         (e.cost = r.cost \/ e.cost <= OrderCeiling[o])
  BY <1>1, <1>7, <1>8 DEF KeptTo
<1>13. r.state # "absent" BY <1>1, <1>4 DEF SpendRow
<1>14. \/ e.cost = r.cost
       \/ /\ r.cost = NoCost
          /\ (OrderCeiling[o] # Unbounded /\ ~e.over /\ ~e.resumed) => e.cost <= OrderCeiling[o]
  BY <1>4, <1>12, Zenon
<1>15. spendRuns' = [spendRuns EXCEPT ![o] = e] BY <1>5, <1>6
<1>16. /\ e.state = "absent" <=> spendRuns[o].state = "absent"
       /\ spendRuns[o].over => e.over
       /\ spendRuns[o].resumed => e.resumed
  BY <1>7, <1>13
<1> QED BY <1>3, <1>9, <1>10, <1>11, <1>14, <1>15, <1>16, OneRunMoves

\* A run that is claimed for a resume is one that was started twice: the
\* property says nothing of it from then on.
LEMMA ResumeKeeps == ASSUME SpendInv, NEW d \in Dispatchers, ResumeClaim(d) PROVE SpendInv'
<1> PICK o : o = admission[d].order OBVIOUS
<1> PICK r : r = spendRuns[o] OBVIOUS
<1>1. SpendShape BY DEF SpendInv
<1>2. o \in Orders BY <1>1 DEF SpendShape, AdmissionOK, ResumeClaim
<1>3. SpendRow(o, r) /\ OneProcess(r) /\ KeptTo(o, r) BY <1>2, RunFacts
<1>4. /\ hardCeiling' = hardCeiling /\ highest' = highest /\ ceilingChanges' = ceilingChanges
      /\ spendRestarts' = spendRestarts /\ DOMAIN admission' = Dispatchers
      /\ \A x \in Dispatchers : admission'[x] \in {admission[x], NoAdmission}
  BY <1>1 DEF ResumeClaim, SpendShape
<1>5. CASE r.state # "blocked"
  <2>1. spendRuns' = spendRuns BY <1>5 DEF ResumeClaim
  <2>2. spendRestarts' \in 0..MaxSpendRestarts /\ DOMAIN spendRuns' = Orders
    BY <1>1, <1>4, <2>1 DEF SpendShape
  <2> QED BY <1>4, <2>1, <2>2, RunFacts, RunsMove
<1>6. CASE r.state = "blocked"
  <2>1. PICK e : e = [r EXCEPT !.state = "running", !.live = TRUE, !.resumed = TRUE] OBVIOUS
  <2>2. /\ DOMAIN e = DOMAIN r /\ e.state = "running" /\ e.cost = r.cost /\ e.live = TRUE
        /\ e.own = r.own /\ e.orphan = r.orphan /\ e.loose = r.loose /\ e.gone = r.gone
        /\ e.over = r.over /\ e.resumed = TRUE
    BY <1>3, <2>1 DEF SpendRow
  <2>3. e.live \in BOOLEAN /\ e.live /\ e.resumed \in BOOLEAN /\ e.resumed BY <2>2, Zenon
  <2>4. SpendRow(o, e) BY <1>3, <1>6, <2>2, <2>3 DEF SpendRow
  <2>5. OneProcess(e) /\ KeptTo(o, e) BY <2>3 DEF OneProcess, KeptTo
  <2>6. spendRuns' = [spendRuns EXCEPT ![o] = e] BY <1>6, <2>1 DEF ResumeClaim
  <2>7. /\ e.state = "absent" <=> spendRuns[o].state = "absent"
        /\ spendRuns[o].over => e.over
        /\ spendRuns[o].resumed => e.resumed
        /\ e.cost = spendRuns[o].cost
    BY <1>6, <2>2, <2>3
  <2> QED BY <1>2, <1>4, <2>4, <2>5, <2>6, <2>7, OneRunMoves
<1> QED BY <1>5, <1>6

\* A restart orphans the processes; it changes no row's count.
LEMMA RestartKeeps == ASSUME SpendInv, RestartApi PROVE SpendInv'
<1>1. SpendShape BY DEF SpendInv
<1>2. /\ hardCeiling' = hardCeiling /\ highest' = highest /\ ceilingChanges' = ceilingChanges
      /\ DOMAIN spendRuns' = Orders /\ DOMAIN admission' = Dispatchers
      /\ \A x \in Dispatchers : admission'[x] \in {admission[x], NoAdmission}
  BY DEF RestartApi
<1>3. spendRestarts' \in 0..MaxSpendRestarts
  <2>1. spendRestarts' = spendRestarts + 1 /\ spendRestarts < MaxSpendRestarts BY DEF RestartApi
  <2>2. spendRestarts \in 0..MaxSpendRestarts BY <1>1 DEF SpendShape
  <2> QED BY <2>1, <2>2, SpendConstants
<1>4. ASSUME NEW o \in Orders
      PROVE  /\ SpendRow(o, spendRuns'[o]) /\ OneProcess(spendRuns'[o]) /\ KeptTo(o, spendRuns'[o])
             /\ spendRuns'[o].state = "absent" <=> spendRuns[o].state = "absent"
             /\ spendRuns[o].over => spendRuns'[o].over
             /\ spendRuns[o].resumed => spendRuns'[o].resumed
             /\ spendRuns'[o].cost = spendRuns[o].cost
  <2> PICK r : r = spendRuns[o] OBVIOUS
  <2>1. SpendRow(o, r) /\ OneProcess(r) /\ KeptTo(o, r) BY RunFacts
  <2>2. CASE ~r.live
    <3>1. spendRuns'[o] = r BY <2>2 DEF RestartApi
    <3> QED BY <2>1, <3>1
  <2>3. CASE r.live
    <3>1. PICK e : e = [r EXCEPT !.live = FALSE, !.own = 0, !.orphan = TRUE, !.loose = r.own] OBVIOUS
    <3>2. spendRuns'[o] = e BY <2>3, <3>1 DEF RestartApi
    <3>3. /\ DOMAIN e = DOMAIN r /\ e.state = r.state /\ e.cost = r.cost /\ e.live = FALSE
          /\ e.own = 0 /\ e.orphan = TRUE /\ e.loose = r.own /\ e.gone = r.gone
          /\ e.over = r.over /\ e.resumed = r.resumed
      BY <2>1, <3>1 DEF SpendRow
    <3>4. e.live \in BOOLEAN /\ ~e.live /\ e.orphan \in BOOLEAN /\ e.orphan BY <3>3, Zenon
    <3>5. SpendRow(o, e)
      <4>1. 0 \in 0..MaxProcessSpend BY SpendConstants
      <4>2. r.state # "absent" BY <2>1, <2>3 DEF SpendRow
      <4> QED BY <2>1, <3>3, <3>4, <4>1, <4>2 DEF SpendRow
    <3>6. OneProcess(e) BY <2>1, <2>3, <3>3, <3>4 DEF OneProcess, SpendRow
    <3>7. KeptTo(o, e)
      <4>1. OrderCeiling[o] # Unbounded => 0 <= OrderCeiling[o] BY SpendConstants DEF Unbounded
      <4> QED BY <2>1, <3>3, <4>1 DEF KeptTo
    <3> QED BY <3>2, <3>3, <3>5, <3>6, <3>7
  <2> QED BY <2>2, <2>3
<1> QED BY <1>2, <1>3, <1>4, RunsMove

\* The numbers of this state: the tally, and what a pass has been admitted to add.
LEMMA TallyType ==
  ASSUME SpendShape PROVE tally \in Nat /\ \A d \in Dispatchers : Admitted(admission[d]) \in Nat
<1>1. \A d \in Dispatchers : Admitted(admission[d]) \in Nat
  BY SpendConstants DEF SpendShape, AdmissionOK, Admitted, Unbounded
<1> PICK R : R = Rows OBVIOUS
<1> PICK c : c = [o \in Orders |-> spendRuns[o].cost] OBVIOUS
<1>2. R \in SUBSET Orders BY DEF Rows
<1>3. \A o \in R : c[o] \in NoCost..MaxProcessSpend BY <1>2 DEF SpendShape, SpendRow
<1>4. SumOf([o \in R |-> CountedAt(o, c[o])]) \in Nat BY <1>2, <1>3, LedgerColumn
<1>5. [o \in Rows |-> CountedAt(o, spendRuns[o].cost)] = [o \in R |-> CountedAt(o, c[o])] BY <1>2
<1> QED BY <1>1, <1>4, <1>5, TallyIs

\* Steps that leave the runs alone: the ledger and the condition stay as they are.
LEMMA RunsStay ==
  ASSUME SpendShape, spendRuns' = spendRuns
  PROVE  tally' = tally /\ (FirstAttempts' <=> FirstAttempts)
BY DEF tally, Counted, Rows, FirstAttempts, OrdersKeepTheirCeilings

\* The two gates.  A dispatch is admitted when the ledger and its ceiling fit;
\* a resume adds nothing to the ledger, which counts the run already.
LEMMA GatesKeep ==
  ASSUME SpendInv, NEW d \in Dispatchers, NEW o \in Orders, DispatchGate(d, o) \/ ResumeGate(d, o)
  PROVE  SpendInv'
<1>1. SpendShape /\ LedgerBounded BY DEF SpendInv
<1>2. PICK b \in BOOLEAN : /\ admission' = [admission EXCEPT ![d] = [order |-> o, resume |-> b]]
                           /\ ~b => DispatchGate(d, o)
  BY DEF DispatchGate, ResumeGate
<1>3. PICK a : a = [order |-> o, resume |-> b] OBVIOUS
<1>4. /\ DOMAIN admission' = Dispatchers /\ admission'[d] = a
      /\ \A x \in Dispatchers : x # d => admission'[x] = admission[x]
  BY <1>1, <1>2, <1>3 DEF SpendShape
<1>5. DOMAIN a = {"order", "resume"} /\ a.order = o /\ a.resume = b BY <1>3
<1>6. /\ spendRuns' = spendRuns /\ hardCeiling' = hardCeiling /\ highest' = highest
      /\ ceilingChanges' = ceilingChanges /\ spendRestarts' = spendRestarts
      /\ decideSpendAdmission(hardCeiling, tally, OrderCeiling[o])
  BY DEF DispatchGate, ResumeGate
<1>7. SpendShape'
  <2>1. \A x \in Dispatchers : AdmissionOK(admission'[x])
    BY <1>1, <1>4, <1>5 DEF AdmissionOK, SpendShape
  <2> QED BY <1>1, <1>4, <1>6, <2>1 DEF SpendShape, AdmissionOK, SpendRow, OneProcess, KeptTo
<1>8. tally' = tally /\ (FirstAttempts' <=> FirstAttempts) BY <1>1, <1>6, RunsStay
<1>9. tally + Admitted(a) <= highest /\ tally <= highest
  <2>1. PICK t \in Nat, m \in Nat : t = tally /\ m = highest BY <1>1, TallyType DEF SpendShape
  <2>2. hardCeiling \in Int /\ hardCeiling <= m
    BY <1>1, <2>1, SpendConstants DEF SpendShape, Unset
  <2>3. t < hardCeiling /\ (OrderCeiling[o] # Unbounded => t + OrderCeiling[o] <= hardCeiling)
    BY <1>6, <2>1 DEF decideSpendAdmission
  <2>4. OrderCeiling[o] \in Nat \cup {-1} BY SpendConstants DEF Unbounded
  <2>5. (OrderCeiling[o] # Unbounded => t + OrderCeiling[o] <= m) /\ t <= m
    BY <2>2, <2>3, <2>4 DEF Unbounded
  <2>6. Admitted(a) = 0 \/ (OrderCeiling[o] # Unbounded /\ Admitted(a) = OrderCeiling[o])
    BY <1>5 DEF Admitted
  <2>7. t + Admitted(a) <= m BY <2>5, <2>6
  <2> QED BY <2>1, <2>5, <2>7
<1>10. LedgerBounded'
  <2>1. ASSUME NEW x \in Dispatchers, OneDispatcher, FirstAttempts
        PROVE  tally + Admitted(admission'[x]) <= highest
    <3>1. CASE x = d BY <1>4, <1>9, <3>1
    <3>2. CASE x # d BY <1>1, <1>4, <2>1, <3>2 DEF LedgerBounded
    <3> QED BY <3>1, <3>2
  <2> QED BY <1>6, <1>8, <1>9, <2>1 DEF LedgerBounded, Admitted, OneDispatcher
<1> QED BY <1>7, <1>10 DEF SpendInv

\* A new limit can only raise the highest one.
LEMMA RefreshKeeps ==
  ASSUME SpendInv, NEW v \in CeilingSettings, refreshCeiling(v) PROVE SpendInv'
<1>1. SpendShape /\ LedgerBounded BY DEF SpendInv
<1>2. v \in Int /\ highest \in Nat BY <1>1, SpendConstants DEF SpendShape
<1>3. /\ hardCeiling' = v /\ highest' = (IF v > highest THEN v ELSE highest)
      /\ ceilingChanges' = ceilingChanges + 1 /\ ceilingChanges < MaxSpendChanges
      /\ spendRuns' = spendRuns /\ admission' = admission /\ spendRestarts' = spendRestarts
  BY DEF refreshCeiling
<1>4. highest' \in Nat /\ highest <= highest' /\ v <= highest' BY <1>2, <1>3
<1>5. ceilingChanges' \in 0..MaxSpendChanges BY <1>1, <1>3, SpendConstants DEF SpendShape
<1>6. SpendShape' BY <1>1, <1>3, <1>4, <1>5 DEF SpendShape, AdmissionOK, SpendRow, OneProcess, KeptTo
<1>7. tally' = tally /\ (FirstAttempts' <=> FirstAttempts) BY <1>1, <1>3, RunsStay
<1>8. LedgerBounded'
  <2> SUFFICES ASSUME OneDispatcher, FirstAttempts
               PROVE  tally <= highest' /\ \A d \in Dispatchers : tally + Admitted(admission[d]) <= highest'
    BY <1>3, <1>7 DEF LedgerBounded, Admitted, OneDispatcher
  <2>1. PICK t \in Nat, m \in Nat, n \in Nat : t = tally /\ m = highest /\ n = highest'
    BY <1>1, <1>4, TallyType DEF SpendShape
  <2>2. t <= m /\ m <= n BY <1>1, <1>4, <2>1 DEF LedgerBounded
  <2>3. ASSUME NEW d \in Dispatchers PROVE t + Admitted(admission[d]) <= n
    <3>1. PICK k \in Nat : k = Admitted(admission[d]) BY <1>1, TallyType
    <3>2. t + k <= m BY <1>1, <2>1, <3>1 DEF LedgerBounded
    <3> QED BY <2>2, <3>1, <3>2
  <2> QED BY <2>1, <2>2, <2>3
<1> QED BY <1>6, <1>8 DEF SpendInv

\* The row of an admitted order.  It counts at the order's ceiling, which the
\* gate added to a ledger that no one has raised since.
LEMMA CreateKeeps ==
  ASSUME SpendInv, NEW d \in Dispatchers, DispatchCreate(d) PROVE SpendInv'
<1> PICK o : o = admission[d].order OBVIOUS
<1>1. SpendShape /\ LedgerBounded BY DEF SpendInv
<1>2. o \in Orders /\ ~admission[d].resume BY <1>1 DEF SpendShape, AdmissionOK, DispatchCreate
<1>3. /\ hardCeiling' = hardCeiling /\ highest' = highest /\ ceilingChanges' = ceilingChanges
      /\ spendRestarts' = spendRestarts /\ DOMAIN admission' = Dispatchers
      /\ admission'[d] = NoAdmission
      /\ \A x \in Dispatchers : admission'[x] \in {admission[x], NoAdmission}
  BY <1>1 DEF DispatchCreate, SpendShape
<1>4. spendRestarts' \in 0..MaxSpendRestarts BY <1>1, <1>3 DEF SpendShape
<1>5. CASE spendRuns' = spendRuns
  <2>1. DOMAIN spendRuns' = Orders BY <1>1, <1>5 DEF SpendShape
  <2> QED BY <1>3, <1>4, <1>5, <2>1, RunFacts, RunsMove
<1>6. ASSUME NEW ok \in BOOLEAN, spendRuns[o].state = "absent",
             spendRuns' = [spendRuns EXCEPT ![o] =
               [NoSpendRun EXCEPT !.state = IF ok THEN "running" ELSE "ended", !.live = ok]]
      PROVE  SpendInv'
  <2>1. PICK e : e = [NoSpendRun EXCEPT !.state = IF ok THEN "running" ELSE "ended", !.live = ok]
    OBVIOUS
  <2>2. /\ DOMAIN e = {"state", "cost", "live", "own", "orphan", "loose", "gone", "over", "resumed"}
        /\ e.state = (IF ok THEN "running" ELSE "ended") /\ e.live = ok
        /\ e.cost = NoCost /\ e.own = 0 /\ e.loose = 0 /\ e.gone = 0
        /\ e.orphan = FALSE /\ e.over = FALSE /\ e.resumed = FALSE
    BY <2>1 DEF NoSpendRun
  <2>3. /\ e.live \in BOOLEAN /\ e.orphan \in BOOLEAN /\ e.over \in BOOLEAN /\ e.resumed \in BOOLEAN
        /\ ~e.orphan /\ ~e.over /\ ~e.resumed
    BY <2>2, Zenon
  <2>4. e.state \in {"running", "ended"} /\ (e.live => e.state = "running") BY <2>2
  <2>5. MaxProcessSpend \in Nat /\ (OrderCeiling[o] # Unbounded => OrderCeiling[o] \in Nat)
    BY <1>2, SpendConstants
  <2>6. SpendRow(o, e)
    <3>1. NoCost \in NoCost..MaxProcessSpend /\ 0 \in 0..MaxProcessSpend /\ 0 \in Nat
      BY <2>5 DEF NoCost
    <3>2. e.state # "absent" /\ (e.live => e.state = "running") BY <2>4
    <3> QED BY <2>2, <2>3, <2>4, <3>1, <3>2 DEF SpendRow
  <2>7. OneProcess(e) /\ KeptTo(o, e) BY <2>2, <2>3, <2>5 DEF OneProcess, KeptTo
  <2>8. /\ DOMAIN spendRuns' = Orders /\ spendRuns'[o] = e
        /\ \A x \in Orders : x # o => spendRuns'[x] = spendRuns[x]
    BY <1>1, <1>2, <1>6, <2>1 DEF SpendShape
  <2>9. SpendShape'
    <3>1. AdmissionOK(NoAdmission) BY DEF AdmissionOK, NoAdmission
    <3>2. \A x \in Dispatchers : AdmissionOK(admission'[x]) BY <1>1, <1>3, <3>1 DEF SpendShape
    <3>3. \A x \in Orders : /\ SpendRow(x, spendRuns'[x]) /\ OneProcess(spendRuns'[x])
                            /\ KeptTo(x, spendRuns'[x])
      BY <1>1, <2>6, <2>7, <2>8 DEF SpendShape
    <3> QED BY <1>1, <1>3, <1>4, <2>8, <3>2, <3>3
        DEF SpendShape, AdmissionOK, SpendRow, OneProcess, KeptTo
  <2>10. Rows' = Rows \cup {o} /\ o \notin Rows /\ Rows \subseteq Orders
    BY <1>2, <1>6, <2>4, <2>8 DEF Rows
  <2>11. ASSUME FirstAttempts' PROVE FirstAttempts /\ OrderCeiling[o] # Unbounded
    <3>1. ASSUME NEW x \in Rows PROVE OrderCeiling[x] # Unbounded /\ ~spendRuns[x].over
      BY <2>8, <2>10, <2>11, <3>1 DEF FirstAttempts, OrdersKeepTheirCeilings
    <3>2. ASSUME NEW x \in Orders PROVE ~spendRuns[x].resumed
      <4>1. CASE x # o BY <2>8, <2>11, <4>1 DEF FirstAttempts
      <4>2. CASE x = o
        <5>1. SpendRow(o, spendRuns[o]) BY <1>2, RunFacts
        <5> QED BY <1>6, <4>2, <5>1 DEF SpendRow
      <4> QED BY <4>1, <4>2
    <3>3. OrderCeiling[o] # Unbounded BY <2>10, <2>11 DEF FirstAttempts, OrdersKeepTheirCeilings
    <3> QED BY <3>1, <3>2, <3>3 DEF FirstAttempts, OrdersKeepTheirCeilings
  <2>12. tally' = tally + CountedAt(o, NoCost)
    <3> PICK R : R = Rows OBVIOUS
    <3> PICK c : c = [x \in Orders |-> spendRuns[x].cost] OBVIOUS
    <3>1. PICK f : f = [x \in R |-> CountedAt(x, c[x])] OBVIOUS
    <3>2. R \in SUBSET Orders BY <2>10
    <3>3. \A x \in R : c[x] \in NoCost..MaxProcessSpend BY <1>1, <3>2 DEF SpendShape, SpendRow
    <3>4. Column(f) BY <3>1, <3>2, <3>3, LedgerColumn
    <3>5. PICK n \in Nat : n = CountedAt(o, NoCost)
      BY <1>2, <2>5, CountedType DEF NoCost
    <3>6. PICK g : g = [x \in DOMAIN f \cup {o} |-> IF x = o THEN n ELSE f[x]] OBVIOUS
    <3>7. DOMAIN f = R /\ o \notin R BY <2>10, <3>1
    <3>8. SumOf(g) = SumOf(f) + n BY <3>4, <3>5, <3>6, <3>7, SumOfOneMore
    <3>9. tally = SumOf(f)
      <4>1. [x \in Rows |-> CountedAt(x, spendRuns[x].cost)] = f BY <3>1, <3>2
      <4> QED BY <4>1, TallyIs
    <3>10. tally' = SumOf(g)
      <4>1. \A x \in R : spendRuns'[x] = spendRuns[x] BY <2>8, <3>2, <3>7
      <4>2. [x \in Rows' |-> CountedAt(x, spendRuns'[x].cost)] = g
        <5>1. DOMAIN g = R \cup {o} /\ Rows' = R \cup {o} BY <2>10, <3>6, <3>7
        <5>2. ASSUME NEW x \in R \cup {o} PROVE CountedAt(x, spendRuns'[x].cost) = g[x]
          <6>1. CASE x = o BY <2>2, <2>8, <3>5, <3>6, <6>1
          <6>2. CASE x # o BY <3>1, <3>2, <3>6, <3>7, <4>1, <6>2
          <6> QED BY <6>1, <6>2
        <5> QED BY <3>6, <5>1, <5>2
      <4> QED BY <4>2, TallyNextIs
    <3> QED BY <3>5, <3>8, <3>9, <3>10
  <2>13. LedgerBounded'
    <3> SUFFICES ASSUME OneDispatcher, FirstAttempts'
                 PROVE  tally' <= highest' /\ \A x \in Dispatchers : tally' + Admitted(admission'[x]) <= highest'
      BY DEF LedgerBounded, Admitted, OneDispatcher
    <3>1. CountedAt(o, NoCost) = OrderCeiling[o] /\ OrderCeiling[o] \in Nat
      BY <2>5, <2>11 DEF CountedAt
    <3>2. Admitted(admission[d]) = OrderCeiling[o] BY <1>2, <2>11 DEF Admitted
    <3>3. tally + OrderCeiling[o] <= highest BY <1>1, <2>11, <3>2 DEF LedgerBounded
    <3>4. PICK t \in Nat : t = tally' BY <1>1, <2>12, <3>1, TallyType
    <3>5. t <= highest' BY <1>3, <2>12, <3>1, <3>3, <3>4
    <3>6. Admitted(NoAdmission) = 0 BY SpendConstants DEF Admitted, NoAdmission
    <3>7. \A x \in Dispatchers : tally' + Admitted(admission'[x]) = t BY <1>3, <3>4, <3>6 DEF OneDispatcher
    <3> QED BY <3>4, <3>5, <3>7
  <2> QED BY <2>9, <2>13 DEF SpendInv
<1> QED BY <1>5, <1>6 DEF DispatchCreate

\* Before the first order nothing is in the ledger.
LEMMA SpendStarts == ASSUME SpendInit PROVE SpendInv
<1>1. \A o \in Orders : spendRuns[o] = NoSpendRun BY DEF SpendInit
<1>2. \A o \in Orders : SpendRow(o, NoSpendRun) /\ OneProcess(NoSpendRun) /\ KeptTo(o, NoSpendRun)
  <2>1. \A o \in Orders : OrderCeiling[o] # Unbounded => 0 <= OrderCeiling[o]
    BY SpendConstants DEF Unbounded
  <2>2. NoCost \in NoCost..MaxProcessSpend /\ 0 \in 0..MaxProcessSpend BY SpendConstants DEF NoCost
  <2> QED BY <2>1, <2>2 DEF SpendRow, OneProcess, KeptTo, NoSpendRun
<1>3. AdmissionOK(NoAdmission) BY DEF AdmissionOK, NoAdmission
<1>4. SpendShape BY <1>1, <1>2, <1>3, SpendConstants DEF SpendInit, SpendShape, Unset
<1>5. tally = 0
  <2>1. Rows = {} BY <1>1 DEF Rows, NoSpendRun
  <2>2. DOMAIN [o \in Rows |-> Counted(o)] = {} BY <2>1
  <2> QED BY <2>2, SumOfNone DEF tally
<1>6. Admitted(NoAdmission) = 0 BY SpendConstants DEF Admitted, NoAdmission
<1>7. LedgerBounded BY <1>5, <1>6 DEF LedgerBounded, SpendInit
<1> QED BY <1>4, <1>7 DEF SpendInv

\* Every step keeps the invariant.
LEMMA SpendStep == ASSUME SpendInv, [SpendNext]_spendVars PROVE SpendInv'
<1>1. CASE UNCHANGED spendVars
  <2>1. /\ spendRuns' = spendRuns /\ admission' = admission /\ hardCeiling' = hardCeiling
        /\ highest' = highest /\ ceilingChanges' = ceilingChanges /\ spendRestarts' = spendRestarts
    BY <1>1 DEF spendVars
  <2>2. SpendShape BY DEF SpendInv
  <2>3. /\ spendRestarts' \in 0..MaxSpendRestarts /\ DOMAIN spendRuns' = Orders
        /\ DOMAIN admission' = Dispatchers
    BY <2>1, <2>2 DEF SpendShape
  <2> QED BY <2>1, <2>3, RunFacts, RunsMove
<1>2. CASE \E v \in CeilingSettings : refreshCeiling(v) BY <1>2, RefreshKeeps
<1>3. CASE \E d \in Dispatchers : DispatchCreate(d) BY <1>3, CreateKeeps
<1>4. CASE \E d \in Dispatchers : ResumeClaim(d) BY <1>4, ResumeKeeps
<1>5. CASE \E d \in Dispatchers : \E o \in Orders : DispatchGate(d, o) \/ ResumeGate(d, o)
  BY <1>5, GatesKeep
<1>6. CASE \E o \in Orders : AgentSpends(o) BY <1>6, SpendsKeep
<1>7. CASE \E o \in Orders : AgentParks(o) \/ MarkLost(o) \/ OrphanEnds(o) BY <1>7, QuietMovesKeep
<1>8. CASE \E o \in Orders : AgentEnds(o) BY <1>8, EndsKeep
<1>9. CASE RestartApi BY <1>9, RestartKeeps
<1> QED BY <1>1, <1>2, <1>3, <1>4, <1>5, <1>6, <1>7, <1>8, <1>9 DEF SpendNext

\* A run counts at no less than its processes spent.
LEMMA CountsCoverSpending ==
  ASSUME SpendInv, FirstAttempts PROVE TotalSpent <= tally /\ TotalSpent \in Nat
<1> PICK R : R = Rows OBVIOUS
<1> PICK c : c = [o \in Orders |-> spendRuns[o].cost] OBVIOUS
<1>1. PICK f : f = [o \in Orders |-> Spent(o)] OBVIOUS
<1>2. PICK g : g = [o \in R |-> CountedAt(o, c[o])] OBVIOUS
<1>3. R \in SUBSET Orders BY DEF Rows
<1>4. \A o \in R : c[o] \in NoCost..MaxProcessSpend BY <1>3, RunFacts DEF SpendRow
<1>5. Column(g) BY <1>2, <1>3, <1>4, LedgerColumn
<1>6. \A o \in Orders : Spent(o) \in Nat BY RunFacts, SpendConstants DEF SpendRow, Spent
<1>7. Column(f) BY <1>1, <1>6, SpendConstants DEF Column
<1>8. ASSUME NEW o \in Orders PROVE f[o] = 0 \/ (o \in DOMAIN g /\ f[o] <= g[o])
  <2> PICK r : r = spendRuns[o] OBVIOUS
  <2>1. SpendRow(o, r) /\ OneProcess(r) /\ KeptTo(o, r) BY RunFacts
  <2>2. f[o] = r.own + r.loose + r.gone BY <1>1 DEF Spent
  <2>3. CASE r.state = "absent" BY <2>1, <2>2, <2>3, SpendConstants DEF SpendRow
  <2>4. CASE r.state # "absent"
    <3>1. o \in Rows /\ o \in R BY <2>4 DEF Rows
    <3>2. ~r.resumed /\ ~r.over /\ OrderCeiling[o] # Unbounded /\ OrderCeiling[o] \in Nat
      BY <3>1, SpendConstants DEF FirstAttempts, OrdersKeepTheirCeilings
    <3>3. /\ r.own \in Nat /\ r.loose \in Nat /\ r.gone \in Nat
          /\ r.own <= OrderCeiling[o] /\ r.loose <= OrderCeiling[o] /\ r.gone <= OrderCeiling[o]
      BY <2>1, <3>2, SpendConstants DEF SpendRow, KeptTo
    <3>4. CASE r.cost # NoCost
      <4>1. r.own = 0 /\ r.loose = 0 /\ r.gone = r.cost
        BY <2>1, <3>2, <3>4 DEF SpendRow, OneProcess
      <4>2. g[o] = r.cost BY <1>2, <3>1, <3>4 DEF CountedAt
      <4> QED BY <1>2, <2>2, <3>1, <3>3, <4>1, <4>2
    <3>5. CASE r.cost = NoCost
      <4>1. g[o] = OrderCeiling[o] BY <1>2, <3>1, <3>2, <3>5 DEF CountedAt
      <4>2. \/ r.loose = 0 /\ r.gone = 0
            \/ r.own = 0 /\ r.gone = 0
            \/ r.own = 0 /\ r.loose = 0
        BY <2>1, <3>2 DEF SpendRow, OneProcess
      <4>3. f[o] <= OrderCeiling[o] BY <2>2, <3>2, <3>3, <4>2
      <4> QED BY <1>2, <3>1, <4>1, <4>3
    <3> QED BY <3>4, <3>5
  <2> QED BY <2>3, <2>4
<1>9. DOMAIN f = Orders BY <1>1
<1>10. SumOf(f) <= SumOf(g) /\ SumOf(f) \in Nat BY <1>5, <1>7, <1>8, <1>9, SumGrows, SumIsNat
<1>11. tally = SumOf(g)
  <2>1. [o \in Rows |-> CountedAt(o, spendRuns[o].cost)] = g BY <1>2, <1>3
  <2> QED BY <2>1, TallyIs
<1>12. TotalSpent = SumOf(f) BY <1>1 DEF TotalSpent
<1> QED BY <1>10, <1>11, <1>12

\* The hard ceiling holds for any number of orders, any ceilings and prices and
\* any restarts, when passes do not overlap: what was spent on first attempts
\* that kept to their orders' ceilings never passes the highest limit in force.
THEOREM SpendingIsBounded ==
  ASSUME OneDispatcher PROVE SpendSpec => []FirstAttemptsWithinCeiling
<1>1. ASSUME SpendInv PROVE FirstAttemptsWithinCeiling
  <2> SUFFICES ASSUME FirstAttempts PROVE TotalSpent <= highest
    BY DEF FirstAttemptsWithinCeiling, FirstAttempts
  <2>1. TotalSpent <= tally /\ TotalSpent \in Nat BY <1>1, CountsCoverSpending
  <2>2. tally <= highest /\ tally \in Nat /\ highest \in Nat
    BY <1>1, TallyType DEF SpendInv, LedgerBounded, SpendShape
  <2> QED BY <2>1, <2>2
<1> QED BY <1>1, SpendStarts, SpendStep, PTL DEF SpendSpec

\* The spend gate's state keeps its types, overlapping passes or not: in particular no
\* process holds a handle of a run that is over.
THEOREM SpendingIsTyped == SpendSpec => []SpendOK
<1>1. ASSUME SpendInv PROVE SpendOK
  <2>1. SpendShape BY <1>1 DEF SpendInv
  <2>2. MaxProcessSpend <= MaxProcessSpend * (MaxSpendRestarts + 1)
        /\ MaxProcessSpend * (MaxSpendRestarts + 1) \in Nat
    BY SpendConstants, SMT
  <2>3. ASSUME NEW o \in Orders, NEW k \in NoCost..MaxProcessSpend
        PROVE  k \in NoCost..(MaxProcessSpend * (MaxSpendRestarts + 1))
    BY <2>2, SpendConstants DEF NoCost
  <2> QED BY <2>1, <2>3 DEF SpendShape, SpendRow, AdmissionOK, SpendOK
<1> QED BY <1>1, SpendStarts, SpendStep, PTL DEF SpendSpec

-----------------------------------------------------------------------------
(* The dead time ledger.  The argument: whatever a pass writes it took from *)
(* the run or from the table, and both hold instants that have passed.      *)

LedgerSpec == DeadInit /\ [][DeadNext]_deadVars

Observations == [kind : Kinds, since : Times]
Writes       == [op : {"close", "open"}, interval : Nat, at : Times, kind : Kinds]

IntervalOK(v) ==
  /\ v.kind \in Kinds /\ v.startedAt \in Times
  /\ v.endedAt \in Times \cup {StillOpen}

\* The table, the run, and what the tick holds of them.
LedgerOK == IsSeq(intervals) /\ \A i \in DOMAIN intervals : IntervalOK(intervals[i])

DeadRunOK ==
  /\ DOMAIN deadRun = {"status", "lastEventAt", "blockedSince", "endedAt"}
  /\ deadRun.status \in Live \cup {"ended"}
  /\ deadRun.lastEventAt \in 0..deadClock /\ deadRun.blockedSince \in 0..deadClock
  /\ deadRun.endedAt \in Times

SweepOK ==
  /\ DOMAIN sweep = {"step", "seen", "judged", "writes"}
  /\ sweep.step \in {"idle", "git", "watchdog", "live", "tick", "record"}
  /\ sweep.seen \in Seq(Observations) /\ Len(sweep.seen) <= 2
  /\ sweep.step = "live" => Len(sweep.seen) <= 1
  /\ \A i \in DOMAIN sweep.writes : sweep.writes[i] \in Seq(Writes)

DeadInv == /\ deadClock \in Times /\ DeadRunOK /\ LedgerOK /\ SweepOK
           /\ deadFaults \in 0..MaxDeadFaults

\* Between two ticks nothing is observed and nothing is to be written.
LEMMA NoTickFits ==
  /\ DOMAIN NoTick = {"step", "seen", "judged", "writes"}
  /\ NoTick.step = "idle" /\ NoTick.seen = <<>> /\ NoTick.writes = <<>>
  /\ <<>> \in Seq(Observations) /\ Len(<<>>) = 0 /\ DOMAIN <<>> = {}
BY SeqEmpty DEF NoTick

\* An empty ledger and a run that has just begun.
LEMMA DeadStarts == DeadInit => DeadInv
<1> SUFFICES ASSUME DeadInit PROVE DeadInv OBVIOUS
<1>1. LedgerOK BY SeqEmpty DEF DeadInit, LedgerOK
<1>2. DeadRunOK /\ deadClock \in Times /\ deadFaults \in 0..MaxDeadFaults
  BY DeadConstants DEF DeadInit, DeadRunOK, Times, Live
<1>3. SweepOK BY NoTickFits DEF DeadInit, SweepOK
<1> QED BY <1>1, <1>2, <1>3 DEF DeadInv

\* What becomes of an open interval is closed and opened at instants that have passed.
LEMMA PlansFit ==
  ASSUME DeadInv, NEW i \in DOMAIN intervals PROVE WritesFor(i) \in Seq(Writes)
<1> DEFINE v == intervals[i]
           o == Last(sweep.seen)
           End(at) == Close(i, latest(at, v.startedAt))
<1>1. i \in Nat /\ v.startedAt \in Times
  BY SeqIds DEF DeadInv, LedgerOK, IntervalOK
<1>2. \A at \in Times : Close(i, at) \in Writes
  BY <1>1 DEF Close, Writes, Kinds
<1>3. \A at \in Times : latest(at, v.startedAt) \in Times
  BY <1>1 DEF latest, Times
<1>4. deadRun.endedAt \in Times /\ deadRun.lastEventAt \in Times
  BY DeadConstants DEF DeadInv, DeadRunOK, Times
<1>5. CASE deadRun.status \notin Live
  <2>1. WritesFor(i) = <<End(deadRun.endedAt)>> BY <1>5 DEF WritesFor
  <2> QED BY <2>1, <1>2, <1>3, <1>4
<1>6. CASE deadRun.status \in Live /\ sweep.seen = <<>>
  <2>1. WritesFor(i) = IF sweep.judged THEN <<End(deadRun.lastEventAt)>> ELSE <<>>
    BY <1>6 DEF WritesFor
  <2> QED BY <2>1, <1>2, <1>3, <1>4
<1>7. CASE deadRun.status \in Live /\ sweep.seen # <<>>
  <2>1. WritesFor(i) = IF o.kind = v.kind /\ o.since <= v.startedAt THEN <<>>
                       ELSE <<Close(i, o.since), Open(o)>>
    BY <1>7 DEF WritesFor
  <2>2. o \in Observations BY <1>7 DEF DeadInv, SweepOK, Last
  <2>3. Open(o) \in Writes /\ Close(i, o.since) \in Writes
    BY <2>2, <1>2 DEF Open, Writes, Observations
  <2> QED BY <2>1, <2>3
<1> QED BY <1>5, <1>6, <1>7

\* The run and the clock: every instant of the run is one that has passed.
LEMMA RunMovesKeep ==
  ASSUME DeadInv, NEW block \in BOOLEAN, NEW at \in Times,
         TimePasses \/ RunResumed \/ RunLost \/ RunReports(block) \/ RunConcludes(at)
  PROVE  DeadInv'
<1>1. LedgerOK' /\ SweepOK' /\ deadFaults' \in 0..MaxDeadFaults
  BY DEF DeadInv, LedgerOK, SweepOK, TimePasses, RunResumed, RunLost, RunReports, RunConcludes
<1>2. deadClock' \in Times
  BY DeadConstants DEF DeadInv, Times, TimePasses, RunResumed, RunLost, RunReports, RunConcludes
<1>3. DeadRunOK'
  <2>1. CASE TimePasses BY <2>1, DeadConstants DEF DeadInv, DeadRunOK, Times, TimePasses
  <2>2. CASE RunResumed BY <2>2 DEF DeadInv, DeadRunOK, RunResumed, Live
  <2>3. CASE RunLost BY <2>3 DEF DeadInv, DeadRunOK, RunLost, Live
  <2>4. CASE RunReports(block)
    <3>1. /\ deadClock' = deadClock /\ DOMAIN deadRun' = DOMAIN deadRun
          /\ deadRun'.status \in Live /\ deadRun'.lastEventAt = deadClock
          /\ deadRun'.blockedSince \in {deadClock, deadRun.blockedSince}
          /\ deadRun'.endedAt = deadRun.endedAt
      BY <2>4 DEF RunReports, DeadInv, DeadRunOK, Live
    <3> QED BY <3>1, DeadConstants DEF DeadInv, DeadRunOK, Times
  <2>5. CASE RunConcludes(at) BY <2>5 DEF DeadInv, DeadRunOK, RunConcludes, Live
  <2> QED BY <2>1, <2>2, <2>3, <2>4, <2>5
<1> QED BY <1>1, <1>2, <1>3 DEF DeadInv

\* A tick that has nothing to write yet.
LEMMA FreshTick ==
  ASSUME DOMAIN sweep' = DOMAIN NoTick, sweep'.step \in {"idle", "git", "watchdog", "live"},
         sweep'.seen \in Seq(Observations), Len(sweep'.seen) <= 1, sweep'.writes = <<>>
  PROVE  SweepOK'
<1>1. DOMAIN sweep'.writes = {} BY NoTickFits
<1>2. Len(sweep'.seen) \in Nat OBVIOUS
<1> QED BY <1>1, <1>2, NoTickFits DEF SweepOK

\* The observation of a tick: the last event, the newest block and nothing else.
LEMMA ObservingKeeps ==
  ASSUME DeadInv, loadWatchedRuns \/ updateRun \/ detectSilentRuns \/ sweepBlocked
  PROVE  DeadInv'
<1>1. LedgerOK' /\ deadFaults' \in 0..MaxDeadFaults /\ deadClock' = deadClock
  BY DEF DeadInv, LedgerOK, loadWatchedRuns, updateRun, detectSilentRuns, sweepBlocked
<1>2. /\ \A k \in Kinds, t \in Times : Observation(k, t) \in Observations
      /\ "stalled" \in Kinds /\ "parked" \in Kinds
      /\ deadRun.lastEventAt \in Times /\ deadRun.blockedSince \in Times
  BY DeadConstants DEF Observation, Observations, Kinds, DeadInv, DeadRunOK, Times
<1>3. CASE loadWatchedRuns
  <2>1. SweepOK'
    <3>1. DOMAIN sweep' = DOMAIN NoTick /\ sweep'.step = "git"
      BY <1>3, NoTickFits DEF loadWatchedRuns
    <3>2. sweep'.seen = <<>> /\ sweep'.writes = <<>> BY <1>3, NoTickFits DEF loadWatchedRuns
    <3> QED BY <3>1, <3>2, FreshTick, NoTickFits
  <2> QED BY <1>1, <1>3, <2>1 DEF DeadInv, DeadRunOK, loadWatchedRuns
<1>4. CASE updateRun
  <2>1. SweepOK'
    <3>1. DOMAIN sweep' = DOMAIN NoTick /\ sweep'.step = "watchdog"
      BY <1>4, NoTickFits DEF updateRun
    <3>2. sweep'.seen = <<>> /\ sweep'.writes = <<>> BY <1>4, NoTickFits DEF updateRun
    <3> QED BY <3>1, <3>2, FreshTick, NoTickFits
  <2>2. DeadRunOK' BY <1>4, DeadConstants DEF DeadInv, DeadRunOK, updateRun, Times
  <2> QED BY <1>1, <2>1, <2>2 DEF DeadInv
<1>5. CASE detectSilentRuns
  <2> DEFINE o == Observation("stalled", deadRun.lastEventAt)
  <2>1. /\ DOMAIN sweep' = DOMAIN NoTick /\ sweep'.step = "live" /\ sweep'.writes = <<>>
        /\ sweep'.seen \in {<<>>, <<o>>}
    BY <1>5, NoTickFits DEF detectSilentRuns
  <2>o. o \in Observations BY <1>2
  <2> HIDE DEF o
  <2>2. sweep'.seen \in Seq(Observations) /\ Len(sweep'.seen) <= 1
    <3>1. <<o>> \in Seq(Observations) /\ Len(<<o>>) = 1 BY <2>o
    <3>2. CASE sweep'.seen = <<>> BY <3>2, NoTickFits
    <3>3. CASE sweep'.seen = <<o>> BY <3>3, <3>1
    <3> QED BY <2>1, <3>2, <3>3
  <2>3. SweepOK' BY <2>1, <2>2, FreshTick, NoTickFits
  <2> QED BY <1>1, <1>5, <2>3 DEF DeadInv, DeadRunOK, detectSilentRuns
<1>6. CASE sweepBlocked
  <2> DEFINE o == Observation("parked", deadRun.blockedSince)
  <2>1. /\ DOMAIN sweep' = DOMAIN sweep /\ sweep'.step = "tick" /\ sweep'.writes = sweep.writes
        /\ sweep'.seen \in {sweep.seen, Append(sweep.seen, o)}
    BY <1>6 DEF sweepBlocked, DeadInv, SweepOK
  <2>2. o \in Observations BY <1>2
  <2>3. sweep.seen \in Seq(Observations) /\ Len(sweep.seen) <= 1
    BY <1>6 DEF sweepBlocked, DeadInv, SweepOK
  <2> HIDE DEF o
  <2>4. sweep'.seen \in Seq(Observations) /\ Len(sweep'.seen) <= 2 BY <2>1, <2>2, <2>3
  <2>5. SweepOK' BY <2>1, <2>4 DEF DeadInv, SweepOK
  <2> QED BY <1>1, <1>6, <2>5 DEF DeadInv, DeadRunOK, sweepBlocked
<1> QED BY <1>3, <1>4, <1>5, <1>6

\* The ledger's pass writes what it planned, or gives the rest up.
LEMMA RecordingKeeps ==
  ASSUME DeadInv, RecordRead \/ RecordFails \/ RecordEnds
                  \/ \E i \in DOMAIN sweep.writes : RecordWrite(i)
  PROVE  DeadInv'
<1>1. /\ deadClock' = deadClock /\ deadRun' = deadRun
      /\ deadFaults' = deadFaults \/ (deadFaults < MaxDeadFaults /\ deadFaults' = deadFaults + 1)
  BY DEF RecordRead, RecordWrite, RecordFails, RecordEnds
<1>f. deadFaults' \in 0..MaxDeadFaults BY <1>1, DeadConstants DEF DeadInv
<1>2. deadClock' \in Times /\ DeadRunOK' BY <1>1 DEF DeadInv, DeadRunOK
<1>3. CASE RecordRead
  <2> DEFINE opens == [i \in {0} |-> [k \in DOMAIN sweep.seen |-> Open(sweep.seen[k])]]
             plans == [i \in OpenIntervals |-> WritesFor(i)]
  <2>1. LedgerOK' BY <1>3 DEF DeadInv, LedgerOK, RecordRead
  <2>2. /\ DOMAIN sweep' = DOMAIN sweep /\ sweep'.step = "record" /\ sweep'.seen = sweep.seen
        /\ sweep'.writes \in {opens, plans}
    BY <1>3 DEF RecordRead, DeadInv, SweepOK
  <2>3. \A i \in DOMAIN opens : opens[i] \in Seq(Writes)
    <3>1. /\ sweep.seen \in Seq(Observations) /\ Len(sweep.seen) \in Nat
          /\ DOMAIN sweep.seen = 1..Len(sweep.seen)
      BY DEF DeadInv, SweepOK
    <3>2. \A o \in Observations : Open(o) \in Writes BY DEF Open, Observations, Writes
    <3>3. \A k \in DOMAIN sweep.seen : sweep.seen[k] \in Observations BY <3>1
    <3>4. [k \in DOMAIN sweep.seen |-> Open(sweep.seen[k])] \in [1..Len(sweep.seen) -> Writes]
      BY <3>1, <3>2, <3>3
    <3> QED BY <3>1, <3>4
  <2>4. \A i \in DOMAIN plans : plans[i] \in Seq(Writes) BY PlansFit DEF OpenIntervals
  <2> HIDE DEF opens, plans
  <2>5. SweepOK' BY <2>2, <2>3, <2>4 DEF DeadInv, SweepOK
  <2> QED BY <1>f, <1>2, <2>1, <2>5 DEF DeadInv
<1>4. CASE \E i \in DOMAIN sweep.writes : RecordWrite(i)
  <2>0. PICK i \in DOMAIN sweep.writes : RecordWrite(i) BY <1>4
  <2> DEFINE w == Head(sweep.writes[i])
             row == [kind |-> w.kind, startedAt |-> w.at, endedAt |-> StillOpen]
  <2>1. sweep.writes[i] \in Seq(Writes) /\ sweep.writes[i] # <<>>
    BY <2>0 DEF RecordWrite, Unwritten, DeadInv, SweepOK
  <2>2. w \in Writes /\ Tail(sweep.writes[i]) \in Seq(Writes) BY <2>1
  <2>3. w.at \in Times /\ w.kind \in Kinds BY <2>2 DEF Writes
  <2>4. row.kind = w.kind /\ row.startedAt = w.at /\ row.endedAt = StillOpen OBVIOUS
  <2>5. IntervalOK(row) BY <2>3, <2>4 DEF IntervalOK
  <2>6. LedgerOK'
    <3>1. CASE intervals' = intervals BY <3>1 DEF DeadInv, LedgerOK
    <3>2. CASE intervals' = Append(intervals, row)
      BY <3>2, <2>5, SeqIds, SeqAppend DEF DeadInv, LedgerOK
    <3>3. CASE intervals' = [intervals EXCEPT ![w.interval].endedAt = w.at]
      <4> DEFINE e == [intervals[w.interval] EXCEPT !.endedAt = w.at]
      <4>1. intervals' = [intervals EXCEPT ![w.interval] = e] BY <3>3
      <4>2. w.interval \in DOMAIN intervals => IntervalOK(e)
        BY <2>3 DEF DeadInv, LedgerOK, IntervalOK
      <4> HIDE DEF e, w
      <4> QED BY <4>1, <4>2, SeqReplace DEF DeadInv, LedgerOK
    <3> QED BY <2>0, <3>1, <3>2, <3>3 DEF RecordWrite
  <2>7. SweepOK'
    <3>1. sweep' = [sweep EXCEPT !.writes = [sweep.writes EXCEPT ![i] = Tail(sweep.writes[i])]]
      BY <2>0 DEF RecordWrite
    <3>2. /\ DOMAIN sweep' = DOMAIN sweep /\ sweep'.step = sweep.step /\ sweep'.seen = sweep.seen
          /\ sweep'.writes = [sweep.writes EXCEPT ![i] = Tail(sweep.writes[i])]
      BY <3>1 DEF DeadInv, SweepOK
    <3>3. \A j \in DOMAIN sweep'.writes : sweep'.writes[j] \in Seq(Writes)
      BY <3>2, <2>2 DEF DeadInv, SweepOK
    <3> QED BY <3>2, <3>3 DEF DeadInv, SweepOK
  <2> QED BY <1>f, <1>2, <2>6, <2>7 DEF DeadInv
<1>5. CASE RecordFails \/ RecordEnds
  <2>1. LedgerOK' /\ sweep' = NoTick
    BY <1>5 DEF DeadInv, LedgerOK, RecordFails, RecordEnds
  <2>2. SweepOK' BY <2>1, FreshTick, NoTickFits
  <2> QED BY <1>f, <1>2, <2>1, <2>2 DEF DeadInv
<1> QED BY <1>3, <1>4, <1>5

\* Every step of the run and of the tick.
LEMMA DeadStep == DeadInv /\ [DeadNext]_deadVars => DeadInv'
<1> SUFFICES ASSUME DeadInv, [DeadNext]_deadVars PROVE DeadInv' OBVIOUS
<1>1. CASE DeadNext
  <2>1. 0 \in Times /\ TRUE \in BOOLEAN BY DeadConstants DEF Times
  <2> QED BY <1>1, <2>1, RunMovesKeep, ObservingKeeps, RecordingKeeps DEF DeadNext, SweepStep
<1>2. CASE UNCHANGED deadVars
  BY <1>2 DEF deadVars, DeadInv, DeadRunOK, LedgerOK, SweepOK
<1> QED BY <1>1, <1>2

\* The ledger of dead time keeps its types: an interval starts and ends at an
\* instant of the clock or is open, whatever the watchdog saw and whichever write failed
\* (DeadTimeService.record).
THEOREM DeadTimeIsTyped == LedgerSpec => []DeadOK
<1>1. DeadInv => DeadOK
  BY DEF DeadInv, DeadRunOK, LedgerOK, IntervalOK, SweepOK, DeadOK
<1> QED BY <1>1, DeadStarts, DeadStep, PTL DEF LedgerSpec

-----------------------------------------------------------------------------
(* The platform.  The parts share no state, so every step of the sum is a    *)
(* step of one part and leaves the others alone; a behaviour of the sum is   *)
(* one of each part, and what was proved of a part holds of the sum.         *)

\* A step of the sum, seen by each part.
LEMMA StepsOfTheParts ==
  ASSUME [MCNext]_vars
  PROVE  /\ [EscalationNext]_escalationVars /\ [SpendNext]_spendVars
         /\ [SettingsNext]_settingVars /\ [IssueNext]_issueVars
         /\ [DeadNext]_deadVars /\ [RepositoryNext]_repositoryVars
         /\ [SteeringNext]_steeringVars /\ [SupervisorNext]_supervisorVars
         /\ [GitHubNext]_githubVars
<1>1. CASE UNCHANGED vars BY <1>1 DEF vars
<1>2. CASE Only("escalations") /\ EscalationNext BY <1>2 DEF Only
<1>3. CASE Only("spend") /\ SpendNext BY <1>3 DEF Only
<1>4. CASE Only("settings") /\ SettingsNext BY <1>4 DEF Only
<1>5. CASE Only("issues") /\ IssueNext BY <1>5 DEF Only
<1>6. CASE Only("dead time") /\ DeadNext BY <1>6 DEF Only
<1>7. CASE Only("repositories") /\ RepositoryNext BY <1>7 DEF Only
<1>8. CASE Only("steering") /\ SteeringNext BY <1>8 DEF Only
<1>9. CASE Only("supervisor") /\ SupervisorNext BY <1>9 DEF Only
<1>10. CASE Only("github") /\ GitHubNext BY <1>10 DEF Only
<1> QED
  BY <1>1, <1>2, <1>3, <1>4, <1>5, <1>6, <1>7, <1>8, <1>9, <1>10 DEF MCNext

\* The sum is each of its parts: what is proved of a part alone is proved of the
\* specification that is model-checked.
THEOREM PlatformIsItsParts ==
  MCSpec => /\ EscalationSpec /\ SpendSpec /\ SettingsSpec /\ IssueSpec /\ LedgerSpec
            /\ RepositorySpec /\ SteeringSpec /\ SupervisorSpec /\ GitHubSpec
<1>1. MCInit => /\ EscalationInit /\ SpendInit /\ SettingsInit /\ IssueInit /\ DeadInit
                /\ RepositoryInit /\ SteeringInit /\ SupervisorInit /\ GitHubInit
  BY DEF MCInit
<1>2. [MCNext]_vars => /\ [EscalationNext]_escalationVars /\ [SpendNext]_spendVars
                       /\ [SettingsNext]_settingVars /\ [IssueNext]_issueVars
                       /\ [DeadNext]_deadVars /\ [RepositoryNext]_repositoryVars
                       /\ [SteeringNext]_steeringVars /\ [SupervisorNext]_supervisorVars
                       /\ [GitHubNext]_githubVars
  BY StepsOfTheParts
<1> QED BY <1>1, <1>2, PTL
  DEF MCSpec, EscalationSpec, SpendSpec, SettingsSpec, IssueSpec, LedgerSpec, RepositorySpec,
      SteeringSpec, SupervisorSpec, GitHubSpec

\* Every part of the platform keeps its types, for any number of devices, orders,
\* operators, callers, processes and overlapping passes, and any number of faults.
THEOREM PlatformIsTyped == MCSpec => []PlatformTypeOK
<1>1. /\ EscalationsOK /\ SpendOK /\ SettingsOK /\ IssuesOK /\ DeadOK
      /\ RepositoriesOK /\ SteeringOK /\ SupervisorOK /\ GitHubOK
      => PlatformTypeOK
  BY DEF PlatformTypeOK
<1> QED BY <1>1, PlatformIsItsParts, EscalationsAreTyped, SpendingIsTyped, SettingsAreTyped,
           IssuesAreTyped, DeadTimeIsTyped, RepositoriesAreTyped, SteeringIsTyped,
           SupervisorIsTyped, ReadsAreTyped, PTL
=============================================================================
