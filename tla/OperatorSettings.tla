--------------------------- MODULE OperatorSettings ---------------------------
(***************************************************************************)
(* The operator settings overlay (settings/operator-settings/              *)
(* operator-settings.service.ts, operator-settings-refresh.task.ts): rows  *)
(* in the database, a copy of them in every API process, and the services  *)
(* that keep a resolved value of their own and are told of changes, such   *)
(* as HardSpendCeilingService (budget/hard-spend-ceiling.ts).              *)
(*                                                                         *)
(* A refresh reads the rows, then the revision, and swaps the copy after   *)
(* the await.  The two reads are in one transaction, but of the database's *)
(* default isolation, READ COMMITTED: each statement sees what is          *)
(* committed when it runs, and a write may come between them.  Refreshes   *)
(* overlap: the fifteen-second timer's and the one at the end of every     *)
(* write.                                                                  *)
(***************************************************************************)
EXTENDS Naturals, Sequences, FiniteSets

CONSTANTS
  Processes,         \* API processes
  PlainKeys,         \* managed keys stored as plain values
  SecretKeys,        \* managed keys stored sealed
  SettingValues,     \* values the registry accepts
  Environment,       \* [Keys -> what the environment supplies]
  StartRows,         \* the rows an earlier build may have left
  MaxSettingWrites,  \* bound: writes
  MaxOutages         \* bound: refreshes whose read fails

Keys    == PlainKeys \cup SecretKeys
Slots   == {"timer", "write"}

\* A row or an environment variable: nothing, a plain value or a sealed one.
\* Rejected is a value this build's registry refuses, Unreadable a secret
\* sealed under another key.
Absent     == [kind |-> "absent", raw |-> "none"]
Plain(v)   == [kind |-> "value", raw |-> v]
Sealed(v)  == [kind |-> "secret", raw |-> v]
Rejected   == "rejected"
Unreadable == "unreadable"
Entries    == {Absent} \cup {Plain(v) : v \in SettingValues \cup {Rejected}}
                       \cup {Sealed(v) : v \in SettingValues \cup {Unreadable}}
Default    == "default"
Fallback   == "invalid fallback"

ASSUME SettingConstants ==
  /\ Environment \in [Keys -> {Absent} \cup {Plain(v) : v \in SettingValues \cup {Rejected}}]
  /\ StartRows \subseteq [Keys -> Entries]
  /\ MaxSettingWrites \in Nat /\ MaxOutages \in Nat

VARIABLES
  settingRows,      \* the operator_settings rows
  settingHistory,   \* observed: the rows at each revision; its length is the revision
  overlay,          \* per process: the copy, its revision and its status
  refreshes,        \* per process and slot: the refresh between write, reads and swap
  settingCache,     \* per process: the value a listening service keeps
  outages

settingVars == <<settingRows, settingHistory, overlay, refreshes, settingCache, outages>>

settingRevision == Len(settingHistory)
NoRows    == [k \in Keys |-> Absent]
NoRefresh == [step |-> "idle", rows |-> NoRows, revision |-> 0, key |-> "none", since |-> 1]
NoOverlay == [rows |-> NoRows, revision |-> 0, status |-> "unavailable"]

SettingsOK ==
  /\ settingRows \in [Keys -> Entries] /\ settingRevision \in 1..(MaxSettingWrites + 1)
  /\ \A p \in Processes :
       /\ overlay[p].rows \in [Keys -> Entries] /\ overlay[p].revision \in 0..settingRevision
       /\ overlay[p].status \in {"loaded", "unavailable"}
       /\ \A s \in Slots : refreshes[p][s].step \in {"idle", "due", "rows", "read"}
       /\ settingCache[p] \in [Keys -> SettingValues \cup {Default, Fallback}]
  /\ outages \in 0..MaxOutages

-----------------------------------------------------------------------------
(* Resolution *)

parseOperatorSetting(e) == IF e.raw = Rejected THEN Fallback ELSE e.raw

environmentValue(k) ==
  IF Environment[k].kind = "absent" THEN Default ELSE parseOperatorSetting(Environment[k])

\* A stored row decides; the environment is asked only where there is none.  A
\* secret that cannot be opened does not fall back to the environment.
resolve(k, rows) ==
  CASE k \in SecretKeys /\ rows[k].kind = "secret" ->
         IF rows[k].raw = Unreadable THEN Default ELSE parseOperatorSetting(rows[k])
    [] rows[k].kind = "value" -> parseOperatorSetting(rows[k])
    [] OTHER -> environmentValue(k)

Resolved(rows) == [k \in Keys |-> resolve(k, rows)]

\* A process starts with an empty overlay; a service's constructor resolves
\* from the environment and onModuleInit reads the rows.
SettingsInit ==
  /\ settingRows \in StartRows
  /\ settingHistory = <<settingRows>>
  /\ overlay = [p \in Processes |-> NoOverlay]
  /\ refreshes = [p \in Processes |-> [s \in Slots |-> NoRefresh]]
  /\ settingCache = [p \in Processes |-> Resolved(NoRows)]
  /\ outages = 0

-----------------------------------------------------------------------------
(* Refresh *)

First(s) == IF s = "timer" THEN "idle" ELSE "due"

\* One of the two statements of a refresh: it is at step from and comes to step to.
Statement(p, s, from, to, rows, revision) ==
  /\ refreshes[p][s].step = from
  /\ refreshes' = [refreshes EXCEPT ![p][s] =
       [@ EXCEPT !.step = to, !.rows = rows, !.revision = revision]]
  /\ UNCHANGED <<settingRows, settingHistory, overlay, settingCache, outages>>

\* A mutant of ReadOverlay: the revision is read before the rows.
ReadOverlaySwapped(p, s) ==
  \/ Statement(p, s, First(s), "rows", NoRows, settingRevision)
  \/ Statement(p, s, "rows", "read", settingRows, refreshes[p][s].revision)

\* The rows, and then the revision.
ReadOverlay(p, s) ==
  \/ Statement(p, s, First(s), "rows", settingRows, 0)
  \/ Statement(p, s, "rows", "read", refreshes[p][s].rows, settingRevision)

\* A mutant of diffOverlays: a row that is gone is not a change.
diffOverlaysKept(previous, next) ==
  {k \in Keys : next[k] # Absent /\ previous[k] # next[k]}

diffOverlays(previous, next) == {k \in Keys : previous[k] # next[k]}

\* The listeners read the overlay that was just swapped in.
notifyChanged(p, keys, rows) ==
  settingCache' = [settingCache EXCEPT ![p] =
    [k \in Keys |-> IF k \in keys THEN resolve(k, rows) ELSE @[k]]]

\* The swap; after a write its key is announced too, changed or not.
ApplyOverlay(p, s) ==
  LET f == refreshes[p][s] IN
  /\ f.step = "read"
  /\ overlay' = [overlay EXCEPT ![p] =
       [rows |-> f.rows, revision |-> f.revision, status |-> "loaded"]]
  /\ notifyChanged(p, diffOverlays(overlay[p].rows, f.rows) \cup ({f.key} \cap Keys), f.rows)
  /\ refreshes' = [refreshes EXCEPT ![p][s] = NoRefresh]
  /\ UNCHANGED <<settingRows, settingHistory, outages>>

\* The read fails: the last copy stays in force.
markUnavailable(p, s) ==
  LET f == refreshes[p][s] IN
  /\ f.step # "idle" /\ outages < MaxOutages
  /\ overlay' = [overlay EXCEPT ![p].status = "unavailable"]
  /\ notifyChanged(p, {f.key} \cap Keys, overlay[p].rows)
  /\ refreshes' = [refreshes EXCEPT ![p][s] = NoRefresh]
  /\ outages' = outages + 1
  /\ UNCHANGED <<settingRows, settingHistory>>

-----------------------------------------------------------------------------
(* Writes *)

\* set and clear: the row and the revision in one transaction, then a refresh of
\* this process.  A clear of a row that is not there changes nothing, and an
\* empty secret is a clear.
WriteSetting(p, k, e) ==
  /\ settingRevision <= MaxSettingWrites /\ refreshes[p]["write"].step = "idle"
  /\ \/ e = Absent /\ settingRows[k] # Absent
     \/ e # Absent /\ e = IF k \in SecretKeys THEN Sealed(e.raw) ELSE Plain(e.raw)
  /\ e.raw \notin {Rejected, Unreadable}
  /\ settingRows' = [settingRows EXCEPT ![k] = e]
  /\ settingHistory' = Append(settingHistory, settingRows')
  /\ refreshes' = [refreshes EXCEPT ![p]["write"] = [NoRefresh EXCEPT
       !.step = "due", !.key = k, !.since = settingRevision + 1]]
  /\ UNCHANGED <<overlay, settingCache, outages>>

RestartProcess(p) ==
  /\ outages < MaxOutages
  /\ overlay' = [overlay EXCEPT ![p] = NoOverlay]
  /\ refreshes' = [refreshes EXCEPT ![p] = [s \in Slots |-> NoRefresh]]
  /\ settingCache' = [settingCache EXCEPT ![p] = Resolved(NoRows)]
  /\ outages' = outages + 1
  /\ UNCHANGED <<settingRows, settingHistory>>

Refresh(p) == \E s \in Slots : ReadOverlay(p, s) \/ ApplyOverlay(p, s)

SettingsNext ==
  \/ \E p \in Processes :
       \/ Refresh(p) \/ RestartProcess(p)
       \/ \E s \in Slots : markUnavailable(p, s)
       \/ \E k \in Keys, e \in Entries : WriteSetting(p, k, e)

-----------------------------------------------------------------------------
(* Properties *)

\* What a process applies is a state the table was in, never half of one write
\* and half of another, and never later than the revision it reports with it: a
\* caller who sends that revision back as If-Match is not refused for a change
\* it was shown.  The refresh at the end of a write shows that write or a later
\* one, so the answer to a write holds it (refresh, set and clear).  The rows may
\* be earlier than the revision: a write may come between the two statements.
Shows(rows, since, revision) == \E n \in since..revision : rows = settingHistory[n]

OverlayCoversItsRows ==
  \A p \in Processes :
    /\ overlay[p].revision # 0 => Shows(overlay[p].rows, 1, overlay[p].revision)
    /\ \A s \in Slots : refreshes[p][s].step = "read"
         => Shows(refreshes[p][s].rows, refreshes[p][s].since, refreshes[p][s].revision)

\* Once the writes and the outages are over, every service in every process
\* ends up with the value that the stored rows and the environment resolve to:
\* no lost notification, no older read that lands last and stays
\* (refresh, diffOverlays, notifyChanged and the refresh task).
SettingsConverge ==
  \A p \in Processes : <>[](settingCache[p] = Resolved(settingRows))

=============================================================================
