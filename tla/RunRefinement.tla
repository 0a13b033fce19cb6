--------------------------- MODULE RunRefinement ----------------------------
(***************************************************************************)
(* RunLifecycle implements RunStatus: every step of a reconciler pass, a   *)
(* poller pass, a child or a restart is a step of the Run row's contract   *)
(* or leaves the row and its reports alone.  That conclusions are final    *)
(* follows from the contract.                                              *)
(***************************************************************************)
EXTENDS RunLifecycleProofs

RowStep == Row!Next \/ UNCHANGED <<status, Reported>>

\* The reports stay when nothing is stored and the streams only grow.
LEMMA SameReports ==
  ASSUME RunInv, UNCHANGED stored, Grows
  PROVE  Reported' = Reported
<1>1. \A r \in Runs : \A n \in stored[r] : log'[r][n] = log[r][n]
  BY InvParts DEF EventInv, Grows
<1>2. \A r \in Runs : {log'[r][n] : n \in stored[r]} = {log[r][n] : n \in stored[r]}
  BY <1>1
<1> QED
  BY <1>2 DEF Reported

\* A step that moves no row and stores nothing.
LEMMA QuietRow ==
  ASSUME RunInv, UNCHANGED stored, UNCHANGED status, Grows
  PROVE  RowStep
  BY SameReports DEF RowStep

\* A step that moves one row, as the contract allows.
LEMMA MovesRow ==
  ASSUME RunInv, UNCHANGED stored, UNCHANGED log, NEW r \in Runs, NEW s,
         status' = [status EXCEPT ![r] = s],
         \/ s = "running" /\ status[r] = "absent" /\ stored[r] = {}
         \/ s = "deleted" /\ status[r] \in {"running", "stalled"} /\ stored[r] = {}
         \/ s \in {"stalled", "failed"} /\ status[r] \in LIVE_STATUSES
         \/ s = "blocked" /\ status[r] \in LIVE_STATUSES /\ HasBlocked(r)
         \/ s = "running" /\ status[r] \in {"stalled", "blocked"}
         \/ /\ s = "succeeded" /\ status[r] \in LIVE_STATUSES
            /\ \E n \in stored[r] : log[r][n] = "completed"
         \/ s = status[r]
  PROVE  RowStep
<1>1. Reported' = Reported
  BY SameReports, Unmoved
<1>2. Row!Become(r, s)
  BY <1>1 DEF Row!Become
<1>3. Reported[r] = {log[r][n] : n \in stored[r]}
  BY DEF Reported
<1>4. CASE s = status[r]
  BY <1>1, <1>4, InvParts DEF RowStep, TypeOK, RowTypes
<1>5. CASE s = "running" /\ status[r] = "absent" /\ stored[r] = {}
  BY <1>2, <1>3, <1>5 DEF RowStep, Row!Next, Row!Create
<1>6. CASE s = "deleted" /\ status[r] \in {"running", "stalled"} /\ stored[r] = {}
  BY <1>2, <1>3, <1>6 DEF RowStep, Row!Next, Row!Remove, Row!Live
<1>7. CASE s \in {"stalled", "failed"} /\ status[r] \in LIVE_STATUSES
  BY <1>2, <1>7 DEF RowStep, Row!Next, Row!Stall, Row!Fail, Row!Live, LIVE_STATUSES
<1>8. CASE s = "blocked" /\ status[r] \in LIVE_STATUSES /\ HasBlocked(r)
  BY <1>2, <1>3, <1>8 DEF RowStep, Row!Next, Row!Park, Row!Live, LIVE_STATUSES, HasBlocked
<1>9. CASE s = "running" /\ status[r] \in {"stalled", "blocked"}
  BY <1>2, <1>9 DEF RowStep, Row!Next, Row!Wake
<1>10. CASE /\ s = "succeeded" /\ status[r] \in LIVE_STATUSES
            /\ \E n \in stored[r] : log[r][n] = "completed"
  BY <1>2, <1>3, <1>10 DEF RowStep, Row!Next, Row!Succeed, Row!Live, LIVE_STATUSES
<1> QED
  BY <1>4, <1>5, <1>6, <1>7, <1>8, <1>9, <1>10

\* Reconciler passes.
LEMMA TickRow ==
  ASSUME RunInv, NEW t \in Ticks, TickStarts(t) \/ TickWorks(t) \/ TickFault(t)
  PROVE  RowStep
<1> DEFINE r == tick[t].run
<1>1. CASE CreateRun(t)
  <2>1. r \in Runs /\ StartsRun(t, r) /\ status[r] = "absent"
    BY <1>1, InvParts DEF CreateRun, TickInv, TickOK, StartsRun, Starting, StartInv, StartOK
  <2>2. stored[r] = {}
    BY <2>1, Eventful
  <2>3. UNCHANGED <<stored, log>> /\ status' = [status EXCEPT ![r] = "running"]
    BY <1>1 DEF CreateRun, runnerVars
  <2> HIDE DEF r
  <2> QED
    BY <2>1, <2>2, <2>3, MovesRow
<1>2. CASE Recover(t)
  <2>1. r \in Runs /\ UNCHANGED <<stored, log>>
    BY <1>2, InvParts DEF Recover, TickInv, TickOK, runnerVars
  <2>2. \E s : /\ status' = [status EXCEPT ![r] = s]
               /\ s = status[r] \/ (s = "failed" /\ status[r] = "running")
    BY <1>2 DEF Recover
  <2> HIDE DEF r
  <2> QED
    BY <2>1, <2>2, MovesRow DEF LIVE_STATUSES
<1>3. CASE RecoverCapacity(t)
  <2>1. r \in Runs /\ tick[t].kind \in {"dispatch", "resume"} /\ UNCHANGED log
    BY <1>3, InvParts DEF RecoverCapacity, TickInv, TickOK, runnerVars
  <2>2. CASE tick[t].kind = "dispatch"
    <3>1. StartsRun(t, r) /\ status[r] \in {"running", "stalled"}
      BY <1>3, <2>2, InvParts DEF RecoverCapacity, StartsRun, Starting, StartInv, StartOK
    <3>2. stored[r] = {}
      BY <2>1, <3>1, Eventful
    <3>3. stored' = [stored EXCEPT ![r] = {}] /\ status' = [status EXCEPT ![r] = "deleted"]
      BY <1>3, <2>2 DEF RecoverCapacity
    <3> HIDE DEF r
    <3>4. UNCHANGED stored
      BY <3>2, <3>3, InvParts DEF TypeOK, RowTypes
    <3> QED
      BY <2>1, <3>1, <3>2, <3>3, <3>4, MovesRow
  <2>3. CASE tick[t].kind = "resume"
    <3>1. HasBlocked(r) /\ UNCHANGED stored
      BY <1>3, <2>3, InvParts DEF RecoverCapacity, ResumeInv
    <3>2. \/ UNCHANGED status
          \/ status[r] = "running" /\ status' = [status EXCEPT ![r] = "blocked"]
      BY <1>3, <2>3 DEF RecoverCapacity
    <3> HIDE DEF r
    <3> QED
      BY <2>1, <3>1, <3>2, MovesRow, QuietRow, Unmoved DEF LIVE_STATUSES
  <2> QED
    BY <2>1, <2>2, <2>3
<1>4. CASE ClaimParked(t)
  <2>1. r \in Runs /\ UNCHANGED <<stored, log>>
    BY <1>4, InvParts DEF ClaimParked, TickInv, TickOK, runnerVars
  <2>2. \/ UNCHANGED status
        \/ status[r] = "blocked" /\ status' = [status EXCEPT ![r] = "running"]
    BY <1>4 DEF ClaimParked
  <2> HIDE DEF r
  <2> QED
    BY <2>1, <2>2, MovesRow, QuietRow, Unmoved
<1>5. CASE Provision(t)
  <2>1. r \in Runs /\ "started" \in Kinds
    BY <1>5, InvParts DEF Provision, TickInv, TickOK, Kinds
  <2>2. /\ UNCHANGED stored /\ UNCHANGED status
        /\ log' = [log EXCEPT ![r] = Append(@, "started")]
        /\ \A s \in Runs : pending'[s] \subseteq pending[s] \cup
                           (IF s = r THEN {Len(log[r]) + 1} ELSE {})
        /\ \A s \in Runs \ {r} : entry'[s] = entry[s]
    BY <1>5, InvParts DEF Provision, rowVars, TypeOK, RunnerTypes
  <2> HIDE DEF r
  <2>3. Grows
    BY <2>1, <2>2, Appended
  <2> QED
    BY <2>2, <2>3, QuietRow
<1>6. ASSUME UNCHANGED <<stored, status, log>> PROVE RowStep
  BY <1>6, Unmoved, QuietRow
<1>7. ASSUME NEW s \in Runs, Decide(t, s) PROVE RowStep
  BY <1>6, <1>7 DEF Decide, rowVars, runnerVars
<1>8. ASSUME NEW s \in Runs, WatchdogPark(t, s) PROVE RowStep
  BY <1>6, <1>8 DEF WatchdogPark, rowVars, runnerVars
<1>9. ASSUME NEW s \in Runs, WatchdogResume(t, s) PROVE RowStep
  BY <1>6, <1>9 DEF WatchdogResume, rowVars, runnerVars
<1>10. CASE WriteRecords(t)
  BY <1>6, <1>10 DEF WriteRecords, rowVars, runnerVars
<1>11. CASE Submit(t)
  BY <1>6, <1>11 DEF Submit, rowVars, runnerVars
<1>12. CASE MarkDispatched(t)
  BY <1>6, <1>12 DEF MarkDispatched, rowVars, runnerVars
<1>13. CASE WritePlan(t)
  BY <1>6, <1>13 DEF WritePlan, rowVars, runnerVars
<1>14. CASE ResumeGates(t)
  BY <1>6, <1>14 DEF ResumeGates, rowVars, runnerVars
<1>15. CASE CloseParkedAttempt(t)
  BY <1>6, <1>15 DEF CloseParkedAttempt, rowVars, runnerVars
<1>16. CASE OpenResumedAttempt(t)
  BY <1>6, <1>16 DEF OpenResumedAttempt, rowVars, runnerVars
<1>17. CASE TickFault(t)
  BY <1>6, <1>17 DEF TickFault, rowVars, runnerVars
<1> QED
  BY <1>1, <1>2, <1>3, <1>4, <1>5, <1>7, <1>8, <1>9, <1>10, <1>11, <1>12, <1>13, <1>14, <1>15,
     <1>16, <1>17
     DEF TickStarts, TickWorks

\* Poller passes.
LEMMA PollRow ==
  ASSUME RunInv, NEW p \in Pollers, PollWorks(p) \/ PollFault(p)
  PROVE  RowStep
<1> DEFINE r == poll[p].run
<1>1. CASE StoreEvents(p)
  <2>1. r \in Runs /\ UNCHANGED <<log, status>> /\ poll[p].batch \subseteq Events(r)
    BY <1>1, InvParts DEF StoreEvents, BatchInv, Ingesting, runnerVars
  <2>2. CASE UNCHANGED stored
    BY <2>1, <2>2, Unmoved, QuietRow
  <2>3. CASE /\ status[r] \notin {"absent", "deleted"}
             /\ stored' = [stored EXCEPT ![r] = @ \cup poll[p].batch]
    <3> DEFINE more == {log[r][n] : n \in poll[p].batch}
    <3>1. \A s \in Runs : stored'[s] = IF s = r THEN stored[s] \cup poll[p].batch ELSE stored[s]
      BY <2>3, InvParts DEF TypeOK, RowTypes
    <3>2. more \in SUBSET Row!Kinds
      <4>1. \A n \in Events(r) : log[r][n] \in Kinds
        BY <2>1, InvParts DEF TypeOK, RunnerTypes, Events
      <4> QED
        BY <2>1, <4>1 DEF Row!Kinds, Kinds, TerminalKinds
    <3>3. Reported' = [Reported EXCEPT ![r] = @ \cup more]
      <4>1. \A s \in Runs : {log'[s][n] : n \in stored'[s]} =
              IF s = r THEN {log[s][n] : n \in stored[s]} \cup more
                       ELSE {log[s][n] : n \in stored[s]}
        <5> SUFFICES ASSUME NEW s \in Runs
                     PROVE  {log[s][n] : n \in stored'[s]} =
              IF s = r THEN {log[s][n] : n \in stored[s]} \cup more
                       ELSE {log[s][n] : n \in stored[s]}
          BY <2>1
        <5>1. CASE s = r
          <6>1. stored'[r] = stored[r] \cup poll[p].batch
            BY <2>1, <3>1
          <6>2. {log[r][n] : n \in stored[r] \cup poll[p].batch} =
                  {log[r][n] : n \in stored[r]} \cup more
            OBVIOUS
          <6> QED
            BY <5>1, <6>1, <6>2
        <5>2. CASE s # r
          BY <3>1, <5>2
        <5> QED
          BY <5>1, <5>2
      <4> HIDE DEF r, more
      <4> QED
        BY <4>1 DEF Reported
    <3> QED
      BY <2>1, <2>3, <3>2, <3>3 DEF RowStep, Row!Next, Row!Report, Row!Gone
  <2> QED
    BY <1>1, <2>2, <2>3 DEF StoreEvents
<1>2. CASE ConcludeRun(p)
  <2>1. UNCHANGED <<stored, log>>
    BY <1>2 DEF ConcludeRun, runnerVars
  <2>2. PICK n \in poll[p].batch :
          \/ /\ status[r] \in LIVE_STATUSES
             /\ status' = [status EXCEPT ![r] =
                   IF log[r][n] = "completed" THEN "succeeded" ELSE "failed"]
          \/ UNCHANGED status
    BY <1>2 DEF ConcludeRun, TerminalIn
  <2>3. r \in Runs /\ n \in stored[r]
    BY <1>2, AtTransition DEF ConcludeRun
  <2> HIDE DEF r
  <2> QED
    BY <2>1, <2>2, <2>3, MovesRow, QuietRow, Unmoved
<1>3. CASE BlockRun(p)
  <2>1. UNCHANGED <<stored, log>>
    BY <1>3 DEF BlockRun, runnerVars
  <2>2. r \in Runs /\ HasBlocked(r)
    BY <1>3, AtTransition DEF BlockRun, HasBlocked
  <2>3. \E s : /\ status' = [status EXCEPT ![r] = s]
               /\ s = status[r] \/ (s = "blocked" /\ status[r] \in LIVE_STATUSES)
    BY <1>3 DEF BlockRun
  <2> HIDE DEF r
  <2> QED
    BY <2>1, <2>2, <2>3, MovesRow
<1>4. CASE ResumeRun(p)
  <2>1. r \in Runs /\ UNCHANGED <<stored, log>>
    BY <1>4, AtTransition DEF ResumeRun, runnerVars
  <2>2. \E s : /\ status' = [status EXCEPT ![r] = s]
               /\ s = status[r] \/ (s = "running" /\ status[r] \in {"stalled", "blocked"})
    BY <1>4 DEF ResumeRun
  <2> HIDE DEF r
  <2> QED
    BY <2>1, <2>2, MovesRow
<1>5. ASSUME NEW x \in Runs, MarkStalled(x), UNCHANGED <<stored, log>> PROVE RowStep
  <2>1. \E s : /\ status' = [status EXCEPT ![x] = s]
               /\ s = status[x] \/ (s = "stalled" /\ status[x] \in LIVE_STATUSES)
    BY <1>5 DEF MarkStalled
  <2> QED
    BY <1>5, <2>1, MovesRow
<1>6. CASE MarkUnknown(p)
  BY <1>5, <1>6, InvParts DEF MarkUnknown, BatchInv, runnerVars
<1>7. ASSUME UNCHANGED <<stored, status, log>> PROVE RowStep
  BY <1>7, Unmoved, QuietRow
<1>8. ASSUME NEW x \in Runs, MarkUntracked(p, x) PROVE RowStep
  BY <1>5, <1>7, <1>8 DEF MarkUntracked, runnerVars
<1>9. ASSUME NEW x \in Runs, NEW h, PollOne(p, x, h) PROVE RowStep
  BY <1>7, <1>9 DEF PollOne, rowVars
<1>10. CASE StartPoll(p)
  BY <1>7, <1>10 DEF StartPoll, rowVars, runnerVars
<1>11. CASE AdvanceRun(p)
  BY <1>7, <1>11 DEF AdvanceRun, rowVars, runnerVars
<1>12. CASE StaleBatch(p)
  BY <1>7, <1>12 DEF StaleBatch, rowVars, runnerVars
<1>13. CASE ConcludeAttempts(p)
  BY <1>7, <1>13 DEF ConcludeAttempts, rowVars, runnerVars
<1>14. CASE AfterIngest(p)
  BY <1>7, <1>14 DEF AfterIngest, rowVars, runnerVars
<1>15. CASE ReconcileUntracked(p)
  BY <1>7, <1>15 DEF ReconcileUntracked, rowVars, runnerVars
<1>16. CASE PollFault(p)
  BY <1>7, <1>16 DEF PollFault, rowVars, runnerVars
<1> QED
  BY <1>1, <1>2, <1>3, <1>4, <1>6, <1>8, <1>9, <1>10, <1>11, <1>12, <1>13, <1>14, <1>15, <1>16
     DEF PollWorks

\* The children, and restarts.
LEMMA OtherRow ==
  ASSUME RunInv, RunnerWorks \/ Restart \/ UNCHANGED vars
  PROVE  RowStep
<1>1. ASSUME UNCHANGED <<stored, status, log>> PROVE RowStep
  BY <1>1, Unmoved, QuietRow
<1>2. ASSUME NEW r \in Runs, NEW kind \in Kinds, Emit(r, kind) \/ Exit(r, kind) PROVE RowStep
  <2>1. /\ UNCHANGED stored /\ UNCHANGED status
        /\ log' = [log EXCEPT ![r] = Append(@, kind)]
    BY <1>2 DEF Emit, Exit, rowVars
  <2>2. /\ \A s \in Runs : pending'[s] \subseteq pending[s] \cup
                           (IF s = r THEN {Len(log[r]) + 1} ELSE {})
        /\ \A s \in Runs \ {r} : entry'[s] = entry[s]
    BY <1>2, InvParts DEF Emit, Exit, TypeOK, RunnerTypes
  <2>3. Grows
    BY <2>1, <2>2, Appended
  <2> QED
    BY <2>1, <2>3, QuietRow
<1>3. ASSUME NEW r \in Runs, OrphanExit(r) PROVE RowStep
  BY <1>1, <1>3 DEF OrphanExit, rowVars
<1>4. CASE Restart
  BY <1>1, <1>4 DEF Restart, rowVars
<1>5. CASE UNCHANGED vars
  BY <1>1, <1>5 DEF vars, rowVars, runnerVars
<1> QED
  BY <1>2, <1>3, <1>4, <1>5 DEF RunnerWorks, Kinds, TerminalKinds

\* Every step of the system is a step of the contract, or none.
LEMMA NextRow == RunInv /\ [Next]_vars => [Row!Next]_<<status, Reported>>
<1> SUFFICES ASSUME RunInv, [Next]_vars PROVE RowStep
  BY DEF RowStep
<1> QED
  BY TickRow, PollRow, OtherRow DEF Next

\* The initial states are initial states of the contract.
LEMMA InitRow == Init => Row!Init
  BY DEF Init, Row!Init, Reported

\* Every behaviour of the system keeps the Run row's contract: statuses move
\* only along RunStatus, `blocked` and `succeeded` follow a stored report, and
\* only a row nothing was reported for is ever deleted.
THEOREM RowImplemented == Spec => RowSpec
<1>1. Init => Row!Init
  BY InitRow
<1>2. RunInv /\ [Next]_vars => [Row!Next]_<<status, Reported>>
  BY NextRow
<1> QED
  BY <1>1, <1>2, InvariantHolds, PTL DEF Spec, RowSpec, Row!Spec

\* The contract does not let a concluded row move.
LEMMA RowFinal ==
  ASSUME TypeOK, [Row!Next]_<<status, Reported>>, NEW r \in Runs, status[r] \in Concluded
  PROVE  status'[r] = status[r]
<1>1. \/ UNCHANGED status
      \/ \E x \in Runs : \E s : status[x] \notin Concluded /\ status' = [status EXCEPT ![x] = s]
  BY DEF Row!Next, Row!Create, Row!Remove, Row!Report, Row!Stall, Row!Park, Row!Wake,
         Row!Succeed, Row!Fail, Row!Become, Row!Live, Concluded
<1> QED
  BY <1>1 DEF TypeOK, RowTypes

\* No interleaving of late deliveries, resumes, recoveries, scans for lost
\* handles, faults and restarts moves a run that has concluded.
THEOREM ConclusionsAreFinal == Spec => ConcludedIsFinal
<1>1. RunInv /\ [Next]_vars =>
        [\A r \in Runs : status[r] \in Concluded => status'[r] = status[r]]_vars
  <2> SUFFICES ASSUME RunInv, [Next]_vars
               PROVE  \A r \in Runs : status[r] \in Concluded => status'[r] = status[r]
    OBVIOUS
  <2> QED
    BY NextRow, RowFinal, InvParts
<1> QED
  BY <1>1, InvariantHolds, PTL DEF Spec, ConcludedIsFinal

=============================================================================
