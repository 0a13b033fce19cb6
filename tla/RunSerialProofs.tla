--------------------------- MODULE RunSerialProofs ---------------------------
(***************************************************************************)
(* What RunLifecycle keeps while reconciler passes do not overlap: the     *)
(* ceiling of the runner and one open attempt per run.  Poller passes may  *)
(* overlap, calls may fail and the API process may restart.                *)
(*                                                                         *)
(* A pass counts before an await and acts after it.  The invariant says    *)
(* that the count is still an upper bound then: rows and children join     *)
(* only in a pass's own step, everybody else only takes them away.         *)
(***************************************************************************)
EXTENDS RunLifecycleProofs, FiniteSetTheorems

\* The interval of the reconciler's timer is longer than its pass.  Dispatches and
\* resumes are under no lease, so nothing else keeps passes apart.
OneTick == \A t, u \in Ticks : t = u

-----------------------------------------------------------------------------
(* Who adds what *)

\* Only run.create makes a row that occupies the runner.
LEMMA OnlyCreateOccupies ==
  ASSUME RunInv, [Next]_vars, NEW r \in Runs, r \notin Occupied, r \in Occupied'
  PROVE  \E t \in Ticks : CreateRun(t) /\ tick[t].run = r
<1>0. TypeOK /\ status[r] \notin LIVE_STATUSES /\ status'[r] \in LIVE_STATUSES
  BY InvParts DEF Occupied
<1>1. ~UNCHANGED status BY <1>0
<1>2. ASSUME NEW x, NEW s, status' = [status EXCEPT ![x] = s],
             s = status[x] \/ s \notin LIVE_STATUSES \/ status[x] \in LIVE_STATUSES
      PROVE  FALSE
  BY <1>0, <1>2 DEF TypeOK, RowTypes
<1>3. /\ "failed" \notin LIVE_STATUSES /\ "succeeded" \notin LIVE_STATUSES
      /\ "deleted" \notin LIVE_STATUSES
      /\ {"running", "stalled", "blocked"} = LIVE_STATUSES
  BY DEF LIVE_STATUSES
<1>4. ASSUME NEW t \in Ticks, CreateRun(t) PROVE tick[t].run = r
  BY <1>0, <1>4 DEF CreateRun, TypeOK, RowTypes
<1>5. ASSUME NEW t \in Ticks, TickStarts(t) \/ TickWorks(t) \/ TickFault(t), ~CreateRun(t)
      PROVE  FALSE
  <2>1. ~Recover(t)
    <3> SUFFICES ASSUME Recover(t) PROVE FALSE OBVIOUS
    <3>1. PICK s : /\ status' = [status EXCEPT ![tick[t].run] = s]
                   /\ s = "failed" \/ s = status[tick[t].run]
      BY DEF Recover
    <3> QED BY <1>2, <1>3, <3>1
  <2>2. ~RecoverCapacity(t) BY <1>1, <1>2, <1>3 DEF RecoverCapacity
  <2>3. ~ClaimParked(t) BY <1>1, <1>2, <1>3 DEF ClaimParked
  <2>4. ~TickFault(t) BY <1>1 DEF TickFault, rowVars
  <2>5. ~TickStarts(t)
    BY <1>1 DEF TickStarts, Decide, WatchdogPark, WatchdogResume, rowVars
  <2>6. ~(\/ WriteRecords(t) \/ Submit(t) \/ Provision(t) \/ MarkDispatched(t) \/ WritePlan(t)
          \/ ResumeGates(t) \/ CloseParkedAttempt(t) \/ OpenResumedAttempt(t))
    BY <1>1 DEF WriteRecords, Submit, Provision, MarkDispatched, WritePlan, ResumeGates,
       CloseParkedAttempt, OpenResumedAttempt, rowVars
  <2> QED BY <1>5, <2>1, <2>2, <2>3, <2>4, <2>5, <2>6 DEF TickWorks
<1>6. ASSUME NEW p \in Pollers, PollWorks(p) \/ PollFault(p) PROVE FALSE
  <2>1. ~ConcludeRun(p) BY <1>1, <1>2 DEF ConcludeRun
  <2>2. ASSUME NEW x, MarkStalled(x) PROVE FALSE
    <3>1. PICK s : /\ status' = [status EXCEPT ![x] = s]
                   /\ s = status[x] \/ status[x] \in LIVE_STATUSES
      BY <2>2 DEF MarkStalled
    <3> QED BY <1>2, <3>1
  <2>3. ~BlockRun(p)
    <3> SUFFICES ASSUME BlockRun(p) PROVE FALSE OBVIOUS
    <3>1. PICK s : /\ status' = [status EXCEPT ![poll[p].run] = s]
                   /\ s = status[poll[p].run] \/ status[poll[p].run] \in LIVE_STATUSES
      BY DEF BlockRun
    <3> QED BY <1>2, <3>1
  <2>4. ~ResumeRun(p)
    <3> SUFFICES ASSUME ResumeRun(p) PROVE FALSE OBVIOUS
    <3>1. PICK s : /\ status' = [status EXCEPT ![poll[p].run] = s]
                   /\ s = status[poll[p].run] \/ status[poll[p].run] \in LIVE_STATUSES
      BY <1>3 DEF ResumeRun
    <3> QED BY <1>2, <3>1
  <2>5. ~MarkUnknown(p) BY <2>2 DEF MarkUnknown
  <2>6. ASSUME NEW x, MarkUntracked(p, x) PROVE FALSE BY <1>1, <2>2, <2>6 DEF MarkUntracked
  <2>7. ASSUME NEW x, NEW h, PollOne(p, x, h) PROVE FALSE BY <1>1, <2>7 DEF PollOne, rowVars
  <2>8. ~(\/ StartPoll(p) \/ StoreEvents(p) \/ AdvanceRun(p) \/ StaleBatch(p) \/ ConcludeAttempts(p)
          \/ AfterIngest(p) \/ ReconcileUntracked(p) \/ PollFault(p))
    BY <1>1 DEF StartPoll, StoreEvents, AdvanceRun, StaleBatch, ConcludeAttempts, AfterIngest,
       ReconcileUntracked, PollFault, rowVars
  <2> QED BY <1>6, <2>1, <2>3, <2>4, <2>5, <2>6, <2>7, <2>8 DEF PollWorks
<1>7. ~(RunnerWorks \/ Restart \/ UNCHANGED vars)
  BY <1>1 DEF RunnerWorks, Emit, Exit, OrphanExit, Restart, vars, rowVars
<1> QED BY <1>4, <1>5, <1>6, <1>7 DEF Next

\* Only the end of submit starts a child the runner knows.
LEMMA OnlyProvisionStarts ==
  ASSUME RunInv, [Next]_vars, NEW r \in Runs, r \notin LiveRuns, r \in LiveRuns'
  PROVE  \E t \in Ticks : Provision(t) /\ tick[t].run = r
<1>0. TypeOK /\ entry[r] # "alive" /\ entry'[r] = "alive" BY InvParts DEF LiveRuns
<1>1. ~UNCHANGED entry BY <1>0
<1>2. ASSUME NEW t \in Ticks, Provision(t) PROVE tick[t].run = r
  BY <1>0, <1>2 DEF Provision, TypeOK, RunnerTypes
<1>3. ASSUME NEW t \in Ticks, Submit(t) PROVE FALSE
  <2>1. PICK old : entry' = [s \in Runs |-> IF s \in old THEN "none" ELSE entry[s]]
    BY <1>3 DEF Submit
  <2> QED BY <1>0, <2>1
<1>4. ASSUME NEW t \in Ticks, TickStarts(t) \/ TickWorks(t) \/ TickFault(t), ~Provision(t)
      PROVE  FALSE
  <2>1. ~TickStarts(t)
    BY <1>1 DEF TickStarts, Decide, WatchdogPark, WatchdogResume, runnerVars
  <2>2. ~(\/ CreateRun(t) \/ WriteRecords(t) \/ MarkDispatched(t) \/ WritePlan(t) \/ Recover(t)
          \/ RecoverCapacity(t) \/ ResumeGates(t) \/ ClaimParked(t) \/ CloseParkedAttempt(t)
          \/ OpenResumedAttempt(t) \/ TickFault(t))
    BY <1>1 DEF CreateRun, WriteRecords, MarkDispatched, WritePlan, Recover, RecoverCapacity,
       ResumeGates, ClaimParked, CloseParkedAttempt, OpenResumedAttempt, TickFault, runnerVars
  <2> QED BY <1>3, <1>4, <2>1, <2>2 DEF TickWorks
<1>5. ASSUME NEW p \in Pollers, PollWorks(p) \/ PollFault(p) PROVE FALSE
  <2>1. ASSUME NEW x, MarkUntracked(p, x) PROVE FALSE BY <1>1, <2>1 DEF MarkUntracked, runnerVars
  <2>2. ASSUME NEW x, NEW h, PollOne(p, x, h) PROVE FALSE BY <1>1, <2>2 DEF PollOne
  <2>3. ~(\/ StartPoll(p) \/ StoreEvents(p) \/ AdvanceRun(p) \/ StaleBatch(p) \/ ConcludeAttempts(p)
          \/ AfterIngest(p) \/ ReconcileUntracked(p) \/ PollFault(p) \/ ConcludeRun(p)
          \/ BlockRun(p) \/ ResumeRun(p) \/ MarkUnknown(p))
    BY <1>1 DEF StartPoll, StoreEvents, AdvanceRun, StaleBatch, ConcludeAttempts, AfterIngest,
       ReconcileUntracked, PollFault, ConcludeRun, BlockRun, ResumeRun, MarkUnknown, runnerVars
  <2> QED BY <1>5, <2>1, <2>2, <2>3 DEF PollWorks
<1>6. ASSUME NEW x \in Runs, NEW kind, Exit(x, kind) PROVE FALSE
  BY <1>0, <1>6 DEF Exit, TypeOK, RunnerTypes
<1>7. ~(RunnerWorks \/ Restart \/ UNCHANGED vars)
  BY <1>0, <1>1, <1>6 DEF RunnerWorks, Emit, OrphanExit, Restart, vars, runnerVars
<1> QED BY <1>2, <1>4, <1>5, <1>7 DEF Next

\* Only run.create and openResumedAttempt open an attempt.
LEMMA OnlyTheseOpen ==
  ASSUME RunInv, [Next]_vars, NEW r \in Runs, NEW k \in AttemptNumbers,
         attempts[r][k] # "running", attempts'[r][k] = "running"
  PROVE  \E t \in Ticks : /\ tick[t].run = r
                          /\ \/ CreateRun(t) /\ k = 1
                             \/ OpenResumedAttempt(t) /\ k = tick[t].prev + 1
<1>0. TypeOK BY InvParts
<1>1. ~UNCHANGED attempts OBVIOUS
<1>2. ASSUME NEW x, NEW o, o # "running", attempts' = [attempts EXCEPT ![x] = CloseOpen(attempts[x], o)]
      PROVE  FALSE
  <2>1. attempts'[r] = attempts[r] \/ attempts'[r] = CloseOpen(attempts[r], o)
    BY <1>0, <1>2 DEF TypeOK, RowTypes
  <2> QED BY <1>2, <2>1 DEF CloseOpen
<1>3. ASSUME NEW x, NEW n, attempts' = [attempts EXCEPT ![x] = WithAttempt(attempts[x], n)]
      PROVE  x = r /\ n = k
  <2>1. x = r /\ attempts'[r] = WithAttempt(attempts[r], n)
    BY <1>0, <1>3 DEF TypeOK, RowTypes
  <2> QED BY <2>1 DEF WithAttempt
<1>4. ASSUME NEW t \in Ticks, TickStarts(t) \/ TickWorks(t) \/ TickFault(t)
      PROVE  /\ tick[t].run = r
             /\ \/ CreateRun(t) /\ k = 1
                \/ OpenResumedAttempt(t) /\ k = tick[t].prev + 1
  <2>1. CASE CreateRun(t) BY <1>3, <2>1 DEF CreateRun
  <2>2. CASE OpenResumedAttempt(t)
    <3>1. PICK x, n : x = tick[t].run /\ n = tick[t].prev + 1 OBVIOUS
    <3>2. attempts' = [attempts EXCEPT ![x] = WithAttempt(attempts[x], n)]
      BY <1>1, <2>2, <3>1 DEF OpenResumedAttempt
    <3>3. x = r /\ attempts'[r] = WithAttempt(attempts[r], n)
      BY <1>0, <3>2 DEF TypeOK, RowTypes
    <3>4. n = k BY <3>3 DEF WithAttempt
    <3> QED BY <2>2, <3>1, <3>3, <3>4
  <2>3. CASE CloseParkedAttempt(t) BY <1>2, <2>3 DEF CloseParkedAttempt
  <2>4. CASE RecoverCapacity(t)
    <3>1. attempts' = [attempts EXCEPT ![tick[t].run] = NoAttempts]
      BY <1>1, <2>4 DEF RecoverCapacity
    <3>2. attempts'[r] = attempts[r] \/ attempts'[r] = NoAttempts BY <1>0, <3>1 DEF TypeOK, RowTypes
    <3> QED BY <3>2 DEF NoAttempts
  <2>5. ~TickStarts(t)
    BY <1>1 DEF TickStarts, Decide, WatchdogPark, WatchdogResume, rowVars
  <2>6. ~(\/ WriteRecords(t) \/ MarkDispatched(t) \/ WritePlan(t) \/ Recover(t) \/ Submit(t)
          \/ Provision(t) \/ ResumeGates(t) \/ ClaimParked(t) \/ TickFault(t))
    BY <1>1 DEF WriteRecords, MarkDispatched, WritePlan, Recover, Submit, Provision, ResumeGates,
       ClaimParked, TickFault, rowVars
  <2> QED BY <1>4, <2>1, <2>2, <2>3, <2>4, <2>5, <2>6 DEF TickWorks
<1>5. ASSUME NEW p \in Pollers, PollWorks(p) \/ PollFault(p) PROVE FALSE
  <2>1. ASSUME NEW x, MarkUntracked(p, x) PROVE FALSE BY <1>1, <2>1 DEF MarkUntracked
  <2>2. ASSUME NEW x, NEW h, PollOne(p, x, h) PROVE FALSE BY <1>1, <2>2 DEF PollOne, rowVars
  <2>3. ~ConcludeAttempts(p)
    <3> SUFFICES ASSUME ConcludeAttempts(p) PROVE FALSE OBVIOUS
    <3>1. PICK o \in {"succeeded", "failed"} :
            attempts' = [attempts EXCEPT ![poll[p].run] = CloseOpen(attempts[poll[p].run], o)]
      BY DEF ConcludeAttempts
    <3> QED BY <1>2, <3>1
  <2>4. ~(\/ StartPoll(p) \/ StoreEvents(p) \/ AdvanceRun(p) \/ StaleBatch(p)
          \/ AfterIngest(p) \/ ReconcileUntracked(p) \/ PollFault(p) \/ ConcludeRun(p)
          \/ BlockRun(p) \/ ResumeRun(p) \/ MarkUnknown(p))
    BY <1>1 DEF StartPoll, StoreEvents, AdvanceRun, StaleBatch, AfterIngest,
       ReconcileUntracked, PollFault, ConcludeRun, BlockRun, ResumeRun, MarkUnknown, rowVars
  <2> QED BY <1>5, <2>1, <2>2, <2>3, <2>4 DEF PollWorks
<1>6. ~(RunnerWorks \/ Restart \/ UNCHANGED vars)
  BY <1>1 DEF RunnerWorks, Emit, Exit, OrphanExit, Restart, vars, rowVars
<1> QED BY <1>4, <1>5, <1>6 DEF Next

\* How a pass gets where it is about to add something.
LEMMA TickArrives ==
  ASSUME RunInv, [Next]_vars, NEW t \in Ticks, tpc'[t] # tpc[t]
  PROVE  /\ tpc'[t] = "create" => \E r \in Runs : Decide(t, r)
         /\ tpc'[t] = "provision" => Submit(t) /\ ~(Cardinality(LiveRuns) >= MaxConcurrency)
         /\ tpc'[t] = "open" => CloseParkedAttempt(t)
<1>0. TypeOK BY InvParts
<1> USE DEF TypeOK, TickTypes
<1>1. ~UNCHANGED tpc OBVIOUS
<1>2. ASSUME NEW u \in Ticks, NEW to, tpc' = [tpc EXCEPT ![u] = to] PROVE u = t /\ tpc'[t] = to
  BY <1>0, <1>2
<1> DEFINE P == /\ tpc'[t] = "create" => \E r \in Runs : Decide(t, r)
                /\ tpc'[t] = "provision" => Submit(t) /\ ~(Cardinality(LiveRuns) >= MaxConcurrency)
                /\ tpc'[t] = "open" => CloseParkedAttempt(t)
<1>3. ASSUME NEW u \in Ticks, NEW to \in TickPCs \ {"create", "provision", "open"},
             tpc' = [tpc EXCEPT ![u] = to] PROVE P
  BY <1>2, <1>3
<1>4. ASSUME NEW u \in Ticks, NEW r \in Runs, Decide(u, r) PROVE P
  BY <1>2, <1>4 DEF Decide, TickTakes
<1>5. ASSUME NEW u \in Ticks, NEW r \in Runs, WatchdogPark(u, r) \/ WatchdogResume(u, r) PROVE P
  BY <1>3, <1>5 DEF WatchdogPark, WatchdogResume, TickTakes, TickPCs
<1>6. ASSUME NEW u \in Ticks, CloseParkedAttempt(u) PROVE P
  BY <1>2, <1>6 DEF CloseParkedAttempt, TickGoes
<1>7. ASSUME NEW u \in Ticks, NEW r, NEW h, Submitted(u, r, h) PROVE P
  <2>1. \E to \in {"close", "dispatched"} : tpc' = [tpc EXCEPT ![u] = to]
    BY <1>7 DEF Submitted, TickTakes, TickGoes
  <2> QED BY <1>3, <2>1 DEF TickPCs
<1>8. ASSUME NEW u \in Ticks, Submit(u) PROVE P
  <2>1. CASE \E h : Submitted(u, tick[u].run, h) BY <1>7, <2>1
  <2>2. CASE TickGoes(u, IF Cardinality(LiveRuns) >= MaxConcurrency THEN "refused" ELSE "provision")
    <3>1. PICK c : c = Cardinality(LiveRuns) OBVIOUS
    <3>2. CASE c >= MaxConcurrency
      <4>1. tpc' = [tpc EXCEPT ![u] = "refused"] BY <2>2, <3>1, <3>2 DEF TickGoes
      <4> QED BY <1>3, <4>1 DEF TickPCs
    <3>3. CASE ~(c >= MaxConcurrency)
      <4>1. tpc' = [tpc EXCEPT ![u] = "provision"] BY <2>2, <3>1, <3>3 DEF TickGoes
      <4>2. u = t /\ tpc'[t] = "provision" BY <1>2, <4>1
      <4> QED BY <1>8, <3>1, <3>3, <4>2
    <3> QED BY <3>2, <3>3
  <2> QED BY <1>8, <2>1, <2>2 DEF Submit
<1>9. ASSUME NEW u \in Ticks, Provision(u) PROVE P BY <1>7, <1>9 DEF Provision
<1>10. ASSUME NEW u \in Ticks, \/ CreateRun(u) \/ WriteRecords(u) \/ MarkDispatched(u)
                               \/ Recover(u) \/ RecoverCapacity(u) \/ WritePlan(u)
                               \/ ResumeGates(u) \/ ClaimParked(u) \/ OpenResumedAttempt(u)
                               \/ TickFault(u) PROVE P
  <2>1. \E to \in {"records", "submit", "idle", "claim", "recover"} : tpc' = [tpc EXCEPT ![u] = to]
    BY <1>10 DEF CreateRun, WriteRecords, MarkDispatched, Recover, RecoverCapacity, WritePlan,
       ResumeGates, ClaimParked, OpenResumedAttempt, TickFault, TickGoes, TickTakes, TickEnds
  <2> QED BY <1>3, <2>1 DEF TickPCs
<1>11. ASSUME NEW u \in Ticks, TickStarts(u) \/ TickWorks(u) \/ TickFault(u) PROVE P
  BY <1>4, <1>5, <1>6, <1>8, <1>9, <1>10, <1>11 DEF TickStarts, TickWorks
<1>12. ASSUME NEW p \in Pollers, PollWorks(p) \/ PollFault(p) PROVE FALSE
  <2>1. ASSUME NEW x, MarkUntracked(p, x) PROVE FALSE BY <1>1, <2>1 DEF MarkUntracked, tickVars
  <2>2. ASSUME NEW x, NEW h, PollOne(p, x, h) PROVE FALSE BY <1>1, <2>2 DEF PollOne, tickVars
  <2>3. ~(\/ StartPoll(p) \/ StoreEvents(p) \/ AdvanceRun(p) \/ StaleBatch(p) \/ ConcludeAttempts(p)
          \/ AfterIngest(p) \/ ReconcileUntracked(p) \/ PollFault(p) \/ ConcludeRun(p)
          \/ BlockRun(p) \/ ResumeRun(p) \/ MarkUnknown(p))
    BY <1>1 DEF StartPoll, StoreEvents, AdvanceRun, StaleBatch, ConcludeAttempts, AfterIngest,
       ReconcileUntracked, PollFault, ConcludeRun, BlockRun, ResumeRun, MarkUnknown, tickVars
  <2> QED BY <1>12, <2>1, <2>2, <2>3 DEF PollWorks
<1>13. CASE Restart BY <1>13 DEF Restart
<1>14. ~(RunnerWorks \/ UNCHANGED vars)
  BY <1>1 DEF RunnerWorks, Emit, Exit, OrphanExit, vars, tickVars
<1> QED BY <1>11, <1>12, <1>13, <1>14 DEF Next

-----------------------------------------------------------------------------
(* The ceiling *)

Counted(S) == IsFiniteSet(S) /\ Cardinality(S) \in Nat /\ Cardinality(S) <= MaxConcurrency
\* There is still room for one more.
Room(S) == Counted(S) /\ Cardinality(S) < MaxConcurrency

CeilingInv ==
  /\ Counted(Occupied) /\ Counted(LiveRuns)
  /\ \A t \in Ticks : tpc[t] = "create" => Room(Occupied)
  /\ \A t \in Ticks : tpc[t] = "provision" => Room(LiveRuns)

\* A set that lost members, or won one where there was room, is within the ceiling.
LEMMA StillCounted ==
  ASSUME NEW S, NEW T, Counted(S)
  PROVE  /\ T \subseteq S => Counted(T)
         /\ T \subseteq S /\ Room(S) => Room(T)
         /\ \A x : T \subseteq S \cup {x} /\ Room(S) => Counted(T)
<1>1. ASSUME T \subseteq S PROVE Counted(T) /\ (Room(S) => Room(T))
  <2>1. IsFiniteSet(T) /\ Cardinality(T) <= Cardinality(S) BY <1>1, FS_Subset DEF Counted
  <2>2. Cardinality(T) \in Nat BY <2>1, FS_CardinalityType
  <2> QED BY <2>1, <2>2, BoundsAssumption DEF Counted, Room
<1>2. ASSUME NEW x, T \subseteq S \cup {x}, Room(S) PROVE Counted(T)
  <2>1. IsFiniteSet(S \cup {x}) /\
        Cardinality(S \cup {x}) = IF x \in S THEN Cardinality(S) ELSE Cardinality(S) + 1
    BY FS_AddElement DEF Counted
  <2>2. IsFiniteSet(T) /\ Cardinality(T) <= Cardinality(S \cup {x}) BY <1>2, <2>1, FS_Subset
  <2>3. Cardinality(T) \in Nat BY <2>2, FS_CardinalityType
  <2> QED BY <1>2, <2>1, <2>2, <2>3, BoundsAssumption DEF Counted, Room
<1> QED BY <1>1, <1>2

\* A step of any actor keeps the ceiling while reconciler passes do not overlap.
LEMMA CeilingStep ==
  ASSUME OneTick, RunInv, CeilingInv, [Next]_vars
  PROVE  CeilingInv'
<1>0. TypeOK BY InvParts
<1>1. CASE \E t \in Ticks : CreateRun(t)
  <2>1. PICK t \in Ticks : CreateRun(t) BY <1>1
  <2>2. Occupied' \subseteq Occupied \cup {tick[t].run}
    <3> SUFFICES ASSUME NEW r \in Occupied', r \notin Occupied PROVE r = tick[t].run OBVIOUS
    <3>1. r \in Runs BY DEF Occupied
    <3>2. PICK u \in Ticks : tick[u].run = r BY <3>1, OnlyCreateOccupies
    <3> QED BY <3>2 DEF OneTick
  <2>3. Room(Occupied) BY <2>1 DEF CeilingInv, CreateRun
  <2>4. Counted(Occupied') BY <2>2, <2>3, StillCounted DEF CeilingInv
  <2>5. LiveRuns' = LiveRuns BY <2>1 DEF CreateRun, runnerVars, LiveRuns
  <2>6. \A u \in Ticks : tpc'[u] = "records"
    BY <1>0, <2>1 DEF OneTick, CreateRun, TickGoes, TypeOK, TickTypes
  <2> QED BY <2>4, <2>5, <2>6 DEF CeilingInv, Counted
<1>2. CASE \E t \in Ticks : Provision(t)
  <2>1. PICK t \in Ticks : Provision(t) BY <1>2
  <2>2. LiveRuns' \subseteq LiveRuns \cup {tick[t].run}
    <3> SUFFICES ASSUME NEW r \in LiveRuns', r \notin LiveRuns PROVE r = tick[t].run OBVIOUS
    <3>1. r \in Runs BY DEF LiveRuns
    <3>2. PICK u \in Ticks : tick[u].run = r BY <3>1, OnlyProvisionStarts
    <3> QED BY <3>2 DEF OneTick
  <2>3. Room(LiveRuns) BY <2>1 DEF CeilingInv, Provision
  <2>4. Counted(LiveRuns') BY <2>2, <2>3, StillCounted DEF CeilingInv
  <2>5. Occupied' = Occupied BY <2>1 DEF Provision, rowVars, Occupied
  <2>6. \A u \in Ticks : tpc'[u] \in {"close", "dispatched"}
    BY <1>0, <2>1 DEF OneTick, Provision, Submitted, TickGoes, TickTakes, TypeOK, TickTypes
  <2> QED BY <2>4, <2>5, <2>6 DEF CeilingInv, Counted
<1>3. CASE ~(\E t \in Ticks : CreateRun(t) \/ Provision(t))
  <2>1. Occupied' \subseteq Occupied
    <3>1. \A r \in Occupied' : r \in Runs BY DEF Occupied
    <3> QED BY <1>3, <3>1, OnlyCreateOccupies
  <2>2. LiveRuns' \subseteq LiveRuns
    <3>1. \A r \in LiveRuns' : r \in Runs BY DEF LiveRuns
    <3> QED BY <1>3, <3>1, OnlyProvisionStarts
  <2>3. Counted(Occupied') /\ Counted(LiveRuns') BY <2>1, <2>2, StillCounted DEF CeilingInv
  <2>4. ASSUME NEW t \in Ticks, tpc'[t] = "create" PROVE Room(Occupied')
    <3>1. Room(Occupied)
      <4>1. CASE tpc[t] = "create" BY <4>1 DEF CeilingInv
      <4>2. CASE tpc[t] # "create"
        <5>1. PICK r \in Runs : Decide(t, r) BY <2>4, <4>2, TickArrives
        <5> QED BY <5>1 DEF Decide, CeilingInv, Room
      <4> QED BY <4>1, <4>2
    <3> QED BY <2>1, <3>1, StillCounted DEF Room
  <2>5. ASSUME NEW t \in Ticks, tpc'[t] = "provision" PROVE Room(LiveRuns')
    <3>1. Room(LiveRuns)
      <4>1. CASE tpc[t] = "provision" BY <4>1 DEF CeilingInv
      <4>2. CASE tpc[t] # "provision"
        <5>1. ~(Cardinality(LiveRuns) >= MaxConcurrency) BY <2>5, <4>2, TickArrives
        <5>2. PICK c \in Nat : c = Cardinality(LiveRuns) BY DEF CeilingInv, Counted
        <5>3. c < MaxConcurrency BY <5>1, <5>2, BoundsAssumption
        <5> QED BY <5>2, <5>3 DEF CeilingInv, Room
      <4> QED BY <4>1, <4>2
    <3> QED BY <2>2, <3>1, StillCounted DEF Room
  <2> QED BY <2>3, <2>4, <2>5 DEF CeilingInv, Counted, Room
<1> QED BY <1>1, <1>2, <1>3

\* While reconciler passes do not overlap, neither the rows that occupy the
\* runner nor its live children exceed its ceiling, for any number of runs,
\* faults, restarts and poller passes: decide and submit count before an await,
\* and until the pass acts on the count it can only have become smaller.
THEOREM SerialCeiling ==
  ASSUME OneTick PROVE Spec => []WithinCeiling
<1>1. Init => CeilingInv
  <2> SUFFICES ASSUME Init PROVE CeilingInv OBVIOUS
  <2>1. Occupied = {} /\ LiveRuns = {} BY DEF Init, Occupied, LiveRuns, LIVE_STATUSES
  <2>2. Counted({}) BY FS_EmptySet, BoundsAssumption DEF Counted
  <2>3. \A t \in Ticks : tpc[t] = "idle" BY DEF Init
  <2> QED BY <2>1, <2>2, <2>3 DEF CeilingInv
<1>2. RunInv /\ CeilingInv /\ [Next]_vars => CeilingInv' BY CeilingStep
<1>3. CeilingInv => WithinCeiling BY DEF CeilingInv, Counted, WithinCeiling, Occupied, LiveRuns
<1> QED BY <1>1, <1>2, <1>3, InvariantHolds, PTL DEF Spec

-----------------------------------------------------------------------------
(* The attempts *)

NoneOpen(r) == \A k \in AttemptNumbers : attempts[r][k] # "running"

AttemptInv ==
  /\ OneOpenAttempt
  /\ \A r \in Runs : status[r] = "absent" => NoneOpen(r)
  /\ \A t \in Ticks : tpc[t] = "open" => NoneOpen(tick[t].run)

\* A row that is there does not become one that was never there.
LEMMA AbsentIsFirst ==
  ASSUME RunInv, [Next]_vars, NEW r \in Runs, status'[r] = "absent"
  PROVE  status[r] = "absent"
<1>0. TypeOK BY InvParts
<1>1. CASE UNCHANGED status BY <1>1
<1>2. ASSUME NEW x, NEW s, status' = [status EXCEPT ![x] = s], s = status[x] \/ s # "absent"
      PROVE  status[r] = "absent"
  BY <1>0, <1>2 DEF TypeOK, RowTypes
<1>3. ASSUME NEW t \in Ticks, TickStarts(t) \/ TickWorks(t) \/ TickFault(t)
      PROVE  status[r] = "absent"
  <2>1. CASE Recover(t)
    <3>1. PICK s : /\ status' = [status EXCEPT ![tick[t].run] = s]
                   /\ s = "failed" \/ s = status[tick[t].run]
      BY <2>1 DEF Recover
    <3> QED BY <1>2, <3>1
  <2>2. CASE CreateRun(t) \/ RecoverCapacity(t) \/ ClaimParked(t)
    <3>1. \/ UNCHANGED status
          \/ \E s \in {"running", "deleted", "blocked"} : status' = [status EXCEPT ![tick[t].run] = s]
      BY <2>2 DEF CreateRun, RecoverCapacity, ClaimParked
    <3> QED BY <1>1, <1>2, <3>1
  <2>3. CASE TickStarts(t)
    BY <1>1, <2>3 DEF TickStarts, Decide, WatchdogPark, WatchdogResume, rowVars
  <2>4. CASE \/ WriteRecords(t) \/ Submit(t) \/ Provision(t) \/ MarkDispatched(t) \/ WritePlan(t)
             \/ ResumeGates(t) \/ CloseParkedAttempt(t) \/ OpenResumedAttempt(t) \/ TickFault(t)
    BY <1>1, <2>4 DEF WriteRecords, Submit, Provision, MarkDispatched, WritePlan, ResumeGates,
       CloseParkedAttempt, OpenResumedAttempt, TickFault, rowVars
  <2> QED BY <1>3, <2>1, <2>2, <2>3, <2>4 DEF TickWorks
<1>4. ASSUME NEW p \in Pollers, PollWorks(p) \/ PollFault(p) PROVE status[r] = "absent"
  <2>1. CASE ConcludeRun(p)
    <3>1. \/ UNCHANGED status
          \/ \E s \in {"succeeded", "failed"} : status' = [status EXCEPT ![poll[p].run] = s]
      BY <2>1 DEF ConcludeRun
    <3> QED BY <1>1, <1>2, <3>1
  <2>2. ASSUME NEW x, MarkStalled(x) PROVE status[r] = "absent"
    <3>1. PICK s : status' = [status EXCEPT ![x] = s] /\ (s = status[x] \/ s = "stalled")
      BY <2>2 DEF MarkStalled
    <3> QED BY <1>2, <3>1
  <2>3. CASE BlockRun(p) \/ ResumeRun(p)
    <3>1. PICK s : /\ status' = [status EXCEPT ![poll[p].run] = s]
                   /\ s = status[poll[p].run] \/ s \in {"blocked", "running"}
      BY <2>3 DEF BlockRun, ResumeRun
    <3> QED BY <1>2, <3>1
  <2>4. CASE MarkUnknown(p) BY <2>2, <2>4 DEF MarkUnknown
  <2>5. ASSUME NEW x, MarkUntracked(p, x) PROVE status[r] = "absent"
    BY <1>1, <2>2, <2>5 DEF MarkUntracked
  <2>6. ASSUME NEW x, NEW h, PollOne(p, x, h) PROVE status[r] = "absent"
    BY <1>1, <2>6 DEF PollOne, rowVars
  <2>7. CASE \/ StartPoll(p) \/ StoreEvents(p) \/ AdvanceRun(p) \/ StaleBatch(p)
             \/ ConcludeAttempts(p) \/ AfterIngest(p) \/ ReconcileUntracked(p) \/ PollFault(p)
    BY <1>1, <2>7 DEF StartPoll, StoreEvents, AdvanceRun, StaleBatch, ConcludeAttempts, AfterIngest,
       ReconcileUntracked, PollFault, rowVars
  <2> QED BY <1>4, <2>1, <2>3, <2>4, <2>5, <2>6, <2>7 DEF PollWorks
<1>5. CASE RunnerWorks \/ Restart \/ UNCHANGED vars
  BY <1>1, <1>5 DEF RunnerWorks, Emit, Exit, OrphanExit, Restart, vars, rowVars
<1> QED BY <1>3, <1>4, <1>5 DEF Next

\* A pass between the two statements of openResumedAttempt holds its run.
LEMMA OpenIsHeld ==
  ASSUME RunInv, [Next]_vars, NEW t \in Ticks, tpc[t] = "open", tpc'[t] = "open"
  PROVE  tick'[t] = tick[t]
<1>0. TypeOK BY InvParts
<1>1. CASE UNCHANGED tick BY <1>1
<1>2. ASSUME NEW u \in Ticks, u # t, \E x : tick' = [tick EXCEPT ![u] = x] PROVE tick'[t] = tick[t]
  BY <1>0, <1>2 DEF TypeOK, TickTypes
<1>3. ASSUME NEW u \in Ticks, TickStarts(u) \/ TickWorks(u) \/ TickFault(u)
      PROVE  tick'[t] = tick[t]
  <2>1. UNCHANGED tick \/ \E x : tick' = [tick EXCEPT ![u] = x]
    <3>1. CASE Submit(u) \/ Provision(u)
      BY <3>1 DEF Submit, Provision, Submitted, TickGoes, TickTakes
    <3>2. CASE TickStarts(u)
      BY <3>2 DEF TickStarts, Decide, WatchdogPark, WatchdogResume, TickTakes
    <3>3. CASE \/ CreateRun(u) \/ WriteRecords(u) \/ MarkDispatched(u) \/ WritePlan(u) \/ Recover(u)
               \/ RecoverCapacity(u) \/ ResumeGates(u) \/ ClaimParked(u) \/ CloseParkedAttempt(u)
               \/ OpenResumedAttempt(u) \/ TickFault(u)
      BY <3>3 DEF CreateRun, WriteRecords, MarkDispatched, WritePlan, Recover, RecoverCapacity,
         ResumeGates, ClaimParked, CloseParkedAttempt, OpenResumedAttempt, TickFault, TickGoes,
         TickTakes, TickEnds
    <3> QED BY <1>3, <3>1, <3>2, <3>3 DEF TickWorks
  <2>2. CASE u = t
    <3>1. ~(TickStarts(t) \/ (TickWorks(t) /\ ~OpenResumedAttempt(t)))
      BY DEF TickStarts, Decide, WatchdogPark, WatchdogResume, TickWorks, CreateRun, WriteRecords,
         Submit, Provision, MarkDispatched, Recover, RecoverCapacity, WritePlan, ResumeGates,
         ClaimParked, CloseParkedAttempt
    <3>2. OpenResumedAttempt(t) \/ TickFault(t) BY <1>3, <2>2, <3>1
    <3>3. \E to \in {"idle", "recover"} : tpc' = [tpc EXCEPT ![t] = to]
      BY <3>2 DEF OpenResumedAttempt, TickFault, TickEnds, TickTakes, TickGoes
    <3> QED BY <1>0, <3>3 DEF TypeOK, TickTypes
  <2> QED BY <1>1, <1>2, <2>1, <2>2
<1>4. ASSUME NEW p \in Pollers, PollWorks(p) \/ PollFault(p) PROVE UNCHANGED tick
  <2>1. ASSUME NEW x, MarkUntracked(p, x) PROVE UNCHANGED tick BY <2>1 DEF MarkUntracked, tickVars
  <2>2. ASSUME NEW x, NEW h, PollOne(p, x, h) PROVE UNCHANGED tick BY <2>2 DEF PollOne, tickVars
  <2>3. CASE \/ StartPoll(p) \/ StoreEvents(p) \/ AdvanceRun(p) \/ StaleBatch(p)
             \/ ConcludeAttempts(p) \/ AfterIngest(p) \/ ReconcileUntracked(p) \/ PollFault(p)
             \/ ConcludeRun(p) \/ BlockRun(p) \/ ResumeRun(p) \/ MarkUnknown(p)
    BY <2>3 DEF StartPoll, StoreEvents, AdvanceRun, StaleBatch, ConcludeAttempts, AfterIngest,
       ReconcileUntracked, PollFault, ConcludeRun, BlockRun, ResumeRun, MarkUnknown, tickVars
  <2> QED BY <1>4, <2>1, <2>2, <2>3 DEF PollWorks
<1>5. ~Restart BY DEF Restart
<1>6. CASE RunnerWorks \/ UNCHANGED vars
  BY <1>6 DEF RunnerWorks, Emit, Exit, OrphanExit, vars, tickVars
<1> QED BY <1>1, <1>3, <1>4, <1>5, <1>6 DEF Next

\* A step of any actor keeps one open attempt while reconciler passes do not overlap.
LEMMA AttemptStep ==
  ASSUME OneTick, RunInv, AttemptInv, [Next]_vars
  PROVE  AttemptInv'
<1>0. TypeOK /\ TickInv /\ StartInv BY InvParts
<1>1. ASSUME NEW t \in Ticks, CreateRun(t) \/ OpenResumedAttempt(t)
      PROVE  tick[t].run \in Runs /\ NoneOpen(tick[t].run)
  <2>1. tick[t].run \in Runs
    BY <1>0, <1>1 DEF CreateRun, OpenResumedAttempt, TickInv, TickOK
  <2>2. CASE CreateRun(t)
    <3>1. status[tick[t].run] = "absent"
      BY <1>0, <2>2 DEF CreateRun, StartInv, StartOK, Starting, TickInv, TickOK
    <3> QED BY <2>1, <3>1 DEF AttemptInv
  <2>3. CASE OpenResumedAttempt(t) BY <2>1, <2>3 DEF OpenResumedAttempt, AttemptInv
  <2> QED BY <1>1, <2>1, <2>2, <2>3
<1>2. OneOpenAttempt'
  <2> SUFFICES ASSUME NEW r \in Runs, NEW j \in AttemptNumbers, NEW k \in AttemptNumbers,
                      attempts'[r][j] = "running", attempts'[r][k] = "running"
               PROVE  j = k
    BY DEF OneOpenAttempt
  <2>1. CASE attempts[r][j] = "running" /\ attempts[r][k] = "running"
    BY <2>1 DEF AttemptInv, OneOpenAttempt
  <2>2. ASSUME NEW m \in AttemptNumbers, NEW n \in AttemptNumbers, attempts[r][m] # "running",
               attempts'[r][m] = "running", attempts'[r][n] = "running"
        PROVE  m = n
    <3>1. PICK t \in Ticks : /\ tick[t].run = r
                             /\ \/ CreateRun(t) /\ m = 1
                                \/ OpenResumedAttempt(t) /\ m = tick[t].prev + 1
      BY <2>2, OnlyTheseOpen
    <3>2. attempts[r][n] # "running" BY <1>1, <3>1 DEF NoneOpen
    <3>3. PICK u \in Ticks : /\ tick[u].run = r
                             /\ \/ CreateRun(u) /\ n = 1
                                \/ OpenResumedAttempt(u) /\ n = tick[u].prev + 1
      BY <2>2, <3>2, OnlyTheseOpen
    <3>4. u = t BY DEF OneTick
    <3>5. ~(CreateRun(t) /\ OpenResumedAttempt(t)) BY DEF CreateRun, OpenResumedAttempt
    <3> QED BY <3>1, <3>3, <3>4, <3>5
  <2> QED BY <2>1, <2>2
<1>3. ASSUME NEW r \in Runs, NoneOpen(r),
             \A t \in Ticks : tick[t].run = r => ~CreateRun(t) /\ ~OpenResumedAttempt(t)
      PROVE  NoneOpen(r)'
  <2> SUFFICES ASSUME NEW k \in AttemptNumbers, attempts'[r][k] = "running" PROVE FALSE
    BY DEF NoneOpen
  <2>1. attempts[r][k] # "running" BY <1>3 DEF NoneOpen
  <2> QED BY <1>3, <2>1, OnlyTheseOpen
<1>4. ASSUME NEW r \in Runs, status'[r] = "absent" PROVE NoneOpen(r)'
  <2>1. status[r] = "absent" /\ NoneOpen(r) BY <1>4, AbsentIsFirst DEF AttemptInv
  <2>2. ASSUME NEW t \in Ticks, tick[t].run = r, CreateRun(t) PROVE FALSE
    BY <1>0, <1>4, <2>2 DEF CreateRun, TypeOK, RowTypes
  <2>3. ASSUME NEW t \in Ticks, tick[t].run = r, OpenResumedAttempt(t) PROVE FALSE
    <3>1. tick[t].kind = "resume" BY <1>0, <2>3 DEF OpenResumedAttempt, TickInv, TickOK
    <3>2. HasBlocked(r) BY <2>3, <3>1, InvParts DEF ResumeInv
    <3>3. log[r] = <<>> /\ stored[r] \subseteq 1..Len(log[r])
      BY <2>1, InvParts DEF AbsentInv, EventInv, Events
    <3> QED BY <3>2, <3>3 DEF HasBlocked
  <2> QED BY <1>3, <2>1, <2>2, <2>3
<1>5. ASSUME NEW t \in Ticks, tpc'[t] = "open" PROVE NoneOpen(tick[t].run)' /\ tick'[t].run = tick[t].run
  <2>1. CASE tpc[t] # "open"
    <3>1. CloseParkedAttempt(t) BY <1>5, <2>1, TickArrives
    <3>2. attempts' = [attempts EXCEPT ![tick[t].run] = CloseOpen(attempts[tick[t].run], "blocked")]
          /\ UNCHANGED tick /\ tick[t].run \in Runs
      BY <1>0, <3>1 DEF CloseParkedAttempt, TickGoes, TickInv, TickOK
    <3>3. attempts'[tick[t].run] = CloseOpen(attempts[tick[t].run], "blocked")
      BY <1>0, <3>2 DEF TypeOK, RowTypes
    <3> QED BY <3>2, <3>3 DEF NoneOpen, CloseOpen
  <2>2. CASE tpc[t] = "open"
    <3>1. tick'[t] = tick[t] BY <1>5, <2>2, OpenIsHeld
    <3>2. tick[t].run \in Runs /\ NoneOpen(tick[t].run) BY <1>0, <2>2 DEF AttemptInv, TickInv, TickOK
    <3>3. ~CreateRun(t) BY <2>2 DEF CreateRun
    <3>4. ~OpenResumedAttempt(t)
      BY <1>0, <1>5 DEF OpenResumedAttempt, TickEnds, TickTakes, TickGoes, TypeOK, TickTypes
    <3>5. \A u \in Ticks : ~CreateRun(u) /\ ~OpenResumedAttempt(u) BY <3>3, <3>4 DEF OneTick
    <3>6. PICK r \in Runs : r = tick[t].run BY <3>2
    <3>7. NoneOpen(r)' BY <1>3, <3>2, <3>5, <3>6
    <3> QED BY <3>1, <3>6, <3>7 DEF NoneOpen
  <2> QED BY <2>1, <2>2
<1>6. \A t \in Ticks : tpc'[t] = "open" => NoneOpen(tick[t].run)' BY <1>5
<1> QED BY <1>2, <1>4, <1>6 DEF AttemptInv

\* While reconciler passes do not overlap, a run never has two attempts open,
\* through parks, resumes, failed resumes, conclusions and restarts: the resume
\* closes what is open before it opens, and nobody else opens in between.
THEOREM SerialAttempts ==
  ASSUME OneTick PROVE Spec => []OneOpenAttempt
<1>1. Init => AttemptInv
  <2> SUFFICES ASSUME Init PROVE AttemptInv OBVIOUS
  <2>1. \A r \in Runs : NoneOpen(r) BY DEF Init, NoneOpen
  <2>2. OneOpenAttempt BY <2>1 DEF OneOpenAttempt, NoneOpen
  <2>3. \A t \in Ticks : tpc[t] = "idle" BY DEF Init
  <2> QED BY <2>1, <2>2, <2>3 DEF AttemptInv
<1>2. RunInv /\ AttemptInv /\ [Next]_vars => AttemptInv' BY AttemptStep
<1>3. AttemptInv => OneOpenAttempt BY DEF AttemptInv
<1> QED BY <1>1, <1>2, <1>3, InvariantHolds, PTL DEF Spec
=============================================================================
