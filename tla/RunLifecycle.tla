---------------------------- MODULE RunLifecycle ----------------------------
(***************************************************************************)
(* The life of a Run row of opifex, and everything that writes it          *)
(* concurrently:                                                           *)
(*                                                                         *)
(*   - reconciler passes (Ticks), which dispatch a work order as a new run *)
(*     (dispatch/run-executor.service.ts), plan the wake-up of a parked    *)
(*     run (watchdog/watchdog.service.ts) and resume it;                   *)
(*   - poller passes (Pollers), which drain the runner's events into the   *)
(*     database (runners/run-poller.service.ts, run-events/                *)
(*     run-events.service.ts) and report the runs nobody can poll;         *)
(*   - the local runner and its child processes (runners/claude-code-local/*)
(*     claude-code-local.runner.ts);                                       *)
(*   - restarts of the API process, which lose everything in memory while  *)
(*     the detached children keep going.                                   *)
(*                                                                         *)
(* Both passes are setInterval callbacks with no overlap guard, so Ticks   *)
(* and Pollers are sets.  An action is what happens between two awaits.    *)
(* Every run has its own work order here; two runs of one work order are   *)
(* the subject of WorkOrderQueue.  An event is its position in the         *)
(* runner's stream, which is also the order of `occurredAt`.               *)
(***************************************************************************)
EXTENDS Integers, Sequences, FiniteSets

CONSTANTS
  Runs,            \* run ids
  Ticks,           \* reconciler passes that may be in flight together
  Pollers,         \* poller passes that may be in flight together
  NoRun,           \* "no run", the run field of an idle pass
  MaxConcurrency,  \* runners.claudeCodeLocal.maxConcurrency
  MaxEvents,       \* bound: events of one process before its terminal event
  MaxAttempts,     \* bound: attempts of one run
  MaxFaults,       \* bound: failing database, GitHub or git calls
  MaxRestarts      \* bound: restarts of the API process

ASSUME NoRunAssumption == NoRun \notin Runs
ASSUME BoundsAssumption ==
  /\ MaxConcurrency \in Nat /\ MaxEvents \in Nat
  /\ MaxAttempts \in Nat \ {0} /\ MaxFaults \in Nat /\ MaxRestarts \in Nat

VARIABLES
  \* ---- the database
  status,        \* Run.status, or "absent" before create, "deleted" after it
  lost,          \* Run.attentionReason = LOST_HANDLE_REASON
  planned,       \* Run.resumesAt # null
  lastEventAt,   \* Run.lastEventAt, 0 for null
  attemptCount,  \* Run.attemptCount
  attempts,      \* the RunAttempt rows: number -> outcome, "none" if no row
  stored,        \* the run_events rows
  \* ---- memory of the API process
  tracked,       \* the poller's handle for a run: which invocation, 0 for none
  entry,         \* the runner's map entry: "none", "alive" or "exited" process
  pending,       \* the runner's undelivered events
  tpc, tick,     \* the reconciler passes: program counter and what it works on
  ppc, poll,     \* the poller passes, likewise
  todo,          \* the runs a poller pass has yet to visit
  \* ---- the world
  log,           \* the events a run's processes produced, in order
  invoked,       \* how often a process was started for the run
  orphan,        \* a process of an earlier API process is still alive
  faults, restarts

rowVars    == <<status, lost, planned, lastEventAt, attemptCount, attempts, stored>>
runnerVars == <<entry, pending, log, invoked, orphan>>
tickVars   == <<tpc, tick>>
pollVars   == <<ppc, poll, todo>>
vars == <<rowVars, runnerVars, tracked, tickVars, pollVars, faults, restarts>>

LIVE_STATUSES == {"running", "stalled", "blocked"}
Concluded     == {"succeeded", "failed"}
Statuses      == {"absent", "deleted"} \cup LIVE_STATUSES \cup Concluded
Outcomes      == {"none", "running", "blocked", "succeeded", "failed"}
TerminalKinds == {"completed", "failed"}
Kinds         == {"started", "progress", "blocked"} \cup TerminalKinds
AttemptNumbers == 1..MaxAttempts

\* A reconciler pass: the run, what it does with it, the attemptCount it read
\* and the handle submit gave it.  A poller pass: the run, the events it took,
\* whether the process had ended, and whether they moved lastEventAt.
TickTask(r, kind, prev, handle) ==
  [run |-> r, kind |-> kind, prev |-> prev, handle |-> handle]
PollTask(r, batch, done, advanced) ==
  [run |-> r, batch |-> batch, done |-> done, advanced |-> advanced]
NoTick == TickTask(NoRun, "none", 0, 0)
NoPoll == PollTask(NoRun, {}, FALSE, FALSE)

TickKinds == {"none", "dispatch", "park", "resume"}
TickPCs == {"idle", "create", "records", "submit", "provision", "dispatched",
            "park", "gates", "claim", "close", "open", "recover", "refused"}
PollPCs == {"idle", "poll", "store", "advance", "transition", "attempts",
            "after", "lost", "mark"}

TickTasks == [run : Runs \cup {NoRun}, kind : TickKinds,
              prev : 0..MaxAttempts, handle : Nat]
PollTasks == [run : Runs \cup {NoRun}, batch : SUBSET Nat,
              done : BOOLEAN, advanced : BOOLEAN]

RowTypes ==
  /\ status \in [Runs -> Statuses]
  /\ lost \in [Runs -> BOOLEAN]
  /\ planned \in [Runs -> BOOLEAN]
  /\ lastEventAt \in [Runs -> Nat]
  /\ attemptCount \in [Runs -> 0..MaxAttempts]
  /\ attempts \in [Runs -> [AttemptNumbers -> Outcomes]]
  /\ stored \in [Runs -> SUBSET Nat]

RunnerTypes ==
  /\ entry \in [Runs -> {"none", "alive", "exited"}]
  /\ pending \in [Runs -> SUBSET Nat]
  /\ log \in [Runs -> Seq(Kinds)]
  /\ invoked \in [Runs -> Nat]
  /\ orphan \in [Runs -> BOOLEAN]

TickTypes ==
  /\ tpc \in [Ticks -> TickPCs]
  /\ tick \in [Ticks -> TickTasks]

PollTypes ==
  /\ ppc \in [Pollers -> PollPCs]
  /\ poll \in [Pollers -> PollTasks]
  /\ todo \in [Pollers -> SUBSET (Runs \X Nat)]

TypeOK ==
  /\ RowTypes /\ RunnerTypes /\ TickTypes /\ PollTypes
  /\ tracked \in [Runs -> Nat]
  /\ faults \in 0..MaxFaults
  /\ restarts \in 0..MaxRestarts

Init ==
  /\ status = [r \in Runs |-> "absent"]
  /\ lost = [r \in Runs |-> FALSE]
  /\ planned = [r \in Runs |-> FALSE]
  /\ lastEventAt = [r \in Runs |-> 0]
  /\ attemptCount = [r \in Runs |-> 0]
  /\ attempts = [r \in Runs |-> [k \in AttemptNumbers |-> "none"]]
  /\ stored = [r \in Runs |-> {}]
  /\ tracked = [r \in Runs |-> 0]
  /\ entry = [r \in Runs |-> "none"]
  /\ pending = [r \in Runs |-> {}]
  /\ tpc = [t \in Ticks |-> "idle"]
  /\ tick = [t \in Ticks |-> NoTick]
  /\ ppc = [p \in Pollers |-> "idle"]
  /\ poll = [p \in Pollers |-> NoPoll]
  /\ todo = [p \in Pollers |-> {}]
  /\ log = [r \in Runs |-> <<>>]
  /\ invoked = [r \in Runs |-> 0]
  /\ orphan = [r \in Runs |-> FALSE]
  /\ faults = 0
  /\ restarts = 0

-----------------------------------------------------------------------------
(* Helpers *)

\* Mutant: a parked or stalled run gives its slot away.
OccupiedByRunning == {r \in Runs : status[r] = "running"}

\* OCCUPYING_STATUSES of dispatch.service.ts: the rows that hold a slot.
Occupied == {r \in Runs : status[r] \in LIVE_STATUSES}

\* liveRunCount of the runner: children it started and still knows.
LiveRuns == {r \in Runs : entry[r] = "alive"}

Newest(batch, n) == n \in batch /\ \A m \in batch : m <= n

TerminalIn(r, batch) == {n \in batch : log[r][n] \in TerminalKinds}

NoAttempts == [k \in AttemptNumbers |-> "none"]
WithAttempt(rows, n) == [k \in AttemptNumbers |-> IF k = n THEN "running" ELSE rows[k]]
CloseOpen(rows, outcome) ==
  [k \in AttemptNumbers |-> IF rows[k] = "running" THEN outcome ELSE rows[k]]

\* A pass goes on with what it works on, takes a task, or is done with it.
TickGoes(t, pc) == tpc' = [tpc EXCEPT ![t] = pc] /\ UNCHANGED tick
TickTakes(t, pc, task) == tpc' = [tpc EXCEPT ![t] = pc] /\ tick' = [tick EXCEPT ![t] = task]
TickEnds(t) == TickTakes(t, "idle", NoTick)
PollGoes(p, pc) == ppc' = [ppc EXCEPT ![p] = pc] /\ UNCHANGED <<poll, todo>>
PollTakes(p, pc, task) == ppc' = [ppc EXCEPT ![p] = pc] /\ poll' = [poll EXCEPT ![p] = task]
\* pollOne returned or threw: the loop of `tick` goes on with the next run.
PollNextRun(p) == PollTakes(p, "poll", NoPoll) /\ UNCHANGED todo

Fault == faults < MaxFaults /\ faults' = faults + 1

-----------------------------------------------------------------------------
(* Dispatching a work order: RunExecutorService.dispatchWorkOrder *)

\* decide() counts the rows that occupy the runner; the gates after it read
\* nothing of the run.  The row is created after further awaits.
Decide(t, r) ==
  /\ tpc[t] = "idle"
  /\ status[r] = "absent"
  /\ \A u \in Ticks : tick[u].run # r
  /\ Cardinality(Occupied) < MaxConcurrency
  /\ TickTakes(t, "create", TickTask(r, "dispatch", 0, 0))
  /\ UNCHANGED <<rowVars, runnerVars, tracked, pollVars, faults, restarts>>

\* run.create with attempt 1 nested in the same statement.
CreateRun(t) ==
  LET r == tick[t].run IN
  /\ tpc[t] = "create"
  /\ status' = [status EXCEPT ![r] = "running"]
  /\ attemptCount' = [attemptCount EXCEPT ![r] = 1]
  /\ attempts' = [attempts EXCEPT ![r] = WithAttempt(@, 1)]
  /\ TickGoes(t, "records")
  /\ UNCHANGED <<lost, planned, lastEventAt, stored, runnerVars, tracked, pollVars,
                 faults, restarts>>

\* records.write succeeded; its failure is TickFault.
WriteRecords(t) ==
  /\ tpc[t] = "records"
  /\ TickGoes(t, "submit")
  /\ UNCHANGED <<rowVars, runnerVars, tracked, pollVars, faults, restarts>>

\* What follows a handle returned by runner.submit, before the next await: a
\* dispatch tracks the run at once, a resume first rewrites the attempts.
Submitted(t, r, handle) ==
  IF tick[t].kind = "resume"
  THEN /\ TickTakes(t, "close", TickTask(r, "resume", tick[t].prev, handle))
       /\ UNCHANGED tracked
  ELSE TickGoes(t, "dispatched") /\ tracked' = [tracked EXCEPT ![r] = handle]

\* The synchronous part of submit.  Entries that finished long enough ago are
\* reaped first (the clock decides which); an entry for the identity returns
\* its handle whether or not its process is alive; then the ceiling.
Submit(t) ==
  LET r == tick[t].run IN
  /\ tpc[t] = "submit"
  /\ \E old \in SUBSET {s \in Runs : entry[s] = "exited" /\ pending[s] = {}} :
       LET kept == [s \in Runs |-> IF s \in old THEN "none" ELSE entry[s]] IN
       /\ entry' = kept
       /\ \/ kept[r] # "none" /\ Submitted(t, r, invoked[r])
          \/ /\ kept[r] = "none"
             /\ TickGoes(t, IF Cardinality(LiveRuns) >= MaxConcurrency
                            THEN "refused" ELSE "provision")
             /\ UNCHANGED tracked
  /\ UNCHANGED <<rowVars, pending, log, invoked, orphan, pollVars, faults, restarts>>

\* The rest of submit, after `await provision`: the process starts, the entry
\* is set (over any other), run.started is pending.
Provision(t) ==
  LET r == tick[t].run IN
  /\ tpc[t] = "provision"
  /\ entry' = [entry EXCEPT ![r] = "alive"]
  /\ invoked' = [invoked EXCEPT ![r] = @ + 1]
  /\ log' = [log EXCEPT ![r] = Append(@, "started")]
  /\ pending' = [pending EXCEPT ![r] = {Len(log[r]) + 1}]
  /\ Submitted(t, r, invoked[r] + 1)
  /\ UNCHANGED <<rowVars, orphan, pollVars, faults, restarts>>

\* workOrder.update to `dispatched`; the row is WorkOrderQueue's.
MarkDispatched(t) ==
  /\ tpc[t] = "dispatched"
  /\ TickEnds(t)
  /\ UNCHANGED <<rowVars, runnerVars, tracked, pollVars, faults, restarts>>

\* Mutant: the row fails whatever it says by now.
RecoverById(t) ==
  LET r == tick[t].run IN
  /\ tpc[t] = "recover"
  /\ status' = [status EXCEPT ![r] = "failed"]
  /\ TickEnds(t)
  /\ UNCHANGED <<lost, planned, lastEventAt, attemptCount, attempts, stored,
                 runnerVars, tracked, pollVars, faults, restarts>>

\* recover and recoverResume on any error but a capacity refusal: the row
\* fails if it still says `running`.  Neither touches the attempts.
Recover(t) ==
  LET r == tick[t].run IN
  /\ tpc[t] = "recover"
  /\ status' = [status EXCEPT ![r] = IF @ = "running" THEN "failed" ELSE @]
  /\ TickEnds(t)
  /\ UNCHANGED <<lost, planned, lastEventAt, attemptCount, attempts, stored,
                 runnerVars, tracked, pollVars, faults, restarts>>

\* RunnerAtCapacityError: a dispatch deletes its row (attempts and events
\* cascade), a resume goes back to parked if the row still says `running`.
RecoverCapacity(t) ==
  LET r == tick[t].run IN
  /\ tpc[t] = "refused"
  /\ \/ /\ tick[t].kind = "dispatch"
        /\ status' = [status EXCEPT ![r] = "deleted"]
        /\ attempts' = [attempts EXCEPT ![r] = NoAttempts]
        /\ stored' = [stored EXCEPT ![r] = {}]
        /\ UNCHANGED attemptCount
     \/ /\ tick[t].kind = "resume" /\ status[r] = "running"
        /\ status' = [status EXCEPT ![r] = "blocked"]
        /\ attemptCount' = [attemptCount EXCEPT ![r] = tick[t].prev]
        /\ UNCHANGED <<attempts, stored>>
     \/ /\ tick[t].kind = "resume" /\ status[r] # "running"
        /\ UNCHANGED <<status, attempts, stored, attemptCount>>
  /\ TickEnds(t)
  /\ UNCHANGED <<lost, planned, lastEventAt, runnerVars, tracked, pollVars,
                 faults, restarts>>

-----------------------------------------------------------------------------
(* Parking and resuming: WatchdogService.sweepBlocked and resumeParkedRun *)

\* decideParking said `park` of a blocked run; the plan is written after an
\* await, by id and whatever the row says by then.
WatchdogPark(t, r) ==
  /\ tpc[t] = "idle"
  /\ status[r] = "blocked" /\ ~planned[r]
  /\ TickTakes(t, "park", TickTask(r, "park", 0, 0))
  /\ UNCHANGED <<rowVars, runnerVars, tracked, pollVars, faults, restarts>>

WritePlan(t) ==
  /\ tpc[t] = "park"
  /\ planned' = [planned EXCEPT ![tick[t].run] = TRUE]
  /\ TickEnds(t)
  /\ UNCHANGED <<status, lost, lastEventAt, attemptCount, attempts, stored,
                 runnerVars, tracked, pollVars, faults, restarts>>

\* decideParking said `resume`; ResumeExecutor hands it over later in the pass.
WatchdogResume(t, r) ==
  /\ tpc[t] = "idle"
  /\ status[r] = "blocked" /\ planned[r]
  /\ TickTakes(t, "gates", TickTask(r, "resume", 0, 0))
  /\ UNCHANGED <<rowVars, runnerVars, tracked, pollVars, faults, restarts>>

\* The gates of resumeParkedRun: the row is read once; any gate may refuse.
ResumeGates(t) ==
  LET r == tick[t].run IN
  /\ tpc[t] = "gates"
  /\ \/ TickEnds(t)
     \/ /\ status[r] = "blocked"
        /\ attemptCount[r] < MaxAttempts
        /\ TickTakes(t, "claim", TickTask(r, "resume", attemptCount[r], 0))
  /\ UNCHANGED <<rowVars, runnerVars, tracked, pollVars, faults, restarts>>

\* The claim: one guarded update from `blocked` to `running`.
ClaimParked(t) ==
  LET r == tick[t].run IN
  /\ tpc[t] = "claim"
  /\ \/ /\ status[r] = "blocked"
        /\ status' = [status EXCEPT ![r] = "running"]
        /\ planned' = [planned EXCEPT ![r] = FALSE]
        /\ attemptCount' = [attemptCount EXCEPT ![r] = tick[t].prev + 1]
        /\ TickGoes(t, "submit")
     \/ /\ status[r] # "blocked"
        /\ TickEnds(t)
        /\ UNCHANGED <<status, planned, attemptCount>>
  /\ UNCHANGED <<lost, lastEventAt, attempts, stored, runnerVars, tracked, pollVars,
                 faults, restarts>>

\* Mutant: the parked attempt is left open.
CloseParkedAttemptNot(t) ==
  /\ tpc[t] = "close"
  /\ TickGoes(t, "open")
  /\ UNCHANGED <<rowVars, runnerVars, tracked, pollVars, faults, restarts>>

\* openResumedAttempt, first statement: every open attempt ends as `blocked`.
CloseParkedAttempt(t) ==
  LET r == tick[t].run IN
  /\ tpc[t] = "close"
  /\ attempts' = [attempts EXCEPT ![r] = CloseOpen(@, "blocked")]
  /\ TickGoes(t, "open")
  /\ UNCHANGED <<status, lost, planned, lastEventAt, attemptCount, stored,
                 runnerVars, tracked, pollVars, faults, restarts>>

\* Second statement: the new attempt, unique per (runId, number); then track.
OpenResumedAttempt(t) ==
  LET r == tick[t].run
      n == tick[t].prev + 1 IN
  /\ tpc[t] = "open"
  /\ \/ /\ attempts[r][n] = "none"
        /\ attempts' = [attempts EXCEPT ![r] = WithAttempt(@, n)]
        /\ tracked' = [tracked EXCEPT ![r] = tick[t].handle]
        /\ TickEnds(t)
     \/ /\ attempts[r][n] # "none"
        /\ TickGoes(t, "recover")
        /\ UNCHANGED <<attempts, tracked>>
  /\ UNCHANGED <<status, lost, planned, lastEventAt, attemptCount, stored,
                 runnerVars, pollVars, faults, restarts>>

\* A call of a pass fails.  Between create (or claim) and the end the executor
\* catches it and recovers; anywhere else the pass gives this run up.
TickFault(t) ==
  /\ Fault
  /\ \/ /\ tpc[t] \in {"records", "provision", "dispatched", "close", "open"}
        /\ TickGoes(t, "recover")
     \/ /\ tpc[t] \in {"create", "park", "gates", "claim", "recover", "refused"}
        /\ TickEnds(t)
  /\ UNCHANGED <<rowVars, runnerVars, tracked, pollVars, restarts>>

-----------------------------------------------------------------------------
(* The poller: RunPollerService.tick, and the ingestion it drives *)

\* The loop runs over a snapshot of the handles.
StartPoll(p) ==
  /\ ppc[p] = "idle"
  /\ PollTakes(p, "poll", NoPoll)
  /\ todo' = [todo EXCEPT ![p] = {<<r, tracked[r]>> : r \in {s \in Runs : tracked[s] # 0}}]
  /\ UNCHANGED <<rowVars, runnerVars, tracked, tickVars, faults, restarts>>

Forget(r) == tracked' = [tracked EXCEPT ![r] = 0]

\* runner.poll: an entry of another invocation, or none, is `unknown`;
\* otherwise the pending events are taken out of the runner.
PollOne(p, r, h) ==
  /\ ppc[p] = "poll"
  /\ <<r, h>> \in todo[p]
  /\ todo' = [todo EXCEPT ![p] = @ \ {<<r, h>>}]
  /\ LET gone == entry[r] = "none" \/ h # invoked[r]
         done == entry[r] = "exited"
     IN \/ /\ gone
           /\ Forget(r)
           /\ PollTakes(p, "lost", PollTask(r, {}, FALSE, FALSE))
           /\ UNCHANGED pending
        \/ /\ ~gone /\ pending[r] # {}
           /\ pending' = [pending EXCEPT ![r] = {}]
           /\ PollTakes(p, "store", PollTask(r, pending[r], done, FALSE))
           /\ UNCHANGED tracked
        \/ /\ ~gone /\ pending[r] = {}
           /\ IF done THEN Forget(r) ELSE UNCHANGED tracked
           /\ UNCHANGED <<ppc, poll, pending>>
  /\ UNCHANGED <<rowVars, entry, log, invoked, orphan, tickVars, faults, restarts>>

\* Mutant: the row is moved without waiting for createMany.
StoreEventsLater(p) ==
  /\ ppc[p] = "store"
  /\ PollGoes(p, "advance")
  /\ UNCHANGED <<rowVars, runnerVars, tracked, tickVars, faults, restarts>>

\* ingest: the run is looked up (a missing one throws), then createMany with
\* skipDuplicates.
StoreEvents(p) ==
  LET r == poll[p].run IN
  /\ ppc[p] = "store"
  /\ \/ /\ status[r] \notin {"absent", "deleted"}
        /\ stored' = [stored EXCEPT ![r] = @ \cup poll[p].batch]
        /\ PollGoes(p, "advance")
     \/ /\ status[r] \in {"absent", "deleted"}
        /\ PollNextRun(p)
        /\ UNCHANGED stored
  /\ UNCHANGED <<status, lost, planned, lastEventAt, attemptCount, attempts,
                 runnerVars, tracked, tickVars, faults, restarts>>

\* advanceRun, the guarded update of lastEventAt.
AdvanceRun(p) ==
  LET r == poll[p].run IN
  /\ ppc[p] = "advance"
  /\ \E n \in poll[p].batch :
       /\ Newest(poll[p].batch, n)
       /\ \/ /\ lastEventAt[r] < n
             /\ lastEventAt' = [lastEventAt EXCEPT ![r] = n]
             /\ PollTakes(p, "transition", PollTask(r, poll[p].batch, poll[p].done, TRUE))
          \/ /\ lastEventAt[r] >= n
             /\ UNCHANGED lastEventAt
             /\ PollTakes(p, "transition", PollTask(r, poll[p].batch, poll[p].done, FALSE))
  /\ UNCHANGED todo
  /\ UNCHANGED <<status, lost, planned, attemptCount, attempts, stored,
                 runnerVars, tracked, tickVars, faults, restarts>>

\* Mutant: whatever ends a run is taken for a success.
ConcludeRunSucceeds(p) ==
  LET r == poll[p].run IN
  /\ ppc[p] = "transition"
  /\ TerminalIn(r, poll[p].batch) # {}
  /\ status' = [status EXCEPT ![r] = IF @ \in LIVE_STATUSES THEN "succeeded" ELSE @]
  /\ PollGoes(p, "attempts")
  /\ UNCHANGED <<lost, planned, lastEventAt, attemptCount, attempts, stored,
                 runnerVars, tracked, tickVars, faults, restarts>>

\* Mutant: only a row that says `running` may conclude.
ConcludeRunOnlyRunning(p) ==
  LET r == poll[p].run IN
  /\ ppc[p] = "transition"
  /\ \E n \in TerminalIn(r, poll[p].batch) :
       /\ Newest(TerminalIn(r, poll[p].batch), n)
       /\ status' = [status EXCEPT ![r] = IF @ # "running" THEN @
                       ELSE IF log[r][n] = "completed" THEN "succeeded" ELSE "failed"]
  /\ PollGoes(p, "attempts")
  /\ UNCHANGED <<lost, planned, lastEventAt, attemptCount, attempts, stored,
                 runnerVars, tracked, tickVars, faults, restarts>>

\* concludeRun: the last terminal event decides; only a live row concludes.
ConcludeRun(p) ==
  LET r == poll[p].run IN
  /\ ppc[p] = "transition"
  /\ \E n \in TerminalIn(r, poll[p].batch) :
       /\ Newest(TerminalIn(r, poll[p].batch), n)
       /\ \/ /\ status[r] \in LIVE_STATUSES
             /\ status' = [status EXCEPT ![r] =
                   IF log[r][n] = "completed" THEN "succeeded" ELSE "failed"]
             /\ PollGoes(p, "attempts")
          \/ /\ status[r] \notin LIVE_STATUSES
             /\ PollGoes(p, "after")
             /\ UNCHANGED status
  /\ UNCHANGED <<lost, planned, lastEventAt, attemptCount, attempts, stored,
                 runnerVars, tracked, tickVars, faults, restarts>>

\* blockRun, when the batch moved liveness forward and ends on run.blocked.
BlockRun(p) ==
  LET r == poll[p].run IN
  /\ ppc[p] = "transition"
  /\ TerminalIn(r, poll[p].batch) = {} /\ poll[p].advanced
  /\ \E n \in poll[p].batch : Newest(poll[p].batch, n) /\ log[r][n] = "blocked"
  /\ status' = [status EXCEPT ![r] = IF @ \in LIVE_STATUSES THEN "blocked" ELSE @]
  /\ PollGoes(p, "after")
  /\ UNCHANGED <<lost, planned, lastEventAt, attemptCount, attempts, stored,
                 runnerVars, tracked, tickVars, faults, restarts>>

\* resumeRun, when the batch moved liveness forward and ends on anything else.
ResumeRun(p) ==
  LET r == poll[p].run
      back == status[r] \in {"stalled", "blocked"} IN
  /\ ppc[p] = "transition"
  /\ TerminalIn(r, poll[p].batch) = {} /\ poll[p].advanced
  /\ \E n \in poll[p].batch : Newest(poll[p].batch, n) /\ log[r][n] # "blocked"
  /\ status' = [status EXCEPT ![r] = IF back THEN "running" ELSE @]
  /\ planned' = [planned EXCEPT ![r] = IF back THEN FALSE ELSE @]
  /\ PollGoes(p, "after")
  /\ UNCHANGED <<lost, lastEventAt, attemptCount, attempts, stored,
                 runnerVars, tracked, tickVars, faults, restarts>>

\* A batch with nothing newer than the row and no terminal event.
StaleBatch(p) ==
  /\ ppc[p] = "transition"
  /\ TerminalIn(poll[p].run, poll[p].batch) = {} /\ ~poll[p].advanced
  /\ PollGoes(p, "after")
  /\ UNCHANGED <<rowVars, runnerVars, tracked, tickVars, faults, restarts>>

\* concludeRun's second statement: the open attempts end with the run.
ConcludeAttempts(p) ==
  LET r == poll[p].run IN
  /\ ppc[p] = "attempts"
  /\ attempts' = [attempts EXCEPT ![r] =
        CloseOpen(@, IF \E n \in TerminalIn(r, poll[p].batch) : log[r][n] = "completed"
                     THEN "succeeded" ELSE "failed")]
  /\ PollGoes(p, "after")
  /\ UNCHANGED <<status, lost, planned, lastEventAt, attemptCount, stored,
                 runnerVars, tracked, tickVars, faults, restarts>>

\* The end of pollOne: a finished process is polled no more.
AfterIngest(p) ==
  /\ ppc[p] = "after"
  /\ IF poll[p].done THEN Forget(poll[p].run) ELSE UNCHANGED tracked
  /\ PollNextRun(p)
  /\ UNCHANGED <<rowVars, runnerVars, tickVars, faults, restarts>>

\* Mutants: the update is by id alone; the reason is written to the status.
MarkStalledById(r) ==
  /\ status' = [status EXCEPT ![r] = "stalled"]
  /\ lost' = [lost EXCEPT ![r] = TRUE]
MarkStalledAsLost(r) ==
  /\ status' = [status EXCEPT ![r] = IF @ \in LIVE_STATUSES THEN "lost" ELSE @]
  /\ lost' = [lost EXCEPT ![r] = @ \/ status[r] \in LIVE_STATUSES]

\* markLost's guarded update.
MarkStalled(r) ==
  /\ status' = [status EXCEPT ![r] = IF @ \in LIVE_STATUSES THEN "stalled" ELSE @]
  /\ lost' = [lost EXCEPT ![r] = @ \/ status[r] \in LIVE_STATUSES]

\* The `unknown` branch of pollOne.
MarkUnknown(p) ==
  /\ ppc[p] = "lost"
  /\ MarkStalled(poll[p].run)
  /\ PollNextRun(p)
  /\ UNCHANGED <<planned, lastEventAt, attemptCount, attempts, stored,
                 runnerVars, tracked, tickVars, faults, restarts>>

\* reconcileUntracked reads the live rows it has not reported yet...
ReconcileUntracked(p) ==
  LET found == {r \in Runs : /\ status[r] \in LIVE_STATUSES
                             /\ ~(status[r] = "stalled" /\ lost[r])} IN
  /\ ppc[p] = "poll" /\ todo[p] = {}
  /\ PollTakes(p, IF found = {} THEN "idle" ELSE "mark", NoPoll)
  /\ todo' = [todo EXCEPT ![p] = {<<r, 0>> : r \in found}]
  /\ UNCHANGED <<rowVars, runnerVars, tracked, tickVars, faults, restarts>>

\* Mutant: a scan that only counts them.
MarkUntrackedNot(p, r) ==
  /\ ppc[p] = "mark"
  /\ <<r, 0>> \in todo[p]
  /\ todo' = [todo EXCEPT ![p] = @ \ {<<r, 0>>}]
  /\ PollTakes(p, IF todo[p] = {<<r, 0>>} THEN "idle" ELSE "mark", NoPoll)
  /\ UNCHANGED <<rowVars, runnerVars, tracked, tickVars, faults, restarts>>

\* ...and marks those for which there is no handle by now.
MarkUntracked(p, r) ==
  /\ ppc[p] = "mark"
  /\ <<r, 0>> \in todo[p]
  /\ IF tracked[r] = 0 THEN MarkStalled(r) ELSE UNCHANGED <<status, lost>>
  /\ todo' = [todo EXCEPT ![p] = @ \ {<<r, 0>>}]
  /\ PollTakes(p, IF todo[p] = {<<r, 0>>} THEN "idle" ELSE "mark", NoPoll)
  /\ UNCHANGED <<planned, lastEventAt, attemptCount, attempts, stored,
                 runnerVars, tracked, tickVars, faults, restarts>>

\* A statement of the poller fails.  In pollOne the loop goes on with the next
\* run; in reconcileUntracked the pass ends.
PollFault(p) ==
  /\ Fault
  /\ \/ /\ ppc[p] \in {"store", "advance", "transition", "attempts", "lost"}
        /\ PollNextRun(p)
     \/ /\ ppc[p] = "mark"
        /\ PollTakes(p, "idle", NoPoll)
        /\ todo' = [todo EXCEPT ![p] = {}]
  /\ UNCHANGED <<rowVars, runnerVars, tracked, tickVars, restarts>>

-----------------------------------------------------------------------------
(* The runner's children, and the API process itself *)

\* consumeLine maps an output line to an event.
Emit(r, kind) ==
  /\ entry[r] = "alive"
  /\ Len(log[r]) < MaxEvents
  /\ log' = [log EXCEPT ![r] = Append(@, kind)]
  /\ pending' = [pending EXCEPT ![r] = @ \cup {Len(log[r]) + 1}]
  /\ UNCHANGED <<rowVars, entry, invoked, orphan, tracked, tickVars, pollVars, faults, restarts>>

\* The child ends (by itself, at its deadline, or cancelled for its deadline or
\* budget), and settle reports it.
Exit(r, kind) ==
  /\ entry[r] = "alive"
  /\ entry' = [entry EXCEPT ![r] = "exited"]
  /\ log' = [log EXCEPT ![r] = Append(@, kind)]
  /\ pending' = [pending EXCEPT ![r] = @ \cup {Len(log[r]) + 1}]
  /\ UNCHANGED <<rowVars, invoked, orphan, tracked, tickVars, pollVars, faults, restarts>>

\* A detached child of an earlier API process ends; nobody hears of it.
OrphanExit(r) ==
  /\ orphan[r]
  /\ orphan' = [orphan EXCEPT ![r] = FALSE]
  /\ UNCHANGED <<rowVars, entry, pending, log, invoked, tracked, tickVars, pollVars,
                 faults, restarts>>

\* The API process restarts: the handles, the runner's map and every pass in
\* flight are gone, the children are not.
Restart ==
  /\ restarts < MaxRestarts
  /\ restarts' = restarts + 1
  /\ orphan' = [r \in Runs |-> orphan[r] \/ entry[r] = "alive"]
  /\ entry' = [r \in Runs |-> "none"]
  /\ pending' = [r \in Runs |-> {}]
  /\ tracked' = [r \in Runs |-> 0]
  /\ tpc' = [t \in Ticks |-> "idle"]
  /\ tick' = [t \in Ticks |-> NoTick]
  /\ ppc' = [p \in Pollers |-> "idle"]
  /\ poll' = [p \in Pollers |-> NoPoll]
  /\ todo' = [p \in Pollers |-> {}]
  /\ UNCHANGED <<rowVars, log, invoked, faults>>

-----------------------------------------------------------------------------

TickStarts(t) == \E r \in Runs : Decide(t, r) \/ WatchdogPark(t, r) \/ WatchdogResume(t, r)

TickWorks(t) ==
  \/ CreateRun(t) \/ WriteRecords(t) \/ Submit(t) \/ Provision(t) \/ MarkDispatched(t)
  \/ Recover(t) \/ RecoverCapacity(t)
  \/ WritePlan(t) \/ ResumeGates(t) \/ ClaimParked(t)
  \/ CloseParkedAttempt(t) \/ OpenResumedAttempt(t)

PollWorks(p) ==
  \/ StartPoll(p) \/ StoreEvents(p) \/ AdvanceRun(p) \/ ConcludeRun(p) \/ BlockRun(p)
  \/ ResumeRun(p) \/ StaleBatch(p) \/ ConcludeAttempts(p) \/ AfterIngest(p)
  \/ MarkUnknown(p) \/ ReconcileUntracked(p)
  \/ \E r \in Runs : (\E pair \in todo[p] : PollOne(p, r, pair[2])) \/ MarkUntracked(p, r)

RunnerWorks ==
  \E r \in Runs : \/ \E kind \in {"progress", "blocked"} : Emit(r, kind)
                 \/ \E kind \in TerminalKinds : Exit(r, kind)
                 \/ OrphanExit(r)

Next ==
  \/ \E t \in Ticks : TickStarts(t) \/ TickWorks(t) \/ TickFault(t)
  \/ \E p \in Pollers : PollWorks(p) \/ PollFault(p)
  \/ RunnerWorks
  \/ Restart

\* A pass that has begun goes on while the process lives, and the poller's
\* timer keeps firing.  Nothing obliges a child to end, a pass to dispatch or
\* to resume, or a call to fail.
Fairness ==
  /\ \A t \in Ticks : WF_vars(TickWorks(t))
  /\ \A p \in Pollers : WF_vars(PollWorks(p))

Spec == Init /\ [][Next]_vars
FairSpec == Spec /\ Fairness

-----------------------------------------------------------------------------
(* Properties *)

\* A run that concluded never changes its status again, whatever is in flight:
\* late deliveries, a resume that was being admitted, a pass recovering, a scan
\* for lost handles.  Every guarded `updateMany` of Run.status is there for it.
ConcludedIsFinal ==
  [][\A r \in Runs : status[r] \in Concluded => status'[r] = status[r]]_vars

\* `succeeded` and `blocked` are only ever the runner's own word: the event
\* that says so is a row of run_events (VISION 9, concludeRun, blockRun).
StatusIsReported ==
  \A r \in Runs :
    /\ status[r] = "succeeded" => \E n \in stored[r] : log[r][n] = "completed"
    /\ status[r] = "blocked" => \E n \in stored[r] : log[r][n] = "blocked"

\* The row keeps every promise of RunStatus: each step of any actor is one of
\* its steps or leaves status and reports alone.
Reported == [r \in Runs |-> {log[r][n] : n \in stored[r]}]
Row == INSTANCE RunStatus WITH reported <- Reported
RowSpec == Row!Spec

\* Neither the rows that occupy the runner nor its live children exceed its
\* ceiling, through parks, resumes, refusals and failed dispatches.
WithinCeiling ==
  /\ Cardinality({r \in Runs : status[r] \in LIVE_STATUSES}) <= MaxConcurrency
  /\ Cardinality({r \in Runs : entry[r] = "alive"}) <= MaxConcurrency

\* A run never has two attempts open at once ("a run with two open rows is a
\* bug somewhere upstream", openResumedAttempt).
OneOpenAttempt ==
  \A r \in Runs : \A j, k \in AttemptNumbers :
    attempts[r][j] = "running" /\ attempts[r][k] = "running" => j = k

\* A row that says `running` with no child behind it does not stay so: the
\* run concludes, or the poller reports it stalled.
NoPhantomRunning ==
  \A r \in Runs : (status[r] = "running" /\ entry[r] # "alive")
                  ~> (status[r] # "running" \/ entry[r] = "alive")

\* A child that ended has its run concluded, as long as no call failed and the
\* API process did not restart.
ExitConcludes ==
  \A r \in Runs : (entry[r] = "exited")
                  ~> (status[r] \in Concluded \/ faults > 0 \/ restarts > 0)

-----------------------------------------------------------------------------
(* What comments of the code say, and the code does not do *)

\* runners/run-poller.service.ts:197, of a run whose polling failed: "its
\* events will be re-requested next tick".  So an event of a live invocation is
\* pending, on its way, or stored.
EventsReRequested ==
  \A r \in Runs : restarts = 0 =>
    \A n \in 1..Len(log[r]) :
      \/ n \in pending[r] \cup stored[r]
      \/ \E p \in Pollers : poll[p].run = r /\ n \in poll[p].batch

\* run-executor.service.ts, resumeParkedRun: the runner's process slot "WAS
\* freed: the CLI exited when it hit the limit.  `submit` re-takes it".  So
\* attempt k is the k-th invocation of the runner.
ResumeReInvokes ==
  \A r \in Runs : \A k \in 2..MaxAttempts : attempts[r][k] # "none" => invoked[r] >= k
=============================================================================
