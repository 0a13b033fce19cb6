------------------------- MODULE RunLifecycleProofs -------------------------
(***************************************************************************)
(* Proofs about RunLifecycle, for any number of runs, passes, faults and   *)
(* restarts: the type invariant, that stored events back the statuses that *)
(* claim them, that conclusions are final, and that the row implements     *)
(* RunStatus.                                                              *)
(***************************************************************************)
EXTENDS RunLifecycle, TLAPS

-----------------------------------------------------------------------------
(* The inductive invariant *)

Events(r) == 1..Len(log[r])

\* What is stored or pending was produced, and a process once reported its start.
EventInv ==
  \A r \in Runs : /\ stored[r] \subseteq Events(r) /\ pending[r] \subseteq Events(r)
                  /\ entry[r] # "none" => log[r] # <<>>

\* A poller pass at work on a run holds events of that run, stored by the time
\* the row is moved.
Ingesting == {"store", "advance", "transition", "attempts", "after"}
BatchInv ==
  \A p \in Pollers :
    /\ ppc[p] \in Ingesting \cup {"lost"} => poll[p].run \in Runs
    /\ ppc[p] \in Ingesting => poll[p].batch \subseteq Events(poll[p].run)
    /\ ppc[p] \in Ingesting \ {"store"} => poll[p].batch \subseteq stored[poll[p].run]

\* What a reconciler pass has between its steps.
Starting == {"create", "records", "submit", "provision", "refused"}
TickOK(pc, task) ==
  /\ pc = "idle" => task.kind = "none"
  /\ pc # "idle" => task.run \in Runs
  /\ pc \in {"create", "records", "dispatched"} => task.kind = "dispatch"
  /\ pc = "park" => task.kind = "park"
  /\ pc \in {"gates", "claim", "close", "open"} => task.kind = "resume"
  /\ pc \in {"submit", "provision", "refused", "recover"} => task.kind \in {"dispatch", "resume"}
  /\ pc \in Starting \cup {"claim", "close", "open"} => task.prev < MaxAttempts
TickInv == \A t \in Ticks : TickOK(tpc[t], tick[t])

\* A run being resumed once reported a block.
HasBlocked(r) == \E n \in stored[r] : log[r][n] = "blocked"
ResumeInv == \A t \in Ticks : tick[t].kind = "resume" => HasBlocked(tick[t].run)

\* A pass dispatching a run is alone with it.
DispatchInv ==
  \A t, u \in Ticks :
    tick[t].kind = "dispatch" /\ tick[u].kind = "dispatch" /\ tick[t].run = tick[u].run => t = u

\* Until its process starts, a run being dispatched has no event and has not
\* concluded.
StartOK(pc, task) ==
  task.kind = "dispatch" /\ pc \in Starting =>
    /\ log[task.run] = <<>>
    /\ pc = "create" => status[task.run] = "absent"
    /\ pc # "create" => status[task.run] \in {"running", "stalled"}
StartInv == \A t \in Ticks : StartOK(tpc[t], tick[t])

\* A run without a row never had a process.
AbsentInv == \A r \in Runs : status[r] = "absent" => log[r] = <<>>

Inv == EventInv /\ BatchInv /\ TickInv /\ ResumeInv /\ DispatchInv /\ StartInv
         /\ AbsentInv /\ StatusIsReported
RunInv == TypeOK /\ Inv

-----------------------------------------------------------------------------
(* Types *)

\* What a pass works on is of its type, whoever builds it.
LEMMA TaskTypes ==
  /\ NoTick \in TickTasks /\ NoPoll \in PollTasks
  /\ \A r \in Runs : \A k \in TickKinds : \A n \in 0..MaxAttempts : \A h \in Nat :
       TickTask(r, k, n, h) \in TickTasks
  /\ \A r \in Runs : \A s \in SUBSET Nat : \A d, a \in BOOLEAN :
       PollTask(r, s, d, a) \in PollTasks
  BY BoundsAssumption DEF NoTick, NoPoll, TickTask, PollTask, TickTasks, PollTasks, TickKinds

\* Opening and closing attempts keeps the attempt rows in their type.
LEMMA AttemptTypes ==
  /\ NoAttempts \in [AttemptNumbers -> Outcomes]
  /\ \A rows \in [AttemptNumbers -> Outcomes] : \A n :
       WithAttempt(rows, n) \in [AttemptNumbers -> Outcomes]
  /\ \A rows \in [AttemptNumbers -> Outcomes] : \A o \in Outcomes :
       CloseOpen(rows, o) \in [AttemptNumbers -> Outcomes]
  BY DEF NoAttempts, WithAttempt, CloseOpen, Outcomes

\* How a pass moves on keeps the types of its state.
LEMMA TickMoves ==
  ASSUME TickTypes, NEW t \in Ticks, NEW pc \in TickPCs
  PROVE  /\ TickGoes(t, pc) => TickTypes'
         /\ \A task \in TickTasks : TickTakes(t, pc, task) => TickTypes'
         /\ TickEnds(t) => TickTypes'
  BY TaskTypes DEF TickTypes, TickGoes, TickTakes, TickEnds, TickPCs

\* The same for the poller passes.
LEMMA PollMoves ==
  ASSUME PollTypes, NEW p \in Pollers, NEW pc \in PollPCs
  PROVE  /\ PollGoes(p, pc) => PollTypes'
         /\ \A task \in PollTasks : PollTakes(p, pc, task) =>
              ppc' \in [Pollers -> PollPCs] /\ poll' \in [Pollers -> PollTasks]
         /\ PollNextRun(p) => PollTypes'
  BY TaskTypes DEF PollTypes, PollGoes, PollTakes, PollNextRun, PollPCs

\* Reading a task.
LEMMA TaskFields ==
  ASSUME TypeOK
  PROVE  /\ \A t \in Ticks : /\ tick[t].run \in Runs \cup {NoRun}
                             /\ tick[t].kind \in TickKinds
                             /\ tick[t].prev \in 0..MaxAttempts
                             /\ tick[t].handle \in Nat
         /\ \A p \in Pollers : /\ poll[p].run \in Runs \cup {NoRun}
                               /\ poll[p].batch \in SUBSET Nat
                               /\ poll[p].done \in BOOLEAN
                               /\ poll[p].advanced \in BOOLEAN
  BY DEF TypeOK, TickTypes, PollTypes, TickTasks, PollTasks

\* Decide keeps every variable in its type.
LEMMA DecideType ==
  ASSUME TypeOK, TickInv, BatchInv, NEW t \in Ticks, NEW r \in Runs, Decide(t, r)
  PROVE  TypeOK'
<1>1. RowTypes'
  BY DEF TypeOK, Decide, RowTypes, rowVars
<1>2. RunnerTypes'
  BY DEF TypeOK, Decide, RunnerTypes, runnerVars
<1>3. TickTypes'
  <2>1. TickTask(r, "dispatch", 0, 0) \in TickTasks
    BY BoundsAssumption DEF TickTask, TickTasks, TickKinds
  <2> QED
    BY <2>1, TickMoves DEF TypeOK, Decide, TickPCs, tickVars
<1>4. PollTypes'
  BY DEF TypeOK, Decide, PollTypes, pollVars
<1> QED
  BY <1>1, <1>2, <1>3, <1>4, TaskFields, BoundsAssumption
     DEF TypeOK, RunnerTypes, Decide, rowVars, runnerVars, tickVars, pollVars

\* CreateRun keeps every variable in its type.
LEMMA CreateRunType ==
  ASSUME TypeOK, TickInv, BatchInv, NEW t \in Ticks, CreateRun(t)
  PROVE  TypeOK'
<1>1. RowTypes'
  <2>1. status' \in [Runs -> Statuses]
    BY DEF TypeOK, RowTypes, CreateRun, Statuses, LIVE_STATUSES, Concluded
  <2>2. attemptCount' \in [Runs -> 0..MaxAttempts]
    BY TaskFields, BoundsAssumption
       DEF TypeOK, TickInv, TickOK, TickKinds, Starting, RowTypes, CreateRun
  <2>3. attempts' \in [Runs -> [AttemptNumbers -> Outcomes]]
    BY AttemptTypes DEF TypeOK, RowTypes, CreateRun
  <2> QED
    BY <2>1, <2>2, <2>3 DEF TypeOK, RowTypes, CreateRun
<1>2. RunnerTypes'
  BY DEF TypeOK, CreateRun, RunnerTypes, runnerVars
<1>3. TickTypes'
  BY TickMoves DEF TypeOK, CreateRun, TickPCs, tickVars
<1>4. PollTypes'
  BY DEF TypeOK, CreateRun, PollTypes, pollVars
<1> QED
  BY <1>1, <1>2, <1>3, <1>4, TaskFields, BoundsAssumption
     DEF TypeOK, RunnerTypes, CreateRun, rowVars, runnerVars, tickVars, pollVars

\* WriteRecords keeps every variable in its type.
LEMMA WriteRecordsType ==
  ASSUME TypeOK, TickInv, BatchInv, NEW t \in Ticks, WriteRecords(t)
  PROVE  TypeOK'
<1>1. RowTypes'
  BY DEF TypeOK, WriteRecords, RowTypes, rowVars
<1>2. RunnerTypes'
  BY DEF TypeOK, WriteRecords, RunnerTypes, runnerVars
<1>3. TickTypes'
  BY TickMoves DEF TypeOK, WriteRecords, TickPCs, tickVars
<1>4. PollTypes'
  BY DEF TypeOK, WriteRecords, PollTypes, pollVars
<1> QED
  BY <1>1, <1>2, <1>3, <1>4, TaskFields, BoundsAssumption
     DEF TypeOK, RunnerTypes, WriteRecords, rowVars, runnerVars, tickVars, pollVars

\* Submit keeps every variable in its type.
LEMMA SubmitType ==
  ASSUME TypeOK, TickInv, BatchInv, NEW t \in Ticks, Submit(t)
  PROVE  TypeOK'
<1>1. RowTypes'
  BY DEF TypeOK, Submit, RowTypes, rowVars
<1>2. RunnerTypes'
  BY DEF TypeOK, RunnerTypes, Submit, runnerVars, Kinds
<1>3. TickTypes'
  BY TickMoves, TaskTypes, TaskFields
     DEF TypeOK, TickInv, TickOK, TickKinds, Starting, RunnerTypes, Submit, Submitted, TickPCs,
         tickVars
<1>4. PollTypes'
  BY DEF TypeOK, Submit, PollTypes, pollVars
<1>5. tracked' \in [Runs -> Nat]
  <2>1. \/ UNCHANGED tracked
        \/ tracked' = [tracked EXCEPT ![tick[t].run] = invoked[tick[t].run]]
    BY DEF Submit, Submitted
  <2>2. invoked[tick[t].run] \in Nat
    BY DEF TypeOK, RunnerTypes, TickInv, TickOK, Submit
  <2> QED
    BY <2>1, <2>2 DEF TypeOK
<1> QED
  BY <1>1, <1>2, <1>3, <1>4, <1>5 DEF TypeOK, Submit

\* Provision keeps every variable in its type.
LEMMA ProvisionType ==
  ASSUME TypeOK, TickInv, BatchInv, NEW t \in Ticks, Provision(t)
  PROVE  TypeOK'
<1>1. RowTypes'
  BY DEF TypeOK, Provision, RowTypes, rowVars
<1>2. RunnerTypes'
  <2>1. tick[t].run \in Runs
    BY DEF TickInv, TickOK, Provision
  <2>2. log' \in [Runs -> Seq(Kinds)]
    BY <2>1 DEF TypeOK, RunnerTypes, Provision, Kinds
  <2>3. pending' \in [Runs -> SUBSET Nat]
    BY <2>1 DEF TypeOK, RunnerTypes, Provision
  <2> QED
    BY <2>1, <2>2, <2>3 DEF TypeOK, RunnerTypes, Provision
<1>3. TickTypes'
  <2>1. tick[t].run \in Runs /\ invoked[tick[t].run] + 1 \in Nat
    BY DEF TypeOK, RunnerTypes, TickInv, TickOK, Provision
  <2>2. TickTask(tick[t].run, "resume", tick[t].prev, invoked[tick[t].run] + 1) \in TickTasks
    BY <2>1, TaskTypes, TaskFields DEF TickKinds
  <2> QED
    BY <2>2, TickMoves DEF TypeOK, Provision, Submitted, TickPCs, tickVars
<1>4. PollTypes'
  BY DEF TypeOK, Provision, PollTypes, pollVars
<1>5. tracked' \in [Runs -> Nat]
  <2>1. tick[t].run \in Runs /\ invoked[tick[t].run] + 1 \in Nat
    BY DEF TypeOK, RunnerTypes, TickInv, TickOK, Provision
  <2> QED
    BY <2>1 DEF TypeOK, Provision, Submitted
<1> QED
  BY <1>1, <1>2, <1>3, <1>4, <1>5 DEF TypeOK, Provision

\* MarkDispatched keeps every variable in its type.
LEMMA MarkDispatchedType ==
  ASSUME TypeOK, TickInv, BatchInv, NEW t \in Ticks, MarkDispatched(t)
  PROVE  TypeOK'
<1>1. RowTypes'
  BY DEF TypeOK, MarkDispatched, RowTypes, rowVars
<1>2. RunnerTypes'
  BY DEF TypeOK, MarkDispatched, RunnerTypes, runnerVars
<1>3. TickTypes'
  BY TickMoves DEF TypeOK, MarkDispatched, TickPCs, tickVars
<1>4. PollTypes'
  BY DEF TypeOK, MarkDispatched, PollTypes, pollVars
<1> QED
  BY <1>1, <1>2, <1>3, <1>4, TaskFields, BoundsAssumption
     DEF TypeOK, RunnerTypes, MarkDispatched, rowVars, runnerVars, tickVars, pollVars

\* Recover keeps every variable in its type.
LEMMA RecoverType ==
  ASSUME TypeOK, TickInv, BatchInv, NEW t \in Ticks, Recover(t)
  PROVE  TypeOK'
<1>1. RowTypes'
  BY AttemptTypes, TaskFields, BoundsAssumption
     DEF TypeOK, RowTypes, Recover, Statuses, LIVE_STATUSES, Concluded, Outcomes, rowVars,
         runnerVars
<1>2. RunnerTypes'
  BY DEF TypeOK, Recover, RunnerTypes, runnerVars
<1>3. TickTypes'
  BY TickMoves DEF TypeOK, Recover, TickPCs, tickVars
<1>4. PollTypes'
  BY DEF TypeOK, Recover, PollTypes, pollVars
<1> QED
  BY <1>1, <1>2, <1>3, <1>4, TaskFields, BoundsAssumption
     DEF TypeOK, RunnerTypes, Recover, rowVars, runnerVars, tickVars, pollVars

\* RecoverCapacity keeps every variable in its type.
LEMMA RecoverCapacityType ==
  ASSUME TypeOK, TickInv, BatchInv, NEW t \in Ticks, RecoverCapacity(t)
  PROVE  TypeOK'
<1>1. RowTypes'
  <2>1. status' \in [Runs -> Statuses]
    BY DEF TypeOK, RowTypes, RecoverCapacity, Statuses, LIVE_STATUSES, Concluded
  <2>2. attemptCount' \in [Runs -> 0..MaxAttempts]
    BY TaskFields, BoundsAssumption
       DEF TypeOK, TickInv, TickOK, TickKinds, Starting, RowTypes, RecoverCapacity
  <2>3. attempts' \in [Runs -> [AttemptNumbers -> Outcomes]]
    BY AttemptTypes DEF TypeOK, RowTypes, RecoverCapacity
  <2>4. stored' \in [Runs -> SUBSET Nat]
    BY TaskFields DEF TypeOK, RowTypes, RecoverCapacity
  <2> QED
    BY <2>1, <2>2, <2>3, <2>4 DEF TypeOK, RowTypes, RecoverCapacity
<1>2. RunnerTypes'
  BY DEF TypeOK, RecoverCapacity, RunnerTypes, runnerVars
<1>3. TickTypes'
  BY TickMoves DEF TypeOK, RecoverCapacity, TickPCs, tickVars
<1>4. PollTypes'
  BY DEF TypeOK, RecoverCapacity, PollTypes, pollVars
<1> QED
  BY <1>1, <1>2, <1>3, <1>4, TaskFields, BoundsAssumption
     DEF TypeOK, RunnerTypes, RecoverCapacity, rowVars, runnerVars, tickVars, pollVars

\* WatchdogPark keeps every variable in its type.
LEMMA WatchdogParkType ==
  ASSUME TypeOK, TickInv, BatchInv, NEW t \in Ticks, NEW r \in Runs, WatchdogPark(t, r)
  PROVE  TypeOK'
<1>1. RowTypes'
  BY DEF TypeOK, WatchdogPark, RowTypes, rowVars
<1>2. RunnerTypes'
  BY DEF TypeOK, WatchdogPark, RunnerTypes, runnerVars
<1>3. TickTypes'
  <2>1. TickTask(r, "park", 0, 0) \in TickTasks
    BY BoundsAssumption DEF TickTask, TickTasks, TickKinds
  <2> QED
    BY <2>1, TickMoves DEF TypeOK, WatchdogPark, TickPCs, tickVars
<1>4. PollTypes'
  BY DEF TypeOK, WatchdogPark, PollTypes, pollVars
<1> QED
  BY <1>1, <1>2, <1>3, <1>4, TaskFields, BoundsAssumption
     DEF TypeOK, RunnerTypes, WatchdogPark, rowVars, runnerVars, tickVars, pollVars

\* WritePlan keeps every variable in its type.
LEMMA WritePlanType ==
  ASSUME TypeOK, TickInv, BatchInv, NEW t \in Ticks, WritePlan(t)
  PROVE  TypeOK'
<1>1. RowTypes'
  BY AttemptTypes, TaskFields, BoundsAssumption
     DEF TypeOK, RowTypes, WritePlan, Statuses, LIVE_STATUSES, Concluded, Outcomes, rowVars,
         runnerVars
<1>2. RunnerTypes'
  BY DEF TypeOK, WritePlan, RunnerTypes, runnerVars
<1>3. TickTypes'
  BY TickMoves DEF TypeOK, WritePlan, TickPCs, tickVars
<1>4. PollTypes'
  BY DEF TypeOK, WritePlan, PollTypes, pollVars
<1> QED
  BY <1>1, <1>2, <1>3, <1>4, TaskFields, BoundsAssumption
     DEF TypeOK, RunnerTypes, WritePlan, rowVars, runnerVars, tickVars, pollVars

\* WatchdogResume keeps every variable in its type.
LEMMA WatchdogResumeType ==
  ASSUME TypeOK, TickInv, BatchInv, NEW t \in Ticks, NEW r \in Runs, WatchdogResume(t, r)
  PROVE  TypeOK'
<1>1. RowTypes'
  BY DEF TypeOK, WatchdogResume, RowTypes, rowVars
<1>2. RunnerTypes'
  BY DEF TypeOK, WatchdogResume, RunnerTypes, runnerVars
<1>3. TickTypes'
  <2>1. TickTask(r, "resume", 0, 0) \in TickTasks
    BY BoundsAssumption DEF TickTask, TickTasks, TickKinds
  <2> QED
    BY <2>1, TickMoves DEF TypeOK, WatchdogResume, TickPCs, tickVars
<1>4. PollTypes'
  BY DEF TypeOK, WatchdogResume, PollTypes, pollVars
<1> QED
  BY <1>1, <1>2, <1>3, <1>4, TaskFields, BoundsAssumption
     DEF TypeOK, RunnerTypes, WatchdogResume, rowVars, runnerVars, tickVars, pollVars

\* ResumeGates keeps every variable in its type.
LEMMA ResumeGatesType ==
  ASSUME TypeOK, TickInv, BatchInv, NEW t \in Ticks, ResumeGates(t)
  PROVE  TypeOK'
<1>1. RowTypes'
  BY DEF TypeOK, ResumeGates, RowTypes, rowVars
<1>2. RunnerTypes'
  BY DEF TypeOK, ResumeGates, RunnerTypes, runnerVars
<1>3. TickTypes'
  BY TickMoves, TaskTypes, TaskFields, BoundsAssumption
     DEF TypeOK, TickInv, TickOK, TickKinds, Starting, RowTypes, ResumeGates, TickPCs, tickVars
<1>4. PollTypes'
  BY DEF TypeOK, ResumeGates, PollTypes, pollVars
<1> QED
  BY <1>1, <1>2, <1>3, <1>4, TaskFields, BoundsAssumption
     DEF TypeOK, RunnerTypes, ResumeGates, rowVars, runnerVars, tickVars, pollVars

\* ClaimParked keeps every variable in its type.
LEMMA ClaimParkedType ==
  ASSUME TypeOK, TickInv, BatchInv, NEW t \in Ticks, ClaimParked(t)
  PROVE  TypeOK'
<1>1. RowTypes'
  <2>1. status' \in [Runs -> Statuses]
    BY DEF TypeOK, RowTypes, ClaimParked, Statuses, LIVE_STATUSES, Concluded
  <2>2. attemptCount' \in [Runs -> 0..MaxAttempts]
    <3>1. tick[t].prev + 1 \in 0..MaxAttempts
      BY TaskFields, BoundsAssumption DEF TickInv, TickOK, ClaimParked
    <3>2. \/ UNCHANGED attemptCount
          \/ attemptCount' = [attemptCount EXCEPT ![tick[t].run] = tick[t].prev + 1]
      BY DEF ClaimParked
    <3> QED
      BY <3>1, <3>2 DEF TypeOK, RowTypes
  <2>3. planned' \in [Runs -> BOOLEAN]
    BY DEF TypeOK, RowTypes, ClaimParked
  <2> QED
    BY <2>1, <2>2, <2>3 DEF TypeOK, RowTypes, ClaimParked
<1>2. RunnerTypes'
  BY DEF TypeOK, ClaimParked, RunnerTypes, runnerVars
<1>3. TickTypes'
  BY TickMoves DEF TypeOK, ClaimParked, TickPCs, tickVars
<1>4. PollTypes'
  BY DEF TypeOK, ClaimParked, PollTypes, pollVars
<1> QED
  BY <1>1, <1>2, <1>3, <1>4, TaskFields, BoundsAssumption
     DEF TypeOK, RunnerTypes, ClaimParked, rowVars, runnerVars, tickVars, pollVars

\* CloseParkedAttempt keeps every variable in its type.
LEMMA CloseParkedAttemptType ==
  ASSUME TypeOK, TickInv, BatchInv, NEW t \in Ticks, CloseParkedAttempt(t)
  PROVE  TypeOK'
<1>1. RowTypes'
  BY AttemptTypes, TaskFields, BoundsAssumption
     DEF TypeOK, RowTypes, CloseParkedAttempt, Statuses, LIVE_STATUSES, Concluded, Outcomes,
         rowVars, runnerVars
<1>2. RunnerTypes'
  BY DEF TypeOK, CloseParkedAttempt, RunnerTypes, runnerVars
<1>3. TickTypes'
  BY TickMoves DEF TypeOK, CloseParkedAttempt, TickPCs, tickVars
<1>4. PollTypes'
  BY DEF TypeOK, CloseParkedAttempt, PollTypes, pollVars
<1> QED
  BY <1>1, <1>2, <1>3, <1>4, TaskFields, BoundsAssumption
     DEF TypeOK, RunnerTypes, CloseParkedAttempt, rowVars, runnerVars, tickVars, pollVars

\* OpenResumedAttempt keeps every variable in its type.
LEMMA OpenResumedAttemptType ==
  ASSUME TypeOK, TickInv, BatchInv, NEW t \in Ticks, OpenResumedAttempt(t)
  PROVE  TypeOK'
<1>1. RowTypes'
  <2>1. \/ UNCHANGED attempts
       \/ attempts' = [attempts EXCEPT ![tick[t].run] =
                            WithAttempt(attempts[tick[t].run], tick[t].prev + 1)]
    BY DEF OpenResumedAttempt
  <2>2. WithAttempt(attempts[tick[t].run], tick[t].prev + 1) \in [AttemptNumbers -> Outcomes]
    BY AttemptTypes DEF TypeOK, RowTypes, TickInv, TickOK, OpenResumedAttempt
  <2>3. attempts' \in [Runs -> [AttemptNumbers -> Outcomes]]
    BY <2>1, <2>2 DEF TypeOK, RowTypes
  <2> QED
    BY <2>1, <2>2, <2>3 DEF TypeOK, RowTypes, OpenResumedAttempt
<1>2. RunnerTypes'
  BY DEF TypeOK, OpenResumedAttempt, RunnerTypes, runnerVars
<1>3. TickTypes'
  BY TickMoves DEF TypeOK, OpenResumedAttempt, TickPCs, tickVars
<1>4. PollTypes'
  BY DEF TypeOK, OpenResumedAttempt, PollTypes, pollVars
<1> QED
  BY <1>1, <1>2, <1>3, <1>4, TaskFields, BoundsAssumption
     DEF TypeOK, RunnerTypes, OpenResumedAttempt, rowVars, runnerVars, tickVars, pollVars

\* TickFault keeps every variable in its type.
LEMMA TickFaultType ==
  ASSUME TypeOK, TickInv, BatchInv, NEW t \in Ticks, TickFault(t)
  PROVE  TypeOK'
<1>1. RowTypes'
  BY DEF TypeOK, TickFault, RowTypes, rowVars
<1>2. RunnerTypes'
  BY DEF TypeOK, TickFault, RunnerTypes, runnerVars
<1>3. TickTypes'
  BY TickMoves DEF TypeOK, TickFault, TickPCs, tickVars
<1>4. PollTypes'
  BY DEF TypeOK, TickFault, PollTypes, pollVars
<1> QED
  BY <1>1, <1>2, <1>3, <1>4, TaskFields, BoundsAssumption
     DEF TypeOK, RunnerTypes, TickFault, rowVars, runnerVars, tickVars, pollVars, Fault

\* StartPoll keeps every variable in its type.
LEMMA StartPollType ==
  ASSUME TypeOK, TickInv, BatchInv, NEW p \in Pollers, StartPoll(p)
  PROVE  TypeOK'
<1>1. RowTypes'
  BY DEF TypeOK, StartPoll, RowTypes, rowVars
<1>2. RunnerTypes'
  BY DEF TypeOK, StartPoll, RunnerTypes, runnerVars
<1>3. TickTypes'
  BY DEF TypeOK, StartPoll, TickTypes, tickVars
<1>4. PollTypes'
  <2>1. ppc' \in [Pollers -> PollPCs] /\ poll' \in [Pollers -> PollTasks]
    BY PollMoves, TaskTypes DEF TypeOK, StartPoll, PollPCs
  <2>2. todo' \in [Pollers -> SUBSET (Runs \X Nat)]
    BY DEF TypeOK, PollTypes, StartPoll
  <2> QED
    BY <2>1, <2>2 DEF PollTypes
<1> QED
  BY <1>1, <1>2, <1>3, <1>4, TaskFields, BoundsAssumption
     DEF TypeOK, RunnerTypes, StartPoll, rowVars, runnerVars, tickVars, pollVars

\* PollOne keeps every variable in its type.
LEMMA PollOneType ==
  ASSUME TypeOK, TickInv, BatchInv, NEW p \in Pollers, NEW r \in Runs, NEW h, PollOne(p, r, h)
  PROVE  TypeOK'
<1>1. RowTypes'
  BY DEF TypeOK, PollOne, RowTypes, rowVars
<1>2. RunnerTypes'
  BY DEF TypeOK, RunnerTypes, PollOne, runnerVars, Kinds
<1>3. TickTypes'
  BY DEF TypeOK, PollOne, TickTypes, tickVars
<1>4. PollTypes'
  BY PollMoves, TaskTypes, TaskFields
     DEF TypeOK, BatchInv, Ingesting, PollTypes, RowTypes, RunnerTypes, PollOne, PollPCs,
         pollVars
<1>5. tracked' \in [Runs -> Nat]
  <2>1. Forget(r) \/ UNCHANGED tracked
    BY DEF PollOne
  <2> QED
    BY <2>1 DEF TypeOK, Forget
<1> QED
  BY <1>1, <1>2, <1>3, <1>4, <1>5 DEF TypeOK, PollOne

\* StoreEvents keeps every variable in its type.
LEMMA StoreEventsType ==
  ASSUME TypeOK, TickInv, BatchInv, NEW p \in Pollers, StoreEvents(p)
  PROVE  TypeOK'
<1>1. RowTypes'
  <2>1. stored' \in [Runs -> SUBSET Nat]
    BY TaskFields DEF TypeOK, RowTypes, StoreEvents
  <2> QED
    BY <2>1 DEF TypeOK, RowTypes, StoreEvents
<1>2. RunnerTypes'
  BY DEF TypeOK, StoreEvents, RunnerTypes, runnerVars
<1>3. TickTypes'
  BY DEF TypeOK, StoreEvents, TickTypes, tickVars
<1>4. PollTypes'
  BY PollMoves DEF TypeOK, StoreEvents, PollPCs, pollVars
<1> QED
  BY <1>1, <1>2, <1>3, <1>4, TaskFields, BoundsAssumption
     DEF TypeOK, RunnerTypes, StoreEvents, rowVars, runnerVars, tickVars, pollVars

\* AdvanceRun keeps every variable in its type.
LEMMA AdvanceRunType ==
  ASSUME TypeOK, TickInv, BatchInv, NEW p \in Pollers, AdvanceRun(p)
  PROVE  TypeOK'
<1>1. RowTypes'
  <2>1. poll[p].batch \subseteq Nat /\ poll[p].run \in Runs
    BY TaskFields DEF BatchInv, Ingesting, AdvanceRun
  <2>2. lastEventAt' \in [Runs -> Nat]
    BY <2>1 DEF TypeOK, RowTypes, AdvanceRun
  <2> QED
    BY <2>2 DEF TypeOK, RowTypes, AdvanceRun
<1>2. RunnerTypes'
  BY DEF TypeOK, AdvanceRun, RunnerTypes, runnerVars
<1>3. TickTypes'
  BY DEF TypeOK, AdvanceRun, TickTypes, tickVars
<1>4. PollTypes'
  <2>1. poll[p].run \in Runs /\ poll[p].batch \in SUBSET Nat /\ poll[p].done \in BOOLEAN
    BY TaskFields DEF BatchInv, Ingesting, AdvanceRun
  <2>2. \A b \in BOOLEAN : PollTask(poll[p].run, poll[p].batch, poll[p].done, b) \in PollTasks
    BY <2>1, TaskTypes
  <2>3. \E b \in BOOLEAN :
          PollTakes(p, "transition", PollTask(poll[p].run, poll[p].batch, poll[p].done, b))
    BY <2>1 DEF TypeOK, RowTypes, AdvanceRun
  <2>4. "transition" \in PollPCs
    BY DEF PollPCs
  <2> QED
    BY <2>2, <2>3, <2>4, PollMoves DEF TypeOK, PollTypes, AdvanceRun
<1> QED
  BY <1>1, <1>2, <1>3, <1>4, TaskFields, BoundsAssumption
     DEF TypeOK, RunnerTypes, AdvanceRun, rowVars, runnerVars, tickVars, pollVars

\* ConcludeRun keeps every variable in its type.
LEMMA ConcludeRunType ==
  ASSUME TypeOK, TickInv, BatchInv, NEW p \in Pollers, ConcludeRun(p)
  PROVE  TypeOK'
<1>1. RowTypes'
  BY AttemptTypes, TaskFields, BoundsAssumption
     DEF TypeOK, RowTypes, ConcludeRun, Statuses, LIVE_STATUSES, Concluded, Outcomes, rowVars,
         runnerVars
<1>2. RunnerTypes'
  BY DEF TypeOK, ConcludeRun, RunnerTypes, runnerVars
<1>3. TickTypes'
  BY DEF TypeOK, ConcludeRun, TickTypes, tickVars
<1>4. PollTypes'
  BY PollMoves DEF TypeOK, ConcludeRun, PollPCs, pollVars
<1> QED
  BY <1>1, <1>2, <1>3, <1>4, TaskFields, BoundsAssumption
     DEF TypeOK, RunnerTypes, ConcludeRun, rowVars, runnerVars, tickVars, pollVars

\* BlockRun keeps every variable in its type.
LEMMA BlockRunType ==
  ASSUME TypeOK, TickInv, BatchInv, NEW p \in Pollers, BlockRun(p)
  PROVE  TypeOK'
<1>1. RowTypes'
  BY AttemptTypes, TaskFields, BoundsAssumption
     DEF TypeOK, RowTypes, BlockRun, Statuses, LIVE_STATUSES, Concluded, Outcomes, rowVars,
         runnerVars
<1>2. RunnerTypes'
  BY DEF TypeOK, BlockRun, RunnerTypes, runnerVars
<1>3. TickTypes'
  BY DEF TypeOK, BlockRun, TickTypes, tickVars
<1>4. PollTypes'
  BY PollMoves DEF TypeOK, BlockRun, PollPCs, pollVars
<1> QED
  BY <1>1, <1>2, <1>3, <1>4, TaskFields, BoundsAssumption
     DEF TypeOK, RunnerTypes, BlockRun, rowVars, runnerVars, tickVars, pollVars

\* ResumeRun keeps every variable in its type.
LEMMA ResumeRunType ==
  ASSUME TypeOK, TickInv, BatchInv, NEW p \in Pollers, ResumeRun(p)
  PROVE  TypeOK'
<1>1. RowTypes'
  BY AttemptTypes, TaskFields, BoundsAssumption
     DEF TypeOK, RowTypes, ResumeRun, Statuses, LIVE_STATUSES, Concluded, Outcomes, rowVars,
         runnerVars
<1>2. RunnerTypes'
  BY DEF TypeOK, ResumeRun, RunnerTypes, runnerVars
<1>3. TickTypes'
  BY DEF TypeOK, ResumeRun, TickTypes, tickVars
<1>4. PollTypes'
  BY PollMoves DEF TypeOK, ResumeRun, PollPCs, pollVars
<1> QED
  BY <1>1, <1>2, <1>3, <1>4, TaskFields, BoundsAssumption
     DEF TypeOK, RunnerTypes, ResumeRun, rowVars, runnerVars, tickVars, pollVars

\* StaleBatch keeps every variable in its type.
LEMMA StaleBatchType ==
  ASSUME TypeOK, TickInv, BatchInv, NEW p \in Pollers, StaleBatch(p)
  PROVE  TypeOK'
<1>1. RowTypes'
  BY DEF TypeOK, StaleBatch, RowTypes, rowVars
<1>2. RunnerTypes'
  BY DEF TypeOK, StaleBatch, RunnerTypes, runnerVars
<1>3. TickTypes'
  BY DEF TypeOK, StaleBatch, TickTypes, tickVars
<1>4. PollTypes'
  BY PollMoves DEF TypeOK, StaleBatch, PollPCs, pollVars
<1> QED
  BY <1>1, <1>2, <1>3, <1>4, TaskFields, BoundsAssumption
     DEF TypeOK, RunnerTypes, StaleBatch, rowVars, runnerVars, tickVars, pollVars

\* ConcludeAttempts keeps every variable in its type.
LEMMA ConcludeAttemptsType ==
  ASSUME TypeOK, TickInv, BatchInv, NEW p \in Pollers, ConcludeAttempts(p)
  PROVE  TypeOK'
<1>1. RowTypes'
  BY AttemptTypes, TaskFields, BoundsAssumption
     DEF TypeOK, RowTypes, ConcludeAttempts, Statuses, LIVE_STATUSES, Concluded, Outcomes,
         rowVars, runnerVars
<1>2. RunnerTypes'
  BY DEF TypeOK, ConcludeAttempts, RunnerTypes, runnerVars
<1>3. TickTypes'
  BY DEF TypeOK, ConcludeAttempts, TickTypes, tickVars
<1>4. PollTypes'
  BY PollMoves DEF TypeOK, ConcludeAttempts, PollPCs, pollVars
<1> QED
  BY <1>1, <1>2, <1>3, <1>4, TaskFields, BoundsAssumption
     DEF TypeOK, RunnerTypes, ConcludeAttempts, rowVars, runnerVars, tickVars, pollVars

\* AfterIngest keeps every variable in its type.
LEMMA AfterIngestType ==
  ASSUME TypeOK, TickInv, BatchInv, NEW p \in Pollers, AfterIngest(p)
  PROVE  TypeOK'
<1>1. RowTypes'
  BY DEF TypeOK, AfterIngest, RowTypes, rowVars
<1>2. RunnerTypes'
  BY DEF TypeOK, AfterIngest, RunnerTypes, runnerVars
<1>3. TickTypes'
  BY DEF TypeOK, AfterIngest, TickTypes, tickVars
<1>4. PollTypes'
  BY PollMoves DEF TypeOK, AfterIngest, PollPCs, pollVars
<1>5. tracked' \in [Runs -> Nat]
  <2>1. Forget(poll[p].run) \/ UNCHANGED tracked
    BY DEF AfterIngest
  <2> QED
    BY <2>1 DEF TypeOK, Forget
<1> QED
  BY <1>1, <1>2, <1>3, <1>4, <1>5 DEF TypeOK, AfterIngest

\* MarkUnknown keeps every variable in its type.
LEMMA MarkUnknownType ==
  ASSUME TypeOK, TickInv, BatchInv, NEW p \in Pollers, MarkUnknown(p)
  PROVE  TypeOK'
<1>1. RowTypes'
  BY AttemptTypes, TaskFields, BoundsAssumption
     DEF TypeOK, RowTypes, MarkUnknown, Statuses, LIVE_STATUSES, Concluded, Outcomes, rowVars,
         runnerVars, MarkStalled
<1>2. RunnerTypes'
  BY DEF TypeOK, MarkUnknown, RunnerTypes, runnerVars
<1>3. TickTypes'
  BY DEF TypeOK, MarkUnknown, TickTypes, tickVars
<1>4. PollTypes'
  BY PollMoves DEF TypeOK, MarkUnknown, PollPCs, pollVars
<1> QED
  BY <1>1, <1>2, <1>3, <1>4, TaskFields, BoundsAssumption
     DEF TypeOK, RunnerTypes, MarkUnknown, rowVars, runnerVars, tickVars, pollVars

\* ReconcileUntracked keeps every variable in its type.
LEMMA ReconcileUntrackedType ==
  ASSUME TypeOK, TickInv, BatchInv, NEW p \in Pollers, ReconcileUntracked(p)
  PROVE  TypeOK'
<1>1. RowTypes'
  BY DEF TypeOK, ReconcileUntracked, RowTypes, rowVars
<1>2. RunnerTypes'
  BY DEF TypeOK, ReconcileUntracked, RunnerTypes, runnerVars
<1>3. TickTypes'
  BY DEF TypeOK, ReconcileUntracked, TickTypes, tickVars
<1>4. PollTypes'
  <2>1. ppc' \in [Pollers -> PollPCs] /\ poll' \in [Pollers -> PollTasks]
    BY PollMoves, TaskTypes DEF TypeOK, ReconcileUntracked, PollPCs
  <2>2. todo' \in [Pollers -> SUBSET (Runs \X Nat)]
    BY DEF TypeOK, PollTypes, ReconcileUntracked
  <2> QED
    BY <2>1, <2>2 DEF PollTypes
<1> QED
  BY <1>1, <1>2, <1>3, <1>4, TaskFields, BoundsAssumption
     DEF TypeOK, RunnerTypes, ReconcileUntracked, rowVars, runnerVars, tickVars, pollVars

\* MarkUntracked keeps every variable in its type.
LEMMA MarkUntrackedType ==
  ASSUME TypeOK, TickInv, BatchInv, NEW p \in Pollers, NEW r \in Runs, MarkUntracked(p, r)
  PROVE  TypeOK'
<1>1. RowTypes'
  <2>1. status' \in [Runs -> Statuses]
    BY DEF TypeOK, RowTypes, MarkUntracked, Statuses, LIVE_STATUSES, Concluded, MarkStalled
  <2>2. lost' \in [Runs -> BOOLEAN]
    BY DEF TypeOK, RowTypes, MarkUntracked, MarkStalled
  <2> QED
    BY <2>1, <2>2 DEF TypeOK, RowTypes, MarkUntracked
<1>2. RunnerTypes'
  BY DEF TypeOK, MarkUntracked, RunnerTypes, runnerVars
<1>3. TickTypes'
  BY DEF TypeOK, MarkUntracked, TickTypes, tickVars
<1>4. PollTypes'
  BY PollMoves, TaskTypes, TaskFields
     DEF TypeOK, BatchInv, Ingesting, PollTypes, RowTypes, RunnerTypes, MarkUntracked, PollPCs,
         pollVars
<1> QED
  BY <1>1, <1>2, <1>3, <1>4, TaskFields, BoundsAssumption
     DEF TypeOK, RunnerTypes, MarkUntracked, rowVars, runnerVars, tickVars, pollVars

\* PollFault keeps every variable in its type.
LEMMA PollFaultType ==
  ASSUME TypeOK, TickInv, BatchInv, NEW p \in Pollers, PollFault(p)
  PROVE  TypeOK'
<1>1. RowTypes'
  BY DEF TypeOK, PollFault, RowTypes, rowVars
<1>2. RunnerTypes'
  BY DEF TypeOK, PollFault, RunnerTypes, runnerVars
<1>3. TickTypes'
  BY DEF TypeOK, PollFault, TickTypes, tickVars
<1>4. PollTypes'
  BY PollMoves, TaskTypes, TaskFields
     DEF TypeOK, BatchInv, Ingesting, PollTypes, RowTypes, RunnerTypes, PollFault, PollPCs,
         pollVars
<1> QED
  BY <1>1, <1>2, <1>3, <1>4, TaskFields, BoundsAssumption
     DEF TypeOK, RunnerTypes, PollFault, rowVars, runnerVars, tickVars, pollVars, Fault

\* Emit keeps every variable in its type.
LEMMA EmitType ==
  ASSUME TypeOK, TickInv, BatchInv, NEW r \in Runs, NEW kind \in Kinds, Emit(r, kind)
  PROVE  TypeOK'
<1>1. RowTypes'
  BY DEF TypeOK, Emit, RowTypes, rowVars
<1>2. RunnerTypes'
  BY DEF TypeOK, RunnerTypes, Emit, runnerVars, Kinds
<1>3. TickTypes'
  BY DEF TypeOK, Emit, TickTypes, tickVars
<1>4. PollTypes'
  BY DEF TypeOK, Emit, PollTypes, pollVars
<1> QED
  BY <1>1, <1>2, <1>3, <1>4, TaskFields, BoundsAssumption
     DEF TypeOK, RunnerTypes, Emit, rowVars, runnerVars, tickVars, pollVars

\* Exit keeps every variable in its type.
LEMMA ExitType ==
  ASSUME TypeOK, TickInv, BatchInv, NEW r \in Runs, NEW kind \in Kinds, Exit(r, kind)
  PROVE  TypeOK'
<1>1. RowTypes'
  BY DEF TypeOK, Exit, RowTypes, rowVars
<1>2. RunnerTypes'
  BY DEF TypeOK, RunnerTypes, Exit, runnerVars, Kinds
<1>3. TickTypes'
  BY DEF TypeOK, Exit, TickTypes, tickVars
<1>4. PollTypes'
  BY DEF TypeOK, Exit, PollTypes, pollVars
<1> QED
  BY <1>1, <1>2, <1>3, <1>4, TaskFields, BoundsAssumption
     DEF TypeOK, RunnerTypes, Exit, rowVars, runnerVars, tickVars, pollVars

\* OrphanExit keeps every variable in its type.
LEMMA OrphanExitType ==
  ASSUME TypeOK, TickInv, BatchInv, NEW r \in Runs, OrphanExit(r)
  PROVE  TypeOK'
<1>1. RowTypes'
  BY DEF TypeOK, OrphanExit, RowTypes, rowVars
<1>2. RunnerTypes'
  BY DEF TypeOK, RunnerTypes, OrphanExit, runnerVars, Kinds
<1>3. TickTypes'
  BY DEF TypeOK, OrphanExit, TickTypes, tickVars
<1>4. PollTypes'
  BY DEF TypeOK, OrphanExit, PollTypes, pollVars
<1> QED
  BY <1>1, <1>2, <1>3, <1>4, TaskFields, BoundsAssumption
     DEF TypeOK, RunnerTypes, OrphanExit, rowVars, runnerVars, tickVars, pollVars

\* Restart keeps every variable in its type.
LEMMA RestartType ==
  ASSUME TypeOK, TickInv, BatchInv, Restart
  PROVE  TypeOK'
<1>1. RowTypes'
  BY DEF TypeOK, Restart, RowTypes, rowVars
<1>2. RunnerTypes'
  BY DEF TypeOK, RunnerTypes, Restart, runnerVars, Kinds
<1>3. TickTypes'
  BY TaskTypes DEF TypeOK, TickTypes, Restart, TickPCs
<1>4. PollTypes'
  BY TaskTypes DEF TypeOK, PollTypes, Restart, PollPCs
<1> QED
  BY <1>1, <1>2, <1>3, <1>4, TaskFields, BoundsAssumption
     DEF TypeOK, RunnerTypes, Restart, rowVars, runnerVars, tickVars, pollVars

-----------------------------------------------------------------------------
(* The inductive invariant: what each action leaves alone *)

\* The invariant gives each of its parts.
LEMMA InvParts == RunInv => TypeOK /\ EventInv /\ BatchInv /\ TickInv /\ ResumeInv
                             /\ DispatchInv /\ StartInv /\ AbsentInv /\ StatusIsReported
  BY DEF RunInv, Inv

\* The runner's streams only grow, and stored events stay.
Grows == \A s \in Runs : /\ Events(s) \subseteq 1..Len(log'[s])
                         /\ \A n \in Events(s) : log'[s][n] = log[s][n]
Keeps == \A s \in Runs : stored[s] \subseteq stored'[s]

\* Nothing grew and nothing is lost in a step that touches neither.
LEMMA Unmoved ==
  /\ UNCHANGED log => Grows
  /\ UNCHANGED stored => Keeps
  BY DEF Grows, Keeps, Events

\* EventInv reads only the events and the entries.
LEMMA EventSame ==
  ASSUME EventInv, UNCHANGED <<stored, pending, log, entry>>
  PROVE  EventInv'
  BY DEF EventInv, Events

\* A batch stays inside its stream, and stored, while passes stand still.
LEMMA BatchSame ==
  ASSUME BatchInv, Grows, Keeps, UNCHANGED pollVars
  PROVE  BatchInv'
  BY DEF BatchInv, Grows, Keeps, Events, pollVars, Ingesting

\* TickInv reads only the reconciler passes.
LEMMA TickSame ==
  ASSUME TickInv, UNCHANGED tickVars
  PROVE  TickInv'
  BY DEF TickInv, tickVars, TickOK

\* A reported block is never unreported.
LEMMA ResumeSame ==
  ASSUME TypeOK, EventInv, ResumeInv, TickInv, Grows, Keeps, UNCHANGED tickVars
  PROVE  ResumeInv'
  BY NoRunAssumption
     DEF EventInv, ResumeInv, HasBlocked, TickInv, TickOK, Grows, Keeps, tickVars

\* DispatchInv reads only the reconciler passes.
LEMMA DispatchSame ==
  ASSUME DispatchInv, UNCHANGED tickVars
  PROVE  DispatchInv'
  BY DEF DispatchInv, tickVars

\* StartInv reads the passes, the streams and the statuses.
LEMMA StartSame ==
  ASSUME StartInv, UNCHANGED <<tickVars, log, status>>
  PROVE  StartInv'
  BY DEF StartInv, StartOK, tickVars

\* No step but a report makes a row `blocked` or `succeeded`.
LEMMA StatusSame ==
  ASSUME EventInv, StatusIsReported, Grows, Keeps,
         \A s \in Runs : status'[s] \in {"blocked", "succeeded"} => status'[s] = status[s]
  PROVE  StatusIsReported'
  BY DEF EventInv, StatusIsReported, Grows, Keeps

\* No row becomes absent again, and an absent row gets no event.
LEMMA AbsentSame ==
  ASSUME AbsentInv,
         \A s \in Runs : status'[s] = "absent" => status[s] = "absent" /\ log'[s] = log[s]
  PROVE  AbsentInv'
  BY DEF AbsentInv

\* What the passes hold after one of them moved on.
TickNow(t, pc, task) ==
  \A u \in Ticks : /\ tpc'[u] = IF u = t THEN pc ELSE tpc[u]
                   /\ tick'[u] = IF u = t THEN task ELSE tick[u]
PollNow(p, pc, task) ==
  \A q \in Pollers : /\ ppc'[q] = IF q = p THEN pc ELSE ppc[q]
                     /\ poll'[q] = IF q = p THEN task ELSE poll[q]

\* Where the reconciler passes are after one of them moved on.
LEMMA TickAfter ==
  ASSUME TypeOK, NEW t \in Ticks, NEW pc, NEW task
  PROVE  /\ TickGoes(t, pc) => TickNow(t, pc, tick[t])
         /\ TickTakes(t, pc, task) => TickNow(t, pc, task)
         /\ TickEnds(t) => TickNow(t, "idle", NoTick)
  BY DEF TypeOK, TickTypes, TickGoes, TickTakes, TickEnds, TickNow

\* Where the poller passes are after one of them moved on.
LEMMA PollAfter ==
  ASSUME TypeOK, NEW p \in Pollers, NEW pc, NEW task
  PROVE  /\ PollGoes(p, pc) => PollNow(p, pc, poll[p])
         /\ PollTakes(p, pc, task) => PollNow(p, pc, task)
         /\ PollNextRun(p) => PollNow(p, "poll", NoPoll)
  BY DEF TypeOK, PollTypes, PollGoes, PollTakes, PollNextRun, PollNow

\* A task holds what it was built from.
LEMMA TaskReads ==
  /\ \A r, k, n, h : /\ TickTask(r, k, n, h).run = r /\ TickTask(r, k, n, h).kind = k
                     /\ TickTask(r, k, n, h).prev = n
  /\ \A r, s, d, a : PollTask(r, s, d, a).run = r /\ PollTask(r, s, d, a).batch = s
  /\ NoTick.run = NoRun /\ NoTick.kind = "none" /\ NoTick.prev = 0
  BY DEF TickTask, PollTask, NoTick

\* A reconciler pass that moves on keeps the facts about all of them, if its
\* new task meets them.
LEMMA TickMoved ==
  ASSUME RunInv, NEW t \in Ticks, NEW pc, NEW task, TickNow(t, pc, task), TickOK(pc, task)
  PROVE  /\ TickInv'
         /\ Grows /\ Keeps /\ (task.kind = "resume" => task.run \in Runs /\ HasBlocked(task.run))
              => ResumeInv'
         /\ (task.kind = "dispatch" => \A u \in Ticks \ {t} :
               ~(tick[u].kind = "dispatch" /\ tick[u].run = task.run)) => DispatchInv'
         /\ UNCHANGED <<log, status>> /\ StartOK(pc, task) => StartInv'
<1> USE InvParts DEF TickNow
<1>1. TickInv'
  BY DEF TickInv, TickOK
<1>2. ASSUME Grows, Keeps, task.kind = "resume" => task.run \in Runs /\ HasBlocked(task.run)
      PROVE  ResumeInv'
  <2> SUFFICES ASSUME NEW u \in Ticks, tick'[u].kind = "resume"
               PROVE  \E n \in stored'[tick'[u].run] : log'[tick'[u].run][n] = "blocked"
    BY DEF ResumeInv, HasBlocked
  <2>1. tick'[u].run \in Runs /\ HasBlocked(tick'[u].run)
    BY <1>2 DEF ResumeInv, TickInv, TickOK
  <2> QED
    BY <2>1, <1>2 DEF HasBlocked, Grows, Keeps, EventInv
<1>3. ASSUME task.kind = "dispatch" => \A u \in Ticks \ {t} :
               ~(tick[u].kind = "dispatch" /\ tick[u].run = task.run)
      PROVE  DispatchInv'
  BY <1>3 DEF DispatchInv
<1>4. ASSUME UNCHANGED <<log, status>>, StartOK(pc, task) PROVE StartInv'
  BY <1>4 DEF StartInv, StartOK
<1> QED
  BY <1>1, <1>2, <1>3, <1>4

\* A pass that goes on with its task, or drops it.
LEMMA TickKept ==
  ASSUME RunInv, NEW t \in Ticks, NEW pc, Grows, Keeps,
         \/ TickNow(t, pc, tick[t]) /\ TickOK(pc, tick[t])
         \/ TickNow(t, "idle", NoTick)
  PROVE  TickInv' /\ ResumeInv' /\ DispatchInv'
<1>1. TickOK("idle", NoTick)
  BY TaskReads DEF TickOK, Starting
<1>2. CASE TickNow(t, pc, tick[t]) /\ TickOK(pc, tick[t])
  <2>1. tick[t].kind = "resume" => tick[t].run \in Runs /\ HasBlocked(tick[t].run)
    BY InvParts DEF ResumeInv, TickInv, TickOK
  <2> QED
    BY <1>2, <2>1, TickMoved, InvParts DEF DispatchInv
<1>3. CASE TickNow(t, "idle", NoTick)
  BY <1>1, <1>3, TickMoved, TaskReads
<1> QED
  BY <1>2, <1>3

\* The same for a poller pass and its batch.
BatchOK(pc, task) ==
  /\ pc \in Ingesting \cup {"lost"} => task.run \in Runs
  /\ pc \in Ingesting => task.batch \subseteq Events(task.run)
  /\ pc \in Ingesting \ {"store"} => task.batch \subseteq stored[task.run]

\* A poller pass that moves on keeps BatchInv, if its new task meets it.
LEMMA PollMoved ==
  ASSUME RunInv, NEW p \in Pollers, NEW pc, NEW task, PollNow(p, pc, task),
         BatchOK(pc, task), Grows, Keeps
  PROVE  BatchInv'
  BY InvParts DEF PollNow, BatchInv, BatchOK, Grows, Keeps, Events


\* A step that leaves the events alone.
LEMMA Quiet ==
  ASSUME RunInv, UNCHANGED <<stored, pending, log, entry>>
  PROVE  /\ EventInv' /\ Grows /\ Keeps
         /\ UNCHANGED pollVars => BatchInv'
         /\ UNCHANGED tickVars => TickInv' /\ ResumeInv' /\ DispatchInv'
         /\ UNCHANGED status => StatusIsReported' /\ AbsentInv'
         /\ UNCHANGED tickVars /\ UNCHANGED status => StartInv'
<1>1. EventInv' /\ Grows /\ Keeps
  BY InvParts, EventSame, Unmoved
<1>2. ASSUME UNCHANGED pollVars PROVE BatchInv'
  BY <1>1, <1>2, InvParts, BatchSame
<1>3. ASSUME UNCHANGED tickVars PROVE TickInv' /\ ResumeInv' /\ DispatchInv'
  BY <1>1, <1>3, InvParts, TickSame, ResumeSame, DispatchSame
<1>4. ASSUME UNCHANGED status PROVE StatusIsReported' /\ AbsentInv'
  BY <1>1, <1>4, InvParts, StatusSame, AbsentSame
<1>5. ASSUME UNCHANGED tickVars, UNCHANGED status PROVE StartInv'
  BY <1>5, InvParts, StartSame
<1> QED
  BY <1>1, <1>2, <1>3, <1>4, <1>5

\* Nobody else is starting a run a pass dispatches or resumes, and nobody at
\* all one that has produced an event.
StartsRun(u, r) == tick[u].kind = "dispatch" /\ tpc[u] \in Starting /\ tick[u].run = r

\* A run that is being started has no event, no entry and no reported block.
LEMMA Eventful ==
  ASSUME RunInv, NEW r \in Runs, NEW u \in Ticks, StartsRun(u, r)
  PROVE  log[r] = <<>> /\ stored[r] = {} /\ pending[r] = {} /\ entry[r] = "none" /\ ~HasBlocked(r)
<1>1. log[r] = <<>>
  BY InvParts DEF StartInv, StartOK, StartsRun
<1> QED
  BY <1>1, InvParts DEF EventInv, Events, HasBlocked

\* A run a pass dispatches or resumes is started by no other pass.
LEMMA StartAlone ==
  ASSUME RunInv, NEW t \in Ticks, tick[t].run \in Runs, tick[t].kind \in {"dispatch", "resume"},
         NEW u \in Ticks \ {t}
  PROVE  ~StartsRun(u, tick[t].run)
<1>1. CASE tick[t].kind = "dispatch"
  BY <1>1, InvParts DEF DispatchInv, StartsRun
<1>2. CASE tick[t].kind = "resume"
  BY <1>2, Eventful, InvParts DEF ResumeInv
<1> QED
  BY <1>1, <1>2

\* StartInv when a pass moves the row of the run it works on.
LEMMA StartMoved ==
  ASSUME RunInv, NEW t \in Ticks, NEW pc, NEW task, TickNow(t, pc, task),
         tick[t].run \in Runs, tick[t].kind \in {"dispatch", "resume"},
         \A s \in Runs \ {tick[t].run} : log'[s] = log[s] /\ status'[s] = status[s],
         task.kind = "dispatch" /\ pc \in Starting =>
           /\ log'[task.run] = <<>>
           /\ pc # "create" /\ status'[task.run] \in {"running", "stalled"}
  PROVE  StartInv'
<1> SUFFICES ASSUME NEW u \in Ticks, tick'[u].kind = "dispatch", tpc'[u] \in Starting
             PROVE  /\ log'[tick'[u].run] = <<>>
                    /\ tpc'[u] = "create" => status'[tick'[u].run] = "absent"
                    /\ tpc'[u] # "create" => status'[tick'[u].run] \in {"running", "stalled"}
  BY DEF StartInv, StartOK
<1>1. CASE u = t
  BY <1>1 DEF TickNow
<1>2. CASE u # t
  <2>1. tick'[u] = tick[u] /\ tpc'[u] = tpc[u] /\ tick[u].run \in Runs
    BY <1>2, InvParts DEF TickNow, TickInv, TickOK, Starting
  <2>2. tick[u].run # tick[t].run
    BY <1>2, <2>1, StartAlone DEF StartsRun
  <2> QED
    BY <2>1, <2>2, InvParts DEF StartInv, StartOK
<1> QED
  BY <1>1, <1>2

\* StartInv when anyone else moves a row: its run has events, or only stalls.
LEMMA StartRow ==
  ASSUME RunInv, UNCHANGED tickVars, NEW r \in Runs,
         \A s \in Runs \ {r} : log'[s] = log[s] /\ status'[s] = status[s],
         \/ log[r] # <<>>
         \/ /\ log'[r] = log[r]
            /\ status[r] = "absent" => status'[r] = "absent"
            /\ status[r] \in {"running", "stalled"} => status'[r] \in {"running", "stalled"}
  PROVE  StartInv'
<1> SUFFICES ASSUME NEW u \in Ticks, tick[u].kind = "dispatch", tpc[u] \in Starting
             PROVE  /\ log'[tick[u].run] = <<>>
                    /\ tpc[u] = "create" => status'[tick[u].run] = "absent"
                    /\ tpc[u] # "create" => status'[tick[u].run] \in {"running", "stalled"}
  BY DEF StartInv, StartOK, tickVars
<1>1. tick[u].run \in Runs /\ StartOK(tpc[u], tick[u])
  BY InvParts DEF TickInv, TickOK, Starting, StartInv
<1>2. tick[u].run = r => log[r] = <<>>
  BY <1>1, Eventful DEF StartsRun
<1> QED
  BY <1>1, <1>2 DEF StartOK

-----------------------------------------------------------------------------
(* One lemma per action *)

\* Decide preserves the inductive invariant.
LEMMA DecideInv ==
  ASSUME RunInv, NEW t \in Ticks, NEW r \in Runs, Decide(t, r)
  PROVE  Inv'
<1> DEFINE task == TickTask(r, "dispatch", 0, 0)
<1>1. UNCHANGED <<stored, pending, log, entry>> /\ UNCHANGED pollVars /\ UNCHANGED status
  BY DEF Decide, rowVars, runnerVars
<1>2. TickNow(t, "create", task)
  BY InvParts, TickAfter DEF Decide
<1>3. TickOK("create", task) /\ task.kind = "dispatch" /\ task.run = r
  BY TaskReads, BoundsAssumption DEF TickOK, Starting
<1> HIDE DEF task
<1>4. TickInv' /\ ResumeInv' /\ DispatchInv' /\ StartInv'
  <2>1. \A u \in Ticks \ {t} : ~(tick[u].kind = "dispatch" /\ tick[u].run = task.run)
    BY <1>3 DEF Decide
  <2>2. StartOK("create", task)
    BY <1>3, InvParts DEF Decide, StartOK, AbsentInv
  <2> QED
    BY <1>1, <1>2, <1>3, <2>1, <2>2, Quiet, TickMoved
<1> QED
  BY <1>1, <1>4, Quiet DEF Inv

\* WatchdogPark preserves the inductive invariant.
LEMMA WatchdogParkInv ==
  ASSUME RunInv, NEW t \in Ticks, NEW r \in Runs, WatchdogPark(t, r)
  PROVE  Inv'
<1> DEFINE task == TickTask(r, "park", 0, 0)
<1>1. UNCHANGED <<stored, pending, log, entry>> /\ UNCHANGED pollVars /\ UNCHANGED status
  BY DEF WatchdogPark, rowVars, runnerVars
<1>2. TickNow(t, "park", task)
  BY InvParts, TickAfter DEF WatchdogPark
<1>3. TickOK("park", task) /\ task.kind = "park" /\ task.run = r
  BY TaskReads, BoundsAssumption DEF TickOK, Starting
<1> HIDE DEF task
<1>4. TickInv' /\ ResumeInv' /\ DispatchInv' /\ StartInv'
  <2>1. StartOK("park", task)
    BY <1>3 DEF StartOK
  <2> QED
    BY <1>1, <1>2, <1>3, <2>1, Quiet, TickMoved
<1> QED
  BY <1>1, <1>4, Quiet DEF Inv

\* WatchdogResume preserves the inductive invariant.
LEMMA WatchdogResumeInv ==
  ASSUME RunInv, NEW t \in Ticks, NEW r \in Runs, WatchdogResume(t, r)
  PROVE  Inv'
<1> DEFINE task == TickTask(r, "resume", 0, 0)
<1>1. UNCHANGED <<stored, pending, log, entry>> /\ UNCHANGED pollVars /\ UNCHANGED status
  BY DEF WatchdogResume, rowVars, runnerVars
<1>2. TickNow(t, "gates", task)
  BY InvParts, TickAfter DEF WatchdogResume
<1>3. TickOK("gates", task) /\ task.kind = "resume" /\ task.run = r
  BY TaskReads, BoundsAssumption DEF TickOK, Starting
<1> HIDE DEF task
<1>4. TickInv' /\ ResumeInv' /\ DispatchInv' /\ StartInv'
  <2>1. StartOK("gates", task)
    BY <1>3 DEF StartOK
  <2>2. HasBlocked(r)
    BY InvParts DEF WatchdogResume, StatusIsReported, HasBlocked
  <2> QED
    BY <1>1, <1>2, <1>3, <2>1, <2>2, Quiet, TickMoved
<1> QED
  BY <1>1, <1>4, Quiet DEF Inv

\* A pass that is done with its run.
LEMMA Idle ==
  ASSUME RunInv, NEW t \in Ticks, TickNow(t, "idle", NoTick), Grows, Keeps
  PROVE  /\ TickInv' /\ ResumeInv' /\ DispatchInv'
         /\ UNCHANGED <<log, status>> => StartInv'
<1>1. TickOK("idle", NoTick) /\ StartOK("idle", NoTick)
  BY TaskReads DEF TickOK, StartOK, Starting
<1> QED
  BY <1>1, TickMoved, TickKept

\* WriteRecords preserves the inductive invariant.
LEMMA WriteRecordsInv ==
  ASSUME RunInv, NEW t \in Ticks, WriteRecords(t)
  PROVE  Inv'
<1>1. UNCHANGED <<stored, pending, log, entry>> /\ UNCHANGED pollVars /\ UNCHANGED status
  BY DEF WriteRecords, rowVars, runnerVars
<1>2. TickNow(t, "submit", tick[t]) /\ TickOK("submit", tick[t])
  BY InvParts, TickAfter DEF WriteRecords, TickInv, TickOK, Starting
<1>3. StartOK("submit", tick[t])
  BY InvParts DEF WriteRecords, StartInv, StartOK, Starting
<1>4. TickInv' /\ ResumeInv' /\ DispatchInv' /\ StartInv'
  BY <1>1, <1>2, <1>3, Quiet, TickKept, TickMoved
<1> QED
  BY <1>1, <1>4, Quiet DEF Inv

\* CloseParkedAttempt preserves the inductive invariant.
LEMMA CloseParkedAttemptInv ==
  ASSUME RunInv, NEW t \in Ticks, CloseParkedAttempt(t)
  PROVE  Inv'
<1>1. UNCHANGED <<stored, pending, log, entry>> /\ UNCHANGED pollVars /\ UNCHANGED status
  BY DEF CloseParkedAttempt, rowVars, runnerVars
<1>2. TickNow(t, "open", tick[t]) /\ TickOK("open", tick[t])
  BY InvParts, TickAfter DEF CloseParkedAttempt, TickInv, TickOK, Starting
<1>3. StartOK("open", tick[t])
  BY InvParts DEF CloseParkedAttempt, StartInv, StartOK, Starting
<1>4. TickInv' /\ ResumeInv' /\ DispatchInv' /\ StartInv'
  BY <1>1, <1>2, <1>3, Quiet, TickKept, TickMoved
<1> QED
  BY <1>1, <1>4, Quiet DEF Inv

\* MarkDispatched preserves the inductive invariant.
LEMMA MarkDispatchedInv ==
  ASSUME RunInv, NEW t \in Ticks, MarkDispatched(t)
  PROVE  Inv'
<1>1. UNCHANGED <<stored, pending, log, entry>> /\ UNCHANGED pollVars /\ UNCHANGED status
  BY DEF MarkDispatched, rowVars, runnerVars
<1>2. TickNow(t, "idle", NoTick)
  BY InvParts, TickAfter DEF MarkDispatched
<1>3. TickInv' /\ ResumeInv' /\ DispatchInv' /\ StartInv'
  BY <1>1, <1>2, Quiet, Idle
<1> QED
  BY <1>1, <1>3, Quiet DEF Inv

\* WritePlan preserves the inductive invariant.
LEMMA WritePlanInv ==
  ASSUME RunInv, NEW t \in Ticks, WritePlan(t)
  PROVE  Inv'
<1>1. UNCHANGED <<stored, pending, log, entry>> /\ UNCHANGED pollVars /\ UNCHANGED status
  BY DEF WritePlan, rowVars, runnerVars
<1>2. TickNow(t, "idle", NoTick)
  BY InvParts, TickAfter DEF WritePlan
<1>3. TickInv' /\ ResumeInv' /\ DispatchInv' /\ StartInv'
  BY <1>1, <1>2, Quiet, Idle
<1> QED
  BY <1>1, <1>3, Quiet DEF Inv

\* ResumeGates preserves the inductive invariant.
LEMMA ResumeGatesInv ==
  ASSUME RunInv, NEW t \in Ticks, ResumeGates(t)
  PROVE  Inv'
<1> DEFINE task == TickTask(tick[t].run, "resume", attemptCount[tick[t].run], 0)
<1>1. UNCHANGED <<stored, pending, log, entry>> /\ UNCHANGED pollVars /\ UNCHANGED status
  BY DEF ResumeGates, rowVars, runnerVars
<1>2. TickInv' /\ ResumeInv' /\ DispatchInv' /\ StartInv'
  <2>1. CASE TickEnds(t)
    BY <1>1, <2>1, InvParts, TickAfter, Quiet, Idle
  <2>2. CASE attemptCount[tick[t].run] < MaxAttempts /\ TickTakes(t, "claim", task)
    <3>1. TickNow(t, "claim", task)
      BY <2>2, InvParts, TickAfter
    <3>2. tick[t].run \in Runs /\ HasBlocked(tick[t].run)
      BY InvParts DEF ResumeGates, TickInv, TickOK, ResumeInv
    <3>3. task.kind = "resume" /\ task.run = tick[t].run /\ task.prev < MaxAttempts
      BY <2>2, TaskReads
    <3> HIDE DEF task
    <3>4. TickOK("claim", task) /\ StartOK("claim", task)
      BY <3>2, <3>3 DEF TickOK, StartOK, Starting
    <3> QED
      BY <1>1, <3>1, <3>2, <3>3, <3>4, Quiet, TickMoved
  <2> QED
    BY <2>1, <2>2 DEF ResumeGates
<1> QED
  BY <1>1, <1>2, Quiet DEF Inv

\* OpenResumedAttempt preserves the inductive invariant.
LEMMA OpenResumedAttemptInv ==
  ASSUME RunInv, NEW t \in Ticks, OpenResumedAttempt(t)
  PROVE  Inv'
<1>1. UNCHANGED <<stored, pending, log, entry>> /\ UNCHANGED pollVars /\ UNCHANGED status
  BY DEF OpenResumedAttempt, runnerVars
<1>2. TickInv' /\ ResumeInv' /\ DispatchInv' /\ StartInv'
  <2>1. CASE TickEnds(t)
    BY <1>1, <2>1, InvParts, TickAfter, Quiet, Idle
  <2>2. CASE TickGoes(t, "recover")
    <3>1. TickNow(t, "recover", tick[t]) /\ TickOK("recover", tick[t])
      BY <2>2, InvParts, TickAfter DEF OpenResumedAttempt, TickInv, TickOK, Starting
    <3>2. StartOK("recover", tick[t])
      BY DEF StartOK, Starting
    <3> QED
      BY <1>1, <3>1, <3>2, Quiet, TickKept, TickMoved
  <2> QED
    BY <2>1, <2>2 DEF OpenResumedAttempt
<1> QED
  BY <1>1, <1>2, Quiet DEF Inv

\* TickFault preserves the inductive invariant.
LEMMA TickFaultInv ==
  ASSUME RunInv, NEW t \in Ticks, TickFault(t)
  PROVE  Inv'
<1>1. UNCHANGED <<stored, pending, log, entry>> /\ UNCHANGED pollVars /\ UNCHANGED status
  BY DEF TickFault, rowVars, runnerVars
<1>2. TickInv' /\ ResumeInv' /\ DispatchInv' /\ StartInv'
  <2>1. CASE TickEnds(t)
    BY <1>1, <2>1, InvParts, TickAfter, Quiet, Idle
  <2>2. CASE /\ tpc[t] \in {"records", "provision", "dispatched", "close", "open"}
             /\ TickGoes(t, "recover")
    <3>1. TickNow(t, "recover", tick[t]) /\ TickOK("recover", tick[t])
      BY <2>2, InvParts, TickAfter DEF TickInv, TickOK, Starting
    <3>2. StartOK("recover", tick[t])
      BY DEF StartOK, Starting
    <3> QED
      BY <1>1, <3>1, <3>2, Quiet, TickKept, TickMoved
  <2> QED
    BY <2>1, <2>2 DEF TickFault
<1> QED
  BY <1>1, <1>2, Quiet DEF Inv

\* Steps of a pass that move the row of its run, and none of its events.
LEMMA CreateRunInv ==
  ASSUME RunInv, NEW t \in Ticks, CreateRun(t)
  PROVE  Inv'
<1>1. UNCHANGED <<stored, pending, log, entry>> /\ UNCHANGED pollVars
  BY DEF CreateRun, runnerVars
<1>2. /\ tick[t].run \in Runs /\ tick[t].kind = "dispatch"
      /\ log[tick[t].run] = <<>> /\ TickOK("records", tick[t])
  BY InvParts DEF CreateRun, TickInv, TickOK, StartInv, StartOK, Starting
<1>3. \A s \in Runs : status'[s] = IF s = tick[t].run THEN "running" ELSE status[s]
  BY InvParts DEF CreateRun, TypeOK, RowTypes
<1>4. TickNow(t, "records", tick[t])
  BY InvParts, TickAfter DEF CreateRun
<1>5. TickInv' /\ ResumeInv' /\ DispatchInv'
  BY <1>1, <1>2, <1>4, Quiet, TickKept
<1>6. StartInv'
  BY <1>1, <1>2, <1>3, <1>4, StartMoved
<1>7. AbsentInv' /\ StatusIsReported'
  BY <1>1, <1>3, InvParts, Quiet, StatusSame, AbsentSame
<1> QED
  BY <1>1, <1>5, <1>6, <1>7, Quiet DEF Inv

\* Recover preserves the inductive invariant.
LEMMA RecoverInv ==
  ASSUME RunInv, NEW t \in Ticks, Recover(t)
  PROVE  Inv'
<1>1. UNCHANGED <<stored, pending, log, entry>> /\ UNCHANGED pollVars
  BY DEF Recover, runnerVars
<1>2. tick[t].run \in Runs /\ tick[t].kind \in {"dispatch", "resume"}
  BY InvParts DEF Recover, TickInv, TickOK
<1>3. \A s \in Runs : status'[s] = IF s = tick[t].run /\ status[s] = "running"
                                   THEN "failed" ELSE status[s]
  BY InvParts DEF Recover, TypeOK, RowTypes
<1>4. TickNow(t, "idle", NoTick)
  BY InvParts, TickAfter DEF Recover
<1>5. TickInv' /\ ResumeInv' /\ DispatchInv'
  BY <1>1, <1>4, Quiet, Idle
<1>6. StartInv'
  BY <1>1, <1>2, <1>3, <1>4, StartMoved, TaskReads
<1>7. AbsentInv' /\ StatusIsReported'
  BY <1>1, <1>3, InvParts, Quiet, StatusSame, AbsentSame
<1> QED
  BY <1>1, <1>5, <1>6, <1>7, Quiet DEF Inv

\* ClaimParked preserves the inductive invariant.
LEMMA ClaimParkedInv ==
  ASSUME RunInv, NEW t \in Ticks, ClaimParked(t)
  PROVE  Inv'
<1>1. UNCHANGED <<stored, pending, log, entry>> /\ UNCHANGED pollVars
  BY DEF ClaimParked, runnerVars
<1>2. tick[t].run \in Runs /\ tick[t].kind = "resume" /\ TickOK("submit", tick[t])
  BY InvParts DEF ClaimParked, TickInv, TickOK, Starting
<1>3. \A s \in Runs : status'[s] = IF s = tick[t].run /\ status[s] = "blocked"
                                   THEN "running" ELSE status[s]
  BY InvParts DEF ClaimParked, TypeOK, RowTypes
<1>4. TickNow(t, "idle", NoTick) \/ TickNow(t, "submit", tick[t])
  BY InvParts, TickAfter DEF ClaimParked
<1>5. TickInv' /\ ResumeInv' /\ DispatchInv'
  BY <1>1, <1>2, <1>4, Quiet, TickKept
<1>6. StartInv'
  BY <1>1, <1>2, <1>3, <1>4, StartMoved, TaskReads
<1>7. AbsentInv' /\ StatusIsReported'
  BY <1>1, <1>3, InvParts, Quiet, StatusSame, AbsentSame
<1> QED
  BY <1>1, <1>5, <1>6, <1>7, Quiet DEF Inv

\* A refused dispatch has nothing stored, so deleting its row loses no event; a
\* refused resume goes back to a block that was reported.
LEMMA RecoverCapacityInv ==
  ASSUME RunInv, NEW t \in Ticks, RecoverCapacity(t)
  PROVE  Inv'
<1>1. UNCHANGED <<pending, log, entry>> /\ UNCHANGED pollVars
  BY DEF RecoverCapacity, runnerVars
<1>2. tick[t].run \in Runs /\ tick[t].kind \in {"dispatch", "resume"}
  BY InvParts DEF RecoverCapacity, TickInv, TickOK
<1>3. UNCHANGED stored
  <2>1. CASE tick[t].kind = "dispatch"
    <3>1. StartsRun(t, tick[t].run)
      BY <2>1 DEF RecoverCapacity, StartsRun, Starting
    <3>2. stored[tick[t].run] = {}
      BY <1>2, <3>1, Eventful
    <3>3. stored' = [stored EXCEPT ![tick[t].run] = {}]
      BY <2>1 DEF RecoverCapacity
    <3> QED
      BY <3>2, <3>3, InvParts DEF TypeOK, RowTypes
  <2>2. CASE tick[t].kind = "resume"
    BY <2>2 DEF RecoverCapacity
  <2> QED
    BY <1>2, <2>1, <2>2
<1>4. \A s \in Runs : \/ status'[s] = status[s]
                      \/ s = tick[t].run /\ status'[s] = "deleted"
                      \/ s = tick[t].run /\ status'[s] = "blocked" /\ HasBlocked(s)
  BY <1>2, InvParts DEF RecoverCapacity, TypeOK, RowTypes, ResumeInv
<1>5. TickNow(t, "idle", NoTick)
  BY InvParts, TickAfter DEF RecoverCapacity
<1>6. TickInv' /\ ResumeInv' /\ DispatchInv'
  BY <1>1, <1>3, <1>5, Quiet, Idle
<1>7. StartInv'
  BY <1>1, <1>2, <1>4, <1>5, StartMoved, TaskReads
<1>8. AbsentInv'
  BY <1>1, <1>4, InvParts, AbsentSame
<1>9. StatusIsReported'
  BY <1>1, <1>3, <1>4, InvParts DEF StatusIsReported, HasBlocked
<1> QED
  BY <1>1, <1>3, <1>6, <1>7, <1>8, <1>9, Quiet DEF Inv

\* What submit leads to, once it has a handle.
LEMMA SubmittedTick ==
  ASSUME RunInv, NEW t \in Ticks, tpc[t] \in {"submit", "provision"}, NEW h,
         Submitted(t, tick[t].run, h), Grows, Keeps,
         \A s \in Runs \ {tick[t].run} : log'[s] = log[s], UNCHANGED status
  PROVE  TickInv' /\ ResumeInv' /\ DispatchInv' /\ StartInv'
<1>1. /\ tick[t].run \in Runs /\ tick[t].kind \in {"dispatch", "resume"}
      /\ tick[t].prev < MaxAttempts
  BY InvParts DEF TickInv, TickOK, Starting
<1>2. CASE tick[t].kind = "resume"
  <2> DEFINE task == TickTask(tick[t].run, "resume", tick[t].prev, h)
  <2>1. TickNow(t, "close", task)
    BY <1>2, InvParts, TickAfter DEF Submitted
  <2>2. task.run = tick[t].run /\ task.kind = "resume" /\ task.prev = tick[t].prev
    BY TaskReads
  <2> HIDE DEF task
  <2>3. TickOK("close", task) /\ HasBlocked(task.run)
    BY <1>1, <1>2, <2>2, InvParts DEF TickOK, Starting, ResumeInv
  <2>4. TickInv' /\ ResumeInv' /\ DispatchInv'
    BY <1>1, <2>1, <2>2, <2>3, TickMoved
  <2> QED
    BY <1>1, <2>1, <2>2, <2>4, StartMoved
<1>3. CASE tick[t].kind = "dispatch"
  <2>1. TickNow(t, "dispatched", tick[t]) /\ TickOK("dispatched", tick[t])
    BY <1>1, <1>3, InvParts, TickAfter DEF Submitted, TickOK, Starting
  <2> QED
    BY <1>1, <2>1, TickKept, StartMoved DEF Starting
<1> QED
  BY <1>1, <1>2, <1>3

\* Submit preserves the inductive invariant.
LEMMA SubmitInv ==
  ASSUME RunInv, NEW t \in Ticks, Submit(t)
  PROVE  Inv'
<1>1. UNCHANGED <<stored, pending, log, status>> /\ UNCHANGED pollVars
  BY DEF Submit, rowVars
<1>2. Grows /\ Keeps
  BY <1>1, Unmoved
<1>3. \A s \in Runs : entry'[s] \in {"none", entry[s]}
  BY DEF Submit
<1>4. EventInv'
  BY <1>1, <1>3, InvParts DEF EventInv, Events
<1>5. BatchInv' /\ StatusIsReported' /\ AbsentInv'
  BY <1>1, <1>2, InvParts, BatchSame, StatusSame, AbsentSame
<1>6. TickInv' /\ ResumeInv' /\ DispatchInv' /\ StartInv'
  <2>1. CASE Submitted(t, tick[t].run, invoked[tick[t].run])
    BY <1>1, <1>2, <2>1, SubmittedTick DEF Submit
  <2>2. ASSUME NEW pc \in {"refused", "provision"}, TickGoes(t, pc)
        PROVE  TickInv' /\ ResumeInv' /\ DispatchInv' /\ StartInv'
    <3>1. TickNow(t, pc, tick[t]) /\ TickOK(pc, tick[t])
      BY <2>2, InvParts, TickAfter DEF Submit, TickInv, TickOK, Starting
    <3>2. StartOK(pc, tick[t])
      BY <2>2, InvParts DEF Submit, StartInv, StartOK, Starting
    <3> QED
      BY <1>1, <1>2, <3>1, <3>2, TickKept, TickMoved
  <2>3. \/ Submitted(t, tick[t].run, invoked[tick[t].run])
        \/ \E pc \in {"refused", "provision"} : TickGoes(t, pc)
    BY DEF Submit
  <2> QED
    BY <2>1, <2>2, <2>3
<1> QED
  BY <1>4, <1>5, <1>6 DEF Inv

\* A run's stream grows by one event, which becomes pending.
LEMMA Appended ==
  ASSUME RunInv, NEW r \in Runs, NEW kind \in Kinds, UNCHANGED stored,
         log' = [log EXCEPT ![r] = Append(@, kind)],
         \A s \in Runs : pending'[s] \subseteq pending[s] \cup
                           (IF s = r THEN {Len(log[r]) + 1} ELSE {}),
         \A s \in Runs \ {r} : entry'[s] = entry[s]
  PROVE  EventInv' /\ Grows /\ Keeps /\ log'[r] # <<>> /\ \A s \in Runs \ {r} : log'[s] = log[s]
<1>1. log \in [Runs -> Seq(Kinds)]
  BY InvParts DEF TypeOK, RunnerTypes
<1>2. /\ \A s \in Runs \ {r} : log'[s] = log[s]
      /\ log'[r] = Append(log[r], kind)
  BY <1>1
<1>3. Len(log'[r]) = Len(log[r]) + 1 /\ \A n \in 1..Len(log[r]) : log'[r][n] = log[r][n]
  BY <1>1, <1>2
<1>4. log'[r] # <<>>
  BY <1>1, <1>3
<1>5. Len(log[r]) \in Nat
  BY <1>1
<1>6. Grows /\ Keeps
  BY <1>2, <1>3, <1>5, Unmoved DEF Grows, Events
<1>7. EventInv'
  <2> SUFFICES ASSUME NEW s \in Runs
               PROVE  /\ stored'[s] \subseteq 1..Len(log'[s])
                      /\ pending'[s] \subseteq 1..Len(log'[s])
                      /\ entry'[s] # "none" => log'[s] # <<>>
    BY DEF EventInv, Events
  <2>1. stored[s] \subseteq Events(s) /\ pending[s] \subseteq Events(s)
        /\ (entry[s] # "none" => log[s] # <<>>)
    BY InvParts DEF EventInv
  <2>2. CASE s = r
    BY <1>3, <1>4, <1>5, <2>1, <2>2 DEF Events
  <2>3. CASE s # r
    BY <1>2, <2>1, <2>3 DEF Events
  <2> QED
    BY <2>2, <2>3
<1> QED
  BY <1>2, <1>4, <1>6, <1>7

\* Provision preserves the inductive invariant.
LEMMA ProvisionInv ==
  ASSUME RunInv, NEW t \in Ticks, Provision(t)
  PROVE  Inv'
<1> DEFINE r == tick[t].run
<1>1. r \in Runs /\ tick[t].kind \in {"dispatch", "resume"}
  BY InvParts DEF Provision, TickInv, TickOK
<1>2. UNCHANGED <<stored, status>> /\ UNCHANGED pollVars
  BY DEF Provision, rowVars
<1>3. EventInv' /\ Grows /\ Keeps /\ \A s \in Runs \ {r} : log'[s] = log[s]
  <2>1. log' = [log EXCEPT ![r] = Append(@, "started")]
    BY DEF Provision
  <2>2. \A s \in Runs : pending'[s] \subseteq pending[s] \cup
                           (IF s = r THEN {Len(log[r]) + 1} ELSE {})
    BY InvParts DEF Provision, TypeOK, RunnerTypes
  <2>3. \A s \in Runs \ {r} : entry'[s] = entry[s]
    BY InvParts DEF Provision, TypeOK, RunnerTypes
  <2>4. "started" \in Kinds
    BY DEF Kinds
  <2> HIDE DEF r
  <2> QED
    BY <1>1, <1>2, <2>1, <2>2, <2>3, <2>4, Appended
<1>4. BatchInv' /\ StatusIsReported'
  BY <1>2, <1>3, InvParts, BatchSame, StatusSame
<1>5. TickInv' /\ ResumeInv' /\ DispatchInv' /\ StartInv'
  BY <1>2, <1>3, SubmittedTick DEF Provision
<1>6. status[r] # "absent"
  <2>1. CASE tick[t].kind = "dispatch"
    BY <2>1, InvParts DEF Provision, StartInv, StartOK, Starting
  <2>2. CASE tick[t].kind = "resume"
    BY <1>1, <2>2, InvParts DEF ResumeInv, HasBlocked, EventInv, Events, AbsentInv
  <2> QED
    BY <1>1, <2>1, <2>2
<1>7. AbsentInv'
  BY <1>2, <1>3, <1>6, InvParts, AbsentSame
<1> QED
  BY <1>3, <1>4, <1>5, <1>7 DEF Inv

\* The children.
LEMMA EventAppended ==
  ASSUME RunInv, NEW r \in Runs, NEW kind \in Kinds, Emit(r, kind) \/ Exit(r, kind)
  PROVE  Inv'
<1>1. UNCHANGED <<stored, status>> /\ UNCHANGED pollVars /\ UNCHANGED tickVars
  BY DEF Emit, Exit, rowVars
<1>2. EventInv' /\ Grows /\ Keeps /\ \A s \in Runs \ {r} : log'[s] = log[s]
  <2>1. log' = [log EXCEPT ![r] = Append(@, kind)]
    BY DEF Emit, Exit
  <2>2. \A s \in Runs : pending'[s] \subseteq pending[s] \cup
                           (IF s = r THEN {Len(log[r]) + 1} ELSE {})
    BY InvParts DEF Emit, Exit, TypeOK, RunnerTypes
  <2>3. \A s \in Runs \ {r} : entry'[s] = entry[s]
    BY InvParts DEF Emit, Exit, TypeOK, RunnerTypes
  <2> QED
    BY <1>1, <2>1, <2>2, <2>3, Appended
<1>3. log[r] # <<>>
  BY InvParts DEF Emit, Exit, EventInv
<1>4. BatchInv' /\ StatusIsReported'
  BY <1>1, <1>2, InvParts, BatchSame, StatusSame
<1>5. TickInv' /\ ResumeInv' /\ DispatchInv'
  BY <1>1, <1>2, InvParts, TickSame, ResumeSame, DispatchSame
<1>6. StartInv'
  BY <1>1, <1>2, <1>3, StartRow
<1>7. AbsentInv'
  BY <1>1, <1>2, <1>3, InvParts DEF AbsentInv
<1> QED
  BY <1>2, <1>4, <1>5, <1>6, <1>7 DEF Inv

\* OrphanExit preserves the inductive invariant.
LEMMA OrphanExitInv ==
  ASSUME RunInv, NEW r \in Runs, OrphanExit(r)
  PROVE  Inv'
<1>1. UNCHANGED <<stored, pending, log, entry>> /\ UNCHANGED pollVars /\ UNCHANGED tickVars
      /\ UNCHANGED status
  BY DEF OrphanExit, rowVars
<1> QED
  BY <1>1, Quiet DEF Inv

\* Restart preserves the inductive invariant.
LEMMA RestartInv ==
  ASSUME RunInv, Restart
  PROVE  Inv'
<1>1. UNCHANGED <<stored, log, status>>
  BY DEF Restart, rowVars
<1>2. EventInv'
  BY <1>1, InvParts DEF Restart, EventInv, Events
<1>3. \A t \in Ticks : tpc'[t] = "idle" /\ tick'[t] = NoTick
  BY DEF Restart
<1>4. TickInv' /\ ResumeInv' /\ DispatchInv' /\ StartInv'
  BY <1>3, TaskReads DEF TickInv, TickOK, Starting, ResumeInv, DispatchInv, StartInv, StartOK
<1>5. BatchInv'
  BY DEF Restart, BatchInv, Ingesting
<1>6. StatusIsReported' /\ AbsentInv'
  BY <1>1, InvParts DEF StatusIsReported, AbsentInv
<1> QED
  BY <1>2, <1>4, <1>5, <1>6 DEF Inv

-----------------------------------------------------------------------------
(* The poller's actions *)

\* A poller pass that moves on without moving a row.
LEMMA PollQuiet ==
  ASSUME RunInv, NEW p \in Pollers, NEW pc, NEW task, PollNow(p, pc, task), BatchOK(pc, task),
         UNCHANGED <<stored, pending, log, entry>>, UNCHANGED tickVars, UNCHANGED status
  PROVE  Inv'
  BY Quiet, PollMoved DEF Inv

\* What BatchInv says of one pass.
LEMMA BatchNow ==
  ASSUME RunInv, NEW p \in Pollers
  PROVE  BatchOK(ppc[p], poll[p])
  BY InvParts DEF BatchInv, BatchOK

\* Between two runs a pass holds no batch.
LEMMA NoBatch ==
  ASSUME NEW pc \in {"idle", "poll", "mark"}, NEW task PROVE BatchOK(pc, task)
  BY DEF BatchOK, Ingesting

\* StartPoll preserves the inductive invariant.
LEMMA StartPollInv ==
  ASSUME RunInv, NEW p \in Pollers, StartPoll(p)
  PROVE  Inv'
<1>1. UNCHANGED <<stored, pending, log, entry>> /\ UNCHANGED tickVars /\ UNCHANGED status
  BY DEF StartPoll, rowVars, runnerVars
<1>2. PollNow(p, "poll", NoPoll)
  BY InvParts, PollAfter DEF StartPoll
<1>3. BatchOK("poll", NoPoll)
  BY NoBatch
<1> QED
  BY <1>1, <1>2, <1>3, PollQuiet

\* AdvanceRun preserves the inductive invariant.
LEMMA AdvanceRunInv ==
  ASSUME RunInv, NEW p \in Pollers, AdvanceRun(p)
  PROVE  Inv'
<1>1. UNCHANGED <<stored, pending, log, entry>> /\ UNCHANGED tickVars /\ UNCHANGED status
  BY DEF AdvanceRun, rowVars, runnerVars
<1> PICK adv : PollTakes(p, "transition", PollTask(poll[p].run, poll[p].batch, poll[p].done, adv))
  BY DEF AdvanceRun
<1> DEFINE task == PollTask(poll[p].run, poll[p].batch, poll[p].done, adv)
<1>2. PollNow(p, "transition", task)
  BY InvParts, PollAfter
<1>3. BatchOK("transition", task)
  BY BatchNow, TaskReads DEF AdvanceRun, BatchOK, Ingesting
<1> QED
  BY <1>1, <1>2, <1>3, PollQuiet

\* StaleBatch preserves the inductive invariant.
LEMMA StaleBatchInv ==
  ASSUME RunInv, NEW p \in Pollers, StaleBatch(p)
  PROVE  Inv'
<1>1. UNCHANGED <<stored, pending, log, entry>> /\ UNCHANGED tickVars /\ UNCHANGED status
  BY DEF StaleBatch, rowVars, runnerVars
<1>2. PollNow(p, "after", poll[p])
  BY InvParts, PollAfter DEF StaleBatch
<1>3. BatchOK("after", poll[p])
  BY BatchNow DEF StaleBatch, BatchOK, Ingesting
<1> QED
  BY <1>1, <1>2, <1>3, PollQuiet

\* ConcludeAttempts preserves the inductive invariant.
LEMMA ConcludeAttemptsInv ==
  ASSUME RunInv, NEW p \in Pollers, ConcludeAttempts(p)
  PROVE  Inv'
<1>1. UNCHANGED <<stored, pending, log, entry>> /\ UNCHANGED tickVars /\ UNCHANGED status
  BY DEF ConcludeAttempts, rowVars, runnerVars
<1>2. PollNow(p, "after", poll[p])
  BY InvParts, PollAfter DEF ConcludeAttempts
<1>3. BatchOK("after", poll[p])
  BY BatchNow DEF ConcludeAttempts, BatchOK, Ingesting
<1> QED
  BY <1>1, <1>2, <1>3, PollQuiet

\* AfterIngest preserves the inductive invariant.
LEMMA AfterIngestInv ==
  ASSUME RunInv, NEW p \in Pollers, AfterIngest(p)
  PROVE  Inv'
<1>1. UNCHANGED <<stored, pending, log, entry>> /\ UNCHANGED tickVars /\ UNCHANGED status
  BY DEF AfterIngest, rowVars, runnerVars
<1>2. PollNow(p, "poll", NoPoll)
  BY InvParts, PollAfter DEF AfterIngest
<1>3. BatchOK("poll", NoPoll)
  BY NoBatch
<1> QED
  BY <1>1, <1>2, <1>3, PollQuiet

\* ReconcileUntracked preserves the inductive invariant.
LEMMA ReconcileUntrackedInv ==
  ASSUME RunInv, NEW p \in Pollers, ReconcileUntracked(p)
  PROVE  Inv'
<1>1. UNCHANGED <<stored, pending, log, entry>> /\ UNCHANGED tickVars /\ UNCHANGED status
  BY DEF ReconcileUntracked, rowVars, runnerVars
<1> PICK pc \in {"idle", "mark"} : PollTakes(p, pc, NoPoll)
  BY DEF ReconcileUntracked
<1>2. PollNow(p, pc, NoPoll)
  BY InvParts, PollAfter
<1>3. BatchOK(pc, NoPoll)
  BY NoBatch
<1> QED
  BY <1>1, <1>2, <1>3, PollQuiet

\* PollFault preserves the inductive invariant.
LEMMA PollFaultInv ==
  ASSUME RunInv, NEW p \in Pollers, PollFault(p)
  PROVE  Inv'
<1>1. UNCHANGED <<stored, pending, log, entry>> /\ UNCHANGED tickVars /\ UNCHANGED status
  BY DEF PollFault, rowVars, runnerVars
<1> PICK pc \in {"idle", "poll"} : PollTakes(p, pc, NoPoll)
  BY DEF PollFault, PollNextRun
<1>2. PollNow(p, pc, NoPoll)
  BY InvParts, PollAfter
<1>3. BatchOK(pc, NoPoll)
  BY NoBatch
<1> QED
  BY <1>1, <1>2, <1>3, PollQuiet

\* PollOne preserves the inductive invariant.
LEMMA PollOneInv ==
  ASSUME RunInv, NEW p \in Pollers, NEW r \in Runs, NEW h, PollOne(p, r, h)
  PROVE  Inv'
<1>1. UNCHANGED <<stored, log, entry, status>> /\ UNCHANGED tickVars
  BY DEF PollOne, rowVars
<1>2. \A s \in Runs : pending'[s] \subseteq pending[s]
  BY InvParts DEF PollOne, TypeOK, RunnerTypes
<1>3. EventInv' /\ Grows /\ Keeps
  BY <1>1, <1>2, InvParts, Unmoved DEF EventInv, Events
<1>4. BatchInv'
  <2>1. CASE PollTakes(p, "lost", PollTask(r, {}, FALSE, FALSE))
    <3> DEFINE task == PollTask(r, {}, FALSE, FALSE)
    <3>1. task.run = r
      BY DEF PollTask
    <3>2. PollNow(p, "lost", task)
      BY <2>1, InvParts, PollAfter
    <3> HIDE DEF task
    <3>3. BatchOK("lost", task)
      BY <3>1 DEF BatchOK, Ingesting
    <3> QED
      BY <1>3, <3>2, <3>3, PollMoved
  <2>2. ASSUME NEW done, PollTakes(p, "store", PollTask(r, pending[r], done, FALSE))
        PROVE  BatchInv'
    <3> DEFINE task == PollTask(r, pending[r], done, FALSE)
    <3>1. task.run = r /\ task.batch = pending[r]
      BY DEF PollTask
    <3>2. PollNow(p, "store", task)
      BY <2>2, InvParts, PollAfter
    <3> HIDE DEF task
    <3>3. BatchOK("store", task)
      BY <3>1, InvParts DEF BatchOK, Ingesting, EventInv
    <3> QED
      BY <1>3, <3>2, <3>3, PollMoved
  <2>3. CASE UNCHANGED <<ppc, poll>>
    BY <1>1, <2>3, InvParts DEF BatchInv, Events, Ingesting
  <2> QED
    BY <2>1, <2>2, <2>3 DEF PollOne
<1>5. TickInv' /\ ResumeInv' /\ DispatchInv' /\ StartInv'
  BY <1>1, <1>3, InvParts, TickSame, ResumeSame, DispatchSame, StartSame
<1>6. StatusIsReported' /\ AbsentInv'
  BY <1>1, <1>3, InvParts, StatusSame, AbsentSame
<1> QED
  BY <1>3, <1>4, <1>5, <1>6 DEF Inv

\* StoreEvents preserves the inductive invariant.
LEMMA StoreEventsInv ==
  ASSUME RunInv, NEW p \in Pollers, StoreEvents(p)
  PROVE  Inv'
<1> DEFINE r == poll[p].run
<1>1. UNCHANGED <<pending, log, entry, status>> /\ UNCHANGED tickVars
  BY DEF StoreEvents, runnerVars
<1>2. r \in Runs /\ poll[p].batch \subseteq Events(r)
  BY InvParts DEF StoreEvents, BatchInv, Ingesting
<1>3. CASE PollNextRun(p) /\ UNCHANGED stored
  <2>1. PollNow(p, "poll", NoPoll) /\ BatchOK("poll", NoPoll)
    BY <1>3, InvParts, PollAfter, NoBatch
  <2> QED
    BY <1>1, <1>3, <2>1, PollQuiet
<1>4. CASE stored' = [stored EXCEPT ![r] = @ \cup poll[p].batch] /\ PollGoes(p, "advance")
  <2>1. \A s \in Runs : stored'[s] = IF s = r THEN stored[s] \cup poll[p].batch ELSE stored[s]
    BY <1>4, InvParts DEF TypeOK, RowTypes
  <2>2. Grows /\ Keeps
    BY <1>1, <2>1, Unmoved DEF Keeps
  <2>3. EventInv'
    BY <1>1, <1>2, <2>1, InvParts DEF EventInv, Events
  <2>4. PollNow(p, "advance", poll[p])
    BY <1>4, InvParts, PollAfter
  <2>5. BatchInv'
    <3> SUFFICES ASSUME NEW q \in Pollers
                 PROVE  /\ ppc'[q] \in Ingesting \cup {"lost"} => poll'[q].run \in Runs
                        /\ ppc'[q] \in Ingesting => poll'[q].batch \subseteq 1..Len(log'[poll'[q].run])
                        /\ ppc'[q] \in Ingesting \ {"store"} =>
                             poll'[q].batch \subseteq stored'[poll'[q].run]
      BY DEF BatchInv, Events
    <3>1. CASE q = p
      BY <1>1, <1>2, <2>1, <2>4, <3>1 DEF PollNow, Events
    <3>2. CASE q # p
      <4>1. ppc'[q] = ppc[q] /\ poll'[q] = poll[q]
        BY <2>4, <3>2 DEF PollNow
      <4> QED
        BY <1>1, <2>2, <4>1, InvParts DEF BatchInv, Events, Keeps, Ingesting
    <3> QED
      BY <3>1, <3>2
  <2>6. TickInv' /\ ResumeInv' /\ DispatchInv' /\ StartInv'
    BY <1>1, <2>2, InvParts, TickSame, ResumeSame, DispatchSame, StartSame
  <2>7. StatusIsReported' /\ AbsentInv'
    BY <1>1, <2>2, InvParts, StatusSame, AbsentSame
  <2> QED
    BY <2>3, <2>5, <2>6, <2>7 DEF Inv
<1> QED
  BY <1>3, <1>4 DEF StoreEvents

\* A poller pass that moves the row of its run: the row keeps its reports, and
\* nobody is starting the run.
LEMMA PollMovesRow ==
  ASSUME RunInv, NEW p \in Pollers, NEW r \in Runs, NEW pc, NEW task,
         PollNow(p, pc, task), BatchOK(pc, task),
         UNCHANGED <<stored, pending, log, entry>>, UNCHANGED tickVars,
         \A s \in Runs \ {r} : status'[s] = status[s],
         status[r] = "absent" <=> status'[r] = "absent",
         \/ log[r] # <<>>
         \/ status[r] \in {"running", "stalled"} => status'[r] \in {"running", "stalled"},
         status'[r] = "succeeded" => status[r] = "succeeded" \/
                                     \E n \in stored[r] : log[r][n] = "completed",
         status'[r] = "blocked" => status[r] = "blocked" \/ HasBlocked(r)
  PROVE  Inv'
<1>1. EventInv' /\ BatchInv' /\ TickInv' /\ ResumeInv' /\ DispatchInv'
  BY Quiet, PollMoved
<1>2. StartInv'
  BY StartRow
<1>3. StatusIsReported' /\ AbsentInv'
  BY InvParts DEF StatusIsReported, AbsentInv, HasBlocked
<1> QED
  BY <1>1, <1>2, <1>3 DEF Inv

\* At "transition" the batch is stored, and so is what it says.
LEMMA AtTransition ==
  ASSUME RunInv, NEW p \in Pollers, ppc[p] = "transition"
  PROVE  /\ poll[p].run \in Runs
         /\ poll[p].batch \subseteq stored[poll[p].run]
         /\ BatchOK("attempts", poll[p]) /\ BatchOK("after", poll[p])
         /\ poll[p].batch # {} => log[poll[p].run] # <<>>
<1>1. /\ poll[p].run \in Runs
      /\ poll[p].batch \subseteq stored[poll[p].run]
      /\ poll[p].batch \subseteq Events(poll[p].run)
  BY InvParts DEF BatchInv, Ingesting
<1>2. log[poll[p].run] = <<>> => Events(poll[p].run) = {}
  BY DEF Events
<1> QED
  BY <1>1, <1>2 DEF BatchOK, Ingesting

\* ConcludeRun preserves the inductive invariant.
LEMMA ConcludeRunInv ==
  ASSUME RunInv, NEW p \in Pollers, ConcludeRun(p)
  PROVE  Inv'
<1> DEFINE r == poll[p].run
<1>1. UNCHANGED <<stored, pending, log, entry>> /\ UNCHANGED tickVars
  BY DEF ConcludeRun, runnerVars
<1>2. PICK n \in poll[p].batch :
        \/ /\ status[r] \in LIVE_STATUSES
           /\ status' = [status EXCEPT ![r] =
                 IF log[r][n] = "completed" THEN "succeeded" ELSE "failed"]
           /\ PollGoes(p, "attempts")
        \/ PollGoes(p, "after") /\ UNCHANGED status
  BY DEF ConcludeRun, TerminalIn
<1>3. /\ r \in Runs /\ n \in stored[r] /\ log[r] # <<>>
      /\ BatchOK("attempts", poll[p]) /\ BatchOK("after", poll[p])
  BY AtTransition DEF ConcludeRun
<1>4. CASE /\ status[r] \in LIVE_STATUSES
           /\ status' = [status EXCEPT ![r] =
                 IF log[r][n] = "completed" THEN "succeeded" ELSE "failed"]
           /\ PollGoes(p, "attempts")
  <2>1. PollNow(p, "attempts", poll[p])
    BY <1>4, InvParts, PollAfter
  <2>2. \A s \in Runs : status'[s] = IF s = r
          THEN IF log[r][n] = "completed" THEN "succeeded" ELSE "failed" ELSE status[s]
    BY <1>3, <1>4, InvParts DEF TypeOK, RowTypes
  <2>3. status[r] # "absent"
    BY <1>4 DEF LIVE_STATUSES
  <2> HIDE DEF r
  <2> QED
    BY <1>1, <1>3, <2>1, <2>2, <2>3, PollMovesRow
<1>5. CASE PollGoes(p, "after") /\ UNCHANGED status
  <2>1. PollNow(p, "after", poll[p])
    BY <1>5, InvParts, PollAfter
  <2> QED
    BY <1>1, <1>3, <1>5, <2>1, PollQuiet
<1> QED
  BY <1>2, <1>4, <1>5

\* BlockRun preserves the inductive invariant.
LEMMA BlockRunInv ==
  ASSUME RunInv, NEW p \in Pollers, BlockRun(p)
  PROVE  Inv'
<1> DEFINE r == poll[p].run
<1>1. UNCHANGED <<stored, pending, log, entry>> /\ UNCHANGED tickVars
  BY DEF BlockRun, runnerVars
<1>2. PICK n \in poll[p].batch : log[r][n] = "blocked"
  BY DEF BlockRun
<1>3. /\ r \in Runs /\ HasBlocked(r) /\ log[r] # <<>> /\ BatchOK("after", poll[p])
  BY <1>2, AtTransition DEF BlockRun, HasBlocked
<1>4. \A s \in Runs : status'[s] = IF s = r /\ status[s] \in LIVE_STATUSES
                                   THEN "blocked" ELSE status[s]
  BY <1>3, InvParts DEF BlockRun, TypeOK, RowTypes
<1>5. PollNow(p, "after", poll[p])
  BY InvParts, PollAfter DEF BlockRun
<1> HIDE DEF r
<1> QED
  BY <1>1, <1>3, <1>4, <1>5, PollMovesRow DEF LIVE_STATUSES

\* ResumeRun preserves the inductive invariant.
LEMMA ResumeRunInv ==
  ASSUME RunInv, NEW p \in Pollers, ResumeRun(p)
  PROVE  Inv'
<1> DEFINE r == poll[p].run
<1>1. UNCHANGED <<stored, pending, log, entry>> /\ UNCHANGED tickVars
  BY DEF ResumeRun, runnerVars
<1>2. r \in Runs /\ log[r] # <<>> /\ BatchOK("after", poll[p])
  BY AtTransition DEF ResumeRun
<1>3. \A s \in Runs : status'[s] = IF s = r /\ status[s] \in {"stalled", "blocked"}
                                   THEN "running" ELSE status[s]
  BY <1>2, InvParts DEF ResumeRun, TypeOK, RowTypes
<1>4. PollNow(p, "after", poll[p])
  BY InvParts, PollAfter DEF ResumeRun
<1> HIDE DEF r
<1> QED
  BY <1>1, <1>2, <1>3, <1>4, PollMovesRow

\* MarkUnknown preserves the inductive invariant.
LEMMA MarkUnknownInv ==
  ASSUME RunInv, NEW p \in Pollers, MarkUnknown(p)
  PROVE  Inv'
<1> DEFINE r == poll[p].run
<1>1. UNCHANGED <<stored, pending, log, entry>> /\ UNCHANGED tickVars
  BY DEF MarkUnknown, runnerVars
<1>2. r \in Runs
  BY InvParts DEF MarkUnknown, BatchInv
<1>3. \A s \in Runs : status'[s] = IF s = r /\ status[s] \in LIVE_STATUSES
                                   THEN "stalled" ELSE status[s]
  BY <1>2, InvParts DEF MarkUnknown, MarkStalled, TypeOK, RowTypes
<1>4. PollNow(p, "poll", NoPoll) /\ BatchOK("poll", NoPoll)
  BY InvParts, PollAfter, NoBatch DEF MarkUnknown
<1> HIDE DEF r
<1> QED
  BY <1>1, <1>2, <1>3, <1>4, PollMovesRow DEF LIVE_STATUSES

\* MarkUntracked preserves the inductive invariant.
LEMMA MarkUntrackedInv ==
  ASSUME RunInv, NEW p \in Pollers, NEW r \in Runs, MarkUntracked(p, r)
  PROVE  Inv'
<1>1. UNCHANGED <<stored, pending, log, entry>> /\ UNCHANGED tickVars
  BY DEF MarkUntracked, runnerVars
<1>2. \/ UNCHANGED status
      \/ \A s \in Runs : status'[s] = IF s = r /\ status[s] \in LIVE_STATUSES
                                      THEN "stalled" ELSE status[s]
  BY InvParts DEF MarkUntracked, MarkStalled, TypeOK, RowTypes
<1>3. PICK pc \in {"idle", "mark"} : PollTakes(p, pc, NoPoll)
  BY DEF MarkUntracked
<1>4. PollNow(p, pc, NoPoll) /\ BatchOK(pc, NoPoll)
  BY <1>3, InvParts, PollAfter, NoBatch
<1>5. CASE UNCHANGED status
  BY <1>1, <1>4, <1>5, PollQuiet
<1>6. CASE \A s \in Runs : status'[s] = IF s = r /\ status[s] \in LIVE_STATUSES
                                      THEN "stalled" ELSE status[s]
  BY <1>1, <1>4, <1>6, PollMovesRow DEF LIVE_STATUSES
<1> QED
  BY <1>2, <1>5, <1>6

-----------------------------------------------------------------------------
(* The invariant holds *)

\* The initial states satisfy the invariant.
LEMMA InitInv == Init => RunInv
<1> SUFFICES ASSUME Init PROVE RunInv
  OBVIOUS
<1>1. TypeOK
  <2>1. RowTypes
    BY BoundsAssumption DEF Init, RowTypes, Statuses, Outcomes
  <2>2. RunnerTypes
    BY DEF Init, RunnerTypes
  <2>3. TickTypes /\ PollTypes
    BY TaskTypes DEF Init, TickTypes, PollTypes, TickPCs, PollPCs
  <2> QED
    BY <2>1, <2>2, <2>3, BoundsAssumption DEF Init, TypeOK
<1>2. EventInv /\ BatchInv /\ AbsentInv /\ StatusIsReported
  BY DEF Init, EventInv, BatchInv, Ingesting, AbsentInv, StatusIsReported
<1>3. TickInv /\ ResumeInv /\ DispatchInv /\ StartInv
  BY TaskReads DEF Init, TickInv, TickOK, Starting, ResumeInv, DispatchInv, StartInv, StartOK
<1> QED
  BY <1>1, <1>2, <1>3 DEF RunInv, Inv

\* A reconciler pass takes a step.
LEMMA TickStep ==
  ASSUME RunInv, NEW t \in Ticks, TickStarts(t) \/ TickWorks(t) \/ TickFault(t)
  PROVE  RunInv'
<1> USE InvParts DEF RunInv
<1>1. ASSUME NEW r \in Runs, Decide(t, r) PROVE RunInv'
  BY <1>1, DecideType, DecideInv
<1>2. ASSUME NEW r \in Runs, WatchdogPark(t, r) PROVE RunInv'
  BY <1>2, WatchdogParkType, WatchdogParkInv
<1>3. ASSUME NEW r \in Runs, WatchdogResume(t, r) PROVE RunInv'
  BY <1>3, WatchdogResumeType, WatchdogResumeInv
<1>4. CASE CreateRun(t)
  BY <1>4, CreateRunType, CreateRunInv
<1>5. CASE WriteRecords(t)
  BY <1>5, WriteRecordsType, WriteRecordsInv
<1>6. CASE Submit(t)
  BY <1>6, SubmitType, SubmitInv
<1>7. CASE Provision(t)
  BY <1>7, ProvisionType, ProvisionInv
<1>8. CASE MarkDispatched(t)
  BY <1>8, MarkDispatchedType, MarkDispatchedInv
<1>9. CASE Recover(t)
  BY <1>9, RecoverType, RecoverInv
<1>10. CASE RecoverCapacity(t)
  BY <1>10, RecoverCapacityType, RecoverCapacityInv
<1>11. CASE WritePlan(t)
  BY <1>11, WritePlanType, WritePlanInv
<1>12. CASE ResumeGates(t)
  BY <1>12, ResumeGatesType, ResumeGatesInv
<1>13. CASE ClaimParked(t)
  BY <1>13, ClaimParkedType, ClaimParkedInv
<1>14. CASE CloseParkedAttempt(t)
  BY <1>14, CloseParkedAttemptType, CloseParkedAttemptInv
<1>15. CASE OpenResumedAttempt(t)
  BY <1>15, OpenResumedAttemptType, OpenResumedAttemptInv
<1>16. CASE TickFault(t)
  BY <1>16, TickFaultType, TickFaultInv
<1> QED
  BY <1>1, <1>2, <1>3, <1>4, <1>5, <1>6, <1>7, <1>8, <1>9, <1>10, <1>11, <1>12, <1>13, <1>14,
     <1>15, <1>16
     DEF TickStarts, TickWorks

\* A poller pass takes a step.
LEMMA PollStep ==
  ASSUME RunInv, NEW p \in Pollers, PollWorks(p) \/ PollFault(p)
  PROVE  RunInv'
<1> USE InvParts DEF RunInv
<1>1. ASSUME NEW r \in Runs, NEW h, PollOne(p, r, h) PROVE RunInv'
  BY <1>1, PollOneType, PollOneInv
<1>2. ASSUME NEW r \in Runs, MarkUntracked(p, r) PROVE RunInv'
  BY <1>2, MarkUntrackedType, MarkUntrackedInv
<1>3. CASE StartPoll(p)
  BY <1>3, StartPollType, StartPollInv
<1>4. CASE StoreEvents(p)
  BY <1>4, StoreEventsType, StoreEventsInv
<1>5. CASE AdvanceRun(p)
  BY <1>5, AdvanceRunType, AdvanceRunInv
<1>6. CASE ConcludeRun(p)
  BY <1>6, ConcludeRunType, ConcludeRunInv
<1>7. CASE BlockRun(p)
  BY <1>7, BlockRunType, BlockRunInv
<1>8. CASE ResumeRun(p)
  BY <1>8, ResumeRunType, ResumeRunInv
<1>9. CASE StaleBatch(p)
  BY <1>9, StaleBatchType, StaleBatchInv
<1>10. CASE ConcludeAttempts(p)
  BY <1>10, ConcludeAttemptsType, ConcludeAttemptsInv
<1>11. CASE AfterIngest(p)
  BY <1>11, AfterIngestType, AfterIngestInv
<1>12. CASE MarkUnknown(p)
  BY <1>12, MarkUnknownType, MarkUnknownInv
<1>13. CASE ReconcileUntracked(p)
  BY <1>13, ReconcileUntrackedType, ReconcileUntrackedInv
<1>14. CASE PollFault(p)
  BY <1>14, PollFaultType, PollFaultInv
<1> QED
  BY <1>1, <1>2, <1>3, <1>4, <1>5, <1>6, <1>7, <1>8, <1>9, <1>10, <1>11, <1>12, <1>13, <1>14
     DEF PollWorks

\* A child takes a step.
LEMMA RunnerStep ==
  ASSUME RunInv, RunnerWorks
  PROVE  RunInv'
<1> USE InvParts DEF RunInv
<1>1. ASSUME NEW r \in Runs, NEW kind \in Kinds, Emit(r, kind) PROVE RunInv'
  BY <1>1, EmitType, EventAppended
<1>2. ASSUME NEW r \in Runs, NEW kind \in Kinds, Exit(r, kind) PROVE RunInv'
  BY <1>2, ExitType, EventAppended
<1>3. ASSUME NEW r \in Runs, OrphanExit(r) PROVE RunInv'
  BY <1>3, OrphanExitType, OrphanExitInv
<1> QED
  BY <1>1, <1>2, <1>3 DEF RunnerWorks, Kinds, TerminalKinds

\* Nothing happens.
LEMMA Stutter ==
  ASSUME RunInv, UNCHANGED vars
  PROVE  RunInv'
<1>1. UNCHANGED rowVars /\ UNCHANGED runnerVars /\ UNCHANGED tickVars /\ UNCHANGED pollVars
      /\ UNCHANGED <<tracked, faults, restarts>>
  BY DEF vars
<1>2. TypeOK'
  BY <1>1, InvParts DEF TypeOK, RowTypes, RunnerTypes, TickTypes, PollTypes, rowVars,
                        runnerVars, tickVars, pollVars
<1>3. Inv'
  BY <1>1, Quiet DEF Inv, rowVars, runnerVars
<1> QED
  BY <1>2, <1>3 DEF RunInv

\* The invariant is inductive.
LEMMA NextInv == RunInv /\ [Next]_vars => RunInv'
<1> SUFFICES ASSUME RunInv, [Next]_vars PROVE RunInv'
  OBVIOUS
<1>1. CASE Restart
  BY <1>1, InvParts, RestartType, RestartInv DEF RunInv
<1> QED
  BY <1>1, TickStep, PollStep, RunnerStep, Stutter DEF Next

\* Every reachable state of the system satisfies the inductive invariant.
THEOREM InvariantHolds == Spec => []RunInv
  BY InitInv, NextInv, PTL DEF Spec

\* Whatever the passes, faults and restarts do, every variable keeps its type:
\* in particular a batch names real runs, and attempt numbers stay in range.
THEOREM TypeCorrect == Spec => []TypeOK
<1>1. RunInv => TypeOK
  BY DEF RunInv
<1> QED
  BY <1>1, InvariantHolds, PTL

\* A row says `succeeded` or `blocked` only when run_events holds the runner's
\* own event that says so.
THEOREM StatusReported == Spec => []StatusIsReported
<1>1. RunInv => StatusIsReported
  BY DEF RunInv, Inv
<1> QED
  BY <1>1, InvariantHolds, PTL


=============================================================================
