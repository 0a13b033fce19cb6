# A TLA+ model of the opifex control plane

opifex turns labelled GitHub issues into work orders, hands them to a coding agent
that runs as a child process, follows the run through the agent's events, parks and
resumes it around rate limits, and reports what needs a human. This directory models
the control plane: the life of a run and the queue in front of it, where timers, a
child process and a database meet; what may be done without a human (approvals, trust,
promotion); and the services around them, from paging to GitHub reads. Paths are
relative to `apps/api/src/`.

## The system

| part | state | operations | who else touches it |
|---|---|---|---|
| reconciler pass (`reconciler/reconciler.task.ts`, `reconciler.service.ts`) | none of its own; a timer without an overlap guard | `runOnce`: liveness and watchdog sweep, leased observation and projection, escalations, resumes, drain, mirror labels | later passes, the poller |
| tick lease (`reconciler/tick-lease.service.ts`) | an advisory lock | `withLease` | overlapping passes, other API processes |
| work-order projection (`work-orders/`) | `WorkOrder` rows | `projectOne`, `reconcileHold`, `persist` | the drain |
| dispatch queue and executor (`dispatch/`) | `WorkOrder.status`, `Run` and `RunAttempt` rows | `drain`, `dispatchWorkOrder`, `resumeParkedRun`, `recover`, `recoverResume` | projection, poller, overlapping drains |
| local runner (`runners/claude-code-local/`) | a map from identity to child, its pending events | `submit`, `poll`, `cancel`, `settle`, reaping | executor, poller, process restarts |
| poller (`runners/run-poller.service.ts`) | the handles, in memory | `tick`, `pollOne`, `reconcileUntracked`, deadlines, budgets | executor, overlapping polls |
| event ingestion (`run-events/`) | `run_events`, `Run.status`, `lastEventAt`, attempts | `ingest`, `advanceRun`, `blockRun`, `resumeRun`, `concludeRun` | all writers of `Run.status` |
| watchdog (`watchdog/`) | `Run.resumesAt` | `sweepBlocked` plans and releases parks | executor, ingestion |
| spend control (`budget/`) | the ledger (run costs), the hard ceiling | `tally`, `decideSpendAdmission`, `refresh` | overlapping passes, resumes, restarts |
| desired state (`reconciler/projection`, `diff`, `execute`) | mirror labels on GitHub | `projectIntent`, `mirrorLabelActions`, `MirrorLabelExecutor.execute` | humans, agents, the dispatcher, slow passes |
| liveness and dead time (`liveness/`, `dead-time/`, `watchdog/silent-detection.ts`) | `lastEventAt`, `DeadInterval` rows | `updateRun`, `detectSilentRuns`, `record` | ingestion, the poller |
| escalations and notifications | `Escalation` rows, subscriptions | raise, dispatch, receipts, overdue sweep, acknowledge | transports, devices, humans |
| approvals (`approvals/`) | `ApprovalRequest` rows | `gate`, `decide`, `supersede`, timeout sweep, escalation backfill | humans, timers, callers |
| trust (`trust/`) | `TrustGrant` rows | `create`, `authorize`, `recordUsage`, `renew`, `revoke`, expiry sweep, prompts | the gate, humans, promotion |
| promotion (`promotion/`) | `PromotionState` rows | `evaluate`, `demoteManually`, `suspendGrantsFor` | decision log, approvals, grants |
| autonomy (`autonomy/`, `supervisor/action-classes.ts`) | none | `checkNeverTrustable`, `effectsFor`, `resolveTimeoutPolicy` | gate, promotion |
| supervisor (`supervisor/invocation/`) | `SupervisorInvocation` rows | `invoke`, its spend gates | restarts, the operator |
| steering (`steering/`, `cockpit/queue-steering.service.ts`) | labels on GitHub | `propose`, `apply`, `hold`, `release` | humans, the kill switch |
| operator settings (`settings/operator-settings/`) | rows, a revision, an overlay per process | `set`, `refresh`, `notifyChanged` | other API processes |
| repositories (`repositories/`) | `Repository` rows | register, update, retire, unretire, remove | GitHub, the projection |
| GitHub access (`github/`) | an ETag cache, rate-limit snapshots | `request`, `guardedWrite` | every caller |
| auth, device auth, tokens, users, allowlist, storage, health, telemetry, cockpit, web | accounts, tokens, objects | request handlers | HTTP clients |

The hard behaviours: both timers may overlap themselves; every handler is cut into
steps by its awaits; a database, GitHub or git call may fail between any two of them;
the API may restart and lose its handles and its map of children while the detached
children go on; a batch of events is taken out of the runner before it is stored; labels
are read once and acted on later; humans, sweeps and timers decide on the same row;
pushes are lost and receipts are late; a process applies settings another one wrote.

What makes the parts correct: a run's conclusion is final and is only what the runner
reported; a run holds its slot until it ends and no longer; an ended child's run
concludes; a row with no child behind it is reported; a work order is run when its row
says so, by one agent, and what was dispatched or quarantined stays so; the queue moves.
What acts without a human was granted by one or announced to one; trust only narrows and
ends, and is earned from human verdicts; every question and every alarm reaches someone,
a bounded number of times; what is written from a stale reading is corrected; money stays
under its ceilings; what half fails, fails closed.

## Modules

* **RunStatus**: what a Run row promises its readers, with `status` and the set of kinds
  of event `reported` for it. A row is created running; parks and succeeds only on a
  report; may stall, wake and fail while live; may be removed while nothing was reported;
  a concluded row never moves.
* **RunLifecycle**: the row with everything that writes it. State: the row (`status`,
  `lost` for LOST_HANDLE_REASON, `planned` for `resumesAt`, `lastEventAt`, attempts,
  stored events), the memory of the API process (the poller's handles, the runner's entry
  and pending events, the passes in flight), and the world (the events produced, the
  invocations made, orphaned children). An action is what the code does between two
  awaits: `CreateRun`, `WriteRecords`, `Submit`, `Provision`, `MarkDispatched` are
  `dispatchWorkOrder`; `ResumeGates`, `ClaimParked`, `CloseParkedAttempt`,
  `OpenResumedAttempt` are `resumeParkedRun`; `StartPoll`, `PollOne`, `AfterIngest`,
  `ReconcileUntracked`, `MarkUntracked` the poller; `StoreEvents`, `AdvanceRun`,
  `ConcludeRun`, `BlockRun`, `ResumeRun`, `ConcludeAttempts` the ingestion; `Emit` and
  `Exit` the child; `Restart` the API process. `TickFault` and `PollFault` are failing
  calls and lead where the code's catch blocks lead.
* **WorkOrderQueue**: from a label to a run. One action each for reading the issues under
  the lease, loading the rows, projecting an issue, reading the batch, deciding a row,
  creating its run, submitting, provisioning, marking the work order, recovering, polling
  an ended or unknown invocation, a label edit, the repository's dispatch switch and a
  change of what the gates refuse. `dispatchWorkOrder` may leave a row queued for the want
  of a capable or an implemented runner, for the spend gate or for `dispatch.enabled`:
  `refused` is the set of work orders it would leave so, which may stay as it is for ever,
  and the runner's headroom is counted. Here a work order may have several runs, and a run
  may be given the handle of another one's invocation.
* **ActionClasses**: the pure rules: the registry of action classes, what silence means
  for each, the effects of an action and the never-trustable rules. No class has an effect
  on files, so of those rules the gate only ever meets registration and spend.
* **TrustGrants** (EXTENDS ActionClasses): grants on a clock `now`; `RenewRead` and
  `RenewCommit` are the two halves of `renew`, `PromptRead` and `ClaimRenewalPrompt` of
  the hourly task. **ApprovalGate** (EXTENDS TrustGrants): the gate up to the row, then
  `GateRaise` and `GateLink`; a human's `Decide` with `MintCreate` and `MintRecord`;
  `RecordUsage` and `SuspendAfterUse`; the two sweeps read by read. **PromotionLadder**
  (EXTENDS ApprovalGate): evidence from approvals and from the decision log, an evaluation
  class by class, a manual demotion, and the suspension of the grants, grant by grant.
* **Authority**: what grants, gate and ladder promise together, with one answer per
  approval and one state per grant. A question is answered once, by a human, by the
  announced meaning of silence, or by a grant in force at that moment; a grant begins with
  an administrator or with an "always" said with an approval, which is good for one grant;
  it ends once, and a renewal ends the grant it carries on and gives no more money.
  ApprovalGate maps its tables to it (`Answers`, `Trust`); charges, expiry times, pages
  and rungs are left out there, so `recordUsage`, the prompts, the backfill and the
  ladder's own steps are stutters of it, and a suspension by the ladder is an `EndTrust`.
* **Escalations**: dispatcher passes load, send and record; nothing keeps them apart,
  since the dispatcher runs outside the lease in a pass the timer does not wait for.
  Receipts, the overdue sweep and subscriptions run against them; a pass may die between
  any two steps.
* **SpendControl**: the tally and the row an admission creates are two steps; a process
  spends, reports once at its end, or is orphaned by a restart.
* **OperatorSettings**: several API processes, each with overlapping refreshes. A refresh
  is two statements and a swap: its `$transaction` has the default isolation, READ
  COMMITTED, so a write may commit between reading the rows and reading the revision. An
  entry may be absent, stored, rejected by its parser, sealed or unreadable, over an
  environment and a default.
* **IssueProjection**: one issue under passes that observe with the lease and write labels
  without it. **DeadTime**: one run, its `lastEventAt`, and a pass that reads the git
  liveness, observes silence and writes intervals one at a time, the open ones in whatever
  order the query returned them.
* **Repositories**, **Steering**: the read and the write of every request are two steps.
* **Supervisor**: a tick and its calls, the gates before and between proposers.
* **GitHubAccess**: conditional reads of one URL that overlap, retry and arrive late.
* **Sums**: the sum of a column as the number of its units, for the two ledgers.
* **RunLifecycleProofs**, **RunRefinement**, **RunSerialProofs** (RunLifecycle),
  **QueueProofs** (WorkOrderQueue), **DelegationProofs** (grants, gate and ladder),
  **PlatformProofs** (settings, repositories, escalations, supervisor, spending, dead
  time, and their sum), **GitHubProofs** (GitHubAccess, Steering, IssueProjection): the
  theorems. **TableFacts**: their common lemmas about tables and sums.
* **MCRunLifecycle**, **MCWorkOrderQueue**, **MCDelegation**, **MCPlatform**: the
  instances TLC checks. MCDelegation composes grants, gate and ladder; MCPlatform sums
  nine parts that share no state.

Events are positions in the runner's stream, which is also the order of `occurredAt`;
a capability, a spend limit or a repository gate that refuses a resume is one
nondeterministic refusal; the runner's deadline, a cancel and a budget stop are all an
`Exit`. Wording, costs and times are left out. RunLifecycle gives each run its own work
order. WorkOrderQueue takes the lease as exclusive and lets the poller's own calls succeed
(RunLifecycle has them fail).

## Runs

| run | instance | shows |
|---|---|---|
| run_fleet | 2 runs, 1 slot, one pass of each kind, 1 fault | `TypeOK`; `StatusIsReported`: succeeded and blocked only on a stored event; `WithinCeiling`: neither rows nor children exceed the ceiling |
| run_passes | 1 run, 2 reconciler and 2 poller passes, 1 fault | `ConcludedIsFinal`; `RowSpec`: the refinement of RunStatus; `RunInv`: the proof's inductive invariant |
| run_liveness | 1 run, 3 attempts, 1 fault, 1 restart, fair | `ExitConcludes`, `NoPhantomRunning`, `OneOpenAttempt` |
| run_events_lost | 1 run, 1 fault | violates `EventsReRequested` |
| run_resume | 1 run, no fault | violates `ResumeReInvokes` |
| queue_serial | 3 issues (one cannot be rebuilt, one may be refused for ever), 1 pass at a time, batch of 2, 1 edit, 1 fault, fair | `QueuedIsServed`, `SettledStays`, `OneAgentPerBranch` |
| queue_overlap | 2 issues, 2 passes, batch of 2, 1 fault | `DispatchedHasRun`, `AgentHasRun`, `RunsPerOrder`: runs of one work order, with stale batches |
| queue_hold | 2 issues, 1 pass at a time, 1 edit | violates `HoldReachesTheRow` |
| queue_agents | 1 issue, 2 passes | violates `OneAgentPerBranch` |
| delegation | 3 grants, 2 approvals, 2 verdicts, 3 ticks, 1 fault, 2 humans, 2 prompt sweeps | `UnattendedAsAnnounced`, `DecisionIsFinal`, `ParkedIsEscalated`, `RetriesDoNotRepage` (gate); `RenewalNeverWidens`, `EndedStaysEnded`, `PromptedOnce`, `OverLimitEnds` (trust); `PromotedOnHumanEvidence` (promotion); `AuthoritySpec`: the refinement of Authority |
| platform | nine parts, see below | `SendsAreBounded`, `EveryEscalationSettles`; `FirstAttemptsWithinCeiling`; `OverlayCoversItsRows`, `ProcessesConverge`; `MirrorsConverge`; `DeadTimeEnds`; `RetiredIsOffTheLadder`; `NothingElseIsReady`, `HalfReleaseStaysHeld`; `SupervisorOvershoot`; `AnswersAreFresh` |
| git_liveness | 1 run, 3 ticks | violates `IntervalsEndAfterTheyBegin` |

Bounds. A race here is between two writers of one row, or two claimants of one slot, so
two passes of a kind and two runs (or issues) are where it shows; one slot makes every
second claimant meet the ceiling; two events before the terminal one are a park and its
wake-up; two attempts are one resume, three a resume of a resume; one fault may hit any
call, and one restart any step. Deadlock is checked in the runs of RunLifecycle and
WorkOrderQueue; the others have bounded inputs and may come to rest.

*queue_serial* starts with every issue labelled ready, at most one held and at most one
refused; the edit may relabel, switch the repository off or on, or change what is refused,
to more than a batch too. *queue_overlap* starts with any labels and refuses nothing but at
the runner's ceiling: a refusal only takes a row out of a batch.

*delegation* explores four scopes, chosen at the start: `grants` (the life of a grant and
its renewals, two humans and two prompt sweeps at once), `granted` (approvals that use a
grant: two charges of one grant may overlap), `parked` (questions no timer answers, with
the backfill) and `ladder` (one class, verdicts from both sources, an evaluation, a manual
demotion and a renewal, and a class nobody registered with verdicts that would promote
it). Each scope explores its own part in full and lets the others take
the steps it depends on. The ladder's rates and sample sizes are small numbers with the
code's order: the promotion rate above the demotion rate, its sample the larger.

*platform* starts in one of nine parts and stays in it: one escalation with two attempts,
two dispatching passes, of which one may die between a send and its record, and a device
that is dropped after a failure; two orders under ceilings that may be malformed, and a
restart; two processes and two keys, one secret, two writes and one outage (the processes
meet only in the table: the first is followed through every interleaving and has the
outage, the other writes at any moment and refreshes in one go; the secret is written
first or not at all); one issue under two passes, five states of its work orders, three
changes by others and one failing call; one run with two intervals and three ticks; four
requests of one operator; two issues, one instruction, one edit and one failing request;
three proposers over two ticks; two overlapping callers with one retry and a change of the
resource. In each the second actor, the failure and the change that the property is about
can meet at every step.

Fairness. `setInterval` keeps firing and an async function that has started goes on
while the process lives, so a pass that can go on does (weak fairness per pass). In
WorkOrderQueue every child ends, because the runner arms a wall-clock deadline for it,
and the poller gets to it. Nothing obliges a child of RunLifecycle to end, a pass to
dispatch or resume, a call to fail, the process to restart or a human to act. In
delegation the five-minute backfill is fair; in platform the dispatcher's passes and the
receipt timeouts, each process's refresh timer, each reconciler pass and the liveness
sweeps are, and nothing else: all are timers that restart with the process. The
convergence properties speak of what holds once the bounded changes are over.

What the code does and its comments do not say (the five violations):

* **run_events_lost**: `poll` splices the events out of the runner; if `ingest` then
  rejects they are gone, the terminal one included, though the log says they "will be
  re-requested next tick" (`run-poller.service.ts:197`). The run is later reported
  stalled.
* **run_resume**: `submit` answers a resume with the handle of the invocation it still
  holds, dead or alive, so an attempt is opened that no process was started for, though
  "each resume is a fresh invocation" (`schema.prisma:741`).
* **queue_hold**: when every ready issue has its work order, `projectWorkOrders` returns
  before `reconcileHold` (`reconciler.service.ts:370`), and the hold on a queued work
  order is never applied; "A hold applied after the work order exists has to reach the
  row" (`work-order-projection.service.ts:265`).
* **queue_agents**: the drain is not under the lease, and `submit` awaits between its
  check and its write of the map, so overlapping passes can start two agents on one
  branch; `submit` is documented as idempotent (`claude-code-local.runner.ts:118`).
* **git_liveness**: a change from parked to silent closes the old interval at the new
  start without `latest` (`dead-time.service.ts:185`), and that start may be the older one:
  `updateRun` compares what git shows with the start of the run and not with `lastEventAt`,
  so an older push moves it back. The interval ends before it began, though "every close
  runs through this so an interval can never end before it began"
  (`dead-time.service.ts:262`) and `lastEventAt` is "only ever moved FORWARD"
  (`git-liveness.service.ts:236`). With the comparison in `updateRun` the property holds on
  the instance of the run, with a longer clock too.

## Proofs

TLAPS checks the theorems below for every value of the constants: any sets of runs,
passes, issues, grants, operators, processes and devices, and any bounds. The assumptions
on constants are the `ASSUME`s of the component modules: bounds are natural numbers,
sentinels (`NoRun`, `NoBody`, `NoOrder`) are not members of the sets they mark the absence
from, the defaults of a grant are terms its validation accepts, the ladder's rates are
percentages (in any order), prices have a dearest one (`maxOutputTokens` caps every
answer), an order's ceiling is positive or null (`repository.dto.ts:70`). TLC evaluates
all of them.

Each theorem rests on an inductive invariant that says what an actor knows between two of
its awaits, since that is where the property by itself is not inductive. Each has one lemma
per action, or per kind of write where many actions write one table.

**RunLifecycle.** `TypeCorrect`, `InvariantHolds`, `StatusReported`, `RowImplemented`
(`Spec => RowSpec`) and `ConclusionsAreFinal`. `StatusIsReported` is not inductive: a row
moves to succeeded in a step that only sees the batch a poller carries. `RunInv` adds what
each actor knows. `EventInv`: pending and stored events are positions of the log.
`BatchInv`: a poller holds events of its run, and once it is past storing they are stored.
`TickInv`: a pass's task fits its program counter. `ResumeInv`: a run that is being resumed
has a stored block, so that putting it back to blocked is still the runner's word.
`DispatchInv` and `StartInv`: a pass that dispatches a run is alone with it, and until the
process starts the run has no event and has not concluded. `AbsentInv`: a run without a row
has no event. The refinement maps `reported` to the kinds of the stored events; that a
refused dispatch may remove its row rests on `StartInv`.

For passes that do not overlap (`OneTick`): `SerialCeiling` (`WithinCeiling`) and
`SerialAttempts` (`OneOpenAttempt`). `CeilingInv` says that a count taken before an await is
still an upper bound when the pass acts on it, because only a pass adds rows and children;
`AttemptInv` that a resume which is about to open an attempt has none open.

**WorkOrderQueue.** With overlapping passes: `DispatchedRunsExist`, `AgentsHaveRuns`,
`QueueIsTyped`. `QueueInv` says that a pass owns the Run row it created until its dispatch
is over, that no two passes own one row, and that a row which may still be deleted has no
child and is not what a dispatched work order relies on. For passes that do not overlap
(`OnePass`): `SerialSettledStays`, `SerialOneAgent`; `SerialInv` adds that the rows a pass
loaded and the rest of its batch are as it read them, and that the one child of a work
order is the one the runner's entry names. `OrdersRunSeldom` (`RunsPerOrder`) is for any
number of overlapping passes, while nobody edits labels or settings. Until a work order is
dispatched or quarantined, each of its Run rows belongs to a pass that is making it or to
a call that failed; the rows and the passes that still carry the work order in a batch are
together no more than the passes and the failed calls. The first of the two gives the
second when a pass reads a batch, for that pass is neither making a row nor carrying one;
and a dispatched work order is read no more.

**Delegation.** `DelegationSpec` runs grants, gate and ladder on one clock with every
interleaving; *delegation* checks four scopes of it. `RenewalsNeverWiden`,
`PromptsAreClaimed`, `EndsAreFinal`, `OverLimitIsEnded` (trust); `DecisionsAreFinal`,
`UnattendedIsAnnounced`, `RetriesAreBounded` (gate); `PromotionNeedsHumans`,
`LadderIsStable` (promotion); `DelegationIsTyped`. The tables are written by many actions,
so the proofs go through `GrantStep` and `ApprovalStep`: what any step may do to a row.
`PagesInv` ties the pages sent for an approval to the gate and the backfill that are still
to send theirs; a verdict of `evaluateAutoRevoke` waits for its suspension and nothing
overwrites it; an evaluation's snapshot of evidence and rungs stays a lower bound of the
human verdicts, which only grow. `LadderIsStable` is a fact about `evaluateLadder` alone,
on any evidence: it needs no order of the thresholds.

`AuthorityImplemented` (`DelegationSpec => AuthoritySpec`): every step of the three
modules is a step of Authority or leaves its view alone. The rows are first read through
the mapping (a step that keeps the mapped fields of a table is a stutter; one appended row
is a beginning or a question, one row that ends is an end or an answer), then every action
is one of these. What the step needs and no type says is `MintedOnce`: the mint that a
human's "always" has pending names an approval which is allowed by a human, and no grant
has come from that approval yet. Without it a mint could begin a second grant of one
answer; it is inductive because the verdict is written by one guarded update, a decided
row never moves, and `MintCreate` is followed by nothing but its own `MintRecord`.
`InstanceIsDelegation` shows that the specification of MCDelegation, with its scopes and
bounds, implies `DelegationSpec`, so the theorems hold of what TLC explores; from it,
`InstanceIsTyped` (`TypeOK`).

**The services.** `OverlaysCoverTheirRows`: the rows were the table's when they were read,
the revision read after them is no earlier, and the history only grows; a refresh that
follows a write starts at that write's revision. `RetiredStaysOff`, for an operator who
waits for each answer (`OneOperator`): what a request has read is still so.
`SendsBounded`, for any number of dispatching passes at once: each send is charged to an
attempt that is recorded, to a pass that is still to record it, or to one that died; so a
pass that loads a row below the cap, with the passes that are recording it or still to
send it, has room for one send each. `OvershootIsBounded`: a tick's calls, and how much of
the ledger its first reading saw. `SpendingIsBounded`, for passes that do not overlap
(`OneDispatcher`): a run started once has one process, whose spending its count covers, at
the order's ceiling until it reports and at its cost afterwards; and the ledger plus what
a pass has been admitted to add is under the highest limit. `ReadsAreFresh`: the resource
is among the bodies it held since the request began, and an answer stands for one of them,
a 200 by its own body, a 304 by the entry sent with it; the cache may hold anything.
`OnlyTheNamedAreReady` and `ReleasesFailClosed`, for any number of operators: the plan of
a request fits what it read, and what differs was changed by somebody else.
`ActionsReachWanted`: the diff of mirror labels turns any set into any other, and is empty
exactly when they are equal, so a second pass over what a first one wrote writes nothing.
`UndisturbedPassIsExact`, the safety half of `MirrorsConverge`: a pass that nothing
disturbs, from any mirror labels, input labels and work orders, leaves exactly the labels
the projection wants; the invariant is that the labels there are, with the writes still
owed, are the labels wanted, and that asking who applied `clear-quarantine` only for a
quarantined work order decides the same as asking always. Each part comes with its type
theorem (`IssuesAreTyped`: a pass has only mirror labels to write, because it decides from
readings that were mirror labels; `DeadTimeIsTyped`: what a pass has planned it took from
the run or the table). `PlatformIsItsParts`: a step of MCPlatform is a step of one part
and leaves the other eight alone, so a behaviour of the sum is one of each part, and what
is proved of a part alone holds of the sum; hence `PlatformIsTyped` (`PlatformTypeOK`).

`OneTick`, `OnePass` and `OneDispatcher` are the usual course of the timer, not something
the code enforces: the lease covers the observation, not the drain. *queue_agents* is what
happens without them. `OneOperator` is needed for the same reason. The type theorems and
all others hold without.

Where the proofs met the model. Two arms of a `CASE` that both hold leave the choice open
in TLA+, though TLC takes the first: the reasons of an automatic revocation, the intent of
an issue, what a run counts at and what follows a proposer are now decided in the code's
order. The ledger's writes were one sequence put together from the open intervals in an
order the query does not ask for; they are now kept by interval, each taken to its end, in
any order. Sums are cardinalities of sets of units, because cardinalities have theorems and
folds have none.

Only model-checked: the liveness properties (`ExitConcludes`, `NoPhantomRunning`,
`QueuedIsServed`, `ParkedIsEscalated`, `EveryEscalationSettles`, `ProcessesConverge`,
`MirrorsConverge`, `DeadTimeEnds`), as fairness is out of the prover's reach. Every
invariant and every action property of a passing run is a theorem, some of them under the
hypotheses named above.

## Known limits

`WithinCeiling`, `OneOpenAttempt`, `SettledStays` are properties of
passes that do not overlap; with overlap the code has no guard for them, and the hazards
list in PROJECT.json says where. A drain under overlap also dispatches rows of its batch
that are held or dispatched by then: "It also cannot dispatch a `held` work order, and that
is structural" (`dispatch-queue.service.ts:38`) is so of the query and not of the batch.
`RunsPerOrder` bounds how often that happens.

`QueuedIsServed` has two premises that the code needs and does not ensure: the work order
is not itself refused, and fewer rows than a batch are. A refused row keeps its place at
the head of the queue (`orderBy: queuedAt`, `take: DISPATCH_BATCH_SIZE`), so as many of them
as a batch holds keep everything behind them waiting for as long as they are refused.

Overlapping dispatchers may send an escalation more often than MAX_DELIVERY_ATTEMPTS: both
load it below the cap and nothing asks again. `SendsAreBounded` counts them. Whether a
failure is logged as the last ("NOTIFICATION ABANDONED") is decided from the loaded row,
against the comment above it (`escalation-dispatcher.service.ts:272`), and is left out as
logging. A process may apply settings that are older than the revision it reports, against
`operator-settings.service.ts:420`; a caller that sends such a revision back as `If-Match`
may overwrite a change it was not shown. The next refresh repairs the copy
(`ProcessesConverge`), and `OverlayCoversItsRows` says which way round it can be. A
suspension of a trust grant that fails is not tried again before the next charge
(`trust-grant.service.ts:507`), which `OverLimitEnds` excepts. A class that nobody
registered is evaluated while the history knows it; a class that leaves the registry while
it is promoted is not modelled, because the registry is constant while the API runs. A
failed resume or dispatch leaves its attempt row open. A second run given the first one's
handle never concludes and keeps its slot.

`FirstAttemptsWithinCeiling` holds for one dispatching pass and runs that are not resumed:
an admission reserves nothing, and a resumed run's second process may spend its order's
ceiling again. `RetiredIsOffTheLadder` holds for an operator who waits for each answer; a
PATCH in flight while the repository is retired writes its rungs back. A parked approval is
paged for twice when the backfill looks before the gate's escalation is stored
(`RetriesDoNotRepage` allows the two). `HalfReleaseStaysHeld` excepts the kill switch
moving between the two writes. `SupervisorOvershoot` allows three calls of a proposer:
`supervisor-spend-gate.ts:177` counts one, and the proposers loop up to
`MAX_PER_INVOCATION`. A tick that dies, or whose log row fails, loses its spend from the
ledger; the models' ledger has the same gap. A late receipt turns an acknowledged
escalation back into a delivered one (`markDelivered`). When `maybeMintGrant` creates the
grant and then fails to record it on the approval, it reports that "nothing runs unattended
as a result of this decision" (`approval-gate.service.ts:740`) while the grant is in force;
the model has the step (`MintRecord`), and no property is about the report.

## Plan

1. *Done*: RunStatus, RunLifecycle, WorkOrderQueue, the proofs about the first two.
2. *Done*: delegation (ActionClasses, TrustGrants, ApprovalGate, PromotionLadder), the
   nine parts of platform, the proof about GitHubAccess.
3. *Done*: proofs of every safety property the passing runs check; the contract of
   delegation (Authority) and its refinement; the composition of the platform's parts.
4. Open: a contract of a work order under passes that do not overlap.
5. Open: the lease's transaction timeout, several repositories in the queue and the batch
   limit in front of the dispatch switch; the ranking of dispatch candidates by quota.

## Not modelled

Request handlers that only read or edit one row (cockpit views, projects, users, allowlist,
tokens, health), telemetry, generated and test-support code. Access control (sessions,
device authorization, tokens) and object storage: state machines of their own, apart from
the factory. The web application, which keeps no state of the factory. The language model's
answers, issue and plan parsing, prompts and comments, which are data here. The run summary
and merge-state sweeps, each one reader and one writer; a summary POST repeated after a
lost answer is listed with the hazards. Signals, grace periods and streams of the child
process supervisor. Pagination and rate-limit snapshots of the GitHub client.
