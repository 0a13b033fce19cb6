--------------------------- MODULE WorkOrderQueue ---------------------------
(***************************************************************************)
(* From a label on a GitHub issue to a run: how a reconciler pass of       *)
(* opifex observes the issues, keeps their work orders (reconciler/        *)
(* reconciler.service.ts, work-orders/work-order-projection.service.ts)    *)
(* and drains the queue of them (dispatch/dispatch-queue.service.ts,       *)
(* dispatch/run-executor.service.ts).                                      *)
(*                                                                         *)
(* Observing and projecting happens under a lease; the drain after it does *)
(* not, and passes are timer callbacks that may overlap (Passes).  An      *)
(* action is what happens between two awaits.  A run is one row of one     *)
(* work order here, "live" while its status occupies a slot of the runner, *)
(* and "ended"; RunLifecycle has its details.  The issues are those of one *)
(* repository, all open and with a body that can be projected.  What       *)
(* dispatchWorkOrder decides on besides the runner's headroom (the fleet,  *)
(* the ceilings and the money spent, the operator's switch) is the set     *)
(* `refused` of the work orders it would leave queued.                     *)
(***************************************************************************)
EXTENDS Integers, Sequences, FiniteSets, SequencesExt

CONSTANTS
  Issues,          \* the issues of the watched repositories
  Passes,          \* reconciler passes that may be in flight together
  NoIssue, NoPass,
  Unbuildable,     \* the issues whose stored row rehydrateWorkOrder refuses
  BatchSize,       \* DISPATCH_BATCH_SIZE
  MaxConcurrency,  \* runners.claudeCodeLocal.maxConcurrency
  MaxRuns,         \* bound: Run rows of one work order
  MaxEdits,        \* bound: edits of labels, settings, fleet and ceilings
  MaxFaults        \* bound: failing database, GitHub or git calls

ASSUME QueueConstants ==
  /\ NoIssue \notin Issues /\ NoPass \notin Passes /\ IsFiniteSet(Passes)
  /\ Unbuildable \subseteq Issues
  /\ BatchSize \in Nat \ {0} /\ MaxConcurrency \in Nat
  /\ MaxRuns \in Nat \ {0} /\ MaxEdits \in Nat /\ MaxFaults \in Nat

VARIABLES
  labels,   \* GitHub: the input labels of an issue
  enabled,  \* Repository.dispatchEnabled
  refused,  \* the work orders no capable or implemented runner, the spend
            \*   gate or the dispatch switch lets through
  wo,       \* WorkOrder.status of the issue's work order, "none" if no row
  queue,    \* the `queued` work orders in the order of queuedAt
  run,      \* the Run rows of a work order, "none" if no row
  entry,    \* the runner's map: the run whose invocation it holds, 0 for none
  handle,   \* the poller's map: the invocation it polls for a run, 0 for none
  agents,   \* the invocations whose child process is alive
  report,   \* the invocations whose terminal event is not polled yet
  lease,    \* the pass that holds the reconciler's advisory lock
  pc,       \* a pass: its program counter,
  seen,     \*   the labels it observed,
  rows,     \*   the work orders it loaded,
  todo,     \*   the issues it has yet to project,
  batch,    \*   the queued rows it has yet to drain,
  allowed,  \*   whether they said dispatchEnabled,
  cur,      \*   the work order it is dispatching and
  num,      \*   the number of the run it dispatches it as
  edits, faults

world    == <<labels, enabled, refused, edits>>
rowVars  == <<wo, queue, run>>
runner   == <<entry, handle, agents, report>>
passVars == <<pc, seen, rows, todo, batch, allowed, cur, num>>
vars == <<world, rowVars, runner, lease, passVars, faults>>

Labels   == {"ready", "hold"}
Statuses == {"none", "queued", "held", "dispatched", "quarantined"}
HOLDABLE_STATUSES == {"queued", "held"}
RunNumbers == 1..MaxRuns
PCs == {"idle", "load", "project", "drain", "next", "create", "records", "submit",
        "provision", "mark", "refused", "recover"}

TypeOK ==
  /\ labels \in [Issues -> SUBSET Labels] /\ enabled \in BOOLEAN
  /\ refused \in SUBSET Issues
  /\ wo \in [Issues -> Statuses]
  /\ queue \in Seq(Issues) /\ IsInjective(queue)
  /\ Range(queue) = {i \in Issues : wo[i] = "queued"}
  /\ run \in [Issues -> [RunNumbers -> {"none", "live", "ended"}]]
  /\ entry \in [Issues -> RunNumbers \cup {0}]
  /\ handle \in [Issues -> [RunNumbers -> RunNumbers \cup {0}]]
  /\ agents \in [Issues -> SUBSET RunNumbers] /\ report \in [Issues -> SUBSET RunNumbers]
  /\ lease \in Passes \cup {NoPass}
  /\ pc \in [Passes -> PCs]
  /\ seen \in [Passes -> [Issues -> SUBSET Labels]]
  /\ rows \in [Passes -> [Issues -> Statuses]]
  /\ todo \in [Passes -> SUBSET Issues]
  /\ batch \in [Passes -> Seq(Issues)] /\ allowed \in [Passes -> BOOLEAN]
  /\ cur \in [Passes -> Issues \cup {NoIssue}]
  /\ num \in [Passes -> RunNumbers \cup {0}]
  /\ edits \in 0..MaxEdits /\ faults \in 0..MaxFaults

Nothing(x) == [i \in Issues |-> x]

Init ==
  /\ labels \in [Issues -> SUBSET Labels] /\ enabled \in BOOLEAN
  /\ refused \in SUBSET Issues
  /\ wo = Nothing("none")
  /\ queue = <<>>
  /\ run = Nothing([k \in RunNumbers |-> "none"])
  /\ entry = Nothing(0)
  /\ handle = Nothing([k \in RunNumbers |-> 0])
  /\ agents = Nothing({}) /\ report = Nothing({})
  /\ lease = NoPass
  /\ pc = [t \in Passes |-> "idle"]
  /\ seen = [t \in Passes |-> Nothing({})]
  /\ rows = [t \in Passes |-> Nothing("none")]
  /\ todo = [t \in Passes |-> {}]
  /\ batch = [t \in Passes |-> <<>>] /\ allowed = [t \in Passes |-> FALSE]
  /\ cur = [t \in Passes |-> NoIssue]
  /\ num = [t \in Passes |-> 0]
  /\ edits = 0 /\ faults = 0

-----------------------------------------------------------------------------
(* Helpers *)

Goes(t, to) == pc' = [pc EXCEPT ![t] = to]

\* A write of WorkOrder.status by id.  `queued` stamps queuedAt anew, so the
\* row joins the queue at its end; any other status leaves the queue.
SetStatus(i, s) ==
  /\ wo' = [wo EXCEPT ![i] = s]
  /\ queue' = LET others == RemoveFirst(queue, i)
              IN IF s = "queued" THEN Append(others, i) ELSE others

\* The rows that occupy the runner, and the children it counts itself.
LiveRows    == {r \in Issues \X RunNumbers : run[r[1]][r[2]] = "live"}
LiveEntries == {i \in Issues : entry[i] \in agents[i]}

\* The drain goes on with the next row of its batch.
RowDone(t) ==
  /\ Goes(t, "next")
  /\ cur' = [cur EXCEPT ![t] = NoIssue]
  /\ num' = [num EXCEPT ![t] = 0]

Fault == faults < MaxFaults /\ faults' = faults + 1

-----------------------------------------------------------------------------
(* Observing and projecting: ReconcilerService.runTick *)

\* The lease is taken and the issues are read.
Observe(t) ==
  /\ pc[t] = "idle" /\ lease = NoPass
  /\ lease' = t
  /\ seen' = [seen EXCEPT ![t] = labels]
  /\ Goes(t, "load")
  /\ UNCHANGED <<world, rowVars, runner, rows, todo, batch, allowed, cur, num, faults>>

\* Another pass has the lease, or the GitHub budget is at its reserve: the
\* tick is skipped, the rest of the pass is not.
SkipObserve(t) ==
  /\ pc[t] = "idle"
  /\ seen' = [seen EXCEPT ![t] = Nothing({})]
  /\ Goes(t, "drain")
  /\ UNCHANGED <<world, rowVars, runner, lease, rows, todo, batch, allowed, cur, num, faults>>

\* loadWorkOrders, and the gate of projectWorkOrders: it returns at once when
\* no ready issue lacks a work order.
NeedsBaseCommit(t, loaded) ==
  \E i \in Issues : "ready" \in seen[t][i] /\ loaded[i] = "none"

LoadWorkOrders(t) ==
  /\ pc[t] = "load"
  /\ rows' = [rows EXCEPT ![t] = wo]
  /\ \/ /\ NeedsBaseCommit(t, wo)
        /\ todo' = [todo EXCEPT ![t] = Issues]
        /\ Goes(t, "project")
        /\ UNCHANGED lease
     \/ /\ ~NeedsBaseCommit(t, wo)
        /\ lease' = NoPass
        /\ Goes(t, "drain")
        /\ UNCHANGED todo
  /\ UNCHANGED <<world, rowVars, runner, seen, batch, allowed, cur, num, faults>>

\* Mutant: any existing work order follows its hold label.
ProjectOneAnyStatus(t, i) ==
  LET held == "hold" \in seen[t][i] IN
  /\ pc[t] = "project" /\ i \in todo[t]
  /\ todo' = [todo EXCEPT ![t] = @ \ {i}]
  /\ IF (rows[t][i] = "none" /\ "ready" \in seen[t][i]) \/ rows[t][i] # "none"
     THEN SetStatus(i, IF held THEN "held" ELSE "queued")
     ELSE UNCHANGED <<wo, queue>>
  /\ UNCHANGED <<world, run, runner, lease, pc, seen, rows, batch, allowed, cur, num, faults>>

\* projectOne, on what the pass loaded.  A new work order starts held or
\* queued (persist loses to a row that is there by now); an existing one is
\* moved between the two by its label, by id.
ProjectOne(t, i) ==
  LET held   == "hold" \in seen[t][i]
      fresh  == rows[t][i] = "none" /\ "ready" \in seen[t][i] /\ wo[i] = "none"
      moved  == rows[t][i] \in HOLDABLE_STATUSES /\ held # (rows[t][i] = "held") IN
  /\ pc[t] = "project" /\ i \in todo[t]
  /\ todo' = [todo EXCEPT ![t] = @ \ {i}]
  /\ \/ fresh /\ SetStatus(i, IF held THEN "held" ELSE "queued")
     \/ moved /\ SetStatus(i, IF held THEN "held" ELSE "queued")
     \/ ~fresh /\ ~moved /\ UNCHANGED <<wo, queue>>
  /\ UNCHANGED <<world, run, runner, lease, pc, seen, rows, batch, allowed, cur, num, faults>>

\* The sweep is over: the lease is released.
EndProjection(t) ==
  /\ pc[t] = "project" /\ todo[t] = {}
  /\ lease' = NoPass
  /\ Goes(t, "drain")
  /\ UNCHANGED <<world, rowVars, runner, seen, rows, todo, batch, allowed, cur, num, faults>>

\* A call under the lease fails: one issue is passed over, or (the load, the
\* repository's HEAD) the sweep of the repository ends.
ObserveFault(t) ==
  /\ Fault
  /\ \/ /\ pc[t] = "project"
        /\ \E i \in todo[t] : todo' = [todo EXCEPT ![t] = @ \ {i}]
        /\ UNCHANGED <<pc, lease>>
     \/ /\ pc[t] = "load" \/ (pc[t] = "project" /\ todo[t] = Issues)
        /\ todo' = [todo EXCEPT ![t] = {}]
        /\ lease' = NoPass
        /\ Goes(t, "drain")
  /\ UNCHANGED <<world, rowVars, runner, seen, rows, batch, allowed, cur, num>>

-----------------------------------------------------------------------------
(* Draining: DispatchQueueService.drain and dispatchWorkOrder *)

\* The oldest queued rows, read once, with their repository's switch.
Drain(t) ==
  /\ pc[t] = "drain"
  /\ batch' = [batch EXCEPT ![t] = SubSeq(queue, 1, Min({BatchSize, Len(queue)}))]
  /\ allowed' = [allowed EXCEPT ![t] = enabled]
  /\ Goes(t, "next")
  /\ UNCHANGED <<world, rowVars, runner, lease, seen, rows, todo, cur, num, faults>>

\* The four outcomes of dispatchOne before a Run row exists.
PassedOver(t) == ~allowed[t] /\ UNCHANGED <<wo, queue, pc, cur>>
Quarantine(t, i) ==
  /\ allowed[t] /\ i \in Unbuildable
  /\ SetStatus(i, "quarantined")
  /\ UNCHANGED <<pc, cur>>
Admitted(t, i) ==
  /\ allowed[t] /\ i \notin Unbuildable \cup refused
  /\ Cardinality(LiveRows) < MaxConcurrency
  /\ Goes(t, "create")
  /\ cur' = [cur EXCEPT ![t] = i]
  /\ UNCHANGED <<wo, queue>>
StaysQueued(t, i) ==
  /\ allowed[t] /\ i \notin Unbuildable
  /\ i \in refused \/ Cardinality(LiveRows) >= MaxConcurrency
  /\ UNCHANGED <<wo, queue, pc, cur>>

\* Mutant: a refused row ends the drain.
DispatchOneStops(t) ==
  LET i == Head(batch[t]) IN
  /\ pc[t] = "next" /\ batch[t] # <<>>
  /\ \/ /\ PassedOver(t) \/ Quarantine(t, i) \/ Admitted(t, i)
        /\ batch' = [batch EXCEPT ![t] = Tail(@)]
     \/ StaysQueued(t, i) /\ batch' = [batch EXCEPT ![t] = <<>>]
  /\ UNCHANGED <<world, run, runner, lease, seen, rows, todo, allowed, num, faults>>

\* dispatchOne up to the outcome of the three gates, for the next row of the batch.
DispatchOne(t) ==
  LET i == Head(batch[t]) IN
  /\ pc[t] = "next" /\ batch[t] # <<>>
  /\ batch' = [batch EXCEPT ![t] = Tail(@)]
  /\ PassedOver(t) \/ Quarantine(t, i) \/ Admitted(t, i) \/ StaysQueued(t, i)
  /\ UNCHANGED <<world, run, runner, lease, seen, rows, todo, allowed, num, faults>>

EndPass(t) ==
  /\ pc[t] = "next" /\ batch[t] = <<>>
  /\ Goes(t, "idle")
  /\ UNCHANGED <<world, rowVars, runner, lease, seen, rows, todo, batch, allowed, cur, num, faults>>

\* run.create, under a number the work order has no row for.
CreateRun(t) ==
  LET i == cur[t] IN
  /\ pc[t] = "create"
  /\ \E k \in RunNumbers :
       /\ run[i][k] = "none" /\ \A j \in 1..(k - 1) : run[i][j] # "none"
       /\ run' = [run EXCEPT ![i][k] = "live"]
       /\ num' = [num EXCEPT ![t] = k]
  /\ Goes(t, "records")
  /\ UNCHANGED <<world, wo, queue, runner, lease, seen, rows, todo, batch, allowed, cur, faults>>

\* Mutant: the work order is marked before the runner has accepted it.
WriteRecordsMarks(t) ==
  /\ pc[t] = "records"
  /\ SetStatus(cur[t], "dispatched")
  /\ Goes(t, "submit")
  /\ UNCHANGED <<world, run, runner, lease, seen, rows, todo, batch, allowed, cur, num, faults>>

WriteRecords(t) ==
  /\ pc[t] = "records"
  /\ Goes(t, "submit")
  /\ UNCHANGED <<world, rowVars, runner, lease, seen, rows, todo, batch, allowed, cur, num, faults>>

\* Mutant: an invocation is reaped by its age, ended or not.
SubmitReapsAlive(t) ==
  LET i == cur[t] IN
  /\ pc[t] = "submit"
  /\ entry' = [entry EXCEPT ![i] = 0]
  /\ Goes(t, IF Cardinality(LiveEntries \ {i}) >= MaxConcurrency THEN "refused" ELSE "provision")
  /\ UNCHANGED <<world, rowVars, handle, agents, report, lease, seen, rows, todo, batch, allowed,
                 cur, num, faults>>

\* submit up to its await: an ended and drained invocation may be reaped first;
\* one the runner still holds for this identity is returned, and tracked for
\* this run; otherwise the ceiling decides.
Submit(t) ==
  LET i == cur[t]
      reapable == entry[i] # 0 /\ entry[i] \notin agents[i] \cup report[i] IN
  /\ pc[t] = "submit"
  /\ \E kept \in {entry[i]} \cup (IF reapable THEN {0} ELSE {}) :
       /\ entry' = [entry EXCEPT ![i] = kept]
       /\ \/ /\ kept # 0
             /\ handle' = [handle EXCEPT ![i][num[t]] = kept]
             /\ Goes(t, "mark")
          \/ /\ kept = 0
             /\ Goes(t, IF Cardinality(LiveEntries) >= MaxConcurrency
                        THEN "refused" ELSE "provision")
             /\ UNCHANGED handle
  /\ UNCHANGED <<world, rowVars, agents, report, lease, seen, rows, todo, batch, allowed,
                 cur, num, faults>>

\* submit after `await provision`: the child starts, its entry replaces any
\* other of the identity, and the executor tracks the handle.
Provision(t) ==
  LET i == cur[t]
      k == num[t] IN
  /\ pc[t] = "provision"
  /\ entry' = [entry EXCEPT ![i] = k]
  /\ agents' = [agents EXCEPT ![i] = @ \cup {k}]
  /\ handle' = [handle EXCEPT ![i][k] = k]
  /\ Goes(t, "mark")
  /\ UNCHANGED <<world, rowVars, report, lease, seen, rows, todo, batch, allowed, cur, num, faults>>

\* Mutant: the status of the run, written to the work order.
MarkDispatchedRunning(t) ==
  /\ pc[t] = "mark"
  /\ SetStatus(cur[t], "running")
  /\ RowDone(t)
  /\ UNCHANGED <<world, run, runner, lease, seen, rows, todo, batch, allowed, faults>>

\* workOrder.update to `dispatched`, by id.
MarkDispatched(t) ==
  /\ pc[t] = "mark"
  /\ SetStatus(cur[t], "dispatched")
  /\ RowDone(t)
  /\ UNCHANGED <<world, run, runner, lease, seen, rows, todo, batch, allowed, faults>>

\* Mutant: the row is deleted whatever the error was.
RecoverDeletes(t) ==
  LET i == cur[t] IN
  /\ pc[t] \in {"refused", "recover"}
  /\ run' = [run EXCEPT ![i][num[t]] = "none"]
  /\ RowDone(t)
  /\ UNCHANGED <<world, wo, queue, runner, lease, seen, rows, todo, batch, allowed, faults>>

\* Mutant: a refusal at capacity is recovered like any other failure.
RecoverKeepsRow(t) ==
  LET i == cur[t] IN
  /\ pc[t] \in {"refused", "recover"}
  /\ run' = [run EXCEPT ![i][num[t]] = "ended"]
  /\ RowDone(t)
  /\ UNCHANGED <<world, wo, queue, runner, lease, seen, rows, todo, batch, allowed, faults>>

\* recover: at capacity the Run row is deleted, otherwise it fails if it still
\* says `running` (a scan for lost handles may have called it stalled).  The
\* work order stays queued.
Recover(t) ==
  LET i == cur[t] IN
  /\ \/ pc[t] = "refused" /\ run' = [run EXCEPT ![i][num[t]] = "none"]
     \/ pc[t] = "recover" /\ run' = [run EXCEPT ![i][num[t]] = "ended"]
     \/ pc[t] = "recover" /\ UNCHANGED run
  /\ RowDone(t)
  /\ UNCHANGED <<world, wo, queue, runner, lease, seen, rows, todo, batch, allowed, faults>>

\* A call fails: before the Run row exists the drain goes on with the next row,
\* after that the executor recovers; recover's own failing call leaves the row.
DispatchFault(t) ==
  /\ Fault
  /\ \/ /\ pc[t] = "next" /\ batch[t] # <<>> /\ allowed[t]
        /\ batch' = [batch EXCEPT ![t] = Tail(@)]
        /\ UNCHANGED <<pc, cur, num>>
     \/ pc[t] \in {"create", "refused", "recover"} /\ RowDone(t) /\ UNCHANGED batch
     \/ /\ pc[t] \in {"records", "provision", "mark"}
        /\ Goes(t, "recover")
        /\ UNCHANGED <<cur, num, batch>>
  /\ UNCHANGED <<world, rowVars, runner, lease, seen, rows, todo, allowed>>

-----------------------------------------------------------------------------
(* The children, the poller and the humans *)

AgentEnds(i, k) ==
  /\ k \in agents[i]
  /\ agents' = [agents EXCEPT ![i] = @ \ {k}]
  /\ report' = [report EXCEPT ![i] = @ \cup {k}]
  /\ UNCHANGED <<world, rowVars, entry, handle, lease, passVars, faults>>

\* pollOne for run k, when what it polls has ended: it takes the terminal event
\* of the invocation and polls it no more.  The event names the run it was
\* submitted for, and ingest rejects it for any other.
PollEnded(i, k) ==
  LET h == handle[i][k] IN
  /\ h # 0 /\ entry[i] = h /\ h \notin agents[i]
  /\ handle' = [handle EXCEPT ![i][k] = 0]
  /\ report' = [report EXCEPT ![i] = @ \ {h}]
  /\ run' = [run EXCEPT ![i][k] = IF h = k /\ k \in report[i] /\ @ = "live" THEN "ended" ELSE @]
  /\ UNCHANGED <<world, wo, queue, entry, agents, lease, passVars, faults>>

\* pollOne for run k, when the runner holds another invocation or none.
PollUnknown(i, k) ==
  /\ handle[i][k] \notin {0, entry[i]}
  /\ handle' = [handle EXCEPT ![i][k] = 0]
  /\ UNCHANGED <<world, rowVars, entry, agents, report, lease, passVars, faults>>

Edit == edits < MaxEdits /\ edits' = edits + 1

EditLabel(i, l) ==
  /\ Edit
  /\ labels' = [labels EXCEPT ![i] = IF l \in @ THEN @ \ {l} ELSE @ \cup {l}]
  /\ UNCHANGED <<enabled, refused, rowVars, runner, lease, passVars, faults>>

\* PATCH of the repository.
SwitchDispatch ==
  /\ Edit
  /\ enabled' = ~enabled
  /\ UNCHANGED <<labels, refused, rowVars, runner, lease, passVars, faults>>

\* A runner is registered or goes, money is spent or falls out of the window, a
\* ceiling or the dispatch switch is set: other work orders are refused now.
GatesChange ==
  /\ Edit
  /\ refused' \in SUBSET Issues
  /\ UNCHANGED <<labels, enabled, rowVars, runner, lease, passVars, faults>>

-----------------------------------------------------------------------------

PollRun(i, k) == PollEnded(i, k) \/ PollUnknown(i, k)

PassWorks(t) ==
  \/ Observe(t) \/ SkipObserve(t) \/ LoadWorkOrders(t) \/ EndProjection(t)
  \/ \E i \in Issues : ProjectOne(t, i)
  \/ Drain(t) \/ DispatchOne(t) \/ EndPass(t)
  \/ CreateRun(t) \/ WriteRecords(t) \/ Submit(t) \/ Provision(t) \/ MarkDispatched(t)
  \/ Recover(t)

Next ==
  \/ \E t \in Passes : PassWorks(t) \/ ObserveFault(t) \/ DispatchFault(t)
  \/ \E i \in Issues, k \in RunNumbers : AgentEnds(i, k) \/ PollRun(i, k)
  \/ \E i \in Issues, l \in Labels : EditLabel(i, l)
  \/ SwitchDispatch \/ GatesChange

\* The timers of the reconciler and of the poller keep firing and a pass goes
\* on to its end; every child ends, if only at its wall-clock deadline.
Fairness ==
  /\ \A t \in Passes : WF_vars(PassWorks(t))
  /\ \A i \in Issues, k \in RunNumbers : WF_vars(AgentEnds(i, k)) /\ WF_vars(PollRun(i, k))

Spec == Init /\ [][Next]_vars
FairSpec == Spec /\ Fairness

-----------------------------------------------------------------------------
(* Properties *)

\* The Run rows of a work order, at any moment, are at most one per pass that
\* may be in flight and one per failed call, while nobody edits labels or
\* settings: a pass that drains an old batch may dispatch a work order that is
\* dispatched by now, but no pass and no retry does so again and again.
RunsOf(i) == {k \in RunNumbers : run[i][k] # "none"}
RunsPerOrder ==
  edits = 0 => \A i \in Issues : Cardinality(RunsOf(i)) <= Cardinality(Passes) + faults

\* A work order leaves `dispatched` and `quarantined` never (HOLDABLE_STATUSES:
\* "nothing else is touched"; VISION 8: it cannot clear its own quarantine).
SettledStays ==
  [][\A i \in Issues : wo[i] \in {"dispatched", "quarantined"} => wo'[i] = wo[i]]_vars

\* A work order that says `dispatched` has a run, through refusals that delete
\* the row, failures that leave it queued and retries.
DispatchedHasRun ==
  \A i \in Issues : wo[i] = "dispatched" => \E k \in RunNumbers : run[i][k] # "none"

\* A child that is alive has a Run row, even when its dispatch was recovered
\* after the child had started, so that it can be found and cancelled.
AgentHasRun ==
  \A i \in Issues : \A k \in agents[i] : run[i][k] # "none"

\* While the repository is released, no call fails and the gates would let it
\* through, a queued work order is taken off the queue: dispatched, held or
\* quarantined.  Rows ahead of it that cannot be rebuilt, wait for headroom or
\* are refused do not keep it there, as long as the refused ones are fewer than
\* a batch: the batch is read before its rows are judged.
QueuedIsServed ==
  \A i \in Issues :
    (wo[i] = "queued") ~>
      \/ wo[i] # "queued" \/ ~enabled \/ faults > 0
      \/ i \in refused \/ Cardinality(refused) >= BatchSize

\* claude-code-local.runner.ts:118, of submit: "re-submitting an identity that
\* is already running returns the existing handle rather than starting a second
\* agent on the same branch".
OneAgentPerBranch == \A i \in Issues : Cardinality(agents[i]) <= 1

-----------------------------------------------------------------------------
(* What a comment of the code says, and the code does not do *)

\* work-order-projection.service.ts:265: "A hold applied after the work order
\* exists has to reach the row, or the label would be a suggestion".  So a pass
\* that saw the hold does not itself go on to dispatch the work order.
HoldReachesTheRow ==
  \A t \in Passes : cur[t] # NoIssue => "hold" \notin seen[t][cur[t]]
=============================================================================
