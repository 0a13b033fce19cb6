----------------------------- MODULE Escalations -----------------------------
(***************************************************************************)
(* Escalations and their delivery (escalations/escalations.service.ts,     *)
(* notifications/escalation-dispatcher.service.ts, push-subscriptions.     *)
(* service.ts): what is wrong is recorded once, sent until a device shows  *)
(* it or the attempts run out, and closed by a human or by recovery.       *)
(*                                                                         *)
(* A dispatcher is the tail of a reconciler pass.  It is under no lease    *)
(* and the timer does not wait for it, so dispatchers may overlap; device  *)
(* receipts, acknowledgements and subscriptions are requests that come at  *)
(* any moment.  A receipt id is the escalation and the number of the send. *)
(***************************************************************************)
EXTENDS Integers, Sequences, FiniteSets

CONSTANTS
  Subjects,                  \* what can be wrong: a run and a kind, or a summary
  Devices,                   \* push endpoints
  DispatchPasses,            \* passes that may be dispatching together
  MAX_DELIVERY_ATTEMPTS,
  MAX_CONSECUTIVE_FAILURES,
  DispatchTake,              \* the batch of loadPending
  MaxEscalations,            \* bound: escalations ever raised
  MaxDispatchFaults          \* bound: passes that fail half way

ASSUME EscalationConstants ==
  /\ MAX_DELIVERY_ATTEMPTS \in Nat \ {0} /\ MAX_CONSECUTIVE_FAILURES \in Nat \ {0}
  /\ DispatchTake \in Nat \ {0} /\ MaxEscalations \in Nat
  /\ MaxDispatchFaults \in Nat
  /\ IsFiniteSet(DispatchPasses) /\ DispatchPasses # {}

VARIABLES
  escalations,    \* the Escalation rows
  sends,          \* observed: how often each was handed to the transports
  shown,          \* the receipts devices hold that may still confirm something
  receipts,       \* receipts that were looked up and not yet written
  dispatcher,     \* what each dispatching pass is at
  subscriptions,  \* failureCount of a device, NotSubscribed if it has no row
  dispatchFaults

escalationVars == <<escalations, sends, shown, receipts, dispatcher, subscriptions,
                    dispatchFaults>>

EscalationIds == 1..MaxEscalations
UNRESOLVED    == {"raised", "dispatched", "delivered", "failed"}
NotSubscribed == MAX_CONSECUTIVE_FAILURES + 1
Transports    == {"webpush", "webhook", "none"}
NotDispatching == [step |-> "idle", todo |-> {}, id |-> 0, number |-> 0, accepted |-> "none"]

EscalationsOK ==
  /\ Len(escalations) <= MaxEscalations
  /\ \A i \in DOMAIN escalations :
       /\ escalations[i].subject \in Subjects
       /\ escalations[i].status \in UNRESOLVED \cup {"acknowledged", "resolved"}
       /\ escalations[i].receipt \in 0..sends[i]
  /\ sends \in [EscalationIds -> Nat]
  /\ shown \subseteq EscalationIds \X Nat /\ receipts \subseteq EscalationIds \X Nat
  /\ DOMAIN dispatcher = DispatchPasses
  /\ \A p \in DispatchPasses :
       /\ dispatcher[p].step \in {"idle", "deliver", "write", "fail"}
       /\ dispatcher[p].todo \subseteq EscalationIds
       /\ dispatcher[p].accepted \in Transports
  /\ subscriptions \in [Devices -> 0..NotSubscribed]
  /\ dispatchFaults \in 0..MaxDispatchFaults

EscalationInit ==
  /\ escalations = <<>>
  /\ sends = [i \in EscalationIds |-> 0]
  /\ shown = {} /\ receipts = {}
  /\ dispatcher = [p \in DispatchPasses |-> NotDispatching]
  /\ subscriptions = [d \in Devices |-> NotSubscribed]
  /\ dispatchFaults = 0

-----------------------------------------------------------------------------
(* Raising and closing *)

Unresolved(s) == {i \in DOMAIN escalations : /\ escalations[i].subject = s
                                             /\ escalations[i].status \in UNRESOLVED}

\* raiseFrom and raiseSystemOnce: one unresolved escalation per subject.
RaiseFrom(s) ==
  /\ Unresolved(s) = {} /\ Len(escalations) < MaxEscalations
  /\ escalations' = Append(escalations,
       [subject |-> s, status |-> "raised", attempts |-> 0, receipt |-> 0, overdue |-> FALSE,
        deliveredAt |-> FALSE, acknowledgedAt |-> FALSE])
  /\ UNCHANGED <<sends, shown, receipts, dispatcher, subscriptions, dispatchFaults>>

\* resolveStale and resolveSystem: the condition cleared.
ResolveStale(s) ==
  /\ Unresolved(s) # {}
  /\ escalations' = [i \in DOMAIN escalations |->
       IF i \in Unresolved(s)
       THEN [escalations[i] EXCEPT !.status = "resolved", !.overdue = FALSE]
       ELSE escalations[i]]
  /\ UNCHANGED <<sends, shown, receipts, dispatcher, subscriptions, dispatchFaults>>

\* The first acknowledgement stands.
Acknowledge(i) ==
  /\ ~escalations[i].acknowledgedAt
  /\ escalations' = [escalations EXCEPT ![i].status = "acknowledged",
                                        ![i].acknowledgedAt = TRUE, ![i].overdue = FALSE]
  /\ UNCHANGED <<sends, shown, receipts, dispatcher, subscriptions, dispatchFaults>>

-----------------------------------------------------------------------------
(* Dispatching: loadPending, then deliver for each, then sweepOverdue.  Every *)
(* write is by id, whatever became of the row since it was read.              *)

PendingRaised == {i \in DOMAIN escalations : /\ escalations[i].status = "raised"
                                             /\ escalations[i].attempts < MAX_DELIVERY_ATTEMPTS}

PendingUncapped == {i \in DOMAIN escalations : escalations[i].status \in {"raised", "failed"}}

Pending == {i \in DOMAIN escalations : /\ escalations[i].status \in {"raised", "failed"}
                                       /\ escalations[i].attempts < MAX_DELIVERY_ATTEMPTS}

Oldest(S) == CHOOSE i \in S : \A j \in S : i <= j

LoadPending(p) ==
  /\ dispatcher[p].step = "idle"
  /\ dispatcher' = [dispatcher EXCEPT ![p] = [NotDispatching EXCEPT !.step = "deliver", !.todo =
       {i \in Pending : Cardinality({j \in Pending : j < i}) < DispatchTake}]]
  /\ UNCHANGED <<escalations, sends, shown, receipts, subscriptions, dispatchFaults>>

targets == {d \in Devices : subscriptions[d] < MAX_CONSECUTIVE_FAILURES}

\* recordSuccess, and recordFailure for a device that failed or is gone.
RecordOutcomes(ok, gone) ==
  subscriptions' = [d \in Devices |->
    CASE d \in ok -> 0
      [] d \in gone -> NotSubscribed
      [] d \in targets \ (ok \cup gone) -> subscriptions[d] + 1
      [] OTHER -> subscriptions[d]]

\* deliver, up to its update: every target is tried, then the webhook.  Only
\* a device can send a receipt; the webhook's message carries none.
Send(p, ok, gone, webhook) ==
  LET i == Oldest(dispatcher[p].todo) IN
  /\ dispatcher[p].step = "deliver" /\ dispatcher[p].todo # {}
  /\ ok \cup gone \subseteq targets /\ ok \cap gone = {}
  /\ RecordOutcomes(ok, gone)
  /\ sends' = [sends EXCEPT ![i] = @ + 1]
  /\ shown' = IF ok = {} \/ escalations[i].deliveredAt THEN shown
              ELSE shown \cup {<<i, sends[i] + 1>>}
  /\ dispatcher' = [dispatcher EXCEPT
       ![p].step = "write", ![p].id = i, ![p].number = sends[i] + 1, ![p].todo = @ \ {i},
       ![p].accepted = IF ok # {} THEN "webpush" ELSE IF webhook THEN "webhook" ELSE "none"]
  /\ UNCHANGED <<escalations, receipts, dispatchFaults>>

\* The receipts of i that may still be known: that of its row, and those of the
\* passes that have sent it and not yet recorded so.
Recording(i) == {p \in DispatchPasses : dispatcher[p].step = "write" /\ dispatcher[p].id = i}

\* The update: dispatched, and the receipt that will confirm it, which makes
\* the earlier ones unknown; or failed.
RecordSend(p) ==
  LET i == dispatcher[p].id
      n == dispatcher[p].number
      e == escalations[i] IN
  /\ dispatcher[p].step = "write"
  /\ escalations' = [escalations EXCEPT ![i] =
       IF dispatcher[p].accepted = "none"
         THEN [e EXCEPT !.status = "failed", !.attempts = e.attempts + 1]
         ELSE [e EXCEPT !.status = "dispatched", !.attempts = e.attempts + 1,
                        !.receipt = n, !.overdue = FALSE]]
  /\ shown' = IF dispatcher[p].accepted = "none" THEN shown
              ELSE {r \in shown : r[1] = i => \E q \in Recording(i) : r[2] = dispatcher[q].number}
  /\ dispatcher' = [dispatcher EXCEPT
       ![p].step = "deliver", ![p].id = 0, ![p].number = 0, ![p].accepted = "none"]
  /\ UNCHANGED <<sends, receipts, subscriptions, dispatchFaults>>

\* notifications.receiptTimeoutMs passes.
ReceiptTimeout(i) ==
  /\ escalations[i].status = "dispatched" /\ ~escalations[i].overdue
  /\ escalations' = [escalations EXCEPT ![i].overdue = TRUE]
  /\ UNCHANGED <<sends, shown, receipts, dispatcher, subscriptions, dispatchFaults>>

Overdue == {i \in DOMAIN escalations : /\ escalations[i].status = "dispatched"
                                       /\ ~escalations[i].deliveredAt
                                       /\ escalations[i].overdue}

OverdueRead(p) ==
  /\ dispatcher[p].step = "deliver" /\ dispatcher[p].todo = {}
  /\ dispatcher' = [dispatcher EXCEPT ![p] =
       IF Overdue = {} THEN NotDispatching
                       ELSE [NotDispatching EXCEPT !.step = "fail", !.todo = Overdue]]
  /\ UNCHANGED <<escalations, sends, shown, receipts, subscriptions, dispatchFaults>>

SweepOverdue(p) ==
  LET i == Oldest(dispatcher[p].todo) IN
  /\ dispatcher[p].step = "fail"
  /\ escalations' = [escalations EXCEPT ![i].status = "failed", ![i].overdue = FALSE]
  /\ dispatcher' = [dispatcher EXCEPT ![p] =
       IF dispatcher[p].todo = {i}
       THEN NotDispatching ELSE [dispatcher[p] EXCEPT !.todo = @ \ {i}]]
  /\ UNCHANGED <<sends, shown, receipts, subscriptions, dispatchFaults>>

\* A pass fails at any of its calls; the next tick starts over.
DispatchFails(p) ==
  /\ dispatcher[p].step # "idle" /\ dispatchFaults < MaxDispatchFaults
  /\ dispatcher' = [dispatcher EXCEPT ![p] = NotDispatching]
  /\ dispatchFaults' = dispatchFaults + 1
  /\ UNCHANGED <<escalations, sends, shown, receipts, subscriptions>>

-----------------------------------------------------------------------------
(* Devices *)

\* recordReceipt: the receipt of the last recorded send; any other is a 404.
RecordReceipt(r) ==
  /\ r \in shown /\ r \notin receipts
  /\ escalations[r[1]].receipt = r[2] /\ ~escalations[r[1]].deliveredAt
  /\ receipts' = receipts \cup {r}
  /\ UNCHANGED <<escalations, sends, shown, dispatcher, subscriptions, dispatchFaults>>

\* markDelivered.
MarkDelivered(r) ==
  LET e == escalations[r[1]] IN
  /\ r \in receipts
  /\ receipts' = receipts \ {r}
  /\ escalations' = IF e.deliveredAt THEN escalations
       ELSE [escalations EXCEPT ![r[1]] =
              [e EXCEPT !.status = "delivered", !.deliveredAt = TRUE, !.receipt = r[2],
                        !.attempts = e.attempts + 1, !.overdue = FALSE]]
  /\ shown' = {q \in shown : q[1] # r[1]}
  /\ UNCHANGED <<sends, dispatcher, subscriptions, dispatchFaults>>

\* A device that subscribes again starts with no failures.
Subscribe(d) ==
  /\ subscriptions[d] # 0
  /\ subscriptions' = [subscriptions EXCEPT ![d] = 0]
  /\ UNCHANGED <<escalations, sends, shown, receipts, dispatcher, dispatchFaults>>

Unsubscribe(d) ==
  /\ subscriptions[d] # NotSubscribed
  /\ subscriptions' = [subscriptions EXCEPT ![d] = NotSubscribed]
  /\ UNCHANGED <<escalations, sends, shown, receipts, dispatcher, dispatchFaults>>

Dispatch(p) ==
  \/ LoadPending(p) \/ RecordSend(p) \/ OverdueRead(p) \/ SweepOverdue(p)
  \/ \E ok, gone \in SUBSET Devices, webhook \in BOOLEAN : Send(p, ok, gone, webhook)

EscalationNext ==
  \/ \E s \in Subjects : RaiseFrom(s) \/ ResolveStale(s)
  \/ \E i \in DOMAIN escalations : Acknowledge(i) \/ ReceiptTimeout(i)
  \/ \E p \in DispatchPasses : Dispatch(p) \/ DispatchFails(p)
  \/ \E r \in shown \cup receipts : RecordReceipt(r) \/ MarkDelivered(r)
  \/ \E d \in Devices : Subscribe(d) \/ Unsubscribe(d)

-----------------------------------------------------------------------------
(* Properties *)

\* Nobody is paged for ever about one thing: an escalation is handed to the
\* transports at most MAX_DELIVERY_ATTEMPTS times, plus once for every other
\* pass that had loaded it before the last attempt was recorded and once for
\* every pass that died before it could record the send, whatever mix of
\* refusals, silent devices and late receipts it meets.
SendsAreBounded ==
  \A i \in EscalationIds :
    sends[i] <= MAX_DELIVERY_ATTEMPTS + (Cardinality(DispatchPasses) - 1) + dispatchFaults

\* Nothing that is wrong ends up looking handled when nobody was told: every
\* escalation is shown by a device, acknowledged, resolved, or ends as failed
\* after the last attempt.
Settled(i) ==
  \/ escalations[i].deliveredAt \/ escalations[i].acknowledgedAt
  \/ escalations[i].status = "resolved"
  \/ escalations[i].status = "failed" /\ escalations[i].attempts >= MAX_DELIVERY_ATTEMPTS

EveryEscalationSettles ==
  \A i \in EscalationIds :
    (i \in DOMAIN escalations) ~> (i \in DOMAIN escalations /\ Settled(i))

=============================================================================
