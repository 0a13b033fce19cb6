---------------------------- MODULE IssueProjection ----------------------------
(***************************************************************************)
(* What a reconciler pass makes of one issue: the intent it projects from  *)
(* the issue's labels and its work orders (reconciler/projection/          *)
(* desired-state.ts), the actions that follow from it (reconciler/diff/    *)
(* diff-engine.ts) and the mirror labels it writes back to GitHub          *)
(* (reconciler/execute/mirror-label.executor.ts).                          *)
(*                                                                         *)
(* Issues do not meet, so there is one.  A pass observes in three reads    *)
(* under the lease and writes after it has let the lease go, so a slow     *)
(* pass may write what a later one has already corrected.  People, agents  *)
(* and the dispatcher change the issue and its rows at any moment.         *)
(***************************************************************************)
EXTENDS Naturals, FiniteSets, FiniteSetsExt

CONSTANTS
  Passes,            \* reconciler passes that may overlap
  LabelSets,         \* the input labels the issue may be given
  OrderStates,       \* the work orders it may have: attempt -> row
  RetryCeiling,      \* dispatch.retryCeiling
  MaxIssueChanges,   \* bound: changes of the issue by others
  MaxLabelFaults     \* bound: GitHub calls that fail

MirrorLabels == {"dispatched", "blocked", "review", "quarantine", "label-ignored"}
RunStates    == {"none", "running", "stalled", "blocked", "succeeded", "failed"}
OrderRows    ==
  [status : {"queued", "dispatched", "superseded", "cancelled", "quarantined"},
   run : RunStates, pullRequest : BOOLEAN, checks : {"passing", "pending", "failing"},
   atCeiling : BOOLEAN]   \* its run's cost has reached the repository's ceiling

ASSUME IssueConstants ==
  /\ {} \in LabelSets /\ <<>> \in OrderStates
  /\ \A L \in LabelSets : L \subseteq {"ready", "hold", "clear-quarantine", "ignored"}
  /\ \A O \in OrderStates : O \in [1..Cardinality(DOMAIN O) -> OrderRows]
  /\ RetryCeiling \in Nat /\ MaxIssueChanges \in Nat /\ MaxLabelFaults \in Nat

VARIABLES
  issue,         \* on GitHub: input labels, who last applied clear-quarantine, mirror labels
  orders,        \* the work order rows of the issue and what CI says of their runs
  repo,          \* dispatchEnabled and mirrorLabelsEnabled
  passes,        \* the passes and what each has read
  issueChanges, labelFaults

issueVars == <<issue, orders, repo, passes, issueChanges, labelFaults>>

NoReading == [step |-> "idle", labels |-> {}, mirrors |-> {}, dispatchEnabled |-> FALSE,
              orders |-> <<>>, todo |-> {}]

IssuesOK ==
  /\ issue.labels \in LabelSets /\ issue.mirrors \subseteq MirrorLabels
  /\ issue.clearedBy \in {"nobody", "human", "bot"}
  /\ orders \in OrderStates
  /\ \A p \in Passes :
       /\ passes[p].step \in {"idle", "listed", "loaded", "acting"}
       /\ passes[p].todo \subseteq {"add", "remove"} \X MirrorLabels
  /\ issueChanges \in 0..MaxIssueChanges /\ labelFaults \in 0..MaxLabelFaults

IssueInit ==
  /\ issue = [labels |-> {}, clearedBy |-> "nobody", mirrors |-> {}]
  /\ orders = <<>>
  /\ repo = [dispatchEnabled |-> TRUE, mirrorLabelsEnabled |-> FALSE]
  /\ passes = [p \in Passes |-> NoReading]
  /\ issueChanges = 0 /\ labelFaults = 0

-----------------------------------------------------------------------------
(* The projection *)

\* groupWorkOrdersByIssue: the highest attempt that is not over, 0 for none.
Newest(os) == Max({0} \cup {n \in DOMAIN os : os[n].status \notin {"superseded", "cancelled"}})

\* The first branch that applies decides.
projectIntent(labels, os, cleared, dispatchEnabled) ==
  LET n == Newest(os)
      has(p(_)) == n # 0 /\ p(os[n])
      quarantined(o) == o.status = "quarantined"
      live(o)        == o.run \in {"running", "stalled"}
      parked(o)      == o.run = "blocked"
      delivered(o)   == o.run = "succeeded" /\ o.pullRequest
      green(o)       == delivered(o) /\ o.checks = "passing"
      undecided(o)   == delivered(o) /\ o.checks = "pending"
      spent(o)       == o.atCeiling
  IN IF "hold" \in labels THEN "hold" ELSE
     CASE has(quarantined) /\ cleared            -> "dispatch"
       [] has(quarantined) /\ ~cleared           -> "quarantined"
       [] has(live) /\ ~has(quarantined)         -> "running"
       [] has(parked) /\ ~has(quarantined)       -> "blocked"
       [] has(green) /\ ~has(quarantined)        -> "review"
       [] has(undecided) /\ ~has(quarantined)    -> "awaiting-checks"
       [] OTHER ->
            IF "ready" \notin labels \/ ~dispatchEnabled THEN "ignore"
            ELSE IF has(spent) \/ (n # 0 /\ n >= RetryCeiling) THEN "quarantined"
            ELSE "dispatch"

MirrorOf(intent) ==
  CASE intent \in {"dispatch", "running"} -> {"dispatched"}
    [] intent = "quarantined"             -> {"quarantine"}
    [] intent \in {"blocked", "review"}   -> {intent}
    [] OTHER                              -> {}

\* reportIgnoredLabels: a mistyped label is reported beside the intent.
desiredMirrorLabels(labels, os, cleared, dispatchEnabled) ==
  MirrorOf(projectIntent(labels, os, cleared, dispatchEnabled))
    \cup (IF "ignored" \in labels THEN {"label-ignored"} ELSE {})

\* A mutant of mirrorLabelActions: what is stale stays.
mirrorLabelActionsAdd(current, wanted) == {"add"} \X (wanted \ current)

mirrorLabelActions(current, wanted) ==
  ({"add"} \X (wanted \ current)) \cup ({"remove"} \X (current \ wanted))

-----------------------------------------------------------------------------
(* A pass *)

Observing == {p \in Passes : passes[p].step \in {"listed", "loaded"}}

listIssues(p) ==
  /\ passes[p].step = "idle" /\ Observing = {}
  /\ passes' = [passes EXCEPT ![p] =
       [@ EXCEPT !.step = "listed", !.labels = issue.labels, !.mirrors = issue.mirrors,
                 !.dispatchEnabled = repo.dispatchEnabled]]
  /\ UNCHANGED <<issue, orders, repo, issueChanges, labelFaults>>

\* loadWorkOrders; checks that cannot be read count as pending (resolveChecks).
loadWorkOrders(p) ==
  /\ passes[p].step = "listed"
  /\ \/ /\ passes' = [passes EXCEPT ![p].step = "loaded", ![p].orders = orders]
        /\ UNCHANGED labelFaults
     \/ /\ labelFaults < MaxLabelFaults /\ labelFaults' = labelFaults + 1
        /\ passes' = [passes EXCEPT ![p].step = "loaded",
             ![p].orders = [n \in DOMAIN orders |-> [orders[n] EXCEPT !.checks = "pending"]]]
  /\ UNCHANGED <<issue, orders, repo, issueChanges>>

\* resolveHumanQuarantineClears asks for the last event of the label, and an
\* answer it cannot get is a no.  The projection and the diff follow without an
\* await; mirror labels are written only where the repository opted in.
Project(p) ==
  LET r == passes[p]
      quarantined == Newest(r.orders) # 0 /\ r.orders[Newest(r.orders)].status = "quarantined"
      asked == quarantined /\ "clear-quarantine" \in r.labels
  IN
  /\ r.step = "loaded"
  /\ \E answered \in BOOLEAN :
       /\ ~answered => asked /\ labelFaults < MaxLabelFaults
       /\ labelFaults' = IF answered THEN labelFaults ELSE labelFaults + 1
       /\ LET cleared == asked /\ answered /\ issue.clearedBy = "human"
              wanted  == desiredMirrorLabels(r.labels, r.orders, cleared, r.dispatchEnabled)
              actions == mirrorLabelActions(r.mirrors, wanted)
          IN passes' = [passes EXCEPT ![p] =
               [NoReading EXCEPT !.step = "acting",
                                 !.todo = IF repo.mirrorLabelsEnabled THEN actions ELSE {}]]
  /\ UNCHANGED <<issue, orders, repo, issueChanges>>

\* Additions first; removing a label that is gone is no error; a write that
\* fails is left to the next pass.
WriteLabel(p, a) ==
  /\ passes[p].step = "acting" /\ a \in passes[p].todo
  /\ a[1] = "remove" => \A b \in passes[p].todo : b[1] = "remove"
  /\ \/ /\ issue' = [issue EXCEPT !.mirrors = IF a[1] = "add" THEN @ \cup {a[2]} ELSE @ \ {a[2]}]
        /\ UNCHANGED labelFaults
     \/ /\ labelFaults < MaxLabelFaults /\ labelFaults' = labelFaults + 1
        /\ UNCHANGED issue
  /\ passes' = [passes EXCEPT ![p].todo = @ \ {a}]
  /\ UNCHANGED <<orders, repo, issueChanges>>

EndPass(p) ==
  /\ passes[p].step = "acting" /\ passes[p].todo = {}
  /\ passes' = [passes EXCEPT ![p] = NoReading]
  /\ UNCHANGED <<issue, orders, repo, issueChanges, labelFaults>>

-----------------------------------------------------------------------------
(* Everybody else *)

Changing == issueChanges < MaxIssueChanges /\ issueChanges' = issueChanges + 1

\* A person or an agent sets the input labels.
Relabel(labels, by) ==
  /\ Changing /\ labels # issue.labels
  /\ issue' = [issue EXCEPT !.labels = labels,
       !.clearedBy = IF "clear-quarantine" \in labels \ issue.labels THEN by ELSE
                     IF "clear-quarantine" \in labels THEN @ ELSE "nobody"]
  /\ UNCHANGED <<orders, repo, passes, labelFaults>>

\* A person adds or removes a mirror label, which is not theirs to set.
MeddleWithMirror(l) ==
  /\ Changing
  /\ issue' = [issue EXCEPT !.mirrors = IF l \in @ THEN @ \ {l} ELSE @ \cup {l}]
  /\ UNCHANGED <<orders, repo, passes, labelFaults>>

\* The dispatcher, the runs and CI move the work orders on.
OrdersMove(os) ==
  /\ Changing /\ os # orders /\ orders' = os
  /\ UNCHANGED <<issue, repo, passes, labelFaults>>

\* An operator changes the repository's switches.
SwitchRepository(f) ==
  /\ Changing /\ repo' = [repo EXCEPT ![f] = ~@]
  /\ UNCHANGED <<issue, orders, passes, labelFaults>>

Pass(p) ==
  \/ listIssues(p) \/ loadWorkOrders(p) \/ Project(p) \/ EndPass(p)
  \/ \E a \in passes[p].todo : WriteLabel(p, a)

IssueNext ==
  \/ \E p \in Passes : Pass(p)
  \/ \E L \in LabelSets, by \in {"human", "bot"} : Relabel(L, by)
  \/ \E l \in {"dispatched", "review"} : MeddleWithMirror(l)
  \/ \E os \in OrderStates : OrdersMove(os)
  \/ \E f \in DOMAIN repo : SwitchRepository(f)

-----------------------------------------------------------------------------
(* Properties *)

HumanCleared == "clear-quarantine" \in issue.labels /\ issue.clearedBy = "human"

\* Once nobody else touches the issue, its mirror labels come to say what the
\* factory makes of it and stay so, whatever slow pass wrote an older picture
\* over a newer one, whichever write or read failed on the way, and whoever
\* meddled with the labels (mirrorLabelActions, MirrorLabelExecutor).
MirrorsConverge ==
  <>[](repo.mirrorLabelsEnabled
       => issue.mirrors = desiredMirrorLabels(issue.labels, orders, HumanCleared,
                                              repo.dispatchEnabled))

=============================================================================
