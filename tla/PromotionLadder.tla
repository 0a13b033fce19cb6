--------------------------- MODULE PromotionLadder ---------------------------
(***************************************************************************)
(* The promotion ladder (promotion/promotion-policy.ts, promotion.service. *)
(* ts and its hourly task): how far a class is trusted follows from what   *)
(* humans decided about it, in the review queue (supervisor/decision-log)  *)
(* and at the approval gate.                                               *)
(*                                                                         *)
(* A job is one evaluation by the timer, which goes over all classes, or   *)
(* one demotion by an operator.  It reads the evidence, reads the rungs,   *)
(* writes a rung, and after a demotion suspends the grants of the class    *)
(* one by one.  Rates are in percent.  Who is notified is left out.        *)
(***************************************************************************)
EXTENDS ApprovalGate

CONSTANTS
  Timers, Operators,   \* evaluations and manual demotions that may overlap
  MIN_SAMPLE, PROMOTION_RATE, DEMOTION_RATE, DEMOTION_MIN_SAMPLE,
  RegressionWindow,    \* REGRESSION_WINDOW_DAYS
  ManualHold,          \* MANUAL_HOLD_DAYS
  MaxProposals,        \* bound: reviewed proposals
  MaxChanges           \* bound: rung changes

ASSUME LadderConstants ==
  /\ Timers \cap Operators = {}
  /\ MIN_SAMPLE \in Nat /\ DEMOTION_MIN_SAMPLE \in Nat
  /\ PROMOTION_RATE \in 0..100 /\ DEMOTION_RATE \in 0..100
  /\ RegressionWindow \in Nat /\ ManualHold \in Nat
  /\ MaxProposals \in Nat /\ MaxChanges \in Nat

VARIABLES
  enabled,    \* promotion.enabled
  proposals,  \* the SupervisorProposal rows: class, age and verdict
  ladder,     \* the PromotionState rows
  job,        \* what a timer or an operator is doing
  changes     \* bound: rung changes so far

ladderVars == <<enabled, proposals, ladder, job, changes>>

Jobs  == Timers \cup Operators
Rungs == {"observe", "measure", "promoted"}
Idle  == [step |-> "idle", class |-> "none", evidence |-> <<>>, rows |-> <<>>,
          todo |-> {}, grants |-> {}]

LadderOK ==
  /\ enabled \in BOOLEAN
  /\ \A i \in DOMAIN proposals : /\ proposals[i].class \in Classes
                                 /\ proposals[i].review \in {"would_approve", "would_reject"}
  /\ \A c \in Classes : /\ ladder[c].rung \in Rungs
                        /\ ladder[c].holdUntil \in Int
                        /\ ladder[c].demotions \in 0..changes
  /\ \A j \in Jobs : job[j].step \in {"idle", "rows", "judge", "persist", "grants", "suspend"}
  /\ changes \in 0..MaxChanges

LadderInit ==
  /\ enabled = TRUE
  /\ proposals = <<>>
  /\ ladder = [c \in Classes |-> [rung |-> "observe", holdUntil |-> 0, demotions |-> 0]]
  /\ job = [j \in Jobs |-> Idle]
  /\ changes = 0

-----------------------------------------------------------------------------
(* The policy *)

CountAll(c, yes, since) ==
  Cardinality({i \in DOMAIN proposals :
                 /\ proposals[i].class = c /\ proposals[i].createdAt >= since
                 /\ (proposals[i].review = "would_approve") = yes}) +
  Cardinality({a \in DOMAIN approvals :
                 /\ approvals[a].class = c /\ approvals[a].createdAt >= since
                 /\ approvals[a].status \in (IF yes THEN {"approved", "auto_approved"}
                                             ELSE {"denied"})})

\* gatherEvidence: human verdicts only, of all time and of what was created
\* in the regression window.
Count(c, yes, since) ==
  Cardinality({i \in DOMAIN proposals :
                 /\ proposals[i].class = c /\ proposals[i].createdAt >= since
                 /\ (proposals[i].review = "would_approve") = yes}) +
  Cardinality({a \in DOMAIN approvals :
                 /\ approvals[a].class = c /\ approvals[a].createdAt >= since
                 /\ approvals[a].via = "human"
                 /\ approvals[a].status = (IF yes THEN "approved" ELSE "denied")})

Evidence(c) ==
  [approved |-> Count(c, TRUE, 0), rejected |-> Count(c, FALSE, 0),
   recentApproved |-> Count(c, TRUE, now - RegressionWindow),
   recentRejected |-> Count(c, FALSE, now - RegressionWindow)]

Sample(e)       == e.approved + e.rejected
RecentSample(e) == e.recentApproved + e.recentRejected

isRegressing(e) ==
  /\ RecentSample(e) >= DEMOTION_MIN_SAMPLE /\ RecentSample(e) > 0
  /\ e.recentApproved * 100 < DEMOTION_RATE * RecentSample(e)

Qualifies(e) ==
  /\ Sample(e) >= MIN_SAMPLE /\ Sample(e) > 0
  /\ e.approved * 100 >= PROMOTION_RATE * Sample(e)

\* A manual hold keeps a class from being promoted, not from being demoted.
evaluateLadder(rung, e, eligible, paused, held) ==
  CASE ~eligible -> IF rung = "promoted" THEN "demote" ELSE "hold"
    [] eligible /\ paused -> "hold"
    [] eligible /\ ~paused /\ rung = "promoted" /\ isRegressing(e) -> "demote"
    [] eligible /\ ~paused /\ ~held /\ rung # "promoted" /\ Qualifies(e) /\ ~isRegressing(e) ->
         "promote"
    [] OTHER -> "hold"

rungFor(promoted, e) ==
  IF promoted THEN "promoted" ELSE IF Sample(e) > 0 THEN "measure" ELSE "observe"

activeHold(row) == row.holdUntil > now

-----------------------------------------------------------------------------
(* Humans *)

Review(c, verdict) ==
  /\ Len(proposals) < MaxProposals
  /\ proposals' = Append(proposals, [class |-> c, createdAt |-> now, review |-> verdict])
  /\ UNCHANGED <<now, grantVars, gateVars, enabled, ladder, job, changes>>

\* A reviewer may change a verdict.
ReviewAgain(i, verdict) ==
  /\ proposals[i].review # verdict
  /\ proposals' = [proposals EXCEPT ![i].review = verdict]
  /\ UNCHANGED <<now, grantVars, gateVars, enabled, ladder, job, changes>>

SetEnabled ==
  /\ enabled' = ~enabled
  /\ UNCHANGED <<now, grantVars, gateVars, proposals, ladder, job, changes>>

-----------------------------------------------------------------------------
(* Jobs *)

Do(j, task) == job' = [job EXCEPT ![j] = task]

\* demoteManually: only a promoted class can be demoted.
DemoteManually(j, c) ==
  /\ j \in Operators /\ job[j] = Idle
  /\ ladder[c].rung = "promoted"
  /\ Do(j, [Idle EXCEPT !.step = "persist", !.class = c, !.rows = ladder,
                        !.evidence = [x \in {c} |-> Evidence(c)]])
  /\ UNCHANGED <<now, grantVars, gateVars, enabled, proposals, ladder, changes>>

\* A class that nobody registered is evaluated if the history knows it.
InHistory(c) ==
  \/ \E i \in DOMAIN proposals : proposals[i].class = c
  \/ \E a \in DOMAIN approvals : approvals[a].class = c

\* evaluate, by the hourly task, which does nothing while it is disabled.
EvaluateRead(j) ==
  /\ j \in Timers /\ job[j] = Idle /\ enabled
  /\ Do(j, [Idle EXCEPT !.step = "rows",
                        !.todo = {c \in Classes : isActionClass(c) \/ InHistory(c)},
                        !.evidence = [c \in Classes |-> Evidence(c)]])
  /\ UNCHANGED <<now, grantVars, gateVars, enabled, proposals, ladder, changes>>

ReadRows(j) ==
  /\ job[j].step = "rows"
  /\ Do(j, [job[j] EXCEPT !.step = "judge", !.rows = ladder])
  /\ UNCHANGED <<now, grantVars, gateVars, enabled, proposals, ladder, changes>>

\* The rung a class moves to, and the upsert: demotionCount is the one that
\* was read, plus one; a hold is written by an operator and never cleared.
Persist(j, c, rung, demoting, hold) ==
  /\ changes < MaxChanges /\ changes' = changes + 1
  /\ ladder' = [ladder EXCEPT ![c] =
       [rung      |-> rung,
        holdUntil |-> IF hold THEN now + ManualHold ELSE ladder[c].holdUntil,
        demotions |-> IF demoting THEN job[j].rows[c].demotions + 1
                      ELSE ladder[c].demotions]]

\* The classes are taken in a fixed order.
EvaluateClass(j) ==
  LET c       == CHOOSE x \in job[j].todo : TRUE
      left    == job[j].todo \ {c}
      row     == job[j].rows[c]
      e       == job[j].evidence[c]
      verdict == evaluateLadder(row.rung, e, isAutonomyEligible(c), FALSE, activeHold(row))
      target  == rungFor(CASE verdict = "promote" -> TRUE [] verdict = "demote" -> FALSE
                           [] OTHER -> row.rung = "promoted", e) IN
  /\ job[j].step = "judge" /\ job[j].todo # {}
  /\ IF verdict = "hold" /\ target = row.rung
       THEN UNCHANGED <<ladder, changes>>
       ELSE Persist(j, c, target, verdict = "demote", FALSE)
  /\ Do(j, IF left = {} /\ verdict # "demote" THEN Idle
           ELSE [step |-> IF verdict = "demote" THEN "grants" ELSE "judge", class |-> c,
                 todo |-> left, grants |-> {}, evidence |-> [x \in left |-> job[j].evidence[x]],
                 rows |-> [x \in left |-> job[j].rows[x]]])
  /\ UNCHANGED <<now, grantVars, gateVars, enabled, proposals>>

PersistDemotion(j) ==
  LET c == job[j].class IN
  /\ job[j].step = "persist"
  /\ Persist(j, c, rungFor(FALSE, job[j].evidence[c]), TRUE, TRUE)
  /\ Do(j, [Idle EXCEPT !.step = "grants", !.class = c])
  /\ UNCHANGED <<now, grantVars, gateVars, enabled, proposals>>

\* suspendGrantsFor reads the active grants of the class, and suspends each.
ReadGrants(j) ==
  /\ job[j].step = "grants"
  /\ Do(j, [job[j] EXCEPT !.step = "suspend",
                          !.grants = {g \in DOMAIN grants :
                                        Active(g) /\ grants[g].class = job[j].class}])
  /\ UNCHANGED <<now, grantVars, gateVars, enabled, proposals, ladder, changes>>

SuspendGrant(j, g) ==
  /\ job[j].step = "suspend" /\ g \in job[j].grants
  /\ End(g, "suspended", "class_demoted")
  /\ Do(j, [job[j] EXCEPT !.grants = @ \ {g}])
  /\ UNCHANGED <<now, renewing, prompting, prompted, gateVars, enabled, proposals, ladder,
                 changes>>

\* On to the next class, if there is one.
JobContinues(j) ==
  /\ job[j].step = "suspend" /\ job[j].grants = {}
  /\ Do(j, IF job[j].todo = {} THEN Idle ELSE [job[j] EXCEPT !.step = "judge"])
  /\ UNCHANGED <<now, grantVars, gateVars, enabled, proposals, ladder, changes>>

LadderNext ==
  \/ \E c \in Classes, v \in {"would_approve", "would_reject"} : Review(c, v)
  \/ \E i \in DOMAIN proposals, v \in {"would_approve", "would_reject"} : ReviewAgain(i, v)
  \/ SetEnabled
  \/ \E j \in Jobs :
       \/ EvaluateRead(j) \/ ReadRows(j) \/ PersistDemotion(j) \/ ReadGrants(j)
       \/ EvaluateClass(j) \/ JobContinues(j)
       \/ \E c \in Classes : DemoteManually(j, c)
       \/ \E g \in GrantIds : SuspendGrant(j, g)

-----------------------------------------------------------------------------
(* Properties *)

Verdicts(c) == {i \in DOMAIN proposals : proposals[i].class = c}
Decisions(c) == {a \in DOMAIN approvals : approvals[a].class = c /\ approvals[a].via = "human"}

\* Silence is not consent to more trust: a class is promoted only if it is one
\* that may act alone and humans gave at least MIN_SAMPLE verdicts on it.
\* What a timer or a grant decided counts for nothing, whichever evaluation
\* promoted it and however the verdicts were changed meanwhile.
PromotedOnHumanEvidence ==
  \A c \in Classes : ladder[c].rung = "promoted" =>
    /\ isAutonomyEligible(c)
    /\ Cardinality(Verdicts(c)) + Cardinality(Decisions(c)) >= MIN_SAMPLE

=============================================================================
