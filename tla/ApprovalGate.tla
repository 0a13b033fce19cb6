----------------------------- MODULE ApprovalGate -----------------------------
(***************************************************************************)
(* The approval gate (approvals/approval-gate.service.ts and its task):    *)
(* an action is refused outright, authorized by a grant, or put to a human *)
(* with a consequence for silence.                                         *)
(*                                                                         *)
(* `pc` is where the call that raised an approval is: gate creates the row *)
(* in one step and, for a parked one, raises an escalation and links it in *)
(* two more; the process may die between them.  The two sweeps run on a    *)
(* timer.  An escalation is counted by the approval it names in its text   *)
(* (parkedApprovalMarker); the notifications of gate are left out.         *)
(***************************************************************************)
EXTENDS TrustGrants

CONSTANTS
  Costs,           \* what an action is projected to cost, NaN if unknown
  Ceiling,         \* HardSpendCeiling.value
  TimeoutWindow,   \* TIMEOUT_WINDOW_MS
  BackfillWindow,  \* PARKED_BACKFILL_WINDOW_HOURS
  MaxApprovals,    \* bound: approvals ever raised
  MaxGateFaults    \* bound: failing calls and deaths of the process

ASSUME GateConstants ==
  /\ Costs \subseteq Int /\ Ceiling \in Int
  /\ TimeoutWindow \in Nat /\ BackfillWindow \in Nat
  /\ MaxApprovals \in Nat /\ MaxGateFaults \in Nat

VARIABLES
  approvals,  \* the ApprovalRequest rows
  pc,         \* the gate call of an approval
  pages,      \* the escalations raised for an approval
  use,        \* the use of an approval a grant gave; unsuspended if it should
              \* have suspended the grant and that call failed
  sweep,      \* the due approvals the timeout sweep has yet to resolve
  backfill,   \* the approvals the backfill has yet to repair
  repairing,  \* the one it is repairing, and whether an escalation exists
  mint,       \* the grant a decision has still to create or to record
  gateFaults

gateVars == <<approvals, pc, pages, use, sweep, backfill, repairing, mint,
              gateFaults>>

ApprovalIds   == 1..MaxApprovals
OPEN_STATUSES == {"pending", "parked"}
Decided       == {"approved", "denied", "auto_approved", "auto_denied", "superseded"}
Parked(a)     == approvals[a].status = "parked"
Ending        == Reasons \cup {"unsuspended"}
Nothing       == 0
ToCreate      == -1
NoRepair      == [approval |-> 0, found |-> FALSE]

GateOK ==
  /\ Len(approvals) <= MaxApprovals
  /\ \A a \in DOMAIN approvals :
       /\ approvals[a].status \in OPEN_STATUSES \cup Decided
       /\ approvals[a].policy \in TimeoutPolicies
       /\ approvals[a].via \in {"none", "human", "grant", "timeout"}
       /\ approvals[a].grant \in {0} \cup DOMAIN grants
       /\ approvals[a].createdGrant \in {0} \cup DOMAIN grants
  /\ pc \in [ApprovalIds -> {"idle", "raise", "link", "done"}]
  /\ pages \in [ApprovalIds -> Nat]
  /\ use \in [ApprovalIds -> {"none", "authorized", "charged"} \cup Ending]
  /\ sweep \subseteq ApprovalIds /\ backfill \subseteq ApprovalIds
  /\ repairing \in [approval : {0} \cup ApprovalIds, found : BOOLEAN]
  /\ mint \in [ApprovalIds -> {Nothing, ToCreate} \cup GrantIds]
  /\ gateFaults \in 0..MaxGateFaults

GateInit ==
  /\ approvals = <<>>
  /\ pc = [a \in ApprovalIds |-> "idle"]
  /\ pages = [a \in ApprovalIds |-> 0]
  /\ use = [a \in ApprovalIds |-> "none"]
  /\ sweep = {} /\ backfill = {} /\ repairing = NoRepair
  /\ mint = [a \in ApprovalIds |-> Nothing]
  /\ gateFaults = 0

-----------------------------------------------------------------------------
(* gate *)

\* projectedCostFor: a class that spends has no cost without an estimate.
projectedCostFor(c, usd) == IF usd = NaN /\ ~spendsMoney(c) THEN 0 ELSE usd

NewApproval(c, status, via, g, usd) ==
  LET policy == resolveTimeoutPolicy(c) IN
  [class |-> c, status |-> status, policy |-> policy, via |-> via, grant |-> g,
   usd |-> usd, createdAt |-> now, createdGrant |-> 0, linked |-> FALSE,
   timeoutAt |-> IF policy = "park_and_escalate" \/ via = "grant" THEN NaN
                 ELSE now + TimeoutWindow]

\* enforce refuses the effects before any row exists.  effectsFor takes a
\* missing estimate as zero; an unregistered class declares its spend.
Permitted(c, usd) ==
  LET estimate == IF usd = NaN THEN 0 ELSE usd IN
  checkNeverTrustable(IF isActionClass(c) THEN effectsFor(c, estimate, 1, "quarantine")
                      ELSE {Spend(estimate)}, Ceiling) = {}

Id == Len(approvals) + 1

Asked(c) == IF resolveTimeoutPolicy(c) = "park_and_escalate" THEN "parked" ELSE "pending"

\* Refusal, grant or question.  authorize's read and the row's insert are one
\* step: a grant that ends between them has authorized the action.
Gate(c, usd) ==
  LET g == authorize(c, projectedCostFor(c, usd)) IN
  /\ Len(approvals) < MaxApprovals
  /\ Permitted(c, usd)
  /\ approvals' = Append(approvals, IF g # 0 THEN NewApproval(c, "approved", "grant", g, usd)
                                    ELSE NewApproval(c, Asked(c), "none", 0, usd))
  /\ use' = [use EXCEPT ![Id] = IF g # 0 THEN "authorized" ELSE @]
  /\ pc' = [pc EXCEPT ![Id] = IF g = 0 /\ Asked(c) = "parked" THEN "raise" ELSE "done"]
  /\ UNCHANGED <<now, grantVars, pages, sweep, backfill, repairing, mint, gateFaults>>

Fault == gateFaults < MaxGateFaults /\ gateFaults' = gateFaults + 1
Fine  == UNCHANGED gateFaults

\* escalateParked: the raise may fail, which ends the attempt.
GateRaise(a) ==
  /\ pc[a] = "raise"
  /\ \/ Fine /\ pages' = [pages EXCEPT ![a] = @ + 1] /\ pc' = [pc EXCEPT ![a] = "link"]
     \/ Fault /\ UNCHANGED pages /\ pc' = [pc EXCEPT ![a] = "done"]
  /\ UNCHANGED <<now, grantVars, approvals, use, sweep, backfill, repairing, mint>>

linkEscalationLost(a) == UNCHANGED approvals

\* linkEscalation: only a row that is still parked and has no link.
linkEscalation(a) ==
  approvals' = IF Parked(a) THEN [approvals EXCEPT ![a].linked = TRUE] ELSE approvals

GateLink(a) ==
  /\ pc[a] = "link"
  /\ (Fine /\ linkEscalation(a)) \/ (Fault /\ UNCHANGED approvals)
  /\ pc' = [pc EXCEPT ![a] = "done"]
  /\ UNCHANGED <<now, grantVars, pages, use, sweep, backfill, repairing, mint>>

\* The process dies with the call that raised the approval.
GateDies(a) ==
  /\ pc[a] \in {"raise", "link"} /\ Fault
  /\ pc' = [pc EXCEPT ![a] = "done"]
  /\ UNCHANGED <<now, grantVars, approvals, pages, use, sweep, backfill, repairing, mint>>

-----------------------------------------------------------------------------
(* The human, and the callers *)

Resolve(a, status, via) ==
  approvals' = [approvals EXCEPT ![a].status = status, ![a].via = via]

Open(a) == approvals[a].status \in OPEN_STATUSES

\* decide.  Approving may tap "always approve this class", which mints a
\* grant unless the class is not eligible.
Decide(a, approve, always) ==
  /\ Open(a)
  /\ Resolve(a, IF approve THEN "approved" ELSE "denied", "human")
  /\ mint' = [mint EXCEPT ![a] =
       IF approve /\ always /\ isAutonomyEligible(approvals[a].class) THEN ToCreate ELSE @]
  /\ UNCHANGED <<now, grantVars, pc, pages, use, sweep, backfill, repairing, gateFaults>>

MintCreateAgain(a) ==
  /\ mint[a] = ToCreate /\ create(approvals[a].class, DefaultTerms, a)
  /\ UNCHANGED <<now, renewing, prompting, prompted, gateVars>>

\* maybeMintGrant creates the grant with the default terms, then records it
\* on the approval; a failure of either is reported as no grant.
MintCreate(a) ==
  /\ mint[a] = ToCreate
  /\ \/ /\ Fine /\ create(approvals[a].class, DefaultTerms, a)
        /\ mint' = [mint EXCEPT ![a] = Len(grants) + 1]
     \/ /\ Fault /\ UNCHANGED grants
        /\ mint' = [mint EXCEPT ![a] = Nothing]
  /\ UNCHANGED <<now, renewing, prompting, prompted, approvals, pc, pages, use, sweep,
                 backfill, repairing>>

MintRecord(a) ==
  /\ mint[a] \in GrantIds
  /\ \/ /\ Fine /\ approvals' = [approvals EXCEPT ![a].createdGrant = mint[a]]
     \/ Fault /\ UNCHANGED approvals
  /\ mint' = [mint EXCEPT ![a] = Nothing]
  /\ UNCHANGED <<now, grantVars, pc, pages, use, sweep, backfill, repairing>>

Supersede(a) ==
  /\ Open(a)
  /\ Resolve(a, "superseded", "none")
  /\ UNCHANGED <<now, grantVars, pc, pages, use, sweep, backfill, repairing, mint,
                 gateFaults>>

\* recordUsage of an action a grant authorized: the increment, and then the
\* suspension its result calls for.
RecordUsage(a, failed) ==
  LET g == approvals[a].grant
      row == Charged(grants[g], projectedCostFor(approvals[a].class, approvals[a].usd), failed)
      verdict == evaluateAutoRevoke(row) IN
  /\ use[a] = "authorized"
  /\ grants' = [grants EXCEPT ![g] = row]
  /\ use' = [use EXCEPT ![a] = IF verdict = "none" THEN "charged" ELSE verdict]
  /\ UNCHANGED <<now, renewing, prompting, prompted, approvals, pc, pages, sweep, backfill,
                 repairing, mint, gateFaults>>

\* A suspension that fails leaves the charge and the grant as they are.
SuspendAfterUse(a) ==
  /\ use[a] \in Reasons
  /\ \/ /\ Fine /\ End(approvals[a].grant, "suspended", use[a])
        /\ use' = [use EXCEPT ![a] = "charged"]
     \/ /\ Fault /\ UNCHANGED grants
        /\ use' = [use EXCEPT ![a] = "unsuspended"]
  /\ UNCHANGED <<now, renewing, prompting, prompted, approvals, pc, pages, sweep, backfill,
                 repairing, mint>>

-----------------------------------------------------------------------------
(* The timers *)

Due == {a \in DOMAIN approvals : /\ approvals[a].status = "pending"
                                 /\ approvals[a].timeoutAt # NaN
                                 /\ approvals[a].timeoutAt <= now}

SweepRead ==
  /\ sweep = {} /\ Due # {}
  /\ sweep' = Due
  /\ UNCHANGED <<now, grantVars, approvals, pc, pages, use, backfill, repairing, mint,
                 gateFaults>>

SweepResolveStale(a) ==
  /\ a \in sweep
  /\ sweep' = sweep \ {a}
  /\ Resolve(a, IF approvals[a].policy = "auto_approve" THEN "auto_approved" ELSE "auto_denied",
             "timeout")
  /\ UNCHANGED <<now, grantVars, pc, pages, use, backfill, repairing, mint, gateFaults>>

\* sweepTimeouts, for one row: the announced consequence, if it is still
\* pending; a parked one is never resolved by a timer.
SweepResolve(a) ==
  /\ a \in sweep
  /\ sweep' = sweep \ {a}
  /\ IF approvals[a].policy # "park_and_escalate" /\ approvals[a].status = "pending"
       THEN Resolve(a, IF approvals[a].policy = "auto_approve" THEN "auto_approved"
                       ELSE "auto_denied", "timeout")
       ELSE UNCHANGED approvals
  /\ UNCHANGED <<now, grantVars, pc, pages, use, backfill, repairing, mint, gateFaults>>

Unescalated == {a \in DOMAIN approvals : /\ Parked(a) /\ ~approvals[a].linked
                                         /\ approvals[a].createdAt >= now - BackfillWindow}

BackfillRead ==
  /\ backfill = {} /\ repairing = NoRepair /\ Unescalated # {}
  /\ backfill' = Unescalated
  /\ UNCHANGED <<now, grantVars, approvals, pc, pages, use, sweep, repairing, mint,
                 gateFaults>>

AlreadyRaisedNever(a) == FALSE
AlreadyRaised(a) == pages[a] > 0

\* findEscalationFor, oldest approval first.
BackfillFind ==
  /\ repairing = NoRepair /\ backfill # {}
  /\ LET a == CHOOSE x \in backfill : \A y \in backfill : x <= y IN
     /\ backfill' = backfill \ {a}
     /\ repairing' = [approval |-> a, found |-> AlreadyRaised(a)]
  /\ UNCHANGED <<now, grantVars, approvals, pc, pages, use, sweep, mint, gateFaults>>

BackfillRaise ==
  /\ repairing.approval # 0 /\ ~repairing.found
  /\ \/ /\ Fine /\ pages' = [pages EXCEPT ![repairing.approval] = @ + 1]
        /\ repairing' = [repairing EXCEPT !.found = TRUE]
     \/ Fault /\ UNCHANGED pages /\ repairing' = NoRepair
  /\ UNCHANGED <<now, grantVars, approvals, pc, use, sweep, backfill, mint>>

BackfillLink ==
  /\ repairing.found
  /\ (Fine /\ linkEscalation(repairing.approval)) \/ (Fault /\ UNCHANGED approvals)
  /\ repairing' = NoRepair
  /\ UNCHANGED <<now, grantVars, pc, pages, use, sweep, backfill, mint>>

GateNext ==
  \/ \E c \in Classes, usd \in Costs : Gate(c, usd)
  \/ \E a \in DOMAIN approvals :
       \/ GateRaise(a) \/ GateLink(a) \/ GateDies(a)
       \/ \E approve, always \in BOOLEAN : Decide(a, approve, always)
       \/ MintCreate(a) \/ MintRecord(a) \/ Supersede(a)
       \/ \E failed \in BOOLEAN : RecordUsage(a, failed)
       \/ SuspendAfterUse(a)
       \/ SweepResolve(a)
  \/ SweepRead \/ BackfillRead \/ BackfillFind \/ BackfillRaise \/ BackfillLink

-----------------------------------------------------------------------------
(* Properties *)

\* Without a human an action goes ahead only in the two announced ways: an
\* eligible class under a grant of that class, or a class whose silence means
\* yes after its window.  In particular a parked approval, the irreversible
\* case, is approved by a human or not at all.
UnattendedAsAnnounced ==
  \A a \in DOMAIN approvals :
    /\ (approvals[a].status = "approved" /\ approvals[a].via # "human") =>
         /\ isAutonomyEligible(approvals[a].class)
         /\ grants[approvals[a].grant].class = approvals[a].class
    /\ approvals[a].status = "auto_approved" =>
         /\ approvals[a].class \in Reversible
         /\ approvals[a].timeoutAt <= now

\* The failures of raising and linking, and the retries of the backfill, do
\* not page a human again and again about one parked approval: there is the
\* gate's escalation and, if the backfill looked before that one was stored,
\* one more.
RetriesDoNotRepage == \A a \in ApprovalIds : pages[a] <= 2

\* Once the charges of a grant pass its budget, its failure rate or its cost
\* per action it is ended, or one of them is about to end it, whichever charges
\* came in together.  It stays in force only if a suspension failed: nothing
\* else tries it again before the next charge.
OverLimitEnds ==
  \A g \in DOMAIN grants :
    LET row == grants[g] IN
    ( /\ Active(g) /\ ~Lapsed(g)
      /\ \/ row.spentUsd >= row.budgetCeilingUsd
         \/ /\ row.actionsAuthorized >= row.minActions
            /\ \/ row.actionsFailed * 100 > row.maxFailureRate * row.actionsAuthorized
               \/ row.spentUsd > row.maxCostPerActionUsd * row.actionsAuthorized )
    => \E a \in DOMAIN approvals : approvals[a].grant = g /\ use[a] \in Ending

\* A decision is final: the human, the timer and the caller that withdraws
\* the question may all act on one approval, and the first one settles it.
DecisionIsFinal ==
  [][\A a \in DOMAIN approvals : approvals[a].status \in Decided =>
       /\ approvals'[a].status = approvals[a].status
       /\ approvals'[a].via = approvals[a].via]_<<now, grantVars, gateVars>>

\* A parked approval whose escalation was lost is escalated by the backfill,
\* unless it is answered or grows older than the backfill's window.
ParkedIsEscalated ==
  \A a \in ApprovalIds :
    (a \in DOMAIN approvals /\ a \in Unescalated)
      ~> (a \in DOMAIN approvals /\ a \notin Unescalated)

-----------------------------------------------------------------------------
(* The contract *)

Verdict(status) ==
  CASE status \in OPEN_STATUSES -> "open"
    [] status \in {"approved", "auto_approved"} -> "allowed"
    [] status \in {"denied", "auto_denied"} -> "refused"
    [] status = "superseded" -> "withdrawn"

AnswerOf(row) == [class |-> row.class, verdict |-> Verdict(row.status), by |-> row.via]

TrustOf(row) ==
  [class |-> row.class, state |-> IF row.status = "active" THEN "live" ELSE "over",
   budget |-> row.budgetCeilingUsd, from |-> row.fromApproval]

Answers ==
  [a \in ApprovalIds |->
     IF a \in DOMAIN approvals THEN AnswerOf(approvals[a])
     ELSE [class |-> "none", verdict |-> "none", by |-> "none"]]

Trust ==
  [g \in GrantIds |->
     IF g \in DOMAIN grants THEN TrustOf(grants[g])
     ELSE [class |-> "none", state |-> "none", budget |-> 0, from |-> 0]]

Contract == INSTANCE Authority WITH
  Asks           <- ApprovalIds,
  Trusts         <- GrantIds,
  Delegable      <- {c \in Classes : isAutonomyEligible(c)},
  SilenceAllows  <- {c \in Classes : resolveTimeoutPolicy(c) = "auto_approve"},
  SilenceRefuses <- {c \in Classes : resolveTimeoutPolicy(c) = "deny"},
  answer         <- Answers,
  trust          <- Trust

\* Whoever answers, renews, revokes and times out at once, authority is given
\* as Authority says: an approval is answered once and by whom it says, every
\* grant began with a human, one "always" is good for one grant, and a grant
\* that has ended is neither used for a new answer nor renewed.
AuthoritySpec == Contract!Spec

=============================================================================
