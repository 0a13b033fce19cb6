----------------------------- MODULE TrustGrants -----------------------------
(***************************************************************************)
(* Trust grants (trust/trust-grant.service.ts, auto-revoke.ts, renewal.ts, *)
(* tasks/renewal-prompt.task.ts): authority over one action class in one   *)
(* repository, with an expiry, a budget and the thresholds that end it.    *)
(*                                                                         *)
(* The grants are those of one repository.  A row is never deleted, and    *)
(* its index is its id.  Time is counted in ticks, money in whole dollars, *)
(* a rate in percent.  renew is a transaction at READ COMMITTED: it reads  *)
(* the old row, and later creates the successor and ends the old row.      *)
(***************************************************************************)
EXTENDS ActionClasses

CONSTANTS
  Classes,       \* the action classes of this instance
  GrantTerms,    \* the terms a human may write into a new grant
  DefaultTerms,  \* defaultGrantAttributes
  NearExpiry,    \* NEAR_EXPIRY_WINDOW_MS
  Humans,        \* who may be renewing at the same time
  Prompts,       \* sweeps of the renewal prompt that may overlap
  MaxNow,        \* bound: the clock
  MaxGrants      \* bound: grants ever created

Terms == [term : Int, budgetCeilingUsd : Int, maxFailureRate : Int,
          maxCostPerActionUsd : Int, minActions : Int]

ASSUME GrantConstants ==
  /\ GrantTerms \subseteq Terms /\ DefaultTerms \in Terms
  /\ NearExpiry \in Nat /\ MaxNow \in Nat /\ MaxGrants \in Nat

VARIABLES
  now,        \* the clock
  grants,     \* the TrustGrant rows
  renewing,   \* the grant a human's renewal has read, 0 for none
  prompting,  \* the expiring grants a prompt sweep has yet to claim
  prompted    \* observed: how often a human was prompted about a grant

grantVars == <<grants, renewing, prompting, prompted>>

GrantIds == 1..MaxGrants
Ended    == {"expired", "revoked", "suspended"}
Reasons  == {"expired", "manual_revocation", "superseded_by_renewal", "class_demoted",
             "budget_exhausted", "failure_rate_exceeded", "cost_per_action_exceeded"}

GrantsOK ==
  /\ now \in 0..MaxNow
  /\ Len(grants) <= MaxGrants
  /\ \A g \in DOMAIN grants :
       /\ grants[g].class \in Classes
       /\ grants[g].status \in {"active"} \cup Ended
       /\ grants[g].reason \in {"none"} \cup Reasons
       /\ grants[g].renewedFrom \in 0..(g - 1)
       /\ grants[g].actionsFailed \in 0..grants[g].actionsAuthorized
  /\ renewing \in [Humans -> 0..MaxGrants]
  /\ prompting \in [Prompts -> SUBSET GrantIds]
  /\ prompted \in [GrantIds -> Nat]

GrantInit ==
  /\ now = 0
  /\ grants = <<>>
  /\ renewing = [h \in Humans |-> 0]
  /\ prompting = [p \in Prompts |-> {}]
  /\ prompted = [g \in GrantIds |-> 0]

-----------------------------------------------------------------------------
(* Helpers *)

Active(g) == grants[g].status = "active"
Lapsed(g) == grants[g].expiresAt <= now
Room      == Len(grants) < MaxGrants

NewGrant(c, t, from, approval) ==
  [class |-> c, status |-> "active", reason |-> "none",
   renewedFrom |-> from, fromApproval |-> approval,
   createdAt |-> now, expiresAt |-> now + t.term,
   budgetCeilingUsd |-> t.budgetCeilingUsd, maxFailureRate |-> t.maxFailureRate,
   maxCostPerActionUsd |-> t.maxCostPerActionUsd, minActions |-> t.minActions,
   spentUsd |-> 0, actionsAuthorized |-> 0, actionsFailed |-> 0,
   renewalPrompted |-> FALSE]

ValidTerms(t) ==
  /\ t.term > 0
  /\ t.budgetCeilingUsd > 0
  /\ t.maxFailureRate \in 0..100
  /\ t.maxCostPerActionUsd > 0
  /\ t.minActions >= 1

\* The defaults pass the checks of create.
ASSUME DefaultsValid == ValidTerms(DefaultTerms)

EndedRow(row, status, reason) == [row EXCEPT !.status = status, !.reason = reason]

EndAlways(g, status, reason) ==
  grants' = [grants EXCEPT ![g] = EndedRow(grants[g], status, reason)]

\* The guarded update every way of ending a grant goes through: a row that
\* is no longer active is left alone.
End(g, status, reason) ==
  grants' = IF Active(g) THEN [grants EXCEPT ![g] = EndedRow(grants[g], status, reason)]
                         ELSE grants

\* authorize: the active, unexpired grant of the class with the most money
\* left; of those the one that lasts longest, then the first.
Candidates(c) == {g \in DOMAIN grants : grants[g].class = c /\ Active(g) /\ ~Lapsed(g)}
Headroom(g)   == grants[g].budgetCeilingUsd - grants[g].spentUsd

Better(g, h) ==
  \/ Headroom(g) > Headroom(h)
  \/ Headroom(g) = Headroom(h) /\ grants[g].expiresAt > grants[h].expiresAt
  \/ Headroom(g) = Headroom(h) /\ grants[g].expiresAt = grants[h].expiresAt /\ g <= h

Best(c) == CHOOSE g \in Candidates(c) : \A h \in Candidates(c) : Better(g, h)

authorize(c, cost) ==
  IF /\ isAutonomyEligible(c) /\ cost >= 0
     /\ Candidates(c) # {}
     /\ grants[Best(c)].spentUsd + cost <= grants[Best(c)].budgetCeilingUsd
  THEN Best(c) ELSE 0

evaluateAutoRevokeOver(row) ==
  LET enough == row.actionsAuthorized >= row.minActions /\ row.actionsAuthorized > 0 IN
  IF row.expiresAt <= now THEN "none"
  ELSE IF row.spentUsd > row.budgetCeilingUsd THEN "budget_exhausted"
  ELSE IF enough /\ row.actionsFailed * 100 > row.maxFailureRate * row.actionsAuthorized
    THEN "failure_rate_exceeded"
  ELSE "none"

\* evaluateAutoRevoke: why a row should be suspended, "none" if it should not.
\* A lapsed grant is the expiry sweep's business.
evaluateAutoRevoke(row) ==
  LET enough == row.actionsAuthorized >= row.minActions /\ row.actionsAuthorized > 0 IN
  IF row.expiresAt <= now THEN "none"
  ELSE IF row.spentUsd >= row.budgetCeilingUsd THEN "budget_exhausted"
  ELSE IF enough /\ row.actionsFailed * 100 > row.maxFailureRate * row.actionsAuthorized
    THEN "failure_rate_exceeded"
  ELSE IF enough /\ row.spentUsd > row.maxCostPerActionUsd * row.actionsAuthorized
    THEN "cost_per_action_exceeded"
  ELSE "none"

ChargedApart(row, cost, failed) ==
  [row EXCEPT !.spentUsd = @ + cost,
              !.actionsAuthorized = @ + (IF failed THEN 0 ELSE 1),
              !.actionsFailed = @ + (IF failed THEN 1 ELSE 0)]

\* The increment of recordUsage, as the row is after it.
Charged(row, cost, failed) ==
  [row EXCEPT !.spentUsd = @ + cost,
              !.actionsAuthorized = @ + 1,
              !.actionsFailed = @ + (IF failed THEN 1 ELSE 0)]

Smaller(a, b) == IF a <= b THEN a ELSE b

narrowerOfNot(old) == DefaultTerms

\* narrowerOf: the defaults, but never more than the old grant had.
narrowerOf(old) ==
  [term                |-> Smaller(DefaultTerms.term, old.expiresAt - old.createdAt),
   budgetCeilingUsd    |-> Smaller(old.budgetCeilingUsd, DefaultTerms.budgetCeilingUsd),
   maxFailureRate      |-> Smaller(old.maxFailureRate, DefaultTerms.maxFailureRate),
   maxCostPerActionUsd |-> Smaller(old.maxCostPerActionUsd, DefaultTerms.maxCostPerActionUsd),
   minActions          |-> Smaller(old.minActions, DefaultTerms.minActions)]

-----------------------------------------------------------------------------
(* Operations *)

\* create, for the terms an administrator chose or the defaults of a tap on
\* "always approve this class".
create(c, t, approval) ==
  /\ isAutonomyEligible(c) /\ ValidTerms(t) /\ Room
  /\ grants' = Append(grants, NewGrant(c, t, 0, approval))

CreateGrant(c, t) == create(c, t, 0) /\ UNCHANGED <<now, renewing, prompting, prompted>>

\* renew reads the grant: an ineligible, lapsed or ended one is refused.
RenewRead(h, g) ==
  /\ renewing[h] = 0
  /\ isAutonomyEligible(grants[g].class) /\ Active(g) /\ ~Lapsed(g)
  /\ renewing' = [renewing EXCEPT ![h] = g]
  /\ UNCHANGED <<now, grants, prompting, prompted>>

Successor(g) ==
  Append([grants EXCEPT ![g] = EndedRow(grants[g], "revoked", "superseded_by_renewal")],
         NewGrant(grants[g].class, narrowerOf(grants[g]), g, 0))

\* The rest of the transaction.  If the old row is no longer active, or the
\* database refuses, the successor is rolled back with it.
RenewCommit(h) ==
  /\ renewing[h] # 0
  /\ grants' = IF Active(renewing[h]) /\ Room THEN Successor(renewing[h]) ELSE grants
  /\ renewing' = [renewing EXCEPT ![h] = 0]
  /\ UNCHANGED <<now, prompting, prompted>>

Revoke(g) ==
  /\ Active(g)
  /\ End(g, "revoked", "manual_revocation")
  /\ UNCHANGED <<now, renewing, prompting, prompted>>

\* sweepExpired, for one of the lapsed rows it found.
SweepExpired(g) ==
  /\ Active(g) /\ Lapsed(g)
  /\ End(g, "expired", "expired")
  /\ UNCHANGED <<now, renewing, prompting, prompted>>

\* RenewalPromptTask reads the grants that expire soon, then claims and
\* prompts about each; a prompt no transport takes is not tried again.
ExpiringSoon ==
  {g \in DOMAIN grants : Active(g) /\ ~Lapsed(g) /\ grants[g].expiresAt <= now + NearExpiry}

PromptRead(p) ==
  /\ prompting[p] = {} /\ ExpiringSoon # {}
  /\ prompting' = [prompting EXCEPT ![p] = ExpiringSoon]
  /\ UNCHANGED <<now, grants, renewing, prompted>>

ClaimableAlways(g) == Active(g)
Claimable(g) == Active(g) /\ ~grants[g].renewalPrompted

ClaimRenewalPrompt(p, g) ==
  /\ g \in prompting[p]
  /\ prompting' = [prompting EXCEPT ![p] = @ \ {g}]
  /\ IF Claimable(g)
       THEN /\ grants' = [grants EXCEPT ![g].renewalPrompted = TRUE]
            /\ \E sent \in {0, 1} : prompted' = [prompted EXCEPT ![g] = @ + sent]
       ELSE UNCHANGED <<grants, prompted>>
  /\ UNCHANGED <<now, renewing>>

GrantNext ==
  \/ \E c \in Classes, t \in GrantTerms : CreateGrant(c, t)
  \/ \E h \in Humans : RenewCommit(h) \/ \E g \in DOMAIN grants : RenewRead(h, g)
  \/ \E g \in DOMAIN grants : Revoke(g) \/ SweepExpired(g)
  \/ \E p \in Prompts : PromptRead(p) \/ \E g \in GrantIds : ClaimRenewalPrompt(p, g)

-----------------------------------------------------------------------------
(* Properties *)

\* A renewal carries a grant on, it never widens it: a successor has at most
\* the lifetime, the budget and the tolerances of the grant it renews, that
\* grant was ended by the renewal and by nothing else, and it has one
\* successor, whoever else renews or revokes it meanwhile.
RenewalNeverWidens ==
  \A g \in DOMAIN grants : grants[g].renewedFrom # 0 =>
    LET old == grants[grants[g].renewedFrom] IN
    /\ old.reason = "superseded_by_renewal"
    /\ grants[g].expiresAt - grants[g].createdAt <= old.expiresAt - old.createdAt
    /\ grants[g].budgetCeilingUsd <= old.budgetCeilingUsd
    /\ grants[g].maxFailureRate <= old.maxFailureRate
    /\ grants[g].maxCostPerActionUsd <= old.maxCostPerActionUsd
    /\ grants[g].minActions <= old.minActions
    /\ \A h \in DOMAIN grants : grants[h].renewedFrom = grants[g].renewedFrom => h = g

\* A human is prompted about a grant at most once, however often the hourly
\* sweep finds it and even if two sweeps overlap.
PromptedOnce == \A g \in GrantIds : prompted[g] <= 1

\* A grant that has ended stays as it ended: a revocation is not turned into
\* an expiry or a suspension by a writer that read the row while it was
\* active, and nothing reactivates it.
EndedStaysEnded ==
  [][\A g \in DOMAIN grants : ~Active(g) =>
       /\ grants'[g].status = grants[g].status
       /\ grants'[g].reason = grants[g].reason]_<<now, grantVars>>

=============================================================================
