--------------------------- MODULE DelegationProofs ---------------------------
(***************************************************************************)
(* Proofs about TrustGrants, ApprovalGate and PromotionLadder on one clock *)
(* and with every interleaving of their steps.                             *)
(*                                                                         *)
(* The grants and the approvals are tables that many actions write.  The   *)
(* proofs go through what a step may do to a table (GrantStep,             *)
(* ApprovalStep): one lemma per kind of write shows that it is such a      *)
(* step, and the invariants are shown of the steps alone.                  *)
(***************************************************************************)
EXTENDS MCDelegation, TableFacts, FiniteSetTheorems

ClockTicks ==
  /\ now < MaxNow /\ now' = now + 1
  /\ UNCHANGED <<grantVars, gateVars, ladderVars>>

delegationVars == <<now, grantVars, gateVars, ladderVars>>

DelegationInit == GrantInit /\ GateInit /\ LadderInit

DelegationNext ==
  \/ ClockTicks
  \/ GrantNext /\ UNCHANGED <<gateVars, ladderVars>>
  \/ GateNext /\ UNCHANGED ladderVars
  \/ LadderNext

DelegationSpec == DelegationInit /\ [][DelegationNext]_delegationVars

-----------------------------------------------------------------------------
(* Rows of the grant table *)

GrantFields ==
  {"class", "status", "reason", "renewedFrom", "fromApproval", "createdAt", "expiresAt",
   "budgetCeilingUsd", "maxFailureRate", "maxCostPerActionUsd", "minActions",
   "spentUsd", "actionsAuthorized", "actionsFailed", "renewalPrompted"}

GrantRow(r) ==
  /\ DOMAIN r = GrantFields
  /\ r.class \in Classes
  /\ r.status \in {"active"} \cup Ended /\ r.reason \in {"none"} \cup Reasons
  /\ r.status = "active" => r.reason = "none"
  /\ r.renewedFrom \in Nat
  /\ r.createdAt \in Int /\ r.expiresAt \in Int
  /\ r.budgetCeilingUsd \in Int /\ r.maxFailureRate \in Int
  /\ r.maxCostPerActionUsd \in Int /\ r.minActions \in Int
  /\ r.budgetCeilingUsd > 0 /\ r.minActions >= 1
  /\ r.spentUsd \in Int /\ r.actionsAuthorized \in Nat /\ r.actionsFailed \in Nat
  /\ r.actionsFailed <= r.actionsAuthorized
  /\ r.renewalPrompted \in BOOLEAN

GrantsTable ==
  /\ IsSeq(grants) /\ Len(grants) <= MaxGrants
  /\ \A g \in DOMAIN grants : GrantRow(grants[g]) /\ grants[g].renewedFrom < g

SameTerms(r, s) ==
  /\ s.class = r.class /\ s.renewedFrom = r.renewedFrom
  /\ s.createdAt = r.createdAt /\ s.expiresAt = r.expiresAt
  /\ s.budgetCeilingUsd = r.budgetCeilingUsd /\ s.maxFailureRate = r.maxFailureRate
  /\ s.maxCostPerActionUsd = r.maxCostPerActionUsd /\ s.minActions = r.minActions

SameUse(r, s) ==
  /\ s.spentUsd = r.spentUsd
  /\ s.actionsAuthorized = r.actionsAuthorized /\ s.actionsFailed = r.actionsFailed

\* What any write may make of a row.
KeptRow(r, s) ==
  /\ GrantRow(s) /\ SameTerms(r, s)
  /\ r.status # "active" => s.status = r.status /\ s.reason = r.reason
  /\ r.renewalPrompted => s.renewalPrompted

Narrower(s, r) ==
  /\ s.expiresAt - s.createdAt <= r.expiresAt - r.createdAt
  /\ s.budgetCeilingUsd <= r.budgetCeilingUsd
  /\ s.maxFailureRate <= r.maxFailureRate
  /\ s.maxCostPerActionUsd <= r.maxCostPerActionUsd
  /\ s.minActions <= r.minActions

\* The one row a step may add: untouched, and new or the successor of a row
\* this very step ended.
FreshRow(s) ==
  /\ GrantRow(s)
  /\ s.spentUsd = 0 /\ s.actionsAuthorized = 0 /\ s.actionsFailed = 0
  /\ s.renewedFrom # 0 =>
       /\ s.renewedFrom \in DOMAIN grants
       /\ Active(s.renewedFrom)
       /\ grants'[s.renewedFrom].reason = "superseded_by_renewal"
       /\ Narrower(s, grants[s.renewedFrom])

GrantStep(charged) ==
  /\ IsSeq(grants') /\ Len(grants') <= MaxGrants
  /\ Len(grants') \in {Len(grants), Len(grants) + 1}
  /\ \A g \in DOMAIN grants :
       /\ g \in DOMAIN grants' /\ KeptRow(grants[g], grants'[g])
       /\ g \notin charged => SameUse(grants[g], grants'[g])
  /\ \A g \in DOMAIN grants' : g \notin DOMAIN grants => FreshRow(grants'[g])

\* A step that writes no grant.
LEMMA NoGrantWrite ==
  ASSUME GrantsTable, UNCHANGED grants PROVE GrantStep({})
<1>1. Len(grants) \in Nat /\ DOMAIN grants = 1..Len(grants) BY SeqIds DEF GrantsTable
<1>2. \A g \in DOMAIN grants : KeptRow(grants[g], grants[g]) /\ SameUse(grants[g], grants[g])
  BY DEF GrantsTable, KeptRow, SameTerms, SameUse
<1> QED BY <1>1, <1>2 DEF GrantsTable, GrantStep

\* A row that is written in place.
LEMMA GrantReplaced ==
  ASSUME GrantsTable, NEW g, NEW row,
         g \in DOMAIN grants => KeptRow(grants[g], row),
         grants' = [grants EXCEPT ![g] = row]
  PROVE  /\ GrantStep({g})
         /\ (g \in DOMAIN grants => SameUse(grants[g], row)) => GrantStep({})
<1>1. Len(grants) \in Nat /\ DOMAIN grants = 1..Len(grants) BY SeqIds DEF GrantsTable
<1>2. /\ IsSeq(grants') /\ Len(grants') = Len(grants) /\ DOMAIN grants' = DOMAIN grants
      /\ \A h \in DOMAIN grants : grants'[h] = IF h = g THEN row ELSE grants[h]
  BY SeqReplace DEF GrantsTable
<1>3. \A h \in DOMAIN grants : KeptRow(grants[h], grants[h]) /\ SameUse(grants[h], grants[h])
  BY DEF GrantsTable, KeptRow, SameTerms, SameUse
<1>4. \A h \in DOMAIN grants : /\ KeptRow(grants[h], grants'[h])
                               /\ h # g => SameUse(grants[h], grants'[h])
  BY <1>2, <1>3
<1>5. IsSeq(grants') /\ Len(grants') <= MaxGrants /\ Len(grants') \in {Len(grants), Len(grants) + 1}
  BY <1>2 DEF GrantsTable
<1>6. GrantStep({g}) BY <1>2, <1>4, <1>5 DEF GrantStep
<1>7. ASSUME g \in DOMAIN grants => SameUse(grants[g], row) PROVE GrantStep({})
  <2>1. \A h \in DOMAIN grants : SameUse(grants[h], grants'[h]) BY <1>2, <1>3, <1>7
  <2> QED BY <2>1, <1>2, <1>4, <1>5 DEF GrantStep
<1> QED BY <1>6, <1>7

\* A row that is ended, if it was active, with any reason there is.
LEMMA EndedRowKept ==
  ASSUME NEW r, GrantRow(r), r.status = "active",
         NEW s \in Ended, NEW reason \in Reasons
  PROVE  /\ KeptRow(r, EndedRow(r, s, reason)) /\ SameUse(r, EndedRow(r, s, reason))
         /\ EndedRow(r, s, reason).status = s
         /\ EndedRow(r, s, reason).reason = reason
<1> DEFINE e == EndedRow(r, s, reason)
<1>1. /\ DOMAIN e = GrantFields /\ e.status = s /\ e.reason = reason
      /\ \A f \in GrantFields \ {"status", "reason"} : e[f] = r[f]
  BY DEF EndedRow, GrantRow, GrantFields
<1> HIDE DEF e
<1>2. e.status # "active" BY <1>1 DEF Ended
<1>3. SameTerms(r, e) /\ SameUse(r, e) BY <1>1 DEF SameTerms, SameUse, GrantFields
<1>4. GrantRow(e) BY <1>1, <1>2 DEF GrantRow, GrantFields
<1>5. e.renewalPrompted = r.renewalPrompted BY <1>1 DEF GrantFields
<1> QED BY <1>1, <1>3, <1>4, <1>5 DEF KeptRow, e

\* End, whichever way of ending a grant calls it.
LEMMA GrantEnded ==
  ASSUME GrantsTable, NEW g, NEW s \in Ended, NEW reason \in Reasons, End(g, s, reason)
  PROVE  /\ GrantStep({})
         /\ g \in DOMAIN grants => g \in DOMAIN grants' /\ grants'[g].status # "active"
<1> DEFINE row == EndedRow(grants[g], s, reason)
<1>1. CASE Active(g)
  <2>1. grants' = [grants EXCEPT ![g] = row] BY <1>1 DEF End
  <2>2. g \in DOMAIN grants => /\ KeptRow(grants[g], row) /\ SameUse(grants[g], row)
                               /\ row.status = s
    BY <1>1, EndedRowKept DEF GrantsTable, Active
  <2> HIDE DEF row
  <2>3. GrantStep({}) BY <2>1, <2>2, GrantReplaced
  <2>4. g \in DOMAIN grants => g \in DOMAIN grants' /\ grants'[g] = row
    BY <2>1, SeqReplace DEF GrantsTable
  <2> QED BY <2>2, <2>3, <2>4 DEF Ended
<1>2. CASE ~Active(g)
  BY <1>2, NoGrantWrite DEF End, Active
<1> QED BY <1>1, <1>2

\* The row create writes.
LEMMA NewGrantRow ==
  ASSUME now \in Nat, NEW c \in Classes, NEW t \in Terms,
         t.budgetCeilingUsd > 0, t.minActions >= 1,
         NEW from \in Nat, NEW approval
  PROVE  LET s == NewGrant(c, t, from, approval)
         IN  /\ GrantRow(s)
             /\ s.spentUsd = 0 /\ s.actionsAuthorized = 0 /\ s.actionsFailed = 0
             /\ s.renewedFrom = from /\ s.status = "active"
             /\ s.expiresAt - s.createdAt = t.term
             /\ s.budgetCeilingUsd = t.budgetCeilingUsd
             /\ s.maxFailureRate = t.maxFailureRate
             /\ s.maxCostPerActionUsd = t.maxCostPerActionUsd
             /\ s.minActions = t.minActions
<1> DEFINE s == NewGrant(c, t, from, approval)
<1>1. /\ t.term \in Int /\ t.budgetCeilingUsd \in Int /\ t.maxFailureRate \in Int
      /\ t.maxCostPerActionUsd \in Int /\ t.minActions \in Int
  BY DEF Terms
<1>2. DOMAIN s = GrantFields BY DEF NewGrant, GrantFields
<1>3. /\ s.class = c /\ s.status = "active" /\ s.reason = "none" /\ s.renewedFrom = from
      /\ s.createdAt = now /\ s.expiresAt = now + t.term
      /\ s.budgetCeilingUsd = t.budgetCeilingUsd /\ s.maxFailureRate = t.maxFailureRate
      /\ s.maxCostPerActionUsd = t.maxCostPerActionUsd /\ s.minActions = t.minActions
      /\ s.spentUsd = 0 /\ s.actionsAuthorized = 0 /\ s.actionsFailed = 0
      /\ s.renewalPrompted = FALSE
  BY DEF NewGrant
<1> HIDE DEF s
<1>4. GrantRow(s)
  <2>1. s.renewalPrompted \in BOOLEAN BY <1>3
  <2>2. s.createdAt \in Int /\ s.expiresAt \in Int BY <1>1, <1>3
  <2>3. s.status \in {"active"} \cup Ended /\ s.reason \in {"none"} \cup Reasons BY <1>3
  <2>4. /\ s.budgetCeilingUsd > 0 /\ s.minActions >= 1 /\ s.actionsFailed <= s.actionsAuthorized
        /\ s.spentUsd \in Int /\ s.actionsAuthorized \in Nat /\ s.actionsFailed \in Nat
    BY <1>3
  <2>5. /\ s.class \in Classes /\ s.renewedFrom \in Nat
        /\ s.budgetCeilingUsd \in Int /\ s.maxFailureRate \in Int
        /\ s.maxCostPerActionUsd \in Int /\ s.minActions \in Int
    BY <1>1, <1>3
  <2> QED BY <1>2, <1>3, <2>1, <2>2, <2>3, <2>4, <2>5 DEF GrantRow
<1>5. s.expiresAt - s.createdAt = t.term BY <1>1, <1>3
<1> QED BY <1>3, <1>4, <1>5 DEF s

\* create, by an administrator or by a tap on "always approve this class".
LEMMA GrantCreated ==
  ASSUME GrantsTable, now \in Nat, NEW c \in Classes, NEW t \in Terms, NEW approval,
         create(c, t, approval)
  PROVE  /\ GrantStep({}) /\ Len(grants') = Len(grants) + 1
         /\ DOMAIN grants' = 1..(Len(grants) + 1)
<1> DEFINE s == NewGrant(c, t, 0, approval)
<1>1. Len(grants) \in Nat /\ DOMAIN grants = 1..Len(grants) BY SeqIds DEF GrantsTable
<1>2. /\ GrantRow(s) /\ s.spentUsd = 0 /\ s.actionsAuthorized = 0 /\ s.actionsFailed = 0
      /\ s.renewedFrom = 0
  BY NewGrantRow DEF create, ValidTerms
<1>3. grants' = Append(grants, s) /\ Len(grants) < MaxGrants BY DEF create, Room
<1> HIDE DEF s
<1>4. /\ IsSeq(grants') /\ Len(grants') = Len(grants) + 1
      /\ DOMAIN grants' = 1..(Len(grants) + 1)
      /\ \A i \in DOMAIN grants : grants'[i] = grants[i]
      /\ grants'[Len(grants) + 1] = s
  BY <1>3, SeqAppend DEF GrantsTable
<1>5. \A g \in DOMAIN grants : /\ KeptRow(grants[g], grants'[g])
                               /\ SameUse(grants[g], grants'[g])
  BY <1>4 DEF GrantsTable, KeptRow, SameTerms, SameUse
<1>6. \A g \in DOMAIN grants' : g \notin DOMAIN grants => g = Len(grants) + 1 BY <1>1, <1>4
<1>7. FreshRow(s) BY <1>2 DEF FreshRow
<1>8. Len(grants') <= MaxGrants BY <1>1, <1>3, <1>4, GrantConstants
<1>9. DOMAIN grants \subseteq DOMAIN grants' BY <1>1, <1>4
<1> QED BY <1>4, <1>5, <1>6, <1>7, <1>8, <1>9 DEF GrantStep

\* narrowerOf: valid terms, and none of them above what the old grant had.
LEMMA NarrowerTerms ==
  ASSUME NEW r, GrantRow(r)
  PROVE  LET t == narrowerOf(r)
         IN  /\ t \in Terms /\ t.budgetCeilingUsd > 0 /\ t.minActions >= 1
             /\ t.term <= r.expiresAt - r.createdAt
             /\ t.budgetCeilingUsd <= r.budgetCeilingUsd
             /\ t.maxFailureRate <= r.maxFailureRate
             /\ t.maxCostPerActionUsd <= r.maxCostPerActionUsd
             /\ t.minActions <= r.minActions
<1> DEFINE t == narrowerOf(r)
<1>1. /\ DefaultTerms.term \in Int /\ DefaultTerms.budgetCeilingUsd \in Int
      /\ DefaultTerms.maxFailureRate \in Int /\ DefaultTerms.maxCostPerActionUsd \in Int
      /\ DefaultTerms.minActions \in Int
      /\ DefaultTerms.budgetCeilingUsd > 0 /\ DefaultTerms.minActions >= 1
  BY GrantConstants, DefaultsValid DEF Terms, ValidTerms
<1>2. \A a, b \in Int : Smaller(a, b) \in {a, b} /\ Smaller(a, b) <= a /\ Smaller(a, b) <= b
  BY DEF Smaller
<1>3. /\ t.term = Smaller(DefaultTerms.term, r.expiresAt - r.createdAt)
      /\ t.budgetCeilingUsd = Smaller(r.budgetCeilingUsd, DefaultTerms.budgetCeilingUsd)
      /\ t.maxFailureRate = Smaller(r.maxFailureRate, DefaultTerms.maxFailureRate)
      /\ t.maxCostPerActionUsd = Smaller(r.maxCostPerActionUsd, DefaultTerms.maxCostPerActionUsd)
      /\ t.minActions = Smaller(r.minActions, DefaultTerms.minActions)
  BY DEF narrowerOf
<1>4. /\ r.expiresAt - r.createdAt \in Int /\ r.budgetCeilingUsd \in Int
      /\ r.maxFailureRate \in Int /\ r.maxCostPerActionUsd \in Int /\ r.minActions \in Int
      /\ r.budgetCeilingUsd > 0 /\ r.minActions >= 1
  BY DEF GrantRow
<1>5. /\ t.term \in Int /\ t.budgetCeilingUsd \in Int /\ t.maxFailureRate \in Int
      /\ t.maxCostPerActionUsd \in Int /\ t.minActions \in Int
  BY <1>1, <1>2, <1>3, <1>4
<1>6. t \in Terms BY <1>5 DEF Terms, narrowerOf
<1>7. t.budgetCeilingUsd > 0 /\ t.minActions >= 1 BY <1>1, <1>2, <1>3, <1>4
<1>8. /\ t.term <= r.expiresAt - r.createdAt
      /\ t.budgetCeilingUsd <= r.budgetCeilingUsd
      /\ t.maxFailureRate <= r.maxFailureRate
      /\ t.maxCostPerActionUsd <= r.maxCostPerActionUsd
      /\ t.minActions <= r.minActions
  BY <1>1, <1>2, <1>3, <1>4
<1> QED BY <1>6, <1>7, <1>8

\* renew's transaction: the old row ends and its successor is added.
LEMMA GrantRenewed ==
  ASSUME GrantsTable, now \in Nat, NEW g \in DOMAIN grants, Active(g), Room,
         grants' = Successor(g)
  PROVE  GrantStep({})
<1> DEFINE old == grants[g]
           row == EndedRow(old, "revoked", "superseded_by_renewal")
           mid == [grants EXCEPT ![g] = row]
           t   == narrowerOf(old)
           s   == NewGrant(old.class, t, g, 0)
<1>1. Len(grants) \in Nat /\ DOMAIN grants = 1..Len(grants) BY SeqIds DEF GrantsTable
<1>2. GrantRow(old) /\ old.class \in Classes /\ old.status = "active" /\ g \in Nat
  BY <1>1 DEF GrantsTable, GrantRow, Active
<1>3. KeptRow(old, row) /\ SameUse(old, row) /\ row.reason = "superseded_by_renewal"
  BY <1>2, EndedRowKept DEF Ended, Reasons
<1>4. /\ t \in Terms /\ t.budgetCeilingUsd > 0 /\ t.minActions >= 1
      /\ t.term <= old.expiresAt - old.createdAt
      /\ t.budgetCeilingUsd <= old.budgetCeilingUsd
      /\ t.maxFailureRate <= old.maxFailureRate
      /\ t.maxCostPerActionUsd <= old.maxCostPerActionUsd
      /\ t.minActions <= old.minActions
  BY <1>2, NarrowerTerms
<1> HIDE DEF t
<1>5. /\ GrantRow(s) /\ s.spentUsd = 0 /\ s.actionsAuthorized = 0 /\ s.actionsFailed = 0
      /\ s.renewedFrom = g /\ s.expiresAt - s.createdAt = t.term
      /\ s.budgetCeilingUsd = t.budgetCeilingUsd /\ s.maxFailureRate = t.maxFailureRate
      /\ s.maxCostPerActionUsd = t.maxCostPerActionUsd /\ s.minActions = t.minActions
  BY <1>2, <1>4, NewGrantRow
<1>6. grants' = Append(mid, s) BY DEF Successor, t
<1> HIDE DEF row, s
<1>7. /\ IsSeq(mid) /\ Len(mid) = Len(grants) /\ DOMAIN mid = DOMAIN grants
      /\ \A h \in DOMAIN grants : mid[h] = IF h = g THEN row ELSE grants[h]
  BY SeqReplace DEF GrantsTable
<1> HIDE DEF mid
<1>8. /\ IsSeq(grants') /\ Len(grants') = Len(grants) + 1
      /\ DOMAIN grants' = 1..(Len(grants) + 1)
      /\ \A h \in DOMAIN grants : grants'[h] = IF h = g THEN row ELSE grants[h]
      /\ grants'[Len(grants) + 1] = s
  BY <1>6, <1>7, SeqAppend
<1>9. \A h \in DOMAIN grants : KeptRow(grants[h], grants[h]) /\ SameUse(grants[h], grants[h])
  BY DEF GrantsTable, KeptRow, SameTerms, SameUse
<1>10. \A h \in DOMAIN grants : KeptRow(grants[h], grants'[h]) /\ SameUse(grants[h], grants'[h])
  BY <1>3, <1>8, <1>9
<1>11. Narrower(s, old) BY <1>4, <1>5 DEF Narrower
<1>12. FreshRow(s) BY <1>2, <1>3, <1>5, <1>8, <1>11 DEF FreshRow
<1>13. \A h \in DOMAIN grants' : h \notin DOMAIN grants => h = Len(grants) + 1 BY <1>1, <1>8
<1>14. DOMAIN grants \subseteq DOMAIN grants' BY <1>1, <1>8
<1>15. Len(grants') <= MaxGrants BY <1>1, <1>8, GrantConstants DEF Room
<1> QED BY <1>8, <1>10, <1>12, <1>13, <1>14, <1>15 DEF GrantStep

-----------------------------------------------------------------------------
(* What a step leaves of the table *)

\* Ids of grants are not reused: a step adds the next one at most.
LEMMA GrantIdsGrow ==
  ASSUME GrantsTable, NEW charged, GrantStep(charged)
  PROVE  /\ Len(grants) \in Nat /\ DOMAIN grants = 1..Len(grants)
         /\ Len(grants') \in Nat /\ DOMAIN grants' = 1..Len(grants')
         /\ Len(grants) <= Len(grants')
         /\ DOMAIN grants \subseteq DOMAIN grants'
         /\ \A g \in DOMAIN grants' : g \notin DOMAIN grants =>
              g = Len(grants) + 1 /\ Len(grants') = Len(grants) + 1
<1>1. Len(grants) \in Nat /\ DOMAIN grants = 1..Len(grants) BY SeqIds DEF GrantsTable
<1>2. Len(grants') \in Nat /\ DOMAIN grants' = 1..Len(grants') BY SeqIds DEF GrantStep
<1>3. Len(grants') = Len(grants) \/ Len(grants') = Len(grants) + 1 BY DEF GrantStep
<1> DEFINE n == Len(grants)
           m == Len(grants')
<1>4. n \in Nat /\ m \in Nat /\ (m = n \/ m = n + 1) BY <1>1, <1>2, <1>3
<1>5. DOMAIN grants = 1..n /\ DOMAIN grants' = 1..m BY <1>1, <1>2
<1> HIDE DEF n, m
<1>6. n <= m /\ 1..n \subseteq 1..m BY <1>4
<1>7. \A g \in 1..m : g \notin 1..n => g = n + 1 /\ m = n + 1 BY <1>4
<1> QED BY <1>4, <1>5, <1>6, <1>7 DEF n, m

\* Whatever writes the grants leaves well-formed rows.
LEMMA GrantsTableKept ==
  ASSUME GrantsTable, NEW charged, GrantStep(charged) PROVE GrantsTable'
<1>1. IsSeq(grants') /\ Len(grants') <= MaxGrants BY DEF GrantStep
<1>2. \A g \in DOMAIN grants' : GrantRow(grants'[g]) /\ grants'[g].renewedFrom < g
  <2> TAKE g \in DOMAIN grants'
  <2>1. CASE g \in DOMAIN grants
    BY <2>1 DEF GrantStep, GrantsTable, KeptRow, SameTerms
  <2>2. CASE g \notin DOMAIN grants
    <3>1. FreshRow(grants'[g]) BY <2>2 DEF GrantStep
    <3>2. g = Len(grants) + 1 /\ Len(grants) \in Nat /\ DOMAIN grants = 1..Len(grants)
      BY <2>2, GrantIdsGrow
    <3>3. grants'[g].renewedFrom \in Nat /\ GrantRow(grants'[g]) BY <3>1 DEF FreshRow, GrantRow
    <3>4. grants'[g].renewedFrom # 0 => grants'[g].renewedFrom \in 1..Len(grants)
      BY <3>1, <3>2 DEF FreshRow
    <3> QED BY <3>2, <3>3, <3>4
  <2> QED BY <2>1, <2>2
<1> QED BY <1>1, <1>2 DEF GrantsTable

\* A successor is never wider than the grant it renews, and is its only one.
LEMMA RenewalKept ==
  ASSUME GrantsTable, RenewalNeverWidens, NEW charged, GrantStep(charged)
  PROVE  RenewalNeverWidens'
<1> DEFINE from(g) == grants[g].renewedFrom
<1>0. /\ Len(grants) \in Nat /\ DOMAIN grants = 1..Len(grants)
      /\ \A g \in DOMAIN grants' : g \notin DOMAIN grants => g = Len(grants) + 1
  BY GrantIdsGrow
<1>1. \A g \in DOMAIN grants : /\ GrantRow(grants[g]) /\ KeptRow(grants[g], grants'[g])
                               /\ from(g) < g /\ from(g) \in Nat
                               /\ SameTerms(grants[g], grants'[g])
  BY DEF GrantsTable, GrantRow, GrantStep, KeptRow
<1>2. \A g \in DOMAIN grants : from(g) # 0 => from(g) \in DOMAIN grants
  BY <1>0, <1>1
<1>3. \A g \in DOMAIN grants : grants[g].reason = "superseded_by_renewal" =>
        ~Active(g) /\ grants'[g].reason = "superseded_by_renewal"
  BY <1>1 DEF GrantRow, KeptRow, Active
<1>4. \A g \in DOMAIN grants' : g \notin DOMAIN grants => FreshRow(grants'[g])
  BY DEF GrantStep
<1>5. \A g \in DOMAIN grants : from(g) # 0 =>
        /\ grants[from(g)].reason = "superseded_by_renewal"
        /\ Narrower(grants[g], grants[from(g)])
        /\ \A h \in DOMAIN grants : from(h) = from(g) => h = g
  BY DEF RenewalNeverWidens, Narrower
<1>6. SUFFICES ASSUME NEW g \in DOMAIN grants', grants'[g].renewedFrom # 0
               PROVE  LET f == grants'[g].renewedFrom
                      IN  /\ grants'[f].reason = "superseded_by_renewal"
                          /\ Narrower(grants'[g], grants'[f])
                          /\ \A h \in DOMAIN grants' : grants'[h].renewedFrom = f => h = g
  BY DEF RenewalNeverWidens, Narrower
<1> DEFINE f == grants'[g].renewedFrom
<1>7. CASE g \in DOMAIN grants
  <2>1. f = from(g) /\ f \in DOMAIN grants BY <1>1, <1>2, <1>6, <1>7 DEF SameTerms
  <2>2. grants[f].reason = "superseded_by_renewal" /\ Narrower(grants[g], grants[f])
    BY <1>5, <1>6, <1>7, <2>1
  <2>3. grants'[f].reason = "superseded_by_renewal" /\ ~Active(f) BY <1>3, <2>1, <2>2
  <2>4. Narrower(grants'[g], grants'[f])
    BY <1>1, <1>7, <2>1, <2>2 DEF Narrower, SameTerms
  <2>5. \A h \in DOMAIN grants' : grants'[h].renewedFrom = f => h = g
    <3> SUFFICES ASSUME NEW h \in DOMAIN grants', grants'[h].renewedFrom = f PROVE h = g
      OBVIOUS
    <3>1. CASE h \in DOMAIN grants
      <4>1. from(h) = from(g) BY <1>1, <2>1, <3>1 DEF SameTerms
      <4> QED BY <1>5, <1>6, <1>7, <2>1, <3>1, <4>1
    <3>2. CASE h \notin DOMAIN grants BY <1>4, <1>6, <2>3, <3>2 DEF FreshRow
    <3> QED BY <3>1, <3>2
  <2> QED BY <2>3, <2>4, <2>5
<1>8. CASE g \notin DOMAIN grants
  <2>1. /\ f \in DOMAIN grants /\ Active(f) /\ grants'[f].reason = "superseded_by_renewal"
        /\ Narrower(grants'[g], grants[f])
    BY <1>4, <1>6, <1>8 DEF FreshRow
  <2>2. Narrower(grants'[g], grants'[f]) BY <1>1, <2>1 DEF Narrower, SameTerms
  <2>3. \A h \in DOMAIN grants' : grants'[h].renewedFrom = f => h = g
    <3> SUFFICES ASSUME NEW h \in DOMAIN grants', grants'[h].renewedFrom = f PROVE h = g
      OBVIOUS
    <3>1. CASE h \in DOMAIN grants
      <4>1. from(h) = f BY <1>1, <3>1 DEF SameTerms
      <4>2. grants[f].reason = "superseded_by_renewal" BY <1>5, <1>6, <3>1, <4>1
      <4> QED BY <1>3, <2>1, <4>2
    <3>2. CASE h \notin DOMAIN grants BY <1>0, <1>8, <3>2
    <3> QED BY <3>1, <3>2
  <2> QED BY <2>1, <2>2, <2>3
<1> QED BY <1>7, <1>8

-----------------------------------------------------------------------------
(* Rows of the approval table *)

ApprovalFields ==
  {"class", "status", "policy", "via", "grant", "usd", "createdAt", "createdGrant",
   "linked", "timeoutAt"}

ApprovalRow(r) ==
  /\ DOMAIN r = ApprovalFields
  /\ r.class \in Classes /\ r.status \in OPEN_STATUSES \cup Decided
  /\ r.policy = resolveTimeoutPolicy(r.class)
  /\ r.via \in {"none", "human", "grant", "timeout"}
  /\ r.grant \in Nat /\ r.usd \in Costs /\ r.createdAt \in Nat
  /\ r.timeoutAt \in Int
  /\ r.via # "none" => r.status \in Decided
  /\ r.status = "approved" => r.via \in {"human", "grant"}
  /\ r.via = "grant" => r.status = "approved" /\ isAutonomyEligible(r.class)
  /\ r.status = "auto_approved" => r.policy = "auto_approve"

ApprovalsTable ==
  /\ IsSeq(approvals) /\ Len(approvals) <= MaxApprovals
  /\ \A a \in DOMAIN approvals : ApprovalRow(approvals[a])

\* What any write may make of a row.
KeptApproval(r, s) ==
  /\ ApprovalRow(s)
  /\ s.class = r.class /\ s.policy = r.policy /\ s.grant = r.grant /\ s.usd = r.usd
  /\ s.createdAt = r.createdAt /\ s.timeoutAt = r.timeoutAt
  /\ r.status \in Decided => s.status = r.status /\ s.via = r.via
  /\ s.via = "grant" => r.via = "grant"
  /\ s.status = "auto_approved" => r.status = "auto_approved" \/ r.timeoutAt <= now
  /\ s.createdGrant \in {r.createdGrant} \cup DOMAIN grants

\* A row gate adds.
FreshApproval(s) ==
  /\ ApprovalRow(s) /\ s.status # "auto_approved" /\ s.createdGrant = 0
  /\ s.grant \in {0} \cup DOMAIN grants
  /\ s.via = "grant" => s.grant # 0 /\ grants[s.grant].class = s.class

ApprovalStep ==
  /\ IsSeq(approvals') /\ Len(approvals') <= MaxApprovals
  /\ Len(approvals') \in {Len(approvals), Len(approvals) + 1}
  /\ \A a \in DOMAIN approvals : /\ a \in DOMAIN approvals'
                                 /\ KeptApproval(approvals[a], approvals'[a])
  /\ \A a \in DOMAIN approvals' : a \notin DOMAIN approvals => FreshApproval(approvals'[a])

\* A row that is not written.
LEMMA ApprovalUnwritten ==
  ASSUME NEW r, ApprovalRow(r) PROVE KeptApproval(r, r)
BY DEF KeptApproval

\* A step that writes no approval.
LEMMA NoApprovalWrite ==
  ASSUME ApprovalsTable, UNCHANGED approvals PROVE ApprovalStep
<1>1. \A a \in DOMAIN approvals : KeptApproval(approvals[a], approvals[a])
  BY ApprovalUnwritten DEF ApprovalsTable
<1> QED BY <1>1 DEF ApprovalsTable, ApprovalStep

\* A row that is written in place.
LEMMA ApprovalReplaced ==
  ASSUME ApprovalsTable, NEW a, NEW row,
         a \in DOMAIN approvals => KeptApproval(approvals[a], row),
         approvals' = [approvals EXCEPT ![a] = row]
  PROVE  ApprovalStep
<1>1. /\ IsSeq(approvals') /\ Len(approvals') = Len(approvals)
      /\ DOMAIN approvals' = DOMAIN approvals
      /\ \A b \in DOMAIN approvals : approvals'[b] = IF b = a THEN row ELSE approvals[b]
  BY SeqReplace DEF ApprovalsTable
<1>2. \A b \in DOMAIN approvals : KeptApproval(approvals[b], approvals'[b])
  BY <1>1, ApprovalUnwritten DEF ApprovalsTable
<1> QED BY <1>1, <1>2 DEF ApprovalsTable, ApprovalStep

\* decide, sweepTimeouts and supersede: an open row gets its outcome.
LEMMA ApprovalResolved ==
  ASSUME ApprovalsTable, NEW a, a \in DOMAIN approvals => Open(a),
         NEW status \in Decided, NEW via \in {"none", "human", "timeout"},
         status = "approved" => via = "human",
         a \in DOMAIN approvals /\ status = "auto_approved" =>
            approvals[a].policy = "auto_approve" /\ approvals[a].timeoutAt <= now,
         Resolve(a, status, via)
  PROVE  ApprovalStep
<1> DEFINE r == approvals[a]
           row == [r EXCEPT !.status = status, !.via = via]
<1>1. approvals' = [approvals EXCEPT ![a] = row]
  <2>1. approvals = [b \in DOMAIN approvals |-> approvals[b]] BY DEF ApprovalsTable, IsSeq
  <2> QED BY <2>1 DEF Resolve
<1>2. a \in DOMAIN approvals => KeptApproval(r, row)
  <2> SUFFICES ASSUME a \in DOMAIN approvals PROVE KeptApproval(r, row) OBVIOUS
  <2>1. ApprovalRow(r) /\ r.status \in OPEN_STATUSES BY DEF ApprovalsTable, Open
  <2>2. /\ DOMAIN row = ApprovalFields /\ row.status = status /\ row.via = via
        /\ \A f \in ApprovalFields \ {"status", "via"} : row[f] = r[f]
    BY <2>1 DEF ApprovalRow, ApprovalFields
  <2> HIDE DEF row
  <2>3. /\ row.class = r.class /\ row.policy = r.policy /\ row.grant = r.grant
        /\ row.usd = r.usd /\ row.createdAt = r.createdAt /\ row.timeoutAt = r.timeoutAt
        /\ row.createdGrant = r.createdGrant
    BY <2>2 DEF ApprovalFields
  <2>4. r.status \notin Decided BY <2>1 DEF OPEN_STATUSES, Decided
  <2>5. ApprovalRow(row) BY <2>1, <2>2, <2>3 DEF ApprovalRow
  <2> QED BY <2>2, <2>3, <2>4, <2>5 DEF KeptApproval
<1> QED BY <1>1, <1>2, ApprovalReplaced

\* linkEscalation.
LEMMA ApprovalLinked ==
  ASSUME ApprovalsTable, NEW a, linkEscalation(a) PROVE ApprovalStep
<1> DEFINE r == approvals[a]
           row == [r EXCEPT !.linked = TRUE]
<1>1. CASE ~Parked(a) BY <1>1, NoApprovalWrite DEF linkEscalation
<1>2. CASE Parked(a)
  <2>1. approvals' = [approvals EXCEPT ![a] = row]
    <3>1. approvals = [b \in DOMAIN approvals |-> approvals[b]] BY DEF ApprovalsTable, IsSeq
    <3> QED BY <1>2, <3>1 DEF linkEscalation
  <2>2. a \in DOMAIN approvals => KeptApproval(r, row)
    <3> SUFFICES ASSUME a \in DOMAIN approvals PROVE KeptApproval(r, row) OBVIOUS
    <3>1. ApprovalRow(r) BY DEF ApprovalsTable
    <3>2. DOMAIN row = ApprovalFields /\ \A f \in ApprovalFields \ {"linked"} : row[f] = r[f]
      BY <3>1 DEF ApprovalRow, ApprovalFields
    <3> HIDE DEF row
    <3>3. /\ row.class = r.class /\ row.policy = r.policy /\ row.grant = r.grant
          /\ row.usd = r.usd /\ row.createdAt = r.createdAt /\ row.timeoutAt = r.timeoutAt
          /\ row.status = r.status /\ row.via = r.via /\ row.createdGrant = r.createdGrant
      BY <3>2 DEF ApprovalFields
    <3>4. ApprovalRow(row) BY <3>1, <3>2, <3>3 DEF ApprovalRow
    <3> QED BY <3>3, <3>4 DEF KeptApproval
  <2> QED BY <2>1, <2>2, ApprovalReplaced
<1> QED BY <1>1, <1>2

\* maybeMintGrant records the grant it created.
LEMMA ApprovalMinted ==
  ASSUME ApprovalsTable, NEW a, NEW g \in DOMAIN grants,
         approvals' = [approvals EXCEPT ![a].createdGrant = g]
  PROVE  ApprovalStep
<1> DEFINE r == approvals[a]
           row == [r EXCEPT !.createdGrant = g]
<1>1. approvals' = [approvals EXCEPT ![a] = row]
  <2>1. approvals = [b \in DOMAIN approvals |-> approvals[b]] BY DEF ApprovalsTable, IsSeq
  <2> QED BY <2>1
<1>2. a \in DOMAIN approvals => KeptApproval(r, row)
  <2> SUFFICES ASSUME a \in DOMAIN approvals PROVE KeptApproval(r, row) OBVIOUS
  <2>1. ApprovalRow(r) BY DEF ApprovalsTable
  <2>2. /\ DOMAIN row = ApprovalFields /\ row.createdGrant = g
        /\ \A f \in ApprovalFields \ {"createdGrant"} : row[f] = r[f]
    BY <2>1 DEF ApprovalRow, ApprovalFields
  <2> HIDE DEF row
  <2>3. /\ row.class = r.class /\ row.policy = r.policy /\ row.grant = r.grant
        /\ row.usd = r.usd /\ row.createdAt = r.createdAt /\ row.timeoutAt = r.timeoutAt
        /\ row.status = r.status /\ row.via = r.via
    BY <2>2 DEF ApprovalFields
  <2>4. ApprovalRow(row) BY <2>1, <2>2, <2>3 DEF ApprovalRow
  <2> QED BY <2>2, <2>3, <2>4 DEF KeptApproval
<1> QED BY <1>1, <1>2, ApprovalReplaced

-----------------------------------------------------------------------------
(* authorize *)

\* Of the candidates with an id up to n, one is best: `orderBy` of
\* authorize's query is a total order.
LEMMA BestExists ==
  ASSUME GrantsTable, NEW c, Candidates(c) # {}
  PROVE  \E g \in Candidates(c) : \A h \in Candidates(c) : Better(g, h)
<1> DEFINE C == Candidates(c)
           Good(n) == (\E h \in C : h <= n) =>
                        \E g \in C : \A h \in C : h <= n => Better(g, h)
           Bad == {n \in 0..Len(grants) : ~Good(n)}
<1>1. Len(grants) \in Nat /\ DOMAIN grants = 1..Len(grants) BY SeqIds DEF GrantsTable
<1>2. C \subseteq 1..Len(grants) BY <1>1 DEF Candidates
<1>3. \A g \in C : Headroom(g) \in Int /\ grants[g].expiresAt \in Int /\ g \in Nat /\ g >= 1
  BY <1>1, <1>2 DEF Headroom, GrantsTable, GrantRow
<1> HIDE DEF C
<1>4. \A g, h \in C : Better(g, h) \/ Better(h, g) BY <1>3 DEF Better
<1>5. \A g, h, k \in C : Better(g, h) /\ Better(h, k) => Better(g, k)
  BY <1>3 DEF Better
<1>6. Bad = {}
  <2> SUFFICES ASSUME Bad # {} PROVE FALSE OBVIOUS
  <2>1. PICK n \in Bad : \A m \in Bad : n <= m
    <3>1. Bad \in SUBSET Nat BY <1>1
    <3> HIDE DEF Bad
    <3> QED BY <3>1, LeastId
  <2>2. n \in 0..Len(grants) /\ ~Good(n) BY <2>1
  <2>3. n # 0 BY <1>3, <2>2
  <2>4. n \in Nat /\ n - 1 \in 0..Len(grants) /\ ~(n <= n - 1) BY <1>1, <2>2, <2>3
  <2>5. Good(n - 1)
    <3>1. n - 1 \notin Bad
      <4> HIDE DEF Bad
      <4> QED BY <2>1, <2>4
    <3> HIDE DEF Good
    <3> QED BY <2>4, <3>1
  <2>6. \A h \in C : h <= n => h <= n - 1 \/ h = n 
    <3>1. \A h \in Nat : h <= n => h <= n - 1 \/ h = n BY <2>4
    <3> QED BY <1>3, <3>1
  <2>7. CASE n \notin C
    <3>1. \A h \in C : h <= n => h <= n - 1 BY <2>6, <2>7
    <3> QED BY <2>2, <2>5, <3>1
  <2>8. CASE n \in C /\ ~\E h \in C : h <= n - 1
    <3>1. \A h \in C : h <= n => h = n BY <2>6, <2>8
    <3>2. Better(n, n) BY <1>4, <2>8
    <3> QED BY <2>2, <2>8, <3>1, <3>2
  <2>9. CASE n \in C /\ \E h \in C : h <= n - 1
    <3>1. PICK g \in C : \A h \in C : h <= n - 1 => Better(g, h) BY <2>5, <2>9
    <3>2. CASE Better(g, n) BY <2>2, <2>6, <3>1, <3>2
    <3>3. CASE Better(n, g)
      <4>1. \A h \in C : h <= n => Better(n, h)
        BY <1>4, <1>5, <2>6, <2>9, <3>1, <3>3
      <4> QED BY <2>2, <2>9, <4>1
    <3> QED BY <1>4, <2>9, <3>2, <3>3
  <2> QED BY <2>7, <2>8, <2>9
<1>7. Good(Len(grants)) BY <1>1, <1>6
<1>8. \A h \in C : h <= Len(grants) BY <1>1, <1>2
<1>9. \E h \in C : TRUE BY DEF C
<1>10. \E g \in C : \A h \in C : Better(g, h) BY <1>7, <1>8, <1>9
<1> QED BY <1>10 DEF C

\* authorize hands out a grant of the class asked for, or none.
LEMMA AuthorizedGrant ==
  ASSUME GrantsTable, NEW c, NEW cost
  PROVE  LET g == authorize(c, cost)
         IN  g # 0 => /\ isAutonomyEligible(c) /\ g \in DOMAIN grants
                      /\ grants[g].class = c /\ Active(g) /\ ~Lapsed(g)
<1> SUFFICES ASSUME authorize(c, cost) # 0
             PROVE  /\ isAutonomyEligible(c) /\ authorize(c, cost) \in Candidates(c)
  BY DEF Candidates
<1>1. isAutonomyEligible(c) /\ Candidates(c) # {} /\ authorize(c, cost) = Best(c)
  BY DEF authorize
<1>2. Best(c) \in Candidates(c) BY <1>1, BestExists DEF Best
<1> QED BY <1>1, <1>2

\* gate adds a row: authorized by a grant of its class, or a question.
LEMMA ApprovalRaised ==
  ASSUME GrantsTable, ApprovalsTable, now \in Nat, NEW c \in Classes, NEW usd \in Costs,
         Gate(c, usd)
  PROVE  /\ ApprovalStep /\ Len(approvals') = Len(approvals) + 1
         /\ DOMAIN approvals' = 1..(Len(approvals) + 1)
<1> DEFINE g == authorize(c, projectedCostFor(c, usd))
           s == IF g # 0 THEN NewApproval(c, "approved", "grant", g, usd)
                ELSE NewApproval(c, Asked(c), "none", 0, usd)
<1>1. Len(approvals) \in Nat /\ DOMAIN approvals = 1..Len(approvals)
  BY SeqIds DEF ApprovalsTable
<1>2. g # 0 => isAutonomyEligible(c) /\ g \in DOMAIN grants /\ grants[g].class = c
  BY AuthorizedGrant
<1>3. approvals' = Append(approvals, s) /\ Len(approvals) < MaxApprovals BY DEF Gate
<1> HIDE DEF g
<1>4. /\ DOMAIN s = ApprovalFields
      /\ s.class = c /\ s.policy = resolveTimeoutPolicy(c) /\ s.usd = usd
      /\ s.createdAt = now /\ s.createdGrant = 0 /\ s.timeoutAt \in {NaN, now + TimeoutWindow}
      /\ g # 0 => s.status = "approved" /\ s.via = "grant" /\ s.grant = g
      /\ g = 0 => s.status = Asked(c) /\ s.via = "none" /\ s.grant = 0
  BY DEF NewApproval, ApprovalFields
<1> HIDE DEF s
<1>5. g \in Nat BY <1>2, SeqIds DEF GrantsTable
<1>6. s.timeoutAt \in Int BY <1>4, GateConstants DEF NaN
<1>7. Asked(c) \in OPEN_STATUSES BY DEF Asked, OPEN_STATUSES
<1>8. ApprovalRow(s)
  <2>1. CASE g # 0 BY <1>2, <1>4, <1>5, <1>6, <2>1 DEF ApprovalRow, Decided
  <2>2. CASE g = 0
    BY <1>4, <1>6, <1>7, <2>2 DEF ApprovalRow, OPEN_STATUSES
  <2> QED BY <2>1, <2>2
<1>9. FreshApproval(s)
  BY <1>2, <1>4, <1>7, <1>8 DEF FreshApproval, OPEN_STATUSES
<1>10. /\ IsSeq(approvals') /\ Len(approvals') = Len(approvals) + 1
       /\ DOMAIN approvals' = 1..(Len(approvals) + 1)
       /\ \A i \in DOMAIN approvals : approvals'[i] = approvals[i]
       /\ approvals'[Len(approvals) + 1] = s
  BY <1>3, SeqAppend DEF ApprovalsTable
<1>11. \A a \in DOMAIN approvals : KeptApproval(approvals[a], approvals'[a])
  BY <1>10, ApprovalUnwritten DEF ApprovalsTable
<1>12. \A a \in DOMAIN approvals' : a \notin DOMAIN approvals => a = Len(approvals) + 1
  BY <1>1, <1>10
<1>13. DOMAIN approvals \subseteq DOMAIN approvals' BY <1>1, <1>10
<1>14. Len(approvals') <= MaxApprovals BY <1>1, <1>3, <1>10, GateConstants
<1> QED BY <1>9, <1>10, <1>11, <1>12, <1>13, <1>14 DEF ApprovalStep

\* recordUsage's increment.
LEMMA ChargedRow ==
  ASSUME NEW r, GrantRow(r), NEW cost \in Int, NEW failed \in BOOLEAN
  PROVE  KeptRow(r, Charged(r, cost, failed))
<1> DEFINE s == Charged(r, cost, failed)
<1>1. /\ DOMAIN s = GrantFields /\ s.spentUsd = r.spentUsd + cost
      /\ s.actionsAuthorized = r.actionsAuthorized + 1
      /\ s.actionsFailed = r.actionsFailed + (IF failed THEN 1 ELSE 0)
      /\ \A f \in GrantFields \ {"spentUsd", "actionsAuthorized", "actionsFailed"} : s[f] = r[f]
  BY DEF Charged, GrantRow, GrantFields
<1> HIDE DEF s
<1>2. /\ s.status = r.status /\ s.reason = r.reason
      /\ s.renewalPrompted = r.renewalPrompted /\ SameTerms(r, s)
  BY <1>1 DEF GrantFields, SameTerms
<1>3. /\ r.spentUsd \in Int /\ r.actionsAuthorized \in Nat /\ r.actionsFailed \in Nat
      /\ r.actionsFailed <= r.actionsAuthorized
  BY DEF GrantRow
<1>4. s.spentUsd \in Int BY <1>1, <1>3
<1>5. /\ s.actionsAuthorized \in Nat /\ s.actionsFailed \in Nat
      /\ s.actionsFailed <= s.actionsAuthorized
  BY <1>1, <1>3
<1>6. GrantRow(s)
  <2>1. s.renewalPrompted \in BOOLEAN /\ (s.status = "active" => s.reason = "none")
    BY <1>2 DEF GrantRow
  <2> QED BY <1>1, <1>2, <1>4, <1>5, <2>1 DEF GrantRow, SameTerms
<1> QED BY <1>2, <1>6 DEF KeptRow, s

\* recordUsage writes one row, and charges no other.
LEMMA GrantCharged ==
  ASSUME GrantsTable, ApprovalsTable, NEW a \in DOMAIN approvals, NEW failed \in BOOLEAN,
         RecordUsage(a, failed)
  PROVE  GrantStep({approvals[a].grant})
<1> DEFINE g == approvals[a].grant
           cost == projectedCostFor(approvals[a].class, approvals[a].usd)
           row == Charged(grants[g], cost, failed)
<1>1. cost \in Int
  <2>1. approvals[a].usd \in Int BY GateConstants DEF ApprovalsTable, ApprovalRow
  <2> QED BY <2>1 DEF projectedCostFor
<1>2. grants' = [grants EXCEPT ![g] = row] BY DEF RecordUsage
<1> HIDE DEF cost
<1>3. g \in DOMAIN grants => KeptRow(grants[g], row) BY <1>1, ChargedRow DEF GrantsTable
<1> HIDE DEF row
<1> QED BY <1>2, <1>3, GrantReplaced

-----------------------------------------------------------------------------
(* What the three components' steps may do to what they share *)

\* A step of the ladder reads the gate's evidence and writes none of it; of
\* the grants it ends some, one at a time.
LEMMA LadderFrame ==
  ASSUME LadderNext
  PROVE  /\ UNCHANGED <<now, renewing, prompting, prompted, gateVars>>
         /\ \/ UNCHANGED grants
            \/ \E g \in GrantIds : End(g, "suspended", "class_demoted")
<1>1. ASSUME NEW c \in Classes, NEW v, Review(c, v)
      PROVE  UNCHANGED <<now, grantVars, gateVars>>
  BY <1>1 DEF Review
<1>2. ASSUME NEW i, NEW v, ReviewAgain(i, v)
      PROVE  UNCHANGED <<now, grantVars, gateVars>>
  BY <1>2 DEF ReviewAgain
<1>3. ASSUME SetEnabled PROVE UNCHANGED <<now, grantVars, gateVars>>
  BY <1>3 DEF SetEnabled
<1>4. ASSUME NEW j \in Jobs, \/ EvaluateRead(j) \/ ReadRows(j) \/ PersistDemotion(j)
                             \/ ReadGrants(j) \/ EvaluateClass(j) \/ JobContinues(j)
      PROVE  UNCHANGED <<now, grantVars, gateVars>>
  BY <1>4 DEF EvaluateRead, ReadRows, PersistDemotion, ReadGrants, EvaluateClass, JobContinues
<1>5. ASSUME NEW j \in Jobs, NEW c \in Classes, DemoteManually(j, c)
      PROVE  UNCHANGED <<now, grantVars, gateVars>>
  BY <1>5 DEF DemoteManually
<1>6. ASSUME NEW j \in Jobs, NEW g \in GrantIds, SuspendGrant(j, g)
      PROVE  /\ UNCHANGED <<now, renewing, prompting, prompted, gateVars>>
             /\ End(g, "suspended", "class_demoted")
  BY <1>6 DEF SuspendGrant
<1> QED BY <1>1, <1>2, <1>3, <1>4, <1>5, <1>6 DEF LadderNext, grantVars

\* A step of the gate creates a grant, charges one or ends one.
LEMMA GateFrame ==
  ASSUME GateNext
  PROVE  /\ UNCHANGED <<now, renewing, prompting, prompted>>
         /\ \/ UNCHANGED grants
            \/ \E a \in DOMAIN approvals : \/ create(approvals[a].class, DefaultTerms, a)
                                           \/ \E failed \in BOOLEAN : RecordUsage(a, failed)
                                           \/ SuspendAfterUse(a)
<1> DEFINE Quiet == UNCHANGED <<now, renewing, prompting, prompted>>
<1>1. ASSUME NEW c \in Classes, NEW usd \in Costs, Gate(c, usd) PROVE Quiet /\ UNCHANGED grants
  BY <1>1 DEF Gate, grantVars
<1>2. ASSUME NEW a, GateRaise(a) \/ GateLink(a) \/ GateDies(a) PROVE Quiet /\ UNCHANGED grants
  BY <1>2 DEF GateRaise, GateLink, GateDies, grantVars
<1>3. ASSUME NEW a, NEW approve, NEW always, Decide(a, approve, always)
      PROVE Quiet /\ UNCHANGED grants
  BY <1>3 DEF Decide, grantVars
<1>4. ASSUME NEW a, MintRecord(a) \/ Supersede(a) \/ SweepResolve(a)
      PROVE Quiet /\ UNCHANGED grants
  BY <1>4 DEF MintRecord, Supersede, SweepResolve, grantVars
<1>5. ASSUME NEW a, MintCreate(a)
      PROVE Quiet /\ (UNCHANGED grants \/ create(approvals[a].class, DefaultTerms, a))
  BY <1>5 DEF MintCreate
<1>6. ASSUME NEW a, NEW failed, RecordUsage(a, failed) PROVE Quiet
  BY <1>6 DEF RecordUsage
<1>7. ASSUME NEW a, SuspendAfterUse(a) PROVE Quiet
  BY <1>7 DEF SuspendAfterUse
<1>8. ASSUME SweepRead \/ BackfillRead \/ BackfillFind \/ BackfillRaise \/ BackfillLink
      PROVE Quiet /\ UNCHANGED grants
  BY <1>8 DEF SweepRead, BackfillRead, BackfillFind, BackfillRaise, BackfillLink, grantVars
<1> HIDE DEF Quiet
<1>9. Quiet /\ \/ UNCHANGED grants
               \/ \E a \in DOMAIN approvals : \/ create(approvals[a].class, DefaultTerms, a)
                                              \/ \E failed \in BOOLEAN : RecordUsage(a, failed)
                                              \/ SuspendAfterUse(a)
  BY <1>1, <1>2, <1>3, <1>4, <1>5, <1>6, <1>7, <1>8 DEF GateNext
<1> QED BY <1>9 DEF Quiet

\* The renewal prompts: at most one to a grant, and only to a claimed one.
PromptsCounted ==
  /\ prompted \in [GrantIds -> Nat]
  /\ \A g \in GrantIds : prompted[g] <= 1 /\ (prompted[g] = 1 => g \in DOMAIN grants)
  /\ \A g \in GrantIds : prompted[g] = 1 => grants[g].renewalPrompted

GrantsInv ==
  /\ now \in 0..MaxNow /\ GrantsTable
  /\ renewing \in [Humans -> {0} \cup DOMAIN grants]
  /\ prompting \in [Prompts -> SUBSET DOMAIN grants]
  /\ RenewalNeverWidens
  /\ PromptsCounted

\* Every row an approval or a pending mint names is there.
References ==
  \A a \in DOMAIN approvals :
    /\ approvals[a].grant \in {0} \cup DOMAIN grants
    /\ approvals[a].createdGrant \in {0} \cup DOMAIN grants
    /\ approvals[a].via = "grant" =>
         approvals[a].grant # 0 /\ grants[approvals[a].grant].class = approvals[a].class
    /\ approvals[a].status = "auto_approved" => approvals[a].timeoutAt <= now

GateInv ==
  /\ ApprovalsTable /\ References
  /\ use \in [ApprovalIds -> {"none", "authorized", "charged"} \cup Ending]
  /\ sweep \subseteq DOMAIN approvals
  /\ \A a \in sweep : approvals[a].timeoutAt <= now
  /\ mint \in [ApprovalIds -> {Nothing, ToCreate} \cup DOMAIN grants]
  /\ gateFaults \in 0..MaxGateFaults

\* Ids of approvals are ids within the bound.
LEMMA ApprovalDomain ==
  ASSUME ApprovalsTable
  PROVE  /\ Len(approvals) \in Nat /\ DOMAIN approvals = 1..Len(approvals)
         /\ DOMAIN approvals \subseteq ApprovalIds
<1>1. Len(approvals) \in Nat /\ DOMAIN approvals = 1..Len(approvals)
  BY SeqIds DEF ApprovalsTable
<1>2. Len(approvals) <= MaxApprovals /\ MaxApprovals \in Nat BY GateConstants DEF ApprovalsTable
<1> QED BY <1>1, <1>2 DEF ApprovalIds

\* Ids of grants are ids within the bound.
LEMMA GrantDomain ==
  ASSUME GrantsTable
  PROVE  /\ Len(grants) \in Nat /\ DOMAIN grants = 1..Len(grants)
         /\ DOMAIN grants \subseteq GrantIds
<1>1. Len(grants) \in Nat /\ DOMAIN grants = 1..Len(grants) BY SeqIds DEF GrantsTable
<1>2. Len(grants) <= MaxGrants /\ MaxGrants \in Nat BY GrantConstants DEF GrantsTable
<1> QED BY <1>1, <1>2 DEF GrantIds

\* Every step is a step of the grant table, and only recordUsage charges.
LEMMA GrantsOfNext ==
  ASSUME GrantsInv, GateInv, [DelegationNext]_delegationVars
  PROVE  \/ GrantStep({})
         \/ \E a \in DOMAIN approvals, failed \in BOOLEAN :
              RecordUsage(a, failed) /\ GrantStep({approvals[a].grant})
<1> USE DEF GrantsInv
<1>0. now \in Nat BY GrantConstants
<1>1. CASE UNCHANGED grants BY <1>1, NoGrantWrite
<1>2. CASE GrantNext
  <2>1. ASSUME NEW c \in Classes, NEW t \in GrantTerms, CreateGrant(c, t) PROVE GrantStep({})
    BY <1>0, <2>1, GrantCreated, GrantConstants DEF CreateGrant
  <2>2. ASSUME NEW h \in Humans, RenewCommit(h) PROVE GrantStep({})
    <3>1. CASE Active(renewing[h]) /\ Room
      <4>1. grants' = Successor(renewing[h]) /\ renewing[h] \in DOMAIN grants
        BY <2>2, <3>1 DEF RenewCommit
      <4> QED BY <1>0, <3>1, <4>1, GrantRenewed
    <3>2. CASE ~(Active(renewing[h]) /\ Room)
      BY <2>2, <3>2, NoGrantWrite DEF RenewCommit
    <3> QED BY <3>1, <3>2
  <2>3. ASSUME NEW h \in Humans, NEW g \in DOMAIN grants, RenewRead(h, g) PROVE GrantStep({})
    BY <2>3, NoGrantWrite DEF RenewRead
  <2>4. ASSUME NEW g \in DOMAIN grants, Revoke(g) PROVE GrantStep({})
    BY <2>4, GrantEnded DEF Revoke, Ended, Reasons
  <2>5. ASSUME NEW g \in DOMAIN grants, SweepExpired(g) PROVE GrantStep({})
    BY <2>5, GrantEnded DEF SweepExpired, Ended, Reasons
  <2>6. ASSUME NEW p \in Prompts, PromptRead(p) PROVE GrantStep({})
    BY <2>6, NoGrantWrite DEF PromptRead
  <2>7. ASSUME NEW p \in Prompts, NEW g \in GrantIds, ClaimRenewalPrompt(p, g)
        PROVE  GrantStep({})
    <3>1. CASE ~Claimable(g) BY <2>7, <3>1, NoGrantWrite DEF ClaimRenewalPrompt
    <3>2. CASE Claimable(g)
      <4> DEFINE r == grants[g]
                 row == [r EXCEPT !.renewalPrompted = TRUE]
      <4>1. grants' = [grants EXCEPT ![g] = row]
        <5>1. grants = [b \in DOMAIN grants |-> grants[b]] BY DEF GrantsTable, IsSeq
        <5> QED BY <2>7, <3>2, <5>1 DEF ClaimRenewalPrompt
      <4>2. g \in DOMAIN grants => KeptRow(r, row) /\ SameUse(r, row)
        <5> SUFFICES ASSUME g \in DOMAIN grants PROVE KeptRow(r, row) /\ SameUse(r, row)
          OBVIOUS
        <5>1. GrantRow(r) BY DEF GrantsTable
        <5>2. /\ DOMAIN row = GrantFields /\ row.renewalPrompted = TRUE
              /\ \A f \in GrantFields \ {"renewalPrompted"} : row[f] = r[f]
          BY <5>1 DEF GrantRow, GrantFields
        <5> HIDE DEF row
        <5>3. /\ SameTerms(r, row) /\ SameUse(r, row)
              /\ row.status = r.status /\ row.reason = r.reason
          BY <5>2 DEF SameTerms, SameUse, GrantFields
        <5>4. row.renewalPrompted \in BOOLEAN BY <5>2
        <5>5. GrantRow(row) BY <5>1, <5>2, <5>3, <5>4 DEF GrantRow, SameTerms, SameUse
        <5> QED BY <5>2, <5>3, <5>5 DEF KeptRow
      <4> HIDE DEF row
      <4> QED BY <4>1, <4>2, GrantReplaced
    <3> QED BY <3>1, <3>2
  <2> QED BY <1>2, <2>1, <2>2, <2>3, <2>4, <2>5, <2>6, <2>7 DEF GrantNext
<1>3. CASE GateNext
  <2>1. ASSUME NEW a \in DOMAIN approvals, create(approvals[a].class, DefaultTerms, a)
        PROVE  GrantStep({})
    <3>1. approvals[a].class \in Classes BY DEF GateInv, ApprovalsTable, ApprovalRow
    <3> QED BY <1>0, <2>1, <3>1, GrantCreated, GrantConstants
  <2>2. ASSUME NEW a \in DOMAIN approvals, NEW failed \in BOOLEAN, RecordUsage(a, failed)
        PROVE  GrantStep({approvals[a].grant})
    BY <2>2, GrantCharged DEF GateInv
  <2>3. ASSUME NEW a \in DOMAIN approvals, SuspendAfterUse(a) PROVE GrantStep({})
    <3>1. CASE UNCHANGED grants BY <3>1, NoGrantWrite
    <3>2. CASE use[a] \in Reasons /\ End(approvals[a].grant, "suspended", use[a])
      BY <3>2, GrantEnded DEF Ended
    <3> QED BY <2>3, <3>1, <3>2 DEF SuspendAfterUse
  <2> QED BY <1>1, <1>3, <2>1, <2>2, <2>3, GateFrame
<1>4. CASE LadderNext
  BY <1>1, <1>4, LadderFrame, GrantEnded DEF Ended, Reasons
<1>5. CASE ClockTicks BY <1>1, <1>5 DEF ClockTicks, grantVars
<1>6. CASE UNCHANGED delegationVars BY <1>1, <1>6 DEF delegationVars, grantVars
<1> QED BY <1>2, <1>3, <1>4, <1>5, <1>6 DEF DelegationNext

\* GrantsInv is kept by every step.
LEMMA GrantsInvKept ==
  ASSUME GrantsInv, GateInv, [DelegationNext]_delegationVars
  PROVE  GrantsInv' /\ now <= now'
<1>0. PICK charged : GrantStep(charged) BY GrantsOfNext
<1>1. GrantsTable' BY <1>0, GrantsTableKept DEF GrantsInv
<1>2. RenewalNeverWidens' BY <1>0, RenewalKept DEF GrantsInv
<1>3. DOMAIN grants \subseteq DOMAIN grants' BY <1>0, GrantIdsGrow DEF GrantsInv
<1>4. \/ UNCHANGED <<now, renewing, prompting, prompted>>
      \/ ClockTicks
      \/ GrantNext
  <2>1. GateNext => UNCHANGED <<now, renewing, prompting, prompted>> BY GateFrame
  <2>2. LadderNext => UNCHANGED <<now, renewing, prompting, prompted>> BY LadderFrame
  <2>3. UNCHANGED delegationVars => UNCHANGED <<now, renewing, prompting, prompted>>
    BY DEF delegationVars, grantVars
  <2> QED BY <2>1, <2>2, <2>3 DEF DelegationNext
<1>5. now' \in 0..MaxNow /\ now <= now'
  <2>1. now \in 0..MaxNow /\ MaxNow \in Nat BY GrantConstants DEF GrantsInv
  <2>2. CASE ClockTicks BY <2>1, <2>2 DEF ClockTicks
  <2>3. CASE now' = now BY <2>1, <2>3
  <2>4. GrantNext => now' = now
    BY DEF GrantNext, CreateGrant, RenewCommit, RenewRead, Revoke, SweepExpired, PromptRead,
           ClaimRenewalPrompt
  <2> QED BY <1>4, <2>2, <2>3, <2>4
<1>6. renewing' \in [Humans -> {0} \cup DOMAIN grants]
  <2>1. renewing \in [Humans -> {0} \cup DOMAIN grants] BY DEF GrantsInv
  <2>2. CASE GrantNext
    <3>1. ASSUME NEW h \in Humans, RenewCommit(h)
          PROVE  renewing' \in [Humans -> {0} \cup DOMAIN grants]
      BY <2>1, <3>1 DEF RenewCommit
    <3>2. ASSUME NEW h \in Humans, NEW g \in DOMAIN grants, RenewRead(h, g)
          PROVE  renewing' \in [Humans -> {0} \cup DOMAIN grants]
      BY <2>1, <3>2 DEF RenewRead
    <3>3. \/ UNCHANGED renewing
          \/ \E h \in Humans : RenewCommit(h) \/ \E g \in DOMAIN grants : RenewRead(h, g)
      BY <2>2 DEF GrantNext, CreateGrant, Revoke, SweepExpired, PromptRead, ClaimRenewalPrompt
    <3> QED BY <2>1, <3>1, <3>2, <3>3
  <2>3. CASE ClockTicks BY <2>1, <2>3 DEF ClockTicks, grantVars
  <2> QED BY <1>4, <2>1, <2>2, <2>3
<1>7. prompting' \in [Prompts -> SUBSET DOMAIN grants]
  <2>1. prompting \in [Prompts -> SUBSET DOMAIN grants] BY DEF GrantsInv
  <2>2. CASE GrantNext
    <3>1. ASSUME NEW p \in Prompts, PromptRead(p)
          PROVE  prompting' \in [Prompts -> SUBSET DOMAIN grants]
      BY <2>1, <3>1 DEF PromptRead, ExpiringSoon
    <3>2. ASSUME NEW p \in Prompts, NEW g \in GrantIds, ClaimRenewalPrompt(p, g)
          PROVE  prompting' \in [Prompts -> SUBSET DOMAIN grants]
      <4>1. prompting' = [prompting EXCEPT ![p] = prompting[p] \ {g}]
        BY <3>2 DEF ClaimRenewalPrompt
      <4> QED BY <2>1, <4>1
    <3>3. \/ UNCHANGED prompting
          \/ \E p \in Prompts : PromptRead(p) \/ \E g \in GrantIds : ClaimRenewalPrompt(p, g)
      BY <2>2 DEF GrantNext, CreateGrant, Revoke, SweepExpired, RenewCommit, RenewRead
    <3> QED BY <2>1, <3>1, <3>2, <3>3
  <2>3. CASE ClockTicks BY <2>1, <2>3 DEF ClockTicks, grantVars
  <2> QED BY <1>4, <2>1, <2>2, <2>3
<1>8. PromptsCounted'
  <2>0. PromptsCounted /\ prompting \in [Prompts -> SUBSET DOMAIN grants] BY DEF GrantsInv
  <2>1. \A g \in DOMAIN grants : grants[g].renewalPrompted => grants'[g].renewalPrompted
    BY <1>0 DEF GrantStep, KeptRow
  <2>2. CASE UNCHANGED prompted
    BY <1>3, <2>0, <2>1, <2>2 DEF PromptsCounted
  <2>3. ASSUME NEW p \in Prompts, NEW g \in GrantIds, ClaimRenewalPrompt(p, g), Claimable(g)
        PROVE  PromptsCounted'
    <3>1. PICK sent \in {0, 1} : prompted' = [prompted EXCEPT ![g] = prompted[g] + sent]
      BY <2>3 DEF ClaimRenewalPrompt
    <3>2. g \in DOMAIN grants /\ ~grants[g].renewalPrompted
      BY <2>0, <2>3 DEF ClaimRenewalPrompt, Claimable
    <3>3. prompted[g] = 0
      <4>1. prompted[g] \in Nat /\ prompted[g] <= 1 /\ prompted[g] # 1
        BY <2>0, <3>2 DEF PromptsCounted
      <4> QED BY <4>1
    <3>4. prompted' = [prompted EXCEPT ![g] = sent] BY <3>1, <3>3
    <3>5. grants'[g].renewalPrompted
      <4>1. grants = [b \in DOMAIN grants |-> grants[b]] BY DEF GrantsInv, GrantsTable, IsSeq
      <4>2. "renewalPrompted" \in DOMAIN grants[g]
        BY <3>2 DEF GrantsInv, GrantsTable, GrantRow, GrantFields
      <4> QED BY <2>3, <3>2, <4>1, <4>2 DEF ClaimRenewalPrompt
    <3>6. prompted' \in [GrantIds -> Nat] BY <2>0, <3>4 DEF PromptsCounted
    <3>7. \A x \in GrantIds : prompted'[x] = IF x = g THEN sent ELSE prompted[x]
      BY <2>0, <3>4 DEF PromptsCounted
    <3>8. \A x \in GrantIds : /\ prompted'[x] <= 1
                              /\ prompted'[x] = 1 => x \in DOMAIN grants /\ grants'[x].renewalPrompted
      <4> TAKE x \in GrantIds
      <4>1. CASE x = g BY <3>2, <3>5, <3>7, <4>1
      <4>2. CASE x # g BY <2>0, <2>1, <3>7, <4>2 DEF PromptsCounted
      <4> QED BY <4>1, <4>2
    <3> QED BY <1>3, <3>6, <3>8 DEF PromptsCounted
  <2>4. CASE GrantNext
    <3>1. \/ UNCHANGED prompted
          \/ \E p \in Prompts, g \in GrantIds : ClaimRenewalPrompt(p, g) /\ Claimable(g)
      BY <2>4 DEF GrantNext, CreateGrant, Revoke, SweepExpired, RenewCommit, RenewRead,
                  PromptRead, ClaimRenewalPrompt
    <3> QED BY <2>2, <2>3, <3>1
  <2>5. ClockTicks => UNCHANGED prompted BY DEF ClockTicks, grantVars
  <2> QED BY <1>4, <2>2, <2>4, <2>5
<1> QED BY <1>1, <1>2, <1>3, <1>5, <1>6, <1>7, <1>8 DEF GrantsInv

\* Every step is a step of the approval table.
LEMMA ApprovalsOfNext ==
  ASSUME GrantsInv, GateInv, [DelegationNext]_delegationVars
  PROVE  ApprovalStep
<1>0. now \in Nat BY GrantConstants DEF GrantsInv
<1>1. CASE UNCHANGED approvals BY <1>1, NoApprovalWrite DEF GateInv
<1>2. CASE GateNext
  <2>1. ASSUME NEW c \in Classes, NEW usd \in Costs, Gate(c, usd) PROVE ApprovalStep
    BY <1>0, <2>1, ApprovalRaised DEF GrantsInv, GateInv
  <2>2. ASSUME NEW a \in DOMAIN approvals, GateLink(a) PROVE ApprovalStep
    BY <1>1, <2>2, ApprovalLinked DEF GateLink, GateInv
  <2>3. ASSUME BackfillLink PROVE ApprovalStep
    BY <1>1, <2>3, ApprovalLinked DEF BackfillLink, GateInv
  <2>4. ASSUME NEW a \in DOMAIN approvals, NEW approve \in BOOLEAN, NEW always \in BOOLEAN,
               Decide(a, approve, always)
        PROVE  ApprovalStep
    <3> DEFINE status == IF approve THEN "approved" ELSE "denied"
    <3>1. Open(a) /\ Resolve(a, status, "human") BY <2>4 DEF Decide
    <3>2. status \in Decided /\ status # "auto_approved" BY DEF Decided
    <3> HIDE DEF status
    <3> QED BY <3>1, <3>2, ApprovalResolved DEF GateInv
  <2>5. ASSUME NEW a \in DOMAIN approvals, Supersede(a) PROVE ApprovalStep
    <3>1. Open(a) /\ Resolve(a, "superseded", "none") BY <2>5 DEF Supersede
    <3>2. "superseded" \in Decided BY DEF Decided
    <3> QED BY <3>1, <3>2, ApprovalResolved DEF GateInv
  <2>6. ASSUME NEW a \in DOMAIN approvals, SweepResolve(a) PROVE ApprovalStep
    <3> DEFINE r == approvals[a]
               status == IF r.policy = "auto_approve" THEN "auto_approved" ELSE "auto_denied"
    <3>1. CASE ~(r.policy # "park_and_escalate" /\ r.status = "pending")
      BY <1>1, <2>6, <3>1 DEF SweepResolve
    <3>2. CASE r.policy # "park_and_escalate" /\ r.status = "pending"
      <4>1. Resolve(a, status, "timeout") /\ a \in sweep BY <2>6, <3>2 DEF SweepResolve
      <4>2. r.timeoutAt <= now BY <4>1 DEF GateInv
      <4>3. status \in Decided /\ status # "approved" BY DEF Decided
      <4>4. Open(a) BY <3>2 DEF Open, OPEN_STATUSES
      <4>5. status = "auto_approved" => r.policy = "auto_approve" OBVIOUS
      <4> HIDE DEF status
      <4> QED BY <4>1, <4>2, <4>3, <4>4, <4>5, ApprovalResolved DEF GateInv
    <3> QED BY <3>1, <3>2
  <2>7. ASSUME NEW a \in DOMAIN approvals, MintRecord(a) PROVE ApprovalStep
    <3>1. CASE UNCHANGED approvals BY <1>1, <3>1
    <3>2. CASE approvals' = [approvals EXCEPT ![a].createdGrant = mint[a]]
      <4>1. a \in ApprovalIds BY ApprovalDomain DEF GateInv
      <4>2. mint[a] \in {Nothing, ToCreate} \cup DOMAIN grants BY <4>1 DEF GateInv
      <4>3. mint[a] \in GrantIds BY <2>7 DEF MintRecord
      <4>4. mint[a] \notin {Nothing, ToCreate} BY <4>3, GrantConstants DEF GrantIds, Nothing, ToCreate
      <4>5. mint[a] \in DOMAIN grants BY <4>2, <4>4
      <4> QED BY <3>2, <4>5, ApprovalMinted DEF GateInv
    <3> QED BY <2>7, <3>1, <3>2 DEF MintRecord
  <2>8. ASSUME NEW a \in DOMAIN approvals,
               \/ GateRaise(a) \/ GateDies(a) \/ MintCreate(a) \/ SuspendAfterUse(a)
               \/ \E failed \in BOOLEAN : RecordUsage(a, failed)
        PROVE  UNCHANGED approvals
    BY <2>8 DEF GateRaise, GateDies, MintCreate, SuspendAfterUse, RecordUsage
  <2>9. ASSUME SweepRead \/ BackfillRead \/ BackfillFind \/ BackfillRaise
        PROVE  UNCHANGED approvals
    BY <2>9 DEF SweepRead, BackfillRead, BackfillFind, BackfillRaise
  <2> QED BY <1>1, <1>2, <2>1, <2>2, <2>3, <2>4, <2>5, <2>6, <2>7, <2>8, <2>9 DEF GateNext
<1>3. LadderNext => UNCHANGED approvals BY LadderFrame DEF gateVars
<1>4. GrantNext /\ UNCHANGED <<gateVars, ladderVars>> => UNCHANGED approvals BY DEF gateVars
<1>5. ClockTicks => UNCHANGED approvals BY DEF ClockTicks, gateVars
<1>6. UNCHANGED delegationVars => UNCHANGED approvals BY DEF delegationVars, gateVars
<1> QED BY <1>1, <1>2, <1>3, <1>4, <1>5, <1>6 DEF DelegationNext

\* Whatever writes the approvals leaves well-formed rows, and removes none.
LEMMA ApprovalsTableKept ==
  ASSUME ApprovalsTable, ApprovalStep
  PROVE  /\ ApprovalsTable' /\ DOMAIN approvals \subseteq DOMAIN approvals'
         /\ Len(approvals') \in Nat /\ DOMAIN approvals' = 1..Len(approvals')
<1>1. \A a \in DOMAIN approvals' : ApprovalRow(approvals'[a])
  BY DEF ApprovalStep, KeptApproval, FreshApproval
<1>2. Len(approvals') \in Nat /\ DOMAIN approvals' = 1..Len(approvals')
  BY SeqIds DEF ApprovalStep
<1> QED BY <1>1, <1>2 DEF ApprovalStep, ApprovalsTable

\* No write of either table leaves a dangling reference.
LEMMA ReferencesKept ==
  ASSUME GrantsTable, ApprovalsTable, References, NEW charged, GrantStep(charged), ApprovalStep,
         now \in Int, now' \in Int, now <= now'
  PROVE  References'
<1>1. DOMAIN grants \subseteq DOMAIN grants' BY GrantIdsGrow
<1>2. \A g \in DOMAIN grants : grants'[g].class = grants[g].class
  BY DEF GrantStep, KeptRow, SameTerms
<1>3. SUFFICES ASSUME NEW a \in DOMAIN approvals'
      PROVE  LET s == approvals'[a]
             IN  /\ s.grant \in {0} \cup DOMAIN grants' /\ s.createdGrant \in {0} \cup DOMAIN grants'
                 /\ s.via = "grant" => s.grant # 0 /\ grants'[s.grant].class = s.class
                 /\ s.status = "auto_approved" => s.timeoutAt <= now'
  BY DEF References
<1>4. CASE a \in DOMAIN approvals
  <2> DEFINE r == approvals[a]
             s == approvals'[a]
  <2>1. KeptApproval(r, s) BY <1>4 DEF ApprovalStep
  <2>2. /\ r.grant \in {0} \cup DOMAIN grants /\ r.createdGrant \in {0} \cup DOMAIN grants
        /\ r.via = "grant" => r.grant # 0 /\ grants[r.grant].class = r.class
        /\ r.status = "auto_approved" => r.timeoutAt <= now
    BY <1>4 DEF References
  <2>3. s.status = "auto_approved" => s.timeoutAt <= now BY <2>1, <2>2 DEF KeptApproval
  <2>4. s.timeoutAt \in Int BY <2>1 DEF KeptApproval, ApprovalRow
  <2>5. s.status = "auto_approved" => s.timeoutAt <= now' BY <2>3, <2>4
  <2>6. s.grant \in {0} \cup DOMAIN grants' /\ s.createdGrant \in {0} \cup DOMAIN grants'
    BY <1>1, <2>1, <2>2 DEF KeptApproval
  <2>7. s.via = "grant" => s.grant # 0 /\ grants'[s.grant].class = s.class
    BY <1>2, <2>1, <2>2 DEF KeptApproval
  <2> QED BY <2>5, <2>6, <2>7
<1>5. CASE a \notin DOMAIN approvals
  <2>1. FreshApproval(approvals'[a]) BY <1>5 DEF ApprovalStep
  <2> QED BY <1>1, <1>2, <2>1 DEF FreshApproval
<1> QED BY <1>4, <1>5

\* The verdict of evaluateAutoRevoke is a reason or none.
LEMMA VerdictType ==
  ASSUME NEW row PROVE evaluateAutoRevoke(row) \in {"none"} \cup Reasons
BY DEF evaluateAutoRevoke, Reasons

\* GateInv is kept by every step.
LEMMA GateInvKept ==
  ASSUME GrantsInv, GateInv, [DelegationNext]_delegationVars
  PROVE  GateInv'
<1>0. PICK charged : GrantStep(charged) BY GrantsOfNext
<1>1. ApprovalStep BY ApprovalsOfNext
<1>2. /\ ApprovalsTable' /\ DOMAIN approvals \subseteq DOMAIN approvals'
      /\ DOMAIN grants \subseteq DOMAIN grants'
  BY <1>0, <1>1, ApprovalsTableKept, GrantIdsGrow DEF GateInv, GrantsInv
<1>3. now \in Int /\ now' \in Int /\ now <= now'
  BY GrantsInvKept, GrantConstants DEF GrantsInv
<1>4. References' BY <1>0, <1>1, <1>3, ReferencesKept DEF GrantsInv, GateInv
<1>5. DOMAIN approvals \subseteq ApprovalIds /\ DOMAIN grants' \subseteq GrantIds
  <2>1. GrantsTable' BY <1>0, GrantsTableKept DEF GrantsInv
  <2>2. Len(grants') \in Nat /\ DOMAIN grants' = 1..Len(grants') /\ Len(grants') <= MaxGrants
    BY <2>1, SeqIds DEF GrantsTable
  <2>3. DOMAIN grants' \subseteq GrantIds BY <2>2, GrantConstants DEF GrantIds
  <2> QED BY <2>3, ApprovalDomain DEF GateInv
<1>6. \/ GateNext
      \/ UNCHANGED gateVars
  BY LadderFrame DEF DelegationNext, ClockTicks, delegationVars
<1>7. use' \in [ApprovalIds -> {"none", "authorized", "charged"} \cup Ending]
  <2> DEFINE U == {"none", "authorized", "charged"} \cup Ending
  <2>1. use \in [ApprovalIds -> U] BY DEF GateInv
  <2>2. CASE GateNext
    <3>1. ASSUME NEW c \in Classes, NEW usd \in Costs, Gate(c, usd) PROVE use' \in [ApprovalIds -> U]
      <4>1. PICK u : use' = [use EXCEPT ![Id] = u] /\ (u = "authorized" \/ u = use[Id])
        BY <3>1 DEF Gate
      <4> QED BY <2>1, <4>1
    <3>2. ASSUME NEW a \in DOMAIN approvals, NEW failed \in BOOLEAN, RecordUsage(a, failed)
          PROVE  use' \in [ApprovalIds -> U]
      <4>1. PICK u \in U : use' = [use EXCEPT ![a] = u]
        <5>1. PICK row : use' = [use EXCEPT ![a] = IF evaluateAutoRevoke(row) = "none"
                                                   THEN "charged" ELSE evaluateAutoRevoke(row)]
          BY <3>2 DEF RecordUsage
        <5> QED BY <5>1, VerdictType DEF Ending
      <4> QED BY <2>1, <4>1
    <3>3. ASSUME NEW a \in DOMAIN approvals, SuspendAfterUse(a) PROVE use' \in [ApprovalIds -> U]
      BY <2>1, <3>3 DEF SuspendAfterUse, Ending
    <3>4. \/ UNCHANGED use
          \/ \E c \in Classes, usd \in Costs : Gate(c, usd)
          \/ \E a \in DOMAIN approvals : \/ \E failed \in BOOLEAN : RecordUsage(a, failed)
                                         \/ SuspendAfterUse(a)
      BY <2>2 DEF GateNext, GateRaise, GateLink, GateDies, Decide, MintCreate, MintRecord,
                  Supersede, SweepResolve, SweepRead, BackfillRead, BackfillFind, BackfillRaise,
                  BackfillLink
    <3> QED BY <2>1, <3>1, <3>2, <3>3, <3>4
  <2> QED BY <1>6, <2>1, <2>2 DEF gateVars
<1>8. sweep' \subseteq DOMAIN approvals /\ \A a \in sweep' : approvals[a].timeoutAt <= now
  <2>1. sweep \subseteq DOMAIN approvals /\ \A a \in sweep : approvals[a].timeoutAt <= now
    BY DEF GateInv
  <2>2. CASE GateNext
    <3>1. UNCHANGED sweep \/ sweep' \subseteq sweep \/ sweep' = Due
      BY <2>2 DEF GateNext, Gate, GateRaise, GateLink, GateDies, Decide, MintCreate, MintRecord,
                  Supersede, RecordUsage, SuspendAfterUse, SweepResolve, SweepRead, BackfillRead,
                  BackfillFind, BackfillRaise, BackfillLink
    <3> QED BY <2>1, <3>1 DEF Due
  <2> QED BY <1>6, <2>1, <2>2 DEF gateVars
<1>9. sweep' \subseteq DOMAIN approvals' /\ \A a \in sweep' : approvals'[a].timeoutAt <= now'
  <2>1. \A a \in DOMAIN approvals : /\ approvals'[a].timeoutAt = approvals[a].timeoutAt
                                    /\ approvals[a].timeoutAt \in Int
    BY <1>1 DEF ApprovalStep, KeptApproval, GateInv, ApprovalsTable, ApprovalRow
  <2>2. \A x \in Int : x <= now => x <= now' BY <1>3
  <2> QED BY <1>2, <1>8, <2>1, <2>2
<1>10. mint' \in [ApprovalIds -> {Nothing, ToCreate} \cup DOMAIN grants']
  <2> DEFINE M == {Nothing, ToCreate} \cup DOMAIN grants'
  <2>1. mint \in [ApprovalIds -> M] BY <1>2 DEF GateInv
  <2>2. CASE GateNext
    <3>1. ASSUME NEW a \in DOMAIN approvals, NEW approve, NEW always, Decide(a, approve, always)
          PROVE  mint' \in [ApprovalIds -> M]
      <4>1. PICK m : mint' = [mint EXCEPT ![a] = m] /\ (m = ToCreate \/ m = mint[a])
        BY <3>1 DEF Decide
      <4> QED BY <1>5, <2>1, <4>1
    <3>2. ASSUME NEW a \in DOMAIN approvals, MintCreate(a) PROVE mint' \in [ApprovalIds -> M]
      <4>1. CASE /\ create(approvals[a].class, DefaultTerms, a)
                 /\ mint' = [mint EXCEPT ![a] = Len(grants) + 1]
        <5>1. approvals[a].class \in Classes BY DEF GateInv, ApprovalsTable, ApprovalRow
        <5>2. DOMAIN grants' = 1..(Len(grants) + 1) /\ Len(grants) \in Nat /\ now \in Nat
          BY <4>1, <5>1, GrantCreated, GrantConstants, GrantDomain DEF GrantsInv
        <5>3. Len(grants) + 1 \in DOMAIN grants' BY <5>2
        <5> QED BY <2>1, <4>1, <5>3
      <4>2. CASE mint' = [mint EXCEPT ![a] = Nothing] BY <2>1, <4>2
      <4> QED BY <3>2, <4>1, <4>2 DEF MintCreate
    <3>3. ASSUME NEW a \in DOMAIN approvals, MintRecord(a) PROVE mint' \in [ApprovalIds -> M]
      BY <2>1, <3>3 DEF MintRecord
    <3>4. \/ UNCHANGED mint
          \/ \E a \in DOMAIN approvals :
               \/ \E approve, always \in BOOLEAN : Decide(a, approve, always)
               \/ MintCreate(a) \/ MintRecord(a)
      BY <2>2 DEF GateNext, Gate, GateRaise, GateLink, GateDies, Supersede, RecordUsage,
                  SuspendAfterUse, SweepResolve, SweepRead, BackfillRead, BackfillFind,
                  BackfillRaise, BackfillLink
    <3> QED BY <2>1, <3>1, <3>2, <3>3, <3>4
  <2> QED BY <1>6, <2>1, <2>2 DEF gateVars
<1>11. gateFaults' \in 0..MaxGateFaults
  <2>1. gateFaults \in 0..MaxGateFaults /\ MaxGateFaults \in Nat BY GateConstants DEF GateInv
  <2>2. CASE GateNext
    <3>1. Fault \/ Fine
      BY <2>2 DEF GateNext, Gate, GateRaise, GateLink, GateDies, Decide, MintCreate, MintRecord,
                  Supersede, RecordUsage, SuspendAfterUse, SweepResolve, SweepRead, BackfillRead,
                  BackfillFind, BackfillRaise, BackfillLink, Fine
    <3> QED BY <2>1, <3>1 DEF Fault, Fine
  <2> QED BY <1>6, <2>1, <2>2 DEF gateVars
<1> QED BY <1>2, <1>4, <1>7, <1>9, <1>10, <1>11 DEF GateInv

\* They hold in the empty database.
LEMMA DelegationStarts ==
  ASSUME DelegationInit PROVE GrantsInv /\ GateInv
<1> USE DEF DelegationInit
<1>1. IsSeq(<<>>) /\ Len(<<>>) = 0 /\ DOMAIN <<>> = {} BY SeqEmpty
<1>2. GrantsTable BY <1>1, GrantConstants DEF GrantInit, GrantsTable
<1>3. ApprovalsTable BY <1>1, GateConstants DEF GateInit, ApprovalsTable
<1>4. GrantsInv
  <2>1. now \in 0..MaxNow BY GrantConstants DEF GrantInit
  <2>2. RenewalNeverWidens BY <1>1 DEF GrantInit, RenewalNeverWidens
  <2>3. PromptsCounted BY DEF GrantInit, PromptsCounted
  <2>4. /\ renewing \in [Humans -> {0} \cup DOMAIN grants]
        /\ prompting \in [Prompts -> SUBSET DOMAIN grants]
    BY DEF GrantInit
  <2> QED BY <1>2, <2>1, <2>2, <2>3, <2>4 DEF GrantsInv
<1>5. GateInv
  <2>1. References BY <1>1 DEF GateInit, References
  <2>2. gateFaults \in 0..MaxGateFaults BY GateConstants DEF GateInit
  <2>3. /\ use \in [ApprovalIds -> {"none", "authorized", "charged"} \cup Ending]
        /\ mint \in [ApprovalIds -> {Nothing, ToCreate} \cup DOMAIN grants]
        /\ sweep = {}
    BY DEF GateInit
  <2> QED BY <1>3, <2>1, <2>2, <2>3 DEF GateInv
<1> QED BY <1>4, <1>5

\* The grants and the approvals are as GrantsInv and GateInv say, always.
LEMMA DelegationInductive == DelegationSpec => [](GrantsInv /\ GateInv)
BY DelegationStarts, GrantsInvKept, GateInvKept, PTL DEF DelegationSpec

-----------------------------------------------------------------------------
(* The theorems about grants and approvals *)

\* TrustGrantService.renew: a successor is never wider than the grant it
\* renews, which that renewal ended and which has no other successor.
THEOREM RenewalsNeverWiden == DelegationSpec => []RenewalNeverWidens
<1>1. GrantsInv => RenewalNeverWidens BY DEF GrantsInv
<1> QED BY <1>1, DelegationInductive, PTL

\* RenewalPromptTask: the claim makes overlapping sweeps prompt once.
THEOREM PromptsAreClaimed == DelegationSpec => []PromptedOnce
<1>1. GrantsInv => PromptedOnce BY DEF GrantsInv, PromptsCounted, PromptedOnce
<1> QED BY <1>1, DelegationInductive, PTL

\* Every write of a grant's status is guarded: an ended grant stays as it ended.
THEOREM EndsAreFinal == DelegationSpec => EndedStaysEnded
<1>1. ASSUME GrantsInv, GateInv, [DelegationNext]_delegationVars
      PROVE  [\A g \in DOMAIN grants : ~Active(g) =>
                /\ grants'[g].status = grants[g].status
                /\ grants'[g].reason = grants[g].reason]_<<now, grantVars>>
  BY <1>1, GrantsOfNext DEF GrantStep, KeptRow, Active
<1> QED BY <1>1, DelegationInductive, PTL DEF DelegationSpec, EndedStaysEnded

\* decide, sweepTimeouts and supersede are conditional updates: the first
\* of them settles an approval.
THEOREM DecisionsAreFinal == DelegationSpec => DecisionIsFinal
<1>1. ASSUME GrantsInv, GateInv, [DelegationNext]_delegationVars
      PROVE  [\A a \in DOMAIN approvals : approvals[a].status \in Decided =>
                /\ approvals'[a].status = approvals[a].status
                /\ approvals'[a].via = approvals[a].via]_<<now, grantVars, gateVars>>
  BY <1>1, ApprovalsOfNext DEF ApprovalStep, KeptApproval
<1> QED BY <1>1, DelegationInductive, PTL DEF DelegationSpec, DecisionIsFinal

\* Nothing is approved without a human, a grant of its class or an
\* announced timeout of a reversible class.
THEOREM UnattendedIsAnnounced == DelegationSpec => []UnattendedAsAnnounced
<1>1. ASSUME GrantsInv, GateInv PROVE UnattendedAsAnnounced
  <2>1. \A a \in DOMAIN approvals : ApprovalRow(approvals[a]) BY <1>1 DEF GateInv, ApprovalsTable
  <2>2. \A c : resolveTimeoutPolicy(c) = "auto_approve" => c \in Reversible
    BY DEF resolveTimeoutPolicy, ACTION_CLASS_IDS
  <2>3. \A a \in DOMAIN approvals : approvals[a].status = "auto_approved" =>
          approvals[a].class \in Reversible /\ approvals[a].timeoutAt <= now
    BY <1>1, <2>1, <2>2 DEF GateInv, References, ApprovalRow
  <2>4. \A a \in DOMAIN approvals : approvals[a].status = "approved" /\ approvals[a].via # "human" =>
          /\ isAutonomyEligible(approvals[a].class)
          /\ grants[approvals[a].grant].class = approvals[a].class
    BY <1>1, <2>1 DEF GateInv, References, ApprovalRow
  <2> QED BY <2>3, <2>4 DEF UnattendedAsAnnounced
<1> QED BY <1>1, DelegationInductive, PTL

-----------------------------------------------------------------------------
(* Escalations of parked approvals *)

\* The pages a call in flight may still send: gate's own, and the backfill's
\* if it found none.
ByGate(a)     == IF pc[a] = "raise" THEN 1 ELSE 0
ByBackfill(a) == IF repairing.approval = a /\ ~repairing.found THEN 1 ELSE 0

PagesInv ==
  /\ pc \in [ApprovalIds -> {"idle", "raise", "link", "done"}]
  /\ pages \in [ApprovalIds -> Nat]
  /\ backfill \subseteq DOMAIN approvals
  /\ repairing \in [approval : {0} \cup DOMAIN approvals, found : BOOLEAN]
  /\ \A a \in ApprovalIds : a \notin DOMAIN approvals => pages[a] = 0 /\ pc[a] = "idle"
  /\ \A a \in ApprovalIds : pages[a] + ByGate(a) + ByBackfill(a) <= 2

\* PagesInv is kept by every step.
LEMMA PagesInvKept ==
  ASSUME GrantsInv, GateInv, PagesInv, [DelegationNext]_delegationVars
  PROVE  PagesInv'
<1> DEFINE D == DOMAIN approvals
           PCs == {"idle", "raise", "link", "done"}
<1>1. ApprovalStep /\ ApprovalsTable BY ApprovalsOfNext DEF GateInv
<1>2. D \subseteq DOMAIN approvals' /\ D \subseteq ApprovalIds /\ D = 1..Len(approvals)
      /\ Len(approvals) \in Nat
  BY <1>1, ApprovalsTableKept, ApprovalDomain
<1>3. /\ pc \in [ApprovalIds -> PCs] /\ pages \in [ApprovalIds -> Nat]
      /\ backfill \subseteq D
      /\ repairing \in [approval : {0} \cup D, found : BOOLEAN]
      /\ \A a \in ApprovalIds : a \notin D => pages[a] = 0 /\ pc[a] = "idle"
      /\ \A a \in ApprovalIds : pages[a] + ByGate(a) + ByBackfill(a) <= 2
  BY DEF PagesInv
<1>4. \A a \in ApprovalIds : ByGate(a) \in {0, 1} /\ ByBackfill(a) \in {0, 1} /\ pages[a] \in Nat
  BY <1>3 DEF ByGate, ByBackfill
\* It is enough that a step keeps the shape, on the ids there were, and the sum.
<1>5. ASSUME pc' \in [ApprovalIds -> PCs], pages' \in [ApprovalIds -> Nat],
             backfill' \subseteq D,
             repairing' \in [approval : {0} \cup D, found : BOOLEAN],
             \A a \in ApprovalIds : a \notin DOMAIN approvals' => pages'[a] = 0 /\ pc'[a] = "idle",
             \A a \in ApprovalIds : pages'[a] + ByGate(a)' + ByBackfill(a)' <= 2
      PROVE  PagesInv'
  <2>1. repairing' \in [approval : {0} \cup DOMAIN approvals', found : BOOLEAN]
    BY <1>2, <1>5
  <2> QED BY <1>2, <1>5, <2>1 DEF PagesInv
<1>6. CASE UNCHANGED <<pc, pages, backfill, repairing>>
  <2>1. \A a \in ApprovalIds : ByGate(a)' = ByGate(a) /\ ByBackfill(a)' = ByBackfill(a)
    BY <1>6 DEF ByGate, ByBackfill
  <2> QED BY <1>2, <1>3, <1>5, <1>6, <2>1
<1>7. ASSUME NEW c \in Classes, NEW usd \in Costs, Gate(c, usd) PROVE PagesInv'
  <2>0. PICK i : i = Id OBVIOUS
  <2>1. PICK p \in {"raise", "done"} : pc' = [pc EXCEPT ![i] = p]
    BY <1>7, <2>0 DEF Gate
  <2>2. UNCHANGED <<pages, backfill, repairing>> BY <1>7 DEF Gate
  <2>3. DOMAIN approvals' = 1..(Len(approvals) + 1)
    BY <1>1, <1>7, ApprovalRaised, GrantConstants DEF GrantsInv
  <2>4. i \notin D /\ i \in DOMAIN approvals' /\ i # 0 BY <1>2, <2>0, <2>3 DEF Id
  <2>5. \A a \in ApprovalIds : a # i => pc'[a] = pc[a] BY <1>3, <2>1
  <2>6. pc' \in [ApprovalIds -> PCs] BY <1>3, <2>1
  <2>7. \A a \in ApprovalIds : ByBackfill(a)' = ByBackfill(a) BY <2>2 DEF ByBackfill
  <2>8. \A a \in ApprovalIds : a # i => ByGate(a)' = ByGate(a) BY <2>5 DEF ByGate
  <2>9. i \in ApprovalIds => pages[i] = 0 /\ ByBackfill(i) = 0 /\ ByGate(i)' \in {0, 1}
    BY <1>3, <2>4 DEF ByBackfill, ByGate
  <2>10. \A a \in ApprovalIds : pages'[a] + ByGate(a)' + ByBackfill(a)' <= 2
    <3> TAKE a \in ApprovalIds
    <3>1. CASE a # i BY <1>3, <2>2, <2>7, <2>8, <3>1
    <3>2. CASE a = i
      <4>1. pages'[a] = 0 /\ ByBackfill(a)' = 0 /\ ByGate(a)' \in {0, 1}
        BY <2>2, <2>7, <2>9, <3>2
      <4> QED BY <4>1
    <3> QED BY <3>1, <3>2
  <2>11. \A a \in ApprovalIds : a \notin DOMAIN approvals' => pages'[a] = 0 /\ pc'[a] = "idle"
    BY <1>2, <1>3, <2>2, <2>4, <2>5
  <2> QED BY <1>3, <1>5, <2>2, <2>6, <2>10, <2>11
\* gate's call moves on without a page.
<1>8. ASSUME NEW a \in D, NEW p \in {"link", "done"}, pc' = [pc EXCEPT ![a] = p],
             UNCHANGED <<pages, backfill, repairing>>
      PROVE  PagesInv'
  <2>1. pc' \in [ApprovalIds -> PCs] /\ \A b \in ApprovalIds : b # a => pc'[b] = pc[b]
    BY <1>3, <1>8
  <2>2. \A b \in ApprovalIds : /\ ByBackfill(b)' = ByBackfill(b)
                               /\ b # a => ByGate(b)' = ByGate(b)
    BY <1>8, <2>1 DEF ByBackfill, ByGate
  <2>3. a \in ApprovalIds /\ ByGate(a)' = 0 BY <1>2, <1>3, <1>8 DEF ByGate
  <2>4. \A b \in ApprovalIds : pages'[b] + ByGate(b)' + ByBackfill(b)' <= 2
    BY <1>3, <1>4, <1>8, <2>2, <2>3
  <2>5. \A b \in ApprovalIds : b \notin DOMAIN approvals' => pages'[b] = 0 /\ pc'[b] = "idle"
    BY <1>2, <1>3, <1>8, <2>1
  <2> QED BY <1>3, <1>5, <1>8, <2>1, <2>4, <2>5
<1>9. ASSUME NEW a \in D, GateRaise(a) PROVE PagesInv'
  <2>1. UNCHANGED <<backfill, repairing>> /\ pc[a] = "raise" BY <1>9 DEF GateRaise
  <2>2. CASE UNCHANGED pages /\ pc' = [pc EXCEPT ![a] = "done"] BY <1>8, <2>1, <2>2
  <2>3. CASE pages' = [pages EXCEPT ![a] = @ + 1] /\ pc' = [pc EXCEPT ![a] = "link"]
    <3>1. a \in ApprovalIds /\ pages[a] \in Nat BY <1>2, <1>4
    <3>2. pc' \in [ApprovalIds -> PCs] /\ \A b \in ApprovalIds : b # a => pc'[b] = pc[b]
      BY <1>3, <2>3
    <3>3. /\ pages' \in [ApprovalIds -> Nat] /\ pages'[a] = pages[a] + 1
          /\ \A b \in ApprovalIds : b # a => pages'[b] = pages[b]
      BY <1>3, <2>3, <3>1
    <3>4. \A b \in ApprovalIds : /\ ByBackfill(b)' = ByBackfill(b)
                                 /\ b # a => ByGate(b)' = ByGate(b)
      BY <2>1, <3>2 DEF ByBackfill, ByGate
    <3>5. ByGate(a)' = 0 /\ ByGate(a) = 1 BY <1>3, <2>1, <2>3, <3>1 DEF ByGate
    <3>6. \A b \in ApprovalIds : pages'[b] + ByGate(b)' + ByBackfill(b)' <= 2
      BY <1>3, <1>4, <3>1, <3>3, <3>4, <3>5
    <3>7. \A b \in ApprovalIds : b \notin DOMAIN approvals' => pages'[b] = 0 /\ pc'[b] = "idle"
      BY <1>2, <1>3, <3>2, <3>3
    <3> QED BY <1>3, <1>5, <2>1, <3>2, <3>3, <3>6, <3>7
  <2> QED BY <1>9, <2>2, <2>3 DEF GateRaise
<1>10. ASSUME NEW a \in D, GateLink(a) \/ GateDies(a) PROVE PagesInv'
  <2>1. pc' = [pc EXCEPT ![a] = "done"] /\ UNCHANGED <<pages, backfill, repairing>>
    BY <1>10 DEF GateLink, GateDies
  <2> QED BY <1>8, <2>1
<1>11. ASSUME BackfillRead PROVE PagesInv'
  <2>1. UNCHANGED <<pc, pages, repairing>> /\ backfill' \subseteq D
    BY <1>11 DEF BackfillRead, Unescalated
  <2>2. \A a \in ApprovalIds : ByGate(a)' = ByGate(a) /\ ByBackfill(a)' = ByBackfill(a)
    BY <2>1 DEF ByGate, ByBackfill
  <2> QED BY <1>2, <1>3, <1>5, <2>1, <2>2
<1>12. ASSUME BackfillFind PROVE PagesInv'
  <2>0. PICK a : a = CHOOSE x \in backfill : \A y \in backfill : x <= y OBVIOUS
  <2>1. /\ UNCHANGED <<pc, pages>> /\ backfill' = backfill \ {a} /\ backfill # {}
        /\ repairing = NoRepair /\ repairing' = [approval |-> a, found |-> AlreadyRaised(a)]
    BY <1>12, <2>0 DEF BackfillFind
  <2>2. a \in backfill
    <3>1. backfill \in SUBSET Nat BY <1>2, <1>3
    <3>2. \E x \in backfill : \A y \in backfill : x <= y BY <2>1, <3>1, LeastId
    <3> QED BY <2>0, <3>2
  <2>3. a \in D /\ a \in ApprovalIds BY <1>2, <1>3, <2>2
  <2>4. AlreadyRaised(a) \in BOOLEAN BY DEF AlreadyRaised
  <2>5. repairing' \in [approval : {0} \cup D, found : BOOLEAN] BY <2>1, <2>3, <2>4
  <2>6. \A b \in ApprovalIds : /\ ByGate(b)' = ByGate(b)
                               /\ b # a => ByBackfill(b)' = 0
    BY <2>1 DEF ByGate, ByBackfill
  <2>7. pages[a] > 0 => ByBackfill(a)' = 0 /\ ByBackfill(a) \in {0, 1}
    BY <1>4, <2>1, <2>3 DEF ByBackfill, AlreadyRaised
  <2>8. ByBackfill(a)' \in {0, 1} BY DEF ByBackfill
  <2>9. \A b \in ApprovalIds : pages[b] + ByGate(b) + ByBackfill(b)' <= 2
    <3> TAKE b \in ApprovalIds
    <3>1. /\ pages[b] \in Nat /\ ByGate(b) \in {0, 1} /\ ByBackfill(b) \in {0, 1}
          /\ pages[b] + ByGate(b) + ByBackfill(b) <= 2
      BY <1>3, <1>4
    <3> DEFINE n == ByBackfill(b)'
    <3>2. n \in {0, 1} BY DEF ByBackfill
    <3>3. b # a \/ pages[b] > 0 => n = 0 BY <2>6, <2>7
    <3> HIDE DEF n
    <3>4. CASE n = 0 BY <3>1, <3>4 DEF n
    <3>5. CASE n = 1
      <4>1. pages[b] = 0 BY <3>1, <3>3, <3>5
      <4> QED BY <3>1, <3>5, <4>1 DEF n
    <3> QED BY <3>2, <3>4, <3>5
  <2>10. \A b \in ApprovalIds : pages'[b] + ByGate(b)' + ByBackfill(b)' <= 2
    BY <2>1, <2>6, <2>9
  <2> QED BY <1>2, <1>3, <1>5, <2>1, <2>5, <2>10
\* The backfill lets go of an approval without a page.
<1>13. ASSUME repairing' = NoRepair, UNCHANGED <<pc, pages, backfill>> PROVE PagesInv'
  <2>1. repairing' \in [approval : {0} \cup D, found : BOOLEAN] BY <1>13 DEF NoRepair
  <2>2. 0 \notin ApprovalIds BY GateConstants DEF ApprovalIds
  <2>3. \A a \in ApprovalIds : ByGate(a)' = ByGate(a) /\ ByBackfill(a)' = 0
    BY <1>13, <2>2 DEF ByGate, ByBackfill, NoRepair
  <2>4. \A a \in ApprovalIds : pages'[a] + ByGate(a)' + ByBackfill(a)' <= 2
    BY <1>3, <1>4, <1>13, <2>3
  <2> QED BY <1>2, <1>3, <1>5, <1>13, <2>1, <2>4
<1>14. ASSUME BackfillRaise PROVE PagesInv'
  <2> DEFINE a == repairing.approval
  <2>1. UNCHANGED <<pc, backfill>> /\ a # 0 /\ ~repairing.found BY <1>14 DEF BackfillRaise
  <2>2. CASE UNCHANGED pages /\ repairing' = NoRepair BY <1>13, <2>1, <2>2
  <2>3. CASE pages' = [pages EXCEPT ![a] = @ + 1] /\ repairing' = [repairing EXCEPT !.found = TRUE]
    <3>1. a \in D /\ a \in ApprovalIds /\ pages[a] \in Nat BY <1>2, <1>3, <1>4, <2>1
    <3>2. /\ pages' \in [ApprovalIds -> Nat] /\ pages'[a] = pages[a] + 1
          /\ \A b \in ApprovalIds : b # a => pages'[b] = pages[b]
      BY <1>3, <2>3, <3>1
    <3>3. /\ repairing' \in [approval : {0} \cup D, found : BOOLEAN]
          /\ repairing'.approval = a /\ repairing'.found
      BY <1>3, <2>3
    <3>4. \A b \in ApprovalIds : ByGate(b)' = ByGate(b) /\ ByBackfill(b)' = 0
      BY <2>1, <3>3 DEF ByGate, ByBackfill
    <3>5. ByBackfill(a) = 1 BY <2>1 DEF ByBackfill
    <3>6. \A b \in ApprovalIds : pages'[b] + ByGate(b) <= 2
      BY <1>3, <1>4, <3>1, <3>2, <3>5
    <3>7. \A b \in ApprovalIds : pages'[b] + ByGate(b)' + ByBackfill(b)' <= 2
      BY <1>4, <3>2, <3>4, <3>6
    <3>8. \A b \in ApprovalIds : b \notin DOMAIN approvals' => pages'[b] = 0 /\ pc'[b] = "idle"
      BY <1>2, <1>3, <2>1, <3>1, <3>2
    <3> QED BY <1>3, <1>5, <2>1, <3>2, <3>3, <3>7, <3>8
  <2> QED BY <1>14, <2>2, <2>3 DEF BackfillRaise
<1>15. ASSUME BackfillLink PROVE PagesInv' BY <1>13, <1>15 DEF BackfillLink
<1>16. CASE GateNext
  <2>1. ASSUME NEW a \in D,
               \/ \E approve, always \in BOOLEAN : Decide(a, approve, always)
               \/ MintCreate(a) \/ MintRecord(a) \/ Supersede(a) \/ SuspendAfterUse(a)
               \/ SweepResolve(a) \/ \E failed \in BOOLEAN : RecordUsage(a, failed)
        PROVE  UNCHANGED <<pc, pages, backfill, repairing>>
    BY <2>1 DEF Decide, MintCreate, MintRecord, Supersede, SuspendAfterUse, SweepResolve,
                RecordUsage
  <2>2. SweepRead => UNCHANGED <<pc, pages, backfill, repairing>> BY DEF SweepRead
  <2> QED BY <1>6, <1>7, <1>9, <1>10, <1>11, <1>12, <1>14, <1>15, <1>16, <2>1, <2>2
          DEF GateNext
<1>17. UNCHANGED gateVars => UNCHANGED <<pc, pages, backfill, repairing>> BY DEF gateVars
<1>18. GateNext \/ UNCHANGED gateVars
  BY LadderFrame DEF DelegationNext, ClockTicks, delegationVars
<1> QED BY <1>6, <1>16, <1>17, <1>18

\* And the escalations of parked approvals as PagesInv says.
LEMMA PagesInductive == DelegationSpec => []PagesInv
<1>1. DelegationInit => PagesInv
  <2>1. 0 \notin ApprovalIds BY GateConstants DEF ApprovalIds
  <2>2. DelegationInit => \A a \in ApprovalIds : pages[a] + ByGate(a) + ByBackfill(a) <= 2
    BY <2>1 DEF DelegationInit, GateInit, ByGate, ByBackfill, NoRepair
  <2> QED BY <2>2 DEF DelegationInit, GateInit, PagesInv, NoRepair
<1> QED BY <1>1, PagesInvKept, DelegationInductive, PTL DEF DelegationSpec

\* escalateParked and backfillParkedEscalations: a parked approval pages a
\* human twice at most, whatever fails, dies and is retried.
THEOREM RetriesAreBounded == DelegationSpec => []RetriesDoNotRepage
<1>1. PagesInv => RetriesDoNotRepage
  <2> SUFFICES ASSUME PagesInv, NEW a \in ApprovalIds PROVE pages[a] <= 2
    BY DEF RetriesDoNotRepage
  <2>1. ByGate(a) \in {0, 1} /\ ByBackfill(a) \in {0, 1} /\ pages[a] \in Nat
    BY DEF PagesInv, ByGate, ByBackfill
  <2>2. pages[a] + ByGate(a) + ByBackfill(a) <= 2 BY DEF PagesInv
  <2> QED BY <2>1, <2>2
<1> QED BY <1>1, PagesInductive, PTL

-----------------------------------------------------------------------------
(* Grants past their limits *)

OverLimit(row) ==
  \/ row.spentUsd >= row.budgetCeilingUsd
  \/ /\ row.actionsAuthorized >= row.minActions
     /\ \/ row.actionsFailed * 100 > row.maxFailureRate * row.actionsAuthorized
        \/ row.spentUsd > row.maxCostPerActionUsd * row.actionsAuthorized

\* evaluateAutoRevoke misses no row that is over a limit.
LEMMA OverLimitIsSeen ==
  ASSUME NEW row, GrantRow(row), ~(row.expiresAt <= now), OverLimit(row)
  PROVE  evaluateAutoRevoke(row) \in Reasons
<1>1. row.actionsAuthorized >= row.minActions => row.actionsAuthorized > 0
  BY DEF GrantRow
<1> DEFINE rate == row.actionsFailed * 100 > row.maxFailureRate * row.actionsAuthorized
           cost == row.spentUsd > row.maxCostPerActionUsd * row.actionsAuthorized
           over == row.spentUsd >= row.budgetCeilingUsd
           lapsed == row.expiresAt <= now
           enough == row.actionsAuthorized >= row.minActions /\ row.actionsAuthorized > 0
<1>2. over \/ (enough /\ (rate \/ cost)) BY <1>1 DEF OverLimit
<1>3. evaluateAutoRevoke(row) =
        IF lapsed THEN "none"
        ELSE IF over THEN "budget_exhausted"
        ELSE IF enough /\ rate THEN "failure_rate_exceeded"
        ELSE IF enough /\ cost THEN "cost_per_action_exceeded" ELSE "none"
  BY DEF evaluateAutoRevoke
<1>4. ~lapsed OBVIOUS
<1> HIDE DEF rate, cost, over, lapsed, enough
<1> QED BY <1>2, <1>3, <1>4 DEF Reasons

\* A verdict waits for its suspension, or keeps that it failed: nothing else
\* overwrites it.
LEMMA VerdictWaits ==
  ASSUME GateInv, [DelegationNext]_delegationVars,
         NEW a \in DOMAIN approvals, use[a] \in Ending
  PROVE  \/ use'[a] \in Ending
         \/ use[a] \in Reasons /\ End(approvals[a].grant, "suspended", use[a])
<1>1. /\ DOMAIN approvals = 1..Len(approvals) /\ Len(approvals) \in Nat
      /\ a \in ApprovalIds /\ use \in [ApprovalIds -> {"none", "authorized", "charged"} \cup Ending]
  BY ApprovalDomain DEF GateInv
<1>2. CASE GateNext
  <2>1. ASSUME NEW c \in Classes, NEW usd \in Costs, Gate(c, usd) PROVE use'[a] = use[a]
    <3>1. Id # a BY <1>1 DEF Id
    <3>2. PICK u : use' = [use EXCEPT ![Id] = u] BY <2>1 DEF Gate
    <3> QED BY <1>1, <3>1, <3>2
  <2>2. ASSUME NEW b \in DOMAIN approvals, NEW failed \in BOOLEAN, RecordUsage(b, failed)
        PROVE  use'[a] = use[a]
    <3>1. b # a BY <2>2 DEF RecordUsage, Reasons, Ending
    <3>2. PICK u : use' = [use EXCEPT ![b] = u] BY <2>2 DEF RecordUsage
    <3> QED BY <1>1, <3>1, <3>2
  <2>3. ASSUME NEW b \in DOMAIN approvals, SuspendAfterUse(b)
        PROVE  \/ use'[a] \in Ending
               \/ use[a] \in Reasons /\ End(approvals[a].grant, "suspended", use[a])
    <3>1. CASE b # a BY <1>1, <2>3, <3>1 DEF SuspendAfterUse
    <3>2. CASE b = a BY <1>1, <2>3, <3>2 DEF SuspendAfterUse, Ending
    <3> QED BY <3>1, <3>2
  <2>4. \/ UNCHANGED use
        \/ \E c \in Classes, usd \in Costs : Gate(c, usd)
        \/ \E b \in DOMAIN approvals : \/ \E failed \in BOOLEAN : RecordUsage(b, failed)
                                       \/ SuspendAfterUse(b)
    BY <1>2 DEF GateNext, GateRaise, GateLink, GateDies, Decide, MintCreate, MintRecord,
                Supersede, SweepResolve, SweepRead, BackfillRead, BackfillFind, BackfillRaise,
                BackfillLink
  <2> QED BY <2>1, <2>2, <2>3, <2>4
<1>3. GateNext \/ UNCHANGED gateVars
  BY LadderFrame DEF DelegationNext, ClockTicks, delegationVars
<1> QED BY <1>2, <1>3 DEF gateVars

\* OverLimitEnds is inductive on the two tables.
LEMMA OverLimitKept ==
  ASSUME GrantsInv, GateInv, OverLimitEnds, [DelegationNext]_delegationVars
  PROVE  OverLimitEnds'
<1>1. PICK charged : /\ GrantStep(charged)
                     /\ \/ charged = {}
                        \/ \E a \in DOMAIN approvals, failed \in BOOLEAN :
                             RecordUsage(a, failed) /\ charged = {approvals[a].grant}
  BY GrantsOfNext
<1>2. ApprovalStep /\ ApprovalsTable BY ApprovalsOfNext DEF GateInv
<1>3. /\ DOMAIN approvals \subseteq DOMAIN approvals' /\ DOMAIN approvals \subseteq ApprovalIds
      /\ \A a \in DOMAIN approvals : approvals'[a].grant = approvals[a].grant
  BY <1>2, ApprovalsTableKept, ApprovalDomain DEF ApprovalStep, KeptApproval
<1>4. now \in Int /\ now' \in Int /\ now <= now' /\ GrantsTable'
  BY GrantsInvKept, GrantConstants DEF GrantsInv
<1>5. SUFFICES ASSUME NEW g \in DOMAIN grants', grants'[g].status = "active",
                      ~(grants'[g].expiresAt <= now'), OverLimit(grants'[g])
               PROVE  \E a \in DOMAIN approvals' : approvals'[a].grant = g /\ use'[a] \in Ending
  BY DEF OverLimitEnds, OverLimit, Active, Lapsed
<1> DEFINE s == grants'[g]
<1>6. GrantRow(s) BY <1>4 DEF GrantsTable
<1>7. CASE g \notin DOMAIN grants
  <2>1. FreshRow(s) BY <1>1, <1>7 DEF GrantStep
  <2>2. s.spentUsd = 0 /\ s.actionsAuthorized = 0 BY <2>1 DEF FreshRow
  <2>3. /\ s.budgetCeilingUsd \in Int /\ s.minActions \in Int
        /\ s.budgetCeilingUsd > 0 /\ s.minActions >= 1
    BY <1>6 DEF GrantRow
  <2>4. ~(s.spentUsd >= s.budgetCeilingUsd) /\ ~(s.actionsAuthorized >= s.minActions)
    BY <2>2, <2>3
  <2> QED BY <1>5, <2>4 DEF OverLimit
<1>8. CASE g \in DOMAIN grants /\ g \notin charged
  <2> DEFINE r == grants[g]
  <2>1. KeptRow(r, s) /\ SameUse(r, s) /\ SameTerms(r, s) BY <1>1, <1>8 DEF GrantStep, KeptRow
  <2>2. Active(g) BY <1>5, <2>1 DEF KeptRow, Active
  <2>3. r.expiresAt \in Int /\ r.expiresAt = s.expiresAt
    BY <1>8, <2>1 DEF GrantsInv, GrantsTable, GrantRow, SameTerms
  <2>4. ~(r.expiresAt <= now) BY <1>4, <1>5, <2>3
  <2>5. OverLimit(r) BY <1>5, <2>1 DEF OverLimit, SameUse, SameTerms
  <2>6. PICK a \in DOMAIN approvals : approvals[a].grant = g /\ use[a] \in Ending
    BY <1>8, <2>2, <2>4, <2>5 DEF OverLimitEnds, OverLimit, Lapsed
  <2>7. ~(use[a] \in Reasons /\ End(g, "suspended", use[a]))
    <3> SUFFICES ASSUME use[a] \in Reasons, End(g, "suspended", use[a]) PROVE FALSE OBVIOUS
    <3>1. grants'[g].status # "active"
      BY <1>8, GrantEnded DEF GrantsInv, Ended
    <3> QED BY <1>5, <3>1
  <2>8. use'[a] \in Ending BY <2>6, <2>7, VerdictWaits
  <2> QED BY <1>3, <2>6, <2>8
<1>9. CASE g \in DOMAIN grants /\ g \in charged
  <2>1. PICK a \in DOMAIN approvals, failed \in BOOLEAN :
          RecordUsage(a, failed) /\ approvals[a].grant = g
    BY <1>1, <1>9
  <2> DEFINE row == Charged(grants[g], projectedCostFor(approvals[a].class, approvals[a].usd), failed)
  <2>2. /\ grants' = [grants EXCEPT ![g] = row]
        /\ use' = [use EXCEPT ![a] = IF evaluateAutoRevoke(row) = "none" THEN "charged"
                                     ELSE evaluateAutoRevoke(row)]
        /\ now' = now
    BY <2>1 DEF RecordUsage
  <2> HIDE DEF row
  <2>3. s = row BY <1>9, <2>2, SeqReplace DEF GrantsInv, GrantsTable
  <2>4. evaluateAutoRevoke(row) \in Reasons BY <1>5, <1>6, <2>2, <2>3, OverLimitIsSeen
  <2>5. evaluateAutoRevoke(row) # "none" BY <2>4 DEF Reasons
  <2>6. use'[a] = evaluateAutoRevoke(row) BY <1>3, <2>2, <2>5 DEF GateInv
  <2> QED BY <1>3, <2>1, <2>4, <2>6 DEF Ending
<1> QED BY <1>7, <1>8, <1>9

\* recordUsage and evaluateAutoRevoke: a grant whose charges passed a limit is
\* ended, or a charge that saw it is about to end it.
THEOREM OverLimitIsEnded == DelegationSpec => []OverLimitEnds
<1>1. DelegationInit => OverLimitEnds BY SeqEmpty DEF DelegationInit, GrantInit, OverLimitEnds
<1> QED BY <1>1, OverLimitKept, DelegationInductive, PTL DEF DelegationSpec

-----------------------------------------------------------------------------
(* The ladder *)

\* The verdicts humans gave on each class.
HumanVerdicts == [c \in Classes |-> Cardinality(Verdicts(c)) + Cardinality(Decisions(c))]

ProposalsTable ==
  /\ IsSeq(proposals)
  /\ \A i \in DOMAIN proposals :
       /\ DOMAIN proposals[i] = {"class", "createdAt", "review"}
       /\ proposals[i].class \in Classes
       /\ proposals[i].review \in {"would_approve", "would_reject"}

JobFields == {"step", "class", "evidence", "rows", "todo", "grants"}
Steps     == {"idle", "rows", "judge", "persist", "grants", "suspend"}

\* What a job carries, when n rungs have changed and humans gave k verdicts:
\* evidence and rungs that were true when it read them.
Task(t, n, k) ==
  /\ DOMAIN t = JobFields /\ t.step \in Steps /\ t.todo \subseteq Classes
  /\ \A c \in t.todo : Sample(t.evidence[c]) \in Nat /\ Sample(t.evidence[c]) <= k[c]
  /\ t.step # "rows" =>
       \A c \in t.todo : t.rows[c].rung \in Rungs /\ t.rows[c].demotions \in 0..n
  /\ t.step = "persist" => t.class \in Classes /\ t.rows[t.class].demotions \in 0..n

RungsTyped ==
  /\ changes \in 0..MaxChanges
  /\ ladder \in [Classes -> [rung : Rungs, holdUntil : Int, demotions : Nat]]
  /\ \A c \in Classes : ladder[c].demotions <= changes

LadderInv ==
  /\ enabled \in BOOLEAN /\ ProposalsTable /\ RungsTyped
  /\ job = [j \in Jobs |-> job[j]]
  /\ \A j \in Jobs : Task(job[j], changes, HumanVerdicts)
  /\ PromotedOnHumanEvidence

\* A table has finitely many rows.
LEMMA TableFinite == ASSUME NEW s, IsSeq(s) PROVE IsFiniteSet(DOMAIN s)
<1>1. Len(s) \in Nat /\ DOMAIN s = 1..Len(s) BY SeqIds
<1>2. IsFiniteSet(1..Len(s)) BY <1>1, FS_Interval
<1> QED BY <1>1, <1>2

\* The sets the evidence counts are finite.
LEMMA EvidenceFinite ==
  ASSUME ApprovalsTable, ProposalsTable, NEW c
  PROVE  /\ IsFiniteSet(Verdicts(c)) /\ Cardinality(Verdicts(c)) \in Nat
         /\ IsFiniteSet(Decisions(c)) /\ Cardinality(Decisions(c)) \in Nat
         /\ IsFiniteSet(DOMAIN proposals) /\ IsFiniteSet(DOMAIN approvals)
<1>1. IsFiniteSet(DOMAIN proposals) BY TableFinite DEF ProposalsTable
<1>2. IsFiniteSet(DOMAIN approvals) BY TableFinite DEF ApprovalsTable
<1>3. Verdicts(c) \in SUBSET DOMAIN proposals /\ Decisions(c) \in SUBSET DOMAIN approvals
  BY DEF Verdicts, Decisions
<1>4. IsFiniteSet(Verdicts(c)) /\ IsFiniteSet(Decisions(c)) BY <1>1, <1>2, <1>3, FS_Subset
<1> QED BY <1>1, <1>2, <1>4, FS_CardinalityType

\* Of a finite set, two parts with nothing in common.
LEMMA TwoParts ==
  ASSUME NEW S, IsFiniteSet(S), NEW A \in SUBSET S, NEW B \in SUBSET S, A \cap B = {}
  PROVE  /\ Cardinality(A) \in Nat /\ Cardinality(B) \in Nat
         /\ Cardinality(A) + Cardinality(B) <= Cardinality(S)
<1>1. IsFiniteSet(A) /\ IsFiniteSet(B) BY FS_Subset
<1>2. Cardinality(A \cup B) = Cardinality(A) + Cardinality(B) - Cardinality(A \cap B)
  BY <1>1, FS_Union
<1>3. Cardinality(A \cap B) = 0
  <2>1. Cardinality({}) = 0 BY FS_EmptySet
  <2> QED BY <2>1
<1>4. A \cup B \in SUBSET S OBVIOUS
<1>5. Cardinality(A \cup B) <= Cardinality(S) BY <1>4, FS_Subset
<1>6. Cardinality(A) \in Nat /\ Cardinality(B) \in Nat BY <1>1, FS_CardinalityType
<1> QED BY <1>2, <1>3, <1>5, <1>6

\* gatherEvidence counts each verdict of a human at most once, and nothing else.
LEMMA EvidenceIsHuman ==
  ASSUME ApprovalsTable, ProposalsTable, NEW c \in Classes
  PROVE  Sample(Evidence(c)) \in Nat /\ Sample(Evidence(c)) <= HumanVerdicts[c]
<1> DEFINE P(yes) == {i \in DOMAIN proposals :
                        /\ proposals[i].class = c /\ proposals[i].createdAt >= 0
                        /\ (proposals[i].review = "would_approve") = yes}
           A(yes) == {a \in DOMAIN approvals :
                        /\ approvals[a].class = c /\ approvals[a].createdAt >= 0
                        /\ approvals[a].via = "human"
                        /\ approvals[a].status = (IF yes THEN "approved" ELSE "denied")}
           V == Verdicts(c)
           H == Decisions(c)
<1>1. P(TRUE) \in SUBSET V /\ P(FALSE) \in SUBSET V /\ P(TRUE) \cap P(FALSE) = {}
  BY DEF Verdicts
<1>2. A(TRUE) \in SUBSET H /\ A(FALSE) \in SUBSET H /\ A(TRUE) \cap A(FALSE) = {}
  BY DEF Decisions
<1>3. /\ Evidence(c).approved = Cardinality(P(TRUE)) + Cardinality(A(TRUE))
      /\ Evidence(c).rejected = Cardinality(P(FALSE)) + Cardinality(A(FALSE))
  BY DEF Evidence, Count
<1>4. IsFiniteSet(V) /\ IsFiniteSet(H) /\ Cardinality(V) \in Nat /\ Cardinality(H) \in Nat
  BY EvidenceFinite
<1>5. HumanVerdicts[c] = Cardinality(V) + Cardinality(H) BY DEF HumanVerdicts
<1> HIDE DEF P, A, V, H
<1>6. /\ Cardinality(P(TRUE)) \in Nat /\ Cardinality(P(FALSE)) \in Nat
      /\ Cardinality(P(TRUE)) + Cardinality(P(FALSE)) <= Cardinality(V)
  BY <1>1, <1>4, TwoParts
<1>7. /\ Cardinality(A(TRUE)) \in Nat /\ Cardinality(A(FALSE)) \in Nat
      /\ Cardinality(A(TRUE)) + Cardinality(A(FALSE)) <= Cardinality(H)
  BY <1>2, <1>4, TwoParts
<1> DEFINE p == Cardinality(P(TRUE))  q == Cardinality(P(FALSE))
           x == Cardinality(A(TRUE))  y == Cardinality(A(FALSE))
           v == Cardinality(V)        h == Cardinality(H)
<1>8. /\ p \in Nat /\ q \in Nat /\ x \in Nat /\ y \in Nat /\ v \in Nat /\ h \in Nat
      /\ p + q <= v /\ x + y <= h
  BY <1>4, <1>6, <1>7
<1>9. Sample(Evidence(c)) = (p + x) + (q + y) /\ HumanVerdicts[c] = v + h
  BY <1>3, <1>5 DEF Sample
<1> HIDE DEF p, q, x, y, v, h
<1> QED BY <1>8, <1>9

ProposalStep ==
  /\ ProposalsTable'
  /\ \A i \in DOMAIN proposals : /\ i \in DOMAIN proposals'
                                 /\ proposals'[i].class = proposals[i].class

\* A verdict may be turned, it is never withdrawn, and a decision neither.
LEMMA VerdictsGrow ==
  ASSUME ApprovalsTable, ProposalsTable, ApprovalStep, ProposalStep
  PROVE  \A c \in Classes : /\ HumanVerdicts[c] \in Nat /\ HumanVerdicts'[c] \in Nat
                            /\ HumanVerdicts[c] <= HumanVerdicts'[c]
<1>0. ApprovalsTable' /\ ProposalsTable' BY ApprovalsTableKept DEF ProposalStep
<1> SUFFICES ASSUME NEW c \in Classes
             PROVE  /\ HumanVerdicts[c] \in Nat /\ HumanVerdicts'[c] \in Nat
                    /\ HumanVerdicts[c] <= HumanVerdicts'[c]
  OBVIOUS
<1> DEFINE V == Verdicts(c)  W == Verdicts(c)'
           H == Decisions(c) K == Decisions(c)'
<1>1. V \in SUBSET W BY DEF Verdicts, ProposalStep
<1>2. H \in SUBSET K
  <2>1. \A a \in DOMAIN approvals : approvals[a].via = "human" => approvals[a].status \in Decided
    BY DEF ApprovalsTable, ApprovalRow
  <2>2. \A a \in DOMAIN approvals :
          /\ a \in DOMAIN approvals' /\ approvals'[a].class = approvals[a].class
          /\ approvals[a].via = "human" => approvals'[a].via = "human"
    BY <2>1 DEF ApprovalStep, KeptApproval
  <2> QED BY <2>2 DEF Decisions
<1>3. /\ IsFiniteSet(V) /\ IsFiniteSet(H) /\ Cardinality(V) \in Nat /\ Cardinality(H) \in Nat
  BY EvidenceFinite
<1>4. /\ IsFiniteSet(W) /\ IsFiniteSet(K) /\ Cardinality(W) \in Nat /\ Cardinality(K) \in Nat
  <2>1. IsFiniteSet(DOMAIN proposals') BY <1>0, TableFinite DEF ProposalsTable
  <2>2. IsFiniteSet(DOMAIN approvals') BY <1>0, TableFinite DEF ApprovalsTable
  <2>3. W \in SUBSET DOMAIN proposals' /\ K \in SUBSET DOMAIN approvals'
    BY DEF Verdicts, Decisions
  <2> HIDE DEF W, K
  <2>4. IsFiniteSet(W) /\ IsFiniteSet(K) BY <2>1, <2>2, <2>3, FS_Subset
  <2> QED BY <2>4, FS_CardinalityType
<1>5. /\ HumanVerdicts[c] = Cardinality(V) + Cardinality(H)
      /\ HumanVerdicts'[c] = Cardinality(W) + Cardinality(K)
  BY DEF HumanVerdicts
<1> HIDE DEF V, W, H, K
<1>6. Cardinality(V) <= Cardinality(W) /\ Cardinality(H) <= Cardinality(K)
  BY <1>1, <1>2, <1>4, FS_Subset
<1> QED BY <1>3, <1>4, <1>5, <1>6

\* What a job carries stays true while rungs change and verdicts come in.
LEMMA TaskLasts ==
  ASSUME NEW t, NEW n \in Nat, NEW k, NEW m \in Nat, NEW l, Task(t, n, k), n <= m,
         \A c \in Classes : k[c] \in Nat /\ l[c] \in Nat /\ k[c] <= l[c]
  PROVE  Task(t, m, l)
<1>1. \A c \in t.todo : Sample(t.evidence[c]) \in Nat /\ Sample(t.evidence[c]) <= l[c]
  <2> TAKE c \in t.todo
  <2>1. /\ Sample(t.evidence[c]) \in Nat /\ Sample(t.evidence[c]) <= k[c]
        /\ k[c] \in Nat /\ l[c] \in Nat /\ k[c] <= l[c]
    BY DEF Task
  <2> QED BY <2>1
<1>2. 0..n \subseteq 0..m OBVIOUS
<1> QED BY <1>1, <1>2 DEF Task

\* A job that moves on with what it carries.
LEMMA TaskMoves ==
  ASSUME NEW t, NEW s, NEW n, NEW k, Task(t, n, k), DOMAIN s = JobFields,
         s.step \in Steps \ {"persist", "rows"}, t.step # "rows",
         s.todo = t.todo, s.evidence = t.evidence, s.rows = t.rows
  PROVE  Task(s, n, k)
BY DEF Task

\* A job that carries nothing.
LEMMA IdleTask == ASSUME NEW n, NEW k PROVE Task(Idle, n, k)
BY DEF Task, Idle, JobFields, Steps

\* persist.
LEMMA RungPersisted ==
  ASSUME RungsTyped, now \in Nat, NEW j, NEW c \in Classes, NEW rung \in Rungs,
         NEW demoting, NEW hold,
         demoting => job[j].rows[c].demotions \in 0..changes,
         Persist(j, c, rung, demoting, hold)
  PROVE  /\ RungsTyped' /\ changes' = changes + 1 /\ ladder'[c].rung = rung
         /\ \A x \in Classes : x # c => ladder'[x] = ladder[x]
<1> DEFINE row == [rung      |-> rung,
                   holdUntil |-> IF hold THEN now + ManualHold ELSE ladder[c].holdUntil,
                   demotions |-> IF demoting THEN job[j].rows[c].demotions + 1
                                 ELSE ladder[c].demotions]
<1>1. /\ changes \in 0..MaxChanges /\ MaxChanges \in Nat
      /\ ladder \in [Classes -> [rung : Rungs, holdUntil : Int, demotions : Nat]]
      /\ \A x \in Classes : ladder[x].demotions <= changes /\ ladder[x].demotions \in Nat
                            /\ ladder[x].holdUntil \in Int
  BY LadderConstants DEF RungsTyped
<1>2. changes < MaxChanges /\ changes' = changes + 1 /\ ladder' = [ladder EXCEPT ![c] = row]
  BY DEF Persist
<1>3. row.holdUntil \in Int BY <1>1, LadderConstants
<1>4. row.demotions \in Nat /\ row.demotions <= changes + 1 BY <1>1
<1>5. row.rung = rung /\ row \in [rung : Rungs, holdUntil : Int, demotions : Nat]
  BY <1>3, <1>4
<1> HIDE DEF row
<1>6. /\ ladder' \in [Classes -> [rung : Rungs, holdUntil : Int, demotions : Nat]]
      /\ ladder'[c] = row
      /\ \A x \in Classes : x # c => ladder'[x] = ladder[x]
  BY <1>1, <1>2, <1>5
<1>7. \A x \in Classes : ladder'[x].demotions <= changes'
  <2> TAKE x \in Classes
  <2>1. CASE x = c BY <1>2, <1>4, <1>6, <2>1
  <2>2. CASE x # c
    <3>1. /\ ladder'[x].demotions = ladder[x].demotions /\ ladder[x].demotions <= changes
          /\ ladder[x].demotions \in Nat /\ changes \in Nat
      BY <1>1, <1>6, <2>2
    <3> QED BY <1>2, <3>1
  <2> QED BY <2>1, <2>2
<1>8. changes' \in 0..MaxChanges BY <1>1, <1>2
<1> QED BY <1>2, <1>5, <1>6, <1>7, <1>8 DEF RungsTyped

\* Only enough verdicts of humans promote a class that may act alone.
LEMMA PromoteNeedsEvidence ==
  ASSUME NEW rung, NEW e, NEW eligible \in BOOLEAN, NEW held \in BOOLEAN,
         evaluateLadder(rung, e, eligible, FALSE, held) = "promote"
  PROVE  eligible /\ Sample(e) >= MIN_SAMPLE /\ rung # "promoted"
BY DEF evaluateLadder, Qualifies

\* The enough-evidence side of PromotedOnHumanEvidence, of one class.
Enough(c) == isAutonomyEligible(c) /\ HumanVerdicts[c] >= MIN_SAMPLE

\* PromotedOnHumanEvidence, by class.
LEMMA PromotedMeansEnough ==
  PromotedOnHumanEvidence <=> \A c \in Classes : ladder[c].rung = "promoted" => Enough(c)
BY DEF PromotedOnHumanEvidence, Enough, HumanVerdicts

\* Steps of the others: the ladder's state is left alone, its evidence grows.
LEMMA LadderWaits ==
  ASSUME LadderInv, ApprovalsTable, ApprovalStep, UNCHANGED <<ladder, job, changes>>,
         ProposalStep, enabled' \in BOOLEAN
  PROVE  LadderInv'
<1>1. \A c \in Classes : /\ HumanVerdicts[c] \in Nat /\ HumanVerdicts'[c] \in Nat
                         /\ HumanVerdicts[c] <= HumanVerdicts'[c]
  BY VerdictsGrow DEF LadderInv
<1>2. changes \in Nat BY LadderConstants DEF LadderInv, RungsTyped
<1>3. \A j \in Jobs : Task(job[j], changes, HumanVerdicts') BY <1>1, <1>2, TaskLasts DEF LadderInv
<1>4. \A c \in Classes : Enough(c) => Enough(c)'
  BY <1>1, LadderConstants DEF Enough
<1>5. PromotedOnHumanEvidence'
  <2>1. \A c \in Classes : ladder[c].rung = "promoted" => Enough(c)
    BY PromotedMeansEnough DEF LadderInv
  <2>2. \A c \in Classes : ladder'[c].rung = "promoted" => Enough(c)' BY <1>4, <2>1
  <2> QED BY <2>2 DEF PromotedOnHumanEvidence, Enough, HumanVerdicts
<1>6. RungsTyped' BY DEF LadderInv, RungsTyped
<1>7. (job = [j \in Jobs |-> job[j]])' BY DEF LadderInv
<1> QED BY <1>3, <1>5, <1>6, <1>7 DEF LadderInv, ProposalStep

\* LadderInv is kept by every step of the ladder.
LEMMA LadderInvKept ==
  ASSUME GrantsInv, GateInv, LadderInv, LadderNext
  PROVE  LadderInv'
<1> DEFINE k == HumanVerdicts
<1>0. /\ now \in Nat /\ ApprovalsTable /\ ProposalsTable /\ RungsTyped /\ changes \in Nat
      /\ job = [j \in Jobs |-> job[j]] /\ \A j \in Jobs : Task(job[j], changes, k)
      /\ enabled \in BOOLEAN
      /\ \A c \in Classes : ladder[c].rung \in Rungs /\ ladder[c].demotions \in 0..changes
  <2>1. \A c \in Classes : ladder[c].rung \in Rungs /\ ladder[c].demotions \in 0..changes
    BY LadderConstants DEF LadderInv, RungsTyped
  <2> QED BY <2>1, GrantConstants, LadderConstants DEF GrantsInv, GateInv, LadderInv, RungsTyped
<1>1. ApprovalStep /\ UNCHANGED approvals
  <2>1. UNCHANGED approvals BY LadderFrame DEF gateVars
  <2> QED BY <1>0, <2>1, NoApprovalWrite
<1>2. UNCHANGED proposals => ProposalStep BY <1>0 DEF ProposalStep, ProposalsTable
\* Humans.
<1>3. ASSUME NEW c \in Classes, NEW v \in {"would_approve", "would_reject"}, Review(c, v)
      PROVE  LadderInv'
  <2> DEFINE row == [class |-> c, createdAt |-> now, review |-> v]
  <2>1. /\ proposals' = Append(proposals, row) /\ UNCHANGED <<ladder, job, changes, enabled>>
    BY <1>3 DEF Review
  <2>2. DOMAIN row = {"class", "createdAt", "review"} /\ row.class = c /\ row.review = v OBVIOUS
  <2> HIDE DEF row
  <2>3. /\ Len(proposals) \in Nat /\ DOMAIN proposals = 1..Len(proposals)
        /\ IsSeq(proposals') /\ DOMAIN proposals' = 1..(Len(proposals) + 1)
        /\ \A i \in DOMAIN proposals : proposals'[i] = proposals[i]
        /\ proposals'[Len(proposals) + 1] = row
    BY <1>0, <2>1, SeqAppend, SeqIds DEF ProposalsTable
  <2>4. \A i \in DOMAIN proposals' : i \notin DOMAIN proposals => proposals'[i] = row
    BY <2>3
  <2>5. DOMAIN proposals \subseteq DOMAIN proposals' BY <2>3
  <2>6. ProposalsTable' BY <1>0, <2>2, <2>3, <2>4 DEF ProposalsTable
  <2>7. ProposalStep BY <2>3, <2>5, <2>6 DEF ProposalStep
  <2> QED BY <1>0, <1>1, <2>1, <2>7, LadderWaits
<1>4. ASSUME NEW i \in DOMAIN proposals, NEW v \in {"would_approve", "would_reject"},
             ReviewAgain(i, v)
      PROVE  LadderInv'
  <2> DEFINE r == proposals[i]
             row == [r EXCEPT !.review = v]
  <2>1. proposals' = [proposals EXCEPT ![i] = row] /\ UNCHANGED <<ladder, job, changes, enabled>>
    <3>1. proposals = [b \in DOMAIN proposals |-> proposals[b]] BY <1>0 DEF ProposalsTable, IsSeq
    <3> QED BY <1>4, <3>1 DEF ReviewAgain
  <2>2. DOMAIN row = {"class", "createdAt", "review"} /\ row.class = r.class /\ row.review = v
    BY <1>0 DEF ProposalsTable
  <2> HIDE DEF row
  <2>3. /\ IsSeq(proposals') /\ DOMAIN proposals' = DOMAIN proposals
        /\ \A x \in DOMAIN proposals : proposals'[x] = IF x = i THEN row ELSE proposals[x]
    BY <1>0, <2>1, SeqReplace DEF ProposalsTable
  <2>4. ProposalsTable' BY <1>0, <2>2, <2>3 DEF ProposalsTable
  <2>5. ProposalStep BY <2>2, <2>3, <2>4 DEF ProposalStep
  <2> QED BY <1>0, <1>1, <2>1, <2>5, LadderWaits
<1>5. ASSUME SetEnabled PROVE LadderInv'
  <2>1. enabled' \in BOOLEAN /\ UNCHANGED <<proposals, ladder, job, changes>>
    BY <1>5 DEF SetEnabled
  <2> QED BY <1>0, <1>1, <1>2, <2>1, LadderWaits
\* A job moves on, and no rung changes.
<1>6. ASSUME NEW j \in Jobs, NEW t, Task(t, changes, k), job' = [job EXCEPT ![j] = t],
             UNCHANGED <<enabled, proposals, ladder, changes>>
      PROVE  LadderInv'
  <2>1. k' = k BY <1>1, <1>6 DEF HumanVerdicts, Verdicts, Decisions
  <2>2. (job = [x \in Jobs |-> job[x]])' BY <1>0, <1>6
  <2>3. \A x \in Jobs : Task(job'[x], changes, k) BY <1>0, <1>6
  <2>4. PromotedOnHumanEvidence'
    BY <1>1, <1>6 DEF LadderInv, PromotedOnHumanEvidence, Verdicts, Decisions
  <2>5. ProposalsTable' /\ RungsTyped' BY <1>0, <1>6 DEF ProposalsTable, RungsTyped
  <2> QED BY <1>0, <1>6, <2>1, <2>2, <2>3, <2>4, <2>5 DEF LadderInv
\* A job writes a rung and moves on.
<1>7. ASSUME NEW j \in Jobs, NEW t, Task(t, changes + 1, k), job' = [job EXCEPT ![j] = t],
             NEW c \in Classes, NEW rung \in Rungs, NEW demoting, NEW hold,
             demoting => job[j].rows[c].demotions \in 0..changes,
             Persist(j, c, rung, demoting, hold), rung = "promoted" => Enough(c),
             UNCHANGED <<enabled, proposals>>
      PROVE  LadderInv'
  <2>1. k' = k BY <1>1, <1>7 DEF HumanVerdicts, Verdicts, Decisions
  <2>2. (job = [x \in Jobs |-> job[x]])' BY <1>0, <1>7
  <2>3. /\ RungsTyped' /\ changes' = changes + 1 /\ ladder'[c].rung = rung
        /\ \A x \in Classes : x # c => ladder'[x] = ladder[x]
    BY <1>0, <1>7, RungPersisted
  <2>4. \A x \in Classes : k[x] \in Nat
    BY <1>0, EvidenceFinite DEF HumanVerdicts
  <2>5. changes + 1 \in Nat /\ changes <= changes + 1 BY <1>0
  <2>6. \A x \in Classes : k[x] <= k[x] BY <2>4
  <2>7. \A x \in Jobs : Task(job[x], changes + 1, k)
    <3> HIDE DEF k
    <3> QED BY <1>0, <2>4, <2>5, <2>6, TaskLasts
  <2>8. \A x \in Jobs : Task(job'[x], changes', k) BY <1>0, <1>7, <2>3, <2>7
  <2>9. \A x \in Classes : ladder[x].rung = "promoted" => Enough(x)
    BY PromotedMeansEnough DEF LadderInv
  <2>10. \A x \in Classes : ladder'[x].rung = "promoted" => Enough(x) BY <1>7, <2>3, <2>9
  <2>11. \A x \in Classes : Enough(x) => Enough(x)' BY <2>1 DEF Enough
  <2>12. PromotedOnHumanEvidence'
    <3>1. \A x \in Classes : ladder'[x].rung = "promoted" => Enough(x)' BY <2>10, <2>11
    <3> QED BY <3>1 DEF PromotedOnHumanEvidence, Enough, HumanVerdicts
  <2>13. ProposalsTable' BY <1>0, <1>7 DEF ProposalsTable
  <2> QED BY <1>0, <1>7, <2>1, <2>2, <2>3, <2>8, <2>12, <2>13 DEF LadderInv
<1>8. ASSUME NEW j \in Jobs, NEW c \in Classes, DemoteManually(j, c) PROVE LadderInv'
  <2> DEFINE t == [Idle EXCEPT !.step = "persist", !.class = c, !.rows = ladder,
                               !.evidence = [x \in {c} |-> Evidence(c)]]
  <2>1. job' = [job EXCEPT ![j] = t] /\ UNCHANGED <<enabled, proposals, ladder, changes>>
    BY <1>8 DEF DemoteManually, Do
  <2>2. /\ DOMAIN t = JobFields /\ t.step = "persist" /\ t.class = c /\ t.rows = ladder
        /\ t.todo = {}
    BY DEF Idle, JobFields
  <2> HIDE DEF t
  <2>3. Task(t, changes, k) BY <1>0, <2>2 DEF Task, Steps
  <2> QED BY <1>6, <2>1, <2>3
<1>9. ASSUME NEW j \in Jobs, EvaluateRead(j) PROVE LadderInv'
  <2> DEFINE t == [Idle EXCEPT !.step = "rows", !.todo = {c \in Classes : isActionClass(c) \/ InHistory(c)},
                               !.evidence = [c \in Classes |-> Evidence(c)]]
  <2>1. job' = [job EXCEPT ![j] = t] /\ UNCHANGED <<enabled, proposals, ladder, changes>>
    BY <1>9 DEF EvaluateRead, Do
  <2>2. /\ DOMAIN t = JobFields /\ t.step = "rows" /\ t.todo \subseteq Classes
        /\ \A c \in Classes : t.evidence[c] = Evidence(c)
    BY DEF Idle, JobFields
  <2> HIDE DEF t
  <2>3. \A c \in Classes : Sample(Evidence(c)) \in Nat /\ Sample(Evidence(c)) <= k[c]
    BY <1>0, EvidenceIsHuman
  <2>4. \A c \in t.todo : Sample(t.evidence[c]) \in Nat /\ Sample(t.evidence[c]) <= k[c]
    BY <2>2, <2>3
  <2>5. Task(t, changes, k) BY <2>2, <2>4 DEF Task, Steps
  <2> QED BY <1>6, <2>1, <2>5
<1>10. ASSUME NEW j \in Jobs, ReadRows(j) PROVE LadderInv'
  <2> DEFINE s == job[j]
             t == [s EXCEPT !.step = "judge", !.rows = ladder]
  <2>1. job' = [job EXCEPT ![j] = t] /\ UNCHANGED <<enabled, proposals, ladder, changes>>
    BY <1>10 DEF ReadRows, Do
  <2>2. Task(s, changes, k) BY <1>0
  <2>3. /\ DOMAIN t = JobFields /\ t.step = "judge" /\ t.rows = ladder
        /\ t.todo = s.todo /\ t.evidence = s.evidence
    BY <2>2 DEF Task, JobFields
  <2> HIDE DEF t
  <2>4. Task(t, changes, k) BY <1>0, <2>2, <2>3 DEF Task, Steps
  <2> QED BY <1>6, <2>1, <2>4
<1>11. ASSUME NEW j \in Jobs, NEW t, DOMAIN t = JobFields,
              t.step \in Steps \ {"persist", "rows"}, job[j].step # "rows",
              t.todo = job[j].todo, t.evidence = job[j].evidence, t.rows = job[j].rows
       PROVE  Task(t, changes, k)
  <2>1. Task(job[j], changes, k) BY <1>0
  <2> HIDE DEF k
  <2> QED BY <1>11, <2>1, TaskMoves
<1>12. ASSUME NEW j \in Jobs, ReadGrants(j) PROVE LadderInv'
  <2> DEFINE s == job[j]
             G == {g \in DOMAIN grants : Active(g) /\ grants[g].class = s.class}
             t == [s EXCEPT !.step = "suspend", !.grants = G]
  <2>1. /\ job' = [job EXCEPT ![j] = t] /\ UNCHANGED <<enabled, proposals, ladder, changes>>
        /\ s.step = "grants"
    BY <1>12 DEF ReadGrants, Do
  <2> HIDE DEF G
  <2>2. /\ DOMAIN t = JobFields /\ t.step = "suspend" /\ t.rows = s.rows
        /\ t.todo = s.todo /\ t.evidence = s.evidence
    BY <1>0 DEF Task, JobFields
  <2> HIDE DEF t
  <2>3. Task(t, changes, k) BY <1>11, <2>1, <2>2 DEF Steps
  <2> QED BY <1>6, <2>1, <2>3
<1>13. ASSUME NEW j \in Jobs, NEW g \in GrantIds, SuspendGrant(j, g) PROVE LadderInv'
  <2> DEFINE s == job[j]
             t == [s EXCEPT !.grants = s.grants \ {g}]
  <2>1. /\ job' = [job EXCEPT ![j] = t] /\ UNCHANGED <<enabled, proposals, ladder, changes>>
        /\ s.step = "suspend"
    BY <1>13 DEF SuspendGrant, Do
  <2>2. /\ DOMAIN t = JobFields /\ t.step = s.step /\ t.rows = s.rows
        /\ t.todo = s.todo /\ t.evidence = s.evidence
    BY <1>0 DEF Task, JobFields
  <2> HIDE DEF t
  <2>3. Task(t, changes, k) BY <1>11, <2>1, <2>2 DEF Steps
  <2> QED BY <1>6, <2>1, <2>3
<1>14. ASSUME NEW j \in Jobs, JobContinues(j) PROVE LadderInv'
  <2> DEFINE s == job[j]
             t == [s EXCEPT !.step = "judge"]
  <2>1. /\ UNCHANGED <<enabled, proposals, ladder, changes>> /\ s.step = "suspend"
        /\ job' = [job EXCEPT ![j] = Idle] \/ job' = [job EXCEPT ![j] = t]
    BY <1>14 DEF JobContinues, Do
  <2>2. /\ DOMAIN t = JobFields /\ t.step = "judge" /\ t.rows = s.rows
        /\ t.todo = s.todo /\ t.evidence = s.evidence
    BY <1>0 DEF Task, JobFields
  <2> HIDE DEF t
  <2>3. Task(t, changes, k) BY <1>11, <2>1, <2>2 DEF Steps
  <2>4. Task(Idle, changes, k) BY IdleTask
  <2> QED BY <1>6, <2>1, <2>3, <2>4
<1>15. ASSUME NEW j \in Jobs, PersistDemotion(j) PROVE LadderInv'
  <2> DEFINE c == job[j].class
             rung == rungFor(FALSE, job[j].evidence[c])
             t == [Idle EXCEPT !.step = "grants", !.class = c]
  <2>1. /\ job' = [job EXCEPT ![j] = t] /\ UNCHANGED <<enabled, proposals>>
        /\ Persist(j, c, rung, TRUE, TRUE) /\ job[j].step = "persist"
    BY <1>15 DEF PersistDemotion, Do
  <2>2. c \in Classes /\ job[j].rows[c].demotions \in 0..changes BY <1>0, <2>1 DEF Task
  <2>3. rung \in Rungs /\ rung # "promoted" BY DEF rungFor, Rungs
  <2>4. DOMAIN t = JobFields /\ t.step = "grants" /\ t.todo = {} BY DEF Idle, JobFields
  <2> HIDE DEF t, rung
  <2>5. Task(t, changes + 1, k) BY <2>4 DEF Task, Steps
  <2> QED BY <1>7, <2>1, <2>2, <2>3, <2>5
<1>16. ASSUME NEW j \in Jobs, EvaluateClass(j) PROVE LadderInv'
  <2> DEFINE s    == job[j]
             c    == CHOOSE x \in s.todo : TRUE
             left == s.todo \ {c}
             row  == s.rows[c]
             e    == s.evidence[c]
             verdict == evaluateLadder(row.rung, e, isAutonomyEligible(c), FALSE, activeHold(row))
             target == rungFor(CASE verdict = "promote" -> TRUE [] verdict = "demote" -> FALSE
                                 [] OTHER -> row.rung = "promoted", e)
             t    == [step |-> IF verdict = "demote" THEN "grants" ELSE "judge", class |-> c,
                      todo |-> left, grants |-> {}, evidence |-> [x \in left |-> s.evidence[x]],
                      rows |-> [x \in left |-> s.rows[x]]]
  <2>1. /\ s.step = "judge" /\ s.todo # {} /\ UNCHANGED <<enabled, proposals>>
        /\ IF verdict = "hold" /\ target = row.rung
             THEN UNCHANGED <<ladder, changes>>
             ELSE Persist(j, c, target, verdict = "demote", FALSE)
        /\ job' = [job EXCEPT ![j] = IF left = {} /\ verdict # "demote" THEN Idle ELSE t]
    BY <1>16 DEF EvaluateClass, Do
  <2>2. c \in s.todo /\ Task(s, changes, k) BY <1>0, <2>1
  <2>3. /\ c \in Classes /\ row.rung \in Rungs /\ row.demotions \in 0..changes
        /\ Sample(e) \in Nat /\ Sample(e) <= k[c]
    BY <2>1, <2>2 DEF Task
  <2>4. verdict \in {"hold", "promote", "demote"} BY DEF evaluateLadder
  <2>5. verdict = "promote" => isAutonomyEligible(c) /\ Sample(e) >= MIN_SAMPLE
    <3>1. isAutonomyEligible(c) \in BOOLEAN /\ activeHold(row) \in BOOLEAN
      BY DEF isAutonomyEligible, activeHold
    <3> HIDE DEF row, e
    <3> QED BY <3>1, PromoteNeedsEvidence
  <2>6. target \in Rungs BY DEF rungFor, Rungs
  <2>7. target = "promoted" =>
          verdict = "promote" \/ (verdict = "hold" /\ row.rung = "promoted")
    BY <2>4 DEF rungFor
  <2>8. /\ DOMAIN t = JobFields /\ t.step \in {"grants", "judge"} /\ t.todo = left
        /\ \A x \in left : t.evidence[x] = s.evidence[x] /\ t.rows[x] = s.rows[x]
    BY DEF JobFields
  <2>9. k[c] \in Nat BY <1>0, <2>3, EvidenceFinite DEF HumanVerdicts
  <2> HIDE DEF t, target, verdict
  <2>10. Task(t, changes, k)
    <3>1. left \subseteq s.todo OBVIOUS
    <3> HIDE DEF left, c
    <3> QED BY <2>1, <2>2, <2>8, <3>1 DEF Task, Steps
  <2>11. PICK u : u \in {Idle, t} /\ job' = [job EXCEPT ![j] = u] BY <2>1
  <2>12. Task(u, changes, k) BY <2>10, <2>11, IdleTask
  <2>13. CASE verdict = "hold" /\ target = row.rung
    BY <1>6, <2>1, <2>11, <2>12, <2>13
  <2>14. CASE ~(verdict = "hold" /\ target = row.rung)
    <3>1. Persist(j, c, target, verdict = "demote", FALSE) BY <2>1, <2>14
    <3>2. target = "promoted" => Enough(c)
      <4> SUFFICES ASSUME target = "promoted" PROVE Enough(c) OBVIOUS
      <4>1. verdict = "promote" BY <2>7, <2>14
      <4>2. Sample(e) >= MIN_SAMPLE /\ isAutonomyEligible(c) BY <2>5, <4>1
      <4>3. k[c] >= MIN_SAMPLE BY <2>3, <2>9, <4>2, LadderConstants
      <4> QED BY <4>2, <4>3 DEF Enough
    <3>3. \A x \in Classes : k[x] \in Nat /\ k[x] <= k[x]
      BY <1>0, EvidenceFinite DEF HumanVerdicts
    <3>4. changes + 1 \in Nat /\ changes <= changes + 1 BY <1>0
    <3>5. Task(u, changes + 1, k)
      <4> HIDE DEF k
      <4> QED BY <1>0, <2>12, <3>3, <3>4, TaskLasts
    <3> HIDE DEF c, k
    <3> QED BY <1>7, <2>1, <2>3, <2>6, <2>11, <3>1, <3>2, <3>5
  <2> QED BY <2>13, <2>14
<1> QED BY <1>3, <1>4, <1>5, <1>8, <1>9, <1>10, <1>12, <1>13, <1>14, <1>15, <1>16 DEF LadderNext

\* And the ladder and its jobs as LadderInv says.
LEMMA LadderInductive == DelegationSpec => []LadderInv
<1>1. DelegationInit => LadderInv
  <2> SUFFICES ASSUME DelegationInit PROVE LadderInv OBVIOUS
  <2> USE DEF DelegationInit, LadderInit
  <2>1. ProposalsTable BY SeqEmpty DEF ProposalsTable
  <2>2. RungsTyped BY LadderConstants DEF RungsTyped, Rungs
  <2>3. PromotedOnHumanEvidence BY DEF PromotedOnHumanEvidence
  <2>4. \A j \in Jobs : Task(job[j], changes, HumanVerdicts) BY IdleTask
  <2> QED BY <2>1, <2>2, <2>3, <2>4 DEF LadderInv
<1>2. ASSUME GrantsInv, GateInv, LadderInv, [DelegationNext]_delegationVars PROVE LadderInv'
  <2>1. CASE UNCHANGED ladderVars
    <3>1. ApprovalStep BY <1>2, ApprovalsOfNext
    <3>2. UNCHANGED <<enabled, proposals, ladder, job, changes>> BY <2>1 DEF ladderVars
    <3>3. ProposalStep BY <1>2, <3>2 DEF ProposalStep, ProposalsTable, LadderInv
    <3>4. enabled' \in BOOLEAN BY <1>2, <3>2 DEF LadderInv
    <3> QED BY <1>2, <3>1, <3>2, <3>3, <3>4, LadderWaits DEF GateInv
  <2>2. LadderNext \/ UNCHANGED ladderVars
    BY <1>2 DEF DelegationNext, ClockTicks, delegationVars
  <2> QED BY <1>2, <2>1, <2>2, LadderInvKept
<1> QED BY <1>1, <1>2, DelegationInductive, PTL DEF DelegationSpec

\* PromotionService.evaluate: a class is promoted only on MIN_SAMPLE verdicts
\* of humans, and only if it may act alone, though the evidence and the rungs
\* an evaluation works from are older than its write.
THEOREM PromotionNeedsHumans == DelegationSpec => []PromotedOnHumanEvidence
<1>1. LadderInv => PromotedOnHumanEvidence BY DEF LadderInv
<1> QED BY <1>1, LadderInductive, PTL

\* evaluateLadder never flaps: whatever the thresholds and the evidence are,
\* what promotes a class does not demote it at the next evaluation, and what
\* demotes it does not promote it, so that rules 3 and 5 agree.
THEOREM LadderIsStable ==
  ASSUME NEW e, NEW eligible \in BOOLEAN, NEW held \in BOOLEAN
  PROVE  /\ evaluateLadder("measure", e, eligible, FALSE, held) = "promote"
              => evaluateLadder("promoted", e, eligible, FALSE, held) = "hold"
         /\ evaluateLadder("promoted", e, eligible, FALSE, held) = "demote"
              => evaluateLadder("measure", e, eligible, FALSE, held) = "hold"
<1>1. evaluateLadder("measure", e, eligible, FALSE, held) = "promote"
        => evaluateLadder("promoted", e, eligible, FALSE, held) = "hold"
  BY DEF evaluateLadder
<1>2. evaluateLadder("promoted", e, eligible, FALSE, held) = "demote"
        => evaluateLadder("measure", e, eligible, FALSE, held) = "hold"
  BY DEF evaluateLadder
<1> QED BY <1>1, <1>2

\* The three components stay within their types: in particular no approval,
\* mint or renewal names a grant that is not there, and a demotion count never
\* exceeds the rung changes there were.
THEOREM DelegationIsTyped == DelegationSpec => [](GrantsOK /\ GateOK /\ LadderOK)
<1>1. ASSUME GrantsInv, GateInv, PagesInv, LadderInv PROVE GrantsOK /\ GateOK /\ LadderOK
  <2>1. /\ Len(grants) \in Nat /\ DOMAIN grants = 1..Len(grants) /\ DOMAIN grants \subseteq GrantIds
        /\ Len(grants) <= MaxGrants /\ MaxGrants \in Nat
    BY <1>1, GrantDomain, GrantConstants DEF GrantsInv, GrantsTable
  <2>2. \A g \in DOMAIN grants :
          /\ grants[g].class \in Classes
          /\ grants[g].status \in {"active"} \cup Ended
          /\ grants[g].reason \in {"none"} \cup Reasons
          /\ grants[g].renewedFrom \in 0..(g - 1)
          /\ grants[g].actionsFailed \in 0..grants[g].actionsAuthorized
    <3> TAKE g \in DOMAIN grants
    <3>1. GrantRow(grants[g]) /\ grants[g].renewedFrom < g /\ g \in Nat
      BY <1>1, <2>1 DEF GrantsInv, GrantsTable
    <3>2. grants[g].renewedFrom \in Nat /\ grants[g].actionsFailed \in Nat
          /\ grants[g].actionsAuthorized \in Nat
          /\ grants[g].actionsFailed <= grants[g].actionsAuthorized
      BY <3>1 DEF GrantRow
    <3>3. grants[g].renewedFrom \in 0..(g - 1) BY <3>1, <3>2
    <3>4. grants[g].actionsFailed \in 0..grants[g].actionsAuthorized BY <3>2
    <3> QED BY <3>1, <3>3, <3>4 DEF GrantRow
  <2>3. {0} \cup DOMAIN grants \subseteq 0..MaxGrants BY <2>1
  <2>4. GrantsOK BY <1>1, <2>1, <2>2, <2>3 DEF GrantsInv, GrantsOK, PromptsCounted
  <2>5. DOMAIN approvals \subseteq ApprovalIds BY <1>1, ApprovalDomain DEF GateInv
  <2>6. \A a \in DOMAIN approvals :
          /\ approvals[a].status \in OPEN_STATUSES \cup Decided
          /\ approvals[a].policy \in TimeoutPolicies
          /\ approvals[a].via \in {"none", "human", "grant", "timeout"}
    <3>1. \A c : resolveTimeoutPolicy(c) \in TimeoutPolicies
      BY DEF resolveTimeoutPolicy, TimeoutPolicies
    <3> QED BY <1>1, <3>1 DEF GateInv, ApprovalsTable, ApprovalRow
  <2>7. mint \in [ApprovalIds -> {Nothing, ToCreate} \cup GrantIds]
    BY <1>1, <2>1 DEF GateInv
  <2>8. repairing \in [approval : {0} \cup ApprovalIds, found : BOOLEAN]
    BY <1>1, <2>5 DEF PagesInv
  <2>9. GateOK
    BY <1>1, <2>5, <2>6, <2>7, <2>8 DEF GateInv, References, ApprovalsTable, PagesInv, GateOK
  <2>10. \A c \in Classes : /\ ladder[c].rung \in Rungs /\ ladder[c].holdUntil \in Int
                            /\ ladder[c].demotions \in 0..changes
    BY <1>1, LadderConstants DEF LadderInv, RungsTyped
  <2>11. LadderOK
    BY <1>1, <2>10 DEF LadderInv, ProposalsTable, RungsTyped, Task, Steps, LadderOK
  <2> QED BY <2>4, <2>9, <2>11
<1> QED BY <1>1, DelegationInductive, PagesInductive, LadderInductive, PTL

-----------------------------------------------------------------------------
(* The contract: what the tables show of authority *)

Unwritten == [class |-> "none", state |-> "none", budget |-> 0, from |-> 0]
Unraised  == [class |-> "none", verdict |-> "none", by |-> "none"]

\* The grants in force and the ids left, as the contract sees them.
LEMMA TrustSeen ==
  ASSUME GrantsTable
  PROVE  /\ \A g \in DOMAIN grants : g \in GrantIds /\ Trust[g] = TrustOf(grants[g])
         /\ \A g \in DOMAIN grants : Active(g) => g \in Contract!Live
         /\ \A g \in GrantIds \ DOMAIN grants : Trust[g] = Unwritten /\ g \in Contract!Unused
<1>1. DOMAIN grants \subseteq GrantIds BY GrantDomain
<1>2. \A g \in DOMAIN grants : Trust[g] = TrustOf(grants[g]) BY <1>1 DEF Trust
<1>3. \A g \in GrantIds \ DOMAIN grants : Trust[g] = Unwritten BY DEF Trust, Unwritten
<1>4. \A g \in DOMAIN grants : Active(g) => g \in Contract!Live
  <2>1. \A r : r.status = "active" => TrustOf(r).state = "live" BY DEF TrustOf
  <2>2. \A g \in DOMAIN grants : Active(g) => Trust[g].state = "live"
    BY <1>2, <2>1 DEF Active
  <2> QED BY <1>1, <2>2 DEF Contract!Live
<1>5. \A g \in GrantIds \ DOMAIN grants : g \in Contract!Unused
  BY <1>3 DEF Contract!Unused, Contract!NoTrust, Unwritten
<1> QED BY <1>1, <1>2, <1>3, <1>4, <1>5

\* A row that is written in place changes what is seen of that grant only.
LEMMA TrustReplaced ==
  ASSUME GrantsTable, NEW g \in DOMAIN grants, NEW row,
         grants' = [grants EXCEPT ![g] = row]
  PROVE  Trust' = [Trust EXCEPT ![g] = TrustOf(row)]
<1>1. /\ DOMAIN grants' = DOMAIN grants
      /\ \A h \in DOMAIN grants : grants'[h] = IF h = g THEN row ELSE grants[h]
  BY SeqReplace DEF GrantsTable
<1>2. Trust' = [h \in GrantIds |-> IF h \in DOMAIN grants' THEN TrustOf(grants'[h]) ELSE Unwritten]
  BY DEF Trust, TrustOf, Unwritten
<1>3. Trust = [h \in GrantIds |-> IF h \in DOMAIN grants THEN TrustOf(grants[h]) ELSE Unwritten]
  BY DEF Trust, Unwritten
<1>4. g \in GrantIds BY GrantDomain
<1> HIDE DEF Unwritten
<1>5. \A h \in GrantIds : (IF h \in DOMAIN grants' THEN TrustOf(grants'[h]) ELSE Unwritten) =
                          IF h = g THEN TrustOf(row) ELSE Trust[h]
  BY <1>1, <1>3
<1> QED BY <1>2, <1>3, <1>4, <1>5

\* Charging a row, claiming its prompt: nothing the contract shows.
LEMMA TrustKept ==
  ASSUME GrantsTable, NEW g, NEW row, g \in DOMAIN grants => TrustOf(row) = TrustOf(grants[g]),
         grants' = [grants EXCEPT ![g] = row]
  PROVE  UNCHANGED Trust
<1>1. CASE g \in DOMAIN grants
  <2>1. Trust' = [Trust EXCEPT ![g] = TrustOf(row)] BY <1>1, TrustReplaced
  <2>2. g \in GrantIds /\ Trust[g] = TrustOf(row) BY <1>1, TrustSeen
  <2>3. DOMAIN Trust = GrantIds /\ Trust = [h \in GrantIds |-> Trust[h]] BY DEF Trust
  <2> QED BY <2>1, <2>2, <2>3
<1>2. CASE g \notin DOMAIN grants
  <2>1. grants = [h \in DOMAIN grants |-> grants[h]] BY DEF GrantsTable, IsSeq
  <2>2. grants' = grants BY <1>2, <2>1
  <2> QED BY <2>2 DEF Trust
<1> QED BY <1>1, <1>2

\* End: a grant in force is over, another one is left alone.
LEMMA TrustEnds ==
  ASSUME GrantsTable, NEW g, NEW s \in Ended, NEW reason, End(g, s, reason)
  PROVE  \/ UNCHANGED Trust
         \/ \E h \in Contract!Live : Trust' = [Trust EXCEPT ![h].state = "over"]
<1>1. CASE ~Active(g) \/ g \notin DOMAIN grants
  <2>1. CASE grants' = grants BY <2>1 DEF Trust
  <2>2. CASE g \notin DOMAIN grants /\ Active(g)
    BY <2>2, TrustKept DEF End
  <2> QED BY <1>1, <2>1, <2>2 DEF End
<1>2. CASE Active(g) /\ g \in DOMAIN grants
  <2> DEFINE row == EndedRow(grants[g], s, reason)
  <2>1. grants' = [grants EXCEPT ![g] = row] BY <1>2 DEF End
  <2>2. GrantRow(grants[g]) BY <1>2 DEF GrantsTable
  <2>3. /\ row.status = s /\ row.class = grants[g].class
        /\ row.budgetCeilingUsd = grants[g].budgetCeilingUsd
        /\ row.fromApproval = grants[g].fromApproval
    BY <2>2 DEF EndedRow, GrantRow, GrantFields
  <2> HIDE DEF row
  <2>4. Trust' = [Trust EXCEPT ![g] = TrustOf(row)] BY <1>2, <2>1, TrustReplaced
  <2>5. Trust[g] = TrustOf(grants[g]) /\ g \in Contract!Live /\ g \in GrantIds
    BY <1>2, TrustSeen
  <2>6. TrustOf(row) = [TrustOf(grants[g]) EXCEPT !.state = "over"]
    BY <2>3 DEF TrustOf, Ended
  <2>7. DOMAIN Trust = GrantIds BY DEF Trust
  <2>8. [Trust EXCEPT ![g].state = "over"] = [Trust EXCEPT ![g] = [Trust[g] EXCEPT !.state = "over"]]
    BY <2>5, <2>7
  <2> QED BY <2>4, <2>5, <2>6, <2>8
<1> QED BY <1>1, <1>2

\* A grant that begins: the next id, with money, and of an eligible class.
LEMMA TrustBegins ==
  ASSUME GrantsTable, NEW c \in Classes, NEW t \in Terms, NEW a, create(c, t, a)
  PROVE  \E g \in Contract!Unused :
           /\ Trust' = [Trust EXCEPT ![g] = Contract!Begun(g, c, a)]
           /\ Trust'[g].budget > 0
<1> DEFINE s == NewGrant(c, t, 0, a)
           n == Len(grants) + 1
<1>1. Len(grants) \in Nat /\ DOMAIN grants = 1..Len(grants) /\ Len(grants) < MaxGrants
  BY GrantDomain DEF create, Room
<1>2. n \in GrantIds \ DOMAIN grants BY <1>1, GrantConstants DEF GrantIds
<1>3. grants' = Append(grants, s) BY DEF create
<1>4. /\ s.class = c /\ s.status = "active" /\ s.budgetCeilingUsd = t.budgetCeilingUsd
      /\ s.fromApproval = a /\ t.budgetCeilingUsd > 0
  BY DEF NewGrant, create, ValidTerms
<1> HIDE DEF s
<1>5. /\ DOMAIN grants' = DOMAIN grants \cup {n}
      /\ \A h \in DOMAIN grants : grants'[h] = grants[h]
      /\ grants'[n] = s
  <2>1. /\ DOMAIN grants' = 1..(Len(grants) + 1)
        /\ \A h \in DOMAIN grants : grants'[h] = grants[h]
        /\ grants'[Len(grants) + 1] = s
    BY <1>3, SeqAppend DEF GrantsTable
  <2> QED BY <1>1, <2>1
<1> HIDE DEF n
<1>6. Trust' = [h \in GrantIds |-> IF h \in DOMAIN grants' THEN TrustOf(grants'[h]) ELSE Unwritten]
  BY DEF Trust, TrustOf, Unwritten
<1>7. Trust = [h \in GrantIds |-> IF h \in DOMAIN grants THEN TrustOf(grants[h]) ELSE Unwritten]
  BY DEF Trust, Unwritten
<1> HIDE DEF Unwritten
<1>8. \A h \in GrantIds : (IF h \in DOMAIN grants' THEN TrustOf(grants'[h]) ELSE Unwritten) =
                          IF h = n THEN TrustOf(s) ELSE Trust[h]
  BY <1>5, <1>7
<1>9. Trust' = [Trust EXCEPT ![n] = TrustOf(s)] /\ Trust'[n] = TrustOf(s)
  BY <1>2, <1>6, <1>7, <1>8
<1>10. TrustOf(s).budget = t.budgetCeilingUsd /\ TrustOf(s).budget > 0
  BY <1>4 DEF TrustOf
<1>11. Contract!Begun(n, c, a) = TrustOf(s)
  BY <1>4, <1>9, <1>10 DEF Contract!Begun, TrustOf
<1>12. n \in Contract!Unused BY <1>2, TrustSeen
<1> QED BY <1>9, <1>10, <1>11, <1>12

\* renew: one grant is over and the next id carries on with no more money.
LEMMA TrustRenewed ==
  ASSUME GrantsTable, NEW g \in DOMAIN grants, Active(g), Room, grants' = Successor(g)
  PROVE  \E h \in Contract!Unused :
           /\ g \in Contract!Live
           /\ Trust' = [Trust EXCEPT ![g].state = "over",
                                     ![h] = Contract!Begun(h, Trust[g].class, 0)]
           /\ Trust'[h].budget <= Trust[g].budget
<1> DEFINE old == grants[g]
           row == EndedRow(old, "revoked", "superseded_by_renewal")
           mid == [grants EXCEPT ![g] = row]
           t   == narrowerOf(old)
           s   == NewGrant(old.class, t, g, 0)
           n   == Len(grants) + 1
<1>1. Len(grants) \in Nat /\ DOMAIN grants = 1..Len(grants) /\ Len(grants) < MaxGrants
  BY GrantDomain DEF Room
<1>2. n \in GrantIds \ DOMAIN grants /\ n # g BY <1>1, GrantConstants DEF GrantIds
<1>3. GrantRow(old) BY DEF GrantsTable
<1>4. /\ row.status = "revoked" /\ row.class = old.class
      /\ row.budgetCeilingUsd = old.budgetCeilingUsd /\ row.fromApproval = old.fromApproval
  BY <1>3 DEF EndedRow, GrantRow, GrantFields
<1>5. t.budgetCeilingUsd <= old.budgetCeilingUsd BY <1>3, NarrowerTerms
<1> HIDE DEF t
<1>6. /\ s.class = old.class /\ s.status = "active" /\ s.fromApproval = 0
      /\ s.budgetCeilingUsd = t.budgetCeilingUsd
  BY DEF NewGrant
<1>7. grants' = Append(mid, s) BY DEF Successor, t
<1> HIDE DEF row, s
<1>8. /\ IsSeq(mid) /\ Len(mid) = Len(grants) /\ DOMAIN mid = DOMAIN grants
      /\ \A h \in DOMAIN grants : mid[h] = IF h = g THEN row ELSE grants[h]
  BY SeqReplace DEF GrantsTable
<1> HIDE DEF mid
<1>9. /\ DOMAIN grants' = DOMAIN grants \cup {n}
      /\ \A h \in DOMAIN grants : grants'[h] = IF h = g THEN row ELSE grants[h]
      /\ grants'[n] = s
  <2>1. /\ DOMAIN grants' = 1..(Len(grants) + 1)
        /\ \A h \in DOMAIN grants : grants'[h] = mid[h]
        /\ grants'[Len(grants) + 1] = s
    BY <1>7, <1>8, SeqAppend
  <2> QED BY <1>1, <1>8, <2>1
<1> HIDE DEF n
<1>10. Trust' = [h \in GrantIds |-> IF h \in DOMAIN grants' THEN TrustOf(grants'[h]) ELSE Unwritten]
  BY DEF Trust, TrustOf, Unwritten
<1>11. Trust = [h \in GrantIds |-> IF h \in DOMAIN grants THEN TrustOf(grants[h]) ELSE Unwritten]
  BY DEF Trust, Unwritten
<1> HIDE DEF Unwritten
<1>12. \A h \in GrantIds : (IF h \in DOMAIN grants' THEN TrustOf(grants'[h]) ELSE Unwritten) =
                           IF h = n THEN TrustOf(s) ELSE IF h = g THEN TrustOf(row) ELSE Trust[h]
  BY <1>2, <1>9, <1>11
<1>13. g \in GrantIds /\ Trust[g] = TrustOf(old) /\ g \in Contract!Live /\ n \in Contract!Unused
  BY <1>2, TrustSeen
<1>14. /\ Trust' = [Trust EXCEPT ![g] = TrustOf(row), ![n] = TrustOf(s)]
       /\ Trust'[n] = TrustOf(s)
  BY <1>2, <1>10, <1>11, <1>12, <1>13
<1>15. TrustOf(row) = [TrustOf(old) EXCEPT !.state = "over"]
  BY <1>4 DEF TrustOf
<1>16. TrustOf(s).budget = t.budgetCeilingUsd /\ TrustOf(old).budget = old.budgetCeilingUsd
       /\ TrustOf(old).class = old.class
  BY <1>6 DEF TrustOf
<1>17. Contract!Begun(n, Trust[g].class, 0) = TrustOf(s)
  BY <1>6, <1>13, <1>14, <1>16 DEF Contract!Begun, TrustOf
<1>18. [Trust EXCEPT ![g].state = "over", ![n] = TrustOf(s)] =
       [Trust EXCEPT ![g] = TrustOf(row), ![n] = TrustOf(s)]
  <2>1. DOMAIN Trust = GrantIds BY DEF Trust
  <2> QED BY <1>2, <1>13, <1>15, <2>1
<1>19. Trust'[n].budget <= Trust[g].budget BY <1>5, <1>13, <1>14, <1>16
<1> QED BY <1>13, <1>14, <1>17, <1>18, <1>19

\* The questions that are open and the ids left, as the contract sees them.
LEMMA AnswersSeen ==
  ASSUME ApprovalsTable
  PROVE  /\ \A a \in DOMAIN approvals : /\ a \in ApprovalIds
                                        /\ Answers[a] = AnswerOf(approvals[a])
                                        /\ Answers[a].class = approvals[a].class
         /\ \A a \in DOMAIN approvals : Open(a) => a \in Contract!Open
         /\ \A a \in ApprovalIds \ DOMAIN approvals : a \in Contract!Unasked
<1>1. DOMAIN approvals \subseteq ApprovalIds BY ApprovalDomain
<1>2. \A a \in DOMAIN approvals : Answers[a] = AnswerOf(approvals[a]) BY <1>1 DEF Answers
<1>3. \A a \in ApprovalIds \ DOMAIN approvals : Answers[a] = Unraised BY DEF Answers, Unraised
<1>4. \A r : AnswerOf(r).class = r.class /\ AnswerOf(r).verdict = Verdict(r.status)
  BY DEF AnswerOf
<1>5. \A s \in OPEN_STATUSES : Verdict(s) = "open" BY DEF Verdict, OPEN_STATUSES
<1>6. \A a \in DOMAIN approvals : Open(a) => Answers[a].verdict = "open"
  BY <1>2, <1>4, <1>5 DEF Open
<1>7. \A a \in ApprovalIds \ DOMAIN approvals : a \in Contract!Unasked
  BY <1>3 DEF Contract!Unasked, Contract!NotAsked, Unraised
<1> QED BY <1>1, <1>2, <1>4, <1>6, <1>7 DEF Contract!Open

\* A row that is written in place changes what is seen of that approval only.
LEMMA AnswerReplaced ==
  ASSUME ApprovalsTable, NEW a \in DOMAIN approvals, NEW row,
         approvals' = [approvals EXCEPT ![a] = row]
  PROVE  Answers' = [Answers EXCEPT ![a] = AnswerOf(row)]
<1>1. /\ DOMAIN approvals' = DOMAIN approvals
      /\ \A b \in DOMAIN approvals : approvals'[b] = IF b = a THEN row ELSE approvals[b]
  BY SeqReplace DEF ApprovalsTable
<1>2. Answers' = [b \in ApprovalIds |-> IF b \in DOMAIN approvals' THEN AnswerOf(approvals'[b])
                                        ELSE Unraised]
  BY DEF Answers, AnswerOf, Verdict, Unraised
<1>3. Answers = [b \in ApprovalIds |-> IF b \in DOMAIN approvals THEN AnswerOf(approvals[b])
                                       ELSE Unraised]
  BY DEF Answers, Unraised
<1>4. a \in ApprovalIds BY ApprovalDomain
<1> HIDE DEF Unraised
<1>5. \A b \in ApprovalIds :
        (IF b \in DOMAIN approvals' THEN AnswerOf(approvals'[b]) ELSE Unraised) =
        IF b = a THEN AnswerOf(row) ELSE Answers[b]
  BY <1>1, <1>3
<1> QED BY <1>2, <1>3, <1>4, <1>5

\* Linking an escalation, recording a grant: nothing the contract shows.
LEMMA AnswersKept ==
  ASSUME ApprovalsTable, NEW a \in DOMAIN approvals, NEW f \in {"linked", "createdGrant"}, NEW v,
         approvals' = [approvals EXCEPT ![a] = [approvals[a] EXCEPT ![f] = v]]
  PROVE  UNCHANGED Answers
<1> DEFINE r == approvals[a]
           row == [r EXCEPT ![f] = v]
<1>1. ApprovalRow(r) BY DEF ApprovalsTable
<1>2. row.class = r.class /\ row.status = r.status /\ row.via = r.via
  BY <1>1 DEF ApprovalRow, ApprovalFields
<1> HIDE DEF row
<1>3. AnswerOf(row) = AnswerOf(r) BY <1>2 DEF AnswerOf
<1>4. Answers' = [Answers EXCEPT ![a] = AnswerOf(row)] BY AnswerReplaced DEF row
<1>5. a \in ApprovalIds /\ Answers[a] = AnswerOf(r) BY AnswersSeen
<1>6. DOMAIN Answers = ApprovalIds /\ Answers = [b \in ApprovalIds |-> Answers[b]] BY DEF Answers
<1> QED BY <1>3, <1>4, <1>5, <1>6

\* decide, sweepTimeouts and supersede answer an open question.
LEMMA AnswerSettled ==
  ASSUME ApprovalsTable, NEW a \in DOMAIN approvals, Open(a), NEW status, NEW via,
         Resolve(a, status, via)
  PROVE  /\ a \in Contract!Open
         /\ Answers' = [Answers EXCEPT ![a] = [class |-> Answers[a].class,
                                               verdict |-> Verdict(status), by |-> via]]
<1> DEFINE r == approvals[a]
           row == [r EXCEPT !.status = status, !.via = via]
<1>1. approvals' = [approvals EXCEPT ![a] = row]
  <2>1. approvals = [b \in DOMAIN approvals |-> approvals[b]] BY DEF ApprovalsTable, IsSeq
  <2> QED BY <2>1 DEF Resolve
<1>2. ApprovalRow(r) BY DEF ApprovalsTable
<1>3. row.class = r.class /\ row.status = status /\ row.via = via
  BY <1>2 DEF ApprovalRow, ApprovalFields
<1> HIDE DEF row
<1>4. Answers' = [Answers EXCEPT ![a] = AnswerOf(row)] BY <1>1, AnswerReplaced
<1>5. a \in Contract!Open /\ Answers[a].class = r.class BY AnswersSeen
<1>6. AnswerOf(row) = [class |-> Answers[a].class, verdict |-> Verdict(status), by |-> via]
  BY <1>3, <1>5 DEF AnswerOf
<1> QED BY <1>4, <1>5, <1>6

\* gate: a grant in force answers, or the question is put.
LEMMA AnswerRaised ==
  ASSUME GrantsTable, ApprovalsTable, NEW c \in Classes, NEW usd, Gate(c, usd)
  PROVE  \E a \in Contract!Unasked : \/ Contract!Ask(a, c)
                                     \/ \E g \in Contract!Live : Contract!Authorize(a, g)
<1> DEFINE g == authorize(c, projectedCostFor(c, usd))
           s == IF g # 0 THEN NewApproval(c, "approved", "grant", g, usd)
                ELSE NewApproval(c, Asked(c), "none", 0, usd)
           n == Len(approvals) + 1
<1>1. Len(approvals) \in Nat /\ DOMAIN approvals = 1..Len(approvals)
      /\ Len(approvals) < MaxApprovals
  BY ApprovalDomain DEF Gate
<1>2. n \in ApprovalIds \ DOMAIN approvals BY <1>1, GateConstants DEF ApprovalIds
<1>3. g # 0 => isAutonomyEligible(c) /\ g \in DOMAIN grants /\ grants[g].class = c /\ Active(g)
  BY AuthorizedGrant
<1>4. approvals' = Append(approvals, s) /\ UNCHANGED Trust BY DEF Gate, Trust, grantVars
<1> HIDE DEF g
<1>5. /\ s.class = c
      /\ g # 0 => s.status = "approved" /\ s.via = "grant"
      /\ g = 0 => s.status = Asked(c) /\ s.via = "none"
  BY DEF NewApproval
<1> HIDE DEF s
<1>6. /\ DOMAIN approvals' = DOMAIN approvals \cup {n}
      /\ \A b \in DOMAIN approvals : approvals'[b] = approvals[b]
      /\ approvals'[n] = s
  <2>1. /\ DOMAIN approvals' = 1..(Len(approvals) + 1)
        /\ \A b \in DOMAIN approvals : approvals'[b] = approvals[b]
        /\ approvals'[Len(approvals) + 1] = s
    BY <1>4, SeqAppend DEF ApprovalsTable
  <2> QED BY <1>1, <2>1
<1> HIDE DEF n
<1>7. Answers' = [b \in ApprovalIds |-> IF b \in DOMAIN approvals' THEN AnswerOf(approvals'[b])
                                        ELSE Unraised]
  BY DEF Answers, AnswerOf, Verdict, Unraised
<1>8. Answers = [b \in ApprovalIds |-> IF b \in DOMAIN approvals THEN AnswerOf(approvals[b])
                                       ELSE Unraised]
  BY DEF Answers, Unraised
<1> HIDE DEF Unraised
<1>9. \A b \in ApprovalIds :
        (IF b \in DOMAIN approvals' THEN AnswerOf(approvals'[b]) ELSE Unraised) =
        IF b = n THEN AnswerOf(s) ELSE Answers[b]
  BY <1>6, <1>8
<1>10. Answers' = [Answers EXCEPT ![n] = AnswerOf(s)] BY <1>2, <1>7, <1>8, <1>9
<1>11. n \in Contract!Unasked BY <1>2, AnswersSeen
<1>12. CASE g = 0
  <2>1. Asked(c) \in OPEN_STATUSES BY DEF Asked, OPEN_STATUSES
  <2>2. Verdict(Asked(c)) = "open" BY <2>1 DEF Verdict, OPEN_STATUSES
  <2>3. AnswerOf(s) = [class |-> c, verdict |-> "open", by |-> "none"]
    BY <1>5, <1>12, <2>2 DEF AnswerOf
  <2>4. Contract!Ask(n, c) BY <1>4, <1>10, <2>3 DEF Contract!Ask, Contract!Answer
  <2> QED BY <1>11, <2>4
<1>13. CASE g # 0
  <2>1. Verdict("approved") = "allowed" BY DEF Verdict, OPEN_STATUSES
  <2>2. AnswerOf(s) = [class |-> c, verdict |-> "allowed", by |-> "grant"]
    BY <1>5, <1>13, <2>1 DEF AnswerOf
  <2>3. g \in Contract!Live /\ Trust[g] = TrustOf(grants[g]) BY <1>3, <1>13, TrustSeen
  <2>4. Trust[g].class = c BY <1>3, <1>13, <2>3 DEF TrustOf
  <2>5. Contract!Authorize(n, g)
    BY <1>3, <1>4, <1>10, <1>13, <2>2, <2>4 DEF Contract!Authorize, Contract!Answer
  <2> QED BY <1>11, <2>3, <2>5
<1> QED BY <1>12, <1>13

\* What a step may do to the questions, and what it may do to the grants.
AnswerMove ==
  \/ UNCHANGED Answers
  \/ \E a \in Contract!Unasked : \/ \E c \in Classes : Contract!Ask(a, c)
                                 \/ \E g \in Contract!Live : Contract!Authorize(a, g)
  \/ \E a \in Contract!Open : Contract!Decide(a) \/ Contract!TimeOut(a) \/ Contract!Withdraw(a)

Begins(c, a) ==
  \E g \in Contract!Unused : /\ Trust' = [Trust EXCEPT ![g] = Contract!Begun(g, c, a)]
                             /\ Trust'[g].budget > 0

GrantMove ==
  \/ UNCHANGED Trust
  \/ \E g \in Contract!Live : Trust' = [Trust EXCEPT ![g].state = "over"]
  \/ \E c \in Classes : isAutonomyEligible(c) /\ Begins(c, 0)
  \/ \E a \in DOMAIN approvals : /\ MintCreate(a) /\ mint' = [mint EXCEPT ![a] = Len(grants) + 1]
                                 /\ isAutonomyEligible(approvals[a].class)
                                 /\ Begins(approvals[a].class, a)
  \/ \E g \in Contract!Live, h \in Contract!Unused :
       /\ Trust' = [Trust EXCEPT ![g].state = "over",
                                 ![h] = Contract!Begun(h, Trust[g].class, 0)]
       /\ Trust'[h].budget <= Trust[g].budget

\* The operations on grants move grants.
LEMMA GrantOperations == ASSUME GrantsInv, GrantNext PROVE GrantMove
<1> USE DEF GrantsInv
<1>0. ASSUME UNCHANGED grants PROVE GrantMove BY <1>0 DEF GrantMove, Trust
<1>1. ASSUME NEW c \in Classes, NEW t \in GrantTerms, CreateGrant(c, t) PROVE GrantMove
  <2>1. create(c, t, 0) /\ t \in Terms /\ isAutonomyEligible(c)
    BY <1>1, GrantConstants DEF CreateGrant, create
  <2> QED BY <2>1, TrustBegins DEF GrantMove, Begins
<1>2. ASSUME NEW h \in Humans, RenewCommit(h) PROVE GrantMove
  <2>1. CASE Active(renewing[h]) /\ Room
    <3>1. grants' = Successor(renewing[h]) /\ renewing[h] \in DOMAIN grants
      BY <1>2, <2>1 DEF RenewCommit
    <3> QED BY <2>1, <3>1, TrustRenewed DEF GrantMove
  <2>2. CASE ~(Active(renewing[h]) /\ Room) BY <1>0, <1>2, <2>2 DEF RenewCommit
  <2> QED BY <2>1, <2>2
<1>3. ASSUME NEW g \in DOMAIN grants, Revoke(g) \/ SweepExpired(g) PROVE GrantMove
  <2>1. PICK s \in Ended, reason \in Reasons : End(g, s, reason)
    BY <1>3 DEF Revoke, SweepExpired, Ended, Reasons
  <2> QED BY <2>1, TrustEnds DEF GrantMove
<1>4. ASSUME NEW p \in Prompts, NEW g \in GrantIds, ClaimRenewalPrompt(p, g) PROVE GrantMove
  <2>1. CASE ~Claimable(g) BY <1>0, <1>4, <2>1 DEF ClaimRenewalPrompt
  <2>2. CASE Claimable(g)
    <3> DEFINE r == grants[g]
               row == [r EXCEPT !.renewalPrompted = TRUE]
    <3>1. grants' = [grants EXCEPT ![g] = row]
      <4>1. grants = [b \in DOMAIN grants |-> grants[b]] BY DEF GrantsTable, IsSeq
      <4> QED BY <1>4, <2>2, <4>1 DEF ClaimRenewalPrompt
    <3>2. ASSUME g \in DOMAIN grants PROVE TrustOf(row) = TrustOf(r)
      <4>1. GrantRow(r) BY <3>2 DEF GrantsTable
      <4>2. /\ row.class = r.class /\ row.status = r.status
            /\ row.budgetCeilingUsd = r.budgetCeilingUsd /\ row.fromApproval = r.fromApproval
        BY <4>1 DEF GrantRow, GrantFields
      <4> HIDE DEF row
      <4> QED BY <4>2 DEF TrustOf
    <3> HIDE DEF row
    <3>3. UNCHANGED Trust BY <3>1, <3>2, TrustKept
    <3> QED BY <3>3 DEF GrantMove
  <2> QED BY <2>1, <2>2
<1>5. ASSUME NEW h \in Humans, NEW g \in DOMAIN grants, RenewRead(h, g) PROVE GrantMove
  BY <1>0, <1>5 DEF RenewRead
<1>6. ASSUME NEW p \in Prompts, PromptRead(p) PROVE GrantMove BY <1>0, <1>6 DEF PromptRead
<1> QED BY <1>1, <1>2, <1>3, <1>4, <1>5, <1>6 DEF GrantNext

\* The gate moves a question or a grant, never both.
LEMMA GateOperations ==
  ASSUME GrantsInv, GateInv, GateNext
  PROVE  (UNCHANGED grants /\ AnswerMove) \/ (UNCHANGED approvals /\ GrantMove)
<1> USE DEF GrantsInv, GateInv
<1> DEFINE Goal == (UNCHANGED grants /\ AnswerMove) \/ (UNCHANGED approvals /\ GrantMove)
<1>0. ASSUME UNCHANGED <<grants, approvals>> PROVE Goal BY <1>0 DEF AnswerMove, Answers
<1>1. ASSUME NEW c \in Classes, NEW usd \in Costs, Gate(c, usd) PROVE Goal
  <2>1. UNCHANGED grants BY <1>1 DEF Gate, grantVars
  <2> QED BY <1>1, <2>1, AnswerRaised DEF AnswerMove
<1>2. ASSUME NEW a, linkEscalation(a), UNCHANGED grants PROVE Goal
  <2>1. CASE ~Parked(a) \/ a \notin DOMAIN approvals
    <3>1. UNCHANGED approvals
      <4>1. approvals = [b \in DOMAIN approvals |-> approvals[b]] BY DEF ApprovalsTable, IsSeq
      <4> QED BY <1>2, <2>1, <4>1 DEF linkEscalation
    <3> QED BY <1>0, <1>2, <3>1
  <2>2. CASE Parked(a) /\ a \in DOMAIN approvals
    <3>1. approvals' = [approvals EXCEPT ![a] = [approvals[a] EXCEPT !["linked"] = TRUE]]
      <4>1. approvals = [b \in DOMAIN approvals |-> approvals[b]] BY DEF ApprovalsTable, IsSeq
      <4> QED BY <1>2, <2>2, <4>1 DEF linkEscalation
    <3>2. UNCHANGED Answers BY <2>2, <3>1, AnswersKept
    <3> QED BY <1>2, <3>2 DEF AnswerMove
  <2> QED BY <2>1, <2>2
<1>3. ASSUME NEW a \in DOMAIN approvals, GateLink(a) PROVE Goal
  BY <1>0, <1>2, <1>3 DEF GateLink, grantVars
<1>4. ASSUME BackfillLink PROVE Goal BY <1>0, <1>2, <1>4 DEF BackfillLink, grantVars
<1>5. ASSUME NEW a \in DOMAIN approvals, NEW approve \in BOOLEAN, NEW always \in BOOLEAN,
             Decide(a, approve, always)
      PROVE  Goal
  <2> DEFINE status == IF approve THEN "approved" ELSE "denied"
  <2>1. Open(a) /\ Resolve(a, status, "human") /\ UNCHANGED grants BY <1>5 DEF Decide, grantVars
  <2>2. Verdict(status) = IF approve THEN "allowed" ELSE "refused" BY DEF Verdict, OPEN_STATUSES
  <2> HIDE DEF status
  <2>3. /\ a \in Contract!Open
        /\ Answers' = [Answers EXCEPT ![a] = [class |-> Answers[a].class,
                                              verdict |-> Verdict(status), by |-> "human"]]
    BY <2>1, AnswerSettled
  <2>4. UNCHANGED Trust BY <2>1 DEF Trust
  <2>5. Contract!Decide(a)
    BY <2>2, <2>3, <2>4 DEF Contract!Decide, Contract!Settle, Contract!Answer
  <2> QED BY <2>1, <2>3, <2>5 DEF AnswerMove
<1>6. ASSUME NEW a \in DOMAIN approvals, Supersede(a) PROVE Goal
  <2>1. Open(a) /\ Resolve(a, "superseded", "none") /\ UNCHANGED grants
    BY <1>6 DEF Supersede, grantVars
  <2>2. Verdict("superseded") = "withdrawn" BY DEF Verdict, OPEN_STATUSES
  <2>3. /\ a \in Contract!Open
        /\ Answers' = [Answers EXCEPT ![a] = [class |-> Answers[a].class,
                                              verdict |-> Verdict("superseded"), by |-> "none"]]
    BY <2>1, AnswerSettled
  <2>4. UNCHANGED Trust BY <2>1 DEF Trust
  <2>5. Contract!Withdraw(a)
    BY <2>2, <2>3, <2>4 DEF Contract!Withdraw, Contract!Settle, Contract!Answer
  <2> QED BY <2>1, <2>3, <2>5 DEF AnswerMove
<1>7. ASSUME NEW a \in DOMAIN approvals, SweepResolve(a) PROVE Goal
  <2> DEFINE r == approvals[a]
             status == IF r.policy = "auto_approve" THEN "auto_approved" ELSE "auto_denied"
  <2>0. UNCHANGED grants BY <1>7 DEF SweepResolve, grantVars
  <2>1. CASE ~(r.policy # "park_and_escalate" /\ r.status = "pending")
    <3>1. UNCHANGED approvals BY <1>7, <2>1 DEF SweepResolve
    <3> QED BY <1>0, <2>0, <3>1
  <2>2. CASE r.policy # "park_and_escalate" /\ r.status = "pending"
    <3>1. Resolve(a, status, "timeout") BY <1>7, <2>2 DEF SweepResolve
    <3>2. Open(a) BY <2>2 DEF Open, OPEN_STATUSES
    <3>3. Verdict(status) = IF r.policy = "auto_approve" THEN "allowed" ELSE "refused"
      BY DEF Verdict, OPEN_STATUSES
    <3>4. /\ r.class \in Classes /\ r.policy = resolveTimeoutPolicy(r.class)
          /\ resolveTimeoutPolicy(r.class) \in {"auto_approve", "deny"}
      <4>1. ApprovalRow(r) BY DEF ApprovalsTable
      <4>2. resolveTimeoutPolicy(r.class) \in TimeoutPolicies
        BY DEF resolveTimeoutPolicy, TimeoutPolicies
      <4> QED BY <2>2, <4>1, <4>2 DEF ApprovalRow, TimeoutPolicies
    <3> HIDE DEF status
    <3>5. /\ a \in Contract!Open
          /\ Answers' = [Answers EXCEPT ![a] = [class |-> Answers[a].class,
                                                verdict |-> Verdict(status), by |-> "timeout"]]
      BY <3>1, <3>2, AnswerSettled
    <3>6. UNCHANGED Trust BY <2>0 DEF Trust
    <3>7. Answers[a].class = r.class BY AnswersSeen
    <3>8. Contract!TimeOut(a)
      BY <3>3, <3>4, <3>5, <3>6, <3>7 DEF Contract!TimeOut, Contract!Settle, Contract!Answer
    <3> QED BY <2>0, <3>5, <3>8 DEF AnswerMove
  <2> QED BY <2>1, <2>2
<1>8. ASSUME NEW a \in DOMAIN approvals, MintRecord(a) PROVE Goal
  <2>0. UNCHANGED grants BY <1>8 DEF MintRecord, grantVars
  <2>1. CASE UNCHANGED approvals BY <1>0, <2>0, <2>1
  <2>2. CASE approvals' = [approvals EXCEPT ![a].createdGrant = mint[a]]
    <3>1. approvals' = [approvals EXCEPT ![a] = [approvals[a] EXCEPT !["createdGrant"] = mint[a]]]
      <4>1. approvals = [b \in DOMAIN approvals |-> approvals[b]] BY DEF ApprovalsTable, IsSeq
      <4> QED BY <2>2, <4>1
    <3>2. UNCHANGED Answers BY <3>1, AnswersKept
    <3> QED BY <2>0, <3>2 DEF AnswerMove
  <2> QED BY <1>8, <2>1, <2>2 DEF MintRecord
<1>9. ASSUME NEW a \in DOMAIN approvals, MintCreate(a) PROVE Goal
  <2>0. UNCHANGED approvals BY <1>9 DEF MintCreate
  <2>1. CASE UNCHANGED grants BY <1>0, <2>0, <2>1
  <2>2. CASE /\ create(approvals[a].class, DefaultTerms, a)
             /\ mint' = [mint EXCEPT ![a] = Len(grants) + 1]
    <3>1. approvals[a].class \in Classes BY DEF ApprovalsTable, ApprovalRow
    <3>2. isAutonomyEligible(approvals[a].class) BY <2>2 DEF create
    <3>3. DefaultTerms \in Terms BY GrantConstants
    <3>4. Begins(approvals[a].class, a) BY <2>2, <3>1, <3>3, TrustBegins DEF Begins
    <3> QED BY <1>9, <2>0, <2>2, <3>2, <3>4 DEF GrantMove
  <2> QED BY <1>9, <2>1, <2>2 DEF MintCreate
<1>10. ASSUME NEW a \in DOMAIN approvals, NEW failed \in BOOLEAN, RecordUsage(a, failed) PROVE Goal
  <2> DEFINE g == approvals[a].grant
             cost == projectedCostFor(approvals[a].class, approvals[a].usd)
             r == grants[g]
             row == Charged(r, cost, failed)
  <2>0. UNCHANGED approvals BY <1>10 DEF RecordUsage
  <2>1. grants' = [grants EXCEPT ![g] = row] BY <1>10 DEF RecordUsage
  <2> HIDE DEF cost
  <2>2. ASSUME g \in DOMAIN grants PROVE TrustOf(row) = TrustOf(r)
    <3>1. GrantRow(r) BY <2>2 DEF GrantsTable
    <3>2. /\ row.class = r.class /\ row.status = r.status
          /\ row.budgetCeilingUsd = r.budgetCeilingUsd /\ row.fromApproval = r.fromApproval
      BY <3>1 DEF Charged, GrantRow, GrantFields
    <3> HIDE DEF row
    <3> QED BY <3>2 DEF TrustOf
  <2> HIDE DEF row
  <2>3. UNCHANGED Trust BY <2>1, <2>2, TrustKept
  <2> QED BY <2>0, <2>3 DEF GrantMove
<1>11. ASSUME NEW a \in DOMAIN approvals, SuspendAfterUse(a) PROVE Goal
  <2>1. UNCHANGED approvals BY <1>11 DEF SuspendAfterUse
  <2>2. CASE UNCHANGED grants BY <1>0, <2>1, <2>2
  <2>3. CASE End(approvals[a].grant, "suspended", use[a])
    <3>1. "suspended" \in Ended BY DEF Ended
    <3> QED BY <2>1, <2>3, <3>1, TrustEnds DEF GrantMove
  <2> QED BY <1>11, <2>2, <2>3 DEF SuspendAfterUse
<1>12. ASSUME NEW a \in DOMAIN approvals, GateRaise(a) \/ GateDies(a) PROVE Goal
  BY <1>0, <1>12 DEF GateRaise, GateDies, grantVars
<1>13. ASSUME SweepRead \/ BackfillRead \/ BackfillFind \/ BackfillRaise PROVE Goal
  BY <1>0, <1>13 DEF SweepRead, BackfillRead, BackfillFind, BackfillRaise, grantVars
<1> HIDE DEF Goal
<1>14. Goal
  BY <1>1, <1>3, <1>4, <1>5, <1>6, <1>7, <1>8, <1>9, <1>10, <1>11, <1>12, <1>13 DEF GateNext
<1> QED BY <1>14 DEF Goal

\* So does every step.
LEMMA StepMoves ==
  ASSUME GrantsInv, GateInv, [DelegationNext]_delegationVars
  PROVE  (UNCHANGED grants /\ AnswerMove) \/ (UNCHANGED approvals /\ GrantMove)
<1>0. ASSUME UNCHANGED <<grants, approvals>> PROVE UNCHANGED grants /\ AnswerMove
  BY <1>0 DEF AnswerMove, Answers
<1>1. CASE GrantNext /\ UNCHANGED gateVars BY <1>1, GrantOperations DEF gateVars
<1>2. CASE GateNext BY <1>2, GateOperations
<1>3. CASE LadderNext
  <2>1. UNCHANGED approvals BY <1>3, LadderFrame DEF gateVars
  <2>2. CASE UNCHANGED grants BY <1>0, <2>1, <2>2
  <2>3. ASSUME NEW g \in GrantIds, End(g, "suspended", "class_demoted") PROVE GrantMove
    BY <2>3, TrustEnds DEF GrantMove, GrantsInv, Ended
  <2> QED BY <1>3, <2>1, <2>2, <2>3, LadderFrame
<1>4. CASE ClockTicks BY <1>0, <1>4 DEF ClockTicks, grantVars, gateVars
<1>5. CASE UNCHANGED delegationVars BY <1>0, <1>5 DEF delegationVars, grantVars, gateVars
<1> QED BY <1>1, <1>2, <1>3, <1>4, <1>5 DEF DelegationNext

\* "Always" is said with an approval a human gave and is good for one grant:
\* while a mint is pending no grant names its approval, and an approval a
\* grant names is settled.
MintedOnce ==
  /\ \A a \in DOMAIN approvals : mint[a] = ToCreate =>
       approvals[a].status = "approved" /\ approvals[a].via = "human"
  /\ \A a \in ApprovalIds : a \notin DOMAIN approvals => mint[a] = Nothing
  /\ \A g \in GrantIds : Trust[g].from # 0 =>
       LET f == Trust[g].from IN f \in DOMAIN approvals /\ ~Open(f) /\ mint[f] # ToCreate

\* A mint is started by a decision, and ended by its two steps.
LEMMA MintFrame ==
  ASSUME [DelegationNext]_delegationVars
  PROVE  \/ UNCHANGED mint
         \/ \E a \in DOMAIN approvals :
              \/ \E approve, always \in BOOLEAN : Decide(a, approve, always)
              \/ mint' = [mint EXCEPT ![a] = Len(grants) + 1]
              \/ mint' = [mint EXCEPT ![a] = Nothing]
<1>1. CASE GateNext
  <2>1. ASSUME NEW a \in DOMAIN approvals, MintCreate(a)
        PROVE  mint' = [mint EXCEPT ![a] = Len(grants) + 1] \/ mint' = [mint EXCEPT ![a] = Nothing]
    BY <2>1 DEF MintCreate
  <2>2. ASSUME NEW a \in DOMAIN approvals, MintRecord(a)
        PROVE  mint' = [mint EXCEPT ![a] = Nothing]
    BY <2>2 DEF MintRecord
  <2>3. ASSUME NEW a, \/ GateRaise(a) \/ GateLink(a) \/ GateDies(a) \/ Supersede(a)
                      \/ SuspendAfterUse(a) \/ SweepResolve(a)
        PROVE  UNCHANGED mint
    BY <2>3 DEF GateRaise, GateLink, GateDies, Supersede, SuspendAfterUse, SweepResolve
  <2>4. ASSUME NEW a, NEW failed, RecordUsage(a, failed) PROVE UNCHANGED mint
    BY <2>4 DEF RecordUsage
  <2>5. ASSUME NEW c, NEW usd, Gate(c, usd) PROVE UNCHANGED mint BY <2>5 DEF Gate
  <2>6. ASSUME SweepRead \/ BackfillRead \/ BackfillFind \/ BackfillRaise \/ BackfillLink
        PROVE  UNCHANGED mint
    BY <2>6 DEF SweepRead, BackfillRead, BackfillFind, BackfillRaise, BackfillLink
  <2> QED BY <1>1, <2>1, <2>2, <2>3, <2>4, <2>5, <2>6 DEF GateNext
<1>2. CASE LadderNext BY <1>2, LadderFrame DEF gateVars
<1>3. CASE GrantNext /\ UNCHANGED gateVars BY <1>3 DEF gateVars
<1>4. CASE ClockTicks BY <1>4 DEF ClockTicks, gateVars
<1>5. CASE UNCHANGED delegationVars BY <1>5 DEF delegationVars, gateVars
<1> QED BY <1>1, <1>2, <1>3, <1>4, <1>5 DEF DelegationNext

\* A grant names the approval it was minted from, for good.
LEMMA FromMoves ==
  ASSUME GrantMove, NEW g \in GrantIds, Trust'[g].from # 0
  PROVE  \/ Trust'[g].from = Trust[g].from
         \/ \E a \in DOMAIN approvals : /\ MintCreate(a) /\ Trust'[g].from = a
                                        /\ mint' = [mint EXCEPT ![a] = Len(grants) + 1]
<1>1. /\ Trust = [h \in GrantIds |-> Trust[h]] /\ DOMAIN Trust = GrantIds
      /\ \A h \in GrantIds : DOMAIN Trust[h] = {"class", "state", "budget", "from"}
  BY DEF Trust, TrustOf
<1>2. \A h, c, a : Contract!Begun(h, c, a).from = a BY DEF Contract!Begun
<1>3. CASE UNCHANGED Trust BY <1>3
<1>4. ASSUME NEW h \in Contract!Live, Trust' = [Trust EXCEPT ![h].state = "over"]
      PROVE  Trust'[g].from = Trust[g].from
  BY <1>1, <1>4 DEF Contract!Live
<1>5. ASSUME NEW c, NEW a, Begins(c, a) PROVE Trust'[g].from \in {Trust[g].from, a}
  BY <1>1, <1>2, <1>5 DEF Begins, Contract!Unused
<1>6. ASSUME NEW k \in Contract!Live, NEW h \in Contract!Unused,
             Trust' = [Trust EXCEPT ![k].state = "over",
                                    ![h] = Contract!Begun(h, Trust[k].class, 0)]
      PROVE  Trust'[g].from \in {Trust[g].from, 0}
  <2> DEFINE b == Contract!Begun(h, Trust[k].class, 0)
  <2>1. b.from = 0 BY <1>2
  <2> HIDE DEF b
  <2>2. Trust' = [Trust EXCEPT ![k].state = "over", ![h] = b] BY <1>6 DEF b
  <2>3. h \in GrantIds /\ k \in GrantIds BY DEF Contract!Live, Contract!Unused
  <2> QED BY <1>1, <2>1, <2>2, <2>3
<1> QED BY <1>3, <1>4, <1>5, <1>6 DEF GrantMove

\* MintedOnce is kept by every step.
LEMMA MintedOnceKept ==
  ASSUME GrantsInv, GateInv, MintedOnce, [DelegationNext]_delegationVars
  PROVE  MintedOnce'
<1>1. ApprovalStep BY ApprovalsOfNext
<1>2. /\ DOMAIN approvals \subseteq ApprovalIds
      /\ \A a \in DOMAIN approvals : approvals[a].status \in OPEN_STATUSES \cup Decided
  BY ApprovalDomain DEF GateInv, ApprovalsTable, ApprovalRow
<1>3. mint \in [ApprovalIds -> {Nothing, ToCreate} \cup DOMAIN grants] BY DEF GateInv
<1>4. \A a \in DOMAIN approvals : a \in DOMAIN approvals' BY <1>1 DEF ApprovalStep
<1>5. \A a \in DOMAIN approvals : ~Open(a) =>
        approvals'[a].status = approvals[a].status /\ approvals'[a].via = approvals[a].via
  BY <1>1, <1>2 DEF ApprovalStep, KeptApproval, Open
<1>6. \A a \in DOMAIN approvals : mint[a] = ToCreate => ~Open(a)
  BY DEF MintedOnce, Open, OPEN_STATUSES
<1>7. Len(grants) + 1 # ToCreate /\ Nothing # ToCreate
  BY GrantDomain DEF GrantsInv, ToCreate, Nothing
<1>8. \A a \in ApprovalIds : a \notin DOMAIN approvals => mint'[a] = mint[a]
  BY <1>3, MintFrame DEF Decide
<1>9. \A a \in DOMAIN approvals : mint'[a] = ToCreate =>
        mint[a] = ToCreate \/ (approvals'[a].status = "approved" /\ approvals'[a].via = "human"
                               /\ Open(a))
  <2> SUFFICES ASSUME NEW a \in DOMAIN approvals, mint'[a] = ToCreate, mint[a] # ToCreate
               PROVE  /\ approvals'[a].status = "approved" /\ approvals'[a].via = "human"
                      /\ Open(a)
    OBVIOUS
  <2>1. PICK b \in DOMAIN approvals :
          \/ \E approve, always \in BOOLEAN : Decide(b, approve, always)
          \/ mint' = [mint EXCEPT ![b] = Len(grants) + 1]
          \/ mint' = [mint EXCEPT ![b] = Nothing]
    BY MintFrame
  <2>2. PICK approve \in BOOLEAN, always \in BOOLEAN : Decide(b, approve, always)
    BY <1>2, <1>3, <1>7, <2>1
  <2>3. b = a /\ approve = TRUE /\ Open(a) BY <1>2, <1>3, <2>2 DEF Decide
  <2>4. Resolve(a, "approved", "human") BY <2>2, <2>3 DEF Decide
  <2>5. DOMAIN approvals[a] = ApprovalFields BY DEF GateInv, ApprovalsTable, ApprovalRow
  <2>6. approvals = [c \in DOMAIN approvals |-> approvals[c]] BY DEF GateInv, ApprovalsTable, IsSeq
  <2>7. approvals'[a] = [approvals[a] EXCEPT !.status = "approved", !.via = "human"]
    BY <2>4, <2>6 DEF Resolve
  <2>8. approvals'[a].status = "approved" /\ approvals'[a].via = "human"
    BY <2>5, <2>7 DEF ApprovalFields
  <2> QED BY <2>3, <2>8
<1>10. \A a \in DOMAIN approvals' : mint'[a] = ToCreate =>
         approvals'[a].status = "approved" /\ approvals'[a].via = "human"
  <2> SUFFICES ASSUME NEW a \in DOMAIN approvals', mint'[a] = ToCreate
               PROVE  approvals'[a].status = "approved" /\ approvals'[a].via = "human"
    OBVIOUS
  <2>1. a \in ApprovalIds
    <3>1. IsSeq(approvals') /\ Len(approvals') <= MaxApprovals /\ MaxApprovals \in Nat
      BY <1>1, GateConstants DEF ApprovalStep
    <3>2. Len(approvals') \in Nat /\ DOMAIN approvals' = 1..Len(approvals') BY <3>1, SeqIds
    <3> QED BY <3>1, <3>2 DEF ApprovalIds
  <2>2. a \in DOMAIN approvals BY <1>7, <1>8, <2>1 DEF MintedOnce
  <2> QED BY <1>5, <1>6, <1>9, <2>2 DEF MintedOnce
<1>11. \A a \in ApprovalIds : a \notin DOMAIN approvals' => mint'[a] = Nothing
  BY <1>4, <1>8 DEF MintedOnce
<1>12. ASSUME NEW g \in GrantIds, Trust'[g].from # 0
       PROVE  LET f == Trust'[g].from IN
              /\ f \in DOMAIN approvals' /\ approvals'[f].status \notin OPEN_STATUSES
              /\ mint'[f] # ToCreate
  <2> DEFINE f == Trust'[g].from
  <2>1. CASE f = Trust[g].from
    <3>1. f \in DOMAIN approvals /\ ~Open(f) /\ mint[f] # ToCreate
      BY <1>12, <2>1 DEF MintedOnce
    <3> HIDE DEF f
    <3>2. mint'[f] # ToCreate BY <1>9, <3>1
    <3>3. approvals'[f].status \notin OPEN_STATUSES BY <1>5, <3>1 DEF Open
    <3> QED BY <1>4, <3>1, <3>2, <3>3 DEF f
  <2>2. ASSUME NEW a \in DOMAIN approvals, MintCreate(a), f = a,
               mint' = [mint EXCEPT ![a] = Len(grants) + 1]
        PROVE  f \in DOMAIN approvals' /\ approvals'[f].status \notin OPEN_STATUSES
               /\ mint'[f] # ToCreate
    <3>1. mint[a] = ToCreate /\ UNCHANGED approvals BY <2>2 DEF MintCreate
    <3>2. ~Open(a) BY <1>6, <3>1
    <3> HIDE DEF f
    <3>3. mint'[a] # ToCreate BY <1>2, <1>3, <1>7, <2>2
    <3> QED BY <2>2, <3>1, <3>2, <3>3 DEF Open
  <2>3. CASE UNCHANGED grants
    <3>1. f = Trust[g].from BY <2>3 DEF Trust
    <3> QED BY <2>1, <3>1
  <2>4. CASE GrantMove BY <1>12, <2>1, <2>2, <2>4, FromMoves
  <2> QED BY <2>3, <2>4, StepMoves
<1> QED BY <1>10, <1>11, <1>12 DEF MintedOnce, Open

\* The empty tables show nobody any authority.
LEMMA AuthorityStarts == ASSUME DelegationInit PROVE Contract!Init /\ MintedOnce
<1>1. grants = <<>> /\ approvals = <<>> /\ mint = [a \in ApprovalIds |-> Nothing]
  BY DEF DelegationInit, GrantInit, GateInit
<1>2. DOMAIN grants = {} /\ DOMAIN approvals = {} BY <1>1, SeqEmpty
<1>3. Trust = [g \in GrantIds |-> Unwritten] BY <1>2 DEF Trust, Unwritten
<1>4. Answers = [a \in ApprovalIds |-> Unraised] BY <1>2 DEF Answers, Unraised
<1>5. Contract!Init
  BY <1>3, <1>4 DEF Contract!Init, Contract!NotAsked, Contract!NoTrust, Unwritten, Unraised
<1>6. \A g \in GrantIds : Trust[g].from = 0 BY <1>3 DEF Unwritten
<1> QED BY <1>1, <1>2, <1>5, <1>6 DEF MintedOnce

\* Every step is a step of the contract, or shows nothing of it.
LEMMA AuthorityStep ==
  ASSUME GrantsInv, GateInv, MintedOnce, [DelegationNext]_delegationVars
  PROVE  [Contract!Step]_<<Answers, Trust>>
<1>1. CASE UNCHANGED grants /\ AnswerMove
  <2>1. UNCHANGED Trust BY <1>1 DEF Trust
  <2> QED BY <1>1, <2>1 DEF AnswerMove, Contract!Step
<1>2. CASE UNCHANGED approvals /\ GrantMove
  <2>0. UNCHANGED Answers BY <1>2 DEF Answers
  <2>1. CASE UNCHANGED Trust BY <2>0, <2>1
  <2>2. ASSUME NEW g \in Contract!Live, Trust' = [Trust EXCEPT ![g].state = "over"]
        PROVE  Contract!Step
    BY <2>0, <2>2 DEF Contract!Step, Contract!EndTrust
  <2>3. ASSUME NEW c \in Classes, isAutonomyEligible(c), Begins(c, 0) PROVE Contract!Step
    BY <2>0, <2>3 DEF Begins, Contract!Step, Contract!Begin
  <2>4. ASSUME NEW a \in DOMAIN approvals, MintCreate(a),
               isAutonomyEligible(approvals[a].class), Begins(approvals[a].class, a)
        PROVE  Contract!Step
    <3>1. mint[a] = ToCreate BY <2>4 DEF MintCreate
    <3>2. approvals[a].status = "approved" /\ approvals[a].via = "human"
      BY <3>1 DEF MintedOnce
    <3>3. a \in ApprovalIds /\ Answers[a] = AnswerOf(approvals[a])
          /\ Answers[a].class = approvals[a].class
      BY AnswersSeen DEF GateInv
    <3>4. Verdict("approved") = "allowed" BY DEF Verdict, OPEN_STATUSES
    <3>5. Answers[a].verdict = "allowed" /\ Answers[a].by = "human"
      BY <3>2, <3>3, <3>4 DEF AnswerOf
    <3>6. a # 0 BY <3>3, GateConstants DEF ApprovalIds
    <3>7. \A h \in GrantIds : Trust[h].from # a BY <3>1, <3>6 DEF MintedOnce
    <3>8. PICK g \in Contract!Unused :
            /\ Trust' = [Trust EXCEPT ![g] = Contract!Begun(g, approvals[a].class, a)]
            /\ Trust'[g].budget > 0
      BY <2>4 DEF Begins
    <3>9. approvals[a].class \in Classes BY DEF GateInv, ApprovalsTable, ApprovalRow
    <3>10. Contract!BeginFrom(g, a)
      BY <2>0, <2>4, <3>3, <3>5, <3>7, <3>8, <3>9 DEF Contract!BeginFrom, Contract!Begin
    <3> QED BY <3>3, <3>8, <3>10 DEF Contract!Step
  <2>5. ASSUME NEW g \in Contract!Live, NEW h \in Contract!Unused,
               Trust' = [Trust EXCEPT ![g].state = "over",
                                      ![h] = Contract!Begun(h, Trust[g].class, 0)],
               Trust'[h].budget <= Trust[g].budget
        PROVE  Contract!Step
    BY <2>0, <2>5 DEF Contract!Step, Contract!Renew
  <2> QED BY <1>2, <2>1, <2>2, <2>3, <2>4, <2>5, <2>0 DEF GrantMove
<1> QED BY <1>1, <1>2, StepMoves

\* The gate, the grants and the ladder implement Authority, with every
\* interleaving of humans, timers and sweeps: an approval is answered once and
\* by whom it says, a grant begins with a human, is over once, and is neither
\* used nor renewed after that, and one "always" is good for one grant.
THEOREM AuthorityImplemented == DelegationSpec => AuthoritySpec
<1>1. ASSUME MintedOnce, GrantsInv, GateInv, [DelegationNext]_delegationVars PROVE MintedOnce'
  BY <1>1, MintedOnceKept
<1>2. ASSUME MintedOnce, GrantsInv, GateInv, [DelegationNext]_delegationVars
      PROVE  [Contract!Next]_<<Answers, Trust>>
  BY <1>2, AuthorityStep DEF Contract!Next
<1> QED
  BY <1>1, <1>2, AuthorityStarts, DelegationInductive, PTL
  DEF DelegationSpec, AuthoritySpec, Contract!Spec

-----------------------------------------------------------------------------
(* The instance that is model-checked *)

\* A step within a scope is a step of the three components on one clock: the
\* scopes leave interleavings out and add none.
LEMMA ScopeStep ==
  ASSUME scope \in Scopes, now \in Nat, [MCNext]_allVars
  PROVE  scope' \in Scopes /\ [DelegationNext]_delegationVars
<1>1. CASE UNCHANGED allVars BY <1>1 DEF allVars, delegationVars
<1>2. CASE Tick
  <2>1. LastTick[scope] \in Nat /\ LastTick[scope] <= MaxNow /\ MaxNow \in Nat
    BY MCConstants, GrantConstants DEF Scopes, LastTick
  <2> QED BY <1>2, <2>1 DEF Tick, DelegationNext, ClockTicks
<1>3. CASE GrantsScope BY <1>3 DEF GrantsScope, DelegationNext
<1>4. CASE GrantedScope
  <2>1. ASSUME NEW t \in GrantTerms, CreateGrant("re-dispatch", t) PROVE GrantNext
    BY <2>1, MCConstants DEF GrantNext
  <2>2. ASSUME NEW g \in DOMAIN grants, Revoke(g) \/ SweepExpired(g) PROVE GrantNext
    BY <2>2 DEF GrantNext
  <2> QED BY <1>4, <2>1, <2>2 DEF GrantedScope, DelegationNext
<1>5. CASE ParkedScope BY <1>5 DEF ParkedScope, DelegationNext
<1>6. CASE LadderScope
  <2>1. OneHuman \in Humans BY MCConstants DEF OneHuman
  <2>2. ASSUME NEW t \in GrantTerms, CreateGrant("daily-brief", t) PROVE GrantNext
    BY <2>2, MCConstants DEF GrantNext
  <2>3. ASSUME RenewCommit(OneHuman) \/ \E g \in DOMAIN grants : RenewRead(OneHuman, g)
        PROVE  GrantNext
    BY <2>1, <2>3 DEF GrantNext
  <2>4. ASSUME Gate("daily-brief", 1) PROVE GateNext BY <2>4, MCConstants DEF GateNext
  <2>5. ASSUME NEW a \in DOMAIN approvals, Decide(a, TRUE, FALSE) \/ SweepResolve(a)
        PROVE  GateNext
    BY <2>5 DEF GateNext
  <2>6. ASSUME SweepRead PROVE GateNext BY <2>6 DEF GateNext
  <2> QED BY <1>6, <2>2, <2>3, <2>4, <2>5, <2>6 DEF LadderScope, DelegationNext
<1> QED BY <1>1, <1>2, <1>3, <1>4, <1>5, <1>6 DEF MCNext

\* The instance is one of the components' behaviours, so that every theorem
\* above holds of it.
THEOREM InstanceIsDelegation == MCSpec => DelegationSpec
<1>1. ASSUME MCInit PROVE scope \in Scopes /\ GrantsInv /\ GateInv /\ DelegationInit
  BY <1>1, DelegationStarts DEF MCInit, DelegationInit
<1>2. ASSUME scope \in Scopes, GrantsInv, GateInv, [MCNext]_allVars
      PROVE  /\ (scope \in Scopes /\ GrantsInv /\ GateInv)'
             /\ [DelegationNext]_delegationVars
  <2>1. now \in Nat BY <1>2, GrantConstants DEF GrantsInv
  <2> QED BY <1>2, <2>1, ScopeStep, GrantsInvKept, GateInvKept
<1> QED BY <1>1, <1>2, PTL DEF MCSpec, DelegationSpec

\* The rows, calls and jobs of grants, gate and ladder keep their types in
\* every scope.
THEOREM InstanceIsTyped == MCSpec => []TypeOK
BY InstanceIsDelegation, DelegationIsTyped, PTL DEF TypeOK
=============================================================================
