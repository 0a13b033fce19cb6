----------------------------- MODULE MCDelegation -----------------------------
(***************************************************************************)
(* Grants, gate and ladder on one clock.  A behaviour has a scope, chosen  *)
(* at the start: the part whose interleavings it explores in full.  The    *)
(* other parts take the steps that part depends on.                        *)
(***************************************************************************)
EXTENDS PromotionLadder

VARIABLE scope

allVars == <<scope, now, grantVars, gateVars, ladderVars>>

MCTerms == [term |-> 2, budgetCeilingUsd |-> 2, maxFailureRate |-> 50,
            maxCostPerActionUsd |-> 1, minActions |-> 2]
MCDefaults == [term |-> 3, budgetCeilingUsd |-> 3, maxFailureRate |-> 20,
               maxCostPerActionUsd |-> 2, minActions |-> 1]
MCGrantTerms == {MCTerms}
MCCosts == {NaN, 1, 9}

\* The bounds of a scope: its last tick, and the classes it acts on.
LastTick == [grants |-> 3, granted |-> 2, parked |-> 2, ladder |-> 1]
Scopes   == DOMAIN LastTick
First    == Len(grants) = 0
OneHuman == CHOOSE h \in Humans : TRUE

\* What the scopes ask of an instance.
ASSUME MCConstants ==
  /\ {"daily-brief", "re-dispatch"} \subseteq Classes /\ 1 \in Costs /\ Humans # {}
  /\ \A s \in Scopes : LastTick[s] <= MaxNow

MCInit ==
  /\ scope \in Scopes
  /\ GrantInit /\ GateInit /\ LadderInit

Tick ==
  /\ now < LastTick[scope] /\ now' = now + 1
  /\ UNCHANGED <<scope, grantVars, gateVars, ladderVars>>

\* The life of one grant and its renewals.
GrantsScope ==
  /\ scope = "grants"
  /\ GrantNext
  /\ First \/ Len(grants') = Len(grants) \/ grants'[Len(grants')].renewedFrom # 0
  /\ UNCHANGED <<scope, gateVars, ladderVars>>

\* Approvals of the classes that can hold a grant, and the grants they use.
GrantedScope ==
  /\ scope = "granted"
  /\ \/ GateNext
     \/ /\ \/ \E t \in GrantTerms : First /\ CreateGrant("re-dispatch", t)
           \/ \E g \in DOMAIN grants : Revoke(g) \/ SweepExpired(g)
        /\ UNCHANGED gateVars
  /\ \A a \in DOMAIN approvals' : /\ approvals'[a].policy # "park_and_escalate"
                                  /\ approvals'[a].class = "daily-brief" => approvals'[a].usd = NaN
  /\ Len(grants') <= 2
  /\ UNCHANGED <<scope, ladderVars>>

\* Approvals a timer never resolves.
ParkedScope ==
  /\ scope = "parked"
  /\ GateNext
  /\ \A a \in DOMAIN approvals' : /\ approvals'[a].class = "unregistered"
                                  /\ approvals'[a].usd = NaN
  /\ UNCHANGED <<scope, ladderVars>>

\* One class, its grants and its evidence from both sources; or a class that
\* nobody registered, with verdicts that would promote it.
LadderScope ==
  /\ scope = "ladder"
  /\ \/ LadderNext
     \/ /\ \/ \E t \in GrantTerms : First /\ proposals = <<>> /\ CreateGrant("daily-brief", t)
           \/ RenewCommit(OneHuman)
           \/ Len(grants) = 1 /\ \E g \in DOMAIN grants : RenewRead(OneHuman, g)
        /\ UNCHANGED <<gateVars, ladderVars>>
     \/ /\ \/ approvals = <<>> /\ proposals = <<>> /\ Gate("daily-brief", 1)
           \/ \E a \in DOMAIN approvals : Decide(a, TRUE, FALSE) \/ SweepResolve(a)
           \/ SweepRead
        /\ UNCHANGED ladderVars
  /\ \A i \in DOMAIN proposals' :
       \/ proposals'[i].class = "daily-brief"
       \/ proposals'[i].class = "unregistered" /\ proposals'[i].review = "would_approve"
  /\ {proposals'[i].class : i \in DOMAIN proposals'} # {"daily-brief", "unregistered"}
  /\ enabled' = enabled \/ proposals = <<>>
  /\ changes < 2 => SubSeq(proposals', 1, Len(proposals)) = proposals
  /\ UNCHANGED scope

MCNext == Tick \/ GrantsScope \/ GrantedScope \/ ParkedScope \/ LadderScope

\* The five-minute backfill keeps running.
Backfill ==
  /\ scope = "parked"
  /\ BackfillRead \/ BackfillFind \/ BackfillRaise \/ BackfillLink
  /\ UNCHANGED <<scope, ladderVars>>

MCSpec == MCInit /\ [][MCNext]_allVars /\ WF_allVars(Backfill)

TypeOK == GrantsOK /\ GateOK /\ LadderOK

=============================================================================
