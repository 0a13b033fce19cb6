------------------------------ MODULE MCPlatform ------------------------------
(***************************************************************************)
(* The parts around the run lifecycle, model-checked in one state space.   *)
(* They share no state in these models, so their graphs are summed and not *)
(* multiplied: `part` says which of them a behaviour is about, and only    *)
(* that one moves.                                                         *)
(***************************************************************************)
EXTENDS Escalations, SpendControl, OperatorSettings, IssueProjection, DeadTime,
        Repositories, Steering, Supervisor, GitHubAccess

VARIABLE part

vars == <<part, escalationVars, spendVars, settingVars, issueVars, deadVars,
          repositoryVars, steeringVars, supervisorVars, githubVars>>

-----------------------------------------------------------------------------
(* Constants *)

MCOrderCeiling == [o \in Orders |-> IF o = "a" THEN 2 ELSE 1]
MCCeilings     == {Malformed, 2, 3}

MCEnvironment  == [k \in Keys |-> IF k = "ceiling" THEN Plain("v1") ELSE Absent]
MCStartRows    == {[k \in Keys |-> IF k = "ceiling" THEN Plain(Rejected)
                                                    ELSE Sealed(Unreadable)]}

OrderRow(s, r, pr, c, x) ==
  [status |-> s, run |-> r, pullRequest |-> pr, checks |-> c, atCeiling |-> x]
MCLabelSets   == {{}, {"ready"}, {"ready", "clear-quarantine"}, {"hold", "ignored"}}
MCOrderStates ==
  {<<>>,
   <<OrderRow("dispatched", "blocked", FALSE, "pending", FALSE)>>,
   <<OrderRow("superseded", "failed", FALSE, "pending", FALSE),
     OrderRow("dispatched", "succeeded", TRUE, "passing", FALSE)>>,
   <<OrderRow("quarantined", "failed", FALSE, "pending", FALSE)>>,
   <<OrderRow("dispatched", "failed", FALSE, "pending", TRUE)>>}

-----------------------------------------------------------------------------
(* The sum *)

Parts == {"escalations", "spend", "settings", "issues", "dead time", "repositories",
          "steering", "supervisor", "github"}

MCInit ==
  /\ part \in Parts
  /\ EscalationInit /\ SpendInit /\ SettingsInit /\ IssueInit /\ DeadInit
  /\ RepositoryInit /\ SteeringInit /\ SupervisorInit
  /\ GitHubInit
  /\ part # "steering" => labels = [i \in Issues |-> {}]
  /\ part # "github" => resource = CHOOSE b \in Bodies : TRUE

Only(p) ==
  /\ part = p /\ UNCHANGED part
  /\ p = "escalations"  \/ UNCHANGED escalationVars
  /\ p = "spend"        \/ UNCHANGED spendVars
  /\ p = "settings"     \/ UNCHANGED settingVars
  /\ p = "issues"       \/ UNCHANGED issueVars
  /\ p = "dead time"    \/ UNCHANGED deadVars
  /\ p = "repositories" \/ UNCHANGED repositoryVars
  /\ p = "steering"     \/ UNCHANGED steeringVars
  /\ p = "supervisor"   \/ UNCHANGED supervisorVars
  /\ p = "github"       \/ UNCHANGED githubVars

\* The passes are interchangeable, so the one that fails is e1; it fails where
\* that counts, between sending and recording.  Subscriptions are only read when
\* something is sent, so they change while something may be.
EscalationScope ==
  /\ dispatchFaults' # dispatchFaults =>
       dispatcher["e1"].step = "write" /\ dispatcher'["e2"] = dispatcher["e2"]
  /\ subscriptions' # subscriptions =>
       \E p \in DispatchPasses : dispatcher[p].step = "deliver" /\ dispatcher[p].todo # {}

\* Processes meet only in the table: p1 is followed through every interleaving
\* and has the outage; p2 stands for the others, writes at any moment and
\* refreshes in one go.  What happens between the two statements of a refresh
\* matters to it only when it is a write.  The token is written elsewhere,
\* first or not at all, and is not cleared.
SettingsScope ==
  /\ outages' # outages => refreshes'["p2"] = refreshes["p2"] /\ overlay'["p2"] = overlay["p2"]
  /\ \A p \in Processes, s \in Slots :
       refreshes[p][s].step \in (IF p = "p1" THEN {"rows"} ELSE {"rows", "read"})
         => \/ refreshes'[p][s] # refreshes[p][s]
            \/ p = "p1" /\ settingHistory' # settingHistory
  /\ settingRows'["token"] # settingRows["token"] =>
       /\ Len(settingHistory) = 1 /\ refreshes'["p1"] = refreshes["p1"]
       /\ settingRows'["token"] # Absent

\* The issues are interchangeable, so the one others edit is i.
SteeringScope ==
  edits' # edits => labels'["j"] = labels["j"] /\ ("j" \in open' <=> "j" \in open)

\* Whether an interval is open does not depend on when the run's end is dated.
DeadScope == deadRun'.endedAt \in {deadRun.endedAt, deadClock}

MCNext ==
  \/ Only("escalations")  /\ EscalationNext /\ EscalationScope
  \/ Only("spend")        /\ SpendNext
  \/ Only("settings")     /\ SettingsNext /\ SettingsScope
  \/ Only("issues")       /\ IssueNext
  \/ Only("dead time")    /\ DeadNext /\ DeadScope
  \/ Only("repositories") /\ RepositoryNext
  \/ Only("steering")     /\ SteeringNext /\ SteeringScope
  \/ Only("supervisor")   /\ SupervisorNext
  \/ Only("github")       /\ GitHubNext

\* The timers behind these steps fire for as long as the process lives: the
\* dispatcher and its timeouts, the settings refresh, the reconciler's pass and
\* the liveness sweeps.
MCFairness ==
  /\ \A p \in DispatchPasses : WF_escalationVars(part = "escalations" /\ Dispatch(p))
  /\ \A i \in EscalationIds : WF_escalationVars(
       part = "escalations" /\ i \in DOMAIN escalations /\ ReceiptTimeout(i))
  /\ \A p \in Processes : WF_settingVars(part = "settings" /\ Refresh(p))
  /\ \A p \in Passes : WF_issueVars(part = "issues" /\ Pass(p))
  /\ WF_deadVars(part = "dead time" /\ SweepStep)

MCSpec == MCInit /\ [][MCNext]_vars /\ MCFairness

\* Every part's state stays within its types: what the properties quantify over
\* is there whatever a handler writes.
PlatformTypeOK ==
  /\ EscalationsOK /\ SpendOK /\ SettingsOK /\ IssuesOK /\ DeadOK
  /\ RepositoriesOK /\ SteeringOK /\ SupervisorOK /\ GitHubOK

\* Once the writes and the outages are over, every process uses the values the
\* stored settings resolve to, in the behaviours where settings move (refresh,
\* notifyChanged and the refresh task).
ProcessesConverge == part = "settings" => SettingsConverge
=============================================================================
