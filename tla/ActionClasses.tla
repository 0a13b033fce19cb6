---------------------------- MODULE ActionClasses ----------------------------
(***************************************************************************)
(* The taxonomy of what the supervisor may propose (supervisor/            *)
(* action-classes.ts), what silence means for each class (approvals/       *)
(* timeout-policy.ts), and the effects no grant may authorize (autonomy/). *)
(***************************************************************************)
EXTENDS Integers, Sequences, FiniteSets

Reversible           == {"run-diagnosis", "spec-quality-feedback", "daily-brief"}
ReversibleWithEffort == {"re-dispatch", "decomposition", "issue-shaping",
                         "quarantine-decision"}
ACTION_CLASS_IDS     == Reversible \cup ReversibleWithEffort

isActionClass(c)      == c \in ACTION_CLASS_IDS
isAutonomyEligible(c) == c \in ACTION_CLASS_IDS \ {"quarantine-decision"}
spendsMoney(c)        == c \in {"re-dispatch", "decomposition", "issue-shaping"}

TimeoutPolicies == {"auto_approve", "deny", "park_and_escalate"}

resolveTimeoutPolicyLenient(c) ==
  IF spendsMoney(c) \/ c \in ReversibleWithEffort THEN "deny" ELSE "auto_approve"

\* Money first: a class that spends is denied however reversible it is.
resolveTimeoutPolicy(c) ==
  CASE c \notin ACTION_CLASS_IDS                       -> "park_and_escalate"
    [] spendsMoney(c) \/ c \in ReversibleWithEffort    -> "deny"
    [] OTHER                                           -> "auto_approve"

-----------------------------------------------------------------------------
(* What an action would do (action-effects.ts).  Amounts are natural        *)
(* numbers; NaN stands for an amount that is not a usable number.           *)

NaN == -1

Spend(usd) == [kind |-> "spend", usd |-> usd]

effectsFor(c, usd, children, direction) ==
  CASE c \in Reversible       -> {Spend(usd)}
    [] c = "re-dispatch"      -> {[kind |-> "dispatch"], Spend(usd)}
    [] c = "decomposition"    -> {Spend(usd)} \cup
                                 (IF children > 0 THEN {[kind |-> "issue-create"]} ELSE {})
    [] c = "issue-shaping"    -> {[kind |-> "issue-edit"], Spend(usd)}
    [] c = "quarantine-decision" ->
         IF direction = "release" THEN {[kind |-> "quarantine-clear"]} ELSE {}

\* A ceiling is a limit in dollars, or one of these.
Unset     == -1
Malformed == -2

spendRefused(usd, ceiling) ==
  \/ usd < 0
  \/ ceiling \in {Malformed, Unset}
  \/ usd > ceiling

-----------------------------------------------------------------------------
(* Paths are sequences of segments; "a..b" stands for a segment with two    *)
(* dots in it.  normaliseWritePath refuses any path that contains "..".     *)

normaliseWritePath(path) == SelectSeq(path, LAMBDA s : s \notin {"", "."})

Traversal(path) == \E i \in DOMAIN path : path[i] \in {"..", "a..b"}

\* The directories, files and file names of FORBIDDEN_WRITE_PATHS.
ForbiddenDirectories ==
  {<<".github", "workflows">>, <<".github", "actions">>, <<"scripts">>,
   <<"apps", "api", "src", "autonomy">>}
ForbiddenFile  == <<"apps", "api", "src", "supervisor", "action-classes.ts">>
ForbiddenNames == {".env", ".env.x", "x.env"}

Under(dir, path) == Len(dir) <= Len(path) /\ SubSeq(path, 1, Len(dir)) = dir

forbiddenPath(rawPath) ==
  LET path == normaliseWritePath(rawPath) IN
  \/ Traversal(rawPath)
  \/ \E dir \in ForbiddenDirectories : Under(dir, path)
  \/ path = ForbiddenFile
  \/ path # <<>> /\ path[Len(path)] \in ForbiddenNames

\* The rules an effect breaks.
rulesBroken(e, ceiling) ==
  CASE e.kind = "git-push" ->
         (IF e.force THEN {"force-push"} ELSE {}) \cup
         (IF e.protectedBranch THEN {"protected-branch-write"} ELSE {})
    [] e.kind = "delete" ->
         IF e.subject \in {"branch", "issue", "pull-request"}
           THEN {"destructive-delete"} ELSE {}
    [] e.kind = "credential-access" -> {"credential-access"}
    [] e.kind = "spend" ->
         IF spendRefused(e.usd, ceiling) THEN {"hard-spend-ceiling"} ELSE {}
    [] e.kind = "file-write" ->
         IF forbiddenPath(e.path) THEN {"self-modification"} ELSE {}
    [] e.kind = "quarantine-clear" -> {"quarantine-self-clear"}
    [] e.kind = "trust-grant-write" ->
         IF e.operation # "revoke" THEN {"trust-self-grant"} ELSE {}
    [] e.kind = "budget-config-write" -> {"budget-config-write"}
    [] OTHER -> {}

checkNeverTrustable(effects, ceiling) == UNION {rulesBroken(e, ceiling) : e \in effects}

=============================================================================
