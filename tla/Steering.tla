-------------------------------- MODULE Steering --------------------------------
(***************************************************************************)
(* Steering by label (steering/steering.service.ts and cockpit/            *)
(* queue-steering.service.ts): an instruction is read against GitHub into  *)
(* a proposal, shown to the operator, and carried out issue by issue, each *)
(* one read again first; hold and release are plans of their own.          *)
(*                                                                         *)
(* One registered repository.  The parser's verdict is the instruction:    *)
(* the intent, the issues it names and whether it speaks of all the rest.  *)
(* Each read and each label write is a request to GitHub, and other people *)
(* edit labels in between.                                                 *)
(***************************************************************************)
EXTENDS Naturals, Sequences, FiniteSets

CONSTANTS
  Issues,           \* issues of the repository
  Steerers,         \* operators who steer at the same time
  MaxInstructions,  \* bound: instructions, holds and releases ever given
  MaxEdits,         \* bound: edits by others
  MaxSteerFaults    \* bound: requests to GitHub that fail

ASSUME SteeringConstants ==
  MaxInstructions \in Nat /\ MaxEdits \in Nat /\ MaxSteerFaults \in Nat

VARIABLES
  labels,        \* the input labels of each issue, on GitHub
  open,          \* the open issues
  writesEnabled, \* github.writesEnabled
  steering,      \* per operator: the instruction and what has been read and done
  touched,       \* observed, per operator: issues others changed since they were read
  instructions, edits, steerFaults

steeringVars == <<labels, open, writesEnabled, steering, touched, instructions, edits,
                  steerFaults>>

InputLabels == {"ready", "hold"}
NoSteering  ==
  [step |-> "idle", intent |-> "ready", exclusive |-> FALSE, elseIntent |-> "unready",
   named |-> {}, toRead |-> {}, shown |-> <<>>, todo |-> {}, skipped |-> {},
   issue |-> {}, plan |-> <<>>, performed |-> 0, suppressed |-> FALSE]

\* `shown` maps every issue of the proposal to the labels it was read with.
SteeringOK ==
  /\ labels \in [Issues -> SUBSET InputLabels] /\ open \subseteq Issues
  /\ writesEnabled \in BOOLEAN
  /\ \A s \in Steerers :
       /\ steering[s].step \in {"idle", "reading", "proposed", "applying", "applied",
                                "labelling", "incomplete"}
       /\ DOMAIN steering[s].shown \subseteq Issues
       /\ steering[s].todo \cup steering[s].skipped \subseteq DOMAIN steering[s].shown
       /\ Len(steering[s].plan) <= 2
  /\ touched \in [Steerers -> SUBSET Issues]
  /\ instructions \in 0..MaxInstructions /\ edits \in 0..MaxEdits
  /\ steerFaults \in 0..MaxSteerFaults

SteeringInit ==
  /\ labels \in [Issues -> SUBSET InputLabels] /\ open = Issues /\ writesEnabled = TRUE
  /\ steering = [s \in Steerers |-> NoSteering]
  /\ touched = [s \in Steerers |-> {}]
  /\ instructions = 0 /\ edits = 0 /\ steerFaults = 0

-----------------------------------------------------------------------------
(* The proposal *)

Given == instructions < MaxInstructions /\ instructions' = instructions + 1

Instruct(s, intent, exclusive, elseIntent, named) ==
  /\ steering[s].step = "idle" /\ Given
  /\ ~exclusive => elseIntent = "unready"
  /\ steering' = [steering EXCEPT ![s] =
       [NoSteering EXCEPT !.step = "reading", !.intent = intent, !.exclusive = exclusive,
                          !.elseIntent = elseIntent, !.named = named, !.toRead = named]]
  /\ touched' = [touched EXCEPT ![s] = {}]
  /\ UNCHANGED <<labels, open, writesEnabled, edits, steerFaults>>

Show(shown, S) == [i \in DOMAIN shown \cup S |-> IF i \in S THEN labels[i] ELSE shown[i]]

\* resolveIssue: a closed issue is reported, not proposed.
ResolveIssue(s, i) ==
  LET r == steering[s] IN
  /\ r.step = "reading" /\ i \in r.toRead
  /\ steering' = [steering EXCEPT ![s] =
       [r EXCEPT !.toRead = r.toRead \ {i}, !.shown = Show(r.shown, {i} \cap open)]]
  /\ touched' = [touched EXCEPT ![s] = @ \ {i}]
  /\ UNCHANGED <<labels, open, writesEnabled, instructions, edits, steerFaults>>

\* A mutant of Swept: everything else that a pass would start on.
SweptStartable(shown) == {i \in open \ DOMAIN shown : labels[i] = {"ready"}}

\* Everything else: open issues that are ready, held or not, and not named.
Swept(shown) == {i \in open \ DOMAIN shown : "ready" \in labels[i]}

Propose(s) ==
  LET r == steering[s]
      swept == IF r.exclusive /\ r.intent = "ready" THEN Swept(r.shown) ELSE {}
  IN
  /\ r.step = "reading" /\ r.toRead = {}
  /\ steering' = [steering EXCEPT ![s].step = "proposed", ![s].shown = Show(@, swept)]
  /\ touched' = [touched EXCEPT ![s] = @ \cap DOMAIN r.shown]
  /\ UNCHANGED <<labels, open, writesEnabled, instructions, edits, steerFaults>>

Adds(L)    == [k \in 1..Cardinality(L) |-> <<"add", CHOOSE l \in L : TRUE>>]
Removes(L) == [k \in 1..Cardinality(L) |-> <<"remove", CHOOSE l \in L : TRUE>>]

\* namedOperation, and the operation of an issue that was swept; additions first.
Operation(r, i) ==
  LET has == r.shown[i] IN
  IF i \in r.named
    THEN IF r.intent = "ready" THEN Adds({"ready"} \ has) \o Removes({"hold"} \cap has)
                               ELSE Adds({"hold"} \ has)
    ELSE Adds(IF r.elseIntent = "hold" THEN {"hold"} \ has ELSE {}) \o Removes({"ready"})

-----------------------------------------------------------------------------
(* Carrying it out *)

\* The operator confirms within PROPOSAL_TTL_MINUTES, or never.
Confirm(s, yes) ==
  /\ steering[s].step = "proposed"
  /\ steering' = [steering EXCEPT ![s] =
       IF yes THEN [@ EXCEPT !.step = "applying", !.todo = DOMAIN steering[s].shown]
       ELSE NoSteering]
  /\ UNCHANGED <<labels, open, writesEnabled, touched, instructions, edits, steerFaults>>

\* getIssue again: an issue that was closed, or whose labels are not the ones
\* that were shown, is skipped and reported.
CheckDrift(s, i) ==
  LET r == steering[s] IN
  /\ r.step = "applying" /\ r.issue = {} /\ i \in r.todo
  /\ steering' = [steering EXCEPT ![s] =
       IF i \in open /\ labels[i] = r.shown[i]
         THEN [r EXCEPT !.todo = r.todo \ {i}, !.issue = {i}, !.plan = Operation(r, i)]
         ELSE [r EXCEPT !.todo = r.todo \ {i}, !.skipped = r.skipped \cup {i}]]
  /\ UNCHANGED <<labels, open, writesEnabled, touched, instructions, edits, steerFaults>>

\* A mutant of LABEL_PLAN: the hold goes first.
LABEL_PLAN_RemoveFirst(intent) ==
  IF intent = "hold" THEN <<<<"add", "hold">>>> ELSE <<<<"remove", "hold">>, <<"add", "ready">>>>

LABEL_PLAN(intent) ==
  IF intent = "hold" THEN <<<<"add", "hold">>>> ELSE <<<<"add", "ready">>, <<"remove", "hold">>>>

\* hold and release of one work order; `shown` is observed, not read by the code.
Steer(s, intent, i) ==
  /\ steering[s].step = "idle" /\ Given
  /\ steering' = [steering EXCEPT ![s] =
       [NoSteering EXCEPT !.step = "labelling", !.intent = intent, !.issue = {i},
                          !.plan = LABEL_PLAN(intent), !.shown = Show(<<>>, {i})]]
  /\ touched' = [touched EXCEPT ![s] = {}]
  /\ UNCHANGED <<labels, open, writesEnabled, edits, steerFaults>>

\* addLabel and removeLabel through guardedWrite: nothing happens while writes
\* are disabled, and a label that is there or gone already is no error.
WritePlanned(s) ==
  LET r == steering[s]  w == Head(r.plan) IN
  /\ r.plan # <<>>
  /\ labels' = [i \in Issues |->
       CASE i \notin r.issue \/ ~writesEnabled -> labels[i]
         [] w[1] = "add" /\ i \in r.issue /\ writesEnabled    -> labels[i] \cup {w[2]}
         [] w[1] = "remove" /\ i \in r.issue /\ writesEnabled -> labels[i] \ {w[2]}]
  /\ steering' = [steering EXCEPT ![s] =
       [r EXCEPT !.plan = Tail(r.plan),
                 !.performed = IF writesEnabled THEN r.performed + 1 ELSE r.performed,
                 !.suppressed = r.suppressed \/ ~writesEnabled]]
  /\ touched' = [t \in Steerers |-> IF t = s \/ labels' = labels THEN touched[t]
                                    ELSE touched[t] \cup r.issue]
  /\ UNCHANGED <<open, writesEnabled, instructions, edits, steerFaults>>

\* The issue is done: the next one, or the outcome of a hold or a release, which
\* is incomplete when the kill switch moved between its writes.
EndIssue(s) ==
  LET r == steering[s] IN
  /\ r.issue # {} /\ r.plan = <<>>
  /\ steering' = [steering EXCEPT ![s] =
       IF r.step = "applying" THEN [r EXCEPT !.issue = {}]
       ELSE IF r.suppressed /\ r.performed > 0 THEN [r EXCEPT !.step = "incomplete"]
       ELSE NoSteering]
  /\ UNCHANGED <<labels, open, writesEnabled, touched, instructions, edits, steerFaults>>

\* The audit row is written and the result is the operator's.
EndApply(s) ==
  LET r == steering[s] IN
  /\ r.step = "applying" /\ r.todo = {} /\ r.issue = {}
  /\ steering' = [steering EXCEPT ![s].step = "applied"]
  /\ UNCHANGED <<labels, open, writesEnabled, touched, instructions, edits, steerFaults>>

Dismiss(s) ==
  /\ steering[s].step \in {"applied", "incomplete"}
  /\ steering' = [steering EXCEPT ![s] = NoSteering]
  /\ UNCHANGED <<labels, open, writesEnabled, touched, instructions, edits, steerFaults>>

\* A request to GitHub fails: a proposal or an apply is abandoned where it
\* stands, and a hold or a release says it did not complete.
SteeringFails(s) ==
  LET r == steering[s] IN
  /\ \/ r.step \in {"reading", "applying"}
     \/ r.step = "labelling" /\ r.plan # <<>>
  /\ steerFaults < MaxSteerFaults /\ steerFaults' = steerFaults + 1
  /\ steering' = [steering EXCEPT ![s] =
       IF r.step = "labelling" THEN [r EXCEPT !.step = "incomplete", !.plan = <<>>]
       ELSE NoSteering]
  /\ UNCHANGED <<labels, open, writesEnabled, touched, instructions, edits>>

-----------------------------------------------------------------------------
(* Everybody else *)

Edit(i, L, isOpen) ==
  /\ edits < MaxEdits /\ edits' = edits + 1
  /\ <<L, isOpen>> # <<labels[i], i \in open>>
  /\ labels' = [labels EXCEPT ![i] = L]
  /\ open' = IF isOpen THEN open \cup {i} ELSE open \ {i}
  /\ touched' = [t \in Steerers |-> touched[t] \cup {i}]
  /\ UNCHANGED <<writesEnabled, steering, instructions, steerFaults>>

SwitchWrites ==
  /\ edits < MaxEdits /\ edits' = edits + 1
  /\ writesEnabled' = ~writesEnabled
  /\ UNCHANGED <<labels, open, steering, touched, instructions, steerFaults>>

SteeringNext ==
  \/ \E s \in Steerers :
       \/ \E intent \in {"ready", "hold"}, exclusive \in BOOLEAN,
             elseIntent \in {"unready", "hold"}, named \in SUBSET Issues \ {{}} :
            Instruct(s, intent, exclusive, elseIntent, named)
       \/ \E i \in Issues : \/ ResolveIssue(s, i) \/ CheckDrift(s, i)
                            \/ \E intent \in {"hold", "release"} : Steer(s, intent, i)
       \/ \E yes \in BOOLEAN : Confirm(s, yes)
       \/ Propose(s) \/ WritePlanned(s) \/ EndIssue(s) \/ EndApply(s) \/ Dismiss(s)
       \/ SteeringFails(s)
  \/ \E i \in Issues, L \in SUBSET InputLabels, isOpen \in BOOLEAN : Edit(i, L, isOpen)
  \/ SwitchWrites

SteeringSpec == SteeringInit /\ [][SteeringNext]_steeringVars

-----------------------------------------------------------------------------
(* Properties *)

\* "Only work on these" is kept: when an exclusive instruction has been carried
\* out with writes enabled, an issue it does not name and that is still ready
\* was reported as skipped, is closed, or was changed by somebody else after it
\* was read, whoever steered or edited meanwhile (propose, apply).
NothingElseIsReady ==
  \A s \in Steerers : LET r == steering[s] IN
    (r.step = "applied" /\ r.exclusive /\ r.intent = "ready" /\ ~r.suppressed) =>
      \A i \in open \ r.named : "ready" \in labels[i] => i \in r.skipped \cup touched[s]

\* "Add-then-remove fails CLOSED" (queue-steering.service.ts:251): a release whose
\* second or first request fails leaves an issue held that was held when it
\* began, unless somebody else changed it.  (Writes that are enabled between the
\* two let the removal through alone.)
HalfReleaseStaysHeld ==
  \A s \in Steerers : LET r == steering[s] IN
    (r.step = "incomplete" /\ r.intent = "release" /\ ~r.suppressed) =>
      \A i \in r.issue : "hold" \in r.shown[i] => "hold" \in labels[i] \/ i \in touched[s]

=============================================================================
