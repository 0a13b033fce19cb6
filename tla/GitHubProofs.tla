----------------------------- MODULE GitHubProofs -----------------------------
(***************************************************************************)
(* That a conditional read is fresh, for any number of callers, retries,   *)
(* bodies and changes.  The argument: what a request holds across its      *)
(* awaits is never re-read, so a 304 vouches for exactly the body that was *)
(* sent with it; the cache itself may hold anything and is no part of it.  *)
(*                                                                         *)
(* And that steering by label keeps to what was proposed, for any number   *)
(* of operators who steer at once.  The argument: what a request decided   *)
(* on is compared with the labels before it is carried out, and whatever   *)
(* differs was changed by somebody else or is reported as skipped.         *)
(*                                                                         *)
(* And that the mirror labels of an issue are what the projection wants    *)
(* after a pass that nobody disturbed, from whatever labels it found.      *)
(***************************************************************************)
EXTENDS GitHubAccess, Steering, IssueProjection, FiniteSetTheorems, TLAPS

GitHubSpec == GitHubInit /\ [][GitHubNext]_githubVars

\* What a request on its way knows: the resource now is one of the bodies held
\* since it began, and an answer stands for one of them, a 200 by its own body
\* and a 304 by the entry that was sent (request() and attempt()).
AnswerStands(r) ==
  /\ r.at \in {"sent", "answered"} => resource \in r.held
  /\ r.at = "answered" => r.status \in {200, 304}
  /\ r.at = "answered" /\ r.status = 200 => r.body \in r.held
  /\ r.at = "answered" /\ r.status = 304 => r.cached \in r.held
  /\ r.at = "done" => r.body \in r.held

\* The fields of a request and their values.
ReadOK(r) ==
  /\ DOMAIN r = {"at", "cached", "attempt", "status", "body", "held", "begun"}
  /\ r.at \in {"idle", "sent", "answered", "done", "failed"}
  /\ r.cached \in Bodies \cup {NoBody} /\ r.body \in Bodies \cup {NoBody}
  /\ r.attempt \in 0..maxRetries /\ r.status \in {0, 200, 304}
  /\ r.held \subseteq Bodies /\ r.begun \in 0..MaxReads

\* The shape of the state: GitHubOK, and that `reads` is a function of records.
GitHubShape ==
  /\ resource \in Bodies /\ entry \in Bodies \cup {NoBody}
  /\ DOMAIN reads = Callers /\ \A c \in Callers : ReadOK(reads[c])
  /\ bodyChanges \in 0..MaxBodyChanges

ReadInv == GitHubShape /\ \A c \in Callers : AnswerStands(reads[c])

-----------------------------------------------------------------------------

\* Before any request there is nothing to stand for (EtagCacheService).
LEMMA ReadInit == GitHubInit => ReadInv
<1> USE GitHubConstants DEF GitHubInit
<1>1. ASSUME GitHubInit PROVE GitHubShape
  BY <1>1 DEF GitHubShape, ReadOK, NoRead
<1>2. ASSUME GitHubInit, NEW c \in Callers PROVE AnswerStands(reads[c])
  BY <1>2 DEF AnswerStands, NoRead
<1> QED BY <1>1, <1>2 DEF ReadInv

\* Each step of each caller, of the cache and of GitHub keeps the shape.
LEMMA ShapeStep == ASSUME GitHubShape, GitHubNext PROVE GitHubShape'
<1> USE GitHubConstants DEF GitHubShape, ReadOK
<1>1. ASSUME NEW c \in Callers, StartRead(c) PROVE GitHubShape'
  BY <1>1 DEF StartRead, NoRead
<1>2. ASSUME NEW c \in Callers, ReceiveBody(c) PROVE GitHubShape'
  BY <1>2 DEF ReceiveBody
<1>3. ASSUME NEW c \in Callers, ReceiveNotModified(c) PROVE GitHubShape'
  BY <1>3 DEF ReceiveNotModified, cachedBody
<1>4. ASSUME NEW c \in Callers, FailTransiently(c) PROVE GitHubShape'
  <2>1. CASE RetriesLeft(c)
    BY <1>4, <2>1 DEF FailTransiently, RetriesLeft
  <2>2. CASE ~RetriesLeft(c)
    BY <1>4, <2>2 DEF FailTransiently
  <2> QED BY <2>1, <2>2
<1>5. ASSUME NEW c \in Callers, Refuse(c) PROVE GitHubShape'
  BY <1>5 DEF Refuse
<1>6. ASSUME NEW c \in Callers, Answer(c) PROVE GitHubShape'
  BY <1>6 DEF Answer
<1>7. CASE Evict
  BY <1>7 DEF Evict
<1>8. CASE ResourceChanges
  BY <1>8 DEF ResourceChanges
<1> QED BY <1>1, <1>2, <1>3, <1>4, <1>5, <1>6, <1>7, <1>8 DEF GitHubNext

\* Each step keeps what every request on its way knows.
LEMMA StandsStep ==
  ASSUME ReadInv, GitHubNext, NEW d \in Callers PROVE AnswerStands(reads[d])'
<1>0. GitHubShape /\ AnswerStands(reads[d]) BY DEF ReadInv
<1>1. ASSUME NEW c \in Callers, StartRead(c) PROVE AnswerStands(reads[d])'
  BY <1>0, <1>1 DEF StartRead, NoRead, GitHubShape, ReadOK, AnswerStands
<1>2. ASSUME NEW c \in Callers, ReceiveBody(c) PROVE AnswerStands(reads[d])'
  BY <1>0, <1>2 DEF ReceiveBody, GitHubShape, ReadOK, AnswerStands
<1>3. ASSUME NEW c \in Callers, ReceiveNotModified(c) PROVE AnswerStands(reads[d])'
  BY <1>0, <1>3 DEF ReceiveNotModified, cachedBody, GitHubShape, ReadOK, AnswerStands
<1>4. ASSUME NEW c \in Callers, FailTransiently(c) PROVE AnswerStands(reads[d])'
  BY <1>0, <1>4 DEF FailTransiently, GitHubShape, ReadOK, AnswerStands
<1>5. ASSUME NEW c \in Callers, Refuse(c) PROVE AnswerStands(reads[d])'
  BY <1>0, <1>5 DEF Refuse, GitHubShape, ReadOK, AnswerStands
<1>6. ASSUME NEW c \in Callers, Answer(c) PROVE AnswerStands(reads[d])'
  BY <1>0, <1>6 DEF Answer, GitHubShape, ReadOK, AnswerStands
<1>7. CASE Evict
  BY <1>0, <1>7 DEF Evict, AnswerStands
<1>8. CASE ResourceChanges
  BY <1>0, <1>8 DEF ResourceChanges, GitHubShape, ReadOK, AnswerStands
<1> QED BY <1>1, <1>2, <1>3, <1>4, <1>5, <1>6, <1>7, <1>8 DEF GitHubNext

\* The invariant is inductive: no step, and no stuttering, leaves it.
LEMMA ReadStep == ReadInv /\ [GitHubNext]_githubVars => ReadInv'
<1>1. ASSUME ReadInv, GitHubNext PROVE ReadInv'
  BY <1>1, ShapeStep, StandsStep DEF ReadInv
<1>2. ASSUME ReadInv, UNCHANGED githubVars PROVE ReadInv'
  BY <1>2 DEF ReadInv, GitHubShape, AnswerStands, githubVars
<1> QED BY <1>1, <1>2

\* A finished read returns something the resource was while it ran, however
\* many callers overlap on the URL, whatever slower reads have written into the
\* cache and whatever was retried (GitHubHttpService.request, EtagCacheService).
THEOREM ReadsAreFresh == GitHubSpec => []AnswersAreFresh
<1>1. ReadInv => AnswersAreFresh BY DEF ReadInv, AnswerStands, AnswersAreFresh
<1> QED BY <1>1, ReadInit, ReadStep, PTL DEF GitHubSpec

\* The state of the conditional reads keeps its types, the retry count its bound.
THEOREM ReadsAreTyped == GitHubSpec => []GitHubOK
<1>1. ReadInv => GitHubOK BY DEF ReadInv, GitHubShape, ReadOK, GitHubOK
<1> QED BY <1>1, ReadInit, ReadStep, PTL DEF GitHubSpec

-----------------------------------------------------------------------------
(* Steering by label *)

\* What an operator's label writes can be: namedOperation, the sweep's
\* operation, LABEL_PLAN, and what is left of each after a write.
SweepPlans   == {<<>>, <<<<"remove", "ready">>>>, <<<<"add", "hold">>, <<"remove", "ready">>>>}
ReleasePlans == {<<>>, <<<<"remove", "hold">>>>, <<<<"add", "ready">>, <<"remove", "hold">>>>}
Plans        == SweepPlans \cup ReleasePlans \cup {<<<<"add", "ready">>>>, <<<<"add", "hold">>>>}

\* The fields of an instruction and their values.
SteerOK(r) ==
  /\ DOMAIN r = {"step", "intent", "exclusive", "elseIntent", "named", "toRead", "shown",
                 "todo", "skipped", "issue", "plan", "performed", "suppressed"}
  /\ r.step \in {"idle", "reading", "proposed", "applying", "applied", "labelling", "incomplete"}
  /\ DOMAIN r.shown \subseteq Issues /\ r.todo \cup r.skipped \subseteq DOMAIN r.shown
  /\ r.issue \subseteq Issues /\ r.plan \in Plans /\ r.suppressed \in BOOLEAN
  /\ r.plan # <<>> => r.step \in {"applying", "labelling"} /\ r.issue # {}

\* An issue that is swept is only ever made less ready; a release adds before it
\* removes.
PlanFits(r) ==
  /\ r.step = "applying" => \A i \in r.issue \ r.named : r.plan \in SweepPlans
  /\ r.step = "labelling" /\ r.intent = "release" => r.plan \in ReleasePlans

\* What an instruction in this state has not yet dealt with.
Left(r) ==
  CASE r.step = "proposed" -> DOMAIN r.shown
    [] r.step = "applying" -> r.todo \cup (IF r.plan = <<>> THEN {} ELSE r.issue)
    [] OTHER               -> {}

\* Every issue that is ready and not named is still to be dealt with, reported,
\* or somebody else's change.
ElseSeen(r, T) ==
  (r.exclusive /\ r.intent = "ready" /\ ~r.suppressed /\ r.step \in {"proposed", "applying", "applied"})
    => \A i \in open \ r.named : "ready" \in labels[i] => i \in r.skipped \cup T \cup Left(r)

\* A release that has its removal still to make, or stopped before it, has not
\* lifted the hold.
StillHeld(r, T) ==
  (r.intent = "release" /\ ~r.suppressed
     /\ (r.step = "incomplete" \/ (r.step = "labelling" /\ r.plan # <<>>)))
    => \A i \in r.issue : "hold" \in r.shown[i] => "hold" \in labels[i] \/ i \in T

SteeringShape ==
  /\ labels \in [Issues -> SUBSET InputLabels] /\ open \subseteq Issues
  /\ writesEnabled \in BOOLEAN
  /\ DOMAIN steering = Steerers /\ \A s \in Steerers : SteerOK(steering[s])
  /\ touched \in [Steerers -> SUBSET Issues]
  /\ instructions \in 0..MaxInstructions /\ edits \in 0..MaxEdits
  /\ steerFaults \in 0..MaxSteerFaults

SteeringInv ==
  /\ SteeringShape
  /\ \A s \in Steerers : /\ PlanFits(steering[s])
                         /\ ElseSeen(steering[s], touched[s])
                         /\ StillHeld(steering[s], touched[s])

\* The label plan of no label and of one label (addLabel, removeLabel).
LEMMA PlanOfNone == Adds({}) = <<>> /\ Removes({}) = <<>>
<1>1. 1..Cardinality({}) = {} BY FS_EmptySet
<1>2. <<>> = [k \in {} |-> <<"add", CHOOSE l \in {} : TRUE>>] OBVIOUS
<1>3. <<>> = [k \in {} |-> <<"remove", CHOOSE l \in {} : TRUE>>] OBVIOUS
<1> QED BY <1>1, <1>2, <1>3 DEF Adds, Removes

\* One label to change is one request.
LEMMA PlanOfOne ==
  ASSUME NEW x PROVE Adds({x}) = <<<<"add", x>>>> /\ Removes({x}) = <<<<"remove", x>>>>
<1>1. 1..Cardinality({x}) = {1}
  <2>1. Cardinality({x}) = 1 BY FS_Singleton
  <2> QED BY <2>1
<1>2. (CHOOSE l \in {x} : TRUE) = x BY Zenon
<1>3. <<<<"add", x>>>> = [k \in {1} |-> <<"add", x>>] OBVIOUS
<1>4. <<<<"remove", x>>>> = [k \in {1} |-> <<"remove", x>>] OBVIOUS
<1> QED BY <1>1, <1>2, <1>3, <1>4 DEF Adds, Removes

\* What is written for one issue: the sweep's plan when it is not named
\* (namedOperation and the operation of a swept issue).
LEMMA OperationPlans ==
  ASSUME NEW r, NEW i
  PROVE  /\ Operation(r, i) \in Plans
         /\ i \notin r.named => Operation(r, i) \in SweepPlans \ {<<>>}
<1> DEFINE has == r.shown[i]
<1> HIDE DEF has
<1>1. {"ready"} \ has = {} \/ {"ready"} \ has = {"ready"} OBVIOUS
<1>2. {"hold"} \ has = {} \/ {"hold"} \ has = {"hold"} OBVIOUS
<1>3. {"hold"} \cap has = {} \/ {"hold"} \cap has = {"hold"} OBVIOUS
<1>4. Adds({}) = <<>> /\ Removes({}) = <<>> BY PlanOfNone
<1>5. /\ Adds({"ready"}) = <<<<"add", "ready">>>> /\ Adds({"hold"}) = <<<<"add", "hold">>>>
      /\ Removes({"ready"}) = <<<<"remove", "ready">>>> /\ Removes({"hold"}) = <<<<"remove", "hold">>>>
  BY PlanOfOne
<1>6. <<>> \o <<>> = <<>> OBVIOUS
<1>7. ASSUME NEW x PROVE <<>> \o <<x>> = <<x>> /\ <<x>> \o <<>> = <<x>>
  BY <<x>> \in Seq({x}), <<>> \in Seq({x})
<1>8. ASSUME NEW x, NEW y PROVE <<x>> \o <<y>> = <<x, y>>
  <2> DEFINE s == <<x>> \o <<y>>
  <2>1. <<x>> \in Seq({x, y}) /\ <<y>> \in Seq({x, y}) OBVIOUS
  <2>2. s \in Seq({x, y}) BY <2>1
  <2>3. Len(s) = 2 BY <2>1
  <2>4. s[1] = x BY <2>1
  <2>5. s[2] = y BY <2>1
  <2> HIDE DEF s
  <2>6. s = <<x, y>> BY <2>2, <2>3, <2>4, <2>5
  <2> QED BY <2>6 DEF s
<1>9. Adds({"ready"} \ has) \o Removes({"hold"} \cap has) \in Plans
  <2>1. Adds({"ready"} \ has) \in {<<>>, <<<<"add", "ready">>>>} BY <1>1, <1>4, <1>5
  <2>2. Removes({"hold"} \cap has) \in {<<>>, <<<<"remove", "hold">>>>} BY <1>3, <1>4, <1>5
  <2> QED BY <2>1, <2>2, <1>6, <1>7, <1>8 DEF Plans, ReleasePlans, SweepPlans
<1>10. Adds({"hold"} \ has) \in Plans
  BY <1>2, <1>4, <1>5 DEF Plans, ReleasePlans, SweepPlans
<1>11. Adds(IF r.elseIntent = "hold" THEN {"hold"} \ has ELSE {}) \o Removes({"ready"}) \in SweepPlans \ {<<>>}
  <2>1. Adds(IF r.elseIntent = "hold" THEN {"hold"} \ has ELSE {}) \in {<<>>, <<<<"add", "hold">>>>}
    BY <1>2, <1>4, <1>5
  <2>2. Removes({"ready"}) = <<<<"remove", "ready">>>> BY <1>5
  <2>3. \/ Adds(IF r.elseIntent = "hold" THEN {"hold"} \ has ELSE {}) \o Removes({"ready"})
             = <<<<"remove", "ready">>>>
        \/ Adds(IF r.elseIntent = "hold" THEN {"hold"} \ has ELSE {}) \o Removes({"ready"})
             = <<<<"add", "hold">>, <<"remove", "ready">>>>
    BY <2>1, <2>2, <1>7, <1>8
  <2>4. <<<<"remove", "ready">>>> # <<>> /\ <<<<"add", "hold">>, <<"remove", "ready">>>> # <<>>
    OBVIOUS
  <2> QED BY <2>3, <2>4 DEF SweepPlans
<1>12. Operation(r, i) = IF i \in r.named
         THEN IF r.intent = "ready" THEN Adds({"ready"} \ has) \o Removes({"hold"} \cap has)
                                    ELSE Adds({"hold"} \ has)
         ELSE Adds(IF r.elseIntent = "hold" THEN {"hold"} \ has ELSE {}) \o Removes({"ready"})
  BY DEF Operation, has
<1> QED BY <1>9, <1>10, <1>11, <1>12 DEF Plans

\* A plan after its first write is a plan, and keeps its kind (guardedWrite).
LEMMA PlanGoesOn ==
  ASSUME NEW p \in Plans, p # <<>>
  PROVE  /\ Tail(p) \in Plans
         /\ p \in SweepPlans => Tail(p) \in SweepPlans
         /\ p \in ReleasePlans => Tail(p) \in ReleasePlans
         /\ Head(p)[1] \in {"add", "remove"} /\ Head(p)[2] \in InputLabels
         /\ p \in SweepPlans => \/ Head(p) = <<"add", "hold">> /\ Tail(p) # <<>>
                                \/ Head(p) = <<"remove", "ready">> /\ Tail(p) = <<>>
         /\ p \in ReleasePlans => \/ Head(p) = <<"add", "ready">> /\ Tail(p) # <<>>
                                  \/ Head(p) = <<"remove", "hold">> /\ Tail(p) = <<>>
<1> USE DEF Plans, SweepPlans, ReleasePlans, InputLabels
<1>1. CASE p = <<<<"remove", "ready">>>> BY <1>1
<1>2. CASE p = <<<<"remove", "hold">>>> BY <1>2
<1>3. CASE p = <<<<"add", "ready">>>> BY <1>3
<1>4. CASE p = <<<<"add", "hold">>>> BY <1>4
<1>5. CASE p = <<<<"add", "hold">>, <<"remove", "ready">>>> BY <1>5
<1>6. CASE p = <<<<"add", "ready">>, <<"remove", "hold">>>> BY <1>6
<1> QED BY <1>1, <1>2, <1>3, <1>4, <1>5, <1>6

\* No plan is longer than two writes.
LEMMA PlansAreShort == ASSUME NEW p \in Plans PROVE Len(p) <= 2
<1> USE DEF Plans, SweepPlans, ReleasePlans
<1>1. CASE p = <<>> BY <1>1
<1>2. CASE p = <<<<"remove", "ready">>>> BY <1>2
<1>3. CASE p = <<<<"remove", "hold">>>> BY <1>3
<1>4. CASE p = <<<<"add", "ready">>>> BY <1>4
<1>5. CASE p = <<<<"add", "hold">>>> BY <1>5
<1>6. CASE p = <<<<"add", "hold">>, <<"remove", "ready">>>> BY <1>6
<1>7. CASE p = <<<<"add", "ready">>, <<"remove", "hold">>>> BY <1>7
<1> QED BY <1>1, <1>2, <1>3, <1>4, <1>5, <1>6, <1>7

\* What an operator who did not move knows survives a step of another: an issue
\* whose labels changed, or that was opened, counts as touched for them.
LEMMA OthersKeep ==
  ASSUME SteeringInv, NEW t \in Steerers, steering'[t] = steering[t],
         touched[t] \subseteq touched'[t], open' \subseteq Issues,
         \A i \in Issues : labels'[i] # labels[i] \/ i \in open' \ open => i \in touched'[t]
  PROVE  (/\ PlanFits(steering[t]) /\ ElseSeen(steering[t], touched[t])
          /\ StillHeld(steering[t], touched[t]))'
<1>1. SteerOK(steering[t]) BY DEF SteeringInv, SteeringShape
<1>2. PlanFits(steering[t])' BY DEF SteeringInv, PlanFits
<1>3. ElseSeen(steering[t], touched[t])' BY <1>1 DEF SteeringInv, ElseSeen, Left
<1>4. StillHeld(steering[t], touched[t])' BY <1>1 DEF SteeringInv, StillHeld, SteerOK
<1> QED BY <1>2, <1>3, <1>4

\* A step of one operator keeps the invariant when their new record has its
\* part of it and the others see what changed.
LEMMA OperatorStep ==
  ASSUME SteeringInv, NEW s \in Steerers, NEW x, steering' = [steering EXCEPT ![s] = x],
         SteerOK(x), PlanFits(x), (ElseSeen(x, touched[s]))', (StillHeld(x, touched[s]))',
         labels' \in [Issues -> SUBSET InputLabels], open' = open, writesEnabled' = writesEnabled,
         touched' \in [Steerers -> SUBSET Issues], instructions' \in 0..MaxInstructions,
         edits' = edits, steerFaults' \in 0..MaxSteerFaults,
         \A t \in Steerers \ {s} : /\ touched[t] \subseteq touched'[t]
                                   /\ \A i \in Issues : labels'[i] # labels[i] => i \in touched'[t]
  PROVE  SteeringInv'
<1>1. DOMAIN steering = Steerers /\ \A t \in Steerers : SteerOK(steering[t])
  BY DEF SteeringInv, SteeringShape
<1>2. steering'[s] = x /\ \A t \in Steerers \ {s} : steering'[t] = steering[t] BY <1>1
<1>3. SteeringShape'
  <2>1. DOMAIN steering' = Steerers /\ \A t \in Steerers : SteerOK(steering'[t]) BY <1>1, <1>2
  <2> QED BY <2>1 DEF SteeringInv, SteeringShape, SteerOK
<1>4. (PlanFits(steering[s]) /\ ElseSeen(steering[s], touched[s]) /\ StillHeld(steering[s], touched[s]))'
  BY <1>2 DEF PlanFits, ElseSeen, StillHeld, Left
<1>5. ASSUME NEW t \in Steerers \ {s}
      PROVE  (PlanFits(steering[t]) /\ ElseSeen(steering[t], touched[t]) /\ StillHeld(steering[t], touched[t]))'
  <2>1. open' \subseteq Issues BY DEF SteeringInv, SteeringShape
  <2> QED BY <1>2, <1>5, <2>1, OthersKeep
<1> QED BY <1>3, <1>4, <1>5 DEF SteeringInv

\* An idle record has nothing to keep (the start, a dismissal, an abandoned apply).
LEMMA IdleFits ==
  /\ SteerOK(NoSteering) /\ PlanFits(NoSteering)
  /\ \A T : ElseSeen(NoSteering, T)' /\ StillHeld(NoSteering, T)'
<1>1. DOMAIN <<>> = {} OBVIOUS
<1> QED BY <1>1 DEF NoSteering, SteerOK, PlanFits, ElseSeen, StillHeld, Plans, SweepPlans

\* Nobody is steering yet.
LEMMA SteeringStarts == SteeringInit => SteeringInv
<1> SUFFICES ASSUME SteeringInit PROVE SteeringInv OBVIOUS
<1>1. DOMAIN <<>> = {} OBVIOUS
<1>2. SteerOK(NoSteering) BY IdleFits
<1>3. SteeringShape BY <1>2, SteeringConstants DEF SteeringInit, SteeringShape
<1> QED BY <1>3 DEF SteeringInit, SteeringInv, NoSteering, PlanFits, ElseSeen, StillHeld, SweepPlans

\* A new instruction has only been read (SteeringService.propose).
LEMMA InstructKeeps ==
  ASSUME SteeringInv, NEW s \in Steerers, NEW intent, NEW exclusive, NEW elseIntent,
         NEW named \in SUBSET Issues, intent \in {"ready", "hold"},
         Instruct(s, intent, exclusive, elseIntent, named)
  PROVE  SteeringInv'
<1>0. SteeringShape BY DEF SteeringInv
<1> PICK x : x = [NoSteering EXCEPT !.step = "reading", !.intent = intent, !.exclusive = exclusive,
                                   !.elseIntent = elseIntent, !.named = named, !.toRead = named]
  OBVIOUS
<1>1. DOMAIN <<>> = {} OBVIOUS
<1>2. SteerOK(x) BY <1>1 DEF NoSteering, SteerOK, Plans, SweepPlans
<1>3. x.step = "reading" BY DEF NoSteering
<1>4. steering' = [steering EXCEPT ![s] = x] BY DEF Instruct
<1>5. PlanFits(x) /\ (ElseSeen(x, touched[s]))' /\ (StillHeld(x, touched[s]))'
  BY <1>3 DEF PlanFits, ElseSeen, StillHeld
<1>6. instructions' \in 0..MaxInstructions
  BY <1>0, SteeringConstants DEF Instruct, Given, SteeringShape
<1>7. touched' \in [Steerers -> SUBSET Issues] BY <1>0 DEF Instruct, SteeringShape
<1> QED BY <1>0, <1>2, <1>4, <1>5, <1>6, <1>7, OperatorStep DEF Instruct, SteeringShape

\* What is shown after a read: the issues that were there and the ones read.
LEMMA ShowDomain ==
  ASSUME NEW shown, NEW S, DOMAIN shown \subseteq Issues, S \subseteq Issues
  PROVE  DOMAIN Show(shown, S) = DOMAIN shown \cup S
BY DEF Show

\* A read of one named issue (resolveIssue).
LEMMA ResolveKeeps ==
  ASSUME SteeringInv, NEW s \in Steerers, NEW i \in Issues, ResolveIssue(s, i)
  PROVE  SteeringInv'
<1>0. SteeringShape BY DEF SteeringInv
<1> PICK r : r = steering[s] OBVIOUS
<1> PICK x : x = [r EXCEPT !.toRead = r.toRead \ {i}, !.shown = Show(r.shown, {i} \cap open)] OBVIOUS
<1>1. SteerOK(r) BY <1>0 DEF SteeringShape
<1>2. steering' = [steering EXCEPT ![s] = x] BY <1>1 DEF ResolveIssue, SteerOK
<1>3. r.step = "reading" BY DEF ResolveIssue
<1>4. DOMAIN Show(r.shown, {i} \cap open) = DOMAIN r.shown \cup ({i} \cap open)
  <2>1. {i} \cap open \subseteq Issues OBVIOUS
  <2> QED BY <1>1, <2>1, ShowDomain DEF SteerOK
<1>5. SteerOK(x) BY <1>1, <1>4 DEF SteerOK
<1>6. x.step = "reading" BY <1>1, <1>3 DEF SteerOK
<1>7. PlanFits(x) /\ (ElseSeen(x, touched[s]))' /\ (StillHeld(x, touched[s]))'
  BY <1>6 DEF PlanFits, ElseSeen, StillHeld
<1> QED BY <1>0, <1>2, <1>5, <1>7, OperatorStep DEF ResolveIssue, SteeringShape

\* The sweep shows every other issue that is ready and open (propose).
LEMMA ProposeKeeps ==
  ASSUME SteeringInv, NEW s \in Steerers, Propose(s)
  PROVE  SteeringInv'
<1>0. SteeringShape BY DEF SteeringInv
<1> PICK r : r = steering[s] OBVIOUS
<1> PICK swept : swept = IF r.exclusive /\ r.intent = "ready" THEN Swept(r.shown) ELSE {} OBVIOUS
<1> PICK x : x = [r EXCEPT !.step = "proposed", !.shown = Show(r.shown, swept)] OBVIOUS
<1>1. SteerOK(r) BY <1>0 DEF SteeringShape
<1>2. steering' = [steering EXCEPT ![s] = x] BY <1>0, <1>1 DEF Propose, SteeringShape, SteerOK
<1>3. r.step = "reading" /\ r.plan = <<>> BY <1>1 DEF Propose, SteerOK
<1>4. swept \subseteq Issues BY <1>0 DEF Swept, SteeringShape
<1>5. DOMAIN Show(r.shown, swept) = DOMAIN r.shown \cup swept BY <1>1, <1>4, ShowDomain DEF SteerOK
<1>6. r.exclusive /\ r.intent = "ready" =>
        \A i \in open : "ready" \in labels[i] => i \in DOMAIN r.shown \cup swept
  BY DEF Swept
<1>7. labels' = labels /\ open' = open BY DEF Propose
<1>8. SteerOK(x) BY <1>1, <1>3, <1>4, <1>5 DEF SteerOK
<1>9. /\ x.step = "proposed" /\ DOMAIN x.shown = DOMAIN r.shown \cup swept
      /\ x.exclusive = r.exclusive /\ x.intent = r.intent
  BY <1>1, <1>5 DEF SteerOK
<1>10. PlanFits(x) /\ (StillHeld(x, touched[s]))' BY <1>9 DEF PlanFits, StillHeld
<1>11. (ElseSeen(x, touched[s]))' BY <1>6, <1>7, <1>9 DEF ElseSeen, Left
<1> QED BY <1>0, <1>2, <1>8, <1>10, <1>11, OperatorStep DEF Propose, SteeringShape

\* A confirmed proposal is carried out whole (apply).
LEMMA ConfirmKeeps ==
  ASSUME SteeringInv, NEW s \in Steerers, NEW yes \in BOOLEAN, Confirm(s, yes)
  PROVE  SteeringInv'
<1>0. SteeringShape BY DEF SteeringInv
<1>1. CASE yes
  <2> PICK r : r = steering[s] OBVIOUS
  <2> PICK x : x = [r EXCEPT !.step = "applying", !.todo = DOMAIN r.shown] OBVIOUS
  <2>1. SteerOK(r) /\ ElseSeen(r, touched[s]) BY <1>0 DEF SteeringShape, SteeringInv
  <2>2. steering' = [steering EXCEPT ![s] = x] BY <1>1 DEF Confirm
  <2>3. r.step = "proposed" /\ r.plan = <<>> BY <2>1 DEF Confirm, SteerOK
  <2>4. labels' = labels /\ open' = open /\ touched' = touched BY DEF Confirm
  <2>5. SteerOK(x) BY <2>1, <2>3 DEF SteerOK
  <2>6. /\ x.step = "applying" /\ x.todo = DOMAIN r.shown /\ x.plan = <<>>
        /\ x.exclusive = r.exclusive /\ x.intent = r.intent /\ x.suppressed = r.suppressed
        /\ x.named = r.named /\ x.skipped = r.skipped
    BY <2>1, <2>3 DEF SteerOK
  <2>7. PlanFits(x) /\ (StillHeld(x, touched[s]))' BY <2>6 DEF PlanFits, StillHeld, SweepPlans
  <2>8. (ElseSeen(x, touched[s]))' BY <2>1, <2>3, <2>4, <2>6 DEF ElseSeen, Left
  <2> QED BY <1>0, <2>2, <2>5, <2>7, <2>8, OperatorStep DEF Confirm, SteeringShape
<1>2. CASE ~yes
  <2>1. steering' = [steering EXCEPT ![s] = NoSteering] BY <1>2 DEF Confirm
  <2> QED BY <1>0, <2>1, IdleFits, OperatorStep DEF Confirm, SteeringShape
<1> QED BY <1>1, <1>2

\* An issue is read again before it is written: a drifted one is reported, and
\* the others become the issue at hand with their plan (apply, checkDrift).
LEMMA DriftKeeps ==
  ASSUME SteeringInv, NEW s \in Steerers, NEW i \in Issues, CheckDrift(s, i)
  PROVE  SteeringInv'
<1>0. SteeringShape BY DEF SteeringInv
<1> PICK r : r = steering[s] OBVIOUS
<1>1. SteerOK(r) /\ ElseSeen(r, touched[s]) BY <1>0 DEF SteeringShape, SteeringInv
<1>2. r.step = "applying" /\ r.issue = {} /\ i \in r.todo BY DEF CheckDrift
<1>3. labels' = labels /\ open' = open /\ touched' = touched BY DEF CheckDrift
<1>4. \A j \in Left(r) : j \in r.todo BY <1>2 DEF Left
<1>5. CASE i \in open /\ labels[i] = r.shown[i]
  <2> PICK p : p = Operation(r, i) OBVIOUS
  <2> PICK x : x = [r EXCEPT !.todo = r.todo \ {i}, !.issue = {i}, !.plan = p] OBVIOUS
  <2>1. steering' = [steering EXCEPT ![s] = x] BY <1>5 DEF CheckDrift
  <2>2. p \in Plans /\ (i \notin r.named => p \in SweepPlans \ {<<>>}) BY OperationPlans
  <2>3. /\ x.step = "applying" /\ x.todo = r.todo \ {i} /\ x.issue = {i} /\ x.plan = p
        /\ x.exclusive = r.exclusive /\ x.intent = r.intent /\ x.suppressed = r.suppressed
        /\ x.named = r.named /\ x.skipped = r.skipped /\ x.shown = r.shown
    BY <1>1, <1>2 DEF SteerOK
  <2>4. SteerOK(x) BY <1>1, <1>2, <2>2, <2>3 DEF SteerOK
  <2>5. PlanFits(x) /\ (StillHeld(x, touched[s]))' BY <2>2, <2>3 DEF PlanFits, StillHeld
  <2>6. i \notin r.named => p # <<>> BY <2>2
  <2>7. (ElseSeen(x, touched[s]))' BY <1>1, <1>2, <1>3, <1>4, <2>3, <2>6 DEF ElseSeen, Left
  <2> QED BY <1>0, <2>1, <2>4, <2>5, <2>7, OperatorStep DEF CheckDrift, SteeringShape
<1>6. CASE ~(i \in open /\ labels[i] = r.shown[i])
  <2> PICK x : x = [r EXCEPT !.todo = r.todo \ {i}, !.skipped = r.skipped \cup {i}] OBVIOUS
  <2>1. steering' = [steering EXCEPT ![s] = x] BY <1>6 DEF CheckDrift
  <2>2. /\ x.step = "applying" /\ x.todo = r.todo \ {i} /\ x.issue = {} /\ x.plan = r.plan
        /\ x.exclusive = r.exclusive /\ x.intent = r.intent /\ x.suppressed = r.suppressed
        /\ x.named = r.named /\ x.skipped = r.skipped \cup {i} /\ x.shown = r.shown
    BY <1>1, <1>2 DEF SteerOK
  <2>3. SteerOK(x) BY <1>1, <1>2, <2>2 DEF SteerOK
  <2>4. PlanFits(x) /\ (StillHeld(x, touched[s]))' BY <2>2 DEF PlanFits, StillHeld
  <2>5. (ElseSeen(x, touched[s]))' BY <1>1, <1>2, <1>3, <1>4, <2>2 DEF ElseSeen, Left
  <2> QED BY <1>0, <2>1, <2>3, <2>4, <2>5, OperatorStep DEF CheckDrift, SteeringShape
<1> QED BY <1>5, <1>6

\* A hold or a release begins with its whole plan (QueueSteeringService.steer).
LEMMA SteerKeeps ==
  ASSUME SteeringInv, NEW s \in Steerers, NEW intent \in {"hold", "release"}, NEW i \in Issues,
         Steer(s, intent, i)
  PROVE  SteeringInv'
<1>0. SteeringShape BY DEF SteeringInv
<1>1. DOMAIN <<>> = {} OBVIOUS
<1>2. LABEL_PLAN(intent) \in Plans /\ (intent = "release" => LABEL_PLAN(intent) \in ReleasePlans)
  BY DEF LABEL_PLAN, Plans, ReleasePlans
<1> PICK x : x = [NoSteering EXCEPT !.step = "labelling", !.intent = intent, !.issue = {i},
                                    !.plan = LABEL_PLAN(intent), !.shown = Show(<<>>, {i})]
  OBVIOUS
<1>3. steering' = [steering EXCEPT ![s] = x] BY DEF Steer
<1>4. /\ x.step = "labelling" /\ x.intent = intent /\ x.issue = {i} /\ x.plan = LABEL_PLAN(intent)
      /\ x.shown = Show(<<>>, {i}) /\ x.suppressed = FALSE /\ x.todo = {} /\ x.skipped = {}
  BY DEF NoSteering
<1>5. DOMAIN x.shown = {i} /\ x.shown[i] = labels[i] BY <1>1, <1>4 DEF Show
<1>6. DOMAIN x = {"step", "intent", "exclusive", "elseIntent", "named", "toRead", "shown",
                  "todo", "skipped", "issue", "plan", "performed", "suppressed"}
  BY DEF NoSteering
<1>7. SteerOK(x) BY <1>2, <1>4, <1>5, <1>6 DEF SteerOK
<1>8. PlanFits(x) BY <1>2, <1>4 DEF PlanFits
<1>9. labels' = labels BY DEF Steer
<1>10. (ElseSeen(x, touched[s]))' /\ (StillHeld(x, touched[s]))'
  BY <1>4, <1>5, <1>9 DEF ElseSeen, StillHeld
<1>11. instructions' \in 0..MaxInstructions
  BY <1>0, SteeringConstants DEF Steer, Given, SteeringShape
<1>12. touched' \in [Steerers -> SUBSET Issues] BY <1>0 DEF Steer, SteeringShape
<1> QED BY <1>0, <1>3, <1>7, <1>8, <1>10, <1>11, <1>12, OperatorStep DEF Steer, SteeringShape

\* One write of a plan: an issue that is not named only ever loses `ready`, and
\* a release adds before it removes; the others see what changed (guardedWrite).
LEMMA WriteKeeps ==
  ASSUME SteeringInv, NEW s \in Steerers, WritePlanned(s)
  PROVE  SteeringInv'
<1>0. SteeringShape BY DEF SteeringInv
<1> PICK r : r = steering[s] OBVIOUS
<1> PICK on : on = writesEnabled OBVIOUS
<1> PICK w : w = Head(r.plan) OBVIOUS
<1> PICK rest : rest = Tail(r.plan) OBVIOUS
<1> PICK x : x = [r EXCEPT !.plan = rest, !.performed = IF on THEN r.performed + 1 ELSE r.performed,
                           !.suppressed = r.suppressed \/ ~on]
  OBVIOUS
<1>1. /\ SteerOK(r) /\ PlanFits(r) /\ ElseSeen(r, touched[s]) /\ StillHeld(r, touched[s])
      /\ on \in BOOLEAN
  BY <1>0 DEF SteeringShape, SteeringInv
<1>2. r.plan # <<>> /\ r.plan \in Plans /\ r.step \in {"applying", "labelling"}
  BY <1>1 DEF WritePlanned, SteerOK
<1>3. /\ rest \in Plans /\ w[1] \in {"add", "remove"} /\ w[2] \in InputLabels
      /\ r.plan \in SweepPlans =>
           /\ rest \in SweepPlans
           /\ \/ w = <<"add", "hold">> /\ rest # <<>>
              \/ w = <<"remove", "ready">> /\ rest = <<>>
      /\ r.plan \in ReleasePlans =>
           /\ rest \in ReleasePlans
           /\ \/ w = <<"add", "ready">> /\ rest # <<>>
              \/ w = <<"remove", "hold">> /\ rest = <<>>
  BY <1>2, PlanGoesOn
<1>4. steering' = [steering EXCEPT ![s] = x] BY DEF WritePlanned
<1>5. /\ x.step = r.step /\ x.plan = rest /\ x.suppressed = (r.suppressed \/ ~on)
      /\ x.intent = r.intent /\ x.exclusive = r.exclusive /\ x.named = r.named
      /\ x.issue = r.issue /\ x.shown = r.shown /\ x.todo = r.todo /\ x.skipped = r.skipped
      /\ DOMAIN x = DOMAIN r
  BY <1>1 DEF SteerOK
<1>6. \A i \in Issues : labels'[i] =
        IF i \notin r.issue \/ ~on THEN labels[i]
        ELSE IF w[1] = "add" THEN labels[i] \cup {w[2]} ELSE labels[i] \ {w[2]}
  BY <1>3 DEF WritePlanned
<1>7. labels' \in [Issues -> SUBSET InputLabels]
  <2> DEFINE E(i) == CASE i \notin r.issue \/ ~writesEnabled -> labels[i]
                      [] w[1] = "add" /\ i \in r.issue /\ writesEnabled    -> labels[i] \cup {w[2]}
                      [] w[1] = "remove" /\ i \in r.issue /\ writesEnabled -> labels[i] \ {w[2]}
  <2>0. labels' = [i \in Issues |-> E(i)] BY DEF WritePlanned
  <2> HIDE DEF E
  <2>1. labels' = [i \in Issues |-> labels'[i]] BY <2>0
  <2>2. \A i \in Issues : labels'[i] \subseteq InputLabels
    BY <1>0, <1>3, <1>6 DEF SteeringShape
  <2> QED BY <2>1, <2>2
<1>8. touched' \in [Steerers -> SUBSET Issues] /\ touched'[s] = touched[s]
      /\ \A t \in Steerers : touched[t] \subseteq touched'[t]
  BY <1>0, <1>1 DEF WritePlanned, SteeringShape, SteerOK
<1>9. ASSUME NEW t \in Steerers \ {s}, NEW i \in Issues, labels'[i] # labels[i]
      PROVE  i \in touched'[t]
  <2>1. labels' # labels BY <1>9
  <2>2. i \in r.issue BY <1>6, <1>9
  <2> QED BY <2>1, <2>2 DEF WritePlanned
<1>10. SteerOK(x) BY <1>1, <1>2, <1>3, <1>5 DEF SteerOK
<1>11. PlanFits(x) BY <1>1, <1>3, <1>5 DEF PlanFits
<1>12. open' = open /\ open \subseteq Issues BY <1>0 DEF WritePlanned, SteeringShape
<1>13. (ElseSeen(x, touched[s]))'
  <2>1. SUFFICES ASSUME r.exclusive, r.intent = "ready", ~r.suppressed, on, r.step = "applying",
                        NEW i \in open \ r.named, "ready" \in labels'[i]
                 PROVE  i \in r.skipped \cup touched[s] \cup (r.todo \cup (IF rest = <<>> THEN {} ELSE r.issue))
    BY <1>2, <1>5, <1>8, <1>12 DEF ElseSeen, Left
  <2>2. CASE i \notin r.issue
    <3>1. "ready" \in labels[i] BY <1>6, <1>12, <2>1, <2>2
    <3> QED BY <1>1, <2>1, <2>2, <3>1 DEF ElseSeen, Left
  <2>3. CASE i \in r.issue
    <3>1. r.plan \in SweepPlans BY <1>1, <2>1, <2>3 DEF PlanFits
    <3>2. CASE rest # <<>> BY <2>3, <3>2
    <3>3. CASE rest = <<>>
      <4>1. w = <<"remove", "ready">> BY <1>3, <3>1, <3>3
      <4>2. w[1] = "remove" /\ w[2] = "ready" BY <4>1
      <4>3. labels'[i] = labels[i] \ {w[2]} BY <1>6, <1>12, <2>1, <2>3, <4>2
      <4> QED BY <2>1, <4>2, <4>3
    <3> QED BY <3>2, <3>3
  <2> QED BY <2>2, <2>3
<1>14. (StillHeld(x, touched[s]))'
  <2>1. SUFFICES ASSUME r.intent = "release", ~r.suppressed, on, r.step = "labelling", rest # <<>>,
                        NEW i \in r.issue, "hold" \in r.shown[i]
                 PROVE  "hold" \in labels'[i] \/ i \in touched[s]
    BY <1>2, <1>5, <1>8 DEF StillHeld
  <2>2. r.plan \in ReleasePlans BY <1>1, <2>1 DEF PlanFits
  <2>3. w = <<"add", "ready">> BY <1>3, <2>1, <2>2
  <2>4. w[1] = "add" BY <2>3
  <2>5. i \in Issues BY <1>1, <2>1 DEF SteerOK
  <2>6. labels'[i] = labels[i] \cup {w[2]} BY <1>6, <2>1, <2>4, <2>5
  <2>7. "hold" \in labels[i] \/ i \in touched[s] BY <1>1, <1>2, <2>1 DEF StillHeld
  <2> QED BY <2>6, <2>7
<1>15. /\ writesEnabled' = writesEnabled /\ edits' = edits
       /\ instructions' \in 0..MaxInstructions /\ steerFaults' \in 0..MaxSteerFaults
  BY <1>0 DEF WritePlanned, SteeringShape
<1> QED BY <1>4, <1>7, <1>8, <1>9, <1>10, <1>11, <1>12, <1>13, <1>14, <1>15, OperatorStep

\* An issue is left only when its plan is done (apply, steer).
LEMMA EndIssueKeeps ==
  ASSUME SteeringInv, NEW s \in Steerers, EndIssue(s)
  PROVE  SteeringInv'
<1>0. SteeringShape BY DEF SteeringInv
<1> PICK r : r = steering[s] OBVIOUS
<1>1. SteerOK(r) /\ PlanFits(r) /\ ElseSeen(r, touched[s])
  BY <1>0 DEF SteeringShape, SteeringInv
<1>2. r.plan = <<>> BY DEF EndIssue
<1>3. labels' = labels /\ open' = open /\ touched' = touched BY DEF EndIssue
<1>4. CASE r.step = "applying"
  <2> PICK x : x = [r EXCEPT !.issue = {}] OBVIOUS
  <2>1. steering' = [steering EXCEPT ![s] = x] BY <1>4 DEF EndIssue
  <2>2. /\ x.step = "applying" /\ x.todo = r.todo /\ x.issue = {} /\ x.plan = <<>>
        /\ x.exclusive = r.exclusive /\ x.intent = r.intent /\ x.suppressed = r.suppressed
        /\ x.named = r.named /\ x.skipped = r.skipped /\ x.shown = r.shown
    BY <1>1, <1>2, <1>4 DEF SteerOK
  <2>3. SteerOK(x) BY <1>1, <1>4, <2>2 DEF SteerOK
  <2>4. PlanFits(x) /\ (StillHeld(x, touched[s]))' BY <2>2 DEF PlanFits, StillHeld
  <2>5. (ElseSeen(x, touched[s]))' BY <1>1, <1>2, <1>3, <1>4, <2>2 DEF ElseSeen, Left
  <2> QED BY <1>0, <2>1, <2>3, <2>4, <2>5, OperatorStep DEF EndIssue, SteeringShape
<1>5. CASE r.step # "applying" /\ r.suppressed /\ r.performed > 0
  <2> PICK x : x = [r EXCEPT !.step = "incomplete"] OBVIOUS
  <2>1. steering' = [steering EXCEPT ![s] = x] BY <1>5 DEF EndIssue
  <2>2. x.step = "incomplete" /\ x.suppressed BY <1>1, <1>5 DEF SteerOK
  <2>3. SteerOK(x) BY <1>1, <1>2 DEF SteerOK
  <2>4. PlanFits(x) /\ (ElseSeen(x, touched[s]))' /\ (StillHeld(x, touched[s]))'
    BY <2>2 DEF PlanFits, ElseSeen, StillHeld
  <2> QED BY <1>0, <2>1, <2>3, <2>4, OperatorStep DEF EndIssue, SteeringShape
<1>6. CASE r.step # "applying" /\ ~(r.suppressed /\ r.performed > 0)
  <2>1. steering' = [steering EXCEPT ![s] = NoSteering] BY <1>6 DEF EndIssue
  <2> QED BY <1>0, <2>1, IdleFits, OperatorStep DEF EndIssue, SteeringShape
<1> QED BY <1>4, <1>5, <1>6

\* An apply ends when every issue has been dealt with (apply).
LEMMA EndApplyKeeps ==
  ASSUME SteeringInv, NEW s \in Steerers, EndApply(s)
  PROVE  SteeringInv'
<1>0. SteeringShape BY DEF SteeringInv
<1> PICK r : r = steering[s] OBVIOUS
<1> PICK x : x = [r EXCEPT !.step = "applied"] OBVIOUS
<1>1. SteerOK(r) /\ PlanFits(r) /\ ElseSeen(r, touched[s])
  BY <1>0 DEF SteeringShape, SteeringInv
<1>2. r.step = "applying" /\ r.todo = {} /\ r.issue = {} BY DEF EndApply
<1>3. labels' = labels /\ open' = open /\ touched' = touched BY DEF EndApply
<1>4. steering' = [steering EXCEPT ![s] = x] BY <1>0 DEF EndApply, SteeringShape
<1>5. /\ x.step = "applied" /\ x.exclusive = r.exclusive /\ x.intent = r.intent
      /\ x.suppressed = r.suppressed /\ x.named = r.named /\ x.skipped = r.skipped
  BY <1>1 DEF SteerOK
<1>6. Left(r) = {} BY <1>2 DEF Left
<1>7. (ElseSeen(x, touched[s]))' BY <1>1, <1>2, <1>3, <1>5, <1>6 DEF ElseSeen
<1>8. PlanFits(x) /\ (StillHeld(x, touched[s]))' BY <1>5 DEF PlanFits, StillHeld
<1>9. SteerOK(x) BY <1>1, <1>2 DEF SteerOK
<1> QED BY <1>0, <1>4, <1>7, <1>8, <1>9, OperatorStep DEF EndApply, SteeringShape

\* A result is dismissed.
LEMMA DismissKeeps ==
  ASSUME SteeringInv, NEW s \in Steerers, Dismiss(s) PROVE SteeringInv'
<1>0. SteeringShape BY DEF SteeringInv
<1>1. steering' = [steering EXCEPT ![s] = NoSteering] BY DEF Dismiss
<1> QED BY <1>0, <1>1, IdleFits, OperatorStep DEF Dismiss, SteeringShape

\* A failing request: a release that stops before its removal has lifted nothing.
LEMMA FailKeeps ==
  ASSUME SteeringInv, NEW s \in Steerers, SteeringFails(s) PROVE SteeringInv'
<1>0. SteeringShape BY DEF SteeringInv
<1> PICK r : r = steering[s] OBVIOUS
<1>1. SteerOK(r) /\ StillHeld(r, touched[s]) BY <1>0 DEF SteeringShape, SteeringInv
<1>2. labels' = labels /\ touched' = touched BY DEF SteeringFails
<1>3. steerFaults' \in 0..MaxSteerFaults
  BY <1>0, SteeringConstants DEF SteeringFails, SteeringShape
<1>4. CASE r.step = "labelling"
  <2> PICK x : x = [r EXCEPT !.step = "incomplete", !.plan = <<>>] OBVIOUS
  <2>1. steering' = [steering EXCEPT ![s] = x] BY <1>4 DEF SteeringFails
  <2>2. r.plan # <<>> BY <1>4 DEF SteeringFails
  <2>3. /\ x.step = "incomplete" /\ x.plan = <<>> /\ x.intent = r.intent
        /\ x.suppressed = r.suppressed /\ x.issue = r.issue /\ x.shown = r.shown
    BY <1>1 DEF SteerOK
  <2>4. SteerOK(x) BY <1>1 DEF SteerOK, Plans, SweepPlans
  <2>5. (StillHeld(x, touched[s]))' BY <1>1, <1>2, <1>4, <2>2, <2>3 DEF StillHeld
  <2>6. PlanFits(x) /\ (ElseSeen(x, touched[s]))' BY <2>3 DEF PlanFits, ElseSeen
  <2> QED BY <1>0, <1>3, <2>1, <2>4, <2>5, <2>6, OperatorStep DEF SteeringFails, SteeringShape
<1>5. CASE r.step # "labelling"
  <2>1. steering' = [steering EXCEPT ![s] = NoSteering] BY <1>5 DEF SteeringFails
  <2> QED BY <1>0, <1>3, <2>1, IdleFits, OperatorStep DEF SteeringFails, SteeringShape
<1> QED BY <1>4, <1>5

\* Everybody sees an edit by somebody else as a touch (the world's side of
\* checkDrift).
LEMMA EditKeeps ==
  ASSUME SteeringInv, NEW i \in Issues, NEW L \in SUBSET InputLabels, NEW isOpen \in BOOLEAN,
         Edit(i, L, isOpen)
  PROVE  SteeringInv'
<1>0. SteeringShape BY DEF SteeringInv
<1>1. edits' \in 0..MaxEdits BY <1>0, SteeringConstants DEF Edit, SteeringShape
<1>2. open' \subseteq Issues /\ open' \ open \subseteq {i} BY <1>0 DEF Edit, SteeringShape
<1>3. labels' \in [Issues -> SUBSET InputLabels] /\ \A j \in Issues : j # i => labels'[j] = labels[j]
  BY <1>0 DEF Edit, SteeringShape
<1>4. touched' \in [Steerers -> SUBSET Issues]
      /\ \A t \in Steerers : touched'[t] = touched[t] \cup {i}
  BY <1>0 DEF Edit, SteeringShape
<1>5. steering' = steering BY DEF Edit
<1>6. SteeringShape' BY <1>0, <1>1, <1>2, <1>3, <1>4, <1>5 DEF Edit, SteeringShape, SteerOK
<1>7. ASSUME NEW t \in Steerers
      PROVE  (PlanFits(steering[t]) /\ ElseSeen(steering[t], touched[t]) /\ StillHeld(steering[t], touched[t]))'
  BY <1>2, <1>3, <1>4, <1>5, OthersKeep
<1> QED BY <1>6, <1>7 DEF SteeringInv

\* The kill switch moves no label.
LEMMA SwitchKeeps == ASSUME SteeringInv, SwitchWrites PROVE SteeringInv'
<1>0. SteeringShape BY DEF SteeringInv
<1>1. edits' \in 0..MaxEdits BY <1>0, SteeringConstants DEF SwitchWrites, SteeringShape
<1> QED BY <1>0, <1>1 DEF SwitchWrites, SteeringInv, SteeringShape, SteerOK, PlanFits,
                         ElseSeen, Left, StillHeld

\* The invariant is inductive.
LEMMA SteeringStep == SteeringInv /\ [SteeringNext]_steeringVars => SteeringInv'
<1>1. ASSUME SteeringInv, SteeringNext PROVE SteeringInv'
  <2>1. ASSUME NEW s \in Steerers, NEW intent \in {"ready", "hold"}, NEW exclusive \in BOOLEAN,
               NEW elseIntent \in {"unready", "hold"}, NEW named \in SUBSET Issues \ {{}},
               Instruct(s, intent, exclusive, elseIntent, named)
        PROVE  SteeringInv'
    BY <1>1, <2>1, InstructKeeps
  <2>2. ASSUME NEW s \in Steerers, NEW i \in Issues,
               \/ ResolveIssue(s, i) \/ CheckDrift(s, i)
               \/ \E intent \in {"hold", "release"} : Steer(s, intent, i)
        PROVE  SteeringInv'
    BY <1>1, <2>2, ResolveKeeps, DriftKeeps, SteerKeeps
  <2>3. ASSUME NEW s \in Steerers, NEW yes \in BOOLEAN, Confirm(s, yes) PROVE SteeringInv'
    BY <1>1, <2>3, ConfirmKeeps
  <2>4. ASSUME NEW s \in Steerers, Propose(s) \/ WritePlanned(s) PROVE SteeringInv'
    BY <1>1, <2>4, ProposeKeeps, WriteKeeps
  <2>5. ASSUME NEW s \in Steerers, EndIssue(s) \/ EndApply(s) \/ Dismiss(s) \/ SteeringFails(s)
        PROVE  SteeringInv'
    BY <1>1, <2>5, EndIssueKeeps, EndApplyKeeps, DismissKeeps, FailKeeps
  <2>6. ASSUME NEW i \in Issues, NEW L \in SUBSET InputLabels, NEW isOpen \in BOOLEAN,
               Edit(i, L, isOpen)
        PROVE  SteeringInv'
    BY <1>1, <2>6, EditKeeps
  <2>7. CASE SwitchWrites BY <1>1, <2>7, SwitchKeeps
  <2>8. CASE \E s \in Steerers :
               \/ \E intent \in {"ready", "hold"}, exclusive \in BOOLEAN,
                     elseIntent \in {"unready", "hold"}, named \in SUBSET Issues \ {{}} :
                    Instruct(s, intent, exclusive, elseIntent, named)
               \/ \E i \in Issues : \/ ResolveIssue(s, i) \/ CheckDrift(s, i)
                                    \/ \E intent \in {"hold", "release"} : Steer(s, intent, i)
    BY <2>1, <2>2, <2>8
  <2>9. CASE \E s \in Steerers :
               \/ \E yes \in BOOLEAN : Confirm(s, yes)
               \/ Propose(s) \/ WritePlanned(s) \/ EndIssue(s) \/ EndApply(s) \/ Dismiss(s)
               \/ SteeringFails(s)
    BY <2>3, <2>4, <2>5, <2>9
  <2>10. CASE \E i \in Issues, L \in SUBSET InputLabels, isOpen \in BOOLEAN : Edit(i, L, isOpen)
    BY <2>6, <2>10
  <2> QED BY <1>1, <2>7, <2>8, <2>9, <2>10, Zenon DEF SteeringNext
<1>2. ASSUME SteeringInv, UNCHANGED steeringVars PROVE SteeringInv'
  BY <1>2 DEF steeringVars, SteeringInv, SteeringShape, SteerOK, PlanFits, ElseSeen, Left, StillHeld
<1> QED BY <1>1, <1>2

\* "Only work on these" is kept, for any number of operators steering at once
\* and any edits between the proposal's reads and its writes: an issue that is
\* not named and is still ready was reported as skipped, or somebody else
\* changed it after it was read (SteeringService.propose and apply).
THEOREM OnlyTheNamedAreReady == SteeringSpec => []NothingElseIsReady
<1>1. SteeringInv => NothingElseIsReady
  BY DEF SteeringInv, ElseSeen, Left, NothingElseIsReady
<1> QED BY <1>1, SteeringStarts, SteeringStep, PTL DEF SteeringSpec

\* A release that fails at either of its requests leaves a held issue held,
\* unless somebody else changed it or the kill switch moved between the two
\* (QueueSteeringService, LABEL_PLAN).
THEOREM ReleasesFailClosed == SteeringSpec => []HalfReleaseStaysHeld
<1>1. SteeringInv => HalfReleaseStaysHeld
  BY DEF SteeringInv, StillHeld, HalfReleaseStaysHeld
<1> QED BY <1>1, SteeringStarts, SteeringStep, PTL DEF SteeringSpec

\* The state of the steering requests keeps its types; what is carried out or
\* skipped was shown, and no plan has more than two writes.
THEOREM SteeringIsTyped == SteeringSpec => []SteeringOK
<1>1. SteeringInv => SteeringOK
  BY PlansAreShort DEF SteeringInv, SteeringShape, SteerOK, SteeringOK
<1> QED BY <1>1, SteeringStarts, SteeringStep, PTL DEF SteeringSpec

-----------------------------------------------------------------------------
(* The projection of an issue.  The argument: a pass decides from its own    *)
(* readings alone, so what it has to write is a difference of two sets of    *)
(* mirror labels, whatever the rows and the labels have become meanwhile.    *)

IssueSpec == IssueInit /\ [][IssueNext]_issueVars

\* The fields of a pass that the writes depend on.
ReadingOK(r) ==
  /\ DOMAIN r = {"step", "labels", "mirrors", "dispatchEnabled", "orders", "todo"}
  /\ r.step \in {"idle", "listed", "loaded", "acting"}
  /\ r.mirrors \subseteq MirrorLabels
  /\ r.todo \subseteq {"add", "remove"} \X MirrorLabels

IssueInv ==
  /\ DOMAIN issue = {"labels", "clearedBy", "mirrors"}
  /\ issue.labels \in LabelSets /\ issue.mirrors \subseteq MirrorLabels
  /\ issue.clearedBy \in {"nobody", "human", "bot"}
  /\ orders \in OrderStates
  /\ DOMAIN passes = Passes /\ \A p \in Passes : ReadingOK(passes[p])
  /\ issueChanges \in 0..MaxIssueChanges /\ labelFaults \in 0..MaxLabelFaults

\* Whatever the intent, it is shown by mirror labels (desiredMirrorLabels).
LEMMA WantedAreMirrors ==
  ASSUME NEW L, NEW os, NEW cleared, NEW enabled
  PROVE  desiredMirrorLabels(L, os, cleared, enabled) \subseteq MirrorLabels
<1> DEFINE intent == projectIntent(L, os, cleared, enabled)
<1> HIDE DEF intent
<1>1. MirrorOf(intent) \subseteq MirrorLabels BY DEF MirrorOf, MirrorLabels
<1> QED BY <1>1 DEF desiredMirrorLabels, MirrorLabels, intent

\* The diff is what makes the one set of labels the other, and it is empty when
\* there is nothing to do: a second pass over what the first wrote writes
\* nothing (mirrorLabelActions).
THEOREM ActionsReachWanted ==
  ASSUME NEW current, NEW wanted
  PROVE  LET todo    == mirrorLabelActions(current, wanted)
             added   == {l \in wanted : <<"add", l>> \in todo}
             removed == {l \in current : <<"remove", l>> \in todo}
         IN  /\ (current \cup added) \ removed = wanted
             /\ todo = {} <=> current = wanted
             /\ \A a \in todo : a \in {"add", "remove"} \X (current \cup wanted)
<1> DEFINE todo    == mirrorLabelActions(current, wanted)
           added   == {l \in wanted : <<"add", l>> \in todo}
           removed == {l \in current : <<"remove", l>> \in todo}
<1>1. \A l : <<"add", l>> \in todo <=> l \in wanted \ current BY DEF mirrorLabelActions
<1>2. \A l : <<"remove", l>> \in todo <=> l \in current \ wanted BY DEF mirrorLabelActions
<1>3. \A a \in todo : \E l : a = <<"add", l>> \/ a = <<"remove", l>> BY DEF mirrorLabelActions
<1> HIDE DEF todo
<1>4. added = wanted \ current /\ removed = current \ wanted BY <1>1, <1>2
<1>5. (current \cup added) \ removed = wanted BY <1>4
<1>6. todo = {} <=> current = wanted BY <1>1, <1>2, <1>3
<1>7. \A a \in todo : a \in {"add", "remove"} \X (current \cup wanted) BY <1>1, <1>2, <1>3
<1> QED BY <1>5, <1>6, <1>7 DEF todo

\* An issue without labels, and no pass under way.
LEMMA IssueStarts == IssueInit => IssueInv
<1>1. ReadingOK(NoReading) BY DEF ReadingOK, NoReading
<1> QED BY <1>1, IssueConstants DEF IssueInit, IssueInv

\* One pass moves and the issue keeps its shape.
LEMMA PassKeeps == ASSUME IssueInv, NEW p \in Passes, Pass(p) PROVE IssueInv'
<1> DEFINE r == passes[p]
<1>0. ReadingOK(r) BY DEF IssueInv
<1>1. ASSUME NEW q, ReadingOK(q), passes' = [passes EXCEPT ![p] = q]
      PROVE  DOMAIN passes' = Passes /\ \A s \in Passes : ReadingOK(passes'[s])
  BY <1>1 DEF IssueInv
<1>2. ReadingOK(NoReading) BY DEF ReadingOK, NoReading
<1>3. CASE listIssues(p)
  <2> DEFINE q == [r EXCEPT !.step = "listed", !.labels = issue.labels, !.mirrors = issue.mirrors,
                            !.dispatchEnabled = repo.dispatchEnabled]
  <2>1. passes' = [passes EXCEPT ![p] = q] BY <1>3 DEF listIssues, IssueInv
  <2>2. ReadingOK(q) BY <1>0 DEF ReadingOK, IssueInv
  <2> HIDE DEF q
  <2> QED BY <1>1, <1>3, <2>1, <2>2 DEF IssueInv, listIssues
<1>4. CASE loadWorkOrders(p)
  <2>1. PICK os : passes' = [passes EXCEPT ![p] = [r EXCEPT !.step = "loaded", !.orders = os]]
    BY <1>4 DEF loadWorkOrders, IssueInv
  <2> DEFINE q == [r EXCEPT !.step = "loaded", !.orders = os]
  <2>2. ReadingOK(q) BY <1>0 DEF ReadingOK
  <2>3. /\ labelFaults' \in 0..MaxLabelFaults
        /\ UNCHANGED <<issue, orders, repo, issueChanges>>
    BY <1>4, IssueConstants DEF loadWorkOrders, IssueInv
  <2> HIDE DEF q
  <2> QED BY <1>1, <2>1, <2>2, <2>3 DEF IssueInv, q
<1>5. CASE Project(p)
  <2>1. /\ labelFaults' \in 0..MaxLabelFaults
        /\ UNCHANGED <<issue, orders, repo, issueChanges>>
    BY <1>5, IssueConstants DEF Project, IssueInv
  <2>2. PICK wanted, todo :
          /\ wanted \subseteq MirrorLabels /\ todo \in {mirrorLabelActions(r.mirrors, wanted), {}}
          /\ passes' = [passes EXCEPT ![p] = [NoReading EXCEPT !.step = "acting", !.todo = todo]]
    <3> DEFINE asked == /\ Newest(r.orders) # 0 /\ r.orders[Newest(r.orders)].status = "quarantined"
                        /\ "clear-quarantine" \in r.labels
               cleared(y) == asked /\ y /\ issue.clearedBy = "human"
               wanted(y) == desiredMirrorLabels(r.labels, r.orders, cleared(y), r.dispatchEnabled)
               todo(y) == IF repo.mirrorLabelsEnabled THEN mirrorLabelActions(r.mirrors, wanted(y))
                                                      ELSE {}
    <3>1. PICK y \in BOOLEAN :
            passes' = [passes EXCEPT ![p] = [NoReading EXCEPT !.step = "acting", !.todo = todo(y)]]
      BY <1>5 DEF Project
    <3>2. wanted(y) \subseteq MirrorLabels BY WantedAreMirrors
    <3>3. todo(y) \in {mirrorLabelActions(r.mirrors, wanted(y)), {}} OBVIOUS
    <3> HIDE DEF wanted, todo
    <3> QED BY <3>1, <3>2, <3>3
  <2> DEFINE q == [NoReading EXCEPT !.step = "acting", !.todo = todo]
  <2>3. todo \subseteq {"add", "remove"} \X MirrorLabels
    BY <1>0, <2>2, ActionsReachWanted DEF ReadingOK
  <2>4. ReadingOK(q) BY <2>3 DEF ReadingOK, NoReading
  <2> HIDE DEF q
  <2> QED BY <1>1, <2>1, <2>2, <2>4 DEF IssueInv, q
<1>6. CASE EndPass(p)
  BY <1>1, <1>2, <1>6 DEF IssueInv, EndPass
<1>7. CASE \E a \in passes[p].todo : WriteLabel(p, a)
  <2>1. PICK a \in r.todo : WriteLabel(p, a) BY <1>7
  <2> DEFINE q == [r EXCEPT !.todo = r.todo \ {a}]
  <2>2. a \in {"add", "remove"} \X MirrorLabels BY <1>0 DEF ReadingOK
  <2>3. passes' = [passes EXCEPT ![p] = q] BY <2>1 DEF WriteLabel, IssueInv
  <2>4. ReadingOK(q) BY <1>0 DEF ReadingOK
  <2> HIDE DEF q
  <2>5. /\ DOMAIN issue' = DOMAIN issue /\ issue'.labels = issue.labels
        /\ issue'.clearedBy = issue.clearedBy
        /\ issue'.mirrors \subseteq issue.mirrors \cup {a[2]}
    BY <2>1 DEF WriteLabel, IssueInv
  <2>6. /\ labelFaults' \in 0..MaxLabelFaults
        /\ UNCHANGED <<orders, repo, issueChanges>>
    BY <2>1, IssueConstants DEF WriteLabel, IssueInv
  <2> QED BY <1>1, <2>2, <2>3, <2>4, <2>5, <2>6 DEF IssueInv
<1> QED BY <1>3, <1>4, <1>5, <1>6, <1>7 DEF Pass

\* What others do to the issue, its rows and the repository's switches.
LEMMA OthersChangeKeep ==
  ASSUME IssueInv,
         \/ \E L \in LabelSets, by \in {"human", "bot"} : Relabel(L, by)
         \/ \E l \in {"dispatched", "review"} : MeddleWithMirror(l)
         \/ \E os \in OrderStates : OrdersMove(os)
         \/ \E f \in DOMAIN repo : SwitchRepository(f)
  PROVE  IssueInv'
<1>0. Changing /\ UNCHANGED <<passes, labelFaults>>
  BY DEF Relabel, MeddleWithMirror, OrdersMove, SwitchRepository
<1>1. issueChanges' \in 0..MaxIssueChanges /\ UNCHANGED <<passes, labelFaults>>
  BY <1>0, IssueConstants DEF IssueInv, Changing
<1>2. orders' \in OrderStates
  BY DEF IssueInv, Relabel, MeddleWithMirror, OrdersMove, SwitchRepository
<1>3. CASE \E L \in LabelSets, by \in {"human", "bot"} : Relabel(L, by)
  <2>1. /\ DOMAIN issue' = DOMAIN issue /\ issue'.labels \in LabelSets
        /\ issue'.clearedBy \in {"nobody", "human", "bot"} /\ issue'.mirrors = issue.mirrors
    BY <1>3 DEF Relabel, IssueInv
  <2> QED BY <1>1, <1>2, <2>1 DEF IssueInv
<1>4. CASE \E l \in {"dispatched", "review"} : MeddleWithMirror(l)
  <2>1. PICK l \in {"dispatched", "review"} : MeddleWithMirror(l) BY <1>4
  <2>2. /\ DOMAIN issue' = DOMAIN issue /\ issue'.labels = issue.labels
        /\ issue'.clearedBy = issue.clearedBy /\ issue'.mirrors \subseteq issue.mirrors \cup {l}
    BY <2>1 DEF MeddleWithMirror, IssueInv
  <2> QED BY <1>1, <1>2, <2>1, <2>2 DEF IssueInv, MirrorLabels
<1>5. CASE UNCHANGED issue BY <1>1, <1>2, <1>5 DEF IssueInv
<1> QED BY <1>3, <1>4, <1>5 DEF OrdersMove, SwitchRepository

\* Every step around the issue.
LEMMA IssueStep == IssueInv /\ [IssueNext]_issueVars => IssueInv'
<1> SUFFICES ASSUME IssueInv, [IssueNext]_issueVars PROVE IssueInv' OBVIOUS
<1>1. CASE IssueNext BY <1>1, PassKeeps, OthersChangeKeep DEF IssueNext
<1>2. CASE UNCHANGED issueVars BY <1>2 DEF issueVars, IssueInv
<1> QED BY <1>1, <1>2


\* An issue keeps its types under overlapping passes, failed calls and meddling:
\* a pass has only mirror labels to write (MirrorLabelExecutor).
THEOREM IssuesAreTyped == IssueSpec => []IssuesOK
<1>1. IssueInv => IssuesOK BY DEF IssueInv, ReadingOK, IssuesOK
<1> QED BY <1>1, IssueStarts, IssueStep, PTL DEF IssueSpec

-----------------------------------------------------------------------------
(* One pass, undisturbed: the safety half of MirrorsConverge.  What a pass    *)
(* read is still so when it writes, and what it has yet to write is at every  *)
(* step the difference between the labels there are and the labels wanted.    *)

\* Any labels, rows and switch of the dispatcher; the repository has opted in, no
\* pass is under way, and no further call fails.
UndisturbedInit ==
  /\ IssueInv /\ passes = [q \in Passes |-> NoReading]
  /\ repo.mirrorLabelsEnabled /\ labelFaults = MaxLabelFaults

UndisturbedSpec(p) == UndisturbedInit /\ [][Pass(p)]_issueVars

WantedNow == desiredMirrorLabels(issue.labels, orders, HumanCleared, repo.dispatchEnabled)

\* A pass that has written what it had to leaves exactly the labels the projection
\* wants (projectIntent, actionsForIssue, mirrorLabelActions, MirrorLabelExecutor).
PassIsExact(p) ==
  passes[p].step = "acting" /\ passes[p].todo = {} => issue.mirrors = WantedNow

\* Of a pass that writes: the labels there are, with what is still to be written.
Owed(mirrors, todo, wanted) ==
  \A l : /\ l \in wanted <=> \/ <<"add", l>> \in todo
                             \/ l \in mirrors /\ <<"remove", l>> \notin todo
         /\ ~(<<"add", l>> \in todo /\ <<"remove", l>> \in todo)

UndisturbedInv(p) ==
  /\ IssueInv /\ repo.mirrorLabelsEnabled /\ labelFaults = MaxLabelFaults
  /\ passes[p].step \in {"listed", "loaded"} =>
       /\ passes[p].labels = issue.labels /\ passes[p].mirrors = issue.mirrors
       /\ passes[p].dispatchEnabled = repo.dispatchEnabled
  /\ passes[p].step = "loaded" => passes[p].orders = orders
  /\ passes[p].step = "acting" => Owed(issue.mirrors, passes[p].todo, WantedNow)

\* The label clear-quarantine matters for a quarantined work order only, so asking who
\* applied it only then decides the same (resolveHumanQuarantineClears).
LEMMA ClearedWhenAsked ==
  ASSUME NEW L, NEW os, NEW human, NEW enabled
  PROVE  LET quarantined == Newest(os) # 0 /\ os[Newest(os)].status = "quarantined"
             asked       == quarantined /\ "clear-quarantine" \in L
         IN  desiredMirrorLabels(L, os, asked /\ human, enabled)
               = desiredMirrorLabels(L, os, "clear-quarantine" \in L /\ human, enabled)
<1> DEFINE n == Newest(os)
           quarantined == n # 0 /\ os[n].status = "quarantined"
           asked == quarantined /\ "clear-quarantine" \in L
<1>1. projectIntent(L, os, asked /\ human, enabled)
        = projectIntent(L, os, "clear-quarantine" \in L /\ human, enabled)
  <2>1. CASE quarantined BY <2>1
  <2>2. CASE ~quarantined
    <3> HIDE DEF n
    <3> QED BY <2>2 DEF projectIntent, n
  <2> QED BY <2>1, <2>2
<1> QED BY <1>1 DEF desiredMirrorLabels

\* The diff owes exactly the difference.
LEMMA DiffIsOwed ==
  ASSUME NEW mirrors, NEW wanted
  PROVE  Owed(mirrors, mirrorLabelActions(mirrors, wanted), wanted)
BY DEF Owed, mirrorLabelActions

\* A write pays what it was owed for.
LEMMA WritePays ==
  ASSUME NEW mirrors, NEW todo, NEW wanted, Owed(mirrors, todo, wanted), NEW l,
         NEW a \in todo, a = <<"add", l>> \/ a = <<"remove", l>>
  PROVE  Owed(IF a[1] = "add" THEN mirrors \cup {l} ELSE mirrors \ {l}, todo \ {a}, wanted)
<1>1. CASE a = <<"add", l>> BY <1>1 DEF Owed
<1>2. CASE a = <<"remove", l>> BY <1>2 DEF Owed
<1> QED BY <1>1, <1>2

\* Every step of the pass.
LEMMA UndisturbedStep ==
  ASSUME NEW p \in Passes, UndisturbedInv(p), [Pass(p)]_issueVars PROVE UndisturbedInv(p)'
<1> DEFINE r == passes[p]
<1>1. IssueInv'
  <2>1. CASE Pass(p) BY <2>1, PassKeeps DEF UndisturbedInv
  <2>2. CASE UNCHANGED issueVars BY <2>2 DEF UndisturbedInv, issueVars, IssueInv
  <2> QED BY <2>1, <2>2
<1>2. DOMAIN passes = Passes /\ ReadingOK(r) /\ MaxLabelFaults \in Nat
  BY IssueConstants DEF UndisturbedInv, IssueInv
<1>3. CASE UNCHANGED issueVars
  BY <1>3 DEF issueVars, UndisturbedInv, IssueInv, WantedNow, HumanCleared
<1>4. CASE listIssues(p)
  <2>1. /\ passes'[p].step = "listed" /\ passes'[p].labels = issue.labels
        /\ passes'[p].mirrors = issue.mirrors /\ passes'[p].dispatchEnabled = repo.dispatchEnabled
    BY <1>2, <1>4 DEF listIssues, ReadingOK
  <2> QED BY <1>1, <1>4, <2>1 DEF listIssues, UndisturbedInv
<1>5. CASE loadWorkOrders(p)
  <2>1. passes' = [passes EXCEPT ![p].step = "loaded", ![p].orders = orders] /\ UNCHANGED labelFaults
    BY <1>2, <1>5 DEF loadWorkOrders, UndisturbedInv
  <2>2. /\ passes'[p].step = "loaded" /\ passes'[p].labels = r.labels /\ passes'[p].orders = orders
        /\ passes'[p].mirrors = r.mirrors /\ passes'[p].dispatchEnabled = r.dispatchEnabled
    BY <1>2, <2>1 DEF ReadingOK
  <2> QED BY <1>1, <1>5, <2>1, <2>2 DEF loadWorkOrders, UndisturbedInv
<1>6. CASE Project(p)
  <2> DEFINE quarantined == Newest(r.orders) # 0 /\ r.orders[Newest(r.orders)].status = "quarantined"
             asked   == quarantined /\ "clear-quarantine" \in r.labels
             human   == issue.clearedBy = "human"
             wanted  == desiredMirrorLabels(r.labels, r.orders, asked /\ TRUE /\ human, r.dispatchEnabled)
             todo    == mirrorLabelActions(r.mirrors, wanted)
  <2>1. /\ r.labels = issue.labels /\ r.mirrors = issue.mirrors /\ r.orders = orders
        /\ r.dispatchEnabled = repo.dispatchEnabled
    BY <1>6 DEF Project, UndisturbedInv
  <2>2. /\ passes' = [passes EXCEPT ![p] = [NoReading EXCEPT !.step = "acting", !.todo = todo]]
        /\ UNCHANGED labelFaults
    <3>1. ~(labelFaults < MaxLabelFaults) BY <1>2 DEF UndisturbedInv
    <3> QED BY <1>6, <3>1 DEF Project, UndisturbedInv
  <2>3. wanted = WantedNow
    <3>1. desiredMirrorLabels(r.labels, r.orders, asked /\ human, r.dispatchEnabled)
            = desiredMirrorLabels(r.labels, r.orders, "clear-quarantine" \in r.labels /\ human,
                                  r.dispatchEnabled)
      BY ClearedWhenAsked
    <3>2. (asked /\ TRUE /\ human) = (asked /\ human) OBVIOUS
    <3> HIDE DEF asked, human
    <3> QED BY <2>1, <3>1, <3>2 DEF WantedNow, HumanCleared, human
  <2>4. Owed(issue.mirrors, todo, WantedNow) BY <2>1, <2>3, DiffIsOwed
  <2> HIDE DEF todo
  <2>5. passes'[p].step = "acting" /\ passes'[p].todo = todo BY <1>2, <2>2 DEF NoReading
  <2>6. UNCHANGED <<issue, orders, repo>> BY <1>6 DEF Project
  <2>7. WantedNow' = WantedNow BY <2>6 DEF WantedNow, HumanCleared
  <2> QED BY <1>1, <2>2, <2>4, <2>5, <2>6, <2>7 DEF UndisturbedInv
<1>7. CASE EndPass(p)
  <2>1. passes'[p].step = "idle" BY <1>2, <1>7 DEF EndPass, NoReading
  <2> QED BY <1>1, <1>7, <2>1 DEF EndPass, UndisturbedInv
<1>8. CASE \E a \in r.todo : WriteLabel(p, a)
  <2>1. PICK a \in r.todo : WriteLabel(p, a) BY <1>8
  <2>2. PICK l : a = <<"add", l>> \/ a = <<"remove", l>> BY <1>2 DEF ReadingOK
  <2>3. r.step = "acting" BY <2>1 DEF WriteLabel
  <2>4. passes'[p].step = "acting" /\ passes'[p].todo = r.todo \ {a}
    BY <1>2, <2>1, <2>3 DEF WriteLabel, ReadingOK
  <2>5. /\ issue' = [issue EXCEPT !.mirrors = IF a[1] = "add" THEN @ \cup {a[2]} ELSE @ \ {a[2]}]
        /\ UNCHANGED <<labelFaults, orders, repo>>
    BY <1>2, <2>1 DEF WriteLabel, UndisturbedInv
  <2>6. /\ issue'.labels = issue.labels /\ issue'.clearedBy = issue.clearedBy
        /\ issue'.mirrors = IF a[1] = "add" THEN issue.mirrors \cup {l} ELSE issue.mirrors \ {l}
    BY <2>2, <2>5 DEF UndisturbedInv, IssueInv
  <2>7. WantedNow' = WantedNow BY <2>5, <2>6 DEF WantedNow, HumanCleared
  <2>8. Owed(issue.mirrors, r.todo, WantedNow) BY <2>3 DEF UndisturbedInv
  <2>9. Owed(issue'.mirrors, r.todo \ {a}, WantedNow)
    <3> PICK m, t, w : m = issue.mirrors /\ t = r.todo /\ w = WantedNow OBVIOUS
    <3>1. Owed(IF a[1] = "add" THEN m \cup {l} ELSE m \ {l}, t \ {a}, w)
      BY <2>1, <2>2, <2>8, WritePays
    <3> QED BY <2>6, <3>1
  <2> QED BY <1>1, <2>4, <2>5, <2>7, <2>9 DEF UndisturbedInv
<1> QED BY <1>3, <1>4, <1>5, <1>6, <1>7, <1>8 DEF Pass

\* A pass that nobody disturbs leaves exactly the labels the projection wants, from
\* whatever mirror labels were there before, stale or meddled with, and so does every
\* later pass: for any labels and any work orders of the issue.
THEOREM UndisturbedPassIsExact ==
  ASSUME NEW p \in Passes PROVE UndisturbedSpec(p) => []PassIsExact(p)
<1>1. UndisturbedInit => UndisturbedInv(p)
  <2>1. NoReading.step = "idle" BY DEF NoReading
  <2> QED BY <2>1 DEF UndisturbedInit, UndisturbedInv
<1>2. UndisturbedInv(p) /\ [Pass(p)]_issueVars => UndisturbedInv(p)' BY UndisturbedStep
<1>3. UndisturbedInv(p) => PassIsExact(p)
  BY DEF UndisturbedInv, PassIsExact, Owed
<1> QED BY <1>1, <1>2, <1>3, PTL DEF UndisturbedSpec

=============================================================================
