----------------------------- MODULE QueueProofs -----------------------------
(***************************************************************************)
(* Proofs about WorkOrderQueue.  A pass owns the Run row it created from   *)
(* run.create to the end of its dispatch; passes overlap, so what the      *)
(* proofs need is that no two of them own the same row and that the row a  *)
(* refused pass deletes is the one nobody else relies on.                  *)
(*                                                                         *)
(* For that the order of the queue plays no part: the batch a pass drains  *)
(* may be any sequence of anything.  Two sections follow: how many runs    *)
(* the overlapping passes may give one work order, and what holds while    *)
(* passes do not overlap, where what a pass has read stays true until it   *)
(* acts on it.                                                             *)
(***************************************************************************)
EXTENDS WorkOrderQueue, SequenceTheorems, FiniteSetTheorems, TLAPS

\* A pass has created a Run row it has not finished with.
Owning == {"records", "submit", "provision", "mark", "refused", "recover"}
\* The row may still be deleted: the runner has not accepted the run.
Deletable == {"records", "submit", "refused"}

Owns(t) == pc[t] \in Owning /\ cur[t] \in Issues
May(t)  == pc[t] \in Deletable /\ cur[t] \in Issues

Shape ==
  /\ wo \in [Issues -> Statuses]
  /\ run \in [Issues -> [RunNumbers -> {"none", "live", "ended"}]]
  /\ agents \in [Issues -> SUBSET RunNumbers]
  /\ pc \in [Passes -> PCs]
  /\ cur = [t \in Passes |-> cur[t]]
  /\ num \in [Passes -> RunNumbers \cup {0}]

\* The row a pass owns is there,
OwnedRows == \A t \in Passes : Owns(t) => num[t] \in RunNumbers /\ run[cur[t]][num[t]] # "none"
\* is owned by that pass alone,
OneOwner == \A t, u \in Passes : Owns(t) /\ Owns(u) /\ cur[t] = cur[u] /\ num[t] = num[u] => t = u
\* and has no child while it may be deleted.
NoChildYet == \A t \in Passes : May(t) => num[t] \notin agents[cur[t]]

\* A row no pass may delete.
Stays(i, k) ==
  /\ run[i][k] # "none"
  /\ \A t \in Passes : May(t) => ~(cur[t] = i /\ num[t] = k)

DispatchedRuns == \A i \in Issues : wo[i] = "dispatched" => \E k \in RunNumbers : Stays(i, k)

QueueInv ==
  Shape /\ OwnedRows /\ OneOwner /\ NoChildYet /\ AgentHasRun /\ DispatchedRuns

\* A write of one Run row, by id.
LEMMA RunWritten ==
  ASSUME Shape, NEW i, NEW k, NEW v \in {"none", "live", "ended"},
         run' = [run EXCEPT ![i][k] = v]
  PROVE  /\ run' \in [Issues -> [RunNumbers -> {"none", "live", "ended"}]]
         /\ \A x \in Issues, y \in RunNumbers :
              run'[x][y] = IF x = i /\ y = k THEN v ELSE run[x][y]
BY DEF Shape

\* A pass gives its row up, or has none; of the rows only that one may go,
\* and only if the pass might delete it.
LEMMA PassLetsGo ==
  ASSUME QueueInv, Shape', NEW t \in Passes, NEW to, to \notin Owning,
         pc' = [pc EXCEPT ![t] = to],
         \A u \in Passes : u # t => cur'[u] = cur[u] /\ num'[u] = num[u],
         \A i \in Issues, k \in RunNumbers : run[i][k] # "none" =>
            run'[i][k] # "none" \/ (May(t) /\ cur[t] = i /\ num[t] = k),
         \A i \in Issues : agents'[i] \subseteq agents[i]
  PROVE  /\ OwnedRows' /\ OneOwner' /\ NoChildYet' /\ AgentHasRun'
         /\ \A i \in Issues, k \in RunNumbers : Stays(i, k) => Stays(i, k)'
<1>1. /\ pc'[t] = to /\ \A u \in Passes : u # t => pc'[u] = pc[u]
  BY DEF QueueInv, Shape
<1>2. Deletable \subseteq Owning BY DEF Deletable, Owning
<1>3. \A u \in Passes : Owns(u)' => u # t /\ Owns(u) BY <1>1 DEF Owns
<1>4. \A u \in Passes : May(u)' => u # t /\ May(u) /\ Owns(u) BY <1>1, <1>2 DEF May, Owns
<1>5. \A u \in Passes : May(u) => Owns(u) BY <1>2 DEF May, Owns
<1>6. OwnedRows'
  <2> SUFFICES ASSUME NEW u \in Passes, Owns(u)'
               PROVE  num'[u] \in RunNumbers /\ run'[cur'[u]][num'[u]] # "none"
    BY DEF OwnedRows
  <2>1. u # t /\ Owns(u) /\ cur'[u] = cur[u] /\ num'[u] = num[u] /\ cur[u] \in Issues
    BY <1>3 DEF Owns
  <2>2. num[u] \in RunNumbers /\ run[cur[u]][num[u]] # "none" BY <2>1 DEF QueueInv, OwnedRows
  <2>3. ~(May(t) /\ cur[t] = cur[u] /\ num[t] = num[u])
    BY <1>5, <2>1 DEF QueueInv, OneOwner
  <2> QED BY <2>1, <2>2, <2>3
<1>7. OneOwner' BY <1>3 DEF QueueInv, OneOwner
<1>8. NoChildYet'
  <2> SUFFICES ASSUME NEW u \in Passes, May(u)' PROVE num'[u] \notin agents'[cur'[u]]
    BY DEF NoChildYet
  <2>1. u # t /\ May(u) /\ cur'[u] = cur[u] /\ num'[u] = num[u] /\ cur[u] \in Issues
    BY <1>4 DEF May
  <2> QED BY <2>1 DEF QueueInv, NoChildYet
<1>9. AgentHasRun'
  <2> SUFFICES ASSUME NEW i \in Issues, NEW k \in agents'[i] PROVE run'[i][k] # "none"
    BY DEF AgentHasRun
  <2>1. k \in agents[i] /\ k \in RunNumbers BY DEF QueueInv, Shape
  <2>2. run[i][k] # "none" BY <2>1 DEF QueueInv, AgentHasRun
  <2>3. ~(May(t) /\ cur[t] = i /\ num[t] = k) BY <2>1 DEF QueueInv, NoChildYet
  <2> QED BY <2>1, <2>2, <2>3
<1>10. ASSUME NEW i \in Issues, NEW k \in RunNumbers, Stays(i, k) PROVE Stays(i, k)'
  <2>1. run'[i][k] # "none" BY <1>10 DEF Stays
  <2>2. \A u \in Passes : May(u)' => ~(cur'[u] = i /\ num'[u] = k) BY <1>4, <1>10 DEF Stays
  <2> QED BY <2>1, <2>2 DEF Stays
<1> QED BY <1>6, <1>7, <1>8, <1>9, <1>10

\* A pass goes on with the row it owns.
LEMMA PassGoesOn ==
  ASSUME QueueInv, Shape', NEW t \in Passes, pc[t] \in Owning, NEW to \in Owning,
         to \in Deletable => pc[t] \in Deletable,
         pc' = [pc EXCEPT ![t] = to], UNCHANGED <<run, cur, num>>,
         \A i \in Issues : agents'[i] \subseteq
            agents[i] \cup (IF cur[t] = i /\ to \notin Deletable THEN {num[t]} ELSE {})
  PROVE  /\ OwnedRows' /\ OneOwner' /\ NoChildYet' /\ AgentHasRun'
         /\ \A i \in Issues, k \in RunNumbers : Stays(i, k) => Stays(i, k)'
<1>1. /\ pc'[t] = to /\ \A u \in Passes : u # t => pc'[u] = pc[u]
  BY DEF QueueInv, Shape
<1>2. Deletable \subseteq Owning BY DEF Deletable, Owning
<1>3. \A u \in Passes : Owns(u)' => Owns(u) BY <1>1 DEF Owns
<1>4. \A u \in Passes : May(u)' => May(u) BY <1>1 DEF May
<1>5. OwnedRows' BY <1>3 DEF QueueInv, OwnedRows
<1>6. OneOwner' BY <1>3 DEF QueueInv, OneOwner
<1>7. NoChildYet'
  <2> SUFFICES ASSUME NEW u \in Passes, May(u)' PROVE num[u] \notin agents'[cur[u]]
    BY DEF NoChildYet
  <2>1. May(u) /\ Owns(u) /\ cur[u] \in Issues /\ num[u] \notin agents[cur[u]]
    BY <1>2, <1>4 DEF QueueInv, NoChildYet, May, Owns
  <2>2. CASE u = t BY <1>1, <2>1, <2>2 DEF May
  <2>3. CASE u # t
    <3>1. ~(cur[t] = cur[u] /\ num[t] = num[u])
      BY <2>1, <2>3 DEF QueueInv, OneOwner, Owns
    <3> QED BY <2>1, <3>1
  <2> QED BY <2>2, <2>3
<1>8. AgentHasRun'
  <2> SUFFICES ASSUME NEW i \in Issues, NEW k \in agents'[i] PROVE run[i][k] # "none"
    BY DEF AgentHasRun
  <2>1. CASE k \in agents[i] BY <2>1 DEF QueueInv, AgentHasRun
  <2>2. CASE cur[t] = i /\ k = num[t] BY <2>2 DEF QueueInv, OwnedRows, Owns
  <2> QED BY <2>1, <2>2
<1>9. \A i \in Issues, k \in RunNumbers : Stays(i, k) => Stays(i, k)' BY <1>4 DEF Stays
<1> QED BY <1>5, <1>6, <1>7, <1>8, <1>9

\* run.create: the pass owns a row that was not there.
LEMMA PassCreates ==
  ASSUME QueueInv, Shape', NEW t \in Passes, pc[t] = "create", NEW k \in RunNumbers,
         run[cur[t]][k] = "none", run' = [run EXCEPT ![cur[t]][k] = "live"],
         num' = [num EXCEPT ![t] = k], pc' = [pc EXCEPT ![t] = "records"],
         UNCHANGED <<agents, cur>>
  PROVE  /\ OwnedRows' /\ OneOwner' /\ NoChildYet' /\ AgentHasRun'
         /\ \A i \in Issues, n \in RunNumbers : Stays(i, n) => Stays(i, n)'
<1>1. /\ pc'[t] = "records" /\ num'[t] = k
      /\ \A u \in Passes : u # t => pc'[u] = pc[u] /\ num'[u] = num[u]
  BY DEF QueueInv, Shape
<1>2. \A x \in Issues, y \in RunNumbers :
        run'[x][y] = IF x = cur[t] /\ y = k THEN "live" ELSE run[x][y]
  BY RunWritten DEF QueueInv
<1>3. \A u \in Passes : u # t => (Owns(u)' <=> Owns(u)) /\ (May(u)' <=> May(u))
  BY <1>1 DEF Owns, May
<1>4. Deletable \subseteq Owning BY DEF Deletable, Owning
<1>5. \A u \in Passes : u # t /\ Owns(u) => ~(cur[u] = cur[t] /\ num[u] = k)
  BY DEF QueueInv, OwnedRows
<1>6. OwnedRows'
  <2> SUFFICES ASSUME NEW u \in Passes, Owns(u)'
               PROVE  num'[u] \in RunNumbers /\ run'[cur[u]][num'[u]] # "none"
    BY DEF OwnedRows
  <2>1. CASE u = t BY <1>1, <1>2, <2>1 DEF Owns
  <2>2. CASE u # t BY <1>1, <1>2, <1>3, <2>2 DEF QueueInv, OwnedRows, Owns
  <2> QED BY <2>1, <2>2
<1>7. OneOwner'
  <2> SUFFICES ASSUME NEW u \in Passes, NEW v \in Passes, Owns(u)', Owns(v)',
                      cur[u] = cur[v], num'[u] = num'[v]
               PROVE  u = v
    BY DEF OneOwner
  <2>1. CASE u # t /\ v # t BY <1>1, <1>3, <2>1 DEF QueueInv, OneOwner
  <2>2. CASE u = t /\ v # t BY <1>1, <1>3, <1>5, <2>2
  <2>3. CASE u # t /\ v = t BY <1>1, <1>3, <1>5, <2>3
  <2> QED BY <2>1, <2>2, <2>3
<1>8. NoChildYet'
  <2> SUFFICES ASSUME NEW u \in Passes, May(u)' PROVE num'[u] \notin agents[cur[u]]
    BY DEF NoChildYet
  <2>1. CASE u = t BY <1>1, <2>1 DEF QueueInv, AgentHasRun, May
  <2>2. CASE u # t BY <1>1, <1>3, <2>2 DEF QueueInv, NoChildYet
  <2> QED BY <2>1, <2>2
<1>9. AgentHasRun' BY <1>2 DEF QueueInv, AgentHasRun, Shape
<1>10. ASSUME NEW i \in Issues, NEW n \in RunNumbers, Stays(i, n) PROVE Stays(i, n)'
  <2>1. run[i][n] # "none" BY <1>10 DEF Stays
  <2>2. run'[i][n] # "none" /\ ~(i = cur[t] /\ n = k) BY <1>2, <2>1
  <2>3. \A u \in Passes : May(u)' => ~(cur[u] = i /\ num'[u] = n)
    BY <1>1, <1>3, <1>10, <2>2 DEF Stays
  <2> QED BY <2>2, <2>3 DEF Stays
<1> QED BY <1>6, <1>7, <1>8, <1>9, <1>10

\* A step of no pass, or of one that only changes its lists.
LEMMA PassesStand ==
  ASSUME QueueInv, UNCHANGED <<pc, cur, num>>,
         \A i \in Issues, k \in RunNumbers : run[i][k] # "none" => run'[i][k] # "none",
         \A i \in Issues : agents'[i] \subseteq agents[i]
  PROVE  /\ OwnedRows' /\ OneOwner' /\ NoChildYet' /\ AgentHasRun'
         /\ \A i \in Issues, k \in RunNumbers : Stays(i, k) => Stays(i, k)'
<1>1. \A u \in Passes : (Owns(u)' <=> Owns(u)) /\ (May(u)' <=> May(u)) BY DEF Owns, May
<1>2. OwnedRows' BY <1>1 DEF QueueInv, OwnedRows, Owns
<1>3. OneOwner' BY <1>1 DEF QueueInv, OneOwner
<1>4. NoChildYet' BY <1>1 DEF QueueInv, NoChildYet, May
<1>5. AgentHasRun' BY DEF QueueInv, AgentHasRun, Shape
<1>6. \A i \in Issues, k \in RunNumbers : Stays(i, k) => Stays(i, k)' BY <1>1 DEF Stays
<1> QED BY <1>2, <1>3, <1>4, <1>5, <1>6

\* A write of one work order's status.
LEMMA StatusWritten ==
  ASSUME Shape, NEW i, NEW s \in Statuses, SetStatus(i, s)
  PROVE  /\ wo' \in [Issues -> Statuses]
         /\ \A j \in Issues : wo'[j] = IF j = i THEN s ELSE wo[j]
BY DEF Shape, SetStatus

\* What remains of the invariant once the rows that stay are known.
LEMMA InvFromRows ==
  ASSUME QueueInv, Shape', OwnedRows', OneOwner', NoChildYet', AgentHasRun',
         \A i \in Issues, k \in RunNumbers : Stays(i, k) => Stays(i, k)',
         \A i \in Issues : wo'[i] = "dispatched" =>
            wo[i] = "dispatched" \/ \E k \in RunNumbers : Stays(i, k)
  PROVE  QueueInv'
<1>1. DispatchedRuns' BY DEF QueueInv, DispatchedRuns
<1> QED BY <1>1 DEF QueueInv

\* The steps in which a pass only moves between places where it owns nothing.
LEMMA PlainMove ==
  ASSUME QueueInv, NEW t \in Passes, NEW to \in PCs, to \notin Owning,
         Goes(t, to), UNCHANGED <<wo, run, agents, num>>,
         \E c : cur' = [cur EXCEPT ![t] = c]
  PROVE  QueueInv'
<1>1. Shape' BY DEF QueueInv, Shape, Goes
<1>2. \A u \in Passes : u # t => cur'[u] = cur[u] /\ num'[u] = num[u] BY DEF QueueInv, Shape
<1>3. \A i \in Issues : agents'[i] \subseteq agents[i] OBVIOUS
<1>4. \A i \in Issues, k \in RunNumbers : run[i][k] # "none" => run'[i][k] # "none" OBVIOUS
<1>5. /\ OwnedRows' /\ OneOwner' /\ NoChildYet' /\ AgentHasRun'
      /\ \A i \in Issues, k \in RunNumbers : Stays(i, k) => Stays(i, k)'
  BY <1>1, <1>2, <1>3, <1>4, PassLetsGo DEF Goes
<1> QED BY <1>1, <1>5, InvFromRows

\* The steps in which no pass moves.
LEMMA NobodyMoves ==
  ASSUME QueueInv, UNCHANGED <<pc, cur, num>>,
         run' \in [Issues -> [RunNumbers -> {"none", "live", "ended"}]],
         wo' \in [Issues -> Statuses],
         agents' \in [Issues -> SUBSET RunNumbers],
         \A i \in Issues, k \in RunNumbers : run[i][k] # "none" => run'[i][k] # "none",
         \A i \in Issues : agents'[i] \subseteq agents[i],
         \A i \in Issues : wo'[i] = "dispatched" => wo[i] = "dispatched"
  PROVE  QueueInv'
<1>1. Shape' BY DEF QueueInv, Shape
<1>2. /\ OwnedRows' /\ OneOwner' /\ NoChildYet' /\ AgentHasRun'
      /\ \A i \in Issues, k \in RunNumbers : Stays(i, k) => Stays(i, k)'
  BY PassesStand
<1> QED BY <1>1, <1>2, InvFromRows

\* Observing, loading and the ends of the two loops.
LEMMA ObservingKeeps ==
  ASSUME QueueInv, NEW t \in Passes,
         \/ Observe(t) \/ SkipObserve(t) \/ LoadWorkOrders(t) \/ EndProjection(t)
         \/ Drain(t) \/ EndPass(t)
  PROVE  QueueInv'
<1>1. \E to \in {"load", "drain", "project", "next", "idle"} : Goes(t, to)
  BY DEF Observe, SkipObserve, LoadWorkOrders, EndProjection, Drain, EndPass
<1>2. {"load", "drain", "project", "next", "idle"} \subseteq PCs \ Owning BY DEF PCs, Owning
<1>3. UNCHANGED <<wo, run, agents, num, cur>>
  BY DEF Observe, SkipObserve, LoadWorkOrders, EndProjection, Drain, EndPass, rowVars, runner
<1>4. cur' = [cur EXCEPT ![t] = cur[t]] BY <1>3 DEF QueueInv, Shape
<1> QED BY <1>1, <1>2, <1>3, <1>4, PlainMove

\* A failing call under the lease.
LEMMA ObserveFaultKeeps ==
  ASSUME QueueInv, NEW t \in Passes, ObserveFault(t)
  PROVE  QueueInv'
<1>1. UNCHANGED <<wo, run, agents, num, cur>> BY DEF ObserveFault, rowVars, runner
<1>2. CASE UNCHANGED pc
  BY <1>1, <1>2, NobodyMoves DEF QueueInv, Shape
<1>3. CASE Goes(t, "drain")
  <2>1. "drain" \in PCs /\ "drain" \notin Owning BY DEF PCs, Owning
  <2>2. cur' = [cur EXCEPT ![t] = cur[t]] BY <1>1 DEF QueueInv, Shape
  <2> QED BY <1>1, <1>3, <2>1, <2>2, PlainMove
<1> QED BY <1>2, <1>3 DEF ObserveFault

\* projectOne moves work orders between `held` and `queued` only.
LEMMA ProjectKeeps ==
  ASSUME QueueInv, NEW t \in Passes, NEW i \in Issues, ProjectOne(t, i)
  PROVE  QueueInv'
<1>1. UNCHANGED <<pc, cur, num, run, agents>> BY DEF ProjectOne, runner
<1>2. /\ wo' \in [Issues -> Statuses]
      /\ \A j \in Issues : wo'[j] = "dispatched" => wo[j] = "dispatched"
  <2>1. CASE UNCHANGED wo BY <2>1 DEF QueueInv, Shape
  <2>2. CASE \E s \in {"held", "queued"} : SetStatus(i, s)
    <3>1. PICK s \in {"held", "queued"} : SetStatus(i, s) BY <2>2
    <3>2. s \in Statuses BY DEF Statuses
    <3> QED BY <3>1, <3>2, StatusWritten DEF QueueInv
  <2> QED BY <2>1, <2>2 DEF ProjectOne
<1> QED BY <1>1, <1>2, NobodyMoves DEF QueueInv, Shape

\* dispatchOne, before a Run row exists.
LEMMA DispatchOneKeeps ==
  ASSUME QueueInv, NEW t \in Passes, DispatchOne(t)
  PROVE  QueueInv'
<1>1. UNCHANGED <<run, agents, num>> BY DEF DispatchOne, runner
<1>2. PICK i : PassedOver(t) \/ Quarantine(t, i) \/ Admitted(t, i) \/ StaysQueued(t, i)
  BY DEF DispatchOne
<1>3. CASE Admitted(t, i)
  <2>1. "create" \in PCs /\ "create" \notin Owning BY DEF PCs, Owning
  <2> QED BY <1>1, <1>3, <2>1, PlainMove DEF Admitted
<1>4. CASE PassedOver(t) \/ StaysQueued(t, i)
  BY <1>1, <1>4, NobodyMoves DEF PassedOver, StaysQueued, QueueInv, Shape
<1>5. CASE Quarantine(t, i)
  <2>1. "quarantined" \in Statuses BY DEF Statuses
  <2>2. /\ wo' \in [Issues -> Statuses]
        /\ \A j \in Issues : wo'[j] = IF j = i THEN "quarantined" ELSE wo[j]
    BY <1>5, <2>1, StatusWritten DEF Quarantine, QueueInv
  <2> QED BY <1>1, <1>5, <2>2, NobodyMoves DEF Quarantine, QueueInv, Shape
<1> QED BY <1>2, <1>3, <1>4, <1>5

\* run.create.
LEMMA CreateKeeps ==
  ASSUME QueueInv, NEW t \in Passes, CreateRun(t)
  PROVE  QueueInv'
<1>1. PICK k \in RunNumbers :
        /\ run[cur[t]][k] = "none"
        /\ run' = [run EXCEPT ![cur[t]][k] = "live"]
        /\ num' = [num EXCEPT ![t] = k]
  BY DEF CreateRun
<1>2. pc[t] = "create" /\ pc' = [pc EXCEPT ![t] = "records"] /\ UNCHANGED <<wo, agents, cur>>
  BY DEF CreateRun, Goes, runner
<1>3. run' \in [Issues -> [RunNumbers -> {"none", "live", "ended"}]]
  BY <1>1, RunWritten DEF QueueInv
<1>4. Shape' BY <1>1, <1>2, <1>3 DEF QueueInv, Shape, PCs
<1>5. /\ OwnedRows' /\ OneOwner' /\ NoChildYet' /\ AgentHasRun'
      /\ \A i \in Issues, n \in RunNumbers : Stays(i, n) => Stays(i, n)'
  BY <1>1, <1>2, <1>4, PassCreates
<1> QED BY <1>2, <1>4, <1>5, InvFromRows

\* The steps that take an owned row further: the records, the runner, its child.
LEMMA OwnerKeeps ==
  ASSUME QueueInv, NEW t \in Passes, NEW to \in Owning, pc[t] \in Owning,
         to \in Deletable => pc[t] \in Deletable, Goes(t, to),
         UNCHANGED <<wo, run, cur, num>>,
         agents' \in [Issues -> SUBSET RunNumbers],
         \A i \in Issues : agents'[i] \subseteq
            agents[i] \cup (IF cur[t] = i /\ to \notin Deletable THEN {num[t]} ELSE {})
  PROVE  QueueInv'
<1>1. Shape' BY DEF QueueInv, Shape, Goes, Owning, PCs
<1>2. /\ OwnedRows' /\ OneOwner' /\ NoChildYet' /\ AgentHasRun'
      /\ \A i \in Issues, n \in RunNumbers : Stays(i, n) => Stays(i, n)'
  BY <1>1, PassGoesOn DEF Goes
<1> QED BY <1>1, <1>2, InvFromRows

\* writeRecords.
LEMMA RecordsKeep ==
  ASSUME QueueInv, NEW t \in Passes, WriteRecords(t)
  PROVE  QueueInv'
<1>1. pc[t] = "records" /\ Goes(t, "submit") /\ UNCHANGED <<wo, run, cur, num, agents>>
  BY DEF WriteRecords, rowVars, runner
<1>2. {"records", "submit"} \subseteq Deletable /\ {"records", "submit"} \subseteq Owning
  BY DEF Deletable, Owning
<1>3. agents' \in [Issues -> SUBSET RunNumbers] BY <1>1 DEF QueueInv, Shape
<1> QED BY <1>1, <1>2, <1>3, OwnerKeeps

\* submit up to its await.
LEMMA SubmitKeeps ==
  ASSUME QueueInv, NEW t \in Passes, Submit(t)
  PROVE  QueueInv'
<1>1. pc[t] = "submit" /\ UNCHANGED <<wo, run, cur, num, agents>> BY DEF Submit, rowVars
<1>2. PICK to \in {"mark", "refused", "provision"} : Goes(t, to) BY DEF Submit
<1>3. "submit" \in Deletable /\ {"submit", "mark", "refused", "provision"} \subseteq Owning
  BY DEF Deletable, Owning
<1>4. agents' \in [Issues -> SUBSET RunNumbers] BY <1>1 DEF QueueInv, Shape
<1> QED BY <1>1, <1>2, <1>3, <1>4, OwnerKeeps

\* submit after its await: the child of the owned row starts.
LEMMA ProvisionKeeps ==
  ASSUME QueueInv, NEW t \in Passes, Provision(t)
  PROVE  QueueInv'
<1>1. pc[t] = "provision" /\ Goes(t, "mark") /\ UNCHANGED <<wo, run, cur, num>>
  BY DEF Provision, rowVars
<1>2. /\ "mark" \notin Deletable /\ {"provision", "mark"} \subseteq Owning
  BY DEF Deletable, Owning
<1>3. agents' = [agents EXCEPT ![cur[t]] = agents[cur[t]] \cup {num[t]}] BY DEF Provision
<1>4. cur[t] \in Issues => num[t] \in RunNumbers
  BY <1>1, <1>2 DEF QueueInv, OwnedRows, Owns
<1>5. agents' \in [Issues -> SUBSET RunNumbers] BY <1>3, <1>4 DEF QueueInv, Shape
<1>6. \A i \in Issues : agents'[i] \subseteq agents[i] \cup (IF cur[t] = i THEN {num[t]} ELSE {})
  BY <1>3 DEF QueueInv, Shape
<1> QED BY <1>1, <1>2, <1>5, <1>6, OwnerKeeps

\* The work order is marked: the row its pass owns is the run it has.
LEMMA MarkKeeps ==
  ASSUME QueueInv, NEW t \in Passes, MarkDispatched(t)
  PROVE  QueueInv'
<1>1. /\ pc[t] = "mark" /\ SetStatus(cur[t], "dispatched") /\ RowDone(t)
      /\ UNCHANGED <<run, agents>>
  BY DEF MarkDispatched, runner
<1>2. "dispatched" \in Statuses BY DEF Statuses
<1>3. /\ wo' \in [Issues -> Statuses]
      /\ \A j \in Issues : wo'[j] = IF j = cur[t] THEN "dispatched" ELSE wo[j]
  BY <1>1, <1>2, StatusWritten DEF QueueInv
<1>4. Shape' BY <1>1, <1>3 DEF QueueInv, Shape, RowDone, Goes, PCs
<1>5. \A u \in Passes : u # t => cur'[u] = cur[u] /\ num'[u] = num[u]
  BY <1>1 DEF QueueInv, Shape, RowDone
<1>6. \A i \in Issues : agents'[i] \subseteq agents[i] BY <1>1
<1>7. "next" \notin Owning BY DEF Owning
<1>8. /\ OwnedRows' /\ OneOwner' /\ NoChildYet' /\ AgentHasRun'
      /\ \A i \in Issues, k \in RunNumbers : Stays(i, k) => Stays(i, k)'
  BY <1>1, <1>4, <1>5, <1>6, <1>7, PassLetsGo DEF RowDone, Goes
<1>9. cur[t] \in Issues => num[t] \in RunNumbers /\ Stays(cur[t], num[t])
  <2> SUFFICES ASSUME cur[t] \in Issues PROVE num[t] \in RunNumbers /\ Stays(cur[t], num[t])
    OBVIOUS
  <2>1. Owns(t) /\ ~May(t) BY <1>1 DEF Owns, May, Owning, Deletable
  <2>2. num[t] \in RunNumbers /\ run[cur[t]][num[t]] # "none" BY <2>1 DEF QueueInv, OwnedRows
  <2>3. \A u \in Passes : May(u) => Owns(u) BY DEF May, Owns, Owning, Deletable
  <2>4. \A u \in Passes : May(u) => ~(cur[u] = cur[t] /\ num[u] = num[t])
    BY <2>1, <2>3 DEF QueueInv, OneOwner
  <2> QED BY <2>2, <2>4 DEF Stays
<1>10. \A i \in Issues : wo'[i] = "dispatched" =>
         wo[i] = "dispatched" \/ \E k \in RunNumbers : Stays(i, k)
  BY <1>3, <1>9
<1> QED BY <1>4, <1>8, <1>10, InvFromRows

\* A pass is done with its row, which it may have deleted if it might.
LEMMA DoneKeeps ==
  ASSUME QueueInv, NEW t \in Passes, RowDone(t), UNCHANGED <<wo, agents>>,
         run' \in [Issues -> [RunNumbers -> {"none", "live", "ended"}]],
         \A i \in Issues, k \in RunNumbers : run[i][k] # "none" =>
            run'[i][k] # "none" \/ (May(t) /\ cur[t] = i /\ num[t] = k)
  PROVE  QueueInv'
<1>1. Shape' BY DEF QueueInv, Shape, RowDone, Goes, PCs
<1>2. \A u \in Passes : u # t => cur'[u] = cur[u] /\ num'[u] = num[u]
  BY DEF QueueInv, Shape, RowDone
<1>3. \A i \in Issues : agents'[i] \subseteq agents[i] OBVIOUS
<1>4. "next" \notin Owning BY DEF Owning
<1>5. /\ OwnedRows' /\ OneOwner' /\ NoChildYet' /\ AgentHasRun'
      /\ \A i \in Issues, k \in RunNumbers : Stays(i, k) => Stays(i, k)'
  BY <1>1, <1>2, <1>3, <1>4, PassLetsGo DEF RowDone, Goes
<1> QED BY <1>1, <1>5, InvFromRows

\* recover.
LEMMA RecoverKeeps ==
  ASSUME QueueInv, NEW t \in Passes, Recover(t)
  PROVE  QueueInv'
<1>1. RowDone(t) /\ UNCHANGED <<wo, agents>> BY DEF Recover, runner
<1>2. CASE UNCHANGED run BY <1>1, <1>2, DoneKeeps DEF QueueInv, Shape
<1>3. CASE run' = [run EXCEPT ![cur[t]][num[t]] = "ended"]
  <2>1. /\ run' \in [Issues -> [RunNumbers -> {"none", "live", "ended"}]]
        /\ \A x \in Issues, y \in RunNumbers :
             run'[x][y] = IF x = cur[t] /\ y = num[t] THEN "ended" ELSE run[x][y]
    BY <1>3 DEF QueueInv, Shape
  <2> QED BY <1>1, <2>1, DoneKeeps
<1>4. CASE pc[t] = "refused" /\ run' = [run EXCEPT ![cur[t]][num[t]] = "none"]
  <2>1. /\ run' \in [Issues -> [RunNumbers -> {"none", "live", "ended"}]]
        /\ \A x \in Issues, y \in RunNumbers :
             run'[x][y] = IF x = cur[t] /\ y = num[t] THEN "none" ELSE run[x][y]
    BY <1>4 DEF QueueInv, Shape
  <2>2. cur[t] \in Issues => May(t) BY <1>4 DEF May, Deletable
  <2> QED BY <1>1, <2>1, <2>2, DoneKeeps
<1> QED BY <1>2, <1>3, <1>4 DEF Recover

\* A failing call of the drain.
LEMMA DispatchFaultKeeps ==
  ASSUME QueueInv, NEW t \in Passes, DispatchFault(t)
  PROVE  QueueInv'
<1>1. UNCHANGED <<wo, run, agents>> BY DEF DispatchFault, rowVars, runner
<1>2. CASE UNCHANGED <<pc, cur, num>> BY <1>1, <1>2, NobodyMoves DEF QueueInv, Shape
<1>3. CASE RowDone(t) BY <1>1, <1>3, DoneKeeps DEF QueueInv, Shape
<1>4. CASE pc[t] \in {"records", "provision", "mark"} /\ Goes(t, "recover") /\ UNCHANGED <<cur, num>>
  <2>1. /\ "recover" \notin Deletable /\ "recover" \in Owning
        /\ {"records", "provision", "mark"} \subseteq Owning
    BY DEF Deletable, Owning
  <2>2. agents' \in [Issues -> SUBSET RunNumbers] BY <1>1 DEF QueueInv, Shape
  <2> QED BY <1>1, <1>4, <2>1, <2>2, OwnerKeeps
<1> QED BY <1>2, <1>3, <1>4 DEF DispatchFault

\* The children and the poller.
LEMMA ChildrenKeep ==
  ASSUME QueueInv, NEW i \in Issues, NEW k \in RunNumbers, AgentEnds(i, k) \/ PollRun(i, k)
  PROVE  QueueInv'
<1>1. UNCHANGED <<wo, pc, cur, num>>
  BY DEF AgentEnds, PollRun, PollEnded, PollUnknown, rowVars, passVars
<1>2. /\ agents' \in [Issues -> SUBSET RunNumbers]
      /\ \A j \in Issues : agents'[j] \subseteq agents[j]
  BY DEF AgentEnds, PollRun, PollEnded, PollUnknown, QueueInv, Shape
<1>3. CASE UNCHANGED run BY <1>1, <1>2, <1>3, NobodyMoves DEF QueueInv, Shape
<1>4. CASE PollEnded(i, k)
  <2>1. \/ UNCHANGED run \/ run' = [run EXCEPT ![i][k] = "ended"]
    <3>1. \/ run' = [run EXCEPT ![i][k] = "ended"] \/ run' = [run EXCEPT ![i][k] = run[i][k]]
      BY <1>4 DEF PollEnded
    <3>2. [run EXCEPT ![i][k] = run[i][k]] = run BY DEF QueueInv, Shape
    <3> QED BY <3>1, <3>2
  <2>2. CASE run' = [run EXCEPT ![i][k] = "ended"]
    <3>1. /\ run' \in [Issues -> [RunNumbers -> {"none", "live", "ended"}]]
          /\ \A x \in Issues, y \in RunNumbers :
               run'[x][y] = IF x = i /\ y = k THEN "ended" ELSE run[x][y]
      BY <2>2 DEF QueueInv, Shape
    <3> QED BY <1>1, <1>2, <3>1, NobodyMoves DEF QueueInv, Shape
  <2> QED BY <1>3, <2>1, <2>2
<1> QED BY <1>3, <1>4 DEF AgentEnds, PollRun, PollUnknown, rowVars

\* Every step keeps the invariant.
LEMMA QueueStep ==
  ASSUME QueueInv, [Next]_vars
  PROVE  QueueInv'
<1>1. CASE UNCHANGED <<wo, run, agents, pc, cur, num>>
  BY <1>1, NobodyMoves DEF QueueInv, Shape
<1>2. ASSUME NEW t \in Passes, PassWorks(t) PROVE QueueInv'
  BY <1>2, ObservingKeeps, ProjectKeeps, DispatchOneKeeps, CreateKeeps, RecordsKeep, SubmitKeeps,
     ProvisionKeeps, MarkKeeps, RecoverKeeps DEF PassWorks
<1>3. CASE (\E i \in Issues, l \in Labels : EditLabel(i, l)) \/ SwitchDispatch \/ GatesChange
  BY <1>1, <1>3 DEF EditLabel, SwitchDispatch, GatesChange, rowVars, runner, passVars
<1>4. CASE UNCHANGED vars
  BY <1>1, <1>4 DEF vars, rowVars, runner, passVars
<1> QED
  BY <1>2, <1>3, <1>4, ObserveFaultKeeps, DispatchFaultKeeps, ChildrenKeep DEF Next

\* No pass has begun and no row is there.
LEMMA QueueBegins ==
  ASSUME Init PROVE QueueInv
<1>1. Shape BY QueueConstants DEF Init, Shape, Nothing, Statuses, PCs
<1>2. \A t \in Passes : ~Owns(t) /\ ~May(t) BY DEF Init, Owns, May, Owning, Deletable
<1>3. AgentHasRun BY DEF Init, AgentHasRun, Nothing
<1>4. DispatchedRuns BY DEF Init, DispatchedRuns, Nothing
<1> QED BY <1>1, <1>2, <1>3, <1>4 DEF QueueInv, OwnedRows, OneOwner, NoChildYet

\* The invariant of the queue, for any number of passes in flight.
LEMMA QueueSafe == Spec => []QueueInv
<1>1. Init => QueueInv BY QueueBegins
<1>2. QueueInv /\ [Next]_vars => QueueInv' BY QueueStep
<1> QED BY <1>1, <1>2, PTL DEF Spec

\* A work order that says `dispatched` has a run: markDispatched comes after
\* the runner has accepted the run, and a pass whose run is refused deletes a
\* row that neither another pass nor a dispatched work order relies on.
THEOREM DispatchedRunsExist == Spec => []DispatchedHasRun
<1>1. QueueInv => DispatchedHasRun BY DEF QueueInv, DispatchedRuns, Stays, DispatchedHasRun
<1> QED BY <1>1, QueueSafe, PTL

\* A child that is alive has a Run row: the row is deleted only on a refusal,
\* before the runner has started anything for it.
THEOREM AgentsHaveRuns == Spec => []AgentHasRun
<1>1. QueueInv => AgentHasRun BY DEF QueueInv
<1> QED BY <1>1, QueueSafe, PTL

-----------------------------------------------------------------------------
(* The queue itself: what leaves it, what joins it, what a batch is *)

\* The one place a row has in the queue is the place RemoveFirst finds.
LEMMA PlaceFound ==
  ASSUME NEW S, NEW s \in Seq(S), IsInjective(s), NEW p \in 1..Len(s)
  PROVE  RemoveFirst(s, s[p]) = SubSeq(s, 1, p - 1) \o SubSeq(s, p + 1, Len(s))
<1> DEFINE I == {n \in 1..Len(s) : s[n] = s[p]}
<1>1. DOMAIN s = 1..Len(s) OBVIOUS
<1>2. I = {p} BY <1>1 DEF IsInjective
<1>3. Min({p}) = p
  <2>1. \A x \in {p} : \A y \in {p} : x =< y OBVIOUS
  <2> QED BY <2>1 DEF Min
<1>4. SelectInSeq(s, LAMBDA v : v = s[p]) = Min(I) BY <1>2 DEF SelectInSeq
<1>5. \E n \in 1..Len(s) : s[n] = s[p] OBVIOUS
<1> QED BY <1>2, <1>3, <1>4, <1>5 DEF RemoveFirst, RemoveAt

\* A row leaves the queue: the others keep their order and stay distinct.
LEMMA RowLeaves ==
  ASSUME NEW S, NEW s \in Seq(S), IsInjective(s), NEW e
  PROVE  /\ RemoveFirst(s, e) \in Seq(S) /\ IsInjective(RemoveFirst(s, e))
         /\ Range(RemoveFirst(s, e)) = Range(s) \ {e}
<1>1. DOMAIN s = 1..Len(s) /\ Len(s) \in Nat OBVIOUS
<1>2. CASE ~\E n \in 1..Len(s) : s[n] = e
  <2>1. RemoveFirst(s, e) = s BY <1>2 DEF RemoveFirst
  <2> QED BY <1>1, <1>2, <2>1 DEF Range
<1>3. CASE \E n \in 1..Len(s) : s[n] = e
  <2>1. PICK p \in 1..Len(s) : s[p] = e BY <1>3
  <2> DEFINE a == SubSeq(s, 1, p - 1)
             b == SubSeq(s, p + 1, Len(s))
             r == a \o b
  <2>2. RemoveFirst(s, e) = r BY <2>1, PlaceFound
  <2>3. /\ a \in Seq(S) /\ Len(a) = p - 1 /\ \A n \in 1..(p - 1) : a[n] = s[n]
    <3>1. \A n \in 1..(p - 1) : s[n] \in S BY <1>1
    <3>2. p - 1 \in Int /\ 1 \in Int BY <1>1
    <3>3. /\ a \in Seq(S) /\ Len(a) = IF 1 <= p - 1 THEN p - 1 - 1 + 1 ELSE 0
          /\ \A n \in 1..(p - 1 - 1 + 1) : a[n] = s[1 + n - 1]
      BY <3>1, <3>2, SubSeqProperties
    <3> QED BY <3>3, <1>1
  <2>4. /\ b \in Seq(S) /\ Len(b) = Len(s) - p /\ \A n \in 1..(Len(s) - p) : b[n] = s[p + n]
    <3>1. \A n \in (p + 1)..Len(s) : s[n] \in S BY <1>1
    <3>2. p + 1 \in Int /\ Len(s) \in Int BY <1>1
    <3>3. /\ b \in Seq(S) /\ Len(b) = IF p + 1 <= Len(s) THEN Len(s) - (p + 1) + 1 ELSE 0
          /\ \A n \in 1..(Len(s) - (p + 1) + 1) : b[n] = s[p + 1 + n - 1]
      BY <3>1, <3>2, SubSeqProperties
    <3> HIDE DEF b
    <3>4. PICK L \in Nat : L = Len(s) BY <1>1
    <3>5. p \in 1..L /\ L - (p + 1) + 1 = L - p BY <3>4
    <3>6. Len(b) = L - p BY <3>3, <3>4, <3>5
    <3>7. \A n \in 1..(L - p) : p + 1 + n - 1 = p + n BY <3>5
    <3>8. \A n \in 1..(L - p) : b[n] = s[p + n] BY <3>3, <3>4, <3>5, <3>7
    <3> QED BY <3>3, <3>4, <3>6, <3>8
  <2> HIDE DEF a, b
  <2>5. /\ r \in Seq(S) /\ Len(r) = Len(a) + Len(b)
        /\ \A n \in 1..(Len(a) + Len(b)) : r[n] = IF n <= Len(a) THEN a[n] ELSE b[n - Len(a)]
    BY <2>3, <2>4, ConcatProperties
  <2> HIDE DEF r
  <2>6. /\ Len(r) = Len(s) - 1 /\ DOMAIN r = 1..(Len(s) - 1)
        /\ \A n \in 1..(Len(s) - 1) : r[n] = IF n < p THEN s[n] ELSE s[n + 1]
    <3>1. PICK L \in Nat : L = Len(s) BY <1>1
    <3>2. p \in 1..L /\ (p - 1) + (L - p) = L - 1 BY <3>1
    <3>3. Len(r) = L - 1 /\ DOMAIN r = 1..(L - 1) BY <2>3, <2>4, <2>5, <3>1, <3>2
    <3>4. \A n \in 1..(L - 1) : r[n] = IF n <= p - 1 THEN a[n] ELSE b[n - (p - 1)]
      BY <2>3, <2>4, <2>5, <3>1, <3>2
    <3>5. ASSUME NEW n \in 1..(L - 1) PROVE r[n] = IF n < p THEN s[n] ELSE s[n + 1]
      <4>1. CASE n < p
        <5>1. n <= p - 1 /\ n \in 1..(p - 1) BY <3>2, <4>1
        <5> QED BY <2>3, <3>4, <4>1, <5>1
      <4>2. CASE ~(n < p)
        <5>1. /\ ~(n <= p - 1) /\ n - (p - 1) \in 1..(L - p) /\ p + (n - (p - 1)) = n + 1
          BY <3>2, <4>2
        <5>2. b[n - (p - 1)] = s[p + (n - (p - 1))] BY <2>4, <3>1, <5>1
        <5> QED BY <3>4, <4>2, <5>1, <5>2
      <4> QED BY <4>1, <4>2
    <3> QED BY <3>1, <3>3, <3>5
  <2>7. IsInjective(r)
    <3> SUFFICES ASSUME NEW x \in 1..(Len(s) - 1), NEW y \in 1..(Len(s) - 1), r[x] = r[y]
                 PROVE  x = y
      BY <2>6 DEF IsInjective
    <3>1. \A n \in 1..(Len(s) - 1) : n \in 1..Len(s) /\ n + 1 \in 1..Len(s) BY <1>1
    <3>2. \A m, n \in 1..Len(s) : s[m] = s[n] => m = n BY <1>1 DEF IsInjective
    <3> QED BY <1>1, <2>6, <3>1, <3>2
  <2>8. Range(r) \subseteq Range(s) \ {e}
    <3> SUFFICES ASSUME NEW x \in 1..(Len(s) - 1) PROVE r[x] \in Range(s) /\ r[x] # e
      BY <2>6 DEF Range
    <3>1. x \in 1..Len(s) /\ x + 1 \in 1..Len(s) BY <1>1
    <3>2. PICK y \in 1..Len(s) : r[x] = s[y] /\ y # p BY <1>1, <2>6, <3>1
    <3>3. s[y] # s[p] BY <1>1, <3>2 DEF IsInjective
    <3> QED BY <1>1, <2>1, <3>2, <3>3 DEF Range
  <2>9. Range(s) \ {e} \subseteq Range(r)
    <3> SUFFICES ASSUME NEW y \in 1..Len(s), s[y] # e PROVE \E x \in 1..(Len(s) - 1) : r[x] = s[y]
      <4> DEFINE L == Len(s)
      <4>1. DOMAIN r = 1..(L - 1) /\ DOMAIN s = 1..L BY <1>1, <2>6
      <4> HIDE DEF L
      <4> SUFFICES ASSUME NEW y \in 1..L, s[y] # e PROVE \E x \in 1..(L - 1) : r[x] = s[y]
        BY <4>1 DEF Range
      <4> QED BY DEF L
    <3>1. y # p BY <2>1
    <3>2. CASE y < p
      <4>1. y \in 1..(Len(s) - 1) BY <1>1, <3>2
      <4> QED BY <2>6, <3>2, <4>1
    <3>3. CASE y > p
      <4>1. y - 1 \in 1..(Len(s) - 1) /\ ~(y - 1 < p) /\ (y - 1) + 1 = y BY <1>1, <3>3
      <4>2. r[y - 1] = s[(y - 1) + 1] BY <2>6, <4>1
      <4> QED BY <4>1, <4>2
    <3> QED BY <1>1, <3>1, <3>2, <3>3
  <2> QED BY <2>2, <2>5, <2>7, <2>8, <2>9
<1> QED BY <1>2, <1>3

\* A row joins the queue at its end.
LEMMA RowJoins ==
  ASSUME NEW S, NEW s \in Seq(S), IsInjective(s), NEW e \in S, e \notin Range(s)
  PROVE  /\ Append(s, e) \in Seq(S) /\ IsInjective(Append(s, e))
         /\ Range(Append(s, e)) = Range(s) \cup {e}
<1>1. DOMAIN s = 1..Len(s) /\ Len(s) \in Nat OBVIOUS
<1> DEFINE r == Append(s, e)
<1>2. /\ r \in Seq(S) /\ DOMAIN r = 1..(Len(s) + 1)
      /\ \A n \in 1..Len(s) : r[n] = s[n]
      /\ r[Len(s) + 1] = e
  OBVIOUS
<1> HIDE DEF r
<1>3. \A n \in 1..(Len(s) + 1) : n \in 1..Len(s) \/ n = Len(s) + 1 BY <1>1
<1>4. 1..Len(s) \subseteq 1..(Len(s) + 1) /\ Len(s) + 1 \in 1..(Len(s) + 1) BY <1>1
<1>5. \A n \in 1..Len(s) : s[n] # e BY <1>1 DEF Range
<1>6. IsInjective(r) BY <1>1, <1>2, <1>3, <1>5 DEF IsInjective
<1>7. Range(r) = Range(s) \cup {e} BY <1>1, <1>2, <1>3, <1>4 DEF Range
<1> QED BY <1>2, <1>6, <1>7 DEF r

\* The head of the queue, as `take` reads it.
LEMMA BatchIsPrefix ==
  ASSUME NEW S, NEW s \in Seq(S), IsInjective(s), NEW b \in Nat
  PROVE  LET q == SubSeq(s, 1, Min({b, Len(s)}))
         IN  q \in Seq(S) /\ IsInjective(q) /\ Range(q) \subseteq Range(s)
<1>1. DOMAIN s = 1..Len(s) /\ Len(s) \in Nat OBVIOUS
<1> DEFINE m == Min({b, Len(s)})
           q == SubSeq(s, 1, m)
<1>2. m \in {b, Len(s)} /\ \A y \in {b, Len(s)} : m =< y
  <2>1. \E x \in {b, Len(s)} : \A y \in {b, Len(s)} : x =< y
    <3>1. CASE b =< Len(s) BY <1>1, <3>1
    <3>2. CASE Len(s) =< b BY <1>1, <3>2
    <3> QED BY <1>1, <3>1, <3>2
  <2> QED BY <2>1 DEF Min
<1> HIDE DEF m
<1>3. m \in Int /\ m \in Nat /\ m =< Len(s)
  <2>1. PICK L \in Nat : L = Len(s) BY <1>1
  <2>2. m \in {b, L} /\ m =< L BY <1>2, <2>1
  <2> QED BY <2>1, <2>2
<1>4. \A n \in 1..m : n \in 1..Len(s) BY <1>1, <1>3
<1>5. \A n \in 1..m : s[n] \in S BY <1>1, <1>4
<1>6. /\ q \in Seq(S) /\ Len(q) = IF 1 <= m THEN m - 1 + 1 ELSE 0
      /\ \A n \in 1..(m - 1 + 1) : q[n] = s[1 + n - 1]
  BY <1>3, <1>5, SubSeqProperties
<1> HIDE DEF q
<1>7. DOMAIN q = 1..m /\ \A n \in 1..m : q[n] = s[n] BY <1>3, <1>6
<1>8. IsInjective(q) BY <1>1, <1>4, <1>7 DEF IsInjective
<1>9. Range(q) \subseteq Range(s) BY <1>1, <1>4, <1>7 DEF Range
<1> QED BY <1>6, <1>8, <1>9 DEF q, m

\* The drain takes the first row of its batch off it.
LEMMA BatchShrinks ==
  ASSUME NEW S, NEW s \in Seq(S), s # <<>>
  PROVE  /\ Head(s) \in S /\ Head(s) \in Range(s)
         /\ Tail(s) \in Seq(S) /\ Range(Tail(s)) \subseteq Range(s)
         /\ IsInjective(s) => IsInjective(Tail(s)) /\ Head(s) \notin Range(Tail(s))
<1>1. DOMAIN s = 1..Len(s) /\ Len(s) \in Nat \ {0} /\ Head(s) = s[1] BY EmptySeq
<1> DEFINE r == Tail(s)
<1>2. /\ Head(s) \in S /\ r \in Seq(S) /\ Len(r) = Len(s) - 1
      /\ \A n \in 1..Len(r) : r[n] = s[n + 1]
  BY HeadTailProperties
<1> HIDE DEF r
<1>3. DOMAIN r = 1..(Len(s) - 1) /\ \A n \in 1..(Len(s) - 1) : r[n] = s[n + 1] BY <1>2
<1>4. \A n \in 1..(Len(s) - 1) : n + 1 \in 1..Len(s) /\ n + 1 # 1 BY <1>1
<1>5. 1 \in 1..Len(s) BY <1>1
<1>6. Head(s) \in Range(s) BY <1>1, <1>5 DEF Range
<1>7. Range(r) \subseteq Range(s) BY <1>1, <1>3, <1>4 DEF Range
<1>8. ASSUME IsInjective(s) PROVE IsInjective(r) /\ Head(s) \notin Range(r)
  <2>1. \A m, n \in 1..Len(s) : s[m] = s[n] => m = n BY <1>1, <1>8 DEF IsInjective
  <2>2. IsInjective(r) BY <1>3, <1>4, <2>1 DEF IsInjective
  <2>3. \A n \in 1..(Len(s) - 1) : r[n] # s[1] BY <1>3, <1>4, <1>5, <2>1
  <2> QED BY <1>1, <1>3, <2>2, <2>3 DEF Range
<1> QED BY <1>2, <1>6, <1>7, <1>8 DEF r

-----------------------------------------------------------------------------
(* Types, and that the queue is the queued work orders, each once *)

WorldOK ==
  /\ labels \in [Issues -> SUBSET Labels] /\ enabled \in BOOLEAN
  /\ refused \in SUBSET Issues
  /\ lease \in Passes \cup {NoPass}
  /\ edits \in 0..MaxEdits /\ faults \in 0..MaxFaults
QueueOK ==
  /\ queue \in Seq(Issues) /\ IsInjective(queue)
  /\ Range(queue) = {i \in Issues : wo[i] = "queued"}
RunnerOK ==
  /\ entry \in [Issues -> RunNumbers \cup {0}]
  /\ handle \in [Issues -> [RunNumbers -> RunNumbers \cup {0}]]
  /\ report \in [Issues -> SUBSET RunNumbers]
ListsOK ==
  /\ seen \in [Passes -> [Issues -> SUBSET Labels]]
  /\ rows \in [Passes -> [Issues -> Statuses]]
  /\ todo \in [Passes -> SUBSET Issues]
  /\ batch \in [Passes -> Seq(Issues)] /\ allowed \in [Passes -> BOOLEAN]
CurOK == cur \in [Passes -> Issues \cup {NoIssue}]

TypedInv == QueueInv /\ WorldOK /\ QueueOK /\ RunnerOK /\ ListsOK /\ CurOK

\* A write of a status leaves the queue the queued work orders, each once.
LEMMA SetStatusQueues ==
  ASSUME Shape, QueueOK, NEW i, NEW s \in Statuses, s = "queued" => i \in Issues, SetStatus(i, s)
  PROVE  QueueOK'
<1>1. \A j \in Issues : wo'[j] = IF j = i THEN s ELSE wo[j] BY StatusWritten
<1> DEFINE r == RemoveFirst(queue, i)
<1>2. r \in Seq(Issues) /\ IsInjective(r) /\ Range(r) = Range(queue) \ {i}
  BY RowLeaves DEF QueueOK
<1> HIDE DEF r
<1>3. queue' = IF s = "queued" THEN Append(r, i) ELSE r BY DEF SetStatus, r
<1>4. CASE s # "queued"
  <2>1. queue' = r BY <1>3, <1>4
  <2>2. Range(r) = {j \in Issues : wo'[j] = "queued"} BY <1>1, <1>2, <1>4 DEF QueueOK
  <2> QED BY <1>2, <2>1, <2>2 DEF QueueOK
<1>5. CASE s = "queued"
  <2> DEFINE q == Append(r, i)
  <2>1. q \in Seq(Issues) /\ IsInjective(q) /\ Range(q) = Range(r) \cup {i}
    BY <1>2, <1>5, RowJoins
  <2> HIDE DEF q
  <2>2. Range(q) = {j \in Issues : wo'[j] = "queued"} BY <1>1, <1>2, <1>5, <2>1 DEF QueueOK
  <2>3. queue' = q BY <1>3, <1>5 DEF q
  <2> QED BY <2>1, <2>2, <2>3 DEF QueueOK
<1> QED BY <1>4, <1>5

\* What a pass or a human does to the labels, the lease and the counters.
LEMMA WorldTyped ==
  ASSUME TypedInv, [Next]_vars
  PROVE  WorldOK'
<1> USE DEF WorldOK
<1>0. WorldOK BY DEF TypedInv
<1>1. CASE UNCHANGED <<world, lease, faults>> BY <1>0, <1>1 DEF world
<1>2. ASSUME NEW t \in Passes,
             \/ Observe(t) \/ LoadWorkOrders(t) \/ EndProjection(t) PROVE WorldOK'
  <2>1. UNCHANGED <<world, faults>> /\ lease' \in {t, NoPass, lease}
    BY <1>2 DEF Observe, LoadWorkOrders, EndProjection
  <2> QED BY <1>0, <2>1 DEF world
<1>3. ASSUME NEW t \in Passes, ObserveFault(t) \/ DispatchFault(t) PROVE WorldOK'
  <2>1. UNCHANGED world /\ lease' \in {NoPass, lease} /\ faults < MaxFaults /\ faults' = faults + 1
    BY <1>3 DEF ObserveFault, DispatchFault, Fault
  <2>2. faults' \in 0..MaxFaults BY <1>0, <2>1, QueueConstants
  <2> QED BY <1>0, <2>1, <2>2 DEF world
<1>4. ASSUME NEW t \in Passes, PassWorks(t) PROVE WorldOK'
  <2>1. CASE \E i \in Issues : ProjectOne(t, i) BY <1>1, <2>1 DEF ProjectOne
  <2>2. CASE \/ SkipObserve(t) \/ Drain(t) \/ DispatchOne(t) \/ EndPass(t) \/ CreateRun(t)
             \/ WriteRecords(t) \/ Submit(t) \/ Provision(t) \/ MarkDispatched(t) \/ Recover(t)
    <3>1. UNCHANGED <<world, lease, faults>>
      BY <2>2 DEF SkipObserve, Drain, DispatchOne, EndPass, CreateRun, WriteRecords, Submit,
         Provision, MarkDispatched, Recover
    <3> QED BY <1>1, <3>1
  <2> QED BY <1>2, <1>4, <2>1, <2>2 DEF PassWorks
<1>5. ASSUME NEW i \in Issues, NEW l \in Labels, EditLabel(i, l) PROVE WorldOK'
  <2>1. /\ UNCHANGED <<enabled, refused, lease, faults>> /\ edits < MaxEdits /\ edits' = edits + 1
        /\ labels' \in [Issues -> SUBSET Labels]
    BY <1>0, <1>5 DEF EditLabel, Edit
  <2>2. edits' \in 0..MaxEdits BY <1>0, <2>1, QueueConstants
  <2> QED BY <1>0, <2>1, <2>2
<1>6. CASE SwitchDispatch \/ GatesChange
  <2>1. /\ UNCHANGED <<labels, lease, faults>> /\ edits < MaxEdits /\ edits' = edits + 1
    BY <1>6 DEF SwitchDispatch, GatesChange, Edit
  <2>2. enabled' \in BOOLEAN /\ refused' \in SUBSET Issues
    BY <1>0, <1>6 DEF SwitchDispatch, GatesChange
  <2>3. edits' \in 0..MaxEdits BY <1>0, <2>1, QueueConstants
  <2> QED BY <1>0, <2>1, <2>2, <2>3
<1>7. ASSUME NEW i \in Issues, NEW k \in RunNumbers, AgentEnds(i, k) \/ PollRun(i, k)
      PROVE  WorldOK'
  BY <1>1, <1>7 DEF AgentEnds, PollRun, PollEnded, PollUnknown
<1>8. CASE UNCHANGED vars BY <1>1, <1>8 DEF vars
<1> QED BY <1>3, <1>4, <1>5, <1>6, <1>7, <1>8 DEF Next

\* The queue follows the statuses.
LEMMA QueueTyped ==
  ASSUME TypedInv, [Next]_vars
  PROVE  QueueOK'
<1>0. Shape /\ QueueOK BY DEF TypedInv, QueueInv
<1>1. CASE UNCHANGED <<wo, queue>> BY <1>0, <1>1 DEF QueueOK
<1>2. ASSUME NEW t \in Passes, NEW i \in Issues, ProjectOne(t, i) PROVE QueueOK'
  <2>1. CASE \E s \in {"held", "queued"} : SetStatus(i, s)
    <3>1. PICK s \in {"held", "queued"} : SetStatus(i, s) BY <2>1
    <3>2. s \in Statuses BY DEF Statuses
    <3> QED BY <1>0, <3>1, <3>2, SetStatusQueues
  <2> QED BY <1>1, <1>2, <2>1 DEF ProjectOne
<1>3. ASSUME NEW t \in Passes, DispatchOne(t) PROVE QueueOK'
  <2>1. PICK i : PassedOver(t) \/ Quarantine(t, i) \/ Admitted(t, i) \/ StaysQueued(t, i)
    BY <1>3 DEF DispatchOne
  <2>2. CASE Quarantine(t, i)
    <3>1. "quarantined" \in Statuses /\ SetStatus(i, "quarantined")
      BY <2>2 DEF Quarantine, Statuses
    <3> QED BY <1>0, <3>1, SetStatusQueues
  <2> QED BY <1>1, <2>1, <2>2 DEF PassedOver, Admitted, StaysQueued
<1>4. ASSUME NEW t \in Passes, MarkDispatched(t) PROVE QueueOK'
  <2>1. "dispatched" \in Statuses /\ SetStatus(cur[t], "dispatched")
    BY <1>4 DEF MarkDispatched, Statuses
  <2> QED BY <1>0, <2>1, SetStatusQueues
<1>5. ASSUME NEW t \in Passes, PassWorks(t) PROVE QueueOK'
  <2>1. CASE \/ Observe(t) \/ LoadWorkOrders(t) \/ EndProjection(t) \/ SkipObserve(t) \/ Drain(t)
             \/ EndPass(t) \/ CreateRun(t) \/ WriteRecords(t) \/ Submit(t) \/ Provision(t)
             \/ Recover(t)
    <3>1. UNCHANGED <<wo, queue>>
      BY <2>1 DEF Observe, LoadWorkOrders, EndProjection, SkipObserve, Drain, EndPass, CreateRun,
         WriteRecords, Submit, Provision, Recover, rowVars
    <3> QED BY <1>1, <3>1
  <2> QED BY <1>2, <1>3, <1>4, <1>5, <2>1 DEF PassWorks
<1>6. ASSUME NEW t \in Passes, ObserveFault(t) \/ DispatchFault(t) PROVE QueueOK'
  BY <1>1, <1>6 DEF ObserveFault, DispatchFault, rowVars
<1>7. ASSUME NEW i \in Issues, NEW k \in RunNumbers, AgentEnds(i, k) \/ PollRun(i, k)
      PROVE  QueueOK'
  BY <1>1, <1>7 DEF AgentEnds, PollRun, PollEnded, PollUnknown, rowVars
<1>8. CASE (\E i \in Issues, l \in Labels : EditLabel(i, l)) \/ SwitchDispatch \/ GatesChange
  BY <1>1, <1>8 DEF EditLabel, SwitchDispatch, GatesChange, rowVars
<1>9. CASE UNCHANGED vars BY <1>1, <1>9 DEF vars, rowVars
<1> QED BY <1>5, <1>6, <1>7, <1>8, <1>9 DEF Next

\* A write of the poller's map.
LEMMA HandleWritten ==
  ASSUME RunnerOK, NEW i, NEW k, NEW h, i \in Issues => h \in RunNumbers \cup {0},
         handle' = [handle EXCEPT ![i][k] = h]
  PROVE  handle' \in [Issues -> [RunNumbers -> RunNumbers \cup {0}]]
<1>1. CASE i \in Issues BY <1>1 DEF RunnerOK
<1>2. CASE i \notin Issues BY <1>2 DEF RunnerOK
<1> QED BY <1>1, <1>2

\* The runner's map, the poller's and the reports.
LEMMA RunnerTyped ==
  ASSUME TypedInv, [Next]_vars
  PROVE  RunnerOK'
<1>0. RunnerOK BY DEF TypedInv
<1>1. CASE UNCHANGED <<entry, handle, report>> BY <1>0, <1>1 DEF RunnerOK
<1>2. ASSUME NEW t \in Passes, Submit(t) PROVE RunnerOK'
  <2>1. PICK kept :
          /\ kept = entry[cur[t]] \/ kept = 0
          /\ entry' = [entry EXCEPT ![cur[t]] = kept]
          /\ \/ handle' = [handle EXCEPT ![cur[t]][num[t]] = kept] \/ UNCHANGED handle
    BY <1>2 DEF Submit
  <2>2. cur[t] \in Issues => kept \in RunNumbers \cup {0} BY <1>0, <2>1 DEF RunnerOK
  <2>3. entry' \in [Issues -> RunNumbers \cup {0}] BY <1>0, <2>1, <2>2 DEF RunnerOK
  <2>4. handle' \in [Issues -> [RunNumbers -> RunNumbers \cup {0}]]
    <3>1. CASE handle' = [handle EXCEPT ![cur[t]][num[t]] = kept]
      BY <1>0, <2>2, <3>1, HandleWritten
    <3> QED BY <1>0, <2>1, <3>1 DEF RunnerOK
  <2>5. UNCHANGED report BY <1>2 DEF Submit
  <2> QED BY <1>0, <2>3, <2>4, <2>5 DEF RunnerOK
<1>3. ASSUME NEW t \in Passes, Provision(t) PROVE RunnerOK'
  <2>1. num[t] \in RunNumbers \cup {0} BY DEF TypedInv, QueueInv, Shape
  <2>2. /\ entry' = [entry EXCEPT ![cur[t]] = num[t]]
        /\ handle' = [handle EXCEPT ![cur[t]][num[t]] = num[t]] /\ UNCHANGED report
    BY <1>3 DEF Provision
  <2>3. handle' \in [Issues -> [RunNumbers -> RunNumbers \cup {0}]]
    BY <1>0, <2>1, <2>2, HandleWritten
  <2> QED BY <1>0, <2>1, <2>2, <2>3 DEF RunnerOK
<1>4. ASSUME NEW t \in Passes, PassWorks(t) PROVE RunnerOK'
  <2>1. CASE \E i \in Issues : ProjectOne(t, i) BY <1>1, <2>1 DEF ProjectOne, runner
  <2>2. CASE \/ Observe(t) \/ LoadWorkOrders(t) \/ EndProjection(t) \/ SkipObserve(t) \/ Drain(t)
             \/ EndPass(t) \/ CreateRun(t) \/ WriteRecords(t) \/ MarkDispatched(t)
             \/ DispatchOne(t) \/ Recover(t)
    <3>1. UNCHANGED runner
      BY <2>2 DEF Observe, LoadWorkOrders, EndProjection, SkipObserve, Drain, EndPass, CreateRun,
         WriteRecords, MarkDispatched, DispatchOne, Recover
    <3> QED BY <1>1, <3>1 DEF runner
  <2> QED BY <1>2, <1>3, <1>4, <2>1, <2>2 DEF PassWorks
<1>5. ASSUME NEW t \in Passes, ObserveFault(t) \/ DispatchFault(t) PROVE RunnerOK'
  BY <1>1, <1>5 DEF ObserveFault, DispatchFault, runner
<1>6. ASSUME NEW i \in Issues, NEW k \in RunNumbers, AgentEnds(i, k) PROVE RunnerOK'
  BY <1>0, <1>6 DEF AgentEnds, RunnerOK
<1>7. ASSUME NEW i \in Issues, NEW k \in RunNumbers, PollRun(i, k) PROVE RunnerOK'
  <2>1. /\ UNCHANGED entry /\ handle' = [handle EXCEPT ![i][k] = 0]
        /\ \/ UNCHANGED report \/ \E h : report' = [report EXCEPT ![i] = report[i] \ {h}]
    BY <1>7 DEF PollRun, PollEnded, PollUnknown
  <2>2. handle' \in [Issues -> [RunNumbers -> RunNumbers \cup {0}]] BY <1>0, <2>1, HandleWritten
  <2>3. report' \in [Issues -> SUBSET RunNumbers] BY <1>0, <2>1 DEF RunnerOK
  <2> QED BY <1>0, <2>1, <2>2, <2>3 DEF RunnerOK
<1>8. CASE (\E i \in Issues, l \in Labels : EditLabel(i, l)) \/ SwitchDispatch \/ GatesChange
  BY <1>1, <1>8 DEF EditLabel, SwitchDispatch, GatesChange, runner
<1>9. CASE UNCHANGED vars BY <1>1, <1>9 DEF vars, runner
<1> QED BY <1>4, <1>5, <1>6, <1>7, <1>8, <1>9 DEF Next

\* What a pass carries.
LEMMA ListsTyped ==
  ASSUME TypedInv, [Next]_vars
  PROVE  ListsOK' /\ CurOK'
<1> USE DEF ListsOK, CurOK
<1>0. ListsOK /\ CurOK BY DEF TypedInv
<1> DEFINE lists == <<seen, rows, todo, batch, allowed>>
<1>1. CASE UNCHANGED <<lists, cur>> BY <1>0, <1>1
<1>2. ASSUME NEW t \in Passes, Observe(t) \/ SkipObserve(t) PROVE ListsOK' /\ CurOK'
  <2>1. UNCHANGED <<rows, todo, batch, allowed, cur>> BY <1>2 DEF Observe, SkipObserve
  <2>2. \E l \in [Issues -> SUBSET Labels] : seen' = [seen EXCEPT ![t] = l]
    <3>1. CASE Observe(t) BY <3>1 DEF Observe, TypedInv, WorldOK
    <3>2. CASE SkipObserve(t)
      <4>1. Nothing({}) \in [Issues -> SUBSET Labels] BY DEF Nothing
      <4> QED BY <3>2, <4>1 DEF SkipObserve
    <3> QED BY <1>2, <3>1, <3>2
  <2>3. seen' \in [Passes -> [Issues -> SUBSET Labels]] BY <1>0, <2>2
  <2> QED BY <1>0, <2>1, <2>3
<1>3. ASSUME NEW t \in Passes, LoadWorkOrders(t) PROVE ListsOK' /\ CurOK'
  <2>1. /\ UNCHANGED <<seen, batch, allowed, cur>> /\ rows' = [rows EXCEPT ![t] = wo]
        /\ \/ todo' = [todo EXCEPT ![t] = Issues] \/ UNCHANGED todo
    BY <1>3 DEF LoadWorkOrders
  <2>2. wo \in [Issues -> Statuses] BY DEF TypedInv, QueueInv, Shape
  <2>3. rows' \in [Passes -> [Issues -> Statuses]] BY <1>0, <2>1, <2>2
  <2>4. todo' \in [Passes -> SUBSET Issues] BY <1>0, <2>1
  <2> QED BY <1>0, <2>1, <2>3, <2>4
<1>4. ASSUME NEW t \in Passes, NEW i \in Issues, ProjectOne(t, i) PROVE ListsOK' /\ CurOK'
  BY <1>0, <1>4 DEF ProjectOne
<1>5. ASSUME NEW t \in Passes, Drain(t) PROVE ListsOK' /\ CurOK'
  <2> DEFINE q == SubSeq(queue, 1, Min({BatchSize, Len(queue)}))
  <2>1. q \in Seq(Issues) BY BatchIsPrefix, QueueConstants DEF TypedInv, QueueOK
  <2>2. batch' = [batch EXCEPT ![t] = q] /\ UNCHANGED <<seen, rows, todo, cur>> BY <1>5 DEF Drain
  <2> HIDE DEF q
  <2>3. batch' \in [Passes -> Seq(Issues)] BY <1>0, <2>1, <2>2
  <2>4. enabled \in BOOLEAN BY DEF TypedInv, WorldOK
  <2>5. allowed' = [allowed EXCEPT ![t] = enabled] BY <1>5 DEF Drain
  <2>6. allowed' \in [Passes -> BOOLEAN] BY <1>0, <2>4, <2>5
  <2> QED BY <1>0, <2>2, <2>3, <2>6
<1>6. ASSUME NEW t \in Passes, DispatchOne(t) PROVE ListsOK' /\ CurOK'
  <2>1. /\ batch[t] # <<>> /\ batch' = [batch EXCEPT ![t] = Tail(batch[t])]
        /\ UNCHANGED <<seen, rows, todo, allowed>>
        /\ UNCHANGED cur \/ cur' = [cur EXCEPT ![t] = Head(batch[t])]
    BY <1>6 DEF DispatchOne, PassedOver, Quarantine, Admitted, StaysQueued
  <2>2. Head(batch[t]) \in Issues /\ Tail(batch[t]) \in Seq(Issues) BY <1>0, <2>1, BatchShrinks
  <2>3. batch' \in [Passes -> Seq(Issues)] BY <1>0, <2>1, <2>2
  <2>4. CurOK' BY <1>0, <2>1, <2>2
  <2> QED BY <1>0, <2>1, <2>3, <2>4
<1>7. ASSUME NEW t \in Passes, \/ MarkDispatched(t) \/ Recover(t) PROVE ListsOK' /\ CurOK'
  <2>1. UNCHANGED lists /\ cur' = [cur EXCEPT ![t] = NoIssue]
    BY <1>7 DEF MarkDispatched, Recover, RowDone
  <2> QED BY <1>0, <2>1
<1>8. ASSUME NEW t \in Passes, PassWorks(t) PROVE ListsOK' /\ CurOK'
  <2>1. CASE \/ EndProjection(t) \/ EndPass(t) \/ CreateRun(t) \/ WriteRecords(t) \/ Submit(t)
             \/ Provision(t)
    <3>1. UNCHANGED <<lists, cur>>
      BY <2>1 DEF EndProjection, EndPass, CreateRun, WriteRecords, Submit, Provision
    <3> QED BY <1>1, <3>1
  <2> QED BY <1>2, <1>3, <1>4, <1>5, <1>6, <1>7, <1>8, <2>1 DEF PassWorks
<1>9. ASSUME NEW t \in Passes, ObserveFault(t) PROVE ListsOK' /\ CurOK'
  <2>1. /\ UNCHANGED <<seen, rows, batch, allowed, cur>>
        /\ \/ \E i : todo' = [todo EXCEPT ![t] = todo[t] \ {i}]
           \/ todo' = [todo EXCEPT ![t] = {}]
    BY <1>9 DEF ObserveFault
  <2>2. todo' \in [Passes -> SUBSET Issues] BY <1>0, <2>1
  <2> QED BY <1>0, <2>1, <2>2
<1>10. ASSUME NEW t \in Passes, DispatchFault(t) PROVE ListsOK' /\ CurOK'
  <2>1. UNCHANGED <<seen, rows, todo, allowed>> BY <1>10 DEF DispatchFault
  <2>2. CurOK'
    <3>1. UNCHANGED cur \/ cur' = [cur EXCEPT ![t] = NoIssue] BY <1>10 DEF DispatchFault, RowDone
    <3> QED BY <1>0, <3>1
  <2>3. batch' \in [Passes -> Seq(Issues)]
    <3>1. \/ UNCHANGED batch
          \/ batch[t] # <<>> /\ batch' = [batch EXCEPT ![t] = Tail(batch[t])]
      BY <1>10 DEF DispatchFault
    <3>2. batch[t] # <<>> => Tail(batch[t]) \in Seq(Issues) BY <1>0, BatchShrinks
    <3> QED BY <1>0, <3>1, <3>2
  <2> QED BY <1>0, <2>1, <2>2, <2>3
<1>11. ASSUME NEW i \in Issues, NEW k \in RunNumbers, AgentEnds(i, k) \/ PollRun(i, k)
       PROVE  ListsOK' /\ CurOK'
  BY <1>1, <1>11 DEF AgentEnds, PollRun, PollEnded, PollUnknown, passVars
<1>12. CASE (\E i \in Issues, l \in Labels : EditLabel(i, l)) \/ SwitchDispatch \/ GatesChange
  BY <1>1, <1>12 DEF EditLabel, SwitchDispatch, GatesChange, passVars
<1>13. CASE UNCHANGED vars BY <1>1, <1>13 DEF vars, passVars
<1> QED BY <1>8, <1>9, <1>10, <1>11, <1>12, <1>13 DEF Next

\* Every value has its type at the start,
LEMMA TypedBegins ==
  ASSUME Init PROVE TypedInv
<1>1. WorldOK BY QueueConstants DEF Init, WorldOK
<1>2. QueueOK
  <2>1. <<>> \in Seq(Issues) /\ DOMAIN <<>> = {} OBVIOUS
  <2>2. {i \in Issues : wo[i] = "queued"} = {} BY DEF Init, Nothing
  <2> QED BY <2>1, <2>2 DEF Init, QueueOK, IsInjective, Range
<1>3. RunnerOK BY DEF Init, RunnerOK, Nothing
<1>4. ListsOK BY DEF Init, ListsOK, Nothing, Statuses
<1>5. CurOK BY DEF Init, CurOK
<1> QED BY <1>1, <1>2, <1>3, <1>4, <1>5, QueueBegins DEF TypedInv

\* and keeps it along every behaviour.
LEMMA TypedSafe == Spec => []TypedInv
<1>1. Init => TypedInv BY TypedBegins
<1>2. TypedInv /\ [Next]_vars => TypedInv'
  <2> SUFFICES ASSUME TypedInv, [Next]_vars PROVE TypedInv' OBVIOUS
  <2>1. QueueInv' BY QueueStep DEF TypedInv
  <2> QED BY <2>1, WorldTyped, QueueTyped, RunnerTyped, ListsTyped DEF TypedInv
<1> QED BY <1>1, <1>2, PTL DEF Spec

\* Types; and the queue holds the work orders whose row says `queued`, each of
\* them once, whatever the passes, the humans and the faults do.
THEOREM QueueIsTyped == Spec => []TypeOK
<1>1. TypedInv => TypeOK
  BY DEF TypedInv, QueueInv, Shape, WorldOK, QueueOK, RunnerOK, ListsOK, CurOK, TypeOK
<1> QED BY <1>1, TypedSafe, PTL

-----------------------------------------------------------------------------
(* How many runs a work order gets, while nobody edits labels or settings. *)
(* A work order is then queued once at most; a pass may create a run of it *)
(* for the row in its batch, and until the work order is settled every row *)
(* belongs to a pass that is making it or to a call that failed.           *)

\* A pass is dispatching a row of its batch.
Dispatching == {"create"} \cup Owning

\* The passes that may yet create a run of the work order, and those that own
\* a row of it which no call has failed for.
Pending(i) == {t \in Passes : i \in Range(batch[t]) \/ (pc[t] = "create" /\ cur[t] = i)}
Making(i)  == {t \in Passes : pc[t] \in Owning \ {"recover"} /\ cur[t] = i}

Unsettled(i) == wo[i] \notin {"dispatched", "quarantined"}
AsLabelled(s, i) == s \in HOLDABLE_STATUSES => (s = "held" <=> "hold" \in labels[i])

\* The statuses, the labels a sweep observed and the rows it loaded agree with
\* the labels as they are;
LabelsStand ==
  /\ \A i \in Issues : AsLabelled(wo[i], i)
  /\ \A t \in Passes : pc[t] \in {"load", "project"} => seen[t] = labels
  /\ \A t \in Passes : pc[t] = "project" => \A i \in Issues : AsLabelled(rows[t][i], i)
\* a batch has each row once, and no longer the one that is dispatched;
BatchOnce ==
  \A t \in Passes :
    /\ IsInjective(batch[t])
    /\ pc[t] \in Dispatching => cur[t] \in Issues /\ cur[t] \notin Range(batch[t])
\* and the two counts.
CountsAt(i) ==
  /\ Unsettled(i) => Cardinality(RunsOf(i)) <= faults + Cardinality(Making(i))
  /\ Cardinality(RunsOf(i)) + Cardinality(Pending(i)) <= Cardinality(Passes) + faults

CountInv ==
  /\ TypedInv /\ BatchOnce
  /\ edits = 0 => LabelsStand /\ \A i \in Issues : CountsAt(i)

\* A step of one pass leaves the others where they are.
OthersStand(t) ==
  \A u \in Passes : u # t => pc'[u] = pc[u] /\ cur'[u] = cur[u] /\ batch'[u] = batch[u]

\* The sets that are counted are finite.
LEMMA CountsFinite ==
  ASSUME NEW i \in Issues
  PROVE  /\ IsFiniteSet(Making(i)) /\ Cardinality(Making(i)) \in Nat
         /\ IsFiniteSet(Pending(i)) /\ Cardinality(Pending(i)) \in Nat
         /\ IsFiniteSet(RunsOf(i)) /\ Cardinality(RunsOf(i)) \in Nat
         /\ Cardinality(Passes) \in Nat
<1>1. IsFiniteSet(Passes) BY QueueConstants
<1>2. IsFiniteSet(RunNumbers)
  <2>1. 1 \in Int /\ MaxRuns \in Int BY QueueConstants
  <2> QED BY <2>1, FS_Interval DEF RunNumbers
<1>3. Making(i) \subseteq Passes /\ Pending(i) \subseteq Passes BY DEF Making, Pending
<1>4. RunsOf(i) \subseteq RunNumbers BY DEF RunsOf
<1>5. IsFiniteSet(Making(i)) /\ IsFiniteSet(Pending(i)) BY <1>1, <1>3, FS_Subset
<1>6. IsFiniteSet(RunsOf(i)) BY <1>2, <1>4, FS_Subset
<1> QED BY <1>1, <1>5, <1>6, FS_CardinalityType

\* So they are after a step.
LEMMA CountsFiniteNext ==
  ASSUME NEW i \in Issues
  PROVE  /\ IsFiniteSet(Making(i)') /\ Cardinality(Making(i)') \in Nat
         /\ Cardinality(Pending(i)') \in Nat /\ Cardinality(RunsOf(i)') \in Nat
<1>1. IsFiniteSet(Passes) BY QueueConstants
<1>2. IsFiniteSet(RunNumbers)
  <2>1. 1 \in Int /\ MaxRuns \in Int BY QueueConstants
  <2> QED BY <2>1, FS_Interval DEF RunNumbers
<1>3. Making(i)' \subseteq Passes /\ Pending(i)' \subseteq Passes BY DEF Making, Pending
<1>4. RunsOf(i)' \subseteq RunNumbers BY DEF RunsOf
<1>5. IsFiniteSet(Making(i)') /\ IsFiniteSet(Pending(i)') /\ IsFiniteSet(RunsOf(i)')
  BY <1>1, <1>2, <1>3, <1>4, FS_Subset
<1> QED BY <1>5, FS_CardinalityType

\* Passes are of one kind or of the other.
LEMMA ApartInPasses ==
  ASSUME NEW P, P \subseteq Passes, NEW M, M \subseteq Passes, P \cap M = {}
  PROVE  Cardinality(P) + Cardinality(M) <= Cardinality(Passes)
<1>1. /\ IsFiniteSet(P) /\ IsFiniteSet(M) /\ IsFiniteSet(P \cup M)
      /\ Cardinality(P \cup M) <= Cardinality(Passes)
  BY QueueConstants, FS_Subset
<1>2. Cardinality(P) \in Nat /\ Cardinality(M) \in Nat BY <1>1, FS_CardinalityType
<1>3. Cardinality(P \cup M) = Cardinality(P) + Cardinality(M) - Cardinality(P \cap M)
  BY <1>1, FS_Union
<1>4. Cardinality(P \cap M) = 0 BY FS_EmptySet
<1> QED BY <1>1, <1>2, <1>3, <1>4

\* The other passes count as before.
LEMMA OthersCount ==
  ASSUME NEW t \in Passes, NEW i \in Issues, OthersStand(t)
  PROVE  /\ Making(i)' \ {t} = Making(i) \ {t}
         /\ Pending(i)' \ {t} = Pending(i) \ {t}
BY DEF OthersStand, Making, Pending

\* A step that creates no run of the work order and reads no batch with it.
LEMMA CountsKept ==
  ASSUME CountInv, edits = 0, NEW i \in Issues, faults \in Nat,
         RunsOf(i)' \subseteq RunsOf(i), faults' \in {faults, faults + 1},
         Pending(i)' \subseteq Pending(i), Unsettled(i)' => Unsettled(i),
         NEW t, Making(i) \ {t} \subseteq Making(i)',
         Unsettled(i)' /\ t \in Making(i) => t \in Making(i)' \/ faults' = faults + 1
  PROVE  CountsAt(i)'
<1>1. CountsAt(i) BY DEF CountInv
<1>2. /\ IsFiniteSet(Making(i)) /\ IsFiniteSet(Making(i)')
      /\ IsFiniteSet(Pending(i)) /\ IsFiniteSet(RunsOf(i))
      /\ Cardinality(Making(i)) \in Nat /\ Cardinality(Making(i)') \in Nat
      /\ Cardinality(Pending(i)) \in Nat /\ Cardinality(Pending(i)') \in Nat
      /\ Cardinality(RunsOf(i)) \in Nat /\ Cardinality(RunsOf(i)') \in Nat
      /\ Cardinality(Passes) \in Nat
  BY CountsFinite, CountsFiniteNext
<1>3. /\ Cardinality(RunsOf(i)') <= Cardinality(RunsOf(i))
      /\ Cardinality(Pending(i)') <= Cardinality(Pending(i))
  BY <1>2, FS_Subset
<1>4. Cardinality(RunsOf(i)') + Cardinality(Pending(i)') <= Cardinality(Passes) + faults'
  BY <1>1, <1>2, <1>3 DEF CountsAt
<1>5. ASSUME Unsettled(i)' PROVE Cardinality(RunsOf(i)') <= faults' + Cardinality(Making(i)')
  <2>1. Cardinality(RunsOf(i)) <= faults + Cardinality(Making(i)) BY <1>1, <1>5 DEF CountsAt
  <2>2. CASE Making(i) \subseteq Making(i)'
    <3>1. Cardinality(Making(i)) <= Cardinality(Making(i)') BY <1>2, <2>2, FS_Subset
    <3> QED BY <1>2, <1>3, <2>1, <3>1
  <2>3. CASE faults' = faults + 1
    <3> DEFINE rest == Making(i) \ {t}
    <3>1. IsFiniteSet(rest) /\ Cardinality(rest) >= Cardinality(Making(i)) - 1
      <4>1. /\ IsFiniteSet(rest)
            /\ Cardinality(rest) =
                 IF t \in Making(i) THEN Cardinality(Making(i)) - 1 ELSE Cardinality(Making(i))
        BY <1>2, FS_RemoveElement
      <4> QED BY <1>2, <4>1
    <3>2. Cardinality(rest) \in Nat BY <3>1, FS_CardinalityType
    <3>3. Cardinality(rest) <= Cardinality(Making(i)') BY <1>2, FS_Subset
    <3> HIDE DEF rest
    <3> QED BY <1>2, <1>3, <2>1, <2>3, <3>1, <3>2, <3>3
  <2> QED BY <1>5, <2>2, <2>3
<1> QED BY <1>4, <1>5 DEF CountsAt

\* The statuses of a step without edits: a work order gets its first one by its
\* labels, and is settled later.
LEMMA StatusesStep ==
  ASSUME TypedInv, LabelsStand, edits' = 0, [Next]_vars
  PROVE  /\ UNCHANGED labels
         /\ \A i \in Issues :
              \/ wo'[i] = wo[i]
              \/ wo'[i] \in {"dispatched", "quarantined"}
              \/ wo[i] = "none" /\ wo'[i] = IF "hold" \in labels[i] THEN "held" ELSE "queued"
<1> DEFINE P(i) == \/ wo'[i] = wo[i]
                   \/ wo'[i] \in {"dispatched", "quarantined"}
                   \/ wo[i] = "none" /\ wo'[i] = IF "hold" \in labels[i] THEN "held" ELSE "queued"
<1>0. Shape /\ edits \in Nat BY QueueConstants DEF TypedInv, QueueInv, WorldOK
<1>1. CASE UNCHANGED <<labels, wo>> BY <1>1
<1>2. ASSUME NEW j, NEW s \in Statuses, SetStatus(j, s), UNCHANGED labels,
             \/ s \in {"dispatched", "quarantined"}
             \/ j \in Issues =>
                  wo[j] = "none" /\ s = IF "hold" \in labels[j] THEN "held" ELSE "queued",
             NEW i \in Issues
      PROVE  P(i)
  <2>1. wo'[i] = IF i = j THEN s ELSE wo[i] BY <1>0, <1>2, StatusWritten
  <2> QED BY <1>2, <2>1
<1> HIDE DEF P
<1>3. ASSUME NEW t \in Passes, NEW j \in Issues, ProjectOne(t, j), NEW i \in Issues PROVE P(i)
  <2>1. pc[t] = "project" /\ seen[t] = labels /\ AsLabelled(rows[t][j], j) /\ UNCHANGED labels
    BY <1>3 DEF ProjectOne, LabelsStand, world
  <2>2. {"held", "queued"} \subseteq Statuses BY DEF Statuses
  <2>3. ~(rows[t][j] \in HOLDABLE_STATUSES /\ ("hold" \in seen[t][j]) # (rows[t][j] = "held"))
    BY <2>1 DEF AsLabelled
  <2>4. CASE wo[j] = "none" /\ SetStatus(j, IF "hold" \in labels[j] THEN "held" ELSE "queued")
    <3> DEFINE s == IF "hold" \in labels[j] THEN "held" ELSE "queued"
    <3>1. s \in Statuses BY <2>2
    <3> HIDE DEF s
    <3>2. SetStatus(j, s) BY <2>4 DEF s
    <3>3. j \in Issues => wo[j] = "none" /\ s = IF "hold" \in labels[j] THEN "held" ELSE "queued"
      BY <2>4 DEF s
    <3> QED BY <1>2, <2>1, <3>1, <3>2, <3>3
  <2>5. CASE UNCHANGED wo BY <2>5 DEF P
  <2> QED BY <1>3, <2>1, <2>3, <2>4, <2>5 DEF ProjectOne
<1>4. ASSUME NEW t \in Passes, DispatchOne(t), NEW i \in Issues PROVE P(i)
  <2>1. PICK j : PassedOver(t) \/ Quarantine(t, j) \/ Admitted(t, j) \/ StaysQueued(t, j)
    BY <1>4 DEF DispatchOne
  <2>2. UNCHANGED labels /\ "quarantined" \in Statuses BY <1>4 DEF DispatchOne, world, Statuses
  <2>3. CASE SetStatus(j, "quarantined") BY <1>2, <2>2, <2>3
  <2>4. CASE UNCHANGED wo BY <2>4 DEF P
  <2> QED BY <2>1, <2>3, <2>4 DEF PassedOver, Quarantine, Admitted, StaysQueued
<1>5. ASSUME NEW t \in Passes, MarkDispatched(t), NEW i \in Issues PROVE P(i)
  <2>1. UNCHANGED labels /\ "dispatched" \in Statuses /\ SetStatus(cur[t], "dispatched")
    BY <1>5 DEF MarkDispatched, world, Statuses
  <2> QED BY <1>2, <2>1
<1>6. ASSUME NEW t \in Passes, PassWorks(t) \/ ObserveFault(t) \/ DispatchFault(t)
      PROVE  UNCHANGED labels /\ \A i \in Issues : P(i)
  <2>1. UNCHANGED world
    BY <1>6 DEF PassWorks, Observe, SkipObserve, LoadWorkOrders, EndProjection, ProjectOne, Drain,
       DispatchOne, EndPass, CreateRun, WriteRecords, Submit, Provision, MarkDispatched, Recover,
       ObserveFault, DispatchFault
  <2>2. CASE \/ Observe(t) \/ SkipObserve(t) \/ LoadWorkOrders(t) \/ EndProjection(t) \/ Drain(t)
             \/ EndPass(t) \/ CreateRun(t) \/ WriteRecords(t) \/ Submit(t) \/ Provision(t)
             \/ Recover(t) \/ ObserveFault(t) \/ DispatchFault(t)
    <3>1. UNCHANGED wo
      BY <2>2 DEF Observe, SkipObserve, LoadWorkOrders, EndProjection, Drain, EndPass, CreateRun,
         WriteRecords, Submit, Provision, Recover, ObserveFault, DispatchFault, rowVars
    <3> QED BY <2>1, <3>1 DEF world, P
  <2> QED BY <1>3, <1>4, <1>5, <1>6, <2>1, <2>2 DEF PassWorks, world
<1>7. ASSUME NEW i \in Issues, NEW k \in RunNumbers, AgentEnds(i, k) \/ PollRun(i, k)
      PROVE  UNCHANGED <<labels, wo>>
  BY <1>7 DEF AgentEnds, PollRun, PollEnded, PollUnknown, rowVars, world
<1>8. ~((\E i \in Issues, l \in Labels : EditLabel(i, l)) \/ SwitchDispatch \/ GatesChange)
  BY <1>0 DEF EditLabel, SwitchDispatch, GatesChange, Edit
<1>9. CASE UNCHANGED vars BY <1>1, <1>9 DEF vars, rowVars, world
<1> QED BY <1>1, <1>6, <1>7, <1>8, <1>9 DEF Next, P

\* A step of one pass.
LEMMA PassAlone ==
  ASSUME TypedInv, NEW t \in Passes, PassWorks(t) \/ ObserveFault(t) \/ DispatchFault(t)
  PROVE  OthersStand(t)
<1>0. Shape /\ ListsOK /\ CurOK BY DEF TypedInv, QueueInv
<1>1. ASSUME NEW to, pc' = [pc EXCEPT ![t] = to] \/ UNCHANGED pc, NEW c,
             cur' = [cur EXCEPT ![t] = c] \/ UNCHANGED cur, NEW b,
             batch' = [batch EXCEPT ![t] = b] \/ UNCHANGED batch
      PROVE  OthersStand(t)
  BY <1>0, <1>1 DEF OthersStand, Shape, ListsOK, CurOK
<1>2. (\E to : pc' = [pc EXCEPT ![t] = to]) \/ UNCHANGED pc
  BY DEF PassWorks, Observe, SkipObserve, LoadWorkOrders, EndProjection, ProjectOne, Drain,
     DispatchOne, PassedOver, Quarantine, Admitted, StaysQueued, EndPass, CreateRun, WriteRecords,
     Submit, Provision, MarkDispatched, Recover, ObserveFault, DispatchFault, RowDone, Goes
<1>3. (\E c : cur' = [cur EXCEPT ![t] = c]) \/ UNCHANGED cur
  BY DEF PassWorks, Observe, SkipObserve, LoadWorkOrders, EndProjection, ProjectOne, Drain,
     DispatchOne, PassedOver, Quarantine, Admitted, StaysQueued, EndPass, CreateRun, WriteRecords,
     Submit, Provision, MarkDispatched, Recover, ObserveFault, DispatchFault, RowDone
<1>4. (\E b : batch' = [batch EXCEPT ![t] = b]) \/ UNCHANGED batch
  BY DEF PassWorks, Observe, SkipObserve, LoadWorkOrders, EndProjection, ProjectOne, Drain,
     DispatchOne, EndPass, CreateRun, WriteRecords, Submit, Provision, MarkDispatched, Recover,
     ObserveFault, DispatchFault
<1> QED BY <1>1, <1>2, <1>3, <1>4

\* The labels that were seen and the rows that were loaded stay true to them.
LEMMA LabelsStep ==
  ASSUME TypedInv, LabelsStand, edits' = 0, [Next]_vars
  PROVE  LabelsStand'
<1>0. Shape /\ ListsOK BY DEF TypedInv, QueueInv
<1>1. UNCHANGED labels /\ \A i \in Issues : AsLabelled(wo[i], i)'
  BY StatusesStep DEF LabelsStand, AsLabelled, HOLDABLE_STATUSES
<1> DEFINE Seen(t) == pc'[t] \in {"load", "project"} => seen'[t] = labels
           Loaded(t) == pc'[t] = "project" => \A i \in Issues : AsLabelled(rows'[t][i], i)
<1>2. ASSUME \A t \in Passes : Seen(t) /\ Loaded(t) PROVE LabelsStand'
  BY <1>1, <1>2 DEF LabelsStand, AsLabelled
<1>3. ASSUME NEW t \in Passes, pc'[t] = pc[t], seen'[t] = seen[t], rows'[t] = rows[t]
      PROVE  Seen(t) /\ Loaded(t)
  BY <1>3 DEF LabelsStand
<1>4. ASSUME NEW t \in Passes, pc'[t] \notin {"load", "project"} PROVE Seen(t) /\ Loaded(t)
  BY <1>4
<1>5. ASSUME UNCHANGED <<pc, seen, rows>> PROVE LabelsStand' BY <1>2, <1>3, <1>5
<1>6. ASSUME NEW t \in Passes, Seen(t) /\ Loaded(t),
             \A u \in Passes :
               u # t => pc'[u] = pc[u] /\ seen'[u] = seen[u] /\ rows'[u] = rows[u]
      PROVE  LabelsStand'
  BY <1>2, <1>3, <1>6
<1> HIDE DEF Seen, Loaded
<1>7. ASSUME NEW t \in Passes, \/ Observe(t) \/ SkipObserve(t) \/ LoadWorkOrders(t) PROVE LabelsStand'
  <2>1. CASE Observe(t)
    <3>1. /\ pc'[t] = "load" /\ seen'[t] = labels
          /\ \A u \in Passes : u # t => pc'[u] = pc[u] /\ seen'[u] = seen[u] /\ rows'[u] = rows[u]
      BY <1>0, <2>1 DEF Observe, Goes, Shape, ListsOK
    <3> QED BY <1>6, <3>1 DEF Seen, Loaded
  <2>2. CASE SkipObserve(t)
    <3>1. /\ pc'[t] = "drain"
          /\ \A u \in Passes : u # t => pc'[u] = pc[u] /\ seen'[u] = seen[u] /\ rows'[u] = rows[u]
      BY <1>0, <2>2 DEF SkipObserve, Goes, Shape, ListsOK
    <3> QED BY <1>4, <1>6, <3>1
  <2>3. CASE LoadWorkOrders(t)
    <3>1. /\ pc[t] = "load" /\ rows'[t] = wo /\ UNCHANGED seen
          /\ \A u \in Passes : u # t => pc'[u] = pc[u] /\ seen'[u] = seen[u] /\ rows'[u] = rows[u]
      BY <1>0, <2>3 DEF LoadWorkOrders, Goes, Shape, ListsOK
    <3>2. seen'[t] = labels /\ \A i \in Issues : AsLabelled(rows'[t][i], i)
      BY <3>1 DEF LabelsStand
    <3> QED BY <1>6, <3>1, <3>2 DEF Seen, Loaded
  <2> QED BY <1>7, <2>1, <2>2, <2>3
<1>8. ASSUME NEW t \in Passes, UNCHANGED <<seen, rows>>,
             \E to \in PCs \ {"load", "project"} : Goes(t, to) PROVE LabelsStand'
  <2>1. /\ pc'[t] \notin {"load", "project"}
        /\ \A u \in Passes : u # t => pc'[u] = pc[u] /\ seen'[u] = seen[u] /\ rows'[u] = rows[u]
    BY <1>0, <1>8 DEF Goes, Shape
  <2> QED BY <1>4, <1>6, <2>1
<1>9. ASSUME NEW t \in Passes, PassWorks(t) PROVE LabelsStand'
  <2>1. CASE \E i \in Issues : ProjectOne(t, i) BY <1>5, <2>1 DEF ProjectOne
  <2>2. CASE DispatchOne(t)
    <3>1. UNCHANGED <<seen, rows>> /\ (UNCHANGED pc \/ Goes(t, "create"))
      BY <2>2 DEF DispatchOne, PassedOver, Quarantine, Admitted, StaysQueued
    <3> QED BY <1>5, <1>8, <3>1 DEF PCs
  <2>3. CASE \/ EndProjection(t) \/ Drain(t) \/ EndPass(t) \/ CreateRun(t) \/ WriteRecords(t)
             \/ Submit(t) \/ Provision(t) \/ MarkDispatched(t) \/ Recover(t)
    <3>1. UNCHANGED <<seen, rows>>
      BY <2>3 DEF EndProjection, Drain, EndPass, CreateRun, WriteRecords, Submit, Provision,
         MarkDispatched, Recover
    <3>2. \E to \in {"drain", "next", "idle", "records", "submit", "mark", "refused", "provision"} :
            Goes(t, to)
      BY <2>3 DEF EndProjection, Drain, EndPass, CreateRun, WriteRecords, Submit, Provision,
         MarkDispatched, Recover, RowDone
    <3> QED BY <1>8, <3>1, <3>2 DEF PCs
  <2> QED BY <1>7, <1>9, <2>1, <2>2, <2>3 DEF PassWorks
<1>10. ASSUME NEW t \in Passes, ObserveFault(t) \/ DispatchFault(t) PROVE LabelsStand'
  <2>1. UNCHANGED <<seen, rows>>
    BY <1>10 DEF ObserveFault, DispatchFault
  <2>2. UNCHANGED pc \/ \E to \in {"drain", "next", "recover"} : Goes(t, to)
    BY <1>10 DEF ObserveFault, DispatchFault, RowDone
  <2> QED BY <1>5, <1>8, <2>1, <2>2 DEF PCs
<1>11. ASSUME NEW i \in Issues, NEW k \in RunNumbers, AgentEnds(i, k) \/ PollRun(i, k)
       PROVE  LabelsStand'
  BY <1>5, <1>11 DEF AgentEnds, PollRun, PollEnded, PollUnknown, passVars
<1>12. CASE (\E i \in Issues, l \in Labels : EditLabel(i, l)) \/ SwitchDispatch \/ GatesChange
  BY <1>5, <1>12 DEF EditLabel, SwitchDispatch, GatesChange, passVars
<1>13. CASE UNCHANGED vars BY <1>5, <1>13 DEF vars, passVars
<1> QED BY <1>9, <1>10, <1>11, <1>12, <1>13 DEF Next

\* A batch keeps each of its rows once, and not the one that is dispatched.
LEMMA BatchOnceStep ==
  ASSUME TypedInv, BatchOnce, [Next]_vars
  PROVE  BatchOnce'
<1>0. Shape /\ ListsOK /\ CurOK /\ QueueOK BY DEF TypedInv, QueueInv
<1> DEFINE Fine(t) == /\ IsInjective(batch'[t])
                      /\ pc'[t] \in Dispatching => cur'[t] \in Issues /\ cur'[t] \notin Range(batch'[t])
<1>1. ASSUME NEW t \in Passes, OthersStand(t), Fine(t) PROVE BatchOnce'
  BY <1>1 DEF BatchOnce, OthersStand
<1>2. CASE UNCHANGED <<pc, cur, batch>> BY <1>2 DEF BatchOnce
<1>3. ASSUME NEW t \in Passes, UNCHANGED batch,
             pc'[t] \in Dispatching => pc[t] \in Dispatching /\ cur'[t] = cur[t]
      PROVE  Fine(t)
  BY <1>3 DEF BatchOnce
<1> HIDE DEF Fine
<1>4. ASSUME NEW t \in Passes, Drain(t) PROVE Fine(t)
  <2> DEFINE q == SubSeq(queue, 1, Min({BatchSize, Len(queue)}))
  <2>1. IsInjective(q) BY <1>0, BatchIsPrefix, QueueConstants DEF QueueOK
  <2>2. batch' = [batch EXCEPT ![t] = q] BY <1>4 DEF Drain
  <2> HIDE DEF q
  <2>3. batch'[t] = q /\ pc'[t] = "next" BY <1>0, <1>4, <2>2 DEF ListsOK, Shape, Drain, Goes
  <2>4. "next" \notin Dispatching BY DEF Dispatching, Owning
  <2> QED BY <2>1, <2>3, <2>4 DEF Fine
<1>5. ASSUME NEW t \in Passes, DispatchOne(t) PROVE Fine(t)
  <2> DEFINE i == Head(batch[t])
             r == Tail(batch[t])
  <2>1. /\ pc[t] = "next" /\ batch[t] # <<>> /\ batch' = [batch EXCEPT ![t] = r]
        /\ \/ UNCHANGED pc
           \/ Goes(t, "create") /\ cur' = [cur EXCEPT ![t] = i]
    BY <1>5 DEF DispatchOne, PassedOver, Quarantine, Admitted, StaysQueued
  <2>2. batch'[t] = r BY <1>0, <2>1 DEF ListsOK
  <2>3. i \in Issues /\ IsInjective(r) /\ i \notin Range(r)
    BY <1>0, <2>1, BatchShrinks DEF ListsOK, BatchOnce
  <2> HIDE DEF i, r
  <2>4. pc'[t] = "next" \/ cur'[t] = i BY <1>0, <2>1 DEF CurOK
  <2>5. "next" \notin Dispatching BY DEF Dispatching, Owning
  <2> QED BY <2>2, <2>3, <2>4, <2>5 DEF Fine
<1>6. ASSUME NEW t \in Passes, PassWorks(t) PROVE Fine(t)
  <2>1. CASE \E i \in Issues : ProjectOne(t, i) BY <1>3, <2>1 DEF ProjectOne
  <2>2. CASE \/ Observe(t) \/ SkipObserve(t) \/ LoadWorkOrders(t) \/ EndProjection(t) \/ EndPass(t)
             \/ MarkDispatched(t) \/ Recover(t)
    <3>1. pc'[t] \in {"load", "drain", "project", "idle", "next"} /\ UNCHANGED batch
      BY <1>0, <2>2 DEF Observe, SkipObserve, LoadWorkOrders, EndProjection, EndPass,
         MarkDispatched, Recover, RowDone, Goes, Shape
    <3> QED BY <1>3, <3>1 DEF Dispatching, Owning
  <2>3. CASE CreateRun(t) \/ WriteRecords(t) \/ Submit(t) \/ Provision(t)
    <3>1. pc[t] \in Dispatching /\ UNCHANGED <<batch, cur>>
      BY <2>3 DEF CreateRun, WriteRecords, Submit, Provision, Dispatching, Owning
    <3> QED BY <1>3, <3>1
  <2> QED BY <1>4, <1>5, <1>6, <2>1, <2>2, <2>3 DEF PassWorks
<1>7. ASSUME NEW t \in Passes, ObserveFault(t) PROVE Fine(t)
  <2>1. UNCHANGED <<batch, cur>> /\ (UNCHANGED pc \/ Goes(t, "drain")) BY <1>7 DEF ObserveFault
  <2>2. "drain" \notin Dispatching BY DEF Dispatching, Owning
  <2> QED BY <1>0, <1>3, <2>1, <2>2 DEF Goes, Shape
<1>8. ASSUME NEW t \in Passes, DispatchFault(t) PROVE Fine(t)
  <2>1. CASE /\ pc[t] = "next" /\ batch[t] # <<>>
             /\ batch' = [batch EXCEPT ![t] = Tail(batch[t])] /\ UNCHANGED pc
    <3> DEFINE r == Tail(batch[t])
    <3>1. batch'[t] = r BY <1>0, <2>1 DEF ListsOK
    <3>2. IsInjective(r) BY <1>0, <2>1, BatchShrinks DEF ListsOK, BatchOnce
    <3> HIDE DEF r
    <3>3. pc'[t] \notin Dispatching BY <2>1 DEF Dispatching, Owning
    <3> QED BY <3>1, <3>2, <3>3 DEF Fine
  <2>2. CASE RowDone(t) /\ UNCHANGED batch
    <3>1. pc'[t] = "next" BY <1>0, <2>2 DEF RowDone, Goes, Shape
    <3> QED BY <1>3, <2>2, <3>1 DEF Dispatching, Owning
  <2>3. CASE /\ pc[t] \in {"records", "provision", "mark"} /\ UNCHANGED <<cur, batch>>
    BY <1>3, <2>3 DEF Dispatching, Owning
  <2> QED BY <1>8, <2>1, <2>2, <2>3 DEF DispatchFault
<1>9. ASSUME NEW i \in Issues, NEW k \in RunNumbers, AgentEnds(i, k) \/ PollRun(i, k)
      PROVE  BatchOnce'
  BY <1>2, <1>9 DEF AgentEnds, PollRun, PollEnded, PollUnknown, passVars
<1>10. CASE (\E i \in Issues, l \in Labels : EditLabel(i, l)) \/ SwitchDispatch \/ GatesChange
  BY <1>2, <1>10 DEF EditLabel, SwitchDispatch, GatesChange, passVars
<1>11. CASE UNCHANGED vars BY <1>2, <1>11 DEF vars, passVars
<1>12. ASSUME NEW t \in Passes, PassWorks(t) \/ ObserveFault(t) \/ DispatchFault(t)
       PROVE  BatchOnce'
  BY <1>1, <1>6, <1>7, <1>8, <1>12, PassAlone
<1> QED BY <1>9, <1>10, <1>11, <1>12 DEF Next

\* Edits are counted up only.
LEMMA NoEditsBefore ==
  ASSUME TypedInv, [Next]_vars, edits' = 0
  PROVE  edits = 0
<1>0. edits \in Nat BY QueueConstants DEF TypedInv, WorldOK
<1>1. CASE UNCHANGED edits BY <1>1
<1>2. ASSUME NEW t \in Passes, PassWorks(t) \/ ObserveFault(t) \/ DispatchFault(t)
      PROVE  UNCHANGED edits
  BY <1>2 DEF PassWorks, Observe, SkipObserve, LoadWorkOrders, EndProjection, ProjectOne, Drain,
     DispatchOne, EndPass, CreateRun, WriteRecords, Submit, Provision, MarkDispatched, Recover,
     ObserveFault, DispatchFault, world
<1>3. ASSUME NEW i \in Issues, NEW k \in RunNumbers, AgentEnds(i, k) \/ PollRun(i, k)
      PROVE  UNCHANGED edits
  BY <1>3 DEF AgentEnds, PollRun, PollEnded, PollUnknown, world
<1>4. CASE (\E i \in Issues, l \in Labels : EditLabel(i, l)) \/ SwitchDispatch \/ GatesChange
  BY <1>0, <1>4 DEF EditLabel, SwitchDispatch, GatesChange, Edit
<1>5. CASE UNCHANGED vars BY <1>5 DEF vars, world
<1> QED BY <1>1, <1>2, <1>3, <1>4, <1>5 DEF Next

\* run.create: a pass that might create a run is one that makes it.
LEMMA CountsCreate ==
  ASSUME CountInv, edits = 0, NEW i \in Issues, faults \in Nat, UNCHANGED <<faults, wo>>,
         NEW k, RunsOf(i)' \subseteq RunsOf(i) \cup {k}, NEW t,
         t \in Pending(i), Pending(i)' \subseteq Pending(i) \ {t},
         t \notin Making(i), Making(i) \cup {t} \subseteq Making(i)'
  PROVE  CountsAt(i)'
<1>1. CountsAt(i) BY DEF CountInv
<1>2. /\ IsFiniteSet(Making(i)) /\ IsFiniteSet(Making(i)')
      /\ IsFiniteSet(Pending(i)) /\ IsFiniteSet(RunsOf(i))
      /\ Cardinality(Making(i)) \in Nat /\ Cardinality(Making(i)') \in Nat
      /\ Cardinality(Pending(i)) \in Nat /\ Cardinality(Pending(i)') \in Nat
      /\ Cardinality(RunsOf(i)) \in Nat /\ Cardinality(RunsOf(i)') \in Nat
      /\ Cardinality(Passes) \in Nat
  BY CountsFinite, CountsFiniteNext
<1>3. Cardinality(RunsOf(i)') <= Cardinality(RunsOf(i)) + 1
  <2>1. /\ IsFiniteSet(RunsOf(i) \cup {k})
        /\ Cardinality(RunsOf(i) \cup {k}) =
             IF k \in RunsOf(i) THEN Cardinality(RunsOf(i)) ELSE Cardinality(RunsOf(i)) + 1
    BY <1>2, FS_AddElement
  <2>2. Cardinality(RunsOf(i)') <= Cardinality(RunsOf(i) \cup {k}) BY <2>1, FS_Subset
  <2> QED BY <1>2, <2>1, <2>2
<1>4. Cardinality(Pending(i)') <= Cardinality(Pending(i)) - 1
  <2>1. /\ IsFiniteSet(Pending(i) \ {t})
        /\ Cardinality(Pending(i) \ {t}) = Cardinality(Pending(i)) - 1
    BY <1>2, FS_RemoveElement
  <2>2. Cardinality(Pending(i)') <= Cardinality(Pending(i) \ {t}) BY <2>1, FS_Subset
  <2> QED BY <2>1, <2>2
<1>5. Cardinality(Making(i)') >= Cardinality(Making(i)) + 1
  <2>1. /\ IsFiniteSet(Making(i) \cup {t})
        /\ Cardinality(Making(i) \cup {t}) = Cardinality(Making(i)) + 1
    BY <1>2, FS_AddElement
  <2>2. Cardinality(Making(i) \cup {t}) <= Cardinality(Making(i)') BY <1>2, FS_Subset
  <2> QED BY <1>2, <2>1, <2>2
<1>6. Unsettled(i)' <=> Unsettled(i) BY DEF Unsettled
<1> QED BY <1>1, <1>2, <1>3, <1>4, <1>5, <1>6 DEF CountsAt

\* A refusal at the runner's ceiling: the row goes with the pass that made it.
LEMMA CountsRefused ==
  ASSUME CountInv, edits = 0, NEW i \in Issues, faults \in Nat, UNCHANGED <<faults, wo>>,
         NEW k \in RunsOf(i), RunsOf(i)' \subseteq RunsOf(i) \ {k},
         NEW t, Pending(i)' \subseteq Pending(i), Making(i) \ {t} \subseteq Making(i)'
  PROVE  CountsAt(i)'
<1>1. CountsAt(i) BY DEF CountInv
<1>2. /\ IsFiniteSet(Making(i)) /\ IsFiniteSet(Making(i)')
      /\ IsFiniteSet(Pending(i)) /\ IsFiniteSet(RunsOf(i))
      /\ Cardinality(Making(i)) \in Nat /\ Cardinality(Making(i)') \in Nat
      /\ Cardinality(Pending(i)) \in Nat /\ Cardinality(Pending(i)') \in Nat
      /\ Cardinality(RunsOf(i)) \in Nat /\ Cardinality(RunsOf(i)') \in Nat
      /\ Cardinality(Passes) \in Nat
  BY CountsFinite, CountsFiniteNext
<1>3. Cardinality(RunsOf(i)') <= Cardinality(RunsOf(i)) - 1
  <2>1. /\ IsFiniteSet(RunsOf(i) \ {k})
        /\ Cardinality(RunsOf(i) \ {k}) = Cardinality(RunsOf(i)) - 1
    BY <1>2, FS_RemoveElement
  <2>2. Cardinality(RunsOf(i)') <= Cardinality(RunsOf(i) \ {k}) BY <2>1, FS_Subset
  <2> QED BY <2>1, <2>2
<1>4. Cardinality(Pending(i)') <= Cardinality(Pending(i)) BY <1>2, FS_Subset
<1>5. Cardinality(Making(i)') >= Cardinality(Making(i)) - 1
  <2>1. /\ IsFiniteSet(Making(i) \ {t})
        /\ Cardinality(Making(i) \ {t}) =
             IF t \in Making(i) THEN Cardinality(Making(i)) - 1 ELSE Cardinality(Making(i))
    BY <1>2, FS_RemoveElement
  <2>2. Cardinality(Making(i) \ {t}) <= Cardinality(Making(i)') BY <1>2, FS_Subset
  <2> QED BY <1>2, <2>1, <2>2
<1>6. Unsettled(i)' <=> Unsettled(i) BY DEF Unsettled
<1> QED BY <1>1, <1>2, <1>3, <1>4, <1>5, <1>6 DEF CountsAt

\* A batch is read: a work order in it is queued, so its rows are those of the
\* passes that are making one and of the failed calls.
LEMMA CountsDrain ==
  ASSUME CountInv, edits = 0, BatchOnce', NEW i \in Issues, faults \in Nat,
         UNCHANGED <<run, faults, wo>>, Making(i)' = Making(i),
         Pending(i)' \subseteq Pending(i) \/ Unsettled(i)
  PROVE  CountsAt(i)'
<1>1. CountsAt(i) BY DEF CountInv
<1>2. RunsOf(i)' = RunsOf(i) /\ (Unsettled(i)' <=> Unsettled(i)) BY DEF RunsOf, Unsettled
<1>3. CASE Pending(i)' \subseteq Pending(i)
  <2>1. Cardinality(Pending(i)') <= Cardinality(Pending(i)) BY <1>3, CountsFinite, FS_Subset
  <2> QED BY <1>1, <1>2, <2>1, CountsFinite, CountsFiniteNext DEF CountsAt
<1>4. CASE Unsettled(i)
  <2>1. Cardinality(RunsOf(i)) <= faults + Cardinality(Making(i)) BY <1>1, <1>4 DEF CountsAt
  <2>2. Pending(i)' \cap Making(i)' = {}
    BY DEF BatchOnce, Pending, Making, Dispatching, Owning
  <2>3. Pending(i)' \subseteq Passes /\ Making(i)' \subseteq Passes BY DEF Pending, Making
  <2>4. Cardinality(Pending(i)') + Cardinality(Making(i)') <= Cardinality(Passes)
    BY <2>2, <2>3, ApartInPasses
  <2> QED BY <1>1, <1>2, <2>1, <2>4, CountsFinite, CountsFiniteNext DEF CountsAt
<1> QED BY <1>3, <1>4

\* Every step keeps the counts.
LEMMA CountsStep ==
  ASSUME CountInv, TypedInv', edits' = 0, [Next]_vars, NEW i \in Issues
  PROVE  CountsAt(i)'
<1>0. /\ Shape /\ ListsOK /\ CurOK /\ QueueOK /\ OwnedRows /\ BatchOnce /\ TypedInv
      /\ faults \in Nat
  BY QueueConstants DEF CountInv, TypedInv, QueueInv, WorldOK
<1>1. edits = 0 BY <1>0, NoEditsBefore
<1>2. LabelsStand BY <1>1 DEF CountInv
<1>3. Unsettled(i)' => Unsettled(i) BY <1>0, <1>2, StatusesStep DEF Unsettled
<1>4. BatchOnce' BY <1>0, BatchOnceStep
<1>5. CASE UNCHANGED <<pc, cur, batch, faults>> /\ RunsOf(i)' \subseteq RunsOf(i)
  <2>1. Making(i)' = Making(i) /\ Pending(i)' = Pending(i) BY <1>5 DEF Making, Pending
  <2> QED BY <1>0, <1>1, <1>3, <1>5, <2>1, CountsKept
<1>6. ASSUME NEW t \in Passes, OthersStand(t), RunsOf(i)' \subseteq RunsOf(i),
             faults' \in {faults, faults + 1},
             t \in Pending(i)' => t \in Pending(i),
             Unsettled(i)' /\ t \in Making(i) => t \in Making(i)' \/ faults' = faults + 1
      PROVE  CountsAt(i)'
  <2>1. Making(i)' \ {t} = Making(i) \ {t} /\ Pending(i)' \ {t} = Pending(i) \ {t}
    BY <1>6, OthersCount
  <2>2. Pending(i)' \subseteq Pending(i) /\ Making(i) \ {t} \subseteq Making(i)' BY <1>6, <2>1
  <2> QED BY <1>0, <1>1, <1>3, <1>6, <2>2, CountsKept
<1>7. ASSUME NEW t \in Passes, UNCHANGED <<batch, cur>>, pc'[t] # "create"
      PROVE  t \in Pending(i)' => t \in Pending(i)
  BY <1>7 DEF Pending
<1>8. ASSUME NEW t \in Passes, PassWorks(t) PROVE OthersStand(t)
  BY <1>0, <1>8, PassAlone
<1>9. ASSUME UNCHANGED run PROVE RunsOf(i)' \subseteq RunsOf(i) BY <1>9 DEF RunsOf
<1>10. ASSUME NEW t \in Passes, \/ Observe(t) \/ SkipObserve(t) \/ LoadWorkOrders(t)
              \/ EndProjection(t) \/ EndPass(t)
       PROVE  CountsAt(i)'
  <2>1. UNCHANGED <<run, faults, batch, cur>>
    BY <1>10 DEF Observe, SkipObserve, LoadWorkOrders, EndProjection, EndPass, rowVars
  <2>2. pc[t] \in {"idle", "load", "project", "next"}
    BY <1>10 DEF Observe, SkipObserve, LoadWorkOrders, EndProjection, EndPass
  <2>3. pc'[t] # "create"
    BY <1>0, <1>10 DEF Observe, SkipObserve, LoadWorkOrders, EndProjection, EndPass, Goes, Shape
  <2>4. t \notin Making(i) BY <2>2 DEF Making, Owning
  <2>5. OthersStand(t) BY <1>8, <1>10 DEF PassWorks
  <2> QED BY <1>6, <1>7, <1>9, <2>1, <2>3, <2>4, <2>5
<1>11. ASSUME NEW t \in Passes, NEW j \in Issues, ProjectOne(t, j) PROVE CountsAt(i)'
  <2>1. UNCHANGED <<pc, cur, batch, faults, run>> BY <1>11 DEF ProjectOne
  <2> QED BY <1>5, <1>9, <2>1
<1>12. ASSUME NEW t \in Passes, Drain(t) PROVE CountsAt(i)'
  <2> DEFINE q == SubSeq(queue, 1, Min({BatchSize, Len(queue)}))
  <2>1. Range(q) \subseteq Range(queue) BY <1>0, BatchIsPrefix, QueueConstants DEF QueueOK
  <2>2. /\ batch' = [batch EXCEPT ![t] = q] /\ pc[t] = "drain" /\ Goes(t, "next")
        /\ UNCHANGED <<cur, run, faults, wo>>
    BY <1>12 DEF Drain, rowVars
  <2> HIDE DEF q
  <2>3. batch'[t] = q /\ pc'[t] = "next" BY <1>0, <2>2 DEF ListsOK, Shape, Goes
  <2>4. OthersStand(t) BY <1>8, <1>12 DEF PassWorks
  <2>5. Making(i)' \ {t} = Making(i) \ {t} /\ Pending(i)' \ {t} = Pending(i) \ {t}
    BY <2>4, OthersCount
  <2>6. t \notin Making(i) /\ t \notin Making(i)' BY <2>2, <2>3 DEF Making, Owning
  <2>7. Making(i)' = Making(i) BY <2>5, <2>6
  <2>8. t \in Pending(i)' => Unsettled(i)
    <3>1. t \in Pending(i)' => i \in Range(q) BY <2>3 DEF Pending
    <3>2. i \in Range(queue) => wo[i] = "queued" BY <1>0 DEF QueueOK
    <3> QED BY <2>1, <3>1, <3>2 DEF Unsettled
  <2>9. Pending(i)' \subseteq Pending(i) \/ Unsettled(i) BY <2>5, <2>8
  <2> QED BY <1>0, <1>1, <1>4, <2>2, <2>7, <2>9, CountsDrain
<1>13. ASSUME NEW t \in Passes, DispatchOne(t) PROVE CountsAt(i)'
  <2> DEFINE h == Head(batch[t])
             r == Tail(batch[t])
  <2>1. /\ pc[t] = "next" /\ batch[t] # <<>> /\ batch' = [batch EXCEPT ![t] = r]
        /\ UNCHANGED <<run, faults>>
        /\ \/ UNCHANGED pc
           \/ Goes(t, "create") /\ cur' = [cur EXCEPT ![t] = h]
    BY <1>13 DEF DispatchOne, PassedOver, Quarantine, Admitted, StaysQueued
  <2>2. batch'[t] = r BY <1>0, <2>1 DEF ListsOK
  <2>3. h \in Range(batch[t]) /\ Range(r) \subseteq Range(batch[t])
    BY <1>0, <2>1, BatchShrinks DEF ListsOK
  <2> HIDE DEF h, r
  <2>4. pc'[t] = "next" \/ cur'[t] = h BY <1>0, <2>1 DEF CurOK
  <2>5. t \in Pending(i)' => t \in Pending(i) BY <2>2, <2>3, <2>4 DEF Pending
  <2>6. t \notin Making(i) BY <2>1 DEF Making, Owning
  <2>7. OthersStand(t) BY <1>8, <1>13 DEF PassWorks
  <2> QED BY <1>6, <1>9, <2>1, <2>5, <2>6, <2>7
<1>14. ASSUME NEW t \in Passes, WriteRecords(t) \/ Submit(t) \/ Provision(t) PROVE CountsAt(i)'
  <2>1. UNCHANGED <<run, faults, batch, cur>>
    BY <1>14 DEF WriteRecords, Submit, Provision, rowVars
  <2>2. pc'[t] \in {"submit", "mark", "refused", "provision"}
    BY <1>0, <1>14 DEF WriteRecords, Submit, Provision, Goes, Shape
  <2>3. t \in Making(i) => t \in Making(i)' BY <2>1, <2>2 DEF Making, Owning
  <2>4. OthersStand(t) BY <1>8, <1>14 DEF PassWorks
  <2> QED BY <1>6, <1>7, <1>9, <2>1, <2>2, <2>3, <2>4
<1>15. ASSUME NEW t \in Passes, MarkDispatched(t) PROVE CountsAt(i)'
  <2>1. /\ UNCHANGED <<run, faults, batch>> /\ RowDone(t) /\ SetStatus(cur[t], "dispatched")
        /\ pc[t] = "mark"
    BY <1>15 DEF MarkDispatched
  <2>2. pc'[t] = "next" BY <1>0, <2>1 DEF RowDone, Goes, Shape
  <2>3. t \in Pending(i)' => t \in Pending(i) BY <2>1, <2>2 DEF Pending
  <2>4. t \in Making(i) => wo'[i] = "dispatched"
    BY <1>0, <2>1 DEF Making, SetStatus, Shape
  <2>5. OthersStand(t) BY <1>8, <1>15 DEF PassWorks
  <2> QED BY <1>6, <1>9, <2>1, <2>3, <2>4, <2>5 DEF Unsettled
<1>16. ASSUME NEW t \in Passes, CreateRun(t) PROVE CountsAt(i)'
  <2>1. PICK k \in RunNumbers : run' = [run EXCEPT ![cur[t]][k] = "live"] BY <1>16 DEF CreateRun
  <2>2. /\ pc[t] = "create" /\ Goes(t, "records") /\ UNCHANGED <<wo, faults, batch, cur>>
    BY <1>16 DEF CreateRun
  <2>3. pc'[t] = "records" BY <1>0, <2>2 DEF Goes, Shape
  <2>4. OthersStand(t) BY <1>8, <1>16 DEF PassWorks
  <2>5. \A y \in RunNumbers : run'[i][y] = IF i = cur[t] /\ y = k THEN "live" ELSE run[i][y]
    BY <1>0, <2>1, RunWritten
  <2>6. CASE cur[t] = i
    <3>1. Making(i)' \ {t} = Making(i) \ {t} /\ Pending(i)' \ {t} = Pending(i) \ {t}
      BY <2>4, OthersCount
    <3>2. t \in Pending(i) /\ t \notin Making(i) BY <2>2, <2>6 DEF Pending, Making, Owning
    <3>3. cur[t] \notin Range(batch[t]) BY <1>0, <2>2 DEF BatchOnce, Dispatching
    <3>4. t \notin Pending(i)' BY <2>2, <2>3, <2>6, <3>3 DEF Pending
    <3>5. t \in Making(i)' BY <2>2, <2>3, <2>6 DEF Making, Owning
    <3>6. RunsOf(i)' \subseteq RunsOf(i) \cup {k} BY <2>5 DEF RunsOf
    <3>7. Pending(i)' \subseteq Pending(i) \ {t} /\ Making(i) \cup {t} \subseteq Making(i)'
      BY <3>1, <3>4, <3>5
    <3> QED BY <1>0, <1>1, <2>2, <3>2, <3>6, <3>7, CountsCreate
  <2>7. CASE cur[t] # i
    <3>1. RunsOf(i)' \subseteq RunsOf(i) BY <2>5, <2>7 DEF RunsOf
    <3>2. t \notin Making(i) BY <2>7 DEF Making
    <3> QED BY <1>6, <1>7, <2>2, <2>3, <2>4, <3>1, <3>2
  <2> QED BY <2>6, <2>7
<1>17. ASSUME NEW t \in Passes, Recover(t) PROVE CountsAt(i)'
  <2>1. /\ pc[t] \in {"refused", "recover"} /\ RowDone(t) /\ UNCHANGED <<wo, faults, batch>>
        /\ \/ pc[t] = "refused" /\ run' = [run EXCEPT ![cur[t]][num[t]] = "none"]
           \/ pc[t] = "recover" /\ run' = [run EXCEPT ![cur[t]][num[t]] = "ended"]
           \/ pc[t] = "recover" /\ UNCHANGED run
    BY <1>17 DEF Recover
  <2>2. pc'[t] = "next" BY <1>0, <2>1 DEF RowDone, Goes, Shape
  <2>3. t \in Pending(i)' => t \in Pending(i) BY <2>1, <2>2 DEF Pending
  <2>4. OthersStand(t) BY <1>8, <1>17 DEF PassWorks
  <2>5. cur[t] \in Issues /\ num[t] \in RunNumbers /\ run[cur[t]][num[t]] # "none"
    <3>1. pc[t] \in Dispatching /\ pc[t] \in Owning BY <2>1 DEF Dispatching, Owning
    <3>2. cur[t] \in Issues BY <1>0, <3>1 DEF BatchOnce
    <3> QED BY <1>0, <3>1, <3>2 DEF OwnedRows, Owns
  <2>6. CASE pc[t] = "refused" /\ cur[t] = i
    <3>1. run' = [run EXCEPT ![i][num[t]] = "none"] BY <2>1, <2>6
    <3>2. \A y \in RunNumbers : run'[i][y] = IF y = num[t] THEN "none" ELSE run[i][y]
      BY <1>0, <3>1, RunWritten
    <3>3. num[t] \in RunsOf(i) /\ RunsOf(i)' \subseteq RunsOf(i) \ {num[t]}
      BY <2>5, <2>6, <3>2 DEF RunsOf
    <3>4. Making(i)' \ {t} = Making(i) \ {t} /\ Pending(i)' \ {t} = Pending(i) \ {t}
      BY <2>4, OthersCount
    <3>5. Pending(i)' \subseteq Pending(i) /\ Making(i) \ {t} \subseteq Making(i)' BY <2>3, <3>4
    <3> QED BY <1>0, <1>1, <2>1, <3>3, <3>5, CountsRefused
  <2>7. CASE pc[t] = "recover" \/ cur[t] # i
    <3>1. t \notin Making(i) BY <2>7 DEF Making
    <3>2. RunsOf(i)' \subseteq RunsOf(i)
      <4>1. CASE UNCHANGED run BY <1>9, <4>1
      <4>2. ASSUME NEW v \in {"none", "ended"}, run' = [run EXCEPT ![cur[t]][num[t]] = v]
            PROVE  RunsOf(i)' \subseteq RunsOf(i)
        <5>1. \A y \in RunNumbers : run'[i][y] = IF i = cur[t] /\ y = num[t] THEN v ELSE run[i][y]
          BY <1>0, <4>2, RunWritten
        <5> QED BY <2>5, <5>1 DEF RunsOf
      <4> QED BY <2>1, <4>1, <4>2
    <3> QED BY <1>6, <2>1, <2>3, <2>4, <3>1, <3>2
  <2> QED BY <2>1, <2>6, <2>7
<1>18. ASSUME NEW t \in Passes, ObserveFault(t) PROVE CountsAt(i)'
  <2>1. /\ UNCHANGED <<run, batch, cur>> /\ faults' = faults + 1
        /\ UNCHANGED pc \/ Goes(t, "drain")
    BY <1>18 DEF ObserveFault, Fault, rowVars
  <2>2. pc'[t] # "create" \/ UNCHANGED pc BY <1>0, <2>1 DEF Goes, Shape
  <2>3. t \in Pending(i)' => t \in Pending(i) BY <2>1, <2>2 DEF Pending
  <2>4. OthersStand(t) BY <1>0, <1>18, PassAlone
  <2> QED BY <1>6, <1>9, <2>1, <2>3, <2>4
<1>19. ASSUME NEW t \in Passes, DispatchFault(t) PROVE CountsAt(i)'
  <2>1. UNCHANGED run /\ faults' = faults + 1 BY <1>19 DEF DispatchFault, Fault, rowVars
  <2>2. t \in Pending(i)' => t \in Pending(i)
    <3>1. CASE /\ pc[t] = "next" /\ batch[t] # <<>>
               /\ batch' = [batch EXCEPT ![t] = Tail(batch[t])] /\ UNCHANGED <<pc, cur>>
      <4>1. batch'[t] = Tail(batch[t]) BY <1>0, <3>1 DEF ListsOK
      <4>2. Range(Tail(batch[t])) \subseteq Range(batch[t])
        BY <1>0, <3>1, BatchShrinks DEF ListsOK
      <4> QED BY <3>1, <4>1, <4>2 DEF Pending
    <3>2. CASE RowDone(t) /\ UNCHANGED batch
      <4>1. pc'[t] = "next" BY <1>0, <3>2 DEF RowDone, Goes, Shape
      <4> QED BY <3>2, <4>1 DEF Pending
    <3>3. CASE Goes(t, "recover") /\ UNCHANGED <<batch, cur>>
      <4>1. pc'[t] = "recover" BY <1>0, <3>3 DEF Goes, Shape
      <4> QED BY <3>3, <4>1 DEF Pending
    <3> QED BY <1>19, <3>1, <3>2, <3>3 DEF DispatchFault
  <2>3. OthersStand(t) BY <1>0, <1>19, PassAlone
  <2> QED BY <1>6, <1>9, <2>1, <2>2, <2>3
<1>20. ASSUME NEW j \in Issues, NEW k \in RunNumbers, AgentEnds(j, k) \/ PollRun(j, k)
       PROVE  CountsAt(i)'
  <2>1. UNCHANGED <<pc, cur, batch, faults>>
    BY <1>20 DEF AgentEnds, PollRun, PollEnded, PollUnknown, passVars
  <2>2. CASE UNCHANGED run BY <1>5, <1>9, <2>1, <2>2
  <2>3. CASE PollEnded(j, k)
    <3>1. \/ run' = [run EXCEPT ![j][k] = IF run[j][k] = "live" THEN "ended" ELSE run[j][k]]
          \/ UNCHANGED run
      <4>1. \/ run' = [run EXCEPT ![j][k] = run[j][k]]
            \/ run[j][k] = "live" /\ run' = [run EXCEPT ![j][k] = "ended"]
        BY <2>3 DEF PollEnded
      <4>2. [run EXCEPT ![j][k] = run[j][k]] = run BY <1>0 DEF Shape
      <4> QED BY <4>1, <4>2
    <3>2. \A y \in RunNumbers : run'[i][y] # "none" => run[i][y] # "none"
      BY <1>0, <3>1 DEF Shape
    <3>3. RunsOf(i)' \subseteq RunsOf(i) BY <3>2 DEF RunsOf
    <3> QED BY <1>5, <2>1, <3>3
  <2> QED BY <1>20, <2>2, <2>3 DEF AgentEnds, PollRun, PollUnknown, rowVars
<1>21. CASE (\E j \in Issues, l \in Labels : EditLabel(j, l)) \/ SwitchDispatch \/ GatesChange
  BY <1>5, <1>9, <1>21 DEF EditLabel, SwitchDispatch, GatesChange, passVars, rowVars
<1>22. CASE UNCHANGED vars BY <1>5, <1>9, <1>22 DEF vars, passVars, rowVars
<1>23. ASSUME NEW t \in Passes, PassWorks(t) PROVE CountsAt(i)'
  BY <1>10, <1>11, <1>12, <1>13, <1>14, <1>15, <1>16, <1>17, <1>23 DEF PassWorks
<1> QED BY <1>18, <1>19, <1>20, <1>21, <1>22, <1>23 DEF Next

\* The counts hold along every behaviour.
LEMMA CountsSafe == Spec => []CountInv
<1>1. Init => CountInv
  <2> SUFFICES ASSUME Init PROVE CountInv OBVIOUS
  <2>1. TypedInv BY TypedBegins
  <2>2. /\ \A t \in Passes : pc[t] = "idle" /\ batch[t] = <<>>
        /\ \A i \in Issues : wo[i] = "none" /\ \A k \in RunNumbers : run[i][k] = "none"
        /\ faults = 0
    BY DEF Init, Nothing
  <2>3. IsInjective(<<>>) BY DEF IsInjective
  <2>4. BatchOnce BY <2>2, <2>3 DEF BatchOnce, Dispatching, Owning
  <2>5. LabelsStand BY <2>2 DEF LabelsStand, AsLabelled, HOLDABLE_STATUSES
  <2>6. ASSUME NEW i \in Issues PROVE CountsAt(i)
    <3>1. RunsOf(i) = {} BY <2>2 DEF RunsOf
    <3>2. Cardinality(RunsOf(i)) = 0 BY <3>1, FS_EmptySet
    <3>3. Pending(i) \subseteq Passes BY DEF Pending
    <3>4. Cardinality(Pending(i)) <= Cardinality(Passes) BY <3>3, QueueConstants, FS_Subset
    <3> QED BY <2>2, <3>2, <3>4, CountsFinite DEF CountsAt
  <2> QED BY <2>1, <2>4, <2>5, <2>6 DEF CountInv
<1>2. CountInv /\ TypedInv' /\ [Next]_vars => CountInv'
  <2> SUFFICES ASSUME CountInv, TypedInv', [Next]_vars PROVE CountInv' OBVIOUS
  <2>1. TypedInv BY DEF CountInv
  <2>2. BatchOnce' BY <2>1, BatchOnceStep DEF CountInv
  <2>3. ASSUME edits' = 0 PROVE LabelsStand' /\ \A i \in Issues : CountsAt(i)'
    <3>1. edits = 0 BY <2>1, <2>3, NoEditsBefore
    <3>2. LabelsStand BY <3>1 DEF CountInv
    <3>3. LabelsStand' BY <2>1, <2>3, <3>2, LabelsStep
    <3> QED BY <2>3, <3>3, CountsStep
  <2> QED BY <2>2, <2>3 DEF CountInv
<1> QED BY <1>1, <1>2, TypedSafe, PTL DEF Spec

\* While nobody edits labels or settings, a work order gets at most one run for
\* each pass that may be in flight and one for each failed call, however many
\* passes drain old batches and however often the runner refuses.
THEOREM OrdersRunSeldom == Spec => []RunsPerOrder
<1>1. CountInv => RunsPerOrder
  <2> SUFFICES ASSUME CountInv, edits = 0, NEW i \in Issues
               PROVE  Cardinality(RunsOf(i)) <= Cardinality(Passes) + faults
    BY DEF RunsPerOrder
  <2>1. CountsAt(i) BY DEF CountInv
  <2>2. faults \in Nat BY QueueConstants DEF CountInv, TypedInv, WorldOK
  <2> QED BY <2>1, <2>2, CountsFinite DEF CountsAt
<1> QED BY <1>1, CountsSafe, PTL

-----------------------------------------------------------------------------
(* While passes do not overlap *)

\* The interval of the reconciler's timer is longer than its pass.  The drain is
\* under no lease, so nothing else keeps passes apart.
OnePass == \A t, u \in Passes : t = u

\* A pass has a batch to drain.
Draining    == {"next"} \cup Dispatching

\* The rows of the batch are still the queued ones it read, each once;
BatchIsCurrent == \A t \in Passes :
  pc[t] \in Draining =>
    IsInjective(batch[t]) /\ Range(batch[t]) \subseteq {i \in Issues : wo[i] = "queued"}
\* the one it dispatches is queued and not in the batch any more;
CurIsQueued == \A t \in Passes :
  pc[t] \in Dispatching =>
    cur[t] \in Issues /\ wo[cur[t]] = "queued" /\ cur[t] \notin Range(batch[t])
\* what it has yet to project is as it was loaded;
LoadedIsCurrent == \A t \in Passes :
  pc[t] = "project" => \A i \in todo[t] : rows[t][i] = wo[i]
\* a child that is alive is the one the runner holds for its identity, and
\* a child is about to start only where none is alive.
HeldChild == \A i \in Issues : agents[i] \subseteq {entry[i]}
NoneAlive == \A t \in Passes : pc[t] = "provision" => agents[cur[t]] = {}

SerialInv ==
  /\ TypedInv /\ BatchIsCurrent /\ CurIsQueued /\ LoadedIsCurrent /\ HeldChild /\ NoneAlive

\* What the steps may do to the statuses and the lists of the one pass for the
\* first three parts to stay.
LEMMA ListsStayCurrent ==
  ASSUME OnePass, SerialInv, TypedInv', NEW t \in Passes,
         pc'[t] \in Draining =>
           IsInjective(batch'[t]) /\ Range(batch'[t]) \subseteq {i \in Issues : wo'[i] = "queued"},
         pc'[t] \in Dispatching =>
           cur'[t] \in Issues /\ wo'[cur'[t]] = "queued" /\ cur'[t] \notin Range(batch'[t]),
         pc'[t] = "project" => \A i \in todo'[t] : rows'[t][i] = wo'[i]
  PROVE  BatchIsCurrent' /\ CurIsQueued' /\ LoadedIsCurrent'
<1>1. \A u \in Passes : u = t BY DEF OnePass
<1>2. BatchIsCurrent' BY <1>1 DEF BatchIsCurrent
<1>3. CurIsQueued' BY <1>1 DEF CurIsQueued
<1>4. LoadedIsCurrent' BY <1>1 DEF LoadedIsCurrent
<1> QED BY <1>2, <1>3, <1>4

\* Steps that leave the statuses and the lists alone.
LEMMA ListsUntouched ==
  ASSUME SerialInv, UNCHANGED <<wo, batch, cur, pc, rows, todo>>
  PROVE  BatchIsCurrent' /\ CurIsQueued' /\ LoadedIsCurrent'
BY DEF SerialInv, BatchIsCurrent, CurIsQueued, LoadedIsCurrent

\* The batch, the current row and the loaded rows stay true to the statuses.
LEMMA ListsStep ==
  ASSUME OnePass, SerialInv, TypedInv', [Next]_vars
  PROVE  BatchIsCurrent' /\ CurIsQueued' /\ LoadedIsCurrent'
<1> DEFINE P == BatchIsCurrent' /\ CurIsQueued' /\ LoadedIsCurrent'
<1>0. TypedInv /\ Shape /\ QueueOK /\ ListsOK /\ CurOK BY DEF SerialInv, TypedInv, QueueInv
<1>1. ASSUME NEW t \in Passes,
             \/ Observe(t) \/ SkipObserve(t) \/ EndProjection(t) \/ EndPass(t) PROVE P
  <2>1. pc'[t] \in {"load", "drain", "idle"}
    BY <1>0, <1>1 DEF Observe, SkipObserve, EndProjection, EndPass, Goes, Shape
  <2>2. pc'[t] \notin Draining /\ pc'[t] \notin Dispatching /\ pc'[t] # "project"
    BY <2>1 DEF Draining, Dispatching, Owning
  <2> QED BY <2>2, ListsStayCurrent
<1>2. ASSUME NEW t \in Passes, LoadWorkOrders(t) PROVE P
  <2>1. pc'[t] \in {"project", "drain"} /\ rows'[t] = wo /\ UNCHANGED wo
    BY <1>0, <1>2 DEF LoadWorkOrders, Goes, Shape, ListsOK, rowVars
  <2>2. pc'[t] \notin Draining /\ pc'[t] \notin Dispatching
    BY <2>1 DEF Draining, Dispatching, Owning
  <2> QED BY <2>1, <2>2, ListsStayCurrent
<1>3. ASSUME NEW t \in Passes, NEW i \in Issues, ProjectOne(t, i) PROVE P
  <2>1. /\ pc[t] = "project" /\ UNCHANGED <<pc, rows>> /\ todo'[t] = todo[t] \ {i}
        /\ todo[t] \subseteq Issues
    BY <1>0, <1>3 DEF ProjectOne, ListsOK
  <2>2. pc'[t] \notin Draining /\ pc'[t] \notin Dispatching
    BY <2>1 DEF Draining, Dispatching, Owning
  <2>3. \A j \in Issues : j # i => wo'[j] = wo[j]
    <3>1. UNCHANGED wo \/ \E s : wo' = [wo EXCEPT ![i] = s] BY <1>3 DEF ProjectOne, SetStatus
    <3> QED BY <1>0, <3>1 DEF Shape
  <2>4. \A j \in todo'[t] : rows'[t][j] = wo'[j]
    BY <2>1, <2>3 DEF SerialInv, LoadedIsCurrent
  <2> QED BY <2>2, <2>4, ListsStayCurrent
<1>4. ASSUME NEW t \in Passes, ObserveFault(t) PROVE P
  <2>1. pc[t] \in {"load", "project"} /\ UNCHANGED <<wo, rows>>
        /\ \/ UNCHANGED pc /\ \E i : todo' = [todo EXCEPT ![t] = todo[t] \ {i}]
           \/ pc' = [pc EXCEPT ![t] = "drain"]
    BY <1>4 DEF ObserveFault, Goes, rowVars
  <2>2. pc'[t] \in {"load", "project", "drain"} BY <1>0, <2>1 DEF Shape
  <2>3. pc'[t] \notin Draining /\ pc'[t] \notin Dispatching
    BY <2>2 DEF Draining, Dispatching, Owning
  <2>4. pc'[t] = "project" => pc[t] = "project" /\ todo'[t] \subseteq todo[t]
    BY <1>0, <2>1 DEF Shape, ListsOK
  <2>5. pc'[t] = "project" => \A j \in todo'[t] : rows'[t][j] = wo'[j]
    BY <2>1, <2>4 DEF SerialInv, LoadedIsCurrent
  <2> QED BY <2>3, <2>5, ListsStayCurrent
<1>5. ASSUME NEW t \in Passes, Drain(t) PROVE P
  <2> DEFINE q == SubSeq(queue, 1, Min({BatchSize, Len(queue)}))
  <2>1. IsInjective(q) /\ Range(q) \subseteq Range(queue)
    BY <1>0, BatchIsPrefix, QueueConstants DEF QueueOK
  <2>2. batch' = [batch EXCEPT ![t] = q] /\ UNCHANGED wo BY <1>5 DEF Drain, rowVars
  <2> HIDE DEF q
  <2>3. batch'[t] = q /\ pc'[t] = "next" BY <1>0, <1>5, <2>2 DEF ListsOK, Shape, Drain, Goes
  <2>4. Range(q) \subseteq {i \in Issues : wo'[i] = "queued"} BY <1>0, <2>1, <2>2 DEF QueueOK
  <2>5. pc'[t] \notin Dispatching /\ pc'[t] # "project" BY <2>3 DEF Dispatching, Owning
  <2> QED BY <2>1, <2>3, <2>4, <2>5, ListsStayCurrent
<1>6. ASSUME NEW t \in Passes, DispatchOne(t) PROVE P
  <2> DEFINE i == Head(batch[t])
             r == Tail(batch[t])
  <2>1. /\ pc[t] = "next" /\ batch[t] # <<>> /\ batch' = [batch EXCEPT ![t] = r]
        /\ PassedOver(t) \/ Quarantine(t, i) \/ Admitted(t, i) \/ StaysQueued(t, i)
    BY <1>6 DEF DispatchOne
  <2>2. batch'[t] = r BY <1>0, <2>1 DEF ListsOK
  <2>3. IsInjective(batch[t]) /\ Range(batch[t]) \subseteq {j \in Issues : wo[j] = "queued"}
    BY <2>1 DEF SerialInv, BatchIsCurrent, Draining
  <2>4. /\ i \in Range(batch[t]) /\ Range(r) \subseteq Range(batch[t])
        /\ IsInjective(r) /\ i \notin Range(r)
    BY <1>0, <2>1, <2>3, BatchShrinks DEF ListsOK
  <2> HIDE DEF r, i
  <2>5. CASE Admitted(t, i)
    <3>1. pc'[t] = "create" /\ cur'[t] = i /\ UNCHANGED wo
      BY <1>0, <2>5 DEF Admitted, Goes, Shape, CurOK
    <3>2. Range(r) \subseteq {j \in Issues : wo'[j] = "queued"} BY <2>3, <2>4, <3>1
    <3>3. cur'[t] \in Issues /\ wo'[cur'[t]] = "queued" /\ cur'[t] \notin Range(batch'[t])
      BY <2>2, <2>3, <2>4, <3>1
    <3>4. pc'[t] # "project" BY <3>1
    <3> QED BY <2>2, <2>4, <3>2, <3>3, <3>4, ListsStayCurrent
  <2>6. CASE PassedOver(t) \/ Quarantine(t, i) \/ StaysQueued(t, i)
    <3>1. pc'[t] = "next" BY <2>1, <2>6 DEF PassedOver, Quarantine, StaysQueued
    <3>2. pc'[t] \notin Dispatching /\ pc'[t] # "project" BY <3>1 DEF Dispatching, Owning
    <3>3. \A j \in Issues : j # i => wo'[j] = wo[j]
      BY <1>0, <2>6 DEF PassedOver, Quarantine, StaysQueued, SetStatus, Shape
    <3>4. Range(r) \subseteq {j \in Issues : wo'[j] = "queued"} BY <2>3, <2>4, <3>3
    <3> QED BY <2>2, <2>4, <3>2, <3>4, ListsStayCurrent
  <2> QED BY <2>1, <2>5, <2>6
<1>7. ASSUME NEW t \in Passes, pc[t] \in Dispatching, UNCHANGED <<wo, batch, cur>>,
             \E to \in Owning : Goes(t, to) PROVE P
  <2>1. pc[t] \in Draining /\ pc'[t] \in Owning
    BY <1>0, <1>7 DEF Draining, Goes, Shape
  <2>2. pc'[t] # "project" BY <2>1 DEF Owning
  <2>3. IsInjective(batch'[t]) /\ Range(batch'[t]) \subseteq {j \in Issues : wo'[j] = "queued"}
    BY <1>7, <2>1 DEF SerialInv, BatchIsCurrent
  <2>4. cur'[t] \in Issues /\ wo'[cur'[t]] = "queued" /\ cur'[t] \notin Range(batch'[t])
    BY <1>7 DEF SerialInv, CurIsQueued
  <2> QED BY <2>2, <2>3, <2>4, ListsStayCurrent
<1>8. ASSUME NEW t \in Passes, \/ CreateRun(t) \/ WriteRecords(t) \/ Submit(t) \/ Provision(t) PROVE P
  <2>1. pc[t] \in {"create", "records", "submit", "provision"} /\ UNCHANGED <<wo, batch, cur>>
    BY <1>8 DEF CreateRun, WriteRecords, Submit, Provision, rowVars
  <2>2. \E to \in {"records", "submit", "mark", "refused", "provision"} : Goes(t, to)
    BY <1>8 DEF CreateRun, WriteRecords, Submit, Provision
  <2> QED BY <1>7, <2>1, <2>2 DEF Dispatching, Owning
<1>9. ASSUME NEW t \in Passes, pc[t] \in Dispatching, RowDone(t), UNCHANGED batch,
             \A j \in Issues : j # cur[t] => wo'[j] = wo[j] PROVE P
  <2>1. pc[t] \in Draining /\ pc'[t] = "next"
    BY <1>0, <1>9 DEF Draining, RowDone, Goes, Shape
  <2>2. pc'[t] \notin Dispatching /\ pc'[t] # "project" BY <2>1 DEF Dispatching, Owning
  <2>3. IsInjective(batch[t]) /\ Range(batch[t]) \subseteq {j \in Issues : wo[j] = "queued"}
    BY <2>1 DEF SerialInv, BatchIsCurrent
  <2>4. cur[t] \notin Range(batch[t]) BY <1>9 DEF SerialInv, CurIsQueued
  <2>5. Range(batch'[t]) \subseteq {j \in Issues : wo'[j] = "queued"} BY <1>9, <2>3, <2>4
  <2> QED BY <1>9, <2>2, <2>3, <2>5, ListsStayCurrent
<1>10. ASSUME NEW t \in Passes, MarkDispatched(t) PROVE P
  <2>1. /\ pc[t] = "mark" /\ RowDone(t) /\ UNCHANGED batch
        /\ wo' = [wo EXCEPT ![cur[t]] = "dispatched"]
    BY <1>10 DEF MarkDispatched, SetStatus
  <2>2. \A j \in Issues : j # cur[t] => wo'[j] = wo[j] BY <1>0, <2>1 DEF Shape
  <2> QED BY <1>9, <2>1, <2>2 DEF Dispatching, Owning
<1>11. ASSUME NEW t \in Passes, Recover(t) PROVE P
  <2>1. pc[t] \in {"refused", "recover"} /\ RowDone(t) /\ UNCHANGED <<wo, batch>>
    BY <1>11 DEF Recover
  <2> QED BY <1>9, <2>1 DEF Dispatching, Owning
<1>12. ASSUME NEW t \in Passes, DispatchFault(t) PROVE P
  <2>0. UNCHANGED <<wo, rows, todo>> BY <1>12 DEF DispatchFault, rowVars
  <2>1. CASE /\ pc[t] = "next" /\ batch[t] # <<>>
             /\ batch' = [batch EXCEPT ![t] = Tail(batch[t])] /\ UNCHANGED <<pc, cur, num>>
    <3> DEFINE r == Tail(batch[t])
    <3>1. batch'[t] = r BY <1>0, <2>1 DEF ListsOK
    <3>2. IsInjective(batch[t]) /\ Range(batch[t]) \subseteq {j \in Issues : wo[j] = "queued"}
      BY <2>1 DEF SerialInv, BatchIsCurrent, Draining
    <3>3. Range(r) \subseteq Range(batch[t]) /\ IsInjective(r)
      BY <1>0, <2>1, <3>2, BatchShrinks DEF ListsOK
    <3> HIDE DEF r
    <3>4. pc'[t] \notin Dispatching /\ pc'[t] # "project" BY <2>1 DEF Dispatching, Owning
    <3>5. Range(r) \subseteq {j \in Issues : wo'[j] = "queued"} BY <2>0, <3>2, <3>3
    <3> QED BY <3>1, <3>3, <3>4, <3>5, ListsStayCurrent
  <2>2. CASE pc[t] \in {"create", "refused", "recover"} /\ RowDone(t) /\ UNCHANGED batch
    BY <1>9, <2>0, <2>2 DEF Dispatching, Owning
  <2>3. CASE /\ pc[t] \in {"records", "provision", "mark"} /\ Goes(t, "recover")
             /\ UNCHANGED <<cur, num, batch>>
    BY <1>7, <2>0, <2>3 DEF Dispatching, Owning
  <2> QED BY <1>12, <2>1, <2>2, <2>3 DEF DispatchFault
<1>13. ASSUME NEW i \in Issues, NEW k \in RunNumbers, AgentEnds(i, k) \/ PollRun(i, k) PROVE P
  BY <1>13, ListsUntouched DEF AgentEnds, PollRun, PollEnded, PollUnknown, rowVars, passVars
<1>14. CASE (\E i \in Issues, l \in Labels : EditLabel(i, l)) \/ SwitchDispatch \/ GatesChange
  BY <1>14, ListsUntouched DEF EditLabel, SwitchDispatch, GatesChange, rowVars, passVars
<1>15. CASE UNCHANGED vars BY <1>15, ListsUntouched DEF vars, rowVars, passVars
<1>16. ASSUME NEW t \in Passes, PassWorks(t) PROVE P
  BY <1>1, <1>2, <1>3, <1>5, <1>6, <1>8, <1>10, <1>11, <1>16 DEF PassWorks
<1> QED BY <1>4, <1>12, <1>13, <1>14, <1>15, <1>16 DEF Next

\* A pass that is not about to start a child, or starts none.
LEMMA ChildrenUntouched ==
  ASSUME OnePass, SerialInv, NEW t \in Passes, UNCHANGED entry,
         agents' \in [Issues -> SUBSET RunNumbers],
         \A i \in Issues : agents'[i] \subseteq agents[i], pc'[t] # "provision"
  PROVE  HeldChild' /\ NoneAlive'
<1>1. HeldChild' BY DEF SerialInv, HeldChild
<1>2. NoneAlive' BY DEF OnePass, NoneAlive
<1> QED BY <1>1, <1>2

\* A child starts only where the runner holds none that is alive.
LEMMA ChildrenStep ==
  ASSUME OnePass, SerialInv, TypedInv', [Next]_vars
  PROVE  HeldChild' /\ NoneAlive'
<1> DEFINE P == HeldChild' /\ NoneAlive'
<1>0. Shape /\ RunnerOK BY DEF SerialInv, TypedInv, QueueInv
<1>1. CASE UNCHANGED <<entry, agents, pc, cur>>
  BY <1>1 DEF SerialInv, HeldChild, NoneAlive
<1>2. ASSUME NEW t \in Passes, UNCHANGED <<entry, agents>>,
             \E to \in PCs : Goes(t, to) /\ to # "provision" PROVE P
  <2>1. pc'[t] # "provision" BY <1>0, <1>2 DEF Goes, Shape
  <2> QED BY <1>0, <1>2, <2>1, ChildrenUntouched DEF Shape
<1>3. ASSUME NEW t \in Passes, Submit(t) PROVE P
  <2> DEFINE i == cur[t]
  <2>0. i \in Issues
    <3>1. pc[t] \in Dispatching BY <1>3 DEF Submit, Dispatching, Owning
    <3> QED BY <3>1 DEF SerialInv, CurIsQueued
  <2>1. PICK kept \in {entry[i]} \cup
                      (IF entry[i] # 0 /\ entry[i] \notin agents[i] \cup report[i]
                       THEN {0} ELSE {}) :
          /\ entry' = [entry EXCEPT ![i] = kept]
          /\ \/ kept # 0 /\ Goes(t, "mark")
             \/ kept = 0 /\ \E to \in {"refused", "provision"} : Goes(t, to)
    BY <1>3 DEF Submit
  <2>2. UNCHANGED <<agents, cur>> BY <1>3 DEF Submit
  <2>3. kept = 0 => agents[i] = {}
    <3>1. agents[i] \subseteq {entry[i]} /\ agents[i] \subseteq RunNumbers /\ 0 \notin RunNumbers
      BY <1>0, <2>0 DEF SerialInv, HeldChild, Shape, RunNumbers
    <3> QED BY <2>1, <3>1
  <2>4. HeldChild'
    <3> SUFFICES ASSUME NEW j \in Issues PROVE agents[j] \subseteq {entry'[j]}
      BY <2>2 DEF HeldChild
    <3>1. CASE j # i BY <1>0, <2>1, <3>1 DEF SerialInv, HeldChild, RunnerOK
    <3>2. CASE j = i
      <4>1. entry'[i] = kept BY <1>0, <2>0, <2>1 DEF RunnerOK
      <4>2. kept = entry[i] \/ kept = 0 BY <2>1
      <4> QED BY <2>0, <2>3, <3>2, <4>1, <4>2 DEF SerialInv, HeldChild
    <3> QED BY <3>1, <3>2
  <2>5. pc'[t] = "provision" => kept = 0 BY <1>0, <2>1 DEF Goes, Shape
  <2>6. NoneAlive' BY <2>2, <2>3, <2>5 DEF OnePass, NoneAlive
  <2> QED BY <2>4, <2>6
<1>4. ASSUME NEW t \in Passes, Provision(t) PROVE P
  <2> DEFINE i == cur[t]
             k == num[t]
  <2>1. /\ pc[t] = "provision" /\ entry' = [entry EXCEPT ![i] = k]
        /\ agents' = [agents EXCEPT ![i] = agents[i] \cup {k}] /\ Goes(t, "mark")
    BY <1>4 DEF Provision
  <2>2. agents[i] = {} BY <2>1 DEF SerialInv, NoneAlive
  <2> HIDE DEF i, k
  <2>3. HeldChild'
    <3> SUFFICES ASSUME NEW j \in Issues PROVE agents'[j] \subseteq {entry'[j]}
      BY DEF HeldChild
    <3>1. CASE j # i BY <1>0, <2>1, <3>1 DEF SerialInv, HeldChild, RunnerOK, Shape
    <3>2. CASE j = i BY <1>0, <2>1, <2>2, <3>2 DEF RunnerOK, Shape
    <3> QED BY <3>1, <3>2
  <2>4. pc'[t] # "provision" BY <1>0, <2>1 DEF Goes, Shape
  <2>5. NoneAlive' BY <2>4 DEF OnePass, NoneAlive
  <2> QED BY <2>3, <2>5
<1>5. ASSUME NEW t \in Passes, PassWorks(t) PROVE P
  <2>1. CASE \E i \in Issues : ProjectOne(t, i)
    <3>1. pc[t] = "project" /\ UNCHANGED <<entry, agents, pc, cur>>
      BY <2>1 DEF ProjectOne, runner
    <3> QED BY <1>1, <3>1
  <2>2. CASE \/ Observe(t) \/ SkipObserve(t) \/ LoadWorkOrders(t) \/ EndProjection(t) \/ Drain(t)
             \/ EndPass(t) \/ CreateRun(t) \/ WriteRecords(t) \/ MarkDispatched(t) \/ Recover(t)
    <3>1. UNCHANGED <<entry, agents>>
      BY <2>2 DEF Observe, SkipObserve, LoadWorkOrders, EndProjection, Drain, EndPass, CreateRun,
         WriteRecords, MarkDispatched, Recover, runner
    <3>2. \E to \in {"load", "drain", "project", "next", "idle", "records", "submit"} : Goes(t, to)
      BY <2>2 DEF Observe, SkipObserve, LoadWorkOrders, EndProjection, Drain, EndPass, CreateRun,
         WriteRecords, MarkDispatched, Recover, RowDone
    <3> QED BY <1>2, <3>1, <3>2 DEF PCs
  <2>3. CASE DispatchOne(t)
    <3>1. UNCHANGED <<entry, agents>> BY <2>3 DEF DispatchOne, runner
    <3>2. Goes(t, "create") \/ (UNCHANGED pc /\ pc[t] = "next")
      BY <2>3 DEF DispatchOne, PassedOver, Quarantine, Admitted, StaysQueued
    <3>3. pc'[t] # "provision" BY <1>0, <3>2 DEF Goes, Shape
    <3> QED BY <1>0, <3>1, <3>3, ChildrenUntouched DEF Shape
  <2> QED BY <1>3, <1>4, <1>5, <2>1, <2>2, <2>3 DEF PassWorks
<1>6. ASSUME NEW t \in Passes, ObserveFault(t) \/ DispatchFault(t) PROVE P
  <2>1. UNCHANGED <<entry, agents>> BY <1>6 DEF ObserveFault, DispatchFault, runner
  <2>2. \/ UNCHANGED <<pc, cur>>
        \/ \E to \in {"drain", "next", "recover"} : Goes(t, to)
    BY <1>6 DEF ObserveFault, DispatchFault, RowDone
  <2> QED BY <1>1, <1>2, <2>1, <2>2 DEF PCs
<1>7. ASSUME NEW i \in Issues, NEW k \in RunNumbers, AgentEnds(i, k) \/ PollRun(i, k) PROVE P
  <2>1. UNCHANGED <<entry, pc, cur>>
    BY <1>7 DEF AgentEnds, PollRun, PollEnded, PollUnknown, passVars
  <2>2. /\ agents' \in [Issues -> SUBSET RunNumbers]
        /\ \A j \in Issues : agents'[j] \subseteq agents[j]
    BY <1>0, <1>7 DEF AgentEnds, PollRun, PollEnded, PollUnknown, Shape
  <2>3. HeldChild' BY <2>1, <2>2 DEF SerialInv, HeldChild
  <2>4. NoneAlive'
    <3>1. \A t \in Passes : pc[t] = "provision" => cur[t] \in Issues
      BY DEF SerialInv, CurIsQueued, Dispatching, Owning
    <3> QED BY <2>1, <2>2, <3>1 DEF SerialInv, NoneAlive
  <2> QED BY <2>3, <2>4
<1>8. CASE (\E i \in Issues, l \in Labels : EditLabel(i, l)) \/ SwitchDispatch \/ GatesChange
  BY <1>1, <1>8 DEF EditLabel, SwitchDispatch, GatesChange, runner, passVars
<1>9. CASE UNCHANGED vars BY <1>1, <1>9 DEF vars, runner, passVars
<1> QED BY <1>5, <1>6, <1>7, <1>8, <1>9 DEF Next

\* The invariant of a pass that is alone.
LEMMA SerialSafe ==
  ASSUME OnePass PROVE Spec => []SerialInv
<1>1. Init => SerialInv
  <2> SUFFICES ASSUME Init PROVE SerialInv OBVIOUS
  <2>1. \A t \in Passes : pc[t] = "idle" BY DEF Init
  <2>2. BatchIsCurrent /\ CurIsQueued /\ LoadedIsCurrent /\ NoneAlive
    BY <2>1 DEF BatchIsCurrent, CurIsQueued, LoadedIsCurrent, NoneAlive, Draining, Dispatching,
       Owning
  <2>3. HeldChild BY DEF Init, HeldChild, Nothing
  <2> QED BY <2>2, <2>3, TypedBegins DEF SerialInv
<1>2. SerialInv /\ TypedInv' /\ [Next]_vars => SerialInv'
  BY ListsStep, ChildrenStep DEF SerialInv
<1> QED BY <1>1, <1>2, TypedSafe, PTL DEF Spec

\* While passes do not overlap, no step moves a work order out of `dispatched`
\* or `quarantined`: the sweep writes by id what it loaded, and the drain
\* quarantines and marks by id what it read, and both are still true then.
THEOREM SerialSettledStays ==
  ASSUME OnePass PROVE Spec => SettledStays
<1>1. SerialInv /\ [Next]_vars =>
        [\A i \in Issues : wo[i] \in {"dispatched", "quarantined"} => wo'[i] = wo[i]]_vars
  <2> SUFFICES ASSUME SerialInv, Next, NEW i \in Issues, wo[i] \in {"dispatched", "quarantined"}
               PROVE  wo'[i] = wo[i]
    OBVIOUS
  <2>0. Shape /\ ListsOK BY DEF SerialInv, TypedInv, QueueInv
  <2>1. ASSUME NEW j, NEW s, SetStatus(j, s), j # i PROVE wo'[i] = wo[i]
    BY <2>0, <2>1 DEF SetStatus, Shape
  <2>2. ASSUME NEW t \in Passes, NEW j \in Issues, ProjectOne(t, j) PROVE wo'[i] = wo[i]
    <3>1. rows[t][j] = wo[j] BY <2>2 DEF ProjectOne, SerialInv, LoadedIsCurrent
    <3>2. CASE UNCHANGED wo BY <3>2
    <3>3. CASE /\ \E s : SetStatus(j, s)
               /\ wo[j] = "none" \/ rows[t][j] \in HOLDABLE_STATUSES
      <4>1. j # i BY <3>1, <3>3 DEF HOLDABLE_STATUSES
      <4> QED BY <2>1, <3>3, <4>1
    <3> QED BY <2>2, <3>2, <3>3 DEF ProjectOne
  <2>3. ASSUME NEW t \in Passes, DispatchOne(t) PROVE wo'[i] = wo[i]
    <3> DEFINE j == Head(batch[t])
    <3>1. /\ pc[t] = "next" /\ batch[t] # <<>>
          /\ PassedOver(t) \/ Quarantine(t, j) \/ Admitted(t, j) \/ StaysQueued(t, j)
      BY <2>3 DEF DispatchOne
    <3>2. j \in Range(batch[t]) BY <2>0, <3>1, BatchShrinks DEF ListsOK
    <3>3. wo[j] = "queued" BY <3>1, <3>2 DEF SerialInv, BatchIsCurrent, Draining
    <3> HIDE DEF j
    <3>4. CASE Quarantine(t, j) BY <2>1, <3>3, <3>4 DEF Quarantine
    <3> QED BY <3>1, <3>4 DEF PassedOver, Admitted, StaysQueued
  <2>4. ASSUME NEW t \in Passes, MarkDispatched(t) PROVE wo'[i] = wo[i]
    <3>1. pc[t] \in Dispatching /\ SetStatus(cur[t], "dispatched")
      BY <2>4 DEF MarkDispatched, Dispatching, Owning
    <3>2. wo[cur[t]] = "queued" BY <3>1 DEF SerialInv, CurIsQueued
    <3> QED BY <2>1, <3>1, <3>2
  <2>5. ASSUME NEW t \in Passes, PassWorks(t) PROVE wo'[i] = wo[i]
    <3>1. CASE \/ Observe(t) \/ SkipObserve(t) \/ LoadWorkOrders(t) \/ EndProjection(t) \/ Drain(t)
               \/ EndPass(t) \/ CreateRun(t) \/ WriteRecords(t) \/ Submit(t) \/ Provision(t)
               \/ Recover(t)
      BY <3>1 DEF Observe, SkipObserve, LoadWorkOrders, EndProjection, Drain, EndPass, CreateRun,
         WriteRecords, Submit, Provision, Recover, rowVars
    <3> QED BY <2>2, <2>3, <2>4, <2>5, <3>1 DEF PassWorks
  <2>6. ASSUME NEW t \in Passes, ObserveFault(t) \/ DispatchFault(t) PROVE wo'[i] = wo[i]
    BY <2>6 DEF ObserveFault, DispatchFault, rowVars
  <2>7. ASSUME NEW j \in Issues, NEW n \in RunNumbers, AgentEnds(j, n) \/ PollRun(j, n)
        PROVE wo'[i] = wo[i]
    BY <2>7 DEF AgentEnds, PollRun, PollEnded, PollUnknown, rowVars
  <2>8. CASE (\E j \in Issues, l \in Labels : EditLabel(j, l)) \/ SwitchDispatch \/ GatesChange
    BY <2>8 DEF EditLabel, SwitchDispatch, GatesChange, rowVars
  <2> QED BY <2>5, <2>6, <2>7, <2>8 DEF Next
<1> QED BY <1>1, SerialSafe, PTL DEF Spec, SettledStays

\* While passes do not overlap, no work order has two children alive, through
\* failed and repeated dispatches of it: submit returns the invocation the
\* runner still holds, and reaps it only once it has ended.
THEOREM SerialOneAgent ==
  ASSUME OnePass PROVE Spec => []OneAgentPerBranch
<1>1. SerialInv => OneAgentPerBranch
  <2> SUFFICES ASSUME SerialInv, NEW i \in Issues PROVE Cardinality(agents[i]) <= 1
    BY DEF OneAgentPerBranch
  <2>1. agents[i] \subseteq {entry[i]} BY DEF SerialInv, HeldChild
  <2>2. IsFiniteSet({entry[i]}) /\ Cardinality({entry[i]}) = 1 BY FS_Singleton
  <2>3. IsFiniteSet(agents[i]) /\ Cardinality(agents[i]) <= Cardinality({entry[i]})
    BY <2>1, <2>2, FS_Subset
  <2> QED BY <2>2, <2>3
<1> QED BY <1>1, SerialSafe, PTL
=============================================================================
