----------------------------- MODULE SpendControl -----------------------------
(***************************************************************************)
(* The hard spend ceiling (budget/hard-spend-ceiling.ts, spend-admission.  *)
(* ts, spend-ledger.service.ts) and where it is asked: before a work order *)
(* is dispatched and before a parked run is resumed (dispatch/             *)
(* run-executor.service.ts).                                               *)
(*                                                                         *)
(* The runner is claude-code-local, which reports its cost once, in the    *)
(* event that ends the run.  Whole dollars, one window, one run per order. *)
(* The ledger's answer and the row that the admission creates are two      *)
(* steps; nothing is reserved between them.                                *)
(***************************************************************************)
EXTENDS Integers, FiniteSets, Sums

CONSTANTS
  Orders,             \* work orders, one run each
  OrderCeiling,       \* [Orders -> budgetCeilingUsd], Unbounded for null
  RepositoryCeiling,  \* the repository's budgetCeilingUsd, Unbounded for null
  CeilingSettings,    \* the values dispatch.hardSpendCeilingUsd is given
  Dispatchers,        \* reconciler passes that may overlap
  MaxProcessSpend,    \* bound: dollars one process can spend
  MaxSpendChanges,    \* bound: changes of the ceiling
  MaxSpendRestarts    \* bound: restarts of the API process

Unbounded == -1
Unset     == -1
Malformed == -2
NoCost    == -1
NoOrder   == "none"

ASSUME SpendConstants ==
  /\ IsFiniteSet(Orders) /\ OrderCeiling \in [Orders -> Nat \cup {Unbounded}]
  /\ RepositoryCeiling \in Int /\ CeilingSettings \subseteq Int /\ NoOrder \notin Orders
  /\ MaxProcessSpend \in Nat /\ MaxSpendChanges \in Nat /\ MaxSpendRestarts \in Nat

VARIABLES
  hardCeiling,   \* HardSpendCeilingService.ceiling: a limit, Unset or Malformed
  spendRuns,     \* the run of each order: its row and its processes
  admission,     \* what each pass has been admitted to do and has not done yet
  highest,       \* observed: the highest limit that was ever in force
  ceilingChanges, spendRestarts

spendVars == <<hardCeiling, spendRuns, admission, highest, ceilingChanges, spendRestarts>>

\* A run: its row (state, cost) and what its processes did.  `own` is what the
\* process that holds a handle spent, `loose` what a process orphaned by a
\* restart spent and `orphan` whether that one is still going, `gone` what those
\* that ended spent; `over` says that one of them passed the order's ceiling.
NoSpendRun == [state |-> "absent", cost |-> NoCost, live |-> FALSE, own |-> 0,
               orphan |-> FALSE, loose |-> 0, gone |-> 0, over |-> FALSE,
               resumed |-> FALSE]
NoAdmission == [order |-> NoOrder, resume |-> FALSE]

SpendOK ==
  /\ hardCeiling \in CeilingSettings \cup {Unset} /\ highest \in Nat
  /\ \A o \in Orders :
       /\ spendRuns[o].state \in {"absent", "running", "blocked", "stalled", "ended"}
       /\ spendRuns[o].cost \in NoCost..(MaxProcessSpend * (MaxSpendRestarts + 1))
       /\ spendRuns[o].own \in 0..MaxProcessSpend /\ spendRuns[o].loose \in 0..MaxProcessSpend
       /\ spendRuns[o].live => spendRuns[o].state \in {"running", "blocked"}
  /\ \A d \in Dispatchers : admission[d].order \in Orders \cup {NoOrder}
  /\ ceilingChanges \in 0..MaxSpendChanges /\ spendRestarts \in 0..MaxSpendRestarts

SpendInit ==
  /\ hardCeiling = Unset /\ highest = 0
  /\ spendRuns = [o \in Orders |-> NoSpendRun]
  /\ admission = [d \in Dispatchers |-> NoAdmission]
  /\ ceilingChanges = 0 /\ spendRestarts = 0

-----------------------------------------------------------------------------
(* The gate *)

Rows == {o \in Orders : spendRuns[o].state # "absent"}

\* A mutant of Counted: the read model's arithmetic, which leaves unknowns out.
CountedReported(o) == IF spendRuns[o].cost = NoCost THEN 0 ELSE spendRuns[o].cost

\* A run that reported counts at its cost, one that did not at its ceiling, one
\* with neither not at all.
Counted(o) == IF spendRuns[o].cost # NoCost THEN spendRuns[o].cost
              ELSE IF OrderCeiling[o] # Unbounded THEN OrderCeiling[o] ELSE 0

tally == SumOf([o \in Rows |-> Counted(o)])

\* The runner reports cost, so an order without a ceiling of its own is admitted
\* while there is headroom.
decideSpendAdmission(limit, spent, ceiling) ==
  /\ limit \notin {Unset, Malformed}
  /\ spent < limit
  /\ ceiling # Unbounded => spent + ceiling <= limit

refreshCeiling(v) ==
  /\ ceilingChanges < MaxSpendChanges /\ v # hardCeiling
  /\ hardCeiling' = v /\ highest' = IF v > highest THEN v ELSE highest
  /\ ceilingChanges' = ceilingChanges + 1
  /\ UNCHANGED <<spendRuns, admission, spendRestarts>>

-----------------------------------------------------------------------------
(* Dispatch *)

DispatchGate(d, o) ==
  /\ admission[d] = NoAdmission /\ spendRuns[o].state = "absent"
  /\ decideSpendAdmission(hardCeiling, tally, OrderCeiling[o])
  /\ admission' = [admission EXCEPT ![d] = [order |-> o, resume |-> FALSE]]
  /\ UNCHANGED <<hardCeiling, spendRuns, highest, ceilingChanges, spendRestarts>>

\* run.create and submit: the agent starts; the runner is full and the row is
\* deleted; or something fails and the run ends before it began.
DispatchCreate(d) ==
  LET o == admission[d].order IN
  /\ o # NoOrder /\ ~admission[d].resume
  /\ \/ /\ spendRuns[o].state = "absent"
        /\ \E ok \in BOOLEAN :
             spendRuns' = [spendRuns EXCEPT ![o] =
               [NoSpendRun EXCEPT !.state = IF ok THEN "running" ELSE "ended", !.live = ok]]
     \/ UNCHANGED spendRuns
  /\ admission' = [admission EXCEPT ![d] = NoAdmission]
  /\ UNCHANGED <<hardCeiling, highest, ceilingChanges, spendRestarts>>

-----------------------------------------------------------------------------
(* Resume *)

ResumeGate(d, o) ==
  LET r == spendRuns[o] IN
  /\ admission[d] = NoAdmission /\ r.state = "blocked"
  /\ (RepositoryCeiling # Unbounded /\ r.cost # NoCost) => r.cost < RepositoryCeiling
  /\ decideSpendAdmission(hardCeiling, tally, OrderCeiling[o])
  /\ admission' = [admission EXCEPT ![d] = [order |-> o, resume |-> TRUE]]
  /\ UNCHANGED <<hardCeiling, spendRuns, highest, ceilingChanges, spendRestarts>>

\* The guarded claim and submit.  A runner that still holds the process hands
\* out the same one; otherwise a second process starts on the same row.
ResumeClaim(d) ==
  LET o == admission[d].order  r == spendRuns[o] IN
  /\ o # NoOrder /\ admission[d].resume
  /\ spendRuns' = IF r.state # "blocked" THEN spendRuns
                  ELSE [spendRuns EXCEPT ![o] =
                         [r EXCEPT !.state = "running", !.live = TRUE, !.resumed = TRUE]]
  /\ admission' = [admission EXCEPT ![d] = NoAdmission]
  /\ UNCHANGED <<hardCeiling, highest, ceilingChanges, spendRestarts>>

-----------------------------------------------------------------------------
(* The agents *)

AgentSpends(o) ==
  LET r == spendRuns[o] IN
  /\ \/ /\ r.live /\ r.own < MaxProcessSpend
        /\ spendRuns' = [spendRuns EXCEPT ![o] =
             [r EXCEPT !.own = r.own + 1, !.over = r.over \/ r.own >= OrderCeiling[o]]]
     \/ /\ r.orphan /\ r.loose < MaxProcessSpend
        /\ spendRuns' = [spendRuns EXCEPT ![o] =
             [r EXCEPT !.loose = r.loose + 1, !.over = r.over \/ r.loose >= OrderCeiling[o]]]
  /\ UNCHANGED <<hardCeiling, admission, highest, ceilingChanges, spendRestarts>>

AgentParks(o) ==
  /\ spendRuns[o].live /\ spendRuns[o].state = "running"
  /\ spendRuns' = [spendRuns EXCEPT ![o].state = "blocked"]
  /\ UNCHANGED <<hardCeiling, admission, highest, ceilingChanges, spendRestarts>>

\* The last event carries the cost if the CLI wrote a result line (costOf), and
\* rollUpCost sums it over the stored events of the run.
AgentEnds(o) ==
  LET r == spendRuns[o] IN
  /\ r.live
  /\ \E costed \in BOOLEAN :
       spendRuns' = [spendRuns EXCEPT ![o] =
         [r EXCEPT !.state = "ended", !.live = FALSE, !.own = 0, !.gone = r.gone + r.own,
                   !.cost = IF ~costed THEN r.cost
                            ELSE IF r.cost = NoCost THEN r.own ELSE r.cost + r.own]]
  /\ UNCHANGED <<hardCeiling, admission, highest, ceilingChanges, spendRestarts>>

\* An orphan ends and nobody hears of it.
OrphanEnds(o) ==
  LET r == spendRuns[o] IN
  /\ r.orphan
  /\ spendRuns' = [spendRuns EXCEPT ![o] =
       [r EXCEPT !.orphan = FALSE, !.loose = 0, !.gone = r.gone + r.loose]]
  /\ UNCHANGED <<hardCeiling, admission, highest, ceilingChanges, spendRestarts>>

\* The poller reports a live run that nobody polls (reconcileUntracked).
MarkLost(o) ==
  /\ spendRuns[o].state \in {"running", "blocked"} /\ ~spendRuns[o].live
  /\ spendRuns' = [spendRuns EXCEPT ![o].state = "stalled"]
  /\ UNCHANGED <<hardCeiling, admission, highest, ceilingChanges, spendRestarts>>

\* The handles and the passes are gone; the detached children are not.
RestartApi ==
  /\ spendRestarts < MaxSpendRestarts
  /\ spendRuns' = [o \in Orders |->
       LET r == spendRuns[o] IN
       IF r.live THEN [r EXCEPT !.live = FALSE, !.own = 0, !.orphan = TRUE, !.loose = r.own]
       ELSE r]
  /\ admission' = [d \in Dispatchers |-> NoAdmission]
  /\ spendRestarts' = spendRestarts + 1
  /\ UNCHANGED <<hardCeiling, highest, ceilingChanges>>

SpendNext ==
  \/ \E v \in CeilingSettings : refreshCeiling(v)
  \/ \E d \in Dispatchers : \/ DispatchCreate(d) \/ ResumeClaim(d)
                            \/ \E o \in Orders : DispatchGate(d, o) \/ ResumeGate(d, o)
  \/ \E o \in Orders : AgentSpends(o) \/ AgentParks(o) \/ AgentEnds(o) \/ OrphanEnds(o)
                        \/ MarkLost(o)
  \/ RestartApi

SpendSpec == SpendInit /\ [][SpendNext]_spendVars

-----------------------------------------------------------------------------
(* Properties *)

Spent(o)   == spendRuns[o].own + spendRuns[o].loose + spendRuns[o].gone
TotalSpent == SumOf([o \in Orders |-> Spent(o)])

\* Every process kept to its order's ceiling, and every order has one.
OrdersKeepTheirCeilings ==
  \A o \in Rows : OrderCeiling[o] # Unbounded /\ ~spendRuns[o].over

\* With one dispatching pass, agents that keep to their order's ceiling and no
\* run started twice, the money spent never passes the highest hard ceiling
\* that was in force, whatever was reported, lost with a restart or never
\* reported at all: an unmeasured run counts at its ceiling
\* (spend-ledger.service.ts) and admission adds the whole ceiling of the next
\* one (spend-admission.ts).
FirstAttemptsWithinCeiling ==
  (OrdersKeepTheirCeilings /\ \A o \in Orders : ~spendRuns[o].resumed)
    => TotalSpent <= highest

=============================================================================
