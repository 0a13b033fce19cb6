------------------------------ MODULE Supervisor ------------------------------
(***************************************************************************)
(* One supervisor invocation (supervisor/invocation/supervisor.service.ts) *)
(* and the ceiling on what it may spend: the hourly task, the gate before  *)
(* the tick and between its proposers (supervisor-spend-gate.ts), the      *)
(* ledger that gate reads (supervisor-spend-ledger.service.ts) and the     *)
(* decision log row that is the ledger's only source.                      *)
(*                                                                         *)
(* A proposer asks the model up to MAX_PER_INVOCATION times; a call has a  *)
(* price the moment it returns, or none when the model is not in the rate  *)
(* table.  Whole dollars; what a proposal says is left out.                *)
(***************************************************************************)
EXTENDS Integers, Sequences, Sums

CONSTANTS
  ProposerCount,       \* proposers that ask the model, in their order
  MAX_PER_INVOCATION,  \* calls of one proposer (the three of them say 3)
  CallPrices,          \* what a call may cost; Unpriced is one of the answers
  SupervisorLimits,    \* values the supervisor's ceiling is given
  MaxTicks,            \* bound: rows of the decision log
  MaxLimitChanges      \* bound: changes of the ceiling and of the enabled flag

NoLimit     == -1      \* limitUsd null: unset or malformed
Unpriced    == -1

ASSUME SupervisorConstants ==
  /\ ProposerCount \in Nat \ {0} /\ MAX_PER_INVOCATION \in Nat \ {0}
  /\ CallPrices \subseteq Nat /\ \E p \in CallPrices : \A q \in CallPrices : q <= p
  /\ SupervisorLimits \subseteq Nat
  /\ MaxTicks \in Nat /\ MaxLimitChanges \in Nat

VARIABLES
  supervisorLimit,   \* SupervisorSpendCeilingService.ceiling
  enabled,           \* supervisor.enabled
  decisionLog,       \* supervisor_invocations inside the window, oldest first
  tick,              \* the invocation under way
  limitChanges

supervisorVars == <<supervisorLimit, enabled, decisionLog, tick, limitChanges>>

NoInvocation == [at |-> "idle", limit |-> NoLimit, tally |-> 0, ran |-> 0, calls |-> 0,
                 cost |-> 0, unpriced |-> 0, failed |-> FALSE, stopped |-> FALSE]
Row(outcome, cost, unpriced) == [outcome |-> outcome, cost |-> cost, unpriced |-> unpriced]

SupervisorOK ==
  /\ supervisorLimit \in SupervisorLimits \cup {NoLimit} /\ enabled \in BOOLEAN
  /\ Len(decisionLog) <= MaxTicks
  /\ \A i \in DOMAIN decisionLog : decisionLog[i].outcome \in
       {"skipped_disabled", "skipped_budget", "skipped_quota", "failed", "partial", "completed"}
  /\ tick.at \in {"idle", "tally", "snapshot", "between", "propose", "record"}
  /\ tick.ran \in 0..ProposerCount /\ tick.calls \in 0..MAX_PER_INVOCATION
  /\ limitChanges \in 0..MaxLimitChanges

SupervisorInit ==
  /\ supervisorLimit = NoLimit /\ enabled = FALSE
  /\ decisionLog = <<>> /\ tick = NoInvocation /\ limitChanges = 0

-----------------------------------------------------------------------------
(* The gate and the ledger *)

ledgerTally == SumOf([i \in DOMAIN decisionLog |-> decisionLog[i].cost])

assessSupervisorSpend(limit, reported) == limit # NoLimit /\ reported < limit

\* A mutant of withTickSpend: the stored tally, which this tick is not in.
withTickSpendStored(tally, cost) == tally
withTickSpend(tally, cost) == tally + cost

-----------------------------------------------------------------------------
(* The invocation *)

\* The row is written in one transaction; a failure to write it is logged and
\* the row is lost.
Logged(row) == /\ \/ decisionLog' = Append(decisionLog, row)
                  \/ UNCHANGED decisionLog
               /\ tick' = NoInvocation
Skip(outcome) == Logged(Row(outcome, 0, 0))
Goes(step)    == tick' = [tick EXCEPT !.at = step]
Room          == Len(decisionLog) < MaxTicks
OnlyTheTick   == UNCHANGED <<supervisorLimit, enabled, limitChanges>>

\* The hourly task: a disabled supervisor may log its skip, or say nothing.
Invoke ==
  /\ tick.at = "idle" /\ Room
  /\ IF enabled
       THEN /\ tick' = [NoInvocation EXCEPT !.at = "tally", !.limit = supervisorLimit]
            /\ UNCHANGED decisionLog
       ELSE Skip("skipped_disabled")
  /\ OnlyTheTick

\* The ceiling was read before the await of the tally, and is the one that
\* judges the whole tick.  A ceiling that is not set is refused unread.
ReadTally ==
  /\ tick.at = "tally"
  /\ \/ /\ assessSupervisorSpend(tick.limit, ledgerTally)
        /\ tick' = [tick EXCEPT !.at = "snapshot", !.tally = ledgerTally]
        /\ UNCHANGED decisionLog
     \/ /\ ~assessSupervisorSpend(tick.limit, ledgerTally)
        /\ Skip("skipped_budget")
     \/ /\ tick.limit # NoLimit          \* the ledger could not be read
        /\ Skip("failed")
  /\ OnlyTheTick

\* The snapshot shows a parked run, or cannot be read, or lets the tick go on.
CollectSnapshot ==
  /\ tick.at = "snapshot"
  /\ \/ Goes("between") /\ UNCHANGED decisionLog
     \/ Skip("skipped_quota")
     \/ Skip("failed")
  /\ OnlyTheTick

\* The head of the proposer loop: the ceiling is asked again before every
\* proposer but the first, with what this tick has spent.
NextProposer ==
  /\ tick.at = "between"
  /\ CASE tick.ran = ProposerCount -> Goes("record")
       [] /\ tick.ran # ProposerCount /\ tick.ran > 0
          /\ ~assessSupervisorSpend(tick.limit, withTickSpend(tick.tally, tick.cost))
            -> tick' = [tick EXCEPT !.at = "record", !.stopped = TRUE]
       [] OTHER -> tick' = [tick EXCEPT !.at = "propose", !.ran = @ + 1, !.calls = 0]
  /\ UNCHANGED decisionLog /\ OnlyTheTick

\* One call of the running proposer: it returns with a price or without one
\* (`unpriced` says whether any did).
Ask ==
  /\ tick.at = "propose" /\ tick.calls < MAX_PER_INVOCATION
  /\ \/ \E price \in CallPrices :
          tick' = [tick EXCEPT !.calls = @ + 1, !.cost = @ + price]
     \/ tick' = [tick EXCEPT !.calls = @ + 1, !.unpriced = 1]
  /\ UNCHANGED decisionLog /\ OnlyTheTick

\* The proposer returns, or throws (a call failed, or an answer did not parse).
ProposerEnds ==
  /\ tick.at = "propose"
  /\ \E threw \in BOOLEAN :
       tick' = [tick EXCEPT !.at = "between", !.failed = @ \/ threw]
  /\ UNCHANGED decisionLog /\ OnlyTheTick

RecordInvocation ==
  /\ tick.at = "record"
  /\ Logged(Row(IF tick.failed \/ tick.stopped THEN "partial" ELSE "completed",
                tick.cost, tick.unpriced))
  /\ OnlyTheTick

\* The process stops: what the tick spent is nowhere.
SupervisorRestarts ==
  /\ tick.at # "idle" /\ tick' = NoInvocation
  /\ UNCHANGED <<supervisorLimit, enabled, decisionLog, limitChanges>>

-----------------------------------------------------------------------------
(* The operator, and time *)

ChangeLimit ==
  /\ limitChanges < MaxLimitChanges
  /\ \/ /\ supervisorLimit' \in (SupervisorLimits \cup {NoLimit}) \ {supervisorLimit}
        /\ UNCHANGED enabled
     \/ enabled' = ~enabled /\ UNCHANGED supervisorLimit
  /\ limitChanges' = limitChanges + 1
  /\ UNCHANGED <<decisionLog, tick>>

\* The oldest row leaves the window.
WindowRolls ==
  /\ decisionLog # <<>> /\ decisionLog' = Tail(decisionLog)
  /\ UNCHANGED <<supervisorLimit, enabled, tick, limitChanges>>

SupervisorNext ==
  \/ Invoke \/ ReadTally \/ CollectSnapshot \/ NextProposer \/ Ask \/ ProposerEnds
  \/ RecordInvocation \/ SupervisorRestarts \/ ChangeLimit \/ WindowRolls

-----------------------------------------------------------------------------

Dearest == CHOOSE p \in CallPrices : \A q \in CallPrices : q <= p

\* What the log holds and what the tick has spent stay under the ceiling the
\* tick began with, but for the calls of the one proposer that crossed it: three
\* calls, where the comment on the check between proposers counts one.
\* Hazard: the check between proposers reads a tally this tick is not in yet.
SupervisorOvershoot ==
  tick.cost > 0 =>
    ledgerTally + tick.cost < tick.limit + MAX_PER_INVOCATION * Dearest
=============================================================================
