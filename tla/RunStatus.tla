------------------------------ MODULE RunStatus -----------------------------
(***************************************************************************)
(* What a Run row promises its readers (the projection, the dispatcher's   *)
(* slot count, the cockpit, the spend ledger), whoever writes it:          *)
(*                                                                         *)
(*   - it is a state machine over RunStatus whose conclusions are final;   *)
(*   - `blocked` and `succeeded` are the runner's own reports, stored      *)
(*     before the status says so;                                          *)
(*   - a row is only removed while nothing was ever reported for it.       *)
(*                                                                         *)
(* RunLifecycle implements this specification.                             *)
(***************************************************************************)
CONSTANT Runs

VARIABLES
  status,    \* Run.status, "absent" before the row exists, "deleted" after
  reported   \* the kinds of the run's stored events

Live      == {"running", "stalled", "blocked"}
Concluded == {"succeeded", "failed"}
Gone      == {"absent", "deleted"}
Kinds     == {"started", "progress", "blocked", "completed", "failed"}

TypeOK ==
  /\ status \in [Runs -> Live \cup Concluded \cup Gone]
  /\ reported \in [Runs -> SUBSET Kinds]

Init ==
  /\ status = [r \in Runs |-> "absent"]
  /\ reported = [r \in Runs |-> {}]

Become(r, s) == status' = [status EXCEPT ![r] = s] /\ UNCHANGED reported

\* A run begins as a row that says `running`, with no events.
Create(r) == status[r] = "absent" /\ reported[r] = {} /\ Become(r, "running")

\* A run that never started is not a run.
Remove(r) == status[r] \in Live /\ reported[r] = {} /\ Become(r, "deleted")

\* Events are only added, and only to a row that exists.
Report(r) ==
  /\ status[r] \notin Gone
  /\ \E more \in SUBSET Kinds :
       reported' = [reported EXCEPT ![r] = @ \cup more]
  /\ UNCHANGED status

Stall(r)    == status[r] \in Live /\ Become(r, "stalled")
Park(r)     == status[r] \in Live /\ "blocked" \in reported[r] /\ Become(r, "blocked")
Wake(r)     == status[r] \in {"stalled", "blocked"} /\ Become(r, "running")
Succeed(r)  == status[r] \in Live /\ "completed" \in reported[r] /\ Become(r, "succeeded")
Fail(r)     == status[r] \in Live /\ Become(r, "failed")

Next == \E r \in Runs :
  Create(r) \/ Remove(r) \/ Report(r) \/ Stall(r) \/ Park(r) \/ Wake(r) \/ Succeed(r) \/ Fail(r)

Spec == Init /\ [][Next]_<<status, reported>>
=============================================================================
