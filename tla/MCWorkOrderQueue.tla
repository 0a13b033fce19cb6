-------------------------- MODULE MCWorkOrderQueue --------------------------
(* WorkOrderQueue, for TLC: where its runs start.  In a run of overlapping   *)
(* passes these are interchangeable, and so are the issues.                  *)
EXTENDS WorkOrderQueue, TLC

\* One pass at a time: the humans have labelled every issue and hold one of
\* them at most, and there is room in a batch for what is refused.
SerialInit ==
  /\ Init /\ enabled
  /\ \A i \in Issues : "ready" \in labels[i]
  /\ Cardinality({i \in Issues : "hold" \in labels[i]}) <= 1
  /\ Cardinality(refused) < BatchSize
SerialSpec == SerialInit /\ [][Next]_vars /\ Fairness

\* Overlapping passes: nothing is refused but by the runner's ceiling.
OverlapInit == Init /\ refused = {}
OverlapSpec == OverlapInit /\ [][Next]_vars

PassSymmetry == Permutations(Passes) \cup Permutations(Issues)
=============================================================================
