SPECIFICATION SerialSpec
CONSTANTS
  Issues = {i1, i2, i3}
  Passes = {t1}
  NoIssue = NoIssue
  NoPass = NoPass
  Unbuildable = {i3}
  BatchSize = 2
  MaxConcurrency = 1
  MaxRuns = 2
  MaxEdits = 1
  MaxFaults = 1
INVARIANTS TypeOK OneAgentPerBranch
PROPERTIES SettledStays QueuedIsServed
