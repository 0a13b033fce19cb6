SPECIFICATION Spec
CONSTANTS
  Issues = {i1, i2}
  Passes = {t1}
  NoIssue = NoIssue
  NoPass = NoPass
  Unbuildable = {}
  BatchSize = 1
  MaxConcurrency = 1
  MaxRuns = 2
  MaxEdits = 1
  MaxFaults = 0
INVARIANT HoldReachesTheRow
