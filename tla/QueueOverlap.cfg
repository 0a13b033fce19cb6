SPECIFICATION OverlapSpec
CONSTANTS
  Issues = {i1, i2}
  Passes = {t1, t2}
  NoIssue = NoIssue
  NoPass = NoPass
  Unbuildable = {}
  BatchSize = 2
  MaxConcurrency = 1
  MaxRuns = 4
  MaxEdits = 0
  MaxFaults = 1
SYMMETRY PassSymmetry
INVARIANTS DispatchedHasRun AgentHasRun RunsPerOrder
