SPECIFICATION Spec
CONSTANTS
  Issues = {i1}
  Passes = {t1, t2}
  NoIssue = NoIssue
  NoPass = NoPass
  Unbuildable = {}
  BatchSize = 2
  MaxConcurrency = 1
  MaxRuns = 2
  MaxEdits = 0
  MaxFaults = 0
INVARIANT OneAgentPerBranch
