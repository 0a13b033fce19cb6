SPECIFICATION Spec
CONSTANTS
  Runs = {r1}
  Ticks = {t1, t2}
  Pollers = {p1, p2}
  NoRun = NoRun
  MaxConcurrency = 1
  MaxEvents = 2
  MaxAttempts = 2
  MaxFaults = 1
  MaxRestarts = 0
SYMMETRY PassSymmetry
INVARIANT RunInv
PROPERTIES ConcludedIsFinal RowSpec
