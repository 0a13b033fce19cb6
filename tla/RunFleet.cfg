SPECIFICATION Spec
CONSTANTS
  Runs = {r1, r2}
  Ticks = {t1}
  Pollers = {p1}
  NoRun = NoRun
  MaxConcurrency = 1
  MaxEvents = 2
  MaxAttempts = 2
  MaxFaults = 1
  MaxRestarts = 0
SYMMETRY RunSymmetry
INVARIANTS TypeOK StatusIsReported WithinCeiling
