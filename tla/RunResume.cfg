SPECIFICATION Spec
CONSTANTS
  Runs = {r1}
  Ticks = {t1}
  Pollers = {p1}
  NoRun = NoRun
  MaxConcurrency = 1
  MaxEvents = 3
  MaxAttempts = 2
  MaxFaults = 0
  MaxRestarts = 0
INVARIANT ResumeReInvokes
