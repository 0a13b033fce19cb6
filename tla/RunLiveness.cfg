SPECIFICATION FairSpec
CONSTANTS
  Runs = {r1}
  Ticks = {t1}
  Pollers = {p1}
  NoRun = NoRun
  MaxConcurrency = 1
  MaxEvents = 3
  MaxAttempts = 3
  MaxFaults = 1
  MaxRestarts = 1
INVARIANT OneOpenAttempt
PROPERTIES NoPhantomRunning ExitConcludes
