SPECIFICATION DeadSpec
CONSTANTS
  MaxDeadClock = 3
  MaxIntervals = 3
  MaxDeadFaults = 1
  SilenceThreshold = 1
INVARIANTS IntervalsEndAfterTheyBegin
CHECK_DEADLOCK FALSE
