SPECIFICATION MCSpec
CONSTANTS
  Subjects = {"a stalled run"}
  Devices = {d1}
  DispatchPasses = {"e1", "e2"}
  MAX_DELIVERY_ATTEMPTS = 2
  MAX_CONSECUTIVE_FAILURES = 1
  DispatchTake = 1
  MaxEscalations = 1
  MaxDispatchFaults = 1
  Orders = {"a", "b"}
  OrderCeiling <- MCOrderCeiling
  RepositoryCeiling = 2
  CeilingSettings <- MCCeilings
  Dispatchers = {p1}
  MaxProcessSpend = 2
  MaxSpendChanges = 2
  MaxSpendRestarts = 1
  Processes = {"p1", "p2"}
  PlainKeys = {"ceiling"}
  SecretKeys = {"token"}
  SettingValues = {"v1"}
  Environment <- MCEnvironment
  StartRows <- MCStartRows
  MaxSettingWrites = 2
  MaxOutages = 1
  Passes = {t1, t2}
  LabelSets <- MCLabelSets
  OrderStates <- MCOrderStates
  RetryCeiling = 2
  MaxIssueChanges = 3
  MaxLabelFaults = 1
  MaxDeadClock = 3
  MaxIntervals = 2
  MaxDeadFaults = 1
  SilenceThreshold = 1
  Operators = {o1}
  MaxRepositoryRequests = 4
  Issues = {"i", "j"}
  Steerers = {s1}
  MaxInstructions = 1
  MaxEdits = 1
  MaxSteerFaults = 1
  ProposerCount = 3
  MAX_PER_INVOCATION = 3
  CallPrices = {1}
  SupervisorLimits = {1, 2}
  MaxTicks = 2
  MaxLimitChanges = 2
  Callers = {c1, c2}
  Bodies = {b1, b2}
  NoBody = NoBody
  maxRetries = 1
  MaxBodyChanges = 1
  MaxReads = 2
INVARIANTS PlatformTypeOK SendsAreBounded FirstAttemptsWithinCeiling OverlayCoversItsRows RetiredIsOffTheLadder NothingElseIsReady HalfReleaseStaysHeld SupervisorOvershoot AnswersAreFresh
PROPERTIES EveryEscalationSettles ProcessesConverge MirrorsConverge DeadTimeEnds
CHECK_DEADLOCK FALSE
