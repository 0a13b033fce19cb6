SPECIFICATION MCSpec
CONSTANTS
  Classes = {"daily-brief", "re-dispatch", "unregistered"}
  GrantTerms <- MCGrantTerms
  DefaultTerms <- MCDefaults
  NearExpiry = 1
  Humans = {h1, h2}
  Prompts = {p1, p2}
  MaxNow = 3
  MaxGrants = 3
  Costs <- MCCosts
  Ceiling = 5
  TimeoutWindow = 1
  BackfillWindow = 2
  MaxApprovals = 2
  MaxGateFaults = 1
  Timers = {t1}
  Operators = {o1}
  MIN_SAMPLE = 2
  PROMOTION_RATE = 60
  DEMOTION_RATE = 50
  DEMOTION_MIN_SAMPLE = 1
  RegressionWindow = 0
  ManualHold = 1
  MaxProposals = 2
  MaxChanges = 3
INVARIANTS TypeOK RenewalNeverWidens PromptedOnce UnattendedAsAnnounced RetriesDoNotRepage OverLimitEnds PromotedOnHumanEvidence
PROPERTIES EndedStaysEnded DecisionIsFinal AuthoritySpec ParkedIsEscalated
CHECK_DEADLOCK FALSE
