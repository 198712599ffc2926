CONSTANTS
  c1 = c1
  c2 = c2
  Calls = {c1, c2}
  ToolOf <- MCToolOf
  Steps = {}
  Entries = {}
  Children = {}
  NameOf <- MCNameOf
  None = None
  Workers = {w1, w2}
  Nobody = Nobody
  MaxAttempts = 2
  MaxClaims = 3
  Worlds <- MCRest
  NeedsApproval = {c1}
  Safe = {}
  NonInterruptible = {}
SPECIFICATION FairSpec
INVARIANT ApprovedBeforeRun
PROPERTIES
  
  DeadlineSettles
  AttemptsSettlementReachesHeader
CHECK_DEADLOCK FALSE
