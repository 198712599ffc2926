CONSTANTS
  c1 = c1
  c2 = c2
  Calls = {c1}
  ToolOf <- MCToolOf
  Steps = {}
  Entries = {}
  Children = {}
  NameOf <- MCNameOf
  None = None
  Workers = {w1, w2}
  Nobody = Nobody
  MaxAttempts = 2
  MaxClaims = 3
  Worlds <- MCTakeovers
  NeedsApproval = {}
  Safe = {}
  NonInterruptible = {}
SYMMETRY MCSymmetry
SPECIFICATION Spec
INVARIANTS
  TypeOK
  OneAttemptWrites
  UnsafeCallRunsOnce
  OpenCallsAreClosed
  SettledHeaderHasSettledLog
CHECK_DEADLOCK FALSE
