CONSTANTS
  None = None
  Calls = {c1, c2}
  Steps = {s1}
  Entries = {e1}
  Children = {k1}
  Attempts = {a1, a2}
  Consumers = {u1, u2}
  ToolOf <- MCToolOf
  NameOf <- MCNameOf
  Traffic <- MCTraffic
  MaxTurns = 2
SPECIFICATION Spec
SYMMETRY MCSymmetry
INVARIANTS
  JournalsAreSound
  OneAttemptAtATime
  NothingIsUsedTwice
  NothingSteersAfterAbort
CHECK_DEADLOCK FALSE
