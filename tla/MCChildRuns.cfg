CONSTANTS
  Calls = {}
  ToolOf <- MCToolOf
  Steps = {}
  Entries = {}
  Children = {k1, k2}
  NameOf <- MCNameOf
  None = None
  Tries = 3
  MaxFaults = 2
  Faults = {"crash", "lost_notice", "lost_wake", "timeout"}
SPECIFICATION Spec
SYMMETRY MCSymmetry
INVARIANTS
  NewsIsTrue
  SleeperHasWaker
  EveryChildIsHeard
CHECK_DEADLOCK FALSE
