CONSTANTS
  c1 = c1
  c2 = c2
  c3 = c3
  c4 = c4
  Inner = inner
  Calls = {c1, c2, c3, c4, inner}
  ToolOf <- MCToolOf
  Steps = {}
  Entries = {e1}
  Children = {k1}
  NameOf <- MCNameOf
  None = None
  Programs = {c1}
  Safe = {c2}
  HistoryBudget = 10
  MaxMishaps = 1
  Scenes <- MCScenes
SPECIFICATION Spec
INVARIANT EveryCallIsAnswered
CHECK_DEADLOCK FALSE
