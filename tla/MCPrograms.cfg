CONSTANTS
  p1 = p1
  p2 = p2
  c1 = c1
  c2 = c2
  c3 = c3
  c4 = c4
  CodeCalls = {p1, p2}
  Calls = {p1, p2, c1, c2, c3, c4}
  ToolOf <- MCToolOf
  GateOf <- MCGateOf
  Steps = {}
  Entries = {}
  Children = {}
  NameOf <- MCNameOf
  None = None
  Tasks = {1, 2}
  MaxCalls = 2
  MaxCallsPerRun = 3
  Scenes <- MCScenes
SPECIFICATION FairSpec

  
PROPERTIES
  CallsAreAnswered
CHECK_DEADLOCK FALSE
