CONSTANTS
  s1 = s1
  s2 = s2
  s3 = s3
  s4 = s4
  s5 = s5
  root = root
  worker1 = worker1
  Root = root
  Workers = {worker1}
  Nobody = Nobody
  None = None
  c1 = c1
  Calls = {c1}
  ToolOf <- MCToolOf
  Entries = {}
  Children = {}
  NameOf <- MCNameOf
  Steps = {s1, s2, s3, s4, s5}
  Plans <- AllPlans
  MaxAttempts = 4
  MaxMishaps = 1
SPECIFICATION FairSpec
INVARIANTS
  StepsAreSound
  AnswersReachTheAsker
PROPERTIES
  ImplementsTree
  ComesToRest
CHECK_DEADLOCK FALSE
