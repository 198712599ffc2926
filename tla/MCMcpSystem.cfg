CONSTANTS
  a1 = a1
  a2 = a2
  Callers = {a1, a2}
  MaxConnections = 3
  MaxMishaps = 1
  MaxGrants = 2
  MaxSerial = 2
  MaxStepUps = 1
  Scenes <- MCScenes
  None = None
SPECIFICATION FairSpec
INVARIANTS
  PoolIsSound
  WaitersHaveServers
  RotationIsKept
  OneSignInPerToken
PROPERTIES
  CatalogueCatchesUp
  CallsReturn
  RequestsEnd
CHECK_DEADLOCK FALSE
