CONSTANTS
  w1 = w1
  w2 = w2
  Workers <- MCWorkers
  Ahead <- MCAhead
  Runs = {r1, r2}
  Keys = {k1}
  Nobody = Nobody
  NoKey = NoKey
  NoRun = NoRun
  LeaseTicks = 2
  MaxSkew = 1
  MaxTime = 4
  MaxClaims = 2
SPECIFICATION Spec
SYMMETRY MCSymmetry
INVARIANTS
  TypeOK
  LeaseFollowsBeat
  OneRunPerKey
PROPERTIES
  NoEarlySteal
  LegalTransitions
  ImplementsPort
CHECK_DEADLOCK FALSE
