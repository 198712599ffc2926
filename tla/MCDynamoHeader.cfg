CONSTANTS
  Workers = {w1, w2}
  Calls = {c1, c2}
  Nobody = Nobody
  LeaseTicks = 2
  MaxRetries = 2
  MaxTime = 3
  MaxClaims = 2
SPECIFICATION ItemSpec
SYMMETRY MCSymmetry
INVARIANTS
  IndexIsSound
PROPERTY StatesStayLegal
CHECK_DEADLOCK FALSE
