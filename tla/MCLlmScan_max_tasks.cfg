SPECIFICATION Spec
CONSTANTS
  p1 = p1
  p2 = p2
  Tokens <- ThreeTokens
  Servers = {p1, p2}
  Planned = 2
  KindOf <- TwoHunts
  MaxTasks = 1
  MaxBriefs = 9
  MaxInvalid = 1
  MaxFindings = 1
  MaxReturns = 1
SYMMETRY ServerSymmetry
INVARIANT DeliveredWithinMax
CHECK_DEADLOCK FALSE
