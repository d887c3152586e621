SPECIFICATION FairSpec
CONSTANTS
  p1 = p1
  p2 = p2
  Tokens <- ThreeTokens
  Servers = {p1}
  Planned = 3
  KindOf <- WithCrosscut
  MaxTasks = 2
  MaxBriefs = 4
  MaxInvalid = 2
  MaxFindings = 1
  MaxReturns = 1
INVARIANTS DeliveredWithinMax CrosscutKeepsItsSlot
PROPERTIES PlanEnds
CHECK_DEADLOCK FALSE
