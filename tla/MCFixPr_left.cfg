SPECIFICATION FixSpec
CONSTANTS
  MaxRuns = 2
  Clones = {c1}
  NoBranch = NoBranch
  AtHead = AtHead
  MaxActive = 1
  MaxKills = 0
  MaxUser = 0
INVARIANTS CollisionMeansKept
CHECK_DEADLOCK FALSE
