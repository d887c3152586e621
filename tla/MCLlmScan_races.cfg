SPECIFICATION Spec
CONSTANTS
  p1 = p1
  p2 = p2
  Tokens <- ThreeTokens
  Servers = {p1, p2}
  Planned = 2
  KindOf <- HuntThenVerify
  MaxTasks = 1
  MaxBriefs = 9
  MaxInvalid = 2
  MaxFindings = 1
  MaxReturns = 1
SYMMETRY ServerSymmetry
INVARIANTS CompleteIsDone FindingsAreChecked
PROPERTIES KeepsPromise AnswersAreOfTheHolder
CHECK_DEADLOCK FALSE
