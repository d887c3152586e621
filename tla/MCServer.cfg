SPECIFICATION ServerSpec
CONSTANTS
  Calls = {c1, c2, c3, c4}
  Limit = 2
  Hold = 2
  Skew = 3
  MaxTime = 6
  MaxStamps = 4
  N = 5
  After <- WritersFirst
  MaxParallel = 2
  MaxEntries = 1
  NoResult = NoResult
  Leader = leader
  Members = {worker, deaf}
  Outsiders = {daemon}
  Deaf = {deaf, daemon}
  None = None
  e1 = e1
  e2 = e2
  e3 = e3
  e4 = e4
  t1 = t1
  t2 = t2
  t3 = t3
  Emitters = {e1, e2, e3, e4}
  TokenOf <- TwoShare
  Steps = {2}
  Totals = {0, 1}
  MaxTracked = 2
  MaxSent = 3
  kHunt = kHunt
  Names = {LlmHunt}
  Measures <- HuntMeasures
  WhenNotOk <- HuntMeasures
  OwnTarget = {}
  OnRequest = {}
  Unlisted = {}
  UnknownKey = UnknownKey
  NoTarget = NoTarget
  PackRules = {}
  Callers = {s1, s2}
  Fingerprints = {fp1}
  LlmHunt = LlmHunt
  NoVerdict = NoVerdict
  MaxOpenPlans = 1
  MaxPlans = 3
  MaxIdle = 1
  MaxRuns = 3
  Clones = {clone1, clone2}
  NoBranch = NoBranch
  AtHead = AtHead
  MaxActive = 3
  MaxKills = 1
  MaxUser = 2
INVARIANTS
  WithinLimit
  NoIdleSlot
  QueueExact
  SortsAsStarted
  AfterRespected
  CompletedIsWhole
  GroupGone
  
  OvershootBounded
  OnePullRequest
PROPERTIES
  NoOvertaking
  OnlyCopyKept
  WithinHold
  PassesMerge
  KeepsPromise
CHECK_DEADLOCK FALSE
