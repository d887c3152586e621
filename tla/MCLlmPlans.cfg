SPECIFICATION PlansSpec
CONSTANTS
  kHunt = kHunt
  c1 = c1
  c2 = c2
  fp1 = fp1
  fp2 = fp2
  LlmHunt = LlmHunt
  Names = {LlmHunt}
  Measures <- TableMeasures
  WhenNotOk <- TableMeasures
  OwnTarget = {}
  OnRequest = {}
  Unlisted = {}
  UnknownKey = UnknownKey
  NoTarget = NoTarget
  PackRules = {}
  NoVerdict = NoVerdict
  Callers = {c1}
  Fingerprints = {fp1}
  MaxOpenPlans = 5
  MaxPlans = 2
  MaxIdle = 0
PROPERTIES VerifyPlanClosesNothing
CHECK_DEADLOCK FALSE
