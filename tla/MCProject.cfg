SPECIFICATION ProjectSpec
CONSTANTS
  semgrep = semgrep
  trivy = trivy
  dockerfile = dockerfile
  image = image
  custom = custom
  sast = sast
  deps = deps
  config = config
  staticAnalysis = staticAnalysis
  containers = containers
  f1 = f1
  f2 = f2
  r1 = r1
  r2 = r2
  imgA = imgA
  imgB = imgB
  Names = {semgrep, trivy, dockerfile, image}
  Measures <- TableMeasures
  WhenNotOk <- TableWhenNotOk
  OwnTarget = {image}
  OnRequest = {image}
  Unlisted = {custom}
  UnknownKey = unknown
  unknown = unknown
  NoTarget = NoTarget
  AnyTarget = AnyTarget
  PackRules = {r2}
  Files = {f1, f2}
  Rules = {r1, r2}
  Keys = {sast, deps, config, unknown}
  Slots = {staticAnalysis, containers}
  BooksOf <- SlotBooks
  MaxScans = 3
  MaxChain = 3
  MaxPairs = 2
  t1 = t1
  b1 = b1
  b2 = b2
  NoBaseline = NoBaseline
  Procs = {p1, p2}
  Profile <- OneFile
  MaxVersion = 3
  Shipped <- TwoReleases
  Edits = {edited}
  Absent = Absent
  NotAFile = NotAFile
  Unreadable = Unreadable
  Nothing = Nothing
  MaxRuns = 3
  MaxTouches = 2
  Auditors = {auditor1, auditor2}
  Items = {tool, resource}
  Resources = {resource}
  Defs = {d1, d2}
  Gone = Gone
  MaxChanges = 3
  MaxAudits = 3
  old = old
  new1 = new1
  new2 = new2
  Openers = {old, new1, new2}
  Ships <- NewerHasFour
  Probed = {2, 3}
  DataSteps = {1, 4}
  NoId = NoId
  Stranger = Stranger
  MaxOpens = 3
INVARIANTS IndexAlone CarriesTheOpen StopLosesNothing OpensOwn RecordedRanOnce
PROPERTIES  RefreshSettles ChangeIsReported
CHECK_DEADLOCK FALSE
