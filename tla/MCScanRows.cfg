SPECIFICATION RowsSpec
CONSTANTS
  p1 = p1
  p2 = p2
  h1 = h1
  h2 = h2
  Servers = {p1, p2}
  HostOf <- OneHost
  Pids = {k1, k2}
  Scans = {s1, s2}
  Trees = {t1}
  Limit = 1
  MaxChunks = 1
  FreshFor = 0
  UnknownReapAfter = 1
  LiveReapAfter = 2
  semgrep = semgrep
  bandit = bandit
  kSemgrep = kSemgrep
  kBandit = kBandit
  file = file
  rule = rule
  Full = Full
  UnknownKey = UnknownKey
  NoTarget = NoTarget
  Names = {semgrep, bandit}
  Measures <- TableMeasures
  WhenNotOk <- TableMeasures
  OwnTarget = {}
  OnRequest = {}
  Unlisted = {}
  PackRules = {}
  Cleaners = {server1}
  Slots = {sast}
  ResultsOf <- TwoScanners
  Scopes = {FALSE}
  Keep = 1
  MaxScans = 4
  MaxRunning = 2
  MaxMarks = 1
SYMMETRY Symmetry
INVARIANTS CompletedIsWhole OwnRowsAreOwn CacheServesWhole NothingLost NewestKept
PROPERTIES FinishedStays BaselinedRunStays
CHECK_DEADLOCK FALSE
