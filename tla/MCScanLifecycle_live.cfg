CONSTANTS
  p1 = p1
  p2 = p2
  h1 = h1
  h2 = h2
  Servers = {p1}
  HostOf <- OneHost1
  Pids = {k1, k2}
  Scans = {s1, s2}
  Trees = {t1}
  Limit = 1
  MaxChunks = 1
  FreshFor = 0
  UnknownReapAfter = 1
  LiveReapAfter = 2
SPECIFICATION CallSpec
PROPERTIES
  CallEnds
  OrphanIsReaped
