SPECIFICATION ConfigsSpec
CONSTANTS
  Procs = {p1}
  t1 = t1
  b1 = b1
  b2 = b2
  b3 = b3
  Profile <- OneFile
  MaxVersion = 3
  Shipped <- Three
  NoBaseline = NoBaseline
  Edits = {edited}
  Absent = Absent
  NotAFile = NotAFile
  Unreadable = Unreadable
  Nothing = Nothing
  MaxTouches = 2
  MaxRuns = 3
PROPERTIES EditedStays
CHECK_DEADLOCK FALSE
