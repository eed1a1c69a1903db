SPECIFICATION Spec
CONSTANTS
  p1 = p1
  p2 = p2
  a = a
  b = b
  st = st
  Paths <- MCPaths
  Stamps <- MCStamps
  Prints <- MCPrints
  NoPath = NoPath
  NoStamp = NoStamp
  NoPrint = NoPrint
  Unknown = Unknown
  Diffs <- MCDiffs
  MaxLogs = 2
  Absent = Absent
  Torn = Torn
  NoDiff = NoDiff
  CrashPoints <- MCAllCrashPoints
  NamesOvertake = TRUE
  DiskFills = TRUE
INVARIANTS AckedDurable NoTornLog
