SPECIFICATION Spec
CONSTANTS
  A = A
  B = B
  C = C
  x = x
  y = y
  z = z
  NoPath = NoPath
  NoStamp = NoStamp
  NoPrint = NoPrint
  Unknown = Unknown
  Paths <- MCPaths
  Dirs <- MCDirs
  FileSizes <- MCSizes
  Stamps <- MCStamps
  Prints <- MCPrints
  ReadOrders = {"statFirst", "hashFirst"}
  Editing = {"save", "saveAgain", "delete", "move"}
  MaxEdits = 2
SYMMETRY AnyContents
INVARIANTS TypeOK CommitAccepted IndexSound QuietScanAgrees NoStale SettledAfterTwo
PROPERTY OnlyEditsMakeStale
