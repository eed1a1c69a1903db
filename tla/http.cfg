SPECIFICATION FairSpec
CONSTANTS
  CRLF = CRLF
  LF = LF
  Scripts <- MCScripts
  Events = {"remove", "resize", "vanish", "rmdir", "disconnect"}
CHECK_DEADLOCK FALSE
INVARIANTS
  TypeOK
  OneRequestEach
  RepliesInOrder
  WrittenAsSent
PROPERTIES
  Served
