SPECIFICATION Spec
CONSTANTS
  L1 = L1
  L2 = L2
  O1 = O1
  O2 = O2
  R1 = R1
  R2 = R2
  R3 = R3
  R4 = R4
  NoRequest = NoRequest
  NoName = NoName
  LocalDiffs = {L1, L2}
  OtherDiffs = {O1}
  Millis = {"zero"}
  Torn = {L2}
  MaxPulls = 0
  MaxPushes = 0
  Ids <- FourRequests
  MaxHistories = 2
  NullIsOld = {TRUE, FALSE}
  Events = {"stop", "ask", "call", "restart", "fail", "garble", "slow"}
  MaxFailures = 1
SYMMETRY AnyRequest
INVARIANTS TypeOK CountersMatch
PROPERTY ImplementsExchange
