SPECIFICATION Spec
CONSTANTS
  L1 = L1
  L2 = L2
  O1 = O1
  O2 = O2
  R1 = R1
  R2 = R2
  R3 = R3
  R4 = R4
  NoRequest = NoRequest
  NoName = NoName
  LocalDiffs = {L1}
  OtherDiffs = {O1, O2}
  Millis = {"zero"}
  Torn = {}
  MaxPulls = 1
  MaxPushes = 0
  Ids <- FourRequests
  MaxHistories = 1
  NullIsOld = {TRUE}
  Events = {}
  MaxFailures = 0
SYMMETRY AnyRequest
INVARIANT WithinLimit
