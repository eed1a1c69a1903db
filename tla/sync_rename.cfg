SPECIFICATION Spec
CONSTANTS
  L1 = L1
  L2 = L2
  O1 = O1
  O2 = O2
  R1 = R1
  R2 = R2
  R3 = R3
  R4 = R4
  NoRequest = NoRequest
  NoName = NoName
  LocalDiffs = {L1}
  OtherDiffs = {O1}
  Millis = {"some"}
  Torn = {}
  MaxPulls = 0
  MaxPushes = 0
  Ids <- ThreeRequests
  MaxHistories = 1
  NullIsOld = {TRUE}
  Events = {}
  MaxFailures = 0
SYMMETRY AnyRequest
INVARIANT QueueIsNews
