SPECIFICATION FairSpec
CONSTANTS
  L1 = L1
  L2 = L2
  O1 = O1
  O2 = O2
  R1 = R1
  R2 = R2
  R3 = R3
  R4 = R4
  NoRequest = NoRequest
  NoName = NoName
  LocalDiffs = {L1}
  OtherDiffs = {O1}
  Millis = {"zero", "some"}
  Torn = {}
  MaxPulls = 0
  MaxPushes = 0
  Ids <- FourRequests
  MaxHistories = 2
  NullIsOld = {TRUE}
  Events = {"restart", "fail", "garble"}
  MaxFailures = 1
PROPERTIES EveryDiffPulled EveryDiffPushed
