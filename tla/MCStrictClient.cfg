SPECIFICATION Spec
CONSTANTS
  NilList = NilList
  Requests <- MC_Requests
  Configured <- MC_Configured
  Limits <- MC_Limits
  DefaultLimit = 2
  MaxInt = 7
  Invalid = {"", "long"}
  Blank = {"", "blank"}
  TraceCap = 2
  Replies <- MC_Replies
INVARIANTS
  TypeOK
  ForwardedWasNegotiated
  BodyLimitExact
  AdvertisedIsAccepted
  StrictRequestsPass
  TraceTransparent
CHECK_DEADLOCK FALSE
