SPECIFICATION Spec
CONSTANTS
  NilList = NilList
  Requests <- MC_Requests
  Configured <- MC_Configured
  Limits = {7}
  DefaultLimit = 2
  MaxInt = 7
  Invalid = {"", "long"}
  Blank = {"", "blank"}
  TraceCap = 2
  Replies <- MC_Replies
INVARIANT
  BodyLimitExact
CHECK_DEADLOCK FALSE
