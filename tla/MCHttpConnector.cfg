CONSTANTS
  Connectors = {"x", "y"}
  Calls = {1}
  MaxInt = 5
  Configs <- MC_Configs
  Clients <- MC_Clients
  Requests <- MC_Requests
  Locations <- MC_Locations
SPECIFICATION FairSpec
INVARIANTS
  StaysInOrigin
  RefusedForOwnCause
  ResponseWhole
PROPERTIES
  InvokeReturns
CHECK_DEADLOCK FALSE
