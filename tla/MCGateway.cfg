CONSTANTS
  none = none
  NoRequest <- none
  NoHolder <- none
  Calls = {1}
  Heeding = {1}
  Roles <- MC_Roles
  Table <- MC_Table
  Holders <- MC_Holders
  Configs <- MC_Configs
  Requests <- MC_Requests
  HandlerErrors <- MC_HandlerErrors
  VersionSets <- MC_VersionSets
SPECIFICATION GatewaySpec
INVARIANTS
  ExitTellsTruth
  EngineAgreesWithServer
CHECK_DEADLOCK FALSE
