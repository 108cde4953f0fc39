CONSTANTS
  Limit = 8
  Values <- MC_Values
  WhiteLists <- MC_WhiteLists
SPECIFICATION Spec
INVARIANTS
  NoSecretLeaves
  RestIsKept
CHECK_DEADLOCK FALSE
