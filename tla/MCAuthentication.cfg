SPECIFICATION Spec
CONSTANTS
  None = None
  Roles = {"reader"}
  Readers = {r1}
  Asks <- MC_Asks
  Credentials = {"a", "b", "bad"}
  Invalid = {"bad"}
  Records <- MC_Records
  Claims <- MC_Claims
  Configs <- MC_Configs
  Lease = 2
  Leeway = 1
  MaxTime = 4
INVARIANTS
  TypeOK
  AdmittedByOwnCredential
  RefusedForCause
PROPERTY
  NotPastExpiry
CHECK_DEADLOCK FALSE
