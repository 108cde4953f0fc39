CONSTANTS
  None = None
  Tools = {orders}
  Runners = {r1, r2}
  Stoppers = {s}
  Clients = {q1, q2}
SPECIFICATION FairSpec
INVARIANTS
  TypeOK
  OneServer
  StopDrains
  RunDrains
PROPERTIES
  ServedToolsFixed
  NeverReadyAgain
  GoroutineEnds
  CanceledRunReturns
CHECK_DEADLOCK FALSE
