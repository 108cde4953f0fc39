CONSTANTS
  None = None
  Tools = {orders}
  Runners = {r1, r2}
  Stoppers = {s}
  Clients = {q1, q2}
SPECIFICATION Spec
INVARIANT ServingIsReady
CHECK_DEADLOCK FALSE
