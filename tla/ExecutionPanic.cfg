CONSTANTS
  c1 = c1
  c2 = c2
  none = none
  NoRequest <- none
  Roles <- MCRoles
  Calls <- OneCall
  Requests <- MCRequests
  Table <- MCTable
  Heeding <- MCHeeding
  HandlerErrors <- MCHandlerErrors
SPECIFICATION Spec
INVARIANT SuccessMeansValue
CHECK_DEADLOCK FALSE
