CONSTANTS
  c1 = c1
  c2 = c2
  none = none
  NoRequest <- none
  Roles <- MCRoles
  Calls <- MCCalls
  Requests <- MCRequests
  Table <- MCTable
  Heeding <- MCHeeding
  HandlerErrors <- MCHandlerErrors
SPECIFICATION FairSpec
INVARIANTS
  TypeOK
  OnlyAuthorisedRun
  AuditedOnce
  AuditTellsHowFar
  AnswerMatchesAudit
  ContextEnds
PROPERTIES
  ImplementsContract
  HeedingCallsReturn
CHECK_DEADLOCK FALSE
