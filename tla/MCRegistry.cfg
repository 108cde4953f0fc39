CONSTANTS
  orders = orders
  users = users
  clone = clone
  alias = alias
  broken = broken
  nil = nil
  a = a
  b = b
  h = h
  r = r
  Roles <- MCRoles
  Item <- MCItem
  Nil <- nil
  Desc <- MCDesc
  Principals <- MCPrincipals
  Batches <- MCBatches
  Registrars <- MCRegistrars
  Freezers <- MCFreezers
  Readers <- MCReaders
SPECIFICATION FairSpec
INVARIANTS
  TypeOK
  IndexesAgree
  AcceptedItemsStay
PROPERTIES
  FrozenForGood
  VisibleCoversKnown
  RegistrationReturns
