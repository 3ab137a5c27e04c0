SPECIFICATION FairSpec
CONSTANTS
  r1 = r1
  r2 = r2
  c1 = c1
  c2 = c2
  x1 = x1
  p1 = p1
  p2 = p2
  None = None
  Deleted = Deleted
  Roles <- TwoRoles
  Codes <- TwoCodes
  Permissions <- OnePermission
  Routes <- TwoRoutes
  Slots <- Concurrent
  Staffed <- OneRole
  Ops <- AllOps
  CACHE_TTL = 1
  TOKEN_TTL = 1
  MaxChanges = 2
  MaxFaults = 1
  Words <- AllWords
  Params <- AllParams
  Ids <- Numbers
INVARIANTS
  TypeOK
  Integrity
  StaleHasCause
  GuardGrants
PROPERTIES
  StaleEntriesDie
