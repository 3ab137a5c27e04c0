SPECIFICATION Spec
CONSTANTS
  r1 = r1
  c1 = c1
  x1 = x1
  x2 = x2
  v1 = v1
  v2 = v2
  p1 = p1
  None = None
  Deleted = Deleted
  Roles <- OneRole
  Codes <- OneCode
  Permissions <- TwoPermissions
  Routes <- TwoRoutes
  Slots <- Serial
  Staffed <- OneRole
  Ops <- RemovalOps
  CACHE_TTL = 1
  TOKEN_TTL = 1
  MaxChanges = 2
  MaxFaults = 0
SYMMETRY Symmetry
INVARIANTS
  RemovedGrantsEnd
