SPECIFICATION Spec
CONSTANTS
  u1 = u1
  u2 = u2
  b1 = b1
  j1 = j1
  j2 = j2
  j3 = j3
  p1 = p1
  p2 = p2
  None = None
  Users <- OneUser
  Browsers <- OneBrowser
  Jtis <- TwoSessions
  Slots <- Concurrent
  Ops <- PasswordLogin
  MAX_SESSIONS = 1
  ACCESS_TTL = 1
  REFRESH_TTL = 2
  MaxTokens = 2
  MaxPasswords = 2
  MaxFaults = 0
SYMMETRY Symmetry
INVARIANTS
  SessionLimit
