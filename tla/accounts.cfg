SPECIFICATION Spec
CONSTANTS
  p1 = p1
  p2 = p2
  Slots <- Concurrent
  MAX_OTP_ATTEMPTS = 1
  MAX_RESET_ATTEMPTS = 1
  TTL <- Lifetimes
  MaxFaults = 1
INVARIANTS
  TypeOK
  KeysNeedAccount
  GuessesBounded
  ResetOtpSpent
SYMMETRY Symmetry
PROPERTIES
  LifecycleSpec
