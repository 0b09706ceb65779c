SPECIFICATION Spec
CONSTANTS
  NULL = NULL
  r1 = r1
  r2 = r2
  ama = ama
  kofi = kofi
  Requests = {r1, r2}
  Accounts = {ama}
  MaxAttempts = 2
  Lockout = 1
  TokenLife = 2
  SessionLife = 4
  MaxTime = 2
SYMMETRY RequestSymmetry
INVARIANTS Inv BlacklistedSessionIsReissued FailuresLeaveNoTrace
PROPERTIES RevokedNeverAccepted
