SPECIFICATION Spec
CONSTANTS
  NULL = NULL
  r1 = r1
  r2 = r2
  r3 = r3
  ama = ama
  p1 = p1
  p2 = p2
  c1 = c1
  c2 = c2
  Requests = {r1, r2, r3}
  Accounts = {ama}
  Passwords = {p1, p2}
  Codes = {c1, c2}
  CodeLife = 2
  MaxTime = 3
  MaxInFlight = 2
SYMMETRY Interchangeable
INVARIANTS ValidCodesAreBounded TokenUsesAreBounded Inv
PROPERTIES TokensStayUsed
CHECK_DEADLOCK FALSE
