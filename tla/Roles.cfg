SPECIFICATION Spec
CONSTANTS
  NULL = NULL
  SEED = SEED
  r1 = r1
  r2 = r2
  r3 = r3
  i1 = i1
  i2 = i2
  i3 = i3
  p1 = p1
  p2 = p2
  p3 = p3
  superAdmin = superAdmin
  guide = guide
  Requests = {r1, r2, r3}
  RoleIds = {i1, i2, i3}
  Codes = {superAdmin, guide}
  Permissions = {p1, p2, p3}
  SeededRoles = {superAdmin, guide}
  SystemRoles = {superAdmin}
  Seeded <- Specs
  MaxInFlight = 2
SYMMETRY Interchangeable
INVARIANTS WritersAreBounded Inv
PROPERTIES WithdrawnStaysWithdrawn SystemRoleYieldsOnlyToStaleRequests
CHECK_DEADLOCK FALSE
