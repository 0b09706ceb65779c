SPECIFICATION Spec
CONSTANTS
  NULL = NULL
  r1 = r1
  r2 = r2
  root = root
  ama = ama
  kofi = kofi
  p1 = p1
  Requests = {r1, r2}
  Accounts = {root, ama, kofi}
  DefaultAdmin = root
  Phones = {p1}
  UserRoles = {"tourist", "operator", "administrator"}
  Workloads <- AllWorkloads
SYMMETRY Interchangeable
INVARIANTS PhoneSharingIsBounded ScriptAdministratorsStand AccountsAreWhole Inv
PROPERTIES AdministratorsYieldOnlyToStaleRequests SavedProfilesStay
CHECK_DEADLOCK FALSE
