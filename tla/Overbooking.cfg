SPECIFICATION USpec
CONSTANTS
  NULL = NULL
  r1 = r1
  r2 = r2
  r3 = r3
  kofi = kofi
  a1 = a1
  s1 = s1
  Requests = {r1, r2, r3}
  Users = {kofi}
  Operators = {kofi}
  Attractions = {a1}
  OperatorOf <- OperatedByKofi
  Slots = {s1}
  MaxDay = 1
  MaxParty = 2
  Capacities = {2}
  MaxInFlight = 2
SYMMETRY RequestSymmetry
INVARIANTS OverbookingIsBounded ClaimsAreBounded TokenMatchesStatus Inv
PROPERTIES UncheckedOnlyByRacingUpdates Lifecycle
CHECK_DEADLOCK FALSE
