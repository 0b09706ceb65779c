SPECIFICATION FairSpec
CONSTANTS
  NULL = NULL
  r1 = r1
  r2 = r2
  r3 = r3
  kofi = kofi
  a1 = a1
  a2 = a2
  s1 = s1
  Requests = {r1, r2}
  Users = {kofi}
  Operators = {kofi}
  Attractions = {a1, a2}
  OperatorOf <- OperatedByKofi
  Slots = {s1}
  MaxDay = 2
  MaxParty = 1
  Capacities = {1}
  MaxInFlight = 2
INVARIANTS SlotOfItsAttraction
PROPERTIES EveryRequestAnswered
CHECK_DEADLOCK FALSE
