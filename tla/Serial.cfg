SPECIFICATION Spec
CONSTANTS
  NULL = NULL
  r1 = r1
  r2 = r2
  r3 = r3
  kofi = kofi
  a1 = a1
  a2 = a2
  s1 = s1
  Requests = {r1, r2, r3}
  Users = {kofi}
  Operators = {kofi}
  Attractions = {a1}
  OperatorOf <- OperatedByKofi
  Slots = {s1}
  MaxDay = 2
  MaxParty = 2
  Capacities = {1, 2}
  MaxInFlight = 1
SYMMETRY RequestSymmetry
PROPERTIES ImplementsLedger AdmissionWithinCapacity SlotLostOnlyByDeletion
  ConfirmOnlyPending UpdateOnlyPending
CHECK_DEADLOCK FALSE
