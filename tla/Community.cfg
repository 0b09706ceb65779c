SPECIFICATION Spec
CONSTANTS
  NULL = NULL
  r1 = r1
  r2 = r2
  r3 = r3
  r4 = r4
  ama = ama
  kofi = kofi
  a1 = a1
  a2 = a2
  b1 = b1
  b2 = b2
  Requests = {r1, r2, r3, r4}
  Users = {ama, kofi}
  Attractions = {a1, a2}
  Bookings = {b1}
  TouristOf <- BookedByAma
  AttractionOf <- BookedAttractions
  MaxInFlight = 3
SYMMETRY RequestSymmetry
INVARIANTS FavoritesAreWhole ReviewsMatchBookings Inv
PROPERTIES ImplementsCatalog
CHECK_DEADLOCK FALSE
