\* Two requests in flight, interleaved at every database call.
CONSTANTS
  t1 = t1
  t2 = t2
  b1 = b1
  c1 = c1
  x1 = x1
  day1 = day1
  day2 = day2
  g1 = g1
  g2 = g2
  o1 = o1
  p1 = p1
  p2 = p2
  Trips = {t1, t2}
  Requests = {p1, p2}
  Bookings = {b1}
  NoBooking = NoBooking
  Containers = {c1}
  NoContainer = NoContainer
  Typed = {c1}
  Canonical <- MCCanonical
  Days = {day1}
  NoDay = NoDay
  Groups = {g1}
  NoGroup = NoGroup
  Orders = {o1}
  NoOrder = NoOrder
  Documents <- MCDocuments
  Entries = {}
  Operations <- MCRacingOps
SPECIFICATION FairSpec
INVARIANTS
  TypeOK
PROPERTIES
  CancelsOnlyOpenWork
  NamedContainerIsReached
  EveryRequestAnswers
