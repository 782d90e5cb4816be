\* A trip typed by hand and a document of the same transport.
CONSTANTS
  t1 = t1
  t2 = t2
  b1 = b1
  c1 = c1
  x1 = x1
  day1 = day1
  day2 = day2
  g1 = g1
  g2 = g2
  o1 = o1
  p1 = p1
  p2 = p2
  Trips = {t1, t2}
  Requests = {p1}
  Bookings = {b1}
  NoBooking = NoBooking
  Containers = {c1}
  NoContainer = NoContainer
  Typed = {c1, x1}
  Canonical <- MCCanonical
  Days = {day1, day2}
  NoDay = NoDay
  Groups = {g1}
  NoGroup = NoGroup
  Orders = {o1}
  NoOrder = NoOrder
  Documents <- MCDocuments
  Entries <- MCEntries
  Operations = {"CREATE", "UPDATE"}
SPECIFICATION Spec
PROPERTY TypedContainerIsReached
