CONSTANTS
  t1 = t1
  t2 = t2
  b1 = b1
  b2 = b2
  c1 = c1
  c2 = c2
  e1 = e1
  r1 = r1
  r2 = r2
  Null = Null
  Trips = {t1, t2}
  Bookings = {b1, b2}
  Containers = {c1, c2}
  Ccs = {e1}
  Requests = {r1, r2}
  Days = {0, 1}
  Prices <- MCPrices
  Confirms <- MCConfirms
  MaxEdits = 2
  AtOnce = 1
  MaxVersions = 2
  Confirmed <- MCConfirmed
  Initially <- MCInitially
  Invoices <- MCInvoices
SPECIFICATION Spec
SYMMETRY MCSymmetry
CHECK_DEADLOCK FALSE
INVARIANTS
  TypeOK
  PaidOnce
PROPERTIES
  SettledTogether
  StatedOnce
  AddedApart
  AddedOnce
  PaidInFull
