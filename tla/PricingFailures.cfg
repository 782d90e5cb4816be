\* One request at a time over a pair; calculations and stores may fail.
CONSTANTS
  t1 = t1
  t2 = t2
  t3 = t3
  n1 = n1
  n2 = n2
  d1 = d1
  d2 = d2
  x1 = x1
  x2 = x2
  p1 = p1
  p2 = p2
  NoTrip = NoTrip
  NoNumber = NoNumber
  Unpaired = Unpaired
  Trips = {t1, t2}
  Legs = {t1, t2}
  Collection = t1
  Requests = {p1}
  Numbers = {n1}
  Days = {d1, d2}
  Inputs = {x1}
  Operations <- MCPairOps
  MayFail = TRUE
  MayCrash = FALSE
SPECIFICATION Spec
VIEW TimelessView
SYMMETRY PairSymmetry
INVARIANTS
  PriceIsCurrent
