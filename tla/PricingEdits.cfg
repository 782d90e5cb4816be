\* Two requests close and edit a pair and take it apart; the process may stop.
CONSTANTS
  t1 = t1
  t2 = t2
  t3 = t3
  n1 = n1
  n2 = n2
  d1 = d1
  d2 = d2
  x1 = x1
  x2 = x2
  p1 = p1
  p2 = p2
  NoTrip = NoTrip
  NoNumber = NoNumber
  Unpaired = Unpaired
  Trips = {t1, t2}
  Legs = {t1, t2}
  Collection = t1
  Requests = {p1, p2}
  Numbers = {n1}
  Days = {d1}
  Inputs = {x1, x2}
  Operations <- MCEditOps
  MayFail = FALSE
  MayCrash = TRUE
SPECIFICATION PairSpec
VIEW TimelessView
SYMMETRY PairSymmetry
INVARIANTS
  CurrentUnlessCrashed
  PricedUnlessCrashed
PROPERTIES
  SnapshotsMoveForward
