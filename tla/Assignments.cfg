\* Two requests over two trucks, two drivers and a trip; days pass meanwhile.
CONSTANTS
  v1 = v1
  v2 = v2
  d1 = d1
  d2 = d2
  t1 = t1
  a1 = a1
  a2 = a2
  a3 = a3
  r1 = r1
  r2 = r2
  Null = Null
  Keep = Keep
  Vehicles = {v1, v2}
  Drivers = {d1, d2}
  Trips = {t1}
  Requests = {r1, r2}
  Assignments = {a1, a2, a3}
  LastDay = 2
  Crowd = 2
  Periods <- MCPeriods
  Plannings <- MCPlannings
  EndDays <- MCEndDays
  Changes <- MCChanges
SPECIFICATION Spec
SYMMETRY Symmetric
INVARIANTS
  TypeOK
  NoOverlap
PROPERTIES
  DriverKept
  ChosenDriverStays
  HistoryKept
