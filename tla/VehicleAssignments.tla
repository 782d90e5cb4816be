------------------------- MODULE VehicleAssignments -------------------------
(***************************************************************************)
(* Who drives a trip: the assignments of drivers to vehicles, the driver a *)
(* trip stores, and the rule that a trip keeps the driver it showed.       *)
(*                                                                         *)
(* A request reads and checks, then writes: what it read may be gone when  *)
(* it writes, because other requests commit in between.  Writes of one     *)
(* request commit together, and the two unique indexes on open-ended       *)
(* assignments are enforced then.                                          *)
(***************************************************************************)
EXTENDS Integers, FiniteSets

CONSTANTS
  Vehicles, Drivers, Trips, Requests,
  Assignments,   \* ids of vehicle_assignment rows
  LastDay,       \* days are 1..LastDay; a named bound of the model
  Periods,       \* the periods assignments are created with
  Plannings,     \* the trucks, days and drivers trips are planned with
  Crowd,         \* assignments up to which requests interleave
  EndDays,       \* the last days an update or an end may name
  Changes,       \* what an edit of a trip may change: see EditTrip
  Null,          \* no row, no vehicle, no driver; as a last day: never ends
  Keep           \* the field is absent from the request

ASSUME DaysAssumption == LastDay \in Nat \ {0}

Days == 1..LastDay

LastDays == 0..LastDay   \* a cut-off may leave a last day before the first

ASSUME NullAssumption ==
  /\ Null \notin Vehicles \cup Drivers \cup Int
  /\ Keep \notin Vehicles \cup Drivers \cup Int \cup {Null}

ASSUME InputsAssumption ==
  /\ Periods \subseteq [from : Days, to : Days \cup {Null}]
  /\ Plannings \subseteq [vehicle : Vehicles \cup {Null}, day : Days,
                          driver : Drivers \cup {Null}]
  /\ EndDays \subseteq Days \cup {Null}
  /\ Changes \subseteq [vehicle : Vehicles \cup {Null, Keep}, day : Days \cup {Keep},
                        driver : Drivers \cup {Null, Keep}]

VARIABLES
  today,
  rows,    \* rows[a]: the vehicle_assignment rows
  trips,   \* trips[t]: vehicle, planning date and stored driver
  job,     \* job[r]: what request r asks, has read and means to write
  raced    \* observation: a request has committed what it read before another

vars == <<today, rows, trips, job, raced>>

Row == [vehicle : Vehicles, driver : Drivers, from : Days, to : LastDays \cup {Null}]

Trip == [vehicle : Vehicles \cup {Null}, day : Days, driver : Drivers \cup {Null}]

ASSUME NullIsNoRow == Null \notin Row /\ Null \notin Trip

(* A row as it was read, and the last day it is to get. *)
Write == [id : Assignments, row : Row, to : LastDays \cup {Null}]

NoPlan == [writes |-> {}, new |-> Null, driver |-> Null]

Idle == [phase |-> "idle", op |-> Null, plan |-> NoPlan, stale |-> FALSE]

Exists == {a \in Assignments : rows[a] # Null}

(* An operator named X_Y is X with the bug Y: no action of Next uses it,   *)
(* the run checks that the properties would notice it.                     *)

---------------------------------------------------------------------------
(* Periods.                                                                *)

(* isVoidAssignment: never in effect. *)
Void(row) == row.to # Null /\ row.to < row.from

(* isInEffectOn *)
Covers(row, day) == row.from <= day /\ (row.to = Null \/ row.to >= day)

(* findOverlapping *)
Meets(row, from, to) ==
  (to = Null \/ row.from <= to) /\ (row.to = Null \/ row.to >= from)

(* assertPeriodOrdered *)
Ordered(from, to) == to # Null => to >= from

LastDayBefore_Twice(row, day) == (IF row.from > day THEN row.from ELSE day) - 2

(* The day before the first day without it, or before its own first day. *)
LastDayBefore(row, day) == (IF row.from > day THEN row.from ELSE day) - 1

Ended_Never(row, day) == FALSE

(* assertNotAlreadyEnded *)
Ended(row, day) == row.to # Null /\ row.to < day

(* assignmentInEffect: the latest start wins. *)
Governing(v, day) ==
  LET covering == {a \in Exists : rows[a].vehicle = v /\ Covers(rows[a], day)}
  IN {a \in covering : \A b \in covering : rows[b].from <= rows[a].from}

DriversOn(v, day) == {rows[a].driver : a \in Governing(v, day)}

(* The driver a trip shows: its own, or its vehicle's on its day. *)
Shown(trip) ==
  IF trip.driver # Null THEN {trip.driver} ELSE DriversOn(trip.vehicle, trip.day)

(* A lookup's answer. *)
OrNull(S) == IF S = {} THEN {Null} ELSE S

(* assertNoOverlap *)
Blocked(v, d, from, to, ignored) ==
  \E a \in Exists \ ignored :
    /\ rows[a].vehicle = v \/ rows[a].driver = d
    /\ Meets(rows[a], from, to)
    /\ ~Void(rows[a])

---------------------------------------------------------------------------
(* Requests on assignments.                                                *)

(* Bound of the model: beyond Crowd assignments requests run one at a time. *)
Free(r) ==
  /\ job[r].phase = "idle"
  /\ Cardinality(Exists) < Crowd \/ \A q \in Requests : job[q].phase = "idle"

ReadsOnly == UNCHANGED <<today, rows, trips, raced>>

(* Bound of the model: an id is left for the row a request inserts. *)
HasRoom ==
  Cardinality(Assignments \ Exists)
    > Cardinality({r \in Requests : job[r].plan.new # Null})

(* The transaction has read and checked what it is about to write. *)
Plans(r, op, writes, new, driver) ==
  job' = [job EXCEPT ![r] =
    [phase |-> "checked", op |-> op, stale |-> FALSE,
     plan |-> [writes |-> writes, new |-> new, driver |-> driver]]]

OnAssignments == [kind |-> "ASSIGNMENTS"]

Answers(r) == job' = [job EXCEPT ![r] = Idle]

(* cutOffAssignment, decided now and written with the rest. *)
CutOff(a, row, firstDayWithout) ==
  [id |-> a, row |-> row, to |-> LastDayBefore(row, firstDayWithout)]

(* closeSupersededAssignments *)
Superseded(v, d, from) ==
  {a \in Exists : /\ rows[a].to = Null
                  /\ rows[a].vehicle = v \/ rows[a].driver = d
                  /\ rows[a].from <= from}

Create(r, v, d, from, to) ==
  LET closed == IF to = Null THEN Superseded(v, d, from) ELSE {}
  IN /\ Free(r) /\ HasRoom
     /\ Ordered(from, to)
     /\ ~Blocked(v, d, from, to, closed)
     /\ Plans(r, OnAssignments, {CutOff(a, rows[a], from) : a \in closed},
              [vehicle |-> v, driver |-> d, from |-> from, to |-> to], Null)
     /\ ReadsOnly

(* identicalLink *)
AlreadyLinked(v, d) ==
  \E a \in Exists : /\ rows[a].vehicle = v /\ rows[a].driver = d
                    /\ rows[a].to = Null /\ rows[a].from <= today

Conflicts_OfVehicle(v, d) ==
  {a \in Exists : /\ rows[a].vehicle = v
                  /\ Meets(rows[a], today, Null) /\ ~Void(rows[a])}

(* endConflicts: everything of the truck or the driver from today on. *)
Conflicts(v, d) ==
  {a \in Exists : /\ rows[a].vehicle = v \/ rows[a].driver = d
                  /\ Meets(rows[a], today, Null) /\ ~Void(rows[a])}

Link(r, v, d) ==
  /\ Free(r) /\ HasRoom
  /\ ~AlreadyLinked(v, d)
  /\ Plans(r, OnAssignments, {CutOff(a, rows[a], today) : a \in Conflicts(v, d)},
           [vehicle |-> v, driver |-> d, from |-> today, to |-> Null], Null)
  /\ ReadsOnly

(* The assignment is read before the transaction, and the period it is to  *)
(* have is checked against the others.                                     *)
Redates(r, a, to) ==
  /\ Free(r)
  /\ ~Ended(rows[a], today)
  /\ ~Blocked(rows[a].vehicle, rows[a].driver, rows[a].from, to, {a})
  /\ Plans(r, OnAssignments, {[id |-> a, row |-> rows[a], to |-> to]}, Null, Null)
  /\ ReadsOnly

Update(r, a, to) ==
  a \in Exists /\ Ordered(rows[a].from, to) /\ Redates(r, a, to)

(* Without a date it ends today: today is the first day without it. *)
End(r, a, to) ==
  LET firstDayWithout == IF to = Null THEN today ELSE to + 1
  IN /\ a \in Exists
     /\ Ordered(rows[a].from, to)
     /\ Redates(r, a, LastDayBefore(rows[a], firstDayWithout))

---------------------------------------------------------------------------
(* Their commit.                                                           *)

(* pinDriverOnUnpinnedTrips: the days the assignment loses. *)
Pins(w, t) ==
  /\ w.to # Null
  /\ trips[t] # Null
  /\ trips[t].driver = Null
  /\ trips[t].vehicle = w.row.vehicle
  /\ trips[t].day > w.to
  /\ w.row.to = Null \/ trips[t].day <= w.row.to

PinnedTo(t, writes) == {w.row.driver : w \in {x \in writes : Pins(x, t)}}

Written(writes) ==
  [a \in Assignments |->
     IF \E w \in writes : w.id = a
     THEN [rows[a] EXCEPT !.to = (CHOOSE w \in writes : w.id = a).to]
     ELSE rows[a]]

(* vehicle_assignment_active_vehicle_key and ..._active_driver_key *)
OneActive(table) ==
  \A a, b \in Assignments :
    /\ a # b /\ table[a] # Null /\ table[b] # Null
    /\ table[a].to = Null /\ table[b].to = Null
    => table[a].vehicle # table[b].vehicle /\ table[a].driver # table[b].driver

ActiveIndexHolds_Never(table) == TRUE

ActiveIndexHolds(table) == OneActive(table)

(* The table after the commit: the new row under an id of its own. *)
Tables(r) ==
  LET written == Written(job[r].plan.writes)
      new == job[r].plan.new
  IN IF new = Null THEN {written}
     ELSE {[written EXCEPT ![a] = new] : a \in Assignments \ Exists}

(* Whoever has read and not committed yet has read something older now. *)
Outdated == [q \in Requests |-> IF job[q].phase = "idle" THEN job[q]
                               ELSE [job[q] EXCEPT !.stale = TRUE]]

Commits(r) ==
  /\ job' = [Outdated EXCEPT ![r] = Idle]
  /\ raced' = (raced \/ job[r].stale)

Decided(r, kind) == job[r].phase = "checked" /\ job[r].op.kind = kind

CommitAssignment(r) ==
  /\ Decided(r, "ASSIGNMENTS")
  /\ \E table \in Tables(r), pick \in [Trips -> Drivers] :
       /\ ActiveIndexHolds(table)
       /\ rows' = table
       /\ \A t \in Trips : PinnedTo(t, job[r].plan.writes) # {} =>
            pick[t] \in PinnedTo(t, job[r].plan.writes)
       /\ trips' = [t \in Trips |->
            IF PinnedTo(t, job[r].plan.writes) = {} THEN trips[t]
            ELSE [trips[t] EXCEPT !.driver = pick[t]]]
  /\ Commits(r)
  /\ UNCHANGED today

(* translateActiveAssignmentRace: the whole transaction is rolled back. *)
AssignmentRaced(r) ==
  /\ Decided(r, "ASSIGNMENTS")
  /\ \E table \in Tables(r) : ~ActiveIndexHolds(table)
  /\ Answers(r)
  /\ ReadsOnly

---------------------------------------------------------------------------
(* Requests on trips.                                                      *)

(* TripService.create: planned with a truck and a day, a trip stores that   *)
(* truck's driver, looked up before the transaction.                       *)
PlanTrip(r, t, trip) ==
  /\ Free(r)
  /\ trips[t] = Null
  /\ \A q \in Requests : Decided(q, "PLAN") => job[q].op.trip # t
  /\ \E d \in IF trip.driver # Null THEN {trip.driver}
             ELSE OrNull(DriversOn(trip.vehicle, trip.day)) :
       Plans(r, [kind |-> "PLAN", trip |-> t, vehicle |-> trip.vehicle,
                 day |-> trip.day], {}, Null, d)
  /\ ReadsOnly

Or(value, old) == IF value = Keep THEN old ELSE value

(* The row with the fields the request names. *)
Applied(op, row) ==
  [vehicle |-> Or(op.vehicle, row.vehicle), day |-> Or(op.day, row.day),
   driver |-> Or(op.driver, row.driver)]

(* changesTruckOnly *)
ChangesTruckOnly(op, seen) ==
  op.vehicle \notin {Keep, seen.vehicle} /\ op.driver = Keep

DriverToPin_NewSlot(before, after) ==
  IF after.driver # Null \/ before = after THEN {Null}
  ELSE OrNull(DriversOn(after.vehicle, after.day))

(* TripDriverPinningService.driverToPin, for a trip that exists. *)
DriverToPin(before, after) ==
  IF after.driver # Null \/ before = after THEN {Null}
  ELSE IF before.driver = Null /\ DriversOn(before.vehicle, before.day) # {}
  THEN DriversOn(before.vehicle, before.day)
  ELSE OrNull(DriversOn(after.vehicle, after.day))

(* TripService.update with a driver in the request: chosen or cleared, it  *)
(* wins, and nothing that was read before is written.                      *)
ChooseDriver(t, change) ==
  /\ trips[t] # Null
  /\ change.driver # Keep
  /\ trips' = [trips EXCEPT ![t] = Applied(change, @)]
  /\ job' = Outdated
  /\ UNCHANGED <<today, rows, raced>>

(* ... and without one: the trip is read and the lookups are made before    *)
(* anything is written.  A document's new date takes the same way.         *)
EditTrip(r, t, change) ==
  LET truck == ChangesTruckOnly(change, trips[t])
  IN /\ Free(r)
     /\ trips[t] # Null
     /\ change.driver = Keep
     /\ \E d \in
          IF truck THEN OrNull(DriversOn(change.vehicle, Or(change.day, trips[t].day)))
          ELSE DriverToPin(trips[t], Applied(change, trips[t])) :
            Plans(r, [kind |-> "EDIT", trip |-> t, change |-> change, truck |-> truck],
                  {}, Null, d)
     /\ ReadsOnly

CommitPlan(r) ==
  LET op == job[r].op
  IN /\ Decided(r, "PLAN")
     /\ trips' = [trips EXCEPT ![op.trip] = [vehicle |-> op.vehicle, day |-> op.day,
                                             driver |-> job[r].plan.driver]]
     /\ Commits(r)
     /\ UNCHANGED <<today, rows>>

StoredAfter_Overwrites(row, pinned) == IF pinned = Null THEN row.driver ELSE pinned

(* pinDriver: compare-and-set on a trip that stores none. *)
StoredAfter(row, pinned) == IF row.driver # Null THEN row.driver ELSE pinned

CommitEdit(r) ==
  LET op == job[r].op
      after == Applied(op.change, trips[op.trip])
      driver == IF op.truck THEN job[r].plan.driver
                ELSE StoredAfter(after, job[r].plan.driver)
  IN /\ Decided(r, "EDIT")
     /\ trips' = [trips EXCEPT ![op.trip] = [after EXCEPT !.driver = driver]]
     /\ Commits(r)
     /\ UNCHANGED <<today, rows>>

---------------------------------------------------------------------------
Midnight ==
  /\ today < LastDay
  /\ today' = today + 1
  /\ job' = Outdated
  /\ UNCHANGED <<rows, trips, raced>>

Init ==
  /\ today = 1
  /\ rows = [a \in Assignments |-> Null]
  /\ trips = [t \in Trips |-> Null]
  /\ job = [r \in Requests |-> Idle]
  /\ raced = FALSE

OfAssignments(r) ==
  \/ \E v \in Vehicles, d \in Drivers :
       \/ Link(r, v, d)
       \/ \E period \in Periods : Create(r, v, d, period.from, period.to)
  \/ \E a \in Assignments, to \in EndDays : Update(r, a, to) \/ End(r, a, to)
  \/ CommitAssignment(r) \/ AssignmentRaced(r)

OfTrips(r) ==
  \/ \E t \in Trips :
       \/ \E trip \in Plannings : PlanTrip(r, t, trip)
       \/ \E change \in Changes : EditTrip(r, t, change)
  \/ CommitPlan(r) \/ CommitEdit(r)

Next ==
  \/ \E r \in Requests : OfAssignments(r) \/ OfTrips(r)
  \/ \E t \in Trips, change \in Changes : ChooseDriver(t, change)
  \/ Midnight

Spec == Init /\ [][Next]_vars

---------------------------------------------------------------------------
(* Properties.                                                             *)

TypeOK ==
  /\ today \in Days
  /\ rows \in [Assignments -> Row \cup {Null}]
  /\ trips \in [Trips -> Trip \cup {Null}]
  /\ raced \in BOOLEAN
  /\ \A r \in Requests :
       /\ job[r].phase \in {"idle", "checked"}
       /\ job[r].plan.writes \subseteq Write
       /\ job[r].plan.new \in Row \cup {Null}
       /\ job[r].plan.driver \in Drivers \cup {Null}
       /\ job[r].stale \in BOOLEAN

(* A truck, and a driver, has one assignment a day.  A request that         *)
(* committed what another had made untrue meanwhile can break it, but not  *)
(* for two assignments without an end: nobody drives two trucks for good   *)
(* and no truck has two drivers for good, however many requests found the  *)
(* same truck free at once.                                                *)
NoOverlap ==
  \A a, b \in Exists :
    /\ a # b
    /\ rows[a].vehicle = rows[b].vehicle \/ rows[a].driver = rows[b].driver
    /\ raced => rows[a].to = Null /\ rows[b].to = Null
    => \A day \in Days : ~(Covers(rows[a], day) /\ Covers(rows[b], day))

(* The driver is chosen on the trip (nothing is committed that was read     *)
(* before), or a change of the trip's truck is.                            *)
DecidesDriver(t) ==
  \/ \A r \in Requests : job'[r].phase = job[r].phase
  \/ \E r \in Requests : /\ Decided(r, "EDIT") /\ job[r].op.trip = t /\ job[r].op.truck
                         /\ job'[r] = Idle

(* A trip keeps the driver it showed: ending, shortening, replacing or     *)
(* relinking an assignment and moving the trip's date never hand its work  *)
(* to somebody else.                                                       *)
DriverKept ==
  [][\A t \in Trips :
       ~raced' /\ trips[t] # Null /\ ~DecidesDriver(t) /\ Shown(trips[t]) # {}
       => Shown(trips[t])' = Shown(trips[t])]_vars

(* A stored driver is replaced by a request of its own trip only, even by  *)
(* requests that read the trip before the driver was chosen.               *)
ChosenDriverStays ==
  [][\A t \in Trips :
       trips[t] # Null /\ ~DecidesDriver(t) /\ trips[t].driver # Null
       => trips'[t].driver = trips[t].driver]_vars

(* The record of who drove what is never rewritten: an assignment whose    *)
(* last day has passed keeps its dates.                                    *)
HistoryKept ==
  [][\A a \in Assignments :
       ~raced' /\ a \in Exists /\ rows[a].to # Null /\ rows[a].to < today
       => rows'[a] = rows[a]]_vars
=============================================================================
