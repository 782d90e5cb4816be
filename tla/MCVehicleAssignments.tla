------------------------ MODULE MCVehicleAssignments ------------------------
(* Small instances of VehicleAssignments for TLC. *)
EXTENDS VehicleAssignments, TLC

CONSTANTS v1, v2, d1, d2, t1, a1, a2, a3, r1, r2

Period(from, to) == [from |-> from, to |-> to]

MCPeriods == {Period(1, 1), Period(1, Null), Period(2, Null)}

MCPlannings == {[vehicle |-> v, day |-> LastDay, driver |-> Null] : v \in Vehicles}

MCEndDays == {1, Null}

Change(v, day, d) == [vehicle |-> v, day |-> day, driver |-> d]

(* Another date, another truck, a driver. *)
MCChanges ==
  {Change(Keep, day, Keep) : day \in Days}
  \cup {Change(v, Keep, Keep) : v \in Vehicles}
  \cup {Change(Keep, Keep, d) : d \in Drivers}

Symmetric == Permutations(Vehicles) \cup Permutations(Drivers)
             \cup Permutations(Assignments) \cup Permutations(Requests)
=============================================================================
