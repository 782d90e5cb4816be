------------------------- MODULE MCTripLifecycle -------------------------
(* Small instances of TripLifecycle for TLC. *)
EXTENDS TripLifecycle, TLC

CONSTANTS t1, t2, b1, c1, x1, day1, day2, g1, g2, o1, p1, p2

(* x1 is c1 with a space in it. *)
MCCanonical == [c \in Typed |-> IF c = x1 THEN c1 ELSE c]

(* A transport order, stated with and without its container. *)
Stated(c, day, order) ==
  [booking |-> b1, container |-> c, day |-> day, order |-> order]

(* Trips entered by hand: as a document prints its transport, with nothing *)
(* but the booking, and without a booking for another day.                 *)
ByHand(b, c, stated, day) ==
  [booking |-> b, container |-> c, stated |-> stated, day |-> day]

MCEntries == {ByHand(b1, x1, NoDay, day1), ByHand(b1, NoContainer, NoDay, NoDay),
              ByHand(NoBooking, NoContainer, NoDay, day2)}

MCSerialOps == {"CREATE", "EDIT", "STATUS", "COMPLETE", "DELETE", "RESTORE",
                "GROUP", "UNGROUP", "LOOSE", "NEW", "UPDATE", "CANCEL"}

MCDocuments == {Stated(NoContainer, day1, o1), Stated(c1, day1, o1)}

MCRacingOps == {"STATUS", "NEW", "UPDATE", "CANCEL"}

(* The answer of a request that has ended is looked at by nobody, and the  *)
(* next request in its slot starts without it.                             *)
View ==
  <<trip, [p \in Requests |-> IF request[p].phase = "idle" THEN Idle("NONE")
                                                           ELSE request[p]]>>

Symmetry == Permutations({t1, t2})
=============================================================================
