-------------------------- MODULE MCTripPricing --------------------------
(* Small instances of TripPricing for TLC. *)
EXTENDS TripPricing, TLC

CONSTANTS t1, t2, t3, n1, n2, d1, d2, x1, x2, p1, p2

(* Times are compared and never shown: two states whose times are in the   *)
(* same order are one state.  A pricing's start is compared with the times *)
(* of calculations only.                                                   *)
CalculationTimes ==
  {snapshot[t].at : t \in Trips}
  \cup UNION {{request[p].results[i].at : i \in DOMAIN request[p].results} :
               p \in Requests}

Rank(time) == Cardinality({at \in CalculationTimes : at < time})

RankedRequest(req) ==
  [req EXCEPT !.since = Rank(@),
              !.results = [i \in DOMAIN @ |-> [@[i] EXCEPT !.at = Rank(@)]]]

TimelessView ==
  <<trip, grouped,
    [t \in Trips |-> [snapshot[t] EXCEPT !.at = Rank(@)]],
    [p \in Requests |-> RankedRequest(request[p])], crashed>>

MCTarOps == {"CLOSE", "OPEN", "CANCEL", "NUMBER"}

MCGroupOps == {"CLOSE", "OPEN", "CANCEL", "NUMBER", "LINK", "UNLINK"}

MCPairOps == {"CLOSE", "OPEN", "CANCEL", "MOVE", "EDIT", "REPRICE", "LINK",
              "UNLINK"}

MCEditOps == {"CLOSE", "EDIT", "UNLINK"}

(* A pair from the start; its collection leg owes no TAR. *)
PairInit == Init /\ grouped = Legs /\ trip[Collection].number = NoNumber

PairSpec == PairInit /\ [][Next]_vars

(* Without legs any two trips may be exchanged; the legs of a pair may not, *)
(* the collection leg owes no TAR.                                         *)
TripSymmetry == Permutations(Trips) \cup Permutations(Requests)

PairSymmetry == Permutations(Requests) \cup Permutations(Inputs)
=============================================================================
