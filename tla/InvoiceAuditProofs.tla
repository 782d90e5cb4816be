------------------------- MODULE InvoiceAuditProofs -------------------------
(***************************************************************************)
(* What the invoice check promises about payments, about the lines it      *)
(* adds, about what its corrections state and about what is paid, for any  *)
(* trips, any workbooks and any number of requests.                        *)
(***************************************************************************)
EXTENDS InvoiceAudit, FiniteSetTheorems, TLAPS

(* The payments on record: one still standing where a trip is paid, and    *)
(* one taken back for each time an operator made it unpaid.                *)
Accounted ==
  \A t \in Trips : settled[t] <= released[t] + (IF trip[t].paid THEN 1 ELSE 0)

(* What a request may pay, once its payment was accepted, are trips. *)
AcceptedAreTrips ==
  \A r \in Requests : request[r].phase = "ACCEPTED" => request[r].pay \subseteq Trips

IInv ==
  /\ trip \in [Trips -> TripRow]
  /\ settled \in [Trips -> Nat]
  /\ released \in [Trips -> Nat]
  /\ request = [r \in Requests |-> request[r]]
  /\ Accounted
  /\ AcceptedAreTrips

\* A request as its workbook is matched.
Matched(workbook) ==
  LET match == Matching(workbook.lines)
  IN  [phase |-> "MATCHED", workbook |-> workbook, match |-> match,
       corrected |-> CorrectedTo(workbook.lines, match),
       paid |-> {t \in Trips : trip[t].paid /\ \E i \in DOMAIN match : match[i].trip = t}]

LEMMA MatchSets ==
  ASSUME NEW r, NEW workbook, Match(r, workbook)
  PROVE  request' = [request EXCEPT ![r] = Matched(workbook)]
<1>1. PICK match \in {Matching(workbook.lines)} :
        request' = [request EXCEPT ![r] =
          [phase |-> "MATCHED", workbook |-> workbook, match |-> match,
           corrected |-> CorrectedTo(workbook.lines, match),
           paid |-> {t \in Trips : trip[t].paid /\ \E i \in DOMAIN match : match[i].trip = t}]]
  BY SMT DEF Match
<1> QED BY <1>1 DEF Matched

LEMMA InitInvariant == Init => IInv
<1> SUFFICES ASSUME Init PROVE IInv
  OBVIOUS
<1>1. trip \in [Trips -> TripRow]
  BY TripsAreTrips DEF Init
<1>2. /\ settled = [t \in Trips |-> 0]
      /\ released = [t \in Trips |-> 0]
      /\ request = [r \in Requests |-> Idle]
  BY DEF Init
<1>3. request = [r \in Requests |-> request[r]]
  BY <1>2
<1>4. AcceptedAreTrips
  BY <1>2 DEF AcceptedAreTrips, Idle
<1>5. Accounted
  BY <1>2 DEF Accounted
<1> QED BY <1>1, <1>2, <1>3, <1>4, <1>5 DEF IInv

(* An operator changes one trip, to a row that is one, and no request. *)
LEMMA ChangeStep ==
  ASSUME IInv, NEW t \in Trips, NEW row \in TripRow, Change(t, row)
  PROVE  /\ trip' = [trip EXCEPT ![t] = row]
         /\ trip' \in [Trips -> TripRow]
         /\ UNCHANGED <<request, settled>>
BY DEF Change, IInv

(* Accounts hold when a trip's row changes but not its payment. *)
LEMMA AccountedAsPaid ==
  ASSUME IInv, UNCHANGED <<request, settled, released>>, trip' \in [Trips -> TripRow],
         \A t \in Trips : trip'[t].paid = trip[t].paid
  PROVE  IInv'
<1>1. Accounted'
  BY DEF Accounted, IInv
<1>2. AcceptedAreTrips'
  BY DEF AcceptedAreTrips, IInv
<1> QED BY <1>1, <1>2 DEF IInv

(* Operators may change a trip in any way: what they take back is counted. *)
LEMMA OperatesStep ==
  ASSUME IInv, NEW t \in Trips, Operates(t)
  PROVE  IInv' /\ request' = request
<1> DEFINE Row == trip[t]
<1>1. Row \in TripRow
  BY DEF IInv
<1>2. ASSUME NEW row \in TripRow, Change(t, row), row.paid = Row.paid, released' = released
      PROVE  IInv' /\ request' = request
  <2>1. /\ trip' = [trip EXCEPT ![t] = row] /\ trip' \in [Trips -> TripRow]
        /\ UNCHANGED <<request, settled>>
    BY <1>2, ChangeStep
  <2>2. \A u \in Trips : trip'[u].paid = trip[u].paid
    BY <2>1, <1>2 DEF IInv
  <2> QED BY <2>1, <2>2, <1>2, AccountedAsPaid
<1>3. CASE Plan(t)
  <2>1. CASE \E day \in Days : Change(t, [trip[t] EXCEPT !.date = day])
    <3>1. PICK day \in Days : Change(t, [trip[t] EXCEPT !.date = day])
      BY <2>1
    <3>2. [Row EXCEPT !.date = day] \in TripRow /\ [Row EXCEPT !.date = day].paid = Row.paid
      BY <1>1 DEF TripRow
    <3> QED BY <3>1, <3>2, <1>2, <1>3 DEF Plan
  <2>2. CASE \E b \in Bookings : Change(t, [trip[t] EXCEPT !.booking = b])
    <3>1. PICK b \in Bookings : Change(t, [trip[t] EXCEPT !.booking = b])
      BY <2>2
    <3>2. [Row EXCEPT !.booking = b] \in TripRow /\ [Row EXCEPT !.booking = b].paid = Row.paid
      BY <1>1 DEF TripRow
    <3> QED BY <3>1, <3>2, <1>2, <1>3 DEF Plan
  <2>3. CASE \E c \in Containers \cup {Null} : Change(t, [trip[t] EXCEPT !.container = c])
    <3>1. PICK c \in Containers \cup {Null} : Change(t, [trip[t] EXCEPT !.container = c])
      BY <2>3
    <3>2. [Row EXCEPT !.container = c] \in TripRow /\ [Row EXCEPT !.container = c].paid = Row.paid
      BY <1>1 DEF TripRow
    <3> QED BY <3>1, <3>2, <1>2, <1>3 DEF Plan
  <2> QED BY <2>1, <2>2, <2>3, <1>3 DEF Plan
<1>4. CASE Reprice(t)
  <2>1. PICK p \in Prices \cup {Null} : Change(t, [trip[t] EXCEPT !.price = p])
    BY <1>4 DEF Reprice
  <2>2. [Row EXCEPT !.price = p] \in TripRow /\ [Row EXCEPT !.price = p].paid = Row.paid
    BY <1>1 DEF TripRow
  <2> QED BY <2>1, <2>2, <1>2, <1>4 DEF Reprice
<1>5. CASE ChangeStatus(t)
  <2>1. PICK s \in AllowedFrom(trip[t].status) : Change(t, [trip[t] EXCEPT !.status = s])
    BY <1>5 DEF ChangeStatus
  <2>2. trip[t].status \in Statuses
    BY <1>1 DEF TripRow
  <2>3. s \in Statuses
    BY <2>1, <2>2 DEF AllowedFrom, Statuses
  <2>4. [Row EXCEPT !.status = s] \in TripRow /\ [Row EXCEPT !.status = s].paid = Row.paid
    BY <1>1, <2>3 DEF TripRow
  <2> QED BY <2>1, <2>4, <1>2, <1>5 DEF ChangeStatus
<1>6. ASSUME NEW paid \in BOOLEAN, ChangePayment(t, paid)
      PROVE  IInv' /\ request' = request
  <2> DEFINE New == [Row EXCEPT !.paid = paid]
  <2>1. New \in TripRow /\ New.paid = paid
    BY <1>1 DEF TripRow
  <2>2. Change(t, New) /\ released' = [released EXCEPT ![t] = @ + IF paid THEN 0 ELSE 1]
    BY <1>6 DEF ChangePayment
  <2>3. /\ trip' = [trip EXCEPT ![t] = New] /\ trip' \in [Trips -> TripRow]
        /\ UNCHANGED <<request, settled>>
    BY <2>1, <2>2, ChangeStep
  <2>4. released' \in [Trips -> Nat]
    BY <2>2 DEF IInv
  <2>5. ASSUME NEW u \in Trips
        PROVE  settled[u] <= released'[u] + (IF trip'[u].paid THEN 1 ELSE 0)
    <3>1. settled[u] \in Nat /\ released[u] \in Nat
      BY DEF IInv
    <3>2. settled[u] <= released[u] + (IF trip[u].paid THEN 1 ELSE 0)
      BY DEF IInv, Accounted
    <3>3. CASE u # t
      <4>1. trip'[u] = trip[u] /\ released'[u] = released[u]
        BY <2>2, <2>3, <3>3 DEF IInv
      <4> QED BY <3>2, <4>1
    <3>4. CASE u = t
      <4>1. trip'[t].paid = paid /\ released'[t] = released[t] + IF paid THEN 0 ELSE 1
        BY <2>1, <2>2, <2>3 DEF IInv
      <4>2. CASE paid
        BY <3>1, <3>2, <3>4, <4>1, <4>2
      <4>3. CASE ~paid
        BY <3>1, <3>2, <3>4, <4>1, <4>3
      <4> QED BY <4>2, <4>3
    <3> QED BY <3>3, <3>4
  <2>6. Accounted'
    BY <2>3, <2>5 DEF Accounted
  <2>7. AcceptedAreTrips'
    BY <2>3 DEF IInv, AcceptedAreTrips
  <2> QED BY <2>3, <2>4, <2>6, <2>7 DEF IInv
<1> QED BY <1>3, <1>4, <1>5, <1>6 DEF Operates

(* A request leaves the trips and the accounts alone until it settles. *)
LEMMA RequestStep ==
  ASSUME IInv, NEW r \in Requests, NEW job,
         request' = [request EXCEPT ![r] = job],
         job.phase = "ACCEPTED" => job.pay \subseteq Trips,
         UNCHANGED <<trip, settled, released>>
  PROVE  IInv'
<1>1. \A q \in Requests : request'[q] = IF q = r THEN job ELSE request[q]
  BY DEF IInv
<1>2. request' = [q \in Requests |-> request'[q]]
  BY DEF IInv
<1>3. AcceptedAreTrips'
  BY <1>1 DEF AcceptedAreTrips, IInv
<1>4. Accounted'
  BY DEF Accounted, IInv
<1> QED BY <1>2, <1>3, <1>4 DEF IInv

(* What settling does to a trip it pays, and that it pays all or none. *)
LEMMA SettleStep ==
  ASSUME IInv, NEW r \in Requests, Settle(r)
  PROVE  /\ IInv'
         /\ request' = [request EXCEPT ![r] = Idle]
         /\ trip' # trip => \A t \in request[r].pay :
              /\ Closed(t) /\ ~trip[t].paid /\ trip'[t].paid
              /\ settled'[t] = settled[t] + 1
<1> DEFINE pay == PaidOf(request[r].pay)
<1>1. /\ trip' = [t \in Trips |-> [trip[t] EXCEPT !.paid = @ \/ t \in pay]]
      /\ settled' = [t \in Trips |-> settled[t] + IF t \in pay THEN 1 ELSE 0]
      /\ request' = [request EXCEPT ![r] = Idle]
      /\ released' = released
      /\ request[r].phase = "ACCEPTED"
  BY DEF Settle
<1>2. request[r].pay \subseteq Trips
  BY <1>1 DEF IInv, AcceptedAreTrips
<1>3. pay \subseteq Trips /\ \A t \in pay : Settleable(t)
  BY <1>2 DEF PaidOf
<1> HIDE DEF pay
<1>4. ASSUME NEW t \in Trips
      PROVE  /\ trip'[t] \in TripRow
             /\ trip'[t].paid = (trip[t].paid \/ t \in pay)
             /\ settled'[t] = settled[t] + (IF t \in pay THEN 1 ELSE 0)
             /\ settled'[t] \in Nat
             /\ settled'[t] <= released[t] + (IF trip'[t].paid THEN 1 ELSE 0)
  <2>1. trip[t] \in TripRow /\ settled[t] \in Nat /\ released[t] \in Nat
    BY DEF IInv
  <2>2. trip'[t] = [trip[t] EXCEPT !.paid = @ \/ t \in pay]
    BY <1>1
  <2>3. trip'[t] \in TripRow /\ trip'[t].paid = (trip[t].paid \/ t \in pay)
    BY <2>1, <2>2 DEF TripRow
  <2>4. settled'[t] = settled[t] + (IF t \in pay THEN 1 ELSE 0)
    BY <1>1
  <2>5. settled[t] <= released[t] + (IF trip[t].paid THEN 1 ELSE 0)
    BY DEF IInv, Accounted
  <2>6. CASE t \in pay
    <3>1. ~trip[t].paid /\ trip'[t].paid
      BY <1>3, <2>3, <2>6 DEF Settleable
    <3> QED BY <2>1, <2>3, <2>4, <2>5, <2>6, <3>1
  <2>7. CASE t \notin pay
    <3>1. trip'[t].paid = trip[t].paid
      BY <2>1, <2>3, <2>7 DEF TripRow
    <3> QED BY <2>1, <2>3, <2>4, <2>5, <2>7, <3>1
  <2> QED BY <2>6, <2>7
<1>5. trip' \in [Trips -> TripRow] /\ settled' \in [Trips -> Nat]
  <2>1. /\ trip' = [t \in Trips |-> trip'[t]]
        /\ settled' = [t \in Trips |-> settled'[t]]
    BY <1>1
  <2> QED BY <2>1, <1>4
<1>6. Accounted'
  BY <1>1, <1>4 DEF Accounted
<1>7. request' = [q \in Requests |-> request'[q]] /\ AcceptedAreTrips'
  <2>1. \A q \in Requests : request'[q] = IF q = r THEN Idle ELSE request[q]
    BY <1>1 DEF IInv
  <2>2. request' = [q \in Requests |-> request'[q]]
    BY <1>1 DEF IInv
  <2>3. AcceptedAreTrips'
    BY <2>1 DEF AcceptedAreTrips, IInv, Idle
  <2> QED BY <2>2, <2>3
<1>8. ASSUME trip' # trip, NEW t \in request[r].pay
      PROVE  /\ Closed(t) /\ ~trip[t].paid /\ trip'[t].paid
             /\ settled'[t] = settled[t] + 1
  <2>1. pay # {}
    <3>1. SUFFICES ASSUME pay = {} PROVE FALSE
      OBVIOUS
    <3>2. ASSUME NEW u \in Trips PROVE trip'[u] = trip[u]
      <4>1. trip[u] \in TripRow /\ trip'[u] = [trip[u] EXCEPT !.paid = @ \/ u \in pay]
        BY <1>1 DEF IInv
      <4>2. (trip[u].paid \/ u \in pay) = trip[u].paid
        BY <3>1, <4>1 DEF TripRow
      <4> QED BY <4>1, <4>2 DEF TripRow
    <3>3. trip' = [u \in Trips |-> trip'[u]] /\ trip = [u \in Trips |-> trip[u]]
      BY <1>1 DEF IInv
    <3> QED BY <3>2, <3>3, <1>8
  <2>2. pay = request[r].pay
    BY <2>1 DEF PaidOf, pay
  <2>3. t \in Trips /\ t \in pay
    BY <1>2, <2>2
  <2> QED BY <1>3, <1>4, <2>3 DEF Settleable
<1> QED BY <1>1, <1>5, <1>6, <1>7, <1>8 DEF IInv

(* A request's own steps. *)
LEMMA AuditsStep ==
  ASSUME IInv, NEW r \in Requests, Audits(r)
  PROVE  /\ IInv'
         /\ \/ trip' = trip
            \/ Settle(r)
<1>1. ASSUME NEW workbook \in files, Match(r, workbook)
      PROVE  IInv' /\ trip' = trip
  <2> DEFINE job == Matched(workbook)
  <2>1. request' = [request EXCEPT ![r] = job] /\ job.phase = "MATCHED"
    BY <1>1, MatchSets DEF Matched
  <2>2. UNCHANGED <<trip, settled, released>>
    BY <1>1 DEF Match
  <2> HIDE DEF job
  <2> QED BY <2>1, <2>2, RequestStep
<1>2. CASE Price(r)
  <2> DEFINE at == request[r]
             job == [phase |-> "PRICED", workbook |-> at.workbook, match |-> at.match,
                     priced |-> Reconcile(at.workbook.lines, at.match),
                     corrected |-> at.corrected, paid |-> at.paid]
  <2>1. request' = [request EXCEPT ![r] = job] /\ job.phase = "PRICED"
    BY <1>2, Zenon DEF Price
  <2>2. UNCHANGED <<trip, settled, released>>
    BY <1>2 DEF Price
  <2> HIDE DEF job
  <2> QED BY <2>1, <2>2, RequestStep
<1>3. ASSUME \/ ReturnCorrection(r)
             \/ \E chosen \in (SUBSET Trips) \ {{}} : RefusePayment(r, chosen)
      PROVE  IInv' /\ trip' = trip
  <2>1. request' = [request EXCEPT ![r] = Idle] /\ UNCHANGED <<trip, settled, released>>
    BY <1>3 DEF ReturnCorrection, RefusePayment
  <2> QED BY <2>1, RequestStep DEF Idle
<1>4. ASSUME NEW chosen \in SUBSET Trips, AcceptPayment(r, chosen)
      PROVE  IInv' /\ trip' = trip
  <2> DEFINE job == [phase |-> "ACCEPTED", pay |-> chosen \ request[r].paid]
  <2>1. request' = [request EXCEPT ![r] = job] /\ UNCHANGED <<trip, settled, released>>
    BY <1>4 DEF AcceptPayment
  <2>2. job.pay \subseteq Trips
    OBVIOUS
  <2> QED BY <2>1, <2>2, RequestStep
<1>5. CASE Settle(r)
  BY <1>5, SettleStep
<1> QED BY <1>1, <1>2, <1>3, <1>4, <1>5 DEF Audits, Asked

LEMMA StepInvariant == IInv /\ [Next]_vars => IInv'
<1> SUFFICES ASSUME IInv, [Next]_vars PROVE IInv'
  OBVIOUS
<1>1. ASSUME NEW r \in Requests, Audits(r) PROVE IInv'
  BY <1>1, AuditsStep
<1>2. ASSUME NEW t \in Trips, Operates(t) PROVE IInv'
  BY <1>2, OperatesStep
<1>3. ASSUME UNCHANGED <<trip, request, settled, released>> PROVE IInv'
  BY <1>3 DEF IInv, Accounted, AcceptedAreTrips
<1>4. Retypes => UNCHANGED <<trip, request, settled, released>>
  BY DEF Retypes, Retype
<1> QED BY <1>1, <1>2, <1>3, <1>4 DEF Next, vars

LEMMA Invariant == Spec => []IInv
BY InitInvariant, StepInvariant, PTL DEF Spec

(***************************************************************************)
(* A transport is paid once, and once more for each time an operator took  *)
(* the payment back, however many confirmations overlap.                   *)
(***************************************************************************)
THEOREM SpecPaidOnce == Spec => []PaidOnce
<1>1. IInv => PaidOnce
  <2> SUFFICES ASSUME IInv, NEW t \in Trips PROVE settled[t] <= 1 + released[t]
    BY DEF PaidOnce
  <2>1. settled[t] \in Nat /\ released[t] \in Nat
    BY DEF IInv
  <2>2. settled[t] <= released[t] + (IF trip[t].paid THEN 1 ELSE 0)
    BY DEF IInv, Accounted
  <2> QED BY <2>1, <2>2
<1> QED BY <1>1, Invariant, PTL

(***************************************************************************)
(* A confirmation pays all the transports it accepted, finished and unpaid *)
(* at that moment, or none of them, whatever happened since it accepted.   *)
(***************************************************************************)
THEOREM SpecSettledTogether == Spec => SettledTogether
<1> DEFINE Together(r) ==
      request[r].phase = "ACCEPTED" /\ request'[r] # request[r] /\ trip' # trip =>
        \A t \in request[r].pay :
          /\ Closed(t) /\ ~trip[t].paid /\ trip'[t].paid
          /\ settled'[t] = settled[t] + 1
<1>1. IInv /\ [Next]_vars => [\A r \in Requests : Together(r)]_vars
  <2> SUFFICES ASSUME IInv, Next, NEW r \in Requests,
                      request[r].phase = "ACCEPTED", request'[r] # request[r], trip' # trip
               PROVE  \A t \in request[r].pay :
                        /\ Closed(t) /\ ~trip[t].paid /\ trip'[t].paid
                        /\ settled'[t] = settled[t] + 1
    OBVIOUS
  <2>1. ASSUME NEW q \in Requests, Audits(q)
        PROVE  \A t \in request[r].pay :
                 /\ Closed(t) /\ ~trip[t].paid /\ trip'[t].paid
                 /\ settled'[t] = settled[t] + 1
    <3>1. Settle(q)
      BY <2>1, AuditsStep
    <3>2. request' = [request EXCEPT ![q] = Idle]
      BY <3>1, SettleStep
    <3>3. q = r
      BY <3>2 DEF IInv
    <3> QED BY <3>1, <3>3, SettleStep
  <2>2. ASSUME NEW t \in Trips, Operates(t) PROVE FALSE
    BY <2>2, OperatesStep
  <2>3. ~Retypes
    BY DEF Retypes, Retype
  <2> QED BY <2>1, <2>2, <2>3 DEF Next
<1>2. [][\A r \in Requests : Together(r)]_vars => SettledTogether
  BY DEF SettledTogether
<1> QED BY <1>1, <1>2, Invariant, PTL DEF Spec

---------------------------------------------------------------------------
(* What matching makes of a line.                                          *)

LEMMA SetsOfTripsAreFinite ==
  ASSUME NEW S \in SUBSET Trips
  PROVE  IsFiniteSet(S) /\ Cardinality(S) \in Nat
BY TripsAreFinite, FS_Subset, FS_CardinalityType

(* One trip is what the cardinality one says it is. *)
LEMMA OneTrip ==
  ASSUME NEW S \in SUBSET Trips, Cardinality(S) = 1
  PROVE  S = {Only(S)} /\ Only(S) \in Trips
<1>1. PICK x : S = {x}
  BY SetsOfTripsAreFinite, FS_Singleton
<1>2. Only(S) \in S
  BY <1>1 DEF Only
<1> QED BY <1>1, <1>2

LEMMA MoreThanNone ==
  ASSUME NEW S \in SUBSET Trips, S # {}, ~(Cardinality(S) > 1)
  PROVE  Cardinality(S) = 1
<1>1. Cardinality(S) \in Nat /\ Cardinality(S) # 0
  BY SetsOfTripsAreFinite, FS_EmptySet
<1> QED BY <1>1

(* The lines that were found to be no trip, or no single one.              *)
Unresolved_ == {"NOT_FOUND", "AMBIGUOUS", "CONFLICT"}

(* A line that all three values decide names every trip sharing them.      *)
LEMMA ByContainerNames ==
  ASSUME NEW id
  PROVE  LET d == DecideByContainer(id)
         IN  /\ d = Decided(d.status, d.trip, d.candidates, "none")
             /\ d.trip \in d.candidates \cup {Null}
             /\ d.candidates = SharingAtLeast(3, id)
             /\ d.status \in {"MATCHED", "AMBIGUOUS", "NOT_FINISHED"}
             /\ d.status = "MATCHED" => d.trip \in SharingAtLeast(3, id)
<1> DEFINE holding == SharingAtLeast(3, id)
           closed == {t \in holding : Closed(t)}
<1>1. closed \in SUBSET Trips /\ closed \subseteq holding
  BY DEF SharingAtLeast
<1>2. Cardinality(closed) = 1 => Only(closed) \in holding
  BY <1>1, OneTrip
<1> QED BY <1>2 DEF DecideByContainer, Decided

(* A line that two values decide names, unless none shares them, a trip;   *)
(* the one it is corrected to is the only one it names; and it names a     *)
(* trip it shares two values with, unless another line claimed that one.   *)
LEMMA ByTwoValuesNames ==
  ASSUME NEW id, NEW claimed
  PROVE  LET d == DecideByTwoValues(id, claimed)
         IN  /\ d = Decided(d.status, d.trip, d.candidates, d.fix)
             /\ d.status \in {"MATCHED", "AMBIGUOUS", "NOT_FINISHED", "CONFLICT", "NOT_FOUND"}
             /\ d.status \notin Unresolved_ => d.candidates # {}
             /\ d.status = "MATCHED" => d.trip \in Trips /\ d.candidates = {d.trip}
             /\ d.trip \in d.candidates \cup {Null}
             /\ d.candidates \subseteq SharingAtLeast(2, id)
             /\ \A t \in SharingAtLeast(2, id) \ claimed : t \in d.candidates
             /\ \A t : SharingAtLeast(2, id) = {t} => t \in d.candidates
<1> DEFINE all  == SharingAtLeast(2, id)
           free == all \ claimed
<1>1. all \in SUBSET Trips /\ free \in SUBSET all /\ free \in SUBSET Trips
  BY DEF SharingAtLeast
<1>2. DecideByTwoValues(id, claimed) =
        CASE Cardinality(free) > 1    -> Decided("AMBIGUOUS", Null, free, "none")
          [] free = {} /\ all # {}    -> Decided("CONFLICT", Null, all, "none")
          [] all = {}                 -> Decided("NOT_FOUND", Null, {}, "none")
          [] Cardinality(free) = 1 /\ ~Closed(Only(free))
                                      -> Decided("NOT_FINISHED", Null, free, "none")
          [] OTHER                    -> Decided("MATCHED", Only(free), free,
                                                 ToCorrection(id, Only(free)))
  BY DEF DecideByTwoValues
<1>3. /\ Cardinality(free) > 1 => free # {}
      /\ free # {} /\ ~(Cardinality(free) > 1) => Cardinality(free) = 1
      /\ Cardinality(free) = 1 => free # {} /\ free = {Only(free)} /\ Only(free) \in Trips
  <2>1. Cardinality({}) = 0
    BY FS_EmptySet
  <2> QED BY <1>1, <2>1, OneTrip, MoreThanNone
<1>4. \A t : all = {t} => free = {} \/ free = {t}
  BY <1>1
<1> HIDE DEF all, free
<1>5. CASE Cardinality(free) > 1
  <2>0. free # {} /\ all # {} /\ Cardinality(free) # 1
    BY <1>3, <1>5 DEF all, free
  <2>1. DecideByTwoValues(id, claimed) = Decided("AMBIGUOUS", Null, free, "none")
    BY <1>2, <1>5, <2>0
  <2> QED BY <1>3, <1>4, <1>5, <2>1 DEF Decided, Unresolved_, all, free
<1>6. CASE free = {} /\ all # {}
  <2>1. DecideByTwoValues(id, claimed) = Decided("CONFLICT", Null, all, "none")
    BY <1>2, <1>3, <1>6
  <2> QED BY <1>6, <2>1 DEF Decided, Unresolved_, all, free
<1>7. CASE all = {}
  <2>0. free = {}
    BY <1>7 DEF all, free
  <2>1. DecideByTwoValues(id, claimed) = Decided("NOT_FOUND", Null, {}, "none")
    BY <1>2, <1>3, <1>7, <2>0
  <2> QED BY <1>7, <2>1 DEF Decided, Unresolved_, all, free
<1>8. CASE Cardinality(free) = 1 /\ ~Closed(Only(free))
  <2>0. all # {}
    BY <1>3, <1>8 DEF all, free
  <2>1. DecideByTwoValues(id, claimed) = Decided("NOT_FINISHED", Null, free, "none")
    BY <1>2, <1>3, <1>8, <2>0
  <2> QED BY <1>3, <1>4, <1>8, <2>1 DEF Decided, Unresolved_, all, free
<1>9. CASE Cardinality(free) = 1 /\ Closed(Only(free))
  <2>0. all # {}
    BY <1>3, <1>9 DEF all, free
  <2>1. DecideByTwoValues(id, claimed)
          = Decided("MATCHED", Only(free), free, ToCorrection(id, Only(free)))
    BY <1>2, <1>3, <1>9, <2>0
  <2> QED BY <1>3, <1>4, <1>9, <2>1 DEF Decided, Unresolved_, all, free
<1>10. free = {} => (free = {} /\ all # {}) \/ all = {}
  OBVIOUS
<1> QED BY <1>3, <1>5, <1>6, <1>7, <1>8, <1>9, <1>10

(* The same for a line that is looked up as a transport.                   *)
LEMMA TransportNames ==
  ASSUME NEW lines, NEW pass, NEW i
  PROVE  LET d  == DecideTransport(lines, pass, i)
             id == lines[i].stated
         IN  /\ d = Decided(d.status, d.trip, d.candidates, d.fix)
             /\ d.status \in {"MATCHED", "AMBIGUOUS", "NOT_FINISHED", "CONFLICT",
                              "NOT_FOUND", "ADDED_MISSING"}
             /\ ~WasAddedByAudit(lines[i]) /\ d.status \notin Unresolved_ => d.candidates # {}
             /\ d.status = "MATCHED" =>
                  \/ d.trip \in SharingAtLeast(3, id)
                  \/ d.trip \in Trips /\ d.candidates = {d.trip}
             /\ d.trip \in d.candidates \cup {Null}
             /\ \A t \in SharingAtLeast(3, id) : t \in d.candidates
             /\ SharingAtLeast(3, id) = {} =>
                  /\ d.candidates \subseteq SharingAtLeast(2, id)
                  /\ \A t \in SharingAtLeast(2, id) \ ClaimedByOthers(lines, pass, i) :
                       t \in d.candidates
                  /\ \A t : SharingAtLeast(2, id) = {t} => t \in d.candidates
<1> DEFINE id      == lines[i].stated
           claimed == ClaimedByOthers(lines, pass, i)
           added   == WasAddedByAudit(lines[i])
           decided == IF SharingAtLeast(3, id) # {} THEN DecideByContainer(id)
                      ELSE DecideByTwoValues(id, claimed)
           d       == DecideTransport(lines, pass, i)
<1>1. d = [decided EXCEPT !.status = IF added THEN "ADDED_MISSING" ELSE @,
                          !.fix = IF added THEN "none" ELSE @]
  BY DEF DecideTransport
<1>2. decided = Decided(decided.status, decided.trip, decided.candidates, decided.fix)
  BY ByContainerNames, ByTwoValuesNames DEF Decided
<1>3. d = Decided(IF added THEN "ADDED_MISSING" ELSE decided.status, decided.trip,
                  decided.candidates, IF added THEN "none" ELSE decided.fix)
  BY <1>1, <1>2 DEF Decided
<1> HIDE DEF d, added
<1>4. CASE SharingAtLeast(3, id) # {}
  <2>1. /\ decided.candidates = SharingAtLeast(3, id)
        /\ decided.status \in {"MATCHED", "AMBIGUOUS", "NOT_FINISHED"}
        /\ decided.fix = "none"
        /\ decided.trip \in decided.candidates \cup {Null}
        /\ decided.status = "MATCHED" => decided.trip \in SharingAtLeast(3, id)
    BY <1>4, ByContainerNames DEF Decided
  <2> HIDE DEF decided, claimed
  <2> QED BY <1>3, <1>4, <2>1 DEF Decided, d, added
<1>5. CASE SharingAtLeast(3, id) = {}
  <2>1. decided = DecideByTwoValues(id, claimed)
    BY <1>5
  <2>2. /\ decided.status \in {"MATCHED", "AMBIGUOUS", "NOT_FINISHED", "CONFLICT", "NOT_FOUND"}
        /\ decided.status \notin Unresolved_ => decided.candidates # {}
        /\ decided.status = "MATCHED" => decided.trip \in Trips /\ decided.candidates = {decided.trip}
        /\ decided.trip \in decided.candidates \cup {Null}
        /\ decided.candidates \subseteq SharingAtLeast(2, id)
        /\ \A t \in SharingAtLeast(2, id) \ claimed : t \in decided.candidates
        /\ \A t : SharingAtLeast(2, id) = {t} => t \in decided.candidates
    BY <2>1, ByTwoValuesNames
  <2> HIDE DEF decided
  <2> QED BY <1>3, <1>5, <2>2 DEF Decided, d, added
<1> QED BY <1>4, <1>5

LEMMA Agreements ==
  ASSUME NEW id, NEW t
  PROVE  /\ Agrees(id, t) \subseteq {"date", "booking", "container"}
         /\ IsFiniteSet(Agrees(id, t)) /\ Cardinality(Agrees(id, t)) \in Nat
         /\ id.container = Null =>
              /\ ~(Cardinality(Agrees(id, t)) >= 3)
              /\ Cardinality(Agrees(id, t)) >= 2 <=> {"date", "booking"} \subseteq Agrees(id, t)
<1> DEFINE A == Agrees(id, t)
<1>1. A \subseteq {"date", "booking", "container"}
  BY DEF Agrees, Columns
<1>2. IsFiniteSet({"date", "booking", "container"})
  <2>1. IsFiniteSet({"date"})
    BY FS_Singleton
  <2>2. IsFiniteSet({"date"} \cup {"booking"})
    BY <2>1, FS_AddElement
  <2>3. IsFiniteSet(({"date"} \cup {"booking"}) \cup {"container"})
    BY <2>2, FS_AddElement
  <2>4. ({"date"} \cup {"booking"}) \cup {"container"} = {"date", "booking", "container"}
    OBVIOUS
  <2> QED BY <2>3, <2>4
<1>3. IsFiniteSet(A) /\ Cardinality(A) \in Nat
  BY <1>1, <1>2, FS_Subset, FS_CardinalityType
<1>4. ASSUME id.container = Null
      PROVE  /\ ~(Cardinality(A) >= 3)
             /\ Cardinality(A) >= 2 <=> {"date", "booking"} \subseteq A
  <2>1. "container" \notin A
    BY <1>4 DEF Agrees
  <2>2. A \in {{}, {"date"}, {"booking"}, {"date", "booking"}}
    BY <1>1, <2>1
  <2>3. /\ Cardinality({}) = 0 /\ Cardinality({"date"}) = 1 /\ Cardinality({"booking"}) = 1
        /\ IsFiniteSet({"booking"})
    BY FS_EmptySet, FS_Singleton
  <2>4. Cardinality({"booking"} \cup {"date"}) = 2
    <3>1. Cardinality({"booking"} \cup {"date"})
            = IF "date" \in {"booking"} THEN Cardinality({"booking"})
              ELSE Cardinality({"booking"}) + 1
      BY <2>3, FS_AddElement, Zenon
    <3>2. "date" \notin {"booking"}
      OBVIOUS
    <3> QED BY <2>3, <3>1, <3>2
  <2>5. {"booking"} \cup {"date"} = {"date", "booking"}
    OBVIOUS
  <2> HIDE DEF A
  <2> QED BY <2>2, <2>3, <2>4, <2>5
<1> HIDE DEF A
<1> QED BY <1>1, <1>3, <1>4 DEF A

(* A line that is a transport, or a charge that is one of its own, names   *)
(* at least the trips it was found to be before identities clashed, and is *)
(* no mere charge.                                                         *)
LEMMA MatchingNames ==
  ASSUME NEW lines, NEW i \in DOMAIN lines,
         i \in Transports(lines) \cup OwnTransportLines(lines)
  PROVE  LET own   == OwnTransportLines(lines)
             pass  == IF i \in own THEN DOMAIN lines ELSE Transports(lines)
             d     == DecideTransport(lines, pass, i)
             match == Matching(lines)
         IN  /\ match[i] = d \/ match[i] = Decided("CONFLICT", Null, {d.trip}, "none")
             /\ Named(d) \subseteq Named(match[i])
             /\ ~ChargesOnly(lines, match, i)
             /\ ~WasAddedByAudit(lines[i]) /\ match[i].status \notin Unresolved_
                  => Named(match[i]) # {}
<1> DEFINE own   == OwnTransportLines(lines)
           pass  == IF i \in own THEN DOMAIN lines ELSE Transports(lines)
           d     == DecideTransport(lines, pass, i)
           match == Matching(lines)
           judged == [j \in DOMAIN lines |-> Judged(lines, j, own)]
<1>1. judged[i] = d
  BY DEF Judged
<1>2. match = WithIdentityConflicts(lines, own, judged)
  BY DEF Matching, MatchingWith
<1> HIDE DEF judged, own, match
<1>3. \/ match[i] = d
      \/ /\ match[i] = Decided("CONFLICT", Null, {d.trip}, "none")
         /\ d.status = "MATCHED"
         /\ Cardinality(Agrees(lines[i].stated, d.trip)) < 3
  BY <1>1, <1>2 DEF WithIdentityConflicts
<1> HIDE DEF d
<1>4. /\ d.status \in {"MATCHED", "AMBIGUOUS", "NOT_FINISHED", "CONFLICT",
                       "NOT_FOUND", "ADDED_MISSING"}
      /\ ~WasAddedByAudit(lines[i]) /\ d.status \notin Unresolved_ => d.candidates # {}
      /\ d.status = "MATCHED" =>
           \/ d.trip \in SharingAtLeast(3, lines[i].stated)
           \/ d.trip \in Trips /\ d.candidates = {d.trip}
  BY TransportNames DEF d
<1>5. CASE match[i] = d
  BY <1>4, <1>5 DEF ChargesOnly, Named, own, d, match
<1>6. CASE /\ match[i] = Decided("CONFLICT", Null, {d.trip}, "none")
           /\ d.status = "MATCHED"
           /\ Cardinality(Agrees(lines[i].stated, d.trip)) < 3
  <2>1. d.trip \notin SharingAtLeast(3, lines[i].stated)
    BY <1>6, Agreements DEF SharingAtLeast
  <2> QED BY <1>4, <1>6, <2>1 DEF ChargesOnly, Named, Decided, Unresolved_, own, d, match
<1> QED BY <1>3, <1>5, <1>6 DEF own, d, match

(* A line without a container that names one trip is told by it alone.     *)
LEMMA NoContainer ==
  ASSUME trip \in [Trips -> TripRow], NEW id, id.container = Null, NEW t \in Trips,
         IdentifyTransport(id).trip = t
  PROVE  SharingAtLeast(3, id) = {} /\ SharingAtLeast(2, id) = {t}
<1> DEFINE onDate == {u \in SharingAtLeast(2, id) : {"date", "booking"} \subseteq Agrees(id, u)}
<1>1. SharingAtLeast(3, id) = {}
  BY Agreements DEF SharingAtLeast
<1>2. SharingAtLeast(2, id) \in SUBSET Trips /\ onDate \in SUBSET Trips
  BY DEF SharingAtLeast
<1>3. onDate = SharingAtLeast(2, id)
  BY Agreements DEF SharingAtLeast
<1> HIDE DEF onDate
<1>4. IdentifyTransport(id).trip = IF Cardinality(onDate) = 1 THEN Only(onDate) ELSE Null
  BY DEF IdentifyTransport, onDate
<1>5. Cardinality(onDate) = 1 /\ Only(onDate) = t
  BY <1>4, NullIsNoValue
<1> QED BY <1>1, <1>2, <1>3, <1>5, OneTrip

(***************************************************************************)
(* A trip that shares two values with a transport line, which states no    *)
(* other trip outright, is named by a line that is a transport: by that    *)
(* one, or by the one that claimed it.                                     *)
(***************************************************************************)
LEMMA ToldByALine ==
  ASSUME trip \in [Trips -> TripRow], NEW lines, NEW i \in Transports(lines), NEW t \in Trips,
         t \in SharingAtLeast(2, lines[i].stated),
         SharingAtLeast(3, lines[i].stated) \ {t} = {}
  PROVE  \E j \in DOMAIN lines : /\ ~ChargesOnly(lines, Matching(lines), j)
                                 /\ t \in Named(Matching(lines)[j])
<1> DEFINE pass == Transports(lines)
           own  == OwnTransportLines(lines)
<1>1. own \subseteq DOMAIN lines \ pass /\ pass \subseteq DOMAIN lines
  BY DEF OwnTransportLines, Charges, Transports
<1>2. ASSUME NEW j \in pass, t \in Named(DecideTransport(lines, pass, j))
      PROVE  ~ChargesOnly(lines, Matching(lines), j) /\ t \in Named(Matching(lines)[j])
  BY <1>1, <1>2, MatchingNames
<1>3. ASSUME NEW j \in pass, t \in DecideTransport(lines, pass, j).candidates
      PROVE  t \in Named(DecideTransport(lines, pass, j))
  BY <1>3 DEF Named
<1>4. CASE SharingAtLeast(3, lines[i].stated) # {}
  <2>1. t \in SharingAtLeast(3, lines[i].stated)
    BY <1>4
  <2>2. t \in DecideTransport(lines, pass, i).candidates
    BY <2>1, TransportNames
  <2> QED BY <1>1, <1>2, <1>3, <2>2
<1>5. CASE SharingAtLeast(3, lines[i].stated) = {} /\ t \notin ClaimedByOthers(lines, pass, i)
  <2>1. t \in DecideTransport(lines, pass, i).candidates
    BY <1>5, TransportNames
  <2> QED BY <1>1, <1>2, <1>3, <2>1
<1>6. CASE t \in ClaimedByOthers(lines, pass, i)
  <2>1. PICK j \in DOMAIN lines :
          \/ j \in pass /\ t \in SharingAtLeast(3, lines[j].stated)
          \/ /\ j \in Charges(lines) /\ lines[j].stated.container = Null
             /\ IdentifyTransport(lines[j].stated).trip = t
    BY <1>6 DEF ClaimedByOthers
  <2>2. CASE j \in pass /\ t \in SharingAtLeast(3, lines[j].stated)
    <3>1. t \in DecideTransport(lines, pass, j).candidates
      BY <2>2, TransportNames
    <3> QED BY <1>2, <1>3, <2>2, <3>1
  <2>3. CASE /\ j \in Charges(lines) /\ lines[j].stated.container = Null
             /\ IdentifyTransport(lines[j].stated).trip = t
    <3> DEFINE d == DecideTransport(lines, DOMAIN lines, j)
    <3>1. SharingAtLeast(3, lines[j].stated) = {} /\ SharingAtLeast(2, lines[j].stated) = {t}
      BY <2>3, NoContainer
    <3>2. t \in d.candidates /\ d.candidates \subseteq {t} /\ d.trip \in d.candidates \cup {Null}
      BY <3>1, TransportNames
    <3> HIDE DEF d
    <3>3. Named(d) = {t}
      BY <3>2, NullIsNoValue DEF Named
    <3>4. CASE j \in own
      <4>1. ~ChargesOnly(lines, Matching(lines), j) /\ Named(d) \subseteq Named(Matching(lines)[j])
        BY <3>4, MatchingNames DEF d
      <4> QED BY <3>3, <4>1
    <3>5. CASE j \notin own
      <4>1. \E k \in pass : t \in Named(DecideTransport(lines, pass, k))
        BY <2>3, <3>3, <3>5 DEF OwnTransportLines, d
      <4> QED BY <1>1, <1>2, <4>1
    <3> QED BY <3>4, <3>5
  <2> QED BY <2>1, <2>2, <2>3
<1> QED BY <1>4, <1>5, <1>6

---------------------------------------------------------------------------
(* What an examination holds.                                              *)

(* What was matched names a trip unless it says why it names none, ...     *)
NamesOrSaysWhy(job) ==
  /\ DOMAIN job.match = DOMAIN job.workbook.lines
  /\ \A i \in Transports(job.workbook.lines) :
       ~WasAddedByAudit(job.workbook.lines[i]) /\ job.match[i].status \notin Unresolved_
         => Named(job.match[i]) # {}

(* ... and, while nobody changed a trip, a trip a transport line is told   *)
(* to be is named.                                                         *)
Tells(job) ==
  \A i \in Transports(job.workbook.lines) : \A t \in Trips :
    /\ t \in SharingAtLeast(2, job.workbook.lines[i].stated)
    /\ SharingAtLeast(3, job.workbook.lines[i].stated) \ {t} = {}
    => \E j \in DOMAIN job.workbook.lines :
         ~ChargesOnly(job.workbook.lines, job.match, j) /\ t \in Named(job.match[j])

Examining(r) == request[r].phase \in {"MATCHED", "PRICED"}

Examined ==
  /\ since = [r \in Requests |-> since[r]]
  /\ \A r \in Requests : Examining(r) =>
       NamesOrSaysWhy(request[r]) /\ (since[r] = {} => Tells(request[r]))

(* The trips a line agrees with do not depend on what was paid.            *)
LEMMA SharingIsUnpaid ==
  ASSUME \A t \in Trips : /\ trip'[t].status = trip[t].status
                          /\ trip'[t].date = trip[t].date
                          /\ trip'[t].ordered = trip[t].ordered
                          /\ trip'[t].booking = trip[t].booking
                          /\ trip'[t].container = trip[t].container,
         NEW n, NEW id
  PROVE  SharingAtLeast(n, id)' = SharingAtLeast(n, id)
<1>1. \A t \in Trips : Agrees(id, t)' = Agrees(id, t) /\ Live(t)' = Live(t)
  BY DEF Agrees, OnDate, IdentityOf, Live
<1> QED BY <1>1 DEF SharingAtLeast

LEMMA SameSharing ==
  ASSUME trip' = trip, NEW n, NEW id
  PROVE  SharingAtLeast(n, id)' = SharingAtLeast(n, id)
BY SharingIsUnpaid

(* What is told stays told while the trips agree with the same lines.      *)
LEMMA StillTells ==
  ASSUME NEW job, Tells(job), \A n, id : SharingAtLeast(n, id)' = SharingAtLeast(n, id)
  PROVE  Tells(job)'
BY DEF Tells

LEMMA InitExamined == Init => Examined
<1> SUFFICES ASSUME Init PROVE Examined
  OBVIOUS
<1>1. request = [r \in Requests |-> Idle] /\ since = [r \in Requests |-> {}]
  BY DEF Init
<1>2. since = [r \in Requests |-> since[r]]
  BY <1>1
<1>3. \A r \in Requests : ~Examining(r)
  BY <1>1 DEF Examining, Idle
<1> QED BY <1>2, <1>3 DEF Examined

(* One request's step: the others' examinations are what they were. *)
LEMMA OneExamines ==
  ASSUME IInv, Examined, NEW r \in Requests, NEW job,
         request' = [request EXCEPT ![r] = job],
         \A n, id : SharingAtLeast(n, id)' = SharingAtLeast(n, id),
         since' = [since EXCEPT ![r] = {}] \/ since' = since,
         job.phase \in {"MATCHED", "PRICED"} =>
           NamesOrSaysWhy(job) /\ (since[r] = {} => Tells(job)) /\ since' = since
  PROVE  Examined'
<1>1. /\ \A q \in Requests : request'[q] = IF q = r THEN job ELSE request[q]
      /\ \A q \in Requests : q # r => since'[q] = since[q]
      /\ since' = [q \in Requests |-> since'[q]]
  BY DEF IInv, Examined
<1>2. ASSUME NEW q \in Requests, Examining(q)'
      PROVE  /\ NamesOrSaysWhy(request[q])'
             /\ since'[q] = {} => Tells(request[q])'
  <2>1. PICK held : held = request'[q]
    OBVIOUS
  <2>2. NamesOrSaysWhy(held) /\ (since'[q] = {} => Tells(held))
    <3>1. CASE q = r
      BY <1>1, <1>2, <2>1, <3>1 DEF Examining
    <3>2. CASE q # r
      <4>1. held = request[q] /\ Examining(q) /\ since'[q] = since[q]
        BY <1>1, <1>2, <2>1, <3>2 DEF Examining
      <4> QED BY <4>1 DEF Examined
    <3> QED BY <3>1, <3>2
  <2>3. since'[q] = {} => Tells(held)'
    BY <2>2, StillTells
  <2> QED BY <2>1, <2>2, <2>3 DEF NamesOrSaysWhy, Tells
<1> QED BY <1>1, <1>2 DEF Examined

LEMMA AuditsExamine ==
  ASSUME IInv, Examined, NEW r \in Requests, Audits(r)
  PROVE  Examined'
<1>0. trip' = trip => \A n, id : SharingAtLeast(n, id)' = SharingAtLeast(n, id)
  BY SameSharing
<1>1. ASSUME NEW workbook \in files, Match(r, workbook)
      PROVE  Examined'
  <2> DEFINE lines == workbook.lines
             match == Matching(lines)
             job == Matched(workbook)
  <2>1. request' = [request EXCEPT ![r] = job] /\ job.workbook = workbook /\ job.match = match
    BY <1>1, MatchSets DEF Matched
  <2>2. trip' = trip /\ since' = since
    BY <1>1 DEF Match
  <2>3. DOMAIN match = DOMAIN lines
    BY DEF Matching, MatchingWith, WithIdentityConflicts
  <2>4. Transports(lines) \subseteq DOMAIN lines
    BY DEF Transports
  <2> HIDE DEF job
  <2>5. NamesOrSaysWhy(job)
    BY <2>1, <2>3, <2>4, MatchingNames DEF NamesOrSaysWhy
  <2>6. Tells(job)
    <3>1. trip \in [Trips -> TripRow]
      BY DEF IInv
    <3> HIDE DEF match, lines
    <3>2. \A i \in Transports(lines) : \A t \in Trips :
            /\ t \in SharingAtLeast(2, lines[i].stated)
            /\ SharingAtLeast(3, lines[i].stated) \ {t} = {}
            => \E j \in DOMAIN lines : ~ChargesOnly(lines, match, j) /\ t \in Named(match[j])
      BY <3>1, ToldByALine DEF match
    <3> QED BY <2>1, <3>2 DEF Tells, lines
  <2> QED BY <1>0, <2>1, <2>2, <2>5, <2>6, OneExamines
<1>2. CASE Price(r)
  <2> DEFINE at == request[r]
             job == [phase |-> "PRICED", workbook |-> at.workbook, match |-> at.match,
                     priced |-> Reconcile(at.workbook.lines, at.match),
                     corrected |-> at.corrected, paid |-> at.paid]
  <2>1. /\ request' = [request EXCEPT ![r] = job]
        /\ job.workbook = at.workbook /\ job.match = at.match
    BY <1>2, Zenon DEF Price
  <2>2. trip' = trip /\ since' = since /\ Examining(r)
    BY <1>2 DEF Price, Examining
  <2>3. NamesOrSaysWhy(at) /\ (since[r] = {} => Tells(at))
    BY <2>2 DEF Examined
  <2> HIDE DEF job
  <2>4. NamesOrSaysWhy(job) /\ (since[r] = {} => Tells(job))
    BY <2>1, <2>3 DEF NamesOrSaysWhy, Tells
  <2> QED BY <1>0, <2>1, <2>2, <2>4, OneExamines
<1>3. ASSUME \/ ReturnCorrection(r)
             \/ \E chosen \in (SUBSET Trips) \ {{}} : RefusePayment(r, chosen)
      PROVE  Examined'
  <2>1. request' = [request EXCEPT ![r] = Idle] /\ since' = [since EXCEPT ![r] = {}] /\ trip' = trip
    BY <1>3 DEF ReturnCorrection, RefusePayment
  <2>2. Idle.phase \notin {"MATCHED", "PRICED"}
    BY DEF Idle
  <2> QED BY <1>0, <2>1, <2>2, OneExamines
<1>4. ASSUME NEW chosen \in SUBSET Trips, AcceptPayment(r, chosen)
      PROVE  Examined'
  <2> DEFINE job == [phase |-> "ACCEPTED", pay |-> chosen \ request[r].paid]
  <2>1. request' = [request EXCEPT ![r] = job] /\ since' = [since EXCEPT ![r] = {}] /\ trip' = trip
    BY <1>4 DEF AcceptPayment
  <2>2. job.phase \notin {"MATCHED", "PRICED"}
    OBVIOUS
  <2> HIDE DEF job
  <2> QED BY <1>0, <2>1, <2>2, OneExamines
<1>5. CASE Settle(r)
  <2>1. request' = [request EXCEPT ![r] = Idle] /\ since' = since
    BY <1>5 DEF Settle
  <2>2. PICK pay : trip' = [t \in Trips |-> [trip[t] EXCEPT !.paid = @ \/ t \in pay]]
    BY <1>5 DEF Settle
  <2>3. \A t \in Trips : /\ trip'[t].status = trip[t].status
                         /\ trip'[t].date = trip[t].date
                         /\ trip'[t].ordered = trip[t].ordered
                         /\ trip'[t].booking = trip[t].booking
                         /\ trip'[t].container = trip[t].container
    BY <2>2 DEF IInv, TripRow
  <2>4. \A n, id : SharingAtLeast(n, id)' = SharingAtLeast(n, id)
    BY <2>3, SharingIsUnpaid
  <2>5. Idle.phase \notin {"MATCHED", "PRICED"}
    BY DEF Idle
  <2> QED BY <2>1, <2>4, <2>5, OneExamines
<1> QED BY <1>1, <1>2, <1>3, <1>4, <1>5 DEF Audits, Asked

(* Whoever changes a trip is noticed by every examination under way. *)
LEMMA OperatesChanges ==
  ASSUME NEW t \in Trips, Operates(t)
  PROVE  \E row : Change(t, row)
BY DEF Operates, Plan, Reprice, ChangeStatus, ChangePayment

LEMMA ExaminedStep == IInv /\ Examined /\ [Next]_vars => Examined'
<1> SUFFICES ASSUME IInv, Examined, [Next]_vars PROVE Examined'
  OBVIOUS
<1>1. ASSUME NEW r \in Requests, Audits(r) PROVE Examined'
  BY <1>1, AuditsExamine
<1>2. ASSUME NEW t \in Trips, Operates(t) PROVE Examined'
  <2>1. PICK row : Change(t, row)
    BY <1>2, OperatesChanges
  <2>2. /\ request' = request
        /\ since' = [r \in Requests |-> IF request[r].phase \in {"MATCHED", "PRICED"}
                                        THEN since[r] \cup {t} ELSE since[r]]
    BY <2>1 DEF Change
  <2>3. since' = [r \in Requests |-> since'[r]]
    BY <2>2
  <2>4. ASSUME NEW r \in Requests, Examining(r)'
        PROVE  NamesOrSaysWhy(request[r])' /\ since'[r] # {}
    <3>1. Examining(r)
      BY <2>2, <2>4 DEF Examining
    <3>2. NamesOrSaysWhy(request[r]) /\ since'[r] = since[r] \cup {t}
      BY <2>2, <3>1 DEF Examined, Examining
    <3> QED BY <2>2, <3>2 DEF NamesOrSaysWhy
  <2> QED BY <2>3, <2>4 DEF Examined
<1>3. ASSUME UNCHANGED <<trip, request, since>> PROVE Examined'
  <2>1. \A n, id : SharingAtLeast(n, id)' = SharingAtLeast(n, id)
    BY <1>3, SameSharing
  <2>2. ASSUME NEW r \in Requests, Examining(r)'
        PROVE  NamesOrSaysWhy(request[r])' /\ (since'[r] = {} => Tells(request[r])')
    <3>1. PICK job : job = request[r]
      OBVIOUS
    <3>2. job = request'[r] /\ since'[r] = since[r]
      BY <1>3, <3>1
    <3>3. NamesOrSaysWhy(job) /\ (since[r] = {} => Tells(job))
      BY <1>3, <2>2, <3>1 DEF Examined, Examining
    <3>4. since[r] = {} => Tells(job)'
      BY <2>1, <3>3, StillTells
    <3> QED BY <3>2, <3>3, <3>4 DEF NamesOrSaysWhy, Tells
  <2> QED BY <1>3, <2>2 DEF Examined
<1>4. Retypes => UNCHANGED <<trip, request, since>>
  BY DEF Retypes, Retype
<1> QED BY <1>1, <1>2, <1>3, <1>4 DEF Next, vars

LEMMA AlwaysExamined == Spec => [](IInv /\ Examined)
BY InitInvariant, StepInvariant, InitExamined, ExaminedStep, PTL DEF Spec

(***************************************************************************)
(* A transport is added only when every line that names its booking or its *)
(* container was found to be something else, and no incomplete row names   *)
(* either, whatever changed since the lines were matched.                  *)
(***************************************************************************)
THEOREM SpecAddedApart == Spec => AddedApart
<1>1. IInv /\ Examined => \A r \in Requests : Completes(r) => ApartlyAdded(r)
  <2> SUFFICES ASSUME IInv, Examined, NEW r \in Requests, Completes(r), NEW t \in AddedBy(r)
               PROVE  LET job == request[r]
                          lines == job.workbook.lines
                      IN  /\ Values(IdentityOf(t)) \cap job.workbook.incomplete = {}
                          /\ \A i \in Transports(lines) :
                               (/\ ~WasAddedByAudit(lines[i])
                                /\ Values(lines[i].stated) \cap Values(IdentityOf(t)) # {}) =>
                                  Named(job.match[i]) # {} /\ t \notin Named(job.match[i])
    BY DEF ApartlyAdded
  <2>1. PICK job : job = request[r]
    OBVIOUS
  <2>2. NamesOrSaysWhy(job)
    BY <2>1 DEF Examined, Examining, Completes
  <2>3. Unstated(job.workbook.lines, job.match, t) /\ ~Blocked(job.workbook, job.match, t)
    BY <2>1 DEF AddedBy, Added, Missing
  <2>4. Values(IdentityOf(t)) \cap job.workbook.incomplete = {}
    <3>1. \A named : Values(IdentityOf(t)) \cap (named \cup job.workbook.incomplete) = {}
                      => Values(IdentityOf(t)) \cap job.workbook.incomplete = {}
      OBVIOUS
    <3> QED BY <2>3, <3>1 DEF Blocked
  <2>5. ASSUME NEW i \in Transports(job.workbook.lines)
        PROVE  i \in DOMAIN job.match /\ t \notin Named(job.match[i])
    BY <2>2, <2>3 DEF Unstated, NamesOrSaysWhy, Transports, ChargesOnly
  <2>6. ASSUME NEW i \in Transports(job.workbook.lines),
               Values(job.workbook.lines[i].stated) \cap Values(IdentityOf(t)) # {}
        PROVE  job.match[i].status \notin Unresolved_
    BY <2>3, <2>5, <2>6 DEF Blocked, Unresolved_
  <2> QED BY <2>1, <2>2, <2>4, <2>5, <2>6 DEF NamesOrSaysWhy
<1>2. [](IInv /\ Examined) => [][\A r \in Requests : Completes(r) => ApartlyAdded(r)]_vars
  BY <1>1, PTL
<1> QED BY <1>2, AlwaysExamined DEF AddedApart

(***************************************************************************)
(* A workbook never gets a line for a transport that one of its lines can  *)
(* be told to state already, for any lines and any trips.                  *)
(***************************************************************************)
THEOREM SpecAddedOnce == Spec => AddedOnce
<1>1. IInv /\ Examined =>
        \A r \in Requests : Completes(r) /\ since[r] = {} => OnceAdded(r)
  <2> SUFFICES ASSUME IInv, Examined, NEW r \in Requests, Completes(r), since[r] = {},
                      NEW t \in AddedBy(r), NEW i \in Transports(request[r].workbook.lines),
                      ~(Cardinality(Agrees(request[r].workbook.lines[i].stated, t)) < 2),
                      SharingAtLeast(3, request[r].workbook.lines[i].stated) \ {t} = {}
               PROVE  FALSE
    BY DEF OnceAdded
  <2>1. PICK job : job = request[r]
    OBVIOUS
  <2>2. Tells(job)
    BY <2>1 DEF Examined, Examining, Completes
  <2>3. t \in Trips /\ Unstated(job.workbook.lines, job.match, t)
    BY <2>1 DEF AddedBy, Added, Missing
  <2>4. t \in SharingAtLeast(2, job.workbook.lines[i].stated)
    <3>1. Cardinality(Agrees(job.workbook.lines[i].stated, t)) \in Nat
      BY <2>3, Agreements DEF IInv
    <3>2. Live(t)
      BY <2>3 DEF Unstated, Closed, Live
    <3> QED BY <2>1, <2>3, <3>1, <3>2 DEF SharingAtLeast
  <2> QED BY <2>1, <2>2, <2>3, <2>4 DEF Tells, Unstated
<1>2. [](IInv /\ Examined) =>
        [][\A r \in Requests : Completes(r) /\ since[r] = {} => OnceAdded(r)]_vars
  BY <1>1, PTL
<1> QED BY <1>2, AlwaysExamined DEF AddedOnce

---------------------------------------------------------------------------
(* What a line and a trip share, and the one column in which they differ.  *)

LEMMA ColumnCounts ==
  ASSUME NEW A, A \subseteq Columns
  PROVE  /\ IsFiniteSet(A) /\ Cardinality(A) \in Nat
         /\ Cardinality(A) >= 3 <=> A = Columns
         /\ Cardinality(A) = 3 <=> A = Columns
         /\ Cardinality(A) >= 2 <=> \E c \in Columns : Columns \ {c} \subseteq A
         /\ Cardinality(A) = 2 <=> A # Columns /\ \E c \in Columns : Columns \ {c} \subseteq A
<1>1. IsFiniteSet(Columns) /\ Cardinality(Columns) = 3
  <2>1. IsFiniteSet({"date"}) /\ Cardinality({"date"}) = 1
    BY FS_Singleton
  <2>2. IsFiniteSet({"date"} \cup {"booking"}) /\ Cardinality({"date"} \cup {"booking"}) = 2
    <3>1. "booking" \notin {"date"}
      OBVIOUS
    <3>2. /\ IsFiniteSet({"date"} \cup {"booking"})
          /\ Cardinality({"date"} \cup {"booking"})
               = IF "booking" \in {"date"} THEN Cardinality({"date"}) ELSE Cardinality({"date"}) + 1
      BY <2>1, FS_AddElement, Zenon
    <3> QED BY <2>1, <3>1, <3>2
  <2>3. PICK two : two = {"date"} \cup {"booking"}
    OBVIOUS
  <2>4. IsFiniteSet(two \cup {"container"}) /\ Cardinality(two \cup {"container"}) = 3
    <3>1. "container" \notin two
      BY <2>3
    <3>2. /\ IsFiniteSet(two \cup {"container"})
          /\ Cardinality(two \cup {"container"})
               = IF "container" \in two THEN Cardinality(two) ELSE Cardinality(two) + 1
      BY <2>2, <2>3, FS_AddElement, Zenon
    <3> QED BY <2>2, <2>3, <3>1, <3>2
  <2>5. two \cup {"container"} = Columns
    BY <2>3 DEF Columns
  <2> QED BY <2>4, <2>5
<1>2. /\ IsFiniteSet(A) /\ Cardinality(A) \in Nat /\ Cardinality(A) <= 3
      /\ Cardinality(A) = 3 => A = Columns
  BY <1>1, FS_Subset, FS_CardinalityType
<1>3. ASSUME NEW c \in Columns
      PROVE  IsFiniteSet(Columns \ {c}) /\ Cardinality(Columns \ {c}) = 2
  BY <1>1, FS_RemoveElement
<1>4. ASSUME NEW c \in Columns, Columns \ {c} \subseteq A PROVE Cardinality(A) >= 2
  <2>1. PICK rest : rest = Columns \ {c}
    OBVIOUS
  <2>2. Cardinality(rest) <= Cardinality(A) /\ Cardinality(rest) = 2
    BY <1>2, <1>3, <1>4, <2>1, FS_Subset
  <2> QED BY <1>2, <2>2
<1>5. ASSUME \A c \in Columns : ~(Columns \ {c} \subseteq A) PROVE ~(Cardinality(A) >= 2)
  <2>1. PICK c \in Columns : c \notin A
    <3>1. "date" \in Columns
      BY DEF Columns
    <3> QED BY <1>5, <3>1
  <2>2. PICK e \in Columns \ {c} : e \notin A
    BY <1>5, <2>1
  <2>3. PICK rest : rest = Columns \ {c}
    OBVIOUS
  <2>4. IsFiniteSet(rest \ {e}) /\ Cardinality(rest \ {e}) = 1
    <3>1. IsFiniteSet(rest) /\ Cardinality(rest) = 2 /\ e \in rest
      BY <1>3, <2>2, <2>3
    <3> QED BY <3>1, FS_RemoveElement
  <2>5. PICK last : last = rest \ {e}
    OBVIOUS
  <2>6. A \subseteq last /\ IsFiniteSet(last) /\ Cardinality(last) = 1
    BY <2>1, <2>2, <2>3, <2>4, <2>5
  <2>7. Cardinality(A) <= 1
    BY <2>6, FS_Subset
  <2> QED BY <1>2, <2>7
<1> QED BY <1>1, <1>2, <1>4, <1>5

LEMMA AgreesOnColumns ==
  ASSUME NEW id, NEW t
  PROVE  /\ Agrees(id, t) \subseteq Columns
         /\ "date" \in Agrees(id, t) <=> id.date # Null /\ OnDate(t, id.date)
         /\ "booking" \in Agrees(id, t) <=> id.booking # Null /\ trip[t].booking = id.booking
         /\ "container" \in Agrees(id, t)
              <=> id.container # Null /\ trip[t].container = id.container
BY DEF Agrees, Columns, IdentityOf

\* id states t outright, or it shares two values with it.
Says(id, t) == Agrees(id, t) = Columns
Shares(id, t) == \E c \in Columns : Columns \ {c} \subseteq Agrees(id, t)

LEMMA SharingIs ==
  ASSUME NEW id
  PROVE  /\ SharingAtLeast(3, id) = {t \in Trips : Live(t) /\ Says(id, t)}
         /\ SharingAtLeast(2, id) = {t \in Trips : Live(t) /\ Shares(id, t)}
         /\ \A t : Cardinality(Agrees(id, t)) = 3 <=> Says(id, t)
         /\ \A t : Cardinality(Agrees(id, t)) = 2 <=> Shares(id, t) /\ ~Says(id, t)
<1>1. \A t : /\ Cardinality(Agrees(id, t)) >= 3 <=> Says(id, t)
             /\ Cardinality(Agrees(id, t)) >= 2 <=> Shares(id, t)
             /\ Cardinality(Agrees(id, t)) = 3 <=> Says(id, t)
             /\ Cardinality(Agrees(id, t)) = 2 <=> Shares(id, t) /\ ~Says(id, t)
  BY AgreesOnColumns, ColumnCounts DEF Says, Shares
<1> QED BY <1>1 DEF SharingAtLeast

\* What id does not share with t is a value that t does not hold.
Lacks(id, t) == \A column \in Columns \ Agrees(id, t) : IdentityOf(t)[column] = Null

LEMMA NothingToCorrect ==
  ASSUME NEW id, NEW t, Shares(id, t), ~Says(id, t), ToCorrection(id, t) = "none"
  PROVE  Lacks(id, t)
<1>1. PICK c \in Columns : Columns \ {c} \subseteq Agrees(id, t)
  BY DEF Shares
<1>2. Columns \ Agrees(id, t) = {c}
  BY <1>1, AgreesOnColumns DEF Says
<1>3. Only(Columns \ Agrees(id, t)) = c
  BY <1>2 DEF Only
<1>4. c # "none"
  BY DEF Columns
<1>5. IdentityOf(t)[c] = Null
  BY <1>3, <1>4 DEF ToCorrection
<1> QED BY <1>2, <1>5 DEF Lacks

\* The identity a line states once the column it misprints is corrected.
Mended(id, fix, t) == [id EXCEPT ![fix] = IdentityOf(t)[fix]]

LEMMA MendedSays ==
  ASSUME trip \in [Trips -> TripRow], NEW id \in Identity, NEW t \in Trips,
         Shares(id, t), ~Says(id, t), NEW fix, fix = ToCorrection(id, t), fix # "none"
  PROVE  /\ fix \in Columns /\ Columns \ {fix} \subseteq Agrees(id, t)
         /\ fix \notin Agrees(id, t)
         /\ Mended(id, fix, t) \in Identity
         /\ Says(Mended(id, fix, t), t)
         /\ \A u \in Trips : Says(Mended(id, fix, t), u) => Columns \ {fix} \subseteq Agrees(id, u)
<1>1. fix \in Columns \ Agrees(id, t) /\ IdentityOf(t)[fix] # Null
  <2>1. Columns \ Agrees(id, t) # {}
    BY AgreesOnColumns DEF Says
  <2> QED BY <2>1 DEF ToCorrection, Only, Columns
<1>2. Columns \ {fix} \subseteq Agrees(id, t)
  BY <1>1 DEF Shares
<1>3. PICK mended : mended = Mended(id, fix, t)
  OBVIOUS
<1>4. trip[t] \in TripRow
  OBVIOUS
<1>5. fix \in {"date", "booking", "container"}
  BY <1>1 DEF Columns
<1>6. /\ mended \in Identity
      /\ mended.date = IF fix = "date" THEN trip[t].date ELSE id.date
      /\ mended.booking = IF fix = "booking" THEN trip[t].booking ELSE id.booking
      /\ mended.container = IF fix = "container" THEN trip[t].container ELSE id.container
  <2>1. CASE fix = "date"
    BY <1>3, <1>4, <2>1 DEF Mended, IdentityOf, Identity, TripRow
  <2>2. CASE fix = "booking"
    BY <1>3, <1>4, <2>2 DEF Mended, IdentityOf, Identity, TripRow
  <2>3. CASE fix = "container"
    BY <1>3, <1>4, <2>3 DEF Mended, IdentityOf, Identity, TripRow
  <2> QED BY <1>5, <2>1, <2>2, <2>3
<1>7. Says(mended, t)
  <2>0. fix = "date" => trip[t].date # Null
    BY <1>1 DEF IdentityOf
  <2>6. fix = "booking" => trip[t].booking # Null
    BY <1>1 DEF IdentityOf
  <2>7. fix = "container" => trip[t].container # Null
    BY <1>1 DEF IdentityOf
  <2>1. "date" \in Agrees(mended, t)
    BY <1>2, <1>6, <2>0, AgreesOnColumns DEF OnDate, Columns
  <2>2. "booking" \in Agrees(mended, t) /\ "container" \in Agrees(mended, t)
    BY <1>2, <1>6, <2>6, <2>7, AgreesOnColumns DEF Columns
  <2> QED BY <2>1, <2>2, AgreesOnColumns DEF Says, Columns
<1>8. ASSUME NEW u \in Trips, Says(mended, u) PROVE Columns \ {fix} \subseteq Agrees(id, u)
  <2>1. /\ mended.date # Null /\ OnDate(u, mended.date)
        /\ mended.booking # Null /\ trip[u].booking = mended.booking
        /\ mended.container # Null /\ trip[u].container = mended.container
    BY <1>8, AgreesOnColumns DEF Says, Columns
  <2> QED BY <1>6, <2>1, AgreesOnColumns DEF Columns
<1> QED BY <1>1, <1>2, <1>3, <1>6, <1>7, <1>8

---------------------------------------------------------------------------
(* How the lines of a workbook are told apart.                             *)

LEMMA ContainerDecides ==
  ASSUME NEW id
  PROVE  LET d == DecideByContainer(id)
         IN  /\ d.fix = "none"
             /\ d.trip # Null => d.trip \in SharingAtLeast(3, id) /\ Closed(d.trip)
             /\ \A t \in SharingAtLeast(3, id) : Closed(t) =>
                  d.trip = t \/ \E u \in SharingAtLeast(3, id) : u # t
<1> DEFINE holding == SharingAtLeast(3, id)
           closed == {t \in holding : Closed(t)}
<1>1. closed \in SUBSET Trips /\ closed \subseteq holding
  BY DEF SharingAtLeast
<1>2. Cardinality(closed) = 1 => closed = {Only(closed)}
  BY <1>1, OneTrip
<1>3. \A t \in closed : Cardinality(closed) = 1 \/ \E u \in closed : u # t
  <2> SUFFICES ASSUME NEW t \in closed, \A u \in closed : u = t PROVE Cardinality(closed) = 1
    OBVIOUS
  <2>1. closed = {t}
    OBVIOUS
  <2> HIDE DEF closed
  <2> QED BY <2>1, FS_Singleton
<1> HIDE DEF closed
<1>4. DecideByContainer(id) =
        CASE Cardinality(closed) = 1 -> Decided("MATCHED", Only(closed), holding, "none")
          [] Cardinality(closed) > 1 -> Decided("AMBIGUOUS", Null, holding, "none")
          [] OTHER                   -> Decided("NOT_FINISHED", Null, holding, "none")
  BY DEF DecideByContainer, closed
<1>5. CASE Cardinality(closed) = 1
  <2>1. DecideByContainer(id) = Decided("MATCHED", Only(closed), holding, "none")
    BY <1>4, <1>5
  <2> QED BY <1>1, <1>2, <1>5, <2>1 DEF Decided, closed
<1>6. CASE Cardinality(closed) # 1
  <2>1. \/ DecideByContainer(id) = Decided("AMBIGUOUS", Null, holding, "none")
        \/ DecideByContainer(id) = Decided("NOT_FINISHED", Null, holding, "none")
    BY <1>4, <1>6
  <2> QED BY <1>1, <1>3, <1>6, <2>1 DEF Decided, closed
<1> QED BY <1>5, <1>6

LEMMA TwoValuesDecide ==
  ASSUME NEW id, NEW claimed
  PROVE  LET d == DecideByTwoValues(id, claimed)
         IN  d.trip # Null \/ d.fix # "none" =>
               /\ d.status = "MATCHED" /\ d.trip \in Trips /\ d.trip # Null
               /\ d.candidates = {d.trip} /\ Closed(d.trip)
               /\ SharingAtLeast(2, id) \ claimed = {d.trip}
               /\ d.fix = ToCorrection(id, d.trip)
<1> DEFINE all  == SharingAtLeast(2, id)
           free == all \ claimed
<1>1. all \in SUBSET Trips /\ free \in SUBSET all /\ free \in SUBSET Trips
  BY DEF SharingAtLeast
<1>2. DecideByTwoValues(id, claimed) =
        CASE Cardinality(free) > 1    -> Decided("AMBIGUOUS", Null, free, "none")
          [] free = {} /\ all # {}    -> Decided("CONFLICT", Null, all, "none")
          [] all = {}                 -> Decided("NOT_FOUND", Null, {}, "none")
          [] Cardinality(free) = 1 /\ ~Closed(Only(free))
                                      -> Decided("NOT_FINISHED", Null, free, "none")
          [] OTHER                    -> Decided("MATCHED", Only(free), free,
                                                 ToCorrection(id, Only(free)))
  BY DEF DecideByTwoValues
<1>3. /\ Cardinality(free) = 1 => free = {Only(free)} /\ Only(free) \in Trips
      /\ free = {} \/ Cardinality(free) > 1 \/ Cardinality(free) = 1
  BY <1>1, OneTrip, MoreThanNone
<1> HIDE DEF all, free
<1>4. CASE Cardinality(free) = 1 /\ Closed(Only(free)) /\ free # {} /\ all # {}
  <2>1. DecideByTwoValues(id, claimed)
          = Decided("MATCHED", Only(free), free, ToCorrection(id, Only(free)))
    BY <1>2, <1>4
  <2>2. Only(free) # Null
    BY <1>3, <1>4, NullIsNoValue
  <2> QED BY <1>3, <1>4, <2>1, <2>2 DEF Decided, all, free
<1>5. CASE ~(Cardinality(free) = 1 /\ Closed(Only(free)) /\ free # {} /\ all # {})
  <2>1. /\ \/ Cardinality(free) > 1
           \/ free = {} /\ all # {}
           \/ all = {}
           \/ Cardinality(free) = 1 /\ ~Closed(Only(free))
        /\ all = {} => free = {}
    BY <1>3, <1>5 DEF all, free
  <2>2. DecideByTwoValues(id, claimed) \in
          {Decided("AMBIGUOUS", Null, free, "none"), Decided("CONFLICT", Null, all, "none"),
           Decided("NOT_FOUND", Null, {}, "none"), Decided("NOT_FINISHED", Null, free, "none")}
    BY <1>2, <2>1
  <2> QED BY <2>2 DEF Decided
<1> QED BY <1>4, <1>5

(* A transport line is found to be a trip that it states outright, or one  *)
(* that it is then corrected to: the only one nobody else claims of those  *)
(* it shares two values with.                                              *)
LEMMA TransportDecides ==
  ASSUME NEW lines, NEW pass, NEW i
  PROVE  LET d  == DecideTransport(lines, pass, i)
             id == lines[i].stated
         IN  /\ d.fix # "none" => d.trip # Null
             /\ d.trip # Null =>
                  /\ d.trip \in Trips /\ Closed(d.trip)
                  /\ \/ d.trip \in SharingAtLeast(3, id) /\ d.fix = "none"
                     \/ /\ SharingAtLeast(3, id) = {}
                        /\ SharingAtLeast(2, id) \ ClaimedByOthers(lines, pass, i) = {d.trip}
                        /\ \/ WasAddedByAudit(lines[i]) /\ d.fix = "none"
                           \/ /\ d.status = "MATCHED" /\ d.candidates = {d.trip}
                              /\ d.fix = ToCorrection(id, d.trip)
             /\ \A t \in SharingAtLeast(3, id) : Closed(t) =>
                  d.trip = t \/ \E u \in SharingAtLeast(3, id) : u # t
<1> DEFINE id      == lines[i].stated
           claimed == ClaimedByOthers(lines, pass, i)
           added   == WasAddedByAudit(lines[i])
           decided == IF SharingAtLeast(3, id) # {} THEN DecideByContainer(id)
                      ELSE DecideByTwoValues(id, claimed)
           d       == DecideTransport(lines, pass, i)
<1>1. d = [decided EXCEPT !.status = IF added THEN "ADDED_MISSING" ELSE @,
                          !.fix = IF added THEN "none" ELSE @]
  BY DEF DecideTransport
<1>2. decided = Decided(decided.status, decided.trip, decided.candidates, decided.fix)
  BY ByContainerNames, ByTwoValuesNames DEF Decided
<1>3. d = Decided(IF added THEN "ADDED_MISSING" ELSE decided.status, decided.trip,
                  decided.candidates, IF added THEN "none" ELSE decided.fix)
  BY <1>1, <1>2 DEF Decided
<1> HIDE DEF d, added
<1>4. CASE SharingAtLeast(3, id) # {}
  <2>1. /\ decided.fix = "none"
        /\ decided.trip # Null => decided.trip \in SharingAtLeast(3, id) /\ Closed(decided.trip)
        /\ \A t \in SharingAtLeast(3, id) : Closed(t) =>
             decided.trip = t \/ \E u \in SharingAtLeast(3, id) : u # t
    BY <1>4, ContainerDecides
  <2>2. SharingAtLeast(3, id) \subseteq Trips
    BY DEF SharingAtLeast
  <2> HIDE DEF decided, claimed
  <2> QED BY <1>3, <2>1, <2>2 DEF Decided, d, added
<1>5. CASE SharingAtLeast(3, id) = {}
  <2>1. decided = DecideByTwoValues(id, claimed)
    BY <1>5
  <2>2. decided.trip # Null \/ decided.fix # "none" =>
          /\ decided.status = "MATCHED" /\ decided.trip \in Trips /\ decided.trip # Null
          /\ decided.candidates = {decided.trip} /\ Closed(decided.trip)
          /\ SharingAtLeast(2, id) \ claimed = {decided.trip}
          /\ decided.fix = ToCorrection(id, decided.trip)
    BY <2>1, TwoValuesDecide
  <2> HIDE DEF decided
  <2> QED BY <1>3, <1>5, <2>2 DEF Decided, d, added
<1> QED BY <1>4, <1>5

(* Line k has t for itself: it states t, or charges for it without a       *)
(* container.                                                              *)
Claims(lines, pass, k, t) ==
  /\ k \in DOMAIN lines
  /\ \/ k \in pass /\ t \in SharingAtLeast(3, lines[k].stated)
     \/ /\ k \in Charges(lines) /\ lines[k].stated.container = Null
        /\ IdentifyTransport(lines[k].stated).trip = t

LEMMA ClaimedIs ==
  ASSUME NEW lines, NEW pass, NEW i, NEW t \in Trips
  PROVE  t \in ClaimedByOthers(lines, pass, i) <=>
           /\ \E k : Claims(lines, pass, k, t)
           /\ \A k : Claims(lines, pass, k, t) => lines[k].stated # lines[i].stated
<1>1. t # Null
  BY NullIsNoValue
<1> QED BY <1>1 DEF ClaimedByOthers, Claims, Charges

(* A line is corrected to a trip only if, where it could be another one as *)
(* well, nobody claims the trip it is corrected to.                        *)
LEMMA SoleIsUnclaimed ==
  ASSUME trip \in [Trips -> TripRow], NEW lines, NEW pass, NEW i, NEW t \in Trips,
         SharingAtLeast(3, lines[i].stated) = {},
         SharingAtLeast(2, lines[i].stated) \ ClaimedByOthers(lines, pass, i) = {t},
         NEW u \in SharingAtLeast(2, lines[i].stated), u # t
  PROVE  \A k : ~Claims(lines, pass, k, t)
<1> SUFFICES ASSUME NEW k, Claims(lines, pass, k, t) PROVE FALSE
  OBVIOUS
<1>1. t \notin ClaimedByOthers(lines, pass, i)
  OBVIOUS
<1>2. PICK j : Claims(lines, pass, j, t) /\ lines[j].stated = lines[i].stated
  BY <1>1, ClaimedIs
<1>3. lines[i].stated.container = Null /\ IdentifyTransport(lines[i].stated).trip = t
  BY <1>2 DEF Claims
<1>4. SharingAtLeast(2, lines[i].stated) = {t}
  BY <1>3, NoContainer
<1> QED BY <1>4

---------------------------------------------------------------------------
(* What matching makes of the lines that are transports, ...               *)

TransportLines(lines) == Transports(lines) \cup OwnTransportLines(lines)

PassOf(lines, i) ==
  IF i \in OwnTransportLines(lines) THEN DOMAIN lines ELSE Transports(lines)

\* What line i is found to be before identities clash.
FoundFor(lines, i) == DecideTransport(lines, PassOf(lines, i), i)

LEMMA TransportLinesAreLines ==
  ASSUME NEW lines
  PROVE  /\ TransportLines(lines) \subseteq DOMAIN lines
         /\ \A i : PassOf(lines, i) \in {DOMAIN lines, Transports(lines)}
         /\ Transports(lines) \subseteq DOMAIN lines
         /\ OwnTransportLines(lines) \cap Transports(lines) = {}
BY DEF TransportLines, PassOf, OwnTransportLines, Charges, Transports

LEMMA FoundDecides ==
  ASSUME NEW lines, NEW i
  PROVE  LET d  == FoundFor(lines, i)
             id == lines[i].stated
         IN  /\ d.fix # "none" => d.trip # Null
             /\ d.trip # Null =>
                  /\ d.trip \in Trips /\ Closed(d.trip)
                  /\ \/ d.trip \in SharingAtLeast(3, id) /\ d.fix = "none"
                     \/ /\ SharingAtLeast(3, id) = {}
                        /\ SharingAtLeast(2, id) \ ClaimedByOthers(lines, PassOf(lines, i), i) = {d.trip}
                        /\ \/ WasAddedByAudit(lines[i]) /\ d.fix = "none"
                           \/ /\ d.status = "MATCHED" /\ d.candidates = {d.trip}
                              /\ d.fix = ToCorrection(id, d.trip)
             /\ \A t \in SharingAtLeast(3, id) : Closed(t) =>
                  d.trip = t \/ \E u \in SharingAtLeast(3, id) : u # t
<1>1. PICK pass : pass = PassOf(lines, i)
  OBVIOUS
<1>2. FoundFor(lines, i) = DecideTransport(lines, pass, i)
  BY <1>1 DEF FoundFor
<1> QED BY <1>1, <1>2, TransportDecides

LEMMA TransportsMatched ==
  ASSUME NEW lines, NEW i \in TransportLines(lines), NEW match, match = Matching(lines)
  PROVE  LET d == FoundFor(lines, i)
         IN  /\ match[i] = d \/ match[i] = Decided("CONFLICT", Null, {d.trip}, "none")
             /\ ~ChargesOnly(lines, match, i)
             /\ Named(d) \subseteq Named(match[i])
             /\ match[i].fix # "none" =>
                  /\ match[i] = d
                  /\ \A j \in TransportLines(lines) :
                       FoundFor(lines, j).trip = d.trip => lines[j].stated = lines[i].stated
<1> DEFINE own == OwnTransportLines(lines)
           judged == [j \in DOMAIN lines |-> Judged(lines, j, own)]
           d == FoundFor(lines, i)
<1>1. i \in DOMAIN lines /\ TransportLines(lines) \subseteq DOMAIN lines
  BY TransportLinesAreLines
<1>2. /\ match[i] = d \/ match[i] = Decided("CONFLICT", Null, {d.trip}, "none")
      /\ ~ChargesOnly(lines, match, i)
      /\ Named(d) \subseteq Named(match[i])
  BY <1>1, MatchingNames DEF FoundFor, PassOf, TransportLines
<1>3. \A j \in TransportLines(lines) : judged[j] = FoundFor(lines, j)
  BY <1>1 DEF Judged, FoundFor, PassOf, TransportLines
<1>4. match = WithIdentityConflicts(lines, own, judged)
  BY DEF Matching, MatchingWith
<1>5. ASSUME match[i].fix # "none"
      PROVE  /\ match[i] = d
             /\ \A j \in TransportLines(lines) :
                  FoundFor(lines, j).trip = d.trip => lines[j].stated = lines[i].stated
  <2>1. match[i] = d
    BY <1>2, <1>5 DEF Decided
  <2>2. d.status = "MATCHED" /\ d.fix # "none"
    BY <1>5, <2>1, FoundDecides
  <2>4. Cardinality(Agrees(lines[i].stated, d.trip)) < 3
    <3>1. d.trip \in Trips /\ Closed(d.trip) /\ SharingAtLeast(3, lines[i].stated) = {}
      BY <2>2, FoundDecides
    <3> HIDE DEF d
    <3>2. ~(Cardinality(Agrees(lines[i].stated, d.trip)) >= 3)
      BY <3>1 DEF SharingAtLeast, Live, Closed
    <3> QED BY <3>2, Agreements
  <2> HIDE DEF judged, own, d
  <2>3. ASSUME NEW j \in TransportLines(lines), judged[j].trip = judged[i].trip,
               lines[j].stated # lines[i].stated
        PROVE  FALSE
    <3>1. judged[i] = d
      BY <1>3 DEF d
    <3>2. j \in DOMAIN lines
      BY <1>1
    <3>3. match[i] = Decided("CONFLICT", Null, {judged[i].trip}, "none")
      BY <1>1, <1>4, <2>2, <2>3, <2>4, <3>1, <3>2 DEF WithIdentityConflicts, TransportLines, own
    <3> QED BY <1>5, <3>3 DEF Decided
  <2> QED BY <1>3, <2>1, <2>3 DEF d
<1> QED BY <1>2, <1>5

(* ... and of those that only charge a cost.                               *)
LEMMA ChargesMatched ==
  ASSUME NEW lines, NEW i \in DOMAIN lines, i \notin TransportLines(lines),
         NEW match, match = Matching(lines)
  PROVE  /\ match[i] = DecideCostLine(lines[i])
         /\ ChargesOnly(lines, match, i)
<1> DEFINE own == OwnTransportLines(lines)
           judged == [j \in DOMAIN lines |-> Judged(lines, j, own)]
<1>1. judged[i] = DecideCostLine(lines[i])
  BY DEF Judged, TransportLines
<1>2. match = WithIdentityConflicts(lines, own, judged)
  BY DEF Matching, MatchingWith
<1> HIDE DEF judged, own
<1>3. match[i] = judged[i]
  BY <1>2 DEF WithIdentityConflicts, TransportLines, own
<1>4. DecideCostLine(lines[i]).status \in {"COST_LINE", "COST_LINE_UNRESOLVED"}
  BY DEF DecideCostLine, Unresolved, Decided
<1>5. ~IsTransport(lines[i])
  BY DEF TransportLines, Transports
<1> QED BY <1>1, <1>3, <1>4, <1>5 DEF ChargesOnly

LEMMA MatchedLines ==
  ASSUME NEW lines, NEW match, match = Matching(lines)
  PROVE  /\ DOMAIN match = DOMAIN lines
         /\ \A i \in DOMAIN lines : ~ChargesOnly(lines, match, i) <=> i \in TransportLines(lines)
<1>1. DOMAIN match = DOMAIN lines
  BY DEF Matching, MatchingWith, WithIdentityConflicts
<1> QED BY <1>1, TransportsMatched, ChargesMatched

\* Of the trips line i shares two values with, t alone is nobody else's.
IsSole(lines, i, t) ==
  /\ SharingAtLeast(3, lines[i].stated) = {}
  /\ SharingAtLeast(2, lines[i].stated) \ ClaimedByOthers(lines, PassOf(lines, i), i) = {t}

\* Corrected to new, line i states u, and no other trip but those it shared
\* two values with before.
CorrectsTo(lines, i, new, u) ==
  /\ u \in Trips /\ Closed(u) /\ FoundFor(lines, i).trip = u
  /\ IsSole(lines, i, u)
  /\ new \in Identity /\ Says(new, u)
  /\ SharingAtLeast(3, new) \subseteq SharingAtLeast(2, lines[i].stated)

(* A line that is corrected states the transport it was found to be, and   *)
(* no other but those it shared two values with before.                    *)
LEMMA CorrectedSays ==
  ASSUME trip \in [Trips -> TripRow], NEW lines \in Seq(Line), NEW i \in TransportLines(lines),
         NEW match, match = Matching(lines), match[i].fix # "none",
         NEW u, u = match[i].trip, NEW new, new = CorrectedTo(lines, match)[i]
  PROVE  CorrectsTo(lines, i, new, u)
<1> DEFINE id == lines[i].stated
           d == FoundFor(lines, i)
<1>1. match[i] = d /\ d.trip = u /\ d.fix # "none"
  BY TransportsMatched
<1>2. /\ u \in Trips /\ Closed(u)
      /\ SharingAtLeast(3, id) = {}
      /\ SharingAtLeast(2, id) \ ClaimedByOthers(lines, PassOf(lines, i), i) = {u}
      /\ d.candidates = {u} /\ d.fix = ToCorrection(id, u)
  <2>1. /\ d.fix # "none" => d.trip # Null
        /\ d.trip # Null =>
             /\ d.trip \in Trips /\ Closed(d.trip)
             /\ \/ d.fix = "none"
                \/ /\ SharingAtLeast(3, id) = {}
                   /\ SharingAtLeast(2, id) \ ClaimedByOthers(lines, PassOf(lines, i), i) = {d.trip}
                   /\ d.candidates = {d.trip} /\ d.fix = ToCorrection(id, d.trip)
    BY FoundDecides
  <2> HIDE DEF d, id
  <2> QED BY <1>1, <2>1
<1>3. i \in DOMAIN lines /\ id \in Identity
  <2>1. i \in DOMAIN lines
    BY TransportLinesAreLines
  <2>2. lines[i] \in Line
    BY <2>1
  <2> QED BY <2>1, <2>2 DEF Line
<1>4. new = Mended(id, d.fix, u)
  <2>1. Only(d.candidates) = u
    BY <1>2 DEF Only
  <2> HIDE DEF d
  <2>2. new = [lines[i].stated EXCEPT ![match[i].fix]
                 = IdentityOf(Only(match[i].candidates))[match[i].fix]]
    BY <1>3 DEF CorrectedTo
  <2> QED BY <1>1, <2>1, <2>2 DEF Mended
<1>5. Live(u) /\ Shares(id, u) /\ ~Says(id, u)
  <2>1. u \in SharingAtLeast(2, id) /\ u \notin SharingAtLeast(3, id)
    BY <1>2
  <2>2. /\ SharingAtLeast(3, id) = {t \in Trips : Live(t) /\ Says(id, t)}
        /\ SharingAtLeast(2, id) = {t \in Trips : Live(t) /\ Shares(id, t)}
    BY SharingIs
  <2> QED BY <2>1, <2>2
<1>6. PICK fix : fix = d.fix
  OBVIOUS
<1>7. PICK was : was = id
  OBVIOUS
<1> HIDE DEF d, id
<1>8. /\ Mended(was, fix, u) \in Identity /\ Says(Mended(was, fix, u), u)
      /\ fix \in Columns
      /\ \A v \in Trips : Says(Mended(was, fix, u), v) => Columns \ {fix} \subseteq Agrees(was, v)
  BY <1>1, <1>2, <1>3, <1>5, <1>6, <1>7, MendedSays
<1>9. SharingAtLeast(3, new) \subseteq SharingAtLeast(2, was)
  <2>1. /\ SharingAtLeast(3, new) = {t \in Trips : Live(t) /\ Says(new, t)}
        /\ SharingAtLeast(2, was) = {t \in Trips : Live(t) /\ Shares(was, t)}
    BY SharingIs
  <2>2. new = Mended(was, fix, u)
    BY <1>4, <1>6, <1>7
  <2> QED BY <1>8, <2>1, <2>2 DEF Shares
<1>10. IsSole(lines, i, u)
  BY <1>2 DEF IsSole, id
<1> QED BY <1>1, <1>2, <1>4, <1>6, <1>7, <1>8, <1>9, <1>10 DEF CorrectsTo, d, id

(* Two lines that are transports are corrected to one identity only if     *)
(* they state one already.                                                 *)
LEMMA ApartFromAnother ==
  ASSUME trip \in [Trips -> TripRow], NEW lines \in Seq(Line), NEW match, match = Matching(lines),
         NEW i \in TransportLines(lines), match[i].fix # "none",
         NEW j \in TransportLines(lines), match[j].fix = "none",
         CorrectedTo(lines, match)[i] = lines[j].stated
  PROVE  lines[i].stated = lines[j].stated
<1> SUFFICES ASSUME lines[i].stated # lines[j].stated PROVE FALSE
  OBVIOUS
<1>1. PICK u : u = match[i].trip
  OBVIOUS
<1>2. PICK new : new = CorrectedTo(lines, match)[i]
  OBVIOUS
<1>3. /\ u \in Trips /\ Closed(u) /\ FoundFor(lines, i).trip = u
      /\ IsSole(lines, i, u) /\ Says(new, u)
      /\ SharingAtLeast(3, new) \subseteq SharingAtLeast(2, lines[i].stated)
  <2>1. CorrectsTo(lines, i, new, u)
    BY <1>1, <1>2, CorrectedSays
  <2> QED BY <2>1 DEF CorrectsTo
<1>4. u \in SharingAtLeast(3, lines[j].stated)
  BY <1>2, <1>3, SharingIs DEF Live, Closed
<1>5. \A k \in TransportLines(lines) :
        FoundFor(lines, k).trip = u => lines[k].stated = lines[i].stated
  <2>1. \A k \in TransportLines(lines) :
          FoundFor(lines, k).trip = FoundFor(lines, i).trip => lines[k].stated = lines[i].stated
    BY TransportsMatched
  <2> QED BY <1>3, <2>1
<1>6. FoundFor(lines, j).trip # u
  BY <1>5
<1>7. PICK w \in SharingAtLeast(3, lines[j].stated) : w # u
  BY <1>3, <1>4, <1>6, FoundDecides
<1>8. w \in SharingAtLeast(2, lines[i].stated)
  BY <1>2, <1>3, <1>7
<1>9. PICK pass : pass = PassOf(lines, i)
  OBVIOUS
<1>10. \A k : ~Claims(lines, pass, k, u)
  BY <1>3, <1>7, <1>8, <1>9, SoleIsUnclaimed DEF IsSole
<1>11. j \in DOMAIN lines /\ pass \in {DOMAIN lines, Transports(lines)}
  BY <1>9, TransportLinesAreLines
<1>12. j \notin pass
  BY <1>4, <1>10, <1>11 DEF Claims
<1>13. i \in Transports(lines) /\ j \in OwnTransportLines(lines)
  BY <1>9, <1>11, <1>12 DEF PassOf, TransportLines
<1>14. u \in Named(DecideTransport(lines, Transports(lines), i))
  <2>1. i \notin OwnTransportLines(lines)
    BY <1>13, TransportLinesAreLines
  <2>2. DecideTransport(lines, Transports(lines), i).trip = u
    BY <1>3, <2>1 DEF FoundFor, PassOf
  <2> QED BY <1>3, <2>2, NullIsNoValue DEF Named
<1>15. u \in Named(DecideTransport(lines, DOMAIN lines, j))
  <2>1. u \in DecideTransport(lines, DOMAIN lines, j).candidates
    BY <1>4, TransportNames
  <2> QED BY <2>1 DEF Named
<1> QED BY <1>13, <1>14, <1>15 DEF OwnTransportLines

LEMMA ApartTogether ==
  ASSUME trip \in [Trips -> TripRow], NEW lines \in Seq(Line), NEW match, match = Matching(lines),
         NEW i \in TransportLines(lines), match[i].fix # "none",
         NEW j \in TransportLines(lines), match[j].fix # "none",
         CorrectedTo(lines, match)[i] = CorrectedTo(lines, match)[j]
  PROVE  lines[i].stated = lines[j].stated
<1>1. PICK u : u = match[i].trip
  OBVIOUS
<1>2. PICK v : v = match[j].trip
  OBVIOUS
<1>3. PICK new : new = CorrectedTo(lines, match)[i] /\ new = CorrectedTo(lines, match)[j]
  OBVIOUS
<1>4. /\ u \in Trips /\ Closed(u) /\ FoundFor(lines, i).trip = u
      /\ IsSole(lines, i, u) /\ Says(new, u)
      /\ SharingAtLeast(3, new) \subseteq SharingAtLeast(2, lines[i].stated)
  <2>1. CorrectsTo(lines, i, new, u)
    BY <1>1, <1>3, CorrectedSays
  <2> QED BY <2>1 DEF CorrectsTo
<1>5. /\ v \in Trips /\ Closed(v) /\ FoundFor(lines, j).trip = v
      /\ IsSole(lines, j, v) /\ Says(new, v)
      /\ SharingAtLeast(3, new) \subseteq SharingAtLeast(2, lines[j].stated)
  <2>1. CorrectsTo(lines, j, new, v)
    BY <1>2, <1>3, CorrectedSays
  <2> QED BY <2>1 DEF CorrectsTo
<1>6. u \in SharingAtLeast(3, new) /\ v \in SharingAtLeast(3, new)
  BY <1>4, <1>5, SharingIs DEF Live, Closed
<1>7. CASE u = v
  <2>1. FoundFor(lines, j).trip = FoundFor(lines, i).trip => lines[j].stated = lines[i].stated
    BY TransportsMatched
  <2> QED BY <1>4, <1>5, <1>7, <2>1
<1>8. ASSUME u # v PROVE FALSE
  <2>1. v \in SharingAtLeast(2, lines[i].stated) /\ u \in SharingAtLeast(2, lines[j].stated)
    BY <1>4, <1>5, <1>6
  <2>2. PICK P : P = PassOf(lines, i)
    OBVIOUS
  <2>3. PICK Q : Q = PassOf(lines, j)
    OBVIOUS
  <2>4. \A k : ~Claims(lines, P, k, u)
    BY <1>4, <1>8, <2>1, <2>2, SoleIsUnclaimed DEF IsSole
  <2>5. \A k : ~Claims(lines, Q, k, v)
    BY <1>5, <1>8, <2>1, <2>3, SoleIsUnclaimed DEF IsSole
  <2>6. u \in ClaimedByOthers(lines, Q, j) /\ v \in ClaimedByOthers(lines, P, i)
    BY <1>4, <1>5, <1>8, <2>1, <2>2, <2>3 DEF IsSole
  <2>7. (\E k : Claims(lines, Q, k, u)) /\ (\E k : Claims(lines, P, k, v))
    BY <1>4, <1>5, <2>6, ClaimedIs
  <2>8. P \subseteq Q \/ Q \subseteq P
    <3>1. P \in {DOMAIN lines, Transports(lines)} /\ Q \in {DOMAIN lines, Transports(lines)}
      BY <2>2, <2>3, TransportLinesAreLines
    <3>2. Transports(lines) \subseteq DOMAIN lines
      BY TransportLinesAreLines
    <3> QED BY <3>1, <3>2
  <2>9. \/ \A k, t : Claims(lines, P, k, t) => Claims(lines, Q, k, t)
        \/ \A k, t : Claims(lines, Q, k, t) => Claims(lines, P, k, t)
    BY <2>8 DEF Claims
  <2> QED BY <2>4, <2>5, <2>7, <2>9
<1> QED BY <1>7, <1>8

LEMMA CorrectedApart ==
  ASSUME trip \in [Trips -> TripRow], NEW lines \in Seq(Line), NEW match, match = Matching(lines),
         NEW i \in TransportLines(lines), NEW j \in TransportLines(lines),
         CorrectedTo(lines, match)[i] = CorrectedTo(lines, match)[j]
  PROVE  lines[i].stated = lines[j].stated
<1>1. \A k \in TransportLines(lines) :
        match[k].fix = "none" => CorrectedTo(lines, match)[k] = lines[k].stated
  BY TransportLinesAreLines DEF CorrectedTo
<1>2. CASE match[i].fix = "none" /\ match[j].fix = "none"
  BY <1>1, <1>2
<1>3. CASE match[i].fix = "none" /\ match[j].fix # "none"
  <2>1. CorrectedTo(lines, match)[j] = lines[i].stated
    BY <1>1, <1>3
  <2> QED BY <1>3, <2>1, ApartFromAnother
<1>4. CASE match[i].fix # "none" /\ match[j].fix = "none"
  <2>1. CorrectedTo(lines, match)[i] = lines[j].stated
    BY <1>1, <1>4
  <2> QED BY <1>4, <2>1, ApartFromAnother
<1>5. CASE match[i].fix # "none" /\ match[j].fix # "none"
  BY <1>5, ApartTogether
<1> QED BY <1>2, <1>3, <1>4, <1>5

(* A line carries a transport it states then, but for one added before, of *)
(* which two values do, and for a transport that lacks the third; and it   *)
(* names every finished one it states.                                     *)
LEMMA MatchedCarries ==
  ASSUME trip \in [Trips -> TripRow], NEW lines \in Seq(Line), NEW match, match = Matching(lines),
         NEW i \in TransportLines(lines), NEW t \in Trips,
         NEW new, new = CorrectedTo(lines, match)[i]
  PROVE  /\ match[i].trip = t =>
              /\ Closed(t)
              /\ \/ Says(new, t)
                 \/ /\ match[i].fix = "none"
                    /\ WasAddedByAudit(lines[i]) \/ Lacks(new, t)
                    /\ Shares(new, t) /\ ~Says(new, t)
         /\ match[i].fix = "none" /\ Closed(t) /\ Says(new, t) => t \in Named(match[i])
<1>1. CASE match[i].fix # "none"
  <2>1. PICK u : u = match[i].trip
    OBVIOUS
  <2>2. Closed(u) /\ Says(new, u)
    BY <1>1, <2>1, CorrectedSays DEF CorrectsTo
  <2> QED BY <1>1, <2>1, <2>2
<1>2. CASE match[i].fix = "none"
  <2> DEFINE d == FoundFor(lines, i)
             id == lines[i].stated
  <2>1. new = id
    BY <1>2, TransportLinesAreLines DEF CorrectedTo
  <2>2. match[i] = d \/ match[i] = Decided("CONFLICT", Null, {d.trip}, "none")
    BY TransportsMatched
  <2>3. Named(d) \subseteq Named(match[i])
    BY TransportsMatched
  <2>4. /\ d.trip # Null =>
             /\ Closed(d.trip)
             /\ \/ d.trip \in SharingAtLeast(3, id)
                \/ /\ SharingAtLeast(3, id) = {}
                   /\ SharingAtLeast(2, id) \ ClaimedByOthers(lines, PassOf(lines, i), i) = {d.trip}
                   /\ WasAddedByAudit(lines[i]) \/ d.fix = ToCorrection(id, d.trip)
    BY FoundDecides
  <2>5. \A u \in SharingAtLeast(3, id) : u \in d.candidates
    <3>1. PICK pass : pass = PassOf(lines, i)
      OBVIOUS
    <3>2. d = DecideTransport(lines, pass, i)
      BY <3>1 DEF FoundFor
    <3> HIDE DEF d
    <3> QED BY <3>2, TransportNames
  <2>6. /\ SharingAtLeast(3, id) = {u \in Trips : Live(u) /\ Says(id, u)}
        /\ SharingAtLeast(2, id) = {u \in Trips : Live(u) /\ Shares(id, u)}
    BY SharingIs
  <2>7. lines[i].stated \in Identity
    <3>1. i \in DOMAIN lines
      BY TransportLinesAreLines
    <3>2. lines[i] \in Line
      BY <3>1
    <3> QED BY <3>2 DEF Line
  <2>8. ASSUME match[i].trip = t
        PROVE  /\ Closed(t)
               /\ \/ Says(id, t)
                  \/ /\ WasAddedByAudit(lines[i]) \/ Lacks(id, t)
                     /\ Shares(id, t) /\ ~Says(id, t)
    <3>1. match[i] = d
      BY <2>2, <2>8, NullIsNoValue DEF Decided
    <3>2. d.trip = t /\ d.fix = "none" /\ t # Null
      BY <1>2, <2>8, <3>1, NullIsNoValue
    <3>3. CASE t \in SharingAtLeast(3, id)
      BY <2>4, <2>6, <3>2, <3>3
    <3>4. CASE t \notin SharingAtLeast(3, id)
      <4>1. Closed(t) /\ t \in SharingAtLeast(2, id)
        BY <2>4, <3>2, <3>4
      <4>2. Shares(id, t) /\ ~Says(id, t)
        BY <2>6, <3>4, <4>1
      <4>3. ToCorrection(id, t) = "none" => Lacks(id, t)
        BY <4>2, NothingToCorrect
      <4> QED BY <2>4, <3>2, <3>4, <4>1, <4>2, <4>3
    <3> QED BY <3>3, <3>4
  <2>9. ASSUME Closed(t), Says(id, t) PROVE t \in Named(match[i])
    <3>1. t \in SharingAtLeast(3, id)
      BY <2>6, <2>9 DEF Closed, Live
    <3> QED BY <2>3, <2>5, <3>1 DEF Named
  <2> QED BY <1>2, <2>1, <2>8, <2>9
<1> QED BY <1>1, <1>2

---------------------------------------------------------------------------
(* Amounts that lines state together: a fold over a set of lines, which is *)
(* finite.  Induction over its subsets is the choice of a smallest one on  *)
(* which a claim fails.                                                    *)

LEMMA SmallestSubset ==
  ASSUME NEW S, IsFiniteSet(S), NEW B, B \subseteq SUBSET S, B # {}
  PROVE  \E T \in B : \A U \in B : U \subseteq T => U = T
<1>1. IsWellFoundedOn(StrictSubsetOrdering(S), SUBSET S)
  BY FS_StrictSubsetOrderingWellFounded, FS_FiniteSubsetsOfFinite
<1>2. \E T \in B : \A U \in B : <<U, T>> \notin StrictSubsetOrdering(S)
  BY <1>1, WFMin
<1> QED BY <1>2 DEF StrictSubsetOrdering

LineOf(s) == CHOOSE x \in s : TRUE

\* f sums the amounts of every subset of S, a chosen line at a time.
SumFrom(lines, f, S) ==
  f = [s \in SUBSET S |->
        IF s = {} THEN 0 ELSE lines[LineOf(s)].amount + f[s \ {LineOf(s)}]]

LEMMA StatedSums ==
  ASSUME NEW lines, NEW S
  PROVE  Stated(lines, S) = (CHOOSE f : SumFrom(lines, f, S))[S]
BY Zenon DEF Stated, FoldSet, MapThenFoldSet, SumFrom, LineOf

LEMMA LineOfIsOne == \A s : s # {} => LineOf(s) \in s
BY DEF LineOf

LEMMA SumsAgree ==
  ASSUME NEW lines, NEW S, IsFiniteSet(S), NEW f, NEW g,
         SumFrom(lines, f, S), SumFrom(lines, g, S)
  PROVE  \A s \in SUBSET S : f[s] = g[s]
<1> DEFINE bad == {s \in SUBSET S : f[s] # g[s]}
<1> SUFFICES ASSUME bad # {} PROVE FALSE
  OBVIOUS
<1>0. bad \subseteq SUBSET S
  OBVIOUS
<1>1. PICK s \in bad : \A u \in bad : u \subseteq s => u = s
  <2> HIDE DEF bad
  <2> QED BY <1>0, SmallestSubset
<1>2. CASE s = {}
  BY <1>1, <1>2 DEF SumFrom
<1>3. CASE s # {}
  <2>1. LineOf(s) \in s
    BY <1>3, LineOfIsOne
  <2>2. f[s \ {LineOf(s)}] = g[s \ {LineOf(s)}]
    BY <1>1, <2>1
  <2>3. /\ f[s] = lines[LineOf(s)].amount + f[s \ {LineOf(s)}]
        /\ g[s] = lines[LineOf(s)].amount + g[s \ {LineOf(s)}]
    BY <1>1, <1>3 DEF SumFrom
  <2> QED BY <1>1, <2>2, <2>3
<1> QED BY <1>2, <1>3

LEMMA SumsRestrict ==
  ASSUME NEW lines, NEW S, NEW T \in SUBSET S, NEW f, SumFrom(lines, f, S)
  PROVE  SumFrom(lines, [s \in SUBSET T |-> f[s]], T)
<1> DEFINE g == [s \in SUBSET T |-> f[s]]
<1>1. ASSUME NEW s \in SUBSET T
      PROVE  g[s] = IF s = {} THEN 0 ELSE lines[LineOf(s)].amount + g[s \ {LineOf(s)}]
  <2>1. s \in SUBSET S /\ s \ {LineOf(s)} \in SUBSET T
    OBVIOUS
  <2>2. f[s] = IF s = {} THEN 0 ELSE lines[LineOf(s)].amount + f[s \ {LineOf(s)}]
    BY <2>1 DEF SumFrom
  <2> QED BY <2>1, <2>2
<1>2. g = [s \in SUBSET T |-> g[s]]
  OBVIOUS
<1> HIDE DEF g
<1> QED BY <1>1, <1>2, Zenon DEF SumFrom, g

\* Where a sum exists, Stated is one of its values.
LEMMA StatedAgrees ==
  ASSUME NEW lines, NEW S, IsFiniteSet(S), NEW T \in SUBSET S, NEW f, SumFrom(lines, f, S)
  PROVE  Stated(lines, T) = f[T]
<1>1. IsFiniteSet(T)
  BY FS_Subset
<1>2. SumFrom(lines, [s \in SUBSET T |-> f[s]], T)
  BY SumsRestrict
<1>3. PICK g : g = CHOOSE h : SumFrom(lines, h, T)
  OBVIOUS
<1>4. SumFrom(lines, g, T) /\ Stated(lines, T) = g[T]
  BY <1>2, <1>3, StatedSums
<1> QED BY <1>1, <1>2, <1>4, SumsAgree

LEMMA SumExists ==
  ASSUME NEW lines, NEW S, IsFiniteSet(S)
  PROVE  \E f : SumFrom(lines, f, S)
<1> DEFINE bad == {T \in SUBSET S : ~\E f : SumFrom(lines, f, T)}
<1> SUFFICES ASSUME bad # {} PROVE FALSE
  OBVIOUS
<1>0. bad \subseteq SUBSET S
  OBVIOUS
<1>1. PICK T \in bad : \A U \in bad : U \subseteq T => U = T
  <2> HIDE DEF bad
  <2> QED BY <1>0, SmallestSubset
<1>2. IsFiniteSet(T) /\ T \in SUBSET S
  BY <1>1, FS_Subset
<1>3. ASSUME NEW U \in SUBSET T, U # T
      PROVE  Stated(lines, U) =
               IF U = {} THEN 0 ELSE lines[LineOf(U)].amount + Stated(lines, U \ {LineOf(U)})
  <2>1. PICK f : SumFrom(lines, f, U)
    BY <1>1, <1>2, <1>3
  <2>2. IsFiniteSet(U)
    BY <1>2, FS_Subset
  <2>3. Stated(lines, U) = f[U] /\ Stated(lines, U \ {LineOf(U)}) = f[U \ {LineOf(U)}]
    BY <2>1, <2>2, StatedAgrees
  <2>4. f[U] = IF U = {} THEN 0 ELSE lines[LineOf(U)].amount + f[U \ {LineOf(U)}]
    BY <2>1 DEF SumFrom
  <2> QED BY <2>3, <2>4
<1> DEFINE g == [s \in SUBSET T |->
                  IF s = {} THEN 0 ELSE lines[LineOf(s)].amount + Stated(lines, s \ {LineOf(s)})]
<1>4. ASSUME NEW s \in SUBSET T, s # {}
      PROVE  g[s \ {LineOf(s)}] = Stated(lines, s \ {LineOf(s)})
  <2>1. s \ {LineOf(s)} \in SUBSET T /\ s \ {LineOf(s)} # T
    BY <1>4, LineOfIsOne
  <2> QED BY <2>1, <1>3
<1>5. SumFrom(lines, g, T)
  <2>1. g = [s \in SUBSET T |->
              IF s = {} THEN 0 ELSE lines[LineOf(s)].amount + g[s \ {LineOf(s)}]]
    BY <1>4
  <2> HIDE DEF g
  <2> QED BY <2>1, Zenon DEF SumFrom
<1> QED BY <1>1, <1>5

LEMMA StatedOfNone == ASSUME NEW lines PROVE Stated(lines, {}) = 0
<1>1. PICK f : SumFrom(lines, f, {})
  BY SumExists, FS_EmptySet
<1>2. Stated(lines, {}) = f[{}]
  BY <1>1, StatedAgrees, FS_EmptySet
<1> QED BY <1>1, <1>2 DEF SumFrom

LEMMA StatedOfLine ==
  ASSUME NEW lines, NEW S, IsFiniteSet(S), S # {}
  PROVE  Stated(lines, S) = lines[LineOf(S)].amount + Stated(lines, S \ {LineOf(S)})
<1>1. PICK f : SumFrom(lines, f, S)
  BY SumExists
<1>2. Stated(lines, S) = f[S] /\ Stated(lines, S \ {LineOf(S)}) = f[S \ {LineOf(S)}]
  BY <1>1, StatedAgrees
<1> QED BY <1>1, <1>2 DEF SumFrom

Readable(lines, S) == \A i \in S : lines[i].amount \in Nat

LEMMA StatedType ==
  ASSUME NEW lines, NEW S, IsFiniteSet(S), Readable(lines, S)
  PROVE  Stated(lines, S) \in Nat
<1> DEFINE bad == {T \in SUBSET S : Stated(lines, T) \notin Nat}
<1> SUFFICES ASSUME bad # {} PROVE FALSE
  OBVIOUS
<1>0. bad \subseteq SUBSET S
  OBVIOUS
<1>1. PICK T \in bad : \A U \in bad : U \subseteq T => U = T
  <2> HIDE DEF bad
  <2> QED BY <1>0, SmallestSubset
<1>2. T # {}
  <2>1. Stated(lines, T) \notin Nat
    BY <1>1
  <2> QED BY <2>1, StatedOfNone
<1>3. IsFiniteSet(T)
  BY <1>1, FS_Subset
<1>4. LineOf(T) \in T /\ LineOf(T) \in S
  BY <1>1, <1>2, LineOfIsOne
<1>5. lines[LineOf(T)].amount \in Nat
  BY <1>4 DEF Readable
<1>6. Stated(lines, T \ {LineOf(T)}) \in Nat
  BY <1>1, <1>4
<1> QED BY <1>1, <1>2, <1>3, <1>5, <1>6, StatedOfLine

\* It does not matter which line is taken first.
LEMMA StatedOfAny ==
  ASSUME NEW lines, NEW S, IsFiniteSet(S), Readable(lines, S), NEW x \in S
  PROVE  Stated(lines, S) = lines[x].amount + Stated(lines, S \ {x})
<1> DEFINE bad == {T \in SUBSET S : \E y \in T :
                     Stated(lines, T) # lines[y].amount + Stated(lines, T \ {y})}
<1> SUFFICES ASSUME bad # {} PROVE FALSE
  OBVIOUS
<1>0. bad \subseteq SUBSET S
  OBVIOUS
<1>1. PICK T \in bad : \A U \in bad : U \subseteq T => U = T
  <2> HIDE DEF bad
  <2> QED BY <1>0, SmallestSubset
<1>2. PICK y \in T : Stated(lines, T) # lines[y].amount + Stated(lines, T \ {y})
  BY <1>1
<1>3. PICK z \in T : z = LineOf(T)
  BY <1>2, LineOfIsOne
<1>4. IsFiniteSet(T)
  BY <1>1, FS_Subset
<1>5. Stated(lines, T) = lines[z].amount + Stated(lines, T \ {z})
  BY <1>2, <1>3, <1>4, StatedOfLine
<1>6. y # z
  BY <1>2, <1>5
<1>7. T \ {z} \notin bad /\ T \ {y} \notin bad
  BY <1>1, <1>2, <1>3
<1>8. /\ Stated(lines, T \ {z}) = lines[y].amount + Stated(lines, (T \ {z}) \ {y})
      /\ Stated(lines, T \ {y}) = lines[z].amount + Stated(lines, (T \ {y}) \ {z})
  BY <1>1, <1>2, <1>3, <1>6, <1>7
<1>9. (T \ {z}) \ {y} = (T \ {y}) \ {z}
  OBVIOUS
<1>10. lines[y].amount \in Nat /\ lines[z].amount \in Nat
  BY <1>1, <1>2, <1>3 DEF Readable
<1>11. Stated(lines, (T \ {y}) \ {z}) \in Nat
  <2>1. PICK rest \in SUBSET T : rest = (T \ {y}) \ {z}
    OBVIOUS
  <2>2. Readable(lines, rest) /\ IsFiniteSet(rest)
    BY <1>1, <1>4, <2>1, FS_Subset DEF Readable
  <2>3. Stated(lines, rest) \in Nat
    BY <2>2, StatedType
  <2> QED BY <2>1, <2>3
<1> QED BY <1>2, <1>5, <1>8, <1>9, <1>10, <1>11

LEMMA StatedAlike ==
  ASSUME NEW lines, NEW new, NEW S, IsFiniteSet(S),
         \A i \in S : new[i].amount = lines[i].amount
  PROVE  Stated(new, S) = Stated(lines, S)
<1> DEFINE bad == {T \in SUBSET S : Stated(new, T) # Stated(lines, T)}
<1> SUFFICES ASSUME bad # {} PROVE FALSE
  OBVIOUS
<1>0. bad \subseteq SUBSET S
  OBVIOUS
<1>1. PICK T \in bad : \A U \in bad : U \subseteq T => U = T
  <2> HIDE DEF bad
  <2> QED BY <1>0, SmallestSubset
<1>2. T # {}
  BY <1>1, StatedOfNone
<1>3. IsFiniteSet(T) /\ LineOf(T) \in T /\ LineOf(T) \in S
  BY <1>1, <1>2, FS_Subset, LineOfIsOne
<1>4. Stated(new, T \ {LineOf(T)}) = Stated(lines, T \ {LineOf(T)})
  BY <1>1, <1>3
<1> QED BY <1>1, <1>2, <1>3, <1>4, StatedOfLine

LEMMA StatedRaised ==
  ASSUME NEW lines, NEW new, NEW S, IsFiniteSet(S), Readable(lines, S),
         NEW x \in S, NEW short \in Nat, new[x].amount = lines[x].amount + short,
         \A i \in S \ {x} : new[i].amount = lines[i].amount
  PROVE  Stated(new, S) = Stated(lines, S) + short
<1>1. Readable(new, S) /\ IsFiniteSet(S \ {x}) /\ Readable(lines, S \ {x})
  BY FS_Subset DEF Readable
<1>2. Stated(new, S \ {x}) = Stated(lines, S \ {x})
  BY <1>1, StatedAlike
<1>3. /\ Stated(new, S) = new[x].amount + Stated(new, S \ {x})
      /\ Stated(lines, S) = lines[x].amount + Stated(lines, S \ {x})
  BY <1>1, StatedOfAny
<1>4. Stated(lines, S \ {x}) \in Nat /\ lines[x].amount \in Nat
  BY <1>1, StatedType DEF Readable
<1> QED BY <1>2, <1>3, <1>4

LEMMA StatedMore ==
  ASSUME NEW lines, NEW new, NEW S, IsFiniteSet(S), Readable(lines, S), Readable(new, S),
         \A i \in S : new[i].amount >= lines[i].amount
  PROVE  Stated(new, S) >= Stated(lines, S)
<1> DEFINE bad == {T \in SUBSET S : ~(Stated(new, T) >= Stated(lines, T))}
<1> SUFFICES ASSUME bad # {} PROVE FALSE
  OBVIOUS
<1>0. bad \subseteq SUBSET S
  OBVIOUS
<1>1. PICK T \in bad : \A U \in bad : U \subseteq T => U = T
  <2> HIDE DEF bad
  <2> QED BY <1>0, SmallestSubset
<1>2. T # {}
  <2>1. ~(Stated(new, T) >= Stated(lines, T))
    BY <1>1
  <2> QED BY <2>1, StatedOfNone
<1>3. PICK x \in T : x = LineOf(T)
  BY <1>2, LineOfIsOne
<1>4. PICK rest : rest = T \ {x}
  OBVIOUS
<1>5. IsFiniteSet(T) /\ IsFiniteSet(rest) /\ rest \in SUBSET S /\ rest \notin bad /\ x \in S
  BY <1>1, <1>4, FS_Subset
<1>6. Stated(new, rest) >= Stated(lines, rest)
  BY <1>5
<1>7. Readable(new, rest) /\ Readable(lines, rest)
  BY <1>5 DEF Readable
<1>8. Stated(new, rest) \in Nat /\ Stated(lines, rest) \in Nat
  BY <1>5, <1>7, StatedType
<1>9. /\ Stated(new, T) = new[x].amount + Stated(new, rest)
      /\ Stated(lines, T) = lines[x].amount + Stated(lines, rest)
  BY <1>2, <1>3, <1>4, <1>5, StatedOfLine
<1>10. /\ new[x].amount \in Nat /\ lines[x].amount \in Nat
       /\ new[x].amount >= lines[x].amount
  BY <1>5 DEF Readable
<1>11. Stated(new, T) >= Stated(lines, T)
  BY <1>6, <1>8, <1>9, <1>10
<1> QED BY <1>1, <1>11

LEMMA StatedTogether ==
  ASSUME NEW lines, NEW S, NEW T, IsFiniteSet(S), IsFiniteSet(T), S \cap T = {},
         Readable(lines, S \cup T)
  PROVE  Stated(lines, S \cup T) = Stated(lines, S) + Stated(lines, T)
<1> DEFINE bad == {U \in SUBSET T : Stated(lines, S \cup U) # Stated(lines, S) + Stated(lines, U)}
<1> SUFFICES ASSUME bad # {} PROVE FALSE
  BY DEF bad
<1>0. bad \subseteq SUBSET T
  OBVIOUS
<1>1. PICK U \in bad : \A V \in bad : V \subseteq U => V = U
  <2> HIDE DEF bad
  <2> QED BY <1>0, SmallestSubset
<1>2. Stated(lines, S) \in Nat
  <2>1. Readable(lines, S)
    BY DEF Readable
  <2> QED BY <2>1, StatedType
<1>3. U # {}
  <2> SUFFICES ASSUME U = {} PROVE FALSE
    OBVIOUS
  <2>1. S \cup U = S /\ Stated(lines, U) = 0
    BY StatedOfNone
  <2>2. Stated(lines, S \cup U) # Stated(lines, S) + Stated(lines, U)
    BY <1>1
  <2> QED BY <1>2, <2>1, <2>2
<1>4. PICK x : x \in U
  BY <1>3
<1>5. PICK rest : rest = U \ {x}
  OBVIOUS
<1>6. PICK both : both = S \cup U
  OBVIOUS
<1>7. /\ IsFiniteSet(U) /\ IsFiniteSet(both) /\ x \in both /\ both \ {x} = S \cup rest
      /\ Readable(lines, U) /\ Readable(lines, both)
  <2>1. IsFiniteSet(U)
    BY <1>1, FS_Subset
  <2>2. IsFiniteSet(both)
    BY <1>6, <2>1, FS_Union
  <2> QED BY <1>1, <1>4, <1>5, <1>6, <2>1, <2>2 DEF Readable
<1>8. /\ Stated(lines, both) = lines[x].amount + Stated(lines, both \ {x})
      /\ Stated(lines, U) = lines[x].amount + Stated(lines, U \ {x})
  BY <1>4, <1>7, StatedOfAny
<1>9. Stated(lines, S \cup rest) = Stated(lines, S) + Stated(lines, rest)
  <2>1. rest \in SUBSET T /\ rest \subseteq U /\ rest # U
    BY <1>1, <1>4, <1>5
  <2> QED BY <1>1, <2>1
<1>10. lines[x].amount \in Nat /\ Stated(lines, rest) \in Nat
  <2>1. IsFiniteSet(rest) /\ Readable(lines, rest)
    BY <1>5, <1>7, FS_Subset DEF Readable
  <2> QED BY <1>4, <1>7, <2>1, StatedType DEF Readable
<1>11. Stated(lines, both) = Stated(lines, S) + Stated(lines, U)
  <2>1. PICK a \in Nat : a = Stated(lines, S)
    BY <1>2
  <2>2. PICK b \in Nat : b = Stated(lines, rest)
    BY <1>10
  <2>3. PICK n \in Nat : n = lines[x].amount
    BY <1>10
  <2>4. Stated(lines, both) = n + (a + b) /\ Stated(lines, U) = n + b
    BY <1>5, <1>7, <1>8, <1>9, <2>1, <2>2, <2>3
  <2> QED BY <2>1, <2>4
<1> QED BY <1>1, <1>6, <1>11

(* Cost lines: what they name are trips, and only their booking is ever    *)
(* corrected, to that of a trip.                                           *)
LEMMA IdentifyNames ==
  ASSUME NEW id, NEW found, found = IdentifyTransport(id)
  PROVE  /\ found.trip \in Trips \cup {Null}
         /\ found.fix \in {"none", "booking"}
         /\ found.fix # "none" => found.trip \in Trips
<1> DEFINE onDate == {t \in SharingAtLeast(2, id) : {"date", "booking"} \subseteq Agrees(id, t)}
           exact == SharingAtLeast(3, id)
           byTwo == DecideByTwoValues(id, {})
           named == IF id.container = Null THEN onDate
                    ELSE IF exact # {} THEN exact
                    ELSE IF byTwo.fix = "container" THEN {} ELSE byTwo.candidates
<1>1. exact \in SUBSET Trips /\ onDate \in SUBSET Trips /\ SharingAtLeast(2, id) \in SUBSET Trips
  BY DEF SharingAtLeast
<1>2. byTwo.candidates \in SUBSET Trips
  BY <1>1, ByTwoValuesNames
<1>3. byTwo.fix # "none" => byTwo.trip \in Trips /\ byTwo.candidates = {byTwo.trip}
  BY TwoValuesDecide
<1> HIDE DEF onDate, exact, byTwo
<1>4. named \in SUBSET Trips
  BY <1>1, <1>2
<1>5. found = [trip |-> IF Cardinality(named) = 1 THEN Only(named) ELSE Null,
               fix  |-> IF id.container # Null /\ exact = {} /\ byTwo.fix = "booking"
                        THEN "booking" ELSE "none"]
  BY DEF IdentifyTransport, onDate, exact, byTwo
<1>6. Cardinality(named) = 1 => Only(named) \in Trips
  BY <1>4, OneTrip
<1>7. found.fix # "none" => Cardinality(named) = 1
  <2> SUFFICES ASSUME found.fix # "none" PROVE Cardinality(named) = 1
    OBVIOUS
  <2>1. id.container # Null /\ exact = {} /\ byTwo.fix = "booking"
    BY <1>5
  <2>2. named = {byTwo.trip}
    BY <1>3, <2>1
  <2> HIDE DEF named
  <2> QED BY <2>2, FS_Singleton
<1> HIDE DEF named
<1> QED BY <1>5, <1>6, <1>7

LEMMA CostLineNames ==
  ASSUME NEW line \in Line, ~IsTransport(line), NEW d, d = DecideCostLine(line)
  PROVE  /\ d.trip \in Trips \cup {Null}
         /\ d.fix \in {"none", "booking"}
         /\ d.fix # "none" => Only(d.candidates) \in Trips
<1> DEFINE id == line.stated
           held == IF Cardinality(line.charges) = 1 THEN Confirmed[Only(line.charges)] ELSE {}
           confirmed == {u \in held : Live(u)}
           t == Only(confirmed)
           transport == IdentifyTransport(id)
<1>1. /\ transport.trip \in Trips \cup {Null}
      /\ transport.fix \in {"none", "booking"}
      /\ transport.fix # "none" => transport.trip \in Trips
  BY IdentifyNames
<1>2. held \in SUBSET Trips
  <2>1. line.charges \in SUBSET Ccs
    BY DEF Line, IsTransport
  <2>2. CASE Cardinality(line.charges) = 1
    <3>1. line.charges # {}
      BY <2>2, FS_EmptySet
    <3>2. Only(line.charges) \in Ccs
      BY <2>1, <3>1 DEF Only
    <3> QED BY <3>2, ConfirmationsNameTrips
  <2> QED BY <2>2
<1>3. confirmed \in SUBSET Trips
  BY <1>2
<1> HIDE DEF held, transport
<1>4. \/ d = Unresolved({}, "none")
      \/ d = Unresolved({transport.trip} \ {Null}, transport.fix)
      \/ d = Unresolved(confirmed, "none")
      \/ /\ confirmed # {} /\ ~(Cardinality(confirmed) > 1)
         /\ d = Decided("COST_LINE", t, confirmed,
                        IF "booking" \in Agrees(id, t) THEN "none" ELSE "booking")
  BY DEF DecideCostLine, held, transport
<1>5. CASE d = Unresolved({}, "none") \/ d = Unresolved(confirmed, "none")
  BY <1>5 DEF Unresolved, Decided
<1>6. CASE d = Unresolved({transport.trip} \ {Null}, transport.fix)
  <2>1. transport.fix # "none" => Only({transport.trip} \ {Null}) \in Trips
    <3> SUFFICES ASSUME transport.fix # "none" PROVE Only({transport.trip} \ {Null}) \in Trips
      OBVIOUS
    <3>1. {transport.trip} \ {Null} = {transport.trip}
      BY <1>1, NullIsNoValue
    <3> QED BY <1>1, <3>1 DEF Only
  <2> QED BY <1>1, <1>6, <2>1 DEF Unresolved, Decided
<1>7. CASE /\ confirmed # {} /\ ~(Cardinality(confirmed) > 1)
           /\ d = Decided("COST_LINE", t, confirmed,
                          IF "booking" \in Agrees(id, t) THEN "none" ELSE "booking")
  <2>1. t \in Trips
    BY <1>3, <1>7, OneTrip, MoreThanNone
  <2> HIDE DEF confirmed
  <2> QED BY <1>7, <2>1 DEF Decided
<1> QED BY <1>4, <1>5, <1>6, <1>7

LEMMA LinesAreLines ==
  ASSUME NEW lines \in Seq(Line)
  PROVE  /\ Len(lines) \in Nat /\ DOMAIN lines = 1..Len(lines)
         /\ lines \in [DOMAIN lines -> Line]
         /\ IsFiniteSet(DOMAIN lines) /\ DOMAIN lines \subseteq Nat
         /\ \A i \in DOMAIN lines : lines[i] \in Line /\ lines[i].stated \in Identity
<1>1. /\ Len(lines) \in Nat /\ DOMAIN lines = 1..Len(lines)
      /\ lines \in [DOMAIN lines -> Line]
  OBVIOUS
<1>2. IsFiniteSet(1..Len(lines))
  <2>1. PICK n \in Int : n = Len(lines)
    BY <1>1
  <2>2. IsFiniteSet(1..n)
    BY FS_Interval
  <2> QED BY <2>1, <2>2
<1> QED BY <1>1, <1>2 DEF Line

(* Every line is matched to a trip or to none, and corrected to an         *)
(* identity.                                                               *)
LEMMA MatchedTypes ==
  ASSUME trip \in [Trips -> TripRow], NEW lines \in Seq(Line), NEW match, match = Matching(lines)
  PROVE  /\ \A i \in DOMAIN lines : match[i].trip \in Trips \cup {Null}
         /\ CorrectedTo(lines, match) \in [DOMAIN lines -> Identity]
<1> DEFINE new == CorrectedTo(lines, match)
<1>1. ASSUME NEW i \in DOMAIN lines PROVE match[i].trip \in Trips \cup {Null} /\ new[i] \in Identity
  <2>1. lines[i] \in Line /\ lines[i].stated \in Identity
    BY LinesAreLines
  <2>2. new[i] = IF match[i].fix = "none" THEN lines[i].stated
                 ELSE [lines[i].stated EXCEPT ![match[i].fix]
                         = IdentityOf(Only(match[i].candidates))[match[i].fix]]
    BY DEF CorrectedTo
  <2> HIDE DEF new
  <2>3. CASE i \in TransportLines(lines)
    <3>1. match[i].trip \in Trips \cup {Null}
      <4>1. PICK d : d = FoundFor(lines, i)
        OBVIOUS
      <4>2. match[i] = d \/ match[i] = Decided("CONFLICT", Null, {d.trip}, "none")
        BY <2>3, <4>1, TransportsMatched
      <4>3. d.trip \in Trips \cup {Null}
        BY <4>1, FoundDecides
      <4> QED BY <4>2, <4>3 DEF Decided
    <3>2. CASE match[i].fix = "none"
      BY <2>1, <2>2, <3>1, <3>2
    <3>3. CASE match[i].fix # "none"
      <4>1. PICK u : u = match[i].trip
        OBVIOUS
      <4>2. CorrectsTo(lines, i, new[i], u)
        BY <2>3, <3>3, <4>1, CorrectedSays DEF new
      <4> QED BY <3>1, <4>2 DEF CorrectsTo
    <3> QED BY <3>2, <3>3
  <2>4. CASE i \notin TransportLines(lines)
    <3>1. match[i] = DecideCostLine(lines[i]) /\ ~IsTransport(lines[i])
      BY <2>4, ChargesMatched DEF ChargesOnly
    <3>2. PICK d : d = match[i]
      OBVIOUS
    <3>3. /\ d.trip \in Trips \cup {Null}
          /\ d.fix \in {"none", "booking"}
          /\ d.fix # "none" => Only(d.candidates) \in Trips
      BY <2>1, <3>1, <3>2, CostLineNames
    <3>4. CASE d.fix = "none"
      BY <2>1, <2>2, <3>2, <3>3, <3>4
    <3>5. CASE d.fix = "booking"
      <4>1. PICK u \in Trips : u = Only(d.candidates)
        BY <3>3, <3>5
      <4>2. trip[u] \in TripRow
        OBVIOUS
      <4>3. IdentityOf(u)["booking"] \in Bookings \cup {Null}
        BY <4>2 DEF IdentityOf, TripRow
      <4>4. new[i] = [lines[i].stated EXCEPT !["booking"] = IdentityOf(u)["booking"]]
        BY <2>2, <3>2, <3>5, <4>1
      <4> QED BY <2>1, <3>2, <3>3, <4>3, <4>4 DEF Identity
    <3> QED BY <3>3, <3>4, <3>5
  <2> QED BY <2>3, <2>4
<1>2. new = [i \in DOMAIN lines |-> new[i]]
  BY DEF CorrectedTo
<1> HIDE DEF new
<1> QED BY <1>1, <1>2 DEF new

---------------------------------------------------------------------------
(* What the comparison makes of the lines of a transport.                  *)

LEMMA LowestIsOne ==
  ASSUME NEW n \in Nat, NEW S \in SUBSET (1..n), S # {}
  PROVE  Lowest(S) \in S
<1>0. PICK all : all = 1..n
  OBVIOUS
<1> DEFINE upTo == {T \in SUBSET all : \E m \in S : T = 1..m}
<1>1. IsFiniteSet(all)
  BY <1>0, FS_Interval
<1>2. upTo \subseteq SUBSET all /\ upTo # {}
  <2>1. PICK m \in S : TRUE
    OBVIOUS
  <2>2. 1..m \in SUBSET all
    BY <1>0
  <2>3. 1..m \in upTo
    BY <2>2
  <2> QED BY <2>3
<1>3. PICK T \in upTo : \A U \in upTo : U \subseteq T => U = T
  <2> HIDE DEF upTo
  <2> QED BY <1>1, <1>2, SmallestSubset
<1>4. PICK m \in S : T = 1..m
  BY <1>3
<1>5. ASSUME NEW j \in S PROVE m <= j
  <2> SUFFICES ASSUME j < m PROVE FALSE
    OBVIOUS
  <2>1. 1..j \in upTo /\ 1..j \subseteq 1..m
    BY <1>0
  <2>2. 1..j = 1..m
    BY <1>3, <1>4, <2>1
  <2>3. m \in 1..m /\ m \notin 1..j
    OBVIOUS
  <2> QED BY <2>2, <2>3
<1> QED BY <1>4, <1>5 DEF Lowest

\* A request's match of lines: each to a trip, or to none.
IsMatch(lines, match) ==
  /\ DOMAIN match = DOMAIN lines
  /\ \A i \in DOMAIN lines : match[i].trip \in Trips \cup {Null}

LEMMA OwedIs ==
  ASSUME NEW price \in Prices, NEW line \in Line, ~IsTransport(line)
  PROVE  Owed(price, line) \in Nat
<1>1. CASE price.waiting \/ Cardinality(line.charges) # 1
  BY <1>1 DEF Owed
<1>2. CASE ~(price.waiting \/ Cardinality(line.charges) # 1)
  <2>1. line.charges \in SUBSET Ccs
    BY DEF Line, IsTransport
  <2>2. line.charges # {}
    BY <1>2, FS_EmptySet
  <2>3. Only(line.charges) \in Ccs
    BY <2>1, <2>2 DEF Only
  <2>4. Confirms[Only(line.charges)] \in Nat
    BY <2>3, ConfirmationsNameTrips
  <2> QED BY <1>2, <2>4 DEF Owed
<1> QED BY <1>1, <1>2

(* What a transport's own lines and its cost lines are to come to is its   *)
(* price, or more where its confirmations exceed the EK in it.             *)
LEMMA RemainingIs ==
  ASSUME trip \in [Trips -> TripRow], NEW lines \in Seq(Line), NEW match, NEW t \in Trips,
         NEW price, price = trip[t].price, price # Null,
         NEW costs, costs = Charging(lines, match, t),
         NEW owed, owed = AsOwed(price, lines),
         NEW due, due = Remaining(lines, match, t)
  PROVE  /\ price \in Prices /\ price.total \in Nat
         /\ costs \subseteq DOMAIN lines /\ IsFiniteSet(costs)
         /\ \A i \in costs : ~IsTransport(lines[i]) /\ owed[i].amount = Owed(price, lines[i])
         /\ Readable(owed, costs)
         /\ Covered(lines, match, t) = Stated(owed, costs) /\ Stated(owed, costs) \in Nat
         /\ due \in Nat /\ due + Stated(owed, costs) >= price.total
<1>1. price \in Prices
  <2>1. trip[t] \in TripRow
    OBVIOUS
  <2> QED BY <2>1 DEF TripRow
<1>2. price.total \in Nat /\ price.ek \in Nat /\ price.ek <= price.total
  BY <1>1, PricesArePrices
<1>3. costs \subseteq DOMAIN lines /\ \A i \in costs : ~IsTransport(lines[i])
  BY DEF Charging, ChargesOnly
<1>4. IsFiniteSet(costs)
  BY <1>3, LinesAreLines, FS_Subset
<1>5. ASSUME NEW i \in costs
      PROVE  owed[i].amount = Owed(price, lines[i]) /\ owed[i].amount \in Nat
  <2>1. i \in DOMAIN lines /\ lines[i] \in Line /\ ~IsTransport(lines[i])
    BY <1>3, LinesAreLines
  <2>2. PICK n \in Nat : n = Owed(price, lines[i])
    BY <1>1, <2>1, OwedIs
  <2>3. owed[i] = [lines[i] EXCEPT !.amount = n]
    BY <2>1, <2>2 DEF AsOwed
  <2>4. owed[i].amount = n
    BY <2>1, <2>3 DEF Line
  <2> QED BY <2>2, <2>4
<1>6. Readable(owed, costs)
  BY <1>5 DEF Readable
<1>7. Stated(owed, costs) \in Nat
  BY <1>4, <1>6, StatedType
<1>8. Covered(lines, match, t) = Stated(owed, costs)
  BY DEF Covered
<1>9. PICK covered \in Nat : covered = Stated(owed, costs)
  BY <1>7
<1>10. due = price.total - (IF covered < price.ek THEN covered ELSE price.ek)
  BY <1>8, <1>9 DEF Remaining
<1>11. due \in Nat /\ due + covered >= price.total
  BY <1>2, <1>9, <1>10
<1> QED BY <1>1, <1>2, <1>3, <1>4, <1>5, <1>6, <1>7, <1>8, <1>9, <1>11

(* What lines state of a transport is raised to what they are to come to,  *)
(* if at all, on one of the lines that carry it.                           *)
LEMMA OutcomeIs ==
  ASSUME trip \in [Trips -> TripRow], NEW lines \in Seq(Line), NEW match, NEW t \in Trips,
         NEW rows, rows = Carrying(lines, match, t),
         NEW outcome, outcome = ReconcileTripRows(lines, match, t),
         NEW due, due = Remaining(lines, match, t)
  PROVE  \/ outcome.status # "SETTLED" /\ outcome.row = Null
         \/ /\ trip[t].price # Null /\ due \in Nat /\ Readable(lines, rows)
            /\ \/ outcome.row = Null /\ (rows = {} \/ Stated(lines, rows) >= due)
               \/ /\ outcome.status = "SETTLED" /\ outcome.row \in rows
                  /\ due > Stated(lines, rows)
                  /\ outcome.to = lines[outcome.row].amount + (due - Stated(lines, rows))
<1> DEFINE carriers == {i \in rows : lines[i].amount # 0}
           sum == Stated(lines, rows)
           price == trip[t].price
           target == Lowest(IF carriers = {} THEN rows ELSE carriers)
<1>1. rows \subseteq DOMAIN lines /\ IsFiniteSet(rows)
  <2>1. rows \subseteq DOMAIN lines
    BY DEF Carrying
  <2> QED BY <2>1, LinesAreLines, FS_Subset
<1>3. price # Null => due \in Nat
  BY RemainingIs
<1>4. ASSUME \A i \in rows : lines[i].amount # Null PROVE Readable(lines, rows) /\ sum \in Nat
  <2>1. \A i \in rows : lines[i] \in Line
    BY <1>1, LinesAreLines
  <2>2. Readable(lines, rows)
    BY <1>4, <2>1 DEF Readable, Line
  <2> QED BY <1>1, <2>2, StatedType
<1>5. rows # {} => target \in rows
  <2> SUFFICES ASSUME rows # {} PROVE target \in rows
    OBVIOUS
  <2>1. PICK n \in Nat : DOMAIN lines = 1..n
    BY LinesAreLines
  <2>2. PICK S : S = IF carriers = {} THEN rows ELSE carriers
    OBVIOUS
  <2>3. S \in SUBSET (1..n) /\ S # {} /\ S \subseteq rows
    BY <1>1, <2>1, <2>2
  <2>4. Lowest(S) \in S
    BY <2>3, LowestIsOne
  <2> QED BY <2>2, <2>3, <2>4
<1>6. outcome =
        IF price = Null THEN [status |-> "PRICE_UNRELIABLE", row |-> Null]
        ELSE IF ~(\A i \in rows : lines[i].amount # Null) THEN [status |-> "AMOUNT_UNREADABLE", row |-> Null]
        ELSE IF rows = {} \/ due - sum <= 0 THEN [status |-> "SETTLED", row |-> Null]
        ELSE IF Cardinality(carriers) > 1 THEN [status |-> "NOT_DISTRIBUTABLE", row |-> Null]
        ELSE [status |-> "SETTLED", row |-> target, to |-> lines[target].amount + (due - sum)]
  BY DEF ReconcileTripRows
<1> HIDE DEF price, sum, target, carriers
<1>7. CASE price # Null /\ (\A i \in rows : lines[i].amount # Null)
  <2>1. due \in Nat /\ Readable(lines, rows) /\ sum \in Nat
    BY <1>3, <1>4, <1>7
  <2>2. CASE rows = {} \/ due - sum <= 0
    <3>1. outcome = [status |-> "SETTLED", row |-> Null]
      BY <1>6, <1>7, <2>2
    <3> QED BY <1>7, <2>1, <2>2, <3>1 DEF price, sum
  <2>3. CASE ~(rows = {} \/ due - sum <= 0)
    <3>1. target \in rows /\ due > sum
      BY <1>5, <2>1, <2>3
    <3>2. \/ outcome = [status |-> "NOT_DISTRIBUTABLE", row |-> Null]
          \/ outcome = [status |-> "SETTLED", row |-> target, to |-> lines[target].amount + (due - sum)]
      BY <1>6, <1>7, <2>3
    <3> QED BY <1>7, <2>1, <3>1, <3>2 DEF price, sum
  <2> QED BY <2>2, <2>3
<1>8. CASE ~(price # Null /\ (\A i \in rows : lines[i].amount # Null))
  <2>1. \/ outcome = [status |-> "PRICE_UNRELIABLE", row |-> Null]
        \/ outcome = [status |-> "AMOUNT_UNREADABLE", row |-> Null]
    BY <1>6, <1>8
  <2> QED BY <2>1
<1> QED BY <1>7, <1>8

(* The amount of a line is its own, or the one raised for its transport,   *)
(* or what comparing a cost line with its confirmation made of it.         *)
LEMMA PricedLine ==
  ASSUME NEW lines, NEW match, NEW i \in DOMAIN lines,
         NEW t, t = match[i].trip, NEW outcome, outcome = ReconcileTripRows(lines, match, t),
         NEW line, line = Reconcile(lines, match)[i]
  PROVE  /\ \/ line.amount = lines[i].amount
            \/ t # Null /\ outcome.row = i /\ line.amount = outcome.to
            \/ /\ t # Null /\ ChargesOnly(lines, match, i) /\ trip[t].price # Null
               /\ line = ReconcileCostLine(trip[t].price, lines[i])
         /\ t # Null /\ ~ChargesOnly(lines, match, i) =>
              /\ line.status = outcome.status
              /\ line.amount = IF outcome.row = i THEN outcome.to ELSE lines[i].amount
         /\ t # Null /\ ChargesOnly(lines, match, i) /\ trip[t].price # Null =>
              line = ReconcileCostLine(trip[t].price, lines[i])
<1>1. line = ReconcileLine(lines, match, i)
  BY DEF Reconcile
<1>2. CASE t = Null
  <2>1. line = [status |-> "NOT_COMPARED", amount |-> lines[i].amount]
    BY <1>1, <1>2 DEF ReconcileLine
  <2> QED BY <1>2, <2>1
<1>3. CASE t # Null /\ ChargesOnly(lines, match, i) /\ trip[t].price # Null
  <2>1. line = ReconcileCostLine(trip[t].price, lines[i])
    BY <1>1, <1>3 DEF ReconcileLine
  <2> QED BY <1>3, <2>1
<1>4. CASE t # Null /\ ~(ChargesOnly(lines, match, i) /\ trip[t].price # Null)
  <2>1. line = [status |-> outcome.status,
                amount |-> IF outcome.row = i THEN outcome.to ELSE lines[i].amount]
    BY <1>1, <1>4 DEF ReconcileLine
  <2> QED BY <1>4, <2>1
<1> QED BY <1>2, <1>3, <1>4

LEMMA PricedTypes ==
  ASSUME trip \in [Trips -> TripRow], NEW lines \in Seq(Line), NEW match, IsMatch(lines, match),
         NEW priced, priced = Reconcile(lines, match)
  PROVE  /\ DOMAIN priced = DOMAIN lines
         /\ \A i \in DOMAIN lines : priced[i].amount \in Nat \cup {Null}
<1>1. DOMAIN priced = DOMAIN lines
  BY DEF Reconcile
<1>2. ASSUME NEW i \in DOMAIN lines PROVE priced[i].amount \in Nat \cup {Null}
  <2>1. lines[i] \in Line /\ i \in Nat
    BY LinesAreLines
  <2>2. lines[i].amount \in Nat \cup {Null}
    BY <2>1 DEF Line
  <2>3. PICK t : t = match[i].trip
    OBVIOUS
  <2>4. PICK outcome : outcome = ReconcileTripRows(lines, match, t)
    OBVIOUS
  <2>5. \/ priced[i].amount = lines[i].amount
        \/ t # Null /\ outcome.row = i /\ priced[i].amount = outcome.to
        \/ /\ t # Null /\ ChargesOnly(lines, match, i) /\ trip[t].price # Null
           /\ priced[i] = ReconcileCostLine(trip[t].price, lines[i])
    BY <2>3, <2>4, PricedLine
  <2>6. ASSUME t # Null, outcome.row = i PROVE outcome.to \in Nat
    <3>1. t \in Trips
      BY <2>3, <2>6 DEF IsMatch
    <3>2. PICK rows : rows = Carrying(lines, match, t)
      OBVIOUS
    <3>3. outcome.row # Null
      BY <2>1, <2>6, NullIsNoValue
    <3>0. PICK due : due = Remaining(lines, match, t)
      OBVIOUS
    <3>4. /\ due \in Nat /\ Readable(lines, rows)
          /\ outcome.row \in rows
          /\ due > Stated(lines, rows)
          /\ outcome.to = lines[outcome.row].amount + (due - Stated(lines, rows))
      BY <2>4, <3>0, <3>1, <3>2, <3>3, OutcomeIs
    <3>5. rows \subseteq DOMAIN lines
      BY <3>2 DEF Carrying
    <3>6. IsFiniteSet(rows)
      BY <3>5, LinesAreLines, FS_Subset
    <3>7. Stated(lines, rows) \in Nat
      BY <3>4, <3>6, StatedType
    <3>8. lines[outcome.row].amount \in Nat
      BY <3>4 DEF Readable
    <3>10. PICK stated \in Nat : stated = Stated(lines, rows)
      BY <3>7
    <3>11. PICK amount \in Nat : amount = lines[outcome.row].amount
      BY <3>8
    <3>12. due > stated /\ outcome.to = amount + (due - stated)
      BY <3>4, <3>10, <3>11
    <3> QED BY <3>4, <3>12
  <2>7. ASSUME t # Null, ChargesOnly(lines, match, i), trip[t].price # Null
        PROVE  ReconcileCostLine(trip[t].price, lines[i]).amount \in Nat \cup {Null}
    <3>1. PICK price : price = trip[t].price
      OBVIOUS
    <3>2. price \in Prices
      <4>1. t \in Trips
        BY <2>3, <2>7 DEF IsMatch
      <4>2. trip[t] \in TripRow
        BY <4>1
      <4> QED BY <2>7, <3>1, <4>2 DEF TripRow
    <3>3. PICK owed \in Nat : owed = Owed(price, lines[i])
      BY <2>1, <2>7, <3>2, OwedIs DEF ChargesOnly
    <3> QED BY <2>2, <3>1, <3>3 DEF ReconcileCostLine
  <2> QED BY <2>2, <2>5, <2>6, <2>7
<1> QED BY <1>1, <1>2

(* Settled cost lines charge what they are owed.                           *)
LEMMA PricedCosts ==
  ASSUME trip \in [Trips -> TripRow], NEW lines \in Seq(Line), NEW match,
         NEW priced, priced = Reconcile(lines, match), NEW t \in Trips, trip[t].price # Null,
         NEW costs, costs = Charging(lines, match, t),
         \A i \in costs : priced[i].status = "SETTLED"
  PROVE  Readable(priced, costs) /\ Stated(priced, costs) >= Covered(lines, match, t)
<1>1. PICK price : price = trip[t].price
  OBVIOUS
<1>2. PICK owed : owed = AsOwed(price, lines)
  OBVIOUS
<1>3. /\ price \in Prices
      /\ costs \subseteq DOMAIN lines /\ IsFiniteSet(costs)
      /\ \A i \in costs : ~IsTransport(lines[i]) /\ owed[i].amount = Owed(price, lines[i])
      /\ Readable(owed, costs) /\ Covered(lines, match, t) = Stated(owed, costs)
  BY <1>1, <1>2, RemainingIs
<1>4. ASSUME NEW i \in costs
      PROVE  priced[i].amount \in Nat /\ priced[i].amount >= owed[i].amount
  <2>1. i \in DOMAIN lines /\ match[i].trip = t /\ t # Null /\ ChargesOnly(lines, match, i)
    BY NullIsNoValue DEF Charging
  <2>2. priced[i] = ReconcileCostLine(price, lines[i])
    BY <1>1, <2>1, PricedLine
  <2>3. PICK amount : amount = lines[i].amount
    OBVIOUS
  <2>4. PICK due \in Nat : due = Owed(price, lines[i])
    BY <1>3, <2>1, LinesAreLines, OwedIs
  <2>5. amount # Null /\ priced[i].amount = IF due > amount THEN due ELSE amount
    BY <2>2, <2>3, <2>4 DEF ReconcileCostLine
  <2>6. amount \in Nat
    <3>1. lines[i] \in Line
      BY <2>1, LinesAreLines
    <3> QED BY <2>3, <2>5, <3>1 DEF Line
  <2>7. owed[i].amount = due
    BY <1>3, <2>4
  <2> QED BY <2>4, <2>5, <2>6, <2>7
<1>5. Readable(priced, costs)
  BY <1>4 DEF Readable
<1>6. Stated(priced, costs) >= Stated(owed, costs)
  BY <1>3, <1>4, <1>5, StatedMore
<1> QED BY <1>3, <1>5, <1>6

(* Settled lines of its own carry the rest of a transport's price.         *)
LEMMA PricedCovers ==
  ASSUME trip \in [Trips -> TripRow], NEW lines \in Seq(Line), NEW match,
         NEW priced, priced = Reconcile(lines, match), NEW t \in Trips,
         NEW rows, rows = Carrying(lines, match, t), rows # {},
         \A i \in rows : priced[i].status = "SETTLED",
         NEW due, due = Remaining(lines, match, t)
  PROVE  /\ trip[t].price # Null /\ Readable(priced, rows)
         /\ Stated(priced, rows) >= due
<1>1. PICK outcome : outcome = ReconcileTripRows(lines, match, t)
  OBVIOUS
<1>2. /\ rows \subseteq DOMAIN lines /\ IsFiniteSet(rows) /\ rows \subseteq Nat
      /\ \A i \in rows : match[i].trip = t /\ ~ChargesOnly(lines, match, i)
  <2>1. /\ rows \subseteq DOMAIN lines
        /\ \A i \in rows : match[i].trip = t /\ ~ChargesOnly(lines, match, i)
    BY DEF Carrying
  <2>2. IsFiniteSet(rows) /\ rows \subseteq Nat
    BY <2>1, LinesAreLines, FS_Subset
  <2> QED BY <2>1, <2>2
<1>3. ASSUME NEW i \in rows
      PROVE  /\ priced[i].status = outcome.status
             /\ priced[i].amount = IF outcome.row = i THEN outcome.to ELSE lines[i].amount
  <2>1. match[i].trip = t /\ t # Null /\ i \in DOMAIN lines /\ ~ChargesOnly(lines, match, i)
    BY <1>2, NullIsNoValue
  <2> QED BY <1>1, <2>1, PricedLine
<1>4. outcome.status = "SETTLED"
  BY <1>3
<1>5. trip[t].price # Null /\ due \in Nat /\ Readable(lines, rows)
  BY <1>1, <1>4, OutcomeIs
<1>7. Stated(lines, rows) \in Nat
  BY <1>2, <1>5, StatedType
<1>8. CASE outcome.row = Null
  <2>1. Stated(lines, rows) >= due
    BY <1>1, <1>4, <1>8, OutcomeIs, NullIsNoValue, <1>2
  <2>2. \A i \in rows : priced[i].amount = lines[i].amount
    BY <1>2, <1>3, <1>8, NullIsNoValue
  <2>3. Stated(priced, rows) = Stated(lines, rows)
    BY <1>2, <2>2, StatedAlike
  <2> QED BY <1>5, <2>1, <2>2, <2>3 DEF Readable
<1>9. CASE outcome.row # Null
  <2>1. /\ outcome.row \in rows /\ due > Stated(lines, rows)
        /\ outcome.to = lines[outcome.row].amount + (due - Stated(lines, rows))
    BY <1>1, <1>4, <1>9, OutcomeIs
  <2>2. PICK x \in rows : x = outcome.row
    BY <2>1
  <2>3. PICK short \in Nat : short = due - Stated(lines, rows)
    BY <1>5, <1>7, <2>1
  <2>4. /\ priced[x].amount = lines[x].amount + short
        /\ \A i \in rows \ {x} : priced[i].amount = lines[i].amount
    BY <1>3, <2>1, <2>2, <2>3
  <2>5. Stated(priced, rows) = Stated(lines, rows) + short
    BY <1>2, <1>5, <2>4, StatedRaised
  <2>6. Readable(priced, rows)
    BY <1>5, <2>4 DEF Readable
  <2> QED BY <1>5, <1>7, <2>3, <2>5, <2>6
<1> QED BY <1>8, <1>9

---------------------------------------------------------------------------
(* What an examination knows of its lines until it answers.                *)

Typed(job) ==
  LET lines == job.workbook.lines
  IN  /\ job.workbook \in Workbook
      /\ IsMatch(lines, job.match)
      /\ job.corrected \in [DOMAIN lines -> Identity]
      /\ job.phase = "PRICED" =>
           /\ DOMAIN job.priced = DOMAIN lines
           /\ \A i \in DOMAIN lines : job.priced[i].amount \in Nat \cup {Null}

(* Correcting makes no two transport lines the same, and only changes what *)
(* was found to be a trip.                                                 *)
StatesApart(job) ==
  LET lines == job.workbook.lines
      mine(i) == ~ChargesOnly(lines, job.match, i)
  IN  /\ \A i, j \in DOMAIN lines :
           mine(i) /\ mine(j) /\ job.corrected[i] = job.corrected[j] => lines[i].stated = lines[j].stated
      /\ \A i \in DOMAIN lines : mine(i) =>
           IF job.match[i].fix = "none" THEN job.corrected[i] = lines[i].stated
           ELSE job.match[i].trip \in Trips

\* The line states t, or two values do: it was added before, or t lacks the third.
StatesIt(job, i, t) ==
  \/ Says(job.corrected[i], t)
  \/ /\ job.match[i].fix = "none"
     /\ WasAddedByAudit(job.workbook.lines[i]) \/ Lacks(job.corrected[i], t)
     /\ Shares(job.corrected[i], t) /\ ~Says(job.corrected[i], t)

Carries(job, t) ==
  \A i \in DOMAIN job.workbook.lines :
    ~ChargesOnly(job.workbook.lines, job.match, i) =>
      /\ job.match[i].trip = t => Closed(t) /\ StatesIt(job, i, t)
      /\ (/\ job.match[i].fix = "none" /\ Closed(t)
          /\ Says(job.corrected[i], t)) => t \in Named(job.match[i])

Covers(job, t) ==
  LET lines == job.workbook.lines
      rows == Carrying(lines, job.match, t)
      costs == Charging(lines, job.match, t)
  IN  /\ rows # {} /\ (\A i \in rows : job.priced[i].status = "SETTLED") =>
           /\ trip[t].price # Null /\ Readable(job.priced, rows)
           /\ Stated(job.priced, rows) >= Remaining(lines, job.match, t)
      /\ trip[t].price # Null /\ (\A i \in costs : job.priced[i].status = "SETTLED") =>
           /\ Readable(job.priced, costs)
           /\ Stated(job.priced, costs) >= Covered(lines, job.match, t)

Holds(job, changed) ==
  /\ Typed(job) /\ StatesApart(job)
  /\ \A t \in Trips \ changed :
       Carries(job, t) /\ (job.phase = "PRICED" => Covers(job, t))

Held == \A r \in Requests : Examining(r) => Holds(request[r], since[r])

\* Nothing an examination relies on changes of t.
Kept(t) ==
  /\ trip'[t].status = trip[t].status /\ trip'[t].price = trip[t].price
  /\ trip'[t].date = trip[t].date /\ trip'[t].ordered = trip[t].ordered
  /\ trip'[t].booking = trip[t].booking /\ trip'[t].container = trip[t].container

LEMMA StillHolds ==
  ASSUME NEW job, NEW was, NEW now, Holds(job, was), was \subseteq now,
         \A t \in Trips \ now : Kept(t)
  PROVE  Holds(job, now)'
<1>1. Typed(job)' /\ StatesApart(job)'
  BY DEF Holds, Typed, StatesApart, ChargesOnly, IsTransport, IsMatch
<1>2. ASSUME NEW t \in Trips \ now
      PROVE  Carries(job, t)' /\ (job.phase = "PRICED" => Covers(job, t)')
  <2>1. Carries(job, t) /\ (job.phase = "PRICED" => Covers(job, t))
    BY <1>2 DEF Holds
  <2>0. IdentityOf(t)' = IdentityOf(t)
    BY <1>2 DEF Kept, IdentityOf
  <2>2. \A id : Agrees(id, t)' = Agrees(id, t)
    BY <1>2, <2>0 DEF Kept, Agrees, OnDate
  <2>3. /\ \A id : Says(id, t)' <=> Says(id, t)
        /\ \A id : Shares(id, t)' <=> Shares(id, t)
        /\ \A id : Lacks(id, t)' <=> Lacks(id, t)
        /\ Closed(t)' <=> Closed(t)
    BY <1>2, <2>0, <2>2 DEF Kept, Says, Shares, Lacks, Closed
  <2>4. \A i : StatesIt(job, i, t)' <=> StatesIt(job, i, t)
    BY <2>3 DEF StatesIt
  <2>5. Carries(job, t)'
    BY <2>1, <2>3, <2>4 DEF Carries
  <2>6. trip'[t].price = trip[t].price
    BY <1>2 DEF Kept
  <2>7. \A lines, match : /\ Remaining(lines, match, t)' = Remaining(lines, match, t)
                          /\ Covered(lines, match, t)' = Covered(lines, match, t)
    BY <2>6 DEF Remaining, Covered
  <2>8. Covers(job, t) => Covers(job, t)'
    BY <2>6, <2>7 DEF Covers
  <2> QED BY <2>1, <2>5, <2>8
<1> QED BY <1>1, <1>2 DEF Holds

(* As it is matched, ...                                                   *)
LEMMA MatchHolds ==
  ASSUME trip \in [Trips -> TripRow], NEW workbook \in Workbook, NEW job,
         job.workbook = workbook, job.match = Matching(workbook.lines),
         job.corrected = CorrectedTo(workbook.lines, Matching(workbook.lines)),
         job.phase = "MATCHED", NEW changed
  PROVE  Holds(job, changed)
<1>1. PICK lines : lines = workbook.lines
  OBVIOUS
<1>2. PICK match : match = Matching(lines)
  OBVIOUS
<1>3. lines \in Seq(Line)
  BY <1>1 DEF Workbook
<1>4. /\ job.match = match /\ job.corrected = CorrectedTo(lines, match)
      /\ job.workbook.lines = lines
  BY <1>1, <1>2
<1>5. Typed(job)
  <2>1. IsMatch(lines, match) /\ CorrectedTo(lines, match) \in [DOMAIN lines -> Identity]
    BY <1>2, <1>3, MatchedLines, MatchedTypes DEF IsMatch
  <2> QED BY <1>4, <2>1 DEF Typed
<1>6. \A i \in DOMAIN lines : ~ChargesOnly(lines, match, i) <=> i \in TransportLines(lines)
  BY <1>2, MatchedLines
<1>7. StatesApart(job)
  <2>1. ASSUME NEW i \in TransportLines(lines), NEW j \in TransportLines(lines),
               job.corrected[i] = job.corrected[j]
        PROVE  lines[i].stated = lines[j].stated
    <3>1. CorrectedTo(lines, match)[i] = CorrectedTo(lines, match)[j]
      BY <1>4, <2>1
    <3> QED BY <1>2, <1>3, <2>1, <3>1, CorrectedApart
  <2>2. ASSUME NEW i \in TransportLines(lines), match[i].fix # "none"
        PROVE  match[i].trip \in Trips
    <3>1. PICK u : u = match[i].trip
      OBVIOUS
    <3>2. PICK new : new = CorrectedTo(lines, match)[i]
      OBVIOUS
    <3>3. CorrectsTo(lines, i, new, u)
      BY <1>2, <1>3, <2>2, <3>1, <3>2, CorrectedSays
    <3> QED BY <3>1, <3>3 DEF CorrectsTo
  <2>3. ASSUME NEW i \in DOMAIN lines, match[i].fix = "none"
        PROVE  job.corrected[i] = lines[i].stated
    BY <1>4, <2>3 DEF CorrectedTo
  <2> QED BY <1>4, <1>6, <2>1, <2>2, <2>3 DEF StatesApart
<1>8. ASSUME NEW t \in Trips PROVE Carries(job, t)
  <2>1. ASSUME NEW i \in TransportLines(lines)
        PROVE  /\ match[i].trip = t => Closed(t) /\ StatesIt(job, i, t)
               /\ (/\ match[i].fix = "none" /\ Closed(t)
                   /\ Says(job.corrected[i], t)) => t \in Named(match[i])
    <3>1. PICK new : new = CorrectedTo(lines, match)[i]
      OBVIOUS
    <3>2. /\ match[i].trip = t =>
               /\ Closed(t)
               /\ \/ Says(new, t)
                  \/ /\ match[i].fix = "none"
                     /\ WasAddedByAudit(lines[i]) \/ Lacks(new, t)
                     /\ Shares(new, t) /\ ~Says(new, t)
          /\ match[i].fix = "none" /\ Closed(t) /\ Says(new, t) => t \in Named(match[i])
      BY <1>2, <1>3, <3>1, MatchedCarries
    <3> QED BY <1>4, <3>1, <3>2 DEF StatesIt
  <2> QED BY <1>4, <1>6, <2>1 DEF Carries
<1> QED BY <1>5, <1>7, <1>8 DEF Holds

(* ... and as its prices are compared.                                     *)
LEMMA PriceHolds ==
  ASSUME trip \in [Trips -> TripRow], NEW at, NEW changed, Holds(at, changed), NEW job,
         job.workbook = at.workbook, job.match = at.match, job.corrected = at.corrected,
         job.priced = Reconcile(at.workbook.lines, at.match), job.phase = "PRICED"
  PROVE  Holds(job, changed)
<1>1. PICK lines : lines = at.workbook.lines
  OBVIOUS
<1>2. PICK match : match = at.match
  OBVIOUS
<1>3. Typed(at) /\ StatesApart(at) /\ \A t \in Trips \ changed : Carries(at, t)
  BY DEF Holds
<1>4. lines \in Seq(Line) /\ IsMatch(lines, match)
  BY <1>1, <1>2, <1>3 DEF Typed, Workbook
<1>5. Typed(job)
  <2>1. /\ DOMAIN job.priced = DOMAIN lines
        /\ \A i \in DOMAIN lines : job.priced[i].amount \in Nat \cup {Null}
    BY <1>1, <1>2, <1>4, PricedTypes
  <2> QED BY <1>1, <1>2, <1>3, <2>1 DEF Typed
<1>6. StatesApart(job)
  BY <1>3 DEF StatesApart
<1>7. ASSUME NEW t \in Trips, Carries(at, t) PROVE Carries(job, t)
  BY <1>7 DEF Carries, StatesIt
<1>8. ASSUME NEW t \in Trips PROVE Covers(job, t)
  <2>1. PICK rows : rows = Carrying(lines, match, t)
    OBVIOUS
  <2>2. PICK priced : priced = job.priced /\ priced = Reconcile(lines, match)
    BY <1>1, <1>2
  <2>3. PICK due : due = Remaining(lines, match, t)
    OBVIOUS
  <2>4. PICK costs : costs = Charging(lines, match, t)
    OBVIOUS
  <2>5. rows # {} /\ (\A i \in rows : priced[i].status = "SETTLED") =>
          /\ trip[t].price # Null /\ Readable(priced, rows) /\ Stated(priced, rows) >= due
    BY <1>4, <2>1, <2>2, <2>3, PricedCovers
  <2>6. trip[t].price # Null /\ (\A i \in costs : priced[i].status = "SETTLED") =>
          Readable(priced, costs) /\ Stated(priced, costs) >= Covered(lines, match, t)
    BY <1>4, <2>2, <2>4, PricedCosts
  <2> QED BY <1>1, <1>2, <2>1, <2>2, <2>3, <2>4, <2>5, <2>6 DEF Covers
<1> QED BY <1>3, <1>5, <1>6, <1>7, <1>8 DEF Holds

---------------------------------------------------------------------------
(* The corrected workbook.                                                 *)

LEMMA ListedOnce ==
  ASSUME NEW S, IsFiniteSet(S), NEW listed, listed = SetToSeq(S)
  PROVE  /\ Cardinality(S) \in Nat
         /\ listed \in [1..Cardinality(S) -> S]
         /\ \A a, b \in DOMAIN listed : listed[a] = listed[b] => a = b
         /\ \A x \in S : \E k \in DOMAIN listed : listed[k] = x
<1> DEFINE n == Cardinality(S)
<1>1. n \in Nat /\ ExistsBijection(1..n, S)
  BY FS_CardinalityType
<1>2. PICK f : f \in [1..n -> S] /\ IsInjective(f)
  BY <1>1 DEF ExistsBijection, Bijection, Injection
<1>3. listed \in [1..n -> S] /\ IsInjective(listed)
  BY <1>2 DEF SetToSeq
<1>4. IsFiniteSet(1..n) /\ Cardinality(1..n) = n
  BY <1>1, FS_Interval
<1>5. listed \in Surjection(1..n, S)
  <2>1. PICK all : all = 1..n
    OBVIOUS
  <2>2. listed \in Injection(all, S) /\ Cardinality(all) = Cardinality(S)
    BY <1>3, <1>4, <2>1 DEF Injection
  <2>3. listed \in Surjection(all, S)
    BY <2>2, FS_Injection
  <2> QED BY <2>1, <2>3
<1> HIDE DEF n
<1> QED BY <1>1, <1>3, <1>5 DEF n, IsInjective, Surjection

LEMMA IdentityIs ==
  ASSUME trip \in [Trips -> TripRow], NEW t \in Trips
  PROVE  IdentityOf(t) \in Identity
<1>1. trip[t] \in TripRow
  OBVIOUS
<1> QED BY <1>1 DEF IdentityOf, Identity, TripRow

LEMMA AddedLineIsLine ==
  ASSUME trip \in [Trips -> TripRow], NEW t \in Trips, NEW lines \in Seq(Line), NEW match,
         NEW line, line = AddedLine(lines, match, t)
  PROVE  /\ line \in Line /\ line.stated = IdentityOf(t) /\ line.mark.trip = t
         /\ trip[t].price # Null => line.amount = Remaining(lines, match, t)
<1>1. PICK amount : amount = IF trip[t].price = Null THEN 0 ELSE Remaining(lines, match, t)
  OBVIOUS
<1>2. amount \in Nat
  <2>1. trip[t].price # Null => Remaining(lines, match, t) \in Nat
    BY RemainingIs
  <2> QED BY <1>1, <2>1
<1>3. PICK id \in Identity : id = IdentityOf(t)
  BY IdentityIs
<1>4. line = [stated |-> id, charges |-> Null, amount |-> amount,
              mark |-> [trip |-> t, stated |-> id]]
  BY <1>1, <1>3 DEF AddedLine
<1>5. [trip |-> t, stated |-> id] \in Mark
  BY DEF Mark
<1>6. line \in Line
  BY <1>2, <1>4, <1>5 DEF Line
<1> QED BY <1>1, <1>3, <1>4, <1>6

(* It has a line for each line of the workbook, with what was corrected    *)
(* and compared, and after them one for each transport added.              *)
IsCorrection(job, new, adds) ==
  LET old == job.workbook.lines
      added == DOMAIN new \ DOMAIN old
  IN  /\ \A i \in DOMAIN old :
           /\ new[i].stated = job.corrected[i] /\ new[i].amount = job.priced[i].amount
           /\ new[i].mark = old[i].mark
      /\ \A i \in added : \E t \in adds : new[i] = AddedLine(old, job.match, t)
      /\ \A t \in adds : \E i \in added : new[i] = AddedLine(old, job.match, t)
      /\ \A i, j \in added : new[i].mark.trip = new[j].mark.trip => i = j

LEMMA CorrectionIs ==
  ASSUME trip \in [Trips -> TripRow], NEW r, NEW job, job = request[r], Typed(job),
         job.phase = "PRICED",
         NEW old, old = job.workbook.lines, NEW new, new = Correction(r).lines,
         NEW adds, adds = Added(job.workbook, job.match)
  PROVE  Correction(r) \in Workbook /\ IsCorrection(job, new, adds)
<1> DEFINE corrected == [i \in DOMAIN old |->
                          [old[i] EXCEPT !.stated = job.corrected[i], !.amount = job.priced[i].amount]]
           listed == SetToSeq(adds)
           tail == [k \in DOMAIN listed |-> AddedLine(old, job.match, listed[k])]
<1>1. /\ Correction(r) = [job.workbook EXCEPT !.lines = corrected \o tail]
      /\ new = corrected \o tail
  <2>1. Correction(r) = [job.workbook EXCEPT !.lines = corrected \o tail]
    BY DEF Correction
  <2>2. job.workbook \in Workbook
    BY DEF Typed
  <2> HIDE DEF corrected, tail
  <2>3. Correction(r).lines = corrected \o tail
    BY <2>1, <2>2 DEF Workbook
  <2> QED BY <2>1, <2>3
<1>2. PICK n \in Nat : DOMAIN old = 1..n
  <2>1. old \in Seq(Line)
    BY DEF Typed, Workbook
  <2> QED BY <2>1, LinesAreLines
<1>3. ASSUME NEW i \in 1..n
      PROVE  /\ corrected[i] \in Line
             /\ corrected[i].stated = job.corrected[i] /\ corrected[i].amount = job.priced[i].amount
             /\ corrected[i].mark = old[i].mark
  <2>1. old[i] \in Line
    BY <1>2 DEF Typed, Workbook
  <2>2. job.corrected[i] \in Identity /\ job.priced[i].amount \in Nat \cup {Null}
    BY <1>2 DEF Typed
  <2>3. PICK line \in Line : line = old[i]
    BY <2>1
  <2>4. PICK id \in Identity : id = job.corrected[i]
    BY <2>2
  <2>5. PICK amount \in Nat \cup {Null} : amount = job.priced[i].amount
    BY <2>2
  <2>6. corrected[i] = [line EXCEPT !.stated = id, !.amount = amount]
    BY <1>2, <2>3, <2>4, <2>5
  <2> HIDE DEF corrected
  <2>7. line = [stated |-> line.stated, charges |-> line.charges, amount |-> line.amount,
                mark |-> line.mark]
    BY DEF Line
  <2>8. corrected[i] = [stated |-> id, charges |-> line.charges, amount |-> amount,
                        mark |-> line.mark]
    BY <2>6, <2>7
  <2>9. line.charges \in {Null} \cup SUBSET Ccs /\ line.mark \in Mark \cup {Null}
    BY DEF Line
  <2>10. corrected[i] \in Line
    BY <2>8, <2>9 DEF Line
  <2> QED BY <2>3, <2>4, <2>5, <2>8, <2>10
<1>4. adds \in SUBSET Trips /\ IsFiniteSet(adds)
  <2>1. adds \in SUBSET Trips
    BY DEF Added, Missing
  <2> QED BY <2>1, SetsOfTripsAreFinite
<1>5. PICK m \in Nat : m = Cardinality(adds)
  BY <1>4, ListedOnce
<1>6. /\ listed \in [1..m -> adds]
      /\ \A a, b \in 1..m : listed[a] = listed[b] => a = b
      /\ \A t \in adds : \E k \in 1..m : listed[k] = t
  <2>1. PICK f : f = listed
    OBVIOUS
  <2>2. /\ f \in [1..Cardinality(adds) -> adds]
        /\ \A a, b \in DOMAIN f : f[a] = f[b] => a = b
        /\ \A x \in adds : \E k \in DOMAIN f : f[k] = x
    BY <1>4, <2>1, ListedOnce
  <2>3. f \in [1..m -> adds] /\ DOMAIN f = 1..m
    BY <1>5, <2>2
  <2> HIDE DEF listed
  <2> QED BY <2>1, <2>2, <2>3
<1>7. ASSUME NEW k \in 1..m
      PROVE  /\ tail[k] = AddedLine(old, job.match, listed[k]) /\ listed[k] \in adds
             /\ tail[k] \in Line /\ tail[k].mark.trip = listed[k]
  <2>1. listed[k] \in adds /\ k \in DOMAIN listed
    BY <1>6
  <2>2. tail[k] = AddedLine(old, job.match, listed[k])
    BY <2>1
  <2>3. PICK t \in Trips : t = listed[k]
    BY <1>4, <2>1
  <2> HIDE DEF tail, listed
  <2>4. PICK line : line = AddedLine(old, job.match, t)
    OBVIOUS
  <2>5. PICK match : match = job.match
    OBVIOUS
  <2>6. old \in Seq(Line)
    BY DEF Typed, Workbook
  <2>7. line \in Line /\ line.mark.trip = t
    BY <2>4, <2>5, <2>6, AddedLineIsLine
  <2> QED BY <2>1, <2>2, <2>3, <2>4, <2>7
<1>8. corrected \in Seq(Line) /\ Len(corrected) = n
  <2>1. corrected = [i \in 1..n |-> corrected[i]]
    BY <1>2
  <2> HIDE DEF corrected
  <2>2. corrected \in [1..n -> Line]
    BY <1>3, <2>1
  <2> QED BY <2>2
<1>9. tail \in Seq(Line) /\ Len(tail) = m
  <2>1. tail = [k \in 1..m |-> tail[k]]
    BY <1>6
  <2> HIDE DEF tail
  <2>2. tail \in [1..m -> Line]
    BY <1>7, <2>1
  <2> QED BY <2>2
<1> HIDE DEF corrected, tail, listed
<1>10. /\ new \in Seq(Line) /\ DOMAIN new = 1..(n + m)
       /\ \A i \in 1..n : new[i] = corrected[i]
       /\ \A k \in 1..m : new[n + k] = tail[k]
  BY <1>1, <1>8, <1>9
<1>11. Correction(r) \in Workbook
  <2>1. job.workbook \in Workbook
    BY DEF Typed
  <2> QED BY <1>1, <1>10, <2>1 DEF Workbook
<1>12. ASSUME NEW i \in DOMAIN new \ DOMAIN old
       PROVE  /\ i - n \in 1..m
              /\ new[i] = AddedLine(old, job.match, listed[i - n]) /\ listed[i - n] \in adds
              /\ new[i].mark.trip = listed[i - n]
  <2>1. i - n \in 1..m /\ n + (i - n) = i
    BY <1>2, <1>10
  <2>2. PICK k \in 1..m : k = i - n
    BY <2>1
  <2>3. new[i] = tail[k]
    BY <1>10, <2>1, <2>2
  <2> QED BY <1>7, <2>2, <2>3
<1>13. ASSUME NEW t \in adds PROVE \E i \in DOMAIN new \ DOMAIN old : new[i] = AddedLine(old, job.match, t)
  <2>1. PICK k \in 1..m : listed[k] = t
    BY <1>6
  <2>2. n + k \in DOMAIN new \ DOMAIN old
    BY <1>2, <1>10
  <2>3. new[n + k] = AddedLine(old, job.match, t)
    BY <1>7, <1>10, <2>1
  <2> QED BY <2>2, <2>3
<1>14. ASSUME NEW i \in DOMAIN new \ DOMAIN old, NEW j \in DOMAIN new \ DOMAIN old,
              new[i].mark.trip = new[j].mark.trip
       PROVE  i = j
  <2>1. i - n \in 1..m /\ j - n \in 1..m /\ listed[i - n] = listed[j - n]
    BY <1>12, <1>14
  <2>2. i - n = j - n
    BY <1>6, <2>1
  <2>3. i \in Int /\ j \in Int
    BY <1>10
  <2> QED BY <2>2, <2>3
<1>15. ASSUME NEW i \in DOMAIN new \ DOMAIN old PROVE \E t \in adds : new[i] = AddedLine(old, job.match, t)
  BY <1>12
<1>16. ASSUME NEW i \in DOMAIN old
       PROVE  /\ new[i].stated = job.corrected[i] /\ new[i].amount = job.priced[i].amount
              /\ new[i].mark = old[i].mark
  BY <1>2, <1>3, <1>10
<1> QED BY <1>11, <1>13, <1>14, <1>15, <1>16 DEF IsCorrection

LEMMA InitHeld == Init => TypeOK /\ Held
<1> SUFFICES ASSUME Init PROVE TypeOK /\ Held
  OBVIOUS
<1>1. /\ request = [r \in Requests |-> Idle] /\ since = [r \in Requests |-> {}]
      /\ settled = [t \in Trips |-> 0] /\ released = [t \in Trips |-> 0] /\ edits = 0
  BY DEF Init
<1>2. Idle.phase = "IDLE"
  BY DEF Idle
<1>3. Held
  BY <1>1, <1>2 DEF Held, Examining
<1>4. trip \in [Trips -> TripRow]
  BY TripsAreTrips DEF Init
<1>5. \A f \in files : f \in Workbook
  BY InvoicesAreWorkbooks DEF Init
<1> QED BY <1>1, <1>2, <1>3, <1>4, <1>5, EditsAreBounded DEF TypeOK

(* One request's step: the others' examinations are what they were. *)
LEMMA OneHolds ==
  ASSUME IInv, TypeOK, Held, NEW r \in Requests, NEW job,
         request' = [request EXCEPT ![r] = job],
         \A t \in Trips : Kept(t),
         since' = [since EXCEPT ![r] = {}] \/ since' = since,
         job.phase \in {"MATCHED", "PRICED"} => Holds(job, since[r]) /\ since' = since
  PROVE  Held'
<1>1. /\ \A q \in Requests : request'[q] = IF q = r THEN job ELSE request[q]
      /\ \A q \in Requests : q # r => since'[q] = since[q]
  BY DEF IInv, TypeOK
<1>2. ASSUME NEW q \in Requests, Examining(q)' PROVE Holds(request[q], since[q])'
  <2>1. PICK held : held = request'[q]
    OBVIOUS
  <2>2. PICK was : was = since[q]
    OBVIOUS
  <2>3. Holds(held, was) /\ since'[q] = was
    <3>1. CASE q = r
      BY <1>1, <1>2, <2>1, <2>2, <3>1 DEF Examining
    <3>2. CASE q # r
      <4>1. held = request[q] /\ Examining(q) /\ since'[q] = since[q]
        BY <1>1, <1>2, <2>1, <3>2 DEF Examining
      <4> QED BY <2>2, <4>1 DEF Held
    <3> QED BY <3>1, <3>2
  <2>4. Holds(held, was)'
    BY <2>3, StillHolds
  <2>5. held = request'[q] /\ was = since'[q]
    BY <2>1, <2>3
  <2>6. Typed(request[q])'
    BY <2>4, <2>5 DEF Holds, Typed
  <2>7. StatesApart(request[q])'
    BY <2>4, <2>5 DEF Holds, StatesApart
  <2>8. ASSUME NEW t \in Trips, t \notin since'[q]
        PROVE  /\ Carries(request[q], t)'
               /\ (request'[q].phase = "PRICED" => Covers(request[q], t)')
    <3>1. Carries(held, t)' /\ (held.phase = "PRICED" => Covers(held, t)')
      BY <2>4, <2>5, <2>8 DEF Holds
    <3>2. Carries(request[q], t)'
      BY <2>5, <3>1 DEF Carries, StatesIt
    <3>3. request'[q].phase = "PRICED" => Covers(request[q], t)'
      BY <2>5, <3>1 DEF Covers
    <3> QED BY <3>2, <3>3
  <2> QED BY <2>6, <2>7, <2>8 DEF Holds
<1> QED BY <1>2 DEF Held

LEMMA OneTyped ==
  ASSUME IInv, TypeOK, IInv', NEW r \in Requests, NEW job,
         request' = [request EXCEPT ![r] = job],
         job.phase \in {"IDLE", "MATCHED", "PRICED", "ACCEPTED"},
         since' = [since EXCEPT ![r] = {}] \/ since' = since,
         \A f \in files' : f \in Workbook,
         UNCHANGED <<released, edits>>
  PROVE  TypeOK'
<1>1. \A q \in Requests : request'[q] = IF q = r THEN job ELSE request[q]
  BY DEF IInv
<1>2. \A q \in Requests : request'[q].phase \in {"IDLE", "MATCHED", "PRICED", "ACCEPTED"}
  BY <1>1 DEF TypeOK
<1>3. since' \in [Requests -> SUBSET Trips]
  BY DEF TypeOK
<1>4. trip' \in [Trips -> TripRow] /\ settled' \in [Trips -> Nat]
  BY DEF IInv
<1> QED BY <1>2, <1>3, <1>4 DEF TypeOK, Workbook, Line, Mark, Identity

LEMMA SameKept == trip' = trip => \A t : Kept(t)
BY DEF Kept

LEMMA AuditsHold ==
  ASSUME IInv, TypeOK, Held, NEW r \in Requests, Audits(r)
  PROVE  TypeOK' /\ Held'
<1>0. /\ IInv' /\ trip \in [Trips -> TripRow] /\ \A f \in files : f \in Workbook
      /\ trip' = trip => \A t \in Trips : Kept(t)
  BY AuditsStep, SameKept DEF TypeOK
<1>1. ASSUME NEW workbook \in files, Match(r, workbook)
      PROVE  TypeOK' /\ Held'
  <2> DEFINE job == Matched(workbook)
  <2>1. /\ request' = [request EXCEPT ![r] = job] /\ job.phase = "MATCHED"
        /\ job.workbook = workbook /\ job.match = Matching(workbook.lines)
        /\ job.corrected = CorrectedTo(workbook.lines, Matching(workbook.lines))
    BY <1>1, MatchSets DEF Matched
  <2>2. UNCHANGED <<trip, since, files, released, edits>>
    BY <1>1 DEF Match
  <2> HIDE DEF job
  <2>3. Holds(job, since[r])
    <3>1. workbook \in Workbook
      BY <1>0
    <3> QED BY <1>0, <2>1, <3>1, MatchHolds
  <2>4. Held'
    BY <1>0, <2>1, <2>2, <2>3, OneHolds
  <2>5. \A f \in files' : f \in Workbook
    BY <1>0, <2>2
  <2> QED BY <1>0, <2>1, <2>2, <2>4, <2>5, OneTyped
<1>2. CASE Price(r)
  <2> DEFINE at == request[r]
             job == [phase |-> "PRICED", workbook |-> at.workbook, match |-> at.match,
                     priced |-> Reconcile(at.workbook.lines, at.match),
                     corrected |-> at.corrected, paid |-> at.paid]
  <2>1. /\ request' = [request EXCEPT ![r] = job] /\ job.phase = "PRICED"
        /\ job.workbook = at.workbook /\ job.match = at.match /\ job.corrected = at.corrected
        /\ job.priced = Reconcile(at.workbook.lines, at.match)
    BY <1>2, Zenon DEF Price
  <2>2. UNCHANGED <<trip, since, files, released, edits>> /\ Examining(r)
    BY <1>2 DEF Price, Examining
  <2> HIDE DEF job
  <2>3. Holds(job, since[r])
    <3>1. Holds(at, since[r])
      BY <2>2 DEF Held
    <3>2. PICK found : found = at
      OBVIOUS
    <3>3. PICK changed : changed = since[r]
      OBVIOUS
    <3> HIDE DEF at
    <3>4. Holds(found, changed)
      BY <3>1, <3>2, <3>3
    <3>5. Holds(job, changed)
      BY <1>0, <2>1, <3>2, <3>4, PriceHolds
    <3> QED BY <3>3, <3>5
  <2>4. Held'
    BY <1>0, <2>1, <2>2, <2>3, OneHolds
  <2>5. \A f \in files' : f \in Workbook
    BY <1>0, <2>2
  <2> QED BY <1>0, <2>1, <2>2, <2>4, <2>5, OneTyped
<1>3. ASSUME NEW job, request' = [request EXCEPT ![r] = job], job.phase \in {"IDLE", "ACCEPTED"},
             since' = [since EXCEPT ![r] = {}] \/ since' = since,
             \A t \in Trips : Kept(t),
             \A f \in files' : f \in Workbook, UNCHANGED <<released, edits>>
      PROVE  TypeOK' /\ Held'
  <2>1. Held'
    BY <1>3, OneHolds
  <2>2. TypeOK'
    BY <1>0, <1>3, OneTyped
  <2> QED BY <2>1, <2>2
<1>4. CASE ReturnCorrection(r)
  <2>1. /\ request' = [request EXCEPT ![r] = Idle] /\ since' = [since EXCEPT ![r] = {}]
        /\ UNCHANGED <<trip, released, edits>> /\ request[r].phase = "PRICED"
        /\ \A f \in files' : f \in files \/ f = Correction(r)
    BY <1>4 DEF ReturnCorrection
  <2>2. Correction(r) \in Workbook
    <3>1. PICK job : job = request[r]
      OBVIOUS
    <3>2. Typed(job) /\ job.phase = "PRICED"
      BY <2>1, <3>1 DEF Held, Holds, Examining
    <3>3. PICK old : old = job.workbook.lines
      OBVIOUS
    <3>4. PICK new : new = Correction(r).lines
      OBVIOUS
    <3>5. PICK adds : adds = Added(job.workbook, job.match)
      OBVIOUS
    <3> QED BY <1>0, <3>1, <3>2, <3>3, <3>4, <3>5, CorrectionIs
  <2>3. \A f \in files' : f \in Workbook
    BY <1>0, <2>1, <2>2
  <2> QED BY <1>0, <1>3, <2>1, <2>3 DEF Idle
<1>5. ASSUME NEW chosen, RefusePayment(r, chosen) PROVE TypeOK' /\ Held'
  <2>1. /\ request' = [request EXCEPT ![r] = Idle] /\ since' = [since EXCEPT ![r] = {}]
        /\ UNCHANGED <<trip, files, released, edits>>
    BY <1>5 DEF RefusePayment
  <2> QED BY <1>0, <1>3, <2>1 DEF Idle
<1>6. ASSUME NEW chosen, AcceptPayment(r, chosen) PROVE TypeOK' /\ Held'
  <2> DEFINE job == [phase |-> "ACCEPTED", pay |-> chosen \ request[r].paid]
  <2>1. /\ request' = [request EXCEPT ![r] = job] /\ since' = [since EXCEPT ![r] = {}]
        /\ UNCHANGED <<trip, files, released, edits>>
    BY <1>6 DEF AcceptPayment
  <2>2. job.phase = "ACCEPTED"
    OBVIOUS
  <2> HIDE DEF job
  <2> QED BY <1>0, <1>3, <2>1, <2>2
<1>7. CASE Settle(r)
  <2>1. request' = [request EXCEPT ![r] = Idle] /\ UNCHANGED <<files, since, released, edits>>
    BY <1>7 DEF Settle
  <2>2. PICK pay : trip' = [t \in Trips |-> [trip[t] EXCEPT !.paid = @ \/ t \in pay]]
    BY <1>7 DEF Settle
  <2>3. \A t \in Trips : Kept(t)
    BY <1>0, <2>2 DEF TripRow, Kept
  <2> QED BY <1>0, <1>3, <2>1, <2>3 DEF Idle
<1> QED BY <1>1, <1>2, <1>4, <1>5, <1>6, <1>7 DEF Audits, Asked

LEMMA OperatesHold ==
  ASSUME IInv, TypeOK, Held, NEW t \in Trips, Operates(t)
  PROVE  TypeOK' /\ Held'
<1>1. PICK row : Change(t, row)
  BY OperatesChanges
<1>2. /\ edits < MaxEdits /\ edits' = edits + 1 /\ trip' = [trip EXCEPT ![t] = row]
      /\ since' = [r \in Requests |->
           IF request[r].phase \in {"MATCHED", "PRICED"} THEN since[r] \cup {t} ELSE since[r]]
      /\ UNCHANGED <<files, request, settled>>
  BY <1>1 DEF Change
<1>3. IInv'
  BY OperatesStep
<1>4. released' = released \/ \E n \in {0, 1} : released' = [released EXCEPT ![t] = @ + n]
  <2>1. ASSUME NEW paid \in BOOLEAN, ChangePayment(t, paid)
        PROVE  \E n \in {0, 1} : released' = [released EXCEPT ![t] = @ + n]
    <3>1. released' = [released EXCEPT ![t] = @ + IF paid THEN 0 ELSE 1]
      BY <2>1 DEF ChangePayment
    <3> QED BY <3>1
  <2> QED BY <2>1 DEF Operates, Plan, Reprice, ChangeStatus
<1>5. /\ edits \in Nat /\ MaxEdits \in Nat
      /\ edits' \in 0..MaxEdits /\ released' \in [Trips -> 0..edits']
  <2>1. edits \in 0..MaxEdits /\ released \in [Trips -> 0..edits]
    BY DEF TypeOK
  <2>2. edits' \in 0..MaxEdits /\ edits \in Nat
    BY <1>2, <2>1, EditsAreBounded
  <2>3. \A u \in Trips : released[u] \in 0..edits' /\ released[u] + 1 \in 0..edits'
    BY <1>2, <2>1, <2>2
  <2> QED BY <1>4, <2>1, <2>2, <2>3, EditsAreBounded
<1>6. \A u \in Trips : u # t => Kept(u)
  BY <1>2 DEF TypeOK, Kept
<1>7. ASSUME NEW r \in Requests, Examining(r)' PROVE Holds(request[r], since[r])'
  <2>1. PICK held : held = request[r] /\ held = request'[r]
    BY <1>2
  <2>2. PICK was : was = since[r]
    OBVIOUS
  <2>3. PICK now : now = was \cup {t}
    OBVIOUS
  <2>4. Examining(r) /\ since'[r] = now
    BY <1>2, <1>7, <2>2, <2>3 DEF Examining
  <2>5. Holds(held, was)
    BY <2>1, <2>2, <2>4 DEF Held
  <2>6. Holds(held, now)'
    BY <1>6, <2>3, <2>5, StillHolds
  <2> QED BY <2>1, <2>4, <2>6 DEF Holds, Typed, StatesApart, Carries, StatesIt, Covers
<1>8. Held'
  BY <1>7 DEF Held
<1>9. since' \in [Requests -> SUBSET Trips]
  BY <1>2 DEF TypeOK
<1>10. trip' \in [Trips -> TripRow] /\ settled' \in [Trips -> Nat]
  BY <1>3 DEF IInv
<1>11. (\A f \in files' : f \in Workbook)
       /\ \A r \in Requests : request'[r].phase \in {"IDLE", "MATCHED", "PRICED", "ACCEPTED"}
  BY <1>2 DEF TypeOK
<1> QED BY <1>5, <1>8, <1>9, <1>10, <1>11 DEF TypeOK

LEMMA RetypesHold ==
  ASSUME IInv, TypeOK, Held, Retypes
  PROVE  TypeOK' /\ Held'
<1>0. PICK workbook \in files :
        \E i \in DOMAIN workbook.lines : \E t \in Trips : Retype(workbook, i, IdentityOf(t))
  BY DEF Retypes
<1>1. PICK i \in DOMAIN workbook.lines, t \in Trips : Retype(workbook, i, IdentityOf(t))
  BY <1>0
<1>2. PICK id : id = IdentityOf(t)
  OBVIOUS
<1>3. /\ edits < MaxEdits /\ edits' = edits + 1
      /\ files' = files \cup {[workbook EXCEPT !.lines[i].stated = id]}
      /\ UNCHANGED <<trip, request, since, settled, released>>
  BY <1>1, <1>2 DEF Retype
<1>4. [workbook EXCEPT !.lines[i].stated = id] \in Workbook
  <2>1. id \in Identity
    BY <1>2, IdentityIs DEF TypeOK
  <2>2. workbook \in Workbook
    BY DEF TypeOK
  <2>3. PICK lines \in Seq(Line) : lines = workbook.lines
    BY <2>2 DEF Workbook
  <2>4. PICK line \in Line : line = lines[i]
    BY <2>3
  <2>5. PICK typed \in Line : typed = [line EXCEPT !.stated = id]
    BY <2>1 DEF Line
  <2>6. PICK retyped \in Seq(Line) : retyped = [lines EXCEPT ![i] = typed]
    <3>1. PICK n \in Nat : DOMAIN lines = 1..n /\ lines \in [1..n -> Line]
      BY LinesAreLines
    <3>2. i \in 1..n
      BY <1>1, <2>3, <3>1
    <3>3. PICK new : new = [lines EXCEPT ![i] = typed]
      OBVIOUS
    <3>4. new \in [1..n -> Line]
      BY <3>1, <3>2, <3>3
    <3>5. new \in Seq(Line)
      BY <3>4
    <3> QED BY <3>3, <3>5
  <2>7. [workbook EXCEPT !.lines[i].stated = id] = [workbook EXCEPT !.lines = retyped]
    BY <2>3, <2>4, <2>5, <2>6
  <2> QED BY <2>2, <2>6, <2>7 DEF Workbook
<1>5. \A f \in files' : f \in Workbook
  BY <1>3, <1>4 DEF TypeOK
<1>6. edits' \in 0..MaxEdits /\ released' \in [Trips -> 0..edits']
  BY <1>3, EditsAreBounded DEF TypeOK
<1>7. \A u : Kept(u)
  BY <1>3, SameKept
<1>8. ASSUME NEW r \in Requests, Examining(r)' PROVE Holds(request[r], since[r])'
  <2>1. PICK held : held = request[r] /\ held = request'[r]
    BY <1>3
  <2>2. PICK was : was = since[r] /\ was = since'[r]
    BY <1>3
  <2>3. Holds(held, was)
    BY <1>8, <2>1, <2>2 DEF Held, Examining
  <2>4. Holds(held, was)'
    BY <1>7, <2>3, StillHolds
  <2> QED BY <2>1, <2>2, <2>4 DEF Holds, Typed, StatesApart, Carries, StatesIt, Covers
<1>9. Held'
  BY <1>8 DEF Held
<1> QED BY <1>3, <1>5, <1>6, <1>9 DEF TypeOK

LEMMA HeldStep == IInv /\ TypeOK /\ Held /\ [Next]_vars => TypeOK' /\ Held'
<1> SUFFICES ASSUME IInv, TypeOK, Held, [Next]_vars PROVE TypeOK' /\ Held'
  OBVIOUS
<1>1. ASSUME NEW r \in Requests, Audits(r) PROVE TypeOK' /\ Held'
  BY <1>1, AuditsHold
<1>2. ASSUME NEW t \in Trips, Operates(t) PROVE TypeOK' /\ Held'
  BY <1>2, OperatesHold
<1>3. CASE Retypes
  BY <1>3, RetypesHold
<1>4. CASE UNCHANGED vars
  <2>1. UNCHANGED <<trip, files, request, since, settled, released, edits>>
    BY <1>4 DEF vars
  <2>2. TypeOK'
    BY <2>1 DEF TypeOK
  <2>3. \A t : Kept(t)
    BY <2>1, SameKept
  <2>4. ASSUME NEW r \in Requests, Examining(r)' PROVE Holds(request[r], since[r])'
    <3>1. PICK held : held = request[r] /\ held = request'[r]
      BY <2>1
    <3>2. PICK was : was = since[r] /\ was = since'[r]
      BY <2>1
    <3>3. Holds(held, was)
      BY <2>4, <3>1, <3>2 DEF Held, Examining
    <3>4. Holds(held, was)'
      BY <2>3, <3>3, StillHolds
    <3> QED BY <3>1, <3>2, <3>4 DEF Holds, Typed, StatesApart, Carries, StatesIt, Covers
  <2> QED BY <2>2, <2>4 DEF Held
<1> QED BY <1>1, <1>2, <1>3, <1>4 DEF Next

LEMMA AlwaysHeld == Spec => [](IInv /\ TypeOK /\ Held)
BY InitInvariant, StepInvariant, InitHeld, HeldStep, PTL DEF Spec

(***************************************************************************)
(* The trips, the workbooks in circulation and the counts have their       *)
(* types, whatever is uploaded, corrected, retyped and uploaded again.     *)
(***************************************************************************)
THEOREM SpecTypeOK == Spec => []TypeOK
BY AlwaysHeld, PTL

LEMMA IdentitySays ==
  ASSUME NEW t, Complete(IdentityOf(t))
  PROVE  Says(IdentityOf(t), t)
BY AgreesOnColumns DEF Says, Columns, Complete, IdentityOf, OnDate

(***************************************************************************)
(* A correction makes no two lines say the same that said different        *)
(* things, neither by correcting one nor by adding a transport.            *)
(***************************************************************************)
THEOREM SpecStatedOnce == Spec => StatedOnce
<1> DEFINE Once(r) ==
      LET old == request[r].workbook.lines
          new == Correction(r).lines
          mine(i) == ~ChargesOnly(old, request[r].match, i)
          given == {i \in DOMAIN old : mine(i)}
          quiet == {i \in DOMAIN new \ DOMAIN old : new[i].mark.trip \in AddedQuietly(r)}
          another(i, t) == /\ request[r].match[i].trip \notin {t, Null}
                           /\ \/ request[r].match[i].trip \in since[r]
                              \/ Cardinality(Agrees(new[i].stated, request[r].match[i].trip)) = 3
      IN  /\ \A i, j \in given : new[i].stated = new[j].stated => old[i].stated = old[j].stated
          /\ \A i \in given : \A j \in quiet :
               new[i].stated = new[j].stated => another(i, new[j].mark.trip)
<1>1. ASSUME IInv, TypeOK, Held, NEW r \in Requests, Completes(r) PROVE Once(r)
  <2>1. PICK job : job = request[r]
    OBVIOUS
  <2>2. PICK old : old = job.workbook.lines
    OBVIOUS
  <2>3. PICK new : new = Correction(r).lines
    OBVIOUS
  <2>4. PICK adds : adds = Added(job.workbook, job.match)
    OBVIOUS
  <2>5. PICK match : match = job.match
    OBVIOUS
  <2>6. /\ trip \in [Trips -> TripRow] /\ job.phase = "PRICED"
        /\ Typed(job) /\ StatesApart(job) /\ \A t \in Trips \ since[r] : Carries(job, t)
    BY <1>1, <2>1 DEF Held, Holds, Examining, Completes, TypeOK
  <2>7. /\ \A i \in DOMAIN old : new[i].stated = job.corrected[i]
        /\ \A i \in DOMAIN new \ DOMAIN old : \E t \in adds : new[i] = AddedLine(old, match, t)
    <3>1. IsCorrection(job, new, adds)
      BY <2>1, <2>2, <2>3, <2>4, <2>6, CorrectionIs
    <3> QED BY <2>2, <2>5, <3>1 DEF IsCorrection
  <2>8. ASSUME NEW i \in DOMAIN old, ~ChargesOnly(old, match, i),
               NEW j \in DOMAIN old, ~ChargesOnly(old, match, j), new[i].stated = new[j].stated
        PROVE  old[i].stated = old[j].stated
    <3>1. job.corrected[i] = job.corrected[j]
      BY <2>7, <2>8
    <3> QED BY <2>2, <2>5, <2>6, <2>8, <3>1 DEF StatesApart
  <2>9. ASSUME NEW i \in DOMAIN old, ~ChargesOnly(old, match, i),
               NEW j \in DOMAIN new \ DOMAIN old, new[j].mark.trip \in AddedQuietly(r),
               new[i].stated = new[j].stated
        PROVE  /\ match[i].trip \notin {new[j].mark.trip, Null}
               /\ \/ match[i].trip \in since[r]
                  \/ Cardinality(Agrees(new[i].stated, match[i].trip)) = 3
    <3>1. PICK t \in adds : new[j] = AddedLine(old, match, t)
      BY <2>7
    <3>2. t \in Trips /\ Unstated(old, match, t)
      BY <2>2, <2>4, <2>5 DEF Added, Missing
    <3>3. new[j].mark.trip = t /\ new[j].stated = IdentityOf(t)
      <4>1. old \in Seq(Line)
        BY <2>2, <2>6 DEF Typed, Workbook
      <4>2. PICK line : line = new[j] /\ line = AddedLine(old, match, t)
        BY <3>1
      <4> QED BY <2>6, <3>2, <4>1, <4>2, AddedLineIsLine
    <3>4. t \notin since[r] /\ Closed(t) /\ t \notin Named(match[i])
      BY <2>9, <3>2, <3>3 DEF AddedQuietly, Unstated
    <3>5. Says(job.corrected[i], t)
      BY <2>7, <2>9, <3>2, <3>3, IdentitySays DEF Unstated
    <3>6. match[i].fix # "none"
      BY <2>2, <2>5, <2>6, <2>9, <3>2, <3>4, <3>5 DEF Carries
    <3>7. match[i].trip \in Trips
      BY <2>2, <2>5, <2>6, <2>9, <3>6 DEF StatesApart
    <3>8. match[i].trip \notin {t, Null}
      BY <3>4, <3>7, NullIsNoValue DEF Named
    <3>9. ASSUME match[i].trip \notin since[r]
          PROVE  Cardinality(Agrees(new[i].stated, match[i].trip)) = 3
      <4>1. PICK u \in Trips \ since[r] : u = match[i].trip
        BY <3>7, <3>9
      <4>2. StatesIt(job, i, u)
        BY <2>2, <2>5, <2>6, <2>9, <4>1 DEF Carries
      <4>3. Says(job.corrected[i], u)
        BY <2>5, <3>6, <4>2 DEF StatesIt
      <4>4. Cardinality(Agrees(job.corrected[i], u)) = 3
        BY <4>3, SharingIs
      <4> QED BY <2>7, <2>9, <4>1, <4>4
    <3> QED BY <3>3, <3>8, <3>9
  <2> QED BY <2>1, <2>2, <2>3, <2>5, <2>8, <2>9
<1>2. IInv /\ TypeOK /\ Held => \A r \in Requests : Completes(r) => Once(r)
  BY <1>1
<1>3. [](IInv /\ TypeOK /\ Held) => [][\A r \in Requests : Completes(r) => Once(r)]_vars
  BY <1>2, PTL
<1>4. [][\A r \in Requests : Completes(r) => Once(r)]_vars => StatedOnce
  BY DEF StatedOnce
<1> QED BY <1>3, <1>4, AlwaysHeld, PTL

CarriesInFull(lines, carrying, costs, t) ==
  /\ carrying # {} /\ trip[t].price # Null
  /\ \A i \in carrying :
       LET agreed == Agrees(lines[i].stated, t)
       IN  /\ lines[i].amount # Null
           /\ \/ Cardinality(agreed) = 3
              \/ /\ Cardinality(agreed) = 2
                 /\ \/ WasAddedByAudit(lines[i])
                    \/ \A column \in Columns \ agreed : IdentityOf(t)[column] = Null
  /\ Stated(lines, carrying \cup costs) >= trip[t].price.total

(* What carries a transport that may be paid, nobody having changed it,    *)
(* carries it in full, with what its cost lines charge.                    *)
LEMMA PayableIsCovered ==
  ASSUME IInv, TypeOK, Held, NEW r \in Requests, request[r].phase = "PRICED",
         NEW t \in Trips \ since[r], Payable(r, t),
         NEW job, job = request[r], NEW old, old = job.workbook.lines,
         NEW new, new = Correction(r).lines,
         NEW carrying,
         carrying = Carrying(old, job.match, t)
                      \cup {i \in DOMAIN new \ DOMAIN old : new[i].mark.trip = t},
         NEW costs, costs = Charging(old, job.match, t)
  PROVE  CarriesInFull(new, carrying, costs, t)
<1>1. PICK match : match = job.match
  OBVIOUS
<1>2. PICK adds : adds = Added(job.workbook, match)
  OBVIOUS
<1>3. PICK rows : rows = Carrying(old, match, t)
  OBVIOUS
<1>4. /\ trip \in [Trips -> TripRow] /\ Typed(job) /\ StatesApart(job)
      /\ Carries(job, t) /\ Covers(job, t) /\ t # Null /\ old \in Seq(Line)
  BY NullIsNoValue DEF Held, Holds, Examining, TypeOK, Typed, Workbook
<1>5. /\ \A i \in DOMAIN old :
           /\ new[i].stated = job.corrected[i] /\ new[i].amount = job.priced[i].amount
           /\ new[i].mark = old[i].mark
      /\ \A i \in DOMAIN new \ DOMAIN old : \E u \in adds : new[i] = AddedLine(old, match, u)
      /\ \A u \in adds : \E i \in DOMAIN new \ DOMAIN old : new[i] = AddedLine(old, match, u)
      /\ \A i, j \in DOMAIN new \ DOMAIN old : new[i].mark.trip = new[j].mark.trip => i = j
  <2>1. adds = Added(job.workbook, job.match) /\ job.phase = "PRICED"
    BY <1>1, <1>2
  <2>2. IsCorrection(job, new, adds)
    BY <1>4, <2>1, CorrectionIs
  <2> QED BY <1>1, <2>2 DEF IsCorrection
<1>6. /\ rows \subseteq DOMAIN old /\ costs \subseteq DOMAIN old /\ rows \cap costs = {}
      /\ \A i \in rows : match[i].trip = t /\ ~ChargesOnly(old, match, i)
      /\ \A i \in costs : match[i].trip = t
  BY <1>1, <1>3 DEF Carrying, Charging
<1>7. adds \subseteq Trips /\ \A u \in adds : Unstated(old, match, u)
  BY <1>2 DEF Added, Missing
<1>8. ASSUME NEW u \in adds, NEW line, line = AddedLine(old, match, u)
      PROVE  /\ line.mark.trip = u /\ line.stated = IdentityOf(u)
             /\ trip[u].price # Null => line.amount = Remaining(old, match, u)
  BY <1>4, <1>7, <1>8, AddedLineIsLine
<1>9. IsFiniteSet(rows) /\ IsFiniteSet(costs)
  BY <1>4, <1>6, LinesAreLines, FS_Subset
<1>10. \A i \in rows \cup costs : job.priced[i].status = "SETTLED"
  BY <1>1, <1>6 DEF Payable
<1>11. PICK due : due = Remaining(old, match, t)
  OBVIOUS
<1>12. ASSUME NEW own, IsFiniteSet(own), own \cap costs = {}, Readable(new, own),
              Stated(new, own) >= due, trip[t].price # Null
       PROVE  Stated(new, own \cup costs) >= trip[t].price.total
  <2>1. PICK priced : priced = job.priced
    OBVIOUS
  <2>2. Readable(priced, costs) /\ Stated(priced, costs) >= Covered(old, match, t)
    BY <1>1, <1>4, <1>10, <1>12, <2>1 DEF Covers
  <2>3. \A i \in costs : new[i].amount = priced[i].amount
    BY <1>5, <1>6, <2>1
  <2>4. Readable(new, costs) /\ Stated(new, costs) = Stated(priced, costs)
    BY <1>9, <2>2, <2>3, StatedAlike DEF Readable
  <2>5. PICK price : price = trip[t].price
    OBVIOUS
  <2>6. PICK covered : covered = Covered(old, match, t)
    OBVIOUS
  <2>7. covered \in Nat /\ price.total \in Nat /\ due \in Nat /\ due + covered >= price.total
    <3>1. PICK owed : owed = AsOwed(price, old)
      OBVIOUS
    <3>2. PICK charging : charging = Charging(old, match, t)
      OBVIOUS
    <3>3. /\ price.total \in Nat /\ due \in Nat
          /\ Covered(old, match, t) = Stated(owed, charging) /\ Stated(owed, charging) \in Nat
          /\ due + Stated(owed, charging) >= price.total
      BY <1>4, <1>11, <1>12, <2>5, <3>1, <3>2, RemainingIs
    <3> QED BY <2>6, <3>3
  <2>8. Stated(new, own) \in Nat /\ Stated(new, costs) \in Nat
    BY <1>9, <1>12, <2>4, StatedType
  <2>9. Readable(new, own \cup costs)
    BY <1>12, <2>4 DEF Readable
  <2>10. Stated(new, own \cup costs) = Stated(new, own) + Stated(new, costs)
    BY <1>9, <1>12, <2>9, StatedTogether
  <2>11. PICK a \in Nat : a = Stated(new, own)
    BY <2>8
  <2>12. PICK b \in Nat : b = Stated(new, costs)
    BY <2>8
  <2>13. a >= due /\ b >= covered
    BY <1>12, <2>2, <2>4, <2>6, <2>11, <2>12
  <2>14. a + b >= price.total
    BY <2>7, <2>13
  <2> QED BY <2>5, <2>10, <2>11, <2>12, <2>14
<1>13. CASE rows # {}
  <2>1. t \notin adds
    BY <1>4, <1>6, <1>7, <1>13 DEF Unstated, Named
  <2>2. carrying = rows
    <3>1. \A i \in DOMAIN new \ DOMAIN old : new[i].mark.trip # t
      BY <1>5, <1>8, <2>1
    <3> QED BY <1>1, <1>3, <3>1
  <2>3. /\ trip[t].price # Null /\ Readable(job.priced, rows)
        /\ Stated(job.priced, rows) >= due
    BY <1>1, <1>3, <1>4, <1>10, <1>11, <1>13 DEF Covers
  <2>4. Readable(new, rows) /\ Stated(new, rows) >= due
    <3>1. PICK priced : priced = job.priced
      OBVIOUS
    <3>2. \A i \in rows : new[i].amount = priced[i].amount
      BY <1>5, <1>6, <3>1
    <3>3. Stated(new, rows) = Stated(priced, rows)
      BY <1>9, <3>2, StatedAlike
    <3> QED BY <2>3, <3>1, <3>2, <3>3 DEF Readable
  <2>5. Stated(new, rows \cup costs) >= trip[t].price.total
    BY <1>6, <1>9, <1>12, <2>3, <2>4
  <2>6. ASSUME NEW i \in rows
        PROVE  /\ new[i].amount # Null
               /\ \/ Cardinality(Agrees(new[i].stated, t)) = 3
                  \/ /\ Cardinality(Agrees(new[i].stated, t)) = 2
                     /\ WasAddedByAudit(new[i]) \/ Lacks(new[i].stated, t)
    <3>1. new[i].amount # Null
      BY <2>4, NullIsNoValue DEF Readable
    <3>2. StatesIt(job, i, t)
      BY <1>1, <1>4, <1>6 DEF Carries
    <3>3. CASE Says(job.corrected[i], t)
      <4>1. Cardinality(Agrees(job.corrected[i], t)) = 3
        BY <3>3, SharingIs
      <4> QED BY <1>5, <1>6, <3>1, <4>1
    <3>4. CASE /\ match[i].fix = "none"
               /\ WasAddedByAudit(old[i]) \/ Lacks(job.corrected[i], t)
               /\ Shares(job.corrected[i], t) /\ ~Says(job.corrected[i], t)
      <4>1. Cardinality(Agrees(job.corrected[i], t)) = 2
        BY <3>4, SharingIs
      <4>2. job.corrected[i] = old[i].stated
        BY <1>1, <1>4, <1>6, <3>4 DEF StatesApart
      <4>3. WasAddedByAudit(old[i]) => WasAddedByAudit(new[i])
        BY <1>5, <1>6, <4>2 DEF WasAddedByAudit
      <4> QED BY <1>5, <1>6, <3>1, <3>4, <4>1, <4>3
    <3> QED BY <1>1, <3>2, <3>3, <3>4 DEF StatesIt
  <2> QED BY <1>13, <2>2, <2>3, <2>5, <2>6 DEF CarriesInFull, Lacks
<1>14. CASE rows = {}
  <2>1. t \in adds /\ trip[t].price # Null
    <3>1. \A i \in DOMAIN old :
            ~(match[i].trip = t /\ match[i].status \in {"MATCHED", "ADDED_MISSING"})
      BY <1>3, <1>14 DEF Carrying, ChargesOnly
    <3> QED BY <1>1, <1>2, <3>1 DEF Payable
  <2>2. PICK x \in DOMAIN new \ DOMAIN old : new[x] = AddedLine(old, match, t)
    BY <1>5, <2>1
  <2>3. /\ new[x].mark.trip = t /\ new[x].stated = IdentityOf(t)
        /\ new[x].amount = due
    BY <1>8, <1>11, <2>1, <2>2
  <2>4. carrying = {x} /\ carrying \cap costs = {}
    BY <1>1, <1>3, <1>5, <1>6, <1>14, <2>2, <2>3
  <2>5. due \in Nat
    BY <1>4, <1>11, <2>1, RemainingIs
  <2>6. IsFiniteSet(carrying) /\ Readable(new, carrying) /\ Stated(new, carrying) = due
    <3>0. IsFiniteSet({x})
      BY FS_Singleton
    <3>1. IsFiniteSet(carrying) /\ x \in carrying /\ carrying \ {x} = {}
      BY <2>4, <3>0
    <3>2. Readable(new, carrying)
      BY <2>3, <2>4, <2>5 DEF Readable
    <3>3. Stated(new, carrying) = new[x].amount + Stated(new, carrying \ {x})
      BY <3>1, <3>2, StatedOfAny
    <3>4. Stated(new, carrying \ {x}) = 0
      BY <3>1, StatedOfNone
    <3> QED BY SMTT(20), <2>3, <2>5, <3>1, <3>2, <3>3, <3>4
  <2>7. Cardinality(Agrees(new[x].stated, t)) = 3
    <3>1. Says(new[x].stated, t)
      BY <1>7, <2>1, <2>3, IdentitySays DEF Unstated
    <3> QED BY <3>1, SharingIs
  <2>8. new[x].amount # Null
    BY <2>3, <2>5, NullIsNoValue
  <2>9. Stated(new, carrying \cup costs) >= trip[t].price.total
    BY <1>12, <2>1, <2>4, <2>5, <2>6
  <2> QED BY <2>1, <2>4, <2>7, <2>8, <2>9 DEF CarriesInFull
<1> QED BY <1>13, <1>14

(* A payment is only accepted when every trip chosen may be paid.          *)
LEMMA AcceptedIsPayable ==
  ASSUME IInv, Next, NEW r \in Requests, Completes(r), request'[r].phase = "ACCEPTED",
         NEW t \in request'[r].pay
  PROVE  t \in Trips /\ Payable(r, t)
<1>1. ASSUME NEW q \in Requests, Audits(q) PROVE t \in Trips /\ Payable(r, t)
  <2>1. ASSUME NEW job, request' = [request EXCEPT ![q] = job], job.phase # "ACCEPTED" PROVE FALSE
    BY <2>1 DEF IInv, Completes
  <2>2. ASSUME NEW workbook \in files PROVE ~Match(q, workbook)
    <3> SUFFICES ASSUME Match(q, workbook) PROVE FALSE
      OBVIOUS
    <3>1. request' = [request EXCEPT ![q] = Matched(workbook)]
      BY MatchSets
    <3>2. Matched(workbook).phase # "ACCEPTED"
      BY DEF Matched
    <3> QED BY <2>1, <3>1, <3>2
  <2>3. ~Price(q)
    <3> SUFFICES ASSUME Price(q) PROVE FALSE
      OBVIOUS
    <3> DEFINE at == request[q]
               job == [phase |-> "PRICED", workbook |-> at.workbook, match |-> at.match,
                       priced |-> Reconcile(at.workbook.lines, at.match),
                       corrected |-> at.corrected, paid |-> at.paid]
    <3>1. request' = [request EXCEPT ![q] = job] /\ job.phase = "PRICED"
      BY Zenon DEF Price
    <3> HIDE DEF job
    <3> QED BY <2>1, <3>1
  <2>4. ASSUME NEW chosen PROVE ~RefusePayment(q, chosen)
    BY <2>1 DEF RefusePayment, Idle
  <2>5. ~ReturnCorrection(q) /\ ~Settle(q)
    <3>1. PICK idle : idle = Idle
      OBVIOUS
    <3>2. idle.phase # "ACCEPTED"
      BY <3>1 DEF Idle
    <3>3. request' # [request EXCEPT ![q] = Idle]
      BY <2>1, <3>1, <3>2
    <3> QED BY <3>3 DEF ReturnCorrection, Settle
  <2>6. PICK chosen \in SUBSET Trips : AcceptPayment(q, chosen)
    BY <1>1, <2>2, <2>3, <2>4, <2>5 DEF Audits, Asked
  <2>7. PICK job : job = [phase |-> "ACCEPTED", pay |-> chosen \ request[q].paid]
    OBVIOUS
  <2>8. /\ request' = [request EXCEPT ![q] = job]
        /\ \A u \in chosen : Payable(q, u)
    BY <2>6, <2>7 DEF AcceptPayment
  <2>9. q = r
    BY <2>8 DEF IInv, Completes
  <2>10. t \in chosen
    BY <2>7, <2>8, <2>9 DEF IInv
  <2> QED BY <2>8, <2>9, <2>10
<1>2. ASSUME request' = request PROVE FALSE
  BY <1>2 DEF Completes
<1>3. ASSUME NEW u \in Trips, Operates(u) PROVE FALSE
  BY <1>2, <1>3, OperatesStep
<1>4. ~Retypes
  BY <1>2 DEF Retypes, Retype
<1> QED BY <1>1, <1>3, <1>4 DEF Next

(***************************************************************************)
(* A transport accepted for payment is carried, in the correction made for *)
(* that payment, by lines that state all three of its values -- or two, if *)
(* added before or if it holds no third -- and that charge, with its cost  *)
(* lines, no less than its price.                                          *)
(***************************************************************************)
THEOREM SpecPaidInFull == Spec => PaidInFull
<1> DEFINE InFull(r) ==
      \A t \in request'[r].pay \ since[r] :
        LET job == request[r]
            old == job.workbook.lines
            lines == Correction(r).lines
            carrying == Carrying(old, job.match, t)
                          \cup {i \in DOMAIN lines \ DOMAIN old : lines[i].mark.trip = t}
        IN  CarriesInFull(lines, carrying, Charging(old, job.match, t), t)
<1>1. ASSUME IInv, TypeOK, Held, Next, NEW r \in Requests, Completes(r),
             request'[r].phase = "ACCEPTED"
      PROVE  InFull(r)
  <2> SUFFICES ASSUME NEW t \in request'[r].pay \ since[r]
               PROVE  LET job == request[r]
                          old == job.workbook.lines
                          lines == Correction(r).lines
                          carrying == Carrying(old, job.match, t)
                                        \cup {i \in DOMAIN lines \ DOMAIN old : lines[i].mark.trip = t}
                      IN  CarriesInFull(lines, carrying, Charging(old, job.match, t), t)
    OBVIOUS
  <2>1. t \in Trips \ since[r] /\ Payable(r, t)
    BY <1>1, AcceptedIsPayable
  <2>2. request[r].phase = "PRICED"
    BY <1>1 DEF Completes
  <2>3. PICK job : job = request[r]
    OBVIOUS
  <2>4. PICK old : old = job.workbook.lines
    OBVIOUS
  <2>5. PICK new : new = Correction(r).lines
    OBVIOUS
  <2>6. PICK carrying : carrying = Carrying(old, job.match, t)
                          \cup {i \in DOMAIN new \ DOMAIN old : new[i].mark.trip = t}
    OBVIOUS
  <2>8. PICK costs : costs = Charging(old, job.match, t)
    OBVIOUS
  <2>7. CarriesInFull(new, carrying, costs, t)
    <3>1. IInv /\ TypeOK /\ Held
      BY <1>1
    <3>2. PICK u \in Trips \ since[r] : u = t
      BY <2>1
    <3>3. /\ Payable(r, u)
          /\ carrying = Carrying(old, job.match, u)
                           \cup {i \in DOMAIN new \ DOMAIN old : new[i].mark.trip = u}
          /\ costs = Charging(old, job.match, u)
      BY <2>1, <2>6, <2>8, <3>2
    <3>4. CarriesInFull(new, carrying, costs, u)
      BY <2>2, <2>3, <2>4, <2>5, <3>1, <3>3, PayableIsCovered
    <3> QED BY <3>2, <3>4
  <2> QED BY <2>3, <2>4, <2>5, <2>6, <2>7, <2>8
<1>2. IInv /\ TypeOK /\ Held /\ [Next]_vars =>
        [\A r \in Requests : Completes(r) /\ request'[r].phase = "ACCEPTED" => InFull(r)]_vars
  BY <1>1
<1>3. [](IInv /\ TypeOK /\ Held) /\ [][Next]_vars =>
        [][\A r \in Requests : Completes(r) /\ request'[r].phase = "ACCEPTED" => InFull(r)]_vars
  BY <1>2, PTL
<1>4. [][\A r \in Requests : Completes(r) /\ request'[r].phase = "ACCEPTED" => InFull(r)]_vars
        => PaidInFull
  BY DEF PaidInFull, CarriesInFull
<1> QED BY <1>3, <1>4, AlwaysHeld, PTL DEF Spec
=============================================================================
