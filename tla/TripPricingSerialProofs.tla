---------------------- MODULE TripPricingSerialProofs ----------------------
(***************************************************************************)
(* What TripPricing guarantees while requests do not overlap, for any      *)
(* number of trips, and calculations and stores that fail: a price that is *)
(* shown was calculated from the data as it is; and, where no trip moves   *)
(* to another day, a TAR number is charged once a day and, where nothing   *)
(* fails, charged by someone.                                              *)
(*                                                                         *)
(* The first argument is a debt: a write that outdates shown prices leaves *)
(* the request owing their calculation, and every way for a request to     *)
(* drop what it owes either stores a calculation of the current data or    *)
(* marks the snapshot FAILED.                                              *)
(*                                                                         *)
(* The second is an account of charges: a write may leave a number charged *)
(* twice, or not at all, and the request then has a pricing to do that     *)
(* ends it. A claim that was calculated stands until it is stored.         *)
(***************************************************************************)
EXTENDS TripPricingProofs

Current(t) == snapshot[t].read = PriceDataOf(t)

AtWork == {"calculate", "store", "again"}

(* Trips p will still price: those it has to do and their partners, and    *)
(* those it is pricing whose results are not stored.                       *)
Due(p, t) ==
  \/ \E u \in request[p].todo : t = u \/ t \in ClosedPartner(u)
  \/ /\ request[p].phase \in AtWork
     /\ \E i \in DOMAIN request[p].scope :
          i > request[p].stored /\ request[p].scope[i] = t

Wrote_(p) == request[p].phase \notin {"idle", "write"}

(* A shown price is current, or p, which changed the data, owes a new one. *)
(* An explicit reprocess changes nothing, so it owes nothing.              *)
Paid(p) ==
  \A t \in Trips :
    Shown(t) => \/ Current(t)
                \/ request[p].op # "REPRICE" /\ Wrote_(p) /\ Due(p, t)

(* A write decides on the row it read: nobody wrote in between.            *)
AsRead(p) ==
  request[p].phase = "write" => request[p].before = trip[request[p].trip]

(* What p prices is CLOSED, unless it was asked to price a trip that never *)
(* was: so the engine refuses nothing that is owed.                        *)
Fitting(p) ==
  /\ request[p].phase = "price" => request[p].settles
  /\ \A t \in request[p].moved : Priceable(t)
  /\ request[p].op = "CLOSE" => \A t \in request[p].todo : Priceable(t)
  /\ request[p].phase \in AtWork /\ request[p].op # "REPRICE" =>
       \A i \in DOMAIN request[p].scope : \A t \in Trips :
         request[p].scope[i] = t => Priceable(t)

(* What p has calculated it calculated from the data as it is, after it    *)
(* started; what is newer than its start is what it stored.                *)
Calculated(p) ==
  request[p].phase \in AtWork =>
    /\ request[p].since <= clock
    /\ request[p].phase # "calculate" => Len(request[p].results) = Len(request[p].scope)
    /\ \A i \in DOMAIN request[p].results : \A t \in Trips :
         request[p].scope[i] = t =>
           /\ request[p].results[i].read = PriceDataOf(t)
           /\ request[p].results[i].at >= request[p].since
           /\ request[p].results[i].at < clock
    /\ \A i \in DOMAIN request[p].scope : \A t \in Trips :
         request[p].scope[i] = t /\ Shown(t) /\ snapshot[t].at >= request[p].since
           => Current(t)

Sound(p) == Paid(p) /\ AsRead(p) /\ Fitting(p) /\ Calculated(p)

(* The clock is past every calculation that was stored.                    *)
ClockIsPast == \A t \in Trips : snapshot[t] # NoSnapshot => snapshot[t].at < clock

SInv == /\ IInv
        /\ crashed \/ (ClockIsPast /\ \A p \in Requests : Sound(p))

(* Requests do not overlap: there is one slot for them.                    *)
OneAtATime == \A p, q \in Requests : p = q

---------------------------------------------------------------------------
(* The legs.                                                               *)

LEMMA TwoLegs ==
  ASSUME NEW t \in Legs, NEW u \in Legs, t # u
  PROVE  Other(t) = u
<1>1. Legs = {t, u}
  BY LegsAreAPair
<1> QED BY <1>1 DEF Other

LEMMA PartnerIsOther ==
  ASSUME NEW t \in Trips, NEW u \in Partner(t)
  PROVE  /\ Together /\ t \in Legs /\ u \in Legs /\ u # t /\ u \in Trips
         /\ u = Other(t) /\ t = Other(u)
         /\ Partner(t) = {u}
<1>1. Together /\ t \in Legs /\ u \in Legs /\ u # t
  BY DEF Partner
<1>2. Other(t) = u /\ Other(u) = t
  BY <1>1, TwoLegs
<1>3. \A v \in Partner(t) : v = u
  BY <1>2, TwoLegs DEF Partner
<1> QED BY <1>1, <1>2, <1>3, LegsAreTrips

(* The legs of a pair are partners of each other.                          *)
LEMMA PartnersAreMutual ==
  ASSUME NEW t \in Trips, NEW u \in Partner(t), Priceable(t)
  PROVE  t \in ClosedPartner(u)
BY PartnerIsOther DEF ClosedPartner, Partner, Priceable

LEMMA JoinOfTwo == \A a, b : <<a>> \o <<b>> = <<a, b>>
<1> SUFFICES ASSUME NEW a, NEW b PROVE <<a>> \o <<b>> = <<a, b>>
  OBVIOUS
<1> DEFINE S == {a, b}
<1>1. <<a>> \in Seq(S) /\ <<b>> \in Seq(S)
  OBVIOUS
<1>2. <<a>> \o <<b>> \in Seq(S) /\ Len(<<a>> \o <<b>>) = 2
  BY <1>1
<1>3. (<<a>> \o <<b>>)[1] = a /\ (<<a>> \o <<b>>)[2] = b
  BY <1>1
<1>4. <<a, b>> \in Seq(S) /\ Len(<<a, b>>) = 2 /\ <<a, b>>[1] = a /\ <<a, b>>[2] = b
  OBVIOUS
<1> HIDE DEF S
<1>5. \A i \in 1..2 : i = 1 \/ i = 2
  OBVIOUS
<1>6. \A i \in 1..Len(<<a>> \o <<b>>) : (<<a>> \o <<b>>)[i] = <<a, b>>[i]
  BY <1>2, <1>3, <1>4, <1>5
<1> QED BY <1>2, <1>4, <1>6, SeqEqual

(* What a scope holds: the trip, unless it is left out, and its partner.   *)
LEMMA ScopeHolds ==
  ASSUME NEW p \in Requests, NEW t \in Trips
  PROVE  /\ \A i \in DOMAIN Scope(p, t) : Scope(p, t)[i] = t \/ Scope(p, t)[i] \in ClosedPartner(t)
         /\ \A u \in ClosedPartner(t) : \E i \in DOMAIN Scope(p, t) : Scope(p, t)[i] = u
         /\ \/ Priceable(t) \/ ~request[p].settles
            \/ request[p].op \in {"CLOSE", "REPRICE"}
            => \E i \in DOMAIN Scope(p, t) : Scope(p, t)[i] = t
         /\ ~(\/ Priceable(t) \/ ~request[p].settles
              \/ request[p].op \in {"CLOSE", "REPRICE"})
            => \A i \in DOMAIN Scope(p, t) : Scope(p, t)[i] \in ClosedPartner(t)
<1> DEFINE takes == \/ Priceable(t) \/ ~request[p].settles
                    \/ request[p].op \in {"CLOSE", "REPRICE"}
<1>1. \A u \in ClosedPartner(t) : u = Other(t)
  BY PartnerIsOther DEF ClosedPartner
<1>2. Scope(p, t) = (IF takes THEN <<t>> ELSE <<>>)
                    \o (IF ClosedPartner(t) = {} THEN <<>> ELSE <<Other(t)>>)
  BY DEF Scope
<1>3. CASE takes /\ ClosedPartner(t) = {}
  <2>1. Scope(p, t) = <<t>>
    BY <1>2, <1>3
  <2> QED BY <1>3, <2>1
<1>4. CASE takes /\ ClosedPartner(t) # {}
  <2>0. <<t>> \o <<Other(t)>> = <<t, Other(t)>>
    BY JoinOfTwo
  <2>1. Scope(p, t) = <<t, Other(t)>> /\ ClosedPartner(t) = {Other(t)}
    BY <1>1, <1>2, <1>4, <2>0
  <2>2. DOMAIN Scope(p, t) = {1, 2} /\ Scope(p, t)[1] = t /\ Scope(p, t)[2] = Other(t)
    BY <2>1
  <2> QED BY <1>4, <2>1, <2>2
<1>5. CASE ~takes /\ ClosedPartner(t) = {}
  <2>1. Scope(p, t) = <<>>
    BY <1>2, <1>5
  <2> QED BY <1>5, <2>1
<1>6. CASE ~takes /\ ClosedPartner(t) # {}
  <2>1. Scope(p, t) = <<Other(t)>> /\ ClosedPartner(t) = {Other(t)}
    BY <1>1, <1>2, <1>6
  <2>2. DOMAIN Scope(p, t) = {1} /\ Scope(p, t)[1] = Other(t)
    BY <2>1
  <2> QED BY <1>6, <2>1, <2>2
<1> QED BY <1>3, <1>4, <1>5, <1>6

---------------------------------------------------------------------------
(* What a write does to the prices that are shown.                         *)

(* The operators that read the rows and the groups only.                   *)
LEMMA SamePrices ==
  ASSUME UNCHANGED <<trip, grouped>>
  PROVE  \A t : /\ PriceDataOf(t)' = PriceDataOf(t)
                /\ Priceable(t)' = Priceable(t)
                /\ Partner(t)' = Partner(t)
                /\ ClosedPartner(t)' = ClosedPartner(t)
BY DEF PriceDataOf, Priceable, Partner, ClosedPartner, Together

(* A trip whose row stays, and whose partner stays with its row, is worth  *)
(* what it was while it stays in its group or out of one.                  *)
LEMMA SameData ==
  ASSUME NEW t \in Trips, trip'[t] = trip[t], Partner(t)' = Partner(t),
         (t \in grouped') = (t \in grouped),
         \A u \in Partner(t) : trip'[u] = trip[u]
  PROVE  PriceDataOf(t)' = PriceDataOf(t)
<1>1. CASE Partner(t) = {}
  BY <1>1 DEF PriceDataOf
<1>2. CASE Partner(t) # {}
  <2>1. Other(t) \in Partner(t)
    BY <1>2, PartnerIsOther
  <2> QED BY <1>2, <2>1 DEF PriceDataOf
<1> QED BY <1>1, <1>2
(* A row that changes touches the price of its trip and of its partner.    *)
LEMMA OthersKeepData ==
  ASSUME IInv, NEW t \in Trips, NEW after \in Row, NEW u \in Trips, u # t,
         trip' = [trip EXCEPT ![t] = after], grouped' = grouped
  PROVE  /\ trip'[u] = trip[u]
         /\ ~(Together /\ t \in Legs /\ u \in Legs) => PriceDataOf(u)' = PriceDataOf(u)
         /\ /\ after.day = trip[t].day /\ after.inputs = trip[t].inputs
            /\ (after.status = "CANCELLED") = (trip[t].status = "CANCELLED")
            => PriceDataOf(u)' = PriceDataOf(u)
<1>1. /\ trip \in [Trips -> Row] /\ trip'[u] = trip[u] /\ trip'[t] = after
      /\ \A v \in Trips : v # t => trip'[v] = trip[v]
      /\ trip[t] \in Row
  BY DEF IInv, TypeOK
<1>2. Together' = Together
  BY DEF Together
<1>3. ASSUME ~(Together /\ t \in Legs /\ u \in Legs)
      PROVE  PriceDataOf(u)' = PriceDataOf(u)
  <2>1. \A v \in Legs : v \in Trips /\ (v = t => ~(Together /\ u \in Legs))
    BY <1>3, LegsAreTrips
  <2>2. Partner(u)' = Partner(u)
    BY <1>1, <1>2, <2>1 DEF Partner
  <2>3. \A v \in Partner(u) : trip'[v] = trip[v]
    BY <1>1, <2>1 DEF Partner
  <2> QED BY <1>1, <2>2, <2>3, SameData
<1>4. ASSUME after.day = trip[t].day, after.inputs = trip[t].inputs,
             (after.status = "CANCELLED") = (trip[t].status = "CANCELLED"),
             Together, t \in Legs, u \in Legs
      PROVE  PriceDataOf(u)' = PriceDataOf(u)
  <2>1. /\ after.status \in {"OPEN", "CLOSED", "CANCELLED"}
        /\ trip[t].status \in {"OPEN", "CLOSED", "CANCELLED"}
    BY <1>1 DEF Row, Statuses
  <2>2. \A v \in Trips : (trip'[v].status \in {"OPEN", "CLOSED"}) = (trip[v].status \in {"OPEN", "CLOSED"})
    BY <1>1, <1>4, <2>1
  <2>3. Partner(u)' = Partner(u)
    BY <1>2, <2>2, LegsAreTrips DEF Partner
  <2>4. Other(u) = t
    BY <1>4, TwoLegs
  <2> QED BY <1>1, <1>4, <2>3, <2>4 DEF PriceDataOf
<1> QED BY <1>1, <1>3, <1>4

---------------------------------------------------------------------------
(* A request that wrote owes what it outdated.                             *)

LEMMA WroteIsSound ==
  ASSUME IInv, NEW p \in Requests, NEW todo \in SUBSET Trips,
         NEW release \in TarDay \cup {NoClaim}, Wrote(p, todo, release),
         request[p].op = "CLOSE" => \A v \in todo : Priceable(v)',
         \A u \in Trips : Shown(u)' =>
           \/ Current(u)'
           \/ /\ request[p].op # "REPRICE"
              /\ \E v \in todo : u = v \/ u \in ClosedPartner(v)'
  PROVE  Sound(p)'
<1>1. /\ request'[p].op = request[p].op /\ request'[p].phase = "price"
      /\ request'[p].todo = todo /\ request'[p].moved = {}
      /\ request'[p].settles
  BY DEF Wrote, Idle, IInv, TypeOK
<1>2. Paid(p)'
  <2> SUFFICES ASSUME NEW u \in Trips, Shown(u)', ~Current(u)'
               PROVE  (request[p].op # "REPRICE" /\ Wrote_(p) /\ Due(p, u))'
    BY DEF Paid
  <2>1. PICK v \in todo : u = v \/ u \in ClosedPartner(v)'
    OBVIOUS
  <2>2. Due(p, u)'
    BY <1>1, <2>1 DEF Due
  <2> QED BY <1>1, <2>2 DEF Wrote_
<1>3. AsRead(p)'
  BY <1>1 DEF AsRead
<1>4. Fitting(p)'
  BY <1>1 DEF Fitting, AtWork
<1>5. Calculated(p)'
  BY <1>1 DEF Calculated, AtWork
<1> QED BY <1>2, <1>3, <1>4, <1>5 DEF Sound

(* What p must price once it changed the row of t: t itself, and the other *)
(* leg of its pair, unless they are worth what they were.                  *)
Owing(p, t, todo) ==
  /\ request[p].op # "REPRICE"
  /\ request[p].op = "CLOSE" => \A v \in todo : Priceable(v)'
  /\ Priceable(t)' =>
       t \in todo \/ (Priceable(t) /\ PriceDataOf(t)' = PriceDataOf(t))
  /\ \A u \in Trips :
       u # t /\ Priceable(u) /\ Together /\ t \in Legs /\ u \in Legs =>
         \/ u \in todo
         \/ u \in ClosedPartner(t)' /\ t \in todo
         \/ PriceDataOf(u)' = PriceDataOf(u)

LEMMA RowWriteOwes ==
  ASSUME IInv, NEW p \in Requests, Sound(p), request[p].phase = "write",
         NEW t \in Trips, NEW after \in Row,
         trip' = [trip EXCEPT ![t] = after], UNCHANGED <<grouped, snapshot>>,
         NEW todo \in SUBSET Trips, NEW release \in TarDay \cup {NoClaim},
         Wrote(p, todo, release), Owing(p, t, todo)
  PROVE  Sound(p)'
<1> SUFFICES ASSUME NEW u \in Trips, Shown(u)'
             PROVE  \/ Current(u)'
                    \/ \E v \in todo : u = v \/ u \in ClosedPartner(v)'
  BY WroteIsSound DEF Owing
<1>1. snapshot' = snapshot /\ trip'[t] = after
  BY DEF IInv, TypeOK
<1>2. ASSUME Shown(u), PriceDataOf(u)' = PriceDataOf(u) PROVE Current(u)'
  <2>1. Current(u)
    BY <1>2 DEF Sound, Paid, Wrote_
  <2> QED BY <1>1, <1>2, <2>1 DEF Current
<1>3. CASE u = t
  <2>1. Priceable(t)'
    BY <1>3 DEF Shown
  <2>2. CASE t \in todo
    BY <1>3, <2>2
  <2>3. CASE Priceable(t) /\ PriceDataOf(t)' = PriceDataOf(t)
    <3>1. Shown(u)
      BY <1>1, <1>3, <2>3 DEF Shown
    <3> QED BY <1>2, <1>3, <2>3, <3>1
  <2> QED BY <2>1, <2>2, <2>3 DEF Owing
<1>4. CASE u # t
  <2>1. trip'[u] = trip[u]
    BY <1>4, OthersKeepData
  <2>2. Shown(u) /\ Priceable(u)
    BY <1>1, <2>1 DEF Shown, Priceable
  <2>3. CASE ~(Together /\ t \in Legs /\ u \in Legs)
    <3>1. PriceDataOf(u)' = PriceDataOf(u)
      BY <1>4, <2>3, OthersKeepData
    <3> QED BY <1>2, <2>2, <3>1
  <2>4. CASE Together /\ t \in Legs /\ u \in Legs
    BY <1>2, <1>4, <2>2, <2>4 DEF Owing
  <2> QED BY <2>3, <2>4
<1> QED BY <1>3, <1>4
LEMMA WriteStatusIsSound ==
  ASSUME IInv, NEW p \in Requests, Sound(p), request[p].phase = "write",
         NEW t \in Trips, t = request[p].trip, NEW to \in Statuses,
         request[p].op # "REPRICE", request[p].op = "CLOSE" => to = "CLOSED",
         WriteStatus(p, t, to), UNCHANGED snapshot
  PROVE  Sound(p)'
<1> DEFINE before == request[p].before
           moved  == (before.status = "CANCELLED") # (to = "CANCELLED")
           todo   == IF to = "CLOSED" THEN {t}
                     ELSE IF moved /\ Together /\ t \in Legs
                          THEN ClosedOf({Other(t)}) ELSE {}
           after  == [trip[t] EXCEPT !.status = to]
           old    == [after EXCEPT !.status = before.status]
<1>1. trip[t] \in Row /\ before = trip[t]
  BY DEF IInv, TypeOK, Sound, AsRead
<1>2. /\ after \in Row /\ after.status = to
      /\ after.day = trip[t].day /\ after.inputs = trip[t].inputs
  BY <1>1 DEF Row
<1>3. old \in Row
  BY <1>1, <1>2 DEF Row
<1>4. Released(old, after) \in TarDay \cup {NoClaim}
  BY <1>2, <1>3, ReleasedType
<1>5. todo \in SUBSET Trips
  BY OtherLeg, LegsAreTrips DEF ClosedOf
<1>6. /\ trip' = [trip EXCEPT ![t] = after]
      /\ Wrote(p, todo, Released(old, after))
      /\ UNCHANGED grouped
  BY DEF WriteStatus
<1>7. trip'[t] = after /\ Together' = Together
  BY <1>6 DEF IInv, TypeOK, Together
<1>8. request[p].op = "CLOSE" => \A v \in todo : Priceable(v)'
  BY <1>2, <1>7 DEF Priceable
<1>9. ASSUME NEW u \in Trips, u # t, Priceable(u), Together, t \in Legs, u \in Legs
      PROVE  \/ u \in todo
             \/ u \in ClosedPartner(t)' /\ t \in todo
             \/ PriceDataOf(u)' = PriceDataOf(u)
  <2>1. u = Other(t) /\ trip'[u] = trip[u]
    BY <1>2, <1>6, <1>9, TwoLegs, OthersKeepData
  <2>2. CASE to = "CLOSED"
    <3>1. u \in ClosedPartner(t)'
      BY <1>7, <1>9, <2>1 DEF ClosedPartner, Partner, Priceable
    <3> QED BY <2>2, <3>1
  <2>3. CASE to # "CLOSED" /\ moved
    BY <1>9, <2>1, <2>3 DEF ClosedOf
  <2>4. CASE to # "CLOSED" /\ ~moved
    <3>1. (after.status = "CANCELLED") = (trip[t].status = "CANCELLED")
      BY <1>1, <1>2, <2>4
    <3> QED BY <1>2, <1>6, <1>9, <3>1, OthersKeepData
  <2> QED BY <2>2, <2>3, <2>4
<1>10. Priceable(t)' => t \in todo
  BY <1>2, <1>7 DEF Priceable
<1> HIDE DEF todo, after, old
<1>11. Owing(p, t, todo)
  BY <1>8, <1>9, <1>10 DEF Owing
<1> QED BY <1>2, <1>4, <1>5, <1>6, <1>11, RowWriteOwes

LEMMA WriteRowIsSound ==
  ASSUME IInv, NEW p \in Requests, Sound(p), Write(p),
         WriteNumber(p) \/ WriteMove(p) \/ WriteEdit(p)
  PROVE  Sound(p)'
<1>0. PICK t : t = request[p].trip
  OBVIOUS
<1>1. /\ t \in Trips /\ request[p].before \in Row /\ request[p].phase = "write"
      /\ request[p].op = "NUMBER" => request[p].value \in Numbers \cup {NoNumber}
      /\ request[p].op = "MOVE" => request[p].value \in Days
      /\ request[p].op = "EDIT" => request[p].value \in Inputs
      /\ UNCHANGED snapshot
  BY <1>0 DEF Write, IInv, ChainsAreConsistent, Consistent
<1>2. trip[t] \in Row /\ trip \in [Trips -> Row]
  BY <1>1 DEF IInv, TypeOK
<1>3. CASE WriteNumber(p)
  <2> DEFINE after == [trip[t] EXCEPT !.number = request[p].value]
  <2>1. /\ after \in Row /\ after.status = trip[t].status
        /\ after.day = trip[t].day /\ after.inputs = trip[t].inputs
    BY <1>1, <1>2, <1>3 DEF WriteNumber, Row
  <2>2. /\ request[p].op = "NUMBER" /\ trip' = [trip EXCEPT ![t] = after]
        /\ Wrote(p, {t}, Released(request[p].before, after)) /\ grouped' = grouped
    BY <1>0, <1>3 DEF WriteNumber, WriteColumns
  <2>3. Released(request[p].before, after) \in TarDay \cup {NoClaim}
    BY <1>1, <2>1, ReleasedType
  <2> HIDE DEF after
  <2>4. \A u \in Trips : u # t => PriceDataOf(u)' = PriceDataOf(u)
    BY <1>1, <2>1, <2>2, OthersKeepData
  <2>5. {t} \in SUBSET Trips
    BY <1>1
  <2>6. Owing(p, t, {t})
    BY <2>2, <2>4 DEF Owing
  <2> QED BY <1>1, <2>1, <2>2, <2>3, <2>5, <2>6, RowWriteOwes
<1>4. CASE WriteMove(p)
  <2> DEFINE after == [trip[t] EXCEPT !.day = request[p].value]
             todo  == IF Partner(t) = {} THEN {} ELSE ClosedOf(Legs)
  <2>1. /\ after \in Row /\ after.status = trip[t].status
        /\ after.inputs = trip[t].inputs
    BY <1>1, <1>2, <1>4 DEF WriteMove, Row
  <2>2. /\ request[p].op = "MOVE" /\ trip' = [trip EXCEPT ![t] = after]
        /\ Wrote(p, todo, Released(request[p].before, after)) /\ grouped' = grouped
    BY <1>0, <1>4 DEF WriteMove, WriteColumns
  <2>3. Released(request[p].before, after) \in TarDay \cup {NoClaim}
    BY <1>1, <2>1, ReleasedType
  <2>4. todo \in SUBSET Trips
    BY LegsAreTrips DEF ClosedOf
  <2>5. trip'[t] = after /\ Together' = Together /\ \A u \in Trips : u # t => trip'[u] = trip[u]
    BY <1>1, <1>2, <2>2 DEF Together
  <2>6. ASSUME Priceable(t)'
        PROVE  \/ t \in todo
               \/ Priceable(t) /\ PriceDataOf(t)' = PriceDataOf(t)
    <3>1. CASE Partner(t) = {}
      <4>1. Partner(t)' = {}
        BY <2>5, <3>1, LegsAreTrips DEF Partner
      <4>2. grouped' = grouped
        BY <2>2
      <4> QED BY <2>1, <2>5, <2>6, <3>1, <4>1, <4>2 DEF PriceDataOf, Priceable
    <3>2. CASE Partner(t) # {}
      <4>1. t \in Legs
        BY <3>2 DEF Partner
      <4> QED BY <2>1, <2>5, <2>6, <3>2, <4>1 DEF ClosedOf, Priceable
    <3> QED BY <3>1, <3>2
  <2>7. ASSUME NEW u \in Trips, u # t, Priceable(u), Together, t \in Legs, u \in Legs
        PROVE  u \in todo
    BY <2>7 DEF Partner, ClosedOf, Priceable
  <2> HIDE DEF after, todo
  <2>8. Owing(p, t, todo)
    BY <2>2, <2>6, <2>7 DEF Owing
  <2> QED BY <1>1, <2>1, <2>2, <2>3, <2>4, <2>8, RowWriteOwes
<1>5. CASE WriteEdit(p)
  <2> DEFINE after == [trip[t] EXCEPT !.inputs = request[p].value]
  <2>1. after \in Row
    BY <1>1, <1>2, <1>5 DEF WriteEdit, Row
  <2>2. /\ request[p].op = "EDIT" /\ trip' = [trip EXCEPT ![t] = after]
        /\ Wrote(p, {t}, Released(request[p].before, after)) /\ grouped' = grouped
    BY <1>0, <1>5 DEF WriteEdit, WriteColumns
  <2>3. Released(request[p].before, after) \in TarDay \cup {NoClaim}
    BY <1>1, <2>1, ReleasedType
  <2>4. {t} \in SUBSET Trips
    BY <1>1
  <2>5. ASSUME NEW u \in Trips, u # t, Priceable(u), Together, t \in Legs, u \in Legs
        PROVE  u \in ClosedPartner(t)'
    BY <1>2, <2>2, <2>5 DEF ClosedPartner, Partner, Priceable, Together
  <2> HIDE DEF after
  <2>6. Owing(p, t, {t})
    BY <2>2, <2>5 DEF Owing
  <2> QED BY <1>1, <2>1, <2>2, <2>3, <2>4, <2>6, RowWriteOwes
<1> QED BY <1>3, <1>4, <1>5

(* What a change of the groups outdates is to be priced.                   *)
Regroups(todo) ==
  \A u \in Trips : Priceable(u) =>
    \/ u \in todo
    \/ /\ (u \in grouped') = (u \in grouped)
       /\ Together' = Together \/ u \notin Legs

LEMMA LinkRegroups ==
  ASSUME grouped \subseteq Legs, grouped' \subseteq Legs
  PROVE  Regroups(ClosedOf(Legs))
BY DEF Regroups, ClosedOf

LEMMA UnlinkRegroups ==
  ASSUME grouped \subseteq Legs, NEW t, grouped' = grouped \ {t}
  PROVE  Regroups(ClosedOf(IF grouped \cup {t} = Legs THEN Legs ELSE {t}))
<1>1. CASE grouped \cup {t} = Legs
  BY <1>1, LinkRegroups
<1>2. CASE grouped \cup {t} # Legs
  <2>1. CASE grouped = Legs
    <3>1. grouped' = grouped
      BY <1>2, <2>1
    <3> QED BY <1>2, <3>1 DEF Regroups, Together
  <2>2. CASE grouped # Legs
    <3>1. grouped' # Legs
      BY <2>2
    <3>2. Together' = Together
      BY <2>2, <3>1 DEF Together
    <3>3. \A u \in Trips : u # t => (u \in grouped') = (u \in grouped)
      OBVIOUS
    <3>4. Priceable(t) => t \in ClosedOf({t})
      BY DEF ClosedOf
    <3> QED BY <1>2, <3>2, <3>3, <3>4 DEF Regroups
  <2> QED BY <2>1, <2>2
<1> QED BY <1>1, <1>2

(* A change of the group: the CLOSED trips it concerns are owed, the       *)
(* others keep what they were worth.                                       *)
LEMMA GroupWriteIsSound ==
  ASSUME IInv, NEW p \in Requests, Sound(p), request[p].phase = "write",
         request[p].op \notin {"REPRICE", "CLOSE"},
         UNCHANGED <<trip, snapshot>>, NEW todo \in SUBSET Trips,
         Wrote(p, todo, NoClaim), Regroups(todo)
  PROVE  Sound(p)'
<1> SUFFICES ASSUME NEW u \in Trips, Shown(u)'
             PROVE  Current(u)' \/ u \in todo
  BY WroteIsSound
<1>1. Shown(u) /\ Priceable(u)
  BY DEF Shown, Priceable
<1>2. Current(u)
  BY <1>1 DEF Sound, Paid, Wrote_
<1>3. CASE u \in todo
  BY <1>3
<1>4. CASE u \notin todo
  <2>1. (u \in grouped') = (u \in grouped) /\ (Together' = Together \/ u \notin Legs)
    BY <1>1, <1>4 DEF Regroups
  <2>2. Partner(u)' = Partner(u)
    BY <2>1 DEF Partner
  <2>3. PriceDataOf(u)' = PriceDataOf(u)
    BY <2>1, <2>2 DEF PriceDataOf
  <2> QED BY <1>2, <2>3 DEF Current
<1> QED BY <1>3, <1>4

(* Nothing is owed before a write and after the answer.                    *)
LEMMA RestIsSound ==
  ASSUME IInv, NEW p \in Requests, UNCHANGED <<trip, grouped, snapshot>>,
         \A u \in Trips : Shown(u) => Current(u),
         \/ request'[p] = Idle
         \/ /\ request'[p].phase = "write"
            /\ request'[p].before = trip[request'[p].trip]
            /\ request'[p].moved = {} /\ request'[p].todo = {}
  PROVE  Sound(p)'
<1>1. /\ request'[p].phase \in {"idle", "write"}
      /\ request'[p].moved = {} /\ request'[p].todo = {}
      /\ request'[p].phase = "write" => request'[p].before = trip'[request'[p].trip]
  BY DEF Idle
<1>2. \A u \in Trips : Shown(u)' => Current(u)'
  BY SamePrices DEF Shown, Current
<1>3. Paid(p)'
  BY <1>2 DEF Paid
<1>4. AsRead(p)'
  BY <1>1 DEF AsRead
<1>5. Fitting(p)' /\ Calculated(p)'
  BY <1>1 DEF Fitting, Calculated, AtWork
<1> QED BY <1>3, <1>4, <1>5 DEF Sound

LEMMA ArrivesIsSound ==
  ASSUME IInv, NEW p \in Requests, NEW t \in Trips, Sound(p), Arrives(p, t)
  PROVE  Sound(p)' /\ UNCHANGED <<trip, grouped, snapshot, clock, crashed>>
<1>1. PICK op, value : Receives(p, op, t, value)
  BY DEF Arrives, Close, Reopen, Cancel, SetNumber, MoveDay, EditInputs,
         Reprocess, Link, Unlink
<1>2. /\ request[p].phase = "idle" /\ UNCHANGED <<trip, grouped, snapshot, clock, crashed>>
      /\ request'[p].phase = "write" /\ request'[p].before = trip[t]
      /\ request'[p].trip = t
      /\ request'[p].moved = {} /\ request'[p].todo = {}
  BY <1>1 DEF Receives, Idle, IInv, TypeOK
<1>3. \A u \in Trips : Shown(u) => Current(u)
  BY <1>2 DEF Sound, Paid, Wrote_
<1> QED BY <1>2, <1>3, RestIsSound

LEMMA WriteIsSound ==
  ASSUME IInv, NEW p \in Requests, Sound(p), Write(p)
  PROVE  Sound(p)' /\ UNCHANGED <<snapshot, clock, crashed>>
<1>0. PICK t : t = request[p].trip
  OBVIOUS
<1>1. /\ t \in Trips /\ request[p].phase = "write"
      /\ UNCHANGED <<snapshot, clock, crashed>> /\ grouped \subseteq Legs
  BY <1>0 DEF Write, IInv, TypeOK, ChainsAreConsistent, Consistent
<1>2. \A u \in Trips : Shown(u) => Current(u)
  BY <1>1 DEF Sound, Paid, Wrote_
<1>3. CASE WriteClose(p) \/ WriteReopen(p) \/ WriteCancel(p)
  <2>1. PICK to \in Statuses : /\ WriteStatus(p, t, to)
                               /\ request[p].op \in {"CLOSE", "OPEN", "CANCEL"}
                               /\ request[p].op = "CLOSE" => to = "CLOSED"
    BY <1>0, <1>3 DEF WriteClose, WriteReopen, WriteCancel, Statuses
  <2> QED BY <1>0, <1>1, <2>1, WriteStatusIsSound
<1>4. CASE WriteNumber(p) \/ WriteMove(p) \/ WriteEdit(p)
  BY <1>1, <1>4, WriteRowIsSound
<1>5. CASE WriteNothing(p)
  <2>1. Wrote(p, {t}, NoClaim) /\ UNCHANGED <<trip, grouped>> /\ request[p].op = "REPRICE"
    BY <1>0, <1>5 DEF WriteNothing
  <2>2. \A u \in Trips : Shown(u)' => Current(u)'
    BY <1>1, <1>2, <2>1, SamePrices DEF Shown, Current
  <2>3. {t} \in SUBSET Trips /\ NoClaim \in TarDay \cup {NoClaim}
    BY <1>1
  <2> QED BY <1>1, <2>1, <2>2, <2>3, WroteIsSound
<1>6. CASE WriteLink(p)
  <2>1. CASE grouped = {}
    <3>1. /\ Wrote(p, ClosedOf(Legs), NoClaim) /\ trip' = trip
          /\ request[p].op = "LINK" /\ grouped' = Legs
      BY <1>6, <2>1 DEF WriteLink
    <3>2. ClosedOf(Legs) \in SUBSET Trips
      BY LegsAreTrips DEF ClosedOf
    <3>3. Regroups(ClosedOf(Legs))
      BY <2>1, <3>1, LinkRegroups
    <3> QED BY <1>1, <3>1, <3>2, <3>3, GroupWriteIsSound
  <2>2. CASE grouped # {}
    <3>1. UNCHANGED <<trip, grouped, snapshot>> /\ request'[p] = Idle
      BY <1>1, <1>6, <2>2 DEF WriteLink, IInv, TypeOK
    <3> QED BY <1>1, <1>2, <3>1, RestIsSound
  <2> QED BY <2>1, <2>2
<1>7. CASE WriteUnlink(p)
  <2> DEFINE todo == ClosedOf(IF grouped \cup {t} = Legs THEN Legs ELSE {t})
  <2>1. /\ Wrote(p, todo, NoClaim) /\ trip' = trip /\ grouped' = grouped \ {t}
        /\ request[p].op = "UNLINK"
    BY <1>0, <1>7 DEF WriteUnlink
  <2>2. todo \in SUBSET Trips
    BY <1>1, LegsAreTrips DEF ClosedOf
  <2>3. Regroups(todo)
    BY <1>1, <2>1, UnlinkRegroups
  <2> HIDE DEF todo
  <2> QED BY <1>1, <2>1, <2>2, <2>3, GroupWriteIsSound
<1> QED BY <1>1, <1>3, <1>4, <1>5, <1>6, <1>7 DEF Write
---------------------------------------------------------------------------
(* It chooses what to price: what it owes is in its scope.                 *)

LEMMA OwedInScope ==
  ASSUME NEW t \in Trips, NEW u \in Trips, Priceable(u),
         NEW v \in {t} \cup ClosedPartner(t), u = v \/ u \in ClosedPartner(v)
  PROVE  u = t \/ u \in ClosedPartner(t)
<1>1. CASE v = t
  BY <1>1
<1>2. CASE v \in Partner(t)
  <2>1. t = Other(v) /\ v \in Trips
    BY <1>2, PartnerIsOther
  <2>2. u \in ClosedPartner(v) => u = t
    BY <2>1, PartnerIsOther DEF ClosedPartner
  <2>3. u = v => u \in ClosedPartner(t)
    BY <1>2 DEF ClosedPartner
  <2> QED BY <2>2, <2>3
<1> QED BY <1>1, <1>2 DEF ClosedPartner

LEMMA StartPricingIsSound ==
  ASSUME IInv, ClockIsPast, NEW p \in Requests, Sound(p), StartPricing(p)
  PROVE  Sound(p)'
<1>1. /\ request[p] \in Request /\ request[p].phase = "price"
      /\ request[p].results = <<>> /\ request[p].stored = 0
      /\ UNCHANGED <<trip, grouped, snapshot, clock>> /\ clock \in Nat
  BY DEF StartPricing, IInv, TypeOK, ChainsAreConsistent, Consistent
<1>2. PICK t \in request[p].todo :
        request' = [request EXCEPT
            ![p].todo  = @ \ ({t} \cup ClosedPartner(t)),
            ![p].phase = IF Scope(p, t) = <<>> THEN "price" ELSE "calculate",
            ![p].scope = Scope(p, t),
            ![p].since = clock]
  BY DEF StartPricing
<1>3. t \in Trips
  BY <1>1, <1>2 DEF Request
<1> PICK scope : scope = Scope(p, t)
  OBVIOUS
<1>4. /\ request'[p].todo = request[p].todo \ ({t} \cup ClosedPartner(t))
      /\ request'[p].phase = IF scope = <<>> THEN "price" ELSE "calculate"
      /\ request'[p].scope = scope
      /\ request'[p].since = clock
  BY <1>1, <1>2 DEF IInv, TypeOK, Request
<1>5. /\ request'[p].op = request[p].op /\ request'[p].settles = request[p].settles
      /\ request'[p].moved = request[p].moved
      /\ request'[p].results = <<>> /\ request'[p].stored = 0
  BY <1>1, <1>2 DEF IInv, TypeOK, Request
<1>6. /\ \A u \in Trips : Shown(u)' = Shown(u) /\ Current(u)' = Current(u)
      /\ \A u \in Trips : snapshot'[u] = snapshot[u]
      /\ \A u : Priceable(u)' = Priceable(u) /\ ClosedPartner(u)' = ClosedPartner(u)
  BY <1>1, SamePrices DEF Shown, Current
<1>7. request[p].settles /\ (request[p].op = "CLOSE" => Priceable(t))
  BY <1>1, <1>2 DEF Sound, Fitting
<1>8. scope \in Seq(Trips)
  BY <1>3, ScopeType
<1>9. Paid(p)'
  <2> SUFFICES ASSUME NEW u \in Trips, Shown(u)', ~Current(u)'
               PROVE  (request[p].op # "REPRICE" /\ Wrote_(p) /\ Due(p, u))'
    BY DEF Paid
  <2>1. request[p].op # "REPRICE" /\ Due(p, u) /\ Priceable(u)
    BY <1>6 DEF Sound, Paid, Shown
  <2>2. PICK v \in request[p].todo : u = v \/ u \in ClosedPartner(v)
    BY <1>1, <2>1 DEF Due, AtWork
  <2>3. Wrote_(p)'
    BY <1>4 DEF Wrote_
  <2>4. CASE v \notin {t} \cup ClosedPartner(t)
    <3>1. v \in request'[p].todo /\ (u = v \/ u \in ClosedPartner(v)')
      BY <1>4, <1>6, <2>2, <2>4
    <3>2. Due(p, u)'
      BY <3>1 DEF Due
    <3> QED BY <1>5, <2>1, <2>3, <3>2
  <2>5. CASE v \in {t} \cup ClosedPartner(t)
    <3>1. u = t \/ u \in ClosedPartner(t)
      BY <1>3, <2>1, <2>2, <2>5, OwedInScope
    <3>2. PICK i \in DOMAIN scope : scope[i] = u
      BY <1>3, <2>1, <3>1, ScopeHolds
    <3>3. scope # <<>> /\ i > 0
      BY <1>8, <3>2
    <3>4. Due(p, u)'
      BY <1>4, <1>5, <3>2, <3>3 DEF Due, AtWork
    <3> QED BY <1>5, <2>1, <2>3, <3>4
  <2> QED BY <2>4, <2>5
<1>10. AsRead(p)'
  BY <1>4 DEF AsRead
<1>11. Fitting(p)'
  <2>1. \A u \in request'[p].moved : Priceable(u)'
    BY <1>5, <1>6 DEF Sound, Fitting
  <2>2. request'[p].op = "CLOSE" => \A u \in request'[p].todo : Priceable(u)'
    BY <1>4, <1>5, <1>6 DEF Sound, Fitting
  <2>3. ASSUME request'[p].op # "REPRICE", NEW i \in DOMAIN scope, NEW u \in Trips, scope[i] = u
        PROVE  Priceable(u)
    <3>1. CASE Priceable(t) \/ request[p].op = "CLOSE"
      BY <1>3, <1>7, <2>3, <3>1, ScopeHolds DEF ClosedPartner
    <3>2. CASE ~Priceable(t) /\ request[p].op # "CLOSE"
      <4>1. request[p].op \notin {"CLOSE", "REPRICE"}
        BY <1>5, <2>3, <3>2
      <4>2. \A j \in DOMAIN scope : scope[j] \in ClosedPartner(t)
        BY <1>3, <1>7, <3>2, <4>1, ScopeHolds
      <4> QED BY <2>3, <4>2 DEF ClosedPartner
    <3> QED BY <3>1, <3>2
  <2> QED BY <1>4, <1>5, <1>6, <1>7, <2>1, <2>2, <2>3 DEF Fitting
<1>12. Calculated(p)'
  <2>1. DOMAIN <<>> = {}
    OBVIOUS
  <2>2. request'[p].phase \in AtWork => request'[p].phase = "calculate"
    BY <1>4 DEF AtWork
  <2>3. ASSUME NEW u \in Trips, Shown(u)', snapshot'[u].at >= clock PROVE FALSE
    <3>1. snapshot[u] \in Snapshot /\ snapshot[u].at < clock
      BY <1>1, <1>6, <2>3 DEF ClockIsPast, Shown, IInv, TypeOK
    <3> QED BY <1>1, <1>6, <2>3, <3>1 DEF Snapshot
  <2>4. clock <= clock'
    BY <1>1
  <2> QED BY <1>4, <1>5, <2>1, <2>2, <2>3, <2>4 DEF Calculated
<1> QED BY <1>9, <1>10, <1>11, <1>12 DEF Sound

LEMMA StartSettlingIsSound ==
  ASSUME IInv, ClockIsPast, NEW p \in Requests, Sound(p), StartSettling(p)
  PROVE  Sound(p)'
<1>1. /\ request[p] \in Request /\ request[p].phase = "resettle"
      /\ request[p].results = <<>> /\ request[p].stored = 0
      /\ UNCHANGED <<trip, grouped, snapshot, clock>> /\ clock \in Nat
  BY DEF StartSettling, IInv, TypeOK, ChainsAreConsistent, Consistent
<1>2. PICK t \in request[p].moved :
        request' = [request EXCEPT ![p].moved = @ \ {t},
                                   ![p].phase = "calculate",
                                   ![p].scope = Scope(p, t),
                                   ![p].since = clock]
  BY DEF StartSettling
<1>3. t \in Trips /\ Priceable(t)
  BY <1>1, <1>2 DEF Request, Sound, Fitting
<1> PICK scope : scope = Scope(p, t)
  OBVIOUS
<1>4. /\ request'[p].moved = request[p].moved \ {t}
      /\ request'[p].phase = "calculate"
      /\ request'[p].scope = scope
      /\ request'[p].since = clock
  BY <1>1, <1>2 DEF IInv, TypeOK, Request
<1>5. /\ request'[p].op = request[p].op
      /\ request'[p].todo = request[p].todo
      /\ request'[p].results = <<>> /\ request'[p].stored = 0
  BY <1>1, <1>2 DEF IInv, TypeOK, Request
<1>6. /\ \A u \in Trips : Shown(u)' = Shown(u) /\ Current(u)' = Current(u)
      /\ \A u \in Trips : snapshot'[u] = snapshot[u]
      /\ \A u : Priceable(u)' = Priceable(u) /\ ClosedPartner(u)' = ClosedPartner(u)
  BY <1>1, SamePrices DEF Shown, Current
<1>8. scope \in Seq(Trips)
  BY <1>3, ScopeType
<1>9. Paid(p)'
  <2> SUFFICES ASSUME NEW u \in Trips, Shown(u)', ~Current(u)'
               PROVE  (request[p].op # "REPRICE" /\ Wrote_(p) /\ Due(p, u))'
    BY DEF Paid
  <2>1. request[p].op # "REPRICE" /\ Due(p, u)
    BY <1>6 DEF Sound, Paid
  <2>2. PICK v \in request[p].todo : u = v \/ u \in ClosedPartner(v)
    BY <1>1, <2>1 DEF Due, AtWork
  <2>3. Due(p, u)'
    BY <1>5, <1>6, <2>2 DEF Due
  <2> QED BY <1>4, <1>5, <2>1, <2>3 DEF Wrote_
<1>10. AsRead(p)'
  BY <1>4 DEF AsRead
<1>11. Fitting(p)'
  <2>1. \A u \in request'[p].moved : Priceable(u)'
    BY <1>4, <1>6 DEF Sound, Fitting
  <2>2. request'[p].op = "CLOSE" => \A u \in request'[p].todo : Priceable(u)'
    BY <1>5, <1>6 DEF Sound, Fitting
  <2>3. ASSUME NEW i \in DOMAIN scope, NEW u \in Trips, scope[i] = u PROVE Priceable(u)
    BY <1>3, <2>3, ScopeHolds DEF ClosedPartner
  <2> QED BY <1>4, <1>5, <1>6, <2>1, <2>2, <2>3 DEF Fitting
<1>12. Calculated(p)'
  <2>1. DOMAIN <<>> = {}
    OBVIOUS
  <2>3. ASSUME NEW u \in Trips, Shown(u)', snapshot'[u].at >= clock PROVE FALSE
    <3>1. snapshot[u] \in Snapshot /\ snapshot[u].at < clock
      BY <1>1, <1>6, <2>3 DEF ClockIsPast, Shown, IInv, TypeOK
    <3> QED BY <1>1, <1>6, <2>3, <3>1 DEF Snapshot
  <2>4. clock <= clock'
    BY <1>1
  <2> QED BY <1>4, <1>5, <2>1, <2>3, <2>4 DEF Calculated
<1> QED BY <1>9, <1>10, <1>11, <1>12 DEF Sound

LEMMA BetweenIsSound ==
  ASSUME IInv, NEW p \in Requests, Sound(p),
         SettlementDone(p) \/ Release(p) \/ Answer(p)
  PROVE  Sound(p)'
<1>1. request[p] \in Request /\ UNCHANGED <<trip, grouped, snapshot>>
  BY DEF SettlementDone, Release, Answer, IInv, TypeOK
<1>2. /\ \A u \in Trips : Shown(u)' = Shown(u) /\ Current(u)' = Current(u)
      /\ \A u : Priceable(u)' = Priceable(u) /\ ClosedPartner(u)' = ClosedPartner(u)
  BY <1>1, SamePrices DEF Shown, Current
<1>3. CASE SettlementDone(p)
  <2>1. /\ request[p].phase = "resettle" /\ request'[p].phase = "price"
        /\ request'[p].settles /\ request'[p].moved = request[p].moved
        /\ request'[p].op = request[p].op /\ request'[p].todo = request[p].todo
    BY <1>1, <1>3 DEF SettlementDone, IInv, TypeOK, Request
  <2>2. \A u \in Trips : Due(p, u) => Due(p, u)'
    BY <1>2, <2>1 DEF Due, AtWork
  <2>3. Paid(p)'
    BY <1>2, <2>1, <2>2 DEF Sound, Paid, Wrote_
  <2>4. Fitting(p)'
    BY <1>2, <2>1 DEF Sound, Fitting, AtWork
  <2> QED BY <2>1, <2>3, <2>4 DEF Sound, AsRead, Calculated, AtWork
<1>4. CASE Release(p) \/ Answer(p)
  <2>1. request[p].phase = "price" /\ request[p].todo = {}
    BY <1>4 DEF Release, Answer
  <2>2. \A u \in Trips : Shown(u) => Current(u)
    BY <2>1 DEF Sound, Paid, Due, AtWork
  <2>3. CASE Release(p)
    <3>1. /\ request'[p].todo = ClosedStating(request[p].release, request[p].trip)
          /\ request'[p].moved = request[p].moved
      BY <1>1, <2>3 DEF Release, IInv, TypeOK, Request
    <3>2. /\ request'[p].phase = "price" /\ request'[p].settles = request[p].settles
          /\ request'[p].op = request[p].op
      BY <1>1, <2>3 DEF Release, IInv, TypeOK, Request
    <3>3. Fitting(p)'
      BY <1>2, <2>1, <3>1, <3>2 DEF Sound, Fitting, AtWork, ClosedStating
    <3>4. Paid(p)'
      BY <1>2, <2>2 DEF Paid
    <3> QED BY <3>2, <3>3, <3>4 DEF Sound, AsRead, Calculated, AtWork
  <2>4. CASE Answer(p)
    <3>1. request'[p] = Idle
      BY <2>4 DEF Answer, IInv, TypeOK
    <3> QED BY <1>1, <2>2, <3>1, RestIsSound
  <2> QED BY <1>4, <2>3, <2>4
<1> QED BY <1>3, <1>4
---------------------------------------------------------------------------
(* It stops pricing a scope: what it owed there is settled, in one way or  *)
(* another.                                                                *)

LEMMA LeavingIsSound ==
  ASSUME IInv, NEW p \in Requests, Sound(p), request[p].phase \in AtWork \cup {"settle"},
         UNCHANGED <<trip, grouped>>,
         NEW moved \in SUBSET Trips, \A u \in moved : Priceable(u),
         /\ request'[p].op = request[p].op /\ request'[p].todo = request[p].todo
         /\ request'[p].phase \in {"price", "resettle"}
         /\ request'[p].phase = "price" => request'[p].settles
         /\ request'[p].moved = moved,
         \A u \in Trips : Shown(u)' =>
           \/ Current(u)'
           \/ /\ request[p].op # "REPRICE"
              /\ \E v \in request[p].todo : u = v \/ u \in ClosedPartner(v)
  PROVE  Sound(p)'
<1>1. \A u : Priceable(u)' = Priceable(u) /\ ClosedPartner(u)' = ClosedPartner(u)
  BY SamePrices
<1>2. Paid(p)'
  <2> SUFFICES ASSUME NEW u \in Trips, Shown(u)', ~Current(u)'
               PROVE  (request[p].op # "REPRICE" /\ Wrote_(p) /\ Due(p, u))'
    BY DEF Paid
  <2>1. PICK v \in request[p].todo : u = v \/ u \in ClosedPartner(v)
    OBVIOUS
  <2>2. v \in request'[p].todo /\ (u = v \/ u \in ClosedPartner(v)')
    BY <1>1, <2>1
  <2>3. Due(p, u)'
    BY <2>2 DEF Due
  <2>4. request[p].op # "REPRICE"
    OBVIOUS
  <2> QED BY <2>3, <2>4 DEF Wrote_
<1>3. Fitting(p)'
  <2>1. request[p].op = "CLOSE" => \A t \in request[p].todo : Priceable(t)
    BY DEF Sound, Fitting
  <2> QED BY <1>1, <2>1 DEF Fitting, AtWork
<1> QED BY <1>2, <1>3 DEF Sound, AsRead, Calculated, AtWork

(* What is owed on entering: by the trips it has to do, or by its scope.   *)
LEMMA OwedOutside ==
  ASSUME NEW p \in Requests, NEW u \in Trips, Sound(p), Shown(u),
         \/ request[p].phase \notin AtWork
         \/ \A i \in DOMAIN request[p].scope : i > request[p].stored => request[p].scope[i] # u
  PROVE  \/ Current(u)
         \/ /\ request[p].op # "REPRICE"
            /\ \E v \in request[p].todo : u = v \/ u \in ClosedPartner(v)
BY DEF Sound, Paid, Due

LEMMA LeaveFields ==
  ASSUME IInv, NEW p \in Requests, request' = [request EXCEPT ![p] = Leave(@)]
  PROVE  /\ request'[p].op = request[p].op /\ request'[p].todo = request[p].todo
         /\ request'[p].phase \in {"price", "resettle"}
         /\ request'[p].phase = "price" => request'[p].settles
         /\ request'[p].moved = request[p].moved
         /\ request[p].moved \in SUBSET Trips
<1>1. request[p] \in Request /\ request'[p] = Leave(request[p])
  BY DEF IInv, TypeOK
<1>2. PICK req \in Request : req = request[p]
  BY <1>1
<1>3. /\ Leave(req).op = req.op /\ Leave(req).todo = req.todo
      /\ Leave(req).moved = req.moved /\ Leave(req).settles = req.settles
      /\ Leave(req).phase = IF req.settles THEN "price" ELSE "resettle"
      /\ req.moved \in SUBSET Trips
  BY <1>2 DEF Leave, Request
<1> QED BY <1>1, <1>2, <1>3

(* markNotCurrent: what a failed pricing owed is shown no more, unless it  *)
(* was stored after the pricing began.                                     *)
LEMMA FailIsSound ==
  ASSUME IInv, NEW p \in Requests, Sound(p), request[p].phase \in AtWork,
         Fail(p), UNCHANGED <<trip, grouped, clock>>
  PROVE  Sound(p)' /\ (ClockIsPast => ClockIsPast')
<1>1. /\ snapshot' = Marked(p) /\ request' = [request EXCEPT ![p] = Leave(@)]
      /\ request[p] \in Request /\ snapshot \in [Trips -> Snapshot \cup {NoSnapshot}]
  BY DEF Fail, IInv, TypeOK
<1>2. ASSUME NEW u \in Trips
      PROVE  \/ snapshot'[u] = snapshot[u]
             \/ /\ snapshot[u] \in Snapshot
                /\ snapshot'[u] = [snapshot[u] EXCEPT !.failed = TRUE]
                /\ snapshot'[u].failed /\ snapshot'[u].at = snapshot[u].at
  <2>1. CASE snapshot'[u] = snapshot[u]
    BY <2>1
  <2>2. CASE snapshot[u] # NoSnapshot /\ snapshot'[u] = [snapshot[u] EXCEPT !.failed = TRUE]
    BY <1>1, <2>2 DEF Snapshot
  <2> QED BY <1>1, <2>1, <2>2 DEF Marked
<1>3. ASSUME NEW u \in Trips, Shown(u)'
      PROVE  snapshot'[u] = snapshot[u] /\ Shown(u) /\ Current(u)' = Current(u)
  <2>1. snapshot'[u] = snapshot[u]
    BY <1>2, <1>3 DEF Shown
  <2> QED BY <1>3, <2>1, SamePrices DEF Shown, Current
<1>4. ASSUME NEW u \in Trips, Shown(u)',
             NEW i \in DOMAIN request[p].scope, request[p].scope[i] = u
      PROVE  Current(u)
  <2>1. snapshot'[u] = snapshot[u] /\ Shown(u) /\ snapshot[u] \in Snapshot
    BY <1>1, <1>3, <1>4 DEF Shown
  <2>2. ~(snapshot[u].at < request[p].since)
    <3> SUFFICES ASSUME snapshot[u].at < request[p].since PROVE FALSE
      OBVIOUS
    <3>1. snapshot'[u] = [snapshot[u] EXCEPT !.failed = TRUE]
      BY <1>1, <1>4, <2>1 DEF Marked, Shown
    <3>2. snapshot'[u].failed
      BY <2>1, <3>1 DEF Snapshot
    <3> QED BY <1>4, <3>2 DEF Shown
  <2>3. snapshot[u].at >= request[p].since
    BY <1>1, <2>1, <2>2 DEF Snapshot, Request
  <2> QED BY <1>4, <2>1, <2>3 DEF Sound, Calculated
<1>5. ASSUME NEW u \in Trips, Shown(u)'
      PROVE  \/ Current(u)'
             \/ /\ request[p].op # "REPRICE"
                /\ \E v \in request[p].todo : u = v \/ u \in ClosedPartner(v)
  <2>1. CASE Current(u)
    BY <1>3, <1>5, <2>1
  <2>2. CASE ~Current(u)
    <3>1. \A i \in DOMAIN request[p].scope : request[p].scope[i] # u
      BY <1>4, <1>5, <2>2
    <3> QED BY <1>3, <1>5, <2>2, <3>1, OwedOutside
  <2> QED BY <2>1, <2>2
<1>6. Sound(p)'
  <2>1. \A u \in request[p].moved : Priceable(u)
    BY DEF Sound, Fitting
  <2> QED BY <1>1, <1>5, <2>1, LeaveFields, LeavingIsSound
<1>7. ASSUME ClockIsPast PROVE ClockIsPast'
  <2> SUFFICES ASSUME NEW u \in Trips, snapshot'[u] # NoSnapshot PROVE snapshot'[u].at < clock
    BY DEF ClockIsPast
  <2>1. snapshot[u] # NoSnapshot /\ snapshot'[u].at = snapshot[u].at
    BY <1>2 DEF Snapshot, NoSnapshot
  <2> QED BY <1>7, <2>1 DEF ClockIsPast
<1> QED BY <1>6, <1>7

(* The engine refuses a trip that is not CLOSED: of a pair it was to price *)
(* only when it was asked to reprice a trip that is not.                   *)
LEMMA RefusedIsSound ==
  ASSUME IInv, NEW p \in Requests, Sound(p), request[p].phase \in AtWork,
         request' = [request EXCEPT ![p] = Leave(@)],
         UNCHANGED <<trip, grouped, snapshot>>,
         NEW i \in DOMAIN request[p].scope, ~Priceable(request[p].scope[i])
  PROVE  Sound(p)'
<1>1. PICK t : t = request[p].scope[i]
  OBVIOUS
<1>2. t \in Trips /\ ~Priceable(t)
  BY <1>1 DEF IInv, TypeOK, Request
<1>3. request[p].op = "REPRICE"
  BY <1>1, <1>2 DEF Sound, Fitting
<1>4. \A u \in Trips : Shown(u)' => Current(u)'
  <2>1. \A u \in Trips : Shown(u) => Current(u)
    BY <1>3 DEF Sound, Paid
  <2> QED BY <2>1, SamePrices DEF Shown, Current
<1>5. \A u \in request[p].moved : Priceable(u)
  BY DEF Sound, Fitting
<1> QED BY <1>4, <1>5, LeaveFields, LeavingIsSound

LEMMA SettleIsSound ==
  ASSUME IInv, NEW p \in Requests, Sound(p), Settle(p)
  PROVE  Sound(p)'
<1>1. /\ request[p] \in Request /\ request[p].phase = "settle"
      /\ UNCHANGED <<trip, grouped, snapshot>>
  BY DEF Settle, IInv, TypeOK
<1>2. \A u \in Trips : Shown(u)' =>
           \/ Current(u)'
           \/ /\ request[p].op # "REPRICE"
              /\ \E v \in request[p].todo : u = v \/ u \in ClosedPartner(v)
  <2>1. \A u \in Trips : Shown(u)' = Shown(u) /\ Current(u)' = Current(u)
    BY <1>1, SamePrices DEF Shown, Current
  <2>2. request[p].phase \notin AtWork
    BY <1>1 DEF AtWork
  <2> QED BY <2>1, <2>2, OwedOutside
<1>3. CASE Movers(p) = {}
  <2>1. request' = [request EXCEPT ![p] = Leave(@)]
    BY <1>3 DEF Settle
  <2>2. \A u \in request[p].moved : Priceable(u)
    BY DEF Sound, Fitting
  <2> QED BY <1>1, <1>2, <2>1, <2>2, LeaveFields, LeavingIsSound
<1>4. CASE Movers(p) # {}
  <2> DEFINE left == Leave(request[p])
             next == [left EXCEPT !.moved = Movers(p), !.settles = FALSE, !.phase = "resettle"]
  <2>1. left \in Request /\ left.op = request[p].op /\ left.todo = request[p].todo
    BY ZenonT(40), <1>1, LeaveIsConsistent DEF Leave, Request
  <2>2. request'[p] = next
    BY <1>4 DEF Settle, IInv, TypeOK
  <2> HIDE DEF left
  <2>3. /\ next.op = left.op /\ next.todo = left.todo
        /\ next.phase = "resettle" /\ next.moved = Movers(p)
    BY <2>1 DEF Request
  <2>4. Movers(p) \in SUBSET Trips /\ \A u \in Movers(p) : Priceable(u)
    <3>1. \A tar : /\ Surplus(tar) \subseteq Trips
                   /\ \A u \in Surplus(tar) : Priceable(u)
      BY DEF Surplus, ValidHolders, Holders, Stating
    <3>2. \A tar, t : /\ ClosedStating(tar, t) \subseteq Trips
                      /\ \A u \in ClosedStating(tar, t) : Priceable(u)
      BY DEF ClosedStating, Stating
    <3> QED BY <3>1, <3>2 DEF Movers
  <2> HIDE DEF next
  <2>5. PICK moved : moved = Movers(p)
    OBVIOUS
  <2>6. /\ request'[p].op = request[p].op /\ request'[p].todo = request[p].todo
        /\ request'[p].phase = "resettle" /\ request'[p].moved = moved
        /\ moved \in SUBSET Trips /\ \A u \in moved : Priceable(u)
    BY <2>1, <2>2, <2>3, <2>4, <2>5
  <2> QED BY <1>1, <1>2, <2>6, LeavingIsSound
<1> QED BY <1>3, <1>4
---------------------------------------------------------------------------
(* It calculates and stores.                                               *)

LEMMA CalculateIsSound ==
  ASSUME IInv, NEW p \in Requests, Sound(p), Calculate(p)
  PROVE  Sound(p)'
<1> DEFINE n == Len(request[p].results)
<1>1. /\ request[p] \in Request /\ request[p].phase = "calculate"
      /\ request[p].stored = 0 /\ n < Len(request[p].scope)
      /\ UNCHANGED <<trip, grouped, snapshot>> /\ clock' = clock + 1 /\ clock \in Nat
  BY DEF Calculate, IInv, TypeOK, ChainsAreConsistent, Consistent
<1>2. /\ request[p].results \in Seq(Result) /\ request[p].scope \in Seq(Trips)
      /\ n \in Nat /\ Len(request[p].scope) \in Nat /\ request[p].since \in Nat
  BY <1>1 DEF Request
<1>3. PICK t \in Trips : t = request[p].scope[n + 1]
  BY <1>1, <1>2
<1>4. PICK result : result = Calculation(t)
  OBVIOUS
<1>5. result \in Result /\ result.at = clock /\ result.read = PriceDataOf(t)
  BY <1>4, CalculationType DEF Calculation, IInv
<1> DEFINE results == Append(request[p].results, result)
           at == request'[p]
<1>6. /\ results \in Seq(Result) /\ Len(results) = n + 1
      /\ results[n + 1] = result
      /\ \A i \in 1..n : results[i] = request[p].results[i]
  BY <1>2, <1>5
<1>7. /\ at.results = results /\ at.scope = request[p].scope
      /\ at.since = request[p].since /\ at.stored = request[p].stored
      /\ at.phase = IF n + 1 < Len(request[p].scope) THEN "calculate" ELSE "store"
  BY <1>1, <1>3, <1>4 DEF Calculate, InScope, IInv, TypeOK, Request
<1>8. /\ at.op = request[p].op /\ at.todo = request[p].todo
      /\ at.moved = request[p].moved /\ at.settles = request[p].settles
  BY <1>1, <1>3, <1>4 DEF Calculate, InScope, IInv, TypeOK, Request
<1> HIDE DEF results
<1>9. /\ \A u \in Trips : Shown(u)' = Shown(u) /\ Current(u)' = Current(u)
      /\ \A u \in Trips : snapshot'[u] = snapshot[u]
      /\ \A u : /\ Priceable(u)' = Priceable(u) /\ ClosedPartner(u)' = ClosedPartner(u)
                /\ PriceDataOf(u)' = PriceDataOf(u)
  BY <1>1, SamePrices DEF Shown, Current
<1>10. request[p].phase \in AtWork /\ at.phase \in AtWork
  BY <1>1, <1>7 DEF AtWork
<1>11. \A u \in Trips : Due(p, u) => Due(p, u)'
  BY <1>7, <1>8, <1>9, <1>10 DEF Due
<1>12. Paid(p)'
  BY <1>7, <1>8, <1>9, <1>11 DEF Sound, Paid, Wrote_
<1>13. Fitting(p)'
  BY <1>7, <1>8, <1>9, <1>10 DEF Sound, Fitting
<1>14. Calculated(p)'
  <2>1. /\ request[p].since <= clock
        /\ \A i \in DOMAIN request[p].results : \A u \in Trips :
             request[p].scope[i] = u =>
               /\ request[p].results[i].read = PriceDataOf(u)
               /\ request[p].results[i].at >= request[p].since
               /\ request[p].results[i].at < clock
        /\ \A i \in DOMAIN request[p].scope : \A u \in Trips :
             request[p].scope[i] = u /\ Shown(u) /\ snapshot[u].at >= request[p].since
               => Current(u)
    BY <1>10 DEF Sound, Calculated
  <2>2. at.since <= clock'
    BY <1>1, <1>2, <1>7, <2>1
  <2>3. at.phase # "calculate" => Len(at.results) = Len(at.scope)
    BY <1>1, <1>2, <1>6, <1>7
  <2>4. ASSUME NEW i \in DOMAIN results, NEW u \in Trips, request[p].scope[i] = u
        PROVE  /\ results[i].read = PriceDataOf(u)
               /\ results[i].at >= request[p].since
               /\ results[i].at < clock'
    <3>1. i \in 1..(n + 1)
      BY <1>6, <2>4
    <3>2. CASE i = n + 1
      BY <1>1, <1>2, <1>3, <1>5, <1>6, <2>1, <2>4, <3>2
    <3>3. CASE i # n + 1
      <4>1. i \in 1..n
        BY <1>2, <3>1, <3>3
      <4>2. i \in DOMAIN request[p].results /\ results[i] = request[p].results[i]
        BY <1>2, <1>6, <4>1
      <4>3. request[p].results[i] \in Result
        BY <1>2, <4>1, ElementOfSeq
      <4>4. request[p].results[i].at \in Nat
        BY <4>3 DEF Result
      <4> QED BY <1>1, <2>1, <2>4, <4>2, <4>4
    <3> QED BY <3>2, <3>3
  <2> QED BY <1>7, <1>9, <2>1, <2>2, <2>3, <2>4 DEF Calculated
<1> QED BY <1>7, <1>12, <1>13, <1>14 DEF Sound, AsRead

LEMMA CalculateAgainIsSound ==
  ASSUME IInv, NEW p \in Requests, Sound(p), CalculateAgain(p)
  PROVE  Sound(p)'
<1>1. /\ request[p] \in Request /\ request[p].phase = "again"
      /\ UNCHANGED <<trip, grouped, snapshot>> /\ clock' = clock + 1 /\ clock \in Nat
      /\ Len(request[p].results) <= Len(request[p].scope)
  BY DEF CalculateAgain, IInv, TypeOK, ChainsAreConsistent, Consistent
<1>2. PICK k : k = StoreIndex(p)
  OBVIOUS
<1>3. /\ request[p].results \in Seq(Result) /\ request[p].scope \in Seq(Trips)
      /\ request[p].since \in Nat /\ k \in 1..Len(request[p].results)
  BY <1>1, <1>2, PendingType DEF Request
<1>4. PICK t \in Trips : t = request[p].scope[k]
  BY <1>1, <1>2, PendingType DEF InScope
<1>5. PICK result : result = Calculation(t)
  OBVIOUS
<1>6. result \in Result /\ result.at = clock /\ result.read = PriceDataOf(t)
  BY <1>5, CalculationType DEF Calculation, IInv
<1> DEFINE results == [request[p].results EXCEPT ![k] = result]
           at == request'[p]
<1>7. results \in Seq(Result) /\ Len(results) = Len(request[p].results)
  BY <1>3, <1>6, ExceptSeq
<1>8. /\ DOMAIN results = DOMAIN request[p].results
      /\ \A i \in DOMAIN results : results[i] = IF i = k THEN result ELSE request[p].results[i]
  BY <1>3
<1>9. /\ at.results = results /\ at.phase = "store"
      /\ at.scope = request[p].scope
      /\ at.since = request[p].since /\ at.stored = request[p].stored
  BY <1>1, <1>2, <1>4, <1>5 DEF CalculateAgain, InScope, IInv, TypeOK, Request
<1>10. /\ at.op = request[p].op /\ at.todo = request[p].todo
       /\ at.moved = request[p].moved /\ at.settles = request[p].settles
  BY <1>1, <1>2, <1>4, <1>5 DEF CalculateAgain, InScope, IInv, TypeOK, Request
<1> HIDE DEF results
<1>11. /\ \A u \in Trips : Shown(u)' = Shown(u) /\ Current(u)' = Current(u)
       /\ \A u \in Trips : snapshot'[u] = snapshot[u]
       /\ \A u : /\ Priceable(u)' = Priceable(u) /\ ClosedPartner(u)' = ClosedPartner(u)
                 /\ PriceDataOf(u)' = PriceDataOf(u)
  BY <1>1, SamePrices DEF Shown, Current
<1>12. request[p].phase \in AtWork /\ at.phase \in AtWork
  BY <1>1, <1>9 DEF AtWork
<1>13. \A u \in Trips : Due(p, u) => Due(p, u)'
  BY <1>9, <1>10, <1>11, <1>12 DEF Due
<1>14. Paid(p)'
  BY <1>9, <1>10, <1>11, <1>13 DEF Sound, Paid, Wrote_
<1>15. Fitting(p)'
  BY <1>9, <1>10, <1>11, <1>12 DEF Sound, Fitting
<1>16. Calculated(p)'
  <2>1. /\ request[p].since <= clock
        /\ Len(request[p].results) = Len(request[p].scope)
        /\ \A i \in DOMAIN request[p].results : \A u \in Trips :
             request[p].scope[i] = u =>
               /\ request[p].results[i].read = PriceDataOf(u)
               /\ request[p].results[i].at >= request[p].since
               /\ request[p].results[i].at < clock
        /\ \A i \in DOMAIN request[p].scope : \A u \in Trips :
             request[p].scope[i] = u /\ Shown(u) /\ snapshot[u].at >= request[p].since
               => Current(u)
    BY <1>1, <1>12 DEF Sound, Calculated
  <2>2. at.since <= clock'
    BY <1>1, <1>3, <1>9, <2>1
  <2>4. ASSUME NEW i \in DOMAIN results, NEW u \in Trips, request[p].scope[i] = u
        PROVE  /\ results[i].read = PriceDataOf(u)
               /\ results[i].at >= request[p].since
               /\ results[i].at < clock'
    <3>2. CASE i = k
      BY <1>1, <1>3, <1>4, <1>6, <1>8, <2>1, <2>4, <3>2
    <3>3. CASE i # k
      <4>1. i \in DOMAIN request[p].results /\ results[i] = request[p].results[i]
        BY <1>8, <2>4, <3>3
      <4>2. i \in 1..Len(request[p].results)
        BY <1>3, <4>1
      <4>3. request[p].results[i] \in Result
        BY <1>3, <4>2, ElementOfSeq
      <4>4. request[p].results[i].at \in Nat
        BY <4>3 DEF Result
      <4> QED BY <1>1, <2>1, <2>4, <4>1, <4>4
    <3> QED BY <3>2, <3>3
  <2> QED BY <1>7, <1>9, <1>11, <2>1, <2>2, <2>4 DEF Calculated
<1> QED BY <1>9, <1>14, <1>15, <1>16 DEF Sound, AsRead
(* updateUnlessNewerStored: what is stored is current, and what is newer   *)
(* than it was stored by the same pricing, so it is current too.           *)
LEMMA StoreIsSound ==
  ASSUME IInv, ClockIsPast, NEW p \in Requests, Sound(p), Store(p)
  PROVE  Sound(p)' /\ ClockIsPast'
<1> PICK k : k = StoreIndex(p)
  OBVIOUS
<1>1. /\ request[p] \in Request /\ request[p].phase = "store"
      /\ UNCHANGED <<trip, grouped, clock>> /\ snapshot' = StoreTarget(p)
      /\ request'[p] = Stored(request[p])
      /\ snapshot \in [Trips -> Snapshot \cup {NoSnapshot}] /\ clock \in Nat
  BY DEF Store, IInv, TypeOK
<1>2. /\ request[p].results \in Seq(Result) /\ request[p].scope \in Seq(Trips)
      /\ request[p].since \in Nat /\ request[p].stored \in Nat
      /\ k \in 1..Len(request[p].results) /\ k = request[p].stored + 1
  BY <1>1, PendingType DEF Request, StoreIndex
<1>3. /\ Len(request[p].results) = Len(request[p].scope)
      /\ \A i \in DOMAIN request[p].results : \A u \in Trips :
           request[p].scope[i] = u =>
             /\ request[p].results[i].read = PriceDataOf(u)
             /\ request[p].results[i].at >= request[p].since
             /\ request[p].results[i].at < clock
      /\ \A i \in DOMAIN request[p].scope : \A u \in Trips :
           request[p].scope[i] = u /\ Shown(u) /\ snapshot[u].at >= request[p].since
             => Current(u)
  BY <1>1 DEF Sound, Calculated, AtWork
<1>4. PICK t \in Trips : t = request[p].scope[k]
  BY <1>1, PendingType DEF InScope
<1>5. PICK result \in Result : result = request[p].results[k]
  BY <1>1, PendingType DEF Pending
<1>6. /\ result.at \in Nat /\ result.read = PriceDataOf(t)
      /\ result.at >= request[p].since /\ result.at < clock
  <2>1. k \in DOMAIN request[p].results
    BY <1>2
  <2>2. result.at \in Nat
    BY DEF Result
  <2> QED BY <1>3, <1>4, <1>5, <2>1, <2>2
<1> DEFINE new == [at |-> result.at, read |-> result.read,
                   tar |-> result.claim # NoClaim, failed |-> FALSE]
<1>7. /\ new \in Snapshot /\ new.at = result.at /\ new.read = PriceDataOf(t)
  BY <1>5, <1>6 DEF Snapshot, Result
<1>8. \/ /\ snapshot' = snapshot /\ snapshot[t] # NoSnapshot
         /\ snapshot[t].at > result.at
      \/ snapshot' = [snapshot EXCEPT ![t] = new]
  BY <1>4, <1>5 , <1>1 DEF StoreTarget, Superseded, Pending, InScope
<1> HIDE DEF new
<1>9. \A u \in Trips : snapshot'[u] = snapshot[u] \/ (u = t /\ snapshot'[u] = new)
  BY <1>1, <1>8
<1>10. \A u : /\ Priceable(u)' = Priceable(u) /\ ClosedPartner(u)' = ClosedPartner(u)
              /\ PriceDataOf(u)' = PriceDataOf(u)
  BY <1>1, SamePrices
<1>11. \A u \in Trips : snapshot'[u] = snapshot[u] => Shown(u)' = Shown(u) /\ Current(u)' = Current(u)
  BY <1>10 DEF Shown, Current
<1>12. Shown(t)' => Current(t)'
  <2>1. CASE snapshot'[t] = new
    BY <1>7, <1>10, <2>1 DEF Current
  <2>2. CASE snapshot'[t] = snapshot[t] /\ snapshot[t] # NoSnapshot /\ snapshot[t].at > result.at
    <3>1. snapshot[t].at >= request[p].since
      <4>1. snapshot[t] \in Snapshot
        BY <1>1, <2>2
      <4>2. snapshot[t].at \in Nat
        BY <4>1 DEF Snapshot
      <4> QED BY <1>2, <1>6, <2>2, <4>2
    <3>2. k \in DOMAIN request[p].scope
      BY <1>2, <1>3
    <3> QED BY <1>3, <1>4, <1>11, <2>2, <3>1, <3>2
  <2> QED BY <1>1, <1>8, <2>1, <2>2
<1>13. ClockIsPast'
  BY <1>1, <1>6, <1>7, <1>9 DEF ClockIsPast
<1>14. ASSUME NEW u \in Trips, Shown(u)', ~Current(u)'
       PROVE  u # t /\ Shown(u) /\ ~Current(u)
  BY <1>9, <1>11, <1>12, <1>14
<1>15. CASE request[p].stored + 1 < Len(request[p].results)
  <2>1. request'[p] = [request[p] EXCEPT !.stored = @ + 1, !.attempt = 1, !.phase = "store"]
    BY <1>1, <1>15 DEF Stored
  <2>2. /\ request'[p].results = request[p].results /\ request'[p].phase = "store"
        /\ request'[p].scope = request[p].scope
        /\ request'[p].since = request[p].since /\ request'[p].stored = k
    BY <1>1, <1>2, <2>1 DEF Request
  <2>3. /\ request'[p].op = request[p].op /\ request'[p].todo = request[p].todo
        /\ request'[p].moved = request[p].moved /\ request'[p].settles = request[p].settles
    BY <1>1, <2>1 DEF Request
  <2>4. request[p].phase \in AtWork /\ request'[p].phase \in AtWork
    BY <1>1, <2>2 DEF AtWork
  <2>5. Paid(p)'
    <3> SUFFICES ASSUME NEW u \in Trips, Shown(u)', ~Current(u)'
                 PROVE  (request[p].op # "REPRICE" /\ Wrote_(p) /\ Due(p, u))'
      BY DEF Paid
    <3>1. u # t /\ request[p].op # "REPRICE" /\ Due(p, u)
      BY <1>14 DEF Sound, Paid
    <3>2. CASE \E v \in request[p].todo : u = v \/ u \in ClosedPartner(v)
      <4>1. Due(p, u)'
        BY <1>10, <2>3, <3>2 DEF Due
      <4> QED BY <2>2, <2>3, <3>1, <4>1 DEF Wrote_
    <3>3. CASE \E i \in DOMAIN request[p].scope : i > request[p].stored /\ request[p].scope[i] = u
      <4>1. PICK i \in DOMAIN request[p].scope : i > request[p].stored /\ request[p].scope[i] = u
        BY <3>3
      <4>2. i # k /\ i \in Nat
        BY <1>2, <1>4, <3>1, <4>1
      <4>3. i > k
        BY <1>2, <4>1, <4>2
      <4>4. Due(p, u)'
        BY <2>2, <2>4, <4>1, <4>3 DEF Due
      <4> QED BY <2>2, <2>3, <3>1, <4>4 DEF Wrote_
    <3> QED BY <3>1, <3>2, <3>3 DEF Due
  <2>6. Fitting(p)'
    BY <1>10, <2>2, <2>3, <2>4 DEF Sound, Fitting
  <2>7. Calculated(p)'
    <3>1. ASSUME NEW i \in DOMAIN request[p].scope, NEW u \in Trips, request[p].scope[i] = u,
                 Shown(u)', snapshot'[u].at >= request[p].since
          PROVE  Current(u)'
      <4>1. CASE u = t
        BY <1>12, <3>1, <4>1
      <4>2. CASE u # t
        BY <1>3, <1>9, <1>11, <3>1, <4>2
      <4> QED BY <4>1, <4>2
    <3>2. request[p].since <= clock
      BY <1>1 DEF Sound, Calculated, AtWork
    <3> QED BY <1>1, <1>3, <1>10, <2>2, <3>1, <3>2 DEF Calculated
  <2> QED BY <1>13, <2>2, <2>5, <2>6, <2>7 DEF Sound, AsRead
<1>16. CASE ~(request[p].stored + 1 < Len(request[p].results))
  <2>1. ASSUME NEW u \in Trips, Shown(u)'
        PROVE  \/ Current(u)'
               \/ /\ request[p].op # "REPRICE"
                  /\ \E v \in request[p].todo : u = v \/ u \in ClosedPartner(v)
    <3> SUFFICES ASSUME ~Current(u)'
                 PROVE  /\ request[p].op # "REPRICE"
                        /\ \E v \in request[p].todo : u = v \/ u \in ClosedPartner(v)
      OBVIOUS
    <3>1. u # t /\ Shown(u) /\ ~Current(u)
      BY <1>14, <2>1
    <3>2. ASSUME NEW i \in DOMAIN request[p].scope, i > request[p].stored
          PROVE  request[p].scope[i] # u
      <4>1. i = k
        BY <1>2, <1>3, <1>16, <3>2
      <4> QED BY <1>4, <3>1, <4>1
    <3> QED BY <3>1, <3>2, OwedOutside
  <2>2. /\ request[p].moved \in SUBSET Trips /\ \A u \in request[p].moved : Priceable(u)
    BY <1>1 DEF Sound, Fitting, Request
  <2>3. CASE request[p].settles
    <3>1. request'[p] = [request[p] EXCEPT !.phase = "settle"]
      BY <1>1, <1>16, <2>3 DEF Stored
    <3>2. /\ request'[p].op = request[p].op /\ request'[p].todo = request[p].todo
          /\ request'[p].phase = "settle" /\ request'[p].moved = request[p].moved
      BY <1>1, <3>1 DEF Request
    <3>3. Paid(p)'
      <4> SUFFICES ASSUME NEW u \in Trips, Shown(u)', ~Current(u)'
                   PROVE  (request[p].op # "REPRICE" /\ Wrote_(p) /\ Due(p, u))'
        BY DEF Paid
      <4>1. /\ request[p].op # "REPRICE"
            /\ \E v \in request[p].todo : u = v \/ u \in ClosedPartner(v)
        BY <2>1
      <4>2. Due(p, u)'
        BY <1>10, <3>2, <4>1 DEF Due
      <4> QED BY <3>2, <4>1, <4>2 DEF Wrote_
    <3>4. Fitting(p)'
      BY <1>10, <2>2, <3>2 DEF Sound, Fitting, AtWork
    <3> QED BY <1>13, <3>2, <3>3, <3>4 DEF Sound, AsRead, Calculated, AtWork
  <2>4. CASE ~request[p].settles
    <3>1. request' = [request EXCEPT ![p] = Leave(@)]
      BY <1>16, <2>4 DEF Store, Stored
    <3>2. request[p].phase \in AtWork
      BY <1>1 DEF AtWork
    <3> QED BY <1>1, <1>13, <2>1, <2>2, <3>1, <3>2, LeaveFields, LeavingIsSound
  <2> QED BY <2>3, <2>4
<1> QED BY <1>15, <1>16
LEMMA StoreRefusedIsSound ==
  ASSUME IInv, NEW p \in Requests, Sound(p), StoreRefused(p)
  PROVE  Sound(p)' /\ (ClockIsPast => ClockIsPast')
<1>1. /\ request[p] \in Request /\ request[p].phase = "store"
      /\ UNCHANGED <<trip, grouped, clock>>
  BY DEF StoreRefused, IInv, TypeOK
<1>2. CASE request[p].attempt < TarClaimAttempts
  <2>1. /\ request' = [request EXCEPT ![p].phase = "again", ![p].attempt = @ + 1]
        /\ snapshot' = snapshot
    BY <1>2 DEF StoreRefused
  <2>2. /\ request'[p].results = request[p].results /\ request'[p].phase = "again"
        /\ request'[p].scope = request[p].scope
        /\ request'[p].since = request[p].since /\ request'[p].stored = request[p].stored
    BY <1>1, <2>1 DEF Request, IInv, TypeOK
  <2>3. /\ request'[p].op = request[p].op /\ request'[p].todo = request[p].todo
        /\ request'[p].moved = request[p].moved /\ request'[p].settles = request[p].settles
    BY <1>1, <2>1 DEF Request, IInv, TypeOK
  <2>4. /\ \A u \in Trips : Shown(u)' = Shown(u) /\ Current(u)' = Current(u)
        /\ \A u \in Trips : snapshot'[u] = snapshot[u]
        /\ \A u : /\ Priceable(u)' = Priceable(u) /\ ClosedPartner(u)' = ClosedPartner(u)
                  /\ PriceDataOf(u)' = PriceDataOf(u)
    BY <1>1, <2>1, SamePrices DEF Shown, Current
  <2>5. request[p].phase \in AtWork /\ request'[p].phase \in AtWork
    BY <1>1, <2>2 DEF AtWork
  <2>6. \A u \in Trips : Due(p, u) => Due(p, u)'
    BY <2>2, <2>3, <2>4, <2>5 DEF Due
  <2>7. Paid(p)'
    BY <2>2, <2>3, <2>4, <2>6 DEF Sound, Paid, Wrote_
  <2>8. Fitting(p)'
    BY <2>2, <2>3, <2>4, <2>5 DEF Sound, Fitting
  <2>9. Calculated(p)'
    BY <1>1, <2>2, <2>4, <2>5 DEF Sound, Calculated
  <2> QED BY <2>1, <2>2, <2>7, <2>8, <2>9, <1>1 DEF Sound, AsRead, ClockIsPast
<1>3. CASE ~(request[p].attempt < TarClaimAttempts)
  BY <1>1, <1>3, FailIsSound DEF StoreRefused, AtWork
<1> QED BY <1>2, <1>3

---------------------------------------------------------------------------
(* Every step of the one request keeps its account.                        *)

LEMMA AdvancesIsSound ==
  ASSUME IInv, ClockIsPast, NEW p \in Requests, Sound(p), Advances(p)
  PROVE  Sound(p)' /\ ClockIsPast'
<1>1. request[p] \in Request /\ clock \in Nat /\ snapshot \in [Trips -> Snapshot \cup {NoSnapshot}]
  BY DEF IInv, TypeOK
<1>2. ASSUME snapshot' = snapshot, clock' = clock \/ clock' = clock + 1 PROVE ClockIsPast'
  <2> SUFFICES ASSUME NEW u \in Trips, snapshot[u] # NoSnapshot PROVE snapshot[u].at < clock'
    BY <1>2 DEF ClockIsPast
  <2>1. snapshot[u] \in Snapshot /\ snapshot[u].at < clock
    BY <1>1 DEF ClockIsPast
  <2> QED BY <1>1, <1>2, <2>1 DEF Snapshot
<1>3. CASE Write(p)
  BY <1>2, <1>3, WriteIsSound
<1>4. CASE StartPricing(p)
  BY <1>2, <1>4, StartPricingIsSound DEF StartPricing
<1>5. CASE Calculate(p)
  BY <1>2, <1>5, CalculateIsSound DEF Calculate
<1>6. CASE CalculationFails(p) \/ StoreFails(p)
  BY <1>6, FailIsSound DEF CalculationFails, StoreFails, AtWork
<1>7. CASE CalculationRefused(p)
  <2> DEFINE i == Len(request[p].results) + 1
  <2>1. CASE i = 1
    <3>1. /\ request[p].phase \in AtWork /\ UNCHANGED <<trip, grouped, snapshot, clock>>
          /\ request' = [request EXCEPT ![p] = Leave(@)]
          /\ ~Priceable(request[p].scope[i])
      BY <1>7, <2>1 DEF CalculationRefused, AtWork, InScope
    <3>2. i \in DOMAIN request[p].scope
      <4>1. Len(request[p].results) < Len(request[p].scope)
        BY <1>7 DEF CalculationRefused, IInv, ChainsAreConsistent, Consistent
      <4> QED BY <1>1, <4>1 DEF Request
    <3> HIDE DEF i
    <3> QED BY <1>2, <3>1, <3>2, RefusedIsSound
  <2>2. CASE i # 1
    BY <1>7, <2>2, FailIsSound DEF CalculationRefused, AtWork
  <2> QED BY <2>1, <2>2
<1>8. CASE Store(p)
  BY <1>8, StoreIsSound
<1>9. CASE StoreRefused(p)
  BY <1>9, StoreRefusedIsSound
<1>10. CASE CalculateAgain(p)
  BY <1>2, <1>10, CalculateAgainIsSound DEF CalculateAgain
<1>11. CASE CalculateAgainRefused(p)
  <2> DEFINE i == StoreIndex(p)
  <2>1. /\ request[p].phase \in AtWork /\ UNCHANGED <<trip, grouped, snapshot, clock>>
        /\ request' = [request EXCEPT ![p] = Leave(@)]
        /\ ~Priceable(request[p].scope[i])
    BY <1>11 DEF CalculateAgainRefused, AtWork, InScope
  <2>2. i \in DOMAIN request[p].scope
    <3>1. Len(request[p].results) <= Len(request[p].scope)
      BY <1>11 DEF CalculateAgainRefused, IInv, ChainsAreConsistent, Consistent
    <3>2. i \in 1..Len(request[p].results)
      BY <1>11, PendingType DEF CalculateAgainRefused
    <3> QED BY <1>1, <3>1, <3>2 DEF Request
  <2> HIDE DEF i
  <2> QED BY <1>2, <2>1, <2>2, RefusedIsSound
<1>12. CASE Settle(p)
  BY <1>2, <1>12, SettleIsSound DEF Settle
<1>13. CASE StartSettling(p)
  BY <1>2, <1>13, StartSettlingIsSound DEF StartSettling
<1>14. CASE SettlementDone(p) \/ Release(p) \/ Answer(p)
  BY <1>2, <1>14, BetweenIsSound DEF SettlementDone, Release, Answer
<1> QED BY <1>3, <1>4, <1>5, <1>6, <1>7, <1>8, <1>9, <1>10, <1>11, <1>12, <1>13,
           <1>14 DEF Advances

LEMMA SerialStep ==
  ASSUME OneAtATime, SInv, [Next]_vars
  PROVE  SInv'
<1>1. IInv'
  BY NextKeepsIInv DEF SInv
<1>2. CASE crashed'
  BY <1>1, <1>2 DEF SInv
<1>3. CASE ~crashed'
  <2>1. CASE UNCHANGED vars
    <3>1. UNCHANGED <<trip, grouped, snapshot, clock, request, crashed>>
      BY <2>1 DEF vars
    <3>2. \A u \in Trips : Shown(u)' = Shown(u) /\ Current(u)' = Current(u)
      BY <3>1, SamePrices DEF Shown, Current
    <3>3. /\ \A u : /\ Priceable(u)' = Priceable(u) /\ ClosedPartner(u)' = ClosedPartner(u)
                    /\ PriceDataOf(u)' = PriceDataOf(u)
      BY <3>1, SamePrices
    <3>4. \A p : \A u \in Trips : Due(p, u)' = Due(p, u)
      BY <3>1, <3>3 DEF Due
    <3>5. ASSUME NEW p \in Requests, Sound(p) PROVE Sound(p)'
      <4>1. Paid(p)'
        BY <3>1, <3>2, <3>4, <3>5 DEF Sound, Paid, Wrote_
      <4>2. AsRead(p)' /\ Fitting(p)'
        BY <3>1, <3>3, <3>5 DEF Sound, AsRead, Fitting
      <4>3. Calculated(p)'
        BY <3>1, <3>2, <3>3, <3>5 DEF Sound, Calculated
      <4> QED BY <4>1, <4>2, <4>3 DEF Sound
    <3>6. ClockIsPast => ClockIsPast'
      BY <3>1 DEF ClockIsPast
    <3> QED BY <1>1, <1>3, <3>1, <3>5, <3>6 DEF SInv
  <2>2. ASSUME NEW p \in Requests, NEW step, step \in {"advances", "arrives"},
               (step = "advances") => Advances(p),
               (step = "arrives") => \E t \in Trips : Arrives(p, t)
        PROVE  SInv'
    <3>1. crashed' = crashed
      <4>1. Advances(p) => crashed' = crashed
        BY DEF Advances, Write, StartPricing, Calculate, CalculationFails,
          CalculationRefused, Store, StoreRefused, StoreFails, CalculateAgain,
          CalculateAgainRefused, Settle, StartSettling, SettlementDone, Release, Answer
      <4>2. (\E t \in Trips : Arrives(p, t)) => crashed' = crashed
        BY DEF Arrives, Close, Reopen, Cancel, SetNumber, MoveDay, EditInputs,
               Reprocess, Link, Unlink, Receives
      <4> QED BY <2>2, <4>1, <4>2
    <3>2. IInv /\ ClockIsPast /\ Sound(p)
      BY <1>3, <3>1 DEF SInv
    <3>3. Sound(p)' /\ ClockIsPast'
      <4>1. CASE Advances(p)
        BY <3>2, <4>1, AdvancesIsSound
      <4>2. CASE \E t \in Trips : Arrives(p, t)
        BY <3>2, <4>2, ArrivesIsSound DEF ClockIsPast
      <4> QED BY <2>2, <4>1, <4>2
    <3>4. \A q \in Requests : q = p
      BY DEF OneAtATime
    <3> QED BY <1>1, <3>3, <3>4 DEF SInv
  <2>3. ~Crash
    BY <1>3 DEF Crash
  <2> QED BY <2>1, <2>2, <2>3 DEF Next, Served
<1> QED BY <1>2, <1>3

LEMMA SerialInit == Init => SInv
<1> SUFFICES ASSUME Init PROVE SInv
  OBVIOUS
<1>1. IInv
  BY InitIsConsistent
<1>2. /\ \A t \in Trips : snapshot[t] = NoSnapshot /\ ~Shown(t)
      /\ \A p \in Requests : request[p] = Idle
  BY DEF Init, Shown
<1>3. ASSUME NEW p \in Requests PROVE Sound(p)
  BY <1>2 DEF Sound, Paid, AsRead, Fitting, Calculated, AtWork, Idle
<1> QED BY <1>1, <1>2, <1>3 DEF SInv, ClockIsPast

LEMMA SerialInvariant ==
  ASSUME OneAtATime
  PROVE  Spec => []SInv
<1>1. SInv /\ [Next]_vars => SInv'
  BY SerialStep
<1> QED BY <1>1, SerialInit, PTL DEF Spec

LEMMA AtRestIsCurrent ==
  ASSUME SInv, ~crashed, Requests # {}
  PROVE  PriceIsCurrent
<1> SUFFICES ASSUME AtRest, NEW t \in Trips, Shown(t) PROVE snapshot[t].read = PriceDataOf(t)
  BY DEF PriceIsCurrent
<1>1. PICK p \in Requests : request[p] = Idle /\ Sound(p)
  BY DEF AtRest, SInv
<1>2. Current(t)
  BY <1>1 DEF Sound, Paid, Wrote_, Idle
<1> QED BY <1>2 DEF Current

LEMMA CrashedStays ==
  ASSUME [Next]_vars PROVE crashed' = crashed \/ (MayCrash /\ crashed')
<1>1. Crash => MayCrash /\ crashed'
  BY DEF Crash
<1>2. ASSUME NEW p \in Requests, Advances(p) \/ \E t \in Trips : Arrives(p, t)
      PROVE  crashed' = crashed
  BY <1>2 DEF Advances, Write, StartPricing, Calculate, CalculationFails,
    CalculationRefused, Store, StoreRefused, StoreFails, CalculateAgain,
    CalculateAgainRefused, Settle, StartSettling, SettlementDone, Release, Answer,
    Arrives, Close, Reopen, Cancel, SetNumber, MoveDay, EditInputs,
    Reprocess, Link, Unlink, Receives
<1> QED BY <1>1, <1>2 DEF Next, Served, vars

(* While requests do not overlap, a shown price was calculated from the    *)
(* trip's data, and its partner's, as they are: whatever is edited, moved, *)
(* grouped, closed or reopened, and whichever calculations and stores      *)
(* fail, until the process stops between a write and its pricing.          *)
THEOREM SerialPricesAreCurrent ==
  ASSUME OneAtATime, Requests # {}
  PROVE  /\ Spec => []CurrentUnlessCrashed
         /\ ~MayCrash => (Spec => []PriceIsCurrent)
<1>1. SInv => CurrentUnlessCrashed
  BY AtRestIsCurrent DEF CurrentUnlessCrashed
<1>2. Spec => []CurrentUnlessCrashed
  BY <1>1, SerialInvariant, PTL
<1>3. ASSUME ~MayCrash PROVE Spec => []PriceIsCurrent
  <2>1. Init => ~crashed
    BY DEF Init
  <2>2. ~crashed /\ [Next]_vars => ~crashed'
    BY <1>3, CrashedStays
  <2>3. SInv /\ ~crashed => PriceIsCurrent
    BY AtRestIsCurrent
  <2> QED BY <2>1, <2>2, <2>3, SerialInvariant, PTL DEF Spec
<1> QED BY <1>2, <1>3

---------------------------------------------------------------------------
(* The TAR charge.  A write may leave one number charged twice on a day,   *)
(* or not at all; the request then still has a pricing to do that ends it. *)

(* A trip that is to be charged unless another one of its TAR day is.      *)
Needy(t) == Priceable(t) /\ Owes(t)

(* Nobody holds the charge that t needs; another trip holds it; another    *)
(* one holds it and stands in the way of a claim.                          *)
Bare(t) == Needy(t) /\ Holders(TarDayOf(t)) = {}
Backed(t) == Holders(TarDayOf(t)) \ {t} # {}
Rivalled(t) == HeldByAnother(TarDayOf(t), t)

InWork(p, t) == \E i \in DOMAIN request[p].scope : request[p].scope[i] = t

Unstored(p, t) ==
  \E i \in DOMAIN request[p].scope : i > request[p].stored /\ request[p].scope[i] = t

(* The trips priced together are the legs of a pair, CLOSED (the first may *)
(* turn out not to be), with snapshots from before the pricing; those that *)
(* are charged now will be found to have been.  No claim is refused.       *)
Apart(p) ==
  request[p].phase \in AtWork =>
    /\ request[p].phase # "again"
    /\ \A i, j \in DOMAIN request[p].scope : i # j =>
         /\ Together /\ request[p].scope[i] \in Legs
         /\ request[p].scope[i] # request[p].scope[j]
    /\ \A i \in DOMAIN request[p].scope : \A t \in Trips :
         /\ request[p].scope[i] = t
         /\ i # 1 \/ request[p].phase # "calculate" \/ request[p].results # <<>>
         => Priceable(t)
    /\ \A t \in Trips : Unstored(p, t) =>
         /\ snapshot[t] # NoSnapshot => snapshot[t].at < request[p].since
         /\ request[p].phase = "store" /\ request[p].settles /\ Counted(t)
            => t \in request[p].held

(* Another trip of the day of t gave its charge up in this pricing.        *)
GaveUp(p, t) ==
  /\ request[p].settles
  /\ \E s \in request[p].held : s # t /\ TarDayOf(s) = TarDayOf(t) /\ InWork(p, s)

(* A claim that was calculated still stands; where none was made, the trip *)
(* owes none, or another trip had the charge.                              *)
Claims(p) ==
  request[p].phase \in AtWork =>
    \A i \in DOMAIN request[p].results : \A t \in Trips :
      i > request[p].stored /\ request[p].scope[i] = t =>
        \/ /\ request[p].results[i].claim = TarDayOf(t)
           /\ Owes(t) /\ ~Rivalled(t)
        \/ /\ request[p].results[i].claim = NoClaim
           /\ \/ ~Owes(t)
              \/ Backed(t)
              \/ request[p].phase = "store" /\ GaveUp(p, t)

(* The return leg of a pair is charged no longer than until it is priced.  *)
ReturnFree(p) ==
  Together /\ Charged(Collection) =>
    /\ request[p].op # "REPRICE" /\ request[p].settles
    /\ \/ /\ request[p].phase = "price"
          /\ Collection \in request[p].todo /\ request[p].todo \subseteq Legs
       \/ request[p].phase \in AtWork /\ Unstored(p, Collection)

(* What is asked: no trip moves to another day, and an explicit reprocess  *)
(* prices one trip.  Only a pricing that settles comes to a settlement.    *)
Asked(p) ==
  /\ request[p].op # "MOVE"
  /\ request[p].phase = "settle" => request[p].settles
  /\ request[p].op = "REPRICE" =>
       request[p].todo \subseteq {request[p].trip} /\ request[p].release = NoClaim

(* The trip p prices next, or is pricing first.                            *)
First(p, t) ==
  \/ request[p].phase = "price" /\ request[p].todo = {t}
  \/ /\ request[p].phase \in AtWork /\ request[p].stored = 0
     /\ 1 \in DOMAIN request[p].scope /\ request[p].scope[1] = t

Twofold(t, u) ==
  /\ t # u /\ Charged(t) /\ Charged(u)
  /\ trip[t].number # NoNumber /\ TarDayOf(t) = TarDayOf(u)

(* Where a number is charged twice, one of the two is priced next.         *)
Twice(p) == \A t, u \in Trips : Twofold(t, u) => First(p, t) \/ First(p, u)

Charging(p) == Apart(p) /\ Claims(p) /\ ReturnFree(p) /\ Asked(p) /\ Twice(p)

(* The pricing under way charges t, unless it is refused.                  *)
BeingPriced(p, t) ==
  /\ request[p].phase \in AtWork
  /\ \A u \in Trips : InWork(p, u) => Priceable(u)
  /\ \E i \in DOMAIN request[p].scope :
       /\ i > request[p].stored /\ request[p].scope[i] = t
       /\ i \in DOMAIN request[p].results => request[p].results[i].claim = TarDayOf(t)

(* The ways in which p is still to price t.                                *)
Pledged(p, t) ==
  \/ t \in request[p].todo
  \/ BeingPriced(p, t)
  \/ ~request[p].settles /\ t \in request[p].moved
  \/ request[p].release = TarDayOf(t) /\ t # request[p].trip
  \/ request[p].phase \in {"store", "settle"} /\ GaveUp(p, t)

(* Where a trip needs its day's charge and nobody has it, a trip of that   *)
(* day is priced.                                                          *)
Provided(p) ==
  \A v \in Trips : Bare(v) =>
    /\ Wrote_(p)
    /\ \E t \in Trips : Needy(t) /\ TarDayOf(t) = TarDayOf(v) /\ Pledged(p, t)

---------------------------------------------------------------------------
(* Holders.                                                                *)

LEMMA SameDays ==
  ASSUME UNCHANGED <<trip, grouped>>
  PROVE  /\ Together' = Together
         /\ \A t : /\ Priceable(t)' = Priceable(t) /\ Owes(t)' = Owes(t)
                   /\ TarDayOf(t)' = TarDayOf(t) /\ Needy(t)' = Needy(t)
                   /\ ClosedPartner(t)' = ClosedPartner(t)
         /\ \A tar : Stating(tar)' = Stating(tar)
         /\ \A tar, t : ClosedStating(tar, t)' = ClosedStating(tar, t)
BY DEF Together, Priceable, Owes, TarDayOf, Needy, ClosedPartner, Partner, Stating,
       ClosedStating

LEMMA SameHolders ==
  ASSUME UNCHANGED <<trip, grouped, snapshot>>
  PROVE  /\ \A t : Counted(t)' = Counted(t) /\ Charged(t)' = Charged(t)
         /\ \A tar : Holders(tar)' = Holders(tar)
         /\ \A t : /\ Bare(t)' = Bare(t) /\ Backed(t)' = Backed(t)
                   /\ Rivalled(t)' = Rivalled(t)
         /\ \A t, u : Twofold(t, u)' = Twofold(t, u)
BY DEF Counted, Charged, Shown, Priceable, Holders, Stating, TarDayOf, HeldByAnother,
       ValidHolders, Twofold, Bare, Needy, Owes, Together, Backed, Rivalled

(* A day somebody holds has a valid holder; a CLOSED holder is one.        *)
LEMMA ValidHoldersExist ==
  ASSUME NEW tar, Holders(tar) # {} PROVE ValidHolders(tar) # {}
<1>1. CASE \E c \in Holders(tar) : Priceable(c)
  BY <1>1 DEF ValidHolders
<1>2. CASE ~\E c \in Holders(tar) : Priceable(c)
  BY <1>2 DEF ValidHolders
<1> QED BY <1>1, <1>2

LEMMA ClosedHolds ==
  ASSUME NEW t, NEW u \in Trips, u # t, Charged(u)
  PROVE  /\ u \in Holders(TarDayOf(u))
         /\ TarDayOf(u) = TarDayOf(t) => Rivalled(t)
<1>1. Counted(u) /\ Priceable(u)
  BY DEF Charged, Shown, Counted, Priceable
<1>2. u \in Stating(TarDayOf(u))
  BY DEF Stating
<1> QED BY <1>1, <1>2 DEF Holders, ValidHolders, HeldByAnother, Rivalled

LEMMA ChargedIsCounted ==
  ASSUME NEW t, Priceable(t) PROVE Charged(t) <=> Counted(t)
BY DEF Charged, Shown, Counted, Priceable

LEMMA ReturnLeg ==
  ASSUME Together, NEW t \in Legs, NEW u \in Legs, t # u
  PROVE  /\ Collection \in Legs
         /\ t = Collection => u # Collection
         /\ t # Collection => u = Collection
         /\ ~Owes(Collection)
<1>1. PICK a, b \in Trips : a # b /\ Legs = {a, b}
  BY LegsAreAPair
<1>2. Collection \in Legs
  BY LegsAreAPair
<1> QED BY <1>1, <1>2 DEF Owes

---------------------------------------------------------------------------
(* Nothing is owed to the charge between requests, and a request that      *)
(* arrives changes nothing.                                                *)

LEMMA BeforeWrite ==
  ASSUME NEW p \in Requests, request[p].phase \in {"idle", "write"}, Charging(p)
  PROVE  /\ ~(Together /\ Charged(Collection))
         /\ \A t, u \in Trips : ~Twofold(t, u)
         /\ Provided(p) => \A v \in Trips : ~Bare(v)
<1>1. request[p].phase \notin AtWork /\ request[p].phase # "price" /\ ~Wrote_(p)
  BY DEF AtWork, Wrote_
<1>2. ~(Together /\ Charged(Collection))
  BY <1>1 DEF Charging, ReturnFree
<1>3. \A t, u \in Trips : ~Twofold(t, u)
  BY <1>1 DEF Charging, Twice, First
<1>4. Provided(p) => \A v \in Trips : ~Bare(v)
  BY <1>1 DEF Provided
<1> QED BY <1>2, <1>3, <1>4

(* A record in which nothing is under way.                                 *)
LEMMA RestCharges ==
  ASSUME NEW p \in Requests, UNCHANGED <<trip, grouped, snapshot>>,
         request'[p].phase \notin AtWork, Asked(p)',
         ~(Together /\ Charged(Collection)), \A t, u \in Trips : ~Twofold(t, u)
  PROVE  /\ Charging(p)'
         /\ (\A v \in Trips : ~Bare(v)) => Provided(p)'
<1>1. Apart(p)' /\ Claims(p)'
  BY DEF Apart, Claims, AtWork
<1>2. ReturnFree(p)'
  BY SameDays, SameHolders DEF ReturnFree
<1>3. Twice(p)'
  BY SameHolders DEF Twice
<1>4. ASSUME \A v \in Trips : ~Bare(v)
      PROVE  Provided(p)'
  BY <1>4, SameHolders DEF Provided
<1> QED BY <1>1, <1>2, <1>3, <1>4 DEF Charging

LEMMA ArrivesCharges ==
  ASSUME IInv, NEW p \in Requests, NEW t \in Trips, Charging(p), Arrives(p, t),
         "MOVE" \notin Operations
  PROVE  Charging(p)' /\ (Provided(p) => Provided(p)')
<1>1. PICK op, value : Receives(p, op, t, value)
  BY DEF Arrives, Close, Reopen, Cancel, SetNumber, MoveDay, EditInputs,
         Reprocess, Link, Unlink
<1>2. /\ request[p].phase = "idle" /\ UNCHANGED <<trip, grouped, snapshot>>
      /\ request'[p].phase = "write" /\ request'[p].op = op
      /\ request'[p].todo = {} /\ request'[p].release = NoClaim
  BY <1>1 DEF Receives, Idle, IInv, TypeOK
<1>3. op # "MOVE"
  BY <1>1 DEF Receives, Operates
<1>4. Asked(p)' /\ request'[p].phase \notin AtWork
  BY <1>2, <1>3 DEF Asked, AtWork
<1> QED BY <1>2, <1>4, BeforeWrite, RestCharges

---------------------------------------------------------------------------
(* A write, and what it leaves to be priced.                               *)

LEMMA WroteCharges ==
  ASSUME IInv, NEW p \in Requests, NEW todo \in SUBSET Trips,
         NEW release \in TarDay \cup {NoClaim}, Wrote(p, todo, release),
         request[p].op # "MOVE",
         request[p].op = "REPRICE" => todo \subseteq {request[p].trip} /\ release = NoClaim,
         (Together /\ Charged(Collection))' =>
           request[p].op # "REPRICE" /\ Collection \in todo /\ todo \subseteq Legs,
         \A t, u \in Trips : Twofold(t, u)' => todo = {t} \/ todo = {u}
  PROVE  /\ Charging(p)'
         /\ (\A v \in Trips : Bare(v)' =>
               \/ v \in todo
               \/ release = TarDayOf(v)' /\ v # request[p].trip)
            => Provided(p)'
<1>1. /\ request'[p].op = request[p].op /\ request'[p].phase = "price"
      /\ request'[p].todo = todo /\ request'[p].release = release
      /\ request'[p].trip = request[p].trip /\ request'[p].settles
  BY DEF Wrote, Idle, IInv, TypeOK
<1>2. Apart(p)' /\ Claims(p)'
  BY <1>1 DEF Apart, Claims, AtWork
<1>3. ReturnFree(p)'
  BY <1>1 DEF ReturnFree
<1>4. Asked(p)'
  BY <1>1 DEF Asked
<1>5. Twice(p)'
  BY <1>1 DEF Twice, First
<1>6. ASSUME \A v \in Trips : Bare(v)' =>
               \/ v \in todo
               \/ release = TarDayOf(v)' /\ v # request[p].trip
      PROVE  Provided(p)'
  <2> SUFFICES ASSUME NEW v \in Trips, Bare(v)'
               PROVE  Wrote_(p)' /\ Pledged(p, v)'
    BY DEF Provided, Bare
  <2>1. v \in todo \/ (release = TarDayOf(v)' /\ v # request[p].trip)
    BY <1>6
  <2>2. Pledged(p, v)'
    BY <1>1, <2>1 DEF Pledged
  <2> QED BY <1>1, <2>2 DEF Wrote_
<1> QED BY <1>2, <1>3, <1>4, <1>5, <1>6 DEF Charging

(* A row that changes, but not its day, changes who holds its own days.    *)
LEMMA RowChanges ==
  ASSUME IInv, NEW t \in Trips, NEW after \in Row,
         trip' = [trip EXCEPT ![t] = after], UNCHANGED <<grouped, snapshot>>
  PROVE  /\ trip'[t] = after
         /\ \A u \in Trips : u # t =>
              /\ trip'[u] = trip[u] /\ Priceable(u)' = Priceable(u) /\ Owes(u)' = Owes(u)
              /\ TarDayOf(u)' = TarDayOf(u) /\ Needy(u)' = Needy(u)
              /\ Counted(u)' = Counted(u) /\ Charged(u)' = Charged(u)
         /\ \A tar : \A u \in Trips : u # t => (u \in Holders(tar)' <=> u \in Holders(tar))
         /\ \A tar : (t \in Holders(tar)' <=> TarDayOf(t)' = tar /\ Counted(t)')
         /\ \A tar : (t \in Holders(tar) <=> TarDayOf(t) = tar /\ Counted(t))
<1>1. /\ trip \in [Trips -> Row] /\ trip'[t] = after
      /\ \A u \in Trips : u # t => trip'[u] = trip[u]
  BY DEF IInv, TypeOK
<1>2. Together' = Together /\ snapshot' = snapshot
  BY DEF Together
<1>3. ASSUME NEW u \in Trips, u # t
      PROVE  /\ trip'[u] = trip[u] /\ Priceable(u)' = Priceable(u) /\ Owes(u)' = Owes(u)
             /\ TarDayOf(u)' = TarDayOf(u) /\ Needy(u)' = Needy(u)
             /\ Counted(u)' = Counted(u) /\ Charged(u)' = Charged(u)
  BY <1>1, <1>2, <1>3 DEF Priceable, Owes, TarDayOf, Needy, Counted, Charged, Shown
<1>4. ASSUME NEW tar, NEW u \in Trips
      PROVE  /\ u \in Holders(tar)' <=> TarDayOf(u)' = tar /\ Counted(u)'
             /\ u \in Holders(tar) <=> TarDayOf(u) = tar /\ Counted(u)
  BY DEF Holders, Stating
<1> QED BY <1>1, <1>3, <1>4

(* Who holds what when the status of t changes: t counts unless it is      *)
(* cancelled.                                                              *)
LEMMA StatusWriteCharges ==
  ASSUME IInv, NEW p \in Requests, Sound(p), Charging(p), request[p].phase = "write",
         NEW t \in Trips, t = request[p].trip, NEW to \in Statuses,
         request[p].op \notin {"REPRICE", "MOVE"},
         WriteStatus(p, t, to), UNCHANGED snapshot
  PROVE  Charging(p)' /\ (Provided(p) => Provided(p)')
<1> DEFINE before == request[p].before
           moved  == (before.status = "CANCELLED") # (to = "CANCELLED")
           todo   == IF to = "CLOSED" THEN {t}
                     ELSE IF moved /\ Together /\ t \in Legs
                          THEN ClosedOf({Other(t)}) ELSE {}
           after  == [trip[t] EXCEPT !.status = to]
           old    == [after EXCEPT !.status = before.status]
           release == Released(old, after)
<1>1. trip[t] \in Row /\ before = trip[t]
  BY DEF IInv, TypeOK, Sound, AsRead
<1>2. /\ after \in Row /\ after.status = to
      /\ after.number = trip[t].number /\ after.day = trip[t].day
      /\ old \in Row /\ old.status = trip[t].status
      /\ old.number = trip[t].number /\ old.day = trip[t].day
  BY <1>1 DEF Row
<1>3. todo \in SUBSET Trips
  BY OtherLeg, LegsAreTrips DEF ClosedOf
<1>4. /\ trip' = [trip EXCEPT ![t] = after] /\ UNCHANGED <<grouped, snapshot>>
      /\ Wrote(p, todo, release)
  BY DEF WriteStatus
<1>5. release \in TarDay \cup {NoClaim}
  BY <1>2, ReleasedType
<1>6. to = "CLOSED" => todo = {t}
  OBVIOUS
<1> HIDE DEF after, old, before, todo
<1>7. /\ trip'[t] = after /\ Together' = Together
      /\ \A u \in Trips : u # t =>
           /\ trip'[u] = trip[u] /\ TarDayOf(u)' = TarDayOf(u) /\ Needy(u)' = Needy(u)
           /\ Charged(u)' = Charged(u)
      /\ \A tar : \A u \in Trips : u # t => (u \in Holders(tar)' <=> u \in Holders(tar))
      /\ \A tar : (t \in Holders(tar)' <=> TarDayOf(t)' = tar /\ Counted(t)')
      /\ \A tar : (t \in Holders(tar) <=> TarDayOf(t) = tar /\ Counted(t))
  BY <1>2, <1>4, RowChanges DEF Together
<1>8. TarDayOf(t)' = TarDayOf(t) /\ (Priceable(t)' <=> to = "CLOSED")
  BY <1>2, <1>7 DEF TarDayOf, Priceable
<1>9. Counted(t) /\ to # "CANCELLED" => Counted(t)'
  BY <1>2, <1>4, <1>7 DEF Counted
<1>10. Charged(t)' => to = "CLOSED"
  BY <1>8 DEF Charged, Shown
<1>11. (Together /\ Charged(Collection))' => Collection = t /\ Collection \in todo /\ todo \subseteq Legs
  <2> SUFFICES ASSUME Together, Charged(Collection)'
               PROVE  Collection = t /\ Collection \in todo /\ todo \subseteq Legs
    BY <1>7
  <2>1. Collection \in Legs /\ Collection \in Trips
    BY LegsAreAPair, LegsAreTrips DEF Together
  <2>2. ~Charged(Collection)
    BY BeforeWrite
  <2>3. Collection = t
    BY <1>7, <2>1, <2>2
  <2> QED BY <1>6, <1>10, <2>1, <2>3
<1>12. \A u, w \in Trips : Twofold(u, w)' => todo = {u} \/ todo = {w}
  <2> SUFFICES ASSUME NEW u \in Trips, NEW w \in Trips, Twofold(u, w)', u # t, w # t
               PROVE  FALSE
    BY <1>6, <1>10 DEF Twofold
  <2>1. Twofold(u, w)
    BY <1>7 DEF Twofold
  <2> QED BY <2>1, BeforeWrite
<1>13. ASSUME Provided(p), NEW v \in Trips, Bare(v)'
       PROVE  \/ v \in todo
              \/ release = TarDayOf(v)' /\ v # request[p].trip
  <2>1. CASE v = t
    BY <1>6, <1>8, <1>13, <2>1 DEF Bare, Needy
  <2>2. CASE v # t
    <3>1. Needy(v) /\ ~Bare(v) /\ TarDayOf(v)' = TarDayOf(v)
      BY <1>7, <1>13, <2>2, BeforeWrite DEF Bare
    <3>2. PICK tar : tar = TarDayOf(v)
      OBVIOUS
    <3>3. Holders(tar) # {} /\ Holders(tar)' = {}
      BY <1>13, <3>1, <3>2 DEF Bare
    <3>4. t \in Holders(tar) /\ t \notin Holders(tar)'
      BY <1>7, <3>3 DEF Holders, Stating
    <3>5. TarDayOf(t) = tar /\ Counted(t) /\ to = "CANCELLED"
      BY <1>7, <1>8, <1>9, <3>4
    <3>6. trip[t].status # "CANCELLED" /\ trip[v].number # NoNumber
      BY <3>1, <3>5 DEF Counted, Needy, Owes
    <3>7. trip[t].number = trip[v].number /\ trip[t].day = trip[v].day
      BY <3>2, <3>5 DEF TarDayOf
    <3>8. release = TarDayOf(t)
      BY <1>2, <3>5, <3>6, <3>7 DEF Released, TarDayOf
    <3> QED BY <2>2, <3>1, <3>2, <3>5, <3>8
  <2> QED BY <2>1, <2>2
<1> HIDE DEF release
<1> QED BY <1>3, <1>4, <1>5, <1>11, <1>12, <1>13, WroteCharges

(* Another number, or other inputs: the trip itself is priced, and those   *)
(* of the day it left are asked for the charge it held.                    *)
LEMMA RowWriteCharges ==
  ASSUME IInv, NEW p \in Requests, Sound(p), Charging(p), request[p].phase = "write",
         NEW t \in Trips, t = request[p].trip,
         request[p].op \notin {"REPRICE", "MOVE"}, NEW after \in Row,
         after.status = trip[t].status, after.day = trip[t].day,
         trip' = [trip EXCEPT ![t] = after], UNCHANGED <<grouped, snapshot>>,
         Wrote(p, {t}, Released(request[p].before, after))
  PROVE  Charging(p)' /\ (Provided(p) => Provided(p)')
<1> DEFINE release == Released(request[p].before, after)
<1>1. trip[t] \in Row /\ request[p].before = trip[t]
  BY DEF IInv, TypeOK, Sound, AsRead
<1>2. release \in TarDay \cup {NoClaim}
  BY <1>1, ReleasedType
<1>3. /\ trip'[t] = after /\ Together' = Together
      /\ \A u \in Trips : u # t =>
           /\ trip'[u] = trip[u] /\ TarDayOf(u)' = TarDayOf(u) /\ Needy(u)' = Needy(u)
           /\ Charged(u)' = Charged(u)
      /\ \A tar : \A u \in Trips : u # t => (u \in Holders(tar)' <=> u \in Holders(tar))
      /\ \A tar : (t \in Holders(tar)' <=> TarDayOf(t)' = tar /\ Counted(t)')
      /\ \A tar : (t \in Holders(tar) <=> TarDayOf(t) = tar /\ Counted(t))
  BY RowChanges DEF Together
<1>4. Counted(t)' = Counted(t) /\ Charged(t)' = Charged(t)
  BY <1>3 DEF Counted, Charged, Shown, Priceable
<1>5. ~(Together /\ Charged(Collection))'
  <2>1. Collection \in Trips \/ ~Together
    BY LegsAreAPair, LegsAreTrips DEF Together
  <2> QED BY <1>3, <1>4, <2>1, BeforeWrite
<1>6. \A u, w \in Trips : Twofold(u, w)' => {t} = {u} \/ {t} = {w}
  <2> SUFFICES ASSUME NEW u \in Trips, NEW w \in Trips, Twofold(u, w)', u # t, w # t
               PROVE  FALSE
    OBVIOUS
  <2>1. Twofold(u, w)
    BY <1>3 DEF Twofold
  <2> QED BY <2>1, BeforeWrite
<1>7. ASSUME Provided(p), NEW v \in Trips, Bare(v)'
      PROVE  \/ v \in {t}
             \/ release = TarDayOf(v)' /\ v # request[p].trip
  <2> SUFFICES ASSUME v # t PROVE release = TarDayOf(v)'
    OBVIOUS
  <2>1. Needy(v) /\ ~Bare(v) /\ TarDayOf(v)' = TarDayOf(v)
    BY <1>3, <1>7, BeforeWrite DEF Bare
  <2>2. PICK tar : tar = TarDayOf(v)
    OBVIOUS
  <2>3. Holders(tar) # {} /\ Holders(tar)' = {}
    BY <1>7, <2>1, <2>2 DEF Bare
  <2>4. t \in Holders(tar) /\ t \notin Holders(tar)'
    BY <1>3, <2>3 DEF Holders, Stating
  <2>5. TarDayOf(t) = tar /\ TarDayOf(t)' # tar /\ Counted(t)
    BY <1>3, <1>4, <2>4
  <2>6. trip[t].status # "CANCELLED" /\ trip[v].number # NoNumber
    BY <2>1, <2>5 DEF Counted, Needy, Owes
  <2>7. trip[t].number = trip[v].number /\ trip[t].number # after.number
    BY <1>3, <2>2, <2>5 DEF TarDayOf
  <2>8. release = TarDayOf(t)
    BY <1>1, <2>6, <2>7 DEF Released, TarDayOf
  <2> QED BY <2>1, <2>2, <2>5, <2>8
<1> HIDE DEF release
<1>8. {t} \in SUBSET Trips /\ Wrote(p, {t}, release)
  BY DEF release
<1> QED BY <1>2, <1>5, <1>6, <1>7, <1>8, WroteCharges

(* A change of the group: only the return leg comes to owe its TAR, or no  *)
(* longer to, and it is priced.                                            *)
LEMMA GroupWriteCharges ==
  ASSUME IInv, NEW p \in Requests, Charging(p), request[p].phase = "write",
         request[p].op \notin {"REPRICE", "MOVE"},
         UNCHANGED <<trip, snapshot>>, NEW todo \in SUBSET Trips,
         Wrote(p, todo, NoClaim),
         \/ Together' = Together
         \/ ClosedOf(Legs) \subseteq todo /\ todo \subseteq Legs
  PROVE  Charging(p)' /\ (Provided(p) => Provided(p)')
<1>1. /\ \A u : /\ Priceable(u)' = Priceable(u) /\ Charged(u)' = Charged(u)
                /\ Counted(u)' = Counted(u) /\ TarDayOf(u)' = TarDayOf(u)
      /\ \A tar : Holders(tar)' = Holders(tar)
      /\ \A u, w : Twofold(u, w)' = Twofold(u, w)
  BY DEF Priceable, Charged, Shown, Counted, TarDayOf, Holders, Stating, Twofold
<1>2. Collection \in Legs \/ (~Together /\ ~Together')
  BY LegsAreAPair DEF Together
<1>3. (Together /\ Charged(Collection))' => Collection \in todo /\ todo \subseteq Legs
  <2> SUFFICES ASSUME Together', Charged(Collection)
               PROVE  Collection \in todo /\ todo \subseteq Legs
    BY <1>1
  <2>1. Together' # Together /\ Priceable(Collection)
    BY BeforeWrite DEF Charged, Shown
  <2> QED BY <1>2, <2>1 DEF ClosedOf
<1>4. \A u, w \in Trips : Twofold(u, w)' => todo = {u} \/ todo = {w}
  BY <1>1, BeforeWrite
<1>5. ASSUME Provided(p), NEW v \in Trips, Bare(v)'
      PROVE  v \in todo
  <2>1. Priceable(v) /\ Owes(v)' /\ ~Bare(v) /\ (Owes(v) => Bare(v))
    BY <1>1, <1>5, BeforeWrite DEF Bare, Needy
  <2>2. Together /\ ~Together' /\ v = Collection
    BY <2>1 DEF Owes
  <2>3. v \in Legs /\ ClosedOf(Legs) \subseteq todo
    BY <1>2, <2>2
  <2> QED BY <2>1, <2>3 DEF ClosedOf
<1>6. NoClaim \in TarDay \cup {NoClaim}
  OBVIOUS
<1> QED BY <1>3, <1>4, <1>5, <1>6, WroteCharges

LEMMA WriteCharges ==
  ASSUME IInv, NEW p \in Requests, Sound(p), Charging(p), Write(p)
  PROVE  Charging(p)' /\ (Provided(p) => Provided(p)')
<1>0. PICK t : t = request[p].trip
  OBVIOUS
<1>1. /\ t \in Trips /\ request[p].phase = "write" /\ snapshot' = snapshot
      /\ request[p].op = "NUMBER" => request[p].value \in Numbers \cup {NoNumber}
      /\ request[p].op = "EDIT" => request[p].value \in Inputs
      /\ grouped \subseteq Legs /\ trip[t] \in Row
  BY <1>0 DEF Write, IInv, TypeOK, ChainsAreConsistent, Consistent
<1>2. CASE WriteClose(p) \/ WriteReopen(p) \/ WriteCancel(p)
  <2>1. PICK to \in Statuses : /\ WriteStatus(p, t, to)
                               /\ request[p].op \notin {"REPRICE", "MOVE"}
    BY <1>0, <1>2 DEF WriteClose, WriteReopen, WriteCancel, Statuses
  <2> QED BY <1>0, <1>1, <2>1, StatusWriteCharges
<1>3. CASE WriteNumber(p)
  <2>1. PICK after : after = [trip[t] EXCEPT !.number = request[p].value]
    OBVIOUS
  <2>2. /\ trip' = [trip EXCEPT ![t] = after] /\ grouped' = grouped
        /\ Wrote(p, {t}, Released(request[p].before, after)) /\ request[p].op = "NUMBER"
    BY <1>0, <1>3, <2>1 DEF WriteNumber, WriteColumns
  <2>3. after \in Row /\ after.status = trip[t].status /\ after.day = trip[t].day
    BY <1>1, <2>1, <2>2 DEF Row
  <2> QED BY <1>0, <1>1, <2>2, <2>3, RowWriteCharges
<1>4. CASE WriteMove(p)
  BY <1>4 DEF WriteMove, Charging, Asked
<1>5. CASE WriteEdit(p)
  <2>1. PICK after : after = [trip[t] EXCEPT !.inputs = request[p].value]
    OBVIOUS
  <2>2. /\ trip' = [trip EXCEPT ![t] = after] /\ grouped' = grouped
        /\ Wrote(p, {t}, Released(request[p].before, after)) /\ request[p].op = "EDIT"
    BY <1>0, <1>5, <2>1 DEF WriteEdit, WriteColumns
  <2>3. after \in Row /\ after.status = trip[t].status /\ after.day = trip[t].day
    BY <1>1, <2>1, <2>2 DEF Row
  <2> QED BY <1>0, <1>1, <2>2, <2>3, RowWriteCharges
<1>6. CASE WriteNothing(p)
  <2>1. /\ Wrote(p, {t}, NoClaim) /\ UNCHANGED <<trip, grouped, snapshot>>
        /\ request[p].op = "REPRICE"
    BY <1>0, <1>1, <1>6 DEF WriteNothing
  <2>2. /\ ~(Together /\ Charged(Collection))'
        /\ \A u, w \in Trips : ~Twofold(u, w)'
        /\ Provided(p) => \A v \in Trips : ~Bare(v)'
    BY <1>1, <2>1, BeforeWrite, SameDays, SameHolders
  <2>3. {t} \in SUBSET Trips /\ NoClaim \in TarDay \cup {NoClaim}
    BY <1>1
  <2> QED BY <1>0, <2>1, <2>2, <2>3, WroteCharges
<1>7. CASE WriteLink(p)
  <2>1. CASE grouped = {}
    <3>1. /\ Wrote(p, ClosedOf(Legs), NoClaim) /\ trip' = trip
          /\ request[p].op = "LINK"
      BY <1>7, <2>1 DEF WriteLink
    <3>2. ClosedOf(Legs) \in SUBSET Trips /\ ClosedOf(Legs) \subseteq Legs
      BY LegsAreTrips DEF ClosedOf
    <3> QED BY <1>1, <3>1, <3>2, GroupWriteCharges
  <2>2. CASE grouped # {}
    <3>1. UNCHANGED <<trip, grouped, snapshot>> /\ request'[p] = Idle
      BY <1>1, <1>7, <2>2 DEF WriteLink, IInv, TypeOK
    <3>2. request'[p].phase \notin AtWork /\ Asked(p)'
      BY <3>1 DEF Idle, AtWork, Asked
    <3> QED BY <1>1, <3>1, <3>2, BeforeWrite, RestCharges
  <2> QED BY <2>1, <2>2
<1>8. CASE WriteUnlink(p)
  <2> DEFINE todo == ClosedOf(IF grouped \cup {t} = Legs THEN Legs ELSE {t})
  <2>1. /\ Wrote(p, todo, NoClaim) /\ trip' = trip /\ grouped' = grouped \ {t}
        /\ request[p].op = "UNLINK"
    BY <1>0, <1>8 DEF WriteUnlink
  <2>2. todo \in SUBSET Trips
    BY <1>1, LegsAreTrips DEF ClosedOf
  <2>3. \/ Together' = Together
        \/ ClosedOf(Legs) \subseteq todo /\ todo \subseteq Legs
    <3>1. CASE grouped = Legs /\ t \in Legs
      <4>1. grouped \cup {t} = Legs
        BY <3>1
      <4> QED BY <4>1 DEF ClosedOf
    <3>2. CASE grouped = Legs /\ t \notin Legs
      <4>1. grouped' = grouped
        BY <2>1, <3>2
      <4> QED BY <4>1 DEF Together
    <3>3. CASE grouped # Legs
      <4>1. grouped' # Legs
        BY <1>1, <2>1, <3>3
      <4> QED BY <3>3, <4>1 DEF Together
    <3> QED BY <3>1, <3>2, <3>3
  <2> HIDE DEF todo
  <2> QED BY <1>1, <2>1, <2>2, <2>3, GroupWriteCharges
<1> QED BY <1>1, <1>2, <1>3, <1>4, <1>5, <1>6, <1>7, <1>8 DEF Write

---------------------------------------------------------------------------
(* A pricing starts.                                                       *)

(* Two trips are priced together as the legs of a pair, the partner last.  *)
LEMMA ScopeApart ==
  ASSUME NEW p \in Requests, NEW t \in Trips
  PROVE  /\ \A i, j \in DOMAIN Scope(p, t) : i # j =>
              /\ Together /\ Scope(p, t)[i] \in Legs
              /\ Scope(p, t)[i] # Scope(p, t)[j]
         /\ \A i \in DOMAIN Scope(p, t) : i # 1 => Scope(p, t)[i] \in ClosedPartner(t)
         /\ \/ Priceable(t) \/ ~request[p].settles
            \/ request[p].op \in {"CLOSE", "REPRICE"}
            => 1 \in DOMAIN Scope(p, t) /\ Scope(p, t)[1] = t
<1> DEFINE takes == \/ Priceable(t) \/ ~request[p].settles
                    \/ request[p].op \in {"CLOSE", "REPRICE"}
<1>1. Scope(p, t) = (IF takes THEN <<t>> ELSE <<>>)
                    \o (IF ClosedPartner(t) = {} THEN <<>> ELSE <<Other(t)>>)
  BY DEF Scope
<1>2. CASE ClosedPartner(t) = {}
  <2>1. Scope(p, t) = IF takes THEN <<t>> ELSE <<>>
    BY <1>1, <1>2
  <2>2. \A i, j \in DOMAIN Scope(p, t) : i = 1 /\ j = 1
    BY <2>1
  <2> QED BY <2>1, <2>2
<1>3. CASE ClosedPartner(t) # {}
  <2>1. /\ Together /\ t \in Legs /\ Other(t) \in Legs /\ Other(t) # t
        /\ Other(t) \in ClosedPartner(t)
    BY <1>3, PartnerIsOther DEF ClosedPartner
  <2>2. CASE takes
    <3>1. Scope(p, t) = <<t, Other(t)>>
      BY <1>1, <1>3, <2>2, JoinOfTwo
    <3>2. DOMAIN Scope(p, t) = {1, 2} /\ Scope(p, t)[1] = t /\ Scope(p, t)[2] = Other(t)
      BY <3>1
    <3> QED BY <2>1, <2>2, <3>2
  <2>3. CASE ~takes
    <3>1. Scope(p, t) = <<Other(t)>>
      BY <1>1, <1>3, <2>3
    <3>2. \A i, j \in DOMAIN Scope(p, t) : i = 1 /\ j = 1
      BY <3>1
    <3> QED BY <2>3, <3>2
  <2> QED BY <2>2, <2>3
<1> QED BY <1>2, <1>3

LEMMA StartsApart ==
  ASSUME IInv, ClockIsPast, NEW p \in Requests, NEW t \in Trips,
         UNCHANGED <<trip, grouped, snapshot>>,
         request'[p].phase \in {"price", "calculate"},
         request'[p].scope = Scope(p, t), request'[p].since = clock,
         request'[p].results = <<>>, request'[p].stored = 0
  PROVE  Apart(p)' /\ Claims(p)'
<1> PICK scope : scope = Scope(p, t)
  OBVIOUS
<1>1. /\ \A i, j \in DOMAIN scope : i # j =>
              Together /\ scope[i] \in Legs /\ scope[i] # scope[j]
      /\ \A i \in DOMAIN scope : i # 1 => scope[i] \in ClosedPartner(t)
  BY ScopeApart
<1>2. /\ Together' = Together /\ snapshot' = snapshot
      /\ \A u : Priceable(u)' = Priceable(u)
  BY SameDays
<1>3. \A u \in ClosedPartner(t) : Priceable(u)
  BY DEF ClosedPartner
<1>4. \A u \in Trips : snapshot[u] # NoSnapshot => snapshot[u].at < clock
  BY DEF ClockIsPast
<1>5. Apart(p)'
  BY <1>1, <1>2, <1>3, <1>4 DEF Apart, Unstored, AtWork
<1>6. Claims(p)'
  BY DEF Claims
<1> QED BY <1>5, <1>6

LEMMA StartPricingCharges ==
  ASSUME IInv, ClockIsPast, NEW p \in Requests, Sound(p), Charging(p), StartPricing(p)
  PROVE  Charging(p)' /\ (Provided(p) => Provided(p)')
<1>1. /\ request[p] \in Request /\ request[p].phase = "price"
      /\ request[p].results = <<>> /\ request[p].stored = 0
      /\ UNCHANGED <<trip, grouped, snapshot>>
  BY DEF StartPricing, IInv, TypeOK, ChainsAreConsistent, Consistent
<1>2. PICK t \in request[p].todo :
        request' = [request EXCEPT
            ![p].todo  = @ \ ({t} \cup ClosedPartner(t)),
            ![p].phase = IF Scope(p, t) = <<>> THEN "price" ELSE "calculate",
            ![p].scope = Scope(p, t),
            ![p].since = clock]
  BY DEF StartPricing
<1>3. t \in Trips
  BY <1>1, <1>2 DEF Request
<1> PICK scope : scope = Scope(p, t)
  OBVIOUS
<1>4. /\ request'[p].todo = request[p].todo \ ({t} \cup ClosedPartner(t))
      /\ request'[p].phase = IF scope = <<>> THEN "price" ELSE "calculate"
      /\ request'[p].scope = scope
      /\ request'[p].since = clock
  BY <1>1, <1>2 DEF IInv, TypeOK, Request
<1>5. /\ request'[p].op = request[p].op /\ request'[p].settles = request[p].settles
      /\ request'[p].results = <<>> /\ request'[p].stored = 0
  BY <1>1, <1>2 DEF IInv, TypeOK, Request
<1>6. /\ request'[p].trip = request[p].trip /\ request'[p].release = request[p].release
  BY <1>1, <1>2 DEF IInv, TypeOK, Request
<1>7. /\ request[p].settles
      /\ request[p].op = "CLOSE" => \A u \in request[p].todo : Priceable(u)
  BY <1>1 DEF Sound, Fitting
<1>8. scope \in Seq(Trips) /\ \A i \in DOMAIN scope : i > 0 /\ scope # <<>>
  <2>1. scope \in Seq(Trips)
    BY <1>3, ScopeType
  <2> QED BY <2>1
<1>9. \A u \in {t} \cup ClosedPartner(t) : Priceable(u) =>
        /\ scope # <<>>
        /\ \E i \in DOMAIN scope : i > 0 /\ scope[i] = u
  BY <1>3, <1>8, ScopeHolds
<1>10. Apart(p)' /\ Claims(p)'
  BY <1>1, <1>3, <1>4, <1>5, StartsApart
<1>11. ReturnFree(p)'
  <2> SUFFICES ASSUME Together, Charged(Collection) PROVE ReturnFree(p)'
    BY <1>1, SameDays, SameHolders DEF ReturnFree
  <2>1. /\ request[p].op # "REPRICE"
        /\ Collection \in request[p].todo /\ request[p].todo \subseteq Legs
    BY <1>1 DEF Charging, ReturnFree, AtWork
  <2>2. Priceable(Collection)
    BY DEF Charged, Shown
  <2>3. Collection \in {t} \cup ClosedPartner(t)
    BY <1>2, <2>1, <2>2 DEF ClosedPartner, Partner, Priceable
  <2>4. Unstored(p, Collection)' /\ request'[p].phase \in AtWork
    BY <1>4, <1>5, <1>9, <2>2, <2>3 DEF Unstored, AtWork
  <2> QED BY <1>5, <1>7, <2>1, <2>4 DEF ReturnFree
<1>12. Asked(p)'
  BY <1>4, <1>5, <1>6 DEF Charging, Asked
<1>13. Twice(p)'
  <2> SUFFICES ASSUME NEW x \in Trips, NEW u \in Trips, Twofold(x, u)
               PROVE  First(p, x)' \/ First(p, u)'
    BY <1>1, SameHolders DEF Twice
  <2>1. PICK w \in {x, u} : First(p, w)
    BY DEF Charging, Twice
  <2>2. w = t /\ Priceable(t)
    BY <1>1, <1>2, <2>1 DEF First, AtWork, Twofold, Charged, Shown
  <2>3. 1 \in DOMAIN scope /\ scope[1] = w
    BY <1>3, <2>2, ScopeApart
  <2>4. First(p, w)'
    BY <1>4, <1>5, <1>8, <2>3 DEF First, AtWork
  <2> QED BY <2>1, <2>4
<1>14. ASSUME Provided(p) PROVE Provided(p)'
  <2> SUFFICES ASSUME NEW v \in Trips, Bare(v)
               PROVE  /\ Wrote_(p)'
                      /\ \E w \in Trips : /\ Needy(w)' /\ TarDayOf(w)' = TarDayOf(v)'
                                          /\ Pledged(p, w)'
    BY <1>1, SameHolders DEF Provided
  <2>1. Wrote_(p)'
    BY <1>4 DEF Wrote_
  <2>2. PICK w \in Trips : Needy(w) /\ TarDayOf(w) = TarDayOf(v) /\ Pledged(p, w)
    BY <1>14 DEF Provided
  <2>3. CASE w \in request'[p].todo \/ (request[p].release = TarDayOf(w) /\ w # request[p].trip)
    <3>1. Pledged(p, w)'
      BY <1>1, <1>6, <2>3, SameDays DEF Pledged
    <3> QED BY <1>1, <2>1, <2>2, <3>1, SameDays
  <2>4. CASE w \in {t} \cup ClosedPartner(t) /\ w \in request[p].todo
    <3>1. PICK i \in DOMAIN scope : i > 0 /\ scope[i] = w /\ scope # <<>>
      BY <1>9, <2>2, <2>4 DEF Needy
    <3>2. ASSUME NEW j \in DOMAIN scope PROVE Priceable(scope[j])
      <4>1. CASE Priceable(t)
        BY <1>3, <4>1, ScopeHolds DEF ClosedPartner
      <4>2. CASE ~Priceable(t)
        <5>1. request[p].op # "CLOSE"
          BY <1>2, <1>7, <4>2
        <5>2. request[p].op = "REPRICE" => w = t
          BY <1>2, <2>4 DEF Charging, Asked
        <5>3. request[p].op \notin {"CLOSE", "REPRICE"}
          BY <2>2, <4>2, <5>1, <5>2 DEF Needy
        <5> QED BY <1>3, <1>7, <4>2, <5>3, ScopeHolds DEF ClosedPartner
      <4> QED BY <4>1, <4>2
    <3>3. \A u : Priceable(u)' = Priceable(u)
      BY <1>1, SameDays
    <3>4. BeingPriced(p, w)'
      BY <1>4, <1>5, <3>1, <3>2, <3>3 DEF BeingPriced, InWork, AtWork
    <3>5. Pledged(p, w)'
      BY <3>4 DEF Pledged
    <3> QED BY <1>1, <2>1, <2>2, <3>5, SameDays
  <2> QED BY <1>1, <1>4, <1>7, <2>2, <2>3, <2>4 DEF Pledged, BeingPriced, AtWork
<1> QED BY <1>10, <1>11, <1>12, <1>13, <1>14 DEF Charging

LEMMA StartSettlingCharges ==
  ASSUME IInv, ClockIsPast, NEW p \in Requests, Sound(p), Charging(p), StartSettling(p)
  PROVE  Charging(p)' /\ (Provided(p) => Provided(p)')
<1>1. /\ request[p] \in Request /\ request[p].phase = "resettle" /\ ~request[p].settles
      /\ request[p].results = <<>> /\ request[p].stored = 0
      /\ UNCHANGED <<trip, grouped, snapshot>>
  BY DEF StartSettling, IInv, TypeOK, ChainsAreConsistent, Consistent
<1>2. PICK t \in request[p].moved :
        request' = [request EXCEPT ![p].moved = @ \ {t},
                                   ![p].phase = "calculate",
                                   ![p].scope = Scope(p, t),
                                   ![p].since = clock]
  BY DEF StartSettling
<1>3. t \in Trips /\ Priceable(t)
  BY <1>1, <1>2 DEF Request, Sound, Fitting
<1> PICK scope : scope = Scope(p, t)
  OBVIOUS
<1>4. /\ request'[p].moved = request[p].moved \ {t}
      /\ request'[p].phase = "calculate"
      /\ request'[p].scope = scope
      /\ request'[p].since = clock
  BY <1>1, <1>2 DEF IInv, TypeOK, Request
<1>5. /\ request'[p].op = request[p].op /\ request'[p].settles = request[p].settles
      /\ request'[p].results = <<>> /\ request'[p].stored = 0
  BY <1>1, <1>2 DEF IInv, TypeOK, Request
<1>6. /\ request'[p].trip = request[p].trip /\ request'[p].release = request[p].release
      /\ request'[p].todo = request[p].todo
  BY <1>1, <1>2 DEF IInv, TypeOK, Request
<1>7. Apart(p)' /\ Claims(p)'
  BY <1>1, <1>3, <1>4, <1>5, StartsApart
<1>8. ReturnFree(p)' /\ Twice(p)' /\ Asked(p)'
  <2>1. ~(Together /\ Charged(Collection)) /\ Asked(p) /\ Twice(p)
    BY <1>1 DEF Charging, ReturnFree
  <2>2. ReturnFree(p)'
    BY <1>1, <2>1, SameDays, SameHolders DEF ReturnFree
  <2>3. \A x, u \in Trips : ~Twofold(x, u)
    BY <1>1, <2>1 DEF Twice, First, AtWork
  <2>4. Twice(p)'
    BY <1>1, <2>3, SameHolders DEF Twice
  <2> QED BY <1>4, <1>5, <1>6, <2>1, <2>2, <2>4 DEF Asked
<1>9. ASSUME Provided(p) PROVE Provided(p)'
  <2> SUFFICES ASSUME NEW v \in Trips, Bare(v)
               PROVE  /\ Wrote_(p)'
                      /\ \E w \in Trips : /\ Needy(w)' /\ TarDayOf(w)' = TarDayOf(v)'
                                          /\ Pledged(p, w)'
    BY <1>1, SameHolders DEF Provided
  <2>1. Wrote_(p)'
    BY <1>4 DEF Wrote_
  <2>2. PICK w \in Trips : Needy(w) /\ TarDayOf(w) = TarDayOf(v) /\ Pledged(p, w)
    BY <1>9 DEF Provided
  <2>3. \/ w \in request[p].todo \/ w \in request[p].moved
        \/ request[p].release = TarDayOf(w) /\ w # request[p].trip
    BY <1>1, <2>2 DEF Pledged, BeingPriced, AtWork
  <2>4. CASE w # t
    <3>1. Pledged(p, w)'
      BY <1>1, <1>4, <1>5, <1>6, <2>3, <2>4, SameDays DEF Pledged
    <3> QED BY <1>1, <2>1, <2>2, <3>1, SameDays
  <2>5. CASE w = t
    <3>1. PICK i \in DOMAIN scope : scope[i] = w
      BY <1>3, <2>5, ScopeHolds
    <3>2. i > 0
      BY <1>3, <3>1, ScopeType
    <3>3. \A j \in DOMAIN scope : Priceable(scope[j])
      BY <1>3, ScopeHolds DEF ClosedPartner
    <3>4. \A u : Priceable(u)' = Priceable(u)
      BY <1>1, SameDays
    <3>5. BeingPriced(p, w)'
      BY <1>4, <1>5, <3>1, <3>2, <3>3, <3>4 DEF BeingPriced, InWork, AtWork
    <3>6. Pledged(p, w)'
      BY <3>5 DEF Pledged
    <3> QED BY <1>1, <2>1, <2>2, <3>6, SameDays
  <2> QED BY <2>4, <2>5
<1> QED BY <1>7, <1>8, <1>9 DEF Charging

---------------------------------------------------------------------------
(* Between two pricings, and when one is given up.                         *)

LEMMA LeftCharges ==
  ASSUME NEW p \in Requests, request'[p].phase \notin AtWork, Asked(p)',
         ~(Together /\ Charged(Collection))', \A t, u \in Trips : ~Twofold(t, u)'
  PROVE  Charging(p)'
BY DEF Charging, Apart, Claims, ReturnFree, Twice

LEMMA BetweenCharges ==
  ASSUME IInv, NEW p \in Requests, Sound(p), Charging(p),
         SettlementDone(p) \/ Release(p) \/ Answer(p)
  PROVE  Charging(p)' /\ (Provided(p) => Provided(p)')
<1>1. request[p] \in Request /\ UNCHANGED <<trip, grouped, snapshot>>
  BY DEF SettlementDone, Release, Answer, IInv, TypeOK
<1>2. /\ ~(Together /\ Charged(Collection))' /\ ~(Together /\ Charged(Collection))
      /\ \A t, u \in Trips : ~Twofold(t, u)' /\ ~Twofold(t, u)
  <2>1. /\ request[p].phase \notin AtWork
        /\ request[p].phase = "price" => request[p].todo = {}
        /\ ~request[p].settles \/ request[p].phase = "price"
    BY DEF SettlementDone, Release, Answer, AtWork, IInv, ChainsAreConsistent, Consistent
  <2>2. ~(Together /\ Charged(Collection))
    BY <2>1 DEF Charging, ReturnFree
  <2>3. \A t, u \in Trips : ~Twofold(t, u)
    BY <2>1 DEF Charging, Twice, First
  <2> QED BY <1>1, <2>2, <2>3, SameDays, SameHolders
<1>3. ASSUME NEW v \in Trips, Provided(p), Bare(v)
      PROVE  \E w \in Trips : /\ Needy(w) /\ TarDayOf(w) = TarDayOf(v)
                              /\ Pledged(p, w)
  BY <1>3 DEF Provided
<1>4. CASE SettlementDone(p)
  <2>1. /\ request[p].phase = "resettle" /\ request'[p].phase = "price"
        /\ request[p].moved = {}
        /\ request'[p].op = request[p].op /\ request'[p].todo = request[p].todo
        /\ request'[p].trip = request[p].trip /\ request'[p].release = request[p].release
    BY <1>1, <1>4 DEF SettlementDone, IInv, TypeOK, Request
  <2>2. Asked(p)' /\ request'[p].phase \notin AtWork /\ Wrote_(p)'
    BY <2>1 DEF Charging, Asked, AtWork, Wrote_
  <2>3. ASSUME NEW w \in Trips, Pledged(p, w) PROVE Pledged(p, w)'
    BY <1>1, <2>1, <2>3, SameDays DEF Pledged, BeingPriced, AtWork
  <2>4. Provided(p) => Provided(p)'
    BY <1>1, <1>3, <2>2, <2>3, SameDays, SameHolders DEF Provided
  <2> QED BY <1>2, <2>2, <2>4, LeftCharges
<1>5. CASE Release(p)
  <2>1. /\ request[p].phase = "price" /\ request'[p].phase = "price"
        /\ request[p].todo = {} /\ request[p].release # NoClaim
        /\ request'[p].op = request[p].op /\ request'[p].release = NoClaim
        /\ request'[p].todo = ClosedStating(request[p].release, request[p].trip)
    BY <1>1, <1>5 DEF Release, IInv, TypeOK, Request
  <2>2. Asked(p)' /\ request'[p].phase \notin AtWork /\ Wrote_(p)'
    BY <2>1 DEF Charging, Asked, AtWork, Wrote_
  <2>3. ASSUME NEW w \in Trips, Needy(w), Pledged(p, w) PROVE Pledged(p, w)'
    <3>1. request[p].settles
      BY <2>1 DEF Sound, Fitting
    <3>2. request[p].release = TarDayOf(w) /\ w # request[p].trip
      BY <2>1, <2>3, <3>1 DEF Pledged, BeingPriced, AtWork
    <3>3. w \in ClosedStating(request[p].release, request[p].trip)
      BY <2>3, <3>2 DEF ClosedStating, Stating, Needy
    <3> QED BY <2>1, <3>3 DEF Pledged
  <2>4. Provided(p) => Provided(p)'
    BY <1>1, <1>3, <2>2, <2>3, SameDays, SameHolders DEF Provided
  <2> QED BY <1>2, <2>2, <2>4, LeftCharges
<1>6. CASE Answer(p)
  <2>1. request'[p] = Idle
    BY <1>6 DEF Answer, IInv, TypeOK
  <2>2. request'[p].phase \notin AtWork /\ Asked(p)'
    BY <2>1 DEF Idle, AtWork, Asked
  <2>3. /\ request[p].phase = "price" /\ request[p].todo = {}
        /\ request[p].release = NoClaim /\ request[p].settles
    BY <1>6 DEF Answer, Sound, Fitting
  <2>4. ASSUME NEW w \in Trips, Needy(w) PROVE ~Pledged(p, w)
    <3>1. TarDayOf(w).number # NoNumber
      BY <2>4 DEF Needy, Owes, TarDayOf
    <3>2. request[p].release.number = NoNumber
      BY <2>3 DEF NoClaim
    <3> QED BY <2>3, <3>1, <3>2 DEF Pledged, BeingPriced, AtWork
  <2>5. Provided(p) => \A v \in Trips : ~Bare(v)
    BY <1>3, <2>4
  <2> QED BY <1>1, <1>2, <2>2, <2>5, RestCharges
<1> QED BY <1>4, <1>5, <1>6

LEMMA LeavesFields ==
  ASSUME IInv, NEW p \in Requests, request' = [request EXCEPT ![p] = Leave(@)]
  PROVE  /\ request'[p].op = request[p].op /\ request'[p].todo = request[p].todo
         /\ request'[p].trip = request[p].trip /\ request'[p].release = request[p].release
         /\ request'[p].moved = request[p].moved
         /\ request'[p].settles = request[p].settles
         /\ request'[p].phase \notin AtWork \cup {"settle"} /\ Wrote_(p)'
<1>1. request[p] \in Request /\ request'[p] = Leave(request[p])
  BY DEF IInv, TypeOK
<1>2. PICK req \in Request : req = request[p]
  BY <1>1
<1>3. /\ Leave(req).op = req.op /\ Leave(req).todo = req.todo
      /\ Leave(req).trip = req.trip /\ Leave(req).release = req.release
      /\ Leave(req).moved = req.moved /\ Leave(req).settles = req.settles
      /\ Leave(req).phase \in {"price", "resettle"}
  BY <1>2 DEF Leave, Request
<1> QED BY <1>1, <1>2, <1>3 DEF AtWork, Wrote_

(* A pricing that failed: what it would have replaced is FAILED, so it     *)
(* charges nothing.                                                        *)
LEMMA FailCharges ==
  ASSUME IInv, NEW p \in Requests, Charging(p), request[p].phase \in AtWork,
         Fail(p), UNCHANGED <<trip, grouped>>
  PROVE  Charging(p)'
<1>1. /\ snapshot' = Marked(p) /\ request' = [request EXCEPT ![p] = Leave(@)]
      /\ request[p] \in Request /\ snapshot \in [Trips -> Snapshot \cup {NoSnapshot}]
  BY DEF Fail, IInv, TypeOK
<1>2. /\ request'[p].phase \notin AtWork /\ Asked(p)'
  BY <1>1, LeavesFields DEF Charging, Asked
<1>3. ASSUME NEW u \in Trips, Charged(u)'
      PROVE  Charged(u) /\ ~Unstored(p, u)
  <2>1. snapshot'[u] # NoSnapshot /\ ~snapshot'[u].failed /\ snapshot'[u].tar
    BY <1>3 DEF Charged, Shown
  <2>2. CASE /\ \E i \in DOMAIN request[p].scope : request[p].scope[i] = u
             /\ snapshot[u] # NoSnapshot /\ snapshot[u].at < request[p].since
    <3>1. snapshot[u] \in Snapshot /\ snapshot'[u] = [snapshot[u] EXCEPT !.failed = TRUE]
      BY <1>1, <2>2 DEF Marked
    <3>2. snapshot'[u].failed
      BY <3>1 DEF Snapshot
    <3> QED BY <2>1, <3>2
  <2>3. CASE ~(/\ \E i \in DOMAIN request[p].scope : request[p].scope[i] = u
               /\ snapshot[u] # NoSnapshot /\ snapshot[u].at < request[p].since)
    <3>1. snapshot'[u] = snapshot[u]
      BY <1>1, <2>3 DEF Marked
    <3>2. Charged(u)
      BY <1>3, <3>1, SameDays DEF Charged, Shown
    <3>3. Unstored(p, u) => snapshot[u].at < request[p].since
      BY <2>1, <3>1 DEF Charging, Apart
    <3> QED BY <2>1, <2>3, <3>1, <3>2, <3>3 DEF Unstored
  <2> QED BY <2>2, <2>3
<1>4. ~(Together /\ Charged(Collection))'
  <2> SUFFICES ASSUME Together, Charged(Collection)' PROVE FALSE
    BY SameDays
  <2>1. Collection \in Trips
    BY LegsAreAPair, LegsAreTrips DEF Together
  <2> QED BY <1>3, <2>1 DEF Charging, ReturnFree, AtWork
<1>5. ASSUME NEW t \in Trips, NEW u \in Trips, Twofold(t, u)' PROVE FALSE
  <2>1. Twofold(t, u) /\ ~Unstored(p, t) /\ ~Unstored(p, u)
    BY <1>3, <1>5, SameDays DEF Twofold
  <2>2. First(p, t) \/ First(p, u)
    BY <2>1 DEF Charging, Twice
  <2> QED BY <2>1, <2>2 DEF First, Unstored, AtWork
<1> QED BY <1>2, <1>4, <1>5, LeftCharges

(* The engine refuses the trip a pricing was started for: it stores and    *)
(* charges nothing.  It never refuses the partner.                         *)
LEMMA CalculationRefusedCharges ==
  ASSUME IInv, NEW p \in Requests, Sound(p), Charging(p), CalculationRefused(p)
  PROVE  Charging(p)' /\ (Provided(p) => Provided(p)')
<1> DEFINE i == Len(request[p].results) + 1
<1>1. /\ request[p] \in Request /\ request[p].phase = "calculate"
      /\ Len(request[p].results) < Len(request[p].scope)
      /\ ~Priceable(request[p].scope[i])
      /\ UNCHANGED <<trip, grouped>>
  BY DEF CalculationRefused, InScope, IInv, TypeOK, ChainsAreConsistent, Consistent
<1>2. /\ request[p].results \in Seq(Result) /\ request[p].scope \in Seq(Trips)
      /\ i \in DOMAIN request[p].scope /\ request[p].scope[i] \in Trips
  BY <1>1 DEF Request
<1>3. i = 1
  <2>1. ~(i # 1 \/ request[p].results # <<>>)
    BY <1>1, <1>2 DEF Charging, Apart, AtWork
  <2> QED BY <2>1
<1>4. request' = [request EXCEPT ![p] = Leave(@)] /\ snapshot' = snapshot
  BY <1>3 DEF CalculationRefused
<1> HIDE DEF i
<1>5. request[p].op = "REPRICE"
  BY <1>1, <1>2 DEF Sound, Fitting, AtWork
<1>6. ~(Together /\ Charged(Collection))
  BY <1>5 DEF Charging, ReturnFree
<1>7. \A t, u \in Trips : ~Twofold(t, u)
  <2> SUFFICES ASSUME NEW t \in Trips, NEW u \in Trips, Twofold(t, u) PROVE FALSE
    OBVIOUS
  <2>1. PICK w \in {t, u} : First(p, w)
    BY DEF Charging, Twice
  <2>2. request[p].scope[1] = w /\ Priceable(w)
    BY <1>1, <2>1 DEF First, Twofold, Charged, Shown
  <2> QED BY <1>1, <1>3, <2>2
<1>8. Asked(p)' /\ request'[p].phase \notin AtWork /\ Wrote_(p)'
  BY <1>4, LeavesFields DEF Charging, Asked
<1>9. Charging(p)'
  BY <1>1, <1>4, <1>6, <1>7, <1>8, RestCharges
<1>10. ASSUME NEW w \in Trips, Pledged(p, w) PROVE Pledged(p, w)'
  <2>1. ~BeingPriced(p, w)
    BY <1>1, <1>2 DEF BeingPriced, InWork
  <2>2. TarDayOf(w)' = TarDayOf(w)
    BY <1>1, SameDays
  <2> QED BY <1>1, <1>4, <1>10, <2>1, <2>2, LeavesFields DEF Pledged
<1>11. Provided(p) => Provided(p)'
  BY <1>1, <1>4, <1>8, <1>10, SameDays, SameHolders DEF Provided
<1> QED BY <1>9, <1>11

---------------------------------------------------------------------------
(* It calculates: a claim is made unless somebody's holding stands in its  *)
(* way.                                                                    *)

LEMMA CalculateCharges ==
  ASSUME IInv, NEW p \in Requests, Sound(p), Charging(p), Calculate(p)
  PROVE  Charging(p)' /\ (Provided(p) => Provided(p)')
<1> DEFINE n == Len(request[p].results)
<1>1. /\ request[p] \in Request /\ request[p].phase = "calculate"
      /\ request[p].stored = 0 /\ n < Len(request[p].scope)
      /\ UNCHANGED <<trip, grouped, snapshot>>
  BY DEF Calculate, IInv, TypeOK, ChainsAreConsistent, Consistent
<1>2. /\ request[p].results \in Seq(Result) /\ request[p].scope \in Seq(Trips)
      /\ n \in Nat /\ Len(request[p].scope) \in Nat
  BY <1>1 DEF Request
<1>3. PICK t \in Trips : t = request[p].scope[n + 1]
  BY <1>1, <1>2
<1>4. PICK result : result = Calculation(t)
  OBVIOUS
<1>5. result \in Result
  BY <1>4, CalculationType DEF IInv
<1> DEFINE results == Append(request[p].results, result)
           at == request'[p]
<1>6. /\ results \in Seq(Result) /\ DOMAIN results = 1..(n + 1)
      /\ DOMAIN request[p].results = 1..n /\ DOMAIN request[p].scope = 1..Len(request[p].scope)
      /\ results[n + 1] = result /\ results # <<>>
      /\ \A i \in 1..n : results[i] = request[p].results[i]
  BY SMTT(20), <1>2, <1>5
<1>7. /\ at.results = results /\ at.scope = request[p].scope
      /\ at.since = request[p].since /\ at.stored = request[p].stored
      /\ at.phase = IF n + 1 < Len(request[p].scope) THEN "calculate" ELSE "store"
  BY <1>1, <1>3, <1>4 DEF Calculate, InScope, IInv, TypeOK, Request
<1>8. /\ at.op = request[p].op /\ at.todo = request[p].todo
      /\ at.moved = request[p].moved /\ at.settles = request[p].settles
      /\ at.trip = request[p].trip /\ at.release = request[p].release
  BY <1>1, <1>3, <1>4 DEF Calculate, InScope, IInv, TypeOK, Request
<1>9. at.phase = "store" /\ at.settles => at.held = HoldingBefore(p)
  <2> SUFFICES ASSUME at.phase = "store", at.settles PROVE at.held = HoldingBefore(p)
    OBVIOUS
  <2>1. ~(n + 1 < Len(request[p].scope)) /\ request[p].settles
    BY <1>7, <1>8
  <2>2. PICK held : held = HoldingBefore(p)
    OBVIOUS
  <2> QED BY <1>1, <1>3, <1>4, <2>1, <2>2 DEF Calculate, InScope, IInv, TypeOK, Request
<1> HIDE DEF results, at
<1>10. request[p].phase \in AtWork /\ at.phase \in {"calculate", "store"}
  BY <1>1, <1>7 DEF AtWork
<1>11. Priceable(t)
  BY <1>3 DEF Calculate, InScope
<1>12. /\ \A u : Unstored(p, u)' = Unstored(p, u) /\ InWork(p, u)' = InWork(p, u)
       /\ \A u : First(p, u) => First(p, u)'
  BY <1>1, <1>7, <1>10 DEF at, Unstored, InWork, First, AtWork
<1>13. Apart(p)'
  <2>1. /\ \A i, j \in DOMAIN request[p].scope : i # j =>
             /\ Together /\ request[p].scope[i] \in Legs
             /\ request[p].scope[i] # request[p].scope[j]
        /\ \A i \in DOMAIN request[p].scope : \A u \in Trips :
             /\ request[p].scope[i] = u
             /\ i # 1 \/ request[p].results # <<>>
             => Priceable(u)
        /\ \A u \in Trips : Unstored(p, u) /\ snapshot[u] # NoSnapshot =>
             snapshot[u].at < request[p].since
    BY <1>1, <1>10 DEF Charging, Apart
  <2>2. ASSUME NEW i \in DOMAIN request[p].scope, NEW u \in Trips, request[p].scope[i] = u
        PROVE  Priceable(u)
    <3>1. CASE i # 1 \/ request[p].results # <<>>
      BY <2>1, <2>2, <3>1
    <3>2. CASE i = 1 /\ request[p].results = <<>>
      BY <1>3, <1>11, <2>2, <3>2
    <3> QED BY <3>1, <3>2
  <2>3. ASSUME NEW u \in Trips, Unstored(p, u), at.phase = "store", at.settles, Counted(u)
        PROVE  u \in at.held
    BY <1>9, <2>3 DEF Unstored, Counted, HoldingBefore, InScope
  <2>4. /\ Together' = Together /\ snapshot' = snapshot
        /\ \A u : Priceable(u)' = Priceable(u) /\ Counted(u)' = Counted(u)
    BY <1>1, SameDays, SameHolders
  <2> QED BY <1>7, <1>10, <1>12, <2>1, <2>2, <2>3, <2>4 DEF at, Apart
<1>14. Claims(p)'
  <2>1. /\ \A u : /\ TarDayOf(u)' = TarDayOf(u) /\ Owes(u)' = Owes(u)
                  /\ Rivalled(u)' = Rivalled(u) /\ Backed(u)' = Backed(u)
    BY <1>1, SameDays, SameHolders
  <2>2. ASSUME NEW i \in DOMAIN results, NEW u \in Trips, request[p].scope[i] = u
        PROVE  \/ results[i].claim = TarDayOf(u) /\ Owes(u) /\ ~Rivalled(u)
               \/ results[i].claim = NoClaim /\ (~Owes(u) \/ Backed(u))
    <3>1. CASE i \in 1..n
      <4>1. i \in DOMAIN request[p].results /\ i > request[p].stored
        BY <1>1, <1>2, <1>6, <3>1
      <4>2. \/ request[p].results[i].claim = TarDayOf(u) /\ Owes(u) /\ ~Rivalled(u)
            \/ request[p].results[i].claim = NoClaim /\ (~Owes(u) \/ Backed(u))
        BY <1>1, <1>10, <2>2, <4>1 DEF Charging, Claims
      <4> QED BY <1>6, <3>1, <4>2
    <3>2. CASE i = n + 1
      <4>1. u = t /\ results[i].claim = IF Owes(t) /\ ~Rivalled(t) THEN TarDayOf(t) ELSE NoClaim
        BY <1>3, <1>4, <1>6, <2>2, <3>2 DEF Calculation, Rivalled
      <4>2. Rivalled(t) => Backed(t)
        BY DEF Rivalled, HeldByAnother, Backed, ValidHolders
      <4> QED BY <4>1, <4>2
    <3> QED BY <1>2, <1>6, <2>2, <3>1, <3>2
  <2> QED BY <1>7, <2>1, <2>2 DEF at, Claims
<1>15. ReturnFree(p)'
  <2> SUFFICES ASSUME Together, Charged(Collection) PROVE ReturnFree(p)'
    BY <1>1, SameDays, SameHolders DEF ReturnFree
  <2>1. /\ request[p].op # "REPRICE" /\ request[p].settles
        /\ Unstored(p, Collection)
    BY <1>1 DEF Charging, ReturnFree
  <2>2. Unstored(p, Collection)'
    BY <1>12, <2>1
  <2> QED BY <1>8, <1>10, <2>1, <2>2 DEF at, ReturnFree, AtWork
<1>16. Asked(p)'
  BY <1>8, <1>10 DEF at, Charging, Asked
<1>17. Twice(p)'
  BY <1>1, <1>12, SameHolders DEF Charging, Twice
<1>18. ASSUME Provided(p) PROVE Provided(p)'
  <2> SUFFICES ASSUME NEW v \in Trips, Bare(v)
               PROVE  /\ Wrote_(p)'
                      /\ \E w \in Trips : /\ Needy(w)' /\ TarDayOf(w)' = TarDayOf(v)'
                                          /\ Pledged(p, w)'
    BY <1>1, SameHolders DEF Provided
  <2>1. Wrote_(p)'
    BY <1>10 DEF at, Wrote_
  <2>2. PICK w \in Trips : Needy(w) /\ TarDayOf(w) = TarDayOf(v) /\ Pledged(p, w)
    BY <1>18 DEF Provided
  <2>3. ASSUME BeingPriced(p, w) PROVE BeingPriced(p, w)'
    <3>1. PICK i \in DOMAIN request[p].scope :
            /\ i > request[p].stored /\ request[p].scope[i] = w
            /\ i \in DOMAIN request[p].results => request[p].results[i].claim = TarDayOf(w)
      BY <2>3 DEF BeingPriced
    <3>2. ASSUME i \in DOMAIN results PROVE results[i].claim = TarDayOf(w)
      <4>1. CASE i \in 1..n
        BY <1>6, <3>1, <4>1
      <4>2. CASE i = n + 1
        <5>1. w = t /\ Owes(t) /\ ~Rivalled(t)
          BY <1>3, <2>2, <3>1, <4>2 DEF Needy, Bare, Rivalled, HeldByAnother, ValidHolders
        <5>2. result.claim = TarDayOf(t)
          BY <1>4, <5>1 DEF Calculation, Rivalled
        <5> QED BY <1>6, <4>2, <5>1, <5>2
      <4> QED BY <1>2, <1>6, <3>2, <4>1, <4>2
    <3>3. \A u \in Trips : InWork(p, u)' => Priceable(u)'
      BY <1>1, <1>12, <2>3, SameDays DEF BeingPriced
    <3>4. TarDayOf(w)' = TarDayOf(w)
      BY <1>1, SameDays
    <3> QED BY <1>7, <1>10, <3>1, <3>2, <3>3, <3>4 DEF at, BeingPriced, AtWork
  <2>4. \A u : TarDayOf(u)' = TarDayOf(u) /\ Needy(u)' = Needy(u)
    BY <1>1, SameDays
  <2>5. Pledged(p, w)'
    BY <1>1, <1>8, <2>2, <2>3, <2>4 DEF at, Pledged
  <2> QED BY <2>1, <2>2, <2>4, <2>5
<1> QED BY <1>13, <1>14, <1>15, <1>16, <1>17, <1>18 DEF Charging

---------------------------------------------------------------------------
(* It stores: the claim stands, and a charge that is given up is settled.  *)

LEMMA StoredFields ==
  ASSUME IInv, NEW p \in Requests, Store(p)
  PROVE  /\ request'[p].op = request[p].op /\ request'[p].todo = request[p].todo
         /\ request'[p].trip = request[p].trip /\ request'[p].release = request[p].release
         /\ request'[p].moved = request[p].moved
         /\ request'[p].settles = request[p].settles
         /\ request[p].stored + 1 < Len(request[p].results) =>
              /\ request'[p].phase = "store" /\ request'[p].stored = request[p].stored + 1
              /\ request'[p].scope = request[p].scope /\ request'[p].since = request[p].since
              /\ request'[p].results = request[p].results /\ request'[p].held = request[p].held
         /\ ~(request[p].stored + 1 < Len(request[p].results)) =>
              /\ request'[p].phase \notin AtWork
              /\ request'[p].phase = "settle" => request[p].settles
              /\ request[p].settles =>
                   /\ request'[p].phase = "settle"
                   /\ request'[p].scope = request[p].scope
                   /\ request'[p].held = request[p].held
         /\ Wrote_(p)'
<1>1. /\ request[p] \in Request /\ request'[p] = Stored(request[p])
  BY DEF Store, IInv, TypeOK
<1>2. PICK req \in Request : req = request[p]
  BY <1>1
<1>3. CASE req.stored + 1 < Len(req.results)
  <2>1. Stored(req) = [req EXCEPT !.stored = @ + 1, !.attempt = 1, !.phase = "store"]
    BY <1>3 DEF Stored
  <2>2. /\ Stored(req).op = req.op /\ Stored(req).todo = req.todo
        /\ Stored(req).trip = req.trip /\ Stored(req).release = req.release
        /\ Stored(req).moved = req.moved /\ Stored(req).settles = req.settles
    BY <1>2, <2>1 DEF Request
  <2>3. /\ Stored(req).phase = "store" /\ Stored(req).stored = req.stored + 1
        /\ Stored(req).scope = req.scope /\ Stored(req).since = req.since
        /\ Stored(req).results = req.results /\ Stored(req).held = req.held
    BY <1>2, <2>1 DEF Request
  <2> QED BY <1>1, <1>2, <1>3, <2>2, <2>3 DEF Wrote_
<1>4. CASE ~(req.stored + 1 < Len(req.results)) /\ req.settles
  <2>1. Stored(req) = [req EXCEPT !.phase = "settle"]
    BY <1>4 DEF Stored
  <2>2. /\ Stored(req).op = req.op /\ Stored(req).todo = req.todo
        /\ Stored(req).trip = req.trip /\ Stored(req).release = req.release
        /\ Stored(req).moved = req.moved /\ Stored(req).settles = req.settles
        /\ Stored(req).phase = "settle"
        /\ Stored(req).scope = req.scope /\ Stored(req).held = req.held
    BY <1>2, <2>1 DEF Request
  <2> QED BY <1>1, <1>2, <1>4, <2>2 DEF Wrote_, AtWork
<1>5. CASE ~(req.stored + 1 < Len(req.results)) /\ ~req.settles
  <2>1. request' = [request EXCEPT ![p] = Leave(@)]
    BY <1>2, <1>5 DEF Store, Stored
  <2> QED BY <1>2, <1>5, <2>1, LeavesFields
<1> QED BY <1>3, <1>4, <1>5

(* The snapshot of t is replaced by one that charges it, or does not.      *)
Recharges(t, charges) ==
  /\ \A u \in Trips : u # t =>
       /\ snapshot'[u] = snapshot[u]
       /\ Counted(u)' = Counted(u) /\ Charged(u)' = Charged(u)
  /\ Counted(t)' = charges /\ Charged(t)' = charges
  /\ \A tar : \A u \in Trips : u # t => (u \in Holders(tar)' <=> u \in Holders(tar))
  /\ \A tar : (t \in Holders(tar)' <=> TarDayOf(t) = tar /\ charges)
  /\ \A tar : (t \in Holders(tar) <=> TarDayOf(t) = tar /\ Counted(t))

LEMMA StoreRecharges ==
  ASSUME IInv, NEW p \in Requests, Sound(p), Charging(p), Store(p),
         NEW k, k = request[p].stored + 1, NEW t, t = request[p].scope[k]
  PROVE  /\ t \in Trips /\ Priceable(t) /\ Unstored(p, t)
         /\ k \in 1..Len(request[p].results)
         /\ Len(request[p].results) = Len(request[p].scope)
         /\ Recharges(t, request[p].results[k].claim # NoClaim)
<1>1. /\ request[p] \in Request /\ request[p].phase = "store"
      /\ UNCHANGED <<trip, grouped, clock>> /\ snapshot' = StoreTarget(p)
      /\ snapshot \in [Trips -> Snapshot \cup {NoSnapshot}] /\ k = StoreIndex(p)
  BY DEF Store, StoreIndex, IInv, TypeOK
<1>2. /\ request[p].results \in Seq(Result) /\ request[p].scope \in Seq(Trips)
      /\ request[p].since \in Nat /\ request[p].stored \in Nat
      /\ k \in 1..Len(request[p].results)
  BY <1>1, PendingType DEF Request
<1>3. /\ t \in Trips /\ t = InScope(p, StoreIndex(p))
  BY <1>1, PendingType DEF InScope
<1>4. PICK result \in Result : result = request[p].results[k] /\ result = Pending(p)
  BY <1>1, PendingType DEF Pending
<1>5. /\ Len(request[p].results) = Len(request[p].scope)
      /\ result.at \in Nat /\ result.at >= request[p].since
  <2>1. k \in DOMAIN request[p].results /\ result.at \in Nat
    BY <1>2 DEF Result
  <2> QED BY <1>1, <1>3, <1>4, <2>1 DEF Sound, Calculated, AtWork
<1>6. k \in DOMAIN request[p].scope /\ k > request[p].stored
  BY <1>2, <1>5
<1>7. Priceable(t) /\ Unstored(p, t)
  <2>1. Priceable(t)
    BY <1>1, <1>3, <1>6 DEF Charging, Apart, AtWork
  <2> QED BY <1>6, <2>1 DEF Unstored
<1>8. ~Superseded(p)
  <2> SUFFICES ASSUME snapshot[t] # NoSnapshot, snapshot[t].at > result.at PROVE FALSE
    BY <1>3, <1>4 DEF Superseded
  <2>1. snapshot[t].at < request[p].since
    BY <1>1, <1>3, <1>7 DEF Charging, Apart, AtWork
  <2>2. snapshot[t] \in Snapshot
    BY <1>1, <1>3
  <2>3. snapshot[t].at \in Nat
    BY <2>2 DEF Snapshot
  <2> QED BY <1>2, <1>5, <2>1, <2>3
<1> PICK new : new = [at |-> result.at, read |-> result.read,
                      tar |-> result.claim # NoClaim, failed |-> FALSE]
  OBVIOUS
<1>9. snapshot' = [snapshot EXCEPT ![t] = new]
  BY <1>1, <1>3, <1>4, <1>8 DEF StoreTarget
<1>10. /\ snapshot'[t] = new
       /\ \A u \in Trips : u # t => snapshot'[u] = snapshot[u]
  BY <1>1, <1>3, <1>9
<1>11. new # NoSnapshot /\ new.tar = (result.claim # NoClaim) /\ new.failed = FALSE
  <2>1. new.at = result.at /\ NoSnapshot.at = -1
    BY DEF NoSnapshot
  <2>2. new # NoSnapshot
    BY <1>5, <2>1
  <2> QED BY <2>2
<1>12. \A u \in Trips : u # t => Counted(u)' = Counted(u) /\ Charged(u)' = Charged(u)
  BY <1>1, <1>10 DEF Counted, Charged, Shown, Priceable
<1>13. /\ Counted(t)' = (result.claim # NoClaim)
       /\ Charged(t)' = (result.claim # NoClaim)
  BY <1>1, <1>7, <1>10, <1>11 DEF Counted, Charged, Shown, Priceable
<1>14. \A tar : \A u \in Trips :
         /\ u \in Holders(tar)' <=> TarDayOf(u) = tar /\ Counted(u)'
         /\ u \in Holders(tar) <=> TarDayOf(u) = tar /\ Counted(u)
  BY <1>1, SameDays DEF Holders, Stating
<1>15. Recharges(t, result.claim # NoClaim)
  BY <1>3, <1>10, <1>12, <1>13, <1>14 DEF Recharges
<1> QED BY <1>2, <1>3, <1>4, <1>5, <1>7, <1>15

(* Of two legs priced together one is the return leg, which owes nothing;  *)
(* so what the first store does leaves the claim of the other as it was.   *)
LEMMA StoreKeepsClaims ==
  ASSUME IInv, NEW p \in Requests, Sound(p), Charging(p), Store(p),
         request[p].stored + 1 < Len(request[p].results)
  PROVE  Apart(p)' /\ Claims(p)'
<1> PICK k : k = request[p].stored + 1
  OBVIOUS
<1> PICK t : t = request[p].scope[k]
  OBVIOUS
<1> PICK charges \in BOOLEAN : charges = (request[p].results[k].claim # NoClaim)
  OBVIOUS
<1>1. /\ t \in Trips /\ Priceable(t) /\ Unstored(p, t)
      /\ k \in 1..Len(request[p].results)
      /\ Len(request[p].results) = Len(request[p].scope)
      /\ Recharges(t, charges)
  BY StoreRecharges
<1>2. /\ request[p].phase = "store" /\ UNCHANGED <<trip, grouped>>
      /\ request[p].results \in Seq(Result) /\ request[p].scope \in Seq(Trips)
      /\ request[p].stored \in Nat
  BY DEF Store, IInv, TypeOK, Request
<1>3. /\ request'[p].phase = "store" /\ request'[p].stored = k
      /\ request'[p].scope = request[p].scope /\ request'[p].since = request[p].since
      /\ request'[p].results = request[p].results /\ request'[p].held = request[p].held
      /\ request'[p].settles = request[p].settles
  BY StoredFields
<1>4. /\ \A u : /\ TarDayOf(u)' = TarDayOf(u) /\ Owes(u)' = Owes(u)
                /\ Priceable(u)' = Priceable(u)
      /\ Together' = Together
  BY <1>2, SameDays
<1>5. /\ \A i, j \in DOMAIN request[p].scope : i # j =>
           /\ Together /\ request[p].scope[i] \in Legs
           /\ request[p].scope[i] # request[p].scope[j]
      /\ \A i \in DOMAIN request[p].scope : \A u \in Trips :
           request[p].scope[i] = u => Priceable(u)
      /\ \A u \in Trips : Unstored(p, u) =>
           /\ snapshot[u] # NoSnapshot => snapshot[u].at < request[p].since
           /\ request[p].settles /\ Counted(u) => u \in request[p].held
  BY <1>2 DEF Charging, Apart, AtWork
<1>6. k \in DOMAIN request[p].scope /\ k > request[p].stored
  BY <1>1, <1>2
<1>7. ASSUME NEW i \in DOMAIN request[p].scope, i > k
      PROVE  /\ i > request[p].stored /\ request[p].scope[i] # t
             /\ Together /\ t \in Legs /\ request[p].scope[i] \in Legs
  <2>1. i # k /\ i > request[p].stored
    BY <1>2, <1>7
  <2> QED BY <1>5, <1>6, <2>1
<1>8. Apart(p)'
  <2>1. ASSUME NEW u \in Trips, NEW i \in DOMAIN request[p].scope, i > k,
               request[p].scope[i] = u
        PROVE  /\ snapshot'[u] # NoSnapshot => snapshot'[u].at < request[p].since
               /\ request[p].settles /\ Counted(u)' => u \in request[p].held
    <3>1. u # t /\ Unstored(p, u)
      BY <1>7, <2>1 DEF Unstored
    <3>2. snapshot'[u] = snapshot[u] /\ Counted(u)' = Counted(u)
      BY <1>1, <3>1 DEF Recharges
    <3> QED BY <1>5, <3>1, <3>2
  <2> QED BY <1>3, <1>4, <1>5, <2>1 DEF Apart, Unstored, AtWork
<1>9. ASSUME NEW i \in DOMAIN request[p].results, i > k,
             NEW u \in Trips, request[p].scope[i] = u
      PROVE  \/ request[p].results[i].claim = TarDayOf(u) /\ Owes(u) /\ ~Rivalled(u)'
             \/ /\ request[p].results[i].claim = NoClaim
                /\ ~Owes(u) \/ Backed(u)' \/ GaveUp(p, u)'
  <2>1. i \in DOMAIN request[p].scope
    BY <1>1, <1>2, <1>9
  <2>2. u # t /\ Together /\ t \in Legs /\ u \in Legs /\ i > request[p].stored
    BY <1>7, <1>9, <2>1
  <2>3. \/ request[p].results[i].claim = TarDayOf(u) /\ Owes(u) /\ ~Rivalled(u)
        \/ /\ request[p].results[i].claim = NoClaim
           /\ ~Owes(u) \/ Backed(u) \/ GaveUp(p, u)
    BY <1>2, <1>9, <2>2 DEF Charging, Claims, AtWork
  <2>4. CASE ~Owes(u)
    BY <2>3, <2>4
  <2>5. CASE Owes(u)
    <3>1. t = Collection /\ ~Owes(t)
      BY <2>2, <2>5, ReturnLeg
    <3>2. ~charges
      <4>1. k \in DOMAIN request[p].results
        BY <1>1, <1>2
      <4> QED BY <1>1, <1>2, <1>6, <3>1, <4>1 DEF Charging, Claims, AtWork
    <3>3. PICK tar : tar = TarDayOf(u)
      OBVIOUS
    <3>4. /\ t \notin Holders(tar)'
          /\ \A h \in Trips : h # t => (h \in Holders(tar)' <=> h \in Holders(tar))
          /\ \A h \in Trips : h # t => snapshot'[h] = snapshot[h]
          /\ Holders(tar) \subseteq Trips /\ Holders(tar)' \subseteq Trips
      BY <1>1, <3>2 DEF Recharges, Holders, Stating
    <3>5. CASE request[p].results[i].claim = TarDayOf(u) /\ ~Rivalled(u)
      <4>1. t \notin Holders(tar)
        <5> SUFFICES ASSUME t \in Holders(tar) PROVE FALSE
          OBVIOUS
        <5>1. t \in ValidHolders(tar)
          BY <1>1 DEF ValidHolders
        <5> QED BY <2>2, <3>3, <3>5, <5>1 DEF Rivalled, HeldByAnother
      <4>2. Holders(tar)' = Holders(tar)
        <5>1. \A h : h \in Holders(tar)' <=> h \in Holders(tar)
          BY <3>4, <4>1
        <5> QED BY <5>1
      <4>3. ValidHolders(tar)' = ValidHolders(tar)
        BY <1>4, <3>4, <4>1, <4>2 DEF ValidHolders
      <4>4. ~Rivalled(u)'
        BY <1>4, <3>3, <3>5, <4>3 DEF Rivalled, HeldByAnother
      <4> QED BY <2>5, <3>5, <4>4
    <3>6. CASE Backed(u) /\ request[p].results[i].claim = NoClaim
      <4>1. PICK h \in Holders(tar) : h # u
        BY <3>3, <3>6 DEF Backed
      <4>2. CASE h # t
        <5>1. h \in Holders(tar)'
          BY <3>4, <4>1, <4>2
        <5>2. Backed(u)'
          BY <1>4, <3>3, <4>1, <5>1 DEF Backed
        <5> QED BY <3>6, <5>2
      <4>3. CASE h = t
        <5>1. Counted(t) /\ TarDayOf(t) = TarDayOf(u)
          BY <1>1, <3>3, <4>1, <4>3 DEF Recharges
        <5>2. Charged(Collection)
          BY <1>1, <3>1, <5>1, ChargedIsCounted
        <5>3. request[p].settles
          BY <2>2, <5>2 DEF Charging, ReturnFree
        <5>4. t \in request[p].held
          BY <1>1, <1>5, <5>1, <5>3
        <5>5. InWork(p, t)'
          BY <1>3, <1>6 DEF InWork
        <5>6. GaveUp(p, u)'
          BY <1>3, <1>4, <2>2, <5>1, <5>3, <5>4, <5>5 DEF GaveUp
        <5> QED BY <3>6, <5>6
      <4> QED BY <4>2, <4>3
    <3>7. CASE GaveUp(p, u) /\ request[p].results[i].claim = NoClaim
      <4>1. GaveUp(p, u)'
        BY <1>3, <1>4, <3>7 DEF GaveUp, InWork
      <4> QED BY <3>7, <4>1
    <3> QED BY <2>3, <2>5, <3>5, <3>6, <3>7
  <2> QED BY <2>4, <2>5
<1>10. Claims(p)'
  BY <1>3, <1>4, <1>9 DEF Claims, AtWork
<1> QED BY <1>8, <1>10

LEMMA StoreCharges ==
  ASSUME IInv, NEW p \in Requests, Sound(p), Charging(p), Store(p)
  PROVE  Charging(p)' /\ (Provided(p) => Provided(p)')
<1> PICK k : k = request[p].stored + 1
  OBVIOUS
<1> PICK t : t = request[p].scope[k]
  OBVIOUS
<1> PICK claim : claim = request[p].results[k].claim
  OBVIOUS
<1> PICK charges \in BOOLEAN : charges = (claim # NoClaim)
  OBVIOUS
<1>1. /\ t \in Trips /\ Priceable(t) /\ Unstored(p, t)
      /\ k \in 1..Len(request[p].results)
      /\ Len(request[p].results) = Len(request[p].scope)
      /\ Recharges(t, charges)
  BY StoreRecharges
<1>2. /\ request[p].phase = "store" /\ UNCHANGED <<trip, grouped>>
      /\ request[p].results \in Seq(Result) /\ request[p].scope \in Seq(Trips)
      /\ request[p].stored \in Nat
  BY DEF Store, IInv, TypeOK, Request
<1>3. /\ \A u : /\ TarDayOf(u)' = TarDayOf(u) /\ Owes(u)' = Owes(u)
                /\ Priceable(u)' = Priceable(u) /\ Needy(u)' = Needy(u)
      /\ Together' = Together
  BY <1>2, SameDays
<1>4. k \in DOMAIN request[p].scope /\ k \in DOMAIN request[p].results /\ k > request[p].stored
  BY <1>1, <1>2
<1>5. \/ /\ charges /\ claim = TarDayOf(t) /\ Owes(t) /\ ~Rivalled(t)
      \/ /\ ~charges
         /\ ~Owes(t) \/ Backed(t) \/ GaveUp(p, t)
  <2>1. \/ /\ claim = TarDayOf(t) /\ Owes(t) /\ ~Rivalled(t)
        \/ /\ claim = NoClaim
           /\ ~Owes(t) \/ Backed(t) \/ GaveUp(p, t)
    BY <1>1, <1>2, <1>4 DEF Charging, Claims, AtWork
  <2>2. Owes(t) => TarDayOf(t) # NoClaim
    BY DEF Owes, TarDayOf, NoClaim
  <2> QED BY <2>1, <2>2
(* What is unstored but t stays so, and the store goes on.                 *)
<1>6. ASSUME NEW i \in DOMAIN request[p].scope, i > request[p].stored, i # k
      PROVE  i > k /\ request[p].stored + 1 < Len(request[p].results)
  BY <1>1, <1>2, <1>6
<1>7. ReturnFree(p)'
  <2> SUFFICES ASSUME Together, Charged(Collection)' PROVE ReturnFree(p)'
    BY <1>3 DEF ReturnFree
  <2>1. Collection \in Trips /\ ~Owes(Collection)
    BY LegsAreAPair, LegsAreTrips DEF Together, Owes
  <2>2. Collection # t
    BY <1>1, <1>5, <2>1 DEF Recharges
  <2>3. Charged(Collection)
    BY <1>1, <2>1, <2>2 DEF Recharges
  <2>4. /\ request[p].op # "REPRICE" /\ request[p].settles
        /\ Unstored(p, Collection)
    BY <1>2, <2>3 DEF Charging, ReturnFree
  <2>5. PICK i \in DOMAIN request[p].scope :
               i > request[p].stored /\ request[p].scope[i] = Collection
    BY <2>4 DEF Unstored
  <2>6. i > k /\ request[p].stored + 1 < Len(request[p].results)
    BY <1>6, <2>2, <2>5
  <2>7. /\ request'[p].phase = "store" /\ request'[p].stored = k
        /\ request'[p].scope = request[p].scope
        /\ request'[p].op = request[p].op /\ request'[p].settles = request[p].settles
    BY <2>6, StoredFields
  <2>8. Unstored(p, Collection)'
    BY <2>5, <2>6, <2>7 DEF Unstored
  <2> QED BY <2>4, <2>7, <2>8 DEF ReturnFree, AtWork
<1>8. ASSUME NEW u \in Trips, NEW w \in Trips, Twofold(u, w)' PROVE FALSE
  <2>1. /\ u # w /\ Charged(u)' /\ Charged(w)'
        /\ trip[u].number # NoNumber /\ TarDayOf(u) = TarDayOf(w)
    BY <1>2, <1>3, <1>8 DEF Twofold
  <2>2. CASE u # t /\ w # t
    <3>1. Twofold(u, w)
      BY <1>1, <2>1, <2>2 DEF Twofold, Recharges
    <3>2. First(p, u) \/ First(p, w)
      BY <3>1 DEF Charging, Twice
    <3> QED BY <1>2, <2>2, <3>2 DEF First
  <2>3. ASSUME NEW x \in {u, w}, x # t, u = t \/ w = t PROVE FALSE
    <3>1. Charged(x) /\ TarDayOf(x) = TarDayOf(t) /\ charges
      BY <1>1, <2>1, <2>3 DEF Recharges
    <3>2. Rivalled(t)
      BY <2>3, <3>1, ClosedHolds
    <3> QED BY <1>5, <3>1, <3>2
  <2> QED BY <2>1, <2>2, <2>3
<1>9. Asked(p)'
  <2>1. \/ request'[p].phase = "store"
        \/ request'[p].phase = "settle" => request'[p].settles
    BY StoredFields
  <2> QED BY <2>1, StoredFields DEF Charging, Asked
<1>10. Apart(p)' /\ Claims(p)'
  <2>1. CASE request[p].stored + 1 < Len(request[p].results)
    BY <2>1, StoreKeepsClaims
  <2>2. CASE ~(request[p].stored + 1 < Len(request[p].results))
    BY <2>2, StoredFields DEF Apart, Claims
  <2> QED BY <2>1, <2>2
<1>11. Charging(p)'
  <2>1. Twice(p)'
    BY <1>8 DEF Twice
  <2> QED BY <1>7, <1>9, <1>10, <2>1 DEF Charging
<1>12. ASSUME NEW w \in Trips, request[p].settles, GaveUp(p, w)
       PROVE  Pledged(p, w)'
  <2>1. /\ request'[p].phase \in {"store", "settle"} /\ request'[p].settles
        /\ request'[p].scope = request[p].scope /\ request'[p].held = request[p].held
    BY <1>12, StoredFields
  <2>2. GaveUp(p, w)'
    BY <1>3, <1>12, <2>1 DEF GaveUp, InWork
  <2> QED BY <2>1, <2>2 DEF Pledged
<1>13. ASSUME NEW w \in Trips, Needy(w), Pledged(p, w),
              TarDayOf(w) = TarDayOf(t) => ~charges
       PROVE  Pledged(p, w)'
  <2>1. CASE \/ w \in request[p].todo
             \/ ~request[p].settles /\ w \in request[p].moved
             \/ request[p].release = TarDayOf(w) /\ w # request[p].trip
    BY <1>3, <2>1, StoredFields DEF Pledged
  <2>2. CASE GaveUp(p, w)
    BY <1>12, <2>2 DEF GaveUp
  <2>3. CASE BeingPriced(p, w)
    <3>1. PICK i \in DOMAIN request[p].scope :
            /\ i > request[p].stored /\ request[p].scope[i] = w
            /\ i \in DOMAIN request[p].results => request[p].results[i].claim = TarDayOf(w)
      BY <2>3 DEF BeingPriced
    <3>2. i \in DOMAIN request[p].results
      BY <1>1, <1>2, <3>1
    <3>3. i # k
      <4> SUFFICES ASSUME i = k PROVE FALSE
        OBVIOUS
      <4>1. w = t /\ claim = TarDayOf(t)
        BY <3>1, <3>2
      <4>2. TarDayOf(t) # NoClaim
        BY <1>13, <4>1 DEF Needy, Owes, TarDayOf, NoClaim
      <4> QED BY <1>13, <4>1, <4>2
    <3>4. i > k /\ request[p].stored + 1 < Len(request[p].results)
      BY <1>6, <3>1, <3>3
    <3>5. /\ request'[p].phase = "store" /\ request'[p].stored = k
          /\ request'[p].scope = request[p].scope
          /\ request'[p].results = request[p].results
      BY <3>4, StoredFields
    <3>6. BeingPriced(p, w)'
      BY <1>3, <2>3, <3>1, <3>4, <3>5 DEF BeingPriced, InWork, AtWork
    <3> QED BY <3>6 DEF Pledged
  <2> QED BY <1>13, <2>1, <2>2, <2>3 DEF Pledged
<1>14. ASSUME Provided(p) PROVE Provided(p)'
  <2> SUFFICES ASSUME NEW v \in Trips, Bare(v)'
               PROVE  \E w \in Trips : /\ Needy(w) /\ TarDayOf(w) = TarDayOf(v)
                                       /\ Pledged(p, w)'
    BY <1>3, StoredFields DEF Provided
  <2> PICK tar : tar = TarDayOf(v)
    OBVIOUS
  <2>1. Needy(v) /\ Holders(tar)' = {}
    BY <1>3 DEF Bare
  <2>2. TarDayOf(t) = tar => ~charges
    BY <1>1, <2>1 DEF Recharges
  <2>3. CASE Bare(v)
    <3>1. PICK w \in Trips : Needy(w) /\ TarDayOf(w) = tar /\ Pledged(p, w)
      BY <1>14, <2>3 DEF Provided
    <3>2. Pledged(p, w)'
      BY <1>13, <2>2, <3>1
    <3> QED BY <3>1, <3>2
  <2>4. CASE ~Bare(v)
    <3>1. Holders(tar) # {} /\ Holders(tar) \subseteq Trips
      BY <2>1, <2>4 DEF Bare, Holders, Stating
    <3>2. \A h \in Holders(tar) : h = t
      BY <1>1, <2>1, <3>1 DEF Recharges
    <3>3. TarDayOf(t) = tar /\ Counted(t) /\ ~charges /\ ~Backed(t)
      <4>1. TarDayOf(t) = tar /\ Counted(t)
        BY <1>1, <3>1, <3>2 DEF Recharges
      <4> QED BY <2>2, <3>2, <4>1 DEF Backed
    <3>4. CASE ~Owes(t)
      <4>1. Together /\ t = Collection /\ t # v
        <5>1. trip[v].number # NoNumber /\ trip[t].number = trip[v].number /\ t # v
          BY SMTT(20), <2>1, <3>3, <3>4 DEF Needy, Owes, TarDayOf
        <5> QED BY <3>4, <5>1 DEF Owes
      <4>2. Charged(Collection)
        BY <1>1, <3>3, <4>1, ChargedIsCounted
      <4>3. request[p].settles
        BY <4>1, <4>2 DEF Charging, ReturnFree
      <4>4. t \in request[p].held
        BY <1>1, <1>2, <3>3, <4>3 DEF Charging, Apart, AtWork
      <4>5. GaveUp(p, v)
        BY <1>4, <3>3, <4>1, <4>3, <4>4 DEF GaveUp, InWork
      <4> QED BY <1>12, <2>1, <4>3, <4>5
    <3>5. CASE Owes(t)
      <4>1. GaveUp(p, t)
        BY <1>5, <3>3, <3>5
      <4>2. Pledged(p, t)'
        BY <1>1, <1>12, <4>1 DEF GaveUp
      <4> QED BY <1>1, <3>3, <3>5, <4>2 DEF Needy
    <3> QED BY <3>4, <3>5
  <2> QED BY <2>3, <2>4
<1> QED BY <1>11, <1>14

LEMMA NoClaimIsRefused ==
  ASSUME IInv, NEW p \in Requests, Sound(p), Charging(p)
  PROVE  ~StoreRefused(p) /\ ~CalculateAgain(p) /\ ~CalculateAgainRefused(p)
<1>1. ASSUME StoreRefused(p) PROVE FALSE
  <2>1. PICK k : k = StoreIndex(p)
    OBVIOUS
  <2>2. /\ request[p] \in Request /\ request[p].phase = "store"
        /\ request[p].results \in Seq(Result) /\ request[p].stored \in Nat
        /\ k \in 1..Len(request[p].results) /\ k = request[p].stored + 1
    BY <1>1, <2>1, PendingType DEF StoreRefused, IInv, TypeOK, StoreIndex, Request
  <2>3. PICK t \in Trips : t = request[p].scope[k] /\ t = InScope(p, k)
    BY <2>1, <2>2, PendingType DEF InScope
  <2>4. k \in DOMAIN request[p].results /\ k > request[p].stored
    BY <2>2
  <2>5. request[p].results[k].claim # NoClaim /\ HeldByAnother(request[p].results[k].claim, t)
    BY <1>1, <2>1, <2>3 DEF StoreRefused, ClaimLost, Pending
  <2> QED BY <2>2, <2>3, <2>4, <2>5 DEF Charging, Claims, AtWork, Rivalled
<1>2. request[p].phase # "again"
  BY DEF Charging, Apart, AtWork
<1> QED BY <1>1, <1>2 DEF CalculateAgain, CalculateAgainRefused

---------------------------------------------------------------------------
(* The settlement prices the trips that wait for a charge given up.        *)

LEMMA SettleCharges ==
  ASSUME IInv, NEW p \in Requests, Charging(p), Settle(p)
  PROVE  Charging(p)' /\ (Provided(p) => Provided(p)')
<1>1. /\ request[p] \in Request /\ request[p].phase = "settle" /\ request[p].settles
      /\ UNCHANGED <<trip, grouped, snapshot>>
  BY DEF Settle, Charging, Asked, IInv, TypeOK
<1>2. PICK moved \in SUBSET Trips : moved = Movers(p)
  <2>1. \A tar : Surplus(tar) \subseteq Trips
    BY DEF Surplus, ValidHolders, Holders, Stating
  <2>2. \A tar, t : ClosedStating(tar, t) \subseteq Trips
    BY DEF ClosedStating, Stating
  <2>3. Movers(p) \in SUBSET Trips
    BY <2>1, <2>2 DEF Movers
  <2> QED BY <2>3
<1>3. /\ request'[p].op = request[p].op /\ request'[p].todo = request[p].todo
      /\ request'[p].trip = request[p].trip /\ request'[p].release = request[p].release
      /\ request'[p].phase \notin AtWork \cup {"settle"} /\ Wrote_(p)'
      /\ moved # {} => request'[p].moved = moved /\ ~request'[p].settles
  <2>1. CASE moved = {}
    <3>1. request' = [request EXCEPT ![p] = Leave(@)]
      BY <1>2, <2>1 DEF Settle
    <3> QED BY <2>1, <3>1, LeavesFields
  <2>2. CASE moved # {}
    <3> DEFINE left == Leave(request[p])
               next == [left EXCEPT !.moved = moved, !.settles = FALSE, !.phase = "resettle"]
    <3>1. left \in Request /\ left.op = request[p].op /\ left.todo = request[p].todo
      BY ZenonT(40), <1>1, LeaveIsConsistent DEF Leave, Request
    <3>2. left.trip = request[p].trip /\ left.release = request[p].release
      BY <1>1 DEF Leave, Request
    <3>3. request'[p] = next
      BY <1>2, <2>2 DEF Settle, IInv, TypeOK
    <3> HIDE DEF left
    <3>4. /\ next.op = left.op /\ next.todo = left.todo
          /\ next.trip = left.trip /\ next.release = left.release
          /\ next.phase = "resettle" /\ next.moved = moved /\ next.settles = FALSE
      BY <3>1 DEF Request
    <3> HIDE DEF next
    <3> QED BY <3>1, <3>2, <3>3, <3>4 DEF AtWork, Wrote_
  <2> QED BY <2>1, <2>2
<1>4. request[p].phase \notin AtWork
  BY <1>1 DEF AtWork
<1>5. ~(Together /\ Charged(Collection)) /\ \A t, u \in Trips : ~Twofold(t, u)
  BY <1>1, <1>4 DEF Charging, ReturnFree, Twice, First
<1>6. Asked(p)'
  BY <1>3 DEF Charging, Asked
<1>7. Charging(p)'
  BY <1>1, <1>3, <1>5, <1>6, RestCharges
<1>8. ASSUME Provided(p) PROVE Provided(p)'
  <2> SUFFICES ASSUME NEW v \in Trips, Bare(v)
               PROVE  \E w \in Trips : /\ Needy(w)' /\ TarDayOf(w)' = TarDayOf(v)'
                                       /\ Pledged(p, w)'
    BY <1>1, <1>3, SameHolders DEF Provided
  <2>1. PICK w \in Trips : Needy(w) /\ TarDayOf(w) = TarDayOf(v) /\ Pledged(p, w)
    BY <1>8 DEF Provided
  <2>2. CASE w \in request[p].todo \/ (request[p].release = TarDayOf(w) /\ w # request[p].trip)
    <3>1. Pledged(p, w)'
      BY <1>1, <1>3, <2>2, SameDays DEF Pledged
    <3> QED BY <1>1, <2>1, <3>1, SameDays
  <2>3. CASE GaveUp(p, w)
    <3>1. PICK s \in request[p].held : s # w /\ TarDayOf(s) = TarDayOf(w) /\ InWork(p, s)
      BY <2>3 DEF GaveUp
    <3>2. s \in Trips /\ s \in {InScope(p, i) : i \in DOMAIN request[p].scope}
      BY <1>1, <3>1 DEF InWork, InScope, Request
    <3>3. trip[s].number # NoNumber
      BY <2>1, <3>1 DEF Needy, Owes, TarDayOf
    <3>4. s \notin Holders(TarDayOf(s))
      BY <2>1, <3>1 DEF Bare
    <3>5. w \in ClosedStating(TarDayOf(s), s)
      BY <2>1, <3>1 DEF ClosedStating, Stating, Needy
    <3>6. w \in moved
      BY <1>2, <3>1, <3>2, <3>3, <3>4, <3>5 DEF Movers
    <3>7. Pledged(p, w)'
      BY <1>3, <3>6 DEF Pledged
    <3> QED BY <1>1, <2>1, <3>7, SameDays
  <2> QED BY <1>1, <1>4, <2>1, <2>2, <2>3 DEF Pledged, BeingPriced
<1> QED BY <1>7, <1>8

---------------------------------------------------------------------------
(* Every step keeps the account of charges.                                *)

LEMMA AdvancesCharges ==
  ASSUME IInv, ClockIsPast, NEW p \in Requests, Sound(p), Charging(p), Advances(p)
  PROVE  Charging(p)' /\ (~MayFail /\ Provided(p) => Provided(p)')
<1>1. CASE Write(p)
  BY <1>1, WriteCharges
<1>2. CASE StartPricing(p) \/ StartSettling(p)
  BY <1>2, StartPricingCharges, StartSettlingCharges
<1>3. CASE Calculate(p)
  BY <1>3, CalculateCharges
<1>4. CASE CalculationFails(p) \/ StoreFails(p)
  BY <1>4, FailCharges DEF CalculationFails, StoreFails, AtWork
<1>5. CASE CalculationRefused(p)
  BY <1>5, CalculationRefusedCharges
<1>6. CASE Store(p)
  BY <1>6, StoreCharges
<1>7. CASE Settle(p)
  BY <1>7, SettleCharges
<1>8. CASE SettlementDone(p) \/ Release(p) \/ Answer(p)
  BY <1>8, BetweenCharges
<1> QED BY <1>1, <1>2, <1>3, <1>4, <1>5, <1>6, <1>7, <1>8, NoClaimIsRefused DEF Advances

(* The account of charges, and that no charge is lost, until the process   *)
(* stops.                                                                  *)
ChargesKept == SInv /\ (crashed \/ \A p \in Requests : Charging(p))

NoneLost == crashed \/ \A p \in Requests : Provided(p)

LEMMA StutterCharges ==
  ASSUME UNCHANGED vars, NEW p \in Requests
  PROVE  (Charging(p) => Charging(p)') /\ (Provided(p) => Provided(p)')
<1>1. UNCHANGED <<trip, grouped, snapshot, request>>
  BY DEF vars
<1>2. /\ Together' = Together
      /\ \A t : /\ Priceable(t)' = Priceable(t) /\ Owes(t)' = Owes(t)
                /\ TarDayOf(t)' = TarDayOf(t) /\ Needy(t)' = Needy(t)
                /\ Counted(t)' = Counted(t) /\ Charged(t)' = Charged(t)
                /\ Bare(t)' = Bare(t) /\ Backed(t)' = Backed(t)
                /\ Rivalled(t)' = Rivalled(t)
      /\ \A t, u : Twofold(t, u)' = Twofold(t, u)
  BY <1>1, SameDays, SameHolders
<1>3. \A t : /\ InWork(p, t)' = InWork(p, t) /\ Unstored(p, t)' = Unstored(p, t)
             /\ First(p, t)' = First(p, t)
  BY <1>1 DEF InWork, Unstored, First
<1>4. \A t : GaveUp(p, t)' = GaveUp(p, t)
  BY <1>1, <1>2, <1>3 DEF GaveUp
<1>5. Apart(p) => Apart(p)'
  BY <1>1, <1>2, <1>3 DEF Apart
<1>6. Claims(p) => Claims(p)'
  BY <1>1, <1>2, <1>4 DEF Claims
<1>7. ReturnFree(p) => ReturnFree(p)'
  BY <1>1, <1>2, <1>3 DEF ReturnFree
<1>8. (Asked(p) => Asked(p)') /\ (Twice(p) => Twice(p)')
  BY <1>1, <1>2, <1>3 DEF Asked, Twice
<1>9. \A t : Pledged(p, t) => Pledged(p, t)'
  BY <1>1, <1>2, <1>3, <1>4 DEF Pledged, BeingPriced
<1>10. Provided(p) => Provided(p)'
  BY <1>1, <1>2, <1>9 DEF Provided, Wrote_
<1> QED BY <1>5, <1>6, <1>7, <1>8, <1>10 DEF Charging

LEMMA ChargesStep ==
  ASSUME OneAtATime, "MOVE" \notin Operations, ChargesKept, [Next]_vars
  PROVE  ChargesKept' /\ (~MayFail /\ NoneLost => NoneLost')
<1>1. SInv' /\ (~crashed' => ~crashed)
  BY SerialStep, CrashedStays DEF ChargesKept
<1>2. CASE crashed'
  BY <1>1, <1>2 DEF ChargesKept, NoneLost
<1>3. CASE ~crashed'
  <2>1. CASE UNCHANGED vars
    BY <1>1, <1>3, <2>1, StutterCharges DEF ChargesKept, NoneLost
  <2>2. ASSUME NEW p \in Requests, NEW step, step \in {"advances", "arrives"},
               (step = "advances") => Advances(p),
               (step = "arrives") => \E t \in Trips : Arrives(p, t)
        PROVE  ChargesKept' /\ (~MayFail /\ NoneLost => NoneLost')
    <3>1. IInv /\ ClockIsPast /\ Sound(p) /\ Charging(p)
      BY <1>1, <1>3 DEF ChargesKept, SInv
    <3>2. Charging(p)' /\ (~MayFail /\ Provided(p) => Provided(p)')
      <4>1. CASE Advances(p)
        BY <3>1, <4>1, AdvancesCharges
      <4>2. CASE \E t \in Trips : Arrives(p, t)
        BY <3>1, <4>2, ArrivesCharges
      <4> QED BY <2>2, <4>1, <4>2
    <3>3. \A q \in Requests : q = p
      BY DEF OneAtATime
    <3> QED BY <1>1, <1>3, <3>2, <3>3 DEF ChargesKept, NoneLost
  <2>3. ~Crash
    BY <1>3 DEF Crash
  <2> QED BY <2>1, <2>2, <2>3 DEF Next, Served
<1> QED BY <1>2, <1>3

LEMMA ChargesInit == Init => ChargesKept /\ NoneLost
<1> SUFFICES ASSUME Init PROVE ChargesKept /\ NoneLost
  OBVIOUS
<1>1. SInv
  BY SerialInit
<1>2. /\ \A t \in Trips : ~Priceable(t) /\ ~Charged(t)
      /\ \A p \in Requests : request[p] = Idle
  BY DEF Init, Row, Charged, Shown, Priceable
<1>3. ASSUME NEW p \in Requests PROVE Charging(p) /\ Provided(p)
  <2>1. Apart(p) /\ Claims(p) /\ Asked(p)
    BY <1>2 DEF Apart, Claims, Asked, Idle, AtWork
  <2>2. ~(Together /\ Charged(Collection))
    BY <1>2, LegsAreAPair, LegsAreTrips DEF Together
  <2>3. Twice(p) /\ Provided(p)
    BY <1>2 DEF Twice, Twofold, Provided, Bare, Needy
  <2> QED BY <2>1, <2>2, <2>3 DEF Charging, ReturnFree
<1> QED BY <1>1, <1>3 DEF ChargesKept, NoneLost

LEMMA AtRestIsCharged ==
  ASSUME ChargesKept, ~crashed, Requests # {}
  PROVE  ChargedOnce /\ (NoneLost => ChargeNotLost)
<1>1. CASE ~AtRest
  BY <1>1 DEF ChargedOnce, ChargeNotLost
<1>2. CASE AtRest
  <2>1. PICK p \in Requests : request[p].phase = "idle" /\ Charging(p)
    BY <1>2 DEF AtRest, ChargesKept, Idle
  <2>2. /\ \A t, u \in Trips : ~Twofold(t, u)
        /\ Provided(p) => \A v \in Trips : ~Bare(v)
    BY <2>1, BeforeWrite
  <2>3. ChargedOnce
    BY <2>2 DEF ChargedOnce, Twofold
  <2>4. ASSUME NoneLost, NEW t \in Trips, Priceable(t), Owes(t)
        PROVE  ValidHolders(TarDayOf(t)) # {}
    <3>1. Holders(TarDayOf(t)) # {}
      BY <2>1, <2>2, <2>4 DEF NoneLost, Bare, Needy
    <3> QED BY <3>1, ValidHoldersExist
  <2> QED BY <2>3, <2>4 DEF ChargeNotLost
<1> QED BY <1>1, <1>2

(* While requests do not overlap and no trip is moved to another day, a    *)
(* TAR number is charged on at most one CLOSED trip of a day, whatever is  *)
(* closed, reopened, cancelled, edited, linked, unlinked or reprocessed,   *)
(* and whichever calculations and stores fail, until the process stops:    *)
(* the guard, the settlement and the release leave one holder.             *)
THEOREM SerialChargesOnce ==
  ASSUME OneAtATime, Requests # {}, "MOVE" \notin Operations
  PROVE  /\ Spec => [](crashed \/ ChargedOnce)
         /\ ~MayCrash => (Spec => []ChargedOnce)
<1>1. ChargesKept /\ [Next]_vars => ChargesKept'
  BY ChargesStep
<1>2. Init => ChargesKept
  BY ChargesInit
<1>3. ChargesKept => crashed \/ ChargedOnce
  BY AtRestIsCharged
<1>4. Spec => [](crashed \/ ChargedOnce)
  BY <1>1, <1>2, <1>3, PTL DEF Spec
<1>5. ASSUME ~MayCrash PROVE Spec => []ChargedOnce
  <2>1. (Init => ~crashed) /\ (~crashed /\ [Next]_vars => ~crashed')
    BY <1>5, CrashedStays DEF Init
  <2> QED BY <1>4, <2>1, PTL DEF Spec
<1> QED BY <1>4, <1>5

(* ... and where nothing fails either, it is charged: as long as a CLOSED  *)
(* trip owes the TAR of a number, some trip holds the charge of that day,  *)
(* so no release and no settlement drops it for good.                      *)
THEOREM SerialChargesAreKept ==
  ASSUME OneAtATime, Requests # {}, "MOVE" \notin Operations, ~MayFail
  PROVE  /\ Spec => [](crashed \/ ChargeNotLost)
         /\ ~MayCrash => (Spec => []ChargeNotLost)
<1>1. ChargesKept /\ NoneLost /\ [Next]_vars => ChargesKept' /\ NoneLost'
  BY ChargesStep
<1>2. Init => ChargesKept /\ NoneLost
  BY ChargesInit
<1>3. ChargesKept /\ NoneLost => crashed \/ ChargeNotLost
  BY AtRestIsCharged
<1>4. Spec => [](crashed \/ ChargeNotLost)
  BY <1>1, <1>2, <1>3, PTL DEF Spec
<1>5. ASSUME ~MayCrash PROVE Spec => []ChargeNotLost
  <2>1. (Init => ~crashed) /\ (~crashed /\ [Next]_vars => ~crashed')
    BY <1>5, CrashedStays DEF Init
  <2> QED BY <1>4, <2>1, PTL DEF Spec
<1> QED BY <1>4, <1>5
=============================================================================
