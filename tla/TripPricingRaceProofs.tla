----------------------- MODULE TripPricingRaceProofs -----------------------
(***************************************************************************)
(* What TripPricing guarantees when requests DO overlap, any number of     *)
(* them, over any number of trips: as long as trips are closed, edited,    *)
(* moved, reprocessed, linked and unlinked, no two of them state one TAR   *)
(* number and nothing fails, every CLOSED trip has a price once the        *)
(* requests have answered, and that price was calculated from the data as  *)
(* it is.                                                                  *)
(*                                                                         *)
(* The argument: for every CLOSED trip there is a time c, that of the last *)
(* change of its data, such that everything calculated since c read the    *)
(* data as they are, and a calculation since c is stored or some request   *)
(* is still obliged to make one.  A store of an older calculation does no  *)
(* harm, the code orders snapshots by the start of their calculation.      *)
(***************************************************************************)
EXTENDS TripPricingSerialProofs

QuietOperations == {"CLOSE", "EDIT", "MOVE", "REPRICE", "LINK", "UNLINK"}

(* The operations that neither withdraw a trip from pricing nor touch a    *)
(* TAR number, and no failing calculation or store.  A reopened partner    *)
(* and a failure do lose a price (see the README).                         *)
OnlyQuiet == Operations \subseteq QuietOperations /\ ~MayFail

(* No two trips state one TAR number, so that no claim is ever lost.       *)
NumbersApart ==
  \A t, u \in Trips :
    t # u /\ trip[t].number = trip[u].number => trip[t].number = NoNumber

RaceSpec == Init /\ NumbersApart /\ [][Next]_vars

---------------------------------------------------------------------------
(* The invariant.                                                          *)

Working == {"calculate", "store"}

NoneCancelled == \A t \in Trips : trip[t].status # "CANCELLED"

SnapshotsStand ==
  \A t \in Trips :
    snapshot[t] # NoSnapshot => snapshot[t].at < clock /\ ~snapshot[t].failed

(* A request never settles and never calculates a second time; what it     *)
(* calculated it calculated after it started, and what it claims is the    *)
(* number of its own trip; it refuses nothing but the one trip it was      *)
(* asked for.                                                              *)
Orderly(p) ==
  /\ request[p].op \in QuietOperations \cup {"NONE"}
  /\ request[p].settles
  /\ request[p].phase \notin {"again", "resettle"}
  /\ request[p].phase \in {"idle", "write"} => request[p].todo = {}
  /\ request[p].op \in {"CLOSE", "REPRICE"} =>
       /\ request[p].release = NoClaim
       /\ \A u, v \in request[p].todo : u = v
  /\ request[p].since <= clock
  /\ request[p].phase = "store" => Len(request[p].results) = Len(request[p].scope)
  /\ \A i \in DOMAIN request[p].results :
       /\ request[p].results[i].at >= request[p].since
       /\ request[p].results[i].at < clock
       /\ \A t \in Trips :
            request[p].scope[i] = t /\ request[p].results[i].claim # NoClaim
              => request[p].results[i].claim.number = trip[t].number
  /\ request[p].phase \in Working =>
       \A i \in DOMAIN request[p].scope : i # 1 => Priceable(request[p].scope[i])

(* Pricing u, p prices t.                                                  *)
Prices(p, u, t) ==
  /\ Priceable(u) \/ request[p].op \notin {"CLOSE", "REPRICE"}
  /\ t = u \/ t \in ClosedPartner(u)

Promised(p, t) == \E u \in request[p].todo : Prices(p, u, t)

UnderWay(p, t, c) ==
  /\ request[p].phase \in Working
  /\ request[p].since >= c
  /\ \A i \in DOMAIN request[p].scope : Priceable(request[p].scope[i])
  /\ \E i \in DOMAIN request[p].scope :
       i > request[p].stored /\ request[p].scope[i] = t

Obliged(p, t, c) == Promised(p, t) \/ UnderWay(p, t, c)

Answered(t, c) == snapshot[t] # NoSnapshot /\ snapshot[t].at >= c

(* What was calculated for t since c, stored and not yet stored, read its  *)
(* data as they are.                                                       *)
StoredFresh(t, c) == Answered(t, c) => snapshot[t].read = PriceDataOf(t)

ReadFresh(p, t, c) ==
  \A i \in DOMAIN request[p].results :
    request[p].scope[i] = t /\ request[p].results[i].at >= c
      => request[p].results[i].read = PriceDataOf(t)

Held(t, c) ==
  /\ StoredFresh(t, c)
  /\ \A q \in Requests : ReadFresh(q, t, c)
  /\ Answered(t, c) \/ \E q \in Requests : Obliged(q, t, c)

Covered(t) == \E c \in Nat : c <= clock /\ Held(t, c)

Sane == /\ NumbersApart /\ NoneCancelled /\ SnapshotsStand
        /\ \A p \in Requests : Orderly(p)
        /\ \A t \in Trips : Priceable(t) => Covered(t)

RInv == IInv /\ (crashed \/ Sane)

---------------------------------------------------------------------------
(* A step that changes no row and no group.                                *)

LEMMA OthersStayOrderly ==
  ASSUME IInv, NEW q \in Requests, Orderly(q), request'[q] = request[q],
         clock' = clock \/ clock' = clock + 1,
         \A u \in Trips : /\ Priceable(u) => Priceable(u)'
                          /\ trip'[u].number = trip[u].number
  PROVE  Orderly(q)'
<1>1. /\ request[q] \in Request /\ clock \in Nat
      /\ request[q].results \in Seq(Result) /\ request[q].scope \in Seq(Trips)
      /\ request[q].since \in Nat
  BY DEF IInv, TypeOK, Request
<1>2. request[q].since <= clock'
  BY <1>1 DEF Orderly
<1>3. ASSUME NEW i \in DOMAIN request[q].results
      PROVE  request[q].results[i].at < clock'
  <2>1. request[q].results[i].at < clock
    BY <1>3 DEF Orderly
  <2>2. request[q].results[i] \in Result
    BY <1>1, <1>3, ElementOfSeq
  <2>3. request[q].results[i].at \in Nat
    BY <2>2 DEF Result
  <2> QED BY <1>1, <2>1, <2>3
<1>4. ASSUME NEW i \in DOMAIN request[q].scope, Priceable(request[q].scope[i])
      PROVE  Priceable(request[q].scope[i])'
  <2>1. PICK u : u = request[q].scope[i]
    OBVIOUS
  <2>2. u \in Trips
    BY <1>1, <1>4, <2>1, ElementOfSeq
  <2>3. Priceable(u)'
    BY <1>4, <2>1, <2>2
  <2>4. request'[q].scope[i] = u
    BY <2>1
  <2> QED BY <2>3, <2>4 DEF Priceable
<1>5. ASSUME NEW i \in DOMAIN request[q].results, NEW t \in Trips,
             request[q].scope[i] = t, request[q].results[i].claim # NoClaim
      PROVE  request[q].results[i].claim.number = trip'[t].number
  BY <1>5 DEF Orderly
<1>6. \A i \in DOMAIN request[q].results : request[q].results[i].at >= request[q].since
  BY DEF Orderly
<1> QED BY <1>2, <1>3, <1>4, <1>5, <1>6 DEF Orderly

(* What p's step may not do to a trip that is covered since c.             *)
KeepsTrack(p, t, c) ==
  /\ ReadFresh(p, t, c) => ReadFresh(p, t, c)'
  /\ ReadFresh(p, t, c) /\ StoredFresh(t, c) => StoredFresh(t, c)'
  /\ Answered(t, c) => Answered(t, c)'
  /\ Priceable(t) /\ c <= clock /\ Obliged(p, t, c) =>
       Obliged(p, t, c)' \/ Answered(t, c)'

LEMMA SameObligation ==
  ASSUME NEW q \in Requests, request'[q] = request[q], UNCHANGED <<trip, grouped>>
  PROVE  \A t, c : /\ Obliged(q, t, c) => Obliged(q, t, c)'
                   /\ ReadFresh(q, t, c) => ReadFresh(q, t, c)'
<1>1. \A u : /\ Priceable(u)' = Priceable(u) /\ ClosedPartner(u)' = ClosedPartner(u)
             /\ PriceDataOf(u)' = PriceDataOf(u)
  BY SamePrices
<1>2. \A u, t : Prices(q, u, t) => Prices(q, u, t)'
  BY <1>1 DEF Prices
<1>3. \A t : Promised(q, t) => Promised(q, t)'
  BY <1>2 DEF Promised
<1>4. \A t, c : UnderWay(q, t, c) => UnderWay(q, t, c)'
  BY <1>1 DEF UnderWay
<1>5. \A t, c : ReadFresh(q, t, c) => ReadFresh(q, t, c)'
  BY <1>1 DEF ReadFresh
<1> QED BY <1>3, <1>4, <1>5 DEF Obliged

LEMMA StepKeepsSane ==
  ASSUME IInv, Sane, NEW p \in Requests,
         \A q \in Requests : q # p => request'[q] = request[q],
         UNCHANGED <<trip, grouped>>, clock' = clock \/ clock' = clock + 1,
         Orderly(p)', SnapshotsStand',
         \A t \in Trips : \A c \in Nat : KeepsTrack(p, t, c)
  PROVE  Sane'
<1>1. NumbersApart' /\ NoneCancelled'
  BY DEF Sane, NumbersApart, NoneCancelled
<1>2. \A u : Priceable(u)' = Priceable(u)
  BY SamePrices
<1>3. ASSUME NEW q \in Requests PROVE Orderly(q)'
  <2>1. CASE q = p
    BY <2>1
  <2>2. CASE q # p
    BY <1>2, <2>2, OthersStayOrderly DEF Sane
  <2> QED BY <2>1, <2>2
<1>4. ASSUME NEW t \in Trips, Priceable(t)' PROVE Covered(t)'
  <2>1. Priceable(t)
    BY <1>2, <1>4
  <2>2. PICK c \in Nat : c <= clock /\ Held(t, c)
    BY <2>1 DEF Sane, Covered
  <2>3. KeepsTrack(p, t, c)
    OBVIOUS
  <2>4. StoredFresh(t, c)'
    BY <2>2, <2>3 DEF KeepsTrack, Held
  <2>5. ASSUME NEW q \in Requests PROVE ReadFresh(q, t, c)'
    <3>1. CASE q = p
      BY <2>2, <2>3, <3>1 DEF KeepsTrack, Held
    <3>2. CASE q # p
      BY <2>2, <3>2, SameObligation DEF Held
    <3> QED BY <3>1, <3>2
  <2>6. Answered(t, c)' \/ \E q \in Requests : Obliged(q, t, c)'
    <3>1. CASE Answered(t, c)
      BY <2>3, <3>1 DEF KeepsTrack
    <3>2. ASSUME NEW q \in Requests, Obliged(q, t, c)
          PROVE  Answered(t, c)' \/ Obliged(q, t, c)'
      <4>1. CASE q = p
        BY <2>1, <2>2, <2>3, <3>2, <4>1 DEF KeepsTrack
      <4>2. CASE q # p
        BY <3>2, <4>2, SameObligation
      <4> QED BY <4>1, <4>2
    <3> QED BY <2>2, <3>1, <3>2 DEF Held
  <2>7. Held(t, c)'
    BY <2>4, <2>5, <2>6 DEF Held
  <2>8. c <= clock'
    BY <2>2 DEF IInv, TypeOK
  <2> QED BY <2>7, <2>8 DEF Covered
<1> QED BY <1>1, <1>3, <1>4 DEF Sane

(* Most steps leave the snapshots and the results alone.                   *)
LEMMA UnstoredKeepsTrack ==
  ASSUME NEW p \in Requests, NEW t \in Trips, NEW c \in Nat,
         UNCHANGED <<trip, grouped, snapshot>>,
         \/ request'[p].results = <<>>
         \/ request'[p].results = request[p].results /\ request'[p].scope = request[p].scope,
         Priceable(t) /\ c <= clock /\ Obliged(p, t, c) => Obliged(p, t, c)'
  PROVE  KeepsTrack(p, t, c)
<1>1. PriceDataOf(t)' = PriceDataOf(t)
  BY SamePrices
<1>2. DOMAIN <<>> = {}
  OBVIOUS
<1>3. ReadFresh(p, t, c) => ReadFresh(p, t, c)'
  BY <1>1, <1>2 DEF ReadFresh
<1>4. Answered(t, c)' = Answered(t, c)
  BY DEF Answered
<1>5. StoredFresh(t, c)' = StoredFresh(t, c)
  BY <1>1, <1>4 DEF StoredFresh
<1> QED BY <1>3, <1>4, <1>5 DEF KeepsTrack

LEMMA SameSnapshotsStand ==
  ASSUME IInv, SnapshotsStand, snapshot' = snapshot, clock' = clock \/ clock' = clock + 1
  PROVE  SnapshotsStand'
<1> SUFFICES ASSUME NEW u \in Trips, snapshot[u] # NoSnapshot
             PROVE  snapshot[u].at < clock' /\ ~snapshot[u].failed
  BY DEF SnapshotsStand
<1>1. snapshot[u] \in Snapshot /\ snapshot[u].at < clock /\ ~snapshot[u].failed /\ clock \in Nat
  BY DEF SnapshotsStand, IInv, TypeOK
<1>2. snapshot[u].at \in Nat
  BY <1>1 DEF Snapshot
<1> QED BY <1>1, <1>2
---------------------------------------------------------------------------
(* A request arrives, starts to price, ends a pricing, or answers.         *)

LEMMA ArrivesKeepsSane ==
  ASSUME OnlyQuiet, IInv, Sane, NEW p \in Requests, NEW t \in Trips, Arrives(p, t)
  PROVE  Sane'
<1>1. PICK op, value : Receives(p, op, t, value)
  BY DEF Arrives, Close, Reopen, Cancel, SetNumber, MoveDay, EditInputs,
         Reprocess, Link, Unlink
<1>2. request[p].phase = "idle" /\ op \in Operations
  BY <1>1 DEF Receives, Operates
<1>3. /\ UNCHANGED <<trip, grouped, snapshot, clock>>
      /\ \A q \in Requests : q # p => request'[q] = request[q]
      /\ clock \in Nat
  BY <1>1 DEF Receives, IInv, TypeOK
<1>4. /\ request'[p].phase = "write" /\ request'[p].op = op
      /\ request'[p].todo = {} /\ request'[p].results = <<>>
      /\ request'[p].since = 0 /\ request'[p].settles
      /\ request'[p].release = NoClaim
  BY <1>1 DEF Receives, Idle, IInv, TypeOK
<1>5. DOMAIN <<>> = {}
  OBVIOUS
<1>6. op \in QuietOperations
  BY <1>2 DEF OnlyQuiet
<1>7. Orderly(p)'
  BY <1>3, <1>4, <1>5, <1>6 DEF Orderly, Working
<1>8. ASSUME NEW u \in Trips, NEW c \in Nat PROVE KeepsTrack(p, u, c)
  <2>1. request[p].todo = {}
    BY <1>2 DEF Sane, Orderly
  <2>2. ~Obliged(p, u, c)
    BY <1>2, <2>1 DEF Obliged, Promised, UnderWay, Working
  <2> QED BY <1>3, <1>4, <2>2, UnstoredKeepsTrack
<1>9. SnapshotsStand'
  BY <1>3, SameSnapshotsStand DEF Sane
<1> QED BY <1>3, <1>7, <1>8, <1>9, StepKeepsSane

(* Only the trip a pricing was asked for may not be CLOSED.                *)
LEMMA ScopeTail ==
  ASSUME NEW p \in Requests, NEW t \in Trips, NEW i \in DOMAIN Scope(p, t), i # 1
  PROVE  Priceable(Scope(p, t)[i])
<1> DEFINE takes == \/ Priceable(t) \/ ~request[p].settles
                    \/ request[p].op \in {"CLOSE", "REPRICE"}
<1>1. CASE takes
  <2>1. CASE ClosedPartner(t) = {}
    <3>1. Scope(p, t) = <<t>>
      BY <1>1, <2>1 DEF Scope
    <3>2. i \in {1}
      BY <3>1
    <3> QED BY <3>2
  <2>2. CASE ClosedPartner(t) # {}
    <3>1. Scope(p, t) = <<t>> \o <<Other(t)>>
      BY <1>1, <2>2 DEF Scope
    <3>2. Scope(p, t) = <<t, Other(t)>>
      BY <3>1, JoinOfTwo
    <3>3. i \in {1, 2} /\ Scope(p, t)[2] = Other(t)
      BY <3>2
    <3>4. Other(t) \in ClosedPartner(t)
      BY <2>2, PartnerIsOther DEF ClosedPartner
    <3> QED BY <3>3, <3>4 DEF ClosedPartner
  <2> QED BY <2>1, <2>2
<1>2. CASE ~takes
  <2>1. Scope(p, t)[i] \in ClosedPartner(t)
    BY <1>2, ScopeHolds
  <2> QED BY <2>1 DEF ClosedPartner
<1> QED BY <1>1, <1>2

(* The trips a request is obliged to price are in the scope it draws for   *)
(* them, and it will refuses none of that scope.                           *)
LEMMA PromisedInScope ==
  ASSUME NEW p \in Requests, Orderly(p), NEW v \in request[p].todo, v \in Trips,
         NEW t \in Trips, Priceable(t),
         NEW u \in request[p].todo, u \in {v} \cup ClosedPartner(v), Prices(p, u, t)
  PROVE  /\ \A i \in DOMAIN Scope(p, v) : Priceable(Scope(p, v)[i])
         /\ \E i \in DOMAIN Scope(p, v) : Scope(p, v)[i] = t
<1>1. t = v \/ t \in ClosedPartner(v)
  BY OwedInScope DEF Prices
<1>2. request[p].settles
  BY DEF Orderly
<1>3. request[p].op \in {"CLOSE", "REPRICE"} => Priceable(v)
  <2>1. request[p].op \in {"CLOSE", "REPRICE"} => u = v
    BY DEF Orderly
  <2> QED BY <2>1 DEF Prices
<1>4. CASE Priceable(v)
  BY <1>1, <1>4, ScopeHolds DEF ClosedPartner
<1>5. CASE ~Priceable(v)
  <2>1. ~(\/ Priceable(v) \/ ~request[p].settles \/ request[p].op \in {"CLOSE", "REPRICE"})
    BY <1>2, <1>3, <1>5
  <2>2. \A i \in DOMAIN Scope(p, v) : Scope(p, v)[i] \in ClosedPartner(v)
    BY <2>1, ScopeHolds
  <2>3. t \in ClosedPartner(v)
    BY <1>1, <1>5
  <2>4. \E i \in DOMAIN Scope(p, v) : Scope(p, v)[i] = t
    BY <2>3, ScopeHolds
  <2> QED BY <2>2, <2>4 DEF ClosedPartner
<1> QED BY <1>4, <1>5

LEMMA StartPricingKeepsSane ==
  ASSUME IInv, Sane, NEW p \in Requests, StartPricing(p)
  PROVE  Sane'
<1>1. /\ request[p] \in Request /\ request[p].phase = "price"
      /\ request[p].results = <<>> /\ request[p].stored = 0
      /\ UNCHANGED <<trip, grouped, snapshot, clock>> /\ clock \in Nat
      /\ Orderly(p)
  BY DEF StartPricing, IInv, TypeOK, ChainsAreConsistent, Consistent, Sane
<1>2. PICK v \in request[p].todo :
        request' = [request EXCEPT
            ![p].todo  = @ \ ({v} \cup ClosedPartner(v)),
            ![p].phase = IF Scope(p, v) = <<>> THEN "price" ELSE "calculate",
            ![p].scope = Scope(p, v),
            ![p].since = clock]
  BY DEF StartPricing
<1>3. v \in Trips
  BY <1>1, <1>2 DEF Request
<1> PICK scope : scope = Scope(p, v)
  OBVIOUS
<1>4. /\ request'[p].todo = request[p].todo \ ({v} \cup ClosedPartner(v))
      /\ request'[p].phase = IF scope = <<>> THEN "price" ELSE "calculate"
      /\ request'[p].scope = scope
      /\ request'[p].since = clock
      /\ \A q \in Requests : q # p => request'[q] = request[q]
  BY <1>1, <1>2 DEF IInv, TypeOK, Request
<1>5. /\ request'[p].op = request[p].op /\ request'[p].settles = request[p].settles
      /\ request'[p].release = request[p].release
      /\ request'[p].results = <<>> /\ request'[p].stored = 0
  BY <1>1, <1>2 DEF IInv, TypeOK, Request
<1>6. \A u : Priceable(u)' = Priceable(u) /\ ClosedPartner(u)' = ClosedPartner(u)
  BY <1>1, SamePrices
<1>7. scope \in Seq(Trips) /\ DOMAIN <<>> = {}
  BY <1>3, ScopeType
<1>8. ASSUME NEW i \in DOMAIN scope, i # 1 PROVE Priceable(scope[i])'
  BY <1>3, <1>6, <1>8, ScopeTail
<1>9. Orderly(p)'
  BY <1>1, <1>4, <1>5, <1>7, <1>8 DEF Orderly, Working, Priceable
<1>10. ASSUME NEW t \in Trips, NEW c \in Nat, Priceable(t), c <= clock, Obliged(p, t, c)
       PROVE  Obliged(p, t, c)'
  <2>1. PICK u \in request[p].todo : Prices(p, u, t)
    BY <1>1, <1>10 DEF Obliged, Promised, UnderWay, Working
  <2>2. CASE u \notin {v} \cup ClosedPartner(v)
    <3>1. u \in request'[p].todo /\ Prices(p, u, t)'
      BY <1>4, <1>5, <1>6, <2>1, <2>2 DEF Prices
    <3> QED BY <3>1 DEF Obliged, Promised
  <2>3. CASE u \in {v} \cup ClosedPartner(v)
    <3>1. /\ \A i \in DOMAIN scope : Priceable(scope[i])
          /\ \E i \in DOMAIN scope : scope[i] = t
      BY <1>1, <1>2, <1>3, <1>10, <2>1, <2>3, PromisedInScope
    <3>2. PICK i \in DOMAIN scope : scope[i] = t
      BY <3>1
    <3>3. scope # <<>> /\ i > 0
      BY <1>7, <3>2
    <3>4. \A j \in DOMAIN scope : Priceable(scope[j])'
      BY <1>6, <3>1
    <3>5. UnderWay(p, t, c)'
      BY <1>1, <1>4, <1>5, <1>10, <3>2, <3>3, <3>4 DEF UnderWay, Working, Priceable
    <3> QED BY <3>5 DEF Obliged
  <2> QED BY <2>2, <2>3
<1>11. \A t \in Trips : \A c \in Nat : KeepsTrack(p, t, c)
  BY <1>1, <1>5, <1>10, UnstoredKeepsTrack
<1>12. SnapshotsStand'
  BY <1>1, SameSnapshotsStand DEF Sane
<1> QED BY <1>1, <1>4, <1>9, <1>11, <1>12, StepKeepsSane
---------------------------------------------------------------------------
(* No claim is lost, and nothing is left for a settlement to move.         *)

LEMMA NoRival ==
  ASSUME IInv, NumbersApart, NEW t \in Trips, NEW tar \in TarDay,
         tar.number = trip[t].number
  PROVE  /\ Stating(tar) \subseteq {t}
         /\ ~HeldByAnother(tar, t) /\ Surplus(tar) = {} /\ ClosedStating(tar, t) = {}
<1>1. ASSUME NEW u \in Stating(tar) PROVE u = t
  <2>1. u \in Trips /\ trip[u].number = tar.number
    BY DEF Stating, TarDayOf
  <2>2. tar.number # NoNumber
    BY NullsAreSeparate DEF TarDay
  <2> QED BY <2>1, <2>2 DEF NumbersApart
<1>2. ValidHolders(tar) \subseteq {t}
  BY <1>1 DEF ValidHolders, Holders
<1>3. Surplus(tar) = {}
  <2>1. ASSUME NEW u \in Surplus(tar) PROVE FALSE
    <3>1. PICK c \in ValidHolders(tar) : snapshot[c].at < snapshot[u].at
      BY DEF Surplus
    <3>2. u = t /\ c = t
      BY <1>2, <3>1 DEF Surplus
    <3>3. snapshot[t] \in Snapshot
      BY <1>2, <3>1, <3>2 DEF ValidHolders, Holders, Counted, IInv, TypeOK
    <3> QED BY <3>1, <3>2, <3>3 DEF Snapshot
  <2> QED BY <2>1
<1> QED BY <1>1, <1>2, <1>3 DEF HeldByAnother, ClosedStating

LEMMA NoClaimIsLost ==
  ASSUME IInv, NumbersApart, NEW p \in Requests, Orderly(p), request[p].phase = "store"
  PROVE  ~ClaimLost(p)
<1> SUFFICES ASSUME ClaimLost(p) PROVE FALSE
  OBVIOUS
<1> PICK k : k = StoreIndex(p)
  OBVIOUS
<1>1. PICK t \in Trips : t = request[p].scope[k]
  BY PendingType DEF InScope
<1>2. PICK result \in Result : result = request[p].results[k]
  BY PendingType DEF Pending
<1>3. k \in DOMAIN request[p].results
  BY PendingType DEF IInv, TypeOK, Request
<1>4. result.claim # NoClaim /\ HeldByAnother(result.claim, t)
  BY <1>1, <1>2 DEF ClaimLost, Pending, InScope
<1>5. result.claim \in TarDay /\ result.claim.number = trip[t].number
  BY <1>1, <1>2, <1>3, <1>4 DEF Orderly, Result
<1> QED BY <1>4, <1>5, NoRival

LEMMA NothingMoves ==
  ASSUME IInv, NumbersApart, NEW p \in Requests
  PROVE  Movers(p) = {}
<1> DEFINE scope == {InScope(p, i) : i \in DOMAIN request[p].scope}
           days  == {t \in scope : trip[t].number # NoNumber}
<1>1. ASSUME NEW t \in days
      PROVE  Surplus(TarDayOf(t)) = {} /\ ClosedStating(TarDayOf(t), t) = {}
  <2>1. t \in Trips
    <3>1. PICK i \in DOMAIN request[p].scope : t = request[p].scope[i]
      BY DEF InScope
    <3>2. request[p].scope \in Seq(Trips)
      BY DEF IInv, TypeOK, Request
    <3> QED BY <3>1, <3>2, ElementOfSeq
  <2>2. trip[t] \in Row /\ trip[t].number # NoNumber
    BY <2>1 DEF IInv, TypeOK
  <2>3. TarDayOf(t) \in TarDay /\ TarDayOf(t).number = trip[t].number
    BY <2>2 DEF TarDayOf, TarDay, Row
  <2> QED BY <2>1, <2>3, NoRival
<1>2. Movers(p) = (UNION {Surplus(TarDayOf(t)) : t \in days})
     \cup (UNION {ClosedStating(TarDayOf(t), t) :
                    t \in {s \in days : /\ s \in request[p].held
                                        /\ s \notin Holders(TarDayOf(s))}})
  BY DEF Movers
<1> HIDE DEF days
<1>3. (UNION {Surplus(TarDayOf(t)) : t \in days}) = {}
  BY <1>1
<1>4. \A held : (UNION {ClosedStating(TarDayOf(t), t) : t \in {s \in days : s \in held /\ s \notin Holders(TarDayOf(s))}}) = {}
  BY <1>1
<1> QED BY <1>2, <1>3, <1>4

---------------------------------------------------------------------------
(* A pricing that is over, and the rest of the request.                    *)

LEMMA LeaveIsQuiet ==
  ASSUME IInv, NEW p \in Requests, Orderly(p), request' = [request EXCEPT ![p] = Leave(@)]
  PROVE  /\ request'[p].phase = "price" /\ request'[p].results = <<>>
         /\ request'[p].since = 0 /\ request'[p].settles
         /\ request'[p].op = request[p].op /\ request'[p].todo = request[p].todo
         /\ request'[p].release = request[p].release
         /\ \A q \in Requests : q # p => request'[q] = request[q]
<1>1. request[p] \in Request /\ request'[p] = Leave(request[p])
  BY DEF IInv, TypeOK
<1>2. PICK req \in Request : req = request[p]
  BY <1>1
<1>3. /\ Leave(req).op = req.op /\ Leave(req).todo = req.todo
      /\ Leave(req).release = req.release /\ Leave(req).settles = req.settles
  BY <1>2 DEF Leave, Request
<1>4. /\ Leave(req).phase = IF req.settles THEN "price" ELSE "resettle"
      /\ Leave(req).results = <<>> /\ Leave(req).since = 0
  BY <1>2 DEF Leave, Request
<1>5. req.settles
  BY <1>2 DEF Orderly
<1>6. \A q \in Requests : q # p => request'[q] = request[q]
  BY DEF IInv, TypeOK
<1> QED BY <1>1, <1>2, <1>3, <1>4, <1>5, <1>6

(* What was under way is not owed: it is stored, or was never obliged.     *)
LEMMA LeavingKeepsSane ==
  ASSUME IInv, Sane, NEW p \in Requests, request' = [request EXCEPT ![p] = Leave(@)],
         UNCHANGED <<trip, grouped, snapshot, clock>>,
         \A t, c : ~UnderWay(p, t, c), request[p].phase \notin {"idle", "write"}
  PROVE  Sane'
<1>1. Orderly(p) /\ clock \in Nat
  BY DEF Sane, IInv, TypeOK
<1>2. /\ request'[p].phase = "price" /\ request'[p].results = <<>>
      /\ request'[p].since = 0 /\ request'[p].settles
      /\ request'[p].op = request[p].op /\ request'[p].todo = request[p].todo
      /\ request'[p].release = request[p].release
      /\ \A q \in Requests : q # p => request'[q] = request[q]
  BY <1>1, LeaveIsQuiet
<1>3. DOMAIN <<>> = {}
  OBVIOUS
<1>4. Orderly(p)'
  BY <1>1, <1>2, <1>3 DEF Orderly, Working
<1>5. ASSUME NEW t \in Trips, NEW c \in Nat, Obliged(p, t, c) PROVE Obliged(p, t, c)'
  <2>1. PICK u \in request[p].todo : Prices(p, u, t)
    BY <1>5 DEF Obliged, Promised
  <2>2. Prices(p, u, t)'
    BY <1>2, <2>1, SamePrices DEF Prices
  <2> QED BY <1>2, <2>1, <2>2 DEF Obliged, Promised
<1>6. \A t \in Trips : \A c \in Nat : KeepsTrack(p, t, c)
  BY <1>2, <1>5, UnstoredKeepsTrack
<1>7. SnapshotsStand'
  BY SameSnapshotsStand DEF Sane
<1> QED BY <1>2, <1>4, <1>6, <1>7, StepKeepsSane

LEMMA RefusedKeepsSane ==
  ASSUME IInv, Sane, NEW p \in Requests, CalculationRefused(p)
  PROVE  Sane'
<1> PICK i : i = Len(request[p].results) + 1
  OBVIOUS
<1>1. /\ request[p].phase = "calculate" /\ ~Priceable(request[p].scope[i])
      /\ Len(request[p].results) < Len(request[p].scope)
      /\ request[p].results \in Seq(Result) /\ request[p].scope \in Seq(Trips)
      /\ UNCHANGED <<trip, grouped, clock>>
  BY DEF CalculationRefused, InScope, IInv, TypeOK, Request, ChainsAreConsistent, Consistent
<1>2. i \in DOMAIN request[p].scope
  BY <1>1
<1>3. i = 1
  BY <1>1, <1>2 DEF Sane, Orderly, Working
<1>4. request' = [request EXCEPT ![p] = Leave(@)] /\ snapshot' = snapshot
  BY <1>3 DEF CalculationRefused
<1>5. \A t, c : ~UnderWay(p, t, c)
  BY <1>1, <1>2 DEF UnderWay
<1> QED BY <1>1, <1>4, <1>5, LeavingKeepsSane

LEMMA SettleKeepsSane ==
  ASSUME IInv, Sane, NEW p \in Requests, Settle(p)
  PROVE  Sane'
<1>1. Movers(p) = {}
  BY NothingMoves DEF Sane
<1>2. /\ request[p].phase = "settle" /\ UNCHANGED <<trip, grouped, snapshot, clock>>
      /\ request' = [request EXCEPT ![p] = Leave(@)]
  BY <1>1 DEF Settle
<1>3. \A t, c : ~UnderWay(p, t, c)
  BY <1>2 DEF UnderWay, Working
<1> QED BY <1>2, <1>3, LeavingKeepsSane

LEMMA EndKeepsSane ==
  ASSUME IInv, Sane, NEW p \in Requests, Release(p) \/ Answer(p)
  PROVE  Sane'
<1>1. /\ request[p] \in Request /\ request[p].phase = "price" /\ request[p].todo = {}
      /\ request[p].results = <<>>
      /\ UNCHANGED <<trip, grouped, snapshot, clock>> /\ clock \in Nat /\ Orderly(p)
      /\ \A q \in Requests : q # p => request'[q] = request[q]
  BY DEF Release, Answer, Sane, IInv, TypeOK, ChainsAreConsistent, Consistent
<1>2. DOMAIN <<>> = {}
  OBVIOUS
<1>3. Orderly(p)' /\ request'[p].results = <<>>
  <2>1. CASE Release(p)
    <3>1. /\ request[p].release # NoClaim /\ request'[p].phase = "price"
          /\ request'[p].results = <<>> /\ request'[p].op = request[p].op
          /\ request'[p].since = request[p].since
          /\ request'[p].settles = request[p].settles
      BY <1>1, <2>1 DEF Release, IInv, TypeOK, Request
    <3> QED BY <1>1, <1>2, <3>1 DEF Orderly, Working
  <2>2. CASE Answer(p)
    <3>1. request'[p] = Idle
      BY <2>2 DEF Answer, IInv, TypeOK
    <3> QED BY <1>1, <1>2, <3>1 DEF Orderly, Working, Idle
  <2> QED BY <2>1, <2>2
<1>4. \A t, c : ~Obliged(p, t, c)
  BY <1>1 DEF Obliged, Promised, UnderWay, Working
<1>5. \A t \in Trips : \A c \in Nat : KeepsTrack(p, t, c)
  BY <1>1, <1>3, <1>4, UnstoredKeepsTrack
<1>6. SnapshotsStand'
  BY <1>1, SameSnapshotsStand DEF Sane
<1> QED BY <1>1, <1>3, <1>5, <1>6, StepKeepsSane
---------------------------------------------------------------------------
(* It calculates: from the data as they are, later than whatever changed   *)
(* them.                                                                   *)

LEMMA CalculateKeepsSane ==
  ASSUME IInv, Sane, NEW p \in Requests, Calculate(p)
  PROVE  Sane'
<1> DEFINE n == Len(request[p].results)
<1>1. /\ request[p] \in Request /\ request[p].phase = "calculate"
      /\ request[p].stored = 0 /\ n < Len(request[p].scope)
      /\ UNCHANGED <<trip, grouped, snapshot>> /\ clock' = clock + 1 /\ clock \in Nat
      /\ Orderly(p)
  BY DEF Calculate, Sane, IInv, TypeOK, ChainsAreConsistent, Consistent
<1>2. /\ request[p].results \in Seq(Result) /\ request[p].scope \in Seq(Trips)
      /\ n \in Nat /\ Len(request[p].scope) \in Nat /\ request[p].since \in Nat
  BY <1>1 DEF Request
<1>3. PICK t \in Trips : t = request[p].scope[n + 1]
  BY <1>1, <1>2
<1>4. PICK result : result = Calculation(t)
  OBVIOUS
<1>5. /\ result \in Result /\ result.at = clock /\ result.read = PriceDataOf(t)
      /\ result.claim # NoClaim => result.claim.number = trip[t].number
  <2>1. result \in Result
    BY <1>4, CalculationType DEF IInv
  <2>2. result.claim # NoClaim => result.claim = TarDayOf(t)
    BY <1>4 DEF Calculation
  <2> QED BY <1>4, <2>1, <2>2 DEF Calculation, TarDayOf
<1> DEFINE results == Append(request[p].results, result)
           at == request'[p]
<1>6. /\ results \in Seq(Result) /\ Len(results) = n + 1
      /\ results[n + 1] = result
      /\ \A i \in 1..n : results[i] = request[p].results[i]
  BY <1>2, <1>5
<1>7. /\ at.results = results /\ at.scope = request[p].scope
      /\ at.since = request[p].since /\ at.stored = request[p].stored
      /\ at.phase = IF n + 1 < Len(request[p].scope) THEN "calculate" ELSE "store"
  BY <1>1, <1>3, <1>4 DEF Calculate, InScope, IInv, TypeOK, Request
<1>8. /\ at.op = request[p].op /\ at.todo = request[p].todo
      /\ at.release = request[p].release /\ at.settles = request[p].settles
      /\ \A q \in Requests : q # p => request'[q] = request[q]
  BY <1>1, <1>3, <1>4 DEF Calculate, InScope, IInv, TypeOK, Request
<1> HIDE DEF results
<1>9. \A u : /\ Priceable(u)' = Priceable(u) /\ ClosedPartner(u)' = ClosedPartner(u)
             /\ PriceDataOf(u)' = PriceDataOf(u)
  BY <1>1, SamePrices
<1>10. request[p].phase \in Working /\ at.phase \in Working
  BY <1>1, <1>7 DEF Working
<1>11. ASSUME NEW i \in DOMAIN results
       PROVE  i = n + 1 \/ (/\ i \in DOMAIN request[p].results
                            /\ results[i] = request[p].results[i]
                            /\ request[p].results[i].at \in Nat)
  <2>1. i \in 1..(n + 1)
    BY <1>6, <1>11
  <2>2. CASE i # n + 1
    <3>1. i \in 1..n
      BY <1>2, <2>1, <2>2
    <3>2. i \in DOMAIN request[p].results /\ results[i] = request[p].results[i]
      BY <1>2, <1>6, <3>1
    <3>3. request[p].results[i] \in Result
      BY <1>2, <3>1, ElementOfSeq
    <3>4. request[p].results[i].at \in Nat
      BY <3>3 DEF Result
    <3> QED BY <3>2, <3>4
  <2> QED BY <2>2
<1>12. Orderly(p)'
  <2>1. ASSUME NEW i \in DOMAIN results
        PROVE  /\ results[i].at >= request[p].since
               /\ results[i].at < clock'
               /\ \A u \in Trips :
                    request[p].scope[i] = u /\ results[i].claim # NoClaim
                      => results[i].claim.number = trip[u].number
    <3>1. CASE i = n + 1
      BY <1>1, <1>2, <1>3, <1>5, <1>6, <3>1 DEF Orderly
    <3>2. CASE i # n + 1
      <4>1. /\ i \in DOMAIN request[p].results
            /\ results[i] = request[p].results[i]
            /\ request[p].results[i].at \in Nat
        BY <1>11, <2>1, <3>2
      <4>2. /\ request[p].results[i].at >= request[p].since
            /\ request[p].results[i].at < clock
            /\ \A u \in Trips :
                 request[p].scope[i] = u /\ request[p].results[i].claim # NoClaim
                   => request[p].results[i].claim.number = trip[u].number
        BY <1>1, <4>1 DEF Orderly
      <4> QED BY <1>1, <4>1, <4>2
    <3> QED BY <3>1, <3>2
  <2>2. at.since <= clock'
    BY <1>1, <1>2, <1>7 DEF Orderly
  <2>3. at.phase = "store" => Len(at.results) = Len(at.scope)
    BY <1>1, <1>2, <1>6, <1>7
  <2>4. \A i \in DOMAIN request[p].scope : i # 1 => Priceable(request[p].scope[i])
    BY <1>1, <1>10 DEF Orderly
  <2>5. at.phase \notin {"again", "resettle", "idle", "write"}
    BY <1>7
  <2> QED BY <1>1, <1>7, <1>8, <2>1, <2>2, <2>3, <2>4, <2>5 DEF Orderly, Priceable
<1>13. ASSUME NEW u \in Trips, NEW c \in Nat PROVE KeepsTrack(p, u, c)
  <2>1. ReadFresh(p, u, c) => ReadFresh(p, u, c)'
    <3> SUFFICES ASSUME ReadFresh(p, u, c), NEW i \in DOMAIN results,
                        request[p].scope[i] = u, results[i].at >= c
                 PROVE  results[i].read = PriceDataOf(u)
      BY <1>7, <1>9 DEF ReadFresh
    <3>1. CASE i = n + 1
      BY <1>3, <1>5, <1>6, <3>1
    <3>2. CASE i # n + 1
      BY <1>11, <3>2 DEF ReadFresh
    <3> QED BY <3>1, <3>2
  <2>2. Answered(u, c)' = Answered(u, c)
    BY <1>1 DEF Answered
  <2>3. StoredFresh(u, c)' = StoredFresh(u, c)
    BY <1>1, <1>9, <2>2 DEF StoredFresh
  <2>4. Promised(p, u) => Promised(p, u)'
    BY <1>8, <1>9 DEF Promised, Prices
  <2>5. UnderWay(p, u, c) => UnderWay(p, u, c)'
    BY <1>7, <1>9, <1>10 DEF UnderWay
  <2> QED BY <2>1, <2>2, <2>3, <2>4, <2>5 DEF KeepsTrack, Obliged
<1>14. SnapshotsStand'
  BY <1>1, SameSnapshotsStand DEF Sane
<1> QED BY <1>1, <1>8, <1>12, <1>13, <1>14, StepKeepsSane

(* It stores: the last of the calculations that started wins.              *)
LEMMA StoreKeepsSane ==
  ASSUME IInv, Sane, NEW p \in Requests, Store(p)
  PROVE  Sane'
<1> PICK k : k = StoreIndex(p)
  OBVIOUS
<1>1. /\ request[p] \in Request /\ request[p].phase = "store"
      /\ UNCHANGED <<trip, grouped, clock>> /\ snapshot' = StoreTarget(p)
      /\ request'[p] = Stored(request[p])
      /\ snapshot \in [Trips -> Snapshot \cup {NoSnapshot}] /\ clock \in Nat
      /\ Orderly(p) /\ \A q \in Requests : q # p => request'[q] = request[q]
  BY DEF Store, Sane, IInv, TypeOK
<1>2. /\ request[p].results \in Seq(Result) /\ request[p].scope \in Seq(Trips)
      /\ request[p].since \in Nat /\ request[p].stored \in Nat
      /\ k \in 1..Len(request[p].results) /\ k = request[p].stored + 1
      /\ Len(request[p].results) = Len(request[p].scope)
  BY <1>1, PendingType DEF Request, StoreIndex, Orderly
<1>3. PICK t \in Trips : t = request[p].scope[k]
  BY <1>1, PendingType DEF InScope
<1>4. PICK result \in Result : result = request[p].results[k]
  BY <1>1, PendingType DEF Pending
<1>5. /\ result.at \in Nat /\ result.at >= request[p].since /\ result.at < clock
      /\ k \in DOMAIN request[p].results
  <2>1. k \in DOMAIN request[p].results
    BY <1>2
  <2>2. result.at \in Nat
    BY DEF Result
  <2> QED BY <1>1, <1>4, <2>1, <2>2 DEF Orderly
<1> DEFINE new == [at |-> result.at, read |-> result.read,
                   tar |-> result.claim # NoClaim, failed |-> FALSE]
<1>6. /\ new.at = result.at /\ new.read = result.read /\ ~new.failed
      /\ new # NoSnapshot
  BY <1>5 DEF NoSnapshot
<1>7. \/ /\ snapshot' = snapshot /\ snapshot[t] # NoSnapshot
         /\ snapshot[t].at > result.at
      \/ /\ snapshot' = [snapshot EXCEPT ![t] = new]
         /\ ~(snapshot[t] # NoSnapshot /\ snapshot[t].at > result.at)
  BY <1>1, <1>3, <1>4 DEF StoreTarget, Superseded, Pending, InScope
<1> HIDE DEF new
<1>8. \A u \in Trips : u # t => snapshot'[u] = snapshot[u]
  BY <1>1, <1>7
<1>9. \/ snapshot'[t] = snapshot[t] /\ snapshot[t] # NoSnapshot /\ snapshot[t].at > result.at
      \/ snapshot'[t] = new /\ (snapshot[t] # NoSnapshot => snapshot[t].at <= result.at)
  <2>1. snapshot[t] # NoSnapshot => snapshot[t].at \in Nat
    <3>1. snapshot[t] # NoSnapshot => snapshot[t] \in Snapshot
      BY <1>1
    <3> QED BY <3>1 DEF Snapshot
  <2> QED BY <1>1, <1>5, <1>7, <2>1
<1>10. \A u : /\ Priceable(u)' = Priceable(u) /\ ClosedPartner(u)' = ClosedPartner(u)
              /\ PriceDataOf(u)' = PriceDataOf(u)
  BY <1>1, SamePrices
<1>11. PICK req \in Request : req = request[p]
  BY <1>1
<1>12. /\ request'[p].results = request[p].results /\ request'[p].scope = request[p].scope
       /\ request'[p].since = request[p].since /\ request'[p].settles
       /\ request'[p].op = request[p].op /\ request'[p].todo = request[p].todo
       /\ request'[p].release = request[p].release
       /\ \/ /\ request'[p].phase = "store" /\ request'[p].stored = k
             /\ k < Len(request[p].results)
          \/ request'[p].phase = "settle" /\ k = Len(request[p].results)
  <2>1. req.settles
    BY <1>1, <1>11 DEF Orderly
  <2>2. CASE req.stored + 1 < Len(req.results)
    <3>1. Stored(req) = [req EXCEPT !.stored = @ + 1, !.attempt = 1, !.phase = "store"]
      BY <2>2 DEF Stored
    <3>2. /\ Stored(req).results = req.results /\ Stored(req).scope = req.scope
          /\ Stored(req).since = req.since /\ Stored(req).settles = req.settles
          /\ Stored(req).phase = "store" /\ Stored(req).stored = req.stored + 1
      BY <3>1 DEF Request
    <3>3. /\ Stored(req).op = req.op /\ Stored(req).todo = req.todo
          /\ Stored(req).release = req.release
      BY <3>1 DEF Request
    <3> QED BY <1>1, <1>2, <1>11, <2>1, <2>2, <3>2, <3>3
  <2>3. CASE ~(req.stored + 1 < Len(req.results))
    <3>1. Stored(req) = [req EXCEPT !.phase = "settle"]
      BY <2>1, <2>3 DEF Stored
    <3>2. /\ Stored(req).results = req.results /\ Stored(req).scope = req.scope
          /\ Stored(req).since = req.since /\ Stored(req).settles = req.settles
          /\ Stored(req).phase = "settle"
      BY <3>1 DEF Request
    <3>3. /\ Stored(req).op = req.op /\ Stored(req).todo = req.todo
          /\ Stored(req).release = req.release
      BY <3>1 DEF Request
    <3>4. k = Len(request[p].results)
      BY <1>2, <1>11, <2>3
    <3> QED BY <1>1, <1>11, <2>1, <3>2, <3>3, <3>4
  <2> QED BY <2>2, <2>3
<1>13. Orderly(p)'
  <2>1. request[p].phase \in Working
    BY <1>1 DEF Working
  <2>2. request'[p].phase \notin {"again", "resettle", "idle", "write"}
    BY <1>12
  <2>3. \A i \in DOMAIN request[p].scope : i # 1 => Priceable(request[p].scope[i])
    BY <1>1, <2>1 DEF Orderly
  <2> QED BY <1>1, <1>2, <1>12, <2>2, <2>3 DEF Orderly, Priceable
<1>14. SnapshotsStand'
  <2> SUFFICES ASSUME NEW u \in Trips, snapshot'[u] # NoSnapshot
               PROVE  snapshot'[u].at < clock /\ ~snapshot'[u].failed
    BY <1>1 DEF SnapshotsStand
  <2>1. CASE snapshot'[u] = snapshot[u]
    BY <2>1 DEF Sane, SnapshotsStand
  <2>2. CASE u = t /\ snapshot'[t] = new
    BY <1>5, <1>6, <2>2
  <2> QED BY <1>8, <1>9, <2>1, <2>2
<1>15. ASSUME NEW u \in Trips, NEW c \in Nat PROVE KeepsTrack(p, u, c)
  <2>1. ReadFresh(p, u, c) => ReadFresh(p, u, c)'
    BY <1>10, <1>12 DEF ReadFresh
  <2>2. snapshot[t] # NoSnapshot => snapshot[t].at \in Nat
    <3>1. snapshot[t] # NoSnapshot => snapshot[t] \in Snapshot
      BY <1>1
    <3> QED BY <3>1 DEF Snapshot
  <2>3. Answered(u, c) => Answered(u, c)'
    BY <1>5, <1>6, <1>8, <1>9, <2>2 DEF Answered
  <2>4. ReadFresh(p, u, c) /\ StoredFresh(u, c) => StoredFresh(u, c)'
    <3>1. CASE snapshot'[u] = snapshot[u]
      BY <1>10, <3>1 DEF StoredFresh, Answered
    <3>2. CASE u = t /\ snapshot'[t] = new
      <4>1. ReadFresh(p, u, c) /\ result.at >= c => result.read = PriceDataOf(u)
        BY <1>3, <1>4, <1>5, <3>2 DEF ReadFresh
      <4> QED BY <1>6, <1>10, <3>2, <4>1 DEF StoredFresh, Answered
    <3> QED BY <1>8, <1>9, <3>1, <3>2
  <2>5. Promised(p, u) => Promised(p, u)'
    BY <1>10, <1>12 DEF Promised, Prices
  <2>6. UnderWay(p, u, c) => UnderWay(p, u, c)' \/ Answered(u, c)'
    <3> SUFFICES ASSUME UnderWay(p, u, c) PROVE UnderWay(p, u, c)' \/ Answered(u, c)'
      OBVIOUS
    <3>1. PICK i \in DOMAIN request[p].scope : i > request[p].stored /\ request[p].scope[i] = u
      BY DEF UnderWay
    <3>2. request[p].since >= c /\ i \in 1..Len(request[p].results)
      BY <1>2, <3>1 DEF UnderWay
    <3>3. CASE i = k
      <4>1. u = t /\ result.at >= c
        BY <1>2, <1>3, <1>5, <3>1, <3>2, <3>3
      <4> QED BY <1>5, <1>6, <1>9, <2>2, <4>1 DEF Answered
    <3>4. CASE i # k
      <4>1. i > k
        BY <1>2, <3>1, <3>2, <3>4
      <4>2. request'[p].phase = "store" /\ request'[p].stored = k
        BY <1>2, <1>12, <3>2, <4>1
      <4>3. request'[p].phase \in Working
        BY <4>2 DEF Working
      <4>4. \A j \in DOMAIN request[p].scope : Priceable(request[p].scope[j])'
        BY <1>10, <1>12 DEF UnderWay
      <4>5. UnderWay(p, u, c)'
        BY <1>12, <3>1, <3>2, <4>1, <4>2, <4>3, <4>4 DEF UnderWay, Priceable
      <4> QED BY <4>5
    <3> QED BY <3>3, <3>4
  <2> QED BY <2>1, <2>3, <2>4, <2>5, <2>6 DEF KeepsTrack, Obliged
<1> QED BY <1>1, <1>13, <1>14, <1>15, StepKeepsSane
---------------------------------------------------------------------------
(* It writes: whose data it changes, it promises to price.                 *)

(* After p's write either p has t to price, or t is worth what it was and  *)
(* has the partner it had.                                                 *)
Reckoned(p, todo, t) ==
  \/ \E v \in todo : /\ Priceable(v)' \/ request[p].op \notin {"CLOSE", "REPRICE"}
                     /\ t = v \/ t \in ClosedPartner(v)'
  \/ /\ Priceable(t) /\ PriceDataOf(t)' = PriceDataOf(t)
     /\ Together' = Together \/ t \notin Legs

(* No row is withdrawn from pricing, and no number changes.                *)
RowsAdvance ==
  \A u \in Trips : /\ Priceable(u) => Priceable(u)'
                   /\ trip'[u].number = trip[u].number
                   /\ trip'[u].status # "CANCELLED"

LEMMA WroteFields ==
  ASSUME IInv, NEW p \in Requests, NEW todo, NEW release, Wrote(p, todo, release)
  PROVE  /\ request'[p].phase = "price" /\ request'[p].op = request[p].op
         /\ request'[p].todo = todo /\ request'[p].release = release
         /\ request'[p].results = <<>> /\ request'[p].since = 0
         /\ request'[p].settles
         /\ \A q \in Requests : q # p => request'[q] = request[q]
BY DEF Wrote, Idle, IInv, TypeOK

(* Another request's obligation outlives the write, where t keeps its      *)
(* partner.                                                                *)
LEMMA ObligationStands ==
  ASSUME IInv, NEW q \in Requests, request'[q] = request[q], RowsAdvance,
         NEW t \in Trips, Priceable(t), Together' = Together \/ t \notin Legs, NEW c,
         Obliged(q, t, c)
  PROVE  Obliged(q, t, c)'
<1>1. request[q] \in Request /\ request[q].scope \in Seq(Trips)
      /\ request[q].todo \subseteq Trips
  BY DEF IInv, TypeOK, Request
<1>2. ASSUME NEW u \in Trips, t \in ClosedPartner(u) PROVE t \in ClosedPartner(u)'
  <2>1. t \in Legs /\ Together /\ u \in Legs /\ t # u
    BY <1>2 DEF ClosedPartner, Partner
  <2>2. trip'[t].status = "CLOSED" /\ Priceable(t)'
    BY DEF RowsAdvance, Priceable
  <2> QED BY <2>1, <2>2 DEF ClosedPartner, Partner
<1>3. CASE Promised(q, t)
  <2>1. PICK u \in request[q].todo : Prices(q, u, t)
    BY <1>3 DEF Promised
  <2>2. u \in Trips
    BY <1>1
  <2>3. Prices(q, u, t)'
    BY <1>2, <2>1, <2>2 DEF Prices, RowsAdvance
  <2> QED BY <2>1, <2>3 DEF Obliged, Promised
<1>4. CASE UnderWay(q, t, c)
  <2>1. ASSUME NEW i \in DOMAIN request[q].scope PROVE Priceable(request[q].scope[i])'
    <3>1. PICK u : u = request[q].scope[i]
      OBVIOUS
    <3>2. u \in Trips
      BY <1>1, <3>1, ElementOfSeq
    <3>3. Priceable(u)
      BY <1>4, <3>1 DEF UnderWay
    <3>4. Priceable(u)'
      BY <3>2, <3>3 DEF RowsAdvance
    <3>5. request'[q].scope[i] = u
      BY <3>1
    <3> QED BY <3>4, <3>5 DEF Priceable
  <2>2. UnderWay(q, t, c)'
    BY <1>4, <2>1 DEF UnderWay
  <2> QED BY <2>2 DEF Obliged
<1> QED BY <1>3, <1>4 DEF Obliged

LEMMA WriteKeepsCover ==
  ASSUME IInv, Sane, NEW p \in Requests, request[p].phase = "write",
         NEW todo \in SUBSET Trips, NEW release, Wrote(p, todo, release),
         UNCHANGED <<snapshot, clock>>, RowsAdvance,
         NEW t \in Trips, Reckoned(p, todo, t)
  PROVE  Covered(t)'
<1>1. /\ request'[p].phase = "price" /\ request'[p].op = request[p].op
      /\ request'[p].todo = todo /\ request'[p].results = <<>>
      /\ \A q \in Requests : q # p => request'[q] = request[q]
  BY WroteFields
<1>2. clock \in Nat /\ DOMAIN <<>> = {}
  BY DEF IInv, TypeOK
<1>3. ASSUME NEW v \in todo,
             Priceable(v)' \/ request[p].op \notin {"CLOSE", "REPRICE"},
             t = v \/ t \in ClosedPartner(v)'
      PROVE  Covered(t)'
  <2>1. StoredFresh(t, clock)'
    <3>1. snapshot[t] # NoSnapshot => snapshot[t].at \in Nat /\ snapshot[t].at < clock
      <4>1. snapshot[t] # NoSnapshot => snapshot[t] \in Snapshot
        BY DEF IInv, TypeOK
      <4> QED BY <4>1 DEF Sane, SnapshotsStand, Snapshot
    <3> QED BY <1>2, <3>1 DEF StoredFresh, Answered
  <2>2. ASSUME NEW q \in Requests PROVE ReadFresh(q, t, clock)'
    <3>1. CASE q = p
      BY <1>1, <1>2, <3>1 DEF ReadFresh
    <3>2. CASE q # p
      <4>1. ASSUME NEW i \in DOMAIN request[q].results PROVE ~(request[q].results[i].at >= clock)
        <5>1. request[q].results[i].at < clock
          BY DEF Sane, Orderly
        <5>2. request[q].results[i] \in Result
          BY ElementOfSeq DEF IInv, TypeOK, Request
        <5>3. request[q].results[i].at \in Nat
          BY <5>2 DEF Result
        <5> QED BY <1>2, <5>1, <5>3
      <4> QED BY <1>1, <3>2, <4>1 DEF ReadFresh
    <3> QED BY <3>1, <3>2
  <2>3. Obliged(p, t, clock)'
    <3>1. Prices(p, v, t)'
      BY <1>1, <1>3 DEF Prices
    <3> QED BY <1>1, <1>3, <3>1 DEF Obliged, Promised
  <2>4. Held(t, clock)'
    BY <2>1, <2>2, <2>3 DEF Held
  <2> QED BY <1>2, <2>4 DEF Covered
<1>4. CASE /\ Priceable(t) /\ PriceDataOf(t)' = PriceDataOf(t)
           /\ Together' = Together \/ t \notin Legs
  <2>1. PICK c \in Nat : c <= clock /\ Held(t, c)
    BY <1>4 DEF Sane, Covered
  <2>2. Answered(t, c)' = Answered(t, c)
    BY DEF Answered
  <2>3. StoredFresh(t, c)'
    BY <1>4, <2>1, <2>2 DEF Held, StoredFresh
  <2>4. ASSUME NEW q \in Requests PROVE ReadFresh(q, t, c)'
    <3>1. CASE q = p
      BY <1>1, <1>2, <3>1 DEF ReadFresh
    <3>2. CASE q # p
      BY <1>1, <1>4, <2>1, <3>2 DEF Held, ReadFresh
    <3> QED BY <3>1, <3>2
  <2>5. ~Obliged(p, t, c)
    BY DEF Sane, Orderly, Obliged, Promised, UnderWay, Working
  <2>6. Answered(t, c)' \/ \E q \in Requests : Obliged(q, t, c)'
    <3>1. CASE Answered(t, c)
      BY <2>2, <3>1
    <3>2. ASSUME NEW q \in Requests, Obliged(q, t, c) PROVE Obliged(q, t, c)'
      BY <1>1, <1>4, <2>5, <3>2, ObligationStands
    <3> QED BY <2>1, <3>1, <3>2 DEF Held
  <2>7. Held(t, c)'
    BY <2>3, <2>4, <2>6 DEF Held
  <2> QED BY <2>1, <2>7 DEF Covered
<1> QED BY <1>3, <1>4 DEF Reckoned

LEMMA WroteKeepsSane ==
  ASSUME IInv, Sane, NEW p \in Requests, request[p].phase = "write",
         NEW todo \in SUBSET Trips, NEW release, Wrote(p, todo, release),
         UNCHANGED <<snapshot, clock>>, RowsAdvance,
         request[p].op \in {"CLOSE", "REPRICE"} =>
           release = NoClaim /\ \A u, v \in todo : u = v,
         \A t \in Trips : Priceable(t)' => Reckoned(p, todo, t)
  PROVE  Sane'
<1>1. /\ request'[p].phase = "price" /\ request'[p].op = request[p].op
      /\ request'[p].todo = todo /\ request'[p].release = release
      /\ request'[p].results = <<>> /\ request'[p].since = 0
      /\ request'[p].settles
      /\ \A q \in Requests : q # p => request'[q] = request[q]
  BY WroteFields
<1>2. clock \in Nat /\ DOMAIN <<>> = {} /\ Orderly(p)
  BY DEF Sane, IInv, TypeOK
<1>3. Orderly(p)'
  BY <1>1, <1>2 DEF Orderly, Working
<1>4. ASSUME NEW q \in Requests PROVE Orderly(q)'
  <2>1. CASE q = p
    BY <1>3, <2>1
  <2>2. CASE q # p
    BY <1>1, <2>2, OthersStayOrderly DEF Sane, RowsAdvance
  <2> QED BY <2>1, <2>2
<1>5. SnapshotsStand'
  BY SameSnapshotsStand DEF Sane
<1>6. NumbersApart' /\ NoneCancelled'
  BY DEF Sane, NumbersApart, NoneCancelled, RowsAdvance
<1>7. \A t \in Trips : Priceable(t)' => Covered(t)'
  BY WriteKeepsCover
<1> QED BY <1>4, <1>5, <1>6, <1>7 DEF Sane
(* A row that changes reaches the other leg of its pair, and nobody else.  *)
LEMMA OthersReckoned ==
  ASSUME IInv, NoneCancelled, NEW p \in Requests, NEW todo, NEW t \in Trips,
         NEW after \in Row, after.status # "CANCELLED",
         trip' = [trip EXCEPT ![t] = after], grouped' = grouped,
         NEW u \in Trips, u # t, Priceable(u)',
         Together /\ t \in Legs /\ u \in Legs =>
           \/ PriceDataOf(u)' = PriceDataOf(u)
           \/ u \in todo
           \/ t \in todo /\ u \in ClosedPartner(t)' /\ request[p].op \notin {"CLOSE", "REPRICE"}
  PROVE  Reckoned(p, todo, u)
<1>1. trip'[u] = trip[u] /\ Priceable(u) /\ Together' = Together
  BY OthersKeepData DEF Priceable, Together
<1>2. CASE PriceDataOf(u)' = PriceDataOf(u)
  BY <1>1, <1>2 DEF Reckoned
<1>3. CASE Together /\ t \in Legs /\ u \in Legs
  BY <1>2, <1>3 DEF Reckoned
<1> QED BY <1>2, <1>3, OthersKeepData

LEMMA RowWritten ==
  ASSUME IInv, Sane, NEW t \in Trips, NEW after \in Row,
         trip' = [trip EXCEPT ![t] = after], after.number = trip[t].number,
         after.status \in {trip[t].status, "CLOSED"}
  PROVE  RowsAdvance /\ after.status # "CANCELLED" /\ NoneCancelled
<1>1. trip \in [Trips -> Row] /\ NoneCancelled
  BY DEF IInv, TypeOK, Sane
<1>2. after.status # "CANCELLED"
  BY <1>1 DEF NoneCancelled
<1> QED BY <1>1, <1>2 DEF RowsAdvance, Priceable, NoneCancelled

LEMMA WriteCloseKeepsSane ==
  ASSUME IInv, Sane, NEW p \in Requests, request[p].phase = "write", WriteClose(p),
         UNCHANGED <<snapshot, clock>>
  PROVE  Sane'
<1> PICK t : t = request[p].trip
  OBVIOUS
<1> DEFINE before == request[p].before
           after  == [trip[t] EXCEPT !.status = "CLOSED"]
           old    == [after EXCEPT !.status = before.status]
<1>1. /\ t \in Trips /\ before \in Row /\ trip[t] \in Row
      /\ request[p].op = "CLOSE" /\ WriteStatus(p, t, "CLOSED")
  BY DEF WriteClose, IInv, TypeOK, ChainsAreConsistent, Consistent
<1>2. /\ after \in Row /\ after.status = "CLOSED"
      /\ after.day = trip[t].day /\ after.inputs = trip[t].inputs
      /\ after.number = trip[t].number
  BY <1>1 DEF Row, Statuses
<1>3. Released(old, after) = NoClaim
  <2>1. /\ old.number = after.number /\ old.day = after.day
        /\ after.status # "CANCELLED"
    BY <1>1, <1>2 DEF Row
  <2> QED BY <2>1 DEF Released
<1>4. /\ trip' = [trip EXCEPT ![t] = after] /\ grouped' = grouped
      /\ Wrote(p, {t}, Released(old, after))
  BY <1>1 DEF WriteStatus
<1> HIDE DEF after, old
<1>5. Wrote(p, {t}, NoClaim) /\ {t} \in SUBSET Trips
  BY <1>1, <1>3, <1>4
<1>6. RowsAdvance /\ after.status # "CANCELLED" /\ NoneCancelled
  BY <1>1, <1>2, <1>4, RowWritten
<1>7. ASSUME NEW u \in Trips, Priceable(u)' PROVE Reckoned(p, {t}, u)
  <2>1. CASE u = t
    BY <1>7, <2>1 DEF Reckoned
  <2>2. CASE u # t
    <3>1. trip[t].status # "CANCELLED"
      BY <1>1, <1>6 DEF NoneCancelled
    <3>2. PriceDataOf(u)' = PriceDataOf(u)
      BY <1>1, <1>2, <1>4, <2>2, <3>1, OthersKeepData
    <3> QED BY <1>1, <1>2, <1>4, <1>6, <1>7, <2>2, <3>2, OthersReckoned
  <2> QED BY <2>1, <2>2
<1>8. \A u, v \in {t} : u = v
  OBVIOUS
<1> QED BY <1>5, <1>6, <1>7, <1>8, WroteKeepsSane

LEMMA WriteColumnKeepsSane ==
  ASSUME IInv, Sane, NEW p \in Requests, request[p].phase = "write",
         WriteMove(p) \/ WriteEdit(p), UNCHANGED <<snapshot, clock>>
  PROVE  Sane'
<1> PICK t : t = request[p].trip
  OBVIOUS
<1>1. /\ t \in Trips /\ request[p].before \in Row
      /\ trip[t] \in Row /\ trip \in [Trips -> Row]
      /\ request[p].op = "MOVE" => request[p].value \in Days
      /\ request[p].op = "EDIT" => request[p].value \in Inputs
  BY DEF WriteMove, WriteEdit, IInv, TypeOK, ChainsAreConsistent, Consistent
<1>2. CASE WriteEdit(p)
  <2> DEFINE after == [trip[t] EXCEPT !.inputs = request[p].value]
  <2>1. /\ after \in Row /\ after.status = trip[t].status
        /\ after.number = trip[t].number /\ request[p].op = "EDIT"
    BY <1>1, <1>2 DEF WriteEdit, Row
  <2>2. /\ trip' = [trip EXCEPT ![t] = after] /\ grouped' = grouped
        /\ Wrote(p, {t}, Released(request[p].before, after))
    BY <1>2 DEF WriteEdit, WriteColumns
  <2> HIDE DEF after
  <2>3. {t} \in SUBSET Trips
    BY <1>1
  <2>4. RowsAdvance /\ after.status # "CANCELLED" /\ NoneCancelled
    BY <1>1, <2>1, <2>2, RowWritten
  <2>5. ASSUME NEW u \in Trips, Priceable(u)' PROVE Reckoned(p, {t}, u)
    <3>1. CASE u = t
      BY <2>5, <3>1 DEF Reckoned
    <3>2. CASE u # t
      <4>1. Together /\ t \in Legs /\ u \in Legs => u \in ClosedPartner(t)'
        BY <2>2, <2>5, <3>2 DEF ClosedPartner, Partner, Priceable, Together
      <4> QED BY <1>1, <2>1, <2>2, <2>4, <2>5, <3>2, <4>1, OthersReckoned
    <3> QED BY <3>1, <3>2
  <2> QED BY <2>1, <2>2, <2>3, <2>4, <2>5, WroteKeepsSane
<1>3. CASE WriteMove(p)
  <2> DEFINE after == [trip[t] EXCEPT !.day = request[p].value]
             todo  == IF Partner(t) = {} THEN {} ELSE ClosedOf(Legs)
  <2>1. /\ after \in Row /\ after.status = trip[t].status
        /\ after.number = trip[t].number /\ after.inputs = trip[t].inputs
        /\ request[p].op = "MOVE"
    BY <1>1, <1>3 DEF WriteMove, Row
  <2>2. /\ trip' = [trip EXCEPT ![t] = after] /\ grouped' = grouped
        /\ Wrote(p, todo, Released(request[p].before, after))
    BY <1>3 DEF WriteMove, WriteColumns
  <2>3. todo \in SUBSET Trips
    BY LegsAreTrips DEF ClosedOf
  <2> HIDE DEF after
  <2>4. RowsAdvance /\ after.status # "CANCELLED" /\ NoneCancelled
    BY <1>1, <2>1, <2>2, RowWritten
  <2>5. trip'[t] = after /\ Together' = Together /\ \A u \in Trips : u # t => trip'[u] = trip[u]
    BY <1>1, <2>2 DEF Together
  <2>6. ASSUME NEW u \in Trips, Priceable(u)' PROVE Reckoned(p, todo, u)
    <3>1. CASE u = t /\ Partner(t) = {}
      <4>1. Partner(t)' = {}
        BY <2>5, <3>1, LegsAreTrips DEF Partner
      <4>2. grouped' = grouped
        BY <2>2
      <4>3. PriceDataOf(t)' = PriceDataOf(t) /\ Priceable(t)
        BY <2>1, <2>5, <2>6, <3>1, <4>1, <4>2 DEF PriceDataOf, Priceable
      <4> QED BY <2>5, <3>1, <4>3 DEF Reckoned
    <3>2. CASE u = t /\ Partner(t) # {}
      <4>1. t \in todo
        BY <2>1, <2>5, <2>6, <3>2 DEF Partner, ClosedOf, Priceable
      <4> QED BY <2>6, <3>2, <4>1 DEF Reckoned
    <3>3. CASE u # t
      <4>1. Together /\ t \in Legs /\ u \in Legs => u \in todo
        <5> SUFFICES ASSUME Together, t \in Legs, u \in Legs PROVE u \in todo
          OBVIOUS
        <5>1. Priceable(u) /\ u \in Partner(t)
          BY <2>5, <2>6, <3>3 DEF Partner, Priceable
        <5> QED BY <5>1 DEF ClosedOf
      <4> HIDE DEF todo
      <4> QED BY <1>1, <2>1, <2>2, <2>4, <2>6, <3>3, <4>1, OthersReckoned
    <3> QED BY <3>1, <3>2, <3>3
  <2> HIDE DEF todo
  <2> QED BY <2>1, <2>2, <2>3, <2>4, <2>6, WroteKeepsSane
<1> QED BY <1>2, <1>3

(* A change of the group is reckoned with in the trips it concerns.        *)
LEMMA GroupReckoned ==
  ASSUME IInv, Sane, NEW p \in Requests, NEW todo, trip' = trip,
         Regroups(todo), NEW t \in Trips, Priceable(t)'
  PROVE  Reckoned(p, todo, t)
<1>1. Priceable(t)
  BY DEF Priceable
<1>2. CASE t \in todo
  BY <1>2 DEF Reckoned
<1>3. CASE t \notin todo
  <2>1. (t \in grouped') = (t \in grouped) /\ (Together' = Together \/ t \notin Legs)
    BY <1>1, <1>3 DEF Regroups
  <2>2. Partner(t)' = Partner(t)
    BY <2>1 DEF Partner
  <2>3. PriceDataOf(t)' = PriceDataOf(t)
    BY <2>1, <2>2 DEF PriceDataOf
  <2> QED BY <1>1, <2>1, <2>3 DEF Reckoned
<1> QED BY <1>2, <1>3

LEMMA WriteGroupKeepsSane ==
  ASSUME IInv, Sane, NEW p \in Requests, request[p].phase = "write",
         WriteNothing(p) \/ WriteLink(p) \/ WriteUnlink(p), UNCHANGED <<snapshot, clock>>
  PROVE  Sane'
<1> PICK t : t = request[p].trip
  OBVIOUS
<1>1. /\ t \in Trips /\ trip' = trip /\ grouped \subseteq Legs
      /\ trip \in [Trips -> Row] /\ clock \in Nat /\ Orderly(p)
  BY DEF WriteNothing, WriteLink, WriteUnlink, Sane, IInv, TypeOK, ChainsAreConsistent, Consistent
<1>2. RowsAdvance
  BY <1>1 DEF RowsAdvance, Priceable, Sane, NoneCancelled
<1>3. CASE WriteNothing(p)
  <2>1. Wrote(p, {t}, NoClaim) /\ grouped' = grouped /\ {t} \in SUBSET Trips
    BY <1>1, <1>3 DEF WriteNothing
  <2>2. \A u \in Trips : Priceable(u)' => Reckoned(p, {t}, u)
    <3>1. Regroups({t})
      BY <2>1 DEF Regroups, Together
    <3> QED BY <1>1, <3>1, GroupReckoned
  <2>3. \A u, v \in {t} : u = v
    OBVIOUS
  <2> QED BY <1>2, <2>1, <2>2, <2>3, WroteKeepsSane
<1>4. CASE WriteLink(p)
  <2>1. CASE grouped = {}
    <3>1. /\ Wrote(p, ClosedOf(Legs), NoClaim) /\ request[p].op = "LINK"
          /\ ClosedOf(Legs) \in SUBSET Trips
      BY <1>4, <2>1, LegsAreTrips DEF WriteLink, ClosedOf
    <3>2. \A u \in Trips : Priceable(u)' => Reckoned(p, ClosedOf(Legs), u)
      <4>1. grouped' = Legs
        BY <1>4, <2>1 DEF WriteLink
      <4>2. Regroups(ClosedOf(Legs))
        BY <2>1, <4>1, LinkRegroups
      <4> QED BY <1>1, <4>2, GroupReckoned
    <3> QED BY <1>2, <3>1, <3>2, WroteKeepsSane
  <2>2. CASE grouped # {}
    <3>1. /\ grouped' = grouped /\ request'[p] = Idle
          /\ \A q \in Requests : q # p => request'[q] = request[q]
      BY <1>4, <2>2 DEF WriteLink, IInv, TypeOK
    <3>2. DOMAIN <<>> = {} /\ request'[p].results = <<>>
      BY <3>1 DEF Idle
    <3>3. Orderly(p)'
      BY <1>1, <3>1, <3>2 DEF Orderly, Working, Idle
    <3>4. \A u, c : ~Obliged(p, u, c)
      BY <1>1 DEF Orderly, Obliged, Promised, UnderWay, Working
    <3>5. \A u \in Trips : \A c \in Nat : KeepsTrack(p, u, c)
      BY <1>1, <3>1, <3>2, <3>4, UnstoredKeepsTrack
    <3>6. SnapshotsStand'
      BY SameSnapshotsStand DEF Sane
    <3> QED BY <1>1, <3>1, <3>3, <3>5, <3>6, StepKeepsSane
  <2> QED BY <2>1, <2>2
<1>5. CASE WriteUnlink(p)
  <2> DEFINE todo == ClosedOf(IF grouped \cup {t} = Legs THEN Legs ELSE {t})
  <2>1. /\ Wrote(p, todo, NoClaim) /\ grouped' = grouped \ {t}
        /\ request[p].op = "UNLINK" /\ todo \in SUBSET Trips
    BY <1>1, <1>5, LegsAreTrips DEF WriteUnlink, ClosedOf
  <2>2. Regroups(todo)
    BY <1>1, <2>1, UnlinkRegroups
  <2> HIDE DEF todo
  <2>3. \A u \in Trips : Priceable(u)' => Reckoned(p, todo, u)
    BY <1>1, <2>2, GroupReckoned
  <2> QED BY <1>2, <2>1, <2>3, WroteKeepsSane
<1> QED BY <1>3, <1>4, <1>5

LEMMA WriteKeepsSane ==
  ASSUME IInv, Sane, NEW p \in Requests, Write(p)
  PROVE  Sane'
<1>1. request[p].op \in QuietOperations \cup {"NONE"} /\ request[p].phase = "write"
      /\ UNCHANGED <<snapshot, clock>>
  BY DEF Write, Sane, Orderly
<1>2. ~(WriteReopen(p) \/ WriteCancel(p) \/ WriteNumber(p))
  BY <1>1 DEF WriteReopen, WriteCancel, WriteNumber, QuietOperations
<1> QED BY <1>1, <1>2, WriteCloseKeepsSane, WriteColumnKeepsSane, WriteGroupKeepsSane
        DEF Write

---------------------------------------------------------------------------
(* Every step keeps every trip covered.                                    *)

LEMMA AdvancesKeepsSane ==
  ASSUME OnlyQuiet, IInv, Sane, NEW p \in Requests, Advances(p)
  PROVE  Sane'
<1>1. Orderly(p) /\ NumbersApart
  BY DEF Sane
<1>2. ~CalculationFails(p) /\ ~StoreFails(p)
  BY DEF CalculationFails, StoreFails, OnlyQuiet
<1>3. /\ ~CalculateAgain(p) /\ ~CalculateAgainRefused(p)
      /\ ~StartSettling(p) /\ ~SettlementDone(p)
  BY <1>1 DEF CalculateAgain, CalculateAgainRefused, StartSettling, SettlementDone, Orderly
<1>4. ~StoreRefused(p)
  BY <1>1, NoClaimIsLost DEF StoreRefused
<1> QED BY <1>2, <1>3, <1>4, WriteKeepsSane, StartPricingKeepsSane, CalculateKeepsSane,
           RefusedKeepsSane, StoreKeepsSane, SettleKeepsSane, EndKeepsSane DEF Advances

LEMMA RaceStep ==
  ASSUME OnlyQuiet, RInv, [Next]_vars
  PROVE  RInv'
<1>1. IInv'
  BY NextKeepsIInv DEF RInv
<1>2. CASE crashed'
  BY <1>1, <1>2 DEF RInv
<1>3. CASE ~crashed' /\ crashed
  <2>1. ~UNCHANGED crashed
    BY <1>3
  <2>2. ASSUME NEW p \in Requests, Advances(p) \/ \E t \in Trips : Arrives(p, t)
        PROVE  crashed' = crashed
    BY <2>2 DEF Advances, Write, StartPricing, Calculate, CalculationFails,
      CalculationRefused, Store, StoreRefused, StoreFails, CalculateAgain,
      CalculateAgainRefused, Settle, StartSettling, SettlementDone, Release, Answer,
      Arrives, Close, Reopen, Cancel, SetNumber, MoveDay, EditInputs,
      Reprocess, Link, Unlink, Receives
  <2> QED BY <1>3, <2>1, <2>2 DEF Next, Served, Crash, vars
<1>4. CASE ~crashed' /\ ~crashed
  <2>1. IInv /\ Sane /\ ~Crash
    BY <1>4 DEF RInv, Crash
  <2>2. CASE UNCHANGED vars
    <3>1. UNCHANGED <<trip, grouped, snapshot, clock, request, crashed>>
      BY <2>2 DEF vars
    <3>2. CASE Requests = {}
      <4>1. \A u : Priceable(u)' = Priceable(u)
        BY <3>1, SamePrices
      <4>2. ASSUME NEW t \in Trips, Covered(t) PROVE Covered(t)'
        <5>1. PICK c \in Nat : c <= clock /\ Held(t, c)
          BY <4>2 DEF Covered
        <5>2. Held(t, c)'
          BY <3>1, <3>2, <5>1, SamePrices DEF Held, StoredFresh, Answered
        <5> QED BY <3>1, <5>1, <5>2 DEF Covered
      <4>3. Sane'
        BY <2>1, <3>1, <3>2, <4>1, <4>2 DEF Sane, NumbersApart, NoneCancelled, SnapshotsStand
      <4> QED BY <1>1, <4>3 DEF RInv
    <3>3. ASSUME NEW p \in Requests PROVE Sane'
      <4>1. \A t \in Trips : \A c \in Nat : KeepsTrack(p, t, c)
        BY <3>1, SameObligation, UnstoredKeepsTrack
      <4>2. Orderly(p)'
        BY <2>1, <3>1, SamePrices, OthersStayOrderly DEF Sane
      <4>3. SnapshotsStand'
        BY <2>1, <3>1, SameSnapshotsStand DEF Sane
      <4> QED BY <2>1, <3>1, <4>1, <4>2, <4>3, StepKeepsSane
    <3> QED BY <1>1, <3>2, <3>3 DEF RInv
  <2>3. ASSUME NEW p \in Requests, Advances(p) \/ \E t \in Trips : Arrives(p, t)
        PROVE  Sane'
    BY <2>1, <2>3, AdvancesKeepsSane, ArrivesKeepsSane
  <2> QED BY <1>1, <2>1, <2>2, <2>3 DEF Next, Served, RInv
<1> QED BY <1>2, <1>3, <1>4

LEMMA RaceInit == Init /\ NumbersApart => RInv
<1> SUFFICES ASSUME Init, NumbersApart PROVE RInv
  OBVIOUS
<1>1. IInv
  BY InitIsConsistent
<1>2. /\ \A t \in Trips : snapshot[t] = NoSnapshot /\ trip[t].status = "OPEN"
      /\ \A p \in Requests : request[p] = Idle
      /\ clock = 0
  BY DEF Init
<1>3. ASSUME NEW p \in Requests PROVE Orderly(p)
  <2>1. DOMAIN <<>> = {}
    OBVIOUS
  <2> QED BY <1>2, <2>1 DEF Orderly, Working, Idle
<1>4. NoneCancelled /\ SnapshotsStand /\ \A t \in Trips : ~Priceable(t)
  BY <1>2 DEF NoneCancelled, SnapshotsStand, Priceable
<1> QED BY <1>1, <1>3, <1>4 DEF RInv, Sane

(* Once every request has answered nobody is obliged any more: what is     *)
(* stored answers for every CLOSED trip.                                   *)
LEMMA AnsweredAtRest ==
  ASSUME RInv, ~crashed, AtRest, NEW t \in Trips, Priceable(t)
  PROVE  Shown(t) /\ snapshot[t].read = PriceDataOf(t)
<1>1. PICK c \in Nat : Held(t, c)
  BY DEF RInv, Sane, Covered
<1>2. ASSUME NEW q \in Requests PROVE ~Obliged(q, t, c)
  BY DEF AtRest, Idle, Obliged, Promised, UnderWay, Working
<1>3. Answered(t, c)
  BY <1>1, <1>2 DEF Held
<1> QED BY <1>1, <1>3 DEF Held, StoredFresh, Answered, Shown, RInv, Sane, SnapshotsStand

(* Any number of requests that close, edit, move, reprocess, link and      *)
(* unlink any number of trips, in any interleaving: until the process      *)
(* stops, every CLOSED trip has a price once all have answered, from the   *)
(* data as it is and not from an older reading stored after a newer one.   *)
THEOREM ConcurrentPricesAreCurrent ==
  ASSUME OnlyQuiet
  PROVE  RaceSpec => [](CurrentUnlessCrashed /\ PricedUnlessCrashed)
<1>1. Init /\ NumbersApart => RInv
  BY RaceInit
<1>2. RInv /\ [Next]_vars => RInv'
  BY RaceStep
<1>3. RInv => CurrentUnlessCrashed /\ PricedUnlessCrashed
  <2> SUFFICES ASSUME RInv, ~crashed PROVE PriceIsCurrent /\ ClosedIsPriced
    BY DEF CurrentUnlessCrashed, PricedUnlessCrashed
  <2>1. PriceIsCurrent
    BY AnsweredAtRest DEF PriceIsCurrent, Shown
  <2>2. ClosedIsPriced
    BY AnsweredAtRest DEF ClosedIsPriced
  <2> QED BY <2>1, <2>2
<1> QED BY <1>1, <1>2, <1>3, PTL DEF RaceSpec
=============================================================================
