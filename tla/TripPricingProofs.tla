------------------------- MODULE TripPricingProofs -------------------------
(***************************************************************************)
(* What TripPricing guarantees for every number of trips and requests.     *)
(* Types alone are not inductive: a store reads the result it is at, so    *)
(* the chain a request is in must be consistent with its phase.            *)
(***************************************************************************)
EXTENDS TripPricing, FiniteSetTheorems, SequenceTheorems, TLAPS

(* A request's record agrees with the phase it is in: its new value is of  *)
(* the column it sets, it has results for no more trips than its scope,    *)
(* and while it stores, one that is not stored yet.                        *)
Consistent(req) ==
  /\ req.phase = "write" =>
       /\ req.trip \in Trips
       /\ req.before \in Row
       /\ req.op = "NUMBER" => req.value \in Numbers \cup {NoNumber}
       /\ req.op = "MOVE" => req.value \in Days
       /\ req.op = "EDIT" => req.value \in Inputs
  /\ req.phase \in {"price", "resettle"} => req.results = <<>> /\ req.stored = 0
  /\ req.phase = "calculate" =>
       /\ Len(req.results) < Len(req.scope)
       /\ req.stored = 0
  /\ req.phase \in {"store", "again"} =>
       /\ req.stored < Len(req.results)
       /\ Len(req.results) <= Len(req.scope)
  /\ req.phase = "resettle" => ~req.settles

ChainsAreConsistent == \A p \in Requests : Consistent(request[p])

IInv == TypeOK /\ ChainsAreConsistent

---------------------------------------------------------------------------
(* The operators return what their types say.                              *)

LEMMA IdleIsConsistent == Idle \in Request /\ Consistent(Idle)
BY DEF Idle, Consistent, Request, OperationNames, Phases, TarClaimAttempts

(* A step of one request keeps the invariant when the record it leaves is  *)
(* typed and consistent.                                                   *)
LEMMA StepOfOne ==
  ASSUME IInv, NEW p \in Requests, NEW next \in Request, Consistent(next),
         request' = [request EXCEPT ![p] = next],
         trip' \in [Trips -> Row], grouped' \subseteq Legs,
         snapshot' \in [Trips -> Snapshot \cup {NoSnapshot}], clock' \in Nat,
         crashed' \in BOOLEAN
  PROVE  IInv'
<1>1. request' \in [Requests -> Request]
  BY DEF IInv, TypeOK
<1>2. ASSUME NEW q \in Requests PROVE Consistent(request'[q])
  <2>1. CASE q = p
    BY <2>1 DEF IInv, TypeOK
  <2>2. CASE q # p
    BY <2>2 DEF IInv, TypeOK, ChainsAreConsistent
  <2> QED BY <2>1, <2>2
<1> QED BY <1>1, <1>2 DEF IInv, TypeOK, ChainsAreConsistent, Consistent

LEMMA OtherLeg ==
  ASSUME NEW t \in Legs PROVE Other(t) \in Legs
<1>1. \E leg \in Legs : leg # t
  BY LegsAreAPair
<1> QED BY <1>1 DEF Other

LEMMA LegsAreTrips == Legs \subseteq Trips
BY LegsAreAPair

LEMMA PriceDataType ==
  ASSUME TypeOK, NEW t \in Trips PROVE PriceDataOf(t) \in PriceData
<1>1. trip[t] \in Row
  BY DEF TypeOK
<1>2. CASE Partner(t) = {}
  BY <1>1, <1>2 DEF PriceDataOf, PriceData, Row
<1>3. CASE Partner(t) # {}
  <2>1. trip[Other(t)] \in Row
    BY <1>3, OtherLeg, LegsAreTrips DEF Partner, TypeOK
  <2> QED BY <1>1, <2>1, <1>3 DEF PriceDataOf, PriceData, PairData, Row
<1> QED BY <1>2, <1>3

LEMMA CalculationType ==
  ASSUME TypeOK, NEW t \in Trips PROVE Calculation(t) \in Result
<1>1. trip[t] \in Row
  BY DEF TypeOK
<1>2. ASSUME Owes(t) PROVE TarDayOf(t) \in TarDay
  BY <1>1, <1>2 DEF Owes, TarDayOf, TarDay, Row
<1> QED BY <1>2, PriceDataType DEF Calculation, Result, TypeOK

LEMMA ReleasedType ==
  ASSUME NEW before \in Row, NEW after \in Row
  PROVE  Released(before, after) \in TarDay \cup {NoClaim}
BY DEF Released, TarDay, Row

LEMMA ScopeType ==
  ASSUME NEW p \in Requests, NEW t \in Trips PROVE Scope(p, t) \in Seq(Trips)
<1>1. CASE ClosedPartner(t) = {}
  BY <1>1 DEF Scope
<1>2. CASE ClosedPartner(t) # {}
  <2>1. Other(t) \in Trips
    BY <1>2, OtherLeg, LegsAreTrips DEF ClosedPartner, Partner
  <2> QED BY <1>2, <2>1 DEF Scope
<1> QED BY <1>1, <1>2

(* The record a request keeps when its pricing is over.                    *)
LEMMA LeaveIsConsistent ==
  ASSUME NEW req \in Request
  PROVE  Leave(req) \in Request /\ Consistent(Leave(req))
<1>0. /\ <<>> \in Seq(Trips) /\ <<>> \in Seq(Result)
      /\ (IF req.settles THEN "price" ELSE "resettle") \in Phases
      /\ 1 \in 1..TarClaimAttempts
  BY DEF Phases, TarClaimAttempts
<1>1. Leave(req) \in Request
  BY <1>0 DEF Leave, Request
<1>2. /\ Leave(req).phase = (IF req.settles THEN "price" ELSE "resettle")
      /\ Leave(req).settles = req.settles
      /\ Leave(req).results = <<>> /\ Leave(req).stored = 0
  BY DEF Leave, Request
<1>3. Consistent(Leave(req))
  BY <1>2 DEF Consistent
<1> QED BY <1>1, <1>3

---------------------------------------------------------------------------
(* A request arrives.                                                      *)

LEMMA ReceivesKeepsIInv ==
  ASSUME IInv, NEW p \in Requests, NEW t \in Trips, NEW op \in OperationNames,
         NEW value \in Numbers \cup {NoNumber} \cup Days \cup Inputs,
         op = "NUMBER" => value \in Numbers \cup {NoNumber},
         op = "MOVE" => value \in Days,
         op = "EDIT" => value \in Inputs,
         Receives(p, op, t, value)
  PROVE  IInv'
<1> DEFINE next == [Idle EXCEPT !.op = op, !.phase = "write", !.trip = t,
                                !.before = trip[t], !.value = value]
<1>1. trip[t] \in Row /\ "write" \in Phases
  BY DEF IInv, TypeOK, Phases
<1>2. next \in Request
  BY <1>1, IdleIsConsistent DEF Request
<1>3. /\ next.phase = "write" /\ next.trip = t /\ next.before = trip[t]
      /\ next.op = op /\ next.value = value
  BY DEF Idle
<1>4. Consistent(next)
  BY <1>1, <1>3 DEF Consistent
<1>5. request' = [request EXCEPT ![p] = next]
  BY DEF Receives
<1> HIDE DEF next
<1> QED BY <1>2, <1>4, <1>5, StepOfOne DEF Receives, IInv, TypeOK

LEMMA ArrivesKeepsIInv ==
  ASSUME IInv, NEW p \in Requests, NEW t \in Trips, Arrives(p, t)
  PROVE  IInv'
<1>1. {"CLOSE", "OPEN", "CANCEL", "NUMBER", "MOVE", "EDIT", "REPRICE", "LINK",
       "UNLINK"} \subseteq OperationNames
  BY DEF OperationNames
<1>2. CASE SetNumber(p, t)
  BY <1>1, <1>2, ReceivesKeepsIInv DEF SetNumber
<1>3. CASE MoveDay(p, t)
  BY <1>1, <1>3, ReceivesKeepsIInv DEF MoveDay
<1>4. CASE EditInputs(p, t)
  BY <1>1, <1>4, ReceivesKeepsIInv DEF EditInputs
<1>5. CASE \/ Close(p, t) \/ Reopen(p, t) \/ Cancel(p, t) \/ Reprocess(p, t)
           \/ Link(p, t) \/ Unlink(p, t)
  BY <1>1, <1>5, ReceivesKeepsIInv
  DEF Close, Reopen, Cancel, Reprocess, Link, Unlink
<1> QED BY <1>2, <1>3, <1>4, <1>5 DEF Arrives

---------------------------------------------------------------------------
(* It writes, and starts to price.                                         *)

LEMMA WroteType ==
  ASSUME TypeOK, NEW p \in Requests, NEW todo \in SUBSET Trips,
         NEW release \in TarDay \cup {NoClaim}, Wrote(p, todo, release)
  PROVE  \E next \in Request : /\ Consistent(next)
                               /\ request' = [request EXCEPT ![p] = next]
<1> DEFINE next == [Idle EXCEPT !.op = request[p].op, !.phase = "price",
                                !.trip = request[p].trip,
                                !.todo = todo, !.release = release]
<1>1. request[p] \in Request /\ "price" \in Phases
  BY DEF TypeOK, Phases
<1>2. next \in Request
  BY <1>1, IdleIsConsistent DEF Request
<1>3. next.phase = "price" /\ next.results = <<>> /\ next.stored = 0
  BY DEF Idle
<1>4. Consistent(next)
  BY <1>3 DEF Consistent
<1> QED BY <1>2, <1>4 DEF Wrote

(* Every write of a row changes the row of one trip into a row, and then   *)
(* prices.                                                                 *)
LEMMA WriteRow ==
  ASSUME IInv, NEW p \in Requests, NEW t \in Trips, NEW after \in Row,
         trip' = [trip EXCEPT ![t] = after],
         NEW todo \in SUBSET Trips, NEW release \in TarDay \cup {NoClaim},
         Wrote(p, todo, release), UNCHANGED <<grouped, snapshot, clock, crashed>>
  PROVE  IInv'
<1>1. PICK next \in Request : /\ Consistent(next)
                              /\ request' = [request EXCEPT ![p] = next]
  BY WroteType DEF IInv
<1> QED BY <1>1, StepOfOne DEF IInv, TypeOK

(* And every write of a group leaves the legs' rows alone.                 *)
LEMMA WriteGroup ==
  ASSUME IInv, NEW p \in Requests, NEW todo \in SUBSET Trips,
         Wrote(p, todo, NoClaim), grouped' \subseteq Legs,
         UNCHANGED <<trip, snapshot, clock, crashed>>
  PROVE  IInv'
<1>1. PICK next \in Request : /\ Consistent(next)
                              /\ request' = [request EXCEPT ![p] = next]
  BY WroteType DEF IInv
<1> QED BY <1>1, StepOfOne DEF IInv, TypeOK

LEMMA WriteStatusKeepsIInv ==
  ASSUME IInv, NEW p \in Requests, NEW t \in Trips, NEW to \in Statuses,
         request[p].before \in Row, WriteStatus(p, t, to),
         UNCHANGED <<snapshot, clock, crashed>>
  PROVE  IInv'
<1> DEFINE before == request[p].before
           moved  == (before.status = "CANCELLED") # (to = "CANCELLED")
           todo   == IF to = "CLOSED" THEN {t}
                     ELSE IF moved /\ Together /\ t \in Legs
                          THEN ClosedOf({Other(t)}) ELSE {}
           after  == [trip[t] EXCEPT !.status = to]
           old    == [after EXCEPT !.status = before.status]
<1>1. trip[t] \in Row
  BY DEF IInv, TypeOK
<1>2. after \in Row
  BY <1>1 DEF Row
<1>3. old \in Row
  BY <1>1, <1>2 DEF Row
<1>4. Released(old, after) \in TarDay \cup {NoClaim}
  BY <1>2, <1>3, ReleasedType
<1>5. todo \in SUBSET Trips
  BY OtherLeg, LegsAreTrips DEF ClosedOf
<1>6. /\ trip' = [trip EXCEPT ![t] = after]
      /\ Wrote(p, todo, Released(old, after))
      /\ UNCHANGED grouped
  BY DEF WriteStatus
<1> HIDE DEF after, old, todo
<1> QED BY <1>2, <1>4, <1>5, <1>6, WriteRow

LEMMA WriteColumnsKeepsIInv ==
  ASSUME IInv, NEW p \in Requests, NEW after \in Row, NEW todo \in SUBSET Trips,
         request[p].trip \in Trips, request[p].before \in Row,
         WriteColumns(p, after, todo), UNCHANGED <<snapshot, clock, crashed>>
  PROVE  IInv'
<1>1. Released(request[p].before, after) \in TarDay \cup {NoClaim}
  BY ReleasedType
<1> QED BY <1>1, WriteRow DEF WriteColumns

LEMMA WriteKeepsIInv ==
  ASSUME IInv, NEW p \in Requests, Write(p)
  PROVE  IInv'
<1> DEFINE t == request[p].trip
<1>1. /\ t \in Trips /\ request[p].before \in Row
      /\ request[p].op = "NUMBER" => request[p].value \in Numbers \cup {NoNumber}
      /\ request[p].op = "MOVE" => request[p].value \in Days
      /\ request[p].op = "EDIT" => request[p].value \in Inputs
  BY DEF Write, IInv, ChainsAreConsistent, Consistent
<1>2. trip[t] \in Row
  BY <1>1 DEF IInv, TypeOK
<1>3. UNCHANGED <<snapshot, clock, crashed>>
  BY DEF Write
<1>4. CASE WriteClose(p) \/ WriteReopen(p) \/ WriteCancel(p)
  BY <1>1, <1>3, <1>4, WriteStatusKeepsIInv
  DEF WriteClose, WriteReopen, WriteCancel, Statuses
<1>5. CASE WriteNumber(p)
  <2>1. [trip[t] EXCEPT !.number = request[p].value] \in Row
    BY <1>1, <1>2, <1>5 DEF WriteNumber, Row
  <2> QED BY <1>1, <1>3, <1>5, <2>1, WriteColumnsKeepsIInv DEF WriteNumber
<1>6. CASE WriteMove(p)
  <2>1. [trip[t] EXCEPT !.day = request[p].value] \in Row
    BY <1>1, <1>2, <1>6 DEF WriteMove, Row
  <2>2. (IF Partner(t) = {} THEN {} ELSE ClosedOf(Legs)) \in SUBSET Trips
    BY LegsAreTrips DEF ClosedOf
  <2> QED BY <1>1, <1>3, <1>6, <2>1, <2>2, WriteColumnsKeepsIInv DEF WriteMove
<1>7. CASE WriteEdit(p)
  <2>1. [trip[t] EXCEPT !.inputs = request[p].value] \in Row
    BY <1>1, <1>2, <1>7 DEF WriteEdit, Row
  <2> QED BY <1>1, <1>3, <1>7, <2>1, WriteColumnsKeepsIInv DEF WriteEdit
<1>8. CASE WriteNothing(p)
  BY <1>1, <1>3, <1>8, WriteGroup DEF WriteNothing, IInv, TypeOK
<1>9. CASE WriteLink(p)
  <2>1. CASE grouped = {}
    BY <1>3, <1>9, <2>1, WriteGroup, LegsAreTrips DEF WriteLink, ClosedOf
  <2>2. CASE grouped # {}
    BY <1>3, <1>9, <2>2, IdleIsConsistent, StepOfOne DEF WriteLink, IInv, TypeOK
  <2> QED BY <2>1, <2>2
<1>10. CASE WriteUnlink(p)
  <2>1. ClosedOf(IF grouped \cup {t} = Legs THEN Legs ELSE {t}) \in SUBSET Trips
    BY <1>1, LegsAreTrips DEF ClosedOf
  <2> QED BY <1>3, <1>10, <2>1, WriteGroup DEF WriteUnlink, IInv, TypeOK
<1> QED BY <1>4, <1>5, <1>6, <1>7, <1>8, <1>9, <1>10 DEF Write

---------------------------------------------------------------------------
(* It chooses what to price.                                               *)

LEMMA StartPricingKeepsIInv ==
  ASSUME IInv, NEW p \in Requests, StartPricing(p)
  PROVE  IInv'
<1> DEFINE req == request[p]
<1>1. req \in Request /\ req.results = <<>> /\ req.stored = 0
  BY DEF StartPricing, IInv, TypeOK, ChainsAreConsistent, Consistent
<1>2. PICK t \in req.todo :
        request' = [request EXCEPT
            ![p].todo  = @ \ ({t} \cup ClosedPartner(t)),
            ![p].phase = IF Scope(p, t) = <<>> THEN "price" ELSE "calculate",
            ![p].scope = Scope(p, t),
            ![p].since = clock]
  BY DEF StartPricing
<1> DEFINE phase == IF Scope(p, t) = <<>> THEN "price" ELSE "calculate"
           next  == [req EXCEPT !.todo = @ \ ({t} \cup ClosedPartner(t)),
                                !.phase = phase, !.scope = Scope(p, t),
                                !.since = clock]
<1>3. Scope(p, t) \in Seq(Trips) /\ clock \in Nat /\ phase \in Phases
  BY <1>1, ScopeType DEF Request, IInv, TypeOK, Phases
<1>4. next \in Request
  BY ZenonT(40), <1>1, <1>3 DEF Request
<1>5. next.phase = phase /\ next.scope = Scope(p, t) /\ next.results = <<>> /\ next.stored = 0
  BY <1>1 DEF Request
<1>6. Scope(p, t) # <<>> => Len(Scope(p, t)) > 0
  BY <1>3
<1>7. Consistent(next)
  <2>1. CASE Scope(p, t) = <<>>
    BY <1>5, <2>1 DEF Consistent
  <2>2. CASE Scope(p, t) # <<>>
    <3>1. Len(<<>>) = 0
      OBVIOUS
    <3> QED BY <1>5, <1>6, <2>2, <3>1 DEF Consistent
  <2> QED BY <2>1, <2>2
<1>8. request' = [request EXCEPT ![p] = next]
  BY <1>2
<1> HIDE DEF next
<1> QED BY <1>4, <1>7, <1>8, StepOfOne DEF StartPricing, IInv, TypeOK

LEMMA StartSettlingKeepsIInv ==
  ASSUME IInv, NEW p \in Requests, StartSettling(p)
  PROVE  IInv'
<1> DEFINE req == request[p]
<1>1. req \in Request /\ req.results = <<>> /\ req.stored = 0 /\ ~req.settles
  BY DEF StartSettling, IInv, TypeOK, ChainsAreConsistent, Consistent
<1>2. PICK t \in req.moved :
        request' = [request EXCEPT ![p].moved = @ \ {t},
                                   ![p].phase = "calculate",
                                   ![p].scope = Scope(p, t),
                                   ![p].since = clock]
  BY DEF StartSettling
<1> DEFINE next == [req EXCEPT !.moved = @ \ {t}, !.phase = "calculate",
                               !.scope = Scope(p, t), !.since = clock]
<1>3. Scope(p, t) \in Seq(Trips) /\ clock \in Nat /\ "calculate" \in Phases
  BY <1>1, ScopeType DEF Request, IInv, TypeOK, Phases
<1>4. next \in Request
  BY <1>1, <1>3 DEF Request
<1>5. /\ next.phase = "calculate" /\ next.scope = Scope(p, t)
      /\ next.results = <<>> /\ next.stored = 0
  BY <1>1 DEF Request
<1>6. Len(Scope(p, t)) > 0
  <2>1. t \in Trips
    BY <1>1 DEF Request
  <2>2. CASE ClosedPartner(t) = {}
    BY <1>1, <2>1, <2>2 DEF Scope
  <2>3. CASE ClosedPartner(t) # {}
    BY <1>1, <2>1, <2>3, <1>3 DEF Scope
  <2> QED BY <2>2, <2>3
<1>7. Len(<<>>) = 0
  OBVIOUS
<1>8. Consistent(next)
  BY <1>5, <1>6, <1>7 DEF Consistent
<1>9. request' = [request EXCEPT ![p] = next]
  BY <1>2
<1> HIDE DEF next
<1> QED BY <1>4, <1>8, <1>9, StepOfOne DEF StartSettling, IInv, TypeOK

LEMMA SettlementDoneKeepsIInv ==
  ASSUME IInv, NEW p \in Requests, SettlementDone(p)
  PROVE  IInv'
<1> DEFINE req  == request[p]
           next == [req EXCEPT !.settles = TRUE, !.phase = "price"]
<1>1. req \in Request /\ req.results = <<>> /\ req.stored = 0 /\ "price" \in Phases
  BY DEF SettlementDone, IInv, TypeOK, ChainsAreConsistent, Consistent, Phases
<1>2. next \in Request
  BY <1>1 DEF Request
<1>3. next.phase = "price" /\ next.results = <<>> /\ next.stored = 0
  BY <1>1 DEF Request
<1>4. Consistent(next)
  BY <1>3 DEF Consistent
<1>5. request' = [request EXCEPT ![p] = next]
  BY DEF SettlementDone
<1> HIDE DEF next
<1> QED BY <1>2, <1>4, <1>5, StepOfOne DEF SettlementDone, IInv, TypeOK

LEMMA ReleaseKeepsIInv ==
  ASSUME IInv, NEW p \in Requests, Release(p)
  PROVE  IInv'
<1> DEFINE req  == request[p]
           todo == ClosedStating(req.release, req.trip)
           next == [req EXCEPT !.todo = todo, !.release = NoClaim]
<1>1. /\ req \in Request /\ req.phase = "price"
      /\ req.results = <<>> /\ req.stored = 0
  BY DEF Release, IInv, TypeOK, ChainsAreConsistent, Consistent
<1>2. todo \in SUBSET Trips
  BY DEF ClosedStating, Stating
<1>3. next \in Request
  BY <1>1, <1>2 DEF Request
<1>4. next.phase = "price" /\ next.results = <<>> /\ next.stored = 0
  BY <1>1 DEF Request
<1>5. Consistent(next)
  BY <1>4 DEF Consistent
<1>6. request' = [request EXCEPT ![p] = next]
  BY DEF Release
<1> HIDE DEF next
<1> QED BY <1>3, <1>5, <1>6, StepOfOne DEF Release, IInv, TypeOK

LEMMA AnswerKeepsIInv ==
  ASSUME IInv, NEW p \in Requests, Answer(p)
  PROVE  IInv'
BY IdleIsConsistent, StepOfOne DEF Answer, IInv, TypeOK

LEMMA SettleKeepsIInv ==
  ASSUME IInv, NEW p \in Requests, Settle(p)
  PROVE  IInv'
<1> DEFINE left == Leave(request[p])
           next == IF Movers(p) = {} THEN left
                   ELSE [left EXCEPT !.moved = Movers(p), !.settles = FALSE,
                                     !.phase = "resettle"]
<1>1. request[p] \in Request
  BY DEF IInv, TypeOK
<1>2. left \in Request /\ Consistent(left)
  BY <1>1, LeaveIsConsistent
<1>3. left.results = <<>> /\ left.stored = 0
  BY <1>1 DEF Leave, Request
<1>4. Movers(p) \in SUBSET Trips
  <2>1. \A tar : Surplus(tar) \subseteq Trips
    BY DEF Surplus, ValidHolders, Holders, Stating
  <2>2. \A tar, t : ClosedStating(tar, t) \subseteq Trips
    BY DEF ClosedStating, Stating
  <2> QED BY <2>1, <2>2 DEF Movers
<1>5. request' = [request EXCEPT ![p] = next]
  BY DEF Settle
<1> HIDE DEF left
<1>6. next \in Request
  BY <1>2, <1>4 DEF Request, Phases
<1>7. Consistent(next)
  <2>1. CASE Movers(p) = {}
    BY <1>2, <2>1
  <2>2. CASE Movers(p) # {}
    <3>1. /\ next.phase = "resettle" /\ next.settles = FALSE
          /\ next.results = <<>> /\ next.stored = 0
      BY <1>2, <1>3, <2>2 DEF Request
    <3> QED BY <3>1 DEF Consistent
  <2> QED BY <2>1, <2>2
<1> HIDE DEF next
<1> QED BY <1>5, <1>6, <1>7, StepOfOne DEF Settle, IInv, TypeOK

---------------------------------------------------------------------------
(* It fails, calculates and stores.  These steps are the ones that write   *)
(* snapshots, so they are shown to move them forward too.                  *)

LEMMA MarkedMovesForward ==
  ASSUME TypeOK, NEW p \in Requests, snapshot' = Marked(p)
  PROVE  /\ snapshot' \in [Trips -> Snapshot \cup {NoSnapshot}]
         /\ SnapshotStep
<1>1. ASSUME NEW t \in Trips
      PROVE  \/ snapshot'[t] = snapshot[t]
             \/ /\ snapshot[t] # NoSnapshot
                /\ snapshot'[t] = [snapshot[t] EXCEPT !.failed = TRUE]
  BY DEF Marked
<1>2. ASSUME NEW t \in Trips PROVE snapshot'[t] \in Snapshot \cup {NoSnapshot}
  <2>1. snapshot[t] \in Snapshot \cup {NoSnapshot}
    BY DEF TypeOK
  <2>2. CASE snapshot'[t] = snapshot[t]
    BY <2>1, <2>2
  <2>3. CASE /\ snapshot[t] # NoSnapshot
             /\ snapshot'[t] = [snapshot[t] EXCEPT !.failed = TRUE]
    BY <2>1, <2>3 DEF Snapshot
  <2> QED BY <1>1, <2>2, <2>3
<1>3. snapshot' \in [Trips -> Snapshot \cup {NoSnapshot}]
  BY <1>2 DEF Marked
<1> QED BY <1>1, <1>3 DEF SnapshotStep

LEMMA FailKeepsIInv ==
  ASSUME IInv, NEW p \in Requests, Fail(p), UNCHANGED <<trip, grouped, clock, crashed>>
  PROVE  IInv' /\ SnapshotStep
<1>1. Leave(request[p]) \in Request /\ Consistent(Leave(request[p]))
  BY LeaveIsConsistent DEF IInv, TypeOK
<1>2. /\ snapshot' \in [Trips -> Snapshot \cup {NoSnapshot}]
      /\ SnapshotStep
  BY MarkedMovesForward DEF Fail, IInv
<1> QED BY <1>1, <1>2, StepOfOne DEF Fail, IInv, TypeOK

LEMMA LeavingKeepsIInv ==
  ASSUME IInv, NEW p \in Requests, request' = [request EXCEPT ![p] = Leave(@)],
         UNCHANGED <<trip, grouped, snapshot, clock, crashed>>
  PROVE  IInv'
<1>1. Leave(request[p]) \in Request /\ Consistent(Leave(request[p]))
  BY LeaveIsConsistent DEF IInv, TypeOK
<1> QED BY <1>1, StepOfOne DEF IInv, TypeOK

LEMMA CalculateKeepsIInv ==
  ASSUME IInv, NEW p \in Requests, Calculate(p)
  PROVE  IInv'
<1> DEFINE req == request[p]
           i   == Len(req.results) + 1
           t   == InScope(p, i)
           results == Append(req.results, Calculation(t))
           last == i = Len(req.scope)
           held == IF req.settles THEN HoldingBefore(p) ELSE {}
           next == IF last
                   THEN [req EXCEPT !.results = results, !.phase = "store",
                                    !.held = held]
                   ELSE [req EXCEPT !.results = results]
<1>1. /\ req \in Request /\ req.phase = "calculate" /\ req.stored = 0
      /\ Len(req.results) < Len(req.scope)
  BY DEF Calculate, IInv, TypeOK, ChainsAreConsistent, Consistent
<1>2. /\ req.results \in Seq(Result) /\ req.scope \in Seq(Trips)
      /\ Len(req.results) \in Nat /\ Len(req.scope) \in Nat
  BY <1>1 DEF Request
<1>3. i \in 1..Len(req.scope) /\ (last <=> ~(i < Len(req.scope)))
  BY <1>1, <1>2
<1>4. t \in Trips
  BY <1>2, <1>3 DEF InScope
<1>5. Calculation(t) \in Result
  BY <1>4, CalculationType DEF IInv
<1>6. results \in Seq(Result) /\ Len(results) = i
  BY <1>2, <1>5
<1>7. held \in SUBSET Trips
  BY DEF HoldingBefore
<1>8. request' = [request EXCEPT ![p] = next]
  BY <1>3 DEF Calculate
<1>9. clock' \in Nat /\ crashed' \in BOOLEAN
  BY DEF Calculate, IInv, TypeOK
<1> HIDE DEF held, results, t
<1>10. next \in Request
  <2>1. CASE last
    BY ZenonT(40), <1>1, <1>6, <1>7, <2>1 DEF Request, Phases
  <2>2. CASE ~last
    BY <1>1, <1>6, <2>2 DEF Request
  <2> QED BY <2>1, <2>2
<1>11. Consistent(next)
  <2>1. CASE last
    <3>1. /\ next.phase = "store" /\ next.results = results
          /\ next.stored = 0 /\ next.scope = req.scope
      BY <1>1, <2>1 DEF Request
    <3> QED BY <1>2, <1>3, <1>6, <3>1 DEF Consistent
  <2>2. CASE ~last
    <3>1. /\ next.phase = "calculate" /\ next.results = results
          /\ next.stored = 0 /\ next.scope = req.scope
      BY <1>1, <2>2 DEF Request
    <3> QED BY <1>2, <1>3, <1>6, <2>2, <3>1 DEF Consistent
  <2> QED BY <2>1, <2>2
<1> HIDE DEF next
<1> QED BY <1>8, <1>9, <1>10, <1>11, StepOfOne DEF Calculate, IInv, TypeOK

LEMMA CalculationRefusedKeepsIInv ==
  ASSUME IInv, NEW p \in Requests, CalculationRefused(p)
  PROVE  IInv' /\ SnapshotStep
<1>1. CASE Len(request[p].results) + 1 = 1
  BY <1>1, LeavingKeepsIInv DEF CalculationRefused, SnapshotStep
<1>2. CASE Len(request[p].results) + 1 # 1
  BY <1>2, FailKeepsIInv DEF CalculationRefused
<1> QED BY <1>1, <1>2

(* The result under the store and its trip.                                *)
LEMMA PendingType ==
  ASSUME IInv, NEW p \in Requests, request[p].phase \in {"store", "again"}
  PROVE  /\ StoreIndex(p) \in 1..Len(request[p].results)
         /\ Pending(p) \in Result
         /\ InScope(p, StoreIndex(p)) \in Trips
<1> DEFINE req == request[p]
<1>1. /\ req \in Request /\ req.stored < Len(req.results)
      /\ Len(req.results) <= Len(req.scope)
  BY DEF IInv, TypeOK, ChainsAreConsistent, Consistent
<1>2. /\ req.results \in Seq(Result) /\ req.scope \in Seq(Trips)
      /\ Len(req.results) \in Nat /\ Len(req.scope) \in Nat /\ req.stored \in Nat
  BY <1>1 DEF Request
<1>3. StoreIndex(p) \in 1..Len(req.results) /\ StoreIndex(p) \in 1..Len(req.scope)
  BY <1>1, <1>2 DEF StoreIndex
<1> QED BY <1>2, <1>3 DEF Pending, InScope

(* updateUnlessNewerStored: what is stored is at least as recent.          *)
LEMMA StoreMovesForward ==
  ASSUME IInv, NEW p \in Requests, request[p].phase = "store",
         snapshot' = StoreTarget(p)
  PROVE  /\ snapshot' \in [Trips -> Snapshot \cup {NoSnapshot}]
         /\ SnapshotStep
<1> DEFINE t   == InScope(p, StoreIndex(p))
           new == [at |-> Pending(p).at, read |-> Pending(p).read,
                   tar |-> Pending(p).claim # NoClaim, failed |-> FALSE]
<1>1. t \in Trips /\ Pending(p) \in Result
  BY PendingType
<1>2. /\ snapshot \in [Trips -> Snapshot \cup {NoSnapshot}]
      /\ snapshot[t] \in Snapshot \cup {NoSnapshot}
  BY <1>1 DEF IInv, TypeOK
<1>3. new \in Snapshot /\ new.at = Pending(p).at /\ ~new.failed /\ Pending(p).at \in Nat
  BY <1>1 DEF Snapshot, Result
<1>4. new # NoSnapshot
  BY <1>3 DEF NoSnapshot
<1>5. CASE Superseded(p)
  BY <1>2, <1>5 DEF StoreTarget, SnapshotStep
<1>6. CASE ~Superseded(p)
  <2>1. snapshot' = [snapshot EXCEPT ![t] = new]
    BY <1>6 DEF StoreTarget
  <2>2. snapshot[t] # NoSnapshot => new.at >= snapshot[t].at
    BY <1>2, <1>3, <1>6 DEF Superseded, Snapshot
  <2> HIDE DEF new, t
  <2>3. \A u \in Trips : snapshot'[u] = IF u = t THEN new ELSE snapshot[u]
    BY <1>2, <2>1
  <2>4. SnapshotStep
    BY <1>3, <1>4, <2>2, <2>3 DEF SnapshotStep
  <2> QED BY <1>1, <1>2, <1>3, <2>1, <2>4
<1> QED BY <1>5, <1>6

LEMMA StoreKeepsIInv ==
  ASSUME IInv, NEW p \in Requests, Store(p)
  PROVE  IInv' /\ SnapshotStep
<1> DEFINE req == request[p]
<1>1. /\ req \in Request /\ req.phase = "store"
      /\ req.stored < Len(req.results) /\ Len(req.results) <= Len(req.scope)
  BY DEF Store, IInv, TypeOK, ChainsAreConsistent, Consistent
<1>2. Leave(req) \in Request /\ Consistent(Leave(req))
  BY <1>1, LeaveIsConsistent
<1>3. Stored(req) \in Request
  <2>1. /\ req.stored + 1 \in Nat /\ 1 \in 1..TarClaimAttempts
        /\ "store" \in Phases /\ "settle" \in Phases
    BY <1>1 DEF Request, Phases, TarClaimAttempts
  <2>2. [req EXCEPT !.stored = @ + 1, !.attempt = 1, !.phase = "store"] \in Request
    BY <1>1, <2>1 DEF Request
  <2>3. [req EXCEPT !.phase = "settle"] \in Request
    BY <1>1, <2>1 DEF Request
  <2> QED BY <1>2, <2>2, <2>3 DEF Stored
<1>4. Consistent(Stored(req))
  <2>1. CASE req.stored + 1 < Len(req.results)
    <3>1. /\ Stored(req).phase = "store" /\ Stored(req).results = req.results
          /\ Stored(req).stored = req.stored + 1 /\ Stored(req).scope = req.scope
      BY <1>1, <2>1 DEF Stored, Request
    <3> QED BY <1>1, <2>1, <3>1 DEF Consistent
  <2>2. CASE ~(req.stored + 1 < Len(req.results)) /\ req.settles
    <3>1. Stored(req).phase = "settle"
      BY <1>1, <2>2 DEF Stored, Request
    <3> QED BY <3>1 DEF Consistent
  <2>3. CASE ~(req.stored + 1 < Len(req.results)) /\ ~req.settles
    BY <1>2, <2>3 DEF Stored
  <2> QED BY <2>1, <2>2, <2>3
<1>5. /\ snapshot' \in [Trips -> Snapshot \cup {NoSnapshot}]
      /\ SnapshotStep
  BY <1>1, StoreMovesForward DEF Store
<1> QED BY <1>3, <1>4, <1>5, StepOfOne DEF Store, IInv, TypeOK

LEMMA StoreRefusedKeepsIInv ==
  ASSUME IInv, NEW p \in Requests, StoreRefused(p)
  PROVE  IInv' /\ SnapshotStep
<1> DEFINE req  == request[p]
           next == [req EXCEPT !.phase = "again", !.attempt = @ + 1]
<1>1. /\ req \in Request /\ req.phase = "store"
      /\ req.stored < Len(req.results) /\ Len(req.results) <= Len(req.scope)
  BY DEF StoreRefused, IInv, TypeOK, ChainsAreConsistent, Consistent
<1>2. CASE req.attempt < TarClaimAttempts
  <2>0. req.attempt + 1 \in 1..TarClaimAttempts /\ "again" \in Phases
    BY <1>1, <1>2 DEF Request, Phases, TarClaimAttempts
  <2>1. next \in Request
    BY <1>1, <2>0 DEF Request
  <2>2. /\ next.phase = "again" /\ next.results = req.results
        /\ next.stored = req.stored /\ next.scope = req.scope
    BY <1>1 DEF Request
  <2>3. Consistent(next)
    BY <1>1, <2>2 DEF Consistent
  <2>4. request' = [request EXCEPT ![p] = next] /\ UNCHANGED snapshot
    BY <1>2 DEF StoreRefused
  <2> HIDE DEF next
  <2>5. IInv'
    BY <2>1, <2>3, <2>4, StepOfOne DEF StoreRefused, IInv, TypeOK
  <2> QED BY <2>4, <2>5 DEF SnapshotStep
<1>3. CASE ~(req.attempt < TarClaimAttempts)
  BY <1>3, FailKeepsIInv DEF StoreRefused
<1> QED BY <1>2, <1>3

LEMMA CalculateAgainKeepsIInv ==
  ASSUME IInv, NEW p \in Requests, CalculateAgain(p)
  PROVE  IInv'
<1> DEFINE req == request[p]
           t   == InScope(p, StoreIndex(p))
           results == [req.results EXCEPT ![StoreIndex(p)] = Calculation(t)]
           next == [req EXCEPT !.results = results, !.phase = "store"]
<1>1. /\ req \in Request /\ req.phase = "again"
      /\ req.stored < Len(req.results) /\ Len(req.results) <= Len(req.scope)
  BY DEF CalculateAgain, IInv, TypeOK, ChainsAreConsistent, Consistent
<1>2. /\ t \in Trips /\ req.results \in Seq(Result)
      /\ StoreIndex(p) \in 1..Len(req.results)
  BY <1>1, PendingType DEF Request
<1>3. Calculation(t) \in Result
  BY <1>2, CalculationType DEF IInv
<1>4. results \in Seq(Result) /\ Len(results) = Len(req.results)
  BY <1>2, <1>3, ExceptSeq
<1>5. request' = [request EXCEPT ![p] = next]
  BY DEF CalculateAgain
<1>6. clock' \in Nat
  BY DEF CalculateAgain, IInv, TypeOK
<1> HIDE DEF results
<1>7. next \in Request
  BY <1>1, <1>4 DEF Request, Phases
<1>8. /\ next.phase = "store" /\ next.results = results
      /\ next.stored = req.stored /\ next.scope = req.scope
  BY <1>1 DEF Request
<1>9. Consistent(next)
  BY <1>1, <1>4, <1>8 DEF Consistent
<1> HIDE DEF next
<1> QED BY <1>5, <1>6, <1>7, <1>9, StepOfOne DEF CalculateAgain, IInv, TypeOK

LEMMA CalculateAgainRefusedKeepsIInv ==
  ASSUME IInv, NEW p \in Requests, CalculateAgainRefused(p)
  PROVE  IInv'
BY LeavingKeepsIInv DEF CalculateAgainRefused

LEMMA CrashKeepsIInv == ASSUME IInv, Crash PROVE IInv'
BY IdleIsConsistent DEF Crash, IInv, TypeOK, ChainsAreConsistent, Consistent

---------------------------------------------------------------------------
(* Every step keeps the invariant and moves the snapshots forward.         *)

LEMMA InitIsConsistent == Init => IInv
<1> SUFFICES ASSUME Init PROVE IInv
  OBVIOUS
<1>1. crashed \in BOOLEAN
  BY Zenon DEF Init
<1>2. /\ trip \in [Trips -> Row] /\ grouped \subseteq Legs /\ clock \in Nat
      /\ snapshot \in [Trips -> Snapshot \cup {NoSnapshot}]
  BY DEF Init
<1>3. request \in [Requests -> Request] /\ \A p \in Requests : Consistent(request[p])
  BY IdleIsConsistent DEF Init
<1> QED BY <1>1, <1>2, <1>3 DEF IInv, TypeOK, ChainsAreConsistent

LEMMA AdvancesKeepsIInv ==
  ASSUME IInv, NEW p \in Requests, Advances(p)
  PROVE  IInv' /\ SnapshotStep
<1>1. CASE Write(p)
  BY <1>1, WriteKeepsIInv DEF Write, SnapshotStep
<1>2. CASE StartPricing(p)
  BY <1>2, StartPricingKeepsIInv DEF StartPricing, SnapshotStep
<1>3. CASE Calculate(p)
  BY <1>3, CalculateKeepsIInv DEF Calculate, SnapshotStep
<1>4. CASE CalculationFails(p)
  BY <1>4, FailKeepsIInv DEF CalculationFails
<1>5. CASE CalculationRefused(p)
  BY <1>5, CalculationRefusedKeepsIInv
<1>6. CASE Store(p)
  BY <1>6, StoreKeepsIInv
<1>7. CASE StoreRefused(p)
  BY <1>7, StoreRefusedKeepsIInv
<1>8. CASE StoreFails(p)
  BY <1>8, FailKeepsIInv DEF StoreFails
<1>9. CASE CalculateAgain(p)
  BY <1>9, CalculateAgainKeepsIInv DEF CalculateAgain, SnapshotStep
<1>10. CASE CalculateAgainRefused(p)
  BY <1>10, CalculateAgainRefusedKeepsIInv DEF CalculateAgainRefused, SnapshotStep
<1>11. CASE Settle(p)
  BY <1>11, SettleKeepsIInv DEF Settle, SnapshotStep
<1>12. CASE StartSettling(p)
  BY <1>12, StartSettlingKeepsIInv DEF StartSettling, SnapshotStep
<1>13. CASE SettlementDone(p)
  BY <1>13, SettlementDoneKeepsIInv DEF SettlementDone, SnapshotStep
<1>14. CASE Release(p)
  BY <1>14, ReleaseKeepsIInv DEF Release, SnapshotStep
<1>15. CASE Answer(p)
  BY <1>15, AnswerKeepsIInv DEF Answer, SnapshotStep
<1> QED BY <1>1, <1>2, <1>3, <1>4, <1>5, <1>6, <1>7, <1>8, <1>9, <1>10, <1>11,
           <1>12, <1>13, <1>14, <1>15 DEF Advances

LEMMA NextKeepsIInv ==
  ASSUME IInv, [Next]_vars
  PROVE  IInv' /\ (SnapshotStep \/ UNCHANGED vars)
<1>1. ASSUME NEW p \in Requests, Advances(p)
      PROVE  IInv' /\ SnapshotStep
  BY <1>1, AdvancesKeepsIInv
<1>2. ASSUME NEW p \in Requests, NEW t \in Trips, Arrives(p, t)
      PROVE  IInv' /\ SnapshotStep
  <2>1. UNCHANGED snapshot
    BY <1>2 DEF Arrives, Close, Reopen, Cancel, SetNumber, MoveDay, EditInputs,
                Reprocess, Link, Unlink, Receives
  <2> QED BY <1>2, <2>1, ArrivesKeepsIInv DEF SnapshotStep
<1>3. CASE Crash
  BY <1>3, CrashKeepsIInv DEF Crash, SnapshotStep
<1>4. CASE UNCHANGED vars
  BY <1>4 DEF vars, IInv, TypeOK, ChainsAreConsistent, Consistent
<1> QED BY <1>1, <1>2, <1>3, <1>4 DEF Next, Served

(* Rows, snapshots and request records keep their types, and a request's   *)
(* record agrees with the phase it is in, whatever interleaves, fails or   *)
(* crashes: a store never reads a result that was not calculated.          *)
THEOREM TypeCorrect == Spec => [](TypeOK /\ ChainsAreConsistent)
<1>1. Init => IInv
  BY InitIsConsistent
<1>2. IInv /\ [Next]_vars => IInv'
  BY NextKeepsIInv
<1>3. Spec => []IInv
  BY <1>1, <1>2, PTL DEF Spec
<1> QED BY <1>3, PTL DEF IInv

(* updateUnlessNewerStored and markNotCurrent, over any number of          *)
(* concurrent pricings, failures, refused claims and crashes: a snapshot   *)
(* is never replaced by a calculation that started earlier, never removed, *)
(* and a FAILED one is current again only through a new calculation.       *)
THEOREM SnapshotsOnlyMoveForward == Spec => SnapshotsMoveForward
<1>1. Init => IInv
  BY InitIsConsistent
<1>2. IInv /\ [Next]_vars => IInv' /\ [SnapshotStep]_vars
  BY NextKeepsIInv
<1> QED BY <1>1, <1>2, PTL DEF Spec, SnapshotsMoveForward

---------------------------------------------------------------------------
=============================================================================
