---------------------------- MODULE TripPricing ----------------------------
(***************************************************************************)
(* What happens to prices after a trip changed: every write that moves a   *)
(* pricing input is followed, after its commit, by a calculation of the    *)
(* trips it touches and by the store of their snapshots; the automatic TAR *)
(* of one number is to be charged on one trip a day.                       *)
(*                                                                         *)
(* A request is a chain of database calls in one process, and other        *)
(* requests run between any two of them; a crash forgets every chain.  A   *)
(* calculation (its reads, and the settlement's read before the store) is  *)
(* one step, and so is each transaction.  Amounts are left out: a snapshot *)
(* holds WHAT it was calculated from and whether it charges the automatic  *)
(* TAR.                                                                    *)
(***************************************************************************)
EXTENDS Integers, Sequences, FiniteSets

CONSTANTS
  Trips, NoTrip,        \* the trips, and "no trip"
  Legs, Collection,     \* the two trips of one transport order, and the
                        \* one of them that is its return leg
  Requests,             \* requests that may be in flight together
  Numbers, NoNumber,    \* TAR numbers and the empty column
  Days,                 \* planning days
  Inputs,               \* what an operator's edit of a billed column sets
  Unpaired,             \* the pair data of a trip priced on its own
  Operations,           \* the operations this instance exercises
  MayFail,              \* calculations and stores may fail
  MayCrash              \* the process may stop between two steps

ASSUME LegsAreAPair ==
  /\ Legs = {} \/ \E t, u \in Trips : t # u /\ Legs = {t, u}
  /\ Collection \in Legs \/ Legs = {}

ASSUME NullsAreSeparate == NoNumber \notin Numbers /\ NoTrip \notin Trips

VARIABLES
  trip,       \* trip[t]: the columns pricing reads
  grouped,    \* the legs whose trip_group_id is set, to one and the same group
  snapshot,   \* snapshot[t]: the trip_pricing row of t and its TAR line
  clock,      \* the wall clock, ticking at each calculation
  request,    \* request[p]: where the request in slot p stands
  crashed     \* observation: the process has stopped with requests in flight

vars == <<trip, grouped, snapshot, clock, request, crashed>>

Statuses == {"OPEN", "CLOSED", "CANCELLED"}

Row == [status : Statuses, number : Numbers \cup {NoNumber}, day : Days,
        inputs : Inputs]

NoRow == [status |-> "NONE"]

(* A TAR day, and "no charge claimed". *)
TarDay == [number : Numbers, day : Days]
NoClaim == [number |-> NoNumber]

(* What a price was read from: the trip's own data, whether it is in a     *)
(* group (which is what the Backload is charged for, partner or not), and  *)
(* both legs' data when it was priced as one of a pair.                    *)
PairData == [day : Days, partnerDay : Days, partnerInputs : Inputs]
PriceData == [inputs : Inputs, backload : BOOLEAN, pair : PairData \cup {Unpaired}]

Snapshot == [at : Nat, read : PriceData, tar : BOOLEAN, failed : BOOLEAN]
NoSnapshot == [at |-> -1]

Result == [at : Nat, read : PriceData, claim : TarDay \cup {NoClaim}]

TarClaimAttempts == 3

Phases == {"idle", "write", "price", "calculate", "store", "again", "settle",
           "resettle"}

OperationNames == {"NONE", "CLOSE", "OPEN", "CANCEL", "NUMBER", "MOVE", "EDIT",
                   "REPRICE", "LINK", "UNLINK"}

(* The chain of calls one request is in the middle of. *)
Request ==
  [op : OperationNames, phase : Phases,
   trip : Trips \cup {NoTrip},             \* the trip the request names
   before : Row \cup {NoRow},              \* that trip as the request read it
   value : Numbers \cup {NoNumber} \cup Days \cup Inputs,   \* the new value
   release : TarDay \cup {NoClaim},       \* the charge its write let go
   todo : SUBSET Trips,                   \* recalculateAll: still to price
   scope : Seq(Trips),                    \* the trips being priced together
   since : Nat,                           \* when that pricing started
   results : Seq(Result),                 \* what was calculated for them
   stored : Nat,                          \* how many of these are stored
   attempt : 1..TarClaimAttempts,         \* of the store under way
   settles : BOOLEAN,                     \* this pricing settles the TAR
   held : SUBSET Trips,                   \* scope's holders before the store
   moved : SUBSET Trips]                  \* settlement: still to price

Idle ==
  [op |-> "NONE", phase |-> "idle", trip |-> NoTrip, before |-> NoRow,
   value |-> NoNumber, release |-> NoClaim, todo |-> {}, scope |-> <<>>,
   since |-> 0, results |-> <<>>, stored |-> 0, attempt |-> 1,
   settles |-> TRUE, held |-> {}, moved |-> {}]

(* An operator named X_Y is X with the bug Y: no action of Next uses it,   *)
(* the runs check that the properties would notice it.                     *)

---------------------------------------------------------------------------
(* Who is priced with whom, and who holds a TAR number's charge.           *)

Priceable(t) == trip[t].status = "CLOSED"

Other(t) == CHOOSE leg \in Legs : leg # t

Together == Legs # {} /\ grouped = Legs

(* pricingPartnerOf: the other leg, while both are grouped and the other   *)
(* is neither cancelled nor deleted; {} when there is none.                *)
Partner(t) ==
  {p \in Legs : /\ Together /\ t \in Legs /\ p # t
                /\ trip[p].status \in {"OPEN", "CLOSED"}}

ClosedPartner_AnyStatus(t) == Partner(t)

ClosedPartner(t) == {p \in Partner(t) : Priceable(p)}

PriceDataOf(t) ==
  [inputs |-> trip[t].inputs,
   backload |-> t \in grouped,
   pair |-> IF Partner(t) = {} THEN Unpaired
            ELSE [day |-> trip[t].day, partnerDay |-> trip[Other(t)].day,
                  partnerInputs |-> trip[Other(t)].inputs]]

(* withAutomaticProperty: every trip that states a number owes its TAR,    *)
(* except the return leg of a pair, whatever its partner's status.         *)
Owes(t) == /\ trip[t].number # NoNumber
           /\ ~(Together /\ t = Collection)

TarDayOf(t) == [number |-> trip[t].number, day |-> trip[t].day]

Stating(tar) == {t \in Trips : TarDayOf(t) = tar}

(* A stored automatic line that may be a charge someone owes. *)
Counted(t) == /\ snapshot[t] # NoSnapshot
              /\ snapshot[t].tar
              /\ ~snapshot[t].failed
              /\ trip[t].status # "CANCELLED"

(* findHolders: by the number and the day the trips state NOW. *)
Holders(tar) == {t \in Stating(tar) : Counted(t)}

(* validTarHolders: a trip that is not CLOSED keeps its charge until a     *)
(* CLOSED trip was charged later.                                          *)
ValidHolders(tar) ==
  {t \in Holders(tar) :
     \/ Priceable(t)
     \/ ~\E c \in Holders(tar) : Priceable(c) /\ snapshot[c].at > snapshot[t].at}

HeldByAnother_Never(tar, t) == FALSE

HeldByAnother(tar, t) == ValidHolders(tar) \ {t} # {}

(* surplusTarHolders: every CLOSED holder but the first priced.  Two       *)
(* calculations never start at the same instant here, so the tie-break on  *)
(* the trip id is never needed.                                            *)
Surplus(tar) ==
  {t \in ValidHolders(tar) :
     /\ Priceable(t)
     /\ \E c \in ValidHolders(tar) : Priceable(c) /\ snapshot[c].at < snapshot[t].at}

(* findClosedTripsStating. *)
ClosedStating(tar, except) == {t \in Stating(tar) \ {except} : Priceable(t)}

Released_Never(before, after) == NoClaim

Released_NoNumberToo(before, after) ==
  IF \/ before.status = "CANCELLED"
     \/ /\ before.number = after.number
        /\ before.day = after.day
        /\ after.status # "CANCELLED"
  THEN NoClaim
  ELSE [number |-> before.number, day |-> before.day]

(* releasedTarDay: the TAR day a change of its row made the trip leave. *)
Released(before, after) ==
  IF \/ before.number = NoNumber
     \/ before.status = "CANCELLED"
     \/ /\ before.number = after.number
        /\ before.day = after.day
        /\ after.status # "CANCELLED"
  THEN NoClaim
  ELSE [number |-> before.number, day |-> before.day]

---------------------------------------------------------------------------
(* Requests: the write, and the trips it has priced.                       *)

Operates(op) == op \in Operations

(* The CLOSED legs of the pair t belongs to: what a change of either one's *)
(* date, or of the pair itself, reprices.                                  *)
ClosedOf(ts) == {t \in ts : Priceable(t)}

(* The request read its trip and passed its checks; it writes next. *)
Receives(p, op, t, value) ==
  /\ request[p].phase = "idle"
  /\ Operates(op)
  /\ request' = [request EXCEPT ![p] =
                   [Idle EXCEPT !.op = op, !.phase = "write", !.trip = t,
                                !.before = trip[t], !.value = value]]
  /\ UNCHANGED <<trip, grouped, snapshot, clock, crashed>>

Close(p, t) == trip[t].status = "OPEN" /\ Receives(p, "CLOSE", t, NoNumber)

Reopen(p, t) ==
  trip[t].status \in {"CLOSED", "CANCELLED"} /\ Receives(p, "OPEN", t, NoNumber)

Cancel(p, t) == trip[t].status = "OPEN" /\ Receives(p, "CANCEL", t, NoNumber)

SetNumber(p, t) ==
  \E n \in Numbers \cup {NoNumber} :
    n # trip[t].number /\ Receives(p, "NUMBER", t, n)

MoveDay(p, t) == \E d \in Days : d # trip[t].day /\ Receives(p, "MOVE", t, d)

EditInputs(p, t) ==
  \E x \in Inputs : x # trip[t].inputs /\ Receives(p, "EDIT", t, x)

Reprocess(p, t) == Receives(p, "REPRICE", t, NoNumber)

Link(p, t) == t \in Legs /\ Receives(p, "LINK", t, NoNumber)

Unlink(p, t) == t \in grouped /\ Receives(p, "UNLINK", t, NoNumber)

(* The request's write is done: it prices `todo`, and then the trips that  *)
(* share the TAR day it left.                                              *)
Wrote(p, todo, release) ==
  request' = [request EXCEPT ![p] =
                [Idle EXCEPT !.op = request[p].op, !.phase = "price",
                             !.trip = request[p].trip,
                             !.todo = todo, !.release = release]]

(* changeStatus writes the status it was asked for over whatever is there  *)
(* by now.  Closing is announced to the pricing listener.  A trip that     *)
(* leaves or rejoins a pair has its partner priced.                        *)
WriteStatus(p, t, to) ==
  LET before == request[p].before
      moved  == (before.status = "CANCELLED") # (to = "CANCELLED")
      todo   == IF to = "CLOSED" THEN {t}
                ELSE IF moved /\ Together /\ t \in Legs
                     THEN ClosedOf({Other(t)}) ELSE {}
      after  == [trip[t] EXCEPT !.status = to]
  IN /\ trip' = [trip EXCEPT ![t] = after]
     /\ Wrote(p, todo, Released([after EXCEPT !.status = before.status], after))
     /\ UNCHANGED grouped

WriteClose(p) == /\ request[p].op = "CLOSE"
                 /\ WriteStatus(p, request[p].trip, "CLOSED")

WriteReopen(p) == /\ request[p].op = "OPEN"
                  /\ WriteStatus(p, request[p].trip, "OPEN")

WriteCancel(p) == /\ request[p].op = "CANCEL"
                  /\ WriteStatus(p, request[p].trip, "CANCELLED")

(* update: one column of the row; a billed column prices the trip again, a *)
(* planning date only the legs of a pair (repriceAfterCombinationInput-    *)
(* Change asks that after the write).                                      *)
WriteColumns(p, after, todo) ==
  LET t == request[p].trip
  IN /\ trip' = [trip EXCEPT ![t] = after]
     /\ Wrote(p, todo, Released(request[p].before, after))
     /\ UNCHANGED grouped

WriteNumber(p) ==
  LET t == request[p].trip
  IN /\ request[p].op = "NUMBER"
     /\ WriteColumns(p, [trip[t] EXCEPT !.number = request[p].value], {t})

WriteMove(p) ==
  LET t == request[p].trip
  IN /\ request[p].op = "MOVE"
     /\ WriteColumns(p, [trip[t] EXCEPT !.day = request[p].value],
                     IF Partner(t) = {} THEN {} ELSE ClosedOf(Legs))

WriteEdit(p) ==
  LET t == request[p].trip
  IN /\ request[p].op = "EDIT"
     /\ WriteColumns(p, [trip[t] EXCEPT !.inputs = request[p].value], {t})

(* The explicit reprocess writes nothing of the trip. *)
WriteNothing(p) ==
  /\ request[p].op = "REPRICE"
  /\ Wrote(p, {request[p].trip}, NoClaim)
  /\ UNCHANGED <<trip, grouped>>

(* createGroup refuses a trip that is grouped already; removeFromGroup     *)
(* takes one trip out and leaves the other in its group.                   *)
WriteLink(p) ==
  /\ request[p].op = "LINK"
  /\ IF grouped = {} THEN grouped' = Legs /\ Wrote(p, ClosedOf(Legs), NoClaim)
                     ELSE grouped' = grouped /\ request' = [request EXCEPT ![p] = Idle]
  /\ UNCHANGED trip

WriteUnlink(p) ==
  LET t == request[p].trip
  IN /\ request[p].op = "UNLINK"
     /\ grouped' = grouped \ {t}
     /\ Wrote(p, ClosedOf(IF grouped \cup {t} = Legs THEN Legs ELSE {t}), NoClaim)
     /\ UNCHANGED trip

Write(p) ==
  /\ request[p].phase = "write"
  /\ \/ WriteClose(p) \/ WriteReopen(p) \/ WriteCancel(p) \/ WriteNumber(p)
     \/ WriteMove(p) \/ WriteEdit(p) \/ WriteNothing(p) \/ WriteLink(p)
     \/ WriteUnlink(p)
  /\ UNCHANGED <<snapshot, clock, crashed>>

---------------------------------------------------------------------------
(* Pricing trips together: all calculated, then all stored.                *)

(* pairOf, then the start of the pricing.  A recalculation leaves out a    *)
(* trip that is not CLOSED; the close listener, the explicit reprocess and *)
(* the settlement hand it to the engine, which refuses it.                 *)
Scope(p, t) ==
  (IF Priceable(t) \/ ~request[p].settles \/ request[p].op \in {"CLOSE", "REPRICE"}
   THEN <<t>> ELSE <<>>)
  \o (IF ClosedPartner(t) = {} THEN <<>> ELSE <<Other(t)>>)

(* recalculateAll: the next trip; its partner is not priced a second time. *)
StartPricing(p) ==
  /\ request[p].phase = "price"
  /\ \E t \in request[p].todo :
       LET scope == Scope(p, t)
       IN request' = [request EXCEPT
            ![p].todo  = @ \ ({t} \cup ClosedPartner(t)),
            ![p].phase = IF scope = <<>> THEN "price" ELSE "calculate",
            ![p].scope = scope,
            ![p].since = clock]
  /\ UNCHANGED <<trip, grouped, snapshot, clock, crashed>>

(* The settlement's next trip, priced without settling again. *)
StartSettling(p) ==
  /\ request[p].phase = "resettle"
  /\ \E t \in request[p].moved :
       request' = [request EXCEPT ![p].moved = @ \ {t},
                                  ![p].phase = "calculate",
                                  ![p].scope = Scope(p, t),
                                  ![p].since = clock]
  /\ UNCHANGED <<trip, grouped, snapshot, clock, crashed>>

SettlementDone(p) ==
  /\ request[p].phase = "resettle"
  /\ request[p].moved = {}
  /\ request' = [request EXCEPT ![p].settles = TRUE, ![p].phase = "price"]
  /\ UNCHANGED <<trip, grouped, snapshot, clock, crashed>>

(* priceTogether is over, stored or failed. *)
Leave(req) ==
  [req EXCEPT !.phase = IF req.settles THEN "price" ELSE "resettle",
              !.scope = <<>>, !.since = 0, !.results = <<>>, !.stored = 0,
              !.attempt = 1, !.held = {}]

Marked_Nothing(p) == snapshot

(* markNotCurrent: snapshots older than the failed pricing are FAILED. *)
Marked(p) ==
  [t \in Trips |->
     IF /\ \E i \in DOMAIN request[p].scope : request[p].scope[i] = t
        /\ snapshot[t] # NoSnapshot
        /\ snapshot[t].at < request[p].since
     THEN [snapshot[t] EXCEPT !.failed = TRUE]
     ELSE snapshot[t]]

Fail(p) == /\ snapshot' = Marked(p)
           /\ request' = [request EXCEPT ![p] = Leave(@)]

(* The engine prices t from the database as it is now. *)
Calculation(t) ==
  [at    |-> clock,
   read  |-> PriceDataOf(t),
   claim |-> IF Owes(t) /\ ~HeldByAnother(TarDayOf(t), t)
             THEN TarDayOf(t) ELSE NoClaim]

InScope(p, i) == request[p].scope[i]

(* holdingBefore: any automatic line, whatever its trip's status. *)
HoldingBefore(p) ==
  {t \in Trips : /\ \E i \in DOMAIN request[p].scope : InScope(p, i) = t
                 /\ snapshot[t] # NoSnapshot
                 /\ snapshot[t].tar}

Calculate(p) ==
  LET i == Len(request[p].results) + 1
      t == InScope(p, i)
  IN /\ request[p].phase = "calculate"
     /\ Priceable(t)
     /\ IF i < Len(request[p].scope)
        THEN request' = [request EXCEPT ![p].results = Append(@, Calculation(t))]
        ELSE request' = [request EXCEPT
               ![p].results = Append(@, Calculation(t)),
               ![p].phase   = "store",
               ![p].held    = IF request[p].settles THEN HoldingBefore(p) ELSE {}]
     /\ clock' = clock + 1
     /\ UNCHANGED <<trip, grouped, snapshot, crashed>>

(* No route, no rule, a negative total: a leg cannot be priced. *)
CalculationFails(p) ==
  /\ request[p].phase = "calculate"
  /\ MayFail
  /\ Priceable(InScope(p, Len(request[p].results) + 1))
  /\ Fail(p)
  /\ UNCHANGED <<trip, grouped, clock, crashed>>

(* The trip is not CLOSED any more.  Refusing the trip the pricing was     *)
(* started for withdraws nothing; refusing its partner marks both.         *)
CalculationRefused(p) ==
  LET i == Len(request[p].results) + 1
  IN /\ request[p].phase = "calculate"
     /\ ~Priceable(InScope(p, i))
     /\ IF i = 1 THEN /\ request' = [request EXCEPT ![p] = Leave(@)]
                      /\ UNCHANGED snapshot
                 ELSE Fail(p)
     /\ UNCHANGED <<trip, grouped, clock, crashed>>

---------------------------------------------------------------------------
(* The snapshot store.                                                     *)

StoreIndex(p) == request[p].stored + 1

Pending(p) == request[p].results[StoreIndex(p)]

ClaimLost_Never(p) == FALSE

(* TarChargeGuard: the claim is decided again inside the transaction, with *)
(* the number and day locked against other claims.                         *)
ClaimLost(p) ==
  /\ Pending(p).claim # NoClaim
  /\ HeldByAnother(Pending(p).claim, InScope(p, StoreIndex(p)))

Superseded_Never(p) == FALSE

(* updateUnlessNewerStored; the first of two racing inserts is found by    *)
(* the retry of the other, so both are this one case.                      *)
Superseded(p) ==
  LET t == InScope(p, StoreIndex(p))
  IN snapshot[t] # NoSnapshot /\ snapshot[t].at > Pending(p).at

StoreTarget(p) ==
  IF Superseded(p) THEN snapshot
  ELSE [snapshot EXCEPT ![InScope(p, StoreIndex(p))] =
          [at |-> Pending(p).at, read |-> Pending(p).read,
           tar |-> Pending(p).claim # NoClaim, failed |-> FALSE]]

Stored(req) ==
  IF req.stored + 1 < Len(req.results)
  THEN [req EXCEPT !.stored = @ + 1, !.attempt = 1, !.phase = "store"]
  ELSE IF req.settles THEN [req EXCEPT !.phase = "settle"]
                      ELSE Leave(req)

Store(p) ==
  /\ request[p].phase = "store"
  /\ ~ClaimLost(p)
  /\ snapshot' = StoreTarget(p)
  /\ request' = [request EXCEPT ![p] = Stored(@)]
  /\ UNCHANGED <<trip, grouped, clock, crashed>>

(* The write was rolled back: the trip is calculated again, at most        *)
(* TAR_CLAIM_ATTEMPTS writes in all.                                       *)
StoreRefused(p) ==
  /\ request[p].phase = "store"
  /\ ClaimLost(p)
  /\ IF request[p].attempt < TarClaimAttempts
     THEN /\ request' = [request EXCEPT ![p].phase = "again", ![p].attempt = @ + 1]
          /\ UNCHANGED snapshot
     ELSE Fail(p)
  /\ UNCHANGED <<trip, grouped, clock, crashed>>

StoreFails(p) ==
  /\ request[p].phase = "store"
  /\ MayFail
  /\ Fail(p)
  /\ UNCHANGED <<trip, grouped, clock, crashed>>

CalculateAgain(p) ==
  LET t == InScope(p, StoreIndex(p))
  IN /\ request[p].phase = "again"
     /\ Priceable(t)
     /\ request' = [request EXCEPT ![p].results[StoreIndex(p)] = Calculation(t),
                                   ![p].phase = "store"]
     /\ clock' = clock + 1
     /\ UNCHANGED <<trip, grouped, snapshot, crashed>>

(* Refused here, not being CLOSED withdraws nothing, whichever leg it is. *)
CalculateAgainRefused(p) ==
  /\ request[p].phase = "again"
  /\ ~Priceable(InScope(p, StoreIndex(p)))
  /\ request' = [request EXCEPT ![p] = Leave(@)]
  /\ UNCHANGED <<trip, grouped, snapshot, clock, crashed>>

(* tripsToReprice: the surplus holders, and, for a trip that gave the      *)
(* charge up, the CLOSED trips that state its number that day.             *)
Movers(p) ==
  LET scope == {InScope(p, i) : i \in DOMAIN request[p].scope}
      days  == {t \in scope : trip[t].number # NoNumber}
  IN (UNION {Surplus(TarDayOf(t)) : t \in days})
     \cup (UNION {ClosedStating(TarDayOf(t), t) :
                    t \in {s \in days : /\ s \in request[p].held
                                        /\ s \notin Holders(TarDayOf(s))}})

Settle(p) ==
  /\ request[p].phase = "settle"
  /\ request' = [request EXCEPT ![p] =
                   IF Movers(p) = {} THEN Leave(@)
                   ELSE [Leave(@) EXCEPT !.moved = Movers(p), !.settles = FALSE,
                                         !.phase = "resettle"]]
  /\ UNCHANGED <<trip, grouped, snapshot, clock, crashed>>

---------------------------------------------------------------------------
(* The end of a request, and of the process.                               *)

(* repriceAfterTarChargeReleased, after the trip itself was priced. *)
Release(p) ==
  /\ request[p].phase = "price"
  /\ request[p].todo = {}
  /\ request[p].release # NoClaim
  /\ request' = [request EXCEPT
       ![p].todo = ClosedStating(request[p].release, request[p].trip),
       ![p].release = NoClaim]
  /\ UNCHANGED <<trip, grouped, snapshot, clock, crashed>>

Answer(p) ==
  /\ request[p].phase = "price"
  /\ request[p].todo = {}
  /\ request[p].release = NoClaim
  /\ request' = [request EXCEPT ![p] = Idle]
  /\ UNCHANGED <<trip, grouped, snapshot, clock, crashed>>

(* The event bus and the chains of calls live in memory. *)
Crash ==
  /\ MayCrash
  /\ \E p \in Requests : request[p] # Idle
  /\ request' = [p \in Requests |-> Idle]
  /\ crashed' = TRUE
  /\ UNCHANGED <<trip, grouped, snapshot, clock>>

Init ==
  /\ trip \in [Trips -> {r \in Row : r.status = "OPEN"}]
  /\ grouped \in {{}, Legs}
  /\ snapshot = [t \in Trips |-> NoSnapshot]
  /\ clock = 0
  /\ request = [p \in Requests |-> Idle]
  /\ crashed = FALSE

Arrives(p, t) ==
  \/ Close(p, t) \/ Reopen(p, t) \/ Cancel(p, t) \/ SetNumber(p, t)
  \/ MoveDay(p, t) \/ EditInputs(p, t) \/ Reprocess(p, t) \/ Link(p, t)
  \/ Unlink(p, t)

Advances(p) ==
  \/ Write(p) \/ StartPricing(p) \/ Calculate(p) \/ CalculationFails(p)
  \/ CalculationRefused(p) \/ Store(p) \/ StoreRefused(p) \/ StoreFails(p)
  \/ CalculateAgain(p) \/ CalculateAgainRefused(p) \/ Settle(p)
  \/ StartSettling(p) \/ SettlementDone(p) \/ Release(p) \/ Answer(p)

Served == \E p \in Requests : Advances(p) \/ \E t \in Trips : Arrives(p, t)

Next == Served \/ Crash

Spec == Init /\ [][Next]_vars

---------------------------------------------------------------------------
(* Properties.                                                             *)

TypeOK ==
  /\ trip \in [Trips -> Row]
  /\ grouped \subseteq Legs
  /\ snapshot \in [Trips -> Snapshot \cup {NoSnapshot}]
  /\ clock \in Nat
  /\ crashed \in BOOLEAN
  /\ request \in [Requests -> Request]

AtRest == \A p \in Requests : request[p] = Idle

(* A price a screen or an invoice shows: current-pricing.ts. *)
Shown(t) == Priceable(t) /\ snapshot[t] # NoSnapshot /\ ~snapshot[t].failed

Charged(t) == Shown(t) /\ snapshot[t].tar

(* Whatever ran concurrently, once every request has answered no TAR       *)
(* number is charged on two CLOSED trips of one day: the guard, the        *)
(* settlement and the release between them leave one.                      *)
ChargedOnce ==
  AtRest => \A t, u \in Trips :
    /\ Charged(t) /\ Charged(u) /\ trip[t].number # NoNumber
    /\ TarDayOf(t) = TarDayOf(u)
    => t = u

(* ... and it is charged: while a CLOSED trip owes a number's TAR, some    *)
(* trip holds that day's charge, so no release of it was lost.             *)
ChargeNotLost ==
  AtRest => \A t \in Trips :
    Priceable(t) /\ Owes(t) => ValidHolders(TarDayOf(t)) # {}

(* A shown price was calculated from the trip's data, and its partner's,   *)
(* as they are: no older calculation stored after a newer one, no failed   *)
(* one left the old figures standing.                                      *)
PriceIsCurrent ==
  AtRest => \A t \in Trips : Shown(t) => snapshot[t].read = PriceDataOf(t)

(* Where nothing fails, every CLOSED trip has a price once the requests    *)
(* have answered.                                                          *)
ClosedIsPriced == AtRest => \A t \in Trips : Priceable(t) => Shown(t)

(* Two requests on one pair at once, and no stop: every CLOSED trip is     *)
(* priced, from the data it has now and not from an older reading stored   *)
(* after a newer one.                                                      *)
CurrentUnlessCrashed == crashed \/ PriceIsCurrent

(* ... and none is left unpriced: the one way to lose a pricing is to stop *)
(* between the commit of a close and the calculation it asks for.          *)
PricedUnlessCrashed == crashed \/ ClosedIsPriced

(* A snapshot is never replaced by a calculation that started earlier, nor *)
(* removed, and a FAILED one comes back only as a newer calculation.       *)
SnapshotStep ==
  \A t \in Trips :
    snapshot'[t] # snapshot[t] /\ snapshot[t] # NoSnapshot =>
      \/ /\ snapshot'[t] # NoSnapshot
         /\ snapshot'[t].at >= snapshot[t].at
         /\ ~snapshot'[t].failed
      \/ snapshot'[t] = [snapshot[t] EXCEPT !.failed = TRUE]

SnapshotsMoveForward == [][SnapshotStep]_vars
=============================================================================
