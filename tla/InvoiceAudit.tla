---------------------------- MODULE InvoiceAudit ----------------------------
(***************************************************************************)
(* The check of a customer's invoice against the transports, and the       *)
(* confirmation that pays them (src/apps/backend/src/invoice-audit).       *)
(*                                                                         *)
(* An invoice is a workbook: lines that name a transport by its day, its   *)
(* booking and its container, and lines that charge a cost confirmation.   *)
(* A request examines it in three reads of the database -- the lines are   *)
(* matched to trips, their amounts compared with the stored prices, the    *)
(* finished transports nobody stated collected -- and then either returns  *)
(* a corrected workbook, which can be uploaded again, or pays the chosen   *)
(* trips in one transaction.  Operators edit, reprice, finish, reopen and  *)
(* pay the same trips meanwhile.  Nothing is remembered between uploads    *)
(* but what the workbook itself carries: the marks of the added lines.     *)
(*                                                                         *)
(* Abstracted: the amounts of a line are one amount, those of a trip one   *)
(* total of which its cost confirmations or its waiting time are a part    *)
(* (EK), a price the check does not rely on is Null; lines of one          *)
(* combination, remarks, the fuel header, styles and the verification of   *)
(* the written workbook are left out.  A trip may lack any of the values   *)
(* that identify it, a line one of them (Null); rows that state only one   *)
(* are the incomplete rows of a workbook.                                  *)
(***************************************************************************)
EXTENDS Integers, FiniteSets, SequencesExt

CONSTANTS
  Trips, Bookings, Containers, Ccs, Requests,
  Days,           \* days numbered from a Monday
  Prices,         \* what a trip may be worth
  Confirmed,      \* the trips each cost confirmation is recorded for
  Confirms,       \* the amount each cost confirmation confirms
  Null,
  Initially,      \* the tables of trips the operators start from
  Invoices,       \* the workbooks the customer may send
  MaxEdits,       \* bound: changes of trips by operators
  AtOnce,         \* bound: examinations, which only read, under way at once
  MaxVersions     \* bound: workbooks in circulation

ASSUME NullIsNoValue ==
  Null \notin Trips \cup Bookings \cup Containers \cup Nat
ASSUME DaysAreNumbers == Days \subseteq Nat
\* The total, the EK in it, and whether that EK is the charged waiting time.
ASSUME PricesArePrices ==
  /\ Prices \subseteq [total : Nat \ {0}, ek : Nat, waiting : BOOLEAN]
  /\ \A p \in Prices : p.ek <= p.total
ASSUME ConfirmationsNameTrips ==
  Confirmed \in [Ccs -> SUBSET Trips] /\ Confirms \in [Ccs -> Nat]
ASSUME TripsAreFinite == IsFiniteSet(Trips)
ASSUME EditsAreBounded == MaxEdits \in Nat

VARIABLES
  trip,      \* the table of trips
  files,     \* the workbooks in the operator's hands
  request,   \* the requests in flight
  since,     \* history: the trips changed since each request matched
  settled,   \* history: how often a confirmation paid each trip
  released,  \* history: how often an operator made each trip unpaid
  edits      \* changes by operators so far

vars == <<trip, files, request, since, settled, released, edits>>

Statuses == {"OPEN", "CLOSED", "CANCELLED", "DELETED"}

TripRow == [status : Statuses, date : Days \cup {Null}, ordered : Days \cup {Null},
            booking : Bookings \cup {Null}, container : Containers \cup {Null},
            paid : BOOLEAN, price : Prices \cup {Null}]

ASSUME TripsAreTrips == Initially \subseteq [Trips -> TripRow]

\* The identity a line states, and the one its mark recorded when it was added.
Identity == [date : Days \cup {Null}, booking : Bookings \cup {Null},
             container : Containers \cup {Null}]
Mark == [trip : Trips, stated : Identity]

(***************************************************************************)
(* A line: what it states, the cost confirmations it charges (Null for a   *)
(* transport), the amount it carries (Null when it cannot be read) and the *)
(* mark of a line this check added.                                        *)
(***************************************************************************)
Line == [stated : Identity, charges : {Null} \cup SUBSET Ccs,
         amount : Nat \cup {Null}, mark : Mark \cup {Null}]

\* A workbook: its lines, whether its totals hold, what its other rows name.
Workbook == [lines : Seq(Line), sound : BOOLEAN, incomplete : SUBSET (Bookings \cup Containers)]

ASSUME InvoicesAreWorkbooks == Invoices \subseteq Workbook

\* No request in flight.
Idle == [phase |-> "IDLE"]

-----------------------------------------------------------------------------
(* Matching.                                                               *)

Week(day) == day \div 7

Live(t) == trip[t].status # "DELETED"
Closed(t) == trip[t].status = "CLOSED"

\* A trip is on a day by its planning date or by the date it was ordered for.
OnDate(t, day) == day \in {trip[t].date, trip[t].ordered}

IdentityOf(t) ==
  [date |-> trip[t].date, booking |-> trip[t].booking, container |-> trip[t].container]

Columns == {"date", "booking", "container"}

\* The values of a line that are the trip's: one that is absent is nobody's.
Agrees(id, t) ==
  {column \in Columns : /\ id[column] # Null
                        /\ IF column = "date" THEN OnDate(t, id.date)
                           ELSE id[column] = IdentityOf(t)[column]}

SharingAtLeast(n, id) == {t \in Trips : Live(t) /\ Cardinality(Agrees(id, t)) >= n}

Decided(status, t, candidates, fix) ==
  [status |-> status, trip |-> t, candidates |-> candidates, fix |-> fix]

Only(S) == CHOOSE x \in S : TRUE

\* All three values: one finished transport decides the line.
DecideByContainer(id) ==
  LET holding == SharingAtLeast(3, id)
      closed == {t \in holding : Closed(t)}
  IN  CASE Cardinality(closed) = 1 -> Decided("MATCHED", Only(closed), holding, "none")
        [] Cardinality(closed) > 1 -> Decided("AMBIGUOUS", Null, holding, "none")
        [] OTHER                   -> Decided("NOT_FINISHED", Null, holding, "none")

(***************************************************************************)
(* The value a line misprints once two others have found its transport: it *)
(* is corrected to the trip's, and left as written if the trip has none.   *)
(***************************************************************************)
ToCorrection(id, t) ==
  LET column == Only(Columns \ Agrees(id, t))
  IN  IF IdentityOf(t)[column] = Null THEN "none" ELSE column

\* Two values: the one transport no other line states outright.
DecideByTwoValues(id, claimed) ==
  LET all == SharingAtLeast(2, id)
      free == all \ claimed
  IN  CASE Cardinality(free) > 1    -> Decided("AMBIGUOUS", Null, free, "none")
        [] free = {} /\ all # {}    -> Decided("CONFLICT", Null, all, "none")
        [] all = {}                 -> Decided("NOT_FOUND", Null, {}, "none")
        [] Cardinality(free) = 1 /\ ~Closed(Only(free))
                                    -> Decided("NOT_FINISHED", Null, free, "none")
        [] OTHER                    -> Decided("MATCHED", Only(free), free,
                                               ToCorrection(id, Only(free)))

IsTransport(line) == line.charges = Null
Transports(lines) == {i \in DOMAIN lines : IsTransport(lines[i])}
Charges(lines) == DOMAIN lines \ Transports(lines)

(***************************************************************************)
(* The transport a cost line names by its own values, on its own booking   *)
(* and day when it holds no container, and whether its booking is wrong:   *)
(* no trip when the values do not decide one.                              *)
(***************************************************************************)
IdentifyTransport(id) ==
  LET onDate == {t \in SharingAtLeast(2, id) : {"date", "booking"} \subseteq Agrees(id, t)}
      exact == SharingAtLeast(3, id)
      byTwo == DecideByTwoValues(id, {})
      named == IF id.container = Null THEN onDate
               ELSE IF exact # {} THEN exact
               ELSE IF byTwo.fix = "container" THEN {} ELSE byTwo.candidates
  IN  [trip |-> IF Cardinality(named) = 1 THEN Only(named) ELSE Null,
       fix  |-> IF id.container # Null /\ exact = {} /\ byTwo.fix = "booking"
                THEN "booking" ELSE "none"]

(***************************************************************************)
(* The trips other lines already are: stated outright by a line of the     *)
(* pass, or charged for by a cost line without a container.  A line with   *)
(* the identity of one of those is not "another".                          *)
(***************************************************************************)
ClaimedByOthers(lines, pass, i) ==
  LET states(j) == IF j \in pass THEN SharingAtLeast(3, lines[j].stated) ELSE {}
      charges(j) == IF j \in Charges(lines) /\ lines[j].stated.container = Null
                    THEN {IdentifyTransport(lines[j].stated).trip} \ {Null} ELSE {}
      claimants(t) == {j \in DOMAIN lines : t \in states(j) \cup charges(j)}
  IN  {t \in Trips : /\ claimants(t) # {}
                     /\ \A j \in claimants(t) : lines[j].stated # lines[i].stated}

WasAddedByAudit(line) == line.mark # Null /\ line.mark.stated = line.stated

DecideTransport(lines, pass, i) ==
  LET id == lines[i].stated
      exact == SharingAtLeast(3, id) # {}
      decided == IF exact THEN DecideByContainer(id)
                 ELSE DecideByTwoValues(id, ClaimedByOthers(lines, pass, i))
  IN  [decided EXCEPT !.status = IF WasAddedByAudit(lines[i]) THEN "ADDED_MISSING" ELSE @,
                      !.fix = IF WasAddedByAudit(lines[i]) THEN "none" ELSE @]

Named(match) == match.candidates \cup ({match.trip} \ {Null})

\* Cost lines whose transport no transport line names are transports themselves.
OwnTransportLines(lines) ==
  LET named == UNION {Named(DecideTransport(lines, Transports(lines), i)) : i \in Transports(lines)}
      asTransport(i) == Named(DecideTransport(lines, DOMAIN lines, i))
  IN  {i \in Charges(lines) : asTransport(i) # {} /\ asTransport(i) \cap named = {}}

Unresolved(candidates, fix) == Decided("COST_LINE_UNRESOLVED", Null, candidates, fix)

\* A cost line belongs to the trip its confirmation is recorded for.
DecideCostLine(line) ==
  LET id == line.stated
      held == IF Cardinality(line.charges) = 1 THEN Confirmed[Only(line.charges)] ELSE {}
      confirmed == {t \in held : Live(t)}
      t == Only(confirmed)
      transport == IdentifyTransport(id)
  IN  IF Cardinality(line.charges) # 1 THEN Unresolved({}, "none")
      ELSE IF confirmed = {} THEN Unresolved({transport.trip} \ {Null}, transport.fix)
      ELSE IF \/ Cardinality(confirmed) > 1
              \/ id.container # Null /\ "container" \notin Agrees(id, t)
              \/ "booking" \notin Agrees(id, t)
                   /\ ("container" \notin Agrees(id, t) \/ trip[t].booking = Null)
              \/ transport.trip \notin {t, Null}
              \/ ~Closed(t)
           THEN Unresolved(confirmed, "none")
      ELSE Decided("COST_LINE", t, confirmed,
                   IF "booking" \in Agrees(id, t) THEN "none" ELSE "booking")

WithIdentityConflicts_Never(lines, own, match) == match

(***************************************************************************)
(* A line that reached its transport on fewer than all three values yields *)
(* to another line that has it under another identity: nothing is decided. *)
(***************************************************************************)
WithIdentityConflicts(lines, own, match) ==
  LET isTransport(i) == i \in Transports(lines) \cup own
      weak(i) == Cardinality(Agrees(lines[i].stated, match[i].trip)) < 3
      clashes(i) == \E j \in DOMAIN lines :
                      /\ isTransport(j)
                      /\ match[j].trip = match[i].trip
                      /\ lines[j].stated # lines[i].stated
  IN  [i \in DOMAIN lines |->
        IF isTransport(i) /\ match[i].status = "MATCHED" /\ weak(i) /\ clashes(i)
        THEN Decided("CONFLICT", Null, {match[i].trip}, "none")
        ELSE match[i]]

Judged(lines, i, own) ==
  IF i \in Transports(lines) \cup own
  THEN DecideTransport(lines, IF i \in own THEN DOMAIN lines ELSE Transports(lines), i)
  ELSE DecideCostLine(lines[i])

MatchingWith(lines, own) ==
  WithIdentityConflicts(lines, own, [i \in DOMAIN lines |-> Judged(lines, i, own)])

Matching(lines) == MatchingWith(lines, OwnTransportLines(lines))

-----------------------------------------------------------------------------
(* Prices.                                                                 *)

\* Cost lines that found no transport of their own charge one.
ChargesOnly(lines, match, i) ==
  /\ ~IsTransport(lines[i])
  /\ match[i].status \in {"COST_LINE", "COST_LINE_UNRESOLVED"}

\* The lines that carry the price of a trip.
Carrying(lines, match, t) ==
  {i \in DOMAIN lines : match[i].trip = t /\ ~ChargesOnly(lines, match, i)}

Stated(lines, rows) == FoldSet(LAMBDA i, sum : lines[i].amount + sum, 0, rows)

\* The lines that charge a trip one of its cost confirmations beside that.
Charging(lines, match, t) ==
  {i \in DOMAIN lines : match[i].trip = t /\ ChargesOnly(lines, match, i)}

\* What a cost line is owed: its confirmation, unless waiting time is charged.
Owed(price, line) ==
  IF price.waiting \/ Cardinality(line.charges) # 1 THEN 0 ELSE Confirms[Only(line.charges)]

AsOwed(price, lines) ==
  [i \in DOMAIN lines |-> [lines[i] EXCEPT !.amount = Owed(price, lines[i])]]

Covered(lines, match, t) ==
  Stated(AsOwed(trip[t].price, lines), Charging(lines, match, t))

\* What the lines of a trip's own are to come to: its EK is charged once.
Remaining(lines, match, t) ==
  LET price == trip[t].price
      covered == Covered(lines, match, t)
  IN  price.total - (IF covered < price.ek THEN covered ELSE price.ek)

Lowest(S) == CHOOSE i \in S : \A j \in S : i <= j

(***************************************************************************)
(* What the comparison makes of each line, and the amount it is to carry.  *)
(* An amount is only ever raised, and only where one line can take it.     *)
(***************************************************************************)
ReconcileTripRows(lines, match, t) ==
  LET rows == Carrying(lines, match, t)
      readable == \A i \in rows : lines[i].amount # Null
      carriers == {i \in rows : lines[i].amount # 0}
      short == Remaining(lines, match, t) - Stated(lines, rows)
      target == Lowest(IF carriers = {} THEN rows ELSE carriers)
  IN  IF trip[t].price = Null THEN [status |-> "PRICE_UNRELIABLE", row |-> Null]
      ELSE IF ~readable THEN [status |-> "AMOUNT_UNREADABLE", row |-> Null]
      ELSE IF rows = {} \/ short <= 0 THEN [status |-> "SETTLED", row |-> Null]
      ELSE IF Cardinality(carriers) > 1 THEN [status |-> "NOT_DISTRIBUTABLE", row |-> Null]
      ELSE [status |-> "SETTLED", row |-> target, to |-> lines[target].amount + short]

\* A cost line is compared with its own confirmation.
ReconcileCostLine(price, line) ==
  IF line.amount = Null THEN [status |-> "AMOUNT_UNREADABLE", amount |-> Null]
  ELSE [status |-> "SETTLED",
        amount |-> IF Owed(price, line) > line.amount THEN Owed(price, line) ELSE line.amount]

ReconcileLine(lines, match, i) ==
  LET t == match[i].trip
      outcome == ReconcileTripRows(lines, match, t)
      reads == lines[i].amount
  IN  IF t = Null THEN [status |-> "NOT_COMPARED", amount |-> reads]
      ELSE IF ChargesOnly(lines, match, i) /\ trip[t].price # Null
      THEN ReconcileCostLine(trip[t].price, lines[i])
      ELSE [status |-> outcome.status, amount |-> IF outcome.row = i THEN outcome.to ELSE reads]

Reconcile(lines, match) == [i \in DOMAIN lines |-> ReconcileLine(lines, match, i)]

\* Yellow lines: nothing about them is settled.
Marked(match, priced) ==
  {i \in DOMAIN match :
     \/ match[i].status \in {"NOT_FOUND", "NOT_FINISHED", "AMBIGUOUS", "CONFLICT",
                             "COST_LINE_UNRESOLVED"}
     \/ priced[i].status \in {"NOT_DISTRIBUTABLE", "PRICE_UNRELIABLE", "AMOUNT_UNREADABLE"}}

-----------------------------------------------------------------------------
(* Transports the invoice does not state.                                  *)

Values(id) == {id.booking, id.container} \ {Null}

\* A trip that lacks one of its values is never missing.
Complete(id) == \A column \in Columns : id[column] # Null

\* Monday to Friday of the one week the transport lines are in.
InPeriod(lines, day) ==
  LET days == {lines[i].stated.date : i \in Transports(lines)} \ {Null}
  IN  days # {} /\ day % 7 < 5 /\ \A other \in days : Week(other) = Week(day)

\* Only what the lines say counts, not what they were found to be.
Unstated_ByIdentity(lines, match, t) ==
  /\ Closed(t) /\ ~trip[t].paid /\ Complete(IdentityOf(t)) /\ InPeriod(lines, trip[t].date)
  /\ \A i \in Transports(lines) : lines[i].stated # IdentityOf(t)

Unstated(lines, match, t) ==
  /\ Closed(t) /\ ~trip[t].paid /\ Complete(IdentityOf(t)) /\ InPeriod(lines, trip[t].date)
  /\ \A i \in Transports(lines) : lines[i].stated # IdentityOf(t)
  /\ \A i \in DOMAIN lines : ~ChargesOnly(lines, match, i) => t \notin Named(match[i])

Blocked_ByIncompleteRows(workbook, match, t) == Values(IdentityOf(t)) \cap workbook.incomplete # {}

\* A line that found no trip, or no single one, may be this transport misprinted.
Blocked(workbook, match, t) ==
  LET unresolved == {i \in DOMAIN match : match[i].status \in {"NOT_FOUND", "AMBIGUOUS", "CONFLICT"}}
      named == workbook.incomplete \cup UNION {Values(workbook.lines[i].stated) : i \in unresolved}
  IN  Values(IdentityOf(t)) \cap named # {}

Missing(workbook, match) ==
  {t \in Trips : Unstated(workbook.lines, match, t) /\ ~Blocked(workbook, match, t)}

Added(workbook, match) == IF workbook.sound THEN Missing(workbook, match) ELSE {}

AddedLine(lines, match, t) ==
  [stated |-> IdentityOf(t), charges |-> Null,
   amount |-> IF trip[t].price = Null THEN 0 ELSE Remaining(lines, match, t),
   mark   |-> [trip |-> t, stated |-> IdentityOf(t)]]

(* The corrected workbook: values and amounts corrected, lines added.      *)
Correction(r) ==
  LET job == request[r]
      lines == job.workbook.lines
      corrected == [i \in DOMAIN lines |->
                     [lines[i] EXCEPT !.stated = job.corrected[i], !.amount = job.priced[i].amount]]
      added == SetToSeq(Added(job.workbook, job.match))
  IN  [job.workbook EXCEPT
        !.lines = corrected \o [k \in DOMAIN added |-> AddedLine(lines, job.match, added[k])]]

-----------------------------------------------------------------------------
(* Payment.                                                                *)

\* Nothing asks whether the lines charging it are settled.
Payable_UnderReview(r, t) ==
  LET job == request[r]
      mine == {i \in DOMAIN job.match : job.match[i].trip = t}
  IN  IF mine = {} THEN t \in Added(job.workbook, job.match)
      ELSE \E i \in mine : job.match[i].status \in {"MATCHED", "ADDED_MISSING"}

(***************************************************************************)
(* A trip may be paid when a line of its own, or one added now, carries it,*)
(* every line charging it is settled and none is marked, and no unresolved *)
(* transport line may be it.                                               *)
(***************************************************************************)
Payable(r, t) ==
  LET job == request[r]
      lines == job.workbook.lines
      mine == {i \in DOMAIN lines : job.match[i].trip = t}
      own == {i \in mine : job.match[i].status \in {"MATCHED", "ADDED_MISSING"}}
      claiming == {i \in DOMAIN lines : /\ ~ChargesOnly(lines, job.match, i)
                                        /\ job.match[i].status \in {"AMBIGUOUS", "CONFLICT"}
                                        /\ t \in job.match[i].candidates}
      unstated == Unstated(lines, job.match, t)
      added == t \in Added(job.workbook, job.match) /\ trip[t].price # Null
  IN  /\ claiming = {}
      /\ unstated => added
      /\ own # {} \/ added
      /\ \A i \in mine : /\ job.priced[i].status = "SETTLED"
                        /\ i \notin Marked(job.match, job.priced)

-----------------------------------------------------------------------------
(* Requests.                                                               *)

\* The booking and the container written into each other's columns.
CorrectedTo_SwappedColumns(lines, match) ==
  [i \in DOMAIN lines |->
    IF match[i].fix = "none" THEN lines[i].stated
    ELSE [lines[i].stated EXCEPT ![match[i].fix] = trip[Only(match[i].candidates)].container]]

\* The values a corrected line will state, from the trips as they are now.
CorrectedTo(lines, match) ==
  [i \in DOMAIN lines |->
    IF match[i].fix = "none" THEN lines[i].stated
    ELSE [lines[i].stated EXCEPT ![match[i].fix] = IdentityOf(Only(match[i].candidates))[match[i].fix]]]

\* An upload is examined the same way whatever is asked of it: see Asked.
Match(r, workbook) ==
  /\ request[r] = Idle
  /\ Cardinality({q \in Requests : request[q].phase \in {"MATCHED", "PRICED"}}) < AtOnce
  /\ \E match \in {Matching(workbook.lines)} :
       request' = [request EXCEPT ![r] =
         [phase |-> "MATCHED", workbook |-> workbook, match |-> match,
          corrected |-> CorrectedTo(workbook.lines, match),
          paid |-> {t \in Trips : trip[t].paid /\ \E i \in DOMAIN match : match[i].trip = t}]]
  /\ UNCHANGED <<trip, files, since, settled, released, edits>>

Price(r) ==
  /\ request[r].phase = "MATCHED"
  /\ request' = [request EXCEPT ![r] =
       [phase |-> "PRICED", workbook |-> @.workbook, match |-> @.match,
        priced |-> Reconcile(@.workbook.lines, @.match), corrected |-> @.corrected,
        paid |-> @.paid]]
  /\ UNCHANGED <<trip, files, since, settled, released, edits>>

\* The operator keeps the download while they have room for another.
ReturnCorrection(r) ==
  /\ request[r].phase = "PRICED"
  /\ files' = IF Cardinality(files) < MaxVersions THEN files \cup {Correction(r)} ELSE files
  /\ request' = [request EXCEPT ![r] = Idle] /\ since' = [since EXCEPT ![r] = {}]
  /\ UNCHANGED <<trip, settled, released, edits>>

\* One chosen trip that is not payable refuses them all.
RefusePayment(r, chosen) ==
  /\ request[r].phase = "PRICED"
  /\ \E t \in chosen : ~Payable(r, t)
  /\ request' = [request EXCEPT ![r] = Idle] /\ since' = [since EXCEPT ![r] = {}]
  /\ UNCHANGED <<trip, files, settled, released, edits>>

\* Trips already paid when they were matched are left as they are.
AcceptPayment(r, chosen) ==
  /\ request[r].phase = "PRICED"
  /\ \A t \in chosen : Payable(r, t)
  /\ request' = [request EXCEPT ![r] =
       [phase |-> "ACCEPTED", pay |-> chosen \ request[r].paid]]
  /\ since' = [since EXCEPT ![r] = {}]
  /\ UNCHANGED <<trip, files, settled, released, edits>>

Settleable_Closed(t) == Closed(t)

Settleable(t) == Closed(t) /\ ~trip[t].paid

PaidOf_Each(pay) == {t \in pay : Settleable(t)}

\* All of them, as they are at this moment, or none.
PaidOf(pay) == IF \A t \in pay : Settleable(t) THEN pay ELSE {}

Settle(r) ==
  /\ request[r].phase = "ACCEPTED"
  /\ LET pay == PaidOf(request[r].pay)
     IN  /\ trip' = [t \in Trips |-> [trip[t] EXCEPT !.paid = @ \/ t \in pay]]
         /\ settled' = [t \in Trips |-> settled[t] + IF t \in pay THEN 1 ELSE 0]
  /\ request' = [request EXCEPT ![r] = Idle]
  /\ UNCHANGED <<files, since, released, edits>>

-----------------------------------------------------------------------------
(* Operators, and the customer's own hand in a workbook.                   *)

\* Two live trips never hold one booking, container and ordered date.
IdentitiesHold(table) ==
  \A t, u \in Trips :
    ( /\ "DELETED" \notin {table[t].status, table[u].status}
      /\ <<table[t].booking, table[t].container, table[t].ordered>>
           = <<table[u].booking, table[u].container, table[u].ordered>> ) => t = u

Change(t, row) ==
  /\ edits < MaxEdits /\ edits' = edits + 1
  /\ trip' = [trip EXCEPT ![t] = row] /\ trip' # trip /\ IdentitiesHold(trip')
  /\ since' = [r \in Requests |->
       IF request[r].phase \in {"MATCHED", "PRICED"} THEN since[r] \cup {t} ELSE since[r]]
  /\ UNCHANGED <<files, request, settled>>

Plan(t) ==
  /\ Live(t)
  /\ \/ \E day \in Days : Change(t, [trip[t] EXCEPT !.date = day])
     \/ \E b \in Bookings : Change(t, [trip[t] EXCEPT !.booking = b])
     \/ \E c \in Containers \cup {Null} : Change(t, [trip[t] EXCEPT !.container = c])
  /\ UNCHANGED released

Reprice(t) ==
  /\ \E p \in Prices \cup {Null} : Change(t, [trip[t] EXCEPT !.price = p])
  /\ UNCHANGED released

AllowedFrom(status) ==
  CASE status = "OPEN"      -> {"CLOSED", "CANCELLED", "DELETED"}
    [] status = "CLOSED"    -> {"OPEN", "DELETED"}
    [] status = "CANCELLED" -> {"OPEN", "DELETED"}
    [] status = "DELETED"   -> {"OPEN"}

ChangeStatus(t) ==
  /\ \E s \in AllowedFrom(trip[t].status) : Change(t, [trip[t] EXCEPT !.status = s])
  /\ UNCHANGED released

\* Payment is independent of the status.
ChangePayment(t, paid) ==
  /\ Live(t) /\ Change(t, [trip[t] EXCEPT !.paid = paid])
  /\ released' = [released EXCEPT ![t] = @ + IF paid THEN 0 ELSE 1]

\* Somebody types another identity over a line; its mark stays.
Retype(workbook, i, id) ==
  /\ edits < MaxEdits /\ edits' = edits + 1
  /\ Cardinality(files) < MaxVersions
  /\ files' = files \cup {[workbook EXCEPT !.lines[i].stated = id]}
  /\ UNCHANGED <<trip, request, since, settled, released>>

-----------------------------------------------------------------------------
Init ==
  /\ trip \in Initially
  /\ \E workbook \in Invoices : files = {workbook}
  /\ request = [r \in Requests |-> Idle]
  /\ since = [r \in Requests |-> {}]
  /\ settled = [t \in Trips |-> 0]
  /\ released = [t \in Trips |-> 0]
  /\ edits = 0

\* To correct the workbook, or to pay the trips chosen on it.
Asked(r) ==
  \/ ReturnCorrection(r)
  \/ \E chosen \in (SUBSET Trips) \ {{}} : RefusePayment(r, chosen) \/ AcceptPayment(r, chosen)

Audits(r) ==
  \/ \E workbook \in files : Match(r, workbook)
  \/ Price(r)
  \/ Asked(r)
  \/ Settle(r)

Operates(t) ==
  \/ Plan(t)
  \/ Reprice(t)
  \/ ChangeStatus(t)
  \/ \E paid \in BOOLEAN : ChangePayment(t, paid)

Retypes ==
  \E workbook \in files : \E i \in DOMAIN workbook.lines : \E t \in Trips :
    /\ Cardinality({column \in Columns : IdentityOf(t)[column] # Null}) >= 2
    /\ Retype(workbook, i, IdentityOf(t))

Next == (\E r \in Requests : Audits(r)) \/ (\E t \in Trips : Operates(t)) \/ Retypes

Spec == Init /\ [][Next]_vars

-----------------------------------------------------------------------------
(* Properties.                                                             *)

(* The trips, the workbooks and the counts have their types. *)
TypeOK ==
  /\ trip \in [Trips -> TripRow]
  /\ \A f \in files : f \in Workbook
  /\ \A r \in Requests : request[r].phase \in {"IDLE", "MATCHED", "PRICED", "ACCEPTED"}
  /\ since \in [Requests -> SUBSET Trips]
  /\ settled \in [Trips -> Nat]
  /\ released \in [Trips -> 0..edits]
  /\ edits \in 0..MaxEdits

(***************************************************************************)
(* Paid once: however many confirmations of however many versions of an    *)
(* invoice overlap, they pay a transport once, and once more for each time *)
(* an operator took the payment back.                                      *)
(***************************************************************************)
PaidOnce == \A t \in Trips : settled[t] <= 1 + released[t]

(***************************************************************************)
(* All or nothing, and only what is still true: a confirmation pays every  *)
(* transport it accepted, all finished and unpaid as it pays, or none.     *)
(***************************************************************************)
SettledTogether ==
  [][\A r \in Requests :
       request[r].phase = "ACCEPTED" /\ request'[r] # request[r] /\ trip' # trip =>
         \A t \in request[r].pay :
           /\ Closed(t) /\ ~trip[t].paid /\ trip'[t].paid
           /\ settled'[t] = settled[t] + 1]_vars

Completes(r) == request[r].phase = "PRICED" /\ request'[r].phase # "PRICED"

\* The transports a correction adds, and those of them nobody changed meanwhile.
AddedBy(r) == Added(request[r].workbook, request[r].match)
AddedQuietly(r) == AddedBy(r) \ since[r]

(***************************************************************************)
(* A correction never makes a line of the workbook and another line say    *)
(* the same when they said different things, neither by correcting one nor *)
(* by adding a transport -- unless the two are transports planned alike.   *)
(* (Two live transports may share the planned day, booking and container   *)
(* when the days they were ordered for differ: no line can tell them       *)
(* apart.  A transport an operator changed since the matching is exempt.)  *)
(***************************************************************************)
StatedOnce ==
  [][\A r \in Requests : Completes(r) =>
       LET old == request[r].workbook.lines
           new == Correction(r).lines
           mine(i) == ~ChargesOnly(old, request[r].match, i)
           given == {i \in DOMAIN old : mine(i)}
           quiet == {i \in DOMAIN new \ DOMAIN old : new[i].mark.trip \in AddedQuietly(r)}
           another(i, t) == /\ request[r].match[i].trip \notin {t, Null}
                            /\ \/ request[r].match[i].trip \in since[r]
                               \/ Cardinality(Agrees(new[i].stated, request[r].match[i].trip)) = 3
       IN  /\ \A i, j \in given : new[i].stated = new[j].stated => old[i].stated = old[j].stated
           /\ \A i \in given : \A j \in quiet :
                new[i].stated = new[j].stated => another(i, new[j].mark.trip)]_vars

ApartlyAdded(r) ==
  \A t \in AddedBy(r) :
    LET job == request[r]
        lines == job.workbook.lines
    IN  /\ Values(IdentityOf(t)) \cap job.workbook.incomplete = {}
        /\ \A i \in Transports(lines) :
             (/\ ~WasAddedByAudit(lines[i])
              /\ Values(lines[i].stated) \cap Values(IdentityOf(t)) # {}) =>
                Named(job.match[i]) # {} /\ t \notin Named(job.match[i])

(***************************************************************************)
(* A transport is added only when no line of the customer can be it: every *)
(* line that names its booking or its container was found to be something  *)
(* else, and no row too incomplete to be a line names either.              *)
(***************************************************************************)
AddedApart ==
  [][\A r \in Requests : Completes(r) => ApartlyAdded(r)]_vars

OnceAdded(r) ==
  LET lines == request[r].workbook.lines
  IN  \A t \in AddedBy(r) : \A i \in Transports(lines) :
        \/ Cardinality(Agrees(lines[i].stated, t)) < 2
        \/ SharingAtLeast(3, lines[i].stated) \ {t} # {}

(***************************************************************************)
(* Added once: a workbook never gets a line for a transport while one of   *)
(* its lines -- the customer's, or the one added before when it comes back *)
(* -- can still be told to be that transport's: it shares two values with  *)
(* it and states no other outright.  (Which transport the mark of an added *)
(* line recorded is never read: see README.)                               *)
(***************************************************************************)
AddedOnce ==
  [][\A r \in Requests : Completes(r) /\ since[r] = {} => OnceAdded(r)]_vars

(***************************************************************************)
(* Paid in full: a transport accepted for payment is carried, in the       *)
(* correction made for that payment, by the lines found to be it and the   *)
(* one added for it.  Each states all three of its values -- or two, when  *)
(* it was added before or the transport holds no third --, and together    *)
(* with its cost lines they charge no less than its price.                 *)
(***************************************************************************)
PaidInFull ==
  [][\A r \in Requests : Completes(r) /\ request'[r].phase = "ACCEPTED" =>
       \A t \in request'[r].pay \ since[r] :
         LET job == request[r]
             old == job.workbook.lines
             lines == Correction(r).lines
             carrying == Carrying(old, job.match, t)
                           \cup {i \in DOMAIN lines \ DOMAIN old : lines[i].mark.trip = t}
         IN  /\ carrying # {} /\ trip[t].price # Null
             /\ \A i \in carrying :
                  LET agreed == Agrees(lines[i].stated, t)
                  IN  /\ lines[i].amount # Null
                      /\ \/ Cardinality(agreed) = 3
                         \/ /\ Cardinality(agreed) = 2
                            /\ \/ WasAddedByAudit(lines[i])
                               \/ \A column \in Columns \ agreed : IdentityOf(t)[column] = Null
             /\ Stated(lines, carrying \cup Charging(old, job.match, t))
                  >= trip[t].price.total]_vars
=============================================================================
