--------------------------- MODULE TripLifecycle ---------------------------
(***************************************************************************)
(* The `trip` table and the requests that write it: the operators' calls   *)
(* of TripService and the transport documents carried out by               *)
(* TripRevisionService.                                                    *)
(*                                                                         *)
(* Postgres runs at READ COMMITTED, so a request is a sequence of          *)
(* statements and other requests commit between them: what a request read  *)
(* is kept in its own record (`row`) and written back from there, exactly  *)
(* where the code does so.  The writes of one transaction are one step,    *)
(* because the row lock of its first write keeps the others out until it   *)
(* commits.                                                                *)
(*                                                                         *)
(* Left to other modules: the driver columns, the route choice and the     *)
(* pricing that follows a commit (see README).                             *)
(***************************************************************************)
EXTENDS Naturals, FiniteSets

CONSTANTS
  Trips,                     \* row identifiers, used or not yet
  Requests,                  \* requests that may be in flight together
  Bookings, NoBooking,       \* booking_number and its null
  Containers, NoContainer,   \* container numbers without formatting; null
  Typed,                     \* container numbers as people write them
  Canonical,                 \* Canonical[c]: what is left of c unformatted
  Days, NoDay,               \* calendar days and the null date
  Groups, NoGroup,           \* trip_group rows and "in no group"
  Orders, NoOrder,           \* the document data a trip carries; none by hand
  Documents,                 \* transport orders that may arrive
  Entries,                   \* trips operators may create by hand
  Operations                 \* the operations this instance exercises

Statuses == {"OPEN", "CLOSED", "CANCELLED", "DELETED"}

Document == [booking : Bookings, container : Containers \cup {NoContainer},
             day : Days, order : Orders]

ASSUME NullsAreNotValues ==
  /\ NoBooking \notin Bookings
  /\ NoContainer \notin Containers
  /\ NoDay \notin Days
  /\ NoGroup \notin Groups
  /\ NoOrder \notin Orders

(* normalizeContainerNumber: spaces and slashes go, and what was nothing    *)
(* else is no container.                                                   *)
ASSUME FormattingIsDropped ==
  /\ Containers \subseteq Typed
  /\ NoContainer \notin Typed
  /\ Canonical \in [Typed -> Containers \cup {NoContainer}]
  /\ \A c \in Containers : Canonical[c] = c

ASSUME DocumentsAreDocuments == Documents \subseteq Document

(* What an operator states of a new trip; `stated` is the original date.   *)
Entry == [booking : Bookings \cup {NoBooking}, container : Typed \cup {NoContainer},
          stated : Days \cup {NoDay}, day : Days \cup {NoDay}]

ASSUME EntriesAreEntries == Entries \subseteq Entry

VARIABLES
  trip,     \* trip[t]: the row of t; status "NONE" before it is inserted
  request   \* request[p]: what the request in slot p has read and will do

vars == <<trip, request>>

Row == [status    : Statuses \cup {"NONE"},
        booking   : Bookings \cup {NoBooking},
        container : Typed \cup {NoContainer},
        orig      : Days \cup {NoDay},        \* original_planning_date
        day       : Days \cup {NoDay},        \* planning_date
        group     : Groups \cup {NoGroup},
        loose     : BOOLEAN,
        order     : Orders \cup {NoOrder}]

NoRow == [status |-> "NONE", booking |-> NoBooking, container |-> NoContainer,
          orig |-> NoDay, day |-> NoDay, group |-> NoGroup, loose |-> FALSE,
          order |-> NoOrder]

(* The one column an operator's PATCH changes. *)
Edit ==      [field : {"booking"}, value : Bookings]
        \cup [field : {"container"}, value : Typed \cup {NoContainer}]
        \cup [field : {"day"}, value : Days]
        \cup [field : {"none"}, value : {NoDay}]

NoEdit == [field |-> "none", value |-> NoDay]

Phases == {"idle", "validated", "verified", "duplicate", "match", "missing",
           "apply", "cas", "reread"}

OperationNames == {"NONE", "CREATE", "EDIT", "STATUS", "COMPLETE", "DELETE",
                   "RESTORE", "GROUP", "UNGROUP", "LOOSE", "NEW", "UPDATE",
                   "CANCEL"}

Outcomes == {"NONE", "DONE", "REFUSED", "CONSTRAINT_VIOLATION", "CANCELLED",
             "ALREADY_CANCELLED", "REFUSED_CLOSED"}

Request == [op : OperationNames, phase : Phases,
            ids : SUBSET Trips,             \* the trips it will write
            row : Row,                      \* the row it read, or will write
            reopens : BOOLEAN,              \* it found the trip CANCELLED
            to : Statuses,                  \* the status it will set
            edit : Edit,                    \* the column it will change
            docs : SUBSET Documents,        \* transports still to carry out
            missing : SUBSET Documents,     \* transports that matched no trip
            outcome : Outcomes]             \* its last answer

Idle(outcome) ==
  [op |-> "NONE", phase |-> "idle", ids |-> {}, row |-> NoRow,
   reopens |-> FALSE, to |-> "OPEN", edit |-> NoEdit, docs |-> {},
   missing |-> {}, outcome |-> outcome]

(* An operator named X_Y is X with the bug Y: no action of Next uses it,   *)
(* the runs check that the properties would notice it.                     *)

---------------------------------------------------------------------------
(* Rules and lookups.                                                      *)

(* ALLOWED_TRANSITIONS: the moves the status endpoint may make. *)
AllowedTransitions ==
  [from \in Statuses |->
     CASE from = "OPEN"      -> {"CLOSED", "CANCELLED"}
       [] from = "CLOSED"    -> {"OPEN"}
       [] from = "CANCELLED" -> {"OPEN"}
       [] from = "DELETED"   -> {}]

CanTransition(from, to) == to \in AllowedTransitions[from]

DeletableFrom == {"OPEN", "CANCELLED", "CLOSED"}

(* BOOKING_NUMBER_HOLDING_STATUSES. *)
Holding == {"OPEN", "CLOSED", "CANCELLED"}

Exists(t) == trip[t].status # "NONE"

Holds(t) == trip[t].status \in Holding

Identity(r) == <<r.booking, r.container, r.orig>>

(* toContainerIdentity. *)
ToContainerIdentity(c) == IF c = NoContainer THEN NoContainer ELSE Canonical[c]

DocumentIdentity(d) == <<d.booking, d.container, d.day>>

HoldersOf_IgnoresCancelled(identity) ==
  {t \in Trips : trip[t].status \in {"OPEN", "CLOSED"} /\ Identity(trip[t]) = identity}

(* findByIdentity: the live trips that hold an identity. *)
HoldersOf(identity) == {t \in Trips : Holds(t) /\ Identity(trip[t]) = identity}

OnSameDay_OriginalDate(r) ==
  {t \in Trips : /\ Holds(t)
                 /\ trip[t].booking = r.booking
                 /\ trip[t].container = r.container
                 /\ trip[t].orig = r.day}

(* findByBookingOnPlanningDate, for the row r that an edit would leave. *)
OnSameDay(r) ==
  {t \in Trips : /\ Holds(t)
                 /\ trip[t].booking = r.booking
                 /\ trip[t].container = r.container
                 /\ trip[t].day = r.day}

(* findManyByBookingNumberAndOriginalDate. *)
OnBookingAndDate(d) ==
  {t \in Trips : Holds(t) /\ trip[t].booking = d.booking /\ trip[t].orig = d.day}

Resolve_BookingOnly(d) == OnBookingAndDate(d)

Resolve_NoFallback(d) == HoldersOf(DocumentIdentity(d))

(***************************************************************************)
(* resolveTripForDocument: the trip holding the document's whole identity  *)
(* when it prints a container; failing that, every trip of that booking on *)
(* that original date.  One answer is a match, several an ambiguity.       *)
(***************************************************************************)
Resolve(d) ==
  IF d.container # NoContainer /\ HoldersOf(DocumentIdentity(d)) # {}
    THEN HoldersOf(DocumentIdentity(d))
    ELSE OnBookingAndDate(d)

(***************************************************************************)
(* The partial unique index trip_identity_key: NULLS NOT DISTINCT, so an   *)
(* absent booking, container or date is a value like any other.            *)
(***************************************************************************)
IdentityKeyHolds(table) ==
  \A t, u \in Trips :
    (/\ t # u
     /\ table[t].status \in Holding
     /\ table[u].status \in Holding)
       => Identity(table[t]) # Identity(table[u])

Commit_NoIndex(p, table, next) ==
  trip' = table /\ request' = [request EXCEPT ![p] = next]

(***************************************************************************)
(* One transaction's commit: the database takes the new table, or its      *)
(* index refuses it and the whole transaction rolls back.                  *)
(***************************************************************************)
Commit(p, table, next) ==
  IF IdentityKeyHolds(table)
    THEN trip' = table /\ request' = [request EXCEPT ![p] = next]
    ELSE /\ request' = [request EXCEPT ![p] = Idle("CONSTRAINT_VIOLATION")]
         /\ UNCHANGED trip

(* A step of request p that writes no trip. *)
Become(p, next) ==
  /\ request' = [request EXCEPT ![p] = next]
  /\ UNCHANGED trip

(* Request p begins `op` on the trips of ids. *)
Opened(op, phase, ids) ==
  [Idle("NONE") EXCEPT !.op = op, !.phase = phase, !.ids = ids]

(* The same, keeping the row it read of its one trip. *)
OpenedOn(op, t) == [Opened(op, "validated", {t}) EXCEPT !.row = trip[t]]

MayStart(p, op) == request[p].phase = "idle" /\ op \in Operations

At(p, op, phase) == request[p].op = op /\ request[p].phase = phase

(* The table with the rows of ids replaced by f of them. *)
Rewritten(ids, f(_)) == [t \in Trips |-> IF t \in ids THEN f(trip[t]) ELSE trip[t]]

---------------------------------------------------------------------------
(* Status changes.  Every one of them validates a row it read outside the  *)
(* transaction that writes it.                                             *)

(* changeStatus, up to its transaction. *)
ChangeStatus(p, t, to) ==
  /\ MayStart(p, "STATUS")
  /\ Exists(t)
  /\ trip[t].status # to
  /\ CanTransition(trip[t].status, to)
  /\ Become(p, [OpenedOn("STATUS", t) EXCEPT !.to = to])

(* softDelete, up to its write. *)
SoftDelete(p, t) ==
  /\ MayStart(p, "DELETE")
  /\ trip[t].status \in DeletableFrom
  /\ Become(p, [OpenedOn("DELETE", t) EXCEPT !.to = "DELETED"])

(* restore, up to its transaction. *)
Restore(p, t) ==
  /\ MayStart(p, "RESTORE")
  /\ trip[t].status = "DELETED"
  /\ Become(p, [OpenedOn("RESTORE", t) EXCEPT !.to = "OPEN"])

(* completeMany, up to its transaction: every trip still to close must be  *)
(* closable, or none is.                                                   *)
CompleteMany(p, ids) ==
  LET toClose == {t \in ids : trip[t].status # "CLOSED"} IN
  /\ MayStart(p, "COMPLETE")
  /\ ids # {}
  /\ \A t \in ids : Exists(t)
  /\ \A t \in toClose : CanTransition(trip[t].status, "CLOSED")
  /\ Become(p, [Opened("COMPLETE", "validated", toClose) EXCEPT !.to = "CLOSED"])

StatusOps == {"STATUS", "DELETE", "RESTORE", "COMPLETE"}

MustReclaim_StatusOnly(r) ==
  r.op = "STATUS" /\ r.to = "OPEN" /\ r.row.booking # NoBooking

(* Going back to OPEN re-acquires the identity, when there is a booking. *)
MustReclaim(r) ==
  /\ r.op \in {"STATUS", "RESTORE"}
  /\ r.to = "OPEN"
  /\ r.row.booking # NoBooking

(* assertReclaimable: no other live trip holds the identity that was read. *)
AssertReclaimable(p) ==
  LET r == request[p] IN
  /\ r.phase = "validated"
  /\ MustReclaim(r)
  /\ IF HoldersOf(Identity(r.row)) \ r.ids # {}
       THEN Become(p, Idle("REFUSED"))
       ELSE Become(p, [r EXCEPT !.phase = "verified"])

(* setStatus: writes the status whatever the row holds by now. *)
SetStatus(p) ==
  LET r      == request[p]
      Set(x) == [x EXCEPT !.status = r.to]
  IN /\ r.op \in StatusOps
     /\ \/ r.phase = "validated" /\ ~MustReclaim(r)
        \/ r.phase = "verified"
     /\ Commit(p, Rewritten(r.ids, Set), Idle("DONE"))

---------------------------------------------------------------------------
(* Groups and the loose classification.                                    *)

(* createGroup, its reads: at least two trips, none of them in a group. *)
CreateGroup(p, ids) ==
  /\ MayStart(p, "GROUP")
  /\ Cardinality(ids) >= 2
  /\ \A t \in ids : Exists(t) /\ trip[t].group = NoGroup
  /\ Become(p, Opened("GROUP", "validated", ids))

(* createTripGroup: a row of trip_group that no trip uses yet. *)
FreshGroups == {g \in Groups : \A t \in Trips : trip[t].group # g}

(* createGroup, its writes: every named trip is put in a new group. *)
AssignToGroup(p, g) ==
  LET r       == request[p]
      Join(x) == [x EXCEPT !.group = g]
  IN /\ At(p, "GROUP", "validated")
     /\ g \in FreshGroups
     /\ Commit(p, Rewritten(r.ids, Join), Idle("DONE"))

(* removeFromGroup, its read. *)
RemoveFromGroup(p, t) ==
  /\ MayStart(p, "UNGROUP")
  /\ Exists(t)
  /\ trip[t].group # NoGroup
  /\ Become(p, OpenedOn("UNGROUP", t))

(* removeFromGroup, its write. *)
LeaveGroup(p) ==
  LET r        == request[p]
      Leave(x) == [x EXCEPT !.group = NoGroup]
  IN /\ At(p, "UNGROUP", "validated")
     /\ Commit(p, Rewritten(r.ids, Leave), Idle("DONE"))

(* markManyLoose, its checks: all or none. *)
MarkManyLoose(p, ids) ==
  /\ MayStart(p, "LOOSE")
  /\ ids # {}
  /\ \A t \in ids : /\ Exists(t)
                    /\ trip[t].status # "DELETED"
                    /\ trip[t].group = NoGroup
  /\ Become(p, Opened("LOOSE", "validated", {t \in ids : ~trip[t].loose}))

(* markManyLoose, its write. *)
WriteLoose(p) ==
  LET r       == request[p]
      Mark(x) == [x EXCEPT !.loose = TRUE]
  IN /\ At(p, "LOOSE", "validated")
     /\ Commit(p, Rewritten(r.ids, Mark), Idle("DONE"))

---------------------------------------------------------------------------
(* Creating a trip by hand and editing one.                                *)

(* create, its check: only a trip with a booking number has its identity   *)
(* looked up, with the container unformatted.  The row has the container   *)
(* as it was typed.  The original date is the one stated, or the planning  *)
(* date.                                                                   *)
CreateTrip(p, e) ==
  LET orig == IF e.stated = NoDay THEN e.day ELSE e.stated
      row  == [NoRow EXCEPT !.status = "OPEN", !.booking = e.booking,
                            !.container = e.container, !.orig = orig, !.day = e.day]
  IN /\ MayStart(p, "CREATE")
     /\ e.booking # NoBooking =>
          HoldersOf(<<e.booking, ToContainerIdentity(e.container), orig>>) = {}
     /\ Become(p, [Opened("CREATE", "validated", {}) EXCEPT !.row = row])

(* create, its insert. *)
InsertTrip(p, t) ==
  LET r == request[p] IN
  /\ At(p, "CREATE", "validated")
  /\ ~Exists(t)
  /\ Commit(p, [trip EXCEPT ![t] = r.row], Idle("DONE"))

(* toUpdateData: an edit stores a container unformatted. *)
Edited(row, e) ==
  CASE e.field = "booking"   -> [row EXCEPT !.booking = e.value]
    [] e.field = "container" -> [row EXCEPT !.container = ToContainerIdentity(e.value)]
    [] e.field = "day"       -> [row EXCEPT !.day = e.value]
    [] OTHER                 -> row

(* assertNotDuplicateAfterEdit: the identity and the planning day the edit *)
(* would leave the trip on must be nobody else's.                          *)
UpdateTrip(p, t, e) ==
  LET after == Edited(trip[t], e) IN
  /\ MayStart(p, "EDIT")
  /\ Exists(t)
  /\ after # trip[t]
  /\ after.booking # NoBooking =>
       (HoldersOf(Identity(after)) \cup OnSameDay(after)) \ {t} = {}
  /\ Become(p, [OpenedOn("EDIT", t) EXCEPT !.edit = e, !.row = after])

(* writeUpdate: only the column the request named. *)
WriteUpdate(p) ==
  LET r        == request[p]
      Write(x) == Edited(x, r.edit)
  IN /\ At(p, "EDIT", "validated")
     /\ Commit(p, Rewritten(r.ids, Write), Idle("DONE"))

---------------------------------------------------------------------------
(* Transport documents.  A document names one transport, or the two legs   *)
(* of a combination.                                                       *)

(* A document's transports: one or two, with different identities. *)
Transports == {docs \in SUBSET Documents :
                 /\ docs # {}
                 /\ Cardinality(docs) <= 2
                 /\ \A d, e \in docs : d # e => DocumentIdentity(d) # DocumentIdentity(e)}

RowOf_SwappedColumns(d, g) ==
  [NoRow EXCEPT !.status = "OPEN", !.booking = d.container,
                !.container = d.booking, !.orig = d.day, !.day = d.day,
                !.group = g, !.order = d.order]

(* The row importTrips inserts for transport d. *)
RowOf(d, g) ==
  [NoRow EXCEPT !.status = "OPEN", !.booking = d.booking,
                !.container = d.container, !.orig = d.day, !.day = d.day,
                !.group = g, !.order = d.order]

(* importTrips, its checks for a NEW order.  An identity that is taken     *)
(* turns the order into a restatement of the trips that hold it.           *)
ImportNew(p, docs) ==
  /\ MayStart(p, "NEW")
  /\ Become(p, [Opened("NEW",
                       IF \E d \in docs : HoldersOf(DocumentIdentity(d)) # {}
                         THEN "duplicate" ELSE "validated", {})
                  EXCEPT !.missing = docs])

(* createFromRevision: importTrips' checks for what an update did not find. *)
ImportMissing(p) ==
  LET r == request[p] IN
  /\ At(p, "UPDATE", "missing")
  /\ IF \E d \in r.missing : HoldersOf(DocumentIdentity(d)) # {}
       THEN Become(p, Idle("REFUSED"))
       ELSE Become(p, [r EXCEPT !.phase = "validated"])

(* importTrips, its inserts, all in one transaction.  They share a new     *)
(* group when every leg of a combination is inserted.                      *)
ImportTrips(p, at, g) ==
  LET r == request[p] IN
  /\ r.op \in {"NEW", "UPDATE"}
  /\ r.phase = "validated"
  /\ g \in IF Cardinality(r.missing) = 2 THEN FreshGroups ELSE {NoGroup}
  /\ DOMAIN at = r.missing
  /\ \A d \in r.missing : ~Exists(at[d])
  /\ \A d, e \in r.missing : d # e => at[d] # at[e]
  /\ Commit(p,
            [t \in Trips |-> IF \E d \in r.missing : at[d] = t
                               THEN RowOf(CHOOSE d \in r.missing : at[d] = t, g)
                               ELSE trip[t]],
            Idle("DONE"))

(* The bound on rows and groups: an insert that finds too few of them      *)
(* unused is given up.                                                     *)
NoRoom(p) ==
  LET r     == request[p]
      needs == IF r.op = "CREATE" THEN 1 ELSE Cardinality(r.missing)
  IN /\ r.op \in {"CREATE", "NEW", "UPDATE", "GROUP"}
     /\ r.phase = "validated"
     /\ \/ Cardinality({t \in Trips : ~Exists(t)}) < needs
        \/ (needs = 2 \/ r.op = "GROUP") /\ FreshGroups = {}
     /\ Become(p, Idle("REFUSED"))

(* assertEveryIdentityHeld, before a repeated NEW is applied. *)
AssertEveryIdentityHeld(p) ==
  LET r == request[p] IN
  /\ At(p, "NEW", "duplicate")
  /\ IF \A d \in r.missing : HoldersOf(DocumentIdentity(d)) # {}
       THEN Become(p, [r EXCEPT !.phase = "match", !.docs = r.missing, !.missing = {}])
       ELSE Become(p, Idle("REFUSED"))

(* An update, or a cancellation, arrives. *)
ReceiveDocument(p, op, docs) ==
  /\ op \in {"UPDATE", "CANCEL"}
  /\ MayStart(p, op)
  /\ Become(p, [Opened(op, "match", {}) EXCEPT !.docs = docs])

(* Once transport d is dealt with: the next one, what was missing, the end. *)
Continue(r, docs, missing, outcome) ==
  IF docs = {} /\ missing = {}
    THEN Idle(outcome)
    ELSE [r EXCEPT !.phase = IF docs = {} THEN "missing" ELSE "match",
                   !.ids = {}, !.row = NoRow, !.reopens = FALSE,
                   !.docs = docs, !.missing = missing, !.outcome = outcome]

(* hasOperatorMovedTheTrip. *)
MovedByOperator(row) ==
  row.day # NoDay /\ row.orig # NoDay /\ row.day # row.orig

Revised_ErasesContainer(row, d) ==
  [row EXCEPT !.container = d.container,
              !.day = IF MovedByOperator(row) THEN @ ELSE d.day,
              !.order = d.order]

Revised_MovesDay(row, d) ==
  [row EXCEPT !.container = IF d.container = NoContainer THEN @ ELSE d.container,
              !.day = d.day, !.order = d.order]

(* toRevisedFields: what d makes of the row that was read.  A document     *)
(* without a container keeps the one that was read, and a day the operator *)
(* moved stays.                                                            *)
Revised(row, d) ==
  [row EXCEPT !.container = IF d.container = NoContainer THEN @ ELSE d.container,
              !.day = IF MovedByOperator(row) THEN @ ELSE d.day,
              !.order = d.order]

Finished_Never(t) == FALSE

(* A CLOSED trip is finished work: a document is refused, not applied. *)
Finished(t) == trip[t].status = "CLOSED"

(* The request read t for transport d and knows what it will write. *)
Matched(r, t, d) ==
  [r EXCEPT !.phase = "apply", !.ids = {t}, !.row = Revised(trip[t], d),
            !.reopens = (trip[t].status = "CANCELLED"), !.docs = @ \ {d}]

(* applyNewOrder, its lookup: by the whole identity, never further. *)
MatchNew(p, d) ==
  LET r       == request[p]
      holders == HoldersOf(DocumentIdentity(d))
  IN /\ At(p, "NEW", "match")
     /\ d \in r.docs
     /\ \/ /\ holders = {}
           /\ Become(p, Continue(r, r.docs \ {d}, {}, "REFUSED"))
        \/ \E t \in holders :
             IF Finished(t)
               THEN Become(p, Continue(r, r.docs \ {d}, {}, "REFUSED_CLOSED"))
               ELSE Become(p, Matched(r, t, d))

(* applyDocumentRevision, its lookup.  A refusal ends the whole document;  *)
(* a transport nobody holds is kept for the end.                           *)
MatchUpdate(p, d) ==
  LET r == request[p] IN
  /\ At(p, "UPDATE", "match")
  /\ d \in r.docs
  /\ \/ /\ Cardinality(Resolve(d)) > 1
        /\ Become(p, Idle("REFUSED"))
     \/ /\ Resolve(d) = {}
        /\ Become(p, Continue(r, r.docs \ {d}, r.missing \cup {d}, "NONE"))
     \/ \E t \in Trips :
          /\ Resolve(d) = {t}
          /\ IF Finished(t)
               THEN Become(p, Idle("REFUSED_CLOSED"))
               ELSE Become(p, Matched(r, t, d))

(* applyDocumentRevision and applyNewOrder, their writes: the fields that  *)
(* were computed from the row as it was read, and OPEN if it was CANCELLED *)
(* then.                                                                   *)
ApplyDocument(p) ==
  LET r        == request[p]
      Write(x) == [x EXCEPT !.container = r.row.container, !.day = r.row.day,
                            !.order = r.row.order,
                            !.status = IF r.reopens THEN "OPEN" ELSE @]
  IN /\ r.op \in {"NEW", "UPDATE"}
     /\ r.phase = "apply"
     /\ Commit(p, Rewritten(r.ids, Write), Continue(r, r.docs, r.missing, "DONE"))

(* cancelByIdentity, its lookup. *)
MatchCancel(p, d) ==
  LET r == request[p] IN
  /\ At(p, "CANCEL", "match")
  /\ d \in r.docs
  /\ \/ /\ Cardinality(Resolve(d)) # 1
        /\ Become(p, Continue(r, r.docs \ {d}, {}, "REFUSED"))
     \/ \E t \in Trips :
          /\ Resolve(d) = {t}
          /\ CASE trip[t].status = "OPEN" ->
                    Become(p, [r EXCEPT !.phase = "cas", !.ids = {t},
                                        !.row = trip[t], !.docs = @ \ {d},
                                        !.outcome = "NONE"])
               [] trip[t].status = "CANCELLED" ->
                    Become(p, Continue(r, r.docs \ {d}, {}, "ALREADY_CANCELLED"))
               [] trip[t].status = "CLOSED" ->
                    Become(p, Continue(r, r.docs \ {d}, {}, "REFUSED_CLOSED"))

TransitionStatus_Unconditional(p, t) ==
  /\ At(p, "CANCEL", "cas")
  /\ t \in request[p].ids
  /\ Commit(p, [trip EXCEPT ![t].status = "CANCELLED"],
            Continue(request[p], request[p].docs, {}, "CANCELLED"))

TransitionStatus_WaitsForOpen(p, t) ==
  /\ At(p, "CANCEL", "cas")
  /\ t \in request[p].ids
  /\ trip[t].status = "OPEN"
  /\ Commit(p, [trip EXCEPT ![t].status = "CANCELLED"],
            Continue(request[p], request[p].docs, {}, "CANCELLED"))

(* transitionStatus: compare-and-set from OPEN to CANCELLED. *)
TransitionStatus(p, t) ==
  LET r == request[p] IN
  /\ At(p, "CANCEL", "cas")
  /\ t \in r.ids
  /\ IF trip[t].status = "OPEN"
       THEN Commit(p, [trip EXCEPT ![t].status = "CANCELLED"],
                   Continue(r, r.docs, {}, "CANCELLED"))
       ELSE Become(p, [r EXCEPT !.phase = "reread"])

(* cancelByIdentity after a lost race: the answer follows a second read. *)
RereadCancelled(p, t) ==
  LET r == request[p] IN
  /\ At(p, "CANCEL", "reread")
  /\ t \in r.ids
  /\ Become(p, Continue(r, r.docs, {},
                     IF trip[t].status = "CANCELLED" THEN "ALREADY_CANCELLED"
                                                     ELSE "REFUSED_CLOSED"))

---------------------------------------------------------------------------
Init ==
  /\ trip = [t \in Trips |-> NoRow]
  /\ request = [p \in Requests |-> Idle("NONE")]

(* A request arrives in slot p. *)
Arrives(p) ==
  \/ \E t \in Trips :
       \/ \E to \in Statuses \ {"DELETED"} : ChangeStatus(p, t, to)
       \/ SoftDelete(p, t)
       \/ Restore(p, t)
       \/ RemoveFromGroup(p, t)
       \/ \E e \in Edit : UpdateTrip(p, t, e)
  \/ \E ids \in SUBSET Trips :
       CompleteMany(p, ids) \/ CreateGroup(p, ids) \/ MarkManyLoose(p, ids)
  \/ \E e \in Entries : CreateTrip(p, e)
  \/ \E docs \in Transports :
       \/ ImportNew(p, docs)
       \/ \E op \in {"UPDATE", "CANCEL"} : ReceiveDocument(p, op, docs)

(* The request in slot p takes its next step. *)
Advances(p) ==
  \/ AssertReclaimable(p) \/ SetStatus(p)
  \/ \E g \in Groups : AssignToGroup(p, g)
  \/ LeaveGroup(p) \/ WriteLoose(p) \/ WriteUpdate(p)
  \/ \E t \in Trips : InsertTrip(p, t)
  \/ AssertEveryIdentityHeld(p) \/ ImportMissing(p) \/ NoRoom(p)
  \/ \E at \in [request[p].missing -> Trips], g \in Groups \cup {NoGroup} :
       ImportTrips(p, at, g)
  \/ \E d \in request[p].docs :
       MatchNew(p, d) \/ MatchUpdate(p, d) \/ MatchCancel(p, d)
  \/ ApplyDocument(p)
  \/ \E t \in Trips : TransitionStatus(p, t) \/ RereadCancelled(p, t)

Next == \E p \in Requests : Arrives(p) \/ Advances(p)

Spec == Init /\ [][Next]_vars

(* Node runs every promise chain to its end: a request that was accepted   *)
(* always takes its next step.  Nothing obliges a request to arrive.       *)
FairSpec == Spec /\ \A p \in Requests : WF_vars(Advances(p))

---------------------------------------------------------------------------
TypeOK ==
  /\ trip \in [Trips -> Row]
  /\ request \in [Requests -> Request]

(* What the index keeps true of the table. *)
IdentityIsUnique == IdentityKeyHolds(trip)

(* The step is one of a document in slot p. *)
DocumentStep(p) ==
  request[p].op \in {"NEW", "UPDATE", "CANCEL"} /\ request'[p] # request[p]

(* A cancellation moves a trip from OPEN to CANCELLED or leaves every row  *)
(* as it is, it never writes another column, and it answers CANCELLED      *)
(* exactly when it moved one - though the trip may have been closed,       *)
(* deleted or re-planned since it was matched (cancelByIdentity).          *)
CancelStep ==
  \A p \in Requests : DocumentStep(p) /\ request[p].op = "CANCEL" =>
    /\ \A t \in Trips : trip'[t] # trip[t] =>
         /\ trip[t].status = "OPEN"
         /\ trip'[t] = [trip[t] EXCEPT !.status = "CANCELLED"]
    /\ At(p, "CANCEL", "cas") =>
         (trip' # trip <=> request'[p].outcome = "CANCELLED")

CancelsOnlyOpenWork == [][CancelStep]_vars

(* Finished, priced work is never rewritten by a document: a row that is   *)
(* CLOSED keeps every column through an order, an update or a cancellation *)
(* (applyDocumentRevision, applyNewOrder, cancelByIdentity).               *)
ClosedStaysStep ==
  \A p \in Requests, t \in Trips :
    DocumentStep(p) /\ trip[t].status = "CLOSED" => trip'[t] = trip[t]

RevisionLeavesClosedAlone == [][ClosedStaysStep]_vars

(* A document never erases a container: what an operator entered survives  *)
(* every later document that prints none (toRevisedFields).                *)
ContainerStaysStep ==
  \A p \in Requests, t \in Trips :
    DocumentStep(p) /\ Exists(t) /\ trip[t].container # NoContainer
      => trip'[t].container # NoContainer

ContainerNeverErased == [][ContainerStaysStep]_vars

(* A planned day the operator moved away from the original date is not     *)
(* undone by a document (hasOperatorMovedTheTrip).                         *)
PlannedDayStep ==
  \A p \in Requests, t \in Trips :
    DocumentStep(p) /\ Exists(t) /\ MovedByOperator(trip[t])
      => trip'[t].day = trip[t].day

PlannedDayKept == [][PlannedDayStep]_vars

(* A document that names the container a live trip has stored reaches that *)
(* trip, however many other trips share its booking and date: it is        *)
(* neither ambiguous nor missing (resolveTripForDocument, phase 1 before   *)
(* phase 2).  A trip stored as it was typed is another matter: see         *)
(* TypedContainerIsReached.                                                *)
NamedContainerStep ==
  \A p \in Requests, d \in Documents, t \in Trips :
    /\ request[p].phase = "match"
    /\ request[p].docs = {d}
    /\ DocumentStep(p)
    /\ d.container # NoContainer
    /\ t \in HoldersOf(DocumentIdentity(d))
    /\ trip[t].status = "OPEN"
    => request'[p].ids = {t}

NamedContainerIsReached == [][NamedContainerStep]_vars

(* The same of a trip an operator created with the container as a document *)
(* prints it: "the Trip holds `EUCU1451295`, which is what every later     *)
(* document is matched against" (create, toContainerIdentity).             *)
TypedContainerStep ==
  \A p \in Requests, d \in Documents, t \in Trips :
    /\ request[p].phase = "match"
    /\ request[p].docs = {d}
    /\ DocumentStep(p)
    /\ trip[t].status = "OPEN"
    /\ trip[t].booking = d.booking /\ trip[t].orig = d.day
    /\ d.container # NoContainer
    /\ ToContainerIdentity(trip[t].container) = d.container
    => request'[p].ids = {t}

TypedContainerIsReached == [][TypedContainerStep]_vars

(* An update never adds a trip to a booking and date that already hold a   *)
(* live one: what it cannot tell apart it refuses, and only a transport    *)
(* nobody holds is created (applyDocumentRevision, createFromRevision).    *)
UpdateAddsStep ==
  \A p \in Requests, t \in Trips :
    DocumentStep(p) /\ request[p].op = "UPDATE" /\ ~Exists(t)
      => \/ trip'[t] = trip[t]
         \/ \A u \in Trips : Holds(u) =>
              <<trip[u].booking, trip[u].orig>> # <<trip'[t].booking, trip'[t].orig>>

UpdateNeverAddsToAmbiguity == [][UpdateAddsStep]_vars

(* The lifecycle of trip-status.rules: a row is inserted OPEN, CLOSED and  *)
(* CANCELLED lead back to OPEN and nowhere else, DELETED is entered by a   *)
(* soft delete and left by a restore, whatever calls precede.              *)
StatusMovesAllowed ==
  [][\A p \in Requests, t \in Trips :
       request'[p] # request[p] /\ trip'[t].status # trip[t].status =>
         \/ trip[t].status = "NONE" /\ trip'[t].status = "OPEN"
         \/ trip[t].status = "OPEN" /\ trip'[t].status \in {"CLOSED", "CANCELLED"}
         \/ trip[t].status \in {"CLOSED", "CANCELLED"} /\ trip'[t].status = "OPEN"
         \/ trip[t].status # "DELETED" /\ trip'[t].status = "DELETED"
                                       /\ request[p].op = "DELETE"
         \/ trip[t].status = "DELETED" /\ trip'[t].status = "OPEN"
                                       /\ request[p].op = "RESTORE"]_vars

(* Grouping never moves a trip out of an existing group: it is left by     *)
(* removeFromGroup only (assertNoneAlreadyGrouped).                        *)
GroupingNeverMoves ==
  [][\A p \in Requests, t \in Trips :
       /\ request'[p] # request[p]
       /\ trip[t].group # NoGroup
       /\ trip'[t].group # trip[t].group
       => trip'[t].group = NoGroup /\ request[p].op = "UNGROUP"]_vars

(* An edit never leaves a booked trip on a day where another live trip     *)
(* has the same booking and container stored (assertNotDuplicateAfterEdit).*)
EditStep ==
  \A p \in Requests, t \in Trips :
    /\ At(p, "EDIT", "validated")
    /\ trip'[t] # trip[t]
    /\ trip'[t].status \in Holding
    /\ trip'[t].booking # NoBooking
    => \A u \in Trips \ {t} :
         trip'[u].status \in Holding =>
           <<trip'[u].booking, trip'[u].container, trip'[u].day>>
             # <<trip'[t].booking, trip'[t].container, trip'[t].day>>

EditLeavesDayFree == [][EditStep]_vars

(* The checks are complete while requests do not overlap: whatever was     *)
(* created, edited, deleted, restored and imported before, a booked trip   *)
(* that would take an identity in use is refused by the service and never  *)
(* by the unique index (assertIdentityFree, assertReclaimable,             *)
(* assertNotDuplicateAfterEdit).  Two trips typed by hand with the same    *)
(* formatting are the exception: create looks up what it does not store.   *)
ClashStep ==
  \A p \in Requests :
    LET r == request[p] IN
    /\ request'[p] # r
    /\ request'[p].outcome = "CONSTRAINT_VIOLATION"
    => \/ /\ r.op \in {"CREATE", "EDIT", "STATUS", "RESTORE"}
          /\ r.row.booking = NoBooking
       \/ /\ r.op = "CREATE"
          /\ r.row.container # ToContainerIdentity(r.row.container)

ClashIsRefused == [][ClashStep]_vars

(* A clash is a domain refusal, never a constraint violation.              *)
NoConstraintViolation ==
  \A p \in Requests : request[p].outcome # "CONSTRAINT_VIOLATION"

(* Every request that was accepted is answered, the documents that need    *)
(* several transactions included.                                          *)
EveryRequestAnswers ==
  \A p \in Requests : request[p].phase # "idle" ~> request[p].phase = "idle"
=============================================================================
