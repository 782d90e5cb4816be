--------------------- MODULE TripLifecycleSerialProofs ---------------------
(***************************************************************************)
(* What the service's own checks are worth, for any number of trips,       *)
(* bookings, days and documents.  A document that names a container        *)
(* reaches the trip that carries it, whatever races.  The rest holds while *)
(* requests do not overlap: what a request has checked is then still true  *)
(* when it commits, so no check leaves a clash to the unique index.        *)
(***************************************************************************)
EXTENDS TripLifecycleProofs, FiniteSetTheorems

(* Requests do not overlap: there is one slot for them.                    *)
OneAtATime == \A p, q \in Requests : p = q

CV == "CONSTRAINT_VIOLATION"

(* Transports of one document are different transports.                    *)
Apart(docs) == \A d, e \in docs : d # e => DocumentIdentity(d) # DocumentIdentity(e)

(* A status change leaves a trip that holds its identity a holder of it,   *)
(* or re-acquires one that was looked up.                                  *)
StatusChecked(r) ==
  r.op \in StatusOps /\ r.phase \in {"validated", "verified"} =>
    /\ r.op \in {"STATUS", "RESTORE"} \/ r.to # "OPEN"
    /\ r.to \in {"CLOSED", "CANCELLED"} => \A t \in r.ids : Holds(t)
    /\ r.to = "OPEN" => \E t \in Trips : r.ids = {t} /\ r.row = trip[t]
    /\ r.phase = "verified" => HoldersOf(Identity(r.row)) \ r.ids = {}

EditChecked(r) ==
  r.op = "EDIT" /\ r.phase = "validated" =>
    \E t \in Trips :
      /\ r.ids = {t}
      /\ r.row = Edited(trip[t], r.edit)
      /\ r.row.booking # NoBooking =>
           (HoldersOf(Identity(r.row)) \cup OnSameDay(r.row)) \ {t} = {}

CreateChecked(r) ==
  r.op = "CREATE" /\ r.phase = "validated" /\ r.row.booking # NoBooking =>
    HoldersOf(<<r.row.booking, ToContainerIdentity(r.row.container), r.row.orig>>) = {}

(* What a document inserts nobody holds; what an update found missing has  *)
(* not even its booking and date held.                                     *)
ImportChecked(r) ==
  /\ Apart(r.docs \cup r.missing)
  /\ r.op = "NEW" /\ r.phase = "validated" =>
       \A d \in r.missing : HoldersOf(DocumentIdentity(d)) = {}
  /\ r.op = "UPDATE" => \A d \in r.missing : OnBookingAndDate(d) = {}

(* What a document writes into a trip gives it no other trip's identity.   *)
ApplyChecked(r) ==
  r.phase = "apply" =>
    \E t \in Trips :
      /\ r.ids = {t}
      /\ Holds(t)
      /\ HoldersOf(<<trip[t].booking, r.row.container, trip[t].orig>>) \ {t} = {}

Checked(r) ==
  /\ r.phase # "idle" => r.outcome # CV
  /\ StatusChecked(r) /\ EditChecked(r) /\ CreateChecked(r)
  /\ ImportChecked(r) /\ ApplyChecked(r)

AllChecked == \A p \in Requests : Checked(request[p])

---------------------------------------------------------------------------
(* The index after a write.                                                *)

(* A write that gives no trip an identity it did not hold.                 *)
LEMMA SameIdentitiesKeepKey ==
  ASSUME IdentityIsUnique, NEW table,
         \A u \in Trips : table[u].status \in Holding =>
           Holds(u) /\ Identity(table[u]) = Identity(trip[u])
  PROVE  IdentityKeyHolds(table)
BY DEF IdentityIsUnique, IdentityKeyHolds, Holds

(* A write of one trip, to an identity nobody else holds.                  *)
LEMMA FreeIdentityKeepsKey ==
  ASSUME IdentityIsUnique, NEW table, NEW t \in Trips,
         \A u \in Trips : u # t => table[u] = trip[u],
         HoldersOf(Identity(table[t])) \ {t} = {}
  PROVE  IdentityKeyHolds(table)
<1>1. ASSUME NEW u \in Trips, u # t, table[u].status \in Holding
      PROVE  Identity(table[u]) # Identity(table[t])
  <2>1. u \notin HoldersOf(Identity(table[t]))
    BY <1>1
  <2>2. Holds(u) /\ table[u] = trip[u]
    BY <1>1 DEF Holds
  <2> QED BY <2>1, <2>2 DEF HoldersOf
<1>2. ASSUME NEW u \in Trips, NEW v \in Trips, u # v, u # t, v # t,
             table[u].status \in Holding, table[v].status \in Holding
      PROVE  Identity(table[u]) # Identity(table[v])
  BY <1>2 DEF IdentityIsUnique, IdentityKeyHolds
<1> QED BY <1>1, <1>2 DEF IdentityKeyHolds

(* An identity has one holder at most.                                     *)
LEMMA OneHolder ==
  ASSUME IdentityIsUnique, NEW i, NEW t \in HoldersOf(i), NEW u \in HoldersOf(i)
  PROVE  t = u
BY DEF IdentityIsUnique, IdentityKeyHolds, HoldersOf, Holds

LEMMA HoldersAreOnBooking ==
  ASSUME NEW d PROVE HoldersOf(DocumentIdentity(d)) \subseteq OnBookingAndDate(d)
BY DEF HoldersOf, OnBookingAndDate, DocumentIdentity, Identity

(* Of a document's row.                                                    *)
LEMMA RowOfFields ==
  ASSUME NEW d, NEW g
  PROVE  /\ Identity(RowOf(d, g)) = DocumentIdentity(d)
         /\ RowOf(d, g).booking = d.booking /\ RowOf(d, g).orig = d.day
BY DEF RowOf, NoRow, Identity, DocumentIdentity

---------------------------------------------------------------------------
(* The two shapes of a step.                                               *)

(* What p checks is all there is to check.                                 *)
LEMMA BecomeChecked ==
  ASSUME OneAtATime, TypeOK, NEW p \in Requests, NEW next,
         Become(p, next), Checked(next)
  PROVE  AllChecked'
<1>1. trip' = trip /\ request'[p] = next
  BY DEF Become, TypeOK
<1>2. Checked(next)'
  BY <1>1 DEF Checked, StatusChecked, EditChecked, CreateChecked, ImportChecked,
              ApplyChecked, HoldersOf, OnSameDay, OnBookingAndDate, Holds
<1>3. Checked(request[p])'
  BY <1>1, <1>2
<1> QED BY <1>3 DEF AllChecked, OneAtATime

(* A record that is between two checks.                                    *)
Between(r) ==
  /\ r.phase \notin {"validated", "verified", "apply"}
  /\ r.phase # "idle" => r.outcome # CV
  /\ Apart(r.docs \cup r.missing)

LEMMA BetweenChecked ==
  ASSUME NEW r, Between(r),
         r.op = "UPDATE" => \A d \in r.missing : OnBookingAndDate(d) = {}
  PROVE  Checked(r)
BY DEF Between, Checked, StatusChecked, EditChecked, CreateChecked, ImportChecked,
       ApplyChecked

LEMMA IdleBetween ==
  ASSUME NEW outcome
  PROVE  /\ Between(Idle(outcome)) /\ Idle(outcome).op = "NONE"
         /\ Idle(outcome).outcome = outcome
BY DEF Between, Idle, Apart

LEMMA ContinueBetween ==
  ASSUME NEW r \in Request, NEW docs, NEW missing, NEW outcome,
         outcome # CV, Apart(docs \cup missing)
  PROVE  LET next == Continue(r, docs, missing, outcome)
         IN  /\ Between(next)
             /\ next.outcome = outcome
             /\ next.op = "UPDATE" => next.missing = missing
BY IdleBetween DEF Continue, Between, Request, Idle

LEMMA CommitChecked ==
  ASSUME OneAtATime, TypeOK, NEW p \in Requests, NEW table, NEW next,
         Commit(p, table, next), Between(next),
         next.op = "UPDATE" => \A d \in next.missing : (OnBookingAndDate(d) = {})'
  PROVE  AllChecked'
<1>1. PICK r : /\ request'[p] = r
               /\ Between(r)
               /\ r.op = "UPDATE" => \A d \in r.missing : (OnBookingAndDate(d) = {})'
  <2>1. CASE request'[p] = next
    BY <2>1
  <2>2. CASE request'[p] = Idle(CV)
    BY <2>2, IdleBetween
  <2> QED BY <2>1, <2>2, RecordAfterCommit DEF CV
<1>2. Checked(r)'
  BY <1>1 DEF Between, Checked, StatusChecked, EditChecked, CreateChecked, ImportChecked,
              ApplyChecked
<1>3. Checked(request[p])'
  BY <1>1, <1>2
<1> QED BY <1>3 DEF AllChecked, OneAtATime

LEMMA CommitIdleChecked ==
  ASSUME OneAtATime, TypeOK, NEW p \in Requests, NEW table, NEW outcome,
         Commit(p, table, Idle(outcome))
  PROVE  AllChecked'
<1>1. Between(Idle(outcome)) /\ Idle(outcome).op # "UPDATE"
  BY IdleBetween
<1> QED BY <1>1, CommitChecked

---------------------------------------------------------------------------
(* What a request checks when it arrives.                                  *)

LEMMA OpenedFields ==
  ASSUME NEW op, NEW phase, NEW ids
  PROVE  LET next == Opened(op, phase, ids)
         IN  /\ next.op = op /\ next.phase = phase /\ next.ids = ids
             /\ next.docs = {} /\ next.missing = {} /\ next.outcome = "NONE"
BY DEF Opened, Idle

LEMMA CloseOrCancelNeedsOpen ==
  ASSUME NEW from \in Statuses, NEW to \in {"CLOSED", "CANCELLED"},
         CanTransition(from, to)
  PROVE  from = "OPEN"
BY DEF CanTransition, AllowedTransitions, Statuses

LEMMA ArrivingStatusChecked ==
  ASSUME OneAtATime, TypeOK, NEW p \in Requests, NEW t \in Trips,
         \/ \E to \in Statuses \ {"DELETED"} : ChangeStatus(p, t, to)
         \/ SoftDelete(p, t)
         \/ Restore(p, t)
  PROVE  AllChecked'
<1>0. trip[t] \in Row
  BY DEF TypeOK
<1>1. ASSUME NEW op \in {"STATUS", "DELETE", "RESTORE"}, NEW to \in Statuses,
             to \in {"CLOSED", "CANCELLED"} => Holds(t),
             op = "DELETE" => to = "DELETED",
             Become(p, [OpenedOn(op, t) EXCEPT !.to = to])
      PROVE  AllChecked'
  <2> DEFINE next == [OpenedOn(op, t) EXCEPT !.to = to]
  <2>1. /\ next.op = op /\ next.phase = "validated" /\ next.ids = {t}
        /\ next.docs = {} /\ next.missing = {} /\ next.outcome = "NONE"
        /\ next.row = trip[t] /\ next.to = to
    BY DEF OpenedOn, Opened, Idle
  <2>2. StatusChecked(next)
    BY <2>1, <1>1 DEF StatusChecked
  <2>3. EditChecked(next) /\ CreateChecked(next) /\ ImportChecked(next) /\ ApplyChecked(next)
    BY <2>1 DEF EditChecked, CreateChecked, ImportChecked, ApplyChecked, Apart
  <2>4. Checked(next)
    BY <2>1, <2>2, <2>3 DEF Checked, CV
  <2> QED BY <2>4, <1>1, BecomeChecked
<1>2. ASSUME NEW to \in Statuses \ {"DELETED"}, ChangeStatus(p, t, to)
      PROVE  AllChecked'
  <2>1. trip[t].status \in Statuses
    BY <1>0, <1>2 DEF ChangeStatus, Exists, Row
  <2>2. to \in {"CLOSED", "CANCELLED"} => Holds(t)
    BY <2>1, <1>2, CloseOrCancelNeedsOpen DEF ChangeStatus, Holds, Holding
  <2> QED BY <2>2, <1>2, <1>1 DEF ChangeStatus
<1>3. CASE SoftDelete(p, t)
  BY <1>3, <1>1 DEF SoftDelete, Statuses
<1>4. CASE Restore(p, t)
  BY <1>4, <1>1 DEF Restore, Statuses
<1> QED BY <1>2, <1>3, <1>4

LEMMA ArrivingManyChecked ==
  ASSUME OneAtATime, TypeOK, NEW p \in Requests, NEW ids \in SUBSET Trips,
         CompleteMany(p, ids) \/ CreateGroup(p, ids) \/ MarkManyLoose(p, ids)
  PROVE  AllChecked'
<1>1. CASE CompleteMany(p, ids)
  <2> DEFINE toClose == {t \in ids : trip[t].status # "CLOSED"}
             next == [Opened("COMPLETE", "validated", toClose) EXCEPT !.to = "CLOSED"]
  <2>1. /\ next.op = "COMPLETE" /\ next.phase = "validated" /\ next.ids = toClose
        /\ next.docs = {} /\ next.missing = {} /\ next.outcome = "NONE"
        /\ next.to = "CLOSED"
    BY DEF Opened, Idle
  <2>2. \A t \in toClose : Holds(t)
    <3> SUFFICES ASSUME NEW t \in toClose PROVE Holds(t)
      OBVIOUS
    <3>1. trip[t].status \in Statuses
      BY <1>1 DEF CompleteMany, Exists, TypeOK, Row
    <3> QED BY <3>1, <1>1, CloseOrCancelNeedsOpen DEF CompleteMany, Holds, Holding
  <2>3. StatusChecked(next)
    BY <2>1, <2>2 DEF StatusChecked
  <2>4. EditChecked(next) /\ CreateChecked(next) /\ ImportChecked(next) /\ ApplyChecked(next)
    BY <2>1 DEF EditChecked, CreateChecked, ImportChecked, ApplyChecked, Apart
  <2>5. Checked(next)
    BY <2>1, <2>3, <2>4 DEF Checked, CV
  <2>6. Become(p, next)
    BY <1>1 DEF CompleteMany
  <2> QED BY <2>5, <2>6, BecomeChecked
<1>2. ASSUME NEW op \in {"GROUP", "LOOSE"}, NEW some,
             Become(p, Opened(op, "validated", some))
      PROVE  AllChecked'
  <2>1. Checked(Opened(op, "validated", some))
    BY OpenedFields DEF Checked, StatusChecked, EditChecked, CreateChecked, ImportChecked,
                        ApplyChecked, StatusOps, Apart, CV
  <2> QED BY <2>1, <1>2, BecomeChecked
<1>3. CASE CreateGroup(p, ids)
  BY <1>3, <1>2 DEF CreateGroup
<1>4. CASE MarkManyLoose(p, ids)
  BY <1>4, <1>2 DEF MarkManyLoose
<1> QED BY <1>1, <1>3, <1>4

LEMMA ArrivingEditChecked ==
  ASSUME OneAtATime, TypeOK, NEW p \in Requests, NEW t \in Trips, NEW e \in Edit,
         UpdateTrip(p, t, e)
  PROVE  AllChecked'
<1> DEFINE next == [OpenedOn("EDIT", t) EXCEPT !.edit = e, !.row = Edited(trip[t], e)]
<1>1. /\ next.op = "EDIT" /\ next.phase = "validated" /\ next.ids = {t}
      /\ next.docs = {} /\ next.missing = {} /\ next.outcome = "NONE"
      /\ next.row = Edited(trip[t], e) /\ next.edit = e
  BY DEF OpenedOn, Opened, Idle
<1>2. EditChecked(next)
  BY <1>1 DEF EditChecked, UpdateTrip
<1>3. StatusChecked(next) /\ CreateChecked(next) /\ ImportChecked(next) /\ ApplyChecked(next)
  BY <1>1 DEF StatusChecked, CreateChecked, ImportChecked, ApplyChecked, StatusOps, Apart
<1>4. Checked(next)
  BY <1>1, <1>2, <1>3 DEF Checked, CV
<1>5. Become(p, next)
  BY DEF UpdateTrip
<1> QED BY <1>4, <1>5, BecomeChecked

LEMMA ArrivingCreateChecked ==
  ASSUME OneAtATime, TypeOK, NEW p \in Requests, NEW e, CreateTrip(p, e)
  PROVE  AllChecked'
<1> DEFINE orig == IF e.stated = NoDay THEN e.day ELSE e.stated
           row  == [NoRow EXCEPT !.status = "OPEN", !.booking = e.booking,
                                 !.container = e.container, !.orig = orig,
                                 !.day = e.day]
           next == [Opened("CREATE", "validated", {}) EXCEPT !.row = row]
<1>1. /\ next.op = "CREATE" /\ next.phase = "validated"
      /\ next.docs = {} /\ next.missing = {} /\ next.outcome = "NONE"
      /\ next.row = row
  BY DEF Opened, Idle
<1>2. CreateChecked(next)
  <2>1. row.booking = e.booking /\ row.container = e.container /\ row.orig = orig
    BY DEF NoRow
  <2>2. e.booking # NoBooking =>
          HoldersOf(<<e.booking, ToContainerIdentity(e.container), orig>>) = {}
    BY DEF CreateTrip
  <2> HIDE DEF row, next, orig
  <2> QED BY <1>1, <2>1, <2>2 DEF CreateChecked
<1>3. StatusChecked(next) /\ EditChecked(next) /\ ImportChecked(next) /\ ApplyChecked(next)
  BY <1>1 DEF StatusChecked, EditChecked, ImportChecked, ApplyChecked, StatusOps, Apart
<1>4. Checked(next)
  BY <1>1, <1>2, <1>3 DEF Checked, CV
<1>5. Become(p, next)
  BY DEF CreateTrip
<1> QED BY <1>4, <1>5, BecomeChecked

LEMMA ArrivingDocumentChecked ==
  ASSUME OneAtATime, TypeOK, NEW p \in Requests, NEW docs \in Transports,
         \/ ImportNew(p, docs)
         \/ \E op \in {"UPDATE", "CANCEL"} : ReceiveDocument(p, op, docs)
  PROVE  AllChecked'
<1>0. Apart(docs)
  BY DEF Transports, Apart
<1>1. CASE ImportNew(p, docs)
  <2>1. PICK phase : /\ phase = IF \E d \in docs : HoldersOf(DocumentIdentity(d)) # {}
                                  THEN "duplicate" ELSE "validated"
                     /\ Become(p, [Opened("NEW", phase, {}) EXCEPT !.missing = docs])
    BY <1>1 DEF ImportNew
  <2> DEFINE next == [Opened("NEW", phase, {}) EXCEPT !.missing = docs]
  <2>2. /\ next.op = "NEW" /\ next.phase = phase /\ next.docs = {}
        /\ next.missing = docs /\ next.outcome = "NONE"
    BY DEF Opened, Idle
  <2>3. ImportChecked(next)
    BY <2>1, <2>2, <1>0 DEF ImportChecked
  <2>4. StatusChecked(next) /\ EditChecked(next) /\ CreateChecked(next) /\ ApplyChecked(next)
    BY <2>1, <2>2 DEF StatusChecked, EditChecked, CreateChecked, ApplyChecked, StatusOps
  <2>5. Checked(next)
    BY <2>2, <2>3, <2>4 DEF Checked, CV
  <2> QED BY <2>1, <2>5, BecomeChecked
<1>2. ASSUME NEW op \in {"UPDATE", "CANCEL"}, ReceiveDocument(p, op, docs)
      PROVE  AllChecked'
  <2> DEFINE next == [Opened(op, "match", {}) EXCEPT !.docs = docs]
  <2>1. /\ next.phase = "match" /\ next.docs = docs /\ next.missing = {}
        /\ next.outcome = "NONE"
    BY DEF Opened, Idle
  <2>2. Checked(next)
    <3>1. Between(next)
      BY <2>1, <1>0 DEF Between, CV
    <3> QED BY <2>1, <3>1, BetweenChecked
  <2>3. Become(p, next)
    BY <1>2 DEF ReceiveDocument
  <2> QED BY <2>2, <2>3, BecomeChecked
<1> QED BY <1>1, <1>2

LEMMA ArrivesChecked ==
  ASSUME OneAtATime, TypeOK, NEW p \in Requests, Arrives(p)
  PROVE  AllChecked'
<1>1. ASSUME NEW t \in Trips, RemoveFromGroup(p, t)
      PROVE  AllChecked'
  <2> DEFINE next == OpenedOn("UNGROUP", t)
  <2>1. /\ next.op = "UNGROUP" /\ next.phase = "validated"
        /\ next.docs = {} /\ next.missing = {} /\ next.outcome = "NONE"
    BY DEF OpenedOn, Opened, Idle
  <2>2. Checked(next)
    BY <2>1 DEF Checked, StatusChecked, EditChecked, CreateChecked, ImportChecked,
                ApplyChecked, StatusOps, Apart, CV
  <2>3. Become(p, next)
    BY <1>1 DEF RemoveFromGroup
  <2> QED BY <2>2, <2>3, BecomeChecked
<1> QED BY <1>1, ArrivingStatusChecked, ArrivingManyChecked, ArrivingEditChecked,
           ArrivingCreateChecked, ArrivingDocumentChecked DEF Arrives

---------------------------------------------------------------------------
(* What a request has checked stays checked until it commits.              *)

LEMMA ReclaimChecked ==
  ASSUME OneAtATime, TypeOK, AllChecked, NEW p \in Requests, AssertReclaimable(p)
  PROVE  AllChecked'
<1> DEFINE r == request[p]
           next == [r EXCEPT !.phase = "verified"]
<1>0. r \in Request /\ Checked(r) /\ r.phase = "validated" /\ MustReclaim(r)
  BY DEF TypeOK, AllChecked, AssertReclaimable
<1>1. CASE HoldersOf(Identity(r.row)) \ r.ids # {}
  <2>1. Become(p, Idle("REFUSED"))
    BY <1>1 DEF AssertReclaimable
  <2>2. Checked(Idle("REFUSED"))
    BY IdleBetween, BetweenChecked
  <2> QED BY <2>1, <2>2, BecomeChecked
<1>2. CASE HoldersOf(Identity(r.row)) \ r.ids = {}
  <2>1. Become(p, next)
    BY <1>2 DEF AssertReclaimable
  <2>2. /\ next.phase = "verified" /\ next.op = r.op /\ next.to = r.to
        /\ next.ids = r.ids /\ next.row = r.row /\ next.docs = r.docs
        /\ next.missing = r.missing /\ next.outcome = r.outcome
    BY <1>0 DEF Request
  <2>3. r.op \in StatusOps /\ r.op \notin {"EDIT", "CREATE", "NEW", "UPDATE"}
    BY <1>0 DEF MustReclaim, StatusOps
  <2>4. StatusChecked(next)
    BY <2>2, <2>3, <1>0, <1>2 DEF Checked, StatusChecked
  <2>5. EditChecked(next) /\ CreateChecked(next) /\ ApplyChecked(next)
    BY <2>2 DEF EditChecked, CreateChecked, ApplyChecked
  <2>6. ImportChecked(next)
    BY <2>2, <2>3, <1>0 DEF Checked, ImportChecked
  <2>7. Checked(next)
    BY <2>2, <2>4, <2>5, <2>6, <1>0 DEF Checked
  <2> QED BY <2>1, <2>7, BecomeChecked
<1> QED BY <1>1, <1>2

LEMMA ImportStepsChecked ==
  ASSUME OneAtATime, TypeOK, AllChecked, NEW p \in Requests,
         AssertEveryIdentityHeld(p) \/ ImportMissing(p) \/ NoRoom(p)
  PROVE  AllChecked'
<1> DEFINE r == request[p]
<1>0. r \in Request /\ Checked(r)
  BY DEF TypeOK, AllChecked
<1>1. CASE \E outcome : Become(p, Idle(outcome))
  <2>1. PICK outcome : Become(p, Idle(outcome))
    BY <1>1
  <2>2. Checked(Idle(outcome))
    BY IdleBetween, BetweenChecked
  <2> QED BY <2>1, <2>2, BecomeChecked
<1>2. ASSUME AssertEveryIdentityHeld(p),
             Become(p, [r EXCEPT !.phase = "match", !.docs = r.missing, !.missing = {}])
      PROVE  AllChecked'
  <2> DEFINE next == [r EXCEPT !.phase = "match", !.docs = r.missing, !.missing = {}]
  <2>1. /\ next.phase = "match" /\ next.docs = r.missing /\ next.missing = {}
        /\ next.outcome = r.outcome
    BY <1>0 DEF Request
  <2>2. Apart(r.missing) /\ r.outcome # CV
    BY <1>0, <1>2 DEF Checked, ImportChecked, Apart, AssertEveryIdentityHeld, At
  <2>3. Between(next)
    BY <2>1, <2>2 DEF Between
  <2>4. Checked(next)
    BY <2>1, <2>3, BetweenChecked
  <2> QED BY <2>4, <1>2, BecomeChecked
<1>3. ASSUME ImportMissing(p), Become(p, [r EXCEPT !.phase = "validated"])
      PROVE  AllChecked'
  <2> DEFINE next == [r EXCEPT !.phase = "validated"]
  <2>1. /\ next.phase = "validated" /\ next.op = "UPDATE" /\ next.docs = r.docs
        /\ next.missing = r.missing /\ next.outcome = r.outcome
    BY <1>0, <1>3 DEF Request, ImportMissing, At
  <2>2. r.op = "UPDATE" /\ r.outcome # CV
    BY <1>0, <1>3 DEF ImportMissing, At, Checked
  <2>3. ImportChecked(next)
    BY <2>1, <2>2, <1>0 DEF Checked, ImportChecked
  <2>4. StatusChecked(next) /\ EditChecked(next) /\ CreateChecked(next) /\ ApplyChecked(next)
    BY <2>1 DEF StatusChecked, EditChecked, CreateChecked, ApplyChecked, StatusOps
  <2>5. Checked(next)
    BY <2>1, <2>2, <2>3, <2>4 DEF Checked
  <2> QED BY <2>5, <1>3, BecomeChecked
<1> QED BY <1>1, <1>2, <1>3 DEF AssertEveryIdentityHeld, ImportMissing, NoRoom

(* The trip a document matched, and what it may write there.               *)
LEMMA MatchedChecked ==
  ASSUME TypeOK, NEW r \in Request, Checked(r), r.phase = "match", r.op # "CANCEL",
         NEW d \in r.docs, NEW t \in Trips, Holds(t),
         HoldersOf(<<trip[t].booking, Revised(trip[t], d).container, trip[t].orig>>)
           \ {t} = {}
  PROVE  Checked(Matched(r, t, d))
<1> DEFINE next == Matched(r, t, d)
<1>1. /\ next.phase = "apply" /\ next.op = r.op /\ next.ids = {t}
      /\ next.row = Revised(trip[t], d) /\ next.docs = r.docs \ {d}
      /\ next.missing = r.missing /\ next.outcome = r.outcome
  BY DEF Matched, Request
<1> HIDE DEF next
<1>2. StatusChecked(next) /\ EditChecked(next) /\ CreateChecked(next)
  BY <1>1 DEF StatusChecked, EditChecked, CreateChecked
<1>3. ImportChecked(next)
  BY <1>1 DEF Checked, ImportChecked, Apart
<1>4. ApplyChecked(next)
  BY <1>1 DEF ApplyChecked
<1>5. Checked(next)
  BY <1>1, <1>2, <1>3, <1>4 DEF Checked
<1> QED BY <1>5 DEF next

(* A document's container is the trip's own or none.                       *)
LEMMA RevisedSame ==
  ASSUME NEW row \in Row, NEW d, row.container = d.container \/ d.container = NoContainer
  PROVE  Revised(row, d).container = row.container
BY DEF Revised, Row

LEMMA OwnIdentityFree ==
  ASSUME IdentityIsUnique, NEW t \in Trips, Holds(t)
  PROVE  HoldersOf(<<trip[t].booking, trip[t].container, trip[t].orig>>) \ {t} = {}
<1>1. t \in HoldersOf(<<trip[t].booking, trip[t].container, trip[t].orig>>)
  BY DEF HoldersOf, Identity
<1> QED BY <1>1, OneHolder

LEMMA MatchNewChecked ==
  ASSUME OneAtATime, TypeOK, IdentityIsUnique, AllChecked, NEW p \in Requests,
         NEW d \in request[p].docs, MatchNew(p, d)
  PROVE  AllChecked'
<1> DEFINE r == request[p]
<1>0. r \in Request /\ Checked(r) /\ r.phase = "match" /\ r.op = "NEW"
  BY DEF TypeOK, AllChecked, MatchNew, At
<1>1. ASSUME NEW outcome, outcome # CV, Become(p, Continue(r, r.docs \ {d}, {}, outcome))
      PROVE  AllChecked'
  <2> DEFINE next == Continue(r, r.docs \ {d}, {}, outcome)
  <2>1. Apart((r.docs \ {d}) \cup {})
    BY <1>0 DEF Checked, ImportChecked, Apart
  <2>2. Between(next) /\ (next.op = "UPDATE" => next.missing = {})
    BY <2>1, <1>0, <1>1, ContinueBetween
  <2>3. Checked(next)
    BY <2>2, BetweenChecked
  <2> QED BY <2>3, <1>1, BecomeChecked
<1>2. ASSUME NEW t \in HoldersOf(DocumentIdentity(d)), Become(p, Matched(r, t, d))
      PROVE  AllChecked'
  <2>1. t \in Trips /\ Holds(t) /\ trip[t] \in Row /\ trip[t].container = d.container
    BY DEF HoldersOf, Identity, DocumentIdentity, TypeOK
  <2>2. Revised(trip[t], d).container = trip[t].container
    BY <2>1, RevisedSame
  <2>3. Checked(Matched(r, t, d))
    BY <2>1, <2>2, <1>0, OwnIdentityFree, MatchedChecked
  <2> QED BY <2>3, <1>2, BecomeChecked
<1> QED BY <1>1, <1>2 DEF MatchNew, CV

LEMMA MatchUpdateChecked ==
  ASSUME OneAtATime, TypeOK, IdentityIsUnique, AllChecked, NEW p \in Requests,
         NEW d \in request[p].docs, MatchUpdate(p, d)
  PROVE  AllChecked'
<1> DEFINE r == request[p]
<1>0. r \in Request /\ Checked(r) /\ r.phase = "match" /\ r.op = "UPDATE"
  BY DEF TypeOK, AllChecked, MatchUpdate, At
<1>1. ASSUME NEW outcome, Become(p, Idle(outcome))
      PROVE  AllChecked'
  <2>1. Checked(Idle(outcome))
    BY IdleBetween, BetweenChecked
  <2> QED BY <2>1, <1>1, BecomeChecked
<1>2. ASSUME Resolve(d) = {},
             Become(p, Continue(r, r.docs \ {d}, r.missing \cup {d}, "NONE"))
      PROVE  AllChecked'
  <2> DEFINE next == Continue(r, r.docs \ {d}, r.missing \cup {d}, "NONE")
  <2>1. OnBookingAndDate(d) = {}
    BY <1>2, HoldersAreOnBooking DEF Resolve
  <2>2. Apart((r.docs \ {d}) \cup (r.missing \cup {d}))
    BY <1>0 DEF Checked, ImportChecked, Apart
  <2>3. Between(next) /\ (next.op = "UPDATE" => next.missing = r.missing \cup {d})
    <3>1. "NONE" # CV
      BY DEF CV
    <3>2. ASSUME NEW docs, NEW missing, Apart(docs \cup missing)
          PROVE  /\ Between(Continue(r, docs, missing, "NONE"))
                 /\ Continue(r, docs, missing, "NONE").op = "UPDATE"
                      => Continue(r, docs, missing, "NONE").missing = missing
      BY <3>1, <3>2, <1>0, ContinueBetween
    <3> QED BY <2>2, <3>2
  <2>4. \A e \in r.missing \cup {d} : OnBookingAndDate(e) = {}
    BY <2>1, <1>0 DEF Checked, ImportChecked
  <2>5. Checked(next)
    BY <2>3, <2>4, BetweenChecked
  <2> QED BY <2>5, <1>2, BecomeChecked
<1>3. ASSUME NEW t \in Trips, Resolve(d) = {t}, Become(p, Matched(r, t, d))
      PROVE  AllChecked'
  <2>1. Holds(t) /\ trip[t] \in Row
    BY <1>3, StatusOfMatch DEF Holds, Holding, TypeOK
  <2>2. HoldersOf(<<trip[t].booking, Revised(trip[t], d).container, trip[t].orig>>)
          \ {t} = {}
    <3>1. CASE d.container # NoContainer /\ HoldersOf(DocumentIdentity(d)) # {}
      <4>1. trip[t].container = d.container
        BY <3>1, <1>3 DEF Resolve, HoldersOf, Identity, DocumentIdentity
      <4>2. Revised(trip[t], d).container = trip[t].container
        BY <4>1, <2>1, RevisedSame
      <4> QED BY <4>2, <2>1, OwnIdentityFree
    <3>2. CASE ~(d.container # NoContainer /\ HoldersOf(DocumentIdentity(d)) # {})
      <4>1. OnBookingAndDate(d) = {t}
        BY <3>2, <1>3 DEF Resolve
      <4>2. trip[t].booking = d.booking /\ trip[t].orig = d.day
        BY <4>1 DEF OnBookingAndDate
      <4>3. ASSUME NEW c PROVE HoldersOf(<<d.booking, c, d.day>>) \subseteq OnBookingAndDate(d)
        BY DEF HoldersOf, OnBookingAndDate, Identity
      <4> QED BY <4>1, <4>2, <4>3
    <3> QED BY <3>1, <3>2
  <2>3. Checked(Matched(r, t, d))
    BY <2>1, <2>2, <1>0, MatchedChecked
  <2> QED BY <2>3, <1>3, BecomeChecked
<1> QED BY <1>1, <1>2, <1>3 DEF MatchUpdate

(* A cancellation holds no check across a step: it compares when it sets.  *)
LEMMA CancelChecked ==
  ASSUME OneAtATime, TypeOK, AllChecked, NEW p \in Requests,
         \/ \E d \in request[p].docs : MatchCancel(p, d)
         \/ \E t \in Trips : TransitionStatus(p, t) \/ RereadCancelled(p, t)
  PROVE  AllChecked'
<1> DEFINE r == request[p]
<1>0. r \in Request /\ Checked(r) /\ r.op = "CANCEL" /\ r.phase # "idle"
  BY DEF TypeOK, AllChecked, MatchCancel, TransitionStatus, RereadCancelled, At
<1>1. Apart(r.docs) /\ r.outcome # CV
  BY <1>0 DEF Checked, ImportChecked, Apart
<1>2. ASSUME NEW docs \in SUBSET r.docs, NEW outcome, outcome # CV
      PROVE  LET next == Continue(r, docs, {}, outcome)
             IN  Between(next) /\ (next.op = "UPDATE" => next.missing = {})
  <2>1. Apart(docs \cup {})
    BY <1>1 DEF Apart
  <2> QED BY <2>1, <1>0, <1>2, ContinueBetween
<1>3. ASSUME NEW docs \in SUBSET r.docs, NEW outcome, outcome # CV,
             Become(p, Continue(r, docs, {}, outcome))
      PROVE  AllChecked'
  <2>1. Checked(Continue(r, docs, {}, outcome))
    BY <1>2, <1>3, BetweenChecked
  <2> QED BY <2>1, <1>3, BecomeChecked
<1>4. ASSUME NEW d \in r.docs, MatchCancel(p, d)
      PROVE  AllChecked'
  <2>1. ASSUME NEW t, Become(p, [r EXCEPT !.phase = "cas", !.ids = {t}, !.row = trip[t],
                                          !.docs = @ \ {d}, !.outcome = "NONE"])
        PROVE  AllChecked'
    <3> DEFINE next == [r EXCEPT !.phase = "cas", !.ids = {t}, !.row = trip[t],
                                 !.docs = @ \ {d}, !.outcome = "NONE"]
    <3>1. /\ next.phase = "cas" /\ next.op = "CANCEL" /\ next.docs = r.docs \ {d}
          /\ next.missing = r.missing /\ next.outcome = "NONE"
      BY <1>0 DEF Request
    <3>2. Between(next)
      BY <3>1, <1>0 DEF Between, CV, Checked, ImportChecked, Apart
    <3>3. Checked(next)
      BY <3>1, <3>2, BetweenChecked
    <3> QED BY <3>3, <2>1, BecomeChecked
  <2>2. \/ \E t : Become(p, [r EXCEPT !.phase = "cas", !.ids = {t}, !.row = trip[t],
                                      !.docs = @ \ {d}, !.outcome = "NONE"])
        \/ \E outcome \in {"REFUSED", "ALREADY_CANCELLED", "REFUSED_CLOSED"} :
             Become(p, Continue(r, r.docs \ {d}, {}, outcome))
    BY <1>4, StatusOfMatch DEF MatchCancel
  <2> QED BY <2>1, <2>2, <1>3 DEF CV
<1>5. ASSUME NEW t \in Trips, TransitionStatus(p, t)
      PROVE  AllChecked'
  <2>1. CASE trip[t].status = "OPEN"
    <3>1. Commit(p, [trip EXCEPT ![t].status = "CANCELLED"],
                 Continue(r, r.docs, {}, "CANCELLED"))
      BY <1>5, <2>1 DEF TransitionStatus
    <3> DEFINE next == Continue(r, r.docs, {}, "CANCELLED")
    <3>2. Between(next) /\ (next.op = "UPDATE" => next.missing = {})
      BY <1>2 DEF CV
    <3>3. next.op = "UPDATE" => \A d \in next.missing : (OnBookingAndDate(d) = {})'
      BY <3>2
    <3> QED BY <3>1, <3>2, <3>3, CommitChecked
  <2>2. CASE trip[t].status # "OPEN"
    <3> DEFINE next == [r EXCEPT !.phase = "reread"]
    <3>1. Become(p, next)
      BY <1>5, <2>2 DEF TransitionStatus
    <3>2. /\ next.phase = "reread" /\ next.op = "CANCEL" /\ next.docs = r.docs
          /\ next.missing = r.missing /\ next.outcome = r.outcome
      BY <1>0 DEF Request
    <3>3. Between(next)
      BY <3>2, <1>0, <1>1 DEF Between, Checked, ImportChecked
    <3>4. Checked(next)
      BY <3>2, <3>3, BetweenChecked
    <3> QED BY <3>1, <3>4, BecomeChecked
  <2> QED BY <2>1, <2>2
<1>6. ASSUME NEW t \in Trips, RereadCancelled(p, t)
      PROVE  AllChecked'
  <2>1. \E outcome \in {"ALREADY_CANCELLED", "REFUSED_CLOSED"} :
          Become(p, Continue(r, r.docs, {}, outcome))
    BY <1>6 DEF RereadCancelled
  <2> QED BY <2>1, <1>3 DEF CV
<1> QED BY <1>4, <1>5, <1>6

(* A document's writes give no trip another booking or original date.      *)
LEMMA ApplyStepChecked ==
  ASSUME OneAtATime, TypeOK, AllChecked, NEW p \in Requests, ApplyDocument(p)
  PROVE  AllChecked'
<1> DEFINE r == request[p]
           Write(x) == [x EXCEPT !.container = r.row.container, !.day = r.row.day,
                                 !.order = r.row.order,
                                 !.status = IF r.reopens THEN "OPEN" ELSE @]
           next == Continue(r, r.docs, r.missing, "DONE")
<1>0. /\ r \in Request /\ Checked(r) /\ r.phase = "apply"
      /\ Commit(p, Rewritten(r.ids, Write), next)
  BY DEF TypeOK, AllChecked, ApplyDocument
<1>1. Between(next) /\ (next.op = "UPDATE" => next.missing = r.missing)
  BY <1>0, ContinueBetween DEF Checked, ImportChecked, CV
<1>2. ASSUME NEW u \in Trips, Holds(u)'
      PROVE  Holds(u) /\ trip'[u].booking = trip[u].booking /\ trip'[u].orig = trip[u].orig
  <2>0. trip[u] \in Row
    BY DEF TypeOK
  <2>1. CASE trip' = trip
    BY <2>1, <1>2 DEF Holds
  <2>2. CASE trip' = Rewritten(r.ids, Write) /\ u \notin r.ids
    BY <2>2, <1>2 DEF Rewritten, Holds
  <2>3. CASE trip' = Rewritten(r.ids, Write) /\ u \in r.ids
    <3>1. trip'[u] = Write(trip[u])
      BY <2>3 DEF Rewritten
    <3>2. Write(trip[u]).booking = trip[u].booking /\ Write(trip[u]).orig = trip[u].orig
      BY <2>0 DEF Row
    <3>3. PICK t : r.ids = {t} /\ Holds(t)
      BY <1>0 DEF Checked, ApplyChecked
    <3>4. Holds(u)
      BY <2>3, <3>3
    <3> QED BY <3>1, <3>2, <3>4
  <2>4. trip' = trip \/ trip' = Rewritten(r.ids, Write)
    BY <1>0 DEF Commit
  <2> QED BY <2>1, <2>2, <2>3, <2>4
<1>3. ASSUME NEW d, OnBookingAndDate(d) = {}
      PROVE  OnBookingAndDate(d)' = {}
  BY <1>2, <1>3 DEF OnBookingAndDate
<1>4. next.op = "UPDATE" => \A d \in r.missing : OnBookingAndDate(d) = {}
  <2>1. next.op = "UPDATE" => r.op = "UPDATE"
    BY <1>0 DEF Continue, Idle, Request
  <2> QED BY <2>1, <1>0 DEF Checked, ImportChecked
<1> HIDE DEF next
<1>5. next.op = "UPDATE" => \A d \in next.missing : (OnBookingAndDate(d) = {})'
  BY <1>1, <1>3, <1>4
<1> QED BY <1>0, <1>1, <1>5, CommitChecked

LEMMA AdvancesChecked ==
  ASSUME OneAtATime, TypeOK, IdentityIsUnique, AllChecked, NEW p \in Requests, Advances(p)
  PROVE  AllChecked'
<1> USE CommitIdleChecked
<1>1. ASSUME SetStatus(p) PROVE AllChecked'
  BY <1>1 DEF SetStatus, Rewritten
<1>2. ASSUME NEW g, AssignToGroup(p, g) PROVE AllChecked'
  BY <1>2 DEF AssignToGroup, Rewritten
<1>3. ASSUME LeaveGroup(p) \/ WriteLoose(p) \/ WriteUpdate(p) PROVE AllChecked'
  BY <1>3 DEF LeaveGroup, WriteLoose, WriteUpdate, Rewritten
<1>4. ASSUME NEW t, InsertTrip(p, t) PROVE AllChecked'
  BY <1>4 DEF InsertTrip
<1>5. ASSUME NEW at, NEW g, ImportTrips(p, at, g) PROVE AllChecked'
  BY <1>5 DEF ImportTrips
<1> QED BY <1>1, <1>2, <1>3, <1>4, <1>5, ReclaimChecked, ImportStepsChecked,
           MatchNewChecked, MatchUpdateChecked, CancelChecked, ApplyStepChecked
        DEF Advances

LEMMA StaysChecked == ASSUME OneAtATime PROVE Spec => []AllChecked
<1>1. Init => AllChecked
  BY IdleBetween, BetweenChecked DEF Init, AllChecked
<1>2. TypeOK /\ IdentityIsUnique /\ AllChecked /\ [Next]_vars => AllChecked'
  <2>1. TypeOK /\ IdentityIsUnique /\ AllChecked /\ Next => AllChecked'
    BY ArrivesChecked, AdvancesChecked DEF Next
  <2>2. AllChecked /\ UNCHANGED vars => AllChecked'
    BY DEF vars, AllChecked, Checked, StatusChecked, EditChecked, CreateChecked,
           ImportChecked, ApplyChecked, HoldersOf, OnSameDay, OnBookingAndDate, Holds
  <2> QED BY <2>1, <2>2
<1> QED BY <1>1, <1>2, TypeCorrect, IdentityStaysUnique, PTL DEF Spec

---------------------------------------------------------------------------
(* A commit that was checked is not refused by the index.                  *)

LEMMA KeyedCommit ==
  ASSUME TypeOK, NEW p \in Requests, NEW table, NEW next, Commit(p, table, next),
         IdentityKeyHolds(table), next.outcome # CV
  PROVE  request'[p].outcome # CV
BY DEF Commit, TypeOK

(* What ClashIsRefused allows: the request is of a trip without a booking, *)
(* or creates one with a container that is stored as it was typed.         *)
Unbooked(r) == r.op \in {"CREATE", "EDIT", "STATUS", "RESTORE"} /\ r.row.booking = NoBooking

Formatted(r) ==
  r.op = "CREATE" /\ r.row.container # ToContainerIdentity(r.row.container)

LEMMA SetStatusClash ==
  ASSUME TypeOK, IdentityIsUnique, AllChecked, NEW p \in Requests, SetStatus(p)
  PROVE  Unbooked(request[p]) \/ request'[p].outcome # CV
<1> DEFINE r == request[p]
           Set(x) == [x EXCEPT !.status = r.to]
           table == Rewritten(r.ids, Set)
<1>0. /\ r \in Request /\ r.op \in StatusOps /\ r.phase \in {"validated", "verified"}
      /\ StatusChecked(r)
      /\ Commit(p, table, Idle("DONE"))
      /\ r.phase = "validated" => ~MustReclaim(r)
  BY DEF TypeOK, AllChecked, Checked, SetStatus
<1>1. ASSUME NEW u \in Trips
      PROVE  /\ u \notin r.ids => table[u] = trip[u]
             /\ u \in r.ids => table[u].status = r.to
             /\ Identity(table[u]) = Identity(trip[u])
  <2>1. trip[u] \in Row
    BY DEF TypeOK
  <2>2. Set(trip[u]).status = r.to /\ Identity(Set(trip[u])) = Identity(trip[u])
    BY <2>1 DEF Row, Identity
  <2>3. table[u] = IF u \in r.ids THEN Set(trip[u]) ELSE trip[u]
    BY DEF Rewritten
  <2> HIDE DEF table, Set
  <2> QED BY <2>2, <2>3
<1> HIDE DEF table
<1>2. CASE r.to \in {"CLOSED", "CANCELLED", "DELETED"}
  <2>1. \A u \in Trips : table[u].status \in Holding =>
          Holds(u) /\ Identity(table[u]) = Identity(trip[u])
    BY <1>0, <1>1, <1>2 DEF StatusChecked, Holds, Holding
  <2>2. IdentityKeyHolds(table)
    BY <2>1, SameIdentitiesKeepKey
  <2> QED BY <2>2, <1>0, KeyedCommit, IdleBetween DEF CV
<1>3. CASE r.to = "OPEN"
  <2>1. PICK t \in Trips : r.ids = {t} /\ r.row = trip[t]
    BY <1>0, <1>3 DEF StatusChecked
  <2>2. r.op \in {"STATUS", "RESTORE"}
    BY <1>0, <1>3 DEF StatusChecked
  <2>3. CASE r.row.booking = NoBooking
    BY <2>2, <2>3 DEF Unbooked
  <2>4. CASE r.row.booking # NoBooking
    <3>1. r.phase = "verified"
      BY <1>0, <1>3, <2>2, <2>4 DEF MustReclaim
    <3>2. HoldersOf(Identity(table[t])) \ {t} = {}
      BY <3>1, <1>0, <1>1, <2>1 DEF StatusChecked
    <3>3. \A u \in Trips : u # t => table[u] = trip[u]
      BY <1>1, <2>1
    <3>4. IdentityKeyHolds(table)
      BY <3>2, <3>3, FreeIdentityKeepsKey
    <3> QED BY <3>4, <1>0, KeyedCommit, IdleBetween DEF CV
  <2> QED BY <2>3, <2>4
<1> QED BY <1>0, <1>2, <1>3 DEF Request, Statuses

(* Groups and the loose mark are no part of an identity.                   *)
LEMMA GroupClash ==
  ASSUME TypeOK, IdentityIsUnique, NEW p \in Requests,
         \/ \E g \in Groups : AssignToGroup(p, g)
         \/ LeaveGroup(p) \/ WriteLoose(p)
  PROVE  request'[p].outcome # CV
<1> DEFINE r == request[p]
<1>1. ASSUME NEW g, NEW ids,
             Commit(p, [t \in Trips |-> IF t \in ids THEN [trip[t] EXCEPT !.group = g]
                                                      ELSE trip[t]], Idle("DONE"))
      PROVE  request'[p].outcome # CV
  <2> DEFINE table == [t \in Trips |-> IF t \in ids THEN [trip[t] EXCEPT !.group = g]
                                                    ELSE trip[t]]
  <2>1. \A u \in Trips : /\ table[u].status = trip[u].status
                         /\ Identity(table[u]) = Identity(trip[u])
    BY DEF TypeOK, Row, Identity
  <2> HIDE DEF table
  <2>2. IdentityKeyHolds(table)
    BY <2>1, SameIdentitiesKeepKey DEF Holds
  <2> QED BY <2>2, <1>1, KeyedCommit, IdleBetween DEF CV, table
<1>2. CASE WriteLoose(p)
  <2> DEFINE table == [t \in Trips |-> IF t \in r.ids THEN [trip[t] EXCEPT !.loose = TRUE]
                                                      ELSE trip[t]]
  <2>1. \A u \in Trips : /\ table[u].status = trip[u].status
                         /\ Identity(table[u]) = Identity(trip[u])
    BY DEF TypeOK, Row, Identity
  <2>2. Commit(p, table, Idle("DONE"))
    BY <1>2 DEF WriteLoose, Rewritten
  <2> HIDE DEF table
  <2>3. IdentityKeyHolds(table)
    BY <2>1, SameIdentitiesKeepKey DEF Holds
  <2> QED BY <2>2, <2>3, KeyedCommit, IdleBetween DEF CV
<1>3. ASSUME NEW g, AssignToGroup(p, g) PROVE request'[p].outcome # CV
  BY <1>1, <1>3 DEF AssignToGroup, Rewritten
<1>4. CASE LeaveGroup(p)
  BY <1>1, <1>4 DEF LeaveGroup, Rewritten
<1> QED BY <1>2, <1>3, <1>4

(* The row an edit writes is the one that was checked.                     *)
LEMMA EditWrites ==
  ASSUME TypeOK, AllChecked, NEW p \in Requests, WriteUpdate(p)
  PROVE  \E t, table :
           /\ t \in Trips
           /\ Commit(p, table, Idle("DONE"))
           /\ \A u \in Trips : u # t => table[u] = trip[u]
           /\ table[t] = request[p].row
           /\ request[p].row.booking # NoBooking =>
                (HoldersOf(Identity(request[p].row)) \cup OnSameDay(request[p].row))
                  \ {t} = {}
<1> DEFINE r == request[p]
           Write(x) == Edited(x, r.edit)
           table == Rewritten(r.ids, Write)
<1>1. EditChecked(r) /\ r.op = "EDIT" /\ r.phase = "validated"
      /\ Commit(p, table, Idle("DONE"))
  BY DEF AllChecked, Checked, WriteUpdate, At
<1>2. PICK t \in Trips :
        /\ r.ids = {t}
        /\ r.row = Edited(trip[t], r.edit)
        /\ r.row.booking # NoBooking =>
             (HoldersOf(Identity(r.row)) \cup OnSameDay(r.row)) \ {t} = {}
  BY <1>1 DEF EditChecked
<1>3. \A u \in Trips : table[u] = IF u \in r.ids THEN Edited(trip[u], r.edit) ELSE trip[u]
  BY DEF Rewritten
<1> HIDE DEF table
<1> QED BY <1>1, <1>2, <1>3

LEMMA EditClash ==
  ASSUME TypeOK, IdentityIsUnique, AllChecked, NEW p \in Requests, WriteUpdate(p)
  PROVE  Unbooked(request[p]) \/ request'[p].outcome # CV
<1>1. CASE request[p].row.booking = NoBooking
  BY <1>1 DEF Unbooked, WriteUpdate, At
<1>2. CASE request[p].row.booking # NoBooking
  <2>1. PICK t, table :
          /\ t \in Trips
          /\ Commit(p, table, Idle("DONE"))
          /\ \A u \in Trips : u # t => table[u] = trip[u]
          /\ HoldersOf(Identity(table[t])) \ {t} = {}
    BY <1>2, EditWrites
  <2>2. IdentityKeyHolds(table)
    BY <2>1, FreeIdentityKeepsKey
  <2> QED BY <2>1, <2>2, KeyedCommit, IdleBetween DEF CV
<1> QED BY <1>1, <1>2

LEMMA InsertClash ==
  ASSUME TypeOK, IdentityIsUnique, AllChecked, NEW p \in Requests, NEW t \in Trips,
         InsertTrip(p, t)
  PROVE  Unbooked(request[p]) \/ Formatted(request[p]) \/ request'[p].outcome # CV
<1> DEFINE table == [trip EXCEPT ![t] = request[p].row]
<1>1. CASE request[p].row.booking = NoBooking
  BY <1>1 DEF Unbooked, InsertTrip, At
<1>3. CASE request[p].row.container # ToContainerIdentity(request[p].row.container)
  BY <1>3 DEF Formatted, InsertTrip, At
<1>2. CASE /\ request[p].row.booking # NoBooking
           /\ request[p].row.container = ToContainerIdentity(request[p].row.container)
  <2>1. HoldersOf(Identity(request[p].row)) = {}
    BY <1>2 DEF AllChecked, Checked, CreateChecked, InsertTrip, At, Identity
  <2>2. /\ table[t] = request[p].row
        /\ \A u \in Trips : u # t => table[u] = trip[u]
    BY DEF TypeOK
  <2>3. Commit(p, table, Idle("DONE"))
    BY DEF InsertTrip
  <2> HIDE DEF table
  <2>4. IdentityKeyHolds(table)
    BY <2>1, <2>2, FreeIdentityKeepsKey
  <2> QED BY <2>3, <2>4, KeyedCommit, IdleBetween DEF CV
<1> QED BY <1>1, <1>2, <1>3

(* What a document inserts: each row is that of one missing transport.     *)
LEMMA ImportWrites ==
  ASSUME NEW p \in Requests, NEW at, NEW g, ImportTrips(p, at, g)
  PROVE  \E table :
           /\ Commit(p, table, Idle("DONE"))
           /\ \A u \in Trips :
                \/ table[u] = trip[u] /\ \A d \in request[p].missing : at[d] # u
                \/ \E d \in request[p].missing : at[d] = u /\ table[u] = RowOf(d, g)
<1> DEFINE r == request[p]
           table == [u \in Trips |-> IF \E d \in r.missing : at[d] = u
                       THEN RowOf(CHOOSE d \in r.missing : at[d] = u, g)
                       ELSE trip[u]]
<1>1. Commit(p, table, Idle("DONE"))
  BY DEF ImportTrips
<1>2. ASSUME NEW u \in Trips
      PROVE  \/ table[u] = trip[u] /\ \A d \in r.missing : at[d] # u
             \/ \E d \in r.missing : at[d] = u /\ table[u] = RowOf(d, g)
  <2>1. CASE \E d \in r.missing : at[d] = u
    <3>1. PICK d : d = CHOOSE e \in r.missing : at[e] = u
      OBVIOUS
    <3>2. d \in r.missing /\ at[d] = u
      BY <2>1, <3>1
    <3>3. table[u] = RowOf(d, g)
      BY <2>1, <3>1
    <3> QED BY <3>2, <3>3
  <2>2. CASE ~ \E d \in r.missing : at[d] = u
    BY <2>2
  <2> QED BY <2>1, <2>2
<1> HIDE DEF table
<1> QED BY <1>1, <1>2

LEMMA ImportClash ==
  ASSUME TypeOK, IdentityIsUnique, AllChecked, NEW p \in Requests, NEW at, NEW g,
         ImportTrips(p, at, g)
  PROVE  request'[p].outcome # CV
<1> DEFINE r == request[p]
<1>1. ImportChecked(r) /\ r.op \in {"NEW", "UPDATE"} /\ r.phase = "validated"
  BY DEF AllChecked, Checked, ImportTrips
<1>2. \A d \in r.missing : HoldersOf(DocumentIdentity(d)) = {}
  BY <1>1, HoldersAreOnBooking DEF ImportChecked
<1>3. PICK table :
        /\ Commit(p, table, Idle("DONE"))
        /\ \A u \in Trips :
             \/ table[u] = trip[u] /\ \A d \in r.missing : at[d] # u
             \/ \E d \in r.missing : at[d] = u /\ table[u] = RowOf(d, g)
  BY ImportWrites
<1>4. ASSUME NEW u \in Trips, NEW v \in Trips, u # v,
             table[u].status \in Holding, table[v].status \in Holding,
             NEW d \in r.missing, at[d] = u, table[u] = RowOf(d, g)
      PROVE  Identity(table[u]) # Identity(table[v])
  <2>1. Identity(table[u]) = DocumentIdentity(d)
    BY <1>4, RowOfFields
  <2>2. CASE table[v] = trip[v]
    <3>1. v \notin HoldersOf(DocumentIdentity(d))
      BY <1>2
    <3> QED BY <1>4, <2>1, <2>2, <3>1 DEF HoldersOf, Holds
  <2>3. ASSUME NEW e \in r.missing, at[e] = v, table[v] = RowOf(e, g)
        PROVE  Identity(table[u]) # Identity(table[v])
    <3>1. Identity(table[v]) = DocumentIdentity(e)
      BY <2>3, RowOfFields
    <3>2. d # e
      BY <1>4, <2>3
    <3>3. DocumentIdentity(d) # DocumentIdentity(e)
      BY <1>1, <3>2 DEF ImportChecked, Apart
    <3> QED BY <2>1, <3>1, <3>3
  <2> QED BY <1>3, <2>2, <2>3
<1>5. ASSUME NEW u \in Trips, NEW v \in Trips, u # v,
             table[u].status \in Holding, table[v].status \in Holding
      PROVE  Identity(table[u]) # Identity(table[v])
  <2>1. CASE table[u] = trip[u] /\ table[v] = trip[v]
    BY <1>5, <2>1 DEF IdentityIsUnique, IdentityKeyHolds
  <2>2. CASE \E d \in r.missing : at[d] = u /\ table[u] = RowOf(d, g)
    BY <2>2, <1>4, <1>5
  <2>3. CASE \E d \in r.missing : at[d] = v /\ table[v] = RowOf(d, g)
    BY <2>3, <1>4, <1>5
  <2> QED BY <2>1, <2>2, <2>3, <1>3
<1>6. IdentityKeyHolds(table)
  BY <1>5 DEF IdentityKeyHolds
<1> QED BY <1>3, <1>6, KeyedCommit, IdleBetween DEF CV

LEMMA ApplyClash ==
  ASSUME TypeOK, IdentityIsUnique, AllChecked, NEW p \in Requests, ApplyDocument(p)
  PROVE  request'[p].outcome # CV
<1> DEFINE r == request[p]
           Write(x) == [x EXCEPT !.container = r.row.container, !.day = r.row.day,
                                 !.order = r.row.order,
                                 !.status = IF r.reopens THEN "OPEN" ELSE @]
           table == Rewritten(r.ids, Write)
           next == Continue(r, r.docs, r.missing, "DONE")
<1>0. /\ r \in Request /\ ApplyChecked(r) /\ ImportChecked(r) /\ r.phase = "apply"
      /\ Commit(p, table, next)
  BY DEF TypeOK, AllChecked, Checked, ApplyDocument
<1>1. next.outcome = "DONE"
  BY <1>0, ContinueBetween DEF ImportChecked, CV
<1>2. PICK t \in Trips :
        /\ r.ids = {t}
        /\ HoldersOf(<<trip[t].booking, r.row.container, trip[t].orig>>) \ {t} = {}
  BY <1>0 DEF ApplyChecked
<1>3. /\ table[t] = Write(trip[t])
      /\ \A u \in Trips : u # t => table[u] = trip[u]
  BY <1>2 DEF Rewritten
<1>4. Identity(Write(trip[t])) = <<trip[t].booking, r.row.container, trip[t].orig>>
  BY DEF TypeOK, Row, Identity
<1> HIDE DEF table, next
<1>5. HoldersOf(Identity(table[t])) \ {t} = {}
  BY <1>2, <1>3, <1>4
<1>6. IdentityKeyHolds(table)
  BY <1>3, <1>5, FreeIdentityKeepsKey
<1> QED BY <1>0, <1>1, <1>6, KeyedCommit DEF CV

LEMMA CancelClash ==
  ASSUME TypeOK, IdentityIsUnique, AllChecked, NEW p \in Requests, NEW t \in Trips,
         TransitionStatus(p, t)
  PROVE  request'[p].outcome # CV
<1> DEFINE r == request[p]
           table == [trip EXCEPT ![t].status = "CANCELLED"]
           next == Continue(r, r.docs, {}, "CANCELLED")
<1>0. r \in Request /\ Checked(r) /\ r.phase = "cas"
  BY DEF TypeOK, AllChecked, TransitionStatus, At
<1>1. CASE trip[t].status = "OPEN"
  <2>1. Commit(p, table, next)
    BY <1>1 DEF TransitionStatus
  <2>2. next.outcome = "CANCELLED"
    BY <1>0 DEF Continue, Idle, Request
  <2>3. \A u \in Trips : /\ u # t => table[u] = trip[u]
                         /\ Identity(table[u]) = Identity(trip[u])
    BY DEF TypeOK, Row, Identity
  <2> HIDE DEF table, next
  <2>4. IdentityKeyHolds(table)
    BY <1>1, <2>3, SameIdentitiesKeepKey DEF Holds, Holding
  <2> QED BY <2>1, <2>2, <2>4, KeyedCommit DEF CV
<1>2. CASE trip[t].status # "OPEN"
  <2>1. request'[p] = [r EXCEPT !.phase = "reread"]
    BY <1>2, RecordAfterBecome DEF TransitionStatus
  <2>2. request'[p].outcome = r.outcome
    BY <1>0, <2>1 DEF Request
  <2> QED BY <2>2, <1>0 DEF Checked
<1> QED BY <1>1, <1>2

(* A step that writes nothing meets no index.                              *)
LEMMA ReadsClash ==
  ASSUME TypeOK, AllChecked, NEW p \in Requests, Advances(p),
         \/ AssertReclaimable(p) \/ AssertEveryIdentityHeld(p) \/ ImportMissing(p)
         \/ NoRoom(p)
         \/ \E d \in request[p].docs : MatchNew(p, d) \/ MatchUpdate(p, d) \/ MatchCancel(p, d)
         \/ \E t \in Trips : RereadCancelled(p, t)
  PROVE  request'[p].outcome # CV
<1> DEFINE r == request[p]
<1> USE RecordAfterBecome
<1>0. r \in Request /\ Checked(r)
  BY DEF TypeOK, AllChecked
<1>1. /\ \A outcome : Idle(outcome).outcome = outcome
      /\ \A docs, missing, outcome : Continue(r, docs, missing, outcome).outcome = outcome
  BY <1>0 DEF Continue, Idle, Request
<1>2. CASE AssertReclaimable(p)
  <2>1. [r EXCEPT !.phase = "verified"].outcome # CV
    BY <1>0, <1>2 DEF Request, Checked, AssertReclaimable
  <2> QED BY <2>1, <1>1, <1>2 DEF AssertReclaimable, CV
<1>3. CASE AssertEveryIdentityHeld(p) \/ ImportMissing(p) \/ NoRoom(p)
  <2>1. r.phase # "idle"
    BY <1>3 DEF AssertEveryIdentityHeld, ImportMissing, NoRoom, At
  <2>2. /\ [r EXCEPT !.phase = "match", !.docs = r.missing, !.missing = {}].outcome # CV
        /\ [r EXCEPT !.phase = "validated"].outcome # CV
    BY <1>0, <2>1 DEF Request, Checked
  <2>3. CASE AssertEveryIdentityHeld(p)
    BY <2>2, <2>3, <1>1 DEF AssertEveryIdentityHeld, CV
  <2>4. CASE ImportMissing(p)
    BY <2>2, <2>4, <1>1 DEF ImportMissing, CV
  <2>5. CASE NoRoom(p)
    BY <2>2, <2>5, <1>1 DEF NoRoom, CV
  <2> QED BY <1>3, <2>3, <2>4, <2>5
<1>4. ASSUME NEW d, MatchNew(p, d) \/ MatchUpdate(p, d)
      PROVE  request'[p].outcome # CV
  <2>1. r.outcome # CV
    BY <1>0, <1>4 DEF MatchNew, MatchUpdate, At, Checked
  <2>2. \A t : Matched(r, t, d).outcome # CV
    BY <1>0, <2>1 DEF Matched, Request
  <2> QED BY <2>2, <1>1, <1>4 DEF MatchNew, MatchUpdate, CV
<1>5. ASSUME NEW d, MatchCancel(p, d)
      PROVE  request'[p].outcome # CV
  <2> DEFINE found(t) == [r EXCEPT !.phase = "cas", !.ids = {t}, !.row = trip[t],
                                   !.docs = @ \ {d}, !.outcome = "NONE"]
  <2>1. \A t : found(t).outcome = "NONE"
    BY <1>0 DEF Request
  <2>2. \/ \E t : Become(p, found(t))
        \/ \E outcome \in {"REFUSED", "ALREADY_CANCELLED", "REFUSED_CLOSED"} :
             Become(p, Continue(r, r.docs \ {d}, {}, outcome))
    BY <1>5, StatusOfMatch DEF MatchCancel
  <2> HIDE DEF found
  <2> QED BY <2>1, <2>2, <1>1 DEF CV
<1>6. ASSUME NEW t, RereadCancelled(p, t)
      PROVE  request'[p].outcome # CV
  BY <1>1, <1>6 DEF RereadCancelled, CV
<1> QED BY <1>2, <1>3, <1>4, <1>5, <1>6

LEMMA StepClash ==
  ASSUME TypeOK, IdentityIsUnique, AllChecked, NEW p \in Requests, Advances(p)
  PROVE  Unbooked(request[p]) \/ Formatted(request[p]) \/ request'[p].outcome # CV
BY SetStatusClash, GroupClash, EditClash, InsertClash, ImportClash, ApplyClash,
   CancelClash, ReadsClash DEF Advances

---------------------------------------------------------------------------
(* The steps the properties are about.                                     *)

(* The record of p moves by a step of p.                                   *)
LEMMA MovesItself ==
  ASSUME TypeOK, Next, NEW p \in Requests, request'[p] # request[p]
  PROVE  Arrives(p) \/ Advances(p)
<1>1. PICK q \in Requests : Arrives(q) \/ Advances(q)
  BY DEF Next
<1>2. OthersWait(q)
  BY <1>1, ArrivesShape, AdvancesShape
<1> QED BY <1>1, <1>2 DEF OthersWait

LEMMA BusyAdvances ==
  ASSUME NEW p \in Requests, Arrives(p)
  PROVE  request[p].phase = "idle"
BY DEF Arrives, ChangeStatus, SoftDelete, Restore, RemoveFromGroup, UpdateTrip,
       CompleteMany, CreateGroup, MarkManyLoose, CreateTrip, ImportNew,
       ReceiveDocument, MayStart

LEMMA MatchSteps ==
  ASSUME TypeOK, Next, NEW p \in Requests, DocumentStep(p), request[p].phase = "match"
  PROVE  \E d \in request[p].docs : MatchNew(p, d) \/ MatchUpdate(p, d) \/ MatchCancel(p, d)
<1>1. Advances(p)
  BY MovesItself, BusyAdvances DEF DocumentStep
<1>2. /\ ~AssertReclaimable(p) /\ ~SetStatus(p)
      /\ \A g : ~AssignToGroup(p, g)
      /\ ~LeaveGroup(p) /\ ~WriteLoose(p) /\ ~WriteUpdate(p)
      /\ \A t : ~InsertTrip(p, t)
      /\ ~AssertEveryIdentityHeld(p) /\ ~ImportMissing(p) /\ ~NoRoom(p)
      /\ \A at, g : ~ImportTrips(p, at, g)
      /\ ~ApplyDocument(p)
      /\ \A t : ~TransitionStatus(p, t) /\ ~RereadCancelled(p, t)
  BY DEF AssertReclaimable, SetStatus, AssignToGroup, LeaveGroup, WriteLoose,
         WriteUpdate, InsertTrip, AssertEveryIdentityHeld, ImportMissing, NoRoom,
         ImportTrips, ApplyDocument, TransitionStatus, RereadCancelled, At
<1> QED BY <1>1, <1>2 DEF Advances

(* Only two steps of an update write.                                      *)
LEMMA UpdateWrites ==
  ASSUME TypeOK, RequestsConsistent, Next, NEW p \in Requests, DocumentStep(p),
         request[p].op = "UPDATE", trip' # trip
  PROVE  ApplyDocument(p) \/ \E at, g : ImportTrips(p, at, g)
<1>1. request[p].phase # "idle"
  BY DEF RequestsConsistent, Consistent
<1>2. Advances(p)
  BY <1>1, MovesItself, BusyAdvances DEF DocumentStep
<1>3. /\ ~AssertReclaimable(p) /\ ~SetStatus(p)
      /\ \A g : ~AssignToGroup(p, g)
      /\ ~LeaveGroup(p) /\ ~WriteLoose(p) /\ ~WriteUpdate(p)
      /\ \A t : ~InsertTrip(p, t) /\ ~TransitionStatus(p, t) /\ ~RereadCancelled(p, t)
      /\ \A d : ~MatchNew(p, d) /\ ~MatchCancel(p, d)
  BY DEF AssertReclaimable, MustReclaim, SetStatus, StatusOps, AssignToGroup, LeaveGroup,
         WriteLoose, WriteUpdate, InsertTrip, TransitionStatus, RereadCancelled,
         MatchNew, MatchCancel, At
<1>4. /\ ~AssertEveryIdentityHeld(p) /\ ~ImportMissing(p) /\ ~NoRoom(p)
      /\ \A d : ~MatchUpdate(p, d)
  BY DEF AssertEveryIdentityHeld, ImportMissing, NoRoom, MatchUpdate, Become
<1> QED BY <1>2, <1>3, <1>4 DEF Advances

LEMMA EditSteps ==
  ASSUME OneAtATime, TypeOK, Next, NEW p \in Requests, At(p, "EDIT", "validated")
  PROVE  WriteUpdate(p)
<1>1. PICK q \in Requests : Arrives(q) \/ Advances(q)
  BY DEF Next
<1>2. Advances(p)
  BY <1>1, BusyAdvances DEF OneAtATime, At
<1>3. /\ ~AssertReclaimable(p) /\ ~SetStatus(p)
      /\ \A g : ~AssignToGroup(p, g)
      /\ ~LeaveGroup(p) /\ ~WriteLoose(p)
      /\ \A t : ~InsertTrip(p, t) /\ ~TransitionStatus(p, t) /\ ~RereadCancelled(p, t)
      /\ ~AssertEveryIdentityHeld(p) /\ ~ImportMissing(p) /\ ~NoRoom(p)
      /\ \A at, g : ~ImportTrips(p, at, g)
      /\ \A d : ~MatchNew(p, d) /\ ~MatchUpdate(p, d) /\ ~MatchCancel(p, d)
      /\ ~ApplyDocument(p)
  BY DEF AssertReclaimable, MustReclaim, SetStatus, StatusOps, AssignToGroup, LeaveGroup,
         WriteLoose, InsertTrip, TransitionStatus, RereadCancelled,
         AssertEveryIdentityHeld, ImportMissing, NoRoom, ImportTrips, MatchNew,
         MatchUpdate, MatchCancel, ApplyDocument, At
<1> QED BY <1>2, <1>3 DEF Advances

LEMMA NamedReached ==
  ASSUME TypeOK, IdentityIsUnique, Next, NEW p \in Requests, NEW d, NEW t \in Trips,
         request[p].phase = "match", request[p].docs = {d}, DocumentStep(p),
         d.container # NoContainer, t \in HoldersOf(DocumentIdentity(d)),
         trip[t].status = "OPEN"
  PROVE  request'[p].ids = {t}
<1> DEFINE r == request[p]
<1>0. r \in Request
  BY DEF TypeOK
<1>1. HoldersOf(DocumentIdentity(d)) = {t} /\ Resolve(d) = {t}
  BY OneHolder DEF Resolve
<1>2. Cardinality(Resolve(d)) = 1
  BY <1>1, FS_Singleton
<1>3. ~(Cardinality(Resolve(d)) > 1) /\ Resolve(d) # {}
  BY <1>1, <1>2
<1>4. Matched(r, t, d).ids = {t}
  BY <1>0 DEF Matched, Request
<1>5. MatchNew(p, d) \/ MatchUpdate(p, d) \/ MatchCancel(p, d)
  BY MatchSteps
<1>6. CASE MatchNew(p, d)
  <2>1. Become(p, Matched(r, t, d))
    BY <1>1, <1>6 DEF MatchNew, Finished
  <2> QED BY <2>1, <1>4, RecordAfterBecome
<1>7. CASE MatchUpdate(p, d)
  <2>1. Become(p, Matched(r, t, d))
    BY <1>1, <1>3, <1>7 DEF MatchUpdate, Finished
  <2> QED BY <2>1, <1>4, RecordAfterBecome
<1>8. CASE MatchCancel(p, d)
  <2> DEFINE next == [r EXCEPT !.phase = "cas", !.ids = {t}, !.row = trip[t],
                               !.docs = @ \ {d}, !.outcome = "NONE"]
  <2>1. Become(p, next)
    BY <1>1, <1>2, <1>8 DEF MatchCancel
  <2>2. next.ids = {t}
    BY <1>0 DEF Request
  <2> QED BY <2>1, <2>2, RecordAfterBecome
<1> QED BY <1>5, <1>6, <1>7, <1>8

LEMMA HeldBookingGetsNoTrip ==
  ASSUME TypeOK, RequestsConsistent, AllChecked, Next, NEW p \in Requests, NEW t \in Trips,
         DocumentStep(p), request[p].op = "UPDATE", ~Exists(t), trip'[t] # trip[t],
         NEW u \in Trips, Holds(u)
  PROVE  <<trip[u].booking, trip[u].orig>> # <<trip'[t].booking, trip'[t].orig>>
<1> DEFINE r == request[p]
<1>1. Checked(r)
  BY DEF AllChecked
<1>2. ~ApplyDocument(p)
  <2> SUFFICES ASSUME ApplyDocument(p) PROVE FALSE
    OBVIOUS
  <2>1. t \notin r.ids
    BY <1>1 DEF Checked, ApplyChecked, ApplyDocument, Exists, Holds, Holding
  <2>2. trip'[t] = trip[t]
    BY <2>1 DEF ApplyDocument, Commit, Rewritten
  <2> QED BY <2>2
<1>3. PICK at, g : ImportTrips(p, at, g)
  BY <1>2, UpdateWrites
<1>4. PICK table :
        /\ Commit(p, table, Idle("DONE"))
        /\ \A v \in Trips :
             \/ table[v] = trip[v] /\ \A d \in r.missing : at[d] # v
             \/ \E d \in r.missing : at[d] = v /\ table[v] = RowOf(d, g)
  BY <1>3, ImportWrites
<1>5. trip' = table
  BY <1>4 DEF Commit
<1>6. PICK d \in r.missing : trip'[t] = RowOf(d, g)
  BY <1>4, <1>5
<1>7. u \notin OnBookingAndDate(d)
  BY <1>1, <1>6 DEF Checked, ImportChecked
<1>8. trip'[t].booking = d.booking /\ trip'[t].orig = d.day
  BY <1>6, RowOfFields
<1> QED BY <1>7, <1>8 DEF OnBookingAndDate

LEMMA EditedDayFree ==
  ASSUME OneAtATime, TypeOK, AllChecked, Next, NEW p \in Requests, NEW t \in Trips,
         At(p, "EDIT", "validated"), trip'[t] # trip[t],
         trip'[t].booking # NoBooking,
         NEW u \in Trips \ {t}, trip'[u].status \in Holding
  PROVE  <<trip'[u].booking, trip'[u].container, trip'[u].day>>
           # <<trip'[t].booking, trip'[t].container, trip'[t].day>>
<1> DEFINE row == request[p].row
<1>1. PICK s, table :
        /\ s \in Trips
        /\ Commit(p, table, Idle("DONE"))
        /\ \A v \in Trips : v # s => table[v] = trip[v]
        /\ table[s] = row
        /\ row.booking # NoBooking =>
             (HoldersOf(Identity(row)) \cup OnSameDay(row)) \ {s} = {}
  BY EditSteps, EditWrites
<1>2. trip' = table
  BY <1>1 DEF Commit
<1>3. t = s /\ trip'[t] = row /\ trip'[u] = trip[u]
  BY <1>1, <1>2
<1>4. u \notin OnSameDay(row)
  BY <1>1, <1>3
<1> QED BY <1>3, <1>4 DEF OnSameDay, Holds

---------------------------------------------------------------------------
(* A document that names the container a live trip has stored reaches that *)
(* trip, with any number of requests at once: the unique index leaves one  *)
(* holder and the lookup by the whole identity comes first.                *)
THEOREM NamedContainersAreReached == Spec => NamedContainerIsReached
<1>1. TypeOK /\ IdentityIsUnique /\ [Next]_vars => [NamedContainerStep]_vars
  BY NamedReached DEF NamedContainerStep
<1> QED BY <1>1, TypeCorrect, IdentityStaysUnique, PTL DEF Spec, NamedContainerIsReached

(* As long as requests do not overlap, the service's checks are complete:  *)
(* a trip with a booking number is never refused by the unique index, but  *)
(* when it was created with a container typed in another form; an update   *)
(* adds no trip to a booking and date that are held; and an edit leaves no *)
(* two live trips of one booking and container on a day.                   *)
THEOREM SerialChecksAreComplete ==
  ASSUME OneAtATime
  PROVE  Spec => /\ ClashIsRefused
                 /\ UpdateNeverAddsToAmbiguity
                 /\ EditLeavesDayFree
<1>1. TypeOK /\ IdentityIsUnique /\ RequestsConsistent /\ AllChecked /\ [Next]_vars
        => [ClashStep /\ UpdateAddsStep /\ EditStep]_vars
  <2> SUFFICES ASSUME TypeOK, IdentityIsUnique, RequestsConsistent, AllChecked, Next
               PROVE  ClashStep /\ UpdateAddsStep /\ EditStep
    BY DEF vars
  <2>1. ClashStep
    <3> SUFFICES ASSUME NEW p \in Requests, request'[p] # request[p],
                        request'[p].outcome = CV
                 PROVE  Unbooked(request[p]) \/ Formatted(request[p])
      BY DEF ClashStep, Unbooked, Formatted, CV
    <3>1. Advances(p)
      BY MovesItself, ArrivesFresh DEF CV
    <3> QED BY <3>1, StepClash
  <2>2. UpdateAddsStep
    BY HeldBookingGetsNoTrip DEF UpdateAddsStep
  <2>3. EditStep
    BY EditedDayFree DEF EditStep
  <2> QED BY <2>1, <2>2, <2>3
<1> QED BY <1>1, TypeCorrect, IdentityStaysUnique, StaysConsistent, StaysChecked, PTL
        DEF Spec, ClashIsRefused, UpdateNeverAddsToAmbiguity, EditLeavesDayFree
=============================================================================
