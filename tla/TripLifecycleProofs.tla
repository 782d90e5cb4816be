------------------------ MODULE TripLifecycleProofs ------------------------
(***************************************************************************)
(* What TripLifecycle guarantees for every number of trips, requests and   *)
(* documents.  Every step of the module is one of two shapes, Become or    *)
(* Commit, and the lemmas about those two carry most of the proofs.        *)
(***************************************************************************)
EXTENDS TripLifecycle, TLAPS

---------------------------------------------------------------------------
(* The records a request is built from are of their types.                 *)

LEMMA NoRowType == NoRow \in Row
BY DEF NoRow, Row

LEMMA NoEditType == NoEdit \in Edit
BY DEF NoEdit, Edit

LEMMA IdleType == ASSUME NEW outcome \in Outcomes PROVE Idle(outcome) \in Request
BY NoRowType, NoEditType
DEF Idle, Request, OperationNames, Phases, Statuses

LEMMA OpenedType ==
  ASSUME NEW op \in OperationNames, NEW phase \in Phases, NEW ids \in SUBSET Trips
  PROVE  Opened(op, phase, ids) \in Request
BY NoRowType, NoEditType
DEF Opened, Idle, Request, OperationNames, Phases, Statuses, Outcomes

LEMMA OpenedOnType ==
  ASSUME TypeOK, NEW op \in OperationNames, NEW t \in Trips
  PROVE  OpenedOn(op, t) \in Request
<1>1. Opened(op, "validated", {t}) \in Request
  BY OpenedType DEF Phases
<1>2. trip[t] \in Row
  BY DEF TypeOK
<1> QED BY <1>1, <1>2 DEF OpenedOn, Request

LEMMA ContinueType ==
  ASSUME NEW r \in Request, NEW docs \in SUBSET Documents,
         NEW missing \in SUBSET Documents, NEW outcome \in Outcomes
  PROVE  Continue(r, docs, missing, outcome) \in Request
BY IdleType, NoRowType DEF Continue, Request, Phases

LEMMA RevisedType ==
  ASSUME NEW row \in Row, NEW d \in Documents
  PROVE  Revised(row, d) \in Row
<1>1. d \in Document
  BY DocumentsAreDocuments
<1>2. d.container \in Typed \cup {NoContainer} /\ d.day \in Days /\ d.order \in Orders
  BY <1>1, FormattingIsDropped DEF Document
<1>3. CASE MovedByOperator(row)
  BY ZenonT(40), <1>2, <1>3 DEF Revised, Row
<1>4. CASE ~MovedByOperator(row)
  BY ZenonT(40), <1>2, <1>4 DEF Revised, Row
<1> QED BY <1>3, <1>4

LEMMA RowOfType ==
  ASSUME NEW d \in Documents, NEW g \in Groups \cup {NoGroup}
  PROVE  RowOf(d, g) \in Row
<1>1. d \in Document
  BY DocumentsAreDocuments
<1>2. d.container \in Typed \cup {NoContainer}
  BY <1>1, FormattingIsDropped DEF Document
<1> QED BY <1>1, <1>2, NoRowType DEF RowOf, Row, Document, Statuses

LEMMA EditedType ==
  ASSUME NEW row \in Row, NEW e \in Edit
  PROVE  Edited(row, e) \in Row
<1>1. e.field = "container" => ToContainerIdentity(e.value) \in Typed \cup {NoContainer}
  BY FormattingIsDropped DEF Edit, ToContainerIdentity
<1> QED BY <1>1 DEF Edited, Edit, Row

(* A document only ever matches a live trip.                               *)
LEMMA StatusOfMatch ==
  ASSUME NEW d, NEW t \in Trips, Resolve(d) = {t}
  PROVE  trip[t].status \in {"OPEN", "CLOSED", "CANCELLED"}
BY DEF Resolve, HoldersOf, OnBookingAndDate, Holds, Holding

---------------------------------------------------------------------------
(* The two shapes of a step preserve the types.                            *)

LEMMA BecomeType ==
  ASSUME TypeOK, NEW p \in Requests, NEW next \in Request, Become(p, next)
  PROVE  TypeOK'
BY DEF TypeOK, Become

LEMMA CommitType ==
  ASSUME TypeOK, NEW p \in Requests, NEW table \in [Trips -> Row],
         NEW next \in Request, Commit(p, table, next)
  PROVE  TypeOK'
<1>1. Idle("CONSTRAINT_VIOLATION") \in Request
  BY IdleType DEF Outcomes
<1> QED BY <1>1 DEF TypeOK, Commit

---------------------------------------------------------------------------
(* Type correctness.                                                       *)

LEMMA InitTypeOK == Init => TypeOK
<1>1. Idle("NONE") \in Request
  BY IdleType DEF Outcomes
<1> QED BY <1>1, NoRowType DEF Init, TypeOK

LEMMA ArrivesTypeOK ==
  ASSUME TypeOK, NEW p \in Requests, Arrives(p)
  PROVE  TypeOK'
<1> USE BecomeType
<1>1. ASSUME NEW t \in Trips, NEW to \in Statuses, ChangeStatus(p, t, to)
      PROVE  TypeOK'
  <2>1. OpenedOn("STATUS", t) \in Request
    BY OpenedOnType DEF OperationNames
  <2> QED BY <2>1, <1>1 DEF ChangeStatus, Request
<1>2. ASSUME NEW t \in Trips, SoftDelete(p, t)
      PROVE  TypeOK'
  <2>1. OpenedOn("DELETE", t) \in Request
    BY OpenedOnType DEF OperationNames
  <2> QED BY <2>1, <1>2 DEF SoftDelete, Request, Statuses
<1>3. ASSUME NEW t \in Trips, Restore(p, t)
      PROVE  TypeOK'
  <2>1. OpenedOn("RESTORE", t) \in Request
    BY OpenedOnType DEF OperationNames
  <2> QED BY <2>1, <1>3 DEF Restore, Request, Statuses
<1>4. ASSUME NEW t \in Trips, RemoveFromGroup(p, t)
      PROVE  TypeOK'
  <2>1. OpenedOn("UNGROUP", t) \in Request
    BY OpenedOnType DEF OperationNames
  <2> QED BY <2>1, <1>4 DEF RemoveFromGroup
<1>5. ASSUME NEW t \in Trips, NEW e \in Edit, UpdateTrip(p, t, e)
      PROVE  TypeOK'
  <2>1. OpenedOn("EDIT", t) \in Request
    BY OpenedOnType DEF OperationNames
  <2>2. Edited(trip[t], e) \in Row
    BY EditedType DEF TypeOK
  <2> QED BY <2>1, <2>2, <1>5 DEF UpdateTrip, Request
<1>6. ASSUME NEW ids \in SUBSET Trips, CompleteMany(p, ids)
      PROVE  TypeOK'
  <2> DEFINE toClose == {t \in ids : trip[t].status # "CLOSED"}
  <2>1. Opened("COMPLETE", "validated", toClose) \in Request
    BY OpenedType DEF OperationNames, Phases
  <2> QED BY <2>1, <1>6 DEF CompleteMany, Request, Statuses
<1>7. ASSUME NEW ids \in SUBSET Trips, CreateGroup(p, ids)
      PROVE  TypeOK'
  <2>1. Opened("GROUP", "validated", ids) \in Request
    BY OpenedType DEF OperationNames, Phases
  <2> QED BY <2>1, <1>7 DEF CreateGroup
<1>8. ASSUME NEW ids \in SUBSET Trips, MarkManyLoose(p, ids)
      PROVE  TypeOK'
  <2>1. Opened("LOOSE", "validated", {t \in ids : ~trip[t].loose}) \in Request
    BY OpenedType DEF OperationNames, Phases
  <2> QED BY <2>1, <1>8 DEF MarkManyLoose
<1>9. ASSUME NEW e \in Entries, CreateTrip(p, e)
      PROVE  TypeOK'
  <2> DEFINE orig == IF e.stated = NoDay THEN e.day ELSE e.stated
             row  == [NoRow EXCEPT !.status = "OPEN", !.booking = e.booking,
                                   !.container = e.container, !.orig = orig,
                                   !.day = e.day]
  <2>4. e \in Entry
    BY EntriesAreEntries
  <2>0. orig \in Days \cup {NoDay}
    BY <2>4 DEF Entry
  <2> HIDE DEF orig
  <2>1. row \in Row
    BY <2>0, <2>4, NoRowType DEF Row, Statuses, Entry
  <2>2. Opened("CREATE", "validated", {}) \in Request
    BY OpenedType DEF OperationNames, Phases
  <2>3. [Opened("CREATE", "validated", {}) EXCEPT !.row = row] \in Request
    BY <2>1, <2>2 DEF Request
  <2> QED BY <2>3, <1>9 DEF CreateTrip, orig
<1>10. ASSUME NEW docs \in Transports, ImportNew(p, docs)
       PROVE  TypeOK'
  <2> DEFINE phase == IF \E d \in docs : HoldersOf(DocumentIdentity(d)) # {}
                        THEN "duplicate" ELSE "validated"
  <2>1. Opened("NEW", phase, {}) \in Request
    BY OpenedType DEF OperationNames, Phases
  <2>2. docs \in SUBSET Documents
    BY DEF Transports
  <2>3. [Opened("NEW", phase, {}) EXCEPT !.missing = docs] \in Request
    BY <2>1, <2>2 DEF Request
  <2> QED BY <2>3, <1>10 DEF ImportNew
<1>11. ASSUME NEW docs \in Transports, NEW op \in {"UPDATE", "CANCEL"},
              ReceiveDocument(p, op, docs)
       PROVE  TypeOK'
  <2>1. Opened(op, "match", {}) \in Request
    BY OpenedType DEF OperationNames, Phases
  <2>2. docs \in SUBSET Documents
    BY DEF Transports
  <2> QED BY <2>1, <2>2, <1>11 DEF ReceiveDocument, Request
<1> QED BY <1>1, <1>2, <1>3, <1>4, <1>5, <1>6, <1>7, <1>8, <1>9, <1>10, <1>11
        DEF Arrives

LEMMA AdvancesTypeOK ==
  ASSUME TypeOK, NEW p \in Requests, Advances(p)
  PROVE  TypeOK'
<1> USE BecomeType, CommitType
<1> DEFINE r == request[p]
<1>0. /\ r \in Request
      /\ trip \in [Trips -> Row]
      /\ \A outcome \in Outcomes : Idle(outcome) \in Request
      /\ \A docs, missing \in SUBSET Documents, outcome \in Outcomes :
           Continue(r, docs, missing, outcome) \in Request
  BY IdleType, ContinueType DEF TypeOK
<1>1. CASE AssertReclaimable(p)
  BY <1>0, <1>1 DEF AssertReclaimable, Request, Phases, Outcomes
<1>2. CASE SetStatus(p)
  <2> DEFINE Set(x) == [x EXCEPT !.status = r.to]
  <2>1. Rewritten(r.ids, Set) \in [Trips -> Row]
    BY <1>0 DEF Rewritten, Request, Row
  <2> QED BY <2>1, <1>0, <1>2 DEF SetStatus, Outcomes
<1>3. ASSUME NEW g \in Groups, AssignToGroup(p, g) PROVE TypeOK'
  <2> DEFINE Join(x) == [x EXCEPT !.group = g]
  <2>1. Rewritten(r.ids, Join) \in [Trips -> Row]
    BY <1>0 DEF Rewritten, Request, Row
  <2> QED BY <2>1, <1>0, <1>3 DEF AssignToGroup, Outcomes
<1>4. CASE LeaveGroup(p)
  <2> DEFINE Leave(x) == [x EXCEPT !.group = NoGroup]
  <2>1. Rewritten(r.ids, Leave) \in [Trips -> Row]
    BY <1>0 DEF Rewritten, Request, Row
  <2> QED BY <2>1, <1>0, <1>4 DEF LeaveGroup, Outcomes
<1>5. CASE WriteLoose(p)
  <2> DEFINE Mark(x) == [x EXCEPT !.loose = TRUE]
  <2>0. \A x \in Row : Mark(x) \in Row
    BY Zenon DEF Row
  <2>1. Rewritten(r.ids, Mark) \in [Trips -> Row]
    BY <2>0, <1>0 DEF Rewritten
  <2> QED BY <2>1, <1>0, <1>5 DEF WriteLoose, Outcomes
<1>6. CASE WriteUpdate(p)
  <2> DEFINE Write(x) == Edited(x, r.edit)
  <2>1. Rewritten(r.ids, Write) \in [Trips -> Row]
    BY <1>0, EditedType DEF Rewritten, Request
  <2> QED BY <2>1, <1>0, <1>6 DEF WriteUpdate, Outcomes
<1>7. ASSUME NEW t \in Trips, InsertTrip(p, t) PROVE TypeOK'
  <2>1. [trip EXCEPT ![t] = r.row] \in [Trips -> Row]
    BY <1>0 DEF Request
  <2> QED BY <2>1, <1>0, <1>7 DEF InsertTrip, Outcomes
<1>8. CASE AssertEveryIdentityHeld(p)
  BY <1>0, <1>8 DEF AssertEveryIdentityHeld, Request, Phases, Outcomes
<1>9. CASE ImportMissing(p)
  BY <1>0, <1>9 DEF ImportMissing, Request, Phases, Outcomes
<1>10. CASE NoRoom(p)
  BY <1>0, <1>10 DEF NoRoom, Outcomes
<1>11. ASSUME NEW at \in [r.missing -> Trips], NEW g \in Groups \cup {NoGroup},
              ImportTrips(p, at, g)
       PROVE  TypeOK'
  <2> DEFINE inserts(t) == \E d \in r.missing : at[d] = t
             table == [t \in Trips |-> IF inserts(t)
                         THEN RowOf(CHOOSE d \in r.missing : at[d] = t, g)
                         ELSE trip[t]]
  <2>1. ASSUME NEW t \in Trips, inserts(t)
        PROVE  RowOf(CHOOSE d \in r.missing : at[d] = t, g) \in Row
    <3>1. (CHOOSE d \in r.missing : at[d] = t) \in Documents
      BY <1>0, <2>1 DEF Request
    <3> QED BY <3>1, RowOfType
  <2>2. table \in [Trips -> Row]
    BY <2>1, <1>0
  <2> QED BY <2>2, <1>0, <1>11 DEF ImportTrips, Outcomes
<1>12. ASSUME NEW d \in r.docs, MatchNew(p, d) \/ MatchUpdate(p, d) \/ MatchCancel(p, d)
       PROVE  TypeOK'
  <2>1. /\ d \in Documents
        /\ r.docs \in SUBSET Documents
        /\ r.missing \in SUBSET Documents
    BY <1>0 DEF Request
  <2>2. r.docs \ {d} \in SUBSET Documents /\ r.missing \cup {d} \in SUBSET Documents
        /\ {} \in SUBSET Documents
    BY <2>1
  <2>3. \A t \in Trips : Matched(r, t, d) \in Request
    <3> TAKE t \in Trips
    <3>1. Revised(trip[t], d) \in Row
      BY <1>0, <2>1, RevisedType
    <3> QED BY <3>1, <2>2, <1>0 DEF Matched, Request, Phases
  <2>4. \A outcome \in Outcomes :
          /\ Continue(r, r.docs \ {d}, {}, outcome) \in Request
          /\ Continue(r, r.docs \ {d}, r.missing \cup {d}, outcome) \in Request
    BY <2>2, <1>0
  <2>5. CASE MatchNew(p, d)
    <3>1. HoldersOf(DocumentIdentity(d)) \subseteq Trips
      BY DEF HoldersOf
    <3> QED BY <3>1, <2>3, <2>4, <2>5 DEF MatchNew, Outcomes
  <2>6. CASE MatchUpdate(p, d)
    BY <2>3, <2>4, <1>0, <2>6 DEF MatchUpdate, Outcomes
  <2>7. CASE MatchCancel(p, d)
    <3>1. ASSUME NEW t \in Trips
          PROVE  [r EXCEPT !.phase = "cas", !.ids = {t}, !.row = trip[t],
                           !.docs = @ \ {d}, !.outcome = "NONE"] \in Request
      <4>1. trip[t] \in Row /\ {t} \in SUBSET Trips
        BY <1>0
      <4> QED BY ZenonT(40), <4>1, <2>2, <1>0 DEF Request, Phases, Outcomes
    <3>2. CASE Cardinality(Resolve(d)) # 1 /\ Become(p, Continue(r, r.docs \ {d}, {}, "REFUSED"))
      BY <3>2, <2>4 DEF Outcomes
    <3>3. ASSUME NEW t \in Trips, Resolve(d) = {t}, trip[t].status = "OPEN",
                 Become(p, [r EXCEPT !.phase = "cas", !.ids = {t}, !.row = trip[t],
                                     !.docs = @ \ {d}, !.outcome = "NONE"])
          PROVE  TypeOK'
      BY <3>1, <3>3
    <3>4. ASSUME Become(p, Continue(r, r.docs \ {d}, {}, "ALREADY_CANCELLED"))
          PROVE  TypeOK'
      BY <3>4, <2>4 DEF Outcomes
    <3>5. ASSUME Become(p, Continue(r, r.docs \ {d}, {}, "REFUSED_CLOSED"))
          PROVE  TypeOK'
      BY <3>5, <2>4 DEF Outcomes
    <3> QED BY <2>7, <3>2, <3>3, <3>4, <3>5, StatusOfMatch DEF MatchCancel
  <2> QED BY <1>12, <2>5, <2>6, <2>7
<1>13. CASE ApplyDocument(p)
  <2> DEFINE Write(x) == [x EXCEPT !.container = r.row.container, !.day = r.row.day,
                                   !.order = r.row.order,
                                   !.status = IF r.reopens THEN "OPEN" ELSE @]
  <2>1. /\ r.row \in Row
        /\ r.docs \in SUBSET Documents
        /\ r.missing \in SUBSET Documents
    BY <1>0 DEF Request
  <2>2. \A x \in Row : Write(x) \in Row
    <3> TAKE x \in Row
    <3> DEFINE status == IF r.reopens THEN "OPEN" ELSE x.status
    <3>1. status \in Statuses \cup {"NONE"}
      BY DEF Row, Statuses
    <3> HIDE DEF status
    <3>2. [x EXCEPT !.container = r.row.container, !.day = r.row.day,
                    !.order = r.row.order, !.status = status] \in Row
      BY ZenonT(40), <3>1, <2>1 DEF Row
    <3> QED BY <3>2 DEF status
  <2>3. Rewritten(r.ids, Write) \in [Trips -> Row]
    BY <2>2, <1>0 DEF Rewritten
  <2>4. Continue(r, r.docs, r.missing, "DONE") \in Request
    BY <2>1, <1>0 DEF Outcomes
  <2> QED BY <2>3, <2>4, <1>13 DEF ApplyDocument
<1>14. ASSUME NEW t \in Trips, TransitionStatus(p, t) \/ RereadCancelled(p, t)
       PROVE  TypeOK'
  <2>1. r.docs \in SUBSET Documents /\ {} \in SUBSET Documents
    BY <1>0 DEF Request
  <2>2. [trip EXCEPT ![t].status = "CANCELLED"] \in [Trips -> Row]
    BY <1>0 DEF Row, Statuses
  <2>3. \A outcome \in Outcomes : Continue(r, r.docs, {}, outcome) \in Request
    BY <2>1, <1>0
  <2>4. [r EXCEPT !.phase = "reread"] \in Request
    BY <1>0 DEF Request, Phases
  <2>5. CASE TransitionStatus(p, t)
    BY <2>2, <2>3, <2>4, <2>5 DEF TransitionStatus, Outcomes
  <2>6. CASE RereadCancelled(p, t)
    BY <2>3, <2>6 DEF RereadCancelled, Outcomes
  <2> QED BY <1>14, <2>5, <2>6
<1> QED BY <1>1, <1>2, <1>3, <1>4, <1>5, <1>6, <1>7, <1>8, <1>9, <1>10, <1>11,
           <1>12, <1>13, <1>14 DEF Advances

(* Rows and requests keep their types through every operation and document *)
(* of TripService and TripRevisionService.                                 *)
THEOREM TypeCorrect == Spec => []TypeOK
<1>1. TypeOK /\ [Next]_vars => TypeOK'
  <2>1. TypeOK /\ Next => TypeOK'
    BY ArrivesTypeOK, AdvancesTypeOK DEF Next
  <2>2. TypeOK /\ UNCHANGED vars => TypeOK'
    BY DEF TypeOK, vars
  <2> QED BY <2>1, <2>2
<1> QED BY <1>1, InitTypeOK, PTL DEF Spec

---------------------------------------------------------------------------
(* What every step has in common: it changes the record of one request,    *)
(* and it leaves the table alone or commits one that the index accepts.    *)

Accepted == trip' = trip \/ IdentityKeyHolds(trip')

OthersWait(p) == \A q \in Requests \ {p} : request'[q] = request[q]

LEMMA BecomeShape ==
  ASSUME TypeOK, NEW p \in Requests, NEW next, Become(p, next)
  PROVE  Accepted /\ OthersWait(p)
BY DEF Become, Accepted, OthersWait, TypeOK

LEMMA CommitShape ==
  ASSUME TypeOK, NEW p \in Requests, NEW table, NEW next, Commit(p, table, next)
  PROVE  Accepted /\ OthersWait(p)
<1>1. CASE IdentityKeyHolds(table)
  BY <1>1 DEF Commit, Accepted, OthersWait, TypeOK
<1>2. CASE ~IdentityKeyHolds(table)
  BY <1>2 DEF Commit, Accepted, OthersWait, TypeOK
<1> QED BY <1>1, <1>2

LEMMA ArrivesShape ==
  ASSUME TypeOK, NEW p \in Requests, Arrives(p)
  PROVE  Accepted /\ OthersWait(p)
<1> USE BecomeShape
<1>1. ASSUME NEW t \in Trips, NEW to \in Statuses, ChangeStatus(p, t, to)
      PROVE  Accepted /\ OthersWait(p)
  BY <1>1 DEF ChangeStatus
<1>2. ASSUME NEW t \in Trips, SoftDelete(p, t) \/ Restore(p, t) \/ RemoveFromGroup(p, t)
      PROVE  Accepted /\ OthersWait(p)
  BY <1>2 DEF SoftDelete, Restore, RemoveFromGroup
<1>3. ASSUME NEW t \in Trips, NEW e \in Edit, UpdateTrip(p, t, e)
      PROVE  Accepted /\ OthersWait(p)
  BY <1>3 DEF UpdateTrip
<1>4. ASSUME NEW ids \in SUBSET Trips,
             CompleteMany(p, ids) \/ CreateGroup(p, ids) \/ MarkManyLoose(p, ids)
      PROVE  Accepted /\ OthersWait(p)
  BY <1>4 DEF CompleteMany, CreateGroup, MarkManyLoose
<1>5. ASSUME NEW e, CreateTrip(p, e)
      PROVE  Accepted /\ OthersWait(p)
  BY <1>5 DEF CreateTrip
<1>6. ASSUME NEW docs \in Transports, NEW op,
             ImportNew(p, docs) \/ ReceiveDocument(p, op, docs)
      PROVE  Accepted /\ OthersWait(p)
  BY <1>6 DEF ImportNew, ReceiveDocument
<1> QED BY <1>1, <1>2, <1>3, <1>4, <1>5, <1>6 DEF Arrives

LEMMA AdvancesShape ==
  ASSUME TypeOK, NEW p \in Requests, Advances(p)
  PROVE  Accepted /\ OthersWait(p)
<1> USE BecomeShape, CommitShape
<1>1. CASE AssertReclaimable(p) \/ SetStatus(p)
  BY <1>1 DEF AssertReclaimable, SetStatus, Rewritten
<1>2. ASSUME NEW g, AssignToGroup(p, g)
      PROVE  Accepted /\ OthersWait(p)
  BY <1>2 DEF AssignToGroup, Rewritten
<1>3. CASE LeaveGroup(p) \/ WriteLoose(p) \/ WriteUpdate(p)
  BY <1>3 DEF LeaveGroup, WriteLoose, WriteUpdate, Rewritten
<1>4. ASSUME NEW t, InsertTrip(p, t)
      PROVE  Accepted /\ OthersWait(p)
  BY <1>4 DEF InsertTrip
<1>5. CASE AssertEveryIdentityHeld(p) \/ ImportMissing(p) \/ NoRoom(p)
  BY <1>5 DEF AssertEveryIdentityHeld, ImportMissing, NoRoom
<1>6. ASSUME NEW at, NEW g, ImportTrips(p, at, g)
      PROVE  Accepted /\ OthersWait(p)
  BY <1>6 DEF ImportTrips
<1>7. ASSUME NEW d, MatchNew(p, d)
      PROVE  Accepted /\ OthersWait(p)
  BY <1>7 DEF MatchNew
<1>8. ASSUME NEW d, MatchUpdate(p, d)
      PROVE  Accepted /\ OthersWait(p)
  BY <1>8 DEF MatchUpdate
<1>9. ASSUME NEW d, MatchCancel(p, d)
      PROVE  Accepted /\ OthersWait(p)
  <2>1. PICK next : Become(p, next)
    BY <1>9, StatusOfMatch DEF MatchCancel
  <2> QED BY <2>1
<1>10. CASE ApplyDocument(p)
  BY <1>10 DEF ApplyDocument, Rewritten
<1>11. ASSUME NEW t, TransitionStatus(p, t) \/ RereadCancelled(p, t)
       PROVE  Accepted /\ OthersWait(p)
  BY <1>11 DEF TransitionStatus, RereadCancelled
<1> QED BY <1>1, <1>2, <1>3, <1>4, <1>5, <1>6, <1>7, <1>8, <1>9, <1>10, <1>11
        DEF Advances

(* No two live trips ever hold the same identity: no action writes around  *)
(* the index.                                                              *)
LEMMA IdentityStaysUnique == Spec => []IdentityIsUnique
<1>1. Init => IdentityIsUnique
  BY DEF Init, IdentityIsUnique, IdentityKeyHolds, NoRow, Holding
<1>2. TypeOK /\ IdentityIsUnique /\ [Next]_vars => IdentityIsUnique'
  <2> SUFFICES ASSUME TypeOK, IdentityIsUnique, [Next]_vars
               PROVE  IdentityIsUnique'
    OBVIOUS
  <2>1. CASE Next
    <3>1. Accepted
      BY <2>1, ArrivesShape, AdvancesShape DEF Next
    <3> QED BY <3>1 DEF Accepted, IdentityIsUnique, IdentityKeyHolds
  <2>2. CASE UNCHANGED vars
    BY <2>2 DEF vars, IdentityIsUnique, IdentityKeyHolds
  <2> QED BY <2>1, <2>2
<1> QED BY <1>1, <1>2, TypeCorrect, PTL DEF Spec

---------------------------------------------------------------------------
(* Cancellations.                                                          *)

(* A slot without a request holds no operation, and a cancellation that is *)
(* about to compare and set has not answered yet.                          *)
Consistent(r) ==
  /\ r.phase = "idle" => r.op = "NONE"
  /\ r.phase = "cas" => r.op = "CANCEL" /\ r.outcome = "NONE"

RequestsConsistent == \A p \in Requests : Consistent(request[p])

LEMMA BecomeConsistent ==
  ASSUME TypeOK, RequestsConsistent, NEW p \in Requests, NEW next,
         Become(p, next), Consistent(next)
  PROVE  RequestsConsistent'
BY DEF TypeOK, RequestsConsistent, Become, Consistent

LEMMA IdleConsistent == ASSUME NEW outcome PROVE Consistent(Idle(outcome))
BY DEF Consistent, Idle

LEMMA CommitConsistent ==
  ASSUME TypeOK, RequestsConsistent, NEW p \in Requests, NEW table, NEW next,
         Commit(p, table, next), Consistent(next)
  PROVE  RequestsConsistent'
<1>1. Consistent(Idle("CONSTRAINT_VIOLATION"))
  BY IdleConsistent
<1>2. PICK r : Consistent(r) /\ request' = [request EXCEPT ![p] = r]
  BY <1>1 DEF Commit
<1> QED BY <1>2 DEF TypeOK, RequestsConsistent, Consistent

LEMMA ContinueConsistent ==
  ASSUME NEW r \in Request, NEW docs, NEW missing, NEW outcome
  PROVE  Consistent(Continue(r, docs, missing, outcome))
BY IdleConsistent DEF Continue, Consistent, Request

LEMMA ArrivesConsistent ==
  ASSUME TypeOK, RequestsConsistent, NEW p \in Requests, Arrives(p)
  PROVE  RequestsConsistent'
<1> USE BecomeConsistent DEF OpenedOn, Opened, Idle, Consistent
<1>1. ASSUME NEW t \in Trips, NEW to \in Statuses, ChangeStatus(p, t, to)
      PROVE  RequestsConsistent'
  BY <1>1 DEF ChangeStatus
<1>2. ASSUME NEW t \in Trips, SoftDelete(p, t) \/ Restore(p, t) \/ RemoveFromGroup(p, t)
      PROVE  RequestsConsistent'
  BY <1>2 DEF SoftDelete, Restore, RemoveFromGroup
<1>3. ASSUME NEW t \in Trips, NEW e \in Edit, UpdateTrip(p, t, e)
      PROVE  RequestsConsistent'
  BY <1>3 DEF UpdateTrip
<1>4. ASSUME NEW ids \in SUBSET Trips,
             CompleteMany(p, ids) \/ CreateGroup(p, ids) \/ MarkManyLoose(p, ids)
      PROVE  RequestsConsistent'
  BY <1>4 DEF CompleteMany, CreateGroup, MarkManyLoose
<1>5. ASSUME NEW e, CreateTrip(p, e)
      PROVE  RequestsConsistent'
  BY <1>5 DEF CreateTrip
<1>6. ASSUME NEW docs \in Transports, NEW op,
             ImportNew(p, docs) \/ ReceiveDocument(p, op, docs)
      PROVE  RequestsConsistent'
  BY <1>6 DEF ImportNew, ReceiveDocument
<1> QED BY <1>1, <1>2, <1>3, <1>4, <1>5, <1>6 DEF Arrives

LEMMA AdvancesConsistent ==
  ASSUME TypeOK, RequestsConsistent, NEW p \in Requests, Advances(p)
  PROVE  RequestsConsistent'
<1> USE BecomeConsistent, CommitConsistent
<1> DEFINE r == request[p]
<1>0. /\ r \in Request
      /\ \A outcome : Consistent(Idle(outcome))
      /\ \A docs, missing, outcome : Consistent(Continue(r, docs, missing, outcome))
  BY IdleConsistent, ContinueConsistent DEF TypeOK
<1>1. CASE AssertReclaimable(p) \/ SetStatus(p)
  <2>1. Consistent([r EXCEPT !.phase = "verified"])
    BY <1>0 DEF Consistent, Request
  <2> QED BY <2>1, <1>0, <1>1 DEF AssertReclaimable, SetStatus, Rewritten
<1>2. ASSUME NEW g, AssignToGroup(p, g)
      PROVE  RequestsConsistent'
  BY <1>0, <1>2 DEF AssignToGroup, Rewritten
<1>3. CASE LeaveGroup(p) \/ WriteLoose(p) \/ WriteUpdate(p)
  BY <1>0, <1>3 DEF LeaveGroup, WriteLoose, WriteUpdate, Rewritten
<1>4. ASSUME NEW t, InsertTrip(p, t)
      PROVE  RequestsConsistent'
  BY <1>0, <1>4 DEF InsertTrip
<1>5. CASE AssertEveryIdentityHeld(p) \/ ImportMissing(p) \/ NoRoom(p)
  <2>1. /\ Consistent([r EXCEPT !.phase = "validated"])
        /\ Consistent([r EXCEPT !.phase = "match", !.docs = r.missing, !.missing = {}])
    BY <1>0 DEF Consistent, Request
  <2> QED BY <2>1, <1>0, <1>5 DEF AssertEveryIdentityHeld, ImportMissing, NoRoom
<1>6. ASSUME NEW at, NEW g, ImportTrips(p, at, g)
      PROVE  RequestsConsistent'
  BY <1>0, <1>6 DEF ImportTrips
<1>7. \A t, d : Consistent(Matched(r, t, d))
  BY <1>0 DEF Matched, Consistent, Request
<1>8. ASSUME NEW d, MatchNew(p, d) \/ MatchUpdate(p, d)
      PROVE  RequestsConsistent'
  BY <1>0, <1>7, <1>8 DEF MatchNew, MatchUpdate
<1>9. ASSUME NEW d, MatchCancel(p, d)
      PROVE  RequestsConsistent'
  <2>1. ASSUME NEW t, r.op = "CANCEL"
        PROVE  Consistent([r EXCEPT !.phase = "cas", !.ids = {t}, !.row = trip[t],
                                    !.docs = @ \ {d}, !.outcome = "NONE"])
    BY <2>1, <1>0 DEF Consistent, Request
  <2>2. PICK next : Become(p, next) /\ Consistent(next)
    BY <2>1, <1>0, <1>9, StatusOfMatch DEF MatchCancel, At
  <2> QED BY <2>2
<1>10. CASE ApplyDocument(p)
  BY <1>0, <1>10 DEF ApplyDocument, Rewritten
<1>11. ASSUME NEW t, TransitionStatus(p, t) \/ RereadCancelled(p, t)
       PROVE  RequestsConsistent'
  <2>1. Consistent([r EXCEPT !.phase = "reread"])
    BY <1>0 DEF Consistent, Request
  <2> QED BY <2>1, <1>0, <1>11 DEF TransitionStatus, RereadCancelled
<1> QED BY <1>1, <1>2, <1>3, <1>4, <1>5, <1>6, <1>8, <1>9, <1>10, <1>11 DEF Advances

LEMMA StaysConsistent == Spec => []RequestsConsistent
<1>1. Init => RequestsConsistent
  BY IdleConsistent DEF Init, RequestsConsistent, Consistent
<1>2. TypeOK /\ RequestsConsistent /\ [Next]_vars => RequestsConsistent'
  <2>1. TypeOK /\ RequestsConsistent /\ Next => RequestsConsistent'
    BY ArrivesConsistent, AdvancesConsistent DEF Next
  <2>2. RequestsConsistent /\ UNCHANGED vars => RequestsConsistent'
    BY DEF vars, RequestsConsistent, Consistent
  <2> QED BY <2>1, <2>2
<1> QED BY <1>1, <1>2, TypeCorrect, PTL DEF Spec

(* A step that moves the record of a cancellation is a step of             *)
(* cancelByIdentity.                                                       *)
LEMMA CancelSteps ==
  ASSUME TypeOK, RequestsConsistent, Next, NEW p \in Requests,
         request[p].op = "CANCEL", request'[p] # request[p]
  PROVE  \/ \E d \in request[p].docs : MatchCancel(p, d)
         \/ \E t \in Trips : TransitionStatus(p, t) \/ RereadCancelled(p, t)
<1>1. PICK q \in Requests : Arrives(q) \/ Advances(q)
  BY DEF Next
<1>2. OthersWait(q)
  BY <1>1, ArrivesShape, AdvancesShape
<1>3. p = q
  BY <1>2 DEF OthersWait
<1>4. request[p].phase # "idle"
  BY DEF RequestsConsistent, Consistent
<1>5. ~Arrives(p)
  BY <1>4 DEF Arrives, ChangeStatus, SoftDelete, Restore, RemoveFromGroup, UpdateTrip,
              CompleteMany, CreateGroup, MarkManyLoose, CreateTrip, ImportNew,
              ReceiveDocument, MayStart
<1>6. /\ ~AssertReclaimable(p) /\ ~SetStatus(p)
      /\ \A g : ~AssignToGroup(p, g)
      /\ ~LeaveGroup(p) /\ ~WriteLoose(p) /\ ~WriteUpdate(p)
      /\ \A t : ~InsertTrip(p, t)
      /\ ~AssertEveryIdentityHeld(p) /\ ~ImportMissing(p) /\ ~NoRoom(p)
      /\ \A at, g : ~ImportTrips(p, at, g)
      /\ \A d : ~MatchNew(p, d) /\ ~MatchUpdate(p, d)
      /\ ~ApplyDocument(p)
  BY DEF AssertReclaimable, MustReclaim, SetStatus, StatusOps, AssignToGroup, LeaveGroup,
         WriteLoose, WriteUpdate, InsertTrip, AssertEveryIdentityHeld, ImportMissing,
         NoRoom, ImportTrips, MatchNew, MatchUpdate, ApplyDocument, At
<1> QED BY <1>1, <1>3, <1>5, <1>6 DEF Advances

(* A cancellation moves one OPEN row to CANCELLED or nothing at all, and   *)
(* says which, whatever the requests around it do.                         *)
THEOREM CancellationsAreSafe == Spec => CancelsOnlyOpenWork
<1>1. TypeOK /\ RequestsConsistent /\ [Next]_vars => [CancelStep]_vars
  <2> SUFFICES ASSUME TypeOK, RequestsConsistent, Next,
                      NEW p \in Requests, DocumentStep(p), request[p].op = "CANCEL"
               PROVE  /\ \A t \in Trips : trip'[t] # trip[t] =>
                           /\ trip[t].status = "OPEN"
                           /\ trip'[t] = [trip[t] EXCEPT !.status = "CANCELLED"]
                      /\ At(p, "CANCEL", "cas") =>
                           (trip' # trip <=> request'[p].outcome = "CANCELLED")
    BY DEF CancelStep, vars
  <2> DEFINE r == request[p]
  <2>0. /\ request' [p] # r
        /\ r \in Request
        /\ trip \in [Trips -> Row]
    BY DEF DocumentStep, TypeOK
  <2>1. CASE \E d \in r.docs : MatchCancel(p, d)
    <3>1. PICK d \in r.docs : MatchCancel(p, d)
      BY <2>1
    <3>2. PICK next : Become(p, next)
      BY <3>1, StatusOfMatch DEF MatchCancel
    <3>3. trip' = trip
      BY <3>2 DEF Become
    <3>4. ~At(p, "CANCEL", "cas")
      BY <3>1 DEF MatchCancel, At
    <3> QED BY <3>3, <3>4
  <2>2. ASSUME NEW t \in Trips, TransitionStatus(p, t)
        PROVE  /\ \A u \in Trips : trip'[u] # trip[u] =>
                    /\ trip[u].status = "OPEN"
                    /\ trip'[u] = [trip[u] EXCEPT !.status = "CANCELLED"]
               /\ At(p, "CANCEL", "cas") =>
                    (trip' # trip <=> request'[p].outcome = "CANCELLED")
    <3> DEFINE table == [trip EXCEPT ![t].status = "CANCELLED"]
               next  == Continue(r, r.docs, {}, "CANCELLED")
    <3>1. CASE trip[t].status = "OPEN" /\ IdentityKeyHolds(table)
      <4>1. trip' = table /\ request' = [request EXCEPT ![p] = next]
        BY <2>2, <3>1 DEF TransitionStatus, Commit
      <4>2. \A u \in Trips : u # t => trip'[u] = trip[u]
        BY <4>1, <2>0
      <4>3. trip'[t] = [trip[t] EXCEPT !.status = "CANCELLED"]
        BY <4>1, <2>0
      <4>4. trip' # trip
        BY <4>3, <3>1, <2>0 DEF Row
      <4>5. next.outcome = "CANCELLED"
        BY <2>0 DEF Continue, Idle, Request
      <4>6. request'[p].outcome = "CANCELLED"
        BY <4>1, <4>5, <2>0 DEF TypeOK
      <4> QED BY <4>2, <4>3, <4>4, <4>6, <3>1
    <3>2. CASE trip[t].status = "OPEN" /\ ~IdentityKeyHolds(table)
      <4>1. trip' = trip /\ request' = [request EXCEPT ![p] = Idle("CONSTRAINT_VIOLATION")]
        BY <2>2, <3>2 DEF TransitionStatus, Commit
      <4>2. request'[p].outcome = "CONSTRAINT_VIOLATION"
        BY <4>1 DEF TypeOK, Idle
      <4> QED BY <4>1, <4>2
    <3>3. CASE trip[t].status # "OPEN"
      <4>1. trip' = trip /\ request' = [request EXCEPT ![p] = [r EXCEPT !.phase = "reread"]]
        BY <2>2, <3>3 DEF TransitionStatus, Become
      <4>2. request'[p].outcome = r.outcome
        BY <4>1, <2>0 DEF TypeOK, Request
      <4>3. r.outcome = "NONE"
        BY <2>2 DEF TransitionStatus, At, RequestsConsistent, Consistent
      <4> QED BY <4>1, <4>2, <4>3
    <3> QED BY <3>1, <3>2, <3>3
  <2>3. ASSUME NEW t \in Trips, RereadCancelled(p, t)
        PROVE  trip' = trip /\ ~At(p, "CANCEL", "cas")
    BY <2>3 DEF RereadCancelled, Become, At
  <2> QED BY <2>0, <2>1, <2>2, <2>3, CancelSteps
<1> QED BY <1>1, TypeCorrect, StaysConsistent, PTL DEF Spec, CancelsOnlyOpenWork

---------------------------------------------------------------------------
(* Documents, while requests do not overlap.  What a document read of a    *)
(* trip is then still true when it writes; RevisionLeavesClosedAlone and   *)
(* ContainerNeverErased fail as soon as a second request may interleave.   *)

ReadIsCurrent ==
  \A p \in Requests : request[p].phase = "apply" =>
    \A t \in request[p].ids :
      /\ Exists(t)
      /\ trip[t].status # "CLOSED"
      /\ trip[t].container # NoContainer => request[p].row.container # NoContainer
      /\ MovedByOperator(trip[t]) => request[p].row.day = trip[t].day

LEMMA RecordAfterBecome ==
  ASSUME TypeOK, NEW p \in Requests, NEW next, Become(p, next)
  PROVE  request'[p] = next
BY DEF TypeOK, Become

LEMMA RecordAfterCommit ==
  ASSUME TypeOK, NEW p \in Requests, NEW table, NEW next, Commit(p, table, next)
  PROVE  request'[p] = next \/ request'[p] = Idle("CONSTRAINT_VIOLATION")
BY DEF TypeOK, Commit

(* A request that starts has neither an answer nor anything to apply.      *)
LEMMA ArrivesFresh ==
  ASSUME TypeOK, NEW p \in Requests, Arrives(p)
  PROVE  request'[p].outcome = "NONE" /\ request'[p].phase # "apply"
<1>1. ASSUME NEW t \in Trips, NEW to \in Statuses, ChangeStatus(p, t, to)
      PROVE  request'[p].outcome = "NONE" /\ request'[p].phase # "apply"
  <2>1. request'[p] = [OpenedOn("STATUS", t) EXCEPT !.to = to]
    BY <1>1, RecordAfterBecome DEF ChangeStatus
  <2> QED BY <2>1 DEF OpenedOn, Opened, Idle
<1>2. ASSUME NEW t \in Trips, SoftDelete(p, t)
      PROVE  request'[p].outcome = "NONE" /\ request'[p].phase # "apply"
  <2>1. request'[p] = [OpenedOn("DELETE", t) EXCEPT !.to = "DELETED"]
    BY <1>2, RecordAfterBecome DEF SoftDelete
  <2> QED BY <2>1 DEF OpenedOn, Opened, Idle
<1>3. ASSUME NEW t \in Trips, Restore(p, t)
      PROVE  request'[p].outcome = "NONE" /\ request'[p].phase # "apply"
  <2>1. request'[p] = [OpenedOn("RESTORE", t) EXCEPT !.to = "OPEN"]
    BY <1>3, RecordAfterBecome DEF Restore
  <2> QED BY <2>1 DEF OpenedOn, Opened, Idle
<1>4. ASSUME NEW t \in Trips, RemoveFromGroup(p, t)
      PROVE  request'[p].outcome = "NONE" /\ request'[p].phase # "apply"
  <2>1. request'[p] = OpenedOn("UNGROUP", t)
    BY <1>4, RecordAfterBecome DEF RemoveFromGroup
  <2> QED BY <2>1 DEF OpenedOn, Opened, Idle
<1>5. ASSUME NEW t \in Trips, NEW e \in Edit, UpdateTrip(p, t, e)
      PROVE  request'[p].outcome = "NONE" /\ request'[p].phase # "apply"
  <2>1. request'[p] = [OpenedOn("EDIT", t) EXCEPT !.edit = e, !.row = Edited(trip[t], e)]
    BY <1>5, RecordAfterBecome DEF UpdateTrip
  <2> QED BY <2>1 DEF OpenedOn, Opened, Idle
<1>6. ASSUME NEW ids \in SUBSET Trips, CompleteMany(p, ids)
      PROVE  request'[p].outcome = "NONE" /\ request'[p].phase # "apply"
  <2>1. \E toClose : request'[p] = [Opened("COMPLETE", "validated", toClose) EXCEPT !.to = "CLOSED"]
    BY <1>6, RecordAfterBecome DEF CompleteMany
  <2> QED BY <2>1 DEF Opened, Idle
<1>7. ASSUME NEW ids \in SUBSET Trips, CreateGroup(p, ids)
      PROVE  request'[p].outcome = "NONE" /\ request'[p].phase # "apply"
  <2>1. request'[p] = Opened("GROUP", "validated", ids)
    BY <1>7, RecordAfterBecome DEF CreateGroup
  <2> QED BY <2>1 DEF Opened, Idle
<1>8. ASSUME NEW ids \in SUBSET Trips, MarkManyLoose(p, ids)
      PROVE  request'[p].outcome = "NONE" /\ request'[p].phase # "apply"
  <2>1. \E them : request'[p] = Opened("LOOSE", "validated", them)
    BY <1>8, RecordAfterBecome DEF MarkManyLoose
  <2> QED BY <2>1 DEF Opened, Idle
<1>9. ASSUME NEW e, CreateTrip(p, e)
      PROVE  request'[p].outcome = "NONE" /\ request'[p].phase # "apply"
  <2>1. \E row : request'[p] = [Opened("CREATE", "validated", {}) EXCEPT !.row = row]
    BY <1>9, RecordAfterBecome DEF CreateTrip
  <2> QED BY <2>1 DEF Opened, Idle
<1>10. ASSUME NEW docs \in Transports, ImportNew(p, docs)
       PROVE  request'[p].outcome = "NONE" /\ request'[p].phase # "apply"
  <2>1. \E phase \in {"duplicate", "validated"} :
          request'[p] = [Opened("NEW", phase, {}) EXCEPT !.missing = docs]
    BY <1>10, RecordAfterBecome DEF ImportNew
  <2> QED BY <2>1 DEF Opened, Idle
<1>11. ASSUME NEW docs \in Transports, NEW op, ReceiveDocument(p, op, docs)
       PROVE  request'[p].outcome = "NONE" /\ request'[p].phase # "apply"
  <2>1. request'[p] = [Opened(op, "match", {}) EXCEPT !.docs = docs]
    BY <1>11, RecordAfterBecome DEF ReceiveDocument
  <2> QED BY <2>1 DEF Opened, Idle
<1> QED BY <1>1, <1>2, <1>3, <1>4, <1>5, <1>6, <1>7, <1>8, <1>9, <1>10, <1>11 DEF Arrives

(* The lookup of a document reads a live trip that is not CLOSED.          *)
LEMMA MatchReads ==
  ASSUME TypeOK, NEW p \in Requests, NEW d \in request[p].docs,
         MatchNew(p, d) \/ MatchUpdate(p, d), request'[p].phase = "apply"
  PROVE  /\ trip' = trip
         /\ \E t \in Trips : /\ Exists(t)
                             /\ trip[t].status # "CLOSED"
                             /\ request'[p] = Matched(request[p], t, d)
<1> DEFINE r == request[p]
<1> USE RecordAfterBecome
<1>0. r \in Request
  BY DEF TypeOK
<1>1. \A docs, missing, outcome : Continue(r, docs, missing, outcome).phase # "apply"
  BY <1>0 DEF Continue, Idle, Request
<1>2. \A outcome : Idle(outcome).phase # "apply"
  BY DEF Idle
<1>3. trip' = trip
  BY DEF MatchNew, MatchUpdate, Become
<1>4. CASE MatchNew(p, d)
  <2>1. PICK t \in HoldersOf(DocumentIdentity(d)) :
          ~Finished(t) /\ Become(p, Matched(r, t, d))
    BY <1>1, <1>2, <1>4 DEF MatchNew
  <2> QED BY <2>1, <1>3 DEF HoldersOf, Holds, Holding, Exists, Finished
<1>5. CASE MatchUpdate(p, d)
  <2>1. PICK t \in Trips :
          Resolve(d) = {t} /\ ~Finished(t) /\ Become(p, Matched(r, t, d))
    BY <1>1, <1>2, <1>5 DEF MatchUpdate
  <2> QED BY <2>1, <1>3, StatusOfMatch DEF Exists, Finished
<1> QED BY <1>4, <1>5

LEMMA OnlyMatchesApply ==
  ASSUME TypeOK, NEW p \in Requests, Advances(p), request'[p].phase = "apply"
  PROVE  \E d \in request[p].docs : MatchNew(p, d) \/ MatchUpdate(p, d)
<1> USE RecordAfterBecome, RecordAfterCommit
<1> DEFINE r == request[p]
<1>0. /\ r \in Request
      /\ \A outcome : Idle(outcome).phase # "apply"
      /\ \A docs, missing, outcome : Continue(r, docs, missing, outcome).phase # "apply"
  BY DEF TypeOK, Idle, Continue, Request
<1>1. ~(AssertReclaimable(p) \/ SetStatus(p))
  <2>1. [r EXCEPT !.phase = "verified"].phase # "apply"
    BY <1>0 DEF Request
  <2> QED BY <2>1, <1>0 DEF AssertReclaimable, SetStatus, Rewritten
<1>2. ASSUME NEW g PROVE ~AssignToGroup(p, g)
  BY <1>0 DEF AssignToGroup, Rewritten
<1>3. ~(LeaveGroup(p) \/ WriteLoose(p) \/ WriteUpdate(p))
  BY <1>0 DEF LeaveGroup, WriteLoose, WriteUpdate, Rewritten
<1>4. ASSUME NEW t PROVE ~InsertTrip(p, t)
  BY <1>0 DEF InsertTrip
<1>5. ~(AssertEveryIdentityHeld(p) \/ ImportMissing(p) \/ NoRoom(p))
  <2>1. /\ [r EXCEPT !.phase = "match", !.docs = r.missing, !.missing = {}].phase # "apply"
        /\ [r EXCEPT !.phase = "validated"].phase # "apply"
    BY <1>0 DEF Request
  <2> QED BY <2>1, <1>0 DEF AssertEveryIdentityHeld, ImportMissing, NoRoom
<1>6. ASSUME NEW at, NEW g PROVE ~ImportTrips(p, at, g)
  BY <1>0 DEF ImportTrips
<1>7. ASSUME NEW d PROVE ~MatchCancel(p, d)
  <2>1. \A t : [r EXCEPT !.phase = "cas", !.ids = {t}, !.row = trip[t],
                         !.docs = @ \ {d}, !.outcome = "NONE"].phase # "apply"
    BY <1>0 DEF Request
  <2>2. SUFFICES ASSUME MatchCancel(p, d) PROVE FALSE
    OBVIOUS
  <2>3. PICK next : Become(p, next) /\ next.phase # "apply"
    <3> DEFINE found(t) == [r EXCEPT !.phase = "cas", !.ids = {t}, !.row = trip[t],
                                     !.docs = @ \ {d}, !.outcome = "NONE"]
               answer(outcome) == Continue(r, r.docs \ {d}, {}, outcome)
    <3>1. /\ \A t : found(t).phase # "apply"
          /\ \A outcome : answer(outcome).phase # "apply"
      BY <2>1, <1>0
    <3>2. \/ \E t : Become(p, found(t))
          \/ \E outcome : Become(p, answer(outcome))
      BY <2>2, StatusOfMatch DEF MatchCancel
    <3> QED BY <3>1, <3>2
  <2> QED BY <2>3
<1>8. ~ApplyDocument(p)
  <2>1. Continue(r, r.docs, r.missing, "DONE").phase # "apply"
    BY <1>0
  <2> QED BY <2>1, <1>0 DEF ApplyDocument, Rewritten
<1>9. ASSUME NEW t PROVE ~(TransitionStatus(p, t) \/ RereadCancelled(p, t))
  <2>1. [r EXCEPT !.phase = "reread"].phase # "apply"
    BY <1>0 DEF Request
  <2>2. \A outcome : Continue(r, r.docs, {}, outcome).phase # "apply"
    BY <1>0
  <2>3. ~TransitionStatus(p, t)
    BY <2>1, <2>2, <1>0 DEF TransitionStatus
  <2>4. ~RereadCancelled(p, t)
    BY <2>2 DEF RereadCancelled
  <2> QED BY <2>3, <2>4
<1> QED BY <1>1, <1>2, <1>3, <1>4, <1>5, <1>6, <1>7, <1>8, <1>9 DEF Advances

LEMMA ReadStaysCurrent ==
  ASSUME \A p, q \in Requests : p = q, TypeOK, Next
  PROVE  ReadIsCurrent'
<1> SUFFICES ASSUME NEW p \in Requests, request'[p].phase = "apply",
                    NEW t \in request'[p].ids
             PROVE  /\ Exists(t)'
                    /\ trip'[t].status # "CLOSED"
                    /\ trip'[t].container # NoContainer
                         => request'[p].row.container # NoContainer
                    /\ MovedByOperator(trip'[t]) => request'[p].row.day = trip'[t].day
  BY DEF ReadIsCurrent
<1>1. Advances(p)
  BY ArrivesFresh DEF Next
<1>2. PICK d \in request[p].docs : MatchNew(p, d) \/ MatchUpdate(p, d)
  BY <1>1, OnlyMatchesApply
<1>3. trip' = trip /\ \E u \in Trips : /\ Exists(u)
                                      /\ trip[u].status # "CLOSED"
                                      /\ request'[p] = Matched(request[p], u, d)
  BY <1>2, MatchReads
<1>4. PICK u \in Trips : /\ Exists(u)
                         /\ trip[u].status # "CLOSED"
                         /\ request'[p] = Matched(request[p], u, d)
  BY <1>3
<1>5. request[p] \in Request /\ trip[u] \in Row
  BY DEF TypeOK
<1>6. request'[p].ids = {u} /\ request'[p].row = Revised(trip[u], d)
  BY <1>4, <1>5 DEF Matched, Request
<1>7. t = u /\ trip'[t] = trip[u]
  BY <1>3, <1>6
<1>8. trip[u].container # NoContainer => Revised(trip[u], d).container # NoContainer
  BY <1>5 DEF Revised, Row
<1>9. MovedByOperator(trip[u]) => Revised(trip[u], d).day = trip[u].day
  BY <1>5 DEF Revised, Row
<1> QED BY <1>4, <1>6, <1>7, <1>8, <1>9 DEF Exists

(* What the three properties ask of one trip in one step. *)
Kept(t) ==
  Exists(t) =>
    /\ trip[t].status = "CLOSED" => trip'[t] = trip[t]
    /\ trip[t].container # NoContainer => trip'[t].container # NoContainer
    /\ MovedByOperator(trip[t]) => trip'[t].day = trip[t].day

LEMMA UnchangedKept == ASSUME NEW t \in Trips, trip'[t] = trip[t] PROVE Kept(t)
BY DEF Kept

LEMMA ImportKeeps ==
  ASSUME TypeOK, NEW p \in Requests, NEW at, NEW g, ImportTrips(p, at, g), NEW t \in Trips
  PROVE  Kept(t)
<1> DEFINE r == request[p]
           table == [u \in Trips |-> IF \E d \in r.missing : at[d] = u
                       THEN RowOf(CHOOSE d \in r.missing : at[d] = u, g)
                       ELSE trip[u]]
<1>1. trip' = table \/ trip' = trip
  BY DEF ImportTrips, Commit
<1>2. Exists(t) => table[t] = trip[t]
  BY DEF ImportTrips
<1> QED BY <1>1, <1>2 DEF Kept

LEMMA ApplyKeeps ==
  ASSUME TypeOK, ReadIsCurrent, NEW p \in Requests, ApplyDocument(p), NEW t \in Trips
  PROVE  Kept(t)
<1> DEFINE r == request[p]
           Write(x) == [x EXCEPT !.container = r.row.container, !.day = r.row.day,
                                 !.order = r.row.order,
                                 !.status = IF r.reopens THEN "OPEN" ELSE @]
<1>0. trip[t] \in Row
  BY DEF TypeOK
<1>1. trip' = Rewritten(r.ids, Write) \/ trip' = trip
  BY DEF ApplyDocument, Commit
<1>2. CASE trip' = trip \/ t \notin r.ids
  <2>1. trip'[t] = trip[t]
    BY <1>1, <1>2 DEF Rewritten
  <2> QED BY <2>1, UnchangedKept
<1>3. CASE trip' = Rewritten(r.ids, Write) /\ t \in r.ids
  <2>1. trip'[t] = Write(trip[t])
    BY <1>3 DEF Rewritten
  <2>2. Write(trip[t]).container = r.row.container /\ Write(trip[t]).day = r.row.day
    BY <1>0 DEF Row
  <2>3. /\ trip[t].status # "CLOSED"
        /\ trip[t].container # NoContainer => r.row.container # NoContainer
        /\ MovedByOperator(trip[t]) => r.row.day = trip[t].day
    BY <1>3 DEF ApplyDocument, ReadIsCurrent
  <2> QED BY <2>1, <2>2, <2>3 DEF Kept
<1> QED BY <1>1, <1>2, <1>3

LEMMA CancelKeeps ==
  ASSUME TypeOK, NEW p \in Requests, NEW u, TransitionStatus(p, u), NEW t \in Trips
  PROVE  Kept(t)
<1>0. trip[t] \in Row
  BY DEF TypeOK
<1>1. CASE trip' = trip
  BY <1>1, UnchangedKept
<1>2. CASE trip[u].status = "OPEN" /\ trip' = [trip EXCEPT ![u].status = "CANCELLED"]
  <2>1. CASE t = u
    <3>1. trip'[t] = [trip[t] EXCEPT !.status = "CANCELLED"]
      BY <1>2, <2>1 DEF TypeOK
    <3>2. trip'[t].container = trip[t].container /\ trip'[t].day = trip[t].day
      BY <3>1, <1>0 DEF Row
    <3> QED BY <3>2, <1>2, <2>1 DEF Kept
  <2>2. CASE t # u
    BY <1>2, <2>2, UnchangedKept DEF TypeOK
  <2> QED BY <2>1, <2>2
<1> QED BY <1>1, <1>2 DEF TransitionStatus, Commit, Become

LEMMA DocumentKeeps ==
  ASSUME TypeOK, RequestsConsistent, ReadIsCurrent, Next,
         NEW p \in Requests, DocumentStep(p), NEW t \in Trips
  PROVE  Kept(t)
<1>1. PICK q \in Requests : Arrives(q) \/ Advances(q)
  BY DEF Next
<1>2. p = q
  BY <1>1, ArrivesShape, AdvancesShape DEF OthersWait, DocumentStep
<1>3. request[p].phase # "idle" /\ request[p].op \in {"NEW", "UPDATE", "CANCEL"}
  BY DEF RequestsConsistent, Consistent, DocumentStep
<1>4. ~Arrives(p)
  BY <1>3 DEF Arrives, ChangeStatus, SoftDelete, Restore, RemoveFromGroup, UpdateTrip,
              CompleteMany, CreateGroup, MarkManyLoose, CreateTrip, ImportNew,
              ReceiveDocument, MayStart
<1>5. /\ ~AssertReclaimable(p) /\ ~SetStatus(p)
      /\ \A g : ~AssignToGroup(p, g)
      /\ ~LeaveGroup(p) /\ ~WriteLoose(p) /\ ~WriteUpdate(p)
      /\ \A u : ~InsertTrip(p, u)
  BY <1>3 DEF AssertReclaimable, MustReclaim, SetStatus, StatusOps, AssignToGroup,
              LeaveGroup, WriteLoose, WriteUpdate, InsertTrip, At
<1>6. CASE AssertEveryIdentityHeld(p) \/ ImportMissing(p) \/ NoRoom(p)
  <2>1. trip' = trip
    BY <1>6 DEF AssertEveryIdentityHeld, ImportMissing, NoRoom, Become
  <2> QED BY <2>1, UnchangedKept
<1>7. ASSUME NEW d, MatchNew(p, d) \/ MatchUpdate(p, d) \/ MatchCancel(p, d)
      PROVE  Kept(t)
  <2>1. trip' = trip
    BY <1>7, StatusOfMatch DEF MatchNew, MatchUpdate, MatchCancel, Become
  <2> QED BY <2>1, UnchangedKept
<1>8. ASSUME NEW u, RereadCancelled(p, u)
      PROVE  Kept(t)
  <2>1. trip' = trip
    BY <1>8 DEF RereadCancelled, Become
  <2> QED BY <2>1, UnchangedKept
<1> QED BY <1>1, <1>2, <1>4, <1>5, <1>6, <1>7, <1>8, ImportKeeps, ApplyKeeps, CancelKeeps
        DEF Advances

(* As long as requests do not overlap, a document never rewrites a CLOSED  *)
(* trip, never erases a container and never moves a day the operator       *)
(* planned, for every number of trips and documents.                       *)
THEOREM SerialDocumentsAreSafe ==
  ASSUME \A p, q \in Requests : p = q
  PROVE  Spec => /\ RevisionLeavesClosedAlone
                 /\ ContainerNeverErased
                 /\ PlannedDayKept
<1>1. Init => ReadIsCurrent
  BY DEF Init, Idle, ReadIsCurrent
<1>2. TypeOK /\ ReadIsCurrent /\ [Next]_vars => ReadIsCurrent'
  <2>1. CASE UNCHANGED vars
    BY <2>1 DEF vars, ReadIsCurrent, Exists, MovedByOperator
  <2> QED BY <2>1, ReadStaysCurrent
<1>3. TypeOK /\ RequestsConsistent /\ ReadIsCurrent /\ [Next]_vars
        => [ClosedStaysStep /\ ContainerStaysStep /\ PlannedDayStep]_vars
  <2> SUFFICES ASSUME TypeOK, RequestsConsistent, ReadIsCurrent, Next
               PROVE  ClosedStaysStep /\ ContainerStaysStep /\ PlannedDayStep
    BY DEF vars
  <2>1. \A p \in Requests, t \in Trips : DocumentStep(p) => Kept(t)
    BY DocumentKeeps
  <2> QED BY <2>1 DEF Kept, Exists, ClosedStaysStep, ContainerStaysStep, PlannedDayStep
<1> QED BY <1>1, <1>2, <1>3, TypeCorrect, StaysConsistent, PTL
        DEF Spec, RevisionLeavesClosedAlone, ContainerNeverErased, PlannedDayKept
=============================================================================
