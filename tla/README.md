# GlobalLogisticTrans: a TLA+ model

GlobalLogisticTrans is the planning and pricing system of a container haulier.
Transport orders arrive by mail as PDF documents, become trips, are planned onto
vehicles and drivers by operators, are closed when driven, and are priced from
configured routes and price components. The backend (`apps/backend`) is a NestJS
application over one Postgres database, reached through Prisma at READ COMMITTED:
a request is a chain of awaited database calls, and any other request may commit
between two of them. That, and the transactions that do not cover what the code
believes they cover, is what this project is about.

## 1. The system

| Component | State | Operations | Talks to |
|---|---|---|---|
| Trip service (`trips/`) | `trip`, `trip_group` | create, edit, status, complete many, delete, restore, group, ungroup, loose | pricing, after its commits |
| Document revision (`trips/trip-revision.service.ts`) | `trip`, `trip_history` | apply NEW, UPDATE, CANCEL | pricing |
| Document import (`pdf-import/`) | `pdf_document`, `parser_run`, files | parse, decide, carry out per transport, verify | trips, cost confirmations |
| Paired pricing (`pricing-engine/`) | `trip_pricing` and its items | price a trip with its partner, store, settle the TAR, mark FAILED | reads trips |
| TAR charge (`pricing-engine/tar-charge-*`) | `trip_pricing_item.is_automatic` | guard, holders, settlement, release | paired pricing |
| IMAP scan (`imap/`) | `imported_email` | scan, decide a rescan, import, forward a failure once | document import |
| Vehicle assignments (`vehicle-assignments/`) | `vehicle_assignment`, `trip.driver_id` | create, link, edit, end; cutting one off pins its driver on its trips | trips |
| Route choice (`trip-route-selection/`) | `trip_route_selection` | choose, clear when the road changes | pricing |
| Bulk reprocess (`pricing-reprocess/`) | none | reprice many, one after another | paired pricing |
| Cost confirmations | `cost_confirmation` | import, attach to trips | document import |
| Invoice audit (`invoice-audit/`) | none but the marks in the workbook, `trip.is_paid` | match, compare, correct, add, confirm a payment | trips, prices, cost confirmations |
| Route configuration, costs, settings, master data, notes, calendar, maintenance | one table each | CRUD | |
| PDF parser (`apps/parser`) | none | text to fields | document import |
| WhatsApp gateway (`apps/whatsapp`) | one connection | connect, reconnect, send | backend |
| Frontend (`apps/frontend`) | none that outlives a page | | backend |

`PROJECT.json` lists every component with its status, and the hazards at their
lines. The hard ones share a shape: a row is read, something else commits, and
the answer computed from the old row is written. Postgres' unique index, the
compare-and-set of a cancellation, the ordering of snapshots by the time their
calculation started, and the advisory lock around a TAR claim are the code's
defences; the rest is not defended.

What makes each component correct:

* **Trip service**: its own checks refuse a second live trip with one booking,
  container and original date before the index has to; an edit never plans one
  transport twice on a day. The moves of the status machine, groups and the loose
  mark hold by the guard of one operation each: they are modelled, and no run
  spends a property on them.
* **Document revision**: finished work is left alone; nothing an operator
  entered is erased or re-dated; a cancellation cancels open work or nothing; a
  document reaches the trip it names, and never adds one to an ambiguity.
* **Pricing**: a shown price was calculated from the trip as it is; a stored
  snapshot is never replaced by an older calculation; one TAR number is charged
  once a day, and is charged at all.
* **Vehicle assignments**: one driver on a vehicle at a time; a trip keeps the
  driver it was driven with.
* **IMAP scan and import**: a mail is applied once however often it is tried, is
  retried until it is settled, and its failure is reported once; the document
  behind every trip, history row and amount exists, on disk too; a confirmation
  that was processed is in the amounts, once.
* **Invoice audit**: a transport is paid once, in full and as it is at that
  moment; a correction never makes two lines the same, and adds a transport only
  when no line can be it, and only once.

## 2. Modules

| Module | What it is |
|---|---|
| `TripLifecycle` | the `trip` table, the operators' requests and the documents |
| `MCTripLifecycle` | its small instances |
| `TripLifecycleProofs` | type correctness, identity, cancellations, documents |
| `TripLifecycleSerialProofs` | documents reach the trip they name; the service's own checks are complete |
| `TripPricing` | what is priced after a write, and the TAR charge |
| `MCTripPricing` | its small instances |
| `TripPricingProofs` | type correctness, snapshots only move forward |
| `TripPricingSerialProofs` | one request at a time: a shown price is current, a TAR number charged once a day |
| `TripPricingRaceProofs` | any number of requests at once: prices are current and complete until a crash |
| `MailImport` | the mailbox scan, the upload, the import pipeline, faults and crashes |
| `MailLedger` | what the import promises about a mail: the abstract specification |
| `MCMailImport` | its small instances |
| `MailImportProofs` | every safety property of its run, and that it implements `MailLedger` |
| `VehicleAssignments` | assignments of drivers to trucks and the drivers trips store |
| `MCVehicleAssignments` | its small instances |
| `VehicleAssignmentsProofs` | every property of its run |
| `InvoiceAudit` | the check of an invoice, its corrections and its payments |
| `MCInvoiceAudit` | its small instances |
| `InvoiceAuditProofs` | every property of its run |

The modules share the trip table and differ in what they keep of it.
`TripLifecycle` has its identity and status, and what a document says of a trip;
`MailImport` takes that as given (a transport is held or not, reached or not) and
has what surrounds it, the document, its file and the mail. `VehicleAssignments`
has the truck, the day and the driver, `TripPricing` what is billed,
`InvoiceAudit` the payment.

### TripLifecycle

`trip[t]` is the row of `t` reduced to the columns the rules read: status,
booking, container, original and planned day, group, loose, and `order`, which
stands for all other columns a document writes. A container is what was stored:
documents and edits store it unformatted, `create` as it was typed (`Typed`), and
`Canonical` says what remains of it unformatted. `Entries` are the trips operators
create by hand. `request[p]` is one promise
chain: the operation, where it is (`phase`), the row it read and will write back
from, the trips it will write, the transports of its document that are left, and
its last answer.

Each handler is cut where it awaits the database. A read and the checks on it
are one action (`ChangeStatus`, `UpdateTrip`, `MatchUpdate`, ...), a transaction's
writes are one action (`SetStatus`, `WriteUpdate`, `ApplyDocument`, ...) because
the row lock of the first write keeps others out until the commit. All writes go
through `Commit`, which asks the unique index first. A handler that refuses
before it has written anything simply does not start, unless the refusal is
part of a longer chain.

Left out: the driver, vehicle, waiting-time and payment columns, the history
rows, the automatic FLAT property, and the route choice. The two lookups of
`resolveTripForDocument` are one step. An UPDATE from an operator changes one
column per request. `NoRoom` is the bound on rows and groups: an insert that
finds no unused row is given up.

### TripPricing

Every write of a pricing input is followed, after its commit, by pricing. A
request (`request[p]`) writes, then prices its `todo`, then the trips that share
the TAR day it left (`release`). Pricing one trip is: choose the pair (`Scope`),
calculate each leg, store each leg, settle the TAR. `snapshot[t]` is the
`trip_pricing` row: when its calculation started (`at`), what it was calculated
from (`read`), whether it carries the automatic TAR, whether it was marked
FAILED. `Crash` drops every request, their chains live in memory only, and the
observation `crashed` remembers it: what is promised until the process stops is
stated as such.

Abstractions: a calculation with all its reads is one step; each transaction is
one step; DELETED is folded into CANCELLED, which pricing treats alike; every
calculation has a time of its own, so the tie-break of `surplusTarHolders` on the
trip id is not needed; a request prices its trips in any order; amounts, routes,
items and the operator's route choice are left out; the legs of a pair are assumed
to match a configured combination, so a move of either's day matters to both. What
a calculation reads of a trip is its billed columns, whether it is in a group (the
backload, `carriesCombinationSurcharge`) and, if it has a partner, the day of both
and the partner's columns. A group of more than two trips and an undated trip that
states a TAR number are not modelled.

### MailImport

`email[m]` is the `imported_email` row of a mail, `rows` the mails and uploads
whose `pdf_document` row exists, `files` the contents on disk under their hash,
`trips[t]` who holds a transport, `history` and `confirmed` the rows that cite a
document. `job[w]` is one promise chain: a scan (with the messages it has left)
or an upload. An action is one transaction, one file operation or one call of the
mail server, in the code's order: download and parse, write the file, look the
hash up, commit the row, apply transport by transport, create what nobody holds,
clean up, mark, flag, forward. A fault (`Fails`) may take the place of each of
them and does what the `catch` there does; `Crash` forgets every chain. Two
observations, `unstamped` and `overlapped`, say in which runs of events the code
gives up its promise, and the properties name them.

`MailLedger` is what a person who reads the imports page may rely on: a mail is
PROCESSED only after all it asked for has happened, what has happened is never
undone, and no attempt begins from PROCESSED or IGNORED. `LedgerSpec` checks that
`MailImport` implements it, the status mapped to the row's and `done` to the mails
whose document exists and is cited by all it asked for.

Left out: what a document says of a transport, several trips holding one
identity, a change of the configuration between two scans, the check after the
commit (`import-persistence.verifier.ts`, part of the transaction it checks), and
the rows an UPDATE writes before a trip it creates.

### VehicleAssignments

`rows[a]` is a `vehicle_assignment`, `trips[t]` a trip's truck, day and stored
driver. Every request is two actions: it reads, checks and decides (`Create`,
`Link`, `Update`, `End`, `PlanTrip`, `EditTrip`), and commits later, when the
partial indexes are asked (`CommitAssignment`, `AssignmentRaced`). A driver chosen
on a trip is one step, since nothing it read is written. `raced` remembers
whether a request ever committed after another one had: it separates what the
code promises always from what it promises when no reading was overtaken.
`Midnight` moves the day. An edit of a trip changes one field.

### InvoiceAudit

A workbook is its lines, whether its totals hold, and what its incomplete rows
name. A line states a day, a booking and a container, perhaps not all, carries
one amount, charges cost confirmations or is a transport, and may carry the mark
of a line the check added. `Matching` is the whole of `matching/`: decisions by
three values and by two, claims of other lines, cost lines, cost lines that are
transports themselves, and corrections withheld because they clash. `Reconcile`
is the comparison, `Missing` the transports nobody stated, `Correction` the
workbook that is returned, `Payable` the eligibility.

A request reads the database three times, so it is `Match`, `Price`, and a third
step that collects what is missing and either returns a corrected workbook or
accepts a payment; `Settle` is the transaction. Operators plan, reprice, close,
reopen, delete and pay trips in between, and somebody may type another identity
over a line of a workbook. Workbooks stay in `files` and may be uploaded again.

A trip may lack any of the values that identify it, and an operator may clear its
container. A line then finds it on the two it has and is matched uncorrected
(`ToCorrection`), it yields to another line's claim (`WithIdentityConflicts`), and the
trip is never missing (`Complete`).

One amount stands for the columns of a line. The price of a trip is a total and the
EK in it, which is the sum of its cost confirmations or its charged waiting time; a
price the check does not rely on is absent. A cost line is owed its confirmation
(`Owed`), and that much of the EK is taken off what the trip's own lines, or the line
added for it, are to carry (`Remaining`). `PaidInFull` asks for every transport
accepted that the lines found to be it, or the one added for it, are there, state all
three of its values (two, if it has no third or the line was added before) and with
its cost lines charge its price. Combinations, fuel, remarks, styles and the
verification of the written workbook are left out.

## 3. Runs

| Run | Instance | Shows |
|---|---|---|
| `TripSerial` | 1 request, 2 trips, 1 container in two writings, 2 days, 1 group, all operations | what a document may do to a trip, and that the service's own identity and same-day checks refuse every clash the unique index would, over all sequences of operators' calls and documents |
| `TripTyped` | 1 request, 2 trips, create and update | *violated*: a trip created with its container as it is printed is not found by a document that names it |
| `TripConcurrent` | 2 requests, 2 trips, fair | what survives every race: types, cancellations, the trip a document names; and both requests are answered |
| `TripRaceClosed` | 2 requests | *violated*: an update rewrites a trip that was closed meanwhile |
| `PricingSerial` | 1 request, a pair and a third trip, 1 number | a number's TAR is charged once and charged at all |
| `PricingConcurrent` | 2 requests, 2 trips, 1 number | it is charged once whatever interleaves |
| `PricingFailures` | 1 request, a pair, failures, 2 days | a price that is shown is current |
| `PricingEdits` | 2 requests close, edit and unlink a grouped pair, crashes | prices are current and complete until the process stops; the last calculation wins even then |
| `Imports` | 10 pairs of a mail and an upload, 2 scanners, 2 transports, 1 fault, fair | a document is kept and applied once, a processed confirmation counted once, a mail is settled; `MailLedger` is implemented |
| `ImportRetry` | the same, 1 scanner | *violated*: a mail whose row was committed before a failure is never settled |
| `Assignments` | 2 requests, 2 trucks, 2 drivers, 3 assignments, 1 trip, 2 days | one driver a truck a day; a trip keeps its driver |
| `InvoiceAudit` | 2 requests, 2 trips, 1 cost confirmation, 8 workbooks, 2 edits | paid once and in full, corrected and completed without repeating a line |

The three violations are statements of the repository itself that the code does
not keep; `PROJECT.json` quotes them. In `TripTyped` an order without a container
creates a trip, an operator creates another of that booking and date with the
container typed `EUCU 145129/5`, and the update that names `EUCU1451295` is refused as
ambiguous: the lookup by the whole identity finds neither, the one by booking and
date both.

**Divergences seen and not run.** Each needs one change of an instance above.

* Two trips without a booking number collide on the index: `create` looks an
  identity up only when there is a booking, the index is NULLS NOT DISTINCT
  (`NoConstraintViolation` in `TripLifecycle`, one request).
* Two trips typed with the same formatted container pass the check of `create`,
  which looks the unformatted one up, and collide on the index (`ClashIsRefused`
  without its second exemption, one request).
* A charged CLOSED trip moved onto a day on which its number is charged stays
  charged there too (`ChargedOnce`, operations CLOSE and MOVE, two days).
* A newer calculation fails and marks; an older one in flight stores after it and
  is shown (`PriceIsCurrent`, two requests, failures).
* Two status changes validated on the same row cancel a CLOSED trip; two groupings
  take one trip; an update erases a container entered since its read
  (`StatusMovesAllowed`, `GroupingNeverMoves`, `ContainerNeverErased` with two
  requests in `TripConcurrent`'s instance, the operations added).
* A partner reopened during the pricing of its pair has the pair's prices marked
  FAILED; a release computed from a stale row leaves a number uncharged
  (`ChargeNotLost` in `PricingConcurrent`'s instance).
* Prices the process stopped before calculating stay as they were: a trip whose
  number was emptied keeps its TAR line, another is charged, the number is put back
  and its pricing lost too, and both are charged (`ChargedOnce` in
  `PricingConcurrent`'s instance with `MayCrash`).
* Two bounded assignments of one truck created at once overlap; an `end` that read
  its assignment before it was shortened pins the wrong driver (`NoOverlap`,
  `DriverKept` without `raced`).
* An update whose second transport was taken meanwhile is set aside as a duplicate
  although its first transport was revised; two imports of the same bytes, of
  which one fails, lose the other's file (`EvidenceKept` without `overlapped`).
* The mark of an added line records its trip, and nothing reads it. When two of
  the trip's values change, the line is found to be nobody's, is shown as an added
  line all the same and therefore blocks nothing, and the transport is added again
  (`AddedOnce` without its first exemption, 9 steps); when another trip comes to
  state the line outright, the line is that trip's, and the first is added again.
  `missing-trips.service.ts:67-70` says that a document which already carries the
  added rows "states those identities, so on the next check they are no longer
  missing".
* A transport changed between the matching and the collection of missing ones may
  be stated twice (`StatedOnce` without `since`); a price that changes before the
  payment commits is not compared again (`PaidInFull` without `since`).
* Two transports planned on one day with one booking and container, ordered for
  different days, are added under one identity. A transport can also be added under
  the identity a cost line was just corrected to: when the line's two right values
  are those of both, and a line that only charges states the one, the correction
  goes to the other (`StatedOnce` without `another`; three transports on one booking
  and container, with MaxEdits = 0). The two identities clash nowhere in the code,
  since `identity-conflicts.ts` compares lines of one trip.

**Bounds.** `TripSerial` forgets the answer of a request that has ended, which
nobody reads (`VIEW View`). The trips created by hand are three (`MCEntries`): a
booked one with its container typed, one with nothing but its booking, one without
a booking; edits make the others of them. Two trips are enough for every identity
clash, every ambiguity and every race between two rows; a document has at most two
transports. Two requests are enough because every defence in the code is pairwise:
a read by one request and a commit by one other. `PricingSerial` needs a third
trip, since a pair has one leg that owes the TAR and the charge must have
somewhere else to go. One number and one day give the most collisions; the days
vary where a move is an operation. Times in `TripPricing` grow without bound, and
nothing but their order is ever used: `VIEW TimelessView` replaces each by its
rank, so two states whose times are ordered alike are explored once. Symmetry is
used where the permuted values are interchangeable: never on the legs of a pair
(one of them owes no TAR), and never in a run that checks liveness.

`Imports`: `MaxFaults` is 1 because liveness is checked on the whole graph; with
`MaxFaults = 2` and the safety properties alone TLC passes too (1.5 million
states). Mail and upload are paired (`MCAsked`): an order, a confirmation or a
revision meets an upload of the same transport, mostly of the same bytes, so that
files are shared; a confirmation meets the upload of the same one, or of one of
the same number for another transport. `Assignments`: beyond `Crowd` assignments
requests run one at a time, and an id is kept for every insert under way; the
third assignment is what a link makes of two it ends. Two days have a yesterday, a
today and a tomorrow in turn. `InvoiceAudit`: one examination at a time
(`AtOnce`), since an examination only reads; its answers and payments interleave
with everything. Two edits are one between the reads of each of two examinations,
or two between those of one. The eight workbooks have a line for each way a line
is decided. `MaxVersions` lets a corrected or retyped workbook come back once.
`CHECK_DEADLOCK FALSE` in that run: with its edits used up the system may rest.

**Fairness.** `FairSpec` of `TripLifecycle` says that a request which was accepted
takes its next step: Node runs every promise chain to its end, and the database
answers. No request is obliged to arrive, and none waits for another. In
`MailImport` a chain that began runs on in the same way (`WF` of each worker's
steps), the cron job of `imap.scheduler.ts` calls `scan` again and again (weak
fairness of "some caller scans": the flag is free after every scan), and time
passes, so that an abandoned row becomes stale. Faults, crashes, arrivals and
operators are under no obligation. `TripPricing`, `VehicleAssignments` and
`InvoiceAudit` are checked for safety only: nothing in them waits.

## 4. Proofs

`TripLifecycleProofs`, for any number of trips, requests, bookings, containers,
days and documents:

* `TypeCorrect`: rows and request records keep their types. The lemmas say what
  each helper returns (`OpenedType`, `ContinueType`, `CommitType`, ...), so that
  each action is a line or two.
* `IdentityStaysUnique` is only a lemma: every write passes `Commit`, and no action
  writes around it (`ArrivesShape`, `AdvancesShape`). What follows from it is
  `NamedContainersAreReached`.
* `CancellationsAreSafe`: needs `RequestsConsistent`, which ties a request's
  phase to its operation: a cancellation in its compare-and-set names one trip
  and its outcome is not CANCELLED yet.
* `SerialDocumentsAreSafe`: with one request at a time, a document never writes a
  CLOSED trip, never erases a container and never moves a planned day. The
  invariant says that the row a request matched is still the row in the table when
  it applies it, which is what the code assumes; with two requests it is false,
  and `TripRaceClosed` shows it.

`TripLifecycleSerialProofs`, for the same:

* `NamedContainersAreReached`: a document that names the container a trip has stored
  reaches it, with any number of requests, since the index leaves one holder of an
  identity and the lookup by the whole identity comes before the one by booking and
  date. Of a container stored as it was typed it says nothing: see `TripTyped`.
* `SerialChecksAreComplete`: while requests do not overlap (`OneAtATime`), a
  booked trip is never refused by the index, except one that is created with its
  container typed in another form than `create` looks it up in; an update adds
  nothing to a booking and date that are held, and an edit leaves its day free.
  The invariant `AllChecked` says of each phase what has been looked up and is
  still so: the identity a status change re-acquires, an edit moves to or a
  document inserts has no other holder; what an update found missing has not even
  its booking and date held; and the container a document writes gives its trip
  nobody else's identity, because the fallback lookup found one trip on that
  booking and date. A commit is then accepted by `SameIdentitiesKeepKey` or
  `FreeIdentityKeepsKey`, except where a trip has no booking number, which the
  service does not look up, or a container typed that way.

`TripPricingProofs`, for any number of trips, requests, numbers and days, with or
without failures and crashes, from the assumption that `Legs` is a pair of trips
or empty (`LegsAreAPair`):

* `TypeCorrect`: types alone are not inductive, since a store reads the result it
  is at. `ChainsAreConsistent` adds what the code's control flow guarantees: a
  request has results for no more trips than its scope, one that is not stored
  while it stores, none when it starts to price, and a settlement runs only
  inside a pricing that does not settle.
* `SnapshotsOnlyMoveForward`: the same invariant says that the result a store
  reads exists; the step then follows from `Superseded` (`StoreMovesForward`) and
  from `Marked`, which changes nothing but the failure mark
  (`MarkedMovesForward`). No other action writes a snapshot.

`TripPricingSerialProofs`, from `OneAtATime` (any two requests are the same one),
for every set of operations, with failures, and with crashes as far as the
promise goes:

* `SerialPricesAreCurrent`: a price that is shown was calculated from the trip as
  it is, until the process stops. The property says nothing of a trip that a
  request still owes a calculation, so the invariant `SInv` is about that debt:
  every trip whose shown snapshot is not current is in the `todo`, in the scope
  or among the results of the one request, or is a partner its next scope will
  take in. The invariant also says that the results at hand were calculated from
  the data as it is, because nobody else writes. It is inductive because a write
  and its `todo` are one step: what the write makes stale, its `todo` reaches
  (`Scope`, and `release` for the trips of the TAR day that was left).
* `SerialChargesOnce` and `SerialChargesAreKept`: a TAR number is charged on at most
  one CLOSED trip of a day, and by some trip whenever one owes it. Both are promises
  about a system at rest; in between, a write may leave two charges of one day (a
  charged trip edited onto a number that is charged) or none (the holder reopened,
  cancelled or renumbered). The invariant `ChargesKept` follows the charges through
  the pricing that ends this:
  * `Twice`: of two trips charged for one day, one is what the request prices next,
    before anything else is stored.
  * `Apart`: the trips priced together are the two legs, each is CLOSED, and what was
    stored before the pricing counts as held by it. This is what lets the claim guard
    of a pair, which reads the charges of the other trips, be right for both legs.
  * `Claims`: a claim calculated and not yet stored has no rival, so the store is never
    refused; where none was made, another trip has the charge, or gave it up in this
    pricing, which is then settled (`GaveUp`).
  * `ReturnFree`: the return leg of a pair carries a charge only until the pricing
    that the grouping asked for stores it.
  * `Provided`, for the second theorem: where a trip needs a charge nobody holds
    (`Bare`), some trip of that day is still to be priced by the request, in one of
    five ways (`Pledged`): listed, under way, next in the settlement, a successor its
    release names, or of a day whose charge this pricing gave up and will settle.

  Their hypotheses: `OneAtATime`; no `MOVE`, because with it `ChargedOnce` is false
  (section 3); `SerialChargesAreKept` further that nothing fails, since a calculation
  that fails marks its trip and nobody takes its charge over. Crashes are allowed as
  far as the promise goes: until one happens. `PricingSerial` is an instance of both.

`TripPricingRaceProofs`, for any number of requests and trips, crashes included:

* `ConcurrentPricesAreCurrent`: until the process stops, a price that is shown is
  current, and a CLOSED trip that nobody owes a calculation has a price. Here a
  request may store what it read before another one's write. The invariant
  `RInv` gives each CLOSED trip a time: whatever was calculated since then, stored
  or not, read the trip as it is, and either such a calculation is stored or a
  request is obliged to make one, or has made one that is not stored yet. A write
  moves the trip's time to now and obliges its own request; a store keeps the
  newer calculation, so that an older one can neither hide the one that counts
  nor be shown after it. This is why the ordering of snapshots by the start of
  their calculation (`trip-pricing.repository.ts`) is enough, and no lock is needed.
* Its hypotheses: the operations are CLOSE, EDIT, MOVE, REPRICE, LINK and UNLINK
  and no calculation fails (`OnlyQuiet`), and no two trips state one TAR number
  (`NumbersApart`). `PricingEdits` is an instance. Two of the limits are needed:
  TLC finds that with a reopening added a CLOSED trip may stay without a price (17
  steps), and that with failures an older price may be shown after a newer one
  failed (13 steps); both are divergences of section 3. The others are limits of
  the proof: where trips are closed and edited, TLC finds no error with
  cancellations added, nor with changes of a shared number and no crashes, and the
  proof would have to follow a claim that is lost to another trip.

`MailImportProofs`, for any mails, uploads, workers, transports, fixtures and
faults, from the assumptions that mails and uploads differ (`SourcesAreApart`),
that a readable document names at least one transport (`SourcesAsk`;
`parseOrRefuse` refuses the others) and that the number of faults is a number
(`FaultsBounded`):

* `TypeCorrect`, `ReadMailsAreSettled`, `FailuresMailedOnce`, `AmountsAreCounted`,
  `NoEvidenceLost`, `NeverAppliedTwice`: the whole run but its liveness. One
  invariant has two parts. `MailInv` is about mails: the row of a mail a worker
  has in hand is PROCESSING and nobody else has it, a flag follows an outcome, a
  failure that was forwarded is marked or one of the lost records is spent on it.
  `DocInv` is about documents: what a transport, a history row or an amount cites
  has its row, a row has its file unless two imports overlapped, and what a
  document has done plus what its chain has left to do is never more than what it
  mentions. That sum is why a retry applies nothing twice: the
  chain works off its list, and a document whose row exists is never applied
  again. A document may mention a transport twice, and the count is then per
  mention.
* `AmountsAreCounted` needs `AmountInv` beside it: the chain of a confirmation has its
  own transport before it until it is recorded, the confirmation is in the amounts from
  that moment on, whichever import put it there, and so it is when its mail is
  PROCESSED. That it is there once is a part of `DocInv`.
* `ImplementsLedger`: every step of the import is a step of `MailLedger` or
  stutters. It needs from the invariant that a mail reaches PROCESSED only by a
  chain that has nothing left, so that all the mail asked for cites its document.

`VehicleAssignmentsProofs`, for any trucks, drivers, trips, requests, assignments
and days, whatever periods and changes are asked, from the assumptions that the
inputs are days, trucks and drivers and that `Null` and `Keep` are none of them:

* all five properties of the run: `SpecTypeOK`, `SpecNoOverlap`,
  `SpecChosenDriverStays`, `SpecDriverKept`, `SpecHistoryKept`;
* the invariant has two parts. What is true whatever raced: types, that the rows
  a request will write exist, and the two indexes (`OneActive`). What is true
  until somebody committed a stale reading (`~raced`): no two assignments of one
  truck or driver share a day (`Separate`), and every plan that nobody overtook
  fits the tables as they are (`PlansFit`, `EditsFit`, `TripsAsRead`). The heart of
  the proof is that closing (`ClosingFits`) and changing dates (`RedatingFits`)
  lead to a separate table when they were decided on one, and that at most one
  driver is on a truck on a day (`OnlyDriver`), so that what is pinned is what was
  shown (`CommitKeepsDriver`).

`InvoiceAuditProofs`, for any trips, workbooks, confirmations, requests and bounds,
from the assumptions that the trips the operators start from have the types of
trips (`TripsAreTrips`), that there are finitely many (`TripsAreFinite`), that
days and prices are numbers and no price is 0 (`DaysAndPricesAreNumbers`), that
confirmations name trips (`ConfirmationsNameTrips`), that the invoices uploaded
first are workbooks (`InvoicesAreWorkbooks`), that the number of edits is a number
(`EditsAreBounded`) and that `Null` is no value (`NullIsNoValue`): all six
properties of the run and its types.

* `SpecPaidOnce`: the invariant `Accounted` is stronger than the property, an
  account of each trip: payments made are at most payments taken back, plus one
  while the trip is paid. It is inductive because a payment needs an unpaid trip
  and makes it paid in the same transaction, and every other way to make a trip
  unpaid is counted.
* `SpecSettledTogether`: the step that answers an accepted request is `Settle`,
  and `PaidOf` is all or nothing.
* `SpecAddedApart`: what a request holds when it answers was matched steps earlier,
  so the invariant `Examined` remembers two facts about it. `NamesOrSaysWhy`: a
  transport line that was not added by the check names a trip, or its status says
  why it does not, and then its values block whatever shares them. It comes from
  the cases of `DecideByContainer` and `DecideByTwoValues` (`TransportNames`), and
  withholding a correction keeps it (`MatchingNames`).
* `SpecAddedOnce`: the second fact is `Tells`. While no trip changed since the
  matching, a trip that a transport line can still be told to be is named by some
  line. The heart is `ToldByALine`: if the line does not name the trip, the trip
  was claimed by another line, and the claimant names it, either as a transport
  that states it outright or as a cost line without a container, which is a
  transport itself when no transport line names its trip.

* `SpecTypeOK`, `SpecStatedOnce` and `SpecPaidInFull` rest on the invariant
  `Held`: what an examination knows of its lines until it answers, though the
  trips change under it. `Typed` and `StatesApart` hold whatever the operators do;
  `Carries` and `Covers` hold for every trip nobody changed since the matching,
  and no step but a matching and a comparison has to establish them
  (`StillHolds`). `StatesApart`: two lines that are not mere charges are corrected
  to one identity only if they stated one before (`CorrectedApart`; that is what
  withholding a correction is for). `Carries`: a line that was found to be a trip
  states it once corrected, or was added for it and two of three values still do
  (`MatchedCarries`), or was matched on two because the trip has no third; and a
  line that states a trip and was not corrected names it. `Covers`: when all the
  lines that carry a trip are settled, they are readable and charge at least what
  its cost lines leave of its price (`PricedCovers`), and those charge at least
  what they are owed (`PricedCosts`).
* For the last one the amounts of several lines are a fold over a set, which
  cannot be unfolded for a set of unknown size. `StatedOfAny` says that any line of
  a finite set may be taken out first; it is proved by taking the least subset on
  which a claim about sums fails, which exists because the strict subsets of a
  finite set are well-founded (`SmallestSubset`). So raising one line by what is
  missing raises the sum by as much (`StatedRaised`).
* `SpecPaidInFull` then has two cases: a trip that some line carries was settled,
  and is not added; a trip that no line carries is missing, and the one line added
  for it states it and charges its price.

Model-checked only:

* `ChargedOnce` where requests overlap (`PricingConcurrent`): which trip owes a charge
  then depends on claims that other requests lost at the store, and the invariant
  would follow every one of them. `ChargeNotLost` does not hold there (section 3).
* liveness (`EveryRequestAnswers`, `OfferedIsSettled`), out of the prover's reach.

## 5. Not modelled

* **Route matching, formulas and amounts**: string similarity and arithmetic over
  configuration, without control of their own.
* **Route choice, route configuration and costs, master data, notes, calendar,
  maintenance, settings**: single-row CRUD behind unique indexes.
* **Bulk reprocess**: a loop over the `REPRICE` of `TripPricing`.
* **Automatic FLAT, waiting window**: columns derived from columns.
* **PDF parser**: text of a page to fields; what the rest sees of it, a document
  that can or cannot be read and what it names, is an input of the models.
* **WhatsApp gateway, frontend, authentication, framework wiring**: I/O.

These are most of the repository's lines and little of its concurrency. What of a
modelled component is left out is said in section 2 and in the components of
`PROJECT.json`.

## 6. Running

    tlc -config TripSerial.cfg MCTripLifecycle.tla
    tlc -config PricingSerial.cfg MCTripPricing.tla
    tlc -config PricingEdits.cfg MCTripPricing.tla
    tlc -config Imports.cfg MCMailImport.tla
    tlc -config Assignments.cfg MCVehicleAssignments.tla
    tlc -config InvoiceAudit.cfg MCInvoiceAudit.tla
    tlapm VehicleAssignmentsProofs.tla
    tlapm TripLifecycleSerialProofs.tla
    tlapm MailImportProofs.tla
    tlapm TripPricingRaceProofs.tla
    tlapm InvoiceAuditProofs.tla

An operator named `X_Y` is `X` with the bug `Y`: no action of the model uses it.
Each property has one, and fails when `X` is replaced by it (`mutants` in
`PROJECT.json`).
