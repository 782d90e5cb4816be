----------------------------- MODULE MailImport -----------------------------
(***************************************************************************)
(* How a transport document gets in: the mailbox scan and the manual       *)
(* upload, the import pipeline both run (store the file, commit its row,   *)
(* carry out what it asks one transport at a time, clean up on failure),   *)
(* and the mail that tells a person an import failed.                      *)
(*                                                                         *)
(* Files, rows and mails cannot be written together: each action below is  *)
(* one database transaction, one file operation or one call of a mail      *)
(* server, other workers run between any two of them, any of them may fail *)
(* and the process may stop between them.  What a document says of a       *)
(* transport is left out (TripLifecycle has it): a transport is held by no *)
(* trip or by exactly one, and a document reaches it or not.               *)
(***************************************************************************)
EXTENDS Naturals, Sequences, SequencesExt, FiniteSets

CONSTANTS
  Messages,      \* the mails of today's window
  Uploads,       \* manual uploads, each made once
  Scanners,      \* callers of scan(): the schedule and the button
  Transports,    \* the identities (booking, container, date) papers name
  Asked,         \* what each mail and each upload may ask, and its paper
  NoSource,      \* "no document"
  MaxFaults      \* faults one behaviour may see; named bound of the model

ASSUME SourcesAreApart ==
  /\ Messages \cap Uploads = {}
  /\ (Messages \cup Uploads) \cap Scanners = {}
  /\ NoSource \notin Messages \cup Uploads

ASSUME FaultsBounded == MaxFaults \in Nat

Sources == Messages \cup Uploads

(* A paper that could be read names a transport: parseOrRefuse refuses an   *)
(* order without one, and a confirmation is matched to its trip.  Nothing  *)
(* keeps a paper from naming a transport twice.                            *)
ASSUME SourcesAsk ==
  \A f \in Asked :
    /\ DOMAIN f = Sources
    /\ \A s \in Sources :
         /\ f[s].action \in {"NEW", "UPDATE", "CANCEL", "COST", "NONE"}
         /\ f[s].paper.names \in Seq(Transports)
         /\ f[s].paper.readable => f[s].paper.names # <<>>

Workers == Scanners \cup Uploads

VARIABLES
  asks,       \* asks[s]: the action and the paper of a mail or an upload
  mailbox,    \* the messages findCandidates would return
  email,      \* email[m]: the imported_email row of a message
  seen,       \* messages flagged \Seen
  files,      \* the contents on disk, by their hash
  rows,       \* the sources whose pdf_document row exists
  trips,      \* trips[t]: who holds the transport, and his source document
  history,    \* history[t][s]: history writes about t that cite s
  confirmed,  \* the cost_confirmation rows
  scanning,   \* the service's own flag
  job,        \* job[w]: the import worker w is in the middle of
  sent,       \* sent[m]: failure mails the server accepted
  faults,     \* faults seen so far
  unstamped,  \* observation: sends whose record was lost
  overlapped  \* observation: contents two imports had in hand at once

vars == <<asks, mailbox, email, seen, files, rows, trips, history, confirmed,
          scanning, job, sent, faults, unstamped, overlapped>>

database == <<rows, trips, history, confirmed>>
observed == <<unstamped, overlapped>>

Actions == {"NEW", "UPDATE", "CANCEL", "COST", "NONE"}

Statuses == {"NONE", "PROCESSING", "PROCESSED", "IGNORED", "FAILED"}

TripStatuses == {"NONE", "OPEN", "CLOSED", "CANCELLED"}

Phases == {"idle", "next", "fetch", "store", "lookup", "create", "reapply",
           "persist", "apply", "missing", "note", "cite", "forget", "unlink",
           "failed", "mark", "seen", "forward", "stamp", "done"}

Errors == {"none", "download", "duplicate", "other"}

Idle == [phase |-> "idle", source |-> NoSource, task |-> "NONE",
         todo |-> <<>>, missing |-> <<>>, owned |-> FALSE, did |-> FALSE,
         error |-> "none", noted |-> FALSE, queue |-> {}]

Paper(s) == asks[s].paper
Names(s) == Paper(s).names
Bytes(s) == Paper(s).bytes

(* A document stamped CANCELLED cancels, whichever order it came as. *)
Task(s) == IF Paper(s).stamped /\ asks[s].action \in {"NEW", "UPDATE"}
           THEN "CANCEL" ELSE asks[s].action

Source(w) == job[w].source
At(w, phase) == job[w].phase = phase
Held(t) == trips[t].status # "NONE"

(* What points at the document of s: its trips, its history, its amounts.  *)
(* The foreign keys are RESTRICT.                                          *)
Cites(s) == {t \in Transports : trips[t].from = s \/ history[t][s] > 0}
            \cup {c.trip : c \in {r \in confirmed : r.source = s}}

Goes(w, phase) == job' = [job EXCEPT ![w].phase = phase]

(* What is left to do is dropped with the import. *)
Breaks(w, phase, error) ==
  job' = [job EXCEPT ![w] = [@ EXCEPT !.phase = phase, !.error = error,
                                      !.todo = <<>>, !.missing = <<>>]]

(* An operator named X_Y is X with the bug Y: no action of Next uses it,   *)
(* the runs check that the properties would notice it.                     *)

---------------------------------------------------------------------------
(* The mailbox, the scan and its decisions.                                *)

Arrive(m) ==
  /\ m \notin mailbox
  /\ mailbox' = mailbox \cup {m}
  /\ UNCHANGED <<asks, email, seen, files, database, scanning, job, sent,
                 faults, observed>>

(* scan(): refused while another scan runs. *)
ScanAdmitted_Always == TRUE

ScanAdmitted == ~scanning

Scan(w) ==
  /\ At(w, "idle")
  /\ ScanAdmitted
  /\ scanning' = TRUE
  /\ job' = [job EXCEPT ![w] = [Idle EXCEPT !.phase = "next", !.queue = mailbox]]
  /\ UNCHANGED <<asks, mailbox, email, seen, files, database, sent, faults, observed>>

EndScan(w) ==
  /\ At(w, "next")
  /\ job[w].queue = {}
  /\ scanning' = FALSE
  /\ job' = [job EXCEPT ![w] = Idle]
  /\ UNCHANGED <<asks, mailbox, email, seen, files, database, sent, faults, observed>>

(* A PROCESSING row nobody touched for STALE_PROCESSING_MS. *)
GoesStale(m) ==
  /\ email[m].status = "PROCESSING"
  /\ ~email[m].stale
  /\ email' = [email EXCEPT ![m].stale = TRUE]
  /\ UNCHANGED <<asks, mailbox, seen, files, database, scanning, job, sent,
                 faults, observed>>

(* decideRescan *)
Retried_NeverStale(m) == email[m].status = "FAILED"

Retried(m) == \/ email[m].status = "FAILED"
              \/ email[m].status = "PROCESSING" /\ email[m].stale

Skipped(m) == email[m].status # "NONE" /\ ~Retried(m)

(* The scan's next message, put at the head of an import of its own. *)
Opens(w, m, noted) ==
  job' = [job EXCEPT ![w] = [Idle EXCEPT !.phase = "fetch", !.source = m,
                               !.task = Task(m), !.noted = noted,
                               !.queue = job[w].queue \ {m}]]

Leaves(w, m) == job' = [job EXCEPT ![w].queue = @ \ {m}]

Skip(w, m) ==
  /\ At(w, "next") /\ m \in job[w].queue
  /\ Skipped(m)
  /\ Leaves(w, m)
  /\ UNCHANGED <<asks, mailbox, email, seen, files, database, scanning, sent,
                 faults, observed>>

(* selectMessage refused the sender or the subject. *)
Ignore(w, m) ==
  /\ At(w, "next") /\ m \in job[w].queue
  /\ email[m].status = "NONE"
  /\ asks[m].action = "NONE"
  /\ email' = [email EXCEPT ![m].status = "IGNORED"]
  /\ Leaves(w, m)
  /\ UNCHANGED <<asks, mailbox, seen, files, database, scanning, sent, faults, observed>>

StartProcessing(w, m) ==
  /\ At(w, "next") /\ m \in job[w].queue
  /\ email[m].status = "NONE"
  /\ asks[m].action # "NONE"
  /\ email' = [email EXCEPT ![m].status = "PROCESSING"]
  /\ Opens(w, m, FALSE)
  /\ UNCHANGED <<asks, mailbox, seen, files, database, scanning, sent, faults, observed>>

Reopened_Forgets(row) ==
  [status |-> "PROCESSING", stale |-> FALSE, forwarded |-> FALSE]

Reopened(row) == [row EXCEPT !.status = "PROCESSING", !.stale = FALSE]

(* reopenForRetry; the row it returns says whether a person was told. *)
ReopenForRetry(w, m) ==
  /\ At(w, "next") /\ m \in job[w].queue
  /\ Retried(m)
  /\ email' = [email EXCEPT ![m] = Reopened(@)]
  /\ Opens(w, m, Reopened(email[m]).forwarded)
  /\ UNCHANGED <<asks, mailbox, seen, files, database, scanning, sent, faults, observed>>

(* importOne: an upload is one import, made once. *)
Upload(u) ==
  /\ At(u, "idle")
  /\ job' = [job EXCEPT ![u] = [Idle EXCEPT !.phase = "fetch", !.source = u,
                                            !.task = Task(u)]]
  /\ UNCHANGED <<asks, mailbox, email, seen, files, database, scanning, sent,
                 faults, observed>>

---------------------------------------------------------------------------
(* The pipeline.                                                           *)

(* The attachment is downloaded and parsed; a confirmation is matched to   *)
(* its trip before anything is stored.                                     *)
Fetch(w) ==
  LET s == Source(w)
  IN /\ At(w, "fetch")
     /\ IF /\ Paper(s).readable
           /\ job[w].task = "COST" => Held(Names(s)[1])
        THEN Goes(w, "store")
        ELSE Breaks(w, "failed", "other")
     /\ UNCHANGED <<asks, mailbox, email, seen, files, database, scanning,
                    sent, faults, observed>>

InHand(w) == job[w].phase \in {"lookup", "create", "reapply", "persist", "apply",
                               "missing", "note", "cite", "forget", "unlink"}

(* storePdf: written over whatever is there, under its hash. *)
Store(w) ==
  /\ At(w, "store")
  /\ files' = files \cup {Bytes(Source(w))}
  /\ Goes(w, "lookup")
  /\ overlapped' =
       IF \E v \in Workers \ {w} : InHand(v) /\ Bytes(Source(v)) = Bytes(Source(w))
       THEN overlapped \cup {Bytes(Source(w))} ELSE overlapped
  /\ UNCHANGED <<asks, mailbox, email, seen, database, scanning, sent, faults,
                 unstamped>>

Owned_Never(s) == FALSE

(* findByFileHash: bytesAlreadyOwned. *)
Owned(s) == \E r \in rows : Bytes(r) = Bytes(s)

Lookup(w) ==
  /\ At(w, "lookup")
  /\ job' = [job EXCEPT
       ![w].owned = Owned(Source(w)),
       ![w].phase = IF job[w].task = "NEW" THEN "create" ELSE "persist"]
  /\ UNCHANGED <<asks, mailbox, email, seen, files, database, scanning, sent,
                 faults, observed>>

(* imported_email_id is unique: a mail has one document row at most. *)
RowTaken_Never(s) == FALSE

RowTaken(s) == s \in rows

CreatedBy(s, ts) ==
  [t \in Transports |-> IF t \in ts THEN [status |-> "OPEN", from |-> s]
                                    ELSE trips[t]]

Ended == [Idle EXCEPT !.phase = "done"]

Finished(w) ==
  job' = [job EXCEPT ![w] =
    IF w \in Uploads THEN Ended
    ELSE [@ EXCEPT !.phase = "mark", !.todo = <<>>, !.missing = <<>>,
                   !.owned = FALSE]]

(* assertIdentityFree before each trip: one mentioned twice finds itself.  *)
Taken(names) == ~IsInjective(names) \/ \E t \in ToSet(names) : Held(t)

(* importTrips of a new document: its row, then its trips, one transaction. *)
CreateTrips(w) ==
  LET s == Source(w)
  IN /\ At(w, "create")
     /\ ~RowTaken(s)
     /\ ~Taken(Names(s))
     /\ rows' = rows \cup {s}
     /\ trips' = CreatedBy(s, ToSet(Names(s)))
     /\ Finished(w)
     /\ UNCHANGED <<asks, mailbox, email, seen, files, history, confirmed,
                    scanning, sent, faults, observed>>

CreateRefused(w) ==
  LET s == Source(w)
  IN /\ At(w, "create")
     /\ \/ RowTaken(s) /\ Breaks(w, "unlink", "other")
        \/ /\ ~RowTaken(s)
           /\ Taken(Names(s))
           /\ Goes(w, "reapply")
     /\ UNCHANGED <<asks, mailbox, email, seen, files, database, scanning, sent,
                    faults, observed>>

(* storeDocument: an UPDATE, a CANCEL and a confirmation commit their      *)
(* document first.                                                         *)
Persist(w) ==
  LET s == Source(w)
  IN /\ At(w, "persist")
     /\ IF RowTaken(s)
        THEN Breaks(w, "unlink", "other") /\ UNCHANGED rows
        ELSE /\ rows' = rows \cup {s}
             /\ job' = [job EXCEPT ![w].phase = "apply", ![w].todo = Names(s)]
     /\ UNCHANGED <<asks, mailbox, email, seen, files, trips, history, confirmed,
                    scanning, sent, faults, observed>>

(* applyNewOrderToExistingTrips: every transport must be held; the row is  *)
(* committed outside the clean-up.                                         *)
Reapply(w) ==
  LET s == Source(w)
  IN /\ At(w, "reapply")
     /\ IF \E t \in ToSet(Names(s)) : ~Held(t)
        THEN Breaks(w, "unlink", "other") /\ UNCHANGED rows
        ELSE IF RowTaken(s)
        THEN Breaks(w, "failed", "other") /\ UNCHANGED rows
        ELSE /\ rows' = rows \cup {s}
             /\ job' = [job EXCEPT ![w].phase = "apply", ![w].todo = Names(s),
                                   ![w].task = "AGAIN"]
     /\ UNCHANGED <<asks, mailbox, email, seen, files, trips, history, confirmed,
                    scanning, sent, faults, observed>>

(* A history row about t that cites s. *)
Records(t, s) == history' = [history EXCEPT ![t][s] = @ + 1]

Applies(w, task) == At(w, "apply") /\ job[w].task = task /\ job[w].todo # <<>>

Advances(w) == job' = [job EXCEPT ![w].todo = Tail(@)]

AppliesOnly == UNCHANGED <<asks, mailbox, email, seen, files, rows, scanning,
                           sent, faults, observed>>

(* applyNewOrder: a CLOSED trip is left alone, a cancelled one comes back. *)
ApplyNewOrder(w) ==
  LET t == Head(job[w].todo)
  IN /\ Applies(w, "AGAIN")
     /\ trips' = IF trips[t].status = "CLOSED" THEN trips
                 ELSE [trips EXCEPT ![t].status = "OPEN"]
     /\ Records(t, Source(w))
     /\ Advances(w)
     /\ AppliesOnly /\ UNCHANGED confirmed

(* applyDocumentRevision: a transport nobody holds is created further on.  *)
ApplyRevision(w) ==
  LET t == Head(job[w].todo)
  IN /\ Applies(w, "UPDATE")
     /\ trips[t].status # "CLOSED"
     /\ IF Held(t)
        THEN /\ trips' = [trips EXCEPT ![t].status = "OPEN"]
             /\ Records(t, Source(w))
             /\ Advances(w)
        ELSE /\ job' = [job EXCEPT ![w].todo = Tail(@),
                                   ![w].missing = Append(@, t)]
             /\ UNCHANGED <<trips, history>>
     /\ AppliesOnly /\ UNCHANGED confirmed

(* ... and a CLOSED one refuses the whole document, which stays: the       *)
(* refusal's history row cites it.                                         *)
RevisionRefused(w) ==
  LET t == Head(job[w].todo)
  IN /\ Applies(w, "UPDATE")
     /\ trips[t].status = "CLOSED"
     /\ Records(t, Source(w))
     /\ Breaks(w, "failed", "other")
     /\ AppliesOnly /\ UNCHANGED <<trips, confirmed>>

(* cancelByIdentity *)
ApplyCancellation(w) ==
  LET t == Head(job[w].todo)
  IN /\ Applies(w, "CANCEL")
     /\ IF Held(t)
        THEN /\ trips' = IF trips[t].status = "OPEN"
                         THEN [trips EXCEPT ![t].status = "CANCELLED"] ELSE trips
             /\ Records(t, Source(w))
             /\ job' = [job EXCEPT ![w].todo = Tail(@), ![w].did = TRUE]
        ELSE Advances(w) /\ UNCHANGED <<trips, history>>
     /\ AppliesOnly /\ UNCHANGED confirmed

\* The same number on another trip would count as recorded.
Duplicate_AnyTrip(t, number) == \E c \in confirmed : c.number = number

(* The unique (trip_id, cc_number), which the loser of two inserts is told. *)
Duplicate(t, number) == \E c \in confirmed : c.trip = t /\ c.number = number

(* CostConfirmationService.record *)
RecordConfirmation(w) ==
  LET t == Head(job[w].todo)
      s == Source(w)
  IN /\ Applies(w, "COST")
     /\ confirmed' = IF Duplicate(t, Paper(s).number) THEN confirmed
                     ELSE confirmed \cup
                            {[trip |-> t, number |-> Paper(s).number, source |-> s]}
     /\ Goes(w, "cite")
     /\ AppliesOnly /\ UNCHANGED <<trips, history>>

RecordInHistory(w) ==
  /\ At(w, "cite")
  /\ Records(Head(job[w].todo), Source(w))
  /\ Finished(w)
  /\ AppliesOnly /\ UNCHANGED <<trips, confirmed>>

Applied(w) ==
  /\ At(w, "apply")
  /\ job[w].todo = <<>>
  /\ IF job[w].missing # <<>> THEN Goes(w, "missing") ELSE Finished(w)
  /\ UNCHANGED <<asks, mailbox, email, seen, files, database, scanning, sent,
                 faults, observed>>

(* createFromRevision: the trips, then one history row for each.  A        *)
(* transport taken meanwhile is a duplicate booking.                       *)
CreateMissing(w) ==
  /\ At(w, "missing")
  /\ IF Taken(job[w].missing)
     THEN Breaks(w, "forget", "duplicate") /\ UNCHANGED trips
     ELSE /\ trips' = CreatedBy(Source(w), ToSet(job[w].missing))
          /\ job' = [job EXCEPT ![w].phase = "note", ![w].todo = job[w].missing]
  /\ AppliesOnly /\ UNCHANGED <<history, confirmed>>

NoteCreated(w) ==
  /\ At(w, "note")
  /\ job[w].todo # <<>>
  /\ Records(Head(job[w].todo), Source(w))
  /\ Advances(w)
  /\ AppliesOnly /\ UNCHANGED <<trips, confirmed>>

NotedCreated(w) ==
  /\ At(w, "note")
  /\ job[w].todo = <<>>
  /\ Finished(w)
  /\ UNCHANGED <<asks, mailbox, email, seen, files, database, scanning, sent,
                 faults, observed>>

---------------------------------------------------------------------------
(* Clean-up.                                                               *)

Restricted_Never(s) == FALSE

Restricted(s) == Cites(s) # {}

(* forget: the row, then the file.  A row something cites cannot be        *)
(* deleted, and then the file stays too.                                   *)
Forget(w) ==
  /\ At(w, "forget")
  /\ IF Restricted(Source(w))
     THEN Goes(w, "failed") /\ UNCHANGED rows
     ELSE rows' = rows \ {Source(w)} /\ Goes(w, "unlink")
  /\ UNCHANGED <<asks, mailbox, email, seen, files, trips, history, confirmed,
                 scanning, sent, faults, observed>>

(* discard: nothing when an earlier import owns the bytes. *)
Unlink(w) ==
  /\ At(w, "unlink")
  /\ files' = IF job[w].owned THEN files ELSE files \ {Bytes(Source(w))}
  /\ job' = [job EXCEPT ![w].phase = "failed", ![w].owned = FALSE]
  /\ UNCHANGED <<asks, mailbox, email, seen, database, scanning, sent, faults,
                 observed>>

---------------------------------------------------------------------------
(* The outcome of a message.                                               *)

Continue(w) == job' = [job EXCEPT ![w] = [Idle EXCEPT !.phase = "next",
                                                      !.queue = job[w].queue]]

AppliedNothing_Never(w) == FALSE

(* A cancellation that matched no trip. *)
AppliedNothing(w) == job[w].task = "CANCEL" /\ ~job[w].did

(* markProcessed, or markSetAside when nothing was applied. *)
Mark(w) ==
  /\ At(w, "mark")
  /\ email' = [email EXCEPT ![Source(w)].status =
                 IF AppliedNothing(w) THEN "IGNORED" ELSE "PROCESSED"]
  /\ Goes(w, "seen")
  /\ UNCHANGED <<asks, mailbox, seen, files, database, scanning, sent, faults,
                 observed>>

MarkSeen(w) ==
  /\ At(w, "seen")
  /\ seen' = seen \cup {Source(w)}
  /\ Continue(w)
  /\ UNCHANGED <<asks, mailbox, email, files, database, scanning, sent, faults,
                 observed>>

Told(w) == job[w].noted

(* recordFailure; a failed download is not worth a mail. *)
RecordFailure(w) ==
  LET m == Source(w)
  IN /\ At(w, "failed") /\ w \in Scanners
     /\ IF job[w].error = "duplicate"
        THEN email' = [email EXCEPT ![m].status = "IGNORED"] /\ Continue(w)
        ELSE /\ email' = [email EXCEPT ![m].status = "FAILED"]
             /\ IF job[w].error = "download" \/ Told(w)
                THEN Continue(w) ELSE Goes(w, "forward")
     /\ UNCHANGED <<asks, mailbox, seen, files, database, scanning, sent, faults,
                    observed>>

ReportUpload(u) ==
  /\ At(u, "failed") /\ u \in Uploads
  /\ job' = [job EXCEPT ![u] = Ended]
  /\ UNCHANGED <<asks, mailbox, email, seen, files, database, scanning, sent,
                 faults, observed>>

(* forwardOnce: the mail first, its record after it. *)
Forward(w) ==
  /\ At(w, "forward")
  /\ sent' = [sent EXCEPT ![Source(w)] = @ + 1]
  /\ Goes(w, "stamp")
  /\ UNCHANGED <<asks, mailbox, email, seen, files, database, scanning, faults,
                 observed>>

MarkForwarded(w) ==
  /\ At(w, "stamp")
  /\ email' = [email EXCEPT ![Source(w)].forwarded = TRUE]
  /\ Continue(w)
  /\ UNCHANGED <<asks, mailbox, seen, files, database, scanning, sent, faults,
                 observed>>

---------------------------------------------------------------------------
(* Faults.                                                                 *)

Fault == faults < MaxFaults /\ faults' = faults + 1

(* The mail server does not hand over the attachment. *)
DownloadFails(w) ==
  /\ Fault
  /\ At(w, "fetch") /\ w \in Scanners
  /\ Breaks(w, "failed", "download")
  /\ UNCHANGED <<asks, mailbox, email, seen, files, database, scanning, sent,
                 observed>>

(* store() throws after the file was written: no one removes it. *)
LookupFails(w) ==
  /\ Fault
  /\ At(w, "lookup")
  /\ Breaks(w, "failed", "other")
  /\ UNCHANGED <<asks, mailbox, email, seen, files, database, scanning, sent,
                 observed>>

(* A transaction of the pipeline fails and is compensated: the file alone  *)
(* where the row was to be written, the row and the file after it; nothing *)
(* where the row of a repeated order was to be written.                    *)
TransactionFails(w) ==
  /\ Fault
  /\ \/ job[w].phase \in {"create", "persist"} /\ Breaks(w, "unlink", "other")
     \/ At(w, "reapply") /\ Breaks(w, "failed", "other")
     \/ /\ \/ At(w, "missing")
           \/ job[w].phase \in {"apply", "note", "cite"} /\ job[w].todo # <<>>
        /\ Breaks(w, "forget", "other")
  /\ UNCHANGED <<asks, mailbox, email, seen, files, database, scanning, sent,
                 observed>>

(* The outcome is not written, or the message not flagged: both inside the *)
(* try, so a processed message becomes a failed one.                       *)
OutcomeFails(w) ==
  /\ Fault
  /\ job[w].phase \in {"mark", "seen"}
  /\ Breaks(w, "failed", "other")
  /\ UNCHANGED <<asks, mailbox, email, seen, files, database, scanning, sent,
                 observed>>

(* The failure cannot be recorded: the whole scan ends. *)
RecordFails(w) ==
  /\ Fault
  /\ At(w, "failed") /\ w \in Scanners
  /\ job' = [job EXCEPT ![w] = Idle]
  /\ scanning' = FALSE
  /\ UNCHANGED <<asks, mailbox, email, seen, files, database, sent, observed>>

(* The mail is not sent, or sent and not recorded: swallowed. *)
ForwardFails(w) ==
  /\ Fault
  /\ job[w].phase \in {"forward", "stamp"}
  /\ unstamped' = IF At(w, "stamp") THEN [unstamped EXCEPT ![Source(w)] = @ + 1]
                                    ELSE unstamped
  /\ Continue(w)
  /\ UNCHANGED <<asks, mailbox, email, seen, files, database, scanning, sent,
                 overlapped>>

(* The process stops and starts again: every import is forgotten where it  *)
(* stood, and with it the flag.                                            *)
Crash ==
  /\ Fault
  /\ \E w \in Workers : job[w].phase \notin {"idle", "done"}
  /\ scanning' = FALSE
  /\ job' = [w \in Workers |->
               IF w \in Uploads /\ ~At(w, "idle") THEN Ended
               ELSE Idle]
  /\ unstamped' = [m \in Messages |->
       IF \E w \in Scanners : At(w, "stamp") /\ Source(w) = m
       THEN unstamped[m] + 1 ELSE unstamped[m]]
  /\ UNCHANGED <<asks, mailbox, email, seen, files, database, sent, overlapped>>

---------------------------------------------------------------------------
(* Operators close and reopen trips meanwhile.                             *)

OperatorCloses(t) ==
  /\ trips[t].status = "OPEN"
  /\ trips' = [trips EXCEPT ![t].status = "CLOSED"]
  /\ UNCHANGED <<asks, mailbox, email, seen, files, rows, history, confirmed,
                 scanning, job, sent, faults, observed>>

OperatorReopens(t) ==
  /\ trips[t].status \in {"CLOSED", "CANCELLED"}
  /\ trips' = [trips EXCEPT ![t].status = "OPEN"]
  /\ UNCHANGED <<asks, mailbox, email, seen, files, rows, history, confirmed,
                 scanning, job, sent, faults, observed>>

---------------------------------------------------------------------------
NoEmail == [status |-> "NONE", stale |-> FALSE, forwarded |-> FALSE]

Init ==
  /\ asks \in Asked
  /\ mailbox = {}
  /\ email = [m \in Messages |-> NoEmail]
  /\ seen = {} /\ files = {} /\ rows = {} /\ confirmed = {}
  /\ trips \in [Transports -> {[status |-> st, from |-> NoSource] :
                                 st \in {"NONE", "OPEN"}}]
  /\ history = [t \in Transports |-> [s \in Sources |-> 0]]
  /\ scanning = FALSE
  /\ job = [w \in Workers |-> Idle]
  /\ sent = [m \in Messages |-> 0]
  /\ faults = 0
  /\ unstamped = [m \in Messages |-> 0]
  /\ overlapped = {}

Takes(w) ==
  \E m \in Messages : Skip(w, m) \/ Ignore(w, m) \/ StartProcessing(w, m)
                      \/ ReopenForRetry(w, m)

Imports(w) ==
  \/ Fetch(w) \/ Store(w) \/ Lookup(w) \/ CreateTrips(w) \/ CreateRefused(w)
  \/ Persist(w) \/ Reapply(w) \/ ApplyNewOrder(w) \/ ApplyRevision(w)
  \/ RevisionRefused(w) \/ ApplyCancellation(w) \/ RecordConfirmation(w)
  \/ RecordInHistory(w) \/ Applied(w) \/ CreateMissing(w) \/ NoteCreated(w)
  \/ NotedCreated(w) \/ Forget(w) \/ Unlink(w)

Settles(w) ==
  \/ Mark(w) \/ MarkSeen(w) \/ RecordFailure(w) \/ ReportUpload(w)
  \/ Forward(w) \/ MarkForwarded(w)

Fails(w) ==
  \/ DownloadFails(w) \/ LookupFails(w) \/ TransactionFails(w)
  \/ OutcomeFails(w) \/ RecordFails(w) \/ ForwardFails(w)

Works(w) == Takes(w) \/ Imports(w) \/ Settles(w) \/ (w \in Scanners /\ EndScan(w))

Next ==
  \/ \E m \in Messages : Arrive(m) \/ GoesStale(m)
  \/ \E w \in Scanners : Scan(w)
  \/ \E u \in Uploads : Upload(u)
  \/ \E w \in Workers : Works(w) \/ Fails(w)
  \/ \E t \in Transports : OperatorCloses(t) \/ OperatorReopens(t)
  \/ Crash

Spec == Init /\ [][Next]_vars

(* A scan and an upload run until they end; the schedule calls scan() again *)
(* and again; time passes.                                                 *)
Fairness ==
  /\ \A w \in Workers : WF_vars(Works(w))
  /\ \A m \in Messages : WF_vars(GoesStale(m))
  /\ WF_vars(\E w \in Scanners : Scan(w))

FairSpec == Spec /\ Fairness

---------------------------------------------------------------------------
(* Properties.                                                             *)

TypeOK ==
  /\ asks \in Asked
  /\ mailbox \subseteq Messages
  /\ email \in [Messages -> [status : Statuses, stale : BOOLEAN,
                             forwarded : BOOLEAN]]
  /\ seen \subseteq Messages
  /\ files \subseteq {Bytes(s) : s \in Sources}
  /\ rows \subseteq Sources
  /\ trips \in [Transports -> [status : TripStatuses,
                               from : Sources \cup {NoSource}]]
  /\ history \in [Transports -> [Sources -> Nat]]
  /\ \A c \in confirmed : c.trip \in Transports /\ c.source \in Sources
  /\ scanning \in BOOLEAN
  /\ \A w \in Scanners : At(w, "idle") \/ scanning
  /\ job \in [Workers ->
       [phase : Phases, source : Sources \cup {NoSource},
        task : Actions \cup {"AGAIN"}, todo : Seq(Transports),
        missing : Seq(Transports), owned : BOOLEAN, did : BOOLEAN, error : Errors, noted : BOOLEAN, queue : SUBSET Messages]]
  /\ sent \in [Messages -> Nat]
  /\ faults \in 0..MaxFaults
  /\ unstamped \in [Messages -> Nat]
  /\ overlapped \subseteq {Bytes(s) : s \in Sources}

(* What a trip, its history or an amount cites is a document: its row was  *)
(* not deleted by a clean-up and its bytes are on disk, whichever import   *)
(* failed in between; the one way to lose the bytes is two imports that    *)
(* have the same bytes in hand at once.                                    *)
EvidenceKept ==
  \A s \in Sources : Cites(s) # {} =>
    s \in rows /\ (Bytes(s) \notin overlapped => Bytes(s) \in files)

Mentions(names, t) == Cardinality({i \in 1..Len(names) : names[i] = t})

(* However often a mail is retried, its document is applied to a transport *)
(* once for each time it names it.                                         *)
AppliedOnce ==
  \A t \in Transports, m \in Messages : history[t][m] <= Mentions(Names(m), t)

(* A confirmation shown as PROCESSED is in the amounts of the transport it *)
(* is for, and once: whether this mail recorded it or an upload of the     *)
(* same confirmation did at that moment, whatever failed and was retried.  *)
AmountsCounted ==
  \A m \in Messages : Task(m) = "COST" /\ email[m].status = "PROCESSED" =>
    Cardinality({c \in confirmed : c.trip = Head(Names(m))
                                  /\ c.number = Paper(m).number}) = 1

(* A failure is mailed once, and once more for each time the record of the *)
(* mail was lost.                                                          *)
ForwardedOnce == \A m \in Messages : sent[m] <= 1 + unstamped[m]

Settled(m) == email[m].status \in {"PROCESSED", "IGNORED"}

(* A mail a person sees as read has an outcome: none was flagged before    *)
(* its trips existed.                                                      *)
SeenIsSettled == \A m \in seen : Settled(m)

(* What a mail asked for has happened, and its document is the evidence.   *)
CarriedOut(m) ==
  /\ m \in rows
  /\ IF Task(m) \in {"CANCEL", "COST"} THEN Cites(m) # {}
     ELSE ToSet(Names(m)) \subseteq Cites(m)

LedgerStatus == [m \in Messages |-> email[m].status]
CarriedOutMails == {m \in Messages : CarriedOut(m)}

(* The import promises what MailLedger says: a mail is PROCESSED only      *)
(* after all it asked for has happened, which is never undone.             *)
Ledger == INSTANCE MailLedger WITH status <- LedgerStatus, done <- CarriedOutMails

LedgerSpec == Ledger!Spec

(* A mail that names one transport needs nothing of a person. *)
Plain(m) == /\ Task(m) \in {"NEW", "CANCEL"}
            /\ Paper(m).readable
            /\ Len(Names(m)) = 1

(* An attempt was cut short after its document was committed: the retry's  *)
(* row would be a second one for the mail, and every retry is refused.     *)
Stuck(m) == m \in rows /\ email[m].status = "FAILED"

(* A plain mail the mailbox keeps offering is settled in the end, whatever *)
(* failed and whenever the process stopped, unless it is stuck.            *)
OfferedIsSettled ==
  \A m \in Messages : m \in mailbox /\ Plain(m) ~> Settled(m) \/ Stuck(m)

(* ... and what the retry is for: it is settled, full stop. *)
RetriedUntilSettled ==
  \A m \in Messages : m \in mailbox /\ Plain(m) ~> Settled(m)
=============================================================================
