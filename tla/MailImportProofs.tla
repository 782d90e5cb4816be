-------------------------- MODULE MailImportProofs --------------------------
(***************************************************************************)
(* What holds of the imports for any number of mails, uploads, scanners,   *)
(* transports and faults: the safety properties of MailImport, and that it *)
(* implements MailLedger.                                                  *)
(***************************************************************************)
EXTENDS MailImport, SequenceTheorems, FiniteSetTheorems, TLAPS

Job == [phase : Phases, source : Sources \cup {NoSource},
        task : Actions \cup {"AGAIN"}, todo : Seq(Transports),
        missing : Seq(Transports), owned : BOOLEAN, did : BOOLEAN,
        error : Errors, noted : BOOLEAN, queue : SUBSET Messages]

JobTyped == job \in [Workers -> Job]

MailTyped ==
  /\ mailbox \subseteq Messages
  /\ email \in [Messages -> [status : Statuses, stale : BOOLEAN, forwarded : BOOLEAN]]
  /\ seen \subseteq Messages
  /\ scanning \in BOOLEAN
  /\ sent \in [Messages -> Nat]
  /\ unstamped \in [Messages -> Nat]

TripsTyped ==
  /\ trips \in [Transports -> [status : TripStatuses, from : Sources \cup {NoSource}]]
  /\ history \in [Transports -> [Sources -> Nat]]
  /\ \A c \in confirmed : c.trip \in Transports /\ c.source \in Sources

FilesTyped ==
  /\ files \subseteq {Bytes(s) : s \in Sources}
  /\ overlapped \subseteq {Bytes(s) : s \in Sources}
  /\ rows \subseteq Sources

Resting == {"idle", "next", "done"}
Working(w) == job[w].phase \notin Resting

(* One scan at a time, and only while the service says so. *)
OneScan ==
  /\ \A w \in Scanners : At(w, "idle") \/ scanning
  /\ \A v, w \in Scanners : ~At(v, "idle") /\ ~At(w, "idle") => v = w

(* A scanner works on a mail, an upload on itself; each keeps to its part  *)
(* of the pipeline.                                                        *)
Placed ==
  /\ \A w \in Scanners : /\ ~At(w, "done")
                         /\ Working(w) => Source(w) \in Messages
  /\ \A w \in Uploads : /\ job[w].phase \notin {"next", "mark", "seen", "forward", "stamp"}
                        /\ Working(w) => Source(w) = w

Attempting == {"fetch", "store", "lookup", "create", "reapply", "persist", "apply",
               "missing", "note", "cite", "forget", "unlink", "mark"}

(* What a mail's row says while it is being imported. *)
Shown(w, m) ==
  /\ job[w].phase \in Attempting => email[m].status = "PROCESSING"
  /\ At(w, "seen") => Settled(m)
  /\ At(w, "failed") => \/ email[m].status = "PROCESSING"
                        \/ Settled(m) /\ job[w].error # "duplicate"
  /\ job[w].phase \in {"forward", "stamp"} => email[m].status = "FAILED"
  /\ m \notin seen

AllShown == \A w \in Scanners : Working(w) => Shown(w, Source(w))

(* What is known of the failure mail of m ... *)
Recorded == \A m \in Messages :
  /\ email[m].status = "NONE" => ~email[m].forwarded
  /\ ~email[m].forwarded =>
       \/ sent[m] <= unstamped[m]
       \/ \E w \in Scanners : At(w, "stamp") /\ Source(w) = m

(* ... and what a scan knows of it. *)
Noted == \A w \in Scanners : Working(w) =>
  /\ job[w].noted = email[Source(w)].forwarded
  /\ job[w].phase \in {"forward", "stamp"} => ~job[w].noted

(* A document is cited only while its row exists, and a trip comes from a  *)
(* document only while it is held.                                         *)
Cited ==
  /\ \A s \in Sources : Cites(s) # {} => s \in rows
  /\ \A t \in Transports : ~Held(t) => trips[t].from = NoSource

Committed == {"apply", "missing", "note", "cite", "forget"}

(* A confirmation is recorded once for its transport. *)
ConfirmedOnce ==
  \A c, d \in confirmed : c.trip = d.trip /\ c.number = d.number => c = d

SameBytes(r, s) == Bytes(r) = Bytes(s)

(* What is on disk for an import in hand, as long as no two of them had    *)
(* its bytes: its file; and if no row had its bytes when it looked, no row *)
(* but its own has them now.                                               *)
KeptFor(w) ==
  InHand(w) /\ Bytes(Source(w)) \notin overlapped =>
    /\ Bytes(Source(w)) \in files
    /\ \A v \in Workers : InHand(v) /\ SameBytes(Source(v), Source(w)) => v = w
    /\ ~job[w].owned /\ ~At(w, "lookup") =>
         \A r \in rows : SameBytes(r, Source(w)) =>
                           r = Source(w) /\ job[w].phase \in Committed

Kept ==
  /\ \A s \in rows : Bytes(s) \notin overlapped => Bytes(s) \in files
  /\ \A w \in Workers : KeptFor(w)

(* How often a document has reached a transport ... *)
Within == \A s \in Sources, t \in Transports : history[t][s] <= Mentions(Names(s), t)

(* ... and how often an import is going to let it. *)
Pending(w, t) ==
  CASE At(w, "apply") -> Mentions(job[w].todo, t) + Mentions(job[w].missing, t)
    [] At(w, "missing") -> Mentions(job[w].missing, t)
    [] job[w].phase \in {"note", "cite"} -> Mentions(job[w].todo, t)
    [] OTHER -> 0

Counted(w) == \A t \in Transports :
  history[t][Source(w)] + Pending(w, t) <= Mentions(Names(Source(w)), t)

Preparing == {"fetch", "store", "lookup", "create", "reapply", "persist"}

(* The task of an import where it stands in the pipeline. *)
TaskFits(w) ==
  LET s == Source(w)
  IN  /\ job[w].task = Task(s) \/ (job[w].task = "AGAIN" /\ Task(s) = "NEW")
      /\ job[w].phase \in {"fetch", "store", "lookup"} => job[w].task = Task(s)
      /\ job[w].phase \in {"create", "reapply"} => job[w].task = "NEW"
      /\ job[w].phase \in {"persist", "apply"} => job[w].task # "NEW"
      /\ job[w].phase \in {"missing", "note"} => job[w].task = "UPDATE"
      /\ At(w, "cite") => job[w].task = "COST"
      /\ InHand(w) \/ At(w, "store") => Paper(s).readable

(* What of it has happened. *)
Happened(w) ==
  LET s == Source(w)
  IN  /\ job[w].phase \in Preparing => job[w].missing = <<>> /\ ~job[w].did
      /\ At(w, "apply") =>
           /\ job[w].task \notin {"CANCEL", "COST"} =>
                ToSet(Names(s)) \subseteq
                  Cites(s) \cup ToSet(job[w].todo) \cup ToSet(job[w].missing)
           /\ job[w].task # "UPDATE" => job[w].missing = <<>>
           /\ job[w].task = "CANCEL" /\ job[w].did => Cites(s) # {}
           /\ job[w].task = "COST" => job[w].todo # <<>>
      /\ At(w, "cite") => job[w].todo # <<>>
      /\ At(w, "missing") => ToSet(Names(s)) \subseteq Cites(s) \cup ToSet(job[w].missing)
      /\ At(w, "note") => ToSet(Names(s)) \subseteq Cites(s)
      /\ At(w, "mark") /\ ~AppliedNothing(w) => CarriedOut(s)

OnCourse(w) ==
  Working(w) => /\ job[w].phase \in Committed => Source(w) \in rows
                /\ Counted(w)
                /\ TaskFits(w)
                /\ Happened(w)

AllOnCourse == \A w \in Workers : OnCourse(w)

(* The mails and the documents, each with what its own steps keep. *)
MailInv ==
  /\ asks \in Asked /\ JobTyped /\ MailTyped
  /\ OneScan
  /\ Placed
  /\ AllShown
  /\ SeenIsSettled
  /\ Recorded
  /\ Noted
  /\ ForwardedOnce

DocInv ==
  /\ TripsTyped /\ FilesTyped
  /\ faults \in 0..MaxFaults
  /\ Cited
  /\ Kept
  /\ Within
  /\ AllOnCourse
  /\ ConfirmedOnce

IInv == MailInv /\ DocInv

---------------------------------------------------------------------------
(* Types, and the workers' jobs. *)

LEMMA TypeParts ==
  TypeOK <=> /\ asks \in Asked /\ JobTyped /\ MailTyped /\ TripsTyped /\ FilesTyped
             /\ faults \in 0..MaxFaults
             /\ \A w \in Scanners : At(w, "idle") \/ scanning
BY DEF TypeOK, JobTyped, Job, MailTyped, TripsTyped, FilesTyped

LEMMA SourceFacts ==
  ASSUME asks \in Asked, NEW s \in Sources
  PROVE  /\ asks[s].action \in {"NEW", "UPDATE", "CANCEL", "COST", "NONE"}
         /\ Names(s) \in Seq(Transports)
         /\ Paper(s).readable => Names(s) # <<>>
         /\ Task(s) \in Actions
BY SourcesAsk DEF Names, Paper, Task, Actions

LEMMA IdleJob == Idle \in Job /\ Ended \in Job
<1>1. <<>> \in Seq(Transports)
  OBVIOUS
<1>2. Idle \in Job
  BY <1>1 DEF Idle, Job, Phases, Actions, Errors
<1>3. Ended = [Idle EXCEPT !.phase = "done"]
  BY DEF Ended
<1> QED BY <1>2, <1>3 DEF Job, Phases

(* What the other workers do stays. *)
Others(w) == \A v \in Workers \ {w} : job'[v] = job[v]

LEMMA Moves ==
  ASSUME JobTyped, NEW w \in Workers, NEW r \in Job, job' = [job EXCEPT ![w] = r]
  PROVE  JobTyped' /\ Others(w) /\ job'[w] = r
BY DEF JobTyped, Others

(* A worker's import goes on: same source, same knowledge of its mail. *)
Turns(w, phase, task, todo, missing, owned, did) ==
  /\ JobTyped' /\ Others(w)
  /\ job'[w].phase = phase /\ job'[w].source = job[w].source /\ job'[w].noted = job[w].noted
  /\ job'[w].task = task /\ job'[w].todo = todo /\ job'[w].missing = missing
  /\ job'[w].owned = owned /\ job'[w].did = did

LEMMA GoesTurns ==
  ASSUME JobTyped, NEW w \in Workers, NEW phase \in Phases, Goes(w, phase)
  PROVE  /\ Turns(w, phase, job[w].task, job[w].todo, job[w].missing, job[w].owned, job[w].did)
         /\ job'[w].error = job[w].error
<1> DEFINE r == [job[w] EXCEPT !.phase = phase]
<1>1. job[w] \in Job
  BY DEF JobTyped
<1>2. r \in Job /\ job' = [job EXCEPT ![w] = r]
  BY <1>1 DEF Goes, Job
<1>3. JobTyped' /\ Others(w) /\ job'[w] = r
  BY <1>2, Moves
<1> QED BY <1>1, <1>3 DEF Turns, Job

LEMMA BreaksTurns ==
  ASSUME JobTyped, NEW w \in Workers, NEW phase \in Phases, NEW error \in Errors,
         Breaks(w, phase, error)
  PROVE  /\ Turns(w, phase, job[w].task, <<>>, <<>>, job[w].owned, job[w].did)
         /\ job'[w].error = error
<1> DEFINE r == [job[w] EXCEPT !.phase = phase, !.error = error, !.todo = <<>>,
                               !.missing = <<>>]
<1>1. <<>> \in Seq(Transports) /\ job[w] \in Job
  BY DEF JobTyped
<1>2. r \in Job
  BY <1>1 DEF Job
<1>3. job' = [job EXCEPT ![w] = r]
  BY DEF Breaks
<1>4. JobTyped' /\ Others(w) /\ job'[w] = r
  BY <1>2, <1>3, Moves
<1> QED BY <1>1, <1>4 DEF Turns, Job

LEMMA AdvancesTurns ==
  ASSUME JobTyped, NEW w \in Workers, job[w].todo # <<>>, Advances(w)
  PROVE  Turns(w, job[w].phase, job[w].task, Tail(job[w].todo), job[w].missing,
               job[w].owned, job[w].did)
<1> DEFINE r == [job[w] EXCEPT !.todo = Tail(job[w].todo)]
<1>1. job[w] \in Job
  BY DEF JobTyped
<1>2. Tail(job[w].todo) \in Seq(Transports)
  BY <1>1 DEF Job
<1>3. r \in Job
  BY <1>1, <1>2 DEF Job
<1>4. job' = [job EXCEPT ![w] = r]
  BY <1>1 DEF Advances, JobTyped, Job
<1>5. JobTyped' /\ Others(w) /\ job'[w] = r
  BY <1>3, <1>4, Moves
<1> QED BY <1>1, <1>5 DEF Turns, Job

LEMMA FinishedTurns ==
  ASSUME JobTyped, NEW w \in Workers, Finished(w)
  PROVE  /\ JobTyped' /\ Others(w)
         /\ \/ w \in Uploads /\ job'[w] = Ended
            \/ /\ w \notin Uploads
               /\ Turns(w, "mark", job[w].task, <<>>, <<>>, FALSE, job[w].did)
<1> DEFINE r == [job[w] EXCEPT !.phase = "mark", !.todo = <<>>, !.missing = <<>>,
                               !.owned = FALSE]
<1>1. <<>> \in Seq(Transports) /\ job[w] \in Job
  BY DEF JobTyped
<1>2. r \in Job
  BY <1>1 DEF Job, Phases
<1>3. CASE w \in Uploads
  <2>1. job' = [job EXCEPT ![w] = Ended]
    BY <1>3 DEF Finished
  <2> QED BY <1>3, <2>1, IdleJob, Moves
<1>4. CASE w \notin Uploads
  <2>1. job' = [job EXCEPT ![w] = r]
    BY <1>4 DEF Finished
  <2>2. JobTyped' /\ Others(w) /\ job'[w] = r
    BY <1>2, <2>1, Moves
  <2> QED BY <1>1, <1>4, <2>2 DEF Turns, Job
<1> QED BY <1>3, <1>4

LEMMA LookupTurns ==
  ASSUME JobTyped, NEW w \in Workers, Lookup(w)
  PROVE  Turns(w, IF job[w].task = "NEW" THEN "create" ELSE "persist", job[w].task,
               job[w].todo, job[w].missing, Owned(Source(w)), job[w].did)
<1> DEFINE p == IF job[w].task = "NEW" THEN "create" ELSE "persist"
<1> DEFINE r == [job[w] EXCEPT !.owned = Owned(Source(w)), !.phase = p]
<1>1. job[w] \in Job /\ p \in Phases
  BY DEF JobTyped, Phases
<1>2. Owned(Source(w)) \in BOOLEAN
  BY DEF Owned
<1>3. r \in Job
  BY <1>1, <1>2 DEF Job
<1>4. job' = [job EXCEPT ![w] = r]
  BY DEF Lookup
<1>5. JobTyped' /\ Others(w) /\ job'[w] = r
  BY <1>3, <1>4, Moves
<1> QED BY <1>1, <1>5 DEF Turns, Job

(* The row of the document is written, and what it names is to be done. *)
LEMMA PersistTurns ==
  ASSUME JobTyped, NEW w \in Workers, NEW names \in Seq(Transports),
         job' = [job EXCEPT ![w].phase = "apply", ![w].todo = names]
  PROVE  Turns(w, "apply", job[w].task, names, job[w].missing, job[w].owned, job[w].did)
<1>1. job[w] \in Job
  BY DEF JobTyped
<1>2. job'[w].phase = "apply" /\ job'[w].source = job[w].source /\ job'[w].noted = job[w].noted
  BY <1>1 DEF JobTyped, Job
<1>3. job'[w].task = job[w].task /\ job'[w].todo = names /\ job'[w].missing = job[w].missing
  BY <1>1 DEF JobTyped, Job
<1>4. job'[w].owned = job[w].owned /\ job'[w].did = job[w].did
  BY <1>1 DEF JobTyped, Job
<1>5. JobTyped' /\ Others(w)
  BY <1>1 DEF JobTyped, Job, Phases, Others
<1> QED BY <1>2, <1>3, <1>4, <1>5 DEF Turns

LEMMA AgainTurns ==
  ASSUME JobTyped, NEW w \in Workers, NEW names \in Seq(Transports),
         job' = [job EXCEPT ![w].phase = "apply", ![w].todo = names, ![w].task = "AGAIN"]
  PROVE  Turns(w, "apply", "AGAIN", names, job[w].missing, job[w].owned, job[w].did)
<1>1. job[w] \in Job
  BY DEF JobTyped
<1>2. job'[w].phase = "apply" /\ job'[w].source = job[w].source /\ job'[w].noted = job[w].noted
  BY <1>1 DEF JobTyped, Job
<1>3. job'[w].task = "AGAIN" /\ job'[w].todo = names /\ job'[w].missing = job[w].missing
  BY <1>1 DEF JobTyped, Job
<1>4. job'[w].owned = job[w].owned /\ job'[w].did = job[w].did
  BY <1>1 DEF JobTyped, Job
<1>5. JobTyped' /\ Others(w)
  BY <1>1 DEF JobTyped, Job, Phases, Others
<1> QED BY <1>2, <1>3, <1>4, <1>5 DEF Turns

LEMMA MissesTurns ==
  ASSUME JobTyped, NEW w \in Workers, job[w].todo # <<>>,
         job' = [job EXCEPT ![w].todo = Tail(@),
                            ![w].missing = Append(@, Head(job[w].todo))]
  PROVE  Turns(w, job[w].phase, job[w].task, Tail(job[w].todo),
               Append(job[w].missing, Head(job[w].todo)), job[w].owned, job[w].did)
<1>1. job[w] \in Job
  BY DEF JobTyped
<1>2. /\ Tail(job[w].todo) \in Seq(Transports)
      /\ Append(job[w].missing, Head(job[w].todo)) \in Seq(Transports)
  BY <1>1 DEF Job
<1>3. job'[w].phase = job[w].phase /\ job'[w].source = job[w].source /\ job'[w].noted = job[w].noted
  BY <1>1 DEF JobTyped, Job
<1>4. job'[w].task = job[w].task /\ job'[w].todo = Tail(job[w].todo) /\ job'[w].missing = Append(job[w].missing, Head(job[w].todo))
  BY <1>1 DEF JobTyped, Job
<1>5. job'[w].owned = job[w].owned /\ job'[w].did = job[w].did
  BY <1>1 DEF JobTyped, Job
<1>6. JobTyped' /\ Others(w)
  BY <1>1, <1>2 DEF JobTyped, Job, Phases, Others
<1> QED BY <1>3, <1>4, <1>5, <1>6 DEF Turns

LEMMA CancelsTurns ==
  ASSUME JobTyped, NEW w \in Workers, job[w].todo # <<>>,
         job' = [job EXCEPT ![w].todo = Tail(@), ![w].did = TRUE]
  PROVE  Turns(w, job[w].phase, job[w].task, Tail(job[w].todo), job[w].missing,
               job[w].owned, TRUE)
<1>1. job[w] \in Job
  BY DEF JobTyped
<1>2. Tail(job[w].todo) \in Seq(Transports)
  BY <1>1 DEF Job
<1>3. job'[w].phase = job[w].phase /\ job'[w].source = job[w].source /\ job'[w].noted = job[w].noted
  BY <1>1 DEF JobTyped, Job
<1>4. job'[w].task = job[w].task /\ job'[w].todo = Tail(job[w].todo) /\ job'[w].missing = job[w].missing
  BY <1>1 DEF JobTyped, Job
<1>5. job'[w].owned = job[w].owned /\ job'[w].did = TRUE
  BY <1>1 DEF JobTyped, Job
<1>6. JobTyped' /\ Others(w)
  BY <1>1, <1>2 DEF JobTyped, Job, Phases, Others
<1> QED BY <1>3, <1>4, <1>5, <1>6 DEF Turns

LEMMA CreatesTurns ==
  ASSUME JobTyped, NEW w \in Workers,
         job' = [job EXCEPT ![w].phase = "note", ![w].todo = job[w].missing]
  PROVE  Turns(w, "note", job[w].task, job[w].missing, job[w].missing, job[w].owned,
               job[w].did)
<1>1. job[w] \in Job
  BY DEF JobTyped
<1>2. job'[w].phase = "note" /\ job'[w].source = job[w].source /\ job'[w].noted = job[w].noted
  BY <1>1 DEF JobTyped, Job
<1>3. job'[w].task = job[w].task /\ job'[w].todo = job[w].missing /\ job'[w].missing = job[w].missing
  BY <1>1 DEF JobTyped, Job
<1>4. job'[w].owned = job[w].owned /\ job'[w].did = job[w].did
  BY <1>1 DEF JobTyped, Job
<1>5. JobTyped' /\ Others(w)
  BY <1>1 DEF JobTyped, Job, Phases, Others
<1> QED BY <1>2, <1>3, <1>4, <1>5 DEF Turns

LEMMA UnlinkTurns ==
  ASSUME JobTyped, NEW w \in Workers, Unlink(w)
  PROVE  Turns(w, "failed", job[w].task, job[w].todo, job[w].missing, FALSE, job[w].did)
<1> DEFINE r == [job[w] EXCEPT !.phase = "failed", !.owned = FALSE]
<1>1. job[w] \in Job
  BY DEF JobTyped
<1>2. r \in Job
  BY <1>1 DEF Job, Phases
<1>3. job' = [job EXCEPT ![w] = r]
  BY <1>1 DEF Unlink, JobTyped, Job
<1>4. JobTyped' /\ Others(w) /\ job'[w] = r
  BY <1>2, <1>3, Moves
<1> QED BY <1>1, <1>4 DEF Turns, Job

LEMMA ContinueMoves ==
  ASSUME JobTyped, NEW w \in Workers, Continue(w)
  PROVE  /\ JobTyped' /\ Others(w)
         /\ job'[w] = [Idle EXCEPT !.phase = "next", !.queue = job[w].queue]
<1> DEFINE r == [Idle EXCEPT !.phase = "next", !.queue = job[w].queue]
<1>1. r \in Job
  BY IdleJob DEF JobTyped, Job, Phases
<1>2. job' = [job EXCEPT ![w] = r]
  BY DEF Continue
<1> QED BY <1>1, <1>2, Moves

LEMMA OpensMoves ==
  ASSUME JobTyped, asks \in Asked, NEW w \in Workers, NEW m \in Messages,
         NEW noted \in BOOLEAN, Opens(w, m, noted)
  PROVE  /\ JobTyped' /\ Others(w)
         /\ job'[w].phase = "fetch" /\ job'[w].source = m /\ job'[w].noted = noted
         /\ job'[w].task = Task(m) /\ job'[w].missing = <<>> /\ job'[w].did = FALSE
<1> DEFINE r == [Idle EXCEPT !.phase = "fetch", !.source = m, !.task = Task(m),
                             !.noted = noted, !.queue = job[w].queue \ {m}]
<1>1. Task(m) \in Actions /\ m \in Sources
  BY SourceFacts DEF Sources
<1>2. r \in Job
  BY <1>1, IdleJob DEF JobTyped, Job, Phases
<1>3. job' = [job EXCEPT ![w] = r]
  BY DEF Opens
<1>4. JobTyped' /\ Others(w) /\ job'[w] = r
  BY <1>2, <1>3, Moves
<1> QED BY <1>4 DEF Idle

LEMMA LeavesMoves ==
  ASSUME JobTyped, NEW w \in Workers, NEW m \in Messages, Leaves(w, m)
  PROVE  /\ JobTyped' /\ Others(w)
         /\ job'[w] = [job[w] EXCEPT !.queue = job[w].queue \ {m}]
<1> DEFINE r == [job[w] EXCEPT !.queue = job[w].queue \ {m}]
<1>1. r \in Job /\ job' = [job EXCEPT ![w] = r]
  BY DEF Leaves, JobTyped, Job
<1> QED BY <1>1, Moves

LEMMA SourcesApart ==
  ASSUME OneScan, Placed, NEW v \in Workers, NEW w \in Workers, Working(v), Working(w),
         v # w
  PROVE  /\ Source(v) # Source(w)
         /\ v \in Uploads \/ w \in Uploads
BY SourcesAreApart DEF OneScan, Placed, Working, Resting, At, Workers
---------------------------------------------------------------------------
(* An import as the mail side sees it: between the start of an attempt and *)
(* its outcome no mail is touched.                                         *)

MailsSame == UNCHANGED <<mailbox, email, seen, scanning, sent, unstamped>>

InPipeline == Attempting \ {"mark"}

Steady(w) ==
  /\ JobTyped' /\ Others(w)
  /\ MailsSame /\ UNCHANGED asks
  /\ job[w].phase \in InPipeline
  /\ \/ w \in Uploads /\ job'[w] = Ended
     \/ /\ \/ job'[w].phase \in InPipeline \cup {"failed"}
           \/ w \in Scanners /\ job'[w].phase = "mark"
        /\ job'[w].source = job[w].source
        /\ job'[w].noted = job[w].noted

LEMMA TurnsSteady ==
  ASSUME NEW w \in Workers, job[w].phase \in InPipeline,
         NEW phase \in InPipeline \cup {"failed"},
         NEW task, NEW todo, NEW missing, NEW owned, NEW did,
         Turns(w, phase, task, todo, missing, owned, did), MailsSame, UNCHANGED asks
  PROVE  Steady(w)
BY DEF Turns, Steady

LEMMA PipelinePhases ==
  /\ InPipeline \cup {"failed"} \subseteq Phases
  /\ {"fetch", "store", "lookup", "create", "reapply", "persist", "apply", "missing",
      "note", "cite", "forget", "unlink"} = InPipeline
  /\ {"other", "download", "duplicate"} \subseteq Errors
BY DEF InPipeline, Attempting, Phases, Errors

LEMMA GoesSteady ==
  ASSUME JobTyped, NEW w \in Workers, job[w].phase \in InPipeline,
         NEW phase \in InPipeline \cup {"failed"}, Goes(w, phase), MailsSame, UNCHANGED asks
  PROVE  Steady(w)
<1>1. Turns(w, phase, job[w].task, job[w].todo, job[w].missing, job[w].owned, job[w].did)
  BY GoesTurns, PipelinePhases
<1> QED BY <1>1, TurnsSteady

LEMMA BreaksSteady ==
  ASSUME JobTyped, NEW w \in Workers, job[w].phase \in InPipeline,
         NEW phase \in InPipeline \cup {"failed"}, NEW error \in Errors,
         Breaks(w, phase, error), MailsSame, UNCHANGED asks
  PROVE  Steady(w)
<1>1. Turns(w, phase, job[w].task, <<>>, <<>>, job[w].owned, job[w].did)
  BY BreaksTurns, PipelinePhases
<1> QED BY <1>1, TurnsSteady

LEMMA AdvancesSteady ==
  ASSUME JobTyped, NEW w \in Workers, job[w].phase \in InPipeline,
         job[w].todo # <<>>, Advances(w), MailsSame, UNCHANGED asks
  PROVE  Steady(w)
<1>1. Turns(w, job[w].phase, job[w].task, Tail(job[w].todo), job[w].missing,
            job[w].owned, job[w].did)
  BY AdvancesTurns
<1> QED BY <1>1, TurnsSteady

LEMMA FinishedSteady ==
  ASSUME JobTyped, NEW w \in Workers, job[w].phase \in InPipeline,
         Finished(w), MailsSame, UNCHANGED asks
  PROVE  Steady(w)
BY FinishedTurns DEF Turns, Steady, Workers

LEMMA ImportsSteady ==
  ASSUME JobTyped, asks \in Asked, Placed, NEW w \in Workers, Imports(w)
  PROVE  Steady(w)
<1> USE PipelinePhases
<1>1. CASE Fetch(w)
  <2>1. job[w].phase \in InPipeline
    BY <1>1 DEF Fetch, At
  <2>2. MailsSame /\ UNCHANGED asks
    BY <1>1 DEF Fetch, MailsSame, observed
  <2>3. Goes(w, "store") \/ Breaks(w, "failed", "other")
    BY <1>1 DEF Fetch
  <2> QED BY <2>1, <2>2, <2>3, BreaksSteady, GoesSteady
<1>2. CASE Store(w)
  <2>1. job[w].phase \in InPipeline
    BY <1>2 DEF Store, At
  <2>2. MailsSame /\ UNCHANGED asks
    BY <1>2 DEF Store, MailsSame, observed
  <2>3. Goes(w, "lookup")
    BY <1>2 DEF Store
  <2> QED BY <2>1, <2>2, <2>3, GoesSteady
<1>3. CASE Lookup(w)
  <2>1. job[w].phase \in InPipeline
    BY <1>3 DEF Lookup, At
  <2>2. MailsSame /\ UNCHANGED asks
    BY <1>3 DEF Lookup, MailsSame, observed
  <2> QED BY <1>3, <2>1, <2>2, LookupTurns, TurnsSteady
<1>4. CASE CreateTrips(w)
  <2>1. job[w].phase \in InPipeline
    BY <1>4 DEF CreateTrips, At
  <2>2. MailsSame /\ UNCHANGED asks
    BY <1>4 DEF CreateTrips, MailsSame, observed
  <2>3. Finished(w)
    BY <1>4 DEF CreateTrips
  <2> QED BY <2>1, <2>2, <2>3, FinishedSteady
<1>5. CASE CreateRefused(w)
  <2>1. job[w].phase \in InPipeline
    BY <1>5 DEF CreateRefused, At
  <2>2. MailsSame /\ UNCHANGED asks
    BY <1>5 DEF CreateRefused, MailsSame, observed
  <2>3. Goes(w, "reapply") \/ Breaks(w, "unlink", "other")
    BY <1>5 DEF CreateRefused
  <2> QED BY <2>1, <2>2, <2>3, BreaksSteady, GoesSteady
<1>6. CASE Persist(w)
  <2>1. job[w].phase \in InPipeline
    BY <1>6 DEF Persist, At
  <2>2. MailsSame /\ UNCHANGED asks
    BY <1>6 DEF Persist, MailsSame, observed
  <2>3. CASE Breaks(w, "unlink", "other")
    BY <2>1, <2>2, <2>3, BreaksSteady
  <2>4. CASE job' = [job EXCEPT ![w].phase = "apply", ![w].todo = Names(Source(w))]
    <3>1. Names(Source(w)) \in Seq(Transports)
      BY <2>1, SourceFacts DEF Placed, Working, Resting, Workers, Sources
    <3> QED BY <2>1, <2>2, <2>4, <3>1, PersistTurns, TurnsSteady
  <2> QED BY <1>6, <2>3, <2>4 DEF Persist
<1>7. CASE Reapply(w)
  <2>1. job[w].phase \in InPipeline
    BY <1>7 DEF Reapply, At
  <2>2. MailsSame /\ UNCHANGED asks
    BY <1>7 DEF Reapply, MailsSame, observed
  <2>3. CASE Breaks(w, "unlink", "other")
    BY <2>1, <2>2, <2>3, BreaksSteady
  <2>4. CASE Breaks(w, "failed", "other")
    BY <2>1, <2>2, <2>4, BreaksSteady
  <2>5. CASE job' = [job EXCEPT ![w].phase = "apply", ![w].todo = Names(Source(w)),
                              ![w].task = "AGAIN"]
    <3>1. Names(Source(w)) \in Seq(Transports)
      BY <2>1, SourceFacts DEF Placed, Working, Resting, Workers, Sources
    <3> QED BY <2>1, <2>2, <2>5, <3>1, AgainTurns, TurnsSteady
  <2> QED BY <1>7, <2>3, <2>4, <2>5 DEF Reapply
<1>8. CASE ApplyNewOrder(w)
  <2>1. job[w].phase \in InPipeline /\ job[w].todo # <<>>
    BY <1>8 DEF ApplyNewOrder, At, Applies
  <2>2. MailsSame /\ UNCHANGED asks
    BY <1>8 DEF ApplyNewOrder, MailsSame, AppliesOnly, observed
  <2>3. Advances(w)
    BY <1>8 DEF ApplyNewOrder
  <2> QED BY <2>1, <2>2, <2>3, AdvancesSteady
<1>9. CASE ApplyRevision(w)
  <2>1. job[w].phase \in InPipeline /\ job[w].todo # <<>>
    BY <1>9 DEF ApplyRevision, At, Applies
  <2>2. MailsSame /\ UNCHANGED asks
    BY <1>9 DEF ApplyRevision, MailsSame, AppliesOnly, observed
  <2>3. CASE Advances(w)
    BY <2>1, <2>2, <2>3, AdvancesSteady
  <2>4. CASE job' = [job EXCEPT ![w].todo = Tail(@),
                              ![w].missing = Append(@, Head(job[w].todo))]
    BY <2>1, <2>2, <2>4, MissesTurns, TurnsSteady
  <2> QED BY <1>9, <2>3, <2>4 DEF ApplyRevision
<1>10. CASE RevisionRefused(w)
  <2>1. job[w].phase \in InPipeline
    BY <1>10 DEF RevisionRefused, At, Applies
  <2>2. MailsSame /\ UNCHANGED asks
    BY <1>10 DEF RevisionRefused, MailsSame, AppliesOnly, observed
  <2>3. Breaks(w, "failed", "other")
    BY <1>10 DEF RevisionRefused
  <2> QED BY <2>1, <2>2, <2>3, BreaksSteady
<1>11. CASE ApplyCancellation(w)
  <2>1. job[w].phase \in InPipeline /\ job[w].todo # <<>>
    BY <1>11 DEF ApplyCancellation, At, Applies
  <2>2. MailsSame /\ UNCHANGED asks
    BY <1>11 DEF ApplyCancellation, MailsSame, AppliesOnly, observed
  <2>3. CASE Advances(w)
    BY <2>1, <2>2, <2>3, AdvancesSteady
  <2>4. CASE job' = [job EXCEPT ![w].todo = Tail(@), ![w].did = TRUE]
    BY <2>1, <2>2, <2>4, CancelsTurns, TurnsSteady
  <2> QED BY <1>11, <2>3, <2>4 DEF ApplyCancellation
<1>12. CASE RecordConfirmation(w)
  <2>1. job[w].phase \in InPipeline
    BY <1>12 DEF RecordConfirmation, At, Applies
  <2>2. MailsSame /\ UNCHANGED asks
    BY <1>12 DEF RecordConfirmation, MailsSame, AppliesOnly, observed
  <2>3. Goes(w, "cite")
    BY <1>12 DEF RecordConfirmation
  <2> QED BY <2>1, <2>2, <2>3, GoesSteady
<1>13. CASE RecordInHistory(w)
  <2>1. job[w].phase \in InPipeline
    BY <1>13 DEF RecordInHistory, At
  <2>2. MailsSame /\ UNCHANGED asks
    BY <1>13 DEF RecordInHistory, MailsSame, AppliesOnly, observed
  <2>3. Finished(w)
    BY <1>13 DEF RecordInHistory
  <2> QED BY <2>1, <2>2, <2>3, FinishedSteady
<1>14. CASE Applied(w)
  <2>1. job[w].phase \in InPipeline
    BY <1>14 DEF Applied, At
  <2>2. MailsSame /\ UNCHANGED asks
    BY <1>14 DEF Applied, MailsSame, observed
  <2>3. Goes(w, "missing") \/ Finished(w)
    BY <1>14 DEF Applied
  <2> QED BY <2>1, <2>2, <2>3, FinishedSteady, GoesSteady
<1>15. CASE CreateMissing(w)
  <2>1. job[w].phase \in InPipeline
    BY <1>15 DEF CreateMissing, At
  <2>2. MailsSame /\ UNCHANGED asks
    BY <1>15 DEF CreateMissing, MailsSame, AppliesOnly, observed
  <2>3. CASE Breaks(w, "forget", "duplicate")
    BY <2>1, <2>2, <2>3, BreaksSteady
  <2>4. CASE job' = [job EXCEPT ![w].phase = "note", ![w].todo = job[w].missing]
    BY <2>1, <2>2, <2>4, CreatesTurns, TurnsSteady
  <2> QED BY <1>15, <2>3, <2>4 DEF CreateMissing
<1>16. CASE NoteCreated(w)
  <2>1. job[w].phase \in InPipeline /\ job[w].todo # <<>>
    BY <1>16 DEF NoteCreated, At
  <2>2. MailsSame /\ UNCHANGED asks
    BY <1>16 DEF NoteCreated, MailsSame, AppliesOnly, observed
  <2>3. Advances(w)
    BY <1>16 DEF NoteCreated
  <2> QED BY <2>1, <2>2, <2>3, AdvancesSteady
<1>17. CASE NotedCreated(w)
  <2>1. job[w].phase \in InPipeline
    BY <1>17 DEF NotedCreated, At
  <2>2. MailsSame /\ UNCHANGED asks
    BY <1>17 DEF NotedCreated, MailsSame, observed
  <2>3. Finished(w)
    BY <1>17 DEF NotedCreated
  <2> QED BY <2>1, <2>2, <2>3, FinishedSteady
<1>18. CASE Forget(w)
  <2>1. job[w].phase \in InPipeline
    BY <1>18 DEF Forget, At
  <2>2. MailsSame /\ UNCHANGED asks
    BY <1>18 DEF Forget, MailsSame, observed
  <2>3. Goes(w, "failed") \/ Goes(w, "unlink")
    BY <1>18 DEF Forget
  <2> QED BY <2>1, <2>2, <2>3, GoesSteady
<1>19. CASE Unlink(w)
  <2>1. job[w].phase \in InPipeline
    BY <1>19 DEF Unlink, At
  <2>2. MailsSame /\ UNCHANGED asks
    BY <1>19 DEF Unlink, MailsSame, observed
  <2> QED BY <1>19, <2>1, <2>2, UnlinkTurns, TurnsSteady
<1> QED BY <1>1, <1>2, <1>3, <1>4, <1>5, <1>6, <1>7, <1>8, <1>9, <1>10, <1>11, <1>12, <1>13, <1>14, <1>15, <1>16, <1>17, <1>18, <1>19 DEF Imports

LEMMA FaultsSteady ==
  ASSUME JobTyped, NEW w \in Workers,
         DownloadFails(w) \/ LookupFails(w) \/ TransactionFails(w)
  PROVE  Steady(w)
<1> USE PipelinePhases
<1>1. job[w].phase \in InPipeline
  BY DEF DownloadFails, LookupFails, TransactionFails, At
<1>2. MailsSame /\ UNCHANGED asks
  BY DEF DownloadFails, LookupFails, TransactionFails, MailsSame, observed
<1>3. \/ Breaks(w, "failed", "download") \/ Breaks(w, "failed", "other")
      \/ Breaks(w, "unlink", "other") \/ Breaks(w, "forget", "other")
  BY DEF DownloadFails, LookupFails, TransactionFails
<1> QED BY <1>1, <1>2, <1>3, BreaksSteady

---------------------------------------------------------------------------
(* The mail side. *)

(* While one scanner works the others are idle; an upload has no mail. *)
LEMMA OthersIdle ==
  ASSUME OneScan, NEW w \in Scanners, ~At(w, "idle"), NEW v \in Scanners \ {w}
  PROVE  job[v].phase = "idle" /\ ~Working(v)
BY DEF OneScan, At, Working, Resting

LEMMA SteadyMails ==
  ASSUME MailInv, NEW w \in Workers, Steady(w)
  PROVE  MailInv'
<1>1. JobTyped' /\ Others(w) /\ MailsSame /\ asks' = asks
  BY DEF Steady
<1>2. job[w].phase \in Attempting /\ job[w].phase # "mark" /\ Working(w) /\ ~At(w, "idle")
  BY DEF Steady, InPipeline, Attempting, Working, Resting, At
<1>3. w \in Scanners =>
        /\ job'[w].phase \in Attempting \cup {"failed"}
        /\ job'[w].source = job[w].source /\ job'[w].noted = job[w].noted
  BY SourcesAreApart DEF Steady, InPipeline, Attempting, Sources
<1>4. w \in Uploads =>
        /\ job'[w].phase \in (Attempting \ {"mark"}) \cup {"failed", "done"}
        /\ job'[w].phase # "done" => job'[w].source = job[w].source
  BY SourcesAreApart DEF Steady, InPipeline, Attempting, Ended, Idle
<1>5. asks' \in Asked /\ MailTyped'
  BY <1>1 DEF MailInv, MailsSame, MailTyped
<1>6. OneScan'
  BY <1>1, <1>2 DEF MailInv, OneScan, Others, At, Workers, MailsSame
<1>7. Placed'
  BY <1>1, <1>2, <1>3, <1>4
  DEF MailInv, Placed, Others, At, Workers, Working, Resting, Source, Attempting
<1>8. AllShown'
  <2> SUFFICES ASSUME NEW v \in Scanners, Working(v)'
               PROVE  Shown(v, Source(v))'
    BY DEF AllShown
  <2>1. CASE v = w
    <3>1. Shown(w, Source(w)) /\ Source(w)' = Source(w)
      BY <1>2, <1>3, <2>1 DEF MailInv, AllShown, Source
    <3> QED BY <1>1, <1>2, <1>3, <2>1, <3>1
        DEF Shown, MailsSame, Settled, At, Attempting
  <2>2. CASE v # w
    <3>1. Working(v) /\ job'[v] = job[v]
      BY <1>1, <2>2 DEF Others, Workers, Working
    <3> QED BY <1>1, <3>1 DEF MailInv, AllShown, Shown, MailsSame, Settled, At, Source
  <2> QED BY <2>1, <2>2
<1>9. SeenIsSettled'
  BY <1>1 DEF MailInv, SeenIsSettled, Settled, MailsSame
<1>10. Recorded'
  <2>1. \A v \in Scanners : At(v, "stamp") => job'[v] = job[v]
    BY <1>1, <1>2 DEF Others, Workers, At, Attempting
  <2> QED BY <1>1, <2>1 DEF MailInv, Recorded, MailsSame, At, Source
<1>11. Noted'
  <2> SUFFICES ASSUME NEW v \in Scanners, Working(v)'
               PROVE  /\ job'[v].noted = email'[job'[v].source].forwarded
                      /\ job'[v].phase \in {"forward", "stamp"} => ~job'[v].noted
    BY DEF Noted, Source
  <2>1. CASE v = w
    BY <1>1, <1>2, <1>3, <2>1 DEF MailInv, Noted, MailsSame, Source, Attempting
  <2>2. CASE v # w
    <3>1. Working(v) /\ job'[v] = job[v]
      BY <1>1, <2>2 DEF Others, Workers, Working
    <3> QED BY <1>1, <3>1 DEF MailInv, Noted, MailsSame, Source
  <2> QED BY <2>1, <2>2
<1>12. ForwardedOnce'
  BY <1>1 DEF MailInv, ForwardedOnce, MailsSame
<1> QED BY <1>1, <1>5, <1>6, <1>7, <1>8, <1>9, <1>10, <1>11, <1>12 DEF MailInv

(* What a scanner's own state says of the mail it works on. *)
ScannerFine(w) ==
  /\ ~At(w, "done")
  /\ Working(w) => /\ Source(w) \in Messages
                   /\ Shown(w, Source(w))
                   /\ job[w].noted = email[Source(w)].forwarded
                   /\ job[w].phase \in {"forward", "stamp"} => ~job[w].noted

LEMMA AreFine ==
  ASSUME MailInv, NEW w \in Scanners
  PROVE  ScannerFine(w)
BY DEF MailInv, Placed, AllShown, Noted, ScannerFine

(* The scanner that scans makes a step. *)
LEMMA ScannerMails ==
  ASSUME MailInv, NEW w \in Scanners, ~At(w, "idle"), Others(w), asks' = asks,
         JobTyped', MailTyped', scanning' \/ At(w, "idle")',
         ScannerFine(w)', SeenIsSettled', Recorded', ForwardedOnce'
  PROVE  MailInv'
<1>1. \A v \in Scanners \ {w} : job[v].phase = "idle" /\ job'[v] = job[v]
  BY OthersIdle DEF MailInv, Others, Workers
<1>2. \A v \in Uploads : job'[v] = job[v]
  BY SourcesAreApart DEF Others, Workers
<1>3. OneScan'
  BY <1>1 DEF OneScan, At
<1>4. Placed'
  BY <1>1, <1>2 DEF MailInv, Placed, ScannerFine, At, Working, Resting, Source
<1>5. AllShown'
  BY <1>1 DEF AllShown, ScannerFine, Working, Resting
<1>6. Noted'
  BY <1>1 DEF Noted, ScannerFine, Working, Resting
<1> QED BY <1>3, <1>4, <1>5, <1>6 DEF MailInv

LEMMA OnlyScanners ==
  ASSUME Placed, NEW w \in Workers,
         job[w].phase \in {"next", "mark", "seen", "forward", "stamp"}
  PROVE  w \in Scanners /\ ~At(w, "idle")
BY DEF Placed, Workers, At

(* Going through the window: the scan passes on. *)
LEMMA SkipMails ==
  ASSUME MailInv, NEW w \in Workers, NEW m \in Messages, Skip(w, m)
  PROVE  MailInv'
<1>1. w \in Scanners /\ ~At(w, "idle") /\ scanning
  BY OnlyScanners DEF MailInv, Skip, At, OneScan
<1>2. /\ JobTyped' /\ Others(w)
      /\ job'[w] = [job[w] EXCEPT !.queue = job[w].queue \ {m}]
  BY LeavesMoves DEF MailInv, Skip
<1>3. UNCHANGED <<asks, mailbox, email, seen, scanning, sent, unstamped>>
  BY DEF Skip, observed
<1>4. MailTyped' /\ SeenIsSettled' /\ ForwardedOnce'
  BY <1>3 DEF MailInv, MailTyped, SeenIsSettled, Settled, ForwardedOnce
<1>5. job'[w].phase = "next"
  BY <1>2 DEF MailInv, Skip, At, JobTyped, Job
<1>6. ScannerFine(w)'
  BY <1>5 DEF ScannerFine, At, Working, Resting
<1>7. Recorded'
  <2>1. \A v \in Scanners : At(v, "stamp") => job'[v] = job[v]
    BY <1>2 DEF Others, Skip, Workers, At
  <2> QED BY <1>3, <2>1 DEF MailInv, Recorded, At, Source
<1> QED BY <1>1, <1>2, <1>3, <1>4, <1>6, <1>7, ScannerMails

LEMMA IgnoreMails ==
  ASSUME MailInv, NEW w \in Workers, NEW m \in Messages, Ignore(w, m)
  PROVE  MailInv'
<1>1. w \in Scanners /\ ~At(w, "idle") /\ scanning
  BY OnlyScanners DEF MailInv, Ignore, At, OneScan
<1>2. /\ JobTyped' /\ Others(w)
      /\ job'[w] = [job[w] EXCEPT !.queue = job[w].queue \ {m}]
  BY LeavesMoves DEF MailInv, Ignore
<1>3. UNCHANGED <<asks, mailbox, seen, scanning, sent, unstamped>>
  BY DEF Ignore, observed
<1>4. /\ email' \in [Messages -> [status : Statuses, stale : BOOLEAN, forwarded : BOOLEAN]]
      /\ email'[m].status = "IGNORED" /\ email[m].status = "NONE"
      /\ \A x \in Messages : /\ email'[x].forwarded = email[x].forwarded
                             /\ x # m => email'[x] = email[x]
  BY DEF Ignore, MailInv, MailTyped, Statuses
<1>5. MailTyped' /\ SeenIsSettled' /\ ForwardedOnce'
  BY <1>3, <1>4 DEF MailInv, MailTyped, SeenIsSettled, Settled, ForwardedOnce
<1>6. job'[w].phase = "next"
  BY <1>2 DEF MailInv, Ignore, At, JobTyped, Job
<1>7. ScannerFine(w)'
  BY <1>6 DEF ScannerFine, At, Working, Resting
<1>8. Recorded'
  <2>1. \A v \in Scanners : At(v, "stamp") => job'[v] = job[v]
    BY <1>2 DEF Others, Ignore, Workers, At
  <2> QED BY <1>3, <1>4, <2>1 DEF MailInv, Recorded, At, Source
<1> QED BY <1>1, <1>2, <1>3, <1>5, <1>7, <1>8, ScannerMails

(* A mail opened for an attempt, known to have been mailed about or not. *)
LEMMA OpensMails ==
  ASSUME MailInv, NEW w \in Scanners, At(w, "next"), NEW m \in Messages,
         JobTyped', Others(w), job'[w].phase = "fetch", job'[w].source = m,
         job'[w].noted = email[m].forwarded,
         UNCHANGED <<asks, mailbox, seen, scanning, sent, unstamped>>,
         email' \in [Messages -> [status : Statuses, stale : BOOLEAN, forwarded : BOOLEAN]],
         email'[m].status = "PROCESSING", ~Settled(m),
         \A x \in Messages : /\ email'[x].forwarded = email[x].forwarded
                             /\ x # m => email'[x] = email[x]
  PROVE  MailInv'
<1>1. ~At(w, "idle") /\ scanning
  BY DEF MailInv, At, OneScan
<1>2. MailTyped'
  BY DEF MailInv, MailTyped
<1>3. m \notin seen
  BY DEF MailInv, SeenIsSettled
<1>4. SeenIsSettled' /\ ForwardedOnce'
  BY <1>3 DEF MailInv, MailTyped, SeenIsSettled, Settled, ForwardedOnce
<1>5. ScannerFine(w)'
  <2>1. Shown(w, m)'
    BY <1>3 DEF Shown, At
  <2> QED BY <2>1 DEF ScannerFine, At, Working, Resting, Source
<1>6. Recorded'
  <2>1. \A v \in Scanners : At(v, "stamp") => job'[v] = job[v]
    BY DEF Others, Workers, At
  <2> QED BY <2>1 DEF MailInv, Recorded, At, Source
<1> QED BY <1>1, <1>2, <1>4, <1>5, <1>6, ScannerMails

LEMMA StartProcessingMails ==
  ASSUME MailInv, NEW w \in Workers, NEW m \in Messages, StartProcessing(w, m)
  PROVE  MailInv'
<1>1. w \in Scanners
  BY OnlyScanners DEF MailInv, StartProcessing, At
<1>2. UNCHANGED <<asks, mailbox, seen, scanning, sent, unstamped>>
  BY DEF StartProcessing, observed
<1>3. /\ email' \in [Messages -> [status : Statuses, stale : BOOLEAN, forwarded : BOOLEAN]]
      /\ email'[m].status = "PROCESSING"
      /\ \A x \in Messages : /\ email'[x].forwarded = email[x].forwarded
                             /\ x # m => email'[x] = email[x]
  BY DEF StartProcessing, MailInv, MailTyped, Statuses
<1>4. ~Settled(m) /\ ~email[m].forwarded
  BY DEF StartProcessing, MailInv, Recorded, Settled
<1>5. email[m].forwarded = FALSE
  BY <1>4 DEF MailInv, MailTyped
<1>6. Opens(w, m, FALSE) /\ At(w, "next") /\ FALSE \in BOOLEAN
  BY DEF StartProcessing
<1>7. JobTyped /\ asks \in Asked
  BY DEF MailInv
<1>8. /\ JobTyped' /\ Others(w) /\ job'[w].phase = "fetch" /\ job'[w].source = m
      /\ job'[w].noted = FALSE
  BY <1>6, <1>7, OpensMoves
<1> QED BY <1>1, <1>2, <1>3, <1>4, <1>5, <1>6, <1>8, OpensMails

LEMMA ReopenMails ==
  ASSUME MailInv, NEW w \in Workers, NEW m \in Messages, ReopenForRetry(w, m)
  PROVE  MailInv'
<1>1. w \in Scanners
  BY OnlyScanners DEF MailInv, ReopenForRetry, At
<1>2. UNCHANGED <<asks, mailbox, seen, scanning, sent, unstamped>>
  BY DEF ReopenForRetry, observed
<1>3. /\ email' \in [Messages -> [status : Statuses, stale : BOOLEAN, forwarded : BOOLEAN]]
      /\ email'[m].status = "PROCESSING"
      /\ \A x \in Messages : /\ email'[x].forwarded = email[x].forwarded
                             /\ x # m => email'[x] = email[x]
  BY DEF ReopenForRetry, Reopened, MailInv, MailTyped, Statuses
<1>4. ~Settled(m)
  BY DEF ReopenForRetry, Retried, Settled
<1>5. /\ Reopened(email[m]).forwarded = email[m].forwarded
      /\ email[m].forwarded \in BOOLEAN
  BY DEF Reopened, MailInv, MailTyped
<1>6. Opens(w, m, Reopened(email[m]).forwarded) /\ At(w, "next")
  BY DEF ReopenForRetry
<1>7. JobTyped /\ asks \in Asked
  BY DEF MailInv
<1>8. /\ JobTyped' /\ Others(w) /\ job'[w].phase = "fetch" /\ job'[w].source = m
      /\ job'[w].noted = Reopened(email[m]).forwarded
  BY <1>5, <1>6, <1>7, OpensMoves
<1> QED BY <1>1, <1>2, <1>3, <1>4, <1>5, <1>6, <1>8, OpensMails

(* Nothing mailed, nothing recorded. *)
LEMMA RecordedKept ==
  ASSUME MailInv, NEW w \in Workers, ~At(w, "stamp"), Others(w), UNCHANGED <<sent, unstamped>>,
         \A m \in Messages : /\ email'[m].forwarded = email[m].forwarded
                             /\ email'[m].status = "NONE" => email[m].status = "NONE"
  PROVE  Recorded'
<1>1. \A v \in Scanners : At(v, "stamp") => job'[v] = job[v]
  BY DEF Others, Workers, At
<1> QED BY <1>1 DEF MailInv, Recorded, At, Source

(* The scan goes on with its next mail. *)
LEMMA ContinueFine ==
  ASSUME JobTyped, NEW w \in Scanners, Continue(w)
  PROVE  JobTyped' /\ Others(w) /\ ScannerFine(w)' /\ job'[w].phase = "next"
<1>1. /\ JobTyped' /\ Others(w)
      /\ job'[w] = [Idle EXCEPT !.phase = "next", !.queue = job[w].queue]
  BY ContinueMoves DEF Workers
<1>2. job'[w].phase = "next"
  BY <1>1 DEF Idle
<1> QED BY <1>1, <1>2 DEF ScannerFine, At, Working, Resting

LEMMA EndScanMails ==
  ASSUME MailInv, NEW w \in Scanners, EndScan(w)
  PROVE  MailInv'
<1>1. ~At(w, "idle") /\ ~At(w, "stamp")
  BY DEF EndScan, At
<1>2. /\ UNCHANGED <<asks, mailbox, email, seen, sent, unstamped>> /\ scanning' = FALSE
      /\ job' = [job EXCEPT ![w] = Idle]
  BY DEF EndScan, observed
<1>3. JobTyped' /\ Others(w) /\ job'[w] = Idle
  BY <1>2, IdleJob, Moves DEF MailInv, Workers
<1>4. MailTyped' /\ SeenIsSettled' /\ ForwardedOnce'
  BY <1>2 DEF MailInv, MailTyped, SeenIsSettled, Settled, ForwardedOnce
<1>5. ScannerFine(w)' /\ At(w, "idle")'
  BY <1>3 DEF ScannerFine, At, Working, Resting, Idle
<1>6. Recorded'
  BY <1>1, <1>2, <1>3, RecordedKept DEF Workers
<1> QED BY <1>1, <1>2, <1>3, <1>4, <1>5, <1>6, ScannerMails

(* A step of the outcome of a mail: the scanner, and no upload, makes it.  *)
LEMMA OutcomeFacts ==
  ASSUME MailInv, NEW w \in Workers,
         \/ job[w].phase \in {"mark", "seen", "forward", "stamp"}
         \/ At(w, "failed") /\ w \in Scanners
  PROVE  /\ w \in Scanners /\ ~At(w, "idle") /\ scanning
         /\ Source(w) \in Messages /\ Shown(w, Source(w)) /\ job[w] \in Job
         /\ job[w].noted = email[Source(w)].forwarded
         /\ job[w].phase \in {"forward", "stamp"} => ~job[w].noted
<1>1. w \in Scanners /\ ~At(w, "idle") /\ Working(w)
  BY OnlyScanners DEF MailInv, At, Working, Resting
<1> QED BY <1>1 DEF MailInv, OneScan, Placed, AllShown, Noted, JobTyped

LEMMA MarkMails ==
  ASSUME MailInv, NEW w \in Workers, Mark(w)
  PROVE  MailInv'
<1> DEFINE m == Source(w)
<1>1. /\ w \in Scanners /\ ~At(w, "idle") /\ scanning /\ m \in Messages /\ m \notin seen
      /\ job[w] \in Job /\ job[w].noted = email[m].forwarded /\ email[m].status = "PROCESSING"
  BY OutcomeFacts DEF Mark, At, Shown, Attempting
<1>2. UNCHANGED <<asks, mailbox, seen, scanning, sent, unstamped>>
  BY DEF Mark, observed
<1>3. /\ email' \in [Messages -> [status : Statuses, stale : BOOLEAN, forwarded : BOOLEAN]]
      /\ email'[m].status \in {"IGNORED", "PROCESSED"}
      /\ \A x \in Messages : /\ email'[x].forwarded = email[x].forwarded
                             /\ x # m => email'[x] = email[x]
  BY <1>1 DEF Mark, MailInv, MailTyped, Statuses
<1>4. /\ Turns(w, "seen", job[w].task, job[w].todo, job[w].missing, job[w].owned, job[w].did)
      /\ ~At(w, "stamp")
  BY GoesTurns DEF Mark, MailInv, Phases, At
<1>5. MailTyped' /\ SeenIsSettled' /\ ForwardedOnce'
  BY <1>1, <1>2, <1>3 DEF MailInv, MailTyped, SeenIsSettled, Settled, ForwardedOnce
<1>6. ScannerFine(w)'
  <2>1. Shown(w, m)'
    BY <1>1, <1>2, <1>3, <1>4 DEF Shown, At, Settled, Turns, Attempting, Source
  <2> QED BY <1>1, <1>3, <1>4, <2>1 DEF ScannerFine, At, Turns, Source
<1>7. Recorded'
  BY <1>2, <1>3, <1>4, RecordedKept DEF Turns
<1> QED BY <1>1, <1>2, <1>4, <1>5, <1>6, <1>7, ScannerMails DEF Turns

LEMMA MarkSeenMails ==
  ASSUME MailInv, NEW w \in Workers, MarkSeen(w)
  PROVE  MailInv'
<1> DEFINE m == Source(w)
<1>1. /\ w \in Scanners /\ ~At(w, "idle") /\ scanning /\ m \in Messages /\ Settled(m)
  BY OutcomeFacts DEF MarkSeen, At, Shown
<1>2. UNCHANGED <<asks, mailbox, email, scanning, sent, unstamped>> /\ seen' = seen \cup {m}
  BY DEF MarkSeen, observed
<1>3. JobTyped' /\ Others(w) /\ ScannerFine(w)' /\ ~At(w, "stamp")
  BY <1>1, ContinueFine DEF MarkSeen, MailInv, At
<1>4. MailTyped' /\ SeenIsSettled' /\ ForwardedOnce'
  BY <1>1, <1>2 DEF MailInv, MailTyped, SeenIsSettled, Settled, ForwardedOnce
<1>5. Recorded'
  BY <1>2, <1>3, RecordedKept
<1> QED BY <1>1, <1>2, <1>3, <1>4, <1>5, ScannerMails

LEMMA RecordFailureMails ==
  ASSUME MailInv, NEW w \in Workers, RecordFailure(w)
  PROVE  MailInv'
<1> DEFINE m == Source(w)
<1>1. /\ w \in Scanners /\ ~At(w, "idle") /\ scanning /\ m \in Messages /\ m \notin seen
      /\ job[w] \in Job /\ job[w].noted = email[m].forwarded
  BY OutcomeFacts DEF RecordFailure, Shown
<1>2. UNCHANGED <<asks, mailbox, seen, scanning, sent, unstamped>>
  BY DEF RecordFailure, observed
<1>3. /\ email' \in [Messages -> [status : Statuses, stale : BOOLEAN, forwarded : BOOLEAN]]
      /\ email'[m].status \in {"IGNORED", "FAILED"}
      /\ \A x \in Messages : /\ email'[x].forwarded = email[x].forwarded
                             /\ x # m => email'[x] = email[x]
  BY <1>1 DEF RecordFailure, MailInv, MailTyped, Statuses
<1>4. MailTyped' /\ SeenIsSettled' /\ ForwardedOnce' /\ ~At(w, "stamp")
  BY <1>1, <1>2, <1>3
  DEF MailInv, MailTyped, SeenIsSettled, Settled, ForwardedOnce, RecordFailure, At
<1>5. CASE Continue(w)
  <2>1. JobTyped' /\ Others(w) /\ ScannerFine(w)'
    BY <1>1, <1>5, ContinueFine DEF MailInv
  <2>2. Recorded'
    BY <1>2, <1>3, <1>4, <2>1, RecordedKept
  <2> QED BY <1>1, <1>2, <1>4, <2>1, <2>2, ScannerMails
<1>6. CASE Goes(w, "forward") /\ ~job[w].noted /\ email'[m].status = "FAILED"
  <2>1. Turns(w, "forward", job[w].task, job[w].todo, job[w].missing, job[w].owned, job[w].did)
    BY <1>6, GoesTurns DEF MailInv, Phases
  <2>2. Shown(w, m)'
    BY <1>1, <1>2, <1>6, <2>1 DEF Shown, At, Turns, Attempting, Source
  <2>3. ScannerFine(w)'
    BY <1>1, <1>3, <1>6, <2>1, <2>2 DEF ScannerFine, At, Turns, Source
  <2>4. Recorded'
    BY <1>2, <1>3, <1>4, <2>1, RecordedKept DEF Turns
  <2> QED BY <1>1, <1>2, <1>4, <2>1, <2>3, <2>4, ScannerMails DEF Turns
<1>7. Continue(w) \/ (Goes(w, "forward") /\ ~job[w].noted /\ email'[m].status = "FAILED")
  BY <1>1 DEF RecordFailure, Told, MailInv, MailTyped
<1> QED BY <1>5, <1>6, <1>7

LEMMA ForwardMails ==
  ASSUME MailInv, NEW w \in Workers, Forward(w)
  PROVE  MailInv'
<1> DEFINE m == Source(w)
<1>1. /\ w \in Scanners /\ ~At(w, "idle") /\ scanning /\ m \in Messages /\ m \notin seen
      /\ job[w] \in Job /\ job[w].noted = email[m].forwarded /\ email[m].status = "FAILED"
      /\ ~job[w].noted /\ job[w].phase = "forward"
  BY OutcomeFacts DEF Forward, At, Shown
<1>2. UNCHANGED <<asks, mailbox, email, seen, scanning, unstamped>>
  BY DEF Forward, observed
<1>3. /\ sent' \in [Messages -> Nat] /\ sent'[m] = sent[m] + 1
      /\ \A x \in Messages \ {m} : sent'[x] = sent[x]
  BY <1>1 DEF Forward, MailInv, MailTyped
<1>4. Turns(w, "stamp", job[w].task, job[w].todo, job[w].missing, job[w].owned, job[w].did)
  BY GoesTurns DEF Forward, MailInv, Phases
<1>5. MailTyped' /\ SeenIsSettled'
  BY <1>2, <1>3 DEF MailInv, MailTyped, SeenIsSettled, Settled
<1>6. ScannerFine(w)'
  <2>1. Shown(w, m)'
    BY <1>1, <1>2, <1>4 DEF Shown, At, Turns, Attempting, Source
  <2> QED BY <1>1, <1>2, <1>4, <2>1 DEF ScannerFine, At, Turns, Source
<1>7. sent[m] <= unstamped[m]
  <2>1. \A v \in Scanners : ~At(v, "stamp")
    BY <1>1, OthersIdle DEF MailInv, At
  <2> QED BY <1>1, <2>1 DEF MailInv, Recorded
<1>8. ForwardedOnce'
  BY <1>1, <1>2, <1>3, <1>7 DEF MailInv, MailTyped, ForwardedOnce
<1>9. Recorded'
  <2>1. \A v \in Scanners : ~At(v, "stamp")
    BY <1>1, OthersIdle DEF MailInv, At
  <2> QED BY <1>1, <1>2, <1>3, <1>4, <2>1 DEF MailInv, Recorded, At, Source, Turns
<1> QED BY <1>1, <1>2, <1>4, <1>5, <1>6, <1>8, <1>9, ScannerMails DEF Turns

LEMMA MarkForwardedMails ==
  ASSUME MailInv, NEW w \in Workers, MarkForwarded(w)
  PROVE  MailInv'
<1> DEFINE m == Source(w)
<1>1. /\ w \in Scanners /\ ~At(w, "idle") /\ scanning /\ m \in Messages
      /\ email[m].status = "FAILED"
  BY OutcomeFacts DEF MarkForwarded, At, Shown
<1>2. UNCHANGED <<asks, mailbox, seen, scanning, sent, unstamped>>
  BY DEF MarkForwarded, observed
<1>3. /\ email' \in [Messages -> [status : Statuses, stale : BOOLEAN, forwarded : BOOLEAN]]
      /\ email'[m].forwarded
      /\ \A x \in Messages : /\ email'[x].status = email[x].status
                             /\ x # m => email'[x] = email[x]
  BY <1>1 DEF MarkForwarded, MailInv, MailTyped
<1>4. JobTyped' /\ Others(w) /\ ScannerFine(w)' /\ job'[w].phase = "next"
  BY <1>1, ContinueFine DEF MarkForwarded, MailInv
<1>5. MailTyped' /\ SeenIsSettled' /\ ForwardedOnce'
  BY <1>2, <1>3 DEF MailInv, MailTyped, SeenIsSettled, Settled, ForwardedOnce
<1>6. Recorded'
  <2>1. \A v \in Scanners \ {w} : ~At(v, "stamp")
    BY <1>1, OthersIdle DEF MailInv, At
  <2> QED BY <1>1, <1>2, <1>3, <2>1 DEF MailInv, Recorded, Source
<1> QED BY <1>1, <1>2, <1>4, <1>5, <1>6, ScannerMails

---------------------------------------------------------------------------
(* Faults, and what goes on beside the imports. *)

LEMMA OutcomeFailsMails ==
  ASSUME MailInv, NEW w \in Workers, OutcomeFails(w)
  PROVE  MailInv'
<1> DEFINE m == Source(w)
<1>1. /\ w \in Scanners /\ ~At(w, "idle") /\ scanning /\ m \in Messages /\ m \notin seen
      /\ job[w] \in Job /\ job[w].noted = email[m].forwarded
      /\ email[m].status = "PROCESSING" \/ Settled(m)
  BY OutcomeFacts DEF OutcomeFails, At, Shown, Attempting
<1>2. UNCHANGED <<asks, mailbox, email, seen, scanning, sent, unstamped>> /\ ~At(w, "stamp")
  BY DEF OutcomeFails, observed, At
<1>3. /\ Turns(w, "failed", job[w].task, <<>>, <<>>, job[w].owned, job[w].did)
      /\ job'[w].error = "other"
  BY BreaksTurns DEF OutcomeFails, MailInv, Phases, Errors
<1>4. MailTyped' /\ SeenIsSettled' /\ ForwardedOnce'
  BY <1>2 DEF MailInv, MailTyped, SeenIsSettled, Settled, ForwardedOnce
<1>5. ScannerFine(w)'
  <2>1. Shown(w, m)'
    BY <1>1, <1>2, <1>3 DEF Shown, At, Turns, Attempting, Settled, Source
  <2> QED BY <1>1, <1>2, <1>3, <2>1 DEF ScannerFine, At, Turns, Source
<1>6. Recorded'
  BY <1>2, <1>3, RecordedKept DEF Turns
<1> QED BY <1>1, <1>2, <1>3, <1>4, <1>5, <1>6, ScannerMails DEF Turns

LEMMA RecordFailsMails ==
  ASSUME MailInv, NEW w \in Workers, RecordFails(w)
  PROVE  MailInv'
<1>1. w \in Scanners /\ ~At(w, "idle") /\ ~At(w, "stamp")
  BY DEF RecordFails, At
<1>2. /\ UNCHANGED <<asks, mailbox, email, seen, sent, unstamped>> /\ scanning' = FALSE
      /\ job' = [job EXCEPT ![w] = Idle]
  BY DEF RecordFails, observed
<1>3. JobTyped' /\ Others(w) /\ job'[w] = Idle
  BY <1>2, IdleJob, Moves DEF MailInv
<1>4. MailTyped' /\ SeenIsSettled' /\ ForwardedOnce'
  BY <1>2 DEF MailInv, MailTyped, SeenIsSettled, Settled, ForwardedOnce
<1>5. ScannerFine(w)' /\ At(w, "idle")'
  BY <1>3 DEF ScannerFine, At, Working, Resting, Idle
<1>6. Recorded'
  BY <1>1, <1>2, <1>3, RecordedKept
<1> QED BY <1>1, <1>2, <1>3, <1>4, <1>5, <1>6, ScannerMails

LEMMA ForwardFailsMails ==
  ASSUME MailInv, NEW w \in Workers, ForwardFails(w)
  PROVE  MailInv'
<1> DEFINE m == Source(w)
<1>1. /\ w \in Scanners /\ ~At(w, "idle") /\ scanning /\ m \in Messages
      /\ ~email[m].forwarded /\ email[m].status = "FAILED"
  BY OutcomeFacts DEF ForwardFails, Shown
<1>2. UNCHANGED <<asks, mailbox, email, seen, scanning, sent>>
  BY DEF ForwardFails
<1>3. JobTyped' /\ Others(w) /\ ScannerFine(w)' /\ job'[w].phase = "next"
  BY <1>1, ContinueFine DEF ForwardFails, MailInv
<1>4. /\ unstamped' \in [Messages -> Nat]
      /\ At(w, "stamp") => unstamped'[m] = unstamped[m] + 1
      /\ \A x \in Messages : unstamped'[x] >= unstamped[x]
  BY <1>1 DEF ForwardFails, MailInv, MailTyped
<1>5. MailTyped' /\ SeenIsSettled'
  BY <1>2, <1>4 DEF MailInv, MailTyped, SeenIsSettled, Settled
<1>6. ForwardedOnce'
  BY <1>2, <1>4 DEF MailInv, MailTyped, ForwardedOnce
<1>7. Recorded'
  <2>1. \A v \in Scanners \ {w} : ~At(v, "stamp")
    BY <1>1, OthersIdle DEF MailInv, At
  <2> SUFFICES ASSUME NEW x \in Messages
               PROVE  /\ email[x].status = "NONE" => ~email[x].forwarded
                      /\ ~email[x].forwarded => sent[x] <= unstamped'[x]
    BY <1>2 DEF Recorded
  <2>2. CASE sent[x] <= unstamped[x]
    BY <1>4, <2>2 DEF MailInv, MailTyped, Recorded
  <2>3. CASE x = m /\ At(w, "stamp")
    BY <1>1, <1>4, <2>3 DEF MailInv, MailTyped, ForwardedOnce, Recorded
  <2> QED BY <2>1, <2>2, <2>3 DEF MailInv, Recorded
<1> QED BY <1>1, <1>2, <1>3, <1>5, <1>6, <1>7, ScannerMails

LEMMA CrashMails ==
  ASSUME MailInv, Crash
  PROVE  MailInv'
<1>1. UNCHANGED <<asks, mailbox, email, seen, sent>> /\ scanning' = FALSE
  BY DEF Crash
<1>2. /\ JobTyped'
      /\ \A w \in Workers : job'[w] \in {Idle, Ended}
      /\ \A w \in Scanners : job'[w] = Idle
  BY IdleJob, SourcesAreApart DEF Crash, JobTyped, Workers, Sources
<1>3. \A w \in Workers : ~Working(w)' /\ job'[w].phase \in {"idle", "done"}
  BY <1>2 DEF Working, Resting, Idle, Ended
<1>4. \A w \in Scanners : job'[w].phase = "idle"
  BY <1>2 DEF Idle
<1>5. /\ unstamped' \in [Messages -> Nat]
      /\ \A m \in Messages :
           /\ unstamped'[m] >= unstamped[m]
           /\ (\E w \in Scanners : At(w, "stamp") /\ Source(w) = m) =>
                 unstamped'[m] = unstamped[m] + 1
  BY DEF Crash, MailInv, MailTyped
<1>6. MailTyped' /\ SeenIsSettled'
  BY <1>1, <1>5 DEF MailInv, MailTyped, SeenIsSettled, Settled
<1>7. ForwardedOnce'
  <2> SUFFICES ASSUME NEW m \in Messages
               PROVE  sent[m] <= 1 + unstamped'[m]
    BY <1>1 DEF ForwardedOnce
  <2>1. sent[m] \in Nat /\ unstamped[m] \in Nat /\ unstamped'[m] \in Nat
    BY <1>5 DEF MailInv, MailTyped
  <2>2. sent[m] <= 1 + unstamped[m] /\ unstamped'[m] >= unstamped[m]
    BY <1>5 DEF MailInv, ForwardedOnce
  <2> QED BY <2>1, <2>2
<1>8. OneScan' /\ Placed' /\ AllShown' /\ Noted'
  BY <1>3, <1>4 DEF OneScan, Placed, AllShown, Noted, At, Workers
<1>9. Recorded'
  BY <1>1, <1>5 DEF MailInv, MailTyped, Recorded, ForwardedOnce
<1> QED BY <1>1, <1>2, <1>6, <1>8, <1>9, <1>7 DEF MailInv

LEMMA ScanMails ==
  ASSUME MailInv, NEW w \in Scanners, Scan(w)
  PROVE  MailInv'
<1> DEFINE r == [Idle EXCEPT !.phase = "next", !.queue = mailbox]
<1>1. UNCHANGED <<asks, mailbox, email, seen, sent, unstamped>> /\ scanning' = TRUE
  BY DEF Scan, observed
<1>2. r \in Job
  BY IdleJob DEF MailInv, MailTyped, Job, Phases
<1>3. job' = [job EXCEPT ![w] = r]
  BY DEF Scan
<1>4. JobTyped' /\ Others(w) /\ job'[w] = r
  BY <1>2, <1>3, Moves DEF MailInv, Workers
<1>5. job'[w].phase = "next"
  BY <1>4 DEF Idle
<1>6. \A v \in Scanners \ {w} : job[v].phase = "idle" /\ job'[v] = job[v]
  BY <1>4 DEF Scan, ScanAdmitted, MailInv, OneScan, At, Others, Workers
<1>7. \A v \in Uploads : job'[v] = job[v]
  BY <1>4, SourcesAreApart DEF Others, Workers
<1>8. MailTyped' /\ SeenIsSettled' /\ ForwardedOnce'
  BY <1>1 DEF MailInv, MailTyped, SeenIsSettled, Settled, ForwardedOnce
<1>9. OneScan' /\ Placed' /\ AllShown' /\ Noted'
  BY <1>1, <1>5, <1>6, <1>7
  DEF MailInv, OneScan, Placed, AllShown, Noted, At, Working, Resting, Source
<1>10. Recorded'
  BY <1>1, <1>4, RecordedKept DEF Scan, At, Workers
<1> QED BY <1>1, <1>4, <1>8, <1>9, <1>10 DEF MailInv

(* An upload's own step: the scanners and their mails are as they were.    *)
LEMMA UploadsMails ==
  ASSUME MailInv, NEW u \in Uploads, Others(u), JobTyped',
         UNCHANGED <<asks, mailbox, email, seen, scanning, sent, unstamped>>,
         job'[u].phase \in {"fetch", "done"}, job'[u].phase = "fetch" => job'[u].source = u
  PROVE  MailInv'
<1>1. \A v \in Scanners : job'[v] = job[v]
  BY SourcesAreApart DEF Others, Workers
<1>2. MailTyped' /\ SeenIsSettled' /\ ForwardedOnce'
  BY DEF MailInv, MailTyped, SeenIsSettled, Settled, ForwardedOnce
<1>3. OneScan'
  BY <1>1 DEF MailInv, OneScan, At
<1>4. Placed'
  BY <1>1 DEF MailInv, Placed, At, Working, Resting, Source, Others, Workers
<1>5. AllShown' /\ Noted'
  BY <1>1 DEF MailInv, AllShown, Shown, Noted, At, Settled, Working, Source
<1>6. Recorded'
  BY <1>1 DEF MailInv, Recorded, At, Source
<1> QED BY <1>2, <1>3, <1>4, <1>5, <1>6 DEF MailInv

LEMMA UploadMails ==
  ASSUME MailInv, NEW u \in Uploads, Upload(u) \/ ReportUpload(u)
  PROVE  MailInv'
<1>1. UNCHANGED <<asks, mailbox, email, seen, scanning, sent, unstamped>>
  BY DEF Upload, ReportUpload, observed
<1>2. CASE Upload(u)
  <2> DEFINE r == [Idle EXCEPT !.phase = "fetch", !.source = u, !.task = Task(u)]
  <2>1. Task(u) \in Actions /\ u \in Sources /\ u \in Workers
    BY SourceFacts DEF MailInv, Sources, Workers
  <2>2. r \in Job
    BY <2>1, IdleJob DEF Job, Phases
  <2>3. job' = [job EXCEPT ![u] = r]
    BY <1>2 DEF Upload
  <2>4. JobTyped' /\ Others(u) /\ job'[u] = r
    BY <2>1, <2>2, <2>3, Moves DEF MailInv
  <2>5. job'[u].phase = "fetch" /\ job'[u].source = u
    BY <2>4 DEF Idle
  <2> QED BY <1>1, <2>4, <2>5, UploadsMails
<1>3. CASE ReportUpload(u)
  <2>1. job' = [job EXCEPT ![u] = Ended]
    BY <1>3 DEF ReportUpload
  <2>2. JobTyped' /\ Others(u) /\ job'[u] = Ended
    BY <2>1, IdleJob, Moves DEF MailInv, Workers
  <2>3. job'[u].phase = "done"
    BY <2>2 DEF Ended, Idle
  <2> QED BY <1>1, <2>2, <2>3, UploadsMails
<1> QED BY <1>2, <1>3

LEMMA ArriveMails ==
  ASSUME MailInv, NEW m \in Messages, Arrive(m)
  PROVE  MailInv'
<1>1. UNCHANGED <<asks, email, seen, scanning, job, sent, unstamped>>
  BY DEF Arrive, observed
<1>2. mailbox' \subseteq Messages
  BY DEF Arrive, MailInv, MailTyped
<1> QED
  BY <1>1, <1>2 DEF MailInv, JobTyped, MailTyped, OneScan, Placed, AllShown, Shown, Noted,
     Recorded, SeenIsSettled, Settled, ForwardedOnce, At, Working, Source

LEMMA GoesStaleMails ==
  ASSUME MailInv, NEW m \in Messages, GoesStale(m)
  PROVE  MailInv'
<1>1. UNCHANGED <<asks, mailbox, seen, scanning, job, sent, unstamped>>
  BY DEF GoesStale, observed
<1>2. /\ email' \in [Messages -> [status : Statuses, stale : BOOLEAN, forwarded : BOOLEAN]]
      /\ \A x \in Messages : /\ email'[x].forwarded = email[x].forwarded
                             /\ email'[x].status = email[x].status
  BY DEF GoesStale, MailInv, MailTyped
<1>3. MailTyped' /\ SeenIsSettled' /\ ForwardedOnce' /\ OneScan' /\ Placed' /\ JobTyped'
  BY <1>1, <1>2 DEF MailInv, JobTyped, MailTyped, OneScan, Placed,
     SeenIsSettled, Settled, ForwardedOnce, At, Working, Source
<1>4. AllShown' /\ Noted' /\ Recorded'
  BY <1>1, <1>2 DEF MailInv, Placed, AllShown, Shown, Noted, Recorded, Settled, At, Working, Source
<1> QED BY <1>1, <1>3, <1>4 DEF MailInv

LEMMA SameMails ==
  ASSUME MailInv, UNCHANGED <<asks, mailbox, email, seen, scanning, job, sent, unstamped>>
  PROVE  MailInv'
BY DEF MailInv, JobTyped, MailTyped, OneScan, Placed, AllShown, Shown, Noted,
   Recorded, SeenIsSettled, Settled, ForwardedOnce, At, Working, Source

LEMMA MailStep ==
  ASSUME MailInv, [Next]_vars
  PROVE  MailInv'
<1>1. ASSUME NEW m \in Messages, Arrive(m) \/ GoesStale(m)
      PROVE  MailInv'
  BY <1>1, ArriveMails, GoesStaleMails
<1>2. ASSUME NEW w \in Scanners, Scan(w)
      PROVE  MailInv'
  BY <1>2, ScanMails
<1>3. ASSUME NEW u \in Uploads, Upload(u)
      PROVE  MailInv'
  BY <1>3, UploadMails
<1>4. ASSUME NEW w \in Workers, Works(w) \/ Fails(w)
      PROVE  MailInv'
  <2>1. CASE Takes(w)
    BY <2>1, SkipMails, IgnoreMails, StartProcessingMails, ReopenMails DEF Takes
  <2>2. CASE Imports(w)
    BY <2>2, ImportsSteady, SteadyMails DEF MailInv
  <2>3. CASE Settles(w)
    BY <2>3, MarkMails, MarkSeenMails, RecordFailureMails, UploadMails, ForwardMails,
       MarkForwardedMails DEF Settles, ReportUpload
  <2>4. CASE w \in Scanners /\ EndScan(w)
    BY <2>4, EndScanMails
  <2>5. CASE Fails(w)
    <3>1. CASE DownloadFails(w) \/ LookupFails(w) \/ TransactionFails(w)
      BY <3>1, FaultsSteady, SteadyMails DEF MailInv
    <3> QED BY <2>5, <3>1, OutcomeFailsMails, RecordFailsMails, ForwardFailsMails DEF Fails
  <2> QED BY <1>4, <2>1, <2>2, <2>3, <2>4, <2>5 DEF Works
<1>5. ASSUME NEW t \in Transports, OperatorCloses(t) \/ OperatorReopens(t)
      PROVE  MailInv'
  BY <1>5, SameMails DEF OperatorCloses, OperatorReopens, observed
<1>6. CASE UNCHANGED vars
  BY <1>6, SameMails DEF vars
<1> QED BY <1>1, <1>2, <1>3, <1>4, <1>5, <1>6, CrashMails DEF Next

LEMMA MailInit ==
  ASSUME Init
  PROVE  MailInv
<1>1. \A w \in Workers : job[w] = Idle /\ job[w].phase = "idle" /\ ~Working(w)
  BY DEF Init, Idle, Working, Resting
<1>2. JobTyped
  BY IdleJob DEF Init, JobTyped
<1>3. MailTyped
  BY DEF Init, MailTyped, NoEmail, Statuses
<1>4. OneScan /\ Placed /\ AllShown /\ Noted
  BY <1>1 DEF OneScan, Placed, AllShown, Noted, At, Workers
<1>5. SeenIsSettled /\ Recorded /\ ForwardedOnce
  BY DEF Init, NoEmail, SeenIsSettled, Recorded, ForwardedOnce
<1> QED BY <1>2, <1>3, <1>4, <1>5 DEF MailInv, Init

---------------------------------------------------------------------------
(* How often a list names a transport. *)

Where(q, t) == {i \in 1..Len(q) : q[i] = t}

LEMMA WhereFinite ==
  ASSUME NEW q \in Seq(Transports), NEW t
  PROVE  /\ IsFiniteSet(Where(q, t)) /\ Mentions(q, t) \in Nat
         /\ Mentions(q, t) = Cardinality(Where(q, t))
<1>1. Len(q) \in Nat /\ 1 \in Int /\ Len(q) \in Int
  OBVIOUS
<1>a. IsFiniteSet(1..Len(q)) /\ Where(q, t) \subseteq 1..Len(q)
  BY <1>1, FS_Interval DEF Where
<1>2. IsFiniteSet(Where(q, t))
  BY <1>a, FS_Subset
<1> QED BY <1>2, FS_CardinalityType DEF Mentions, Where

LEMMA MentionsNone == \A t : Mentions(<<>>, t) = 0
<1> SUFFICES ASSUME NEW t PROVE Mentions(<<>>, t) = 0
  OBVIOUS
<1>1. {i \in 1..Len(<<>>) : <<>>[i] = t} = {}
  OBVIOUS
<1> QED BY <1>1, FS_EmptySet DEF Mentions

LEMMA MentionsTail ==
  ASSUME NEW q \in Seq(Transports), q # <<>>, NEW t
  PROVE  Mentions(q, t) = Mentions(Tail(q), t) + (IF Head(q) = t THEN 1 ELSE 0)
<1> DEFINE rest == Where(Tail(q), t)
           moved == {i \in 2..Len(q) : q[i] = t}
           f == [i \in rest |-> i + 1]
<1>1. /\ Tail(q) \in Seq(Transports) /\ Len(q) \in Nat /\ Len(q) > 0
      /\ Len(Tail(q)) = Len(q) - 1
      /\ \A i \in 1..Len(Tail(q)) : Tail(q)[i] = q[i + 1]
      /\ Head(q) = q[1]
  BY HeadTailProperties, LenProperties
<1>2. IsFiniteSet(rest) /\ Cardinality(rest) = Mentions(Tail(q), t) /\ Cardinality(rest) \in Nat
  BY <1>1, WhereFinite
<1>3. f \in Bijection(rest, moved)
  <2>1. f \in [rest -> moved] /\ \A a, b \in rest : f[a] = f[b] => a = b
    BY <1>1 DEF Where
  <2>2. \A j \in moved : j - 1 \in rest /\ f[j - 1] = j
    BY <1>1 DEF Where
  <2>3. f \in Injection(rest, moved)
    BY <2>1 DEF Injection, IsInjective
  <2>4. f \in Surjection(rest, moved)
    BY <2>1, <2>2 DEF Surjection
  <2> QED BY <2>3, <2>4 DEF Bijection
<1>4. IsFiniteSet(moved) /\ Cardinality(moved) = Cardinality(rest)
  BY <1>2, <1>3, FS_Bijection DEF ExistsBijection
<1>5. CASE Head(q) = t
  <2>1. Where(q, t) = moved \cup {1} /\ 1 \notin moved
    BY <1>1, <1>5 DEF Where
  <2>2. Cardinality(Where(q, t)) = Cardinality(moved) + 1
    BY <1>4, <2>1, FS_AddElement
  <2> QED BY <1>2, <1>4, <1>5, <2>2, WhereFinite
<1>6. CASE Head(q) # t
  <2>1. Where(q, t) = moved
    BY <1>1, <1>6 DEF Where
  <2>2. Mentions(q, t) = Cardinality(moved)
    BY <2>1, WhereFinite
  <2> QED BY <1>2, <1>4, <1>6, <2>2
<1> QED BY <1>5, <1>6

LEMMA MentionsAppend ==
  ASSUME NEW q \in Seq(Transports), NEW x \in Transports, NEW t
  PROVE  Mentions(Append(q, x), t) = Mentions(q, t) + (IF x = t THEN 1 ELSE 0)
<1>1. /\ Append(q, x) \in Seq(Transports) /\ Len(q) \in Nat
      /\ Len(Append(q, x)) = Len(q) + 1
      /\ \A i \in 1..Len(q) : Append(q, x)[i] = q[i]
      /\ Append(q, x)[Len(q) + 1] = x
  BY AppendProperties, LenProperties
<1>2. /\ IsFiniteSet(Where(q, t)) /\ Mentions(q, t) \in Nat
      /\ Mentions(q, t) = Cardinality(Where(q, t))
      /\ Mentions(Append(q, x), t) = Cardinality(Where(Append(q, x), t))
  BY <1>1, WhereFinite
<1>3. CASE x = t
  <2>1. Where(Append(q, x), t) = Where(q, t) \cup {Len(q) + 1} /\ Len(q) + 1 \notin Where(q, t)
    BY <1>1, <1>3 DEF Where
  <2> QED BY ZenonT(40), <1>2, <1>3, <2>1, FS_AddElement
<1>4. CASE x # t
  <2>1. Where(Append(q, x), t) = Where(q, t)
    BY <1>1, <1>4 DEF Where
  <2> QED BY <1>2, <1>4, <2>1
<1> QED BY <1>3, <1>4

LEMMA InToSet ==
  ASSUME NEW q \in Seq(Transports), NEW x
  PROVE  x \in ToSet(q) <=> \E i \in 1..Len(q) : q[i] = x
BY DEF ToSet

(* What is left to do is what is next and what comes after it. *)
LEMMA HeadOfTodo ==
  ASSUME NEW q \in Seq(Transports), q # <<>>
  PROVE  /\ Head(q) \in Transports /\ Tail(q) \in Seq(Transports)
         /\ ToSet(q) = {Head(q)} \cup ToSet(Tail(q))
<1>1. /\ Tail(q) \in Seq(Transports) /\ Head(q) \in Transports /\ Len(q) \in Nat
      /\ Len(q) > 0 /\ Len(Tail(q)) = Len(q) - 1
      /\ \A i \in 1..Len(Tail(q)) : Tail(q)[i] = q[i + 1]
      /\ Head(q) = q[1]
  BY HeadTailProperties, LenProperties
<1>2. ASSUME NEW x \in ToSet(q)  PROVE x = Head(q) \/ x \in ToSet(Tail(q))
  <2>1. PICK i \in 1..Len(q) : q[i] = x
    BY InToSet
  <2>2. CASE i = 1
    BY <1>1, <2>1, <2>2
  <2>3. CASE i # 1
    <3>1. i - 1 \in 1..Len(Tail(q)) /\ Tail(q)[i - 1] = x
      BY <1>1, <2>1, <2>3
    <3> QED BY <1>1, <3>1, InToSet
  <2> QED BY <2>2, <2>3
<1>3. ASSUME NEW x \in ToSet(Tail(q))  PROVE x \in ToSet(q)
  <2>1. PICK i \in 1..Len(Tail(q)) : Tail(q)[i] = x
    BY <1>1, InToSet
  <2>2. i + 1 \in 1..Len(q) /\ q[i + 1] = x
    BY <1>1, <2>1
  <2> QED BY <2>2, InToSet
<1>4. Head(q) \in ToSet(q)
  <2>1. 1 \in 1..Len(q)
    BY <1>1
  <2> QED BY <1>1, <2>1, InToSet
<1> QED BY <1>1, <1>2, <1>3, <1>4

LEMMA AppendedSet ==
  ASSUME NEW q \in Seq(Transports), NEW x \in Transports
  PROVE  ToSet(Append(q, x)) = ToSet(q) \cup {x}
<1>1. /\ Append(q, x) \in Seq(Transports) /\ Len(q) \in Nat
      /\ Len(Append(q, x)) = Len(q) + 1
      /\ \A i \in 1..Len(q) : Append(q, x)[i] = q[i]
      /\ Append(q, x)[Len(q) + 1] = x
  BY AppendProperties, LenProperties
<1>2. ASSUME NEW y \in ToSet(Append(q, x))  PROVE y = x \/ y \in ToSet(q)
  <2>1. PICK i \in 1..Len(Append(q, x)) : Append(q, x)[i] = y
    BY <1>1, InToSet
  <2>2. i = Len(q) + 1 \/ (i \in 1..Len(q) /\ q[i] = y)
    BY <1>1, <2>1
  <2> QED BY <1>1, <2>1, <2>2, InToSet
<1>3. ASSUME NEW y \in ToSet(q)  PROVE y \in ToSet(Append(q, x))
  <2>1. PICK i \in 1..Len(q) : q[i] = y
    BY InToSet
  <2>2. i \in 1..Len(Append(q, x)) /\ Append(q, x)[i] = y
    BY <1>1, <2>1
  <2> QED BY <1>1, <2>2, InToSet
<1>4. x \in ToSet(Append(q, x))
  <2>1. Len(q) + 1 \in 1..Len(Append(q, x))
    BY <1>1
  <2> QED BY <1>1, <2>1, InToSet
<1> QED BY <1>2, <1>3, <1>4

LEMMA EmptyToSet == ToSet(<<>>) = {}
BY DEF ToSet

LEMMA NamedTransports ==
  ASSUME NEW q \in Seq(Transports)
  PROVE  ToSet(q) \subseteq Transports
BY DEF ToSet

---------------------------------------------------------------------------
(* What cites a document, and how a step changes it. *)

LEMMA CitesSame ==
  ASSUME UNCHANGED <<history, confirmed>>,
         \A t \in Transports : trips'[t].from = trips[t].from
  PROVE  \A s \in Sources : Cites(s)' = Cites(s)
BY DEF Cites

LEMMA CitesRecorded ==
  ASSUME TripsTyped, NEW t \in Transports, NEW s \in Sources, Records(t, s),
         UNCHANGED confirmed, \A u \in Transports : trips'[u].from = trips[u].from
  PROVE  /\ history' \in [Transports -> [Sources -> Nat]]
         /\ history'[t][s] = history[t][s] + 1
         /\ \A u \in Transports, r \in Sources :
              u # t \/ r # s => history'[u][r] = history[u][r]
         /\ Cites(s)' = Cites(s) \cup {t}
         /\ \A r \in Sources \ {s} : Cites(r)' = Cites(r)
<1>1. /\ history' \in [Transports -> [Sources -> Nat]]
      /\ history'[t][s] = history[t][s] + 1
      /\ \A u \in Transports, r \in Sources :
           u # t \/ r # s => history'[u][r] = history[u][r]
  BY DEF TripsTyped, Records
<1>2. history'[t][s] > 0
  BY <1>1 DEF TripsTyped
<1>3. \A r \in Sources \ {s} : \A u \in Transports : history'[u][r] = history[u][r]
  BY <1>1
<1>4. \A r \in Sources \ {s} : Cites(r)' = Cites(r)
  BY <1>3 DEF Cites
<1>5. \A u \in Transports \ {t} : history'[u][s] = history[u][s]
  BY <1>1
<1>6. Cites(s)' = Cites(s) \cup {t}
  BY <1>2, <1>5 DEF Cites
<1> QED BY <1>1, <1>4, <1>6

LEMMA CitesCreated ==
  ASSUME TripsTyped, Cited, NEW s \in Sources, NEW ts \in SUBSET Transports,
         \A t \in ts : ~Held(t), trips' = CreatedBy(s, ts), UNCHANGED <<history, confirmed>>
  PROVE  /\ TripsTyped'
         /\ \A t \in Transports : ~Held(t)' => trips'[t].from = NoSource
         /\ Cites(s)' = Cites(s) \cup ts
         /\ \A r \in Sources \ {s} : Cites(r)' = Cites(r)
<1>1. /\ trips' \in [Transports -> [status : TripStatuses, from : Sources \cup {NoSource}]]
      /\ \A t \in ts : trips'[t].status = "OPEN" /\ trips'[t].from = s
      /\ \A t \in Transports \ ts : trips'[t] = trips[t]
  BY DEF CreatedBy, TripsTyped, TripStatuses
<1>2. TripsTyped'
  BY <1>1 DEF TripsTyped
<1>3. \A t \in ts : trips[t].from = NoSource /\ NoSource \notin Sources
  BY SourcesAreApart DEF Cited, Sources
<1>4. \A t \in Transports : ~Held(t)' => trips'[t].from = NoSource
  BY <1>1 DEF Cited, Held
<1>5. \A r \in Sources \ {s} : Cites(r)' = Cites(r)
  <2> SUFFICES ASSUME NEW r \in Sources \ {s} PROVE Cites(r)' = Cites(r)
    OBVIOUS
  <2>1. \A t \in Transports : trips'[t].from = r <=> trips[t].from = r
    BY <1>1, <1>3
  <2> QED BY <2>1 DEF Cites
<1>6. Cites(s)' = Cites(s) \cup ts
  BY <1>1, <1>3 DEF Cites
<1> QED BY <1>2, <1>4, <1>5, <1>6

LEMMA CitesConfirmed ==
  ASSUME TripsTyped, NEW s \in Sources, NEW t \in Transports, NEW n,
         UNCHANGED <<trips, history>>,
         \/ confirmed' = confirmed
         \/ confirmed' = confirmed \cup {[trip |-> t, number |-> n, source |-> s]}
  PROVE  /\ TripsTyped'
         /\ Cites(s) \subseteq Cites(s)'
         /\ \A r \in Sources \ {s} : Cites(r)' = Cites(r)
<1>1. TripsTyped'
  BY DEF TripsTyped
<1>2. Cites(s) \subseteq Cites(s)'
  BY DEF Cites
<1>3. \A r \in Sources \ {s} : Cites(r)' = Cites(r)
  BY DEF Cites
<1> QED BY <1>1, <1>2, <1>3

(* A document nothing cites has reached no transport. *)
LEMMA UncitedUnrecorded ==
  ASSUME TripsTyped, NEW s \in Sources, Cites(s) = {}
  PROVE  \A t \in Transports : history[t][s] = 0
BY DEF TripsTyped, Cites

---------------------------------------------------------------------------
(* The document side. *)

(* Of the documents only s is touched. *)
OwnOnly(s) == \A r \in Sources \ {s} :
  /\ Cites(r)' = Cites(r)
  /\ r \in rows' <=> r \in rows
  /\ \A t \in Transports : history'[t][r] = history[t][r]

LEMMA CourseKept ==
  ASSUME NEW v \in Workers, job'[v] = job[v], asks' = asks, OnCourse(v),
         NEW r \in Sources, Source(v) = r, Cites(r)' = Cites(r), r \in rows' <=> r \in rows,
         \A t \in Transports : history'[t][r] = history[t][r]
  PROVE  OnCourse(v)'
<1> SUFFICES ASSUME Working(v)'
             PROVE  /\ (job[v].phase \in Committed => r \in rows')
                    /\ Counted(v)' /\ TaskFits(v)' /\ Happened(v)'
  BY DEF OnCourse, Source
<1>1. /\ job[v].phase \in Committed => r \in rows
      /\ Counted(v) /\ TaskFits(v) /\ Happened(v)
  BY DEF OnCourse, Working
<1>2. \A t : Pending(v, t)' = Pending(v, t)
  BY DEF Pending, At
<1>3. Names(r)' = Names(r) /\ Task(r)' = Task(r) /\ Paper(r)' = Paper(r) /\ Source(v)' = r
  BY DEF Names, Task, Paper, Source
<1>4. Counted(v)'
  BY <1>1, <1>2, <1>3 DEF Counted, Source, Names, Paper, Mentions
<1>5. TaskFits(v)'
  BY <1>1 DEF TaskFits, Source, Task, Paper, InHand, At
<1>6. CarriedOut(r)' <=> CarriedOut(r)
  BY <1>3 DEF CarriedOut
<1>7. Happened(v)'
  BY <1>1, <1>3, <1>6 DEF Happened, Source, At, AppliedNothing
<1> QED BY <1>1, <1>4, <1>5, <1>7

(* A worker's step: the documents of the others and their imports stay as  *)
(* they are.                                                               *)
LEMMA DocStep ==
  ASSUME DocInv, asks \in Asked, OneScan, Placed, NEW w \in Workers, Others(w), asks' = asks,
         NEW s, OwnOnly(s), s = NoSource \/ (Working(w) /\ Source(w) = s),
         TripsTyped', FilesTyped', faults' \in 0..MaxFaults, Cited', Kept', Within',
         ConfirmedOnce', OnCourse(w)'
  PROVE  DocInv'
<1>1. ASSUME NEW v \in Workers \ {w}  PROVE OnCourse(v)'
  <2>1. job'[v] = job[v] /\ OnCourse(v)
    BY DEF Others, DocInv, AllOnCourse
  <2>2. CASE Working(v)
    <3>1. Source(v) \in Sources /\ Source(v) # s
      BY <2>2, SourcesApart, SourcesAreApart DEF Placed, Sources, Workers
    <3> QED BY <2>1, <3>1, CourseKept DEF OwnOnly
  <2>3. CASE ~Working(v)
    BY <2>1, <2>3 DEF OnCourse, Working
  <2> QED BY <2>2, <2>3
<1>2. AllOnCourse'
  BY <1>1 DEF AllOnCourse
<1> QED BY <1>2 DEF DocInv

---------------------------------------------------------------------------
(* The files. *)

(* What an import in hand may rely on, the contents spelled out. *)
LEMMA KeptParts ==
  Kept <=>
    /\ \A r \in rows : asks[r].paper.bytes \notin overlapped => asks[r].paper.bytes \in files
    /\ \A v \in Workers : InHand(v) /\ asks[job[v].source].paper.bytes \notin overlapped =>
         /\ asks[job[v].source].paper.bytes \in files
         /\ \A u \in Workers :
              InHand(u) /\ asks[job[u].source].paper.bytes = asks[job[v].source].paper.bytes => u = v
         /\ ~job[v].owned /\ job[v].phase # "lookup" =>
              \A r \in rows : asks[r].paper.bytes = asks[job[v].source].paper.bytes =>
                                r = job[v].source /\ job[v].phase \in Committed
BY DEF Kept, KeptFor, SameBytes, Bytes, Paper, Source, At

(* Nothing on disk, no row and no import in hand changes; an import that   *)
(* stays in hand keeps what it knows.                                      *)
StaysInHand(w) ==
  InHand(w)' => /\ InHand(w) /\ ~At(w, "lookup") /\ ~At(w, "lookup")'
                /\ job'[w].source = job[w].source /\ job'[w].owned = job[w].owned
                /\ job[w].phase \in Committed => job'[w].phase \in Committed

LEMMA KeptQuiet ==
  ASSUME Kept, NEW w \in Workers, Others(w), UNCHANGED <<asks, files, rows, overlapped>>,
         StaysInHand(w)
  PROVE  Kept'
<1>1. \A v \in Workers : InHand(v)' =>
        /\ InHand(v) /\ job'[v].source = job[v].source /\ job'[v].owned = job[v].owned
        /\ job'[v].phase # "lookup" => job[v].phase # "lookup"
        /\ job[v].phase \in Committed => job'[v].phase \in Committed
  BY DEF Others, StaysInHand, InHand, At
<1> QED BY <1>1, KeptParts DEF Kept, KeptFor, SameBytes, Bytes, Paper, Source, At

(* A document gets its row: nobody else has its bytes in hand. *)
LEMMA KeptRow ==
  ASSUME Kept, NEW w \in Workers, Others(w), UNCHANGED <<asks, files, overlapped>>,
         InHand(w), rows' = rows \cup {Source(w)},
         InHand(w)' => /\ job'[w].source = job[w].source
                       /\ job'[w].owned = job[w].owned
                       /\ ~At(w, "lookup") /\ job'[w].phase \in Committed
  PROVE  Kept'
<1>1. \A v \in Workers : InHand(v)' =>
        /\ InHand(v) /\ job'[v].source = job[v].source /\ job'[v].owned = job[v].owned
        /\ job'[v].phase # "lookup" => job[v].phase # "lookup"
        /\ job[v].phase \in Committed => job'[v].phase \in Committed
        /\ v = w => job'[v].phase \in Committed
  BY DEF Others, InHand, At
<1>2. /\ \A r \in rows : asks[r].paper.bytes \notin overlapped => asks[r].paper.bytes \in files
      /\ \A v \in Workers : InHand(v) /\ asks[job[v].source].paper.bytes \notin overlapped =>
         /\ asks[job[v].source].paper.bytes \in files
         /\ \A u \in Workers :
              InHand(u) /\ asks[job[u].source].paper.bytes = asks[job[v].source].paper.bytes => u = v
         /\ ~job[v].owned /\ job[v].phase # "lookup" =>
              \A r \in rows : asks[r].paper.bytes = asks[job[v].source].paper.bytes =>
                                r = job[v].source /\ job[v].phase \in Committed
  BY KeptParts
<1>3. \A r \in rows' : asks'[r].paper.bytes \notin overlapped' => asks'[r].paper.bytes \in files'
  BY <1>2 DEF Source
<1>4. ASSUME NEW v \in Workers, InHand(v)', asks'[job'[v].source].paper.bytes \notin overlapped'
      PROVE  /\ asks'[job'[v].source].paper.bytes \in files'
             /\ \A u \in Workers : InHand(u)' /\
                  asks'[job'[u].source].paper.bytes = asks'[job'[v].source].paper.bytes => u = v
             /\ ~job'[v].owned /\ job'[v].phase # "lookup" =>
              \A r \in rows' : asks'[r].paper.bytes = asks'[job'[v].source].paper.bytes =>
                                r = job'[v].source /\ job'[v].phase \in Committed
  <2>1. v = w => job'[v].phase \in Committed
    BY <1>1, <1>4
  <2>2. asks[job[w].source].paper.bytes = asks[job[v].source].paper.bytes => w = v
    BY <1>1, <1>2, <1>4
  <2> QED BY <1>1, <1>2, <1>4, <2>1, <2>2 DEF Source
<1> QED BY <1>3, <1>4 DEF Kept, KeptFor, SameBytes, Bytes, Paper, Source, At

LEMMA NobodyInHand ==
  ASSUME Kept, UNCHANGED <<asks, files, rows, overlapped>>, \A v \in Workers : ~InHand(v)'
  PROVE  Kept'
BY DEF Kept, KeptFor, Bytes, Paper

LEMMA KeptStore ==
  ASSUME Kept, JobTyped, NEW w \in Workers, Store(w)
  PROVE  Kept'
<1>1. Turns(w, "lookup", job[w].task, job[w].todo, job[w].missing, job[w].owned, job[w].did)
  BY GoesTurns DEF Store, Phases
<1>2. Others(w) /\ job'[w].phase = "lookup" /\ job'[w].source = job[w].source
  BY <1>1 DEF Turns
<1>3. asks' = asks /\ rows' = rows /\ files' = files \cup {asks[job[w].source].paper.bytes}
  BY DEF Store, Bytes, Paper, Source, database
<1>4. /\ overlapped \subseteq overlapped'
      /\ (\E v \in Workers \ {w} : InHand(v) /\
            asks[job[v].source].paper.bytes = asks[job[w].source].paper.bytes)
            => asks[job[w].source].paper.bytes \in overlapped'
  BY DEF Store, Bytes, Paper, Source
<1>5. /\ \A r \in rows : asks[r].paper.bytes \notin overlapped => asks[r].paper.bytes \in files
      /\ \A v \in Workers : InHand(v) /\ asks[job[v].source].paper.bytes \notin overlapped =>
         /\ asks[job[v].source].paper.bytes \in files
         /\ \A u \in Workers :
              InHand(u) /\ asks[job[u].source].paper.bytes = asks[job[v].source].paper.bytes => u = v
         /\ ~job[v].owned /\ job[v].phase # "lookup" =>
              \A r \in rows : asks[r].paper.bytes = asks[job[v].source].paper.bytes =>
                                r = job[v].source /\ job[v].phase \in Committed
  BY KeptParts
<1>6. \A r \in rows' : asks'[r].paper.bytes \notin overlapped' => asks'[r].paper.bytes \in files'
  BY <1>3, <1>4, <1>5
<1>7. \A v \in Workers \ {w} : job'[v] = job[v] /\ (InHand(v)' <=> InHand(v))
  BY <1>2 DEF Others, InHand
<1>8. ASSUME NEW v \in Workers, InHand(v)', asks'[job'[v].source].paper.bytes \notin overlapped'
      PROVE  /\ asks'[job'[v].source].paper.bytes \in files'
             /\ \A u \in Workers : InHand(u)' /\
                  asks'[job'[u].source].paper.bytes = asks'[job'[v].source].paper.bytes => u = v
             /\ ~job'[v].owned /\ job'[v].phase # "lookup" =>
              \A r \in rows' : asks'[r].paper.bytes = asks'[job'[v].source].paper.bytes =>
                                r = job'[v].source /\ job'[v].phase \in Committed
  <2>1. CASE v = w
    BY <1>2, <1>3, <1>4, <1>7, <1>8, <2>1
  <2>2. CASE v # w
    BY SMTT(20), <1>2, <1>3, <1>4, <1>5, <1>7, <1>8, <2>2
  <2> QED BY <2>1, <2>2
<1> QED BY <1>6, <1>8 DEF Kept, KeptFor, SameBytes, Bytes, Paper, Source, At

LEMMA KeptLookup ==
  ASSUME Kept, JobTyped, NEW w \in Workers, Lookup(w)
  PROVE  Kept'
<1> DEFINE p == IF job[w].task = "NEW" THEN "create" ELSE "persist"
<1>1. Turns(w, p, job[w].task, job[w].todo, job[w].missing, Owned(Source(w)), job[w].did)
  BY LookupTurns
<1>2. /\ Others(w) /\ InHand(w) /\ job'[w].source = job[w].source
      /\ job'[w].owned = Owned(Source(w))
  BY <1>1 DEF Turns, Lookup, At, InHand
<1>3. UNCHANGED <<asks, files, rows, overlapped>>
  BY DEF Lookup, database, observed
<1>4. ~job'[w].owned => \A r \in rows : asks[r].paper.bytes # asks[job[w].source].paper.bytes
  BY <1>2 DEF Owned, Bytes, Paper, Source
<1>5. \A v \in Workers : InHand(v)' =>
        /\ InHand(v) /\ job'[v].source = job[v].source
        /\ v # w => job'[v] = job[v]
  BY <1>2 DEF Others, InHand
<1> QED BY <1>2, <1>3, <1>4, <1>5, KeptParts DEF Kept, KeptFor, SameBytes, Bytes, Paper, Source, At

(* A row goes: whoever has its bytes in hand is the import that wrote it. *)
LEMMA KeptForget ==
  ASSUME Kept, NEW w \in Workers, Others(w), UNCHANGED <<asks, files, overlapped>>,
         At(w, "forget"), rows' = rows \ {Source(w)}, job'[w].phase = "unlink",
         job'[w].source = job[w].source, job'[w].owned = job[w].owned
  PROVE  Kept'
<1>1. \A v \in Workers : InHand(v)' =>
        /\ InHand(v) /\ job'[v].source = job[v].source /\ job'[v].owned = job[v].owned
        /\ job'[v].phase # "lookup" => job[v].phase # "lookup"
        /\ v # w /\ job[v].phase \in Committed => job'[v].phase \in Committed
  BY DEF Others, InHand, At
<1>2. rows' \subseteq rows /\ job[w].source \notin rows'
  BY DEF Source
<1> QED BY <1>1, <1>2, KeptParts DEF Kept, KeptFor, SameBytes, Bytes, Paper, Source, At

(* A file goes: no row needs it, and nobody else has its bytes in hand. *)
LEMMA KeptUnlink ==
  ASSUME Kept, JobTyped, NEW w \in Workers, Unlink(w)
  PROVE  Kept'
<1>1. Turns(w, "failed", job[w].task, job[w].todo, job[w].missing, FALSE, job[w].did)
  BY UnlinkTurns
<1>2. /\ Others(w) /\ ~InHand(w)' /\ InHand(w) /\ job[w].phase = "unlink"
  BY <1>1 DEF Turns, Unlink, At, InHand
<1>3. /\ UNCHANGED <<asks, rows, overlapped>>
      /\ files' = IF job[w].owned THEN files ELSE files \ {asks[job[w].source].paper.bytes}
  BY DEF Unlink, database, observed, Bytes, Paper, Source
<1>4. \A v \in Workers : InHand(v)' => InHand(v) /\ v # w /\ job'[v] = job[v]
  BY <1>2 DEF Others, InHand
<1>5. asks[job[w].source].paper.bytes \notin overlapped /\ ~job[w].owned =>
        /\ \A u \in Workers : InHand(u)
             /\ asks[job[u].source].paper.bytes = asks[job[w].source].paper.bytes => u = w
        /\ \A r \in rows : asks[r].paper.bytes # asks[job[w].source].paper.bytes
  BY <1>2, KeptParts DEF Committed
<1> QED BY <1>3, <1>4, <1>5, KeptParts DEF Kept, KeptFor, SameBytes, Bytes, Paper, Source, At

---------------------------------------------------------------------------
(* Steps that leave the documents alone. *)

LEMMA SourceOfWork ==
  ASSUME Placed, NEW w \in Workers, Working(w)
  PROVE  Source(w) \in Sources
BY DEF Placed, Workers, Sources

LEMMA FaultCounts ==
  ASSUME DocInv, Fault \/ UNCHANGED faults
  PROVE  faults' \in 0..MaxFaults
BY FaultsBounded DEF DocInv, Fault

LEMMA QuietDocs ==
  ASSUME DocInv, asks \in Asked, OneScan, Placed, NEW w \in Workers, Others(w),
         UNCHANGED <<asks, files, rows, trips, history, confirmed, overlapped>>,
         faults' \in 0..MaxFaults, StaysInHand(w), OnCourse(w)'
  PROVE  DocInv'
<1>1. \A r \in Sources : Cites(r)' = Cites(r)
  BY CitesSame
<1>2. OwnOnly(NoSource)
  BY <1>1 DEF OwnOnly
<1>3. TripsTyped' /\ FilesTyped' /\ ConfirmedOnce'
  BY DEF DocInv, TripsTyped, FilesTyped, ConfirmedOnce, Bytes, Paper
<1>4. Cited' /\ Within'
  BY <1>1 DEF DocInv, Cited, Held, Within, Names, Paper, Mentions
<1>5. Kept'
  BY KeptQuiet DEF DocInv
<1> QED BY <1>2, <1>3, <1>4, <1>5, DocStep

LEMMA RestsOnCourse ==
  ASSUME NEW w \in Workers, job'[w].phase \in Resting
  PROVE  OnCourse(w)' /\ StaysInHand(w)
BY DEF OnCourse, Working, Resting, StaysInHand, InHand

(* An attempt begins. *)
LEMMA StartsOnCourse ==
  ASSUME DocInv, asks \in Asked, NEW w \in Workers, NEW s \in Sources,
         UNCHANGED <<asks, history>>,
         job'[w].phase = "fetch", job'[w].source = s, job'[w].task = Task(s),
         job'[w].missing = <<>>, job'[w].did = FALSE
  PROVE  OnCourse(w)' /\ StaysInHand(w)
<1>1. Source(w)' = s /\ Names(s)' = Names(s) /\ Task(s)' = Task(s)
  BY DEF Source, Names, Paper, Task
<1>2. \A t : Pending(w, t)' = 0
  BY DEF Pending, At
<1>3. \A t \in Transports : history[t][s] <= Mentions(Names(s), t) /\ history[t][s] \in Nat
  BY DEF DocInv, TripsTyped, Within
<1>4. Counted(w)'
  <2> SUFFICES ASSUME NEW t \in Transports
               PROVE  history'[t][Source(w)'] + Pending(w, t)' <= Mentions(Names(Source(w)), t)'
    BY DEF Counted
  <2>1. Mentions(Names(Source(w)), t)' = Mentions(Names(s), t)
    BY <1>1 DEF Mentions, Source, Names, Paper
  <2> QED BY <1>1, <1>2, <1>3, <2>1
<1>5. TaskFits(w)'
  BY <1>1 DEF TaskFits, Source, At, InHand, Paper, Task
<1>6. Happened(w)'
  BY DEF Happened, At
<1>7. job'[w].phase \notin Committed /\ ~InHand(w)'
  BY DEF Committed, InHand
<1> QED BY <1>4, <1>5, <1>6, <1>7 DEF OnCourse, StaysInHand

(* ... and turns to its end, or to its clean-up. *)
LEMMA TurnsOnCourse ==
  ASSUME DocInv, asks \in Asked, Placed, NEW w \in Workers, Working(w),
         UNCHANGED <<asks, history, rows>>,
         job'[w].phase \in {"failed", "seen", "forward", "stamp", "unlink", "forget"},
         job'[w].source = job[w].source, job'[w].task = job[w].task,
         job'[w].owned = job[w].owned,
         job'[w].phase \in {"unlink", "forget"} => InHand(w) /\ ~At(w, "lookup"),
         job'[w].phase = "forget" => job[w].phase \in Committed,
         job'[w].phase = "unlink" => job[w].phase \notin Committed
  PROVE  OnCourse(w)' /\ StaysInHand(w)
<1> DEFINE s == Source(w)
<1>1. s \in Sources /\ s' = s /\ OnCourse(w)
  BY SourceOfWork DEF Source, DocInv, AllOnCourse
<1>2. \A t : Pending(w, t)' = 0
  BY DEF Pending, At
<1>3. \A t \in Transports : history[t][s] <= Mentions(Names(s), t) /\ history[t][s] \in Nat
  BY <1>1 DEF DocInv, TripsTyped, Within
<1>4. Counted(w)'
  <2> SUFFICES ASSUME NEW t \in Transports
               PROVE  history'[t][Source(w)'] + Pending(w, t)' <= Mentions(Names(Source(w)), t)'
    BY DEF Counted
  <2>1. Mentions(Names(Source(w)), t)' = Mentions(Names(s), t)
    BY <1>1 DEF Mentions, Source, Names, Paper
  <2> QED BY <1>1, <1>2, <1>3, <2>1
<1>5. TaskFits(w)'
  <2>1. /\ job[w].task = Task(s) \/ (job[w].task = "AGAIN" /\ Task(s) = "NEW")
        /\ InHand(w) => Paper(s).readable
    BY <1>1 DEF OnCourse, TaskFits
  <2>2. Task(Source(w))' = Task(s) /\ Paper(Source(w))' = Paper(s)
    BY <1>1 DEF Task, Paper, Source
  <2> QED BY <2>1, <2>2 DEF TaskFits, At, InHand
<1>6. Happened(w)'
  BY DEF Happened, At, Preparing
<1>7. job'[w].phase \in Committed => Source(w)' \in rows'
  BY <1>1 DEF Committed, OnCourse
<1>8. StaysInHand(w)
  BY DEF StaysInHand, InHand, At, Committed
<1> QED BY <1>4, <1>5, <1>6, <1>7, <1>8 DEF OnCourse

(* An import prepares its document. *)
LEMMA PreparesOnCourse ==
  ASSUME DocInv, asks \in Asked, Placed, NEW w \in Workers, job[w].phase \in Preparing,
         UNCHANGED <<asks, history>>,
         job'[w].phase \in Preparing \ {"fetch"},
         job'[w].source = job[w].source, job'[w].task = job[w].task,
         job'[w].missing = job[w].missing, job'[w].did = job[w].did,
         Paper(Source(w)).readable,
         job'[w].phase \in {"store", "lookup"} => job[w].task = Task(Source(w)),
         job'[w].phase \in {"create", "reapply"} => job[w].task = "NEW",
         job'[w].phase = "persist" => job[w].task # "NEW"
  PROVE  OnCourse(w)'
<1> DEFINE s == Source(w)
<1>1. s \in Sources /\ s' = s /\ OnCourse(w) /\ Working(w)
  BY SourceOfWork DEF Source, DocInv, AllOnCourse, Working, Resting, Preparing
<1>2. \A t : Pending(w, t)' = 0
  BY DEF Pending, At, Preparing
<1>3. \A t \in Transports : history[t][s] <= Mentions(Names(s), t) /\ history[t][s] \in Nat
  BY <1>1 DEF DocInv, TripsTyped, Within
<1>4. Counted(w)'
  <2> SUFFICES ASSUME NEW t \in Transports
               PROVE  history'[t][Source(w)'] + Pending(w, t)' <= Mentions(Names(Source(w)), t)'
    BY DEF Counted
  <2>1. Mentions(Names(Source(w)), t)' = Mentions(Names(s), t)
    BY <1>1 DEF Mentions, Source, Names, Paper
  <2> QED BY <1>1, <1>2, <1>3, <2>1
<1>5. TaskFits(w)'
  <2>1. job[w].task = Task(s) \/ (job[w].task = "AGAIN" /\ Task(s) = "NEW")
    BY <1>1 DEF OnCourse, TaskFits
  <2>2. Task(Source(w))' = Task(s) /\ Paper(Source(w))' = Paper(s)
    BY <1>1 DEF Task, Paper, Source
  <2> QED BY <2>1, <2>2 DEF TaskFits, At, Preparing
<1>6. Happened(w)'
  <2>1. job[w].missing = <<>> /\ ~job[w].did
    BY <1>1 DEF OnCourse, Happened
  <2> QED BY <2>1 DEF Happened, At, Preparing
<1>7. job'[w].phase \notin Committed
  BY DEF Committed, Preparing
<1> QED BY <1>4, <1>5, <1>6, <1>7 DEF OnCourse

DocsSame == UNCHANGED <<asks, files, rows, trips, history, confirmed, overlapped>>

LEMMA RestsDocs ==
  ASSUME DocInv, asks \in Asked, OneScan, Placed, NEW w \in Workers, Others(w), DocsSame,
         faults' \in 0..MaxFaults, job'[w].phase \in Resting
  PROVE  DocInv'
BY RestsOnCourse, QuietDocs DEF DocsSame

LEMMA BreaksDocs ==
  ASSUME DocInv, asks \in Asked, JobTyped, OneScan, Placed, NEW w \in Workers, Working(w),
         DocsSame, faults' \in 0..MaxFaults,
         NEW phase \in {"failed", "unlink", "forget"}, NEW error \in Errors,
         Breaks(w, phase, error),
         phase \in {"unlink", "forget"} => InHand(w) /\ ~At(w, "lookup"),
         phase = "forget" => job[w].phase \in Committed,
         phase = "unlink" => job[w].phase \notin Committed
  PROVE  DocInv'
<1>1. Turns(w, phase, job[w].task, <<>>, <<>>, job[w].owned, job[w].did)
  BY BreaksTurns DEF Phases
<1>2. /\ Others(w) /\ job'[w].phase = phase /\ job'[w].source = job[w].source
      /\ job'[w].task = job[w].task /\ job'[w].owned = job[w].owned
  BY <1>1 DEF Turns
<1>3. OnCourse(w)' /\ StaysInHand(w)
  BY <1>2, TurnsOnCourse DEF DocsSame
<1> QED BY <1>2, <1>3, QuietDocs DEF DocsSame

LEMMA GoesDocs ==
  ASSUME DocInv, asks \in Asked, JobTyped, OneScan, Placed, NEW w \in Workers, Working(w),
         DocsSame, faults' \in 0..MaxFaults,
         NEW phase \in {"failed", "seen", "forward", "stamp"}, Goes(w, phase)
  PROVE  DocInv'
<1>1. Turns(w, phase, job[w].task, job[w].todo, job[w].missing, job[w].owned, job[w].did)
  BY GoesTurns DEF Phases
<1>2. /\ Others(w) /\ job'[w].phase = phase /\ job'[w].source = job[w].source
      /\ job'[w].task = job[w].task /\ job'[w].owned = job[w].owned
  BY <1>1 DEF Turns
<1>3. OnCourse(w)' /\ StaysInHand(w)
  BY <1>2, TurnsOnCourse DEF DocsSame
<1> QED BY <1>2, <1>3, QuietDocs DEF DocsSame

LEMMA ContinuesDocs ==
  ASSUME DocInv, asks \in Asked, JobTyped, OneScan, Placed, NEW w \in Workers, DocsSame,
         faults' \in 0..MaxFaults, Continue(w)
  PROVE  DocInv'
<1>1. Others(w) /\ job'[w].phase = "next"
  BY ContinueMoves DEF Idle
<1> QED BY <1>1, RestsDocs DEF Resting

(* An import is done: an upload ends, a mail is to be marked. *)
LEMMA FinishedOnCourse ==
  ASSUME DocInv, asks \in Asked, JobTyped, NEW w \in Workers, Finished(w), asks' = asks,
         NEW s \in Sources, Source(w) = s,
         Within', history' \in [Transports -> [Sources -> Nat]], TaskFits(w),
         \/ job[w].task = "CANCEL" /\ ~job[w].did
         \/ CarriedOut(s)'
  PROVE  OnCourse(w)' /\ Others(w) /\ ~InHand(w)'
<1>1. Others(w)
  BY FinishedTurns
<1>2. CASE job'[w] = Ended
  <2>1. job'[w].phase = "done"
    BY <1>2 DEF Ended, Idle
  <2> QED BY <1>1, <2>1 DEF OnCourse, Working, Resting, InHand
<1>3. CASE Turns(w, "mark", job[w].task, <<>>, <<>>, FALSE, job[w].did)
  <2>1. /\ job'[w].phase = "mark" /\ job'[w].source = s /\ job'[w].task = job[w].task
        /\ job'[w].did = job[w].did
    BY <1>3 DEF Turns, Source
  <2>2. \A t : Pending(w, t)' = 0
    BY <2>1 DEF Pending, At
  <2>3. \A t \in Transports : history'[t][s] <= Mentions(Names(s), t)' /\ history'[t][s] \in Nat
    BY DEF Within
  <2>4. Counted(w)'
    BY <2>1, <2>2, <2>3 DEF Counted, Source, Mentions, Names, Paper
  <2>5. TaskFits(w)'
    BY <2>1 DEF TaskFits, At, InHand, Source, Task, Paper
  <2>6. Happened(w)'
    BY <2>1 DEF Happened, At, Source, AppliedNothing, Preparing, CarriedOut
  <2> QED BY <1>1, <2>1, <2>4, <2>5, <2>6 DEF OnCourse, Committed, InHand
<1> QED BY <1>2, <1>3, FinishedTurns

(* The facts of the mail side that the document side needs. *)
LEMMA MailFacts ==
  ASSUME MailInv
  PROVE  asks \in Asked /\ JobTyped /\ OneScan /\ Placed
BY DEF MailInv

LEMMA TakesDocs ==
  ASSUME MailInv, DocInv, NEW w \in Workers, Takes(w)
  PROVE  DocInv'
<1>1. asks \in Asked /\ JobTyped /\ OneScan /\ Placed
  BY MailFacts
<1>2. PICK m \in Messages : Skip(w, m) \/ Ignore(w, m) \/ StartProcessing(w, m)
                            \/ ReopenForRetry(w, m)
  BY DEF Takes
<1>3. DocsSame /\ faults' \in 0..MaxFaults /\ At(w, "next")
  BY <1>2, FaultCounts
  DEF Skip, Ignore, StartProcessing, ReopenForRetry, DocsSame, database, observed
<1>4. m \in Sources
  BY DEF Sources
<1>5. CASE Skip(w, m) \/ Ignore(w, m)
  <2>1. Others(w) /\ job'[w] = [job[w] EXCEPT !.queue = job[w].queue \ {m}]
    BY <1>1, <1>5, LeavesMoves DEF Skip, Ignore
  <2>2. job'[w].phase = "next"
    BY <1>1, <1>3, <2>1 DEF At, JobTyped, Job
  <2> QED BY <1>1, <1>3, <2>1, <2>2, RestsDocs DEF Resting
<1>6. ASSUME NEW noted \in BOOLEAN, Opens(w, m, noted)  PROVE DocInv'
  <2>1. /\ Others(w) /\ job'[w].phase = "fetch" /\ job'[w].source = m
        /\ job'[w].task = Task(m) /\ job'[w].missing = <<>> /\ job'[w].did = FALSE
    BY <1>1, <1>6, OpensMoves
  <2>2. OnCourse(w)' /\ StaysInHand(w)
    BY <1>1, <1>3, <1>4, <2>1, StartsOnCourse DEF DocsSame
  <2> QED BY <1>1, <1>3, <2>1, <2>2, QuietDocs DEF DocsSame
<1>7. CASE StartProcessing(w, m)
  <2>1. Opens(w, m, FALSE) /\ FALSE \in BOOLEAN
    BY <1>7 DEF StartProcessing
  <2> QED BY <1>6, <2>1
<1>8. CASE ReopenForRetry(w, m)
  <2>1. Opens(w, m, Reopened(email[m]).forwarded)
    BY <1>8 DEF ReopenForRetry
  <2>2. Reopened(email[m]).forwarded \in BOOLEAN
    BY DEF Reopened, MailInv, MailTyped
  <2> QED BY <1>6, <2>1, <2>2
<1> QED BY <1>2, <1>5, <1>7, <1>8

LEMMA ScansDocs ==
  ASSUME MailInv, DocInv, NEW w \in Scanners, Scan(w) \/ EndScan(w)
  PROVE  DocInv'
<1>1. asks \in Asked /\ JobTyped /\ OneScan /\ Placed /\ w \in Workers
  BY MailFacts DEF Workers
<1>2. DocsSame /\ faults' \in 0..MaxFaults
  BY FaultCounts DEF Scan, EndScan, DocsSame, database, observed
<1>3. CASE EndScan(w)
  <2>1. Others(w) /\ job'[w] = Idle
    BY <1>1, <1>3, IdleJob, Moves DEF EndScan
  <2>2. job'[w].phase \in Resting
    BY <2>1 DEF Idle, Resting
  <2> QED BY <1>1, <1>2, <2>1, <2>2, RestsDocs
<1>4. CASE Scan(w)
  <2> DEFINE r == [Idle EXCEPT !.phase = "next", !.queue = mailbox]
  <2>1. r \in Job
    BY IdleJob DEF MailInv, MailTyped, Job, Phases
  <2>2. job' = [job EXCEPT ![w] = r]
    BY <1>4 DEF Scan
  <2>3. Others(w) /\ job'[w] = r
    BY <1>1, <2>1, <2>2, Moves
  <2>4. job'[w].phase \in Resting
    BY <2>3 DEF Idle, Resting
  <2> QED BY <1>1, <1>2, <2>3, <2>4, RestsDocs
<1> QED BY <1>3, <1>4

LEMMA UploadDocs ==
  ASSUME MailInv, DocInv, NEW u \in Uploads, Upload(u)
  PROVE  DocInv'
<1>1. asks \in Asked /\ JobTyped /\ OneScan /\ Placed /\ u \in Workers /\ u \in Sources
  BY MailFacts DEF Workers, Sources
<1>2. DocsSame /\ faults' \in 0..MaxFaults
  BY FaultCounts DEF Upload, DocsSame, database, observed
<1> DEFINE r == [Idle EXCEPT !.phase = "fetch", !.source = u, !.task = Task(u)]
<1>3. Task(u) \in Actions
  BY <1>1, SourceFacts
<1>4. r \in Job
  BY <1>1, <1>3, IdleJob DEF Job, Phases
<1>5. job' = [job EXCEPT ![u] = r]
  BY DEF Upload
<1>6. Others(u) /\ job'[u] = r
  BY <1>1, <1>4, <1>5, Moves
<1>7. /\ job'[u].phase = "fetch" /\ job'[u].source = u /\ job'[u].task = Task(u)
      /\ job'[u].missing = <<>> /\ job'[u].did = FALSE
  BY <1>6 DEF Idle
<1>8. OnCourse(u)' /\ StaysInHand(u)
  BY <1>1, <1>2, <1>7, StartsOnCourse DEF DocsSame
<1> QED BY <1>1, <1>2, <1>6, <1>8, QuietDocs DEF DocsSame

LEMMA SettlesDocs ==
  ASSUME MailInv, DocInv, NEW w \in Workers, Settles(w)
  PROVE  DocInv'
<1>1. asks \in Asked /\ JobTyped /\ OneScan /\ Placed
  BY MailFacts
<1>2. DocsSame /\ faults' \in 0..MaxFaults
  BY FaultCounts DEF Settles, Mark, MarkSeen, RecordFailure, ReportUpload, Forward,
     MarkForwarded, DocsSame, database, observed
<1>3. job[w].phase \in {"mark", "seen", "failed", "forward", "stamp"}
  BY DEF Settles, Mark, MarkSeen, RecordFailure, ReportUpload, Forward, MarkForwarded, At
<1>4. Working(w)
  BY <1>3 DEF Working, Resting
<1>5. CASE ReportUpload(w)
  <2>1. Others(w) /\ job'[w] = Ended
    BY <1>1, <1>5, IdleJob, Moves DEF ReportUpload
  <2>2. job'[w].phase \in Resting
    BY <2>1 DEF Ended, Idle, Resting
  <2> QED BY <1>1, <1>2, <2>1, <2>2, RestsDocs
<1>6. ASSUME ~ReportUpload(w)
      PROVE  Continue(w) \/ Goes(w, "seen") \/ Goes(w, "forward") \/ Goes(w, "stamp")
  BY <1>6 DEF Settles, Mark, MarkSeen, RecordFailure, Forward, MarkForwarded
<1> QED BY <1>1, <1>2, <1>4, <1>5, <1>6, ContinuesDocs, GoesDocs

LEMMA FailsDocs ==
  ASSUME MailInv, DocInv, NEW w \in Workers, Fails(w)
  PROVE  DocInv'
<1>1. asks \in Asked /\ JobTyped /\ OneScan /\ Placed
  BY MailFacts
<1>2. DocsSame
  BY DEF Fails, DownloadFails, LookupFails, TransactionFails, OutcomeFails, RecordFails,
     ForwardFails, DocsSame, database, observed
<1>3. faults' \in 0..MaxFaults
  BY FaultCounts DEF Fails, DownloadFails, LookupFails, TransactionFails, OutcomeFails,
     RecordFails, ForwardFails
<1> USE DEF Errors
<1>4. CASE DownloadFails(w)
  BY <1>1, <1>2, <1>3, <1>4, BreaksDocs DEF DownloadFails, At, Working, Resting
<1>5. CASE LookupFails(w)
  BY <1>1, <1>2, <1>3, <1>5, BreaksDocs DEF LookupFails, At, Working, Resting
<1>6. CASE OutcomeFails(w)
  BY <1>1, <1>2, <1>3, <1>6, BreaksDocs DEF OutcomeFails, At, Working, Resting
<1>7. CASE TransactionFails(w)
  <2>1. job[w].phase \in {"create", "persist", "reapply", "missing", "apply", "note", "cite"}
    BY <1>7 DEF TransactionFails, At
  <2>2. InHand(w) /\ ~At(w, "lookup") /\ Working(w)
    BY <2>1 DEF InHand, At, Working, Resting
  <2>3. \/ job[w].phase \in {"create", "persist"} /\ Breaks(w, "unlink", "other")
        \/ Breaks(w, "failed", "other")
        \/ job[w].phase \in {"missing", "apply", "note", "cite"} /\ Breaks(w, "forget", "other")
    BY <1>7 DEF TransactionFails, At
  <2>4. CASE job[w].phase \in {"create", "persist"} /\ Breaks(w, "unlink", "other")
    BY <1>1, <1>2, <1>3, <2>2, <2>4, BreaksDocs DEF Committed
  <2>5. CASE Breaks(w, "failed", "other")
    BY <1>1, <1>2, <1>3, <2>2, <2>5, BreaksDocs
  <2>6. CASE job[w].phase \in {"missing", "apply", "note", "cite"} /\ Breaks(w, "forget", "other")
    BY <1>1, <1>2, <1>3, <2>2, <2>6, BreaksDocs DEF Committed
  <2> QED BY <2>3, <2>4, <2>5, <2>6
<1>8. CASE RecordFails(w)
  <2>1. Others(w) /\ job'[w] = Idle
    BY <1>1, <1>8, IdleJob, Moves DEF RecordFails
  <2>2. job'[w].phase \in Resting
    BY <2>1 DEF Idle, Resting
  <2> QED BY <1>1, <1>2, <1>3, <2>1, <2>2, RestsDocs
<1>9. CASE ForwardFails(w)
  BY <1>1, <1>2, <1>3, <1>9, ContinuesDocs DEF ForwardFails
<1> QED BY <1>4, <1>5, <1>6, <1>7, <1>8, <1>9 DEF Fails

---------------------------------------------------------------------------
(* The pipeline up to the document's row. *)

LEMMA SameTripsDocs ==
  ASSUME DocInv, asks \in Asked, OneScan, Placed, NEW w \in Workers, Others(w),
         UNCHANGED <<asks, rows, trips, history, confirmed, faults>>,
         FilesTyped', Kept', OnCourse(w)'
  PROVE  DocInv'
<1>1. \A r \in Sources : Cites(r)' = Cites(r)
  BY CitesSame
<1>2. OwnOnly(NoSource)
  BY <1>1 DEF OwnOnly
<1>3. TripsTyped' /\ ConfirmedOnce' /\ faults' \in 0..MaxFaults
  BY DEF DocInv, TripsTyped, ConfirmedOnce
<1>4. Cited' /\ Within'
  BY <1>1 DEF DocInv, Cited, Held, Within, Names, Paper, Mentions
<1> QED BY <1>2, <1>3, <1>4, DocStep

(* What is known of an import that has its file in hand, or is about to. *)
LEMMA AtWork ==
  ASSUME MailInv, DocInv, NEW w \in Workers, Working(w)
  PROVE  /\ asks \in Asked /\ JobTyped /\ OneScan /\ Placed
         /\ Source(w) \in Sources
         /\ Names(Source(w)) \in Seq(Transports)
         /\ Counted(w) /\ TaskFits(w) /\ Happened(w)
         /\ job[w].phase \in Committed => Source(w) \in rows
<1>1. asks \in Asked /\ JobTyped /\ OneScan /\ Placed
  BY MailFacts
<1> QED BY <1>1, SourceOfWork, SourceFacts DEF DocInv, AllOnCourse, OnCourse

LEMMA FetchDocs ==
  ASSUME MailInv, DocInv, NEW w \in Workers, Fetch(w)
  PROVE  DocInv'
<1>1. Working(w) /\ job[w].phase \in Preparing
  BY DEF Fetch, At, Working, Resting, Preparing
<1>2. /\ asks \in Asked /\ JobTyped /\ OneScan /\ Placed
      /\ TaskFits(w)
  BY <1>1, AtWork
<1>3. DocsSame /\ faults' \in 0..MaxFaults
  BY FaultCounts DEF Fetch, DocsSame, database, observed
<1>4. CASE Breaks(w, "failed", "other")
  BY <1>1, <1>2, <1>3, <1>4, BreaksDocs DEF Errors
<1>5. CASE Paper(Source(w)).readable /\ Goes(w, "store")
  <2>1. Turns(w, "store", job[w].task, job[w].todo, job[w].missing, job[w].owned, job[w].did)
    BY <1>2, <1>5, GoesTurns DEF Phases
  <2>2. /\ Others(w) /\ job'[w].phase = "store" /\ job'[w].source = job[w].source
        /\ job'[w].task = job[w].task /\ job'[w].missing = job[w].missing
        /\ job'[w].did = job[w].did
    BY <2>1 DEF Turns
  <2>3. job[w].task = Task(Source(w))
    BY <1>2 DEF TaskFits, Fetch, At
  <2>4. OnCourse(w)'
    BY <1>1, <1>2, <1>3, <1>5, <2>2, <2>3, PreparesOnCourse DEF Preparing, DocsSame
  <2>5. StaysInHand(w)
    BY <2>2 DEF StaysInHand, InHand
  <2> QED BY <1>2, <1>3, <2>2, <2>4, <2>5, QuietDocs DEF DocsSame
<1> QED BY <1>4, <1>5 DEF Fetch

LEMMA StoreDocs ==
  ASSUME MailInv, DocInv, NEW w \in Workers, Store(w)
  PROVE  DocInv'
<1>1. Working(w) /\ job[w].phase \in Preparing
  BY DEF Store, At, Working, Resting, Preparing
<1>2. /\ asks \in Asked /\ JobTyped /\ OneScan /\ Placed /\ TaskFits(w)
      /\ Source(w) \in Sources
  BY <1>1, AtWork
<1>3. UNCHANGED <<asks, rows, trips, history, confirmed, faults>>
  BY DEF Store, database
<1>4. Turns(w, "lookup", job[w].task, job[w].todo, job[w].missing, job[w].owned, job[w].did)
  BY <1>2, GoesTurns DEF Store, Phases
<1>5. /\ Others(w) /\ job'[w].phase = "lookup" /\ job'[w].source = job[w].source
      /\ job'[w].task = job[w].task /\ job'[w].missing = job[w].missing
      /\ job'[w].did = job[w].did
  BY <1>4 DEF Turns
<1>6. job[w].task = Task(Source(w)) /\ Paper(Source(w)).readable
  BY <1>2 DEF TaskFits, Store, At
<1>7. OnCourse(w)'
  BY <1>1, <1>2, <1>3, <1>5, <1>6, PreparesOnCourse DEF Preparing
<1>8. Kept'
  BY <1>2, KeptStore DEF DocInv
<1>9. FilesTyped'
  <2>1. Bytes(Source(w)) \in {Bytes(s) : s \in Sources}
    BY <1>2
  <2>2. {Bytes(s) : s \in Sources}' = {Bytes(s) : s \in Sources}
    BY <1>3 DEF Bytes, Paper
  <2>3. files' \subseteq {Bytes(s) : s \in Sources} /\ overlapped' \subseteq {Bytes(s) : s \in Sources}
    BY <2>1 DEF Store, DocInv, FilesTyped
  <2> QED BY <1>3, <2>2, <2>3 DEF DocInv, FilesTyped
<1> QED BY <1>2, <1>3, <1>5, <1>7, <1>8, <1>9, SameTripsDocs

LEMMA LookupDocs ==
  ASSUME MailInv, DocInv, NEW w \in Workers, Lookup(w)
  PROVE  DocInv'
<1> DEFINE p == IF job[w].task = "NEW" THEN "create" ELSE "persist"
<1>1. Working(w) /\ job[w].phase \in Preparing
  BY DEF Lookup, At, Working, Resting, Preparing
<1>2. /\ asks \in Asked /\ JobTyped /\ OneScan /\ Placed /\ TaskFits(w)
      /\ Source(w) \in Sources
  BY <1>1, AtWork
<1>3. UNCHANGED <<asks, rows, trips, history, confirmed, faults, files, overlapped>>
  BY DEF Lookup, database, observed
<1>4. Turns(w, p, job[w].task, job[w].todo, job[w].missing, Owned(Source(w)), job[w].did)
  BY <1>2, LookupTurns
<1>5. /\ Others(w) /\ job'[w].phase = p /\ job'[w].source = job[w].source
      /\ job'[w].task = job[w].task /\ job'[w].missing = job[w].missing
      /\ job'[w].did = job[w].did
  BY <1>4 DEF Turns
<1>6. Paper(Source(w)).readable
  BY <1>2 DEF TaskFits, Lookup, At, InHand
<1>7. OnCourse(w)'
  BY <1>1, <1>2, <1>3, <1>5, <1>6, PreparesOnCourse DEF Preparing
<1>8. Kept'
  BY <1>2, KeptLookup DEF DocInv
<1>9. FilesTyped'
  BY <1>3 DEF DocInv, FilesTyped, Bytes, Paper
<1> QED BY <1>2, <1>3, <1>5, <1>7, <1>8, <1>9, SameTripsDocs

LEMMA CreateTripsDocs ==
  ASSUME MailInv, DocInv, NEW w \in Workers, CreateTrips(w)
  PROVE  DocInv'
<1>1. Working(w) /\ InHand(w) /\ job[w].phase = "create"
  BY DEF CreateTrips, At, Working, Resting, InHand
<1>2. /\ asks \in Asked /\ JobTyped /\ OneScan /\ Placed /\ TaskFits(w)
      /\ Source(w) \in Sources /\ Names(Source(w)) \in Seq(Transports)
  BY <1>1, AtWork
<1>3. PICK s \in Sources : s = Source(w)
  BY <1>2
<1>4. /\ UNCHANGED <<asks, files, overlapped, history, confirmed, faults>>
      /\ rows' = rows \cup {s} /\ trips' = CreatedBy(s, ToSet(Names(s))) /\ Finished(w)
      /\ ~Taken(Names(s))
  BY <1>3 DEF CreateTrips, observed
<1>5. /\ ToSet(Names(s)) \in SUBSET Transports
      /\ \A t \in ToSet(Names(s)) : ~Held(t)
  BY <1>2, <1>3, <1>4, NamedTransports DEF Taken
<1>6. /\ TripsTyped'
      /\ \A t \in Transports : ~Held(t)' => trips'[t].from = NoSource
      /\ Cites(s)' = Cites(s) \cup ToSet(Names(s))
      /\ \A r \in Sources \ {s} : Cites(r)' = Cites(r)
  BY <1>4, <1>5, CitesCreated DEF DocInv
<1>7. OwnOnly(s)
  BY <1>4, <1>6 DEF OwnOnly
<1>8. FilesTyped' /\ ConfirmedOnce' /\ faults' \in 0..MaxFaults /\ Within'
  BY <1>4 DEF DocInv, FilesTyped, ConfirmedOnce, Within, Names, Bytes, Paper, Mentions
<1>9. Cited'
  BY <1>4, <1>6 DEF DocInv, Cited
<1>10. CarriedOut(s)'
  <2>1. Task(s) = "NEW"
    BY <1>1, <1>2, <1>3 DEF TaskFits
  <2>2. Task(s)' = Task(s) /\ Names(s)' = Names(s)
    BY <1>4 DEF Task, Names, Paper
  <2> QED BY <1>4, <1>6, <2>1, <2>2 DEF CarriedOut
<1>11. OnCourse(w)' /\ Others(w) /\ ~InHand(w)'
  BY <1>2, <1>3, <1>4, <1>6, <1>8, <1>10, FinishedOnCourse DEF TripsTyped
<1>12. Kept'
  BY <1>1, <1>3, <1>4, <1>11, KeptRow DEF DocInv
<1> QED BY <1>1, <1>2, <1>3, <1>4, <1>6, <1>7, <1>8, <1>9, <1>11, <1>12, DocStep

LEMMA CreateRefusedDocs ==
  ASSUME MailInv, DocInv, NEW w \in Workers, CreateRefused(w)
  PROVE  DocInv'
<1>1. Working(w) /\ InHand(w) /\ job[w].phase = "create" /\ job[w].phase \in Preparing
  BY DEF CreateRefused, At, Working, Resting, InHand, Preparing
<1>2. asks \in Asked /\ JobTyped /\ OneScan /\ Placed /\ TaskFits(w)
  BY <1>1, AtWork
<1>3. DocsSame /\ faults' \in 0..MaxFaults
  BY FaultCounts DEF CreateRefused, DocsSame, database, observed
<1>4. CASE Breaks(w, "unlink", "other")
  BY <1>1, <1>2, <1>3, <1>4, BreaksDocs DEF Errors, At, Committed
<1>5. CASE Goes(w, "reapply")
  <2>1. Turns(w, "reapply", job[w].task, job[w].todo, job[w].missing, job[w].owned, job[w].did)
    BY <1>2, <1>5, GoesTurns DEF Phases
  <2>2. /\ Others(w) /\ job'[w].phase = "reapply" /\ job'[w].source = job[w].source
        /\ job'[w].task = job[w].task /\ job'[w].missing = job[w].missing
        /\ job'[w].did = job[w].did /\ job'[w].owned = job[w].owned
    BY <2>1 DEF Turns
  <2>3. job[w].task = "NEW" /\ Paper(Source(w)).readable
    BY <1>1, <1>2 DEF TaskFits
  <2>4. OnCourse(w)'
    BY <1>1, <1>2, <1>3, <2>2, <2>3, PreparesOnCourse DEF Preparing, DocsSame
  <2>5. StaysInHand(w)
    BY <1>1, <2>2 DEF StaysInHand, At, Committed
  <2> QED BY <1>2, <1>3, <2>2, <2>4, <2>5, QuietDocs DEF DocsSame
<1> QED BY <1>4, <1>5 DEF CreateRefused

(* The document's row is written before what it asks is done. *)
LEMMA CommitsDocs ==
  ASSUME MailInv, DocInv, NEW w \in Workers, job[w].phase \in {"persist", "reapply"},
         NEW s \in Sources, s = Source(w), s \notin rows, rows' = rows \cup {s},
         UNCHANGED <<asks, files, trips, history, confirmed, overlapped, faults>>,
         NEW task, Turns(w, "apply", task, Names(s), job[w].missing, job[w].owned, job[w].did),
         \/ job[w].phase = "persist" /\ task = job[w].task
         \/ job[w].phase = "reapply" /\ task = "AGAIN"
  PROVE  DocInv'
<1>1. Working(w) /\ InHand(w) /\ job[w].phase \in Preparing /\ ~At(w, "lookup")
  BY DEF Working, Resting, InHand, Preparing, At
<1>2. /\ asks \in Asked /\ JobTyped /\ OneScan /\ Placed /\ TaskFits(w) /\ Happened(w)
      /\ Names(s) \in Seq(Transports)
  BY <1>1, AtWork
<1>3. /\ Others(w) /\ job'[w].phase = "apply" /\ job'[w].source = s /\ job'[w].task = task
      /\ job'[w].todo = Names(s) /\ job'[w].missing = job[w].missing
      /\ job'[w].did = job[w].did /\ job'[w].owned = job[w].owned
  BY DEF Turns, Source
<1>4. \A r \in Sources : Cites(r)' = Cites(r)
  BY CitesSame
<1>5. OwnOnly(s)
  BY <1>4 DEF OwnOnly
<1>6. TripsTyped' /\ FilesTyped' /\ ConfirmedOnce' /\ faults' \in 0..MaxFaults /\ Within'
  BY DEF DocInv, TripsTyped, FilesTyped, ConfirmedOnce, Within, Names, Bytes, Paper, Mentions
<1>7. Cited'
  BY <1>4 DEF DocInv, Cited, Held
<1>8. Kept'
  BY <1>1, <1>3, KeptRow DEF DocInv, Source, Committed
<1>9. OnCourse(w)'
  <2>1. job[w].missing = <<>> /\ ~job[w].did
    BY <1>1, <1>2 DEF Happened
  <2>2. Names(s)' = Names(s) /\ Task(s)' = Task(s) /\ Paper(s)' = Paper(s)
    BY DEF Names, Task, Paper
  <2>3. Counted(w)'
    <3> SUFFICES ASSUME NEW t \in Transports
                 PROVE  history'[t][s] + Pending(w, t)' <= Mentions(Names(s), t)'
      BY <1>3 DEF Counted, Source
    <3>1. Pending(w, t)' = Mentions(Names(s), t) + Mentions(<<>>, t)
      BY <1>3, <2>1 DEF Pending, At, Mentions
    <3>2. Mentions(Names(s), t) \in Nat /\ Mentions(<<>>, t) = 0
      BY <1>2, WhereFinite, MentionsNone
    <3>3. Cites(s) = {}
      BY DEF DocInv, Cited
    <3>4. history[t][s] = 0
      BY <3>3, UncitedUnrecorded DEF DocInv
    <3>5. Mentions(Names(s), t)' = Mentions(Names(s), t)
      BY <2>2 DEF Mentions
    <3> QED BY <3>1, <3>2, <3>4, <3>5
  <2>4. TaskFits(w)'
    BY <1>1, <1>2, <1>3, <2>2 DEF TaskFits, At, InHand, Source
  <2>5. task = "COST" => Names(s) # <<>>
    BY <1>1, <1>2, SourceFacts DEF TaskFits
  <2>6. Happened(w)'
    BY <1>3, <2>1, <2>2, <2>5 DEF Happened, At, Source, Preparing
  <2> QED BY <1>3, <2>3, <2>4, <2>6 DEF OnCourse, Source
<1> QED BY <1>1, <1>2, <1>3, <1>5, <1>6, <1>7, <1>8, <1>9, DocStep

LEMMA PersistDocs ==
  ASSUME MailInv, DocInv, NEW w \in Workers, Persist(w)
  PROVE  DocInv'
<1>1. Working(w) /\ InHand(w) /\ job[w].phase = "persist"
  BY DEF Persist, At, Working, Resting, InHand
<1>2. /\ asks \in Asked /\ JobTyped /\ OneScan /\ Placed /\ Source(w) \in Sources
      /\ Names(Source(w)) \in Seq(Transports)
  BY <1>1, AtWork
<1>3. CASE RowTaken(Source(w))
  <2>1. Breaks(w, "unlink", "other") /\ DocsSame /\ faults' \in 0..MaxFaults
    BY <1>3, FaultCounts DEF Persist, DocsSame, observed
  <2> QED BY <1>1, <1>2, <2>1, BreaksDocs DEF Errors, At, Committed
<1>4. CASE ~RowTaken(Source(w))
  <2>1. /\ UNCHANGED <<asks, files, trips, history, confirmed, overlapped, faults>>
        /\ rows' = rows \cup {Source(w)} /\ Source(w) \notin rows
        /\ job' = [job EXCEPT ![w].phase = "apply", ![w].todo = Names(Source(w))]
    BY <1>4 DEF Persist, observed, RowTaken
  <2>2. Turns(w, "apply", job[w].task, Names(Source(w)), job[w].missing, job[w].owned, job[w].did)
    BY <1>2, <2>1, PersistTurns
  <2> QED BY <1>1, <1>2, <2>1, <2>2, CommitsDocs
<1> QED BY <1>3, <1>4

LEMMA ReapplyDocs ==
  ASSUME MailInv, DocInv, NEW w \in Workers, Reapply(w)
  PROVE  DocInv'
<1>1. Working(w) /\ InHand(w) /\ job[w].phase = "reapply"
  BY DEF Reapply, At, Working, Resting, InHand
<1>2. /\ asks \in Asked /\ JobTyped /\ OneScan /\ Placed /\ Source(w) \in Sources
      /\ Names(Source(w)) \in Seq(Transports)
  BY <1>1, AtWork
<1>3. CASE \/ \E t \in ToSet(Names(Source(w))) : ~Held(t)
           \/ RowTaken(Source(w))
  <2>1. /\ Breaks(w, "unlink", "other") \/ Breaks(w, "failed", "other")
        /\ DocsSame /\ faults' \in 0..MaxFaults
    BY <1>3, FaultCounts DEF Reapply, DocsSame, observed
  <2> QED BY <1>1, <1>2, <2>1, BreaksDocs DEF Errors, At, Committed
<1>4. CASE ~RowTaken(Source(w)) /\ ~\E t \in ToSet(Names(Source(w))) : ~Held(t)
  <2>1. /\ UNCHANGED <<asks, files, trips, history, confirmed, overlapped, faults>>
        /\ rows' = rows \cup {Source(w)} /\ Source(w) \notin rows
        /\ job' = [job EXCEPT ![w].phase = "apply", ![w].todo = Names(Source(w)),
                              ![w].task = "AGAIN"]
    BY <1>4 DEF Reapply, observed, RowTaken
  <2>2. Turns(w, "apply", "AGAIN", Names(Source(w)), job[w].missing, job[w].owned, job[w].did)
    BY <1>2, <2>1, AgainTurns
  <2> QED BY <1>1, <1>2, <2>1, <2>2, CommitsDocs
<1> QED BY <1>3, <1>4

---------------------------------------------------------------------------
(* The pipeline once the row is written: one transport at a time. *)

LEMMA FailsOnCourse ==
  ASSUME asks' = asks, NEW w \in Workers, NEW s \in Sources, Source(w) = s, TaskFits(w),
         history' \in [Transports -> [Sources -> Nat]], Within',
         job'[w].phase \in {"failed", "unlink"},
         job'[w].source = job[w].source, job'[w].task = job[w].task,
         job'[w].phase = "unlink" => InHand(w)
  PROVE  OnCourse(w)'
<1>1. Source(w)' = s /\ Names(s)' = Names(s) /\ Task(s)' = Task(s) /\ Paper(s)' = Paper(s)
  BY DEF Source, Names, Task, Paper
<1>2. \A t : Pending(w, t)' = 0
  BY DEF Pending, At
<1>3. Counted(w)'
  <2>1. \A t \in Transports : history'[t][s] <= Mentions(Names(s), t)' /\ history'[t][s] \in Nat
    BY DEF Within
  <2> QED BY <1>1, <1>2, <2>1 DEF Counted, Source, Names, Paper, Mentions
<1>4. TaskFits(w)'
  BY <1>1 DEF TaskFits, Source, At, InHand
<1>5. Happened(w)'
  BY DEF Happened, At, Preparing
<1> QED BY <1>3, <1>4, <1>5 DEF OnCourse, Committed

LEMMA PendingNat ==
  ASSUME JobTyped, NEW w \in Workers, NEW t \in Transports
  PROVE  /\ Pending(w, t) \in Nat
         /\ Mentions(job[w].todo, t) \in Nat /\ Mentions(job[w].missing, t) \in Nat
         /\ job[w].todo \in Seq(Transports) /\ job[w].missing \in Seq(Transports)
<1>1. job[w].todo \in Seq(Transports) /\ job[w].missing \in Seq(Transports)
  BY DEF JobTyped, Job
<1>2. Mentions(job[w].todo, t) \in Nat /\ Mentions(job[w].missing, t) \in Nat
  BY <1>1, WhereFinite
<1> QED BY <1>1, <1>2 DEF Pending

LEMMA CountedOn ==
  ASSUME TripsTyped, asks \in Asked, asks' = asks, NEW w \in Workers, NEW s \in Sources, Source(w) = s,
         job'[w].source = s, Counted(w), JobTyped, JobTyped',
         history' \in [Transports -> [Sources -> Nat]],
         \A t \in Transports : history'[t][s] + Pending(w, t)' <= history[t][s] + Pending(w, t)
  PROVE  Counted(w)'
<1> SUFFICES ASSUME NEW t \in Transports
             PROVE  history'[t][s] + Pending(w, t)' <= Mentions(Names(s), t)'
  BY DEF Counted, Source
<1>1. Mentions(Names(s), t)' = Mentions(Names(s), t) /\ Mentions(Names(s), t) \in Nat
  BY SourceFacts, WhereFinite DEF Names, Paper, Mentions
<1>2. history[t][s] + Pending(w, t) <= Mentions(Names(s), t)
  BY DEF Counted
<1>3. Pending(w, t) \in Nat /\ history[t][s] \in Nat /\ history'[t][s] \in Nat
  BY PendingNat DEF TripsTyped
<1>4. Pending(w, t)' \in Nat
  <2>1. job'[w].todo \in Seq(Transports) /\ job'[w].missing \in Seq(Transports)
    BY DEF JobTyped, Job
  <2>2. Mentions(job'[w].todo, t) \in Nat /\ Mentions(job'[w].missing, t) \in Nat
    BY <2>1, WhereFinite
  <2> QED BY <2>2 DEF Pending, Mentions, At
<1> QED BY <1>1, <1>2, <1>3, <1>4

(* A history row about a transport of the document. *)
LEMMA RecordsFacts ==
  ASSUME MailInv, DocInv, NEW s \in Sources, s \in rows, NEW t \in Transports,
         Records(t, s), history[t][s] + 1 <= Mentions(Names(s), t),
         UNCHANGED <<asks, files, rows, confirmed, overlapped, faults>>,
         trips' \in [Transports -> [status : TripStatuses, from : Sources \cup {NoSource}]],
         \A u \in Transports : trips'[u].from = trips[u].from,
         \A u \in Transports : Held(u) => Held(u)'
  PROVE  /\ history' \in [Transports -> [Sources -> Nat]]
         /\ history'[t][s] = history[t][s] + 1
         /\ \A u \in Transports \ {t} : history'[u][s] = history[u][s]
         /\ Cites(s)' = Cites(s) \cup {t}
         /\ OwnOnly(s)
         /\ TripsTyped' /\ FilesTyped' /\ ConfirmedOnce' /\ faults' \in 0..MaxFaults
         /\ Cited' /\ Within'
<1>1. TripsTyped
  BY DEF DocInv
<1>2. /\ history' \in [Transports -> [Sources -> Nat]]
      /\ history'[t][s] = history[t][s] + 1
      /\ \A u \in Transports, r \in Sources :
           u # t \/ r # s => history'[u][r] = history[u][r]
      /\ Cites(s)' = Cites(s) \cup {t}
      /\ \A r \in Sources \ {s} : Cites(r)' = Cites(r)
  BY <1>1, CitesRecorded
<1>3. OwnOnly(s)
  BY <1>2 DEF OwnOnly
<1>4. TripsTyped' /\ FilesTyped' /\ ConfirmedOnce' /\ faults' \in 0..MaxFaults
  BY <1>2 DEF DocInv, TripsTyped, FilesTyped, ConfirmedOnce, Bytes, Paper
<1>5. Cited'
  BY <1>2 DEF DocInv, Cited
<1>6. Within'
  <2> SUFFICES ASSUME NEW r \in Sources, NEW u \in Transports
               PROVE  history'[u][r] <= Mentions(Names(r), u)'
    BY DEF Within
  <2>1. Mentions(Names(r), u)' = Mentions(Names(r), u)
    BY DEF Mentions, Names, Paper
  <2>2. history[u][r] <= Mentions(Names(r), u)
    BY DEF DocInv, Within
  <2> QED BY <1>2, <2>1, <2>2
<1> QED BY <1>2, <1>3, <1>4, <1>5, <1>6

LEMMA AppliesDocs ==
  ASSUME MailInv, DocInv, NEW w \in Workers, At(w, "apply"), job[w].todo # <<>>,
         job[w].task # "COST", NEW s \in Sources, s = Source(w),
         NEW t \in Transports, t = Head(job[w].todo), Records(t, s),
         UNCHANGED <<asks, files, rows, confirmed, overlapped, faults>>,
         trips' \in [Transports -> [status : TripStatuses, from : Sources \cup {NoSource}]],
         \A u \in Transports : trips'[u].from = trips[u].from,
         \A u \in Transports : Held(u) => Held(u)',
         NEW did, Turns(w, "apply", job[w].task, Tail(job[w].todo), job[w].missing,
                        job[w].owned, did)
  PROVE  DocInv'
<1>1. Working(w) /\ InHand(w) /\ job[w].phase = "apply" /\ job[w].phase \in Committed
  BY DEF At, Working, Resting, InHand, Committed
<1>2. /\ asks \in Asked /\ JobTyped /\ OneScan /\ Placed /\ Counted(w) /\ TaskFits(w)
      /\ Happened(w) /\ s \in rows /\ TripsTyped
  BY <1>1, AtWork DEF DocInv
<1>3. /\ JobTyped' /\ Others(w) /\ job'[w].phase = "apply" /\ job'[w].source = job[w].source
      /\ job'[w].task = job[w].task /\ job'[w].todo = Tail(job[w].todo)
      /\ job'[w].missing = job[w].missing /\ job'[w].owned = job[w].owned
  BY DEF Turns
<1>4. \A u \in Transports :
        /\ Mentions(job[w].todo, u) =
             Mentions(Tail(job[w].todo), u) + (IF t = u THEN 1 ELSE 0)
        /\ Mentions(Tail(job[w].todo), u) \in Nat /\ Mentions(job[w].missing, u) \in Nat
        /\ history[u][s] \in Nat
  <2>1. job[w].todo \in Seq(Transports) /\ Tail(job[w].todo) \in Seq(Transports)
        /\ job[w].missing \in Seq(Transports)
    BY <1>2 DEF JobTyped, Job
  <2> QED BY <1>2, <2>1, MentionsTail, WhereFinite DEF TripsTyped
<1>5. \A u \in Transports :
        /\ Pending(w, u) = Mentions(job[w].todo, u) + Mentions(job[w].missing, u)
        /\ Pending(w, u)' = Mentions(Tail(job[w].todo), u) + Mentions(job[w].missing, u)
  BY <1>1, <1>3 DEF Pending, At, Mentions
<1>6. history[t][s] + 1 <= Mentions(Names(s), t)
  <2>1. history[t][s] + Pending(w, t) <= Mentions(Names(s), t) /\ Mentions(Names(s), t) \in Nat
    BY <1>2, SourceFacts, WhereFinite DEF Counted
  <2> QED BY <1>4, <1>5, <2>1
<1>7. /\ history' \in [Transports -> [Sources -> Nat]]
      /\ history'[t][s] = history[t][s] + 1
      /\ \A u \in Transports \ {t} : history'[u][s] = history[u][s]
      /\ Cites(s)' = Cites(s) \cup {t}
      /\ OwnOnly(s)
      /\ TripsTyped' /\ FilesTyped' /\ ConfirmedOnce' /\ faults' \in 0..MaxFaults
      /\ Cited' /\ Within'
  BY <1>2, <1>6, RecordsFacts
<1>8. Counted(w)'
  <2>1. ASSUME NEW u \in Transports
        PROVE  history'[u][s] + Pending(w, u)' <= history[u][s] + Pending(w, u)
    <3> DEFINE a == Mentions(Tail(job[w].todo), u)
               b == Mentions(job[w].missing, u)
               h == history[u][s]
    <3>1. a \in Nat /\ b \in Nat /\ h \in Nat /\ Pending(w, u)' = a + b
      BY <1>4, <1>5
    <3>2. CASE u = t
      <4>1. history'[u][s] = h + 1 /\ Pending(w, u) = (a + 1) + b
        BY <1>4, <1>5, <1>7, <3>2
      <4> QED BY <3>1, <4>1
    <3>3. CASE u # t
      <4>1. history'[u][s] = h /\ Pending(w, u) = (a + 0) + b
        BY <1>4, <1>5, <1>7, <3>3
      <4> QED BY <3>1, <4>1
    <3> QED BY <3>2, <3>3
  <2> QED BY <1>2, <1>3, <1>7, <2>1, CountedOn DEF Source
<1>9. Task(s)' = Task(s) /\ Names(s)' = Names(s) /\ Paper(s)' = Paper(s) /\ Source(w)' = s
  BY <1>3 DEF Task, Names, Paper, Source
<1>10. TaskFits(w)'
  BY <1>1, <1>2, <1>3, <1>9 DEF TaskFits, At, InHand
<1>11. Happened(w)'
  <2>1. job[w].todo \in Seq(Transports)
    BY <1>2 DEF JobTyped, Job
  <2>2. ToSet(job[w].todo) = {t} \cup ToSet(Tail(job[w].todo))
    BY <2>1, HeadOfTodo
  <2>3. /\ job[w].task \notin {"CANCEL", "COST"} =>
                ToSet(Names(s)) \subseteq
                  Cites(s) \cup ToSet(job[w].todo) \cup ToSet(job[w].missing)
        /\ job[w].task # "UPDATE" => job[w].missing = <<>>
    BY <1>1, <1>2 DEF Happened, At
  <2>5. /\ job'[w].task \notin {"CANCEL", "COST"} =>
                ToSet(Names(s)) \subseteq
                  Cites(s)' \cup ToSet(job'[w].todo) \cup ToSet(job'[w].missing)
        /\ job'[w].task # "UPDATE" => job'[w].missing = <<>>
        /\ Cites(s)' # {}
    BY <1>3, <1>7, <2>2, <2>3
  <2> QED BY <1>3, <1>9, <2>5 DEF Happened, At, Preparing, Source, Names, Paper
<1>12. OnCourse(w)'
  BY <1>2, <1>3, <1>8, <1>9, <1>10, <1>11 DEF OnCourse
<1>13. Kept'
  <2>1. StaysInHand(w)
    BY <1>1, <1>3 DEF StaysInHand, At, Committed
  <2> QED BY <1>3, <2>1, KeptQuiet DEF DocInv
<1> QED BY <1>1, <1>2, <1>3, <1>7, <1>12, <1>13, DocStep

LEMMA StatusKept ==
  ASSUME TripsTyped, NEW t \in Transports, NEW st \in TripStatuses \ {"NONE"},
         trips' = trips \/ trips' = [trips EXCEPT ![t].status = st]
  PROVE  /\ trips' \in [Transports -> [status : TripStatuses, from : Sources \cup {NoSource}]]
         /\ \A u \in Transports : trips'[u].from = trips[u].from
         /\ \A u \in Transports : Held(u) => Held(u)'
<1>1. CASE trips' = trips
  BY <1>1 DEF TripsTyped, Held
<1>2. CASE trips' = [trips EXCEPT ![t].status = st]
  <2>1. /\ trips' \in [Transports -> [status : TripStatuses, from : Sources \cup {NoSource}]]
        /\ \A u \in Transports : trips'[u].from = trips[u].from
    BY <1>2 DEF TripsTyped
  <2>2. \A u \in Transports : trips'[u].status = st \/ trips'[u] = trips[u]
    BY <1>2 DEF TripsTyped
  <2> QED BY <2>1, <2>2 DEF Held
<1> QED BY <1>1, <1>2

LEMMA ApplyNewOrderDocs ==
  ASSUME MailInv, DocInv, NEW w \in Workers, ApplyNewOrder(w)
  PROVE  DocInv'
<1>1. /\ At(w, "apply") /\ job[w].todo # <<>> /\ job[w].task = "AGAIN" /\ Working(w)
  BY DEF ApplyNewOrder, Applies, At, Working, Resting
<1>2. asks \in Asked /\ JobTyped /\ Source(w) \in Sources /\ TripsTyped
  BY <1>1, AtWork DEF DocInv
<1>3. PICK t \in Transports : t = Head(job[w].todo)
  BY <1>1, <1>2 DEF JobTyped, Job
<1>4. /\ trips' = trips \/ trips' = [trips EXCEPT ![t].status = "OPEN"]
      /\ Records(t, Source(w)) /\ Advances(w)
      /\ UNCHANGED <<asks, files, rows, confirmed, overlapped, faults>>
  BY <1>3 DEF ApplyNewOrder, AppliesOnly, observed
<1>5. /\ trips' \in [Transports -> [status : TripStatuses, from : Sources \cup {NoSource}]]
      /\ \A u \in Transports : trips'[u].from = trips[u].from
      /\ \A u \in Transports : Held(u) => Held(u)'
  <2>1. "OPEN" \in TripStatuses \ {"NONE"}
    BY DEF TripStatuses
  <2> QED BY <1>2, <1>4, <2>1, StatusKept
<1>6. Turns(w, "apply", job[w].task, Tail(job[w].todo), job[w].missing, job[w].owned, job[w].did)
  BY <1>1, <1>2, <1>4, AdvancesTurns DEF At
<1> QED BY <1>1, <1>2, <1>3, <1>4, <1>5, <1>6, AppliesDocs

LEMMA ApplyCancellationDocs ==
  ASSUME MailInv, DocInv, NEW w \in Workers, ApplyCancellation(w), Held(Head(job[w].todo))
  PROVE  DocInv'
<1>1. /\ At(w, "apply") /\ job[w].todo # <<>> /\ job[w].task = "CANCEL" /\ Working(w)
  BY DEF ApplyCancellation, Applies, At, Working, Resting
<1>2. asks \in Asked /\ JobTyped /\ Source(w) \in Sources /\ TripsTyped
  BY <1>1, AtWork DEF DocInv
<1>3. PICK t \in Transports : t = Head(job[w].todo)
  BY <1>1, <1>2 DEF JobTyped, Job
<1>4. /\ trips' = trips \/ trips' = [trips EXCEPT ![t].status = "CANCELLED"]
      /\ Records(t, Source(w))
      /\ job' = [job EXCEPT ![w].todo = Tail(@), ![w].did = TRUE]
      /\ UNCHANGED <<asks, files, rows, confirmed, overlapped, faults>>
  BY <1>3 DEF ApplyCancellation, AppliesOnly, observed
<1>5. /\ trips' \in [Transports -> [status : TripStatuses, from : Sources \cup {NoSource}]]
      /\ \A u \in Transports : trips'[u].from = trips[u].from
      /\ \A u \in Transports : Held(u) => Held(u)'
  <2>1. "CANCELLED" \in TripStatuses \ {"NONE"}
    BY DEF TripStatuses
  <2> QED BY <1>2, <1>4, <2>1, StatusKept
<1>6. Turns(w, "apply", job[w].task, Tail(job[w].todo), job[w].missing, job[w].owned, TRUE)
  BY <1>1, <1>2, <1>4, CancelsTurns DEF At
<1> QED BY <1>1, <1>2, <1>3, <1>4, <1>5, <1>6, AppliesDocs

LEMMA ApplyRevisionDocs ==
  ASSUME MailInv, DocInv, NEW w \in Workers, ApplyRevision(w), Held(Head(job[w].todo))
  PROVE  DocInv'
<1>1. /\ At(w, "apply") /\ job[w].todo # <<>> /\ job[w].task = "UPDATE" /\ Working(w)
  BY DEF ApplyRevision, Applies, At, Working, Resting
<1>2. asks \in Asked /\ JobTyped /\ Source(w) \in Sources /\ TripsTyped
  BY <1>1, AtWork DEF DocInv
<1>3. PICK t \in Transports : t = Head(job[w].todo)
  BY <1>1, <1>2 DEF JobTyped, Job
<1>4. /\ trips' = trips \/ trips' = [trips EXCEPT ![t].status = "OPEN"]
      /\ Records(t, Source(w)) /\ Advances(w)
      /\ UNCHANGED <<asks, files, rows, confirmed, overlapped, faults>>
  BY <1>3 DEF ApplyRevision, AppliesOnly, observed
<1>5. /\ trips' \in [Transports -> [status : TripStatuses, from : Sources \cup {NoSource}]]
      /\ \A u \in Transports : trips'[u].from = trips[u].from
      /\ \A u \in Transports : Held(u) => Held(u)'
  <2>1. "OPEN" \in TripStatuses \ {"NONE"}
    BY DEF TripStatuses
  <2> QED BY <1>2, <1>4, <2>1, StatusKept
<1>6. Turns(w, "apply", job[w].task, Tail(job[w].todo), job[w].missing, job[w].owned, job[w].did)
  BY <1>1, <1>2, <1>4, AdvancesTurns DEF At
<1> QED BY <1>1, <1>2, <1>3, <1>4, <1>5, <1>6, AppliesDocs

(* A transport nobody holds: passed over by a cancellation ... *)
LEMMA CancelsNothingDocs ==
  ASSUME MailInv, DocInv, NEW w \in Workers, ApplyCancellation(w), ~Held(Head(job[w].todo))
  PROVE  DocInv'
<1> DEFINE s == Source(w)
<1>1. /\ job[w].phase = "apply" /\ job[w].todo # <<>> /\ job[w].task = "CANCEL"
      /\ Working(w) /\ InHand(w)
  BY DEF ApplyCancellation, Applies, At, Working, Resting, InHand
<1>2. /\ asks \in Asked /\ JobTyped /\ OneScan /\ Placed /\ Counted(w) /\ TaskFits(w)
      /\ Happened(w) /\ s \in rows /\ s \in Sources /\ TripsTyped
  BY <1>1, AtWork DEF DocInv, Committed
<1>3. DocsSame /\ faults' \in 0..MaxFaults /\ Advances(w)
  BY FaultCounts DEF ApplyCancellation, AppliesOnly, DocsSame, observed
<1>4. Turns(w, "apply", job[w].task, Tail(job[w].todo), job[w].missing, job[w].owned, job[w].did)
  BY <1>1, <1>2, <1>3, AdvancesTurns
<1>5. /\ JobTyped' /\ Others(w) /\ job'[w].phase = "apply" /\ job'[w].source = job[w].source
      /\ job'[w].task = job[w].task /\ job'[w].todo = Tail(job[w].todo)
      /\ job'[w].missing = job[w].missing /\ job'[w].owned = job[w].owned
      /\ job'[w].did = job[w].did
  BY <1>4 DEF Turns
<1>6. job[w].todo \in Seq(Transports) /\ job[w].missing \in Seq(Transports)
  BY <1>2 DEF JobTyped, Job
<1>7. Counted(w)'
  <2>1. ASSUME NEW u \in Transports
        PROVE  history'[u][s] + Pending(w, u)' <= history[u][s] + Pending(w, u)
    <3> DEFINE a == Mentions(Tail(job[w].todo), u)
               b == Mentions(job[w].missing, u)
               h == history[u][s]
    <3>1. /\ Pending(w, u)' = a + b /\ Pending(w, u) = Mentions(job[w].todo, u) + b
          /\ history'[u][s] = h /\ h \in Nat
      BY <1>1, <1>2, <1>3, <1>5 DEF Pending, At, Mentions, DocsSame, TripsTyped
    <3>2. a \in Nat /\ b \in Nat
      BY <1>1, <1>6, HeadOfTodo, WhereFinite
    <3>3. Mentions(job[w].todo, u) = a \/ Mentions(job[w].todo, u) = a + 1
      BY <1>1, <1>6, <3>2, MentionsTail
    <3> QED BY <3>1, <3>2, <3>3
  <2> QED BY <1>2, <1>3, <1>5, <2>1, CountedOn DEF Source, DocsSame, TripsTyped
<1>8. /\ Source(w)' = s /\ Task(s)' = Task(s) /\ Names(s)' = Names(s) /\ Paper(s)' = Paper(s)
      /\ Cites(s)' = Cites(s)
  BY <1>2, <1>3, <1>5, CitesSame DEF Source, Task, Names, Paper, DocsSame
<1>9. TaskFits(w)'
  BY <1>1, <1>2, <1>5, <1>8 DEF TaskFits, At, InHand
<1>10. Happened(w)'
  <2>2. job[w].missing = <<>>
    BY <1>1, <1>2 DEF Happened, At
  <2>3. job[w].did => Cites(s) # {}
    BY <1>1, <1>2 DEF Happened, At
  <2> QED BY <1>1, <1>5, <1>8, <2>2, <2>3 DEF Happened, At, Preparing
<1>11. OnCourse(w)' /\ StaysInHand(w)
  BY <1>1, <1>2, <1>3, <1>5, <1>7, <1>8, <1>9, <1>10
  DEF OnCourse, StaysInHand, At, Committed, DocsSame
<1> QED BY <1>2, <1>3, <1>5, <1>11, QuietDocs DEF DocsSame

(* ... and put aside by a revision. *)
LEMMA MissesDocs ==
  ASSUME MailInv, DocInv, NEW w \in Workers, ApplyRevision(w), ~Held(Head(job[w].todo))
  PROVE  DocInv'
<1> DEFINE s == Source(w)
           t == Head(job[w].todo)
<1>1. /\ job[w].phase = "apply" /\ job[w].todo # <<>> /\ job[w].task = "UPDATE"
      /\ Working(w) /\ InHand(w)
  BY DEF ApplyRevision, Applies, At, Working, Resting, InHand
<1>2. /\ asks \in Asked /\ JobTyped /\ OneScan /\ Placed /\ Counted(w) /\ TaskFits(w)
      /\ Happened(w) /\ s \in rows /\ s \in Sources /\ TripsTyped
  BY <1>1, AtWork DEF DocInv, Committed
<1>3. /\ DocsSame /\ faults' \in 0..MaxFaults
      /\ job' = [job EXCEPT ![w].todo = Tail(@), ![w].missing = Append(@, Head(job[w].todo))]
  BY FaultCounts DEF ApplyRevision, AppliesOnly, DocsSame, observed
<1>4. Turns(w, "apply", job[w].task, Tail(job[w].todo), Append(job[w].missing, t),
            job[w].owned, job[w].did)
  BY <1>1, <1>2, <1>3, MissesTurns
<1>5. /\ JobTyped' /\ Others(w) /\ job'[w].phase = "apply" /\ job'[w].source = job[w].source
      /\ job'[w].task = job[w].task /\ job'[w].todo = Tail(job[w].todo)
      /\ job'[w].missing = Append(job[w].missing, t) /\ job'[w].owned = job[w].owned
      /\ job'[w].did = job[w].did
  BY <1>4 DEF Turns
<1>6. job[w].todo \in Seq(Transports) /\ job[w].missing \in Seq(Transports)
  BY <1>2 DEF JobTyped, Job
<1>7. t \in Transports /\ ToSet(job[w].todo) = {t} \cup ToSet(Tail(job[w].todo))
      /\ Tail(job[w].todo) \in Seq(Transports)
  BY <1>1, <1>6, HeadOfTodo
<1>8. Counted(w)'
  <2>1. ASSUME NEW u \in Transports
        PROVE  history'[u][s] + Pending(w, u)' <= history[u][s] + Pending(w, u)
    <3> DEFINE a == Mentions(Tail(job[w].todo), u)
               b == Mentions(job[w].missing, u)
               k == IF t = u THEN 1 ELSE 0
               h == history[u][s]
    <3>1. /\ Pending(w, u)' = a + Mentions(Append(job[w].missing, t), u)
          /\ Pending(w, u) = Mentions(job[w].todo, u) + b
          /\ history'[u][s] = h /\ h \in Nat
      BY <1>1, <1>2, <1>3, <1>5 DEF Pending, At, Mentions, DocsSame, TripsTyped
    <3>2. a \in Nat /\ b \in Nat /\ k \in Nat
      BY <1>6, <1>7, WhereFinite
    <3>3. Mentions(job[w].todo, u) = a + k /\ Mentions(Append(job[w].missing, t), u) = b + k
      BY <1>1, <1>6, <1>7, MentionsTail, MentionsAppend
    <3>4. Pending(w, u)' = a + (b + k) /\ Pending(w, u) = (a + k) + b
      BY <3>1, <3>3
    <3>5. Pending(w, u)' = Pending(w, u)
      <4> HIDE DEF a, b, k
      <4> QED BY <3>2, <3>4
    <3>6. Pending(w, u) \in Nat
      BY <1>2, PendingNat
    <3> QED BY <3>1, <3>5, <3>6
  <2> QED BY <1>2, <1>3, <1>5, <2>1, CountedOn DEF Source, DocsSame, TripsTyped
<1>9. /\ Source(w)' = s /\ Task(s)' = Task(s) /\ Names(s)' = Names(s) /\ Paper(s)' = Paper(s)
      /\ Cites(s)' = Cites(s)
  BY <1>2, <1>3, <1>5, CitesSame DEF Source, Task, Names, Paper, DocsSame
<1>10. TaskFits(w)'
  BY <1>1, <1>2, <1>5, <1>9 DEF TaskFits, At, InHand
<1>11. Happened(w)'
  <2>1. ToSet(Names(s)) \subseteq Cites(s) \cup ToSet(job[w].todo) \cup ToSet(job[w].missing)
    BY <1>1, <1>2 DEF Happened, At
  <2>2. ToSet(Append(job[w].missing, t)) = ToSet(job[w].missing) \cup {t}
    BY <1>6, <1>7, AppendedSet
  <2>3. ToSet(Names(s)) \subseteq
          Cites(s) \cup ToSet(Tail(job[w].todo)) \cup ToSet(Append(job[w].missing, t))
    BY <1>7, <2>1, <2>2
  <2> QED BY <1>1, <1>5, <1>9, <2>3 DEF Happened, At, Preparing
<1>12. OnCourse(w)' /\ StaysInHand(w)
  BY <1>1, <1>2, <1>3, <1>5, <1>8, <1>9, <1>10, <1>11
  DEF OnCourse, StaysInHand, At, Committed, DocsSame
<1> QED BY <1>2, <1>3, <1>5, <1>12, QuietDocs DEF DocsSame

(* A CLOSED transport refuses the document, which its history cites. *)
LEMMA RevisionRefusedDocs ==
  ASSUME MailInv, DocInv, NEW w \in Workers, RevisionRefused(w)
  PROVE  DocInv'
<1>1. /\ job[w].phase = "apply" /\ job[w].todo # <<>> /\ Working(w)
  BY DEF RevisionRefused, Applies, At, Working, Resting
<1>2. /\ asks \in Asked /\ JobTyped /\ OneScan /\ Placed /\ Counted(w) /\ TaskFits(w)
      /\ Source(w) \in rows /\ Source(w) \in Sources /\ TripsTyped
  BY <1>1, AtWork DEF DocInv, Committed
<1>3. PICK s \in Sources : s = Source(w)
  BY <1>2
<1>4. PICK t \in Transports : t = Head(job[w].todo)
  BY <1>1, <1>2 DEF JobTyped, Job
<1>5. /\ Records(t, s) /\ Breaks(w, "failed", "other")
      /\ UNCHANGED <<asks, files, rows, trips, confirmed, overlapped, faults>>
  BY <1>3, <1>4 DEF RevisionRefused, AppliesOnly, observed
<1>6. history[t][s] + 1 <= Mentions(Names(s), t)
  <2>1. job[w].todo \in Seq(Transports) /\ job[w].missing \in Seq(Transports)
    BY <1>2 DEF JobTyped, Job
  <2>2. /\ Mentions(job[w].todo, t) = Mentions(Tail(job[w].todo), t) + 1
        /\ Mentions(Tail(job[w].todo), t) \in Nat /\ Mentions(job[w].missing, t) \in Nat
    BY <1>1, <1>4, <2>1, MentionsTail, HeadOfTodo, WhereFinite
  <2>3. Pending(w, t) = Mentions(job[w].todo, t) + Mentions(job[w].missing, t)
    BY <1>1 DEF Pending, At
  <2>4. /\ history[t][s] + Pending(w, t) <= Mentions(Names(s), t)
        /\ Mentions(Names(s), t) \in Nat /\ history[t][s] \in Nat
    BY <1>2, <1>3, SourceFacts, WhereFinite DEF Counted, TripsTyped
  <2> QED BY <2>2, <2>3, <2>4
<1>7. /\ trips' \in [Transports -> [status : TripStatuses, from : Sources \cup {NoSource}]]
      /\ \A u \in Transports : trips'[u].from = trips[u].from
      /\ \A u \in Transports : Held(u) => Held(u)'
  BY <1>2, <1>5 DEF TripsTyped, Held
<1>8. /\ history' \in [Transports -> [Sources -> Nat]]
      /\ OwnOnly(s)
      /\ TripsTyped' /\ FilesTyped' /\ ConfirmedOnce' /\ faults' \in 0..MaxFaults
      /\ Cited' /\ Within'
  BY <1>2, <1>3, <1>5, <1>6, <1>7, RecordsFacts
<1>9. Turns(w, "failed", job[w].task, <<>>, <<>>, job[w].owned, job[w].did)
  BY <1>2, <1>5, BreaksTurns DEF Phases, Errors
<1>10. /\ Others(w) /\ job'[w].phase = "failed" /\ job'[w].source = job[w].source
       /\ job'[w].task = job[w].task
  BY <1>9 DEF Turns
<1>11. OnCourse(w)'
  BY <1>2, <1>3, <1>5, <1>8, <1>10, FailsOnCourse
<1>12. Kept'
  <2>1. StaysInHand(w)
    BY <1>10 DEF StaysInHand, InHand
  <2> QED BY <1>5, <1>10, <2>1, KeptQuiet DEF DocInv
<1> QED BY <1>1, <1>2, <1>3, <1>5, <1>8, <1>10, <1>11, <1>12, DocStep

(* A confirmed amount, and the history row that cites the confirmation. *)
LEMMA RecordConfirmationDocs ==
  ASSUME MailInv, DocInv, NEW w \in Workers, RecordConfirmation(w)
  PROVE  DocInv'
<1>1. /\ job[w].phase = "apply" /\ job[w].todo # <<>> /\ job[w].task = "COST"
      /\ Working(w) /\ InHand(w)
  BY DEF RecordConfirmation, Applies, At, Working, Resting, InHand
<1>2. /\ asks \in Asked /\ JobTyped /\ OneScan /\ Placed /\ Counted(w) /\ TaskFits(w)
      /\ Source(w) \in rows /\ Source(w) \in Sources /\ TripsTyped
  BY <1>1, AtWork DEF DocInv, Committed
<1>3. PICK s \in Sources : s = Source(w)
  BY <1>2
<1>4. PICK t \in Transports : t = Head(job[w].todo)
  BY <1>1, <1>2 DEF JobTyped, Job
<1>5. /\ confirmed' = IF Duplicate(t, Paper(s).number) THEN confirmed
                      ELSE confirmed \cup
                             {[trip |-> t, number |-> Paper(s).number, source |-> s]}
      /\ Goes(w, "cite")
      /\ UNCHANGED <<asks, files, rows, trips, history, overlapped, faults>>
  BY <1>3, <1>4 DEF RecordConfirmation, AppliesOnly, observed
<1>6. Turns(w, "cite", job[w].task, job[w].todo, job[w].missing, job[w].owned, job[w].did)
  BY <1>2, <1>5, GoesTurns DEF Phases
<1>7. /\ JobTyped' /\ Others(w) /\ job'[w].phase = "cite" /\ job'[w].source = job[w].source
      /\ job'[w].task = job[w].task /\ job'[w].todo = job[w].todo
      /\ job'[w].missing = job[w].missing /\ job'[w].owned = job[w].owned
  BY <1>6 DEF Turns
<1>8. /\ TripsTyped' /\ Cites(s) \subseteq Cites(s)'
      /\ \A r \in Sources \ {s} : Cites(r)' = Cites(r)
  BY <1>2, <1>5, CitesConfirmed
<1>9. OwnOnly(s)
  BY <1>5, <1>8 DEF OwnOnly
<1>10. FilesTyped' /\ faults' \in 0..MaxFaults /\ Within'
  BY <1>5 DEF DocInv, FilesTyped, Within, Names, Bytes, Paper, Mentions
<1>11. Cited'
  <2>1. s \in rows'
    BY <1>2, <1>3, <1>5
  <2> QED BY <1>5, <1>8, <2>1 DEF DocInv, Cited, Held
<1>12. ConfirmedOnce'
  <2>1. CASE Duplicate(t, Paper(s).number)
    BY <1>5, <2>1 DEF DocInv, ConfirmedOnce
  <2>2. CASE ~Duplicate(t, Paper(s).number)
    <3>1. \A c \in confirmed : ~(c.trip = t /\ c.number = Paper(s).number)
      BY <2>2 DEF Duplicate
    <3> QED BY <1>5, <2>2, <3>1 DEF DocInv, ConfirmedOnce
  <2> QED BY <2>1, <2>2
<1>13. Counted(w)'
  <2>1. ASSUME NEW u \in Transports
        PROVE  history'[u][s] + Pending(w, u)' <= history[u][s] + Pending(w, u)
    <3>1. /\ Pending(w, u)' = Mentions(job[w].todo, u)
          /\ Pending(w, u) = Mentions(job[w].todo, u) + Mentions(job[w].missing, u)
          /\ history'[u][s] = history[u][s] /\ history[u][s] \in Nat
      BY <1>1, <1>2, <1>5, <1>7 DEF Pending, At, Mentions, TripsTyped
    <3>2. Mentions(job[w].todo, u) \in Nat /\ Mentions(job[w].missing, u) \in Nat
      BY <1>2, PendingNat
    <3> QED BY <3>1, <3>2
  <2> QED BY <1>2, <1>3, <1>5, <1>7, <2>1, CountedOn DEF Source, TripsTyped
<1>14. Source(w)' = s /\ Task(s)' = Task(s) /\ Names(s)' = Names(s) /\ Paper(s)' = Paper(s)
  BY <1>3, <1>5, <1>7 DEF Source, Task, Names, Paper
<1>15. TaskFits(w)'
  BY <1>1, <1>2, <1>3, <1>7, <1>14 DEF TaskFits, At, InHand
<1>16. Happened(w)'
  BY <1>1, <1>7 DEF Happened, At, Preparing
<1>17. OnCourse(w)' /\ StaysInHand(w)
  BY <1>1, <1>2, <1>3, <1>5, <1>7, <1>13, <1>14, <1>15, <1>16
  DEF OnCourse, StaysInHand, At, Committed
<1>18. Kept'
  BY <1>5, <1>7, <1>17, KeptQuiet DEF DocInv
<1> QED BY <1>1, <1>2, <1>3, <1>5, <1>7, <1>8, <1>9, <1>10, <1>11, <1>12, <1>17, <1>18, DocStep

LEMMA RecordInHistoryDocs ==
  ASSUME MailInv, DocInv, NEW w \in Workers, RecordInHistory(w)
  PROVE  DocInv'
<1>1. job[w].phase = "cite" /\ Working(w) /\ InHand(w)
  BY DEF RecordInHistory, At, Working, Resting, InHand
<1>2. /\ asks \in Asked /\ JobTyped /\ OneScan /\ Placed /\ Counted(w) /\ TaskFits(w)
      /\ Source(w) \in rows /\ Source(w) \in Sources /\ TripsTyped /\ Happened(w)
  BY <1>1, AtWork DEF DocInv, Committed
<1>3. PICK s \in Sources : s = Source(w)
  BY <1>2
<1>4. job[w].todo # <<>> /\ job[w].todo \in Seq(Transports) /\ job[w].task = "COST"
  BY <1>1, <1>2 DEF Happened, TaskFits, At, JobTyped, Job
<1>5. PICK t \in Transports : t = Head(job[w].todo)
  BY <1>4
<1>6. /\ Records(t, s) /\ Finished(w)
      /\ UNCHANGED <<asks, files, rows, trips, confirmed, overlapped, faults>>
  BY <1>3, <1>5 DEF RecordInHistory, AppliesOnly, observed
<1>7. history[t][s] + 1 <= Mentions(Names(s), t)
  <2>1. /\ Mentions(job[w].todo, t) = Mentions(Tail(job[w].todo), t) + 1
        /\ Mentions(Tail(job[w].todo), t) \in Nat
    BY <1>4, <1>5, MentionsTail, HeadOfTodo, WhereFinite
  <2>2. Pending(w, t) = Mentions(job[w].todo, t)
    BY <1>1 DEF Pending, At
  <2>3. /\ history[t][s] + Pending(w, t) <= Mentions(Names(s), t)
        /\ Mentions(Names(s), t) \in Nat /\ history[t][s] \in Nat
    BY <1>2, <1>3, SourceFacts, WhereFinite DEF Counted, TripsTyped
  <2> QED BY <2>1, <2>2, <2>3
<1>8. /\ trips' \in [Transports -> [status : TripStatuses, from : Sources \cup {NoSource}]]
      /\ \A u \in Transports : trips'[u].from = trips[u].from
      /\ \A u \in Transports : Held(u) => Held(u)'
  BY <1>2, <1>6 DEF TripsTyped, Held
<1>9. /\ history' \in [Transports -> [Sources -> Nat]]
      /\ Cites(s)' = Cites(s) \cup {t}
      /\ OwnOnly(s)
      /\ TripsTyped' /\ FilesTyped' /\ ConfirmedOnce' /\ faults' \in 0..MaxFaults
      /\ Cited' /\ Within'
  BY <1>2, <1>3, <1>6, <1>7, <1>8, RecordsFacts
<1>10. CarriedOut(s)'
  <2>1. Task(s)' = "COST"
    BY <1>2, <1>3, <1>4, <1>6 DEF TaskFits, Task, Paper
  <2> QED BY <1>2, <1>3, <1>6, <1>9, <2>1 DEF CarriedOut
<1>11. OnCourse(w)' /\ Others(w) /\ ~InHand(w)'
  BY <1>2, <1>3, <1>6, <1>9, <1>10, FinishedOnCourse
<1>12. Kept'
  BY <1>6, <1>11, KeptQuiet DEF DocInv, StaysInHand
<1> QED BY <1>1, <1>2, <1>3, <1>6, <1>9, <1>11, <1>12, DocStep

LEMMA AppliedDocs ==
  ASSUME MailInv, DocInv, NEW w \in Workers, Applied(w)
  PROVE  DocInv'
<1>1. job[w].phase = "apply" /\ Working(w) /\ InHand(w) /\ job[w].todo = <<>>
  BY DEF Applied, At, Working, Resting, InHand
<1>2. /\ asks \in Asked /\ JobTyped /\ OneScan /\ Placed /\ Counted(w) /\ TaskFits(w)
      /\ Source(w) \in rows /\ Source(w) \in Sources /\ TripsTyped /\ Happened(w)
  BY <1>1, AtWork DEF DocInv, Committed
<1>3. PICK s \in Sources : s = Source(w)
  BY <1>2
<1>4. DocsSame /\ faults' \in 0..MaxFaults
  BY FaultCounts DEF Applied, DocsSame, database, observed
<1>5. /\ Task(s)' = Task(s) /\ Names(s)' = Names(s) /\ Paper(s)' = Paper(s)
      /\ Cites(s)' = Cites(s) /\ Within' /\ history' \in [Transports -> [Sources -> Nat]]
  BY <1>2, <1>4, CitesSame
  DEF Task, Names, Paper, DocsSame, DocInv, Within, TripsTyped, Mentions
<1>6. /\ job[w].task \notin {"CANCEL", "COST"} =>
                ToSet(Names(s)) \subseteq Cites(s) \cup ToSet(job[w].missing)
      /\ job[w].task # "UPDATE" => job[w].missing = <<>>
      /\ job[w].task = "CANCEL" /\ job[w].did => Cites(s) # {}
      /\ job[w].task # "COST"
  BY <1>1, <1>2, <1>3, EmptyToSet DEF Happened, At
<1>7. CASE job[w].missing # <<>>
  <2>1. Turns(w, "missing", job[w].task, job[w].todo, job[w].missing, job[w].owned, job[w].did)
    BY <1>2, <1>7, GoesTurns DEF Applied, Phases
  <2>2. /\ JobTyped' /\ Others(w) /\ job'[w].phase = "missing" /\ job'[w].source = job[w].source
        /\ job'[w].task = job[w].task /\ job'[w].missing = job[w].missing
        /\ job'[w].owned = job[w].owned
    BY <2>1 DEF Turns
  <2>3. Source(w)' = s
    BY <1>3, <2>2 DEF Source
  <2>4. Counted(w)'
    <3>1. ASSUME NEW u \in Transports
          PROVE  history'[u][s] + Pending(w, u)' <= history[u][s] + Pending(w, u)
      <4>1. /\ Pending(w, u)' = Mentions(job[w].missing, u)
            /\ Pending(w, u) = Mentions(job[w].todo, u) + Mentions(job[w].missing, u)
            /\ history'[u][s] = history[u][s] /\ history[u][s] \in Nat
        BY <1>1, <1>2, <1>4, <2>2 DEF Pending, At, Mentions, TripsTyped, DocsSame
      <4>2. Mentions(job[w].todo, u) \in Nat /\ Mentions(job[w].missing, u) \in Nat
        BY <1>2, PendingNat
      <4> QED BY <4>1, <4>2
    <3> QED BY <1>2, <1>3, <1>4, <1>5, <2>2, <3>1, CountedOn DEF Source, DocsSame
  <2>5. TaskFits(w)'
    BY <1>1, <1>2, <1>3, <1>5, <1>6, <1>7, <2>2, <2>3 DEF TaskFits, At, InHand
  <2>6. Happened(w)'
    BY <1>5, <1>6, <1>7, <2>2, <2>3 DEF Happened, At, Preparing
  <2>7. OnCourse(w)' /\ StaysInHand(w)
    BY <1>1, <1>2, <1>3, <1>4, <2>2, <2>3, <2>4, <2>5, <2>6
    DEF OnCourse, StaysInHand, At, Committed, DocsSame
  <2> QED BY <1>2, <1>4, <2>2, <2>7, QuietDocs DEF DocsSame
<1>8. CASE job[w].missing = <<>>
  <2>1. Finished(w)
    BY <1>8 DEF Applied
  <2>2. \/ job[w].task = "CANCEL" /\ ~job[w].did
        \/ CarriedOut(s)'
    <3>1. s \in rows'
      BY <1>2, <1>3, <1>4 DEF DocsSame
    <3>2. CASE job[w].task = "CANCEL"
      BY <1>2, <1>3, <1>5, <1>6, <3>1, <3>2 DEF CarriedOut, TaskFits
    <3>3. CASE job[w].task # "CANCEL"
      <4>1. ToSet(Names(s)) \subseteq Cites(s)
        BY <1>6, <1>8, <3>3, EmptyToSet
      <4>2. Task(s) \notin {"CANCEL", "COST"}
        BY <1>2, <1>3, <1>6, <3>3 DEF TaskFits
      <4> QED BY <1>5, <3>1, <4>1, <4>2 DEF CarriedOut
    <3> QED BY <3>2, <3>3
  <2>3. OnCourse(w)' /\ Others(w) /\ ~InHand(w)'
    BY <1>2, <1>3, <1>4, <1>5, <2>1, <2>2, FinishedOnCourse DEF DocsSame
  <2> QED BY <1>2, <1>4, <2>3, QuietDocs DEF DocsSame, StaysInHand
<1> QED BY <1>7, <1>8

(* The transports a revision found missing are created from it ... *)
LEMMA CreateMissingDocs ==
  ASSUME MailInv, DocInv, NEW w \in Workers, CreateMissing(w)
  PROVE  DocInv'
<1>1. job[w].phase = "missing" /\ Working(w) /\ InHand(w)
  BY DEF CreateMissing, At, Working, Resting, InHand
<1>2. /\ asks \in Asked /\ JobTyped /\ OneScan /\ Placed /\ Counted(w) /\ TaskFits(w)
      /\ Source(w) \in rows /\ Source(w) \in Sources /\ TripsTyped /\ Happened(w)
  BY <1>1, AtWork DEF DocInv, Committed
<1>3. PICK s \in Sources : s = Source(w)
  BY <1>2
<1>4. UNCHANGED <<asks, files, rows, history, confirmed, overlapped, faults>>
  BY DEF CreateMissing, AppliesOnly, observed
<1>5. CASE Taken(job[w].missing)
  <2>1. Breaks(w, "forget", "duplicate") /\ DocsSame /\ faults' \in 0..MaxFaults
    BY <1>4, <1>5, FaultCounts DEF CreateMissing, DocsSame
  <2> QED BY <1>1, <1>2, <2>1, BreaksDocs DEF Errors, At, Committed
<1>6. CASE ~Taken(job[w].missing)
  <2> DEFINE ts == ToSet(job[w].missing)
  <2>1. /\ trips' = CreatedBy(s, ts)
        /\ job' = [job EXCEPT ![w].phase = "note", ![w].todo = job[w].missing]
    BY <1>3, <1>6 DEF CreateMissing
  <2>2. ts \in SUBSET Transports /\ \A t \in ts : ~Held(t)
    <3>1. job[w].missing \in Seq(Transports)
      BY <1>2 DEF JobTyped, Job
    <3> QED BY <1>6, <3>1, NamedTransports DEF Taken
  <2>3. /\ TripsTyped'
        /\ \A t \in Transports : ~Held(t)' => trips'[t].from = NoSource
        /\ Cites(s)' = Cites(s) \cup ts
        /\ \A r \in Sources \ {s} : Cites(r)' = Cites(r)
    BY <1>4, <2>1, <2>2, CitesCreated DEF DocInv
  <2>4. Turns(w, "note", job[w].task, job[w].missing, job[w].missing, job[w].owned, job[w].did)
    BY <1>2, <2>1, CreatesTurns
  <2>5. /\ JobTyped' /\ Others(w) /\ job'[w].phase = "note" /\ job'[w].source = job[w].source
        /\ job'[w].task = job[w].task /\ job'[w].todo = job[w].missing
        /\ job'[w].owned = job[w].owned
    BY <2>4 DEF Turns
  <2>6. OwnOnly(s)
    BY <1>4, <2>3 DEF OwnOnly
  <2>7. FilesTyped' /\ ConfirmedOnce' /\ faults' \in 0..MaxFaults /\ Within'
    BY <1>4 DEF DocInv, FilesTyped, ConfirmedOnce, Within, Names, Bytes, Paper, Mentions
  <2>8. Cited'
    BY <1>2, <1>3, <1>4, <2>3 DEF DocInv, Cited
  <2>9. Source(w)' = s /\ Task(s)' = Task(s) /\ Names(s)' = Names(s) /\ Paper(s)' = Paper(s)
    BY <1>3, <1>4, <2>5 DEF Source, Task, Names, Paper
  <2>10. Counted(w)'
    <3>1. ASSUME NEW u \in Transports
          PROVE  history'[u][s] + Pending(w, u)' <= history[u][s] + Pending(w, u)
      <4>1. /\ Pending(w, u)' = Mentions(job[w].missing, u)
            /\ Pending(w, u) = Mentions(job[w].missing, u)
            /\ history'[u][s] = history[u][s] /\ history[u][s] \in Nat
        BY <1>1, <1>2, <1>4, <2>5 DEF Pending, At, Mentions, TripsTyped
      <4>2. Mentions(job[w].missing, u) \in Nat
        BY <1>2, PendingNat
      <4> QED BY <4>1, <4>2
    <3> QED BY <1>2, <1>3, <1>4, <2>5, <3>1, CountedOn DEF Source, TripsTyped
  <2>11. TaskFits(w)'
    BY <1>1, <1>2, <1>3, <2>5, <2>9 DEF TaskFits, At, InHand
  <2>12. Happened(w)'
    <3>1. ToSet(Names(s)) \subseteq Cites(s) \cup ts
      BY <1>1, <1>2, <1>3 DEF Happened, At
    <3> QED BY <2>3, <2>5, <2>9, <3>1 DEF Happened, At, Preparing
  <2>13. OnCourse(w)' /\ StaysInHand(w)
    BY <1>1, <1>2, <1>3, <1>4, <2>5, <2>9, <2>10, <2>11, <2>12
    DEF OnCourse, StaysInHand, At, Committed
  <2>14. Kept'
    BY <1>4, <2>5, <2>13, KeptQuiet DEF DocInv
  <2> QED BY <1>1, <1>2, <1>3, <1>4, <2>3, <2>5, <2>6, <2>7, <2>8, <2>13, <2>14, DocStep
<1> QED BY <1>5, <1>6

(* ... and each gets a history row that cites it. *)
LEMMA NoteCreatedDocs ==
  ASSUME MailInv, DocInv, NEW w \in Workers, NoteCreated(w)
  PROVE  DocInv'
<1>1. job[w].phase = "note" /\ Working(w) /\ InHand(w) /\ job[w].todo # <<>>
  BY DEF NoteCreated, At, Working, Resting, InHand
<1>2. /\ asks \in Asked /\ JobTyped /\ OneScan /\ Placed /\ Counted(w) /\ TaskFits(w)
      /\ Source(w) \in rows /\ Source(w) \in Sources /\ TripsTyped /\ Happened(w)
  BY <1>1, AtWork DEF DocInv, Committed
<1>3. PICK s \in Sources : s = Source(w)
  BY <1>2
<1>4. job[w].todo \in Seq(Transports)
  BY <1>2 DEF JobTyped, Job
<1>5. PICK t \in Transports : t = Head(job[w].todo)
  BY <1>1, <1>4
<1>6. /\ Records(t, s) /\ Advances(w)
      /\ UNCHANGED <<asks, files, rows, trips, confirmed, overlapped, faults>>
  BY <1>3, <1>5 DEF NoteCreated, AppliesOnly, observed
<1>7. Turns(w, "note", job[w].task, Tail(job[w].todo), job[w].missing, job[w].owned, job[w].did)
  BY <1>1, <1>2, <1>6, AdvancesTurns
<1>8. /\ JobTyped' /\ Others(w) /\ job'[w].phase = "note" /\ job'[w].source = job[w].source
      /\ job'[w].task = job[w].task /\ job'[w].todo = Tail(job[w].todo)
      /\ job'[w].owned = job[w].owned
  BY <1>7 DEF Turns
<1>9. \A u \in Transports :
        /\ Pending(w, u) = Mentions(Tail(job[w].todo), u) + (IF t = u THEN 1 ELSE 0)
        /\ Pending(w, u)' = Mentions(Tail(job[w].todo), u)
        /\ Mentions(Tail(job[w].todo), u) \in Nat /\ history[u][s] \in Nat
  <2> SUFFICES ASSUME NEW u \in Transports
               PROVE  /\ Pending(w, u) = Mentions(Tail(job[w].todo), u) + (IF t = u THEN 1 ELSE 0)
                      /\ Pending(w, u)' = Mentions(Tail(job[w].todo), u)
                      /\ Mentions(Tail(job[w].todo), u) \in Nat /\ history[u][s] \in Nat
    OBVIOUS
  <2>1. /\ Pending(w, u) = Mentions(job[w].todo, u)
        /\ Pending(w, u)' = Mentions(Tail(job[w].todo), u)
    BY <1>1, <1>8 DEF Pending, At, Mentions
  <2>2. Mentions(job[w].todo, u) = Mentions(Tail(job[w].todo), u) + (IF t = u THEN 1 ELSE 0)
    BY <1>1, <1>4, <1>5, MentionsTail
  <2>3. Mentions(Tail(job[w].todo), u) \in Nat
    BY <1>1, <1>4, HeadOfTodo, WhereFinite
  <2>4. history[u][s] \in Nat
    BY <1>2 DEF TripsTyped
  <2> QED BY <2>1, <2>2, <2>3, <2>4
<1>10. history[t][s] + 1 <= Mentions(Names(s), t)
  <2>1. Pending(w, t) = Mentions(Tail(job[w].todo), t) + 1
    BY <1>9
  <2>2. /\ history[t][s] + Pending(w, t) <= Mentions(Names(s), t)
        /\ Mentions(Names(s), t) \in Nat
    BY <1>2, <1>3, SourceFacts, WhereFinite DEF Counted
  <2> QED BY <1>9, <2>1, <2>2
<1>11. /\ trips' \in [Transports -> [status : TripStatuses, from : Sources \cup {NoSource}]]
       /\ \A u \in Transports : trips'[u].from = trips[u].from
       /\ \A u \in Transports : Held(u) => Held(u)'
  BY <1>2, <1>6 DEF TripsTyped, Held
<1>12. /\ history' \in [Transports -> [Sources -> Nat]]
       /\ history'[t][s] = history[t][s] + 1
       /\ \A u \in Transports \ {t} : history'[u][s] = history[u][s]
       /\ Cites(s)' = Cites(s) \cup {t}
       /\ OwnOnly(s)
       /\ TripsTyped' /\ FilesTyped' /\ ConfirmedOnce' /\ faults' \in 0..MaxFaults
       /\ Cited' /\ Within'
  BY <1>2, <1>3, <1>6, <1>10, <1>11, RecordsFacts
<1>13. Source(w)' = s /\ Task(s)' = Task(s) /\ Names(s)' = Names(s) /\ Paper(s)' = Paper(s)
  BY <1>3, <1>6, <1>8 DEF Source, Task, Names, Paper
<1>14. Counted(w)'
  <2>1. ASSUME NEW u \in Transports
        PROVE  history'[u][s] + Pending(w, u)' <= history[u][s] + Pending(w, u)
    <3> DEFINE a == Mentions(Tail(job[w].todo), u)
    <3>1. a \in Nat /\ history[u][s] \in Nat /\ Pending(w, u)' = a
      BY <1>9
    <3>2. CASE u = t
      <4>1. history'[u][s] = history[u][s] + 1 /\ Pending(w, u) = a + 1
        BY <1>9, <1>12, <3>2
      <4> QED BY <3>1, <4>1
    <3>3. CASE u # t
      <4>1. history'[u][s] = history[u][s] /\ Pending(w, u) = a + 0
        BY <1>9, <1>12, <3>3
      <4> QED BY <3>1, <4>1
    <3> QED BY <3>2, <3>3
  <2> QED BY <1>2, <1>3, <1>6, <1>8, <1>12, <2>1, CountedOn DEF Source
<1>15. TaskFits(w)'
  BY <1>1, <1>2, <1>3, <1>8, <1>13 DEF TaskFits, At, InHand
<1>16. Happened(w)'
  <2>1. ToSet(Names(s)) \subseteq Cites(s)
    BY <1>1, <1>2, <1>3 DEF Happened, At
  <2> QED BY <1>8, <1>12, <1>13, <2>1 DEF Happened, At, Preparing
<1>17. OnCourse(w)' /\ StaysInHand(w)
  BY <1>1, <1>2, <1>3, <1>6, <1>8, <1>13, <1>14, <1>15, <1>16
  DEF OnCourse, StaysInHand, At, Committed
<1>18. Kept'
  BY <1>6, <1>8, <1>17, KeptQuiet DEF DocInv
<1> QED BY <1>1, <1>2, <1>3, <1>6, <1>8, <1>12, <1>17, <1>18, DocStep

LEMMA NotedCreatedDocs ==
  ASSUME MailInv, DocInv, NEW w \in Workers, NotedCreated(w)
  PROVE  DocInv'
<1>1. job[w].phase = "note" /\ Working(w) /\ InHand(w)
  BY DEF NotedCreated, At, Working, Resting, InHand
<1>2. /\ asks \in Asked /\ JobTyped /\ OneScan /\ Placed /\ TaskFits(w)
      /\ Source(w) \in rows /\ Source(w) \in Sources /\ TripsTyped /\ Happened(w)
  BY <1>1, AtWork DEF DocInv, Committed
<1>3. PICK s \in Sources : s = Source(w)
  BY <1>2
<1>4. DocsSame /\ faults' \in 0..MaxFaults /\ Finished(w)
  BY FaultCounts DEF NotedCreated, DocsSame, database, observed
<1>5. /\ Task(s)' = Task(s) /\ Names(s)' = Names(s) /\ Paper(s)' = Paper(s)
      /\ Cites(s)' = Cites(s) /\ Within' /\ history' \in [Transports -> [Sources -> Nat]]
  BY <1>2, <1>4, CitesSame
  DEF Task, Names, Paper, DocsSame, DocInv, Within, TripsTyped, Mentions
<1>6. CarriedOut(s)'
  <2>1. ToSet(Names(s)) \subseteq Cites(s)
    BY <1>1, <1>2, <1>3 DEF Happened, At
  <2>2. Task(s) = "UPDATE"
    BY <1>1, <1>2, <1>3 DEF TaskFits
  <2> QED BY <1>2, <1>3, <1>4, <1>5, <2>1, <2>2 DEF CarriedOut, DocsSame
<1>7. OnCourse(w)' /\ Others(w) /\ ~InHand(w)'
  BY <1>2, <1>3, <1>4, <1>5, <1>6, FinishedOnCourse DEF DocsSame
<1> QED BY <1>2, <1>4, <1>7, QuietDocs DEF DocsSame, StaysInHand

(* The clean-up. *)
LEMMA ForgetDocs ==
  ASSUME MailInv, DocInv, NEW w \in Workers, Forget(w)
  PROVE  DocInv'
<1>1. job[w].phase = "forget" /\ Working(w) /\ InHand(w)
  BY DEF Forget, At, Working, Resting, InHand
<1>2. /\ asks \in Asked /\ JobTyped /\ OneScan /\ Placed /\ TaskFits(w)
      /\ Source(w) \in Sources /\ TripsTyped
  BY <1>1, AtWork DEF DocInv
<1>3. UNCHANGED <<asks, files, trips, history, confirmed, overlapped, faults>>
  BY DEF Forget, observed
<1>4. CASE Restricted(Source(w))
  <2>1. Goes(w, "failed") /\ DocsSame /\ faults' \in 0..MaxFaults
    BY <1>3, <1>4, FaultCounts DEF Forget, DocsSame
  <2> QED BY <1>1, <1>2, <2>1, GoesDocs
<1>5. CASE ~Restricted(Source(w))
  <2>1. PICK s \in Sources : s = Source(w)
    BY <1>2
  <2>2. rows' = rows \ {s} /\ Goes(w, "unlink") /\ Cites(s) = {}
    BY <1>5, <2>1 DEF Forget, Restricted
  <2>3. Turns(w, "unlink", job[w].task, job[w].todo, job[w].missing, job[w].owned, job[w].did)
    BY <1>2, <2>2, GoesTurns DEF Phases
  <2>4. /\ JobTyped' /\ Others(w) /\ job'[w].phase = "unlink" /\ job'[w].source = job[w].source
        /\ job'[w].task = job[w].task /\ job'[w].owned = job[w].owned
    BY <2>3 DEF Turns
  <2>5. \A r \in Sources : Cites(r)' = Cites(r)
    BY <1>3, CitesSame
  <2>6. OwnOnly(s)
    BY <1>3, <2>2, <2>5 DEF OwnOnly
  <2>7. TripsTyped' /\ FilesTyped' /\ ConfirmedOnce' /\ faults' \in 0..MaxFaults /\ Within'
    BY <1>3, <2>2 DEF DocInv, TripsTyped, FilesTyped, ConfirmedOnce, Within, Names, Bytes,
       Paper, Mentions
  <2>8. Cited'
    BY <1>3, <2>2, <2>5 DEF DocInv, Cited, Held
  <2>9. OnCourse(w)'
    BY <1>1, <1>2, <1>3, <2>1, <2>4, <2>7, FailsOnCourse DEF TripsTyped
  <2>10. Kept'
    BY <1>1, <1>3, <2>1, <2>2, <2>4, KeptForget DEF DocInv, At
  <2> QED BY <1>1, <1>2, <1>3, <2>1, <2>4, <2>6, <2>7, <2>8, <2>9, <2>10, DocStep
<1> QED BY <1>4, <1>5

LEMMA UnlinkDocs ==
  ASSUME MailInv, DocInv, NEW w \in Workers, Unlink(w)
  PROVE  DocInv'
<1>1. job[w].phase = "unlink" /\ Working(w) /\ InHand(w)
  BY DEF Unlink, At, Working, Resting, InHand
<1>2. /\ asks \in Asked /\ JobTyped /\ OneScan /\ Placed /\ TaskFits(w)
      /\ Source(w) \in Sources /\ TripsTyped
  BY <1>1, AtWork DEF DocInv
<1>3. UNCHANGED <<asks, rows, trips, history, confirmed, overlapped, faults>>
  BY DEF Unlink, database, observed
<1>4. Turns(w, "failed", job[w].task, job[w].todo, job[w].missing, FALSE, job[w].did)
  BY <1>2, UnlinkTurns
<1>5. /\ Others(w) /\ job'[w].phase = "failed" /\ job'[w].source = job[w].source
      /\ job'[w].task = job[w].task
  BY <1>4 DEF Turns
<1>6. Within' /\ history' \in [Transports -> [Sources -> Nat]]
  BY <1>3 DEF DocInv, Within, Names, Paper, Mentions, TripsTyped
<1>7. OnCourse(w)'
  BY <1>2, <1>3, <1>5, <1>6, FailsOnCourse
<1>8. Kept'
  BY <1>2, KeptUnlink DEF DocInv
<1>9. FilesTyped'
  <2>1. files' \subseteq files
    BY DEF Unlink
  <2> QED BY <1>3, <2>1 DEF DocInv, FilesTyped, Bytes, Paper
<1> QED BY <1>2, <1>3, <1>5, <1>7, <1>8, <1>9, SameTripsDocs

(* No import moves: the trips may, but not whence they come. *)
LEMMA SameJobsDocs ==
  ASSUME MailInv, DocInv,
         UNCHANGED <<asks, files, rows, history, confirmed, overlapped, job, faults>>,
         trips' \in [Transports -> [status : TripStatuses, from : Sources \cup {NoSource}]],
         \A u \in Transports : trips'[u].from = trips[u].from,
         \A u \in Transports : Held(u) => Held(u)'
  PROVE  DocInv'
<1>1. asks \in Asked /\ JobTyped /\ OneScan /\ Placed
  BY MailFacts
<1>2. \A r \in Sources : Cites(r)' = Cites(r)
  BY CitesSame
<1>3. TripsTyped' /\ FilesTyped' /\ ConfirmedOnce' /\ faults' \in 0..MaxFaults /\ Within'
  BY DEF DocInv, TripsTyped, FilesTyped, ConfirmedOnce, Within, Names, Bytes, Paper, Mentions
<1>4. Cited'
  BY <1>2 DEF DocInv, Cited
<1>5. Kept'
  BY DEF DocInv, Kept, KeptFor, InHand, SameBytes, Bytes, Paper, Source, At
<1>6. ASSUME NEW v \in Workers  PROVE OnCourse(v)'
  <2>1. CASE Working(v)
    <3>1. Source(v) \in Sources
      BY <1>1, <2>1, SourceOfWork
    <3> QED BY <1>2, <3>1, CourseKept DEF DocInv, AllOnCourse
  <2>2. CASE ~Working(v)
    BY <2>2 DEF OnCourse, Working
  <2> QED BY <2>1, <2>2
<1>7. AllOnCourse'
  BY <1>6 DEF AllOnCourse
<1> QED BY <1>3, <1>4, <1>5, <1>7 DEF DocInv

LEMMA MailboxDocs ==
  ASSUME MailInv, DocInv,
         \/ \E m \in Messages : Arrive(m) \/ GoesStale(m)
         \/ UNCHANGED vars
  PROVE  DocInv'
<1>1. UNCHANGED <<asks, files, rows, trips, history, confirmed, overlapped, job, faults>>
  BY DEF Arrive, GoesStale, vars, database, observed
<1> QED BY <1>1, SameJobsDocs DEF DocInv, TripsTyped, Held

LEMMA OperatorDocs ==
  ASSUME MailInv, DocInv, NEW t \in Transports, OperatorCloses(t) \/ OperatorReopens(t)
  PROVE  DocInv'
<1>1. UNCHANGED <<asks, files, rows, history, confirmed, overlapped, job, faults>>
  BY DEF OperatorCloses, OperatorReopens, observed
<1>2. PICK st \in TripStatuses \ {"NONE"} : trips' = [trips EXCEPT ![t].status = st]
  BY DEF OperatorCloses, OperatorReopens, TripStatuses
<1>3. TripsTyped
  BY DEF DocInv
<1> QED BY <1>1, <1>2, <1>3, StatusKept, SameJobsDocs

LEMMA CrashDocs ==
  ASSUME MailInv, DocInv, Crash
  PROVE  DocInv'
<1>1. DocsSame /\ faults' \in 0..MaxFaults
  BY FaultCounts DEF Crash, DocsSame, database
<1>2. \A w \in Workers : job'[w].phase \in {"idle", "done"}
  BY DEF Crash, Ended, Idle
<1>3. \A w \in Workers : OnCourse(w)' /\ ~InHand(w)'
  BY <1>2 DEF OnCourse, Working, Resting, InHand
<1>4. AllOnCourse' /\ Kept'
  BY <1>1, <1>3, NobodyInHand DEF AllOnCourse, DocInv, DocsSame
<1>5. \A r \in Sources : Cites(r)' = Cites(r)
  BY <1>1, CitesSame DEF DocsSame
<1>6. TripsTyped' /\ FilesTyped' /\ ConfirmedOnce' /\ Within'
  BY <1>1 DEF DocInv, TripsTyped, FilesTyped, ConfirmedOnce, Within, Names, Bytes, Paper,
     Mentions, DocsSame
<1>7. Cited'
  BY <1>1, <1>5 DEF DocInv, Cited, Held, DocsSame
<1> QED BY <1>1, <1>4, <1>6, <1>7 DEF DocInv

LEMMA ImportsDocs ==
  ASSUME MailInv, DocInv, NEW w \in Workers, Imports(w)
  PROVE  DocInv'
<1>1. ApplyRevision(w) => DocInv'
  BY ApplyRevisionDocs, MissesDocs
<1>2. ApplyCancellation(w) => DocInv'
  BY ApplyCancellationDocs, CancelsNothingDocs
<1> QED BY <1>1, <1>2, FetchDocs, StoreDocs, LookupDocs, CreateTripsDocs, CreateRefusedDocs,
  PersistDocs, ReapplyDocs, ApplyNewOrderDocs, RevisionRefusedDocs, RecordConfirmationDocs,
  RecordInHistoryDocs, AppliedDocs, CreateMissingDocs, NoteCreatedDocs, NotedCreatedDocs,
  ForgetDocs, UnlinkDocs DEF Imports

LEMMA DocsStep ==
  ASSUME MailInv, DocInv, [Next]_vars
  PROVE  DocInv'
<1>1. ASSUME NEW w \in Workers, Works(w) \/ Fails(w)  PROVE DocInv'
  BY <1>1, TakesDocs, ImportsDocs, SettlesDocs, ScansDocs, FailsDocs DEF Works
<1> QED BY <1>1, MailboxDocs, ScansDocs, UploadDocs, OperatorDocs, CrashDocs DEF Next

LEMMA DocsInit ==
  ASSUME Init
  PROVE  DocInv
<1>1. \A w \in Workers : job[w].phase = "idle"
  BY DEF Init, Idle
<1>2. AllOnCourse
  BY <1>1 DEF AllOnCourse, OnCourse, Working, Resting
<1>3. \A s \in Sources : Cites(s) = {}
  BY SourcesAreApart DEF Init, Cites, Sources
<1>4. TripsTyped /\ FilesTyped /\ ConfirmedOnce
  BY DEF Init, TripsTyped, FilesTyped, ConfirmedOnce, TripStatuses
<1>5. faults \in 0..MaxFaults
  BY FaultsBounded DEF Init
<1>6. Cited
  BY <1>3 DEF Init, Cited
<1>7. Kept
  BY <1>1 DEF Init, Kept, KeptFor, InHand
<1>8. Within
  <2> SUFFICES ASSUME NEW s \in Sources, NEW t \in Transports
               PROVE  history[t][s] <= Mentions(Names(s), t)
    BY DEF Within
  <2>1. history[t][s] = 0
    BY DEF Init
  <2>2. Mentions(Names(s), t) \in Nat
    BY SourceFacts, WhereFinite DEF Init
  <2> QED BY <2>1, <2>2
<1> QED BY <1>2, <1>4, <1>5, <1>6, <1>7, <1>8 DEF DocInv

---------------------------------------------------------------------------
(* The import implements the ledger. *)

(* What the pipeline does to the documents: it adds citations, to its own  *)
(* document only, and takes its row back only while nothing cites it.      *)
OwnDocs(w) ==
  /\ asks' = asks
  /\ \A s \in Sources :
       /\ Cites(s) \subseteq Cites(s)'
       /\ s # Source(w) => Cites(s)' = Cites(s) /\ (s \in rows' <=> s \in rows)
       /\ s \in rows /\ s \notin rows' => Cites(s) = {} /\ At(w, "forget")

LEMMA RecordsOwn ==
  ASSUME TripsTyped, NEW w \in Workers, Source(w) \in Sources, NEW t \in Transports,
         Records(t, Source(w)), UNCHANGED <<asks, rows, confirmed>>,
         \A u \in Transports : trips'[u].from = trips[u].from
  PROVE  OwnDocs(w)
<1>1. PICK s \in Sources : s = Source(w)
  OBVIOUS
<1>2. /\ Cites(s)' = Cites(s) \cup {t}
      /\ \A r \in Sources \ {s} : Cites(r)' = Cites(r)
  BY <1>1, CitesRecorded
<1> QED BY <1>1, <1>2 DEF OwnDocs

LEMMA CreatedOwn ==
  ASSUME TripsTyped, Cited, NEW w \in Workers, Source(w) \in Sources,
         NEW q \in Seq(Transports), ~Taken(q),
         trips' = CreatedBy(Source(w), ToSet(q)), UNCHANGED <<asks, history, confirmed>>,
         rows' = rows \/ rows' = rows \cup {Source(w)}
  PROVE  OwnDocs(w)
<1>1. PICK s \in Sources : s = Source(w)
  OBVIOUS
<1>2. ToSet(q) \in SUBSET Transports /\ \A t \in ToSet(q) : ~Held(t)
  BY NamedTransports DEF Taken
<1>3. /\ Cites(s)' = Cites(s) \cup ToSet(q)
      /\ \A r \in Sources \ {s} : Cites(r)' = Cites(r)
  BY <1>1, <1>2, CitesCreated
<1> QED BY <1>1, <1>3 DEF OwnDocs

LEMMA UncitedOwn ==
  ASSUME NEW w \in Workers, UNCHANGED <<asks, trips, history, confirmed>>,
         \/ rows' = rows
         \/ rows' = rows \cup {Source(w)}
         \/ rows' = rows \ {Source(w)} /\ Cites(Source(w)) = {} /\ At(w, "forget")
  PROVE  OwnDocs(w)
<1>1. \A s \in Sources : Cites(s)' = Cites(s)
  BY CitesSame
<1> QED BY <1>1 DEF OwnDocs

LEMMA ImportsOwn ==
  ASSUME MailInv, DocInv, NEW w \in Workers, Imports(w)
  PROVE  OwnDocs(w)
<1>1. job[w].phase \in InPipeline /\ Working(w)
  BY ImportsSteady, MailFacts DEF Steady, InPipeline, Attempting, Working, Resting
<1>2. /\ asks \in Asked /\ JobTyped /\ Source(w) \in Sources /\ TripsTyped /\ Cited
      /\ Names(Source(w)) \in Seq(Transports) /\ Happened(w)
  BY <1>1, AtWork DEF DocInv
<1>3. job[w].todo \in Seq(Transports) /\ job[w].missing \in Seq(Transports)
  BY <1>2 DEF JobTyped, Job
<1>4. job[w].todo # <<>> => Head(job[w].todo) \in Transports
  BY <1>3
<1>5. CASE Fetch(w) \/ Store(w) \/ Lookup(w) \/ CreateRefused(w) \/ Applied(w)
           \/ NotedCreated(w) \/ Unlink(w)
  <2>1. UNCHANGED <<asks, trips, history, confirmed>> /\ rows' = rows
    BY <1>5 DEF Fetch, Store, Lookup, CreateRefused, Applied, NotedCreated, Unlink, database
  <2> QED BY <2>1, UncitedOwn
<1>6. CASE Persist(w) \/ Reapply(w) \/ Forget(w)
  <2>1. UNCHANGED <<asks, trips, history, confirmed>>
    BY <1>6 DEF Persist, Reapply, Forget
  <2>2. \/ rows' = rows
        \/ rows' = rows \cup {Source(w)}
        \/ rows' = rows \ {Source(w)} /\ Cites(Source(w)) = {} /\ At(w, "forget")
    BY <1>6 DEF Persist, Reapply, Forget, Restricted
  <2> QED BY <2>1, <2>2, UncitedOwn
<1>7. CASE CreateTrips(w)
  BY <1>2, <1>7, CreatedOwn DEF CreateTrips
<1>8. CASE CreateMissing(w)
  <2>1. CASE Taken(job[w].missing)
    BY <1>8, <2>1, UncitedOwn DEF CreateMissing, AppliesOnly
  <2>2. CASE ~Taken(job[w].missing)
    BY <1>2, <1>3, <1>8, <2>2, CreatedOwn DEF CreateMissing, AppliesOnly
  <2> QED BY <2>1, <2>2
<1>9. CASE RecordConfirmation(w)
  <2>1. PICK s \in Sources : s = Source(w)
    BY <1>2
  <2>2. PICK t \in Transports : t = Head(job[w].todo)
    BY <1>4, <1>9 DEF RecordConfirmation, Applies
  <2>3. /\ UNCHANGED <<asks, rows, trips, history>>
        /\ \/ confirmed' = confirmed
           \/ confirmed' = confirmed \cup
                {[trip |-> t, number |-> Paper(s).number, source |-> s]}
    BY <1>9, <2>1, <2>2 DEF RecordConfirmation, AppliesOnly
  <2>4. Cites(s) \subseteq Cites(s)' /\ \A r \in Sources \ {s} : Cites(r)' = Cites(r)
    BY <1>2, <2>3, CitesConfirmed
  <2> QED BY <2>1, <2>3, <2>4 DEF OwnDocs
<1>10. CASE RecordInHistory(w) \/ NoteCreated(w) \/ RevisionRefused(w)
  <2>1. job[w].todo # <<>>
    BY <1>2, <1>10 DEF RecordInHistory, NoteCreated, RevisionRefused, Applies, Happened
  <2>2. /\ Records(Head(job[w].todo), Source(w))
        /\ UNCHANGED <<asks, rows, trips, confirmed>>
    BY <1>10 DEF RecordInHistory, NoteCreated, RevisionRefused, AppliesOnly
  <2> QED BY <1>2, <1>4, <2>1, <2>2, RecordsOwn
<1>11. CASE ApplyNewOrder(w) \/ ApplyRevision(w) \/ ApplyCancellation(w)
  <2>1. PICK t \in Transports : t = Head(job[w].todo)
    BY <1>4, <1>11 DEF ApplyNewOrder, ApplyRevision, ApplyCancellation, Applies
  <2>2. /\ UNCHANGED <<asks, rows, confirmed>>
        /\ \/ UNCHANGED <<trips, history>>
           \/ /\ Records(t, Source(w))
              /\ \E st \in TripStatuses \ {"NONE"} :
                   trips' = trips \/ trips' = [trips EXCEPT ![t].status = st]
    <3>1. "OPEN" \in TripStatuses \ {"NONE"} /\ "CANCELLED" \in TripStatuses \ {"NONE"}
      BY DEF TripStatuses
    <3>2. UNCHANGED <<asks, rows, confirmed>>
      BY <1>11 DEF ApplyNewOrder, ApplyRevision, ApplyCancellation, AppliesOnly
    <3>3. \/ UNCHANGED <<trips, history>>
          \/ /\ Records(t, Source(w))
             /\ \/ trips' = trips
                \/ trips' = [trips EXCEPT ![t].status = "OPEN"]
                \/ trips' = [trips EXCEPT ![t].status = "CANCELLED"]
      <4>1. CASE ApplyNewOrder(w)
        BY <2>1, <4>1 DEF ApplyNewOrder
      <4>2. CASE ApplyRevision(w)
        BY <2>1, <4>2 DEF ApplyRevision
      <4>3. CASE ApplyCancellation(w)
        BY <2>1, <4>3 DEF ApplyCancellation
      <4> QED BY <1>11, <4>1, <4>2, <4>3
    <3> QED BY <3>1, <3>2, <3>3
  <2>3. CASE UNCHANGED <<trips, history>>
    BY <2>2, <2>3, UncitedOwn
  <2>4. CASE /\ Records(t, Source(w))
             /\ \E st \in TripStatuses \ {"NONE"} :
                  trips' = trips \/ trips' = [trips EXCEPT ![t].status = st]
    <3>1. \A u \in Transports : trips'[u].from = trips[u].from
      BY <1>2, <2>4, StatusKept
    <3> QED BY <1>2, <2>2, <2>4, <3>1, RecordsOwn
  <2> QED BY <2>2, <2>3, <2>4
<1> QED BY <1>5, <1>6, <1>7, <1>8, <1>9, <1>10, <1>11 DEF Imports

LEMMA DoneSame ==
  ASSUME UNCHANGED <<asks, rows, trips, history, confirmed>>
  PROVE  CarriedOutMails' = CarriedOutMails
<1>1. \A m \in Messages : Cites(m)' = Cites(m)
  BY CitesSame DEF Sources
<1> QED BY <1>1 DEF CarriedOutMails, CarriedOut, Task, Names, Paper

LEMMA StatusSame ==
  ASSUME \A m \in Messages : email'[m].status = email[m].status
  PROVE  LedgerStatus' = LedgerStatus
BY DEF LedgerStatus

LEMMA BecomesStatus ==
  ASSUME NEW m \in Messages, NEW to, CarriedOutMails' = CarriedOutMails,
         email'[m].status = to,
         \A x \in Messages \ {m} : email'[x].status = email[x].status
  PROVE  Ledger!Becomes(m, to)
BY DEF Ledger!Becomes, LedgerStatus

LedgerStep == Ledger!Next \/ UNCHANGED <<LedgerStatus, CarriedOutMails>>

(* The message a scan takes up. *)
LEMMA TakesLedger ==
  ASSUME IInv, NEW w \in Workers, Takes(w)
  PROVE  LedgerStep
<1>1. PICK m \in Messages : Skip(w, m) \/ Ignore(w, m) \/ StartProcessing(w, m)
                            \/ ReopenForRetry(w, m)
  BY DEF Takes
<1>2. email \in [Messages -> [status : Statuses, stale : BOOLEAN, forwarded : BOOLEAN]]
  BY DEF IInv, MailInv, MailTyped
<1>3. CarriedOutMails' = CarriedOutMails
  BY <1>1, DoneSame DEF Skip, Ignore, StartProcessing, ReopenForRetry, database
<1>4. CASE Skip(w, m)
  BY <1>3, <1>4, StatusSame DEF Skip, LedgerStep
<1>5. CASE Ignore(w, m)
  <2>1. /\ email[m].status = "NONE" /\ email'[m].status = "IGNORED"
        /\ \A x \in Messages \ {m} : email'[x].status = email[x].status
    BY <1>2, <1>5 DEF Ignore
  <2>2. Ledger!SetAside(m)
    BY <1>3, <2>1, BecomesStatus DEF Ledger!SetAside, LedgerStatus
  <2> QED BY <2>2 DEF LedgerStep, Ledger!Next
<1>6. CASE StartProcessing(w, m)
  <2>1. /\ email[m].status = "NONE" /\ email'[m].status = "PROCESSING"
        /\ \A x \in Messages \ {m} : email'[x].status = email[x].status
    BY <1>2, <1>6 DEF StartProcessing
  <2>2. Ledger!Begin(m)
    BY <1>3, <2>1, BecomesStatus DEF Ledger!Begin, LedgerStatus
  <2> QED BY <2>2 DEF LedgerStep, Ledger!Next
<1>7. CASE ReopenForRetry(w, m)
  <2>1. /\ email[m].status \in {"FAILED", "PROCESSING"} /\ email'[m].status = "PROCESSING"
        /\ \A x \in Messages \ {m} : email'[x].status = email[x].status
    BY <1>2, <1>7 DEF ReopenForRetry, Retried, Reopened
  <2>2. CASE email[m].status = "PROCESSING"
    <3>1. LedgerStatus' = LedgerStatus
      BY <2>1, <2>2, StatusSame
    <3> QED BY <1>3, <3>1 DEF LedgerStep
  <2>3. CASE email[m].status = "FAILED"
    <3>1. Ledger!Begin(m)
      BY <1>3, <2>1, <2>3, BecomesStatus DEF Ledger!Begin, LedgerStatus
    <3> QED BY <3>1 DEF LedgerStep, Ledger!Next
  <2> QED BY <2>1, <2>2, <2>3
<1> QED BY <1>1, <1>4, <1>5, <1>6, <1>7

(* The pipeline: what is undone was not done, and what gets done belongs   *)
(* to the mail that is being processed.                                    *)
LEMMA ImportsLedger ==
  ASSUME IInv, NEW w \in Workers, Imports(w)
  PROVE  LedgerStep
<1>1. Steady(w) /\ OwnDocs(w) /\ asks \in Asked /\ Placed
  BY ImportsSteady, ImportsOwn, MailFacts DEF IInv
<1>2. Working(w) /\ job[w].phase \in Attempting
  BY <1>1 DEF Steady, InPipeline, Attempting, Working, Resting
<1>3. Source(w) \in Sources /\ TaskFits(w) /\ Names(Source(w)) \in Seq(Transports)
  BY <1>2, AtWork DEF IInv
<1>4. LedgerStatus' = LedgerStatus
  BY <1>1, StatusSame DEF Steady, MailsSame
<1>5. \A m \in Messages : Task(m)' = Task(m) /\ Names(m)' = Names(m)
  BY <1>1 DEF OwnDocs, Task, Names, Paper
<1>6. ASSUME NEW m \in Messages, m # Source(w)  PROVE CarriedOut(m)' = CarriedOut(m)
  <2>1. m \in Sources
    BY DEF Sources
  <2>2. Cites(m)' = Cites(m) /\ (m \in rows' <=> m \in rows)
    BY <1>1, <1>6, <2>1 DEF OwnDocs
  <2> QED BY <1>5, <2>2 DEF CarriedOut
<1>7. ASSUME NEW m \in Messages, m = Source(w), CarriedOut(m)  PROVE CarriedOut(m)'
  <2>1. m \in Sources
    BY DEF Sources
  <2>2. Cites(m) # {} \/ ~At(w, "forget")
    <3>1. CASE At(w, "forget")
      <4>1. Paper(m).readable
        BY <1>3, <1>7, <3>1 DEF TaskFits, InHand, At
      <4>2. Names(m) # <<>> /\ Names(m) \in Seq(Transports)
        BY <1>1, <2>1, <4>1, SourceFacts
      <4>3. Head(Names(m)) \in ToSet(Names(m))
        BY <4>2, HeadOfTodo
      <4> QED BY <1>7, <4>3 DEF CarriedOut
    <3> QED BY <3>1
  <2>3. Cites(m) \subseteq Cites(m)' /\ m \in rows'
    BY <1>1, <1>7, <2>1, <2>2 DEF OwnDocs, CarriedOut
  <2> QED BY <1>5, <1>7, <2>3 DEF CarriedOut
<1>8. CASE Source(w) \in Messages
  <2>1. PICK m \in Messages : m = Source(w)
    BY <1>8
  <2>2. w \in Scanners
    BY <1>1, <1>2, <2>1, SourcesAreApart DEF Placed, Workers
  <2>3. email[m].status = "PROCESSING"
    BY <1>2, <2>1, <2>2 DEF IInv, MailInv, AllShown, Shown
  <2>4. CarriedOutMails' = CarriedOutMails \/ CarriedOutMails' = CarriedOutMails \cup {m}
    BY <1>6, <1>7, <2>1 DEF CarriedOutMails
  <2>5. CASE CarriedOutMails' = CarriedOutMails \cup {m}
    <3>1. Ledger!CarryOut(m)
      BY <1>4, <2>3, <2>5 DEF Ledger!CarryOut, LedgerStatus
    <3> QED BY <3>1 DEF LedgerStep, Ledger!Next
  <2> QED BY <1>4, <2>4, <2>5 DEF LedgerStep
<1>9. CASE Source(w) \notin Messages
  <2>1. CarriedOutMails' = CarriedOutMails
    BY <1>6, <1>9 DEF CarriedOutMails
  <2> QED BY <1>4, <2>1 DEF LedgerStep
<1> QED BY <1>8, <1>9

(* The outcome. *)
LEMMA SettlesLedger ==
  ASSUME IInv, NEW w \in Workers, Settles(w)
  PROVE  LedgerStep
<1>1. email \in [Messages -> [status : Statuses, stale : BOOLEAN, forwarded : BOOLEAN]]
  BY DEF IInv, MailInv, MailTyped
<1>2. CarriedOutMails' = CarriedOutMails
  BY DoneSame DEF Settles, Mark, MarkSeen, RecordFailure, ReportUpload, Forward,
     MarkForwarded, database
<1>3. CASE MarkSeen(w) \/ ReportUpload(w) \/ Forward(w)
  BY <1>2, <1>3, StatusSame DEF MarkSeen, ReportUpload, Forward, LedgerStep
<1>4. ASSUME ~ReportUpload(w)
      PROVE  w \in Scanners /\ Source(w) \in Messages /\ Shown(w, Source(w)) /\ Working(w)
  <2>1. Working(w) /\ w \in Scanners
    <3>1. Placed
      BY DEF IInv, MailInv
    <3> QED BY <1>4, <3>1 DEF Settles, Mark, MarkSeen, RecordFailure, Forward, MarkForwarded, At,
         Working, Resting, Placed, Workers
  <2> QED BY <2>1 DEF IInv, MailInv, Placed, AllShown
<1>5. CASE Mark(w)
  <2>1. PICK m \in Messages : m = Source(w) /\ Shown(w, m) /\ Working(w) /\ w \in Scanners
    BY <1>4, <1>5 DEF Mark, ReportUpload, At
  <2>2. email[m].status = "PROCESSING"
    BY <1>5, <2>1 DEF Mark, Shown, At, Attempting
  <2>3. /\ email'[m].status = IF AppliedNothing(w) THEN "IGNORED" ELSE "PROCESSED"
        /\ \A x \in Messages \ {m} : email'[x].status = email[x].status
    BY <1>1, <1>5, <2>1 DEF Mark
  <2>4. CASE AppliedNothing(w)
    <3>1. Ledger!SetAside(m)
      BY <1>2, <2>2, <2>3, <2>4, BecomesStatus DEF Ledger!SetAside, LedgerStatus
    <3> QED BY <3>1 DEF LedgerStep, Ledger!Next
  <2>5. CASE ~AppliedNothing(w)
    <3>1. Happened(w)
      BY <2>1, AtWork DEF IInv
    <3>2. m \in CarriedOutMails
      BY <1>5, <2>1, <2>5, <3>1 DEF Happened, Mark, CarriedOutMails
    <3>3. Ledger!Complete(m)
      BY <1>2, <2>2, <2>3, <2>5, <3>2, BecomesStatus DEF Ledger!Complete, LedgerStatus
    <3> QED BY <3>3 DEF LedgerStep, Ledger!Next
  <2> QED BY <2>4, <2>5
<1>6. CASE RecordFailure(w)
  <2>1. PICK m \in Messages : m = Source(w) /\ Shown(w, m) /\ w \in Scanners
    BY <1>4, <1>6, SourcesAreApart DEF RecordFailure, ReportUpload
  <2>2. \/ email[m].status = "PROCESSING"
        \/ Settled(m) /\ job[w].error # "duplicate"
    BY <1>6, <2>1 DEF RecordFailure, Shown, At
  <2>3. /\ email'[m].status = IF job[w].error = "duplicate" THEN "IGNORED" ELSE "FAILED"
        /\ \A x \in Messages \ {m} : email'[x].status = email[x].status
    BY <1>1, <1>6, <2>1 DEF RecordFailure
  <2>4. CASE job[w].error = "duplicate"
    <3>1. Ledger!SetAside(m)
      BY <1>2, <2>2, <2>3, <2>4, BecomesStatus DEF Ledger!SetAside, LedgerStatus
    <3> QED BY <3>1 DEF LedgerStep, Ledger!Next
  <2>5. CASE job[w].error # "duplicate"
    <3>1. Ledger!Fail(m)
      BY <1>2, <2>2, <2>3, <2>5, BecomesStatus DEF Ledger!Fail, LedgerStatus, Settled
    <3> QED BY <3>1 DEF LedgerStep, Ledger!Next
  <2> QED BY <2>4, <2>5
<1>7. CASE MarkForwarded(w)
  <2>1. \A m \in Messages : email'[m].status = email[m].status
    BY <1>1, <1>7 DEF MarkForwarded
  <2> QED BY <1>2, <2>1, StatusSame DEF LedgerStep
<1> QED BY <1>3, <1>5, <1>6, <1>7 DEF Settles

LEMMA QuietLedger ==
  ASSUME UNCHANGED <<asks, rows, history, confirmed>>,
         \A u \in Transports : trips'[u].from = trips[u].from,
         \A m \in Messages : email'[m].status = email[m].status
  PROVE  LedgerStep
<1>1. \A m \in Messages : Cites(m)' = Cites(m)
  BY CitesSame DEF Sources
<1>2. CarriedOutMails' = CarriedOutMails
  BY <1>1 DEF CarriedOutMails, CarriedOut, Task, Names, Paper
<1> QED BY <1>2, StatusSame DEF LedgerStep

LEMMA NextLedger ==
  ASSUME IInv, [Next]_vars
  PROVE  LedgerStep
<1>1. TripsTyped /\ MailTyped
  BY DEF IInv, MailInv, DocInv
<1>2. ASSUME NEW m \in Messages, Arrive(m) \/ GoesStale(m)  PROVE LedgerStep
  <2>1. \A x \in Messages : email'[x].status = email[x].status
    BY <1>1, <1>2 DEF Arrive, GoesStale, MailTyped
  <2> QED BY <1>2, <2>1, QuietLedger DEF Arrive, GoesStale, database
<1>3. ASSUME NEW w \in Scanners, Scan(w) \/ EndScan(w)  PROVE LedgerStep
  BY <1>3, QuietLedger DEF Scan, EndScan, database
<1>4. ASSUME NEW u \in Uploads, Upload(u)  PROVE LedgerStep
  BY <1>4, QuietLedger DEF Upload, database
<1>5. ASSUME NEW w \in Workers, Fails(w)  PROVE LedgerStep
  BY <1>5, QuietLedger DEF Fails, DownloadFails, LookupFails, TransactionFails, OutcomeFails,
     RecordFails, ForwardFails, database
<1>6. ASSUME NEW w \in Workers, Works(w)  PROVE LedgerStep
  BY <1>3, <1>6, TakesLedger, ImportsLedger, SettlesLedger DEF Works
<1>7. ASSUME NEW t \in Transports, OperatorCloses(t) \/ OperatorReopens(t)  PROVE LedgerStep
  <2>1. \A u \in Transports : trips'[u].from = trips[u].from
    BY <1>1, <1>7 DEF OperatorCloses, OperatorReopens, TripsTyped
  <2> QED BY <1>7, <2>1, QuietLedger DEF OperatorCloses, OperatorReopens
<1>8. CASE Crash \/ UNCHANGED vars
  BY <1>8, QuietLedger DEF Crash, vars, database
<1> QED BY <1>2, <1>3, <1>4, <1>5, <1>6, <1>7, <1>8 DEF Next

LEMMA LedgerInit ==
  ASSUME Init
  PROVE  Ledger!Init
<1>1. LedgerStatus = [m \in Messages |-> "NONE"]
  BY DEF Init, LedgerStatus, NoEmail
<1>2. CarriedOutMails = {}
  BY DEF Init, CarriedOutMails, CarriedOut
<1> QED BY <1>1, <1>2 DEF Ledger!Init

---------------------------------------------------------------------------
(* A processed confirmation is in the amounts. *)

IsRecorded(s) ==
  \E c \in confirmed : c.trip = Head(Names(s)) /\ c.number = Paper(s).number

(* A confirmation under way has its own transport before it, and is in the *)
(* amounts from the moment it was recorded.                                *)
OnAmount(w) == job[w].task = "COST" =>
  /\ job[w].phase \in {"apply", "cite"} => job[w].todo = Names(Source(w))
  /\ job[w].phase \in {"cite", "mark"} => IsRecorded(Source(w))

AmountInv ==
  /\ \A w \in Workers : OnAmount(w)
  /\ \A m \in Messages : Task(m) = "COST" /\ email[m].status = "PROCESSED" => IsRecorded(m)

(* The worker does not come to a confirmation's amount, or leaves it. *)
Elsewhere(w) == job'[w].phase \in {"apply", "cite", "mark"} => job'[w].task # "COST"

LEMMA ElsewhereOnAmount ==
  ASSUME NEW w \in Workers, Elsewhere(w)
  PROVE  OnAmount(w)'
BY DEF Elsewhere, OnAmount

LEMMA RecordedStays ==
  ASSUME asks' = asks, confirmed \subseteq confirmed', NEW s, IsRecorded(s)
  PROVE  IsRecorded(s)'
BY DEF IsRecorded, Names, Paper

LEMMA OthersOnAmount ==
  ASSUME AmountInv, asks' = asks, confirmed \subseteq confirmed', NEW v \in Workers,
         job'[v] = job[v]
  PROVE  OnAmount(v)'
<1>1. OnAmount(v)
  BY DEF AmountInv
<1>2. Source(v)' = Source(v) /\ Names(Source(v))' = Names(Source(v))
  BY DEF Source, Names, Paper
<1>3. IsRecorded(Source(v)) => IsRecorded(Source(v))'
  BY RecordedStays DEF IsRecorded, Source, Names, Paper
<1> QED BY <1>1, <1>2, <1>3 DEF OnAmount

LEMMA AmountStep ==
  ASSUME AmountInv, asks' = asks, confirmed \subseteq confirmed',
         \A m \in Messages : email'[m].status = "PROCESSED" =>
           email[m].status = "PROCESSED" \/ (Task(m) = "COST" => IsRecorded(m)),
         NEW w \in Workers, Others(w), OnAmount(w)'
  PROVE  AmountInv'
<1>1. \A v \in Workers : OnAmount(v)'
  BY OthersOnAmount DEF Others
<1>2. ASSUME NEW m \in Messages, Task(m)' = "COST", email'[m].status = "PROCESSED"
      PROVE  IsRecorded(m)'
  <2>1. Task(m) = "COST"
    BY <1>2 DEF Task, Paper
  <2>2. IsRecorded(m)
    BY <1>2, <2>1 DEF AmountInv
  <2> QED BY <2>2, RecordedStays
<1> QED BY <1>1, <1>2 DEF AmountInv

(* A document that is not a confirmation, wherever its worker goes. *)
LEMMA NotCost ==
  ASSUME JobTyped, NEW w \in Workers, job[w].task # "COST",
         NEW phase, NEW todo, NEW missing, NEW owned, NEW did,
         Turns(w, phase, job[w].task, todo, missing, owned, did)
  PROVE  Others(w) /\ Elsewhere(w)
BY DEF Turns, Elsewhere

LEMMA AwayFrom ==
  ASSUME NEW w \in Workers, NEW phase, phase \notin {"apply", "cite", "mark"},
         NEW task, NEW todo, NEW missing, NEW owned, NEW did,
         Turns(w, phase, task, todo, missing, owned, did)
  PROVE  Others(w) /\ Elsewhere(w)
BY DEF Turns, Elsewhere

LEMMA FinishesElsewhere ==
  ASSUME JobTyped, NEW w \in Workers, job[w].task # "COST", Finished(w)
  PROVE  Others(w) /\ Elsewhere(w)
<1>1. CASE w \in Uploads /\ job'[w] = Ended
  BY <1>1, FinishedTurns DEF Ended, Idle, Elsewhere
<1>2. CASE Turns(w, "mark", job[w].task, <<>>, <<>>, FALSE, job[w].did)
  BY <1>2, NotCost
<1> QED BY <1>1, <1>2, FinishedTurns

LEMMA GoesElsewhere ==
  ASSUME JobTyped, NEW w \in Workers, NEW phase \in Phases,
         phase \notin {"apply", "cite", "mark"} \/ job[w].task # "COST", Goes(w, phase)
  PROVE  Others(w) /\ Elsewhere(w)
<1>1. Turns(w, phase, job[w].task, job[w].todo, job[w].missing, job[w].owned, job[w].did)
  BY GoesTurns
<1> QED BY <1>1, AwayFrom, NotCost

LEMMA BreaksElsewhere ==
  ASSUME JobTyped, NEW w \in Workers, NEW phase \in Phases, NEW error \in Errors,
         phase \notin {"apply", "cite", "mark"}, Breaks(w, phase, error)
  PROVE  Others(w) /\ Elsewhere(w)
<1>1. Turns(w, phase, job[w].task, <<>>, <<>>, job[w].owned, job[w].did)
  BY BreaksTurns
<1> QED BY <1>1, AwayFrom

LEMMA ResetElsewhere ==
  ASSUME JobTyped, NEW w \in Workers,
         job' = [job EXCEPT ![w] = Ended] \/ job' = [job EXCEPT ![w] = Idle]
  PROVE  Others(w) /\ Elsewhere(w)
<1>1. Idle \in Job /\ Ended \in Job
  BY IdleJob
<1>2. CASE job' = [job EXCEPT ![w] = Ended]
  <2>1. Others(w) /\ job'[w] = Ended
    BY <1>1, <1>2, Moves
  <2> QED BY <2>1 DEF Ended, Idle, Elsewhere
<1>3. CASE job' = [job EXCEPT ![w] = Idle]
  <2>1. Others(w) /\ job'[w] = Idle
    BY <1>1, <1>3, Moves
  <2> QED BY <2>1 DEF Idle, Elsewhere
<1> QED BY <1>2, <1>3

LEMMA AdvancesElsewhere ==
  ASSUME JobTyped, NEW w \in Workers, job[w].todo # <<>>, job[w].task # "COST", Advances(w)
  PROVE  Others(w) /\ Elsewhere(w)
<1>1. Turns(w, job[w].phase, job[w].task, Tail(job[w].todo), job[w].missing,
            job[w].owned, job[w].did)
  BY AdvancesTurns
<1> QED BY <1>1, NotCost

(* What a document says leads to its trips, up to where it is applied. *)
LEMMA PreparesElsewhere ==
  ASSUME MailInv, DocInv, NEW w \in Workers,
         Fetch(w) \/ Store(w) \/ Lookup(w) \/ CreateTrips(w) \/ CreateRefused(w) \/ Reapply(w)
  PROVE  Others(w) /\ Elsewhere(w)
<1>1. Working(w) /\ JobTyped /\ asks \in Asked
  BY MailFacts DEF Working, Resting, Fetch, Store, Lookup, CreateTrips, CreateRefused, Reapply, At
<1>2. TaskFits(w) /\ Names(Source(w)) \in Seq(Transports)
  BY <1>1, AtWork
<1>3. CASE Fetch(w)
  <2>1. Goes(w, "store") \/ Breaks(w, "failed", "other")
    BY <1>3 DEF Fetch
  <2> QED BY <1>1, <2>1, GoesElsewhere, BreaksElsewhere DEF Phases, Errors
<1>4. CASE Store(w)
  BY <1>1, <1>4, GoesElsewhere DEF Store, Phases
<1>5. CASE Lookup(w)
  <2>1. Turns(w, IF job[w].task = "NEW" THEN "create" ELSE "persist", job[w].task,
              job[w].todo, job[w].missing, Owned(Source(w)), job[w].did)
    BY <1>1, <1>5, LookupTurns
  <2> QED BY <2>1 DEF Turns, Elsewhere
<1>6. CASE CreateTrips(w)
  <2>1. job[w].task # "COST"
    BY <1>2, <1>6 DEF TaskFits, CreateTrips, At
  <2> QED BY <1>1, <1>6, <2>1, FinishesElsewhere DEF CreateTrips
<1>7. CASE CreateRefused(w)
  <2>1. Goes(w, "reapply") \/ Breaks(w, "unlink", "other")
    BY <1>7 DEF CreateRefused
  <2> QED BY <1>1, <2>1, GoesElsewhere, BreaksElsewhere DEF Phases, Errors
<1>8. CASE Reapply(w)
  <2>1. CASE Breaks(w, "unlink", "other") \/ Breaks(w, "failed", "other")
    BY <1>1, <2>1, BreaksElsewhere DEF Phases, Errors
  <2>2. CASE job' = [job EXCEPT ![w].phase = "apply", ![w].todo = Names(Source(w)),
                                ![w].task = "AGAIN"]
    <3>1. Turns(w, "apply", "AGAIN", Names(Source(w)), job[w].missing, job[w].owned, job[w].did)
      BY <1>1, <1>2, <2>2, AgainTurns
    <3> QED BY <3>1 DEF Turns, Elsewhere
  <2> QED BY <1>8, <2>1, <2>2 DEF Reapply
<1> QED BY <1>3, <1>4, <1>5, <1>6, <1>7, <1>8

(* Another document is applied, or a document is taken back. *)
LEMMA AppliesElsewhere ==
  ASSUME MailInv, DocInv, NEW w \in Workers,
         ApplyNewOrder(w) \/ ApplyRevision(w) \/ RevisionRefused(w) \/ ApplyCancellation(w)
  PROVE  Others(w) /\ Elsewhere(w)
<1>1. JobTyped /\ job[w].todo # <<>> /\ job[w].task # "COST"
  BY MailFacts DEF ApplyNewOrder, ApplyRevision, RevisionRefused, ApplyCancellation, Applies
<1>2. CASE Advances(w)
  BY <1>1, <1>2, AdvancesElsewhere
<1>3. CASE ApplyRevision(w) /\ ~Advances(w)
  <2>1. job' = [job EXCEPT ![w].todo = Tail(@),
                           ![w].missing = Append(@, Head(job[w].todo))]
    BY <1>3 DEF ApplyRevision
  <2>2. Turns(w, job[w].phase, job[w].task, Tail(job[w].todo),
              Append(job[w].missing, Head(job[w].todo)), job[w].owned, job[w].did)
    BY <1>1, <2>1, MissesTurns
  <2> QED BY <1>1, <2>2, NotCost
<1>4. CASE RevisionRefused(w)
  <2>1. Breaks(w, "forget", "other") \/ Breaks(w, "failed", "other")
    BY <1>4 DEF RevisionRefused
  <2> QED BY <1>1, <2>1, BreaksElsewhere DEF Phases, Errors
<1>5. CASE ApplyCancellation(w) /\ ~Advances(w)
  <2>1. job' = [job EXCEPT ![w].todo = Tail(@), ![w].did = TRUE]
    BY <1>5 DEF ApplyCancellation
  <2>2. Turns(w, job[w].phase, job[w].task, Tail(job[w].todo), job[w].missing,
              job[w].owned, TRUE)
    BY <1>1, <2>1, CancelsTurns
  <2> QED BY <1>1, <2>2, NotCost
<1> QED BY <1>2, <1>3, <1>4, <1>5 DEF ApplyNewOrder

LEMMA EndsElsewhere ==
  ASSUME MailInv, DocInv, NEW w \in Workers,
         \/ Applied(w) \/ CreateMissing(w) \/ NoteCreated(w) \/ NotedCreated(w)
         \/ Forget(w) \/ Unlink(w)
  PROVE  Others(w) /\ Elsewhere(w)
<1>1. Working(w) /\ JobTyped
  BY MailFacts DEF Working, Resting, Applied, CreateMissing, NoteCreated, NotedCreated, Forget,
     Unlink, At
<1>2. TaskFits(w) /\ Happened(w)
  BY <1>1, AtWork
<1>3. CASE Applied(w)
  <2>1. job[w].task # "COST"
    BY <1>2, <1>3 DEF Happened, Applied, At
  <2>2. Goes(w, "missing") \/ Finished(w)
    BY <1>3 DEF Applied
  <2> QED BY <1>1, <2>1, <2>2, GoesElsewhere, FinishesElsewhere DEF Phases
<1>4. CASE CreateMissing(w)
  <2>1. CASE Breaks(w, "forget", "duplicate")
    BY <1>1, <2>1, BreaksElsewhere DEF Phases, Errors
  <2>2. CASE job' = [job EXCEPT ![w].phase = "note", ![w].todo = job[w].missing]
    <3>1. Turns(w, "note", job[w].task, job[w].missing, job[w].missing, job[w].owned,
                job[w].did)
      BY <1>1, <2>2, CreatesTurns
    <3> QED BY <3>1, AwayFrom
  <2> QED BY <1>4, <2>1, <2>2 DEF CreateMissing
<1>5. CASE NoteCreated(w)
  <2>1. job[w].task # "COST" /\ job[w].todo # <<>> /\ Advances(w)
    BY <1>2, <1>5 DEF TaskFits, NoteCreated, At
  <2> QED BY <1>1, <2>1, AdvancesElsewhere
<1>6. CASE NotedCreated(w)
  <2>1. job[w].task # "COST" /\ Finished(w)
    BY <1>2, <1>6 DEF TaskFits, NotedCreated, At
  <2> QED BY <1>1, <2>1, FinishesElsewhere
<1>7. CASE Forget(w)
  <2>1. Goes(w, "failed") \/ Goes(w, "unlink")
    BY <1>7 DEF Forget
  <2> QED BY <1>1, <2>1, GoesElsewhere DEF Phases
<1>8. CASE Unlink(w)
  <2>1. Turns(w, "failed", job[w].task, job[w].todo, job[w].missing, FALSE, job[w].did)
    BY <1>1, <1>8, UnlinkTurns
  <2> QED BY <2>1, AwayFrom
<1> QED BY <1>3, <1>4, <1>5, <1>6, <1>7, <1>8

(* The three steps of a confirmation. *)
LEMMA PersistOnAmount ==
  ASSUME MailInv, DocInv, NEW w \in Workers, Persist(w)
  PROVE  Others(w) /\ OnAmount(w)'
<1>1. Working(w) /\ JobTyped
  BY MailFacts DEF Working, Resting, Persist, At
<1>2. Names(Source(w)) \in Seq(Transports)
  BY <1>1, AtWork
<1>3. CASE Breaks(w, "unlink", "other")
  BY <1>1, <1>3, BreaksElsewhere, ElsewhereOnAmount DEF Phases, Errors
<1>4. CASE job' = [job EXCEPT ![w].phase = "apply", ![w].todo = Names(Source(w))]
  <2>1. Turns(w, "apply", job[w].task, Names(Source(w)), job[w].missing, job[w].owned,
              job[w].did)
    BY <1>1, <1>2, <1>4, PersistTurns
  <2>2. Names(Source(w))' = Names(Source(w))
    BY <2>1 DEF Turns, Persist, Source, Names, Paper
  <2> QED BY <2>1, <2>2 DEF Turns, OnAmount
<1> QED BY <1>3, <1>4 DEF Persist

LEMMA RecordOnAmount ==
  ASSUME MailInv, DocInv, AmountInv, NEW w \in Workers, RecordConfirmation(w)
  PROVE  Others(w) /\ OnAmount(w)' /\ confirmed \subseteq confirmed'
<1>1. JobTyped /\ job[w].todo = Names(Source(w)) /\ asks' = asks
  BY MailFacts DEF AmountInv, OnAmount, RecordConfirmation, Applies, At, AppliesOnly
<1>2. Turns(w, "cite", job[w].task, job[w].todo, job[w].missing, job[w].owned, job[w].did)
  BY <1>1, GoesTurns DEF RecordConfirmation, Phases
<1>3. \E c \in confirmed' : c.trip = Head(job[w].todo) /\ c.number = Paper(Source(w)).number
  <2>1. PICK t : t = Head(job[w].todo)
    OBVIOUS
  <2>2. PICK n : n = Paper(Source(w)).number
    OBVIOUS
  <2>3. PICK s : s = Source(w)
    OBVIOUS
  <2>4. confirmed' = IF Duplicate(t, n) THEN confirmed
                     ELSE confirmed \cup {[trip |-> t, number |-> n, source |-> s]}
    BY <2>1, <2>2, <2>3 DEF RecordConfirmation
  <2>5. \E c \in confirmed' : c.trip = t /\ c.number = n
    <3>1. CASE Duplicate(t, n)
      BY <2>4, <3>1 DEF Duplicate
    <3>2. CASE ~Duplicate(t, n)
      <4>1. [trip |-> t, number |-> n, source |-> s] \in confirmed'
        BY <2>4, <3>2
      <4> QED BY <4>1
    <3> QED BY <3>1, <3>2
  <2> QED BY <2>1, <2>2, <2>5
<1>4. confirmed \subseteq confirmed'
  BY DEF RecordConfirmation
<1>5. Source(w)' = Source(w) /\ Names(Source(w))' = Names(Source(w))
      /\ Paper(Source(w))' = Paper(Source(w))
  BY <1>1, <1>2 DEF Turns, Source, Names, Paper
<1>6. IsRecorded(Source(w))'
  BY <1>1, <1>3, <1>5 DEF IsRecorded
<1> QED BY <1>1, <1>2, <1>4, <1>5, <1>6 DEF Turns, OnAmount

LEMMA HistoryOnAmount ==
  ASSUME MailInv, DocInv, AmountInv, NEW w \in Workers, RecordInHistory(w)
  PROVE  Others(w) /\ OnAmount(w)'
<1>1. JobTyped /\ Finished(w) /\ asks' = asks /\ confirmed' = confirmed
  BY MailFacts DEF RecordInHistory, AppliesOnly
<1>2. job[w].task = "COST" => IsRecorded(Source(w))
  BY DEF AmountInv, OnAmount, RecordInHistory, At
<1>3. CASE w \in Uploads /\ job'[w] = Ended
  BY <1>1, <1>3, FinishedTurns, ElsewhereOnAmount DEF Ended, Idle, Elsewhere
<1>4. CASE Turns(w, "mark", job[w].task, <<>>, <<>>, FALSE, job[w].did)
  <2>1. IsRecorded(Source(w))' <=> IsRecorded(Source(w))
    BY <1>1, <1>4 DEF Turns, IsRecorded, Source, Names, Paper
  <2> QED BY <1>2, <1>4, <2>1 DEF Turns, OnAmount
<1> QED BY <1>1, <1>3, <1>4, FinishedTurns

LEMMA AddsAmounts ==
  ASSUME NEW w \in Workers, Imports(w)
  PROVE  confirmed \subseteq confirmed' /\ asks' = asks /\ email' = email
<1>1. CASE RecordConfirmation(w)
  BY <1>1 DEF RecordConfirmation, AppliesOnly
<1>2. CASE Fetch(w) \/ Store(w) \/ Lookup(w) \/ CreateTrips(w) \/ CreateRefused(w) \/ Persist(w)
  BY <1>2 DEF Fetch, Store, Lookup, CreateTrips, CreateRefused, Persist, database
<1>3. CASE Reapply(w) \/ Applied(w) \/ NotedCreated(w) \/ Forget(w) \/ Unlink(w)
  BY <1>3 DEF Reapply, Applied, NotedCreated, Forget, Unlink, database
<1>4. CASE \/ ApplyNewOrder(w) \/ ApplyRevision(w) \/ RevisionRefused(w) \/ ApplyCancellation(w)
           \/ RecordInHistory(w) \/ CreateMissing(w) \/ NoteCreated(w)
  BY <1>4 DEF ApplyNewOrder, ApplyRevision, RevisionRefused, ApplyCancellation, RecordInHistory,
     CreateMissing, NoteCreated, AppliesOnly
<1> QED BY <1>1, <1>2, <1>3, <1>4 DEF Imports

LEMMA ImportsAmounts ==
  ASSUME IInv, AmountInv, NEW w \in Workers, Imports(w)
  PROVE  AmountInv'
<1>1. confirmed \subseteq confirmed' /\ asks' = asks /\ email' = email
  BY AddsAmounts
<1>2. Others(w) /\ OnAmount(w)'
  BY PreparesElsewhere, AppliesElsewhere, EndsElsewhere, ElsewhereOnAmount, PersistOnAmount,
     RecordOnAmount, HistoryOnAmount DEF IInv, Imports
<1> QED BY <1>1, <1>2, AmountStep

(* A mail is processed where its import is to be marked. *)
LEMMA SettlesAmounts ==
  ASSUME IInv, AmountInv, NEW w \in Workers, Settles(w)
  PROVE  AmountInv'
<1>1. JobTyped /\ asks \in Asked /\ email \in
        [Messages -> [status : Statuses, stale : BOOLEAN, forwarded : BOOLEAN]]
  BY DEF IInv, MailInv, MailTyped
<1>2. confirmed' = confirmed /\ asks' = asks
  BY DEF Settles, Mark, MarkSeen, RecordFailure, ReportUpload, Forward, MarkForwarded, database
<1>3. Others(w) /\ Elsewhere(w)
  <2>1. CASE Continue(w)
    BY <1>1, <2>1, ContinueMoves DEF Idle, Elsewhere
  <2>2. CASE Goes(w, "seen") \/ Goes(w, "forward") \/ Goes(w, "stamp")
    BY <1>1, <2>2, GoesElsewhere DEF Phases
  <2>3. CASE job' = [job EXCEPT ![w] = Ended]
    BY <1>1, <2>3, ResetElsewhere
  <2> QED BY <2>1, <2>2, <2>3 DEF Settles, Mark, MarkSeen, RecordFailure, ReportUpload, Forward,
          MarkForwarded
<1>4. ASSUME NEW m \in Messages, email'[m].status = "PROCESSED", email[m].status # "PROCESSED",
             Task(m) = "COST"
      PROVE  IsRecorded(m)
  <2>1. Mark(w) /\ m = Source(w)
    BY <1>1, <1>4 DEF Settles, Mark, MarkSeen, RecordFailure, ReportUpload, Forward, MarkForwarded
  <2>2. Working(w) /\ At(w, "mark")
    BY <2>1 DEF Mark, Working, Resting, At
  <2>3. job[w].task = "COST"
    BY <1>4, <2>1, <2>2, AtWork DEF IInv, TaskFits
  <2> QED BY <2>1, <2>2, <2>3 DEF AmountInv, OnAmount, At
<1> QED BY <1>2, <1>3, <1>4, AmountStep, ElsewhereOnAmount

LEMMA TakesAmounts ==
  ASSUME IInv, AmountInv, NEW w \in Workers, Takes(w)
  PROVE  AmountInv'
<1>1. JobTyped /\ asks \in Asked /\ email \in
        [Messages -> [status : Statuses, stale : BOOLEAN, forwarded : BOOLEAN]]
  BY DEF IInv, MailInv, MailTyped
<1>2. PICK m \in Messages : Skip(w, m) \/ Ignore(w, m) \/ StartProcessing(w, m)
                            \/ ReopenForRetry(w, m)
  BY DEF Takes
<1>3. confirmed' = confirmed /\ asks' = asks /\ At(w, "next")
  BY <1>2 DEF Skip, Ignore, StartProcessing, ReopenForRetry, database
<1>4. \A x \in Messages : email'[x].status = "PROCESSED" => email[x].status = "PROCESSED"
  BY <1>1, <1>2 DEF Skip, Ignore, StartProcessing, ReopenForRetry, Reopened
<1>5. ASSUME NEW noted \in BOOLEAN, Opens(w, m, noted)  PROVE Others(w) /\ Elsewhere(w)
  BY <1>1, <1>5, OpensMoves DEF Elsewhere
<1>6. Others(w) /\ Elsewhere(w)
  <2>1. CASE Leaves(w, m)
    <3>1. Others(w) /\ job'[w] = [job[w] EXCEPT !.queue = job[w].queue \ {m}]
      BY <1>1, <2>1, LeavesMoves
    <3>2. job'[w].phase = "next"
      BY <1>1, <1>3, <3>1 DEF At, JobTyped, Job
    <3> QED BY <3>1, <3>2 DEF Elsewhere
  <2>2. CASE Opens(w, m, FALSE)
    BY <1>5, <2>2
  <2>3. CASE Opens(w, m, Reopened(email[m]).forwarded)
    <3>1. Reopened(email[m]).forwarded \in BOOLEAN
      BY <1>1 DEF Reopened
    <3> QED BY <1>5, <2>3, <3>1
  <2> QED BY <1>2, <2>1, <2>2, <2>3 DEF Skip, Ignore, StartProcessing, ReopenForRetry
<1> QED BY <1>3, <1>4, <1>6, AmountStep, ElsewhereOnAmount

LEMMA FailsAmounts ==
  ASSUME IInv, AmountInv, NEW w \in Workers, Fails(w)
  PROVE  AmountInv'
<1>1. JobTyped
  BY DEF IInv, MailInv
<1>2. confirmed' = confirmed /\ asks' = asks /\ email' = email
  BY DEF Fails, DownloadFails, LookupFails, TransactionFails, OutcomeFails, RecordFails,
     ForwardFails, database
<1>3. Others(w) /\ Elsewhere(w)
  <2>1. CASE Continue(w)
    BY <1>1, <2>1, ContinueMoves DEF Idle, Elsewhere
  <2>2. CASE \/ Breaks(w, "failed", "other") \/ Breaks(w, "failed", "download")
             \/ Breaks(w, "unlink", "other") \/ Breaks(w, "forget", "other")
    BY <1>1, <2>2, BreaksElsewhere DEF Phases, Errors
  <2>3. CASE job' = [job EXCEPT ![w] = Idle]
    BY <1>1, <2>3, ResetElsewhere
  <2> QED BY <2>1, <2>2, <2>3 DEF Fails, DownloadFails, LookupFails, TransactionFails,
          OutcomeFails, RecordFails, ForwardFails
<1> QED BY <1>2, <1>3, AmountStep, ElsewhereOnAmount

LEMMA StartsAmounts ==
  ASSUME IInv, AmountInv, NEW w \in Workers,
         \/ w \in Scanners /\ (Scan(w) \/ EndScan(w))
         \/ w \in Uploads /\ Upload(w)
  PROVE  AmountInv'
<1>1. JobTyped /\ w \in Workers
  BY DEF IInv, MailInv
<1>2. confirmed' = confirmed /\ asks' = asks /\ email' = email
  BY DEF Scan, EndScan, Upload, database
<1>3. ASSUME NEW r, job' = [job EXCEPT ![w] = r], r.phase \in {"next", "idle", "fetch"}
      PROVE  Others(w) /\ job'[w].phase \in {"next", "idle", "fetch"}
  BY <1>1, <1>3 DEF JobTyped, Others
<1>4. Others(w) /\ job'[w].phase \in {"next", "idle", "fetch"}
  <2>1. CASE Scan(w)
    BY <1>3, <2>1 DEF Scan, Idle
  <2>2. CASE EndScan(w)
    BY <1>3, <2>2 DEF EndScan, Idle
  <2>3. CASE Upload(w)
    BY <1>3, <2>3 DEF Upload, Idle
  <2> QED BY <2>1, <2>2, <2>3
<1>5. Elsewhere(w)
  BY <1>4 DEF Elsewhere
<1> QED BY <1>2, <1>4, <1>5, AmountStep, ElsewhereOnAmount

LEMMA QuietAmounts ==
  ASSUME AmountInv, UNCHANGED <<asks, confirmed>>,
         \A w \in Workers : job'[w] = job[w] \/ job'[w].phase \in {"idle", "done"},
         \A m \in Messages : email'[m].status = email[m].status
  PROVE  AmountInv'
<1>1. ASSUME NEW w \in Workers  PROVE OnAmount(w)'
  <2>1. CASE job'[w] = job[w]
    BY <2>1, OthersOnAmount
  <2>2. CASE job'[w].phase \in {"idle", "done"}
    BY <2>2 DEF OnAmount
  <2> QED BY <2>1, <2>2
<1>2. ASSUME NEW m \in Messages, Task(m)' = "COST", email'[m].status = "PROCESSED"
      PROVE  IsRecorded(m)'
  <2>1. Task(m) = "COST" /\ email[m].status = "PROCESSED"
    BY <1>2 DEF Task, Paper
  <2>2. IsRecorded(m)
    BY <2>1 DEF AmountInv
  <2> QED BY <2>2, RecordedStays
<1> QED BY <1>1, <1>2 DEF AmountInv

LEMMA AmountsStep ==
  ASSUME IInv, AmountInv, [Next]_vars
  PROVE  AmountInv'
<1>1. email \in [Messages -> [status : Statuses, stale : BOOLEAN, forwarded : BOOLEAN]]
  BY DEF IInv, MailInv, MailTyped
<1>2. ASSUME NEW m \in Messages, Arrive(m) \/ GoesStale(m)  PROVE AmountInv'
  <2>1. \A x \in Messages : email'[x].status = email[x].status
    BY <1>1, <1>2 DEF Arrive, GoesStale
  <2>2. UNCHANGED <<asks, confirmed, job>>
    BY <1>2 DEF Arrive, GoesStale, database
  <2> QED BY <2>1, <2>2, QuietAmounts
<1>3. ASSUME NEW w \in Workers, Works(w) \/ Fails(w)  PROVE AmountInv'
  BY <1>3, TakesAmounts, ImportsAmounts, SettlesAmounts, StartsAmounts, FailsAmounts DEF Works
<1>4. ASSUME NEW w \in Scanners, Scan(w)  PROVE AmountInv'
  BY <1>4, StartsAmounts DEF Workers
<1>5. ASSUME NEW u \in Uploads, Upload(u)  PROVE AmountInv'
  BY <1>5, StartsAmounts DEF Workers
<1>6. ASSUME NEW t \in Transports, OperatorCloses(t) \/ OperatorReopens(t)  PROVE AmountInv'
  <2>1. UNCHANGED <<asks, confirmed, job, email>>
    BY <1>6 DEF OperatorCloses, OperatorReopens
  <2> QED BY <2>1, QuietAmounts
<1>7. CASE Crash
  <2>1. \A w \in Workers : job'[w].phase \in {"idle", "done"}
    BY <1>7 DEF Crash, Ended, Idle
  <2>2. UNCHANGED <<asks, confirmed, email>>
    BY <1>7 DEF Crash, database
  <2> QED BY <2>1, <2>2, QuietAmounts
<1>8. CASE UNCHANGED vars
  BY <1>8, QuietAmounts DEF vars, database
<1> QED BY <1>2, <1>3, <1>4, <1>5, <1>6, <1>7, <1>8 DEF Next

LEMMA AmountsInit ==
  ASSUME Init
  PROVE  AmountInv
BY DEF Init, AmountInv, OnAmount, Idle, NoEmail

(* ... and with no second row of the same confirmation it is there once. *)
LEMMA RecordedIsCounted ==
  ASSUME IInv, AmountInv
  PROVE  AmountsCounted
<1> SUFFICES ASSUME NEW m \in Messages, Task(m) = "COST", email[m].status = "PROCESSED"
             PROVE  Cardinality({c \in confirmed : c.trip = Head(Names(m))
                                                   /\ c.number = Paper(m).number}) = 1
  BY DEF AmountsCounted
<1>1. PICK c \in confirmed : c.trip = Head(Names(m)) /\ c.number = Paper(m).number
  BY DEF AmountInv, IsRecorded
<1>2. \A d \in confirmed : d.trip = Head(Names(m)) /\ d.number = Paper(m).number => d = c
  BY <1>1 DEF IInv, DocInv, ConfirmedOnce
<1>3. {d \in confirmed : d.trip = Head(Names(m)) /\ d.number = Paper(m).number} = {c}
  BY <1>1, <1>2
<1> QED BY <1>3, FS_Singleton

---------------------------------------------------------------------------
(* The theorems. *)

LEMMA Inductive == Spec => []IInv
<1>1. Init => IInv
  BY MailInit, DocsInit DEF IInv
<1>2. IInv /\ [Next]_vars => IInv'
  BY MailStep, DocsStep DEF IInv
<1> QED BY <1>1, <1>2, PTL DEF Spec

(* Every variable keeps its type, and a scan under way has said so. *)
THEOREM TypeCorrect == Spec => []TypeOK
<1>1. IInv => TypeOK
  BY TypeParts DEF IInv, MailInv, DocInv, OneScan
<1> QED BY <1>1, Inductive, PTL

(* No mail is flagged as read before it has an outcome: whatever failed or *)
(* stopped in between, a mail a person sees as read was settled.           *)
THEOREM ReadMailsAreSettled == Spec => []SeenIsSettled
<1>1. IInv => SeenIsSettled
  BY DEF IInv, MailInv
<1> QED BY <1>1, Inductive, PTL

(* A failure is mailed once, and again only for each record of it that was *)
(* lost with the process or with the database.                             *)
THEOREM FailuresMailedOnce == Spec => []ForwardedOnce
<1>1. IInv => ForwardedOnce
  BY DEF IInv, MailInv
<1> QED BY <1>1, Inductive, PTL

(* A confirmation shown as PROCESSED is in the amounts of the transport it *)
(* is for exactly once, whether its own import recorded it or another one  *)
(* did at that moment, whatever failed or stopped and was tried again.     *)
THEOREM AmountsAreCounted == Spec => []AmountsCounted
<1>1. Init => AmountInv
  BY AmountsInit
<1>2. IInv /\ AmountInv /\ [Next]_vars => AmountInv'
  BY AmountsStep
<1>3. IInv /\ AmountInv => AmountsCounted
  BY RecordedIsCounted
<1> QED BY <1>1, <1>2, <1>3, Inductive, PTL DEF Spec

(* What is cited has its row and, unless two imports had its bytes in hand *)
(* at once, its file: no clean-up of a failed import takes it away.        *)
THEOREM NoEvidenceLost == Spec => []EvidenceKept
<1>1. IInv => EvidenceKept
  BY DEF IInv, DocInv, Cited, Kept, EvidenceKept
<1> QED BY <1>1, Inductive, PTL

(* However often a mail is tried again, its document reaches a transport   *)
(* no more often than it names it.                                         *)
THEOREM NeverAppliedTwice == Spec => []AppliedOnce
<1>1. IInv => AppliedOnce
  BY DEF IInv, DocInv, Within, AppliedOnce, Sources
<1> QED BY <1>1, Inductive, PTL

(* The import implements MailLedger: a mail is shown as PROCESSED only     *)
(* after all it asked for has happened, no attempt starts from a settled   *)
(* one, and what has happened because of a mail is never undone.           *)
THEOREM ImplementsLedger == Spec => LedgerSpec
<1>1. Init => Ledger!Init
  BY LedgerInit
<1>2. IInv /\ [Next]_vars => [Ledger!Next]_(Ledger!vars)
  BY NextLedger DEF LedgerStep, Ledger!vars
<1> QED BY <1>1, <1>2, Inductive, PTL DEF Spec, LedgerSpec, Ledger!Spec
=============================================================================
