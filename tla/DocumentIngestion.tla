-------------------------- MODULE DocumentIngestion --------------------------
(***************************************************************************)
(* The path of an uploaded document: the upload request, the Celery task   *)
(* documents.ingest with its retries and dead letters, and the pipeline    *)
(* that parses, chunks, embeds and indexes the file.                       *)
(*                                                                         *)
(* A step is one database transaction or one call to another service, and  *)
(* a read that a later write of its transaction relies on is a step of its *)
(* own: READ COMMITTED lets other workers write between the two.  A crash  *)
(* can fall between any two steps.  Of the data only what the control      *)
(* reads is kept: a content row is its version and whether chunks are      *)
(* stored under it; the clock of the row is whether _STALE_AFTER has       *)
(* passed since updated_at.                                                *)
(*                                                                         *)
(* The broker delivers at least once (task_acks_late).  What else the      *)
(* environment may do is the constant Faults, so that a run can say under  *)
(* which of them a property holds.                                         *)
(***************************************************************************)
EXTENDS Naturals, Sequences

CONSTANTS
  Documents,    \* document rows that uploads may create
  Workers,      \* Celery worker processes
  NoDocument,   \* the document of an idle worker
  MaxRetries,   \* max_retries of the task; _MAX_RETRIES is 3
  Faults,       \* which of FaultKinds the environment commits
  MaxFaults,    \* bound: crashes, duplicates and refused writes in a behaviour
  MaxReplays    \* bound: dead-letter replays in a behaviour

FaultKinds ==
  { "worker_crash",        \* a worker dies between two steps
    "api_crash",           \* the API dies, or the broker refuses, after the commit
    "duplicate_delivery",  \* the broker restores a message a living worker holds
    "early_redelivery",    \* a dead worker's message returns within _STALE_AFTER
    "slow_worker",         \* a living run leaves the row untouched for _STALE_AFTER
    "write_failure" }      \* the database or Redis refuses what a failing run writes

ASSUME ConstantsAssumption ==
  /\ NoDocument \notin Documents
  /\ MaxRetries \in Nat
  /\ Faults \subseteq FaultKinds
  /\ MaxFaults \in Nat
  /\ MaxReplays \in Nat

VARIABLES
  status,      \* Document.ingestion_status
  fresh,       \* updated_at lies within _STALE_AFTER
  deleted,     \* deleted_at is set
  contents,    \* the document_content rows, in the order they were inserted
  upload,      \* where the upload request is
  ready,       \* messages the broker can deliver, by document and retry count
  unacked,     \* messages whose worker died, not restored yet
  worker,      \* the task each worker runs
  deadLetter,  \* dead-letter entries per document
  replaying,   \* entries drained by the replay script and not sent yet
  faults,      \* faults so far
  replays      \* replays so far

vars == << status, fresh, deleted, contents, upload, ready, unacked, worker,
           deadLetter, replaying, faults, replays >>

row     == << status, fresh, deleted >>
broker  == << ready, unacked >>
letters == << deadLetter, replaying >>
bounds  == << faults, replays >>

Status      == {"absent", "PENDING", "PROCESSING", "INDEXED", "FAILED"}
UploadState == {"idle", "stored", "registered", "done", "refused", "crashed"}
Content     == [version : Nat, chunks : BOOLEAN]
Retries     == 0 .. MaxRetries

(* Where a task is.  Up to "claimed" it has changed nothing; "version" to   *)
(* "finish" are the steps of _ingest; "onerror" is the except of ingest,    *)
(* "settle" and "bury" the except of the task.                              *)
Pipeline == {"claimed", "fetch", "version", "store", "chunk", "embed",
             "index", "finish"}
PC       == {"idle", "received", "onerror", "settle", "bury", "ack"} \cup Pipeline

Task == [ pc       : PC,
          doc      : Documents \cup {NoDocument},
          retries  : Retries,
          tracked  : BOOLEAN,     \* the broker still holds the message for it
          latest   : Nat,         \* version read by get_latest
          content  : Nat,         \* position of this run's content row
          error    : {"none", "transient", "permanent"} ]

IdleTask == [ pc |-> "idle", doc |-> NoDocument, retries |-> 0, tracked |-> FALSE,
              latest |-> 0, content |-> 0, error |-> "none" ]

TypeOK ==
  /\ status     \in [Documents -> Status]
  /\ fresh      \in [Documents -> BOOLEAN]
  /\ deleted    \in [Documents -> BOOLEAN]
  /\ contents   \in [Documents -> Seq(Content)]
  /\ upload     \in [Documents -> UploadState]
  /\ ready      \in [Documents -> [Retries -> Nat]]
  /\ unacked    \in [Documents -> [Retries -> Nat]]
  /\ worker     \in [Workers -> Task]
  /\ deadLetter \in [Documents -> Nat]
  /\ replaying  \in [Documents -> Nat]
  /\ faults     \in Nat
  /\ replays    \in Nat

Init ==
  /\ status     = [d \in Documents |-> "absent"]
  /\ fresh      = [d \in Documents |-> FALSE]
  /\ deleted    = [d \in Documents |-> FALSE]
  /\ contents   = [d \in Documents |-> << >>]
  /\ upload     = [d \in Documents |-> "idle"]
  /\ ready      = [d \in Documents |-> [r \in Retries |-> 0]]
  /\ unacked    = [d \in Documents |-> [r \in Retries |-> 0]]
  /\ worker     = [w \in Workers |-> IdleTask]
  /\ deadLetter = [d \in Documents |-> 0]
  /\ replaying  = [d \in Documents |-> 0]
  /\ faults     = 0
  /\ replays    = 0

-----------------------------------------------------------------------------
(* Helpers.                                                                *)

At(w, pc) == worker[w].pc = pc
Doc(w)    == worker[w].doc

\* The task moves on; nothing else about it changes.
Goto(w, pc) == worker' = [worker EXCEPT ![w].pc = pc]

\* One more message in a bag of messages.
Plus(bag, d, r) == [bag EXCEPT ![d][r] = @ + 1]
Minus(bag, d, r) == [bag EXCEPT ![d][r] = @ - 1]

\* UPDATE document SET ingestion_status = s: unconditional, and the onupdate of
\* updated_at makes the row fresh again.
SetStatus(d, s) ==
  /\ status' = [status EXCEPT ![d] = s]
  /\ fresh'  = [fresh EXCEPT ![d] = TRUE]

\* Any other UPDATE of the row, which touches updated_at too.
Touch(d) == fresh' = [fresh EXCEPT ![d] = TRUE]

\* A living run works on d: it has claimed the row and not let go of it.
Working(w, d) == Doc(w) = d /\ worker[w].pc \in Pipeline

-----------------------------------------------------------------------------
(* The upload request: put the file, register the row, send the task.      *)

PutObject(d) ==
  /\ upload[d] = "idle"
  /\ upload' = [upload EXCEPT ![d] = "stored"]
  /\ UNCHANGED << row, contents, broker, worker, letters, bounds >>

\* register: the subject is checked only now, with the file already stored.
Register(d) ==
  /\ upload[d] = "stored"
  /\ \/ /\ upload' = [upload EXCEPT ![d] = "registered"]
        /\ SetStatus(d, "PENDING")
     \/ /\ upload' = [upload EXCEPT ![d] = "refused"]
        /\ UNCHANGED << status, fresh >>
  /\ UNCHANGED << deleted, contents, broker, worker, letters, bounds >>

\* Mutant of Enqueue: the request ends without sending the task.
EnqueueForgotten(d) ==
  /\ upload[d] = "registered"
  /\ upload' = [upload EXCEPT ![d] = "done"]
  /\ UNCHANGED << row, contents, broker, worker, letters, bounds >>

\* ingest_document.delay, after the commit.
Enqueue(d) ==
  /\ upload[d] = "registered"
  /\ upload' = [upload EXCEPT ![d] = "done"]
  /\ ready' = Plus(ready, d, 0)
  /\ UNCHANGED << row, contents, unacked, worker, letters, bounds >>

ApiCrash(d) ==
  /\ "api_crash" \in Faults
  /\ upload[d] = "registered"
  /\ upload' = [upload EXCEPT ![d] = "crashed"]
  /\ UNCHANGED << row, contents, broker, worker, letters, bounds >>

\* DELETE /documents/{id}: a soft delete, whatever the ingestion is doing.
SoftDelete(d) ==
  /\ status[d] # "absent"
  /\ ~deleted[d]
  /\ deleted' = [deleted EXCEPT ![d] = TRUE]
  /\ Touch(d)
  /\ UNCHANGED << status, contents, upload, broker, worker, letters, bounds >>

-----------------------------------------------------------------------------
(* The task.                                                               *)

Receive(w) ==
  /\ At(w, "idle")
  /\ \E d \in Documents, r \in Retries :
       /\ ready[d][r] > 0
       /\ ready' = Minus(ready, d, r)
       /\ worker' = [worker EXCEPT ![w] =
            [IdleTask EXCEPT !.pc = "received", !.doc = d, !.retries = r,
                             !.tracked = TRUE]]
  /\ UNCHANGED << row, contents, upload, unacked, letters, bounds >>

\* Mutants of MayTake: no takeover; INDEXED not excluded.
MayTakeNoTakeover(d) == ~deleted[d] /\ status[d] \in {"PENDING", "FAILED"}
MayTakeIndexed(d) == ~deleted[d] /\ (status[d] = "PROCESSING" => ~fresh[d])

\* The guards at the head of ingest: not deleted, not INDEXED, and not
\* PROCESSING unless nobody has touched the row for _STALE_AFTER.
MayTake(d) ==
  /\ ~deleted[d]
  /\ \/ status[d] \in {"PENDING", "FAILED"}
     \/ status[d] = "PROCESSING" /\ ~fresh[d]

\* get_for_processing and the guards.  The claim is a later statement.
ReadDocument(w) ==
  /\ At(w, "received")
  /\ \/ MayTake(Doc(w)) /\ Goto(w, "claimed")
     \/ ~MayTake(Doc(w)) /\ Goto(w, "ack")
     \/ worker' = [worker EXCEPT ![w].pc = "settle", ![w].error = "transient"]
  /\ UNCHANGED << row, contents, upload, broker, letters, bounds >>

Claim(w) ==
  /\ At(w, "claimed")
  /\ SetStatus(Doc(w), "PROCESSING")
  /\ Goto(w, "fetch")
  /\ UNCHANGED << deleted, contents, upload, broker, letters, bounds >>

\* get_object and parse_to_markdown.
Fetch(w) ==
  /\ At(w, "fetch")
  /\ Goto(w, "version")
  /\ UNCHANGED << row, contents, upload, broker, letters, bounds >>

\* n is the version get_latest returns, 0 when there is no content yet.
IsLatest(d, n) ==
  /\ \A i \in DOMAIN contents[d] : contents[d][i].version <= n
  /\ n = 0 \/ \E i \in DOMAIN contents[d] : contents[d][i].version = n

\* Mutant of ReadLatest: the latest version is not looked up.
ReadLatestSkipped(w) ==
  /\ At(w, "version")
  /\ worker' = [worker EXCEPT ![w].pc = "store", ![w].latest = 0]
  /\ UNCHANGED << row, contents, upload, broker, letters, bounds >>

\* get_latest; the content is inserted by a later statement.
ReadLatest(w) ==
  /\ At(w, "version")
  /\ \E n \in 0 .. Len(contents[Doc(w)]) :
       /\ IsLatest(Doc(w), n)
       /\ worker' = [worker EXCEPT ![w].pc = "store", ![w].latest = n]
  /\ UNCHANGED << row, contents, upload, broker, letters, bounds >>

StoreContent(w) ==
  LET d == Doc(w) IN
  /\ At(w, "store")
  /\ contents' = [contents EXCEPT ![d] =
       Append(@, [version |-> worker[w].latest + 1, chunks |-> FALSE])]
  /\ worker' = [worker EXCEPT ![w].pc = "chunk", ![w].latest = 0,
                                  ![w].content = Len(contents[d]) + 1]
  /\ UNCHANGED << row, upload, broker, letters, bounds >>

\* chunk_markdown found pieces; the total is published.
PublishTotal(w) ==
  /\ At(w, "chunk")
  /\ Touch(Doc(w))
  /\ Goto(w, "embed")
  /\ UNCHANGED << status, deleted, contents, upload, broker, letters, bounds >>

\* report: a batch of embeddings has landed.
ReportBatch(w) ==
  /\ At(w, "embed")
  /\ Touch(Doc(w))
  /\ UNCHANGED << status, deleted, contents, upload, broker, worker, letters, bounds >>

\* Mutant of Embedded: the status flips before the chunks are stored.
EmbeddedTooSoon(w) ==
  /\ At(w, "embed")
  /\ SetStatus(Doc(w), "INDEXED")
  /\ Goto(w, "index")
  /\ UNCHANGED << deleted, contents, upload, broker, letters, bounds >>

Embedded(w) ==
  /\ At(w, "embed")
  /\ Goto(w, "index")
  /\ UNCHANGED << row, contents, upload, broker, letters, bounds >>

\* Mutant of IndexContent: the chunks go under the first content.
IndexFirstContent(w) ==
  /\ At(w, "index")
  /\ contents' = [contents EXCEPT ![Doc(w)][1].chunks = TRUE]
  /\ Goto(w, "finish")
  /\ UNCHANGED << row, upload, broker, letters, bounds >>

\* index_content: delete_by_content, add_many, commit, in one transaction.
\* Content rows are never deleted while their document exists, so the
\* InvalidContentError at its head has no case here.
IndexContent(w) ==
  /\ At(w, "index")
  /\ contents' = [contents EXCEPT ![Doc(w)][worker[w].content].chunks = TRUE]
  /\ Goto(w, "finish")
  /\ UNCHANGED << row, upload, broker, letters, bounds >>

Finish(w) ==
  /\ At(w, "finish")
  /\ SetStatus(Doc(w), "INDEXED")
  /\ Goto(w, "ack")
  /\ UNCHANGED << deleted, contents, upload, broker, letters, bounds >>

\* A step of _ingest raises.  An AppError is permanent: an unreadable format
\* (fetch), no text (chunk), a model of the wrong dimension (embed).
Fail(w) ==
  /\ worker[w].pc \in Pipeline
  /\ \E kind \in {"transient", "permanent"} :
       /\ kind = "permanent" => worker[w].pc \in {"fetch", "chunk", "embed"}
       /\ worker' = [worker EXCEPT ![w].pc = "onerror", ![w].error = kind,
                                       ![w].latest = 0, ![w].content = 0]
  /\ UNCHANGED << row, contents, upload, broker, letters, bounds >>

\* Mutant of OnError: the document is put back as if nothing had been tried.
OnErrorPending(w) ==
  /\ At(w, "onerror")
  /\ SetStatus(Doc(w), "PENDING")
  /\ Goto(w, "settle")
  /\ UNCHANGED << deleted, contents, upload, broker, letters, bounds >>

\* The except of ingest: rollback, FAILED, commit, raise.
OnError(w) ==
  /\ At(w, "onerror")
  /\ SetStatus(Doc(w), "FAILED")
  /\ Goto(w, "settle")
  /\ UNCHANGED << deleted, contents, upload, broker, letters, bounds >>

GivesUp(w) ==
  \/ worker[w].error = "permanent"
  \/ worker[w].retries >= MaxRetries

\* self.retry sends a new message with one more retry and raises; the old
\* message is acknowledged after that.
Retry(w) ==
  /\ At(w, "settle")
  /\ ~GivesUp(w)
  /\ ready' = Plus(ready, Doc(w), worker[w].retries + 1)
  /\ Goto(w, "ack")
  /\ UNCHANGED << row, contents, upload, unacked, letters, bounds >>

\* Mutant of MarkFailed: the dead letter is forgotten.
MarkFailedOnly(w) ==
  /\ At(w, "settle")
  /\ GivesUp(w)
  /\ SetStatus(Doc(w), "FAILED")
  /\ Goto(w, "ack")
  /\ UNCHANGED << deleted, contents, upload, broker, letters, bounds >>

MarkFailed(w) ==
  /\ At(w, "settle")
  /\ GivesUp(w)
  /\ SetStatus(Doc(w), "FAILED")
  /\ Goto(w, "bury")
  /\ UNCHANGED << deleted, contents, upload, broker, letters, bounds >>

\* dead_letter.record.
Bury(w) ==
  /\ At(w, "bury")
  /\ deadLetter' = [deadLetter EXCEPT ![Doc(w)] = @ + 1]
  /\ Goto(w, "ack")
  /\ UNCHANGED << row, contents, upload, broker, replaying, bounds >>

\* The task returns or raises: acks_late acknowledges only now.
Ack(w) ==
  /\ At(w, "ack")
  /\ worker' = [worker EXCEPT ![w] = IdleTask]
  /\ UNCHANGED << row, contents, upload, broker, letters, bounds >>

-----------------------------------------------------------------------------
(* The environment: crashes, the broker's redeliveries, time, the operator. *)

Crash(w) ==
  /\ "worker_crash" \in Faults
  /\ faults < MaxFaults
  /\ ~At(w, "idle")
  /\ worker' = [worker EXCEPT ![w] = IdleTask]
  /\ unacked' = IF worker[w].tracked
                  THEN Plus(unacked, Doc(w), worker[w].retries)
                  ELSE unacked
  /\ faults' = faults + 1
  /\ UNCHANGED << row, contents, upload, ready, letters, replays >>

\* Mutant of Restore: the same message is restored again and again.
RestoreUntracked(d, r) ==
  /\ ready' = Plus(ready, d, r)
  /\ unacked' = Minus(unacked, d, r)
  /\ UNCHANGED << row, contents, upload, worker, letters, bounds >>

\* The broker restores a dead worker's message.
Restore(d, r) ==
  /\ unacked[d][r] > 0
  /\ "early_redelivery" \in Faults \/ ~(status[d] = "PROCESSING" /\ fresh[d])
  /\ ready' = Plus(ready, d, r)
  /\ unacked' = Minus(unacked, d, r)
  /\ UNCHANGED << row, contents, upload, worker, letters, bounds >>

\* The visibility timeout ends under a living worker: the broker restores the
\* message and no longer connects it to that worker.
Duplicate(w) ==
  /\ "duplicate_delivery" \in Faults
  /\ faults < MaxFaults
  /\ ~At(w, "idle")
  /\ worker[w].tracked
  /\ ready' = Plus(ready, Doc(w), worker[w].retries)
  /\ worker' = [worker EXCEPT ![w].tracked = FALSE]
  /\ faults' = faults + 1
  /\ UNCHANGED << row, contents, upload, unacked, letters, replays >>

\* What a failing run writes is refused.  The UPDATE in ingest raises an error of
\* its own, which is no AppError; the one in _mark_failed and the publication of
\* a retry end the task; dead_letter.record swallows its errors.
LoseOutcome(w) ==
  /\ "write_failure" \in Faults
  /\ faults < MaxFaults
  /\ \/ /\ At(w, "onerror")
        /\ worker' = [worker EXCEPT ![w].pc = "settle", ![w].error = "transient"]
     \/ worker[w].pc \in {"settle", "bury"} /\ Goto(w, "ack")
  /\ faults' = faults + 1
  /\ UNCHANGED << row, contents, upload, broker, letters, replays >>

\* _STALE_AFTER passes since updated_at.  Only a PROCESSING row is asked.
GoStale(d) ==
  /\ status[d] = "PROCESSING"
  /\ "slow_worker" \in Faults \/ \A w \in Workers : ~Working(w, d)
  /\ fresh' = [fresh EXCEPT ![d] = FALSE]
  /\ UNCHANGED << status, deleted, contents, upload, broker, worker, letters, bounds >>

\* scripts/dead_letter.py replay: take every entry out, then send them one by
\* one.  Filters, refusals and a crash of the script are not modelled here.
Drain ==
  /\ replays < MaxReplays
  /\ \E d \in Documents : deadLetter[d] > 0
  /\ replaying' = [d \in Documents |-> replaying[d] + deadLetter[d]]
  /\ deadLetter' = [d \in Documents |-> 0]
  /\ replays' = replays + 1
  /\ UNCHANGED << row, contents, upload, broker, worker, faults >>

Resend(d) ==
  /\ replaying[d] > 0
  /\ replaying' = [replaying EXCEPT ![d] = @ - 1]
  /\ ready' = Plus(ready, d, 0)
  /\ UNCHANGED << row, contents, upload, unacked, worker, deadLetter, bounds >>

-----------------------------------------------------------------------------

\* The steps of a task that is running.
Step(w) ==
  \/ ReadDocument(w) \/ Claim(w) \/ Fetch(w) \/ ReadLatest(w) \/ StoreContent(w)
  \/ PublishTotal(w) \/ Embedded(w) \/ IndexContent(w) \/ Finish(w)
  \/ Fail(w) \/ OnError(w) \/ Retry(w) \/ MarkFailed(w) \/ Bury(w) \/ Ack(w)

Next ==
  \/ \E d \in Documents :
       \/ PutObject(d) \/ Register(d) \/ Enqueue(d) \/ ApiCrash(d) \/ SoftDelete(d)
       \/ GoStale(d) \/ Resend(d)
       \/ \E r \in Retries : Restore(d, r)
  \/ \E w \in Workers :
       \/ Receive(w) \/ Step(w) \/ ReportBatch(w)
       \/ Crash(w) \/ Duplicate(w) \/ LoseOutcome(w)
  \/ Drain

Spec == Init /\ [][Next]_vars

\* A running request and a running task go on; an idle worker takes messages;
\* the broker restores what a dead worker held; time passes; the replay script
\* finishes.  Nothing makes a user upload or an operator replay.
Fairness ==
  /\ \A d \in Documents :
       /\ WF_vars(Enqueue(d) \/ ApiCrash(d))
       /\ WF_vars(GoStale(d))
       /\ WF_vars(Resend(d))
       /\ \A r \in Retries : WF_vars(Restore(d, r))
  /\ \A w \in Workers : WF_vars(Receive(w)) /\ WF_vars(Step(w))

FairSpec == Spec /\ Fairness

-----------------------------------------------------------------------------
(* Properties.                                                             *)

Indexed(d) == \E i \in DOMAIN contents[d] : contents[d][i].chunks

\* The contents retrieval searches for d (list_content_ids_for_user).
Searchable(d) == IF deleted[d] THEN {}
                 ELSE {i \in DOMAIN contents[d] : contents[d][i].chunks}

Lifecycle == INSTANCE DocumentLifecycle
               WITH hasText <- [d \in Documents |-> Indexed(d)]

\* Whoever looks at a document sees the simple life of DocumentLifecycle, however workers,
\* retries, redeliveries and refused writes interleave: PENDING once, INDEXED only over
\* text that is found from then on, and a deletion for good (docstring of ingest).
ImplementsLifecycle == Lifecycle!Spec

\* Somebody still holds work for d: a message, a task that is not merely about
\* to be acknowledged, the replay script, or a dead letter an operator can see.
Responsible(d) ==
  \/ \E r \in Retries : ready[d][r] > 0 \/ unacked[d][r] > 0
  \/ \E w \in Workers : Doc(w) = d /\ ~At(w, "ack")
  \/ deadLetter[d] > 0 \/ replaying[d] > 0

\* The status only flips to INDEXED once the chunks are persisted, and no
\* interleaving of workers, crashes, retries and takeovers takes them away
\* (docstring of ingest).
IndexedMeansSearchable ==
  \A d \in Documents : status[d] = "INDEXED" => Indexed(d)

\* A live document that failed is never just left: a message, a task or a dead
\* letter still refers to it ("A failure that has given up is written here",
\* dead_letter.py).
NoSilentFailure ==
  \A d \in Documents :
    status[d] = "FAILED" /\ ~deleted[d] => Responsible(d)

\* A document waiting in PENDING has its task under way, unless the request
\* ended between the commit and the delay.
PendingIsQueued ==
  \A d \in Documents :
    status[d] = "PENDING" /\ ~deleted[d] /\ upload[d] # "crashed"
      => Responsible(d) \/ upload[d] = "registered"

\* A redelivery for a document already INDEXED is a no-op (README.md,
\* docs/architecture/ARCHITECTURE.md): with single deliveries and crashes, an
\* INDEXED document is never claimed, parsed and embedded again.
IndexedIsNotReprocessed ==
  [][\A d \in Documents : status[d] = "INDEXED" => status'[d] # "PROCESSING"]_vars

\* When a document is INDEXED, the newest content is the one with the chunks,
\* so the page and the search show the same text, whatever runs failed or
\* crashed before.
NewestContentIsIndexed ==
  \A d \in Documents : status[d] = "INDEXED" =>
    \E i \in DOMAIN contents[d] :
      contents[d][i].chunks /\ IsLatest(d, contents[d][i].version)

\* Two runs never store the same version of a document.
VersionsAreUnique ==
  \A d \in Documents : \A i, j \in DOMAIN contents[d] :
    contents[d][i].version = contents[d][j].version => i = j

\* A document whose task was sent ends INDEXED, or in the dead letters, or
\* deleted: a crash anywhere in the run does not strand it in PROCESSING.
EveryDocumentSettles ==
  \A d \in Documents :
    (upload[d] = "done" /\ status[d] \in {"PENDING", "PROCESSING", "FAILED"})
      ~> (status[d] = "INDEXED" \/ deadLetter[d] > 0 \/ deleted[d])

\* "Past a staleness threshold it is taken over": PROCESSING ends
\* (docs/architecture/ARCHITECTURE.md, docstring of ingest).
ProcessingIsTakenOver ==
  \A d \in Documents :
    (status[d] = "PROCESSING") ~> (status[d] # "PROCESSING" \/ deleted[d])

\* "re-ingesting a document replaces its chunks" (README.md): a document never
\* has two generations of chunks to search.
ReingestionReplaces ==
  \A d \in Documents : \A i, j \in Searchable(d) : i = j
=============================================================================
