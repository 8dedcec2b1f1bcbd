# ProfPlan in TLA+

A formal model of the parts of ProfPlan (`src/`) that are hard to test: what happens to a
document and to a plan between the request that starts the work and the last Celery task
that ends it, how the calls to the language models are protected from each other, what overlapping
requests do to the hierarchy of rows that a teacher owns, and the services around them:
sessions, links by mail, the erasure and the export of an account, the budget, the dead
letters, the search, the chunks and their embeddings, the calendar, the catalogs and the
migrations of the database.
Every definition is a translation of code; `PROJECT.json` says of which lines.

## 1. The system

ProfPlan is a FastAPI application with Celery workers. PostgreSQL holds the rows, Redis is
broker, cache and the home of the circuit breakers and of the dead-letter list, MinIO holds
the uploaded files, Ollama and several hosted models answer the prompts.

| Part | State | Operations | Talks to |
|---|---|---|---|
| Upload and ingestion (`documents`, `rag`, `tasks/ingest.py`) | `documents.ingestion_status`, `document_contents`, chunks, the file | upload, delete; `documents.ingest`: claim, fetch, parse, store, embed, index, finish, fail | storage, broker, dead letter |
| Plan generation (`generation`, `tasks/generate.py`) | `plan_generation.status`, `academic_items.generation_status` | `begin`, `start`; `plans.generate`: draft, materialise, fan out; `generation.run_item`: write, recount | gateway, retrieval, broker, dead letter |
| LLM gateway (`ai/infrastructure/gateway`) | two Redis keys per provider, a semaphore per process | `generate`, `allow`, `record_success`, `record_failure` | providers, Redis |
| Provider toggle (`ai/application/providers_service.py`) | `ai_provider.enabled` | `set_enabled` | gateway |
| Dead letter (`dead_letter.py`, `scripts/dead_letter.py`) | one Redis list | `record`, `entries`, `drain`, replay | every task |
| Budget and usage (`generation`, `ai/domain/usage.py`, `ai/domain/pricing.py`) | usage rows per run | `ensure_budget`, `add_usage` | gateway, generation, planner, reviewer |
| Planner and reviewer (`generation/application/planner.py`, `reviewer.py`, `domain/roadmap_eval.py`) | none of their own; the session of the task | context, drafts, check, judge, repair | retrieval, gateway, the drafting task |
| Calendar of a roadmap (`generation/domain/scheduling.py`) | none | period split, days of items | generation |
| Citations (`academic_items/.../source_repository.py`) | `academic_item_source` | `replace`, `list_for_item` | generation, retrieval |
| Teaching hierarchy (`subjects`, `teaching_plans`, `plan_modules`, `academic_items`) | rows with `deleted_at` | create, update, cascading soft delete | documents, generation |
| Sessions (`auth/application/service.py`) | `refresh_token`, `users.password_hash` | register, sign in (password, Google), rotate, sign out here and everywhere | limiter, audit |
| Account (`auth/application/account_service.py`) | `verification_token` | ask for, confirm a reset or a verification; change the password | sessions, e-mail task |
| Limiter (`auth/infrastructure/rate_limit.py`) | a Redis counter per address and per account | check, record a failure, clear | sessions |
| Cookies and CSRF (`auth/presentation`, `api/csrf.py`, `google_oauth.py`) | three cookies, one state per consent | set, clear, guard, redirect, callback | sessions |
| Leaving (`users/application/account_data_service.py`) | everything of an account | erase, export | storage, logs |
| Retrieval (`rag`) | chunks | hybrid search, rank fusion | documents |
| Chunker, embeddings and their cache (`rag/infrastructure`) | Redis entries per text | split, embed in batches | Redis, Ollama |
| Catalogs (`catalogs`, `academic_item_categories`), audit (`audit`) | icons, colors, categories, types; audit rows | create, update, delete | subjects |
| Migrations (`alembic`) | the schema | upgrade, downgrade | everything |
| The rest | handouts, parser, configuration, telemetry, HTTP edge | | |

The parts meet in four places: the **broker** (a request commits a row, then sends a task;
`task_acks_late` delivers a task again when its worker dies), the **dead-letter list** (a
task that exhausted its retries leaves an entry that an operator can replay), **rows that
several processes update without locks** (the status of a document, of a run), and the
**Redis keys** of the breakers. The hard behaviours all live there: a crash between two
commits, a redelivery of work already done, two runs over one document, two items that
recount one run, a count that expires before it is used.

What makes each part correct, in a sentence:

* a document is only called INDEXED when a search can find it, and one that is not has
  somebody or something still responsible for it;
* a run is only called COMPLETED when its items are written, and it ends;
* a provider that fails is left alone for a while and tried again, and every call ends;
* no live row hangs below a deleted one, and a deletion takes nothing else;
* signing out everywhere ends every session, a sign-in has one, a link works once, and only
  the last one that was asked for; a browser with a session is never refused its own writes;
* an erased account leaves nothing behind, an export leaves nothing out;
* a dead letter is in one place, a replay does not run it twice; the month is overspent by
  what was due when the last generation was let in, or came back since, and no more, and every
  cent of the work that was kept is on record;
* no text of a document is lost between its chunks, each chunk has its own vector, an answer
  stays within the account, an item cites what it was written from and has a day of its module;
* what points at a catalog is accounted for, and every way through the migrations applies.

## 2. The modules

| Module | What it is |
|---|---|
| `DocumentIngestion` | upload, deletion and the ingestion task, with the broker, crashes, retries, dead letters |
| `DocumentIngestionProofs` | theorems about it, and that it implements `DocumentLifecycle` |
| `MCDocumentIngestion` | symmetry for its runs, and the bound `MaxContents` of one |
| `PlanGeneration` | the requests that open a run, the drafting task, the item tasks, the recount |
| `PlanGenerationProofs` | theorems about it, and that it implements `GenerationLifecycle` |
| `DocumentLifecycle`, `GenerationLifecycle` | abstract: what the reader of a document's badge, and whoever polls a run, is promised |
| `MCPlanGeneration` | instances for its violation runs |
| `LLMGateway` | the gateway, its semaphore and the breakers |
| `LLMGatewayProofs` | three theorems about it |
| `MCLLMGateway` | a chain and the sets of disabled providers for its runs |
| `Workspace` | subjects, plans, modules, items and documents under overlapping creation, moves and cascading deletion |
| `WorkspaceProofs` | three theorems about it |
| `MCWorkspace` | the trees its runs start from |
| `Sessions`, `OneTimeLinks`, `SignInLimiter`, `BrowserSession` | sessions, links, the limiter, the cookies |
| `AccountData`, `AccountExport` | leaving, and taking one's data along |
| `DeadLetterList`, `ProviderToggle`, `MonthlyBudget` | the operator's list and switch, the money |
| `RoadmapReview`, `RoadmapSchedule`, `HybridSearch`, `EmbeddingCache`, `Chunker` | the algorithms, and what overlaps with them |
| `ItemSources`, `Catalogs`, `SchemaMigrations` | citations, catalogs and audit, the schema |
| `PlanningProofs` | theorems about `MonthlyBudget`, `RoadmapSchedule` and `RoadmapReview`, with a library of sums over finite sets and of the division of naturals |
| `PassageProofs` | theorems about `ItemSources`, `HybridSearch`, `EmbeddingCache` and `Chunker`, with the lemma that a recursive function over a list exists |
| `MCLiveness` | composes `PlanGeneration` twice, `DocumentIngestion` and `SignInLimiter` for the liveness run |
| `LivenessProofs` | the safety of that run for every size of its scenarios |
| `MCServices` | composes the sixteen services for their run |
| `ServicesProofs` | theorems about the services as `MCServices` composes them: nine proved in place, seven by `PlanningProofs` and `PassageProofs` |
| `MCDeadLetterList` | an instance for the violation run of the list |

In every module a process (a worker, a call, a request) is a record with a program counter
`pc`; a step of a process is one transaction, or one statement of it where others may commit
before the next, or one call to another service. What a process keeps in memory between two
steps (a status it read, a session object it will compare with) is a field of that record, so
that a step can act on something that is no longer so.
`Faults` selects what the environment may do (`FaultKinds` lists it, each with the line of
comment that says what it stands for) and `MaxFaults`, `MaxReplays` and `MaxAborts` bound how
often. The messages of the broker are bags, so a message can be there twice and messages
overtake each other. Operators named after a bug, each with a comment that begins "A bug",
are not part of any specification: they are the mutated forms of the definition they precede,
and show that the properties can fail.

### 2.1 DocumentIngestion

State: `status`, `fresh` (whether `updated_at` lies within `_STALE_AFTER`) and `deleted` are columns of
`documents`; `contents` the stored contents, each with or without chunks; `ready`, `unacked` the broker; `worker` the tasks; `deadLetter`, `replaying` the
entries. Actions follow the pipeline of `ingestion_service.py`: `PutObject`, `Register`,
`Enqueue` (the upload request and its three separate effects), `Receive`, `ReadDocument`
(the guards), `Claim`, `Fetch`, `ReadLatest`, `StoreContent`, `PublishTotal`, `ReportBatch`,
`Embedded`, `IndexContent`, `Finish`; `Fail`, `OnError`, `Retry`, `MarkFailed`,
`Bury`, `Ack` are the failure path of the task, `LoseOutcome` is any write of that path that
a store refuses. Time is one boolean: `GoStale` lets `_STALE_AFTER` pass.

Properties.

* `IndexedMeansSearchable`: INDEXED is only reported over stored chunks, with two runs over one
  document and takeovers of living runs.
* `NoSilentFailure`, `PendingIsQueued`: a live document that is FAILED or PENDING has a message,
  a task, a dead letter or a replay that refers to it.
* `NewestContentIsIndexed`, `VersionsAreUnique`, `IndexedIsNotReprocessed`: what a run that
  follows a crashed one may and may not do.
* `EveryDocumentSettles`: a document whose task was sent becomes INDEXED, or is in the dead
  letters, or deleted.
* `ImplementsLifecycle`: every step is one the reader of the badge was promised
  (`DocumentLifecycle`), or none. The mapping reads `hasText` off the stored contents: a passage
  can be found as soon as one content has chunks, before the badge says so. The abstract
  specification says that the text is never taken away and INDEXED never shown without it; that
  work may begin again, or fail, over a document that is INDEXED is part of the promise, since
  deliveries may overlap.

### 2.2 PlanGeneration

State: `run`, `item`, `runOf`, `removed` are the rows; `request` and `unsent` the request that
opens the run; the rest as above. A worker runs either `plans.generate` (`OpenDraft`,
`Materialize`, `Refresh`, `FanOut`, `FailRun`) or `generation.run_item` (`StartItem`, `LoadRun`,
`CompleteItem`, `MarkItemFailed`, `ReloadRun`, `CountItems`, `SaveRun`).

The heart of it is the recount. The session factories set `expire_on_commit=False`; the run that
`_recompute_run` gets from its query is therefore the object that `process_item` loaded before
the call to the model, with the status of that time, and assigning an equal status sends no
UPDATE. `seen` is that status and `SetRun` that rule. `Counted` counts the task's own item from
memory and the others from the database.

Properties.

* `CompletedMeansAllWritten`: a COMPLETED run has no live item that is not written, although
  counting and saving are two steps and several tasks do both at once.
* `ImplementsLifecycle`: every step is one whoever polls the run was promised (`GenerationLifecycle`),
  or none: one roadmap, whole, or FAILED and a retry; a written item stays written (which is
  `WrittenItemsStay`); COMPLETED only over written items. RUNNING and PARTIAL may be behind the items,
  since a recount saves what it counted a statement ago. The mapping is the identity on the four
  columns that are visible. It holds where nothing repeats a task.
* `NoItemIsForgotten`: an item that is not written has a message, a task, a dead letter, or a
  request or drafting task that is about to send it.
* `FailedRunHasNoItems`: FAILED stays what the domain says it is, a run that was never planned,
  as long as nothing fails behind the commit of the roadmap: `fail_run` does not look for items.
  That fault, `roadmap_failure`, is in neither scenario of `liveness`, for the claim is false with it.
* `EveryRunEnds`: a run whose messages were sent becomes COMPLETED, PARTIAL or FAILED.

### 2.3 LLMGateway

State: `failures` and `failuresTtl`, `openTtl` are the two Redis keys of each breaker with what
is left of their times to live, `call` the calls of one process. A step is one Redis command;
`Incr`, `Expire` and `SetOpen` are the up to three commands of one `record_failure`, which the
commands of other calls, and `Tick`, come between. `tripped`, `slow` are history variables.

Properties.

* `OpensAtThreshold`: a count at the threshold goes with an open breaker that lasts at least as
  long as the count, or with a call that is about to open it.
* `CountExpires`: no count stays without a time to live.
* `BreakerRecovers`: an open breaker closes again, whatever the calls in flight do.
* `EveryCallEnds`: a call ends and gives the semaphore back.

### 2.4 Workspace

State: `state` is what `deleted_at` says of each row, `parent` its foreign key (`subject_id`,
`plan_id`, `module_id`); `request` the transactions, one per HTTP request or drafting task. A
step is one statement. `Scan`, `Update`, `Return` are the beginning, each row, and the end of
one `UPDATE ... WHERE parent IN ... AND deleted_at IS NULL RETURNING id` of
`cascade_soft_delete`, and `NextLevel` the order in which the services issue them.

What a transaction sees and waits for is PostgreSQL's READ COMMITTED, which the code relies on
by default (`create_async_engine` names no isolation level): a statement sees what was committed
when it began, waits for a row that another transaction has updated, then evaluates its WHERE on
the new row (`Matches` in `Update`). `marked` are the rows a request has updated, hence locked.
Two settings of the code shape the model. The sessions have `autoflush=False`, so
`subject.soft_delete()` is written at the commit: the row itself is locked *after* the rows below
it (`CommitDelete`). And a foreign key refers to the id alone, so inserting a child does not
conflict with the UPDATE of the parent's `deleted_at`. `Victim` is the database's deadlock
detection; it is external, like the locks.

`LateEntries` says whether a row may be inserted or moved below one that a request is just
deleting. With it the orphan of section 5 appears; without it, everything else may still
overlap: deletions with each other, with moves out of or within the deleted tree, and with
entries elsewhere.

Properties.

* `NoLiveBelowDeleted`: what ON DELETE CASCADE would guarantee, across four separate statements.
* `DeletesOnlyItsSubtree`: a row that was moved out before it was locked survives; the action
  property says that a row is deleted only by the commit of a request whose target is above it *at
  that moment*.
* `EveryRequestEnds`: deletions of a subject and of its plan take the same locks in opposite
  orders, and still both get an answer.

### 2.5 Who is signed in

`Sessions`. A request is a transaction that reads its row without a lock, verifies a password
(which takes a while), and commits; `RevokeAll` is the `UPDATE ... WHERE revoked_at IS NULL` of the
three requests that end every session (`Enders`), which sees what is committed when it is sent.
`sessions` is the table `refresh_token`; `root` says which sign-in a row descends from, `since`
how many endings had been committed when that began, `raced` that two requests presented the
token at once. `SignedOutMeansOut` says that a session that lives is younger than the last ending,
`OneSessionPerSignIn` that rotation leaves one. Both make an exception, and say which: requests
in flight at the moment of the ending, and two requests with one token.

`OneTimeLinks`. `Issue` spends the earlier links and commits its own, `Mail` may never happen,
`Open` and `Confirm` are the read and the commit of a confirmation, so that a link may be opened
twice at once. `LastLinkWins`: asking for a link kills the previous ones and nothing newer.

`SignInLimiter`. `GET`, `INCR`, `EXPIRE` and `DEL` are steps; `FailuresAreBounded` says that what gets
past the gate is what is in flight, `LockoutEnds` that a lockout ends, unless an attempt dies between
INCR and EXPIRE: then the address is counted for good, and locked out for good when the window is full.

`BrowserSession`. Three cookies with the ages that `router.py` gives them, the double-submit
guard of `csrf.py`, tabs whose requests overlap and whose answers are lost or overtake each other,
and the state of a consent at Google (a Redis key whose DEL says whether it was there). `SignInWorksOnceAndStays`: a
browser with a session cookie always has the CSRF cookie that its writes need.

### 2.6 Leaving

`AccountData`: the erasure reads the paths, removes the files one by one, and commits; an upload
puts its file, then its row, unless its subject is refused; a sign-in that fails writes the
address to the logs. `NothingIsLeftBehind` is about rows and files together. `AccountExport`: eight
queries over tables of which some are read by the ids found before (`ByParent`).
`ExportIsComplete`: what was there when the export began is in it; a row may come without the
one it hangs from, but only if both were added meanwhile.

### 2.7 The operator

`DeadLetterList` is the list as both task modules use it, with the cap, and the script as
`Drain`, `Confirm`, `Decline`, `Send`, `PutBack`, `Die`. `EntriesAreMoved`: an entry is in one place,
and in none for one of four named reasons. `ProviderToggle`: `Decide` and `Commit` of two admins.
`MonthlyBudget`: the two doors (`AskCreate`, `AskRetrigger`), the planner's calls with the ledger of
their scope, the judge and the repair, the items, and the rows that the ledgers are added to. `queue`
are the messages and dead letters of a run, `work` what its slots (tasks, a request that drafts) do.
Neither `TakePlan` nor `CallItem` looks at what has been done: a message that comes back after its
work was committed, or is there twice (`Break`), drafts another roadmap, or writes the item again, and
pays again. `BudgetHolds` bounds the overshoot by what was due: `atDoor` are the calls that messages and
tasks could still lead to when the last generation was let in, or the month turned, and those of the
messages that came back since. Its other half says that a run has on record what its models add up
to, and what was paid for the work it kept, as often as it was done. A request that dies between its two
commits keeps its roadmap and loses its ledger ("torn", the one exception).

### 2.8 Passages

`Chunker` reads one line per step; a paragraph is an interval of characters, so that windows and
overlaps are arithmetic. A heading pops the stack (`ReadHeading` keeps the headings below the first
that stays), `Packed` is the loop over the pieces. `NoTextIsLost` is the reference definition: every character of every
paragraph is in a chunk below exactly the headings above it, in the order of the document. `EmbeddingCache`: two jobs over one
cache, in batches. `HybridSearch`: three statements with deletions between them, or two where no word of the question counts; the ranks of the
two lists are any order, and the comparison of fused scores is exact (`Ahead` multiplies fractions
out). `ItemSources`: two deliveries of one item; DELETE sees a snapshot and waits for rows it
cannot delete yet (`BeginDelete`, `EndDelete`), `add_usage` takes the lock of the run, and the
commit sends text and rows, which the unique (item, rank) may refuse. `CitationsHold`: the
sources are those of the text, never a mixture of two prompts.

### 2.9 The rest of the services

`RoadmapReview` is one attempt at a roadmap: `Retrieve`, `Draft`, `Evaluate`, `Judge`, `Repair` are the steps of
the planner, `Store` the end of the task. `CheckRoadmap` counts titles as the code does, through all
modules; `Sane` says the same of the list of items, without counting. `ReviewHolds`: a draft that is there
is not lost to its review, it goes unreviewed only if it is sane and grounded, and no call is made that
the review did not need. `transaction` is the state of the worker's session, which the retrieval can leave aborted.
`RoadmapHolds` of `MCServices` is this property and the next one.

`RoadmapSchedule` takes a plan's period and the planner's dates (all of them, usable or not), one
module per step; `EveryItemHasItsDay` relates each module to the one before it. Of a plan that ends
before it begins, which nothing refuses, every module is the one day of its end. `Catalogs`: what a
session object compares with is what it read, so an UPDATE may not be sent at all. The deletion
of an icon is two steps: `SweepSubjects`, the UPDATE of the subjects, and `DropIcon`, the commit that also
marks the row. `PointersAreAccountedFor` relates the audit log to the subject, the subject to the
icons, and types to categories; `IconsLetGo`, its middle part, is about subjects that were given their
icon before the sweep (`chosen`). One that is given it between the two steps keeps it, deleted.
`SchemaMigrations` has the revisions as data: what each creates and drops, up and down; `EveryPathApplies`
compares the schema of every path with the one of a database that never went down.

## 3. The runs

| Run | Bounds | What it shows |
|---|---|---|
| `ingest_safety` | 1 document of at most 2 contents, 2 workers, 1 retry, 2 faults of {duplicated delivery, a slow run, a refused write, a crash of worker or request}, 1 replay | INDEXED is reported over chunks only; every step implements `DocumentLifecycle` |
| `ingest_stranded` (violation) | 1 worker crash | the redelivery that arrives within `_STALE_AFTER` is a no-op, and the document stays PROCESSING |
| `ingest_pile_up` (violation) | 1 crash between two commits | two generations of chunks are searchable |
| `liveness` | four scenarios: 2 items, 2 workers, 1 retry, 1 fault of {request dies, refused write}; 2 items, 1 worker, 1 retry, 1 fault of {worker dies, recount fails}, 1 replay; 1 document, 1 worker, 1 retry, 1 crash of worker or request, 1 replay; 2 sign-ins of one account, 2 attempts, window of 1 tick, 1 death | the run's status while items end together, nothing is forgotten, runs end, documents settle, lockouts end; the invariants of the ingestion with crashes |
| `generation_redelivery` (violation) | 1 crash after the roadmap | two roadmaps under one run |
| `generation_replay` (violation) | 2 items, 2 workers, 1 replay | a lost update leaves an ended run RUNNING |
| `gateway` | 2 providers, 2 calls, threshold 2, windows of 1 tick, 1 call that dies | the breakers' counts and windows, and liveness |
| `gateway_half_open` (violation) | windows of 2 ticks | the failing trial does not re-open the breaker |
| `workspace_deletes` | 3 requests, 2 trees (a grown one, a young one), at most 2 subjects, 2 plans, 1 module, item and document | the three properties above, without late entries |
| `workspace_orphans` (violation) | 2 requests, with late entries | an insertion or a move below a row that is being deleted leaves a live orphan |
| `services` | sixteen parts, each with two actors where actors overlap; see below | one property of each |
| `dead_letter_discards` (violation) | 1 script, 2 entries | an entry that cannot be replayed is dropped |

`MCServices` and `MCLiveness` compose components that do not interact: a behaviour belongs to one part
(`part`, `scenario`), in which only its component moves. This is the sum of the state spaces, not
their product, and the properties are those of the modules. The parts of `services`:

| Part | Bounds |
|---|---|
| `sessions` | 2 requests, 3 refresh tokens, 1 ending |
| `links` | 2 requests, 2 links of two purposes |
| `erasure`, `export` | 1 upload registered and 1 not; 8 tables, one row each |
| `dead_letters` | list of 2, 3 entries, 2 scripts side by side, run twice in all |
| `providers` | 2 admins, 2 providers with a key, and ollama |
| `migrations` | all 27 revisions, every path |
| `budget` | 2 generations of 1 item, a slot each, 2 models, 1 draft, the judge and the repair, 1 message too many, the turn of a month, a limit of one call |
| `schedule` | plans of 0 to 5 days, up to 4 modules of up to 2 items |
| `search` | 4 chunks of 3 contents, pool 2, limit 2, k = 1 |
| `embedding` | 2 jobs of up to 2 of 2 texts, batches of 1, 2 attempts, 1 expiry |
| `chunks` | documents of up to 4 lines, windows of 9 with an overlap of 2, paragraphs of 1, 4, 8 or 12 characters, headings of 2 levels |
| `browser` | 2 tabs, access life 1, refresh life 2, 2 tokens, 1 consent |
| `catalogs` | 2 icons, 1 subject, 1 category with its type, 2 requests |
| `citations` | 2 deliveries with 2 tries, 2 documents indexed up to twice |
| `review` | roadmaps of up to 2 modules of up to 2 items, with 2 titles, clear or too short prompts; a period of 1 class and of 6; 2 drafts; 1 issue of a verdict |

Why the bounds are enough. One document or one run is all a task ever touches: nothing relates
two of them but the idle workers. Two workers are the fewest with which two runs overlap; the
guards read nothing that a third could change differently. One retry separates the first
attempt from the last. In `ingest_safety` the faults are two of any kind, so that a crash can follow
a duplicated delivery, and behaviours end at a third content of the document (`FewContents`): a
third run repeats what the second does to the first. Two items are the fewest of which one can be counted while another is in flight.
Two deletions and a move are the fewest requests of which one can change what the others have
read; two subjects and two plans are the fewest between which something can be moved; the module,
the item and the document have no sibling, since no statement compares two rows of one table.
In the services, two actors are the fewest that overlap, and nothing they read names a third; the
sizes of the algorithms are the smallest at which every branch is taken: a heading as long as the
window, a paragraph that needs two windows, more modules than days, a list longer than its pool.
Every action of every part is taken in the run. Two generations are the fewest of which one passes
the door while the other is spending; the tasks of one generation meet only in `add_usage`, a single statement
of the database, so that a slot for each is enough, and the theorem is about any number of them.
A threshold of 2 separates the first failure (which sets the window) from the one that opens.
A window of one tick in `gateway` does not show a half-elapsed window; the theorem about
`OpensAtThreshold` holds for every length, and `gateway_half_open` uses two ticks. Every run
explores its bounded state space completely; deadlock is not checked because each system stops
when its documents and runs are done and its bounds are used up.

What the fault selection leaves out is what a property does not survive, and each such case is
a finding or a listed hazard: a duplicated delivery of one message in the middle of a crash
(`NoSilentFailure` excludes it), a crash after the roadmap is out, a crash of one of *two*
workers over the same run (a redelivered item brings an ended run back to RUNNING, and the lost
update of `generation_replay` can then keep it there; the crash run therefore has one worker).

Fairness. `FairSpec` has weak fairness of the steps of a worker that is running, of an idle
worker that takes a message (the pool of Celery polls for as long as it lives), of the requests,
of the broker's redelivery (the visibility timeout of the Redis transport) and of the replay
script. Nothing is fair that nobody is bound to do: uploads, deletions, faults, failures and
replays. A failing call is never forced to succeed: retries are finite in the code. In
`LLMGateway` time passes (weak fairness of `Tick`), a provider answers or fails (each has a
timeout), and `Acquire` is strongly fair, since `asyncio.Semaphore` wakes its waiters in order. In `SignInLimiter` a Redis key expires (`Tick`) and an attempt that has begun goes on. `MCLiveness`
states the fairness of its four scenarios in one formula: a behaviour never leaves its scenario,
so weak fairness of a disjunction over the scenarios is weak fairness of the disjunct that is its own.
In `Workspace` a request that has begun goes on (weak fairness of `Step`), the detection of deadlocks
included: PostgreSQL looks for a cycle after `deadlock_timeout`. Nobody has to send a request.

## 4. What is proved

TLAPS checks, for every value of the constants:

| Theorem | Statement |
|---|---|
| `DocumentIngestionProofs!TypeCorrect` | `Spec => []TypeOK` |
| `DocumentIngestionProofs!IndexedIsSearchable` | `Spec => []IndexedMeansSearchable`, under every fault |
| `DocumentIngestionProofs!NothingIsLostSilently` | `Spec => [](NoSilentFailure /\ PendingIsQueued)`, under `NoFatalFaults`: no refused writes, and not crashes together with duplicated deliveries |
| `DocumentIngestionProofs!VersionsNeverRepeat`, `NewestIsIndexed` | `Spec => []VersionsAreUnique`, `Spec => []NewestContentIsIndexed`, under `OneWorker \/ SingleDelivery`: no two workers run one document |
| `DocumentIngestionProofs!IndexedIsLeftAlone` | `Spec => IndexedIsNotReprocessed`, under the same |
| `DocumentIngestionProofs!IngestionImplementsLifecycle` | `Spec => ImplementsLifecycle`: the pipeline refines `DocumentLifecycle`, under every fault |
| `PlanGenerationProofs!TypeCorrect` | `Spec => []TypeOK`, under every fault |
| `PlanGenerationProofs!FailedMeansNotPlanned`, `OneRoadmapWithoutItsFailure` | `Spec => []FailedRunHasNoItems`, `Spec => []OneRoadmapPerRun`, without `roadmap_failure` |
| `PlanGenerationProofs!GenerationImplementsLifecycle` | `Spec => ImplementsLifecycle`: the drafting, the tasks and the recounts refine `GenerationLifecycle`, under `NoRepeat` and without `roadmap_failure` |
| `PlanGenerationProofs!WrittenOnceIsWritten` | `Spec => WrittenItemsStay`, under `NoRepeat`: no worker dies and no recount fails after an item was committed |
| `PlanGenerationProofs!CompletedIsWritten` | `Spec => []CompletedMeansAllWritten`, under `NoRepeat` and without `roadmap_failure` |
| `PlanGenerationProofs!EveryItemIsAnsweredFor` | `Spec => []NoItemIsForgotten`, without refused writes and `roadmap_failure` |
| `LivenessProofs` | `TypeOK`, the seven invariants and the two action properties of the run `liveness` about generation and ingestion, one of which is the refinement of `GenerationLifecycle` (`RunsKeepTheirPromises`) |
| `LivenessProofs!FailuresNeverExceed` | `Spec => []FailuresAreBounded` |
| `LLMGatewayProofs!TypeCorrect` | `Spec => []TypeOK` |
| `LLMGatewayProofs!CountsExpire` | `Spec => []CountExpires` |
| `LLMGatewayProofs!ThresholdOpens` | `Spec => []OpensAtThreshold` |
| `WorkspaceProofs!TypeCorrect` | `Spec => []TypeOK`; it includes that every row hangs from a row of the level above |
| `WorkspaceProofs!DeletionStaysInside` | `Spec => DeletesOnlyItsSubtree`, late entries included |
| `WorkspaceProofs!CascadeIsComplete` | `Spec => []NoLiveBelowDeleted`, under `NoLateEntries`: nothing enters below what is being deleted |
| `PassageProofs!TypeCorrect`, `CitationsAreRight` | `Spec => []TypeOK`, `Spec => []CitationsHold`, of `ItemSources` |
| `PassageProofs!SearchIsSound` | `Spec => [](TypeOK /\ FusionIsSound)`, of `HybridSearch` |
| `PassageProofs!VectorsAreInPlace` | `Spec => [](TypeOK /\ VectorsKeepTheirPlaces)`, of `EmbeddingCache` |
| `PassageProofs!ChunksAreWhole` | `Spec => [](TypeOK /\ NoTextIsLost)`, of `Chunker`, for documents of any number of lines |
| `PlanningProofs!TypeCorrect`, `BudgetIsKept` | `Spec => []TypeOK`, `Spec => []BudgetHolds`, of `MonthlyBudget` |
| `PlanningProofs!CalendarIsRight` | `Spec => [](TypeOK /\ EveryItemHasItsDay)`, of `RoadmapSchedule` |
| `PlanningProofs!ReviewIsSound` | `Spec => [](TypeOK /\ ReviewHolds)`, of `RoadmapReview` |
| `ServicesProofs!MonthIsKept`, `RoadmapsHold`, `SearchesFuseSoundly`, `PassagesStayWhole` | the same of the run `services`: `[]BudgetHolds`, `[]RoadmapHolds`, `[]FusionIsSound`, `[]PassagesAreWhole` |
| `ServicesProofs!TypesAreKept` | `Spec => []TypesOK`: the types of all sixteen services |
| `ServicesProofs!EntriesAreInOnePlace` | `Spec => []EntriesAreMoved` |
| `ServicesProofs!SignInOpensOneSession` | `Spec => []SignInWorksOnceAndStays` |
| `ServicesProofs!SignOutEndsSessions`, `SignInsKeepOneSession` | `Spec => []SignedOutMeansOut`, `Spec => []OneSessionPerSignIn` |
| `ServicesProofs!NewestLinkWins` | `Spec => []LastLinkWins` |
| `ServicesProofs!ErasedAndExportedWhole` | `Spec => []AccountDataIsWhole` |
| `ServicesProofs!CatalogsAccountForPointers` | `Spec => []PointersAreAccountedFor` |
| `ServicesProofs!OneProviderStaysOn` | `Spec => []SomebodyServes`, if a provider besides ollama has a key |

The assumptions are those each module names (`ConstantsAssumption`: bounds are naturals, model
values differ, an item has a delivery). TLC evaluates them in every run. A condition on `Faults`
is never there for convenience: each fault it excludes is one with which the property fails,
and section 5 or a hazard of `PROJECT.json` says how.

`MCLiveness` and `MCServices` have their bounds as constants, and the faults of a scenario
fixed in its INSTANCE; the run gives the constants small values, and `LivenessProofs` and `ServicesProofs` are
about all of them. Both begin with the same two lemmas: a step of the whole is a step of each
component or leaves it alone, hence a behaviour of the whole is a behaviour of each. Where a
component has a proof module, the composition instantiates that module, so that its theorems
hold of the component's variables there, once the fault condition is discharged for the
scenario; the other components are proved in place.

*IndexedMeansSearchable* is not inductive: that a document which becomes INDEXED has chunks
depends on the task that says so. The strengthening, `IndexInv`, adds that a task about to finish
holds a content whose chunks are stored (`FinishHasChunks`); it rests on the lemma that no step
takes a content or its chunks away (`ContentsOnlyGrow`) and on the part of the type invariant that
says that a task past the storing step points to a row that is there (`StoredContent`).

*NoSilentFailure* needs a ledger (`LossInv`): the broker tracks the message of every busy worker,
so that a crash gives it back (`Tracked`), and a document that is live and PENDING or FAILED is
referred to by a message, a task that has still to settle it, a dead letter or a replay. The proof
shows, action by action, that whoever gives up the reference hands it on first. This is where the
order `_mark_failed`, `record`, acknowledge, and the order publish, acknowledge of a retry, are used.

*VersionsAreUnique*, *NewestContentIsIndexed* and *IndexedIsNotReprocessed* relate what a task read
in one statement to what it writes in a later one, of the same transaction or another. They need that between the two nobody else is
at work on the document (`OneRun`). One worker gives it; so does, for any number of workers, a broker that
never has a second delivery: `SingleDelivery` excludes crashes and duplicated deliveries, and the proof
counts the places a delivery can be in. On top of it `NewestInv` says that the version a task holds is
the number of contents there are, and that the newest of them is the one that gets its chunks.

*The generation* has five invariants, each on top of the types (`TypeInv`, which adds the shape of
each task and that what is sent has been committed). `Once` says that a job is in one place: request, fan-out, queue, task,
dead letter or replay; it needs that nothing dies after its message is out. `PlanInv` follows: while a run
is being drafted it has no items (`Planned`), so FAILED is never written over a roadmap. `WriteInv` says of
a written item that nobody still holds a message of it but tasks that are past their write
(`Settled`). `DoneInv` puts the two together: a task that found its run complete, and has
not saved it yet, is still right, because written items stay written and a planned run gets no new ones.
That is the argument why counting and saving in two statements, with a status that may be stale,
does not complete a run too early. `AnswerInv` is the ledger of the items, as `LossInv` is that of
the documents.

The refinement of `GenerationLifecycle` needs `DoneInv` and two more parts (`LifeInv`): an item whose
task is at the model or at its write is PROCESSING (`TakenUp`), and a run has a row from the moment
its request commits (`Opened`). `StartItem` is then `Take` or nothing, `CompleteItem` is `Write`, the
drafting task plans a run without items (`PlansOnce`), and only a task that ends an attempt
recounts, over a roadmap that is there. `SaveRun` is `Recount` although its counts are of an earlier statement: what
it says of written items is still so.

*FailuresAreBounded*: the counter alone is not inductive, since an attempt passes the gate long before it
counts. `LimiterInv` bounds the counter plus the attempts that have passed the gate and may still
count (`Passed`) by the threshold plus the number of attempts; an attempt that passes moves from one side
of the bound to the other, so the proof is about cardinalities of finite sets.

*OpensAtThreshold* is not inductive either. The call that counted the first failure sends its
EXPIRE some time later; if others reached the threshold and opened the breaker in between, that
EXPIRE could outlast the open key. The strengthening (`Covered`) says that while such a call is
about to send it the open key is still fresh, `openTtl = ResetSeconds`: no tick has passed, or
`slow` would hold. `Windowed` (which is `CountExpires`) is needed with it at `Tick`, where a count
without a time to live would survive the open key.

*DeletesOnlyItsSubtree* compares what a request locked over several statements with the tree at its
commit. The invariant (`IInv`) adds to the types that the rows a deletion has marked are live and
hang, each, from its target or from another marked row (`RequestOK`), and that no two requests have
marked the same row (`Exclusive`). A move cannot break it because it waits for a marked row; a
commit cannot because it marks rows deleted that nobody else holds. The lemma `MarkedIsBelow`
climbs from a marked row to the target, at most three levels.

*NoLiveBelowDeleted* is the converse, and needs to know what a deletion has seen so far. `SInv` adds,
for each deletion, that in the tables it is through with (`Swept`) every live row below a row it
has taken is taken; that the statement at hand asks for all the rows that can have children in its
table (a level is skipped only when nothing hangs there); and that a statement that has begun has
yet to update, or has updated, everything that matches. For a row on its way it adds that its
destination is live and has no row above it that is being deleted (`NoLate`); the lemmas `ChainAfterMove` and
`ChainAfterMaterialize` say what hanging a row elsewhere adds to the rows above another, so that no
sequence of moves brings a destination below a deletion.

*ImplementsLifecycle* needs no more than `IndexInv`: the badge of the abstract specification is the
column, and `hasText` whether a stored content has chunks. Each action that writes the status is
shown to be one abstract step, `IndexContent` to be the step that adds text, and every other one to
stutter.

*CitationsHold* is about two deliveries that replace the same rows under PostgreSQL's snapshots. The
invariant says that a delivery has seen all of the rows that are there or none of them, and deletes
all or none (`AllOrNothing`); that two of them never both hold rows, and that whoever misses rows
overlapped with the one who wrote them (`Misses`, `Apart`); and that whoever wrote a row is done, so
that the rows a delivery saw are never the ones another is about to write (`WrittenByDone`). What a commit
leaves is then one prompt's: the old rows stay only beside a text without any, since otherwise both
would have a row of rank 1 and the unique (item, rank) refuses (`CommitReplacesAll`).

*SignInWorksOnceAndStays* needs that the two long-lived cookies come and go together and outlive the
access token (`CookiesTogether`), and that a consent which opened a session has lost its state for good
(`TakenOnce`). *SomebodyServes* needs that a request in flight has decided well on the rows as they
are, unless they changed since it read them (`Decided`).

*SignedOutMeansOut* and *OneSessionPerSignIn* are about sessions that are live; the invariant is about
those that *stand*: not revoked, live or expired, since an expired token does not take its sign-in out of
the account's reach. Of the sessions of a sign-in one stands at most (`OneStands`), because a refresh
revokes what it exchanges in the same commit, and one that stands was issued since the last ending
(`StandingIsRecent`). The latter is kept by the UPDATE that ends all only through a third part:
the sessions it does not reach are raced (`OutOfReachIsRaced`), because they were committed after its snapshot.

*LastLinkWins* is inductive beside the types: `Issue` supersedes every earlier link it can see, and
the link it appends explains all of them.

*NothingIsLeftBehind* needs that a file whose path was read is still to come in the loop, gone, or
was kept by the storage (`ErasureInv`), and that a document with a row, or whose path was read, is not put
again. *ExportIsComplete* is proved by the number of queries sent (`SentSoFar`): every table is asked for after
the one its rows are found by (`QueriesInOrder`, a fact about the list in the code), and neither the tables that
were there at the beginning nor those that are there now have a row without the one it hangs from (`Closed`).

*PointersAreAccountedFor* needs that what a subject was given has been a row (`IconsWereThere`), that a
deletion which took its icon off the subject holds that row alone until it commits, and one that did not find it
there has missed none given before (`SweepsHold`), and
that the log of deletions is final: a category is in it once it is deleted and not before, and no request
knows more of it than there is (`DeletionsAreFinal`).

*BudgetHolds* speaks of sums. Its first half is not inductive: the door compares with what is on record,
and what is admitted there is spent later. `IInv` bounds the *load* of the month (`LoadIsBounded`): what each
run of it has spent and the dearest price of every call it may still lead to (`Due`: messages, dead letters,
tasks), summed over the runs, stays below the limit plus the dearest price of `atDoor`. A step of a task then moves calls
from what is due to what is spent (`RunStep`), a message too many is added on both sides, an admission
sets `atDoor` to what is due (`DoorStep`), and so does the turn of the month, which leaves nothing spent. It takes that a
ledger in hand holds no more than the calls that were made (`SlotFits`), and that before the door is open, and
while a request drafts, there is nothing else of the run (`Early`). The second half is in `RunsFit`: a run's cost is the
sum of its shares, and what was paid that cost and what is in hand (`Hands`). That a sum changes by a
term when a term changes is proved here, for the library has no such theorem that does without an operator
parameter: the fold is a recursive function that CHOOSEs the next element; `AddsExists` shows that there is one,
`SumStep` that the order does not matter, both by looking at the least counterexample (`SubsetsFirst`).

*EntriesAreMoved* is inductive once a script that is idle is known to hold nothing, and one that puts back to
have sent what it was to send (`ScriptOK`); the rest of `ListInv` is the property, list by list. What it takes is
to know what the operators on sequences do to what is in a list and to there being nothing in it twice. The script's filter is a recursive
function as well, and `StepsExist`, `StepsAreRight` treat it the way the sums are.

*FusionIsSound*. That a chunk of both lists comes before every chunk of one is about the fused
scores: `BothOutrankOne` shows that 1/(k + a) + 1/(k + b) exceeds 1/(k + c) whatever the ranks are, by multiplying
out as `Ahead` does. It takes a pool below k + 2 (`ConstantsAssumption`), which 30 and 60 satisfy: with a larger
one the two worst ranks together can be worth less than the best one. The rest is that a sort keeps what it sorts (`FirstOf`) and that each chunk enters the fusion once
(`FusedOnce`). Between the three statements `QueryOK` says what the query holds: a scope that was readable
when it began, and candidates of that scope, each once.

*VectorsKeepTheirPlaces*. A position of the batch has its vector, or is among the misses that have not been
placed yet (`Underway`); the misses are in the order of the texts, and the vectors so far are those of
their first texts. Filling in `zip(missing, fresh)` can then put none at another's place, and
`Progress`, what was found and what was computed, only grows to the whole.

*EveryItemHasItsDay* needs where the k-th module ends (`EndOf`): the one before it ends one slice
earlier, unless the plan was over before; `Start` is the plan's first day, or its end if that is earlier. `LastModuleHasADay` is the case that the code treats apart, the
last module that takes what is left: as long as there are no more modules than days there is something left, since the slices are rounded down.
`SpreadWithin` and `RoundedWithin` bound the days of items that are spread over a module, also where the
rounding is to the even neighbour.

*ReviewHolds* needs what each stage has spent (`ReviewInv`): calls are the attempts before the judge and at most one
more after it, and a roadmap is at the judge only if its check found something or its context was weak.
`CheckFindsAll` proves that `CheckRoadmap`, which counts titles through all modules, is silent exactly
on the roadmaps that are `Sane`, which is said without counting.

*NoTextIsLost* needs what has been read so far (`ReadSoFar`): the open headings are those above the next line, from
the outermost in; below the first paragraph of the open section there is no heading; the chunks so far fit,
are in order, and are below exactly the headings above their pieces; every paragraph is in the open section
or, character by character, in the chunks. A section is then a matter of three loops. `CutIsWhole`:
the windows of a paragraph begin at multiples of the step, and since the step is no longer than a window
no character lies between two of them. `PackKeeps`: packing a piece changes no other piece and leaves a text
that fits, since a piece alone does. `PiecesAreWhole`, `PackedIsWhole` carry both along the lists. That the
recursive functions these loops are written as exist at all is `RecursionExists`, by adding one value after the
other to a function that obeys the equation so far.

*TypesOK* needs nothing that the other invariants do not contain, but for the migrations: that what a
revision leaves is a set of objects of the five kinds takes a look at each of its operations
(`RevisionsAreOnObjects`) and the loop over them (`ApplyKinds`).

Only model-checked:

* everything under fairness (`EveryDocumentSettles`, `EveryRunEnds`, `BreakerRecovers`,
  `EveryCallEnds`, `EveryRequestEnds`, `LockoutEnds`): the prover has no rules for fairness and ENABLED;
* `EveryPathApplies`, which has no parameter: TLC explores every way through all 27 revisions, so the run is
  exhaustive, and a proof would do no more than apply the same lists to the same sets;
* the runs that expect a violation.

Every other invariant and action property of a passing run is stated by a theorem.

## 5. What was found

Seven statements of the repository that the code does not keep, each with a run that shows it:

* A redelivery within `_STALE_AFTER` of a dead run is acknowledged as a no-op and strands the
  document (`ingest_stranded`).
* A crash between the commit of the chunks and of INDEXED makes the search see two generations of
  chunks (`ingest_pile_up`).
* `plans.generate` has no idempotency guard, contrary to `docs/observability/ALERTS.md`
  (`generation_redelivery`).
* `_recompute_run` loses updates: two replayed items can leave the run RUNNING for good
  (`generation_replay`).
* The breaker's half-open state does not re-open on a failing trial (`gateway_half_open`).
* A row that is inserted or moved below a row while that is being deleted stays live
  (`workspace_orphans`): the parent is checked in one statement and the row written in a later
  one. The drafting task leaves up to a minute between the two.
* An entry of the dead letters whose task cannot be replayed is counted as failed and dropped, while
  the script promises to put failures back (`dead_letter_discards`).

The properties of the passing runs name, as exceptions, what the code lets happen:

* `BudgetHolds`: "the overshoot is bounded by one plan" (`generation/application/service.py:199`) is
  not so. The door reads what is on record, and generations in flight have recorded nothing: the
  overshoot is bounded by all that was in flight at the door, and by what is done again. A request that dies between its two commits leaves its ledger off the record.
* `ReviewHolds`: "Evaluation never fails a generation" holds but for the aborted transaction below.
* `SignedOutMeansOut`, `OneSessionPerSignIn`: a request in flight at the moment of an ending, or two
  with one token, leave a session that lives.
* `LockoutEnds`: an attempt that dies between INCR and EXPIRE leaves a count without an end.
* `EntriesAreMoved`: an operator's script that dies, and a full list, lose entries.
* `CitationsHold`: of two deliveries of an item that replace its sources at the same time, the last
  may have found nothing, and leaves its text beside the other's sources.
* `PointersAreAccountedFor`: "no change without a trail" (`docs/architecture/ARCHITECTURE.md:386`)
  does not hold of the subjects whose icon is deleted: their UPDATE has no audit row. A subject that is
  given an icon between the two statements of its deletion keeps it, although "subjects using it fall back to no
  icon" (`catalogs/application/service.py:51`). A category can be deleted while a type of it lives.

Met while modelling, and worth a look, without a run of their own:

* `plans.generate` catches also what fails behind the commit of the roadmap (`service.py:515-518` reads the run and
  its items back): on the last attempt `fail_run`, which does not look for items, leaves FAILED over a planned run,
  while `entities.py:13` says that FAILED is a run that could not even be planned (`Fail` with `roadmap_failure`).
* The planner may call the model four times (an invalid draft, a second one, the judge and the
  repair), where its docstring says that three is the worst case (`generation/application/planner.py:14`).
* `_context` and `_retrieve_context` swallow every exception (`planner.py:121`, `service.py:147`), also that of a
  statement that PostgreSQL refused. No savepoint is around it: the transaction stays aborted, and the roadmap or the
  item whose call has been paid for cannot be stored (`Store` in `RoadmapReview`).
* A judge that lists more than five issues is no judge (`max_length=5`, `roadmap_eval.py:25`): the roadmap it
  rejects is handed out as it is.
* `schedule_items` sorts the days of a module and `materialize` zips them with the items in the order of
  the list: an item for which the planner chose a day can get another one's.
* `content_ids_for_plan(...) or None` (`service.py:309`, `407`, `552`) searches all documents of the
  teacher when the plan's own have all been deleted (`Scope` in `ItemSources`).
* Vectors of the batches that were paid for are not cached when a later batch fails.
* Models of other providers whose names begin like those of `LOCAL_MODEL_PREFIXES`
  (`ai/domain/pricing.py:90`), "mistral" and "deepseek" among them, are priced at nothing.

## 6. What is not modelled, and the plan

`PROJECT.json` lists every component with the reason. Not modelled:

* the parser, the LLM providers, Google, the object storage and the e-mail server: libraries and services
  behind one call, which in the models succeeds or fails;
* configuration and secrets, read once at start; telemetry and logging, which no decision reads;
* request limits, security headers, error pages, the schemas that validate a request: stateless checks in front
  of the handlers, which in the models get valid requests;
* handouts: the layout of one item, made anew for each request, with no state;
* wording: prompts, the parsing of a model's answer, e-mails. An answer is valid or not;
* what a SQL index or a distance computes: the ranks of `HybridSearch` are any order.

What is left of the plan: `PlanGeneration`, `MonthlyBudget` and `ItemSources` in one module, since the three
see the same delivery of an item, from the side of its run, its cost and its sources; and the refinement of
`GenerationLifecycle` under a weaker condition than `NoRepeat`, which needs an abstract run that may lose a recount.
