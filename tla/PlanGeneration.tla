---------------------------- MODULE PlanGeneration ----------------------------
(***************************************************************************)
(* A plan-generation run: the request that opens it, the Celery task       *)
(* plans.generate that drafts the roadmap and fans it out, the tasks       *)
(* generation.run_item that write one academic item each, and the status   *)
(* of the run, which every item task recomputes when it ends.              *)
(*                                                                         *)
(* A step is one transaction, a statement of it that a later one relies    *)
(* on, or one call to another service. The sessions do not expire objects  *)
(* on commit, and a query does not overwrite an object the session already *)
(* holds: the status of the run that _recompute_run compares with is the   *)
(* one process_item loaded before the call to the model, and an assignment *)
(* of the same value sends no UPDATE. `seen` is that loaded status.        *)
(***************************************************************************)
EXTENDS Naturals, FiniteSets

CONSTANTS
  Runs,          \* plan_generation rows
  Items,         \* academic_items rows the roadmaps may create
  Workers,       \* Celery worker processes
  NoRun,         \* the run of an item that does not exist
  NoJob,         \* the job of an idle worker
  RoadmapSizes,  \* how many items a roadmap may hold; never 0 (min_length=1)
  MaxRetries,    \* max_retries of both tasks; _MAX_RETRIES is 3
  Faults,        \* which of FaultKinds the environment commits
  MaxFaults,     \* bound: faults in a behaviour
  MaxReplays     \* bound: dead-letter replays in a behaviour

FaultKinds ==
  { "worker_crash",       \* a worker dies, but not as the next kind says
    "roadmap_failure",    \* it dies, or the database fails, with its roadmap, its retry
                          \* or its dead letter already out
    "api_crash",          \* the request dies, or the broker refuses it, after a commit
    "recount_failure",    \* the database fails after an item was committed as written
    "write_failure" }     \* a store refuses what the task does outside the try

ConstantsAssumption ==
  /\ NoRun \notin Runs
  /\ NoJob \notin Runs \cup Items
  /\ Runs \cap Items = {}
  /\ RoadmapSizes \subseteq Nat \ {0}
  /\ MaxRetries \in Nat
  /\ Faults \subseteq FaultKinds
  /\ MaxFaults \in Nat
  /\ MaxReplays \in Nat

VARIABLES
  run,         \* PlanGeneration.status
  item,        \* AcademicItem.generation_status
  runOf,       \* AcademicItem.generation_id
  removed,     \* AcademicItem.deleted_at is set
  request,     \* where the request that opened the run is
  unsent,      \* items that request still has to send
  ready,       \* messages the broker can deliver, by job and retry count
  unacked,     \* messages whose worker died
  worker,      \* the task each worker runs
  deadLetter,  \* dead-letter entries per job
  replaying,   \* entries drained by the replay script and not sent yet
  faults,
  replays

vars == << run, item, runOf, removed, request, unsent, ready, unacked, worker,
           deadLetter, replaying, faults, replays >>

rows     == << run, item, runOf, removed >>
requests == << request, unsent >>
broker   == << ready, unacked >>
letters  == << deadLetter, replaying >>
bounds   == << faults, replays >>

Jobs       == Runs \cup Items   \* plans.generate has a run, run_item an item
Retries    == 0 .. MaxRetries
RunStatus  == {"absent", "PLANNING", "RUNNING", "COMPLETED", "PARTIAL", "FAILED"}
ItemStatus == {"absent", "PENDING", "PROCESSING", "COMPLETED", "FAILED"}
InFlight   == {"PENDING", "PROCESSING"}

PC == { "idle", "received", "settle", "bury", "ack",
        "draft", "refresh", "fanout",                 \* plans.generate
        "load", "write", "reload", "count", "save" }  \* generation.run_item

Task == [ pc      : PC,
          job     : Jobs \cup {NoJob},
          retries : Retries,
          failing : BOOLEAN,          \* in the except of the task
          seen    : RunStatus,        \* the run as the session holds it
          found   : RunStatus,        \* the status the counts ask for
          toSend  : SUBSET Items ]    \* fan-out still to do

IdleTask == [ pc |-> "idle", job |-> NoJob, retries |-> 0, failing |-> FALSE,
              seen |-> "absent", found |-> "absent", toSend |-> {} ]

TypeOK ==
  /\ run        \in [Runs -> RunStatus]
  /\ item       \in [Items -> ItemStatus]
  /\ runOf      \in [Items -> Runs \cup {NoRun}]
  /\ removed    \in [Items -> BOOLEAN]
  /\ request    \in [Runs -> {"idle", "opened", "fanout", "done", "crashed"}]
  /\ unsent     \in [Runs -> SUBSET Items]
  /\ ready      \in [Jobs -> [Retries -> Nat]]
  /\ unacked    \in [Jobs -> [Retries -> Nat]]
  /\ worker     \in [Workers -> Task]
  /\ deadLetter \in [Jobs -> Nat]
  /\ replaying  \in [Jobs -> Nat]
  /\ faults     \in Nat
  /\ replays    \in Nat

Init ==
  /\ run        = [r \in Runs |-> "absent"]
  /\ item       = [i \in Items |-> "absent"]
  /\ runOf      = [i \in Items |-> NoRun]
  /\ removed    = [i \in Items |-> FALSE]
  /\ request    = [r \in Runs |-> "idle"]
  /\ unsent     = [r \in Runs |-> {}]
  /\ ready      = [j \in Jobs |-> [n \in Retries |-> 0]]
  /\ unacked    = [j \in Jobs |-> [n \in Retries |-> 0]]
  /\ worker     = [w \in Workers |-> IdleTask]
  /\ deadLetter = [j \in Jobs |-> 0]
  /\ replaying  = [j \in Jobs |-> 0]
  /\ faults     = 0
  /\ replays    = 0

-----------------------------------------------------------------------------
(* Helpers.                                                                *)

At(w, pc)    == worker[w].pc = pc
Job(w)       == worker[w].job
Drafting(w)  == Job(w) \in Runs
Writing(w)   == Job(w) \in Items
Goto(w, pc)  == worker' = [worker EXCEPT ![w].pc = pc]

Plus(bag, j, n)  == [bag EXCEPT ![j][n] = @ + 1]
Minus(bag, j, n) == [bag EXCEPT ![j][n] = @ - 1]

ItemsOf(r) == {i \in Items : runOf[i] = r}

\* A set of rows that a roadmap of one of the sizes may become.
FreshItems == {S \in SUBSET {i \in Items : item[i] = "absent"} :
                 Cardinality(S) \in RoadmapSizes}

\* The modules and the PENDING items of a roadmap, in one transaction.
CreateItems(r, S) ==
  /\ item'  = [i \in Items |-> IF i \in S THEN "PENDING" ELSE item[i]]
  /\ runOf' = [i \in Items |-> IF i \in S THEN r ELSE runOf[i]]

\* status = s on an object whose loaded status is `seen`: SQLAlchemy sends no
\* UPDATE when nothing changed.
SetRun(r, seen, s) == run' = IF s = seen THEN run ELSE [run EXCEPT ![r] = s]

-----------------------------------------------------------------------------
(* The requests.                                                           *)

\* POST /plans: begin.
Begin(r) ==
  /\ request[r] = "idle"
  /\ request' = [request EXCEPT ![r] = "opened"]
  /\ run' = [run EXCEPT ![r] = "PLANNING"]
  /\ UNCHANGED << item, runOf, removed, unsent, broker, worker, letters, bounds >>

\* generate_plan.delay, after the commit of begin.
EnqueueDraft(r) ==
  /\ request[r] = "opened"
  /\ request' = [request EXCEPT ![r] = "done"]
  /\ ready' = Plus(ready, r, 0)
  /\ UNCHANGED << rows, unsent, unacked, worker, letters, bounds >>

\* POST /plans/{id}/generate: start.  The planner runs before any write, so a
\* failure of it leaves no row.
Start(r) ==
  /\ request[r] = "idle"
  /\ \E S \in FreshItems :
       /\ CreateItems(r, S)
       /\ unsent' = [unsent EXCEPT ![r] = S]
  /\ run' = [run EXCEPT ![r] = "RUNNING"]
  /\ request' = [request EXCEPT ![r] = "fanout"]
  /\ UNCHANGED << removed, broker, worker, letters, bounds >>

\* One run_item.delay of the loop in the router.
SendItem(r) ==
  /\ request[r] = "fanout"
  /\ \E i \in unsent[r] :
       /\ ready' = Plus(ready, i, 0)
       /\ unsent' = [unsent EXCEPT ![r] = @ \ {i}]
       /\ request' = [request EXCEPT ![r] = IF unsent[r] = {i} THEN "done" ELSE "fanout"]
  /\ UNCHANGED << rows, unacked, worker, letters, bounds >>

ApiCrash(r) ==
  /\ "api_crash" \in Faults
  /\ faults < MaxFaults
  /\ request[r] \in {"opened", "fanout"}
  /\ request' = [request EXCEPT ![r] = "crashed"]
  /\ unsent' = [unsent EXCEPT ![r] = {}]
  /\ faults' = faults + 1
  /\ UNCHANGED << rows, broker, worker, letters, replays >>

\* The teacher deletes an activity.
RemoveItem(i) ==
  /\ item[i] # "absent"
  /\ ~removed[i]
  /\ removed' = [removed EXCEPT ![i] = TRUE]
  /\ UNCHANGED << run, item, runOf, requests, broker, worker, letters, bounds >>

-----------------------------------------------------------------------------
(* Both tasks.                                                             *)

Receive(w) ==
  /\ At(w, "idle")
  /\ \E j \in Jobs, n \in Retries :
       /\ ready[j][n] > 0
       /\ ready' = Minus(ready, j, n)
       /\ worker' = [worker EXCEPT ![w] =
            [IdleTask EXCEPT !.pc = "received", !.job = j, !.retries = n]]
  /\ UNCHANGED << rows, requests, unacked, letters, bounds >>

\* A bug: the fan-out is inside the try.
AttemptingFanOut(w) == worker[w].pc \in {"received", "draft", "fanout", "load", "write"}

\* The points of a task inside its try: the first ones may fail at any time,
\* the late ones, after a commit, only as one of the faults.
Late == {"refresh", "count", "save"}

Attempting(w) ==
  \/ worker[w].pc \in {"received", "draft", "load", "write"}
  \/ /\ worker[w].pc \in Late
     /\ ~worker[w].failing
     /\ (IF Drafting(w) THEN "roadmap_failure" ELSE "recount_failure") \in Faults
     /\ faults < MaxFaults

\* An exception in the try: the plan is gone, the planner or every provider
\* failed, the database refused.  What was committed stays.
Fail(w) ==
  /\ Attempting(w)
  /\ worker' = [worker EXCEPT ![w] =
       [IdleTask EXCEPT !.pc = "settle", !.job = Job(w), !.retries = worker[w].retries,
                        !.failing = TRUE]]
  /\ faults' = IF worker[w].pc \in Late THEN faults + 1 ELSE faults
  /\ UNCHANGED << rows, requests, broker, letters, replays >>

Retry(w) ==
  /\ At(w, "settle")
  /\ worker[w].retries < MaxRetries
  /\ ready' = Plus(ready, Job(w), worker[w].retries + 1)
  /\ Goto(w, "ack")
  /\ UNCHANGED << rows, requests, unacked, letters, bounds >>

\* dead_letter.record.
Bury(w) ==
  /\ At(w, "bury")
  /\ deadLetter' = [deadLetter EXCEPT ![Job(w)] = @ + 1]
  /\ Goto(w, "ack")
  /\ UNCHANGED << rows, requests, broker, replaying, bounds >>

\* A store refuses a write of the except, the retry, or a message of the
\* fan-out; or record, which swallows its errors, fails.  The task ends, and
\* task_acks_late acknowledges a failed task.
LoseOutcome(w) ==
  /\ "write_failure" \in Faults
  /\ faults < MaxFaults
  /\ \/ worker[w].pc \in {"fanout", "settle", "reload", "bury"}
     \/ worker[w].pc \in {"count", "save"} /\ worker[w].failing
  /\ worker' = [worker EXCEPT ![w] =
       [IdleTask EXCEPT !.pc = "ack", !.job = Job(w), !.retries = worker[w].retries]]
  /\ faults' = faults + 1
  /\ UNCHANGED << rows, requests, broker, letters, replays >>

Ack(w) ==
  /\ At(w, "ack")
  /\ worker' = [worker EXCEPT ![w] = IdleTask]
  /\ UNCHANGED << rows, requests, broker, letters, bounds >>

-----------------------------------------------------------------------------
(* plans.generate.                                                         *)

\* plan_existing_run reads the plan and the run, then calls the planner.
OpenDraft(w) ==
  /\ At(w, "received")
  /\ Drafting(w)
  /\ worker' = [worker EXCEPT ![w].pc = "draft", ![w].seen = run[Job(w)]]
  /\ UNCHANGED << rows, requests, broker, letters, bounds >>

\* materialize: the run is RUNNING and its items are there, in one commit.
Materialize(w) ==
  /\ At(w, "draft")
  /\ \E S \in FreshItems :
       /\ CreateItems(Job(w), S)
       /\ worker' = [worker EXCEPT ![w].pc = "refresh", ![w].seen = "absent",
                                   ![w].toSend = S]
  /\ SetRun(Job(w), worker[w].seen, "RUNNING")
  /\ UNCHANGED << removed, requests, broker, letters, bounds >>

\* The end of materialize reads the new rows back and returns their ids.
Refresh(w) ==
  /\ At(w, "refresh")
  /\ Goto(w, "fanout")
  /\ UNCHANGED << rows, requests, broker, letters, bounds >>

\* A bug: the loop stops before the last item.
FanOutShort(w) ==
  /\ At(w, "fanout")
  /\ \E i \in worker[w].toSend :
       /\ ready' = Plus(ready, i, 0)
       /\ worker' = [worker EXCEPT ![w].toSend = {}, ![w].pc = "ack"]
  /\ UNCHANGED << rows, requests, unacked, letters, bounds >>

\* A bug: a message of the loop goes out twice.
FanOutTwice(w) ==
  /\ At(w, "fanout")
  /\ \E i \in worker[w].toSend :
       /\ ready' = [ready EXCEPT ![i][0] = @ + 2]
       /\ worker' = [worker EXCEPT
            ![w].toSend = worker[w].toSend \ {i},
            ![w].pc = IF worker[w].toSend = {i} THEN "ack" ELSE "fanout"]
  /\ UNCHANGED << rows, requests, unacked, letters, bounds >>

\* One run_item.delay of the loop that ends the task.
FanOut(w) ==
  /\ At(w, "fanout")
  /\ \E i \in worker[w].toSend :
       /\ ready' = Plus(ready, i, 0)
       /\ worker' = [worker EXCEPT
            ![w].toSend = worker[w].toSend \ {i},
            ![w].pc = IF worker[w].toSend = {i} THEN "ack" ELSE "fanout"]
  /\ UNCHANGED << rows, requests, unacked, letters, bounds >>

\* fail_run, in a session of its own.
FailRun(w) ==
  /\ At(w, "settle")
  /\ Drafting(w)
  /\ worker[w].retries >= MaxRetries
  /\ run' = [run EXCEPT ![Job(w)] = "FAILED"]
  /\ Goto(w, "bury")
  /\ UNCHANGED << item, runOf, removed, requests, broker, letters, bounds >>

-----------------------------------------------------------------------------
(* generation.run_item.                                                    *)

\* The head of process_item, whatever the status of the item was.
StartItem(w) ==
  /\ At(w, "received")
  /\ Writing(w)
  /\ item' = [item EXCEPT ![Job(w)] = "PROCESSING"]
  /\ Goto(w, "load")
  /\ UNCHANGED << run, runOf, removed, requests, broker, letters, bounds >>

\* The run is read, then the passages, then the model is called.
LoadRun(w) ==
  /\ At(w, "load")
  /\ worker' = [worker EXCEPT ![w].pc = "write", ![w].seen = run[runOf[Job(w)]]]
  /\ UNCHANGED << rows, requests, broker, letters, bounds >>

\* Content, status, sources and usage, in one commit.
CompleteItem(w) ==
  /\ At(w, "write")
  /\ item' = [item EXCEPT ![Job(w)] = "COMPLETED"]
  /\ Goto(w, "count")
  /\ UNCHANGED << run, runOf, removed, requests, broker, letters, bounds >>

\* A bug: the run is not recomputed when an item fails.
MarkItemFailedOnly(w) ==
  /\ At(w, "settle")
  /\ Writing(w)
  /\ worker[w].retries >= MaxRetries
  /\ item' = [item EXCEPT ![Job(w)] = "FAILED"]
  /\ Goto(w, "bury")
  /\ UNCHANGED << run, runOf, removed, requests, broker, letters, bounds >>

\* mark_item_failed, in a session of its own.
MarkItemFailed(w) ==
  /\ At(w, "settle")
  /\ Writing(w)
  /\ worker[w].retries >= MaxRetries
  /\ item' = [item EXCEPT ![Job(w)] = "FAILED"]
  /\ Goto(w, "reload")
  /\ UNCHANGED << run, runOf, removed, requests, broker, letters, bounds >>

\* _recompute_run reads the run, which this session does not hold yet.
ReloadRun(w) ==
  /\ At(w, "reload")
  /\ worker' = [worker EXCEPT ![w].pc = "count", ![w].seen = run[runOf[Job(w)]]]
  /\ UNCHANGED << rows, requests, broker, letters, bounds >>

\* The statuses item_status_counts counts: its own item as the session holds
\* it, the others as the database has them, deleted ones left out.
Counted(w) ==
  LET mine == IF worker[w].failing THEN "FAILED" ELSE "COMPLETED" IN
  { IF i = Job(w) THEN mine ELSE item[i] :
      i \in {k \in ItemsOf(runOf[Job(w)]) : ~removed[k]} }

\* A bug: an item being written does not count as in flight.
RunStatusOfPending(statuses) ==
  IF "PENDING" \in statuses THEN "RUNNING"
  ELSE IF "FAILED" \in statuses THEN "PARTIAL"
  ELSE "COMPLETED"

RunStatusOf(statuses) ==
  IF statuses \cap InFlight # {} THEN "RUNNING"
  ELSE IF "FAILED" \in statuses THEN "PARTIAL"
  ELSE "COMPLETED"

CountItems(w) ==
  /\ At(w, "count")
  /\ worker' = [worker EXCEPT ![w].pc = "save", ![w].found = RunStatusOf(Counted(w))]
  /\ UNCHANGED << rows, requests, broker, letters, bounds >>

SaveRun(w) ==
  /\ At(w, "save")
  /\ SetRun(runOf[Job(w)], worker[w].seen, worker[w].found)
  /\ worker' = [worker EXCEPT ![w].pc = IF worker[w].failing THEN "bury" ELSE "ack",
                              ![w].seen = "absent", ![w].found = "absent"]
  /\ UNCHANGED << item, runOf, removed, requests, broker, letters, bounds >>

-----------------------------------------------------------------------------
(* The environment.                                                        *)

\* The drafting task left something behind that its redelivery repeats.
RoadmapIsOut(w) == Drafting(w) /\ worker[w].pc \in {"refresh", "fanout", "ack"}

Crash(w) ==
  /\ faults < MaxFaults
  /\ ~At(w, "idle")
  /\ IF RoadmapIsOut(w) THEN "roadmap_failure" \in Faults ELSE "worker_crash" \in Faults
  /\ unacked' = Plus(unacked, Job(w), worker[w].retries)
  /\ worker' = [worker EXCEPT ![w] = IdleTask]
  /\ faults' = faults + 1
  /\ UNCHANGED << rows, requests, ready, letters, replays >>

\* A bug of the accounting: a message nobody held comes back.
RestoreUntracked(j, n) ==
  /\ ready' = Plus(ready, j, n)
  /\ unacked' = Minus(unacked, j, n)
  /\ UNCHANGED << rows, requests, worker, letters, bounds >>

\* The broker restores a dead worker's message.
Restore(j, n) ==
  /\ unacked[j][n] > 0
  /\ ready' = Plus(ready, j, n)
  /\ unacked' = Minus(unacked, j, n)
  /\ UNCHANGED << rows, requests, worker, letters, bounds >>

\* scripts/dead_letter.py replay.
Drain ==
  /\ replays < MaxReplays
  /\ \E j \in Jobs : deadLetter[j] > 0
  /\ replaying' = [j \in Jobs |-> replaying[j] + deadLetter[j]]
  /\ deadLetter' = [j \in Jobs |-> 0]
  /\ replays' = replays + 1
  /\ UNCHANGED << rows, requests, broker, worker, faults >>

Resend(j) ==
  /\ replaying[j] > 0
  /\ replaying' = [replaying EXCEPT ![j] = @ - 1]
  /\ ready' = Plus(ready, j, 0)
  /\ UNCHANGED << rows, requests, unacked, worker, deadLetter, bounds >>

-----------------------------------------------------------------------------

Step(w) ==
  \/ OpenDraft(w) \/ Materialize(w) \/ Refresh(w) \/ FanOut(w) \/ FailRun(w)
  \/ StartItem(w) \/ LoadRun(w) \/ CompleteItem(w) \/ MarkItemFailed(w)
  \/ ReloadRun(w) \/ CountItems(w) \/ SaveRun(w)
  \/ Fail(w) \/ Retry(w) \/ Bury(w) \/ LoseOutcome(w) \/ Ack(w)

Next ==
  \/ \E r \in Runs : \/ Begin(r) \/ EnqueueDraft(r) \/ Start(r) \/ SendItem(r)
                     \/ ApiCrash(r)
  \/ \E i \in Items : RemoveItem(i)
  \/ \E w \in Workers : Receive(w) \/ Step(w) \/ Crash(w)
  \/ \E j \in Jobs : Resend(j) \/ \E n \in Retries : Restore(j, n)
  \/ Drain

Spec == Init /\ [][Next]_vars

\* A running request and a running task go on, an idle worker takes messages,
\* the broker restores what a dead worker held, the replay script finishes.
Fairness ==
  /\ \A r \in Runs : WF_vars(EnqueueDraft(r) \/ SendItem(r) \/ ApiCrash(r))
  /\ \A w \in Workers : WF_vars(Receive(w)) /\ WF_vars(Step(w))
  /\ \A j \in Jobs : WF_vars(Resend(j)) /\ \A n \in Retries : WF_vars(Restore(j, n))

FairSpec == Spec /\ Fairness

-----------------------------------------------------------------------------
(* Properties.                                                             *)

Live(r) == {i \in ItemsOf(r) : ~removed[i]}

\* COMPLETED means every subtask finished successfully
\* (generation/domain/entities.py).
CompletedMeansAllWritten ==
  \A r \in Runs : run[r] = "COMPLETED" => \A i \in Live(r) : item[i] = "COMPLETED"

\* FAILED means the run could not even be planned (generation/domain/entities.py).
FailedRunHasNoItems ==
  \A r \in Runs : run[r] = "FAILED" => ItemsOf(r) = {}

\* One failed item must not destroy the others (docs/architecture): an item that
\* was written is not taken up again.
WrittenItemsStay ==
  [][\A i \in Items : item[i] = "COMPLETED" => item'[i] = "COMPLETED"]_vars

Lifecycle == INSTANCE GenerationLifecycle

\* Whoever polls the page of a run sees the simple life of GenerationLifecycle, however the
\* tasks of the run interleave, fail and are retried: one roadmap or FAILED, a written
\* activity that stays written, COMPLETED only over written ones (generation/domain/entities.py).
ImplementsLifecycle == Lifecycle!Spec

\* Somebody still has the item to send, to write or to show as failed.
Responsible(i) ==
  \/ \E r \in Runs : i \in unsent[r]
  \/ \E w \in Workers : i \in worker[w].toSend
  \/ \E n \in Retries : ready[i][n] > 0 \/ unacked[i][n] > 0
  \/ \E w \in Workers : Job(w) = i /\ ~At(w, "ack")
  \/ deadLetter[i] > 0 \/ replaying[i] > 0

\* Every item that is not written has somebody responsible for it, unless the
\* request that was to send it died (plans/presentation, tasks/generate.py).
NoItemIsForgotten ==
  \A i \in Items :
    item[i] \in {"PENDING", "PROCESSING", "FAILED"} /\ request[runOf[i]] # "crashed"
      => Responsible(i)

\* One roadmap per run: the redelivery of a task in flight is safe
\* (docs/observability/ALERTS.md).
OneRoadmapPerRun ==
  \A r \in Runs : ItemsOf(r) # {} => Cardinality(ItemsOf(r)) \in RoadmapSizes

\* A store refused a write of the failure path: nothing repairs that.
Refused == "write_failure" \in Faults /\ faults > 0

InProgress(r) == run[r] \in {"PLANNING", "RUNNING"} /\ request[r] = "done"
Over(r)       == run[r] \in {"COMPLETED", "PARTIAL", "FAILED"} \/ Refused

\* A run whose task or messages were sent ends, so that the page that polls it
\* stops (generation/application/service.py, _recompute_run).
EveryRunEnds == \A r \in Runs : InProgress(r) ~> Over(r)

\* RUNNING means that subtasks are being generated by workers
\* (generation/domain/entities.py): it does not last for ever.
RunningEnds ==
  \A r \in Runs : (run[r] = "RUNNING") ~> (run[r] # "RUNNING" \/ request[r] = "crashed")
=============================================================================
