------------------------- MODULE PlanGenerationProofs -------------------------
(***************************************************************************)
(* Theorems about PlanGeneration, for any runs, items, workers, roadmap    *)
(* sizes, number of retries and number of replays, and that it implements  *)
(* GenerationLifecycle.  Each says which faults it survives.               *)
(***************************************************************************)
EXTENDS PlanGeneration, FiniteSetTheorems, TLAPS

-----------------------------------------------------------------------------
(* Where a job may be: a message, a task, an entry of the dead letters, or *)
(* a list of those who still have to send it.                              *)

InRequest(j) == \E r \in Runs : j \in unsent[r]
InFanOut(j)  == \E w \in Workers : j \in worker[w].toSend
InQueue(j)   == \E n \in Retries : ready[j][n] > 0
InLimbo(j)   == \E n \in Retries : unacked[j][n] > 0
InLetters(j) == deadLetter[j] > 0
InReplay(j)  == replaying[j] > 0

\* A task of the job that is not merely about to be acknowledged.
Doing(w, j) == Job(w) = j /\ ~At(w, "ack")
InTask(j)   == \E w \in Workers : Doing(w, j)

\* The job was sent, or somebody has it to send.
Outstanding(j) ==
  \/ InRequest(j) \/ InFanOut(j) \/ InQueue(j) \/ InLimbo(j)
  \/ InLetters(j) \/ InReplay(j) \/ \E w \in Workers : Job(w) = j

-----------------------------------------------------------------------------
(* Type correctness.                                                       *)

\* What the program point of a task says about the rest of it.
Shaped(t) ==
  /\ t.pc = "idle" <=> t.job \notin Jobs
  /\ t.pc \in {"draft", "refresh", "fanout"} => t.job \in Runs
  /\ t.pc \in {"load", "write", "reload", "count", "save"} => t.job \in Items
  /\ t.toSend # {} => t.pc \in {"refresh", "fanout"}
  /\ t.pc \in {"received", "draft", "refresh", "fanout", "load", "write"} => ~t.failing
  /\ t.pc \in {"settle", "reload", "bury"} => t.failing
  /\ t.pc = "save" => t.found \in {"RUNNING", "PARTIAL", "COMPLETED"}

TasksShaped == \A w \in Workers : Shaped(worker[w])

\* An item exists exactly when it belongs to a run.
ItemsHaveRuns == \A i \in Items : item[i] = "absent" <=> runOf[i] = NoRun

\* Only what was committed is sent, and under the run it was committed with.
SentIsCommitted ==
  /\ \A i \in Items : Outstanding(i) => item[i] # "absent"
  /\ \A r \in Runs : Outstanding(r) => request[r] = "done"
  /\ \A r \in Runs : unsent[r] \subseteq ItemsOf(r)
  /\ \A w \in Workers : worker[w].toSend \subseteq ItemsOf(Job(w))

TypeInv == TypeOK /\ TasksShaped /\ ItemsHaveRuns /\ SentIsCommitted

\* A task that is idle is a task.
LEMMA IdleTaskIsTask ==
  ASSUME ConstantsAssumption
  PROVE  IdleTask \in Task /\ Shaped(IdleTask) /\ IdleTask.pc = "idle"
         /\ IdleTask.job = NoJob /\ NoJob \notin Jobs /\ IdleTask.toSend = {}
         /\ 0 \in Retries
BY DEF ConstantsAssumption, IdleTask, Task, PC, Retries, RunStatus, Jobs, Shaped

\* A worker that moves on, with what it has seen and found, still has a task.
LEMMA TaskMoves ==
  ASSUME TypeOK, TasksShaped, NEW w \in Workers, NEW pc \in PC,
         NEW seen \in RunStatus, NEW found \in RunStatus,
         NEW t, t = [worker[w] EXCEPT !.pc = pc, !.seen = seen, !.found = found],
         Shaped(t), worker' = [worker EXCEPT ![w] = t]
  PROVE  worker' \in [Workers -> Task] /\ TasksShaped'
<1>1. t \in Task
  BY ZenonT(60) DEF TypeOK, Task
<1>2. worker \in [Workers -> Task]
  BY DEF TypeOK
<1>3. worker' \in [Workers -> Task]
  BY <1>1, <1>2
<1>4. ASSUME NEW v \in Workers PROVE Shaped(worker'[v])
  BY <1>2 DEF TasksShaped
<1>5. QED
  BY <1>3, <1>4 DEF TasksShaped

\* Adding a message keeps a bag of messages a bag.
LEMMA PlusTyped ==
  ASSUME NEW bag \in [Jobs -> [Retries -> Nat]], NEW j \in Jobs, NEW n \in Retries
  PROVE  Plus(bag, j, n) \in [Jobs -> [Retries -> Nat]]
BY DEF Plus

\* Taking a message out of a bag that has it keeps the bag a bag.
LEMMA MinusTyped ==
  ASSUME NEW bag \in [Jobs -> [Retries -> Nat]], NEW j \in Jobs, NEW n \in Retries,
         bag[j][n] > 0
  PROVE  Minus(bag, j, n) \in [Jobs -> [Retries -> Nat]]
<1>1. bag[j][n] \in Nat /\ bag[j][n] - 1 \in Nat
  OBVIOUS
<1>2. QED
  BY <1>1 DEF Minus

\* The rows of a new roadmap are rows.
LEMMA CreateItemsTyped ==
  ASSUME TypeOK, NEW r \in Runs, NEW S \in FreshItems, CreateItems(r, S)
  PROVE  item' \in [Items -> ItemStatus] /\ runOf' \in [Items -> Runs \cup {NoRun}]
BY DEF TypeOK, CreateItems, ItemStatus

\* Setting the status of a run keeps it a status.
LEMMA SetRunTyped ==
  ASSUME TypeOK, NEW r, NEW seen, NEW s \in RunStatus, SetRun(r, seen, s)
  PROVE  run' \in [Runs -> RunStatus]
BY DEF TypeOK, SetRun

LEMMA InitTypeInv == ConstantsAssumption /\ Init => TypeInv
<1> SUFFICES ASSUME ConstantsAssumption, Init PROVE TypeInv
  OBVIOUS
<1>1. TypeOK
  BY IdleTaskIsTask DEF Init, TypeOK, RunStatus, ItemStatus
<1>2. TasksShaped
  BY IdleTaskIsTask DEF Init, TasksShaped
<1>3. ItemsHaveRuns
  BY DEF Init, ItemsHaveRuns
<1>4. \A j \in Jobs : ~Outstanding(j)
  BY IdleTaskIsTask DEF Init, Outstanding, InRequest, InFanOut, InQueue, InLimbo, InLetters,
       InReplay, Job
<1>5. QED
  BY <1>1, <1>2, <1>3, <1>4, IdleTaskIsTask
     DEF TypeInv, SentIsCommitted, Init, Jobs, ItemsOf

\* The steps of the requests, of the owner, of the broker and of the operator.
LEMMA RequestStepsTyped ==
  ASSUME ConstantsAssumption, TypeInv, NEW r \in Runs,
         Begin(r) \/ EnqueueDraft(r) \/ Start(r) \/ SendItem(r) \/ ApiCrash(r)
  PROVE  TypeOK'
<1> USE DEF TypeOK, rows, requests, broker, letters, bounds
<1>0. TypeOK /\ 0 \in Retries /\ r \in Jobs
  BY IdleTaskIsTask DEF TypeInv, Jobs
<1>1. CASE Begin(r)
  BY <1>0, <1>1 DEF Begin, RunStatus
<1>2. CASE EnqueueDraft(r)
  BY <1>0, <1>2, PlusTyped DEF EnqueueDraft
<1>3. CASE Start(r)
  <2>1. PICK S \in FreshItems : CreateItems(r, S) /\ unsent' = [unsent EXCEPT ![r] = S]
    BY <1>3 DEF Start
  <2>2. S \in SUBSET Items
    BY DEF FreshItems
  <2>3. QED
    BY <1>0, <1>3, <2>1, <2>2, CreateItemsTyped DEF Start, RunStatus
<1>4. CASE SendItem(r)
  <2>1. PICK i \in unsent[r] :
          /\ ready' = Plus(ready, i, 0)
          /\ unsent' = [unsent EXCEPT ![r] = @ \ {i}]
          /\ request' = [request EXCEPT ![r] = IF unsent[r] = {i} THEN "done" ELSE "fanout"]
    BY <1>4 DEF SendItem
  <2>2. i \in Jobs
    BY <1>0 DEF Jobs
  <2>3. QED
    BY <1>0, <1>4, <2>1, <2>2, PlusTyped DEF SendItem
<1>5. CASE ApiCrash(r)
  BY <1>0, <1>5 DEF ApiCrash
<1>6. QED
  BY <1>1, <1>2, <1>3, <1>4, <1>5

\* The owner, the broker and the operator.
LEMMA EnvironmentStepsTyped ==
  ASSUME ConstantsAssumption, TypeInv,
         \/ \E i \in Items : RemoveItem(i)
         \/ \E j \in Jobs : Resend(j) \/ \E n \in Retries : Restore(j, n)
         \/ Drain
  PROVE  TypeOK'
<1> USE DEF TypeOK, rows, requests, broker, letters, bounds
<1>0. TypeOK /\ 0 \in Retries
  BY IdleTaskIsTask DEF TypeInv
<1>1. ASSUME NEW i \in Items, RemoveItem(i) PROVE TypeOK'
  BY <1>0, <1>1 DEF RemoveItem
<1>2. ASSUME NEW j \in Jobs, Resend(j) PROVE TypeOK'
  <2>1. replaying[j] - 1 \in Nat
    BY <1>0, <1>2 DEF Resend
  <2>2. replaying' \in [Jobs -> Nat]
    BY <1>0, <1>2, <2>1 DEF Resend
  <2>3. QED
    BY <1>0, <1>2, <2>2, PlusTyped DEF Resend
<1>3. ASSUME NEW j \in Jobs, NEW n \in Retries, Restore(j, n) PROVE TypeOK'
  BY <1>0, <1>3, PlusTyped, MinusTyped DEF Restore
<1>4. CASE Drain
  BY <1>0, <1>4 DEF Drain
<1>5. QED
  BY <1>1, <1>2, <1>3, <1>4

\* A worker takes a message, and a worker dies.
LEMMA ReceiveAndCrashTyped ==
  ASSUME ConstantsAssumption, TypeInv, NEW w \in Workers, Receive(w) \/ Crash(w)
  PROVE  TypeOK' /\ TasksShaped'
<1> USE DEF TypeOK, TasksShaped, rows, requests, broker, letters, bounds
<1>0. TypeOK /\ TasksShaped
  BY DEF TypeInv
<1>1. CASE Receive(w)
  <2>1. PICK j \in Jobs, n \in Retries :
          /\ ready[j][n] > 0
          /\ ready' = Minus(ready, j, n)
          /\ worker' = [worker EXCEPT ![w] =
               [IdleTask EXCEPT !.pc = "received", !.job = j, !.retries = n]]
    BY Zenon, <1>1 DEF Receive
  <2>2. /\ [IdleTask EXCEPT !.pc = "received", !.job = j, !.retries = n] \in Task
        /\ Shaped([IdleTask EXCEPT !.pc = "received", !.job = j, !.retries = n])
    BY IdleTaskIsTask DEF IdleTask, Task, PC, Shaped
  <2>3. QED
    BY Zenon, <1>0, <1>1, <2>1, <2>2, MinusTyped DEF Receive
<1>2. CASE Crash(w)
  <2>1. Job(w) \in Jobs /\ worker[w].retries \in Retries
    BY <1>0, <1>2 DEF Crash, At, Job, Shaped, Task
  <2>2. QED
    BY <1>0, <1>2, <2>1, PlusTyped, IdleTaskIsTask DEF Crash
<1>3. QED
  BY <1>1, <1>2

\* The steps that change nothing but the task itself, and those of both tasks.
LEMMA TaskStepsTyped ==
  ASSUME ConstantsAssumption, TypeInv, NEW w \in Workers,
         Fail(w) \/ Retry(w) \/ Bury(w) \/ LoseOutcome(w) \/ Ack(w)
  PROVE  TypeOK' /\ TasksShaped'
<1> USE DEF TypeOK, TasksShaped, rows, requests, broker, letters, bounds
<1>0. /\ TypeOK /\ TasksShaped
      /\ worker[w] \in Task /\ Shaped(worker[w])
  BY DEF TypeInv
<1>1. CASE Fail(w)
  <2>1. worker[w].pc # "idle"
    BY <1>0, <1>1 DEF Fail, Attempting, Late
  <2> DEFINE t == [IdleTask EXCEPT !.pc = "settle", !.job = Job(w),
                                   !.retries = worker[w].retries, !.failing = TRUE]
  <2>2. t \in Task /\ Shaped(t)
    BY ZenonT(60), <1>0, <2>1, IdleTaskIsTask DEF IdleTask, Task, PC, Shaped, Job
  <2>3. QED
    BY <1>0, <1>1, <2>2 DEF Fail
<1>2. CASE Retry(w)
  <2>1. Job(w) \in Jobs /\ worker[w].retries + 1 \in Retries
    BY SMTT(30), <1>0, <1>2 DEF Retry, At, Job, Shaped, Task, Retries, ConstantsAssumption
  <2>2. worker' \in [Workers -> Task] /\ TasksShaped'
    BY ZenonT(60), <1>0, <1>2 DEF Retry, Goto, At, Task, PC, Shaped
  <2>3. QED
    BY <1>0, <1>2, <2>1, <2>2, PlusTyped DEF Retry
<1>3. CASE Bury(w)
  <2>1. worker' \in [Workers -> Task] /\ TasksShaped'
    BY ZenonT(60), <1>0, <1>3 DEF Bury, Goto, At, Task, PC, Shaped
  <2>2. Job(w) \in Jobs => deadLetter[Job(w)] + 1 \in Nat
    BY <1>0
  <2>3. deadLetter' \in [Jobs -> Nat]
    BY <1>0, <1>3, <2>2 DEF Bury
  <2>4. QED
    BY <1>0, <1>3, <2>1, <2>3 DEF Bury
<1>4. CASE LoseOutcome(w)
  <2>1. worker[w].pc # "idle"
    BY <1>0, <1>4 DEF LoseOutcome
  <2> DEFINE t == [IdleTask EXCEPT !.pc = "ack", !.job = Job(w),
                                   !.retries = worker[w].retries]
  <2>2. t \in Task /\ Shaped(t)
    BY ZenonT(60), <1>0, <2>1, IdleTaskIsTask DEF IdleTask, Task, PC, Shaped, Job
  <2>3. QED
    BY <1>0, <1>4, <2>2 DEF LoseOutcome
<1>5. CASE Ack(w)
  BY <1>0, <1>5, IdleTaskIsTask DEF Ack
<1>6. QED
  BY <1>1, <1>2, <1>3, <1>4, <1>5

\* The steps of plans.generate.
LEMMA DraftStepsTyped ==
  ASSUME ConstantsAssumption, TypeInv, NEW w \in Workers,
         OpenDraft(w) \/ Materialize(w) \/ Refresh(w) \/ FanOut(w) \/ FailRun(w)
  PROVE  TypeOK' /\ TasksShaped'
<1> USE DEF TypeOK, TasksShaped, rows, requests, broker, letters, bounds
<1>0. /\ TypeOK /\ TasksShaped
      /\ worker[w] \in Task /\ Shaped(worker[w]) /\ 0 \in Retries
  BY IdleTaskIsTask DEF TypeInv
<1>1. CASE OpenDraft(w)
  <2>1. run[Job(w)] \in RunStatus
    BY <1>0, <1>1 DEF OpenDraft, Drafting
  <2>2. QED
    BY ZenonT(60), <1>0, <1>1, <2>1 DEF OpenDraft, At, Job, Drafting, Task, PC, Shaped
<1>2. CASE Materialize(w)
  <2>1. PICK S \in FreshItems :
          /\ CreateItems(Job(w), S)
          /\ worker' = [worker EXCEPT ![w].pc = "refresh", ![w].seen = "absent",
                                      ![w].toSend = S]
    BY <1>2 DEF Materialize
  <2>2. S \in SUBSET Items /\ Job(w) \in Runs /\ worker[w].pc = "draft"
    BY Zenon, <1>0, <1>2 DEF FreshItems, Materialize, At, Shaped, Job
  <2> DEFINE t == [worker[w] EXCEPT !.pc = "refresh", !.seen = "absent", !.toSend = S]
  <2>3. t \in Task
    BY <1>0, <2>2 DEF Task, PC, RunStatus
  <2>4. Shaped(t)
    BY <1>0, <2>2 DEF Task, Shaped, Job
  <2>5. worker' = [worker EXCEPT ![w] = t]
    BY <2>1
  <2>6. worker' \in [Workers -> Task] /\ TasksShaped'
    BY <1>0, <2>3, <2>4, <2>5
  <2>7. run' \in [Runs -> RunStatus]
    BY Zenon, <1>0, <1>2, SetRunTyped DEF Materialize, RunStatus
  <2>8. QED
    BY Zenon, <1>0, <1>2, <2>1, <2>2, <2>6, <2>7, CreateItemsTyped DEF Materialize
<1>3. CASE Refresh(w)
  BY ZenonT(60), <1>0, <1>3 DEF Refresh, Goto, At, Task, PC, Shaped
<1>4. CASE FanOut(w)
  <2>1. PICK i \in worker[w].toSend :
          /\ ready' = Plus(ready, i, 0)
          /\ worker' = [worker EXCEPT
               ![w].toSend = worker[w].toSend \ {i},
               ![w].pc = IF worker[w].toSend = {i} THEN "ack" ELSE "fanout"]
    BY <1>4 DEF FanOut
  <2>2. i \in Jobs /\ worker[w].pc = "fanout"
    BY Zenon, <1>0, <1>4 DEF FanOut, At, Task, Jobs
  <2>3. worker' \in [Workers -> Task] /\ TasksShaped'
    BY ZenonT(60), <1>0, <2>1, <2>2 DEF Task, PC, Shaped
  <2>4. QED
    BY Zenon, <1>0, <1>4, <2>1, <2>2, <2>3, PlusTyped DEF FanOut
<1>5. CASE FailRun(w)
  <2>1. worker' \in [Workers -> Task] /\ TasksShaped'
    BY ZenonT(60), <1>0, <1>5 DEF FailRun, Goto, At, Task, PC, Shaped
  <2>2. QED
    BY <1>0, <1>5, <2>1 DEF FailRun, RunStatus
<1>6. QED
  BY <1>1, <1>2, <1>3, <1>4, <1>5

\* The steps of generation.run_item.
LEMMA ItemStepsTyped ==
  ASSUME ConstantsAssumption, TypeInv, NEW w \in Workers,
         \/ StartItem(w) \/ LoadRun(w) \/ CompleteItem(w) \/ MarkItemFailed(w)
         \/ ReloadRun(w) \/ CountItems(w) \/ SaveRun(w)
  PROVE  TypeOK' /\ TasksShaped'
<1> USE DEF TypeOK, TasksShaped, rows, requests, broker, letters, bounds
<1>0. /\ TypeOK /\ TasksShaped /\ ItemsHaveRuns /\ SentIsCommitted
      /\ worker[w] \in Task /\ Shaped(worker[w])
  BY DEF TypeInv
<1>1. CASE StartItem(w)
  <2>1. worker' \in [Workers -> Task] /\ TasksShaped'
    BY ZenonT(60), <1>0, <1>1 DEF StartItem, Goto, At, Job, Writing, Task, PC, Shaped
  <2>2. QED
    BY <1>0, <1>1, <2>1 DEF StartItem, ItemStatus
<1>2. ASSUME worker[w].job \in Items
      PROVE  run[runOf[Job(w)]] \in RunStatus
  <2>1. item[Job(w)] # "absent"
    BY <1>0, <1>2 DEF SentIsCommitted, Outstanding, Job
  <2>2. QED
    BY <1>0, <1>2, <2>1 DEF ItemsHaveRuns, Job
<1>3. CASE LoadRun(w)
  BY ZenonT(60), <1>0, <1>2, <1>3 DEF LoadRun, At, Task, PC, Shaped
<1>4. CASE CompleteItem(w)
  <2>1. worker' \in [Workers -> Task] /\ TasksShaped'
    BY ZenonT(60), <1>0, <1>4 DEF CompleteItem, Goto, At, Task, PC, Shaped
  <2>2. QED
    BY <1>0, <1>4, <2>1 DEF CompleteItem, ItemStatus
<1>5. CASE MarkItemFailed(w)
  <2>1. worker' \in [Workers -> Task] /\ TasksShaped'
    BY ZenonT(60), <1>0, <1>5 DEF MarkItemFailed, Goto, At, Job, Writing, Task, PC, Shaped
  <2>2. QED
    BY <1>0, <1>5, <2>1 DEF MarkItemFailed, ItemStatus
<1>6. CASE ReloadRun(w)
  BY ZenonT(60), <1>0, <1>2, <1>6 DEF ReloadRun, At, Task, PC, Shaped
<1>7. CASE CountItems(w)
  <2>1. RunStatusOf(Counted(w)) \in {"RUNNING", "PARTIAL", "COMPLETED"}
    BY DEF RunStatusOf
  <2> DEFINE counted == RunStatusOf(Counted(w))
             seen == worker[w].seen
             t == [worker[w] EXCEPT !.pc = "save", !.seen = seen, !.found = counted]
  <2>2. worker[w].pc = "count" /\ seen \in RunStatus
    BY <1>0, <1>7 DEF CountItems, At, Task
  <2>3. worker' = [worker EXCEPT ![w].pc = "save", ![w].found = counted]
    BY <1>7 DEF CountItems
  <2>4. counted \in {"RUNNING", "PARTIAL", "COMPLETED"} /\ counted \in RunStatus
    BY <2>1 DEF RunStatus
  <2> HIDE DEF counted
  <2>5. t = [worker[w] EXCEPT !.pc = "save", !.found = counted]
    BY <1>0 DEF Task
  <2>6. worker' = [worker EXCEPT ![w] = t]
    BY <2>3, <2>5
  <2>7. Shaped(t)
    BY <1>0, <2>2, <2>4 DEF Shaped, Task
  <2> HIDE DEF t
  <2>8. worker' \in [Workers -> Task] /\ TasksShaped'
    <3>1. "save" \in PC /\ t = [worker[w] EXCEPT !.pc = "save", !.seen = seen, !.found = counted]
      BY DEF PC, t
    <3>2. TypeOK /\ TasksShaped
      BY <1>0
    <3> HIDE DEF TypeOK, TasksShaped
    <3>3. QED
      BY ONLY <2>2, <2>4, <2>6, <2>7, <3>1, <3>2, TaskMoves, Zenon
  <2>9. QED
    BY <1>0, <1>7, <2>8 DEF CountItems
<1>8. CASE SaveRun(w)
  <2>1. worker' \in [Workers -> Task] /\ TasksShaped'
    BY <1>0, <1>8 DEF SaveRun, At, Task, PC, Shaped, RunStatus
  <2>2. run' \in [Runs -> RunStatus]
    BY <1>0, <1>8, SetRunTyped DEF SaveRun, Task
  <2>3. QED
    BY SMTT(30), <1>0, <1>8, <2>1, <2>2 DEF SaveRun
<1>9. QED
  BY <1>1, <1>3, <1>4, <1>5, <1>6, <1>7, <1>8

-----------------------------------------------------------------------------
(* What is sent was committed.                                             *)

\* A row of a committed item stays, and so does the outcome of a request.
LEMMA CommittedStays ==
  ASSUME TypeInv, Next
  PROVE  /\ \A i \in Items : item[i] # "absent" =>
              item'[i] # "absent" /\ runOf'[i] = runOf[i]
         /\ \A r \in Runs : request[r] = "done" => request'[r] = "done"
<1> USE DEF rows, requests, broker, letters, bounds
<1>0. TypeOK
  BY DEF TypeInv
<1>1. ASSUME NEW r \in Runs,
             Begin(r) \/ EnqueueDraft(r) \/ Start(r) \/ SendItem(r) \/ ApiCrash(r)
      PROVE  /\ \A i \in Items : item[i] # "absent" =>
                  item'[i] # "absent" /\ runOf'[i] = runOf[i]
             /\ \A s \in Runs : request[s] = "done" => request'[s] = "done"
  BY <1>0, <1>1 DEF Begin, EnqueueDraft, Start, SendItem, ApiCrash, CreateItems, FreshItems,
                    TypeOK
<1>2. ASSUME NEW w \in Workers, Receive(w) \/ Step(w) \/ Crash(w)
      PROVE  /\ \A i \in Items : item[i] # "absent" =>
                  item'[i] # "absent" /\ runOf'[i] = runOf[i]
             /\ request' = request
  <2>1. CASE Receive(w) \/ Crash(w)
    BY Zenon, <2>1 DEF Receive, Crash
  <2>2. CASE OpenDraft(w) \/ Refresh(w) \/ FanOut(w) \/ FailRun(w)
    BY <2>2 DEF OpenDraft, Refresh, FanOut, FailRun
  <2>3. CASE Materialize(w)
    BY <2>3 DEF Materialize, CreateItems, FreshItems
  <2>4. CASE StartItem(w) \/ CompleteItem(w) \/ MarkItemFailed(w)
    BY <1>0, <2>4 DEF StartItem, CompleteItem, MarkItemFailed, TypeOK
  <2>5. CASE LoadRun(w) \/ ReloadRun(w) \/ CountItems(w) \/ SaveRun(w)
    BY <2>5 DEF LoadRun, ReloadRun, CountItems, SaveRun
  <2>6. CASE Fail(w) \/ Retry(w) \/ Bury(w) \/ LoseOutcome(w) \/ Ack(w)
    BY <2>6 DEF Fail, Retry, Bury, LoseOutcome, Ack
  <2>7. QED
    BY <1>2, <2>1, <2>2, <2>3, <2>4, <2>5, <2>6 DEF Step
<1>3. CASE \/ \E i \in Items : RemoveItem(i)
           \/ \E j \in Jobs : Resend(j) \/ \E n \in Retries : Restore(j, n)
           \/ Drain
  BY <1>3 DEF RemoveItem, Resend, Restore, Drain
<1>4. QED
  BY <1>1, <1>2, <1>3 DEF Next

\* An item gets its run with its first status.
LEMMA ItemsKeepRuns ==
  ASSUME ConstantsAssumption, TypeInv, Next
  PROVE  ItemsHaveRuns'
<1> USE DEF rows, requests, broker, letters, bounds, ItemsHaveRuns
<1>0. TypeOK /\ ItemsHaveRuns /\ NoRun \notin Runs
  BY DEF TypeInv, ConstantsAssumption
<1>1. ASSUME NEW r \in Runs, NEW S \in FreshItems, CreateItems(r, S)
      PROVE  ItemsHaveRuns'
  BY <1>0, <1>1 DEF CreateItems
<1>2. ASSUME NEW i \in Items, item[i] # "absent", NEW s \in ItemStatus \ {"absent"},
             item' = [item EXCEPT ![i] = s], runOf' = runOf
      PROVE  ItemsHaveRuns'
  BY <1>0, <1>2 DEF TypeOK
<1>3. ASSUME NEW r \in Runs,
             Begin(r) \/ EnqueueDraft(r) \/ Start(r) \/ SendItem(r) \/ ApiCrash(r)
      PROVE  ItemsHaveRuns'
  BY <1>0, <1>1, <1>3 DEF Begin, EnqueueDraft, Start, SendItem, ApiCrash
<1>4. ASSUME NEW w \in Workers, Receive(w) \/ Step(w) \/ Crash(w)
      PROVE  ItemsHaveRuns'
  <2>1. CASE Receive(w) \/ Crash(w)
    BY Zenon, <1>0, <2>1 DEF Receive, Crash
  <2>2. CASE OpenDraft(w) \/ Refresh(w) \/ FanOut(w) \/ FailRun(w)
    BY <1>0, <2>2 DEF OpenDraft, Refresh, FanOut, FailRun
  <2>3. CASE Materialize(w)
    <3>1. Job(w) \in Runs
      BY <2>3 DEF Materialize, TypeInv, TasksShaped, Shaped, At, Job
    <3>2. QED
      BY <1>1, <2>3, <3>1 DEF Materialize
  <2>4. CASE StartItem(w) \/ CompleteItem(w) \/ MarkItemFailed(w)
    <3>1. Job(w) \in Items
      BY <2>4 DEF StartItem, CompleteItem, MarkItemFailed, Writing, TypeInv, TasksShaped,
                  Shaped, At, Job
    <3>2. item[Job(w)] # "absent"
      BY <3>1 DEF TypeInv, SentIsCommitted, Outstanding
    <3>3. QED
      BY <1>2, <2>4, <3>1, <3>2 DEF StartItem, CompleteItem, MarkItemFailed, ItemStatus
  <2>5. CASE LoadRun(w) \/ ReloadRun(w) \/ CountItems(w) \/ SaveRun(w)
    BY <1>0, <2>5 DEF LoadRun, ReloadRun, CountItems, SaveRun
  <2>6. CASE Fail(w) \/ Retry(w) \/ Bury(w) \/ LoseOutcome(w) \/ Ack(w)
    BY <1>0, <2>6 DEF Fail, Retry, Bury, LoseOutcome, Ack
  <2>7. QED
    BY <1>4, <2>1, <2>2, <2>3, <2>4, <2>5, <2>6 DEF Step
<1>5. CASE \/ \E i \in Items : RemoveItem(i)
           \/ \E j \in Jobs : Resend(j) \/ \E n \in Retries : Restore(j, n)
           \/ Drain
  BY <1>0, <1>5 DEF RemoveItem, Resend, Restore, Drain
<1>6. QED
  BY <1>3, <1>4, <1>5 DEF Next

\* The steps that only move a task on keep its job, its retries and its fan-out.
LEMMA StepsKeepTheJob ==
  ASSUME TypeOK, NEW w \in Workers,
         \/ OpenDraft(w) \/ Refresh(w) \/ FailRun(w) \/ Retry(w) \/ Bury(w)
         \/ StartItem(w) \/ LoadRun(w) \/ CompleteItem(w) \/ MarkItemFailed(w)
         \/ ReloadRun(w) \/ CountItems(w) \/ SaveRun(w)
  PROVE  \A v \in Workers : /\ worker'[v].job = worker[v].job
                            /\ worker'[v].retries = worker[v].retries
                            /\ worker'[v].toSend = worker[v].toSend
                            /\ v # w => worker'[v] = worker[v]
<1> USE DEF TypeOK, Task
<1>1. ASSUME NEW pc, Goto(w, pc)
      PROVE  \A v \in Workers : /\ worker'[v].job = worker[v].job
                                /\ worker'[v].retries = worker[v].retries
                                /\ worker'[v].toSend = worker[v].toSend
                                /\ v # w => worker'[v] = worker[v]
  BY <1>1 DEF Goto
<1>2. CASE Refresh(w) \/ FailRun(w) \/ Retry(w) \/ Bury(w) \/ StartItem(w)
           \/ CompleteItem(w) \/ MarkItemFailed(w)
  BY <1>1, <1>2 DEF Refresh, FailRun, Retry, Bury, StartItem, CompleteItem, MarkItemFailed
<1>3. CASE OpenDraft(w)
  BY <1>3 DEF OpenDraft
<1>4. CASE LoadRun(w)
  BY <1>4 DEF LoadRun
<1>5. CASE ReloadRun(w)
  BY <1>5 DEF ReloadRun
<1>6. CASE CountItems(w)
  BY <1>6 DEF CountItems
<1>7. CASE SaveRun(w)
  BY <1>7 DEF SaveRun
<1>8. QED
  BY <1>2, <1>3, <1>4, <1>5, <1>6, <1>7

\* A job is outstanding because it was, or because a request or a roadmap has just been
\* committed: no other step makes work up.
LEMMA NothingIsMadeUp ==
  ASSUME ConstantsAssumption, TypeInv, Next, NEW j \in Jobs, Outstanding(j)'
  PROVE  \/ Outstanding(j)
         \/ j \in Items /\ item'[j] # "absent"
         \/ j \in Runs /\ request'[j] = "done"
<1> USE DEF rows, requests, broker, letters, bounds, TypeOK
<1>0. TypeOK /\ 0 \in Retries /\ NoJob \notin Jobs /\ IdleTask.job = NoJob
      /\ IdleTask.toSend = {}
  BY IdleTaskIsTask DEF TypeInv
<1>a. ASSUME NEW r \in Runs, NEW S \in FreshItems, CreateItems(r, S), j \in S
      PROVE  j \in Items /\ item'[j] # "absent"
  BY <1>0, <1>a DEF CreateItems, FreshItems
<1>1. ASSUME NEW r \in Runs, Begin(r) \/ EnqueueDraft(r) \/ Start(r) \/ SendItem(r) \/ ApiCrash(r)
      PROVE  \/ Outstanding(j)
             \/ j \in Items /\ item'[j] # "absent"
             \/ j \in Runs /\ request'[j] = "done"
  <2> USE DEF Outstanding, InRequest, InFanOut, InQueue, InLimbo, InLetters, InReplay, Job
  <2>1. CASE Begin(r) \/ ApiCrash(r)
    BY <1>0, <2>1 DEF Begin, ApiCrash
  <2>2. CASE EnqueueDraft(r)
    BY <1>0, <2>2 DEF EnqueueDraft, Plus
  <2>3. CASE Start(r)
    BY <1>0, <1>a, <2>3 DEF Start
  <2>4. CASE SendItem(r)
    BY <1>0, <2>4 DEF SendItem, Plus
  <2>5. QED
    BY <1>1, <2>1, <2>2, <2>3, <2>4
<1>2. ASSUME NEW w \in Workers, Receive(w) \/ Step(w) \/ Crash(w), ~Materialize(w)
      PROVE  Outstanding(j)
  <2> USE DEF Outstanding, InRequest, InFanOut, InQueue, InLimbo, InLetters, InReplay, Job
  <2>1. CASE Receive(w)
    BY <1>0, <2>1 DEF Receive, Minus, IdleTask
  <2>2. CASE Crash(w)
    BY <1>0, <2>2 DEF Crash, Plus
  <2>3. CASE FanOut(w)
    BY <1>0, <2>3 DEF FanOut, Plus
  <2>4. CASE \/ OpenDraft(w) \/ Refresh(w) \/ FailRun(w) \/ StartItem(w) \/ LoadRun(w)
             \/ CompleteItem(w) \/ MarkItemFailed(w) \/ ReloadRun(w) \/ CountItems(w)
             \/ SaveRun(w)
    <3>1. \A v \in Workers : /\ worker'[v].job = worker[v].job
                             /\ worker'[v].toSend = worker[v].toSend
      BY <1>0, <2>4, StepsKeepTheJob
    <3>2. UNCHANGED << requests, broker, letters >>
      BY <2>4 DEF OpenDraft, Refresh, FailRun, StartItem, LoadRun, CompleteItem,
           MarkItemFailed, ReloadRun, CountItems, SaveRun
    <3>3. QED
      BY <3>1, <3>2
  <2>5. CASE Retry(w)
    BY <1>0, <2>5 DEF Retry, Goto, Plus
  <2>6. CASE Bury(w)
    BY <1>0, <2>6 DEF Bury, Goto
  <2>7. CASE Fail(w)
    BY <1>0, <2>7 DEF Fail, IdleTask
  <2>8. CASE LoseOutcome(w)
    BY <1>0, <2>8 DEF LoseOutcome, IdleTask
  <2>9. CASE Ack(w)
    BY <1>0, <2>9 DEF Ack
  <2>10. QED
    BY <1>2, <2>1, <2>2, <2>3, <2>4, <2>5, <2>6, <2>7, <2>8, <2>9 DEF Step
<1>3. ASSUME NEW w \in Workers, Materialize(w)
      PROVE  Outstanding(j) \/ (j \in Items /\ item'[j] # "absent")
  <2>1. Job(w) \in Runs
    BY <1>3 DEF Materialize, TypeInv, TasksShaped, Shaped, At, Job
  <2>2. PICK S \in FreshItems :
          /\ CreateItems(Job(w), S)
          /\ worker' = [worker EXCEPT ![w].pc = "refresh", ![w].seen = "absent",
                                      ![w].toSend = S]
    BY <1>3 DEF Materialize
  <2>3. /\ \A v \in Workers : worker'[v].job = worker[v].job
        /\ \A v \in Workers : worker'[v].toSend = worker[v].toSend \/ worker'[v].toSend = S
    BY <1>0, <2>2 DEF Task
  <2>4. /\ unsent' = unsent /\ ready' = ready /\ unacked' = unacked
        /\ deadLetter' = deadLetter /\ replaying' = replaying
    BY <1>3 DEF Materialize
  <2>5. CASE j \in S
    BY <1>a, <2>1, <2>2, <2>5
  <2>6. CASE j \notin S
    <3>1. InFanOut(j)' => InFanOut(j)
      BY <2>3, <2>6 DEF InFanOut
    <3>2. (\E v \in Workers : Job(v)' = j) => \E v \in Workers : Job(v) = j
      BY <2>3 DEF Job
    <3>3. QED
      BY <2>4, <3>1, <3>2 DEF Outstanding, InRequest, InQueue, InLimbo, InLetters, InReplay
  <2>7. QED
    BY <2>5, <2>6
<1>4. CASE \/ \E i \in Items : RemoveItem(i)
           \/ \E k \in Jobs : Resend(k) \/ \E n \in Retries : Restore(k, n)
           \/ Drain
  <2> USE DEF Outstanding, InRequest, InFanOut, InQueue, InLimbo, InLetters, InReplay, Job
  <2>1. CASE \E i \in Items : RemoveItem(i)
    BY <1>0, <2>1 DEF RemoveItem
  <2>2. ASSUME NEW k \in Jobs, Resend(k) PROVE Outstanding(j)
    BY <1>0, <2>2 DEF Resend, Plus
  <2>3. ASSUME NEW k \in Jobs, NEW n \in Retries, Restore(k, n) PROVE Outstanding(j)
    BY <1>0, <2>3 DEF Restore, Plus, Minus
  <2>4. CASE Drain
    BY <1>0, <2>4 DEF Drain
  <2>5. QED
    BY <1>4, <2>1, <2>2, <2>3, <2>4
<1>5. QED
  BY <1>1, <1>2, <1>3, <1>4 DEF Next
\* The lists of those who have items to send hold items of their runs.
LEMMA ListsHoldItemsOfTheirRun ==
  ASSUME ConstantsAssumption, TypeInv, Next
  PROVE  /\ \A r \in Runs : unsent'[r] \subseteq ItemsOf(r)'
         /\ \A w \in Workers : worker'[w].toSend \subseteq ItemsOf(Job(w))'
<1> USE DEF rows, requests, broker, letters, bounds
<1>0. /\ TypeOK
      /\ \A r \in Runs : unsent[r] \subseteq ItemsOf(r)
      /\ \A w \in Workers : worker[w].toSend \subseteq ItemsOf(Job(w))
      /\ IdleTask.toSend = {} /\ NoRun \notin Runs
  BY IdleTaskIsTask DEF TypeInv, SentIsCommitted, ConstantsAssumption
<1>1. \A r \in Runs : \A i \in ItemsOf(r) : i \in ItemsOf(r)'
  BY <1>0, CommittedStays DEF ItemsOf, TypeInv, ItemsHaveRuns
<1>2. \A w \in Workers : worker[w].toSend # {} => Job(w) \in Runs
  BY DEF TypeInv, TasksShaped, Shaped, Job
<1>3. ASSUME NEW r \in Runs, NEW S \in FreshItems, CreateItems(r, S)
      PROVE  S \subseteq ItemsOf(r)'
  BY <1>0, <1>3 DEF CreateItems, ItemsOf, FreshItems, TypeOK
<1>4. \A r \in Runs : unsent'[r] \subseteq ItemsOf(r)'
  <2>1. ASSUME NEW r \in Runs, unsent'[r] \subseteq unsent[r]
        PROVE  unsent'[r] \subseteq ItemsOf(r)'
    BY <1>0, <1>1, <2>1
  <2>2. CASE \E r \in Runs : SendItem(r) \/ ApiCrash(r) \/ Start(r)
    <3>1. PICK r \in Runs : SendItem(r) \/ ApiCrash(r) \/ Start(r)
      BY <2>2
    <3>2. CASE SendItem(r) \/ ApiCrash(r)
      BY <1>0, <2>1, <3>2 DEF SendItem, ApiCrash, TypeOK
    <3>3. CASE Start(r)
      BY <1>0, <1>3, <2>1, <3>3 DEF Start, TypeOK
    <3>4. QED
      BY <3>1, <3>2, <3>3
  <2>3. CASE ~ \E r \in Runs : SendItem(r) \/ ApiCrash(r) \/ Start(r)
    <3>1. unsent' = unsent
      BY ZenonT(60), <2>3 DEF Next, Begin, EnqueueDraft, RemoveItem, Receive, Step, Crash,
         Resend, Restore, Drain, OpenDraft, Materialize, Refresh, FanOut, FailRun, StartItem,
         LoadRun, CompleteItem, MarkItemFailed, ReloadRun, CountItems, SaveRun, Fail, Retry,
         Bury, LoseOutcome, Ack
    <3>2. QED
      BY <2>1, <3>1
  <2>4. QED
    BY <2>2, <2>3
<1>5. \A w \in Workers : worker'[w].toSend \subseteq ItemsOf(Job(w))'
  <2>1. ASSUME NEW w \in Workers, worker'[w].toSend \subseteq worker[w].toSend,
               worker'[w].toSend = {} \/ worker'[w].job = worker[w].job
        PROVE  worker'[w].toSend \subseteq ItemsOf(Job(w))'
    BY <1>0, <1>1, <1>2, <2>1 DEF Job, ItemsOf
  <2>2. ASSUME NEW w \in Workers, Receive(w) \/ Crash(w) \/ Step(w)
        PROVE  \A v \in Workers : worker'[v].toSend \subseteq ItemsOf(Job(v))'
    <3>1. CASE Receive(w) \/ Crash(w) \/ Fail(w) \/ LoseOutcome(w) \/ Ack(w)
      <4>1. \A v \in Workers : worker'[v] = worker[v] \/ worker'[v].toSend = {}
        <5>1. CASE Receive(w)
          BY <1>0, <5>1 DEF Receive, TypeOK, IdleTask
        <5>2. CASE Crash(w)
          BY <1>0, <5>2 DEF Crash, TypeOK
        <5>3. CASE Fail(w)
          BY <1>0, <5>3 DEF Fail, TypeOK, IdleTask
        <5>4. CASE LoseOutcome(w)
          BY <1>0, <5>4 DEF LoseOutcome, TypeOK, IdleTask
        <5>5. CASE Ack(w)
          BY <1>0, <5>5 DEF Ack, TypeOK
        <5>6. QED
          BY <3>1, <5>1, <5>2, <5>3, <5>4, <5>5
      <4>2. QED
        BY <2>1, <4>1
    <3>2. CASE Materialize(w)
      <4>1. PICK S \in FreshItems :
              /\ CreateItems(Job(w), S)
              /\ worker' = [worker EXCEPT ![w].pc = "refresh", ![w].seen = "absent",
                                          ![w].toSend = S]
        BY <3>2 DEF Materialize
      <4>2. Job(w) \in Runs /\ Job(w)' = Job(w)
        BY <1>0, <3>2, <4>1 DEF Materialize, TypeInv, TypeOK, TasksShaped, Shaped, At, Job, Task
      <4>3. \A v \in Workers \ {w} : worker'[v] = worker[v]
        BY <1>0, <4>1 DEF TypeOK
      <4>4. worker'[w].toSend = S
        BY <1>0, <4>1 DEF TypeOK, Task
      <4>5. S \subseteq ItemsOf(Job(w))'
        BY <1>3, <4>1, <4>2 DEF ItemsOf
      <4>6. QED
        BY <2>1, <4>3, <4>4, <4>5
    <3>3. CASE FanOut(w)
      <4>1. PICK i \in worker[w].toSend :
              worker' = [worker EXCEPT
                ![w].toSend = worker[w].toSend \ {i},
                ![w].pc = IF worker[w].toSend = {i} THEN "ack" ELSE "fanout"]
        BY <3>3 DEF FanOut
      <4>2. \A v \in Workers : /\ worker'[v].toSend \subseteq worker[v].toSend
                               /\ worker'[v].job = worker[v].job
        BY <1>0, <4>1 DEF TypeOK, Task
      <4>3. QED
        BY <2>1, <4>2
    <3>4. CASE \/ OpenDraft(w) \/ Refresh(w) \/ FailRun(w) \/ Retry(w) \/ Bury(w)
               \/ StartItem(w) \/ LoadRun(w) \/ CompleteItem(w) \/ MarkItemFailed(w)
               \/ ReloadRun(w) \/ CountItems(w) \/ SaveRun(w)
      BY <1>0, <2>1, <3>4, StepsKeepTheJob
    <3>5. QED
      BY <2>2, <3>1, <3>2, <3>3, <3>4 DEF Step
  <2>3. CASE worker' = worker
    BY <2>1, <2>3
  <2>4. QED
    BY <2>2, <2>3 DEF Next, Begin, EnqueueDraft, Start, SendItem, ApiCrash, RemoveItem,
         Resend, Restore, Drain
<1>6. QED
  BY <1>4, <1>5

LEMMA NextTypeInv ==
  ASSUME ConstantsAssumption, TypeInv, [Next]_vars
  PROVE  TypeInv'
<1>1. CASE Next
  <2>1. TypeOK' /\ TasksShaped'
    <3>1. ASSUME NEW r \in Runs,
                 Begin(r) \/ EnqueueDraft(r) \/ Start(r) \/ SendItem(r) \/ ApiCrash(r)
          PROVE  TypeOK' /\ TasksShaped'
      <4>1. worker' = worker
        BY <3>1 DEF Begin, EnqueueDraft, Start, SendItem, ApiCrash
      <4>2. QED
        BY <3>1, <4>1, RequestStepsTyped DEF TypeInv, TasksShaped
    <3>2. CASE \/ \E i \in Items : RemoveItem(i)
               \/ \E j \in Jobs : Resend(j) \/ \E n \in Retries : Restore(j, n)
               \/ Drain
      <4>1. worker' = worker
        BY <3>2 DEF RemoveItem, Resend, Restore, Drain
      <4>2. QED
        BY <3>2, <4>1, EnvironmentStepsTyped DEF TypeInv, TasksShaped
    <3>3. QED
      BY <1>1, <3>1, <3>2, ReceiveAndCrashTyped, TaskStepsTyped, DraftStepsTyped,
         ItemStepsTyped DEF Next, Step
  <2>2. SentIsCommitted'
    <3>1. ASSUME NEW i \in Items, Outstanding(i)' PROVE item'[i] # "absent"
      <4>1. i \in Jobs /\ i \notin Runs
        BY DEF Jobs, ConstantsAssumption
      <4>2. QED
        BY <1>1, <3>1, <4>1, NothingIsMadeUp, CommittedStays DEF TypeInv, SentIsCommitted
    <3>2. ASSUME NEW r \in Runs, Outstanding(r)' PROVE request'[r] = "done"
      <4>1. r \in Jobs /\ r \notin Items
        BY DEF Jobs, ConstantsAssumption
      <4>2. QED
        BY <1>1, <3>2, <4>1, NothingIsMadeUp, CommittedStays DEF TypeInv, SentIsCommitted
    <3>3. QED
      BY <1>1, <3>1, <3>2, ListsHoldItemsOfTheirRun DEF SentIsCommitted
  <2>3. QED
    BY <1>1, <2>1, <2>2, ItemsKeepRuns DEF TypeInv
<1>2. CASE UNCHANGED vars
  BY <1>2 DEF TypeInv, TypeOK, TasksShaped, ItemsHaveRuns, SentIsCommitted, Outstanding,
       InRequest, InFanOut, InQueue, InLimbo, InLetters, InReplay, Job, ItemsOf, vars, rows,
       requests, broker, letters, bounds
<1>3. QED
  BY <1>1, <1>2

\* TypeInv is an invariant: every variable keeps its type, a task is at a point of its
\* own kind, and what is sent was committed before.
LEMMA TypeInvariant == ASSUME ConstantsAssumption PROVE Spec => []TypeInv
<1>1. Init => TypeInv
  BY InitTypeInv
<1>2. TypeInv /\ [Next]_vars => TypeInv'
  BY NextTypeInv
<1>3. QED
  BY <1>1, <1>2, PTL DEF Spec

\* Every variable keeps its type, whatever the environment does.
THEOREM TypeCorrect == ASSUME ConstantsAssumption PROVE Spec => []TypeOK
<1>1. TypeInv => TypeOK
  BY DEF TypeInv
<1>2. QED
  BY <1>1, TypeInvariant, PTL

-----------------------------------------------------------------------------
(* One delivery per job.  As long as nothing makes a worker repeat what it *)
(* already sent, a job is at one place, once.                              *)

\* Nowhere twice, and not at two places.
Once(j) ==
  /\ \A r, s \in Runs : j \in unsent[r] /\ j \in unsent[s] => r = s
  /\ \A v, w \in Workers : j \in worker[v].toSend /\ j \in worker[w].toSend => v = w
  /\ \A v, w \in Workers : Doing(v, j) /\ Doing(w, j) => v = w
  /\ \A m, n \in Retries : ready[j][m] > 0 /\ ready[j][n] > 0 => m = n /\ ready[j][n] = 1
  /\ \A m, n \in Retries : unacked[j][m] > 0 /\ unacked[j][n] > 0 => m = n /\ unacked[j][n] = 1
  /\ deadLetter[j] <= 1 /\ replaying[j] <= 1
  /\ InRequest(j) => ~(InFanOut(j) \/ InTask(j) \/ InQueue(j) \/ InLimbo(j) \/ InLetters(j)
                       \/ InReplay(j))
  /\ InFanOut(j)  => ~(InTask(j) \/ InQueue(j) \/ InLimbo(j) \/ InLetters(j) \/ InReplay(j))
  /\ InTask(j)    => ~(InQueue(j) \/ InLimbo(j) \/ InLetters(j) \/ InReplay(j))
  /\ InQueue(j)   => ~(InLimbo(j) \/ InLetters(j) \/ InReplay(j))
  /\ InLimbo(j)   => ~(InLetters(j) \/ InReplay(j))
  /\ InLetters(j) => ~InReplay(j)

\* Who has less to do has nothing twice.
LEMMA LessIsOnce ==
  ASSUME TypeInv, TypeInv', NEW j \in Jobs, Once(j),
         \A r \in Runs : j \in unsent'[r] => j \in unsent[r],
         \A w \in Workers : j \in worker'[w].toSend => j \in worker[w].toSend,
         \A w \in Workers : Doing(w, j)' => Doing(w, j),
         \A n \in Retries : ready'[j][n] <= ready[j][n],
         \A n \in Retries : unacked'[j][n] <= unacked[j][n],
         deadLetter'[j] <= deadLetter[j], replaying'[j] <= replaying[j]
  PROVE  Once(j)'
<1>1. /\ \A n \in Retries : ready[j][n] \in Nat /\ ready'[j][n] \in Nat
      /\ \A n \in Retries : unacked[j][n] \in Nat /\ unacked'[j][n] \in Nat
      /\ deadLetter[j] \in Nat /\ deadLetter'[j] \in Nat
      /\ replaying[j] \in Nat /\ replaying'[j] \in Nat
  BY DEF TypeInv, TypeOK
<1>2. /\ InRequest(j)' => InRequest(j)
      /\ InFanOut(j)' => InFanOut(j)
      /\ InTask(j)' => InTask(j)
      /\ InQueue(j)' => InQueue(j)
      /\ InLimbo(j)' => InLimbo(j)
      /\ InLetters(j)' => InLetters(j)
      /\ InReplay(j)' => InReplay(j)
  BY <1>1 DEF InRequest, InFanOut, InTask, InQueue, InLimbo, InLetters, InReplay
<1>3. /\ \A m, n \in Retries : ready'[j][m] > 0 /\ ready'[j][n] > 0 => m = n /\ ready'[j][n] = 1
      /\ \A m, n \in Retries : unacked'[j][m] > 0 /\ unacked'[j][n] > 0 => m = n /\ unacked'[j][n] = 1
      /\ deadLetter'[j] <= 1 /\ replaying'[j] <= 1
  BY <1>1 DEF Once
<1>4. /\ \A r, s \in Runs : j \in unsent'[r] /\ j \in unsent'[s] => r = s
      /\ \A v, w \in Workers : j \in worker'[v].toSend /\ j \in worker'[w].toSend => v = w
      /\ \A v, w \in Workers : Doing(v, j)' /\ Doing(w, j)' => v = w
  BY DEF Once
<1>5. QED
  BY <1>2, <1>3, <1>4 DEF Once

\* A job that was at one place and is now in the queue is there once.
LEMMA QueuedOnce ==
  ASSUME TypeInv, TypeInv', NEW j \in Jobs, NEW n \in Retries,
         ready' = Plus(ready, j, n), ~InQueue(j),
         ~(InRequest(j)' \/ InFanOut(j)' \/ InTask(j)' \/ InLimbo(j)' \/ InLetters(j)'
           \/ InReplay(j)')
  PROVE  Once(j)'
<1>1. /\ \A m \in Retries : ready[j][m] = 0 /\ ready'[j][m] = IF m = n THEN 1 ELSE 0
      /\ \A m \in Retries : unacked'[j][m] \in Nat
      /\ deadLetter'[j] \in Nat /\ replaying'[j] \in Nat
  BY DEF TypeInv, TypeOK, InQueue, Plus
<1>2. QED
  BY <1>1 DEF Once, InRequest, InFanOut, InTask, InLimbo, InLetters, InReplay

\* What a request sends is not sent by anybody else.
LEMMA RequestsSendOnce ==
  ASSUME ConstantsAssumption, TypeInv, TypeInv', NEW j \in Jobs, Once(j), NEW r \in Runs,
         Begin(r) \/ EnqueueDraft(r) \/ Start(r) \/ SendItem(r) \/ ApiCrash(r)
  PROVE  Once(j)'
<1> USE DEF rows, requests, broker, letters, bounds
<1>0. /\ TypeOK /\ 0 \in Retries
      /\ \A n \in Retries : ready[j][n] \in Nat /\ unacked[j][n] \in Nat
      /\ deadLetter[j] \in Nat /\ replaying[j] \in Nat
  BY IdleTaskIsTask DEF TypeInv, TypeOK
<1>1. CASE Begin(r) \/ ApiCrash(r)
  <2>1. /\ worker' = worker /\ ready' = ready /\ unacked' = unacked
        /\ deadLetter' = deadLetter /\ replaying' = replaying
        /\ \A s \in Runs : unsent'[s] \subseteq unsent[s]
    BY <1>0, <1>1 DEF Begin, ApiCrash, TypeOK
  <2>2. QED
    BY <1>0, <2>1, LessIsOnce DEF Doing, At, Job
<1>2. CASE EnqueueDraft(r)
  <2>1. /\ unsent' = unsent /\ worker' = worker /\ unacked' = unacked
        /\ deadLetter' = deadLetter /\ replaying' = replaying
        /\ ready' = Plus(ready, r, 0) /\ request[r] # "done" /\ r \in Jobs
    BY <1>2 DEF EnqueueDraft, Jobs
  <2>2. CASE j = r
    <3>1. ~Outstanding(j)
      BY <2>1, <2>2 DEF TypeInv, SentIsCommitted
    <3>2. ~InQueue(j)
      BY <3>1 DEF Outstanding
    <3>3. ~(InRequest(j)' \/ InFanOut(j)' \/ InTask(j)' \/ InLimbo(j)' \/ InLetters(j)'
            \/ InReplay(j)')
      BY <2>1, <3>1 DEF Outstanding, InRequest, InFanOut, InTask, InLimbo, InLetters, InReplay,
                        Doing, Job
    <3>4. QED
      BY <1>0, <2>1, <2>2, <3>2, <3>3, QueuedOnce
  <2>3. CASE j # r
    <3>1. \A n \in Retries : ready'[j][n] = ready[j][n]
      BY <1>0, <2>1, <2>3 DEF Plus, TypeOK
    <3>2. QED
      BY <1>0, <2>1, <3>1, LessIsOnce DEF Doing, At, Job
  <2>4. QED
    BY <2>2, <2>3
<1>3. CASE Start(r)
  <2>1. PICK S \in FreshItems : CreateItems(r, S) /\ unsent' = [unsent EXCEPT ![r] = S]
    BY <1>3 DEF Start
  <2>2. /\ worker' = worker /\ unacked' = unacked /\ ready' = ready
        /\ deadLetter' = deadLetter /\ replaying' = replaying
    BY <1>3 DEF Start
  <2>3. CASE j \in S
    <3>1. ~Outstanding(j)
      BY <2>3 DEF TypeInv, SentIsCommitted, FreshItems
    <3>2. \A s \in Runs : j \in unsent'[s] => s = r
      BY <1>0, <2>1, <3>1 DEF Outstanding, InRequest, TypeOK
    <3>3. ~(InFanOut(j)' \/ InTask(j)' \/ InQueue(j)' \/ InLimbo(j)' \/ InLetters(j)'
            \/ InReplay(j)')
      BY <2>2, <3>1 DEF Outstanding, InFanOut, InTask, InQueue, InLimbo, InLetters, InReplay,
                        Doing, Job
    <3>4. QED
      BY <1>0, <2>2, <3>2, <3>3 DEF Once, InFanOut, InTask, InQueue, InLimbo, InLetters, InReplay
  <2>4. CASE j \notin S
    <3>1. \A s \in Runs : j \in unsent'[s] => j \in unsent[s]
      BY <1>0, <2>1, <2>4 DEF TypeOK
    <3>2. \A w \in Workers : Doing(w, j)' => Doing(w, j)
      BY <2>2 DEF Doing, At, Job
    <3>3. /\ \A n \in Retries : ready'[j][n] <= ready[j][n] /\ unacked'[j][n] <= unacked[j][n]
          /\ deadLetter'[j] <= deadLetter[j] /\ replaying'[j] <= replaying[j]
      BY <1>0, <2>2 DEF TypeOK
    <3>4. QED
      BY <1>0, <2>2, <3>1, <3>2, <3>3, LessIsOnce
  <2>5. QED
    BY <2>3, <2>4
<1>4. CASE SendItem(r)
  <2>1. PICK i \in unsent[r] :
          ready' = Plus(ready, i, 0) /\ unsent' = [unsent EXCEPT ![r] = @ \ {i}]
    BY <1>4 DEF SendItem
  <2>2. /\ worker' = worker /\ unacked' = unacked
        /\ deadLetter' = deadLetter /\ replaying' = replaying
        /\ \A s \in Runs : unsent'[s] = IF s = r THEN unsent[r] \ {i} ELSE unsent[s]
    BY <1>0, <1>4, <2>1 DEF SendItem, TypeOK
  <2>3. CASE j = i
    <3>1. InRequest(j)
      BY <2>1, <2>3 DEF InRequest
    <3>2. ~(InFanOut(j) \/ InTask(j) \/ InQueue(j) \/ InLimbo(j) \/ InLetters(j) \/ InReplay(j))
      BY <3>1 DEF Once
    <3>3. ~InRequest(j)'
      BY <2>1, <2>2, <2>3 DEF Once, InRequest
    <3>4. ~(InFanOut(j)' \/ InTask(j)' \/ InLimbo(j)' \/ InLetters(j)' \/ InReplay(j)')
      BY <2>2, <3>2 DEF InFanOut, InTask, InLimbo, InLetters, InReplay, Doing, Job, At
    <3>5. QED
      BY <1>0, <2>1, <2>3, <3>2, <3>3, <3>4, QueuedOnce
  <2>4. CASE j # i
    <3>1. \A n \in Retries : ready'[j][n] = ready[j][n]
      BY <1>0, <2>1, <2>4 DEF Plus, TypeOK
    <3>2. QED
      BY <1>0, <2>2, <2>4, <3>1, LessIsOnce DEF Doing, At, Job
  <2>5. QED
    BY <2>3, <2>4
<1>5. QED
  BY <1>1, <1>2, <1>3, <1>4

\* A message, a dead letter or an entry of the replay is handed on, never copied.
LEMMA EnvironmentHandsOnOnce ==
  ASSUME ConstantsAssumption, TypeInv, TypeInv', NEW j \in Jobs, Once(j),
         \/ \E i \in Items : RemoveItem(i)
         \/ \E k \in Jobs : Resend(k) \/ \E n \in Retries : Restore(k, n)
         \/ Drain
  PROVE  Once(j)'
<1> USE DEF rows, requests, broker, letters, bounds
<1>0. /\ TypeOK /\ 0 \in Retries
      /\ \A n \in Retries : ready[j][n] \in Nat /\ unacked[j][n] \in Nat
      /\ deadLetter[j] \in Nat /\ replaying[j] \in Nat
  BY IdleTaskIsTask DEF TypeInv, TypeOK
<1>1. CASE \E i \in Items : RemoveItem(i)
  BY <1>0, <1>1, LessIsOnce DEF RemoveItem, Doing, At, Job
<1>2. ASSUME NEW k \in Jobs, Resend(k) PROVE Once(j)'
  <2>1. /\ unsent' = unsent /\ worker' = worker /\ unacked' = unacked
        /\ deadLetter' = deadLetter /\ replaying[k] > 0
        /\ ready' = Plus(ready, k, 0)
        /\ replaying'[j] = IF j = k THEN replaying[j] - 1 ELSE replaying[j]
    BY <1>0, <1>2 DEF Resend, TypeOK
  <2>2. CASE j = k
    <3>1. ~(InRequest(j) \/ InFanOut(j) \/ InTask(j) \/ InQueue(j) \/ InLimbo(j)
            \/ InLetters(j))
      BY <2>1, <2>2 DEF Once, InReplay
    <3>2. ~(InRequest(j)' \/ InFanOut(j)' \/ InTask(j)' \/ InLimbo(j)' \/ InLetters(j)')
      BY <2>1, <3>1 DEF InRequest, InFanOut, InTask, InLimbo, InLetters, Doing, Job, At
    <3>3. ~InReplay(j)'
      BY <1>0, <2>1, <2>2 DEF Once, InReplay
    <3>4. QED
      BY <1>0, <2>1, <2>2, <3>1, <3>2, <3>3, QueuedOnce
  <2>3. CASE j # k
    <3>1. \A n \in Retries : ready'[j][n] = ready[j][n]
      BY <1>0, <2>1, <2>3 DEF Plus, TypeOK
    <3>2. QED
      BY <1>0, <2>1, <2>3, <3>1, LessIsOnce DEF Doing, At, Job
  <2>4. QED
    BY <2>2, <2>3
<1>3. ASSUME NEW k \in Jobs, NEW n \in Retries, Restore(k, n) PROVE Once(j)'
  <2>1. /\ unsent' = unsent /\ worker' = worker /\ replaying' = replaying
        /\ deadLetter' = deadLetter /\ unacked[k][n] > 0
        /\ ready' = Plus(ready, k, n)
        /\ \A m \in Retries : unacked'[j][m] =
             IF j = k /\ m = n THEN unacked[j][m] - 1 ELSE unacked[j][m]
    BY <1>0, <1>3 DEF Restore, Minus, TypeOK
  <2>2. CASE j = k
    <3>1. ~(InRequest(j) \/ InFanOut(j) \/ InTask(j) \/ InQueue(j) \/ InLetters(j)
            \/ InReplay(j))
      BY <2>1, <2>2 DEF Once, InLimbo
    <3>2. ~(InRequest(j)' \/ InFanOut(j)' \/ InTask(j)' \/ InLetters(j)' \/ InReplay(j)')
      BY <2>1, <3>1 DEF InRequest, InFanOut, InTask, InReplay, InLetters, Doing, Job, At
    <3>3. ~InLimbo(j)'
      BY <1>0, <2>1, <2>2 DEF Once, InLimbo
    <3>4. QED
      BY <1>0, <2>1, <2>2, <3>1, <3>2, <3>3, QueuedOnce
  <2>3. CASE j # k
    <3>1. \A m \in Retries : ready'[j][m] = ready[j][m]
      BY <1>0, <2>1, <2>3 DEF Plus, TypeOK
    <3>2. QED
      BY <1>0, <2>1, <2>3, <3>1, LessIsOnce DEF Doing, At, Job
  <2>4. QED
    BY <2>2, <2>3
<1>4. CASE Drain
  <2>1. /\ unsent' = unsent /\ worker' = worker /\ ready' = ready /\ unacked' = unacked
        /\ replaying'[j] = replaying[j] + deadLetter[j] /\ deadLetter'[j] = 0
    BY <1>4 DEF Drain
  <2>2. CASE InLetters(j)
    <3>1. ~(InRequest(j) \/ InFanOut(j) \/ InTask(j) \/ InQueue(j) \/ InLimbo(j)
            \/ InReplay(j))
      BY <2>2 DEF Once
    <3>2. ~(InRequest(j)' \/ InFanOut(j)' \/ InTask(j)' \/ InQueue(j)' \/ InLimbo(j)')
      BY <2>1, <3>1 DEF InRequest, InFanOut, InTask, InQueue, InLimbo, Doing, Job, At
    <3>3. replaying'[j] <= 1
      BY <1>0, <2>1, <3>1 DEF Once, InReplay
    <3>4. QED
      BY <1>0, <2>1, <3>2, <3>3
         DEF Once, InRequest, InFanOut, InTask, InQueue, InLimbo, InLetters
  <2>3. CASE ~InLetters(j)
    BY <1>0, <2>1, <2>3, LessIsOnce DEF InLetters, Doing, At, Job
  <2>4. QED
    BY <2>2, <2>3
<1>5. QED
  BY <1>1, <1>2, <1>3, <1>4

\* A worker that takes a message, hands its job on or gives it up does not keep it too.  Only
\* a task that dies after it sent its outcome, or after its roadmap went out, repeats it.
LEMMA WorkersHandOnOnce ==
  ASSUME ConstantsAssumption, TypeInv, TypeInv', NEW j \in Jobs, Once(j),
         NEW w \in Workers, Receive(w) \/ Step(w) \/ Crash(w),
         j \in Runs => "roadmap_failure" \notin Faults,
         j \in Items => "worker_crash" \notin Faults
  PROVE  Once(j)'
<1> USE DEF rows, requests, broker, letters, bounds
<1>0. /\ TypeOK /\ 0 \in Retries
      /\ worker[w] \in Task /\ Shaped(worker[w])
      /\ \A n \in Retries : ready[j][n] \in Nat /\ unacked[j][n] \in Nat
      /\ deadLetter[j] \in Nat /\ replaying[j] \in Nat
      /\ Runs \cap Items = {}
  BY IdleTaskIsTask DEF TypeInv, TypeOK, TasksShaped, ConstantsAssumption
<1>1. CASE Receive(w)
  <2>1. PICK k \in Jobs, n \in Retries :
          /\ ready[k][n] > 0
          /\ ready' = Minus(ready, k, n)
          /\ worker' = [worker EXCEPT ![w] =
               [IdleTask EXCEPT !.pc = "received", !.job = k, !.retries = n]]
    BY Zenon, <1>1 DEF Receive
  <2>2. /\ unsent' = unsent /\ unacked' = unacked
        /\ deadLetter' = deadLetter /\ replaying' = replaying
        /\ \A m \in Retries : ready'[j][m] =
             IF j = k /\ m = n THEN ready[j][m] - 1 ELSE ready[j][m]
    BY ZenonT(60), <1>0, <1>1, <2>1 DEF Receive, Minus, TypeOK
  <2>3. /\ worker'[w].job = k /\ worker'[w].pc = "received" /\ worker'[w].toSend = {}
        /\ \A v \in Workers \ {w} : worker'[v] = worker[v]
    BY <1>0, <2>1 DEF TypeOK, IdleTask
  <2>4. CASE j = k
    <3>1. ~(InRequest(j) \/ InFanOut(j) \/ InTask(j) \/ InLimbo(j) \/ InLetters(j)
            \/ InReplay(j))
      BY <2>1, <2>4 DEF Once, InQueue
    <3>2. ~(InRequest(j)' \/ InFanOut(j)' \/ InLimbo(j)' \/ InLetters(j)' \/ InReplay(j)')
      BY <2>2, <2>3, <3>1 DEF InRequest, InFanOut, InLimbo, InLetters, InReplay
    <3>3. \A v \in Workers : Doing(v, j)' => v = w
      BY <2>3, <3>1 DEF InTask, Doing, Job, At
    <3>4. ~InQueue(j)'
      BY <1>0, <2>1, <2>2, <2>4 DEF Once, InQueue
    <3>5. QED
      BY <1>0, <2>2, <3>2, <3>3, <3>4
         DEF Once, InRequest, InFanOut, InQueue, InLimbo, InLetters, InReplay
  <2>5. CASE j # k
    BY <1>0, <2>2, <2>3, <2>5, LessIsOnce DEF Doing, At, Job
  <2>6. QED
    BY <2>4, <2>5
<1>2. CASE Crash(w)
  <2>1. /\ Job(w) \in Jobs /\ worker[w].retries \in Retries /\ ~At(w, "idle")
        /\ unacked' = Plus(unacked, Job(w), worker[w].retries)
        /\ worker' = [worker EXCEPT ![w] = IdleTask]
        /\ unsent' = unsent /\ ready' = ready
        /\ deadLetter' = deadLetter /\ replaying' = replaying
    BY <1>0, <1>2 DEF Crash, At, Job, Shaped, Task
  <2>2. /\ worker'[w] = IdleTask /\ worker'[w].toSend = {} /\ worker'[w].job = NoJob
        /\ NoJob \notin Jobs
        /\ \A v \in Workers \ {w} : worker'[v] = worker[v]
    BY <1>0, <2>1, IdleTaskIsTask DEF TypeOK
  <2>3. CASE j = Job(w)
    <3>1. Doing(w, j) /\ j \notin Items
      BY <1>0, <1>2, <2>1, <2>3 DEF Crash, RoadmapIsOut, Drafting, Doing, At, Job, Jobs
    <3>2. ~(InRequest(j) \/ InFanOut(j) \/ InQueue(j) \/ InLimbo(j) \/ InLetters(j)
            \/ InReplay(j))
      BY <3>1 DEF Once, InTask
    <3>3. ~(InRequest(j)' \/ InFanOut(j)' \/ InQueue(j)' \/ InLetters(j)' \/ InReplay(j)')
      BY <2>1, <2>2, <3>2 DEF InRequest, InFanOut, InQueue, InLetters, InReplay
    <3>4. ~InTask(j)'
      BY <2>2, <3>1 DEF Once, InTask, Doing, Job, At
    <3>5. \A n \in Retries : unacked[j][n] = 0 /\
            unacked'[j][n] = IF n = worker[w].retries THEN 1 ELSE 0
      BY <1>0, <2>1, <2>3, <3>2 DEF InLimbo, Plus, TypeOK
    <3>6. QED
      BY <1>0, <2>1, <3>3, <3>4, <3>5
         DEF Once, InRequest, InFanOut, InTask, InQueue, InLetters, InReplay
  <2>4. CASE j # Job(w)
    <3>1. \A n \in Retries : unacked'[j][n] = unacked[j][n]
      BY <1>0, <2>1, <2>4 DEF Plus, TypeOK
    <3>2. QED
      BY <1>0, <2>1, <2>2, <3>1, LessIsOnce DEF Doing, At, Job
  <2>5. QED
    BY <2>3, <2>4
<1>3. CASE Materialize(w)
  <2>1. PICK S \in FreshItems :
          /\ CreateItems(Job(w), S)
          /\ worker' = [worker EXCEPT ![w].pc = "refresh", ![w].seen = "absent",
                                      ![w].toSend = S]
    BY <1>3 DEF Materialize
  <2>2. /\ unsent' = unsent /\ ready' = ready /\ unacked' = unacked
        /\ deadLetter' = deadLetter /\ replaying' = replaying
        /\ worker[w].pc = "draft" /\ worker[w].toSend = {}
    BY <1>0, <1>3 DEF Materialize, At, Shaped
  <2>3. /\ worker'[w].toSend = S /\ worker'[w].job = worker[w].job /\ worker'[w].pc = "refresh"
        /\ \A v \in Workers \ {w} : worker'[v] = worker[v]
    BY <1>0, <2>1 DEF TypeOK, Task
  <2>4. CASE j \in S
    <3>1. ~Outstanding(j)
      BY <2>4 DEF TypeInv, SentIsCommitted, FreshItems
    <3>2. \A v \in Workers : j \in worker'[v].toSend => v = w
      BY <2>3, <3>1 DEF Outstanding, InFanOut
    <3>3. ~(InRequest(j)' \/ InTask(j)' \/ InQueue(j)' \/ InLimbo(j)' \/ InLetters(j)'
            \/ InReplay(j)')
      BY <2>2, <2>3, <3>1 DEF Outstanding, InRequest, InTask, InQueue, InLimbo, InLetters,
           InReplay, Doing, Job
    <3>4. QED
      BY <1>0, <2>2, <3>2, <3>3 DEF Once, InRequest, InTask, InQueue, InLimbo, InLetters, InReplay
  <2>5. CASE j \notin S
    BY <1>0, <2>2, <2>3, <2>5, LessIsOnce DEF Doing, At, Job
  <2>6. QED
    BY <2>4, <2>5
<1>4. CASE FanOut(w)
  <2>1. PICK i \in worker[w].toSend :
          /\ ready' = Plus(ready, i, 0)
          /\ worker' = [worker EXCEPT
               ![w].toSend = worker[w].toSend \ {i},
               ![w].pc = IF worker[w].toSend = {i} THEN "ack" ELSE "fanout"]
    BY <1>4 DEF FanOut
  <2>2. /\ unsent' = unsent /\ unacked' = unacked
        /\ deadLetter' = deadLetter /\ replaying' = replaying
        /\ worker[w].pc = "fanout"
    BY <1>4 DEF FanOut, At
  <2>3. /\ worker'[w].toSend = worker[w].toSend \ {i} /\ worker'[w].job = worker[w].job
        /\ \A v \in Workers \ {w} : worker'[v] = worker[v]
    BY <1>0, <2>1 DEF TypeOK, Task
  <2>4. CASE j = i
    <3>1. InFanOut(j)
      BY <2>1, <2>4 DEF InFanOut
    <3>2. ~(InRequest(j) \/ InTask(j) \/ InQueue(j) \/ InLimbo(j) \/ InLetters(j) \/ InReplay(j))
      BY <3>1 DEF Once
    <3>3. ~InFanOut(j)'
      BY <2>1, <2>3, <2>4 DEF Once, InFanOut
    <3>4. ~(InRequest(j)' \/ InTask(j)' \/ InLimbo(j)' \/ InLetters(j)' \/ InReplay(j)')
      BY <2>2, <2>3, <3>2 DEF InRequest, InTask, InLimbo, InLetters, InReplay, Doing, Job, At
    <3>5. QED
      BY <1>0, <2>1, <2>4, <3>2, <3>3, <3>4, QueuedOnce
  <2>5. CASE j # i
    <3>1. \A n \in Retries : ready'[j][n] = ready[j][n]
      BY <1>0, <2>1, <2>5 DEF Plus, TypeOK
    <3>2. QED
      BY <1>0, <2>2, <2>3, <3>1, LessIsOnce DEF Doing, At, Job
  <2>6. QED
    BY <2>4, <2>5
<1>5. CASE Retry(w) \/ Bury(w)
  <2>1. /\ worker[w].pc \in {"settle", "bury"} /\ Job(w) \in Jobs
        /\ worker' = [worker EXCEPT ![w].pc = "ack"]
        /\ unsent' = unsent /\ unacked' = unacked /\ replaying' = replaying
    BY <1>0, <1>5 DEF Retry, Bury, Goto, At, Job, Shaped
  <2>2. /\ worker'[w].pc = "ack" /\ worker'[w].toSend = worker[w].toSend
        /\ \A v \in Workers \ {w} : worker'[v] = worker[v]
    BY <1>0, <2>1 DEF TypeOK, Task
  <2>3. CASE j = Job(w)
    <3>1. Doing(w, j)
      BY <2>1, <2>3 DEF Doing, At
    <3>2. ~(InRequest(j) \/ InFanOut(j) \/ InQueue(j) \/ InLimbo(j) \/ InLetters(j)
            \/ InReplay(j))
      BY <3>1 DEF Once, InTask
    <3>3. ~(InRequest(j)' \/ InFanOut(j)' \/ InLimbo(j)' \/ InReplay(j)')
      BY <2>1, <2>2, <3>2 DEF InRequest, InFanOut, InLimbo, InReplay
    <3>4. ~InTask(j)'
      BY <2>2, <3>1 DEF Once, InTask, Doing, Job, At
    <3>5. CASE Retry(w)
      <4>1. worker[w].retries + 1 \in Retries /\ ~InLetters(j)'
        BY <1>0, <3>2, <3>5 DEF Retry, Retries, Task, ConstantsAssumption, InLetters
      <4>2. QED
        BY <1>0, <2>3, <3>2, <3>3, <3>4, <3>5, <4>1, QueuedOnce DEF Retry
    <3>6. CASE Bury(w)
      <4>1. ready' = ready /\ deadLetter[j] = 0 /\ deadLetter'[j] = 1
        BY <1>0, <2>3, <3>2, <3>6 DEF Bury, InLetters, TypeOK
      <4>2. ~InQueue(j)'
        BY <3>2, <4>1 DEF InQueue
      <4>3. QED
        BY <1>0, <2>1, <3>3, <3>4, <4>1, <4>2
           DEF Once, InRequest, InFanOut, InTask, InQueue, InLimbo, InReplay
    <3>7. QED
      BY <1>5, <3>5, <3>6
  <2>4. CASE j # Job(w)
    <3>1. (\A n \in Retries : ready'[j][n] = ready[j][n]) /\ deadLetter'[j] = deadLetter[j]
      BY <1>0, <1>5, <2>4 DEF Retry, Bury, Plus, TypeOK
    <3>2. \A v \in Workers : Doing(v, j)' => Doing(v, j)
      BY <2>2 DEF Doing, At, Job
    <3>3. QED
      BY <1>0, <2>1, <2>2, <3>1, <3>2, LessIsOnce
  <2>5. QED
    BY <2>3, <2>4
<1>6. CASE \/ OpenDraft(w) \/ Refresh(w) \/ FailRun(w) \/ StartItem(w) \/ LoadRun(w)
           \/ CompleteItem(w) \/ MarkItemFailed(w) \/ ReloadRun(w) \/ CountItems(w)
           \/ SaveRun(w)
  <2>1. /\ unsent' = unsent /\ ready' = ready /\ unacked' = unacked
        /\ deadLetter' = deadLetter /\ replaying' = replaying
        /\ worker[w].pc # "ack"
    BY <1>6 DEF OpenDraft, Refresh, FailRun, StartItem, LoadRun, CompleteItem,
         MarkItemFailed, ReloadRun, CountItems, SaveRun, At
  <2>2. QED
    BY <1>0, <1>6, <2>1, StepsKeepTheJob, LessIsOnce DEF Doing, At, Job
<1>7. CASE Fail(w) \/ LoseOutcome(w) \/ Ack(w)
  <2>1. /\ unsent' = unsent /\ ready' = ready /\ unacked' = unacked
        /\ deadLetter' = deadLetter /\ replaying' = replaying
    BY <1>7 DEF Fail, LoseOutcome, Ack
  <2>2. /\ worker'[w].toSend = {}
        /\ worker'[w].job = j /\ worker'[w].pc # "ack" =>
             worker[w].job = j /\ worker[w].pc # "ack"
        /\ \A v \in Workers \ {w} : worker'[v] = worker[v]
    <3>1. CASE Fail(w)
      BY <1>0, <3>1 DEF Fail, Attempting, Late, IdleTask, TypeOK, Job
    <3>2. CASE LoseOutcome(w)
      BY <1>0, <3>2 DEF LoseOutcome, IdleTask, TypeOK, Job
    <3>3. CASE Ack(w)
      BY <1>0, <3>3, IdleTaskIsTask DEF Ack, TypeOK
    <3>4. QED
      BY <1>7, <3>1, <3>2, <3>3
  <2>3. \A v \in Workers : worker'[v].toSend \subseteq worker[v].toSend
    BY <2>2
  <2>4. \A v \in Workers : Doing(v, j)' => Doing(v, j)
    BY <2>2 DEF Doing, At, Job
  <2>5. QED
    BY <1>0, <2>1, <2>3, <2>4, LessIsOnce
<1>8. QED
  BY <1>1, <1>2, <1>3, <1>4, <1>5, <1>6, <1>7 DEF Step

LEMMA InitOnce ==
  ASSUME ConstantsAssumption, Init, NEW j \in Jobs
  PROVE  Once(j)
BY IdleTaskIsTask DEF Init, Once, InRequest, InFanOut, InTask, InQueue, InLimbo, InLetters,
   InReplay, Doing, Job

LEMMA NextOnce ==
  ASSUME ConstantsAssumption, TypeInv, [Next]_vars, NEW j \in Jobs, Once(j),
         j \in Runs => "roadmap_failure" \notin Faults,
         j \in Items => "worker_crash" \notin Faults
  PROVE  Once(j)'
<1>1. TypeInv'
  BY NextTypeInv
<1>2. CASE Next
  BY <1>1, <1>2, RequestsSendOnce, EnvironmentHandsOnOnce, WorkersHandOnOnce DEF Next
<1>3. CASE UNCHANGED vars
  BY <1>3 DEF Once, InRequest, InFanOut, InTask, InQueue, InLimbo, InLetters, InReplay,
     Doing, Job, At, vars
<1>4. QED
  BY <1>2, <1>3

-----------------------------------------------------------------------------
(* One roadmap per run.  Unless a worker, or its database, fails with the  *)
(* roadmap of its task already out, no task drafts a run that has items.   *)

DraftedOnce == \A r \in Runs : Once(r)

\* A run has a status of one that has items exactly when it has some, and then nobody
\* drafts it any more.
Planned(r) ==
  /\ ItemsOf(r) # {} =>
       /\ run[r] \in {"RUNNING", "COMPLETED", "PARTIAL"}
       /\ request[r] \in {"fanout", "done", "crashed"}
       /\ ~InQueue(r) /\ ~InLimbo(r) /\ ~InLetters(r) /\ ~InReplay(r)
       /\ \A w \in Workers : Job(w) = r => worker[w].pc \in {"refresh", "fanout", "ack"}
  /\ ItemsOf(r) = {} => run[r] \in {"absent", "PLANNING", "FAILED"}
  /\ \A w \in Workers : Job(w) = r /\ At(w, "draft") =>
       worker[w].seen \in {"absent", "PLANNING", "FAILED"}
  /\ ItemsOf(r) # {} => Cardinality(ItemsOf(r)) \in RoadmapSizes

RunsPlanned == \A r \in Runs : Planned(r)

PlanInv == TypeInv /\ DraftedOnce /\ RunsPlanned

\* The items of a run change only when a roadmap of it is committed.
LEMMA ItemsOfARun ==
  ASSUME ConstantsAssumption, TypeInv, Next, NEW r \in Runs
  PROVE  \/ ItemsOf(r)' = ItemsOf(r)
         \/ Start(r)
         \/ \E w \in Workers : Materialize(w) /\ Job(w) = r
<1> USE DEF rows, requests, broker, letters, bounds
<1>1. CASE runOf' = runOf
  BY <1>1 DEF ItemsOf
<1>2. ASSUME NEW s \in Runs, NEW S \in FreshItems, CreateItems(s, S), s # r
      PROVE  ItemsOf(r)' = ItemsOf(r)
  <2>1. \A i \in S : i \in Items /\ runOf[i] = NoRun
    BY DEF FreshItems, TypeInv, ItemsHaveRuns
  <2>2. \A i \in Items : runOf'[i] = r <=> runOf[i] = r
    BY <1>2, <2>1 DEF CreateItems, ConstantsAssumption
  <2>3. QED
    BY <2>2 DEF ItemsOf
<1>3. CASE \E s \in Runs : Start(s)
  BY <1>2, <1>3 DEF Start
<1>4. CASE \E w \in Workers : Materialize(w)
  <2>1. \A w \in Workers : Materialize(w) => Job(w) \in Runs
    BY DEF Materialize, At, Job, TypeInv, TasksShaped, Shaped
  <2>2. QED
    BY Zenon, <1>2, <1>4, <2>1 DEF Materialize
<1>5. CASE ~ \/ \E s \in Runs : Start(s)
             \/ \E w \in Workers : Materialize(w)
  <2>1. runOf' = runOf
    BY ZenonT(60), <1>5 DEF Next, Begin, EnqueueDraft, SendItem, ApiCrash, RemoveItem, Receive,
       Step, Crash, Resend, Restore, Drain, OpenDraft, Refresh, FanOut, FailRun, StartItem,
       LoadRun, CompleteItem, MarkItemFailed, ReloadRun, CountItems, SaveRun, Fail, Retry, Bury,
       LoseOutcome, Ack
  <2>2. QED
    BY <1>1, <2>1
<1>6. QED
  BY <1>3, <1>4, <1>5

\* A step that leaves the items, the status and the request of a run alone, and gives its
\* drafting no new place, leaves it as planned as it was.
LEMMA StillPlanned ==
  ASSUME TypeInv, TypeInv', NEW r \in Runs, Planned(r),
         ItemsOf(r)' = ItemsOf(r), run'[r] = run[r],
         request'[r] = request[r] \/ request'[r] \in {"done", "crashed"},
         ItemsOf(r) # {} => /\ InQueue(r)' => InQueue(r)
                            /\ InLimbo(r)' => InLimbo(r)
                            /\ InLetters(r)' => InLetters(r)
                            /\ InReplay(r)' => InReplay(r),
         \A w \in Workers : Job(w)' = r =>
           \/ worker'[w] = worker[w]
           \/ /\ worker'[w].pc # "draft"
              /\ ItemsOf(r) # {} => worker'[w].pc \in {"refresh", "fanout", "ack"}
  PROVE  Planned(r)'
<1>1. ItemsOf(r) # {} => \A w \in Workers : Job(w)' = r =>
        worker'[w].pc \in {"refresh", "fanout", "ack"}
  BY DEF Planned, Job
<1>2. \A w \in Workers : Job(w)' = r /\ At(w, "draft")' =>
        worker'[w].seen \in {"absent", "PLANNING", "FAILED"}
  BY DEF Planned, Job, At
<1>3. QED
  BY <1>1, <1>2 DEF Planned

LEMMA InitPlanInv == ASSUME ConstantsAssumption, Init PROVE PlanInv
<1>1. \A r \in Runs : ItemsOf(r) = {}
  BY DEF Init, ItemsOf, ConstantsAssumption
<1>2. RunsPlanned
  BY <1>1, IdleTaskIsTask DEF Init, RunsPlanned, Planned, Job, At
<1>3. QED
  BY <1>2, InitTypeInv, InitOnce DEF PlanInv, DraftedOnce, Jobs

\* The requests leave every run planned.
LEMMA RequestsKeepPlans ==
  ASSUME ConstantsAssumption, PlanInv, TypeInv', NEW r \in Runs, NEW s \in Runs,
         Begin(s) \/ EnqueueDraft(s) \/ Start(s) \/ SendItem(s) \/ ApiCrash(s)
  PROVE  Planned(r)'
<1> USE DEF rows, requests, broker, letters, bounds
<1>0. /\ TypeInv /\ TypeOK /\ Planned(r) /\ Once(r) /\ r \in Jobs /\ r \notin Items
      /\ 0 \in Retries /\ NoRun \notin Runs
  BY IdleTaskIsTask
     DEF PlanInv, TypeInv, RunsPlanned, DraftedOnce, Jobs, ConstantsAssumption
<1>1. /\ worker' = worker /\ unacked' = unacked /\ deadLetter' = deadLetter
      /\ replaying' = replaying
  BY DEF Begin, EnqueueDraft, Start, SendItem, ApiCrash
<1>2. request[r] # "done" => ~Outstanding(r)
  BY <1>0 DEF TypeInv, SentIsCommitted
<1>3. request[r] \in {"idle", "opened"} => ItemsOf(r) = {}
  BY <1>0 DEF Planned
<1>4. CASE Begin(s)
  <2>1. ItemsOf(r)' = ItemsOf(r) /\ ready' = ready
    BY <1>4 DEF Begin, ItemsOf
  <2>2. CASE s = r
    <3>1. request[r] = "idle" /\ run'[r] = "PLANNING"
      BY <1>0, <1>4, <2>2 DEF Begin, TypeOK
    <3>2. QED
      BY <1>0, <1>1, <1>2, <1>3, <2>1, <3>1 DEF Planned, Outstanding, Job, At
  <2>3. CASE s # r
    <3>1. run'[r] = run[r] /\ request'[r] = request[r]
      BY <1>0, <1>4, <2>3 DEF Begin, TypeOK
    <3>2. QED
      BY <1>0, <1>1, <2>1, <3>1, StillPlanned
         DEF InQueue, InLimbo, InLetters, InReplay
  <2>4. QED
    BY <2>2, <2>3
<1>5. CASE EnqueueDraft(s)
  <2>1. /\ ItemsOf(r)' = ItemsOf(r) /\ run' = run
        /\ ready' = Plus(ready, s, 0) /\ s \in Jobs /\ request[s] = "opened"
        /\ request'[r] = request[r] \/ request'[r] = "done"
    BY <1>0, <1>5 DEF EnqueueDraft, ItemsOf, Jobs, TypeOK
  <2>2. ItemsOf(r) # {} => (InQueue(r)' => InQueue(r))
    <3>1. ItemsOf(r) # {} => r # s
      BY <1>3, <2>1
    <3>2. QED
      BY <1>0, <2>1, <3>1 DEF InQueue, Plus, TypeOK
  <2>3. QED
    BY <1>0, <1>1, <2>1, <2>2, StillPlanned DEF InLimbo, InLetters, InReplay
<1>6. CASE Start(s)
  <2>1. PICK S \in FreshItems : CreateItems(s, S)
    BY <1>6 DEF Start
  <2>2. ready' = ready
    BY <1>6 DEF Start
  <2>3. CASE s = r
    <3>1. /\ request[r] = "idle" /\ run'[r] = "RUNNING" /\ request'[r] = "fanout"
      BY <1>0, <1>6, <2>3 DEF Start, TypeOK
    <3>2. ItemsOf(r)' = S
      <4>1. \A i \in Items : i \notin S => runOf[i] # r
        BY <1>3, <3>1 DEF ItemsOf
      <4>2. QED
        BY <2>1, <2>3, <4>1 DEF CreateItems, FreshItems, ItemsOf
    <3>3. Cardinality(S) \in RoadmapSizes
      BY DEF FreshItems
    <3>4. ItemsOf(r)' # {}
      BY <3>2, <3>3, FS_EmptySet DEF ConstantsAssumption
    <3>5. QED
      BY <1>0, <1>1, <1>2, <2>2, <3>1, <3>2, <3>3, <3>4
         DEF Planned, Outstanding, InQueue, InLimbo, InLetters, InReplay, Job, At
  <2>4. CASE s # r
    <3>1. /\ run'[r] = run[r] /\ request'[r] = request[r]
      BY <1>0, <1>6, <2>4 DEF Start, TypeOK
    <3>2. ItemsOf(r)' = ItemsOf(r)
      <4>1. \A i \in S : i \in Items /\ runOf[i] = NoRun
        BY DEF FreshItems, TypeInv, PlanInv, ItemsHaveRuns
      <4>2. QED
        BY <1>0, <2>1, <2>4, <4>1 DEF CreateItems, ItemsOf
    <3>3. QED
      BY <1>0, <1>1, <2>2, <3>1, <3>2, StillPlanned DEF InQueue, InLimbo, InLetters, InReplay
  <2>5. QED
    BY <2>3, <2>4
<1>7. CASE SendItem(s)
  <2>1. PICK i \in unsent[s] : ready' = Plus(ready, i, 0)
    BY <1>7 DEF SendItem
  <2>2. /\ ItemsOf(r)' = ItemsOf(r) /\ run' = run /\ i \in Items
        /\ request'[r] = request[r] \/ request'[r] = "done"
    BY <1>0, <1>7, <2>1 DEF SendItem, ItemsOf, TypeOK
  <2>3. InQueue(r)' => InQueue(r)
    BY <1>0, <2>1, <2>2 DEF InQueue, Plus, TypeOK
  <2>4. QED
    BY <1>0, <1>1, <2>2, <2>3, StillPlanned DEF InLimbo, InLetters, InReplay
<1>8. CASE ApiCrash(s)
  <2>1. /\ ItemsOf(r)' = ItemsOf(r) /\ run' = run /\ ready' = ready
        /\ request'[r] = request[r] \/ request'[r] = "crashed"
    BY <1>0, <1>8 DEF ApiCrash, ItemsOf, TypeOK
  <2>2. QED
    BY <1>0, <1>1, <2>1, StillPlanned DEF InQueue, InLimbo, InLetters, InReplay
<1>9. QED
  BY <1>4, <1>5, <1>6, <1>7, <1>8

\* The tasks, and a worker that dies, leave every run planned.
LEMMA TasksKeepPlans ==
  ASSUME ConstantsAssumption, "roadmap_failure" \notin Faults, PlanInv, TypeInv',
         NEW r \in Runs, NEW w \in Workers, Receive(w) \/ Step(w) \/ Crash(w)
  PROVE  Planned(r)'
<1> USE DEF rows, requests, broker, letters, bounds
<1>0. /\ TypeInv /\ TypeOK /\ Planned(r) /\ Once(r) /\ r \in Jobs /\ r \notin Items
      /\ 0 \in Retries /\ NoRun \notin Runs
      /\ worker[w] \in Task /\ Shaped(worker[w])
      /\ Runs \cap Items = {}
  BY IdleTaskIsTask
     DEF PlanInv, TypeInv, TypeOK, TasksShaped, RunsPlanned, DraftedOnce, Jobs,
         ConstantsAssumption
<1>1. ASSUME UNCHANGED << runOf, run, request >>
      PROVE  /\ ItemsOf(r)' = ItemsOf(r) /\ run'[r] = run[r]
             /\ request'[r] = request[r]
  BY <1>1 DEF ItemsOf
<1>2. ASSUME NEW v \in Workers, v # w, worker'[v] = worker[v], Job(v)' = r
      PROVE  worker'[v] = worker[v]
  BY <1>2
<1>3. ItemsOf(r) # {} /\ Job(w) = r => worker[w].pc \in {"refresh", "fanout", "ack"}
  BY <1>0 DEF Planned
<1>4. CASE Receive(w)
  <2>1. PICK k \in Jobs, n \in Retries :
          /\ ready[k][n] > 0
          /\ ready' = Minus(ready, k, n)
          /\ worker' = [worker EXCEPT ![w] =
               [IdleTask EXCEPT !.pc = "received", !.job = k, !.retries = n]]
    BY Zenon, <1>4 DEF Receive
  <2>2. UNCHANGED << runOf, run, request, unacked, deadLetter, replaying >>
    BY Zenon, <1>4 DEF Receive
  <2>3. /\ worker'[w].pc = "received" /\ worker'[w].job = k
        /\ \A v \in Workers \ {w} : worker'[v] = worker[v]
    BY <1>0, <2>1 DEF TypeOK, IdleTask
  <2>4. InQueue(r)' => InQueue(r)
    BY <1>0, <2>1 DEF InQueue, Minus, TypeOK
  <2>5. ItemsOf(r) # {} => k # r
    BY <1>0, <2>1 DEF Planned, InQueue
  <2>6. QED
    BY <1>0, <1>1, <2>2, <2>3, <2>4, <2>5, StillPlanned DEF InLimbo, InLetters, InReplay, Job
<1>5. CASE Crash(w)
  <2>1. /\ Job(w) \in Jobs /\ worker[w].retries \in Retries
        /\ unacked' = Plus(unacked, Job(w), worker[w].retries)
        /\ UNCHANGED << runOf, run, request, ready, deadLetter, replaying >>
        /\ worker' = [worker EXCEPT ![w] = IdleTask]
    BY <1>0, <1>5 DEF Crash, At, Job, Shaped, Task
  <2>2. /\ worker'[w].job = NoJob /\ NoJob \notin Jobs
        /\ \A v \in Workers \ {w} : worker'[v] = worker[v]
    BY <1>0, <2>1, IdleTaskIsTask DEF TypeOK
  <2>3. ItemsOf(r) # {} => Job(w) # r
    BY <1>0, <1>3, <1>5 DEF Crash, RoadmapIsOut, Drafting
  <2>4. ItemsOf(r) # {} => (InLimbo(r)' => InLimbo(r))
    BY <1>0, <2>1, <2>3 DEF InLimbo, Plus, TypeOK
  <2>5. QED
    BY <1>0, <1>1, <2>1, <2>2, <2>4, StillPlanned DEF InQueue, InLetters, InReplay, Job
<1>6. CASE OpenDraft(w)
  <2>1. /\ UNCHANGED << runOf, run, request, ready, unacked, deadLetter, replaying >>
        /\ worker[w].pc = "received"
        /\ worker' = [worker EXCEPT ![w].pc = "draft", ![w].seen = run[Job(w)]]
    BY <1>6 DEF OpenDraft, At
  <2>2. /\ worker'[w].pc = "draft" /\ worker'[w].seen = run[Job(w)]
        /\ worker'[w].job = worker[w].job
        /\ \A v \in Workers \ {w} : worker'[v] = worker[v]
    BY <1>0, <2>1 DEF TypeOK, Task
  <2>3. CASE Job(w) = r
    <3>1. ItemsOf(r) = {}
      BY <1>3, <2>1, <2>3
    <3>2. run[r] \in {"absent", "PLANNING", "FAILED"}
      BY <1>0, <3>1 DEF Planned
    <3>3. QED
      BY <1>0, <1>1, <2>1, <2>2, <2>3, <3>1, <3>2 DEF Planned, Job, At
  <2>4. CASE Job(w) # r
    BY <1>0, <1>1, <2>1, <2>2, <2>4, StillPlanned
       DEF InQueue, InLimbo, InLetters, InReplay, Job
  <2>5. QED
    BY <2>3, <2>4
<1>7. CASE Materialize(w)
  <2>1. PICK S \in FreshItems :
          /\ CreateItems(Job(w), S)
          /\ worker' = [worker EXCEPT ![w].pc = "refresh", ![w].seen = "absent",
                                      ![w].toSend = S]
    BY <1>7 DEF Materialize
  <2>2. /\ UNCHANGED << request, ready, unacked, deadLetter, replaying >>
        /\ worker[w].pc = "draft" /\ Job(w) \in Runs
        /\ SetRun(Job(w), worker[w].seen, "RUNNING")
    BY <1>0, <1>7 DEF Materialize, At, Shaped, Job
  <2>3. /\ worker'[w].pc = "refresh" /\ worker'[w].job = worker[w].job
        /\ \A v \in Workers \ {w} : worker'[v] = worker[v]
    BY <1>0, <2>1 DEF TypeOK, Task
  <2>4. CASE Job(w) = r
    <3>1. ItemsOf(r) = {} /\ worker[w].seen \in {"absent", "PLANNING", "FAILED"}
      BY <1>0, <1>3, <2>2, <2>4 DEF Planned, At
    <3>2. run'[r] = "RUNNING"
      BY <1>0, <2>2, <2>4, <3>1 DEF SetRun, TypeOK
    <3>3. ItemsOf(r)' = S
      <4>1. \A i \in Items : i \notin S => runOf[i] # r
        BY <3>1 DEF ItemsOf
      <4>2. QED
        BY <2>1, <2>4, <4>1 DEF CreateItems, FreshItems, ItemsOf
    <3>4. Cardinality(S) \in RoadmapSizes
      BY DEF FreshItems
    <3>5. ItemsOf(r)' # {}
      BY <3>3, <3>4, FS_EmptySet DEF ConstantsAssumption
    <3>6. Doing(w, r)
      BY <2>2, <2>4 DEF Doing, At
    <3>7. ~(InQueue(r) \/ InLimbo(r) \/ InLetters(r) \/ InReplay(r))
      BY <1>0, <3>6 DEF Once, InTask
    <3>8. \A v \in Workers \ {w} : Job(v) = r => worker[v].pc = "ack"
      BY <1>0, <3>6 DEF Once, Doing, At
    <3>9. request'[r] = "done"
      BY <1>0, <2>2, <2>4 DEF TypeInv, SentIsCommitted, Outstanding
    <3>10. QED
      BY <1>0, <2>2, <2>3, <3>2, <3>3, <3>4, <3>5, <3>7, <3>8, <3>9
         DEF Planned, InQueue, InLimbo, InLetters, InReplay, Job, At
  <2>5. CASE Job(w) # r
    <3>1. run'[r] = run[r]
      BY <1>0, <2>2, <2>5 DEF SetRun, TypeOK
    <3>2. ItemsOf(r)' = ItemsOf(r)
      <4>1. \A i \in S : i \in Items /\ runOf[i] = NoRun
        BY <1>0 DEF FreshItems, TypeInv, ItemsHaveRuns
      <4>2. QED
        BY <1>0, <2>1, <2>5, <4>1 DEF CreateItems, ItemsOf
    <3>3. QED
      BY <1>0, <2>2, <2>3, <2>5, <3>1, <3>2, StillPlanned
         DEF InQueue, InLimbo, InLetters, InReplay, Job
  <2>6. QED
    BY <2>4, <2>5
<1>8. CASE FanOut(w)
  <2>1. PICK i \in worker[w].toSend :
          /\ ready' = Plus(ready, i, 0)
          /\ worker' = [worker EXCEPT
               ![w].toSend = worker[w].toSend \ {i},
               ![w].pc = IF worker[w].toSend = {i} THEN "ack" ELSE "fanout"]
    BY <1>8 DEF FanOut
  <2>2. /\ UNCHANGED << runOf, run, request, unacked, deadLetter, replaying >>
        /\ i \in Items
    BY <1>0, <1>8 DEF FanOut, Task
  <2>3. /\ worker'[w].pc \in {"fanout", "ack"}
        /\ \A v \in Workers \ {w} : worker'[v] = worker[v]
    BY <1>0, <2>1 DEF TypeOK, Task
  <2>4. InQueue(r)' => InQueue(r)
    BY <1>0, <2>1, <2>2 DEF InQueue, Plus, TypeOK
  <2>5. QED
    BY <1>0, <1>1, <2>2, <2>3, <2>4, StillPlanned DEF InLimbo, InLetters, InReplay
<1>9. CASE FailRun(w)
  <2>1. /\ UNCHANGED << runOf, request, ready, unacked, deadLetter, replaying >>
        /\ worker[w].pc = "settle" /\ Job(w) \in Runs
        /\ run' = [run EXCEPT ![Job(w)] = "FAILED"]
        /\ worker' = [worker EXCEPT ![w].pc = "bury"]
    BY <1>9 DEF FailRun, Goto, At, Drafting
  <2>2. /\ worker'[w].pc = "bury" /\ worker'[w].job = worker[w].job
        /\ \A v \in Workers \ {w} : worker'[v] = worker[v]
    BY <1>0, <2>1 DEF TypeOK, Task
  <2>3. ItemsOf(r)' = ItemsOf(r)
    BY <2>1 DEF ItemsOf
  <2>4. CASE Job(w) = r
    <3>1. ItemsOf(r) = {} /\ run'[r] = "FAILED"
      BY <1>0, <1>3, <2>1, <2>4 DEF TypeOK
    <3>2. QED
      BY <1>0, <2>2, <2>3, <3>1 DEF Planned, Job, At
  <2>5. CASE Job(w) # r
    BY <1>0, <2>1, <2>2, <2>3, <2>5, StillPlanned
       DEF InQueue, InLimbo, InLetters, InReplay, Job, TypeOK
  <2>6. QED
    BY <2>4, <2>5
<1>10. CASE SaveRun(w)
  <2>1. /\ UNCHANGED << runOf, request, ready, unacked, deadLetter, replaying >>
        /\ worker[w].pc = "save" /\ Job(w) \in Items
        /\ SetRun(runOf[Job(w)], worker[w].seen, worker[w].found)
        /\ worker[w].found \in {"RUNNING", "PARTIAL", "COMPLETED"}
    BY <1>0, <1>10 DEF SaveRun, At, Shaped, Job
  <2>2. \A v \in Workers : /\ Job(v)' = r => worker'[v] = worker[v]
    BY <1>0, <1>10, <2>1, StepsKeepTheJob DEF Job
  <2>3. ItemsOf(r)' = ItemsOf(r)
    BY <2>1 DEF ItemsOf
  <2>4. CASE run'[r] = run[r]
    BY <1>0, <2>1, <2>2, <2>3, <2>4, StillPlanned DEF InQueue, InLimbo, InLetters, InReplay
  <2>5. CASE run'[r] # run[r]
    <3>1. runOf[Job(w)] = r /\ run'[r] = worker[w].found
      BY <1>0, <2>1, <2>5 DEF SetRun, TypeOK
    <3>2. ItemsOf(r) # {}
      BY <2>1, <3>1 DEF ItemsOf
    <3>3. QED
      BY <1>0, <2>1, <2>2, <2>3, <3>1, <3>2
         DEF Planned, InQueue, InLimbo, InLetters, InReplay, Job, At
  <2>6. QED
    BY <2>4, <2>5
<1>11. CASE Retry(w) \/ Bury(w)
  <2>1. /\ UNCHANGED << runOf, run, request, unacked, replaying >>
        /\ worker[w].pc \in {"settle", "bury"} /\ Job(w) \in Jobs
        /\ worker' = [worker EXCEPT ![w].pc = "ack"]
    BY <1>0, <1>11 DEF Retry, Bury, Goto, At, Shaped, Job
  <2>2. /\ worker'[w].pc = "ack"
        /\ \A v \in Workers \ {w} : worker'[v] = worker[v]
    BY <1>0, <2>1 DEF TypeOK, Task
  <2>3. ItemsOf(r) # {} => Job(w) # r
    BY <1>3, <2>1
  <2>4. ItemsOf(r) # {} => /\ InQueue(r)' => InQueue(r)
                           /\ InLetters(r)' => InLetters(r)
    BY <1>0, <1>11, <2>1, <2>3 DEF Retry, Bury, Plus, InQueue, InLetters, TypeOK
  <2>5. QED
    BY <1>0, <1>1, <2>1, <2>2, <2>4, StillPlanned DEF InLimbo, InReplay
<1>12. CASE Refresh(w)
  <2>1. /\ UNCHANGED << runOf, run, request, ready, unacked, deadLetter, replaying >>
        /\ worker' = [worker EXCEPT ![w].pc = "fanout"]
    BY <1>12 DEF Refresh, Goto
  <2>2. /\ worker'[w].pc = "fanout"
        /\ \A v \in Workers \ {w} : worker'[v] = worker[v]
    BY <1>0, <2>1 DEF TypeOK, Task
  <2>3. QED
    BY <1>0, <1>1, <2>1, <2>2, StillPlanned DEF InQueue, InLimbo, InLetters, InReplay
<1>13. CASE \/ StartItem(w) \/ LoadRun(w) \/ CompleteItem(w) \/ MarkItemFailed(w)
            \/ ReloadRun(w) \/ CountItems(w)
  <2>1. /\ UNCHANGED << runOf, run, request, ready, unacked, deadLetter, replaying >>
        /\ Job(w) \in Items
    BY <1>0, <1>13 DEF StartItem, LoadRun, CompleteItem, MarkItemFailed, ReloadRun, CountItems,
         Writing, At, Shaped, Job
  <2>2. \A v \in Workers : Job(v)' = r => worker'[v] = worker[v]
    BY <1>0, <1>13, <2>1, StepsKeepTheJob DEF Job
  <2>3. QED
    BY <1>0, <1>1, <2>1, <2>2, StillPlanned DEF InQueue, InLimbo, InLetters, InReplay
<1>14. CASE Fail(w) \/ LoseOutcome(w) \/ Ack(w)
  <2>1. UNCHANGED << runOf, run, request, ready, unacked, deadLetter, replaying >>
    BY <1>14 DEF Fail, LoseOutcome, Ack
  <2>2. /\ \A v \in Workers \ {w} : worker'[v] = worker[v]
        /\ Job(w)' = r => /\ Job(w) = r
                          /\ worker'[w].pc # "draft"
                          /\ Fail(w) \/ worker'[w].pc = "ack"
    <3>1. CASE Fail(w)
      BY <1>0, <3>1 DEF Fail, IdleTask, TypeOK, Job
    <3>2. CASE LoseOutcome(w)
      BY <1>0, <3>2 DEF LoseOutcome, IdleTask, TypeOK, Job
    <3>3. CASE Ack(w)
      BY <1>0, <3>3, IdleTaskIsTask DEF Ack, TypeOK, Job
    <3>4. QED
      BY <1>14, <3>1, <3>2, <3>3
  <2>3. Fail(w) /\ Job(w) = r => worker[w].pc \in {"received", "draft", "load", "write"}
    BY <1>0 DEF Fail, Attempting, Late, Drafting
  <2>4. QED
    BY <1>0, <1>1, <1>3, <2>1, <2>2, <2>3, StillPlanned
       DEF InQueue, InLimbo, InLetters, InReplay
<1>15. QED
  BY <1>4, <1>5, <1>6, <1>7, <1>8, <1>9, <1>10, <1>11, <1>12, <1>13, <1>14 DEF Step

LEMMA NextPlanInv ==
  ASSUME ConstantsAssumption, "roadmap_failure" \notin Faults, PlanInv, [Next]_vars
  PROVE  PlanInv'
<1>1. TypeInv'
  BY NextTypeInv DEF PlanInv
<1>2. DraftedOnce'
  BY NextOnce DEF PlanInv, DraftedOnce, Jobs, ConstantsAssumption
<1>3. ASSUME NEW r \in Runs PROVE Planned(r)'
  <2>1. Planned(r)
    BY DEF PlanInv, RunsPlanned
  <2>2. CASE \E s \in Runs : \/ Begin(s) \/ EnqueueDraft(s) \/ Start(s) \/ SendItem(s)
                             \/ ApiCrash(s)
    BY <1>1, <2>2, RequestsKeepPlans
  <2>3. CASE \E w \in Workers : Receive(w) \/ Step(w) \/ Crash(w)
    BY <1>1, <2>3, TasksKeepPlans
  <2>4. CASE \/ \E i \in Items : RemoveItem(i)
             \/ \E j \in Jobs : Resend(j) \/ \E n \in Retries : Restore(j, n)
             \/ Drain
    <3>1. /\ ItemsOf(r)' = ItemsOf(r) /\ run' = run /\ request' = request /\ worker' = worker
      BY <2>4 DEF RemoveItem, Resend, Restore, Drain, ItemsOf, rows, requests
    <3>2. ItemsOf(r) # {} => ~(InQueue(r) \/ InLimbo(r) \/ InLetters(r) \/ InReplay(r))
      BY <2>1 DEF Planned
    <3>3. r \in Jobs /\ TypeOK /\ 0 \in Retries
      BY IdleTaskIsTask DEF Jobs, PlanInv, TypeInv
    <3>4. ItemsOf(r) # {} => ~(InQueue(r)' \/ InLimbo(r)' \/ InLetters(r)' \/ InReplay(r)')
      <4>1. CASE \E i \in Items : RemoveItem(i)
        BY <3>2, <4>1 DEF RemoveItem, InQueue, InLimbo, InLetters, InReplay, broker, letters
      <4>2. ASSUME NEW k \in Jobs, Resend(k), ItemsOf(r) # {}
            PROVE  ~(InQueue(r)' \/ InLimbo(r)' \/ InLetters(r)' \/ InReplay(r)')
        BY <3>2, <3>3, <4>2 DEF Resend, Plus, InQueue, InLimbo, InLetters, InReplay, TypeOK
      <4>3. ASSUME NEW k \in Jobs, NEW n \in Retries, Restore(k, n), ItemsOf(r) # {}
            PROVE  ~(InQueue(r)' \/ InLimbo(r)' \/ InLetters(r)' \/ InReplay(r)')
        BY <3>2, <3>3, <4>3
           DEF Restore, Plus, Minus, InQueue, InLimbo, InLetters, InReplay, TypeOK, letters
      <4>4. CASE Drain
        BY <3>2, <3>3, <4>4 DEF Drain, InQueue, InLimbo, InLetters, InReplay, TypeOK, broker
      <4>5. QED
        BY <2>4, <4>1, <4>2, <4>3, <4>4
    <3>5. QED
      BY <1>1, <2>1, <3>1, <3>4, StillPlanned DEF PlanInv
  <2>5. CASE UNCHANGED vars
    BY <2>1, <2>5 DEF Planned, ItemsOf, InQueue, InLimbo, InLetters, InReplay, Job, At, vars
  <2>6. QED
    BY <2>2, <2>3, <2>4, <2>5 DEF Next
<1>4. QED
  BY <1>1, <1>2, <1>3 DEF PlanInv, RunsPlanned

LEMMA PlanInvariant ==
  ASSUME ConstantsAssumption, "roadmap_failure" \notin Faults
  PROVE  Spec => []PlanInv
<1>1. Init => PlanInv
  BY InitPlanInv
<1>2. PlanInv /\ [Next]_vars => PlanInv'
  BY NextPlanInv
<1>3. QED
  BY <1>1, <1>2, PTL DEF Spec

\* FAILED means that the run could not even be planned: with retries, replays, crashes and
\* refused writes, no task fails a run that its request or an earlier attempt gave items to.
\* The one that does fails after its own roadmap went out, which is the fault left out here.
THEOREM FailedMeansNotPlanned ==
  ASSUME ConstantsAssumption, "roadmap_failure" \notin Faults
  PROVE  Spec => []FailedRunHasNoItems
<1>1. PlanInv => FailedRunHasNoItems
  BY DEF PlanInv, RunsPlanned, Planned, FailedRunHasNoItems
<1>2. QED
  BY <1>1, PlanInvariant, PTL

\* One roadmap per run, under the same condition: it is the redelivery of a task whose roadmap
\* is out, and nothing else, that gives a run two of them.
THEOREM OneRoadmapWithoutItsFailure ==
  ASSUME ConstantsAssumption, "roadmap_failure" \notin Faults
  PROVE  Spec => []OneRoadmapPerRun
<1>1. PlanInv => OneRoadmapPerRun
  BY DEF PlanInv, RunsPlanned, Planned, OneRoadmapPerRun
<1>2. QED
  BY <1>1, PlanInvariant, PTL

-----------------------------------------------------------------------------
(* Written items.  Unless a worker dies or a recount fails after its item  *)
(* was committed as written, nobody takes up an item that is written, and  *)
(* a run is COMPLETED only when all its items are.                         *)

WrittenOnce == \A i \in Items : Once(i)

\* A written item is in nobody's hands but those of the task that wrote it and now counts
\* the items of the run; and that task's item is written.
Settled(i) ==
  /\ item[i] = "COMPLETED" =>
       /\ ~InRequest(i) /\ ~InFanOut(i) /\ ~InQueue(i) /\ ~InLimbo(i)
       /\ ~InLetters(i) /\ ~InReplay(i)
       /\ \A w \in Workers : Doing(w, i) =>
            worker[w].pc \in {"count", "save"} /\ ~worker[w].failing
  /\ \A w \in Workers :
       Job(w) = i /\ worker[w].pc \in {"count", "save"} /\ ~worker[w].failing
         => item[i] = "COMPLETED"

WriteInv == TypeInv /\ WrittenOnce /\ \A i \in Items : Settled(i)

NoRepeat == "worker_crash" \notin Faults /\ "recount_failure" \notin Faults

\* A step that leaves a written item where it is, and an unwritten one unwritten.
LEMMA StillSettled ==
  ASSUME NEW i \in Items, Settled(i), item'[i] = item[i],
         item[i] = "COMPLETED" =>
           ~(InRequest(i)' \/ InFanOut(i)' \/ InQueue(i)' \/ InLimbo(i)' \/ InLetters(i)'
             \/ InReplay(i)'),
         \A w \in Workers : Job(w)' = i =>
           \/ worker'[w] = worker[w]
           \/ worker'[w].pc = "ack"
           \/ /\ item[i] = "COMPLETED"
              /\ worker'[w].pc \in {"count", "save"} /\ ~worker'[w].failing
           \/ /\ item[i] # "COMPLETED"
              /\ worker'[w].pc \notin {"count", "save"} \/ worker'[w].failing
  PROVE  Settled(i)'
BY DEF Settled, Doing, Job, At

LEMMA InitWriteInv == ASSUME ConstantsAssumption, Init PROVE WriteInv
<1>1. \A i \in Items : Settled(i)
  BY IdleTaskIsTask DEF Init, Settled
<1>2. QED
  BY <1>1, InitTypeInv, InitOnce DEF WriteInv, WrittenOnce, Jobs

\* The requests, the owner, the broker and the operator.
LEMMA OthersKeepItemsSettled ==
  ASSUME ConstantsAssumption, WriteInv, NEW i \in Items,
         \/ \E r \in Runs : Begin(r) \/ EnqueueDraft(r) \/ Start(r) \/ SendItem(r) \/ ApiCrash(r)
         \/ \E k \in Items : RemoveItem(k)
         \/ \E j \in Jobs : Resend(j) \/ \E n \in Retries : Restore(j, n)
         \/ Drain
  PROVE  Settled(i)' /\ (item[i] = "COMPLETED" => item'[i] = "COMPLETED")
<1> USE DEF rows, requests, broker, letters, bounds
<1>0. /\ TypeInv /\ TypeOK /\ Settled(i) /\ i \in Jobs /\ i \notin Runs /\ 0 \in Retries
      /\ \A w \in Workers : worker'[w] = worker[w]
  BY IdleTaskIsTask
     DEF WriteInv, TypeInv, Jobs, ConstantsAssumption, Begin, EnqueueDraft, Start, SendItem,
         ApiCrash, RemoveItem, Resend, Restore, Drain
<1>1. InFanOut(i)' => InFanOut(i)
  BY <1>0 DEF InFanOut
<1>2. item[i] = "COMPLETED" =>
        ~(InRequest(i) \/ InFanOut(i) \/ InQueue(i) \/ InLimbo(i) \/ InLetters(i) \/ InReplay(i))
  BY <1>0 DEF Settled
<1>3. ASSUME NEW r \in Runs, Begin(r) \/ ApiCrash(r)
      PROVE  Settled(i)' /\ item' = item
  <2>1. /\ item' = item /\ ready' = ready /\ unacked' = unacked /\ deadLetter' = deadLetter
        /\ replaying' = replaying /\ \A s \in Runs : unsent'[s] \subseteq unsent[s]
    BY <1>0, <1>3 DEF Begin, ApiCrash, TypeOK
  <2>2. InRequest(i)' => InRequest(i)
    BY <2>1 DEF InRequest
  <2>3. QED
    BY <1>0, <1>1, <1>2, <2>1, <2>2, StillSettled DEF InQueue, InLimbo, InLetters, InReplay
<1>4. ASSUME NEW r \in Runs, EnqueueDraft(r)
      PROVE  Settled(i)' /\ item' = item
  <2>1. /\ item' = item /\ unsent' = unsent /\ unacked' = unacked /\ deadLetter' = deadLetter
        /\ replaying' = replaying /\ ready' = Plus(ready, r, 0)
    BY <1>4 DEF EnqueueDraft
  <2>2. InQueue(i)' => InQueue(i)
    BY <1>0, <2>1 DEF InQueue, Plus, TypeOK
  <2>3. QED
    BY <1>0, <1>1, <1>2, <2>1, <2>2, StillSettled DEF InRequest, InLimbo, InLetters, InReplay
<1>5. ASSUME NEW r \in Runs, Start(r)
      PROVE  Settled(i)' /\ (item[i] = "COMPLETED" => item'[i] = "COMPLETED")
  <2>1. PICK S \in FreshItems : CreateItems(r, S) /\ unsent' = [unsent EXCEPT ![r] = S]
    BY <1>5 DEF Start
  <2>2. /\ ready' = ready /\ unacked' = unacked /\ deadLetter' = deadLetter
        /\ replaying' = replaying
    BY <1>5 DEF Start
  <2>3. CASE i \in S
    <3>1. item'[i] = "PENDING" /\ item[i] = "absent"
      BY <2>1, <2>3 DEF CreateItems, FreshItems
    <3>2. ~Outstanding(i)
      BY <1>0, <3>1 DEF TypeInv, SentIsCommitted
    <3>3. QED
      BY <1>0, <3>1, <3>2 DEF Settled, Outstanding, Job
  <2>4. CASE i \notin S
    <3>1. item'[i] = item[i]
      BY <2>1, <2>4 DEF CreateItems
    <3>2. InRequest(i)' => InRequest(i)
      BY <1>0, <2>1, <2>4 DEF InRequest, TypeOK
    <3>3. QED
      BY <1>0, <1>1, <1>2, <2>2, <3>1, <3>2, StillSettled
         DEF InQueue, InLimbo, InLetters, InReplay
  <2>5. QED
    BY <2>3, <2>4
<1>6. ASSUME NEW r \in Runs, SendItem(r)
      PROVE  Settled(i)' /\ item' = item
  <2>1. PICK k \in unsent[r] :
          ready' = Plus(ready, k, 0) /\ unsent' = [unsent EXCEPT ![r] = @ \ {k}]
    BY <1>6 DEF SendItem
  <2>2. /\ item' = item /\ unacked' = unacked /\ deadLetter' = deadLetter
        /\ replaying' = replaying
    BY <1>6 DEF SendItem
  <2>3. InRequest(i)' => InRequest(i)
    BY <1>0, <2>1 DEF InRequest, TypeOK
  <2>4. InQueue(i)' => InQueue(i) \/ InRequest(i)
    BY <1>0, <2>1 DEF InQueue, InRequest, Plus, TypeOK
  <2>5. QED
    BY <1>0, <1>1, <1>2, <2>2, <2>3, <2>4, StillSettled DEF InLimbo, InLetters, InReplay
<1>7. CASE \E k \in Items : RemoveItem(k)
  <2>1. /\ item' = item /\ unsent' = unsent /\ ready' = ready /\ unacked' = unacked
        /\ deadLetter' = deadLetter /\ replaying' = replaying
    BY <1>7 DEF RemoveItem
  <2>2. QED
    BY <1>0, <1>1, <1>2, <2>1, StillSettled DEF InRequest, InQueue, InLimbo, InLetters, InReplay
<1>8. ASSUME NEW j \in Jobs, Resend(j)
      PROVE  Settled(i)' /\ item' = item
  <2>1. /\ item' = item /\ unsent' = unsent /\ unacked' = unacked /\ deadLetter' = deadLetter
        /\ ready' = Plus(ready, j, 0) /\ replaying[j] > 0
        /\ replaying' = [replaying EXCEPT ![j] = @ - 1]
    BY <1>8 DEF Resend
  <2>2. InReplay(i)' => InReplay(i)
    BY <1>0, <2>1 DEF InReplay, TypeOK
  <2>3. InQueue(i)' => InQueue(i) \/ InReplay(i)
    BY <1>0, <2>1 DEF InQueue, InReplay, Plus, TypeOK
  <2>4. QED
    BY <1>0, <1>1, <1>2, <2>1, <2>2, <2>3, StillSettled DEF InRequest, InLimbo, InLetters
<1>9. ASSUME NEW j \in Jobs, NEW n \in Retries, Restore(j, n)
      PROVE  Settled(i)' /\ item' = item
  <2>1. /\ item' = item /\ unsent' = unsent /\ replaying' = replaying /\ deadLetter' = deadLetter
        /\ ready' = Plus(ready, j, n) /\ unacked[j][n] > 0 /\ unacked' = Minus(unacked, j, n)
    BY <1>9 DEF Restore
  <2>2. InLimbo(i)' => InLimbo(i)
    BY <1>0, <2>1 DEF InLimbo, Minus, TypeOK
  <2>3. InQueue(i)' => InQueue(i) \/ InLimbo(i)
    BY <1>0, <2>1 DEF InQueue, InLimbo, Plus, TypeOK
  <2>4. QED
    BY <1>0, <1>1, <1>2, <2>1, <2>2, <2>3, StillSettled DEF InRequest, InReplay, InLetters
<1>10. CASE Drain
  <2>1. /\ item' = item /\ unsent' = unsent /\ ready' = ready /\ unacked' = unacked
        /\ replaying'[i] = replaying[i] + deadLetter[i] /\ deadLetter'[i] = 0
    BY <1>0, <1>10 DEF Drain
  <2>2. ~InLetters(i)' /\ (InReplay(i)' => InReplay(i) \/ InLetters(i))
    BY <1>0, <2>1 DEF InReplay, InLetters, TypeOK
  <2>3. QED
    BY <1>0, <1>1, <1>2, <2>1, <2>2, StillSettled DEF InRequest, InQueue, InLimbo
<1>11. QED
  BY <1>3, <1>4, <1>5, <1>6, <1>7, <1>8, <1>9, <1>10

\* The tasks, when none dies after the outcome of its item was committed.
LEMMA TasksKeepItemsSettled ==
  ASSUME ConstantsAssumption, NoRepeat, WriteInv, NEW i \in Items,
         NEW w \in Workers, Receive(w) \/ Step(w) \/ Crash(w)
  PROVE  Settled(i)' /\ (item[i] = "COMPLETED" => item'[i] = "COMPLETED")
<1> USE DEF rows, requests, broker, letters, bounds
<1>0. /\ TypeInv /\ TypeOK /\ Settled(i) /\ Once(i) /\ i \in Jobs /\ i \notin Runs
      /\ 0 \in Retries /\ worker[w] \in Task /\ Shaped(worker[w])
      /\ Runs \cap Items = {} /\ NoJob \notin Jobs
  BY IdleTaskIsTask
     DEF WriteInv, WrittenOnce, TypeInv, TypeOK, TasksShaped, Jobs, ConstantsAssumption
<1>1. item[i] = "COMPLETED" =>
        ~(InRequest(i) \/ InFanOut(i) \/ InQueue(i) \/ InLimbo(i) \/ InLetters(i) \/ InReplay(i))
  BY <1>0 DEF Settled
<1>2. item[i] = "COMPLETED" /\ Job(w) = i =>
        worker[w].pc = "ack" \/ (worker[w].pc \in {"count", "save"} /\ ~worker[w].failing)
  BY <1>0 DEF Settled, Doing, At
<1>3. Job(w) = i /\ worker[w].pc \in {"count", "save"} /\ ~worker[w].failing
        => item[i] = "COMPLETED"
  BY <1>0 DEF Settled
<1>4. CASE Receive(w)
  <2>1. PICK k \in Jobs, n \in Retries :
          /\ ready[k][n] > 0
          /\ ready' = Minus(ready, k, n)
          /\ worker' = [worker EXCEPT ![w] =
               [IdleTask EXCEPT !.pc = "received", !.job = k, !.retries = n]]
    BY Zenon, <1>4 DEF Receive
  <2>2. UNCHANGED << item, unsent, unacked, deadLetter, replaying >>
    BY Zenon, <1>4 DEF Receive
  <2>3. /\ worker'[w].pc = "received" /\ worker'[w].job = k /\ worker'[w].toSend = {}
        /\ \A v \in Workers \ {w} : worker'[v] = worker[v]
    BY <1>0, <2>1 DEF TypeOK, IdleTask
  <2>4. InQueue(i)' => InQueue(i)
    BY <1>0, <2>1 DEF InQueue, Minus, TypeOK
  <2>5. InFanOut(i)' => InFanOut(i)
    BY <2>3 DEF InFanOut
  <2>6. k = i => item[i] # "COMPLETED"
    BY <1>1, <2>1 DEF InQueue
  <2>7. QED
    BY <1>0, <1>1, <2>2, <2>3, <2>4, <2>5, <2>6, StillSettled
       DEF InRequest, InLimbo, InLetters, InReplay, Job
<1>5. CASE Crash(w)
  <2>1. /\ Job(w) \in Runs
        /\ unacked' = Plus(unacked, Job(w), worker[w].retries)
        /\ UNCHANGED << item, unsent, ready, deadLetter, replaying >>
        /\ worker' = [worker EXCEPT ![w] = IdleTask]
    BY <1>0, <1>5 DEF Crash, RoadmapIsOut, Drafting, NoRepeat
  <2>2. /\ worker'[w].job = NoJob /\ worker'[w].toSend = {}
        /\ \A v \in Workers \ {w} : worker'[v] = worker[v]
    BY <1>0, <2>1, IdleTaskIsTask DEF TypeOK
  <2>3. InLimbo(i)' => InLimbo(i)
    BY <1>0, <2>1 DEF InLimbo, Plus, TypeOK
  <2>4. InFanOut(i)' => InFanOut(i)
    BY <2>2 DEF InFanOut
  <2>5. QED
    BY <1>0, <1>1, <2>1, <2>2, <2>3, <2>4, StillSettled
       DEF InRequest, InQueue, InLetters, InReplay, Job
<1>6. CASE Materialize(w)
  <2>1. PICK S \in FreshItems :
          /\ CreateItems(Job(w), S)
          /\ worker' = [worker EXCEPT ![w].pc = "refresh", ![w].seen = "absent",
                                      ![w].toSend = S]
    BY <1>6 DEF Materialize
  <2>2. /\ UNCHANGED << unsent, ready, unacked, deadLetter, replaying >>
        /\ worker[w].pc = "draft" /\ worker[w].job \in Runs
    BY <1>0, <1>6 DEF Materialize, At, Shaped
  <2>3. /\ worker'[w].pc = "refresh" /\ worker'[w].job = worker[w].job
        /\ worker'[w].toSend = S
        /\ \A v \in Workers \ {w} : worker'[v] = worker[v]
    BY <1>0, <2>1 DEF TypeOK, Task
  <2>4. CASE i \in S
    <3>1. item'[i] = "PENDING" /\ item[i] = "absent"
      BY <2>1, <2>4 DEF CreateItems, FreshItems
    <3>2. ~Outstanding(i)
      BY <1>0, <3>1 DEF TypeInv, SentIsCommitted
    <3>3. \A v \in Workers : Job(v)' # i
      BY <2>3, <3>2 DEF Outstanding, Job
    <3>4. QED
      BY <3>1, <3>3 DEF Settled
  <2>5. CASE i \notin S
    <3>1. item'[i] = item[i]
      BY <2>1, <2>5 DEF CreateItems
    <3>2. InFanOut(i)' => InFanOut(i)
      BY <2>3, <2>5 DEF InFanOut
    <3>3. QED
      BY <1>0, <1>1, <2>2, <2>3, <3>1, <3>2, StillSettled
         DEF InRequest, InQueue, InLimbo, InLetters, InReplay, Job
  <2>6. QED
    BY <2>4, <2>5
<1>7. CASE FanOut(w)
  <2>1. PICK k \in worker[w].toSend :
          /\ ready' = Plus(ready, k, 0)
          /\ worker' = [worker EXCEPT
               ![w].toSend = worker[w].toSend \ {k},
               ![w].pc = IF worker[w].toSend = {k} THEN "ack" ELSE "fanout"]
    BY <1>7 DEF FanOut
  <2>2. /\ UNCHANGED << item, unsent, unacked, deadLetter, replaying >>
        /\ worker[w].job \in Runs
    BY <1>0, <1>7 DEF FanOut, At, Shaped
  <2>3. /\ worker'[w].job = worker[w].job
        /\ worker'[w].toSend = worker[w].toSend \ {k}
        /\ \A v \in Workers \ {w} : worker'[v] = worker[v]
    BY <1>0, <2>1 DEF TypeOK, Task
  <2>4. InQueue(i)' => InQueue(i) \/ InFanOut(i)
    BY <1>0, <2>1 DEF InQueue, InFanOut, Plus, TypeOK
  <2>5. InFanOut(i)' => InFanOut(i)
    BY <2>3 DEF InFanOut
  <2>6. QED
    BY <1>0, <1>1, <2>2, <2>3, <2>4, <2>5, StillSettled
       DEF InRequest, InLimbo, InLetters, InReplay, Job
<1>8. CASE Retry(w) \/ Bury(w)
  <2>1. /\ UNCHANGED << item, unsent, unacked, replaying >>
        /\ worker[w].pc \in {"settle", "bury"} /\ Job(w) \in Jobs
        /\ worker' = [worker EXCEPT ![w].pc = "ack"]
    BY <1>0, <1>8 DEF Retry, Bury, Goto, At, Shaped, Job
  <2>2. /\ worker'[w].pc = "ack" /\ worker'[w].toSend = worker[w].toSend
        /\ \A v \in Workers \ {w} : worker'[v] = worker[v]
    BY <1>0, <2>1 DEF TypeOK, Task
  <2>3. item[i] = "COMPLETED" => Job(w) # i
    BY <1>2, <2>1
  <2>4. item[i] = "COMPLETED" => /\ InQueue(i)' => InQueue(i)
                                 /\ InLetters(i)' => InLetters(i)
    BY <1>0, <1>8, <2>1, <2>3 DEF Retry, Bury, Plus, InQueue, InLetters, TypeOK
  <2>5. InFanOut(i)' => InFanOut(i)
    BY <2>2 DEF InFanOut
  <2>6. QED
    BY <1>0, <1>1, <2>1, <2>2, <2>4, <2>5, StillSettled DEF InRequest, InLimbo, InReplay
<1>9. CASE Fail(w) \/ LoseOutcome(w) \/ Ack(w)
  <2>1. UNCHANGED << item, unsent, ready, unacked, deadLetter, replaying >>
    BY <1>9 DEF Fail, LoseOutcome, Ack
  <2>2. /\ \A v \in Workers \ {w} : worker'[v] = worker[v]
        /\ worker'[w].toSend = {}
        /\ worker'[w].job = i => /\ Job(w) = i
                                 /\ worker'[w].pc = "ack" \/ (Fail(w) /\ worker'[w].pc = "settle")
    <3>1. CASE Fail(w)
      BY <1>0, <3>1 DEF Fail, IdleTask, TypeOK, Job
    <3>2. CASE LoseOutcome(w)
      BY <1>0, <3>2 DEF LoseOutcome, IdleTask, TypeOK, Job
    <3>3. CASE Ack(w)
      BY <1>0, <3>3, IdleTaskIsTask DEF Ack, TypeOK
    <3>4. QED
      BY <1>9, <3>1, <3>2, <3>3
  <2>3. Fail(w) /\ Job(w) = i => worker[w].pc \in {"received", "draft", "load", "write"}
    BY <1>0 DEF Fail, Attempting, Late, Drafting, NoRepeat, Shaped, Job
  <2>4. InFanOut(i)' => InFanOut(i)
    BY <2>2 DEF InFanOut
  <2>5. QED
    BY <1>0, <1>1, <1>2, <2>1, <2>2, <2>3, <2>4, StillSettled
       DEF InRequest, InQueue, InLimbo, InLetters, InReplay, Job
<1>10. ASSUME \/ OpenDraft(w) \/ Refresh(w) \/ FailRun(w) \/ StartItem(w) \/ LoadRun(w)
              \/ CompleteItem(w) \/ MarkItemFailed(w) \/ ReloadRun(w) \/ CountItems(w)
              \/ SaveRun(w)
       PROVE  /\ InRequest(i)' => InRequest(i)
              /\ InFanOut(i)' => InFanOut(i)
              /\ InQueue(i)' => InQueue(i)
              /\ InLimbo(i)' => InLimbo(i)
              /\ InLetters(i)' => InLetters(i)
              /\ InReplay(i)' => InReplay(i)
              /\ \A v \in Workers \ {w} : worker'[v] = worker[v]
              /\ worker'[w].job = worker[w].job
  <2>1. UNCHANGED << unsent, ready, unacked, deadLetter, replaying >>
    BY <1>10 DEF OpenDraft, Refresh, FailRun, StartItem, LoadRun, CompleteItem,
         MarkItemFailed, ReloadRun, CountItems, SaveRun
  <2>2. InFanOut(i)' => InFanOut(i)
    BY <1>0, <1>10, StepsKeepTheJob DEF InFanOut
  <2>3. QED
    BY <1>0, <1>10, <2>1, <2>2, StepsKeepTheJob
       DEF InRequest, InQueue, InLimbo, InLetters, InReplay
<1>11. CASE OpenDraft(w) \/ Refresh(w) \/ FailRun(w)
  <2>1. item' = item
    BY <1>11 DEF OpenDraft, Refresh, FailRun
  <2>2. worker[w].job \in Runs
    BY <1>0, <1>11 DEF OpenDraft, Refresh, FailRun, At, Drafting, Job, Shaped
  <2>3. QED
    BY <1>0, <1>1, <1>10, <1>11, <2>1, <2>2, StillSettled DEF Job
<1>12. CASE StartItem(w) \/ MarkItemFailed(w)
  <2>1. PICK s \in {"PROCESSING", "FAILED"} :
          /\ item' = [item EXCEPT ![Job(w)] = s]
          /\ worker[w].pc \in {"received", "settle"} /\ Job(w) \in Items
    BY <1>12 DEF StartItem, MarkItemFailed, At, Writing
  <2>2. worker'[w].pc \in {"load", "reload"}
    <3>1. \A pc : Goto(w, pc) => worker'[w].pc = pc
      BY <1>0 DEF Goto, TypeOK, Task
    <3>2. QED
      BY <1>12, <3>1 DEF StartItem, MarkItemFailed
  <2>3. CASE Job(w) = i
    <3>1. item'[i] # "COMPLETED" /\ item[i] # "COMPLETED" /\ Doing(w, i)
      BY <1>0, <1>2, <2>1, <2>3 DEF TypeOK, Doing, At
    <3>2. \A v \in Workers \ {w} : Doing(v, i) => FALSE
      BY <1>0, <3>1 DEF Once
    <3>3. QED
      BY <1>10, <1>12, <2>2, <3>1, <3>2 DEF Settled, Doing, Job, At
  <2>4. CASE Job(w) # i
    <3>1. item'[i] = item[i]
      BY <1>0, <2>1, <2>4 DEF TypeOK
    <3>2. QED
      BY <1>0, <1>1, <1>10, <1>12, <2>4, <3>1, StillSettled DEF Job
  <2>5. QED
    BY <2>3, <2>4
<1>13. CASE CompleteItem(w)
  <2>1. /\ item' = [item EXCEPT ![Job(w)] = "COMPLETED"] /\ worker[w].pc = "write"
        /\ ~worker[w].failing
    BY <1>0, <1>13 DEF CompleteItem, At, Shaped
  <2>2. worker'[w].pc = "count" /\ worker'[w].failing = worker[w].failing
    BY <1>0, <1>13 DEF CompleteItem, Goto, TypeOK, Task
  <2>3. CASE Job(w) = i
    <3>1. item'[i] = "COMPLETED" /\ Doing(w, i)
      BY <1>0, <2>1, <2>3 DEF TypeOK, Doing, At
    <3>2. \A v \in Workers \ {w} : Doing(v, i) => FALSE
      BY <1>0, <3>1 DEF Once
    <3>3. ~(InRequest(i) \/ InFanOut(i) \/ InQueue(i) \/ InLimbo(i) \/ InLetters(i)
            \/ InReplay(i))
      BY <1>0, <3>1 DEF Once, InTask
    <3>4. QED
      BY <1>10, <1>13, <2>1, <2>2, <3>1, <3>2, <3>3 DEF Settled, Doing, Job, At
  <2>4. CASE Job(w) # i
    <3>1. item'[i] = item[i]
      BY <1>0, <2>1, <2>4 DEF TypeOK
    <3>2. QED
      BY <1>0, <1>1, <1>10, <1>13, <2>4, <3>1, StillSettled DEF Job
  <2>5. QED
    BY <2>3, <2>4
<1>14. CASE LoadRun(w) \/ ReloadRun(w) \/ CountItems(w) \/ SaveRun(w)
  <2>1. item' = item
    BY <1>14 DEF LoadRun, ReloadRun, CountItems, SaveRun
  <2>2. \/ worker'[w].pc \in {"write", "bury", "ack"}
        \/ worker'[w].pc = "count" /\ worker[w].pc = "reload"
           /\ worker'[w].failing = worker[w].failing
        \/ worker'[w].pc = "save" /\ worker[w].pc = "count"
           /\ worker'[w].failing = worker[w].failing
    BY <1>0, <1>14 DEF LoadRun, ReloadRun, CountItems, SaveRun, TypeOK, Task, At
  <2>3. worker[w].pc = "reload" => worker[w].failing
    BY <1>0 DEF Shaped
  <2>4. worker'[w].pc \in {"write", "bury"} => worker[w].pc = "load" \/ worker[w].failing
    BY <1>0, <1>14 DEF LoadRun, ReloadRun, CountItems, SaveRun, TypeOK, Task, At
  <2>5. \A v \in Workers : Job(v)' = i =>
          \/ worker'[v] = worker[v]
          \/ worker'[v].pc = "ack"
          \/ /\ item[i] = "COMPLETED"
             /\ worker'[v].pc \in {"count", "save"} /\ ~worker'[v].failing
          \/ /\ item[i] # "COMPLETED"
             /\ worker'[v].pc \notin {"count", "save"} \/ worker'[v].failing
    <3>1. CASE Job(w) = i
      <4>1. worker[w].pc \in {"load", "reload", "count", "save"}
        BY <1>14 DEF LoadRun, ReloadRun, CountItems, SaveRun, At
      <4>2. CASE item[i] = "COMPLETED"
        BY <1>2, <1>10, <1>14, <2>2, <2>3, <2>4, <3>1, <4>1, <4>2 DEF Job
      <4>3. CASE item[i] # "COMPLETED"
        BY <1>3, <1>10, <1>14, <2>2, <2>3, <2>4, <3>1, <4>1, <4>3 DEF Job
      <4>4. QED
        BY <4>2, <4>3
    <3>2. CASE Job(w) # i
      BY <1>10, <1>14, <3>2 DEF Job
    <3>3. QED
      BY <3>1, <3>2
  <2>6. QED
    BY <1>0, <1>1, <1>10, <1>14, <2>1, <2>5, StillSettled
<1>15. QED
  BY <1>4, <1>5, <1>6, <1>7, <1>8, <1>9, <1>11, <1>12, <1>13, <1>14 DEF Step

LEMMA NextWriteInv ==
  ASSUME ConstantsAssumption, NoRepeat, WriteInv, [Next]_vars
  PROVE  /\ WriteInv'
         /\ \A i \in Items : item[i] = "COMPLETED" => item'[i] = "COMPLETED"
<1>1. TypeInv'
  BY NextTypeInv DEF WriteInv
<1>2. WrittenOnce'
  BY NextOnce DEF WriteInv, WrittenOnce, Jobs, NoRepeat, ConstantsAssumption
<1>3. ASSUME NEW i \in Items
      PROVE  Settled(i)' /\ (item[i] = "COMPLETED" => item'[i] = "COMPLETED")
  <2>1. CASE UNCHANGED vars
    BY <2>1 DEF WriteInv, Settled, InRequest, InFanOut, InQueue, InLimbo, InLetters, InReplay,
         Doing, Job, At, vars
  <2>2. CASE Next
    BY <2>2, OthersKeepItemsSettled, TasksKeepItemsSettled DEF Next
  <2>3. QED
    BY <2>1, <2>2
<1>4. QED
  BY <1>1, <1>2, <1>3 DEF WriteInv

LEMMA WriteInvariant ==
  ASSUME ConstantsAssumption, NoRepeat
  PROVE  Spec => []WriteInv
<1>1. Init => WriteInv
  BY InitWriteInv
<1>2. WriteInv /\ [Next]_vars => WriteInv'
  BY NextWriteInv
<1>3. QED
  BY <1>1, <1>2, PTL DEF Spec

\* An item that was written is not taken up again, with retries, replays, dead requests and
\* refused writes: only a worker that dies before it acknowledges the task of a written item,
\* or a recount that fails, gives it to a worker again.
THEOREM WrittenOnceIsWritten ==
  ASSUME ConstantsAssumption, NoRepeat
  PROVE  Spec => WrittenItemsStay
<1>1. WriteInv /\ [Next]_vars
        => [\A i \in Items : item[i] = "COMPLETED" => item'[i] = "COMPLETED"]_vars
  BY NextWriteInv
<1>2. QED
  BY <1>1, WriteInvariant, PTL DEF Spec, WrittenItemsStay

\* Every item of the run is written, the removed ones aside.
AllWritten(r) == \A i \in Live(r) : item[i] = "COMPLETED"

\* The status is not stale when it is saved: a task that found its run complete still has
\* nothing to correct.
DoneInv ==
  /\ PlanInv /\ WriteInv
  /\ CompletedMeansAllWritten
  /\ \A w \in Workers :
       worker[w].pc = "save" /\ worker[w].found = "COMPLETED" => AllWritten(runOf[Job(w)])

\* What a run with items has written stays written, and it gets no new items.
LEMMA AllWrittenStays ==
  ASSUME ConstantsAssumption, NoRepeat, PlanInv, WriteInv, [Next]_vars,
         NEW r \in Runs, ItemsOf(r) # {}, AllWritten(r)
  PROVE  AllWritten(r)'
<1>1. ItemsOf(r)' = ItemsOf(r)
  <2>1. CASE Next
    <3>1. Planned(r) /\ TypeInv
      BY DEF PlanInv, RunsPlanned
    <3>2. ~Start(r)
      BY <3>1 DEF Start, Planned
    <3>3. ASSUME NEW w \in Workers, Materialize(w), Job(w) = r PROVE FALSE
      BY <3>1, <3>3 DEF Materialize, At, Planned
    <3>4. QED
      BY <2>1, <3>1, <3>2, <3>3, ItemsOfARun
  <2>2. CASE UNCHANGED vars
    BY <2>2 DEF vars, ItemsOf
  <2>3. QED
    BY <2>1, <2>2
<1>2. \A i \in Items : removed[i] => removed'[i]
  <2>1. CASE \E i \in Items : RemoveItem(i)
    BY <2>1 DEF RemoveItem, PlanInv, TypeInv, TypeOK
  <2>2. CASE ~ \E i \in Items : RemoveItem(i)
    <3>1. removed' = removed
      BY ZenonT(60), <2>2 DEF Next, vars, rows, Begin, EnqueueDraft, Start, SendItem, ApiCrash,
         Receive, Step, Crash, Resend, Restore, Drain, OpenDraft, Materialize, Refresh, FanOut,
         FailRun, StartItem, LoadRun, CompleteItem, MarkItemFailed, ReloadRun, CountItems,
         SaveRun, Fail, Retry, Bury, LoseOutcome, Ack
    <3>2. QED
      BY <3>1
  <2>3. QED
    BY <2>1, <2>2
<1>3. \A i \in Items : item[i] = "COMPLETED" => item'[i] = "COMPLETED"
  BY NextWriteInv
<1>4. QED
  BY <1>1, <1>2, <1>3 DEF AllWritten, Live, ItemsOf

\* A recount that asks for COMPLETED has seen every item of the run written.
LEMMA CountedCompleted ==
  ASSUME ConstantsAssumption, WriteInv, NEW w \in Workers, CountItems(w),
         RunStatusOf(Counted(w)) = "COMPLETED"
  PROVE  AllWritten(runOf[Job(w)])
<1>0. /\ TypeOK /\ ItemsHaveRuns /\ TasksShaped /\ SentIsCommitted
      /\ \A i \in Items : Settled(i)
  BY DEF WriteInv, TypeInv
<1>1. Job(w) \in Items /\ worker[w].pc = "count"
  BY <1>0 DEF CountItems, At, TasksShaped, Shaped, Job
<1>2. runOf[Job(w)] \in Runs
  <2>1. Outstanding(Job(w))
    BY DEF Outstanding
  <2>2. QED
    BY <1>0, <1>1, <2>1 DEF SentIsCommitted, ItemsHaveRuns, TypeOK
<1>3. Counted(w) \cap InFlight = {} /\ "FAILED" \notin Counted(w)
  BY DEF RunStatusOf
<1>4. ASSUME NEW i \in Live(runOf[Job(w)])
      PROVE  item[i] = "COMPLETED"
  <2>1. i \in ItemsOf(runOf[Job(w)]) /\ ~removed[i] /\ i \in Items
    BY DEF Live, ItemsOf
  <2>2. CASE i # Job(w)
    <3>1. item[i] \in Counted(w)
      BY <2>1, <2>2 DEF Counted
    <3>2. item[i] # "absent"
      BY <1>0, <1>2, <2>1 DEF ItemsHaveRuns, ItemsOf, ConstantsAssumption
    <3>3. QED
      BY <1>0, <1>3, <2>1, <3>1, <3>2 DEF TypeOK, ItemStatus, InFlight
  <2>3. CASE i = Job(w)
    <3>1. ~worker[w].failing
      BY <1>3, <2>1, <2>3 DEF Counted
    <3>2. QED
      BY <1>0, <1>1, <2>1, <2>3, <3>1 DEF Settled
  <2>4. QED
    BY <2>2, <2>3
<1>5. QED
  BY <1>4 DEF AllWritten

\* Nothing but a recount that asked for it makes a run COMPLETED.
LEMMA OnlyRecountsComplete ==
  ASSUME ConstantsAssumption, TypeInv, [Next]_vars, NEW r \in Runs,
         run'[r] = "COMPLETED", run[r] # "COMPLETED"
  PROVE  \E w \in Workers : /\ At(w, "save") /\ worker[w].found = "COMPLETED"
                            /\ Job(w) \in Items /\ runOf[Job(w)] = r
<1> USE DEF rows
<1>0. TypeOK
  BY DEF TypeInv
<1>1. CASE \E w \in Workers : SaveRun(w)
  BY <1>0, <1>1 DEF SaveRun, SetRun, At, TypeInv, TypeOK, TasksShaped, Shaped, Job
<1>2. CASE \E s \in Runs : Begin(s) \/ Start(s)
  BY <1>0, <1>2 DEF Begin, Start, TypeOK
<1>3. CASE \E w \in Workers : Materialize(w) \/ FailRun(w)
  BY <1>0, <1>3 DEF Materialize, FailRun, SetRun, TypeOK
<1>4. CASE run' = run
  BY <1>4
<1>5. CASE ~ \/ \E w \in Workers : SaveRun(w) \/ Materialize(w) \/ FailRun(w)
             \/ \E s \in Runs : Begin(s) \/ Start(s)
  <2>1. run' = run
    BY Zenon, <1>5 DEF Next, vars, EnqueueDraft, SendItem, ApiCrash, RemoveItem, Receive, Step,
       Crash, Resend, Restore, Drain, OpenDraft, Refresh, FanOut, StartItem, LoadRun,
       CompleteItem, MarkItemFailed, ReloadRun, CountItems, Fail, Retry, Bury, LoseOutcome, Ack
  <2>2. QED
    BY <2>1
<1>6. QED
  BY <1>1, <1>2, <1>3, <1>5

\* A task comes to save its recount from nowhere but from the recount.
LEMMA OnlyRecountsSave ==
  ASSUME ConstantsAssumption, TypeInv, [Next]_vars, NEW w \in Workers,
         worker'[w].pc = "save"
  PROVE  \/ worker'[w] = worker[w]
         \/ /\ CountItems(w) /\ worker'[w].job = worker[w].job
            /\ worker'[w].found = RunStatusOf(Counted(w))
<1>0. TypeOK
  BY DEF TypeInv
<1>1. CASE worker' = worker
  BY <1>1
<1>2. ASSUME NEW v \in Workers, Receive(v) \/ Step(v) \/ Crash(v)
      PROVE  \/ worker'[w] = worker[w]
             \/ /\ CountItems(w) /\ worker'[w].job = worker[w].job
                /\ worker'[w].found = RunStatusOf(Counted(w))
  <2>1. CASE CountItems(v)
    BY <1>0, <2>1 DEF CountItems, TypeOK, Task
  <2>2. CASE Receive(v) \/ Fail(v) \/ LoseOutcome(v)
    <3>1. CASE Receive(v)
      BY <1>0, <3>1 DEF Receive, TypeOK, IdleTask
    <3>2. CASE Fail(v)
      BY <1>0, <3>2 DEF Fail, TypeOK, IdleTask
    <3>3. CASE LoseOutcome(v)
      BY <1>0, <3>3 DEF LoseOutcome, TypeOK, IdleTask
    <3>4. QED
      BY <2>2, <3>1, <3>2, <3>3
  <2>3. CASE Crash(v) \/ Ack(v)
    BY <1>0, <2>3, IdleTaskIsTask DEF Crash, Ack, TypeOK
  <2>4. CASE \/ Refresh(v) \/ FailRun(v) \/ StartItem(v) \/ CompleteItem(v)
             \/ MarkItemFailed(v) \/ Retry(v) \/ Bury(v)
    <3>1. ASSUME NEW pc, pc # "save", Goto(v, pc) PROVE worker'[w] = worker[w]
      BY <1>0, <3>1 DEF Goto, TypeOK, Task
    <3>2. QED
      BY <2>4, <3>1 DEF Refresh, FailRun, StartItem, CompleteItem, MarkItemFailed, Retry, Bury
  <2>5. CASE OpenDraft(v) \/ LoadRun(v) \/ ReloadRun(v)
    <3>1. ASSUME NEW pc, NEW seen, pc # "save",
                 worker' = [worker EXCEPT ![v].pc = pc, ![v].seen = seen]
          PROVE  worker'[w] = worker[w]
      BY <1>0, <3>1 DEF TypeOK, Task
    <3>2. QED
      BY <2>5, <3>1 DEF OpenDraft, LoadRun, ReloadRun
  <2>6. CASE Materialize(v)
    BY <1>0, <2>6 DEF Materialize, TypeOK, Task
  <2>7. CASE FanOut(v)
    BY <1>0, <2>7 DEF FanOut, TypeOK, Task
  <2>8. CASE SaveRun(v)
    BY <1>0, <2>8 DEF SaveRun, TypeOK, Task
  <2>9. QED
    BY <1>2, <2>1, <2>2, <2>3, <2>4, <2>5, <2>6, <2>7, <2>8 DEF Step
<1>3. QED
  BY <1>1, <1>2 DEF Next, vars, Begin, EnqueueDraft, Start, SendItem, ApiCrash, RemoveItem,
     Resend, Restore, Drain

LEMMA NextDoneInv ==
  ASSUME ConstantsAssumption, NoRepeat, "roadmap_failure" \notin Faults, DoneInv, [Next]_vars
  PROVE  DoneInv'
<1>0. /\ PlanInv /\ WriteInv /\ TypeInv /\ TypeOK
      /\ \A r \in Runs : Planned(r)
  BY DEF DoneInv, PlanInv, RunsPlanned, TypeInv
<1>1. PlanInv' /\ WriteInv'
  BY <1>0, NextPlanInv, NextWriteInv
<1>2. ASSUME NEW r \in Runs, run'[r] = "COMPLETED" PROVE AllWritten(r)'
  <2>1. ItemsOf(r) # {} /\ AllWritten(r)
    <3>1. CASE run[r] = "COMPLETED"
      <4>1. ItemsOf(r) # {}
        BY <1>0, <3>1 DEF Planned
      <4>2. AllWritten(r)
        BY <3>1 DEF DoneInv, CompletedMeansAllWritten, AllWritten
      <4>3. QED
        BY <4>1, <4>2
    <3>2. CASE run[r] # "COMPLETED"
      <4>1. PICK w \in Workers : /\ At(w, "save") /\ worker[w].found = "COMPLETED"
                                 /\ Job(w) \in Items /\ runOf[Job(w)] = r
        BY <1>0, <1>2, <3>2, OnlyRecountsComplete
      <4>2. AllWritten(r)
        BY <4>1 DEF DoneInv, At
      <4>3. QED
        BY <4>1, <4>2 DEF ItemsOf
    <3>3. QED
      BY <3>1, <3>2
  <2>2. QED
    BY <1>0, <2>1, AllWrittenStays
<1>3. ASSUME NEW w \in Workers, worker'[w].pc = "save", worker'[w].found = "COMPLETED"
      PROVE  AllWritten(runOf[Job(w)])'
  <2>1. /\ worker[w].job = worker'[w].job
        /\ AllWritten(runOf[Job(w)])
    <3>1. CASE worker'[w] = worker[w]
      BY <1>3, <3>1 DEF DoneInv
    <3>2. CASE /\ CountItems(w) /\ worker'[w].job = worker[w].job
               /\ worker'[w].found = RunStatusOf(Counted(w))
      BY <1>0, <1>3, <3>2, CountedCompleted
    <3>3. QED
      BY <1>0, <1>3, <3>1, <3>2, OnlyRecountsSave
  <2>2. Job(w) \in Items
    BY <1>1, <1>3, <2>1 DEF PlanInv, TypeInv, TasksShaped, Shaped, Job
  <2>3. runOf[Job(w)] \in Runs /\ ItemsOf(runOf[Job(w)]) # {} /\ item[Job(w)] # "absent"
    BY <1>0, <2>2 DEF TypeInv, TypeOK, SentIsCommitted, Outstanding, ItemsHaveRuns, ItemsOf
  <2>4. runOf'[Job(w)] = runOf[Job(w)]
    BY <1>0, <2>2, <2>3, CommittedStays DEF vars
  <2>5. AllWritten(runOf[Job(w)])' <=> \A i \in Items :
          runOf'[i] = runOf[Job(w)] /\ ~removed'[i] => item'[i] = "COMPLETED"
    BY <2>1, <2>4 DEF AllWritten, Live, ItemsOf, Job
  <2>6. PICK r \in Runs : r = runOf[Job(w)]
    BY <2>3
  <2>7. AllWritten(r)'
    BY <1>0, <2>1, <2>3, <2>6, AllWrittenStays
  <2>8. QED
    BY <2>5, <2>6, <2>7 DEF AllWritten, Live, ItemsOf
<1>4. QED
  BY <1>1, <1>2, <1>3 DEF DoneInv, CompletedMeansAllWritten, AllWritten

LEMMA InitDoneInv == ASSUME ConstantsAssumption, Init PROVE DoneInv
<1>1. \A w \in Workers : worker[w].pc # "save"
  BY IdleTaskIsTask DEF Init
<1>2. CompletedMeansAllWritten
  BY DEF Init, CompletedMeansAllWritten
<1>3. QED
  BY <1>1, <1>2, InitPlanInv, InitWriteInv DEF DoneInv

LEMMA DoneInvariant ==
  ASSUME ConstantsAssumption, NoRepeat, "roadmap_failure" \notin Faults
  PROVE  Spec => []DoneInv
<1>1. Init => DoneInv
  BY InitDoneInv
<1>2. DoneInv /\ [Next]_vars => DoneInv'
  BY NextDoneInv
<1>3. QED
  BY <1>1, <1>2, PTL DEF Spec

\* COMPLETED means that every item was written, whatever order the tasks of a run end, fail,
\* are retried and replayed in, and although each saves a status it counted earlier.
THEOREM CompletedIsWritten ==
  ASSUME ConstantsAssumption, NoRepeat, "roadmap_failure" \notin Faults
  PROVE  Spec => []CompletedMeansAllWritten
<1>1. DoneInv => CompletedMeansAllWritten
  BY DEF DoneInv
<1>2. QED
  BY <1>1, DoneInvariant, PTL

-----------------------------------------------------------------------------
(* The refinement.  Where no roadmap is drafted twice and nothing repeats  *)
(* a task, PlanGeneration implements GenerationLifecycle.                  *)

\* The item a task writes is shown as being written.
TakenUp == \A w \in Workers : worker[w].pc \in {"load", "write"} => item[Job(w)] = "PROCESSING"

\* A run has a row once its request has begun.
Opened == \A r \in Runs : request[r] = "idle" <=> run[r] = "absent"

LifeInv == DoneInv /\ TakenUp /\ Opened

\* Nothing but its own task changes the status of an item that exists.
LEMMA OnlyTasksWrite ==
  ASSUME TypeInv, [Next]_vars, NEW i \in Items, item[i] # "absent", item'[i] # item[i]
  PROVE  \E w \in Workers : /\ Job(w) = i
                            /\ StartItem(w) \/ CompleteItem(w) \/ MarkItemFailed(w)
<1> USE DEF rows
<1>0. TypeOK
  BY DEF TypeInv
<1>1. CASE \E w \in Workers : StartItem(w) \/ CompleteItem(w) \/ MarkItemFailed(w)
  BY <1>0, <1>1 DEF StartItem, CompleteItem, MarkItemFailed, TypeOK
<1>2. CASE \/ \E r \in Runs : Start(r)
           \/ \E w \in Workers : Materialize(w)
  <2>1. ASSUME NEW r, NEW S \in FreshItems, CreateItems(r, S) PROVE item'[i] = item[i]
    BY <2>1 DEF CreateItems, FreshItems
  <2>2. QED
    BY <1>2, <2>1 DEF Start, Materialize
<1>3. CASE ~ \/ \E w \in Workers : \/ StartItem(w) \/ CompleteItem(w) \/ MarkItemFailed(w)
                                   \/ Materialize(w)
             \/ \E r \in Runs : Start(r)
  <2>1. item' = item
    BY ZenonT(60), <1>3 DEF Next, vars, Begin, EnqueueDraft, SendItem, ApiCrash, RemoveItem,
       Receive, Step, Crash, Resend, Restore, Drain, OpenDraft, Refresh, FanOut, FailRun, LoadRun,
       ReloadRun, CountItems, SaveRun, Fail, Retry, Bury, LoseOutcome, Ack
  <2>2. QED
    BY <2>1
<1>4. QED
  BY <1>1, <1>2, <1>3

\* A task comes to write an item from nowhere but from its start.
LEMMA OnlyStartsTakeUp ==
  ASSUME ConstantsAssumption, TypeInv, [Next]_vars, NEW w \in Workers,
         worker'[w].pc \in {"load", "write"}
  PROVE  \/ worker'[w] = worker[w]
         \/ StartItem(w) /\ worker'[w].job = worker[w].job
         \/ LoadRun(w) /\ worker'[w].job = worker[w].job
<1> DEFINE Goal == \/ worker'[w] = worker[w]
                   \/ StartItem(w) /\ worker'[w].job = worker[w].job
                   \/ LoadRun(w) /\ worker'[w].job = worker[w].job
<1>0. TypeOK
  BY DEF TypeInv
<1>1. CASE worker' = worker
  BY <1>1
<1>2. ASSUME NEW v \in Workers, Receive(v) \/ Step(v) \/ Crash(v)
      PROVE  Goal
  <2>1. CASE StartItem(v) \/ LoadRun(v)
    BY <1>0, <2>1, StepsKeepTheJob
  <2>2. ASSUME NEW t, worker' = [worker EXCEPT ![v] = t], t.pc \notin {"load", "write"}
        PROVE  worker'[w] = worker[w]
    BY <1>0, <2>2 DEF TypeOK
  <2>3. CASE Receive(v)
    <3>1. PICK j \in Jobs, n \in Retries :
            worker' = [worker EXCEPT ![v] =
              [IdleTask EXCEPT !.pc = "received", !.job = j, !.retries = n]]
      BY Zenon, <2>3 DEF Receive
    <3>2. QED
      BY <2>2, <3>1 DEF IdleTask
  <2>4. CASE Fail(v)
    BY <2>2, <2>4 DEF Fail, IdleTask
  <2>5. CASE LoseOutcome(v)
    BY <2>2, <2>5 DEF LoseOutcome, IdleTask
  <2>6. CASE Crash(v) \/ Ack(v)
    BY <2>2, <2>6, IdleTaskIsTask DEF Crash, Ack
  <2>7. CASE \/ Refresh(v) \/ FailRun(v) \/ CompleteItem(v)
             \/ MarkItemFailed(v) \/ Retry(v) \/ Bury(v)
    <3>1. ASSUME NEW pc, pc \notin {"load", "write"}, Goto(v, pc) PROVE worker'[w] = worker[w]
      BY <1>0, <3>1 DEF Goto, TypeOK, Task
    <3>2. QED
      BY <2>7, <3>1 DEF Refresh, FailRun, CompleteItem, MarkItemFailed, Retry, Bury
  <2>8. CASE OpenDraft(v) \/ ReloadRun(v)
    <3>1. ASSUME NEW pc, NEW seen, pc \notin {"load", "write"},
                 worker' = [worker EXCEPT ![v].pc = pc, ![v].seen = seen]
          PROVE  worker'[w] = worker[w]
      BY <1>0, <3>1 DEF TypeOK, Task
    <3>2. QED
      BY <2>8, <3>1 DEF OpenDraft, ReloadRun
  <2>9. CASE Materialize(v)
    BY <1>0, <2>9 DEF Materialize, TypeOK, Task
  <2>10. CASE FanOut(v)
    BY <1>0, <2>10 DEF FanOut, TypeOK, Task
  <2>11. CASE CountItems(v)
    BY <1>0, <2>11 DEF CountItems, TypeOK, Task
  <2>12. CASE SaveRun(v)
    BY <1>0, <2>12 DEF SaveRun, TypeOK, Task
  <2>13. QED
    BY <1>2, <2>1, <2>3, <2>4, <2>5, <2>6, <2>7, <2>8, <2>9, <2>10, <2>11, <2>12 DEF Step
<1>3. QED
  BY <1>1, <1>2 DEF Next, vars, Begin, EnqueueDraft, Start, SendItem, ApiCrash, RemoveItem,
     Resend, Restore, Drain

\* No other task of the item is at work, so what a task took up stays taken up.
LEMMA NextTakenUp ==
  ASSUME ConstantsAssumption, WriteInv, TakenUp, [Next]_vars
  PROVE  TakenUp'
<1>0. /\ TypeInv /\ TypeOK /\ TasksShaped /\ SentIsCommitted
      /\ \A i \in Items : Once(i)
  BY DEF WriteInv, WrittenOnce, TypeInv
<1>1. ASSUME NEW w \in Workers, worker'[w].pc \in {"load", "write"}
      PROVE  item'[worker'[w].job] = "PROCESSING"
  <2>1. CASE worker'[w] = worker[w]
    <3>1. worker[w].pc \in {"load", "write"} /\ Job(w) \in Items /\ item[Job(w)] = "PROCESSING"
      BY <1>0, <1>1, <2>1 DEF TakenUp, TasksShaped, Shaped, Job
    <3>2. CASE item'[Job(w)] # item[Job(w)]
      <4>1. PICK v \in Workers : /\ Job(v) = Job(w)
                                 /\ StartItem(v) \/ CompleteItem(v) \/ MarkItemFailed(v)
        BY <1>0, <3>1, <3>2, OnlyTasksWrite
      <4>2. Doing(v, Job(w)) /\ Doing(w, Job(w))
        BY <3>1, <4>1 DEF Doing, At, StartItem, CompleteItem, MarkItemFailed
      <4>3. v = w
        BY <1>0, <3>1, <4>2 DEF Once
      <4>4. worker'[w].pc # worker[w].pc
        BY <1>0, <4>1, <4>3 DEF StartItem, CompleteItem, MarkItemFailed, At, Goto, TypeOK, Task
      <4>5. QED
        BY <2>1, <4>4
    <3>3. QED
      BY <2>1, <3>1, <3>2 DEF Job
  <2>2. CASE StartItem(w) /\ worker'[w].job = worker[w].job
    BY <1>0, <2>2 DEF StartItem, Writing, Job, TypeOK
  <2>3. CASE LoadRun(w) /\ worker'[w].job = worker[w].job
    BY <2>3 DEF LoadRun, At, Job, TakenUp, rows
  <2>4. QED
    BY <1>0, <1>1, <2>1, <2>2, <2>3, OnlyStartsTakeUp
<1>2. QED
  BY <1>1 DEF TakenUp, Job

\* The run of a task's item has items, and the status of a run that has some.
LEMMA RunOfATask ==
  ASSUME PlanInv, NEW w \in Workers, Job(w) \in Items
  PROVE  /\ runOf[Job(w)] \in Runs /\ ItemsOf(runOf[Job(w)]) # {}
         /\ item[Job(w)] # "absent"
         /\ Planned(runOf[Job(w)])
<1>1. item[Job(w)] # "absent"
  BY DEF PlanInv, TypeInv, SentIsCommitted, Outstanding
<1>2. runOf[Job(w)] \in Runs
  BY <1>1 DEF PlanInv, TypeInv, TypeOK, ItemsHaveRuns
<1>3. QED
  BY <1>1, <1>2 DEF ItemsOf, PlanInv, RunsPlanned

\* Only the request of a run gives it its first status.
LEMMA NextOpened ==
  ASSUME ConstantsAssumption, PlanInv, Opened, [Next]_vars
  PROVE  Opened'
<1> USE DEF rows, requests
<1>0. TypeInv /\ TypeOK /\ TasksShaped /\ SentIsCommitted /\ \A r \in Runs : Planned(r)
  BY DEF PlanInv, TypeInv, RunsPlanned
<1>1. ASSUME NEW r \in Runs, Begin(r) \/ EnqueueDraft(r) \/ Start(r) \/ SendItem(r) \/ ApiCrash(r)
      PROVE  Opened'
  BY <1>0, <1>1 DEF Begin, EnqueueDraft, Start, SendItem, ApiCrash, Opened, TypeOK
<1>2. ASSUME NEW w \in Workers, NEW r \in Runs, NEW s, s # "absent", request[r] # "idle",
             request' = request, run' = run \/ run' = [run EXCEPT ![r] = s]
      PROVE  Opened'
  BY <1>0, <1>2 DEF Opened, TypeOK
<1>3. ASSUME NEW w \in Workers, Materialize(w) \/ FailRun(w)
      PROVE  Opened'
  <2>1. Job(w) \in Runs /\ request[Job(w)] = "done"
    <3>1. Job(w) \in Runs
      BY <1>0, <1>3 DEF Materialize, FailRun, Drafting, At, TasksShaped, Shaped, Job
    <3>2. QED
      BY <1>0, <3>1 DEF SentIsCommitted, Outstanding
  <2>2. PICK s : s # "absent" /\ (run' = run \/ run' = [run EXCEPT ![Job(w)] = s])
    BY <1>3 DEF Materialize, FailRun, SetRun
  <2>3. PICK r \in Runs : r = Job(w)
    BY <2>1
  <2>4. request' = request
    BY <1>3 DEF Materialize, FailRun
  <2>5. QED
    BY <1>2, <2>1, <2>2, <2>3, <2>4
<1>4. ASSUME NEW w \in Workers, SaveRun(w)
      PROVE  Opened'
  <2>1. Job(w) \in Items /\ worker[w].found \in {"RUNNING", "PARTIAL", "COMPLETED"}
    BY <1>0, <1>4 DEF SaveRun, At, TasksShaped, Shaped, Job
  <2>2. PICK r \in Runs : r = runOf[Job(w)] /\ request[r] # "idle"
    BY <2>1, RunOfATask DEF Planned
  <2>3. run' = run \/ run' = [run EXCEPT ![r] = worker[w].found]
    BY <1>4, <2>2 DEF SaveRun, SetRun
  <2>4. request' = request
    BY <1>4 DEF SaveRun
  <2>5. QED
    BY <1>2, <2>1, <2>2, <2>3, <2>4
<1>5. CASE run' = run /\ request' = request
  BY <1>5 DEF Opened
<1>6. QED
  BY ZenonT(60), <1>1, <1>3, <1>4, <1>5 DEF Next, vars, RemoveItem, Receive, Step, Crash, Resend,
     Restore, Drain, OpenDraft, Refresh, FanOut, StartItem, LoadRun, CompleteItem, MarkItemFailed,
     ReloadRun, CountItems, Fail, Retry, Bury, LoseOutcome, Ack

LEMMA NextLifeInv ==
  ASSUME ConstantsAssumption, NoRepeat, "roadmap_failure" \notin Faults, LifeInv, [Next]_vars
  PROVE  LifeInv'
<1>1. PlanInv /\ WriteInv
  BY DEF LifeInv, DoneInv
<1>2. QED
  BY <1>1, NextDoneInv, NextTakenUp, NextOpened DEF LifeInv

\* GenerationLifecycle counts as PlanGeneration does.
LEMMA SameCardinality == \A S : Lifecycle!Cardinality(S) = Cardinality(S)
BY DEF Cardinality, Lifecycle!Cardinality

\* A roadmap is the first and only one of its run.
LEMMA PlansOnce ==
  ASSUME PlanInv, Opened, NEW r \in Runs, NEW S \in FreshItems, CreateItems(r, S),
         request[r] = "idle" \/ \E w \in Workers : Job(w) = r /\ At(w, "draft"),
         run' = [run EXCEPT ![r] = "RUNNING"], removed' = removed
  PROVE  Lifecycle!Plan(r)
<1>1. Planned(r)
  BY DEF PlanInv, RunsPlanned
<1>2. ItemsOf(r) = {}
  BY <1>1 DEF Planned, At
<1>3. run[r] \in {"absent", "PLANNING", "FAILED"}
  BY <1>1, <1>2 DEF Planned
<1>4. Lifecycle!Roadmap(r) = {} /\ Lifecycle!Shows(r, "RUNNING")
  BY <1>2 DEF Lifecycle!Roadmap, Lifecycle!Shows, ItemsOf
<1>5. /\ S \in SUBSET {i \in Items : item[i] = "absent"} /\ Cardinality(S) \in RoadmapSizes
      /\ item'  = [i \in Items |-> IF i \in S THEN "PENDING" ELSE item[i]]
      /\ runOf' = [i \in Items |-> IF i \in S THEN r ELSE runOf[i]]
  BY DEF FreshItems, CreateItems
<1>6. \E T \in SUBSET {i \in Items : item[i] = "absent"} :
        /\ Lifecycle!Cardinality(T) \in RoadmapSizes
        /\ item'  = [i \in Items |-> IF i \in T THEN "PENDING" ELSE item[i]]
        /\ runOf' = [i \in Items |-> IF i \in T THEN r ELSE runOf[i]]
  BY Zenon, <1>5, SameCardinality
<1>7. QED
  BY <1>3, <1>4, <1>6 DEF Lifecycle!Plan

LEMMA RequestsImplement ==
  ASSUME LifeInv, NEW r \in Runs, Begin(r) \/ Start(r)
  PROVE  Lifecycle!Open(r) \/ Lifecycle!Plan(r)
<1>1. CASE Begin(r)
  BY <1>1 DEF Begin, LifeInv, Opened, Lifecycle!Open, Lifecycle!Shows
<1>2. CASE Start(r)
  <2>1. PICK S \in FreshItems : CreateItems(r, S)
    BY <1>2 DEF Start
  <2>2. QED
    BY <1>2, <2>1, PlansOnce DEF Start, LifeInv, DoneInv
<1>3. QED
  BY <1>1, <1>2

\* The drafting of a run gives it its roadmap, or refuses it one.
LEMMA DraftsImplement ==
  ASSUME ConstantsAssumption, LifeInv, NEW w \in Workers, Materialize(w) \/ FailRun(w)
  PROVE  Job(w) \in Runs /\ (Lifecycle!Plan(Job(w)) \/ Lifecycle!Refuse(Job(w)))
<1>0. PlanInv /\ TypeInv /\ TypeOK /\ TasksShaped /\ SentIsCommitted /\ Opened
  BY DEF LifeInv, DoneInv, PlanInv, TypeInv
<1>1. Job(w) \in Runs
  BY <1>0 DEF Materialize, FailRun, Drafting, At, TasksShaped, Shaped, Job
<1>2. PICK r \in Runs : r = Job(w)
  BY <1>1
<1>3. Planned(r)
  BY <1>0 DEF PlanInv, RunsPlanned
<1>4. request[r] = "done"
  BY <1>0, <1>2 DEF SentIsCommitted, Outstanding
<1>5. ItemsOf(r) = {}
  BY <1>2, <1>3 DEF Planned, Materialize, FailRun, At
<1>6. run[r] \in {"PLANNING", "FAILED"}
  BY <1>0, <1>3, <1>4, <1>5 DEF Planned, Opened
<1>7. CASE Materialize(w)
  <2>1. PICK S \in FreshItems : CreateItems(r, S)
    BY <1>2, <1>7 DEF Materialize
  <2>2. At(w, "draft") /\ worker[w].seen # "RUNNING"
    BY <1>2, <1>3, <1>7 DEF Planned, Materialize
  <2>3. run' = [run EXCEPT ![r] = "RUNNING"] /\ removed' = removed
    BY <1>2, <1>7, <2>2 DEF Materialize, SetRun
  <2>4. QED
    BY <1>0, <1>2, <2>1, <2>2, <2>3, PlansOnce
<1>8. CASE FailRun(w)
  BY <1>2, <1>5, <1>6, <1>8 DEF FailRun, Lifecycle!Refuse, Lifecycle!Shows, Lifecycle!Roadmap,
     ItemsOf
<1>9. QED
  BY <1>7, <1>8

\* The writing of an item shows it taken up, written or given up; never written twice.
LEMMA WritingImplements ==
  ASSUME ConstantsAssumption, LifeInv, NEW w \in Workers,
         StartItem(w) \/ CompleteItem(w) \/ MarkItemFailed(w)
  PROVE  /\ Job(w) \in Items
         /\ Lifecycle!Take(Job(w)) \/ Lifecycle!Write(Job(w)) \/ Lifecycle!GiveUp(Job(w))
<1>0. /\ PlanInv /\ TypeInv /\ TypeOK /\ TasksShaped /\ TakenUp
      /\ \A i \in Items : Settled(i)
  BY DEF LifeInv, DoneInv, PlanInv, WriteInv, TypeInv
<1>1. Job(w) \in Items
  BY <1>0 DEF StartItem, CompleteItem, MarkItemFailed, Writing, At, TasksShaped, Shaped, Job
<1>2. item[Job(w)] \in ItemStatus /\ item[Job(w)] # "absent"
  BY <1>0, <1>1, RunOfATask DEF TypeOK
<1>3. CASE StartItem(w) \/ MarkItemFailed(w)
  <2>1. Doing(w, Job(w)) /\ worker[w].pc \notin {"count", "save"}
    BY <1>3 DEF Doing, At, StartItem, MarkItemFailed
  <2>2. item[Job(w)] # "COMPLETED"
    BY <1>0, <1>1, <2>1 DEF Settled
  <2>3. item[Job(w)] \in Lifecycle!Unwritten
    BY <1>2, <2>2 DEF ItemStatus, Lifecycle!Unwritten
  <2>4. QED
    BY <1>1, <1>3, <2>3 DEF StartItem, MarkItemFailed, Lifecycle!Take, Lifecycle!GiveUp,
       Lifecycle!ShowsItem
<1>4. CASE CompleteItem(w)
  BY <1>0, <1>1, <1>4 DEF CompleteItem, TakenUp, At, Lifecycle!Write, Lifecycle!ShowsItem
<1>5. QED
  BY <1>3, <1>4

\* A recount shows what the items of the run are, or were; COMPLETED only what they are.
LEMMA RecountsImplement ==
  ASSUME ConstantsAssumption, LifeInv, NEW w \in Workers, SaveRun(w)
  PROVE  \/ UNCHANGED Lifecycle!vars
         \/ \E r \in Runs : Lifecycle!Recount(r)
<1>0. PlanInv /\ TasksShaped
  BY DEF LifeInv, DoneInv, PlanInv, TypeInv
<1>1. /\ Job(w) \in Items /\ worker[w].pc = "save"
      /\ worker[w].found \in {"RUNNING", "PARTIAL", "COMPLETED"}
  BY <1>0 DEF SaveRun, At, TasksShaped, Shaped, Job
<1>2. PICK r \in Runs : r = runOf[Job(w)] /\ ItemsOf(r) # {}
  BY <1>0, <1>1, RunOfATask
<1>3. worker[w].found = "COMPLETED" => AllWritten(r)
  BY <1>1, <1>2 DEF LifeInv, DoneInv
<1>4. UNCHANGED << item, runOf, removed >>
  BY DEF SaveRun
<1>5. run' = run \/ run' = [run EXCEPT ![r] = worker[w].found]
  BY <1>2 DEF SaveRun, SetRun
<1>6. CASE run' = run
  BY <1>4, <1>6 DEF Lifecycle!vars
<1>7. CASE run' = [run EXCEPT ![r] = worker[w].found]
  <2>1. Lifecycle!Recount(r)
    BY <1>1, <1>2, <1>3, <1>4, <1>7 DEF Lifecycle!Recount, Lifecycle!Roadmap, Lifecycle!Shows,
       AllWritten, Live, ItemsOf
  <2>2. QED
    BY <2>1
<1>8. QED
  BY <1>5, <1>6, <1>7

LEMMA NextImplements ==
  ASSUME ConstantsAssumption, LifeInv, [Next]_vars
  PROVE  [Lifecycle!Next]_(Lifecycle!vars)
<1> USE DEF Lifecycle!Next
<1>1. CASE UNCHANGED rows
  BY <1>1 DEF rows, Lifecycle!vars
<1>2. ASSUME NEW r \in Runs, Begin(r) \/ Start(r)
      PROVE  Lifecycle!Next
  BY <1>2, RequestsImplement
<1>3. ASSUME NEW w \in Workers, Materialize(w) \/ FailRun(w)
      PROVE  Lifecycle!Next
  BY <1>3, DraftsImplement
<1>4. ASSUME NEW w \in Workers, StartItem(w) \/ CompleteItem(w) \/ MarkItemFailed(w)
      PROVE  Lifecycle!Next
  BY <1>4, WritingImplements
<1>5. ASSUME NEW w \in Workers, SaveRun(w)
      PROVE  Lifecycle!Next \/ UNCHANGED Lifecycle!vars
  BY <1>5, RecountsImplement
<1>6. ASSUME NEW i \in Items, RemoveItem(i)
      PROVE  Lifecycle!Next
  BY <1>6 DEF RemoveItem, Lifecycle!Remove
<1>7. QED
  BY ZenonT(60), <1>1, <1>2, <1>3, <1>4, <1>5, <1>6
     DEF Next, vars, rows, EnqueueDraft, SendItem, ApiCrash, Receive, Step, Crash, Resend,
         Restore, Drain, OpenDraft, Refresh, FanOut, LoadRun, ReloadRun, CountItems, Fail, Retry,
         Bury, LoseOutcome, Ack

\* Whoever polls a run sees the simple life of GenerationLifecycle: it gets one roadmap, whole,
\* or is FAILED without one; each of its items is taken up, written or given up, and what is
\* written stays so; and it is COMPLETED only when all that is left of it is written, whatever
\* recounts overtake each other.  It takes no worker that dies and no recount or roadmap whose
\* own failure repeats it.
THEOREM GenerationImplementsLifecycle ==
  ASSUME ConstantsAssumption, NoRepeat, "roadmap_failure" \notin Faults
  PROVE  Spec => ImplementsLifecycle
<1>1. Init => LifeInv
  <2>1. Init => TakenUp /\ Opened
    BY IdleTaskIsTask DEF Init, TakenUp, Opened
  <2>2. Init => DoneInv
    BY InitDoneInv
  <2>3. QED
    BY <2>1, <2>2 DEF LifeInv
<1>2. Init => Lifecycle!Init
  BY DEF Init, Lifecycle!Init
<1>3. LifeInv /\ [Next]_vars => LifeInv'
  BY NextLifeInv
<1>4. LifeInv /\ [Next]_vars => [Lifecycle!Next]_(Lifecycle!vars)
  BY NextImplements
<1>5. QED
  BY <1>1, <1>2, <1>3, <1>4, PTL DEF Spec, ImplementsLifecycle, Lifecycle!Spec

-----------------------------------------------------------------------------
(* No item is forgotten.  An item that is not written is with somebody who *)
(* will act on it: a task at its last step, or one that wrote the item and *)
(* now counts, is not enough.                                              *)

Answering(w, i) ==
  /\ Job(w) = i
  /\ \/ worker[w].pc \in {"received", "load", "write", "settle", "reload", "bury"}
     \/ worker[w].pc \in {"count", "save"} /\ worker[w].failing

Answered(i) ==
  \/ InRequest(i) \/ InFanOut(i) \/ InQueue(i) \/ InLimbo(i)
  \/ InLetters(i) \/ InReplay(i) \/ \E w \in Workers : Answering(w, i)

Owed(i) == item[i] \in {"PENDING", "PROCESSING", "FAILED"} /\ request[runOf[i]] # "crashed"

\* Only the loop of a request has items to send.
LoopsSend == \A r \in Runs : request[r] # "fanout" => unsent[r] = {}

AnswerInv == TypeInv /\ LoopsSend /\ \A i \in Items : Owed(i) => Answered(i)

\* A message for a job is somewhere in its queue.
LEMMA PlusIsInQueue ==
  ASSUME NEW bag \in [Jobs -> [Retries -> Nat]], NEW j \in Jobs, NEW n \in Retries, NEW i \in Jobs,
         (i = j) \/ \E m \in Retries : bag[i][m] > 0
  PROVE  \E m \in Retries : Plus(bag, j, n)[i][m] > 0
<1>1. CASE i = j
  <2>1. bag[j][n] \in Nat
    OBVIOUS
  <2>2. Plus(bag, j, n)[i][n] > 0
    BY <1>1, <2>1 DEF Plus
  <2>3. QED
    BY <2>2
<1>2. ASSUME NEW m \in Retries, bag[i][m] > 0 PROVE Plus(bag, j, n)[i][m] > 0
  BY <1>2 DEF Plus
<1>3. QED
  BY <1>1, <1>2

\* The requests, the teacher, the broker and the operator keep every item answered for.
LEMMA OthersKeepItemsAnswered ==
  ASSUME ConstantsAssumption, TypeInv, LoopsSend, NEW i \in Items, Answered(i),
         request'[runOf[i]] # "crashed",
         \/ \E r \in Runs : Begin(r) \/ EnqueueDraft(r) \/ Start(r) \/ SendItem(r) \/ ApiCrash(r)
         \/ \E k \in Items : RemoveItem(k)
         \/ \E j \in Jobs : Resend(j) \/ \E n \in Retries : Restore(j, n)
         \/ Drain
  PROVE  Answered(i)'
<1> USE DEF rows, requests, broker, letters, bounds
<1>0. /\ TypeOK /\ SentIsCommitted /\ i \in Jobs /\ Runs \cap Items = {} /\ Runs \subseteq Jobs
      /\ 0 \in Retries
  BY IdleTaskIsTask DEF TypeInv, Jobs, ConstantsAssumption
<1>1. worker' = worker /\ (InFanOut(i)' <=> InFanOut(i))
      /\ \A w \in Workers : Answering(w, i)' <=> Answering(w, i)
  BY DEF Begin, EnqueueDraft, Start, SendItem, ApiCrash, RemoveItem, Resend, Restore, Drain,
     InFanOut, Answering, Job
<1>2. ASSUME NEW r \in Runs, Begin(r) \/ EnqueueDraft(r) \/ Start(r) \/ SendItem(r) \/ ApiCrash(r)
      PROVE  Answered(i)'
  <2>1. CASE Begin(r)
    BY <1>1, <2>1 DEF Begin, Answered, InRequest, InQueue, InLimbo, InLetters, InReplay
  <2>2. CASE EnqueueDraft(r)
    <3>1. InQueue(i) => InQueue(i)'
      BY <1>0, <2>2, PlusIsInQueue DEF EnqueueDraft, InQueue, TypeOK
    <3>2. QED
      BY <1>1, <2>2, <3>1 DEF EnqueueDraft, Answered, InRequest, InLimbo, InLetters, InReplay
  <2>3. CASE Start(r)
    <3>1. InRequest(i) => InRequest(i)'
      <4>1. unsent[r] = {}
        BY <2>3 DEF Start, LoopsSend
      <4>2. QED
        BY <1>0, <2>3, <4>1 DEF Start, InRequest, TypeOK
    <3>2. QED
      BY <1>1, <2>3, <3>1 DEF Start, Answered, InQueue, InLimbo, InLetters, InReplay
  <2>4. CASE SendItem(r)
    <3>1. PICK k \in unsent[r] : /\ ready' = Plus(ready, k, 0)
                                 /\ unsent' = [unsent EXCEPT ![r] = @ \ {k}]
      BY <2>4 DEF SendItem
    <3>2. k \in Jobs
      BY <1>0, <3>1 DEF TypeOK, Jobs
    <3>3. InQueue(i) \/ i = k => InQueue(i)'
      BY <1>0, <3>1, <3>2, PlusIsInQueue DEF InQueue, TypeOK
    <3>4. InRequest(i) => InRequest(i)' \/ i = k
      BY <1>0, <3>1 DEF InRequest, TypeOK
    <3>5. QED
      BY <1>1, <2>4, <3>3, <3>4 DEF SendItem, Answered, InLimbo, InLetters, InReplay
  <2>5. CASE ApiCrash(r)
    <3>1. i \notin unsent[r]
      BY <1>0, <2>5 DEF ApiCrash, TypeOK, SentIsCommitted, ItemsOf
    <3>2. InRequest(i) => InRequest(i)'
      BY <1>0, <2>5, <3>1 DEF ApiCrash, InRequest, TypeOK
    <3>3. QED
      BY <1>1, <2>5, <3>2 DEF ApiCrash, Answered, InQueue, InLimbo, InLetters, InReplay
  <2>6. QED
    BY <1>2, <2>1, <2>2, <2>3, <2>4, <2>5
<1>3. ASSUME NEW k \in Items, RemoveItem(k) PROVE Answered(i)'
  BY <1>1, <1>3 DEF RemoveItem, Answered, InRequest, InQueue, InLimbo, InLetters, InReplay
<1>4. ASSUME NEW j \in Jobs, Resend(j) PROVE Answered(i)'
  <2>1. InQueue(i) \/ i = j => InQueue(i)'
    BY <1>0, <1>4, PlusIsInQueue DEF Resend, InQueue, TypeOK
  <2>2. InReplay(i) => InReplay(i)' \/ i = j
    BY <1>0, <1>4 DEF Resend, InReplay, TypeOK
  <2>3. QED
    BY <1>1, <1>4, <2>1, <2>2 DEF Resend, Answered, InRequest, InLimbo, InLetters
<1>5. ASSUME NEW j \in Jobs, NEW n \in Retries, Restore(j, n) PROVE Answered(i)'
  <2>1. InQueue(i) \/ i = j => InQueue(i)'
    BY <1>0, <1>5, PlusIsInQueue DEF Restore, InQueue, TypeOK
  <2>2. i # j => unacked'[i] = unacked[i]
    BY <1>0, <1>5 DEF Restore, Minus, TypeOK
  <2>3. QED
    BY <1>1, <1>5, <2>1, <2>2 DEF Restore, InLimbo, Answered, InRequest, InLetters, InReplay
<1>6. CASE Drain
  <2>1. InLetters(i) \/ InReplay(i) => InReplay(i)'
    BY <1>0, <1>6 DEF Drain, InLetters, InReplay, TypeOK
  <2>2. QED
    BY <1>1, <1>6, <2>1 DEF Drain, Answered, InRequest, InQueue, InLimbo
<1>7. QED
  BY <1>2, <1>3, <1>4, <1>5, <1>6

\* The workers keep every item answered for that they do not write.
LEMMA WorkersKeepItemsAnswered ==
  ASSUME ConstantsAssumption, "write_failure" \notin Faults, "roadmap_failure" \notin Faults,
         TypeInv, NEW i \in Items, Answered(i), NEW w \in Workers,
         Receive(w) \/ Step(w) \/ Crash(w)
  PROVE  Answered(i)' \/ item'[i] = "COMPLETED"
<1> USE DEF rows, requests, broker, letters, bounds
<1>0. /\ TypeOK /\ TasksShaped /\ i \in Jobs /\ Runs \cap Items = {} /\ Runs \subseteq Jobs
      /\ Items \subseteq Jobs /\ 0 \in Retries /\ NoJob \notin Jobs /\ i # NoJob
      /\ Shaped(worker[w]) /\ worker[w] \in Task
  BY DEF TypeInv, Jobs, ConstantsAssumption, TasksShaped, TypeOK, Retries
<1>1. /\ unsent' = unsent /\ replaying' = replaying
      /\ \A v \in Workers : v # w => worker'[v] = worker[v]
  BY ZenonT(60), <1>0 DEF Receive, Step, Crash, OpenDraft, Materialize, Refresh, FanOut,
     FailRun, StartItem, LoadRun, CompleteItem, MarkItemFailed, ReloadRun, CountItems, SaveRun,
     Fail, Retry, Bury, LoseOutcome, Ack, Goto, TypeOK
<1>2. ASSUME NEW v \in Workers, v # w
      PROVE  /\ Answering(v, i) => Answering(v, i)'
             /\ i \in worker[v].toSend => i \in worker'[v].toSend
  BY <1>1, <1>2 DEF Answering, Job
<1>3. SUFFICES ASSUME \/ InQueue(i) /\ ~InQueue(i)'
                      \/ InLimbo(i) /\ ~InLimbo(i)'
                      \/ InLetters(i) /\ ~InLetters(i)'
                      \/ i \in worker[w].toSend /\ i \notin worker'[w].toSend
                      \/ Answering(w, i) /\ ~Answering(w, i)'
               PROVE  InQueue(i)' \/ InLimbo(i)' \/ InLetters(i)' \/ Answering(w, i)'
                      \/ item'[i] = "COMPLETED"
  BY <1>1, <1>2 DEF Answered, InRequest, InFanOut, InReplay
<1>4. CASE Receive(w)
  <2>1. PICK j \in Jobs, n \in Retries :
          /\ ready' = Minus(ready, j, n)
          /\ worker' = [worker EXCEPT ![w] =
               [IdleTask EXCEPT !.pc = "received", !.job = j, !.retries = n]]
    BY Zenon, <1>4 DEF Receive
  <2>2. worker[w].toSend = {} /\ Job(w) \notin Jobs
    BY Zenon, <1>0, <1>4 DEF Receive, At, Shaped, Job
  <2>3. i # j => (InQueue(i) => InQueue(i)')
    BY <1>0, <2>1 DEF TypeOK, InQueue, Minus
  <2>4. i = j => Answering(w, i)'
    BY <1>0, <2>1 DEF Answering, Job, TypeOK, IdleTask
  <2>5. QED
    BY Zenon, <1>0, <1>3, <1>4, <2>2, <2>3, <2>4 DEF Receive, InLimbo, InLetters, Answering
<1>5. CASE Crash(w)
  <2>1. ~RoadmapIsOut(w) \/ Job(w) \notin Runs \/ worker[w].pc = "ack"
    BY <1>5 DEF Crash, RoadmapIsOut, Drafting
  <2>2. worker[w].toSend = {}
    BY <1>0, <1>5 DEF Crash, Shaped, RoadmapIsOut, Drafting, Job
  <2>3. Job(w) = i => InLimbo(i)'
    BY <1>0, <1>5, PlusIsInQueue DEF Crash, InLimbo, TypeOK, Task
  <2>4. InLimbo(i) => InLimbo(i)'
    <3>1. Job(w) \in Jobs /\ worker[w].retries \in Retries
      BY <1>0, <1>5 DEF Crash, At, Shaped, Job, Task
    <3>2. QED
      BY <1>0, <1>5, <3>1, PlusIsInQueue DEF Crash, InLimbo, TypeOK
  <2>5. QED
    BY <1>3, <1>5, <2>2, <2>3, <2>4 DEF Crash, InQueue, InLetters, Answering
<1>6. CASE Fail(w)
  <2>1. worker[w].toSend = {}
    BY <1>0, <1>6 DEF Fail, Attempting, Late, Shaped, Drafting, Job, Jobs
  <2>2. Job(w) = i => Answering(w, i)'
    BY <1>0, <1>6 DEF Fail, Answering, Job, TypeOK, IdleTask
  <2>3. QED
    BY <1>3, <1>6, <2>1, <2>2 DEF Fail, InQueue, InLimbo, InLetters, Answering
<1>7. CASE Retry(w) \/ Bury(w) \/ Ack(w)
  <2>1. worker[w].toSend = {} /\ (Answering(w, i) => ~At(w, "ack"))
    BY <1>0, <1>7 DEF Retry, Bury, Ack, At, Shaped, Answering
  <2>2. CASE Retry(w)
    <3>1. Job(w) \in Jobs /\ worker[w].retries + 1 \in Retries
      BY <1>0, <2>2 DEF Retry, At, Shaped, Job, Task, Retries, ConstantsAssumption
    <3>2. InQueue(i) \/ Job(w) = i => InQueue(i)'
      BY <1>0, <2>2, <3>1, PlusIsInQueue DEF Retry, InQueue, TypeOK
    <3>3. QED
      BY <1>3, <2>1, <2>2, <3>2 DEF Retry, InLimbo, InLetters, Answering
  <2>3. CASE Bury(w)
    <3>1. InLetters(i) \/ Job(w) = i => InLetters(i)'
      BY <1>0, <2>3 DEF Bury, InLetters, TypeOK
    <3>2. QED
      BY <1>3, <2>1, <2>3, <3>1 DEF Bury, InQueue, InLimbo, Answering
  <2>4. CASE Ack(w)
    BY <1>3, <2>1, <2>4 DEF Ack, InQueue, InLimbo, InLetters
  <2>5. QED
    BY <1>7, <2>2, <2>3, <2>4
<1>8. CASE LoseOutcome(w)
  BY <1>8 DEF LoseOutcome
<1>9. CASE FanOut(w)
  <2>1. Job(w) # i
    BY <1>0, <1>9 DEF FanOut, At, Shaped, Job
  <2>2. PICK k \in worker[w].toSend :
          /\ ready' = Plus(ready, k, 0)
          /\ worker' = [worker EXCEPT ![w].toSend = worker[w].toSend \ {k},
                          ![w].pc = IF worker[w].toSend = {k} THEN "ack" ELSE "fanout"]
    BY <1>9 DEF FanOut
  <2>3. k \in Jobs
    BY <1>0 DEF Task, Jobs
  <2>4. InQueue(i) \/ i = k => InQueue(i)'
    BY <1>0, <2>2, <2>3, PlusIsInQueue DEF InQueue, TypeOK
  <2>5. i # k => (i \in worker[w].toSend => i \in worker'[w].toSend)
    BY <1>0, <2>2 DEF TypeOK
  <2>6. QED
    BY <1>3, <1>9, <2>1, <2>4, <2>5 DEF FanOut, InLimbo, InLetters, Answering
<1>10. CASE \/ OpenDraft(w) \/ Materialize(w) \/ Refresh(w) \/ FailRun(w)
  <2>1. Job(w) # i \/ At(w, "refresh")
    BY <1>0, <1>10 DEF OpenDraft, Materialize, Refresh, FailRun, At, Shaped, Job, Drafting
  <2>2. ~Answering(w, i)
    BY <2>1 DEF Answering, At
  <2>3. i \in worker[w].toSend => i \in worker'[w].toSend
    <3>1. CASE OpenDraft(w) \/ Materialize(w)
      BY <1>0, <3>1 DEF OpenDraft, Materialize, At, Shaped
    <3>2. CASE Refresh(w) \/ FailRun(w)
      BY <1>0, <3>2 DEF Refresh, FailRun, Goto, TypeOK, Task
    <3>3. QED
      BY <1>10, <3>1, <3>2
  <2>4. QED
    BY <1>3, <1>10, <2>2, <2>3 DEF OpenDraft, Materialize, Refresh, FailRun, InQueue, InLimbo,
       InLetters
<1>11. CASE CompleteItem(w)
  <2>1. worker[w].toSend = {} /\ (Job(w) = i => item'[i] = "COMPLETED")
    BY <1>0, <1>11 DEF CompleteItem, At, Shaped, Job, TypeOK
  <2>2. QED
    BY <1>3, <1>11, <2>1 DEF CompleteItem, InQueue, InLimbo, InLetters, Answering
<1>12. CASE StartItem(w) \/ LoadRun(w) \/ MarkItemFailed(w) \/ ReloadRun(w) \/ CountItems(w)
            \/ SaveRun(w)
  <2>1. worker[w].toSend = {}
    BY <1>0, <1>12 DEF StartItem, LoadRun, MarkItemFailed, ReloadRun, CountItems, SaveRun, At,
       Shaped
  <2>2. Answering(w, i) => Answering(w, i)'
    <3>1. CASE StartItem(w) \/ MarkItemFailed(w)
      BY <1>0, <3>1 DEF StartItem, MarkItemFailed, Goto, Answering, Job, TypeOK, Task
    <3>2. CASE LoadRun(w)
      BY <1>0, <3>2 DEF LoadRun, Answering, Job, TypeOK, Task
    <3>3. CASE ReloadRun(w)
      BY <1>0, <3>3 DEF ReloadRun, At, Shaped, Answering, Job, TypeOK, Task
    <3>4. CASE CountItems(w)
      BY <1>0, <3>4 DEF CountItems, At, Answering, Job, TypeOK, Task
    <3>5. CASE SaveRun(w)
      BY <1>0, <3>5 DEF SaveRun, At, Answering, Job, TypeOK, Task
    <3>6. QED
      BY <1>12, <3>1, <3>2, <3>3, <3>4, <3>5
  <2>3. QED
    BY <1>3, <1>12, <2>1, <2>2 DEF StartItem, LoadRun, MarkItemFailed, ReloadRun, CountItems,
       SaveRun, InQueue, InLimbo, InLetters
<1>13. QED
  BY <1>4, <1>5, <1>6, <1>7, <1>8, <1>9, <1>10, <1>11, <1>12 DEF Step

\* An item that becomes owed has somebody who does it: the loop that is to send it, or the
\* task that took it up or marked it failed.
LEMMA OwedIsAnswered ==
  ASSUME ConstantsAssumption, TypeInv, [Next]_vars, NEW i \in Items, Owed(i)', ~Owed(i)
  PROVE  Answered(i)'
<1> USE DEF rows, requests, broker, letters, bounds
<1>0. TypeOK /\ ItemsHaveRuns
  BY DEF TypeInv
<1>1. ASSUME NEW r \in Runs, Start(r)
      PROVE  Answered(i)' \/ item'[i] = item[i]
  BY <1>0, <1>1 DEF Start, CreateItems, TypeOK, Answered, InRequest
<1>2. ASSUME NEW w \in Workers, Materialize(w)
      PROVE  Answered(i)' \/ item'[i] = item[i]
  BY <1>0, <1>2 DEF Materialize, CreateItems, TypeOK, Task, Answered, InFanOut
<1>3. ASSUME NEW w \in Workers, StartItem(w) \/ MarkItemFailed(w)
      PROVE  Answered(i)' \/ item'[i] = item[i]
  BY <1>0, <1>3 DEF StartItem, MarkItemFailed, Goto, TypeOK, Task, Answered, Answering, Job
<1>4. ASSUME NEW w \in Workers, CompleteItem(w) PROVE item'[i] = item[i] \/ item'[i] = "COMPLETED"
  BY <1>0, <1>4 DEF CompleteItem, TypeOK
<1>5. \/ \E r \in Runs : Start(r)
      \/ \E w \in Workers : Materialize(w) \/ StartItem(w) \/ MarkItemFailed(w) \/ CompleteItem(w)
      \/ item' = item
  BY ZenonT(60) DEF Next, vars, Begin, EnqueueDraft, SendItem, ApiCrash, RemoveItem, Receive,
     Step, Crash, Resend, Restore, Drain, OpenDraft, Refresh, FanOut, FailRun, LoadRun,
     ReloadRun, CountItems, SaveRun, Fail, Retry, Bury, LoseOutcome, Ack
<1>6. Answered(i)' \/ item'[i] = item[i]
  BY <1>1, <1>2, <1>3, <1>4, <1>5 DEF Owed
<1>7. CASE item'[i] = item[i]
  <2>1. item[i] # "absent"
    BY <1>7 DEF Owed
  <2>2. runOf'[i] = runOf[i] /\ runOf[i] \in Runs
    BY <1>0, <2>1, CommittedStays DEF vars, ItemsHaveRuns, TypeOK
  <2>3. request[runOf[i]] = "crashed"
    BY <1>7 DEF Owed
  <2>4. request'[runOf[i]] = "crashed"
    <3>1. ASSUME NEW r \in Runs, Begin(r) \/ EnqueueDraft(r) \/ Start(r) \/ SendItem(r) \/ ApiCrash(r)
          PROVE  request'[runOf[i]] = "crashed"
      BY <1>0, <2>2, <2>3, <3>1 DEF Begin, EnqueueDraft, Start, SendItem, ApiCrash, TypeOK
    <3>2. CASE request' = request
      BY <2>3, <3>2
    <3>3. QED
      BY ZenonT(60), <3>1, <3>2 DEF Next, vars, RemoveItem, Receive, Step, Crash,
         Resend, Restore, Drain, OpenDraft, Materialize, Refresh, FanOut, FailRun, StartItem,
         LoadRun, CompleteItem, MarkItemFailed, ReloadRun, CountItems, SaveRun, Fail, Retry, Bury,
         LoseOutcome, Ack
  <2>5. QED
    BY <2>2, <2>4 DEF Owed
<1>8. QED
  BY <1>6, <1>7

\* A loop of a request that has nothing left to send is over.
LEMMA NextLoopsSend ==
  ASSUME TypeInv, LoopsSend, [Next]_vars
  PROVE  LoopsSend'
<1> USE DEF rows, requests, broker, letters, bounds
<1>0. TypeOK
  BY DEF TypeInv
<1>1. ASSUME NEW r \in Runs, Begin(r) \/ EnqueueDraft(r) \/ Start(r) \/ SendItem(r) \/ ApiCrash(r)
      PROVE  LoopsSend'
  BY <1>0, <1>1 DEF Begin, EnqueueDraft, Start, SendItem, ApiCrash, LoopsSend, TypeOK
<1>2. CASE requests' = requests
  BY <1>2 DEF LoopsSend
<1>3. QED
  BY ZenonT(60), <1>1, <1>2 DEF Next, vars, RemoveItem, Receive, Step, Crash, Resend, Restore,
     Drain, OpenDraft, Materialize, Refresh, FanOut, FailRun, StartItem, LoadRun, CompleteItem,
     MarkItemFailed, ReloadRun, CountItems, SaveRun, Fail, Retry, Bury, LoseOutcome, Ack

LEMMA NextAnswerInv ==
  ASSUME ConstantsAssumption, "write_failure" \notin Faults, "roadmap_failure" \notin Faults,
         AnswerInv, [Next]_vars
  PROVE  AnswerInv'
<1>0. TypeInv /\ LoopsSend
  BY DEF AnswerInv
<1>1. TypeInv' /\ LoopsSend'
  BY <1>0, NextTypeInv, NextLoopsSend
<1>2. ASSUME NEW i \in Items, Owed(i)' PROVE Answered(i)'
  <2>1. CASE ~Owed(i)
    BY <1>0, <1>2, <2>1, OwedIsAnswered
  <2>2. CASE Owed(i)
    <3>1. Answered(i)
      BY <2>2 DEF AnswerInv
    <3>2. CASE vars' = vars
      BY <3>1, <3>2 DEF vars, Answered, InRequest, InFanOut, InQueue, InLimbo, InLetters, InReplay,
         Answering, Job
    <3>3. CASE \E w \in Workers : Receive(w) \/ Step(w) \/ Crash(w)
      BY <1>0, <1>2, <3>1, <3>3, WorkersKeepItemsAnswered DEF Owed
    <3>4. CASE \/ \E r \in Runs : \/ Begin(r) \/ EnqueueDraft(r) \/ Start(r) \/ SendItem(r)
                                  \/ ApiCrash(r)
               \/ \E k \in Items : RemoveItem(k)
               \/ \E j \in Jobs : Resend(j) \/ \E n \in Retries : Restore(j, n)
               \/ Drain
      <4>1. item[i] # "absent"
        BY <2>2 DEF Owed
      <4>2. Next
        BY <3>4 DEF Next
      <4>3. request'[runOf[i]] # "crashed"
        BY <1>0, <1>2, <4>1, <4>2, CommittedStays DEF Owed
      <4>4. QED
        BY <1>0, <3>1, <3>4, <4>3, OthersKeepItemsAnswered
    <3>5. QED
      BY <3>2, <3>3, <3>4 DEF Next
  <2>3. QED
    BY <2>1, <2>2
<1>3. QED
  BY <1>1, <1>2 DEF AnswerInv

\* No item is forgotten: while an item is not written and its request did not die, a list, a
\* message, a task, a dead letter or a replay has it.  A worker may die at any point of the
\* writing of an item and the database may fail in its recount; only a store that refuses the
\* outcome of a task, or a fan-out cut short, loses one.
THEOREM EveryItemIsAnsweredFor ==
  ASSUME ConstantsAssumption, "write_failure" \notin Faults, "roadmap_failure" \notin Faults
  PROVE  Spec => []NoItemIsForgotten
<1>1. Init => AnswerInv
  <2>1. Init => LoopsSend /\ \A i \in Items : item[i] = "absent"
    BY DEF Init, LoopsSend
  <2>2. QED
    BY <2>1, InitTypeInv DEF AnswerInv, Owed
<1>2. AnswerInv /\ [Next]_vars => AnswerInv'
  BY NextAnswerInv
<1>3. AnswerInv => NoItemIsForgotten
  <2>1. ASSUME NEW i \in Items, Answered(i) PROVE Responsible(i)
    BY <2>1 DEF Answered, Answering, Responsible, InRequest, InFanOut, InQueue, InLimbo, InLetters,
       InReplay, At
  <2>2. QED
    BY <2>1 DEF AnswerInv, NoItemIsForgotten, Owed
<1>4. QED
  BY <1>1, <1>2, <1>3, PTL DEF Spec

=============================================================================
