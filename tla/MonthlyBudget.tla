----------------------------- MODULE MonthlyBudget -----------------------------
(***************************************************************************)
(* The money of the generation runs: the budget of an account is read at   *)
(* the door, the planner and the items spend it later, and each unit of    *)
(* work adds its ledger to its run in a transaction of its own.            *)
(*                                                                         *)
(* There are two doors: a plan that is created opens its run at once and   *)
(* queues a task that drafts, a retrigger drafts inside the request and    *)
(* has no run before it has a roadmap.  The planner drafts until the       *)
(* roadmap is valid, lets a judge look at it and repairs it once.  A       *)
(* message is acknowledged when its task is over, and no task looks at     *)
(* what has been done before: one that comes back, by a redelivery, a      *)
(* retry or the operator's replay, drafts or writes, and pays, again.  A   *)
(* dead letter is a message that only the operator may deliver; to the     *)
(* money it is one like the others, and in the queue with them.            *)
(***************************************************************************)
EXTENDS Naturals, FiniteSetsExt

CONSTANTS
  Runs,          \* generations asked for by one account
  Slots,         \* what works for a run at one time: tasks, and a request that drafts
  Models,        \* the models that may answer
  Price,         \* what a call of each costs at most: 0 for a local one
  Limit,         \* llm_monthly_budget_usd
  MaxDrafts,     \* retries + 1 of the planner, 2
  MaxActivities, \* items of a roadmap
  MaxRepeats,    \* bound: work that is done again
  MaxMonths      \* bound: months that pass

ConstantsAssumption ==
  /\ IsFiniteSet(Runs) /\ IsFiniteSet(Slots) /\ IsFiniteSet(Models)
  /\ Models # {}
  /\ Price \in [Models -> Nat]
  /\ Limit \in Nat \ {0}
  /\ MaxDrafts \in Nat \ {0}
  /\ MaxActivities \in Nat /\ MaxRepeats \in Nat /\ MaxMonths \in Nat

VARIABLES
  month,
  door,     \* how far each generation is through its door
  queue,    \* messages and dead letters of each run, plans.generate and run_item
  work,     \* what each slot of a run does
  cost,     \* plan_generation.llm_cost_usd
  share,    \* plan_generation_model_usage.cost_usd, a row per model
  born,     \* the month of created_at, when the transaction that creates the row began
  paid,     \* history: what was spent for each run, on work that was not lost
  atDoor,   \* history: calls that were due when the last one was let in, or the month
            \* turned, and those that were due again since
  repeats   \* history: messages of work that had been done, or was being done

books  == << cost, share, born >>
vars   == << month, door, queue, work, books, paid, atDoor, repeats >>

NoCost == [m \in Models |-> 0]

Jobs == {"plan", "item"}

Drafting == {"drafting", "judging", "repairing", "planned"}

Task == [ pc     : Drafting \cup {"free", "unbooked", "torn", "fanning", "answered", "ending"},
          job    : Jobs \cup {"request"},
          draft  : Nat,                \* calls of _draft made
          ledger : [Models -> Nat] ]   \* usage_scope: the cost by model

Free == [pc |-> "free", job |-> "request", draft |-> 0, ledger |-> NoCost]

TypeOK ==
  /\ month \in Nat
  /\ door \in [Runs -> {"idle", "refused", "admitted", "open"}]
  /\ queue \in [Runs -> [Jobs -> Nat]]
  /\ work \in [Runs -> [Slots -> Task]]
  /\ cost \in [Runs -> Nat]
  /\ share \in [Runs -> [Models -> Nat]]
  /\ born \in [Runs -> Nat]
  /\ paid \in [Runs -> Nat]
  /\ atDoor \in Nat /\ repeats \in Nat

Init ==
  /\ month = 1
  /\ door = [r \in Runs |-> "idle"]
  /\ queue = [r \in Runs |-> [j \in Jobs |-> 0]]
  /\ work = [r \in Runs |-> [s \in Slots |-> Free]]
  /\ cost = [r \in Runs |-> 0]
  /\ share = [r \in Runs |-> NoCost]
  /\ born = [r \in Runs |-> 0]
  /\ paid = [r \in Runs |-> 0]
  /\ atDoor = 0 /\ repeats = 0

-----------------------------------------------------------------------------

SumOf(f, S) == MapThenSumSet(LAMBDA x : f[x], S)

Total(ledger) == SumOf(ledger, Models)

\* What the runs of this month have on their rows.
SpendSince == SumOf(cost, {r \in Runs : born[r] = month})

\* The calls a message may lead to: the drafts, the judge and the repair, and an item each
\* of the roadmap; or the one of an item.
PlanCalls == MaxDrafts + 2 + MaxActivities
CallsOf(job) == IF job = "item" THEN 1 ELSE PlanCalls

\* Those that a slot may still put on record, with what it queues.
CallsDue(x) ==
  CASE x.pc \in Drafting \cup {"unbooked"} -> PlanCalls
    [] x.pc = "fanning"                    -> MaxActivities
    [] x.pc = "answered"                   -> 1
    [] OTHER                               -> 0

Due(r) ==
  (IF door[r] = "admitted" THEN PlanCalls ELSE 0)
  + queue[r]["plan"] * PlanCalls + queue[r]["item"]
  + SumOf([s \in Slots |-> CallsDue(work[r][s])], Slots)

AllDue == SumOf([r \in Runs |-> Due(r)], Runs)

At(r, s, pc) == work[r][s].pc = pc
Becomes(r, s, x) == work' = [work EXCEPT ![r][s] = x]
Goto(r, s, pc) == Becomes(r, s, [work[r][s] EXCEPT !.pc = pc])

\* A bug: the month's last cent is not the end of it.
MayStartLate == SpendSince <= Limit

MayStart == SpendSince < Limit

\* ensure_budget.
Refuse(r) ==
  /\ door[r] = "idle" /\ ~MayStart
  /\ door' = [door EXCEPT ![r] = "refused"]
  /\ UNCHANGED << month, queue, work, books, paid, atDoor, repeats >>

\* POST /plans.
AskCreate(r) ==
  /\ door[r] = "idle" /\ MayStart
  /\ door' = [door EXCEPT ![r] = "admitted"]
  /\ atDoor' = AllDue + PlanCalls
  /\ UNCHANGED << month, queue, work, books, paid, repeats >>

\* POST /plans/{id}/generate: the request drafts, in the transaction it asked in.
AskRetrigger(r, s) ==
  /\ door[r] = "idle" /\ MayStart
  /\ At(r, s, "free")
  /\ door' = [door EXCEPT ![r] = "open"]
  /\ Goto(r, s, "drafting")
  /\ born' = [born EXCEPT ![r] = month]
  /\ atDoor' = AllDue + PlanCalls
  /\ UNCHANGED << month, queue, cost, share, paid, repeats >>

\* begin: the run of a plan that is created, and its message.
Begin(r) ==
  /\ door[r] = "admitted"
  /\ door' = [door EXCEPT ![r] = "open"]
  /\ born' = [born EXCEPT ![r] = month]
  /\ queue' = [queue EXCEPT ![r]["plan"] = @ + 1]
  /\ UNCHANGED << month, work, cost, share, paid, atDoor, repeats >>

\* plans.generate is delivered.
TakePlan(r, s) ==
  /\ queue[r]["plan"] > 0 /\ At(r, s, "free")
  /\ queue' = [queue EXCEPT ![r]["plan"] = @ - 1]
  /\ Becomes(r, s, [Free EXCEPT !.pc = "drafting", !.job = "plan"])
  /\ UNCHANGED << month, door, books, paid, atDoor, repeats >>

\* cost_usd, of a call that reports its usage and of one that does not.  Nothing is
\* guessed: no usage, like no price, costs nothing here.
Costs(m) == {0, Price[m]}

\* A call of the gateway, entered in the ledger of its scope.
Answers(ledger) ==
  UNION {{[ledger EXCEPT ![m] = @ + c] : c \in Costs(m)} : m \in Models}

\* One round of _draft.  A valid roadmap is handed in unless the evaluation is on and
\* finds something, or the context is weak.  After the last round the planner gives up.
Draft(r, s) ==
  /\ At(r, s, "drafting")
  /\ work[r][s].draft < MaxDrafts
  /\ \E ledger \in Answers(work[r][s].ledger), next \in {"drafting", "planned", "judging"} :
       Becomes(r, s, [work[r][s] EXCEPT !.pc = next, !.draft = @ + 1, !.ledger = ledger])
  /\ UNCHANGED << month, door, queue, books, paid, atDoor, repeats >>

\* review, and _repair: whatever becomes of either call, the roadmap there is stays.
Review(r, s) ==
  /\ work[r][s].pc \in {"judging", "repairing"}
  /\ \/ Goto(r, s, "planned")
     \/ \E ledger \in Answers(work[r][s].ledger),
           next \in {"planned"} \cup (IF At(r, s, "judging") THEN {"repairing"} ELSE {}) :
          Becomes(r, s, [work[r][s] EXCEPT !.pc = next, !.ledger = ledger])
  /\ UNCHANGED << month, door, queue, books, paid, atDoor, repeats >>

\* add_usage: both additions are made by the database.
AddUsage(r, ledger) ==
  /\ cost' = [cost EXCEPT ![r] = @ + Total(ledger)]
  /\ share' = [share EXCEPT ![r] = [m \in Models |-> @[m] + ledger[m]]]

\* The roadmap is committed: with the ledger by the task, before it by the request.  A run
\* that has a roadmap gets another one.
Materialize(r, s) ==
  /\ At(r, s, "planned")
  /\ paid' = [paid EXCEPT ![r] = @ + Total(work[r][s].ledger)]
  /\ IF work[r][s].job = "plan"
     THEN Goto(r, s, "fanning") /\ AddUsage(r, work[r][s].ledger)
     ELSE Goto(r, s, "unbooked") /\ UNCHANGED << cost, share >>
  /\ UNCHANGED << month, door, queue, born, atDoor, repeats >>

\* The second commit of start.
BookDraft(r, s) ==
  /\ At(r, s, "unbooked")
  /\ AddUsage(r, work[r][s].ledger)
  /\ Goto(r, s, "fanning")
  /\ UNCHANGED << month, door, queue, born, paid, atDoor, repeats >>

\* The items are queued, or as many of them as the broker takes.
FanOut(r, s) ==
  /\ At(r, s, "fanning")
  /\ \E n \in 0 .. MaxActivities : queue' = [queue EXCEPT ![r]["item"] = @ + n]
  /\ Goto(r, s, "ending")
  /\ UNCHANGED << month, door, books, paid, atDoor, repeats >>

\* process_item, up to the answer, whatever the status of the item.
CallItem(r, s) ==
  /\ queue[r]["item"] > 0 /\ At(r, s, "free")
  /\ queue' = [queue EXCEPT ![r]["item"] = @ - 1]
  /\ \E ledger \in Answers(NoCost) :
       /\ Becomes(r, s, [Free EXCEPT !.pc = "answered", !.job = "item", !.ledger = ledger])
       /\ paid' = [paid EXCEPT ![r] = @ + Total(ledger)]
  /\ UNCHANGED << month, door, books, atDoor, repeats >>

\* A message whose item is gone, one that fails for good, a dead letter nobody replays.
SkipItem(r) ==
  /\ queue[r]["item"] > 0
  /\ queue' = [queue EXCEPT ![r]["item"] = @ - 1]
  /\ UNCHANGED << month, door, work, books, paid, atDoor, repeats >>

\* The item and its usage, in one commit.
CommitItem(r, s) ==
  /\ At(r, s, "answered")
  /\ AddUsage(r, work[r][s].ledger)
  /\ Goto(r, s, "ending")
  /\ UNCHANGED << month, door, queue, born, paid, atDoor, repeats >>

\* The message is acknowledged, the request answered.
End(r, s) ==
  /\ At(r, s, "ending")
  /\ Becomes(r, s, Free)
  /\ UNCHANGED << month, door, queue, books, paid, atDoor, repeats >>

Undone(x) == x.pc \in Drafting \cup {"answered"}

\* A task fails or its worker dies: before its commit, its ledger is lost, or after it.  It
\* leaves messages, of a retry, a redelivery or a dead letter, or none, when the database
\* fails it for good.  A message beside that of work not done is one too many.
Break(r, s) ==
  LET x == work[r][s] IN
  /\ x.pc # "free" /\ x.job \in Jobs
  /\ \E left \in 0 .. 2 :
       LET again == IF Undone(x) /\ left > 0 THEN left - 1 ELSE left IN
       /\ repeats + again <= MaxRepeats
       /\ repeats' = repeats + again
       /\ atDoor' = atDoor + again * CallsOf(x.job)
       /\ queue' = [queue EXCEPT ![r][x.job] = @ + left]
  /\ Becomes(r, s, Free)
  /\ paid' = [paid EXCEPT ![r] = @ - (IF x.pc = "answered" THEN Total(x.ledger) ELSE 0)]
  /\ UNCHANGED << month, door, books >>

\* A request fails or dies; between its two commits, with its ledger.
BreakOff(r, s) ==
  /\ work[r][s].job = "request"
  /\ \/ work[r][s].pc \in Drafting \cup {"fanning", "ending"} /\ Becomes(r, s, Free)
     \/ At(r, s, "unbooked") /\ Goto(r, s, "torn")
  /\ UNCHANGED << month, door, queue, books, paid, atDoor, repeats >>

\* The first of the next month, UTC.
NextMonth ==
  /\ month <= MaxMonths
  /\ month' = month + 1
  /\ atDoor' = AllDue
  /\ UNCHANGED << door, queue, work, books, paid, repeats >>

Next ==
  \/ NextMonth
  \/ \E r \in Runs :
       \/ Refuse(r) \/ AskCreate(r) \/ Begin(r) \/ SkipItem(r)
       \/ \E s \in Slots :
            \/ AskRetrigger(r, s) \/ TakePlan(r, s) \/ Draft(r, s) \/ Review(r, s)
            \/ Materialize(r, s) \/ BookDraft(r, s) \/ FanOut(r, s)
            \/ CallItem(r, s) \/ CommitItem(r, s) \/ End(r, s)
            \/ Break(r, s) \/ BreakOff(r, s)

Spec == Init /\ [][Next]_vars

-----------------------------------------------------------------------------
(* Properties.                                                             *)

DearestCall == Max({Price[m] : m \in Models})

\* "A run that has started finishes" (service.py, ensure_budget), but the overshoot is not
\* "bounded by one plan", since the door only reads what is on record: the month is overspent by
\* the calls that were due when the last generation was let in, or the month turned, and
\* by those of the work that came back since, and by no more; a run counts in the month
\* its row was created in.
OvershootIsDue == SpendSince < Limit + atDoor * DearestCall

\* Nothing of the run is in hand, or was when its request died.
Settled(r) == \A s \in Slots : work[r][s].pc \notin {"unbooked", "torn", "answered"}

\* "Adding in the database is the only way none of them is lost" (repository.py, add_usage):
\* a run's total is the sum of its rows by model, and with nothing in hand it is what was
\* paid for the work it kept, also for what it kept twice.
LedgersAddUp ==
  \A r \in Runs :
    /\ cost[r] = Total(share[r])
    /\ Settled(r) => cost[r] = paid[r]

BudgetHolds == OvershootIsDue /\ LedgersAddUp
=============================================================================
