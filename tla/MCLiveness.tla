------------------------------ MODULE MCLiveness ------------------------------
(***************************************************************************)
(* The components that promise to end something, each under the fairness   *)
(* of its own: two instances of PlanGeneration, DocumentIngestion and      *)
(* SignInLimiter.  They do not interact; a behaviour is one of `scenario`, *)
(* and the other components stay where they began.                         *)
(*                                                                         *)
(* A scenario fixes what goes wrong in it; how many there are of whom is a *)
(* constant.  The proof modules of the components are instantiated, so     *)
(* that their theorems hold here too.                                      *)
(***************************************************************************)
EXTENDS Naturals, Sequences, FiniteSets, TLC

CONSTANTS
  Runs, Items, NoRun, NoJob, RoadmapSizes,
  Workers,             \* of the scenario "overlapping"
  Crashers,            \* those of "crashing"
  Ingester,            \* the one of "ingestion"
  Documents, NoDocument,
  MaxRetries,
  MaxFaults,           \* bound: faults in a behaviour
  OverlappingReplays,  \* bound: replays in the scenario "overlapping"
  MaxReplays,          \* bound: those in the others
  Attempts, Clients, MaxAttempts, Window,
  MaxDeaths            \* bound: sign-ins that die

VARIABLES
  scenario,
  \* PlanGeneration, workers side by side
  run, item, runOf, removed, request, unsent, ready, unacked, worker, deadLetter,
  replaying, faults, replays,
  \* PlanGeneration, workers that crash
  cRun, cItem, cRunOf, cRemoved, cRequest, cUnsent, cReady, cUnacked, cWorker,
  cDeadLetter, cReplaying, cFaults, cReplays,
  \* DocumentIngestion
  status, fresh, deleted, contents, upload, dReady, dUnacked, dWorker, dDeadLetter,
  dReplaying, dFaults, dReplays,
  \* SignInLimiter
  counted, ttl, attempt, deaths

\* Item tasks of a run side by side, with retries, a request that dies and a write that is
\* refused.
Overlapping == INSTANCE PlanGenerationProofs WITH
  Faults <- {"api_crash", "write_failure"}, MaxReplays <- OverlappingReplays

\* Workers that may die anywhere but after a roadmap went out, a recount that fails, and a
\* replay.
Crashing == INSTANCE PlanGenerationProofs WITH
  Workers <- Crashers, Faults <- {"worker_crash", "recount_failure"},
  run <- cRun, item <- cItem, runOf <- cRunOf, removed <- cRemoved, request <- cRequest,
  unsent <- cUnsent, ready <- cReady, unacked <- cUnacked, worker <- cWorker,
  deadLetter <- cDeadLetter, replaying <- cReplaying, faults <- cFaults,
  replays <- cReplays

\* One worker, a crash of it or of the request, retries and a replay.  A dead worker's
\* message comes back once the row is stale.
Ingestion == INSTANCE DocumentIngestionProofs WITH
  Workers <- {Ingester}, Faults <- {"worker_crash", "api_crash"},
  ready <- dReady, unacked <- dUnacked, worker <- dWorker, deadLetter <- dDeadLetter,
  replaying <- dReplaying, faults <- dFaults, replays <- dReplays

\* Sign-ins of one account, which may die.
Limiter == INSTANCE SignInLimiter

ASSUME ScenariosAssumption ==
  /\ Overlapping!ConstantsAssumption /\ Crashing!ConstantsAssumption
  /\ Ingestion!ConstantsAssumption /\ Limiter!ConstantsAssumption
  /\ Crashers \cup {Ingester} \subseteq Workers

overlappingVars ==
  << run, item, runOf, removed, request, unsent, ready, unacked, worker, deadLetter,
     replaying, faults, replays >>
crashingVars ==
  << cRun, cItem, cRunOf, cRemoved, cRequest, cUnsent, cReady, cUnacked, cWorker,
     cDeadLetter, cReplaying, cFaults, cReplays >>
ingestionVars ==
  << status, fresh, deleted, contents, upload, dReady, dUnacked, dWorker, dDeadLetter,
     dReplaying, dFaults, dReplays >>
limiterVars == << counted, ttl, attempt, deaths >>

vars == << scenario, overlappingVars, crashingVars, ingestionVars, limiterVars >>

Init ==
  /\ scenario \in {"overlapping", "crashing", "ingestion", "limiter"}
  /\ Overlapping!Init /\ Crashing!Init /\ Ingestion!Init /\ Limiter!Init

\* A step of the scenario's component: o, c, d or l, each an action of one of them.
InScenario(o, c, d, l) ==
  /\ UNCHANGED scenario
  /\ \/ /\ scenario = "overlapping" /\ o
        /\ UNCHANGED << crashingVars, ingestionVars, limiterVars >>
     \/ /\ scenario = "crashing" /\ c
        /\ UNCHANGED << overlappingVars, ingestionVars, limiterVars >>
     \/ /\ scenario = "ingestion" /\ d
        /\ UNCHANGED << overlappingVars, crashingVars, limiterVars >>
     \/ /\ scenario = "limiter" /\ l
        /\ UNCHANGED << overlappingVars, crashingVars, ingestionVars >>

Next == InScenario(Overlapping!Next, Crashing!Next, Ingestion!Next, Limiter!Next)

Spec == Init /\ [][Next]_vars

\* The Fairness of the four modules, conjunct by conjunct.  A behaviour stays in its
\* scenario, so weak fairness of a disjunction over the scenarios is weak fairness of the
\* disjunct that is its own; that leaves fewer conditions to check.
Fairness ==
  /\ \A r \in Runs :
       WF_vars(InScenario(
         Overlapping!EnqueueDraft(r) \/ Overlapping!SendItem(r) \/ Overlapping!ApiCrash(r),
         Crashing!EnqueueDraft(r) \/ Crashing!SendItem(r) \/ Crashing!ApiCrash(r),
         FALSE, FALSE))
  /\ \A w \in Workers :
       /\ WF_vars(InScenario(Overlapping!Receive(w),
                             w \in Crashers /\ Crashing!Receive(w),
                             w = Ingester /\ Ingestion!Receive(w), FALSE))
       /\ WF_vars(InScenario(Overlapping!Step(w),
                             w \in Crashers /\ Crashing!Step(w),
                             w = Ingester /\ Ingestion!Step(w), FALSE))
  /\ \A j \in Runs \cup Items :
       /\ WF_vars(InScenario(Overlapping!Resend(j), Crashing!Resend(j), FALSE, FALSE))
       /\ \A n \in 0 .. MaxRetries :
            WF_vars(InScenario(Overlapping!Restore(j, n), Crashing!Restore(j, n), FALSE, FALSE))
  /\ \A d \in Documents :
       /\ WF_vars(InScenario(FALSE, FALSE, Ingestion!Enqueue(d) \/ Ingestion!ApiCrash(d), FALSE))
       /\ WF_vars(InScenario(FALSE, FALSE, Ingestion!GoStale(d), FALSE))
       /\ WF_vars(InScenario(FALSE, FALSE, Ingestion!Resend(d), FALSE))
       /\ \A n \in 0 .. MaxRetries :
            WF_vars(InScenario(FALSE, FALSE, Ingestion!Restore(d, n), FALSE))
  /\ \A a \in Attempts : WF_vars(InScenario(FALSE, FALSE, FALSE, Limiter!Step(a)))
  /\ WF_vars(InScenario(FALSE, FALSE, FALSE, Limiter!Tick))

FairSpec == Spec /\ Fairness

-----------------------------------------------------------------------------
(* The properties, as their modules state them.                            *)

\* Of PlanGeneration: every variable keeps its type.
TypeOK == Overlapping!TypeOK /\ Crashing!TypeOK

\* Of PlanGeneration: COMPLETED means every subtask finished successfully.  (A worker that
\* dies may leave the task of a written item to a redelivery, which sets the item back to
\* PROCESSING under a COMPLETED run until it is written again.)
CompletedMeansAllWritten == Overlapping!CompletedMeansAllWritten

\* Of PlanGeneration: whoever polls a run sees the life of GenerationLifecycle, in which an
\* item that was written is not taken up again.
ImplementsLifecycle == Overlapping!ImplementsLifecycle

\* Of PlanGeneration: somebody is responsible for every item that is not written.
NoItemIsForgotten == Crashing!NoItemIsForgotten

\* Of PlanGeneration: FAILED means the run could not even be planned.
FailedRunHasNoItems == Overlapping!FailedRunHasNoItems /\ Crashing!FailedRunHasNoItems

\* Of PlanGeneration: a run whose task or messages were sent ends.  (Both scenarios in one
\* formula: the run of the other one is neither in progress nor over.)
EveryRunEnds ==
  \A r \in Runs :
    (Overlapping!InProgress(r) \/ Crashing!InProgress(r))
      ~> (Overlapping!Over(r) \/ Crashing!Over(r))

\* Of DocumentIngestion: a live document that failed is never just left.
NoSilentFailure == Ingestion!NoSilentFailure

\* Of DocumentIngestion: a document waiting in PENDING has its task under way.
PendingIsQueued == Ingestion!PendingIsQueued

\* Of DocumentIngestion: when a document is INDEXED, its newest content has the chunks.
NewestContentIsIndexed == Ingestion!NewestContentIsIndexed

\* Of DocumentIngestion: two runs never store the same version of a document.
VersionsAreUnique == Ingestion!VersionsAreUnique

\* Of DocumentIngestion: an INDEXED document is never worked on again.
IndexedIsNotReprocessed == Ingestion!IndexedIsNotReprocessed

\* Of DocumentIngestion: a document whose task was sent ends INDEXED, in the dead letters
\* or deleted.
EveryDocumentSettles == Ingestion!EveryDocumentSettles

\* Of SignInLimiter: what gets past the gate is what is in flight.
FailuresAreBounded == Limiter!FailuresAreBounded

\* Of SignInLimiter: a lockout ends with its window.
LockoutEnds == Limiter!LockoutEnds
=============================================================================
