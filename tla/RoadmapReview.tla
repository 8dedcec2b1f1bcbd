---------------------------- MODULE RoadmapReview ----------------------------
(***************************************************************************)
(* One attempt at a roadmap, in the worker: the planner retrieves context, *)
(* drafts until an answer is valid, has code look at the draft and, when   *)
(* that finds something or the context was weak, a judge.  A draft that    *)
(* the judge rejects is repaired once, and what there is then is stored.   *)
(*                                                                         *)
(* A title is what is left of it after strip and casefold.                 *)
(***************************************************************************)
EXTENDS Naturals, Sequences, FiniteSets

CONSTANTS
  PlannedItems,  \* records of a title and whether the prompt is too short, as `short`
  Periods,       \* lengths of plans, in days
  Cadences,      \* class_per_week
  MaxModules, MaxItems,  \* bounds: modules of a roadmap, items of a module
  MaxDrafts,     \* retries + 1, 2
  MaxIssues      \* max_length of a verdict's issues, 5

ConstantsAssumption ==
  /\ Periods \subseteq Nat /\ Cadences \subseteq Nat \ {0}
  /\ MaxModules \in Nat \ {0} /\ MaxItems \in Nat \ {0}
  /\ MaxDrafts \in Nat \ {0}
  /\ MaxIssues \in Nat \ {0}

VARIABLES
  evalEnabled,  \* planner_eval_enabled
  classes,      \* how many the period holds
  stage,        \* of PlannerAgent.plan and of the task around it
  context,      \* what was retrieved
  transaction,  \* of the worker's session: "open", or "aborted" by a statement that failed
  attempts,     \* calls of _draft
  roadmap,      \* what there is so far: none or one
  reviewed,     \* history: what became of the review
  calls         \* history: calls of the gateway

vars ==
  << evalEnabled, classes, stage, context, transaction, attempts, roadmap, reviewed, calls >>

Modules  == UNION {[1 .. n -> PlannedItems] : n \in 1 .. MaxItems}
Roadmaps == [ modules : UNION {[1 .. n -> Modules] : n \in 1 .. MaxModules},
              summary : {"short", "long"} ]

Stages == {"retrieving", "drafting", "evaluating", "judging", "repairing", "planned",
           "stored", "failed"}

TypeOK ==
  /\ evalEnabled \in BOOLEAN
  /\ classes \in Nat \ {0}
  /\ stage \in Stages
  /\ context \in {"none", "close", "weak"}
  /\ transaction \in {"open", "aborted"}
  /\ attempts \in 0 .. MaxDrafts
  /\ roadmap = << >> \/ roadmap[1] \in Roadmaps
  /\ reviewed \in {"no", "approved", "unusable", "rejected", "repaired"}
  /\ calls \in Nat

\* expected_classes: round(days / 7 * class_per_week), where no half can come up, and a
\* class at least.
ExpectedClasses(days, cadence) ==
  LET rounded == (2 * days * cadence + 7) \div 14
  IN  IF rounded = 0 THEN 1 ELSE rounded

Init ==
  /\ evalEnabled \in BOOLEAN
  /\ classes \in {ExpectedClasses(days, cadence) : days \in Periods, cadence \in Cadences}
  /\ stage = "retrieving"
  /\ context = "none"
  /\ transaction = "open"
  /\ attempts = 0
  /\ roadmap = << >>
  /\ reviewed = "no"
  /\ calls = 0

-----------------------------------------------------------------------------
(* check_roadmap.                                                          *)

\* An item by its module and its place there.
Places(r) == UNION {{m} \X DOMAIN r.modules[m] : m \in DOMAIN r.modules}

ItemAt(r, p) == r.modules[p[1]][p[2]]

Titles == {item.title : item \in PlannedItems}

\* `seen`, at the end of the loop over all modules.
Seen(r) ==
  [t \in Titles |-> Cardinality({p \in Places(r) : ItemAt(r, p).title = t})]

\* A bug: `seen` begins anew with each module.
DuplicatesInModule(r) ==
  UNION {{t \in Titles : Seen([r EXCEPT !.modules = << @[m] >>])[t] > 1} :
           m \in DOMAIN r.modules}

Duplicates(r) == {t \in Titles : Seen(r)[t] > 1}

\* Against MIN_ITEMS_PER_CLASS, 0.25, and MAX_ITEMS_PER_CLASS, 1.5.
SizeIssues(count, n) ==
  IF 4 * count < n THEN {<< "too few items" >>}
  ELSE IF 2 * count > 3 * n THEN {<< "too many items" >>} ELSE {}

CheckRoadmap(r, n) ==
  UNION { IF r.summary = "short" THEN {<< "summary" >>} ELSE {},
          {<< "prompt", ItemAt(r, p).title >> : p \in {p \in Places(r) : ItemAt(r, p).short}},
          IF Duplicates(r) # {} THEN {<< "duplicates" >>} ELSE {},
          SizeIssues(Cardinality(Places(r)), n) }

-----------------------------------------------------------------------------
(* PlannerAgent.                                                           *)

\* _context: whatever goes wrong, the plan is drafted without; but a statement that fails
\* leaves the transaction of the session aborted.
Retrieve ==
  /\ stage = "retrieving"
  /\ context' \in {"none", "close", "weak"}
  /\ transaction' \in IF context' = "none" THEN {"open", "aborted"} ELSE {"open"}
  /\ stage' = "drafting"
  /\ UNCHANGED << evalEnabled, classes, attempts, roadmap, reviewed, calls >>

\* _draft, an answer: a valid roadmap, or one more round.
Draft ==
  /\ stage = "drafting"
  /\ attempts' = attempts + 1
  /\ calls' = calls + 1
  /\ \/ /\ \E r \in Roadmaps : roadmap' = << r >>
        /\ stage' = "evaluating"
     \/ /\ stage' = IF attempts' < MaxDrafts THEN "drafting" ELSE "failed"
        /\ UNCHANGED roadmap
  /\ UNCHANGED << evalEnabled, classes, context, transaction, reviewed >>

\* Every provider failed: the exception ends the attempt.
NoProvider ==
  /\ stage = "drafting"
  /\ stage' = "failed"
  /\ UNCHANGED << evalEnabled, classes, context, transaction, attempts, roadmap, reviewed,
                  calls >>

\* _evaluated, up to the judge.
Evaluate ==
  /\ stage = "evaluating"
  /\ stage' = IF evalEnabled /\ (CheckRoadmap(roadmap[1], classes) # {} \/ context = "weak")
              THEN "judging" ELSE "planned"
  /\ UNCHANGED << evalEnabled, classes, context, transaction, attempts, roadmap, reviewed,
                  calls >>

\* review: an answer with more issues than the schema takes is no verdict.
Judge ==
  /\ stage = "judging"
  /\ \/ /\ \E approved \in BOOLEAN, issues \in 0 .. MaxIssues + 1 :
             reviewed' = CASE issues > MaxIssues -> "unusable"
                           [] approved           -> "approved"
                           [] OTHER              -> "rejected"
        /\ calls' = calls + 1
     \/ reviewed' = "unusable" /\ calls' \in {calls, calls + 1}
  /\ stage' = IF reviewed' = "rejected" THEN "repairing" ELSE "planned"
  /\ UNCHANGED << evalEnabled, classes, context, transaction, attempts, roadmap >>

\* _repair: a valid answer takes the draft's place, and is not looked at again.
Repair ==
  /\ stage = "repairing"
  /\ stage' = "planned"
  /\ \/ /\ \E r \in Roadmaps : roadmap' = << r >>
        /\ reviewed' = "repaired"
        /\ calls' = calls + 1
     \/ UNCHANGED << roadmap, reviewed >> /\ calls' \in {calls, calls + 1}
  /\ UNCHANGED << evalEnabled, classes, context, transaction, attempts >>

\* plan_existing_run: the usage and the roadmap, in the transaction the context was read in.
Store ==
  /\ stage = "planned"
  /\ stage' = IF transaction = "open" THEN "stored" ELSE "failed"
  /\ UNCHANGED << evalEnabled, classes, context, transaction, attempts, roadmap, reviewed,
                  calls >>

Next ==
  Retrieve \/ Draft \/ NoProvider \/ Evaluate \/ Judge \/ Repair \/ Store

Spec == Init /\ [][Next]_vars

-----------------------------------------------------------------------------
(* Properties.                                                             *)

\* What a teacher would call sane: titles that tell the items of the whole plan apart, no
\* item a worker cannot write, a summary, and a size the period can hold.
Sane(r) ==
  /\ \A p, q \in Places(r) : p # q => ItemAt(r, p).title # ItemAt(r, q).title
  /\ \A p \in Places(r) : ~ItemAt(r, p).short
  /\ r.summary = "long"
  /\ classes \in (2 * Cardinality(Places(r)) + 2) \div 3 .. 4 * Cardinality(Places(r))

Grounded == context # "weak"

\* "Evaluation never fails a generation" (planner.py): an attempt that has a draft ends with
\* a roadmap, unless reading the context has aborted its transaction.  "A plan that comes
\* out clean still costs exactly one call": each call is a draft, but for one of a judge and
\* one of a repair, and those only of a draft that is not sane or not grounded; a draft that
\* is stored without a review is both, when reviews are on.
ReviewHolds ==
  /\ stage = "failed" => roadmap = << >> \/ transaction = "aborted"
  /\ stage = "stored" => transaction = "open"
  /\ calls <= attempts + (CASE reviewed = "no" -> 0
                            [] reviewed \in {"approved", "unusable"} -> 1
                            [] OTHER -> 2)
  /\ reviewed = "no" /\ stage \in {"planned", "stored"} /\ evalEnabled =>
       Sane(roadmap[1]) /\ Grounded
  /\ reviewed \in {"approved", "unusable", "rejected"} =>
       evalEnabled /\ (~Sane(roadmap[1]) \/ ~Grounded)
=============================================================================
