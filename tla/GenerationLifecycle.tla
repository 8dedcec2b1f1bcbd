------------------------- MODULE GenerationLifecycle -------------------------
(***************************************************************************)
(* What a generation run promises to whoever polls its page: the badge of  *)
(* the run and those of its activities.  Nothing is said of tasks,         *)
(* messages or retries.  The badge of a run may be behind its activities,  *)
(* but COMPLETED and FAILED are promises.                                  *)
(***************************************************************************)
EXTENDS Naturals, FiniteSets

CONSTANTS Runs, Items, NoRun, RoadmapSizes

VARIABLES
  run,     \* the badge of a run
  item,    \* the badge of an activity
  runOf,   \* the run it belongs to
  removed  \* the teacher deleted it

vars == << run, item, runOf, removed >>

Roadmap(r) == {i \in Items : runOf[i] = r}

Unwritten == {"PENDING", "PROCESSING", "FAILED"}

Init ==
  /\ run     = [r \in Runs |-> "absent"]
  /\ item    = [i \in Items |-> "absent"]
  /\ runOf   = [i \in Items |-> NoRun]
  /\ removed = [i \in Items |-> FALSE]

Shows(r, s)     == run' = [run EXCEPT ![r] = s]
ShowsItem(i, s) == item' = [item EXCEPT ![i] = s]

Open(r) ==
  /\ run[r] = "absent"
  /\ Shows(r, "PLANNING")
  /\ UNCHANGED << item, runOf, removed >>

\* A run gets one roadmap, whole, and never another.
Plan(r) ==
  /\ run[r] \in {"absent", "PLANNING", "FAILED"}
  /\ Roadmap(r) = {}
  /\ \E S \in SUBSET {i \in Items : item[i] = "absent"} :
       /\ Cardinality(S) \in RoadmapSizes
       /\ item'  = [i \in Items |-> IF i \in S THEN "PENDING" ELSE item[i]]
       /\ runOf' = [i \in Items |-> IF i \in S THEN r ELSE runOf[i]]
  /\ Shows(r, "RUNNING")
  /\ UNCHANGED removed

Refuse(r) ==
  /\ run[r] \in {"PLANNING", "FAILED"}
  /\ Roadmap(r) = {}
  /\ Shows(r, "FAILED")
  /\ UNCHANGED << item, runOf, removed >>

\* Nothing takes up an activity that is written.
Take(i) ==
  /\ item[i] \in Unwritten
  /\ ShowsItem(i, "PROCESSING")
  /\ UNCHANGED << run, runOf, removed >>

Write(i) ==
  /\ item[i] = "PROCESSING"
  /\ ShowsItem(i, "COMPLETED")
  /\ UNCHANGED << run, runOf, removed >>

GiveUp(i) ==
  /\ item[i] \in Unwritten
  /\ ShowsItem(i, "FAILED")
  /\ UNCHANGED << run, runOf, removed >>

\* RUNNING and PARTIAL may be what the activities were a moment ago.
Recount(r) ==
  /\ Roadmap(r) # {}
  /\ \/ Shows(r, "RUNNING")
     \/ Shows(r, "PARTIAL")
     \/ /\ \A i \in Roadmap(r) : ~removed[i] => item[i] = "COMPLETED"
        /\ Shows(r, "COMPLETED")
  /\ UNCHANGED << item, runOf, removed >>

Remove(i) ==
  /\ item[i] # "absent"
  /\ ~removed[i]
  /\ removed' = [removed EXCEPT ![i] = TRUE]
  /\ UNCHANGED << run, item, runOf >>

Next ==
  \/ \E r \in Runs : Open(r) \/ Plan(r) \/ Refuse(r) \/ Recount(r)
  \/ \E i \in Items : Take(i) \/ Write(i) \/ GiveUp(i) \/ Remove(i)

Spec == Init /\ [][Next]_vars
=============================================================================
