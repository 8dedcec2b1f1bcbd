------------------------------- MODULE Workspace -------------------------------
(***************************************************************************)
(* What one teacher owns: subjects, the plans and documents of a subject,  *)
(* the modules of a plan, the academic items of a module.  A row is never  *)
(* removed: deletion sets deleted_at on it and on everything below it, one *)
(* UPDATE per table, in one transaction.                                   *)
(*                                                                         *)
(* A request is one transaction of PostgreSQL at READ COMMITTED: each      *)
(* statement sees what was committed before it; an UPDATE that finds a row *)
(* locked waits, then evaluates its WHERE again on the new row.  The       *)
(* sessions do not flush before a query (autoflush=False), so the row a    *)
(* request deletes is updated at its commit, after the rows below it.      *)
(* The foreign keys refer to the uuid alone: an insertion does not wait    *)
(* for a transaction that sets deleted_at on the parent, nor see it.       *)
(***************************************************************************)
EXTENDS Naturals, FiniteSets

CONSTANTS
  Subjects, Plans, Modules, Items, Documents,   \* the rows that may come to be
  Requests,      \* HTTP requests and drafting tasks, each of which runs once
  NoRow,         \* the parent of a subject, or of a row that does not exist
  Trees,         \* bound: what may be there at first, each row with its parent
  LateEntries    \* may a row enter below what a request is deleting?

Rows == Subjects \cup Plans \cup Modules \cup Items \cup Documents

\* The rows that may hang from r.
Below(r) == CASE r \in Subjects -> Plans \cup Documents
              [] r \in Plans    -> Modules
              [] r \in Modules  -> Items
              [] OTHER          -> {}

WellPlaced(c, p) == IF c \in Subjects THEN p = NoRow ELSE p \in Rows /\ c \in Below(p)

ASSUME ConstantsAssumption ==
  /\ Subjects \cap (Plans \cup Modules \cup Items \cup Documents) = {}
  /\ Plans \cap (Modules \cup Items \cup Documents) = {}
  /\ Modules \cap (Items \cup Documents) = {}
  /\ Items \cap Documents = {}
  /\ NoRow \notin Rows
  /\ LateEntries \in BOOLEAN
  /\ \A tree \in Trees :
       /\ DOMAIN tree \subseteq Rows
       /\ \A c \in DOMAIN tree : /\ WellPlaced(c, tree[c])
                                /\ tree[c] \in DOMAIN tree \cup {NoRow}

VARIABLES
  state,     \* absent, live, or deleted (deleted_at is set)
  parent,    \* subject_id, plan_id, module_id
  request    \* the transactions

vars == << state, parent, request >>

Levels == {"plans", "modules", "items", "documents", "row"}

Request == [ pc     : {"new", "check", "write", "scan", "update", "commit", "done"},
             op     : {"none", "create", "draft", "move", "delete"},
             target : Rows \cup {NoRow},   \* the row to move or to delete
             dest   : Rows \cup {NoRow},   \* where a row is to be put
             level  : Levels,              \* the table of the cascade's statement
             above  : SUBSET Rows,         \* whose rows below it deletes
             todo   : SUBSET Rows,         \* the rows the statement has yet to update
             found  : SUBSET Rows,         \* the ids it is to return
             marked : SUBSET Rows ]        \* updated, locked and not committed

NewRequest == [ pc |-> "new", op |-> "none", target |-> NoRow, dest |-> NoRow,
                level |-> "row", above |-> {}, todo |-> {}, found |-> {}, marked |-> {} ]

TypeOK ==
  /\ state   \in [Rows -> {"absent", "live", "deleted"}]
  /\ parent  \in [Rows -> Rows \cup {NoRow}]
  /\ request \in [Requests -> Request]
  /\ \A c \in Rows : IF state[c] = "absent" THEN parent[c] = NoRow
                                            ELSE WellPlaced(c, parent[c])

\* A tree that requests which did not overlap have built.
Init ==
  /\ \E tree \in Trees :
       /\ state  = [c \in Rows |-> IF c \in DOMAIN tree THEN "live" ELSE "absent"]
       /\ parent = [c \in Rows |-> IF c \in DOMAIN tree THEN tree[c] ELSE NoRow]
  /\ request = [q \in Requests |-> NewRequest]

-----------------------------------------------------------------------------
(* Helpers.                                                                *)

At(q, pc)      == request[q].pc = pc
Deleting(q)    == request[q].op = "delete" /\ ~At(q, "done")
Entering(q)    == request[q].op \in {"create", "draft", "move"} /\ ~At(q, "done")
Become(q, rec) == request' = [request EXCEPT ![q] = rec]
Finished       == [NewRequest EXCEPT !.pc = "done"]

Locked(q, c) == \E s \in Requests \ {q} : c \in request[s].marked

\* c and all that is above it; the tree has four levels.
Up(c)    == IF c \in Rows THEN parent[c] ELSE NoRow
Chain(c) == {c, Up(c), Up(Up(c)), Up(Up(Up(c)))} \ {NoRow}

\* Without LateEntries nobody puts a row below one that is being deleted, nor
\* deletes above a place where a row is being put.
MayEnter(dest) ==
  LateEntries \/ \A s \in Requests : Deleting(s) => request[s].target \notin Chain(dest)
MayDelete(target) ==
  LateEntries \/ \A s \in Requests :
                   Entering(s) /\ request[s].dest \in Rows
                     => target \notin Chain(request[s].dest)

-----------------------------------------------------------------------------
(* Creating: the parent is read, the row is inserted.                      *)

CreateSubject(q) ==
  /\ At(q, "new")
  /\ \E c \in Subjects :
       /\ state[c] = "absent"
       /\ state' = [state EXCEPT ![c] = "live"]
  /\ Become(q, Finished)
  /\ UNCHANGED parent

\* _ensure_subject_owned, _ensure_plan_owned, _ensure_module_owned.
StartCreate(q) ==
  /\ At(q, "new")
  /\ \E p \in Rows :
       /\ state[p] = "live" /\ Below(p) # {} /\ MayEnter(p)
       /\ Become(q, [NewRequest EXCEPT !.pc = "write", !.op = "create", !.dest = p])
  /\ UNCHANGED << state, parent >>

Insert(q) ==
  /\ At(q, "write")
  /\ request[q].op = "create"
  /\ \E c \in Below(request[q].dest) :
       /\ state[c] = "absent"
       /\ state' = [state EXCEPT ![c] = "live"]
       /\ parent' = [parent EXCEPT ![c] = request[q].dest]
  /\ Become(q, Finished)

\* The drafting of a plan reads the plan, then calls the planner.
StartDraft(q) ==
  /\ At(q, "new")
  /\ \E p \in Plans :
       /\ state[p] = "live" /\ MayEnter(p)
       /\ Become(q, [NewRequest EXCEPT !.pc = "write", !.op = "draft", !.dest = p])
  /\ UNCHANGED << state, parent >>

\* A bug: the items are given the id of the plan.
MaterializeFlat(q) ==
  /\ At(q, "write")
  /\ request[q].op = "draft"
  /\ \E m \in Modules, S \in SUBSET Items \ {{}} :
       /\ \A c \in {m} \cup S : state[c] = "absent"
       /\ state'  = [c \in Rows |-> IF c \in {m} \cup S THEN "live" ELSE state[c]]
       /\ parent' = [c \in Rows |-> IF c \in {m} \cup S THEN request[q].dest
                                    ELSE parent[c]]
  /\ Become(q, Finished)

\* materialize: a module and its items, in one commit.
Materialize(q) ==
  /\ At(q, "write")
  /\ request[q].op = "draft"
  /\ \E m \in Modules, S \in SUBSET Items \ {{}} :
       /\ \A c \in {m} \cup S : state[c] = "absent"
       /\ state'  = [c \in Rows |-> IF c \in {m} \cup S THEN "live" ELSE state[c]]
       /\ parent' = [c \in Rows |-> IF c = m THEN request[q].dest
                                    ELSE IF c \in S THEN m ELSE parent[c]]
  /\ Become(q, Finished)

\* The planner, or the insertion, fails.
GiveUp(q) ==
  /\ At(q, "write")
  /\ request[q].op \in {"create", "draft"}
  /\ Become(q, Finished)
  /\ UNCHANGED << state, parent >>

-----------------------------------------------------------------------------
(* Moving: update with a new subject_id, plan_id or module_id.             *)

StartMove(q) ==
  /\ At(q, "new")
  /\ \E c \in Rows \ (Subjects \cup Documents), p \in Rows :
       /\ state[c] = "live" /\ c \in Below(p) /\ MayEnter(p)
       /\ Become(q, [NewRequest EXCEPT !.pc = "check", !.op = "move",
                                       !.target = c, !.dest = p])
  /\ UNCHANGED << state, parent >>

CheckMove(q) ==
  /\ At(q, "check")
  /\ Become(q, IF state[request[q].dest] = "live"
               THEN [request[q] EXCEPT !.pc = "write"] ELSE Finished)
  /\ UNCHANGED << state, parent >>

\* The UPDATE of the commit waits for the row; deleted_at is not in its WHERE.
Move(q) ==
  /\ At(q, "write")
  /\ request[q].op = "move"
  /\ ~Locked(q, request[q].target)
  /\ parent' = [parent EXCEPT ![request[q].target] = request[q].dest]
  /\ Become(q, Finished)
  /\ UNCHANGED state

-----------------------------------------------------------------------------
(* Deleting: the row is read, then one UPDATE per level below it.          *)

Table(level) == CASE level = "plans"     -> Plans
                  [] level = "modules"   -> Modules
                  [] level = "items"     -> Items
                  [] level = "documents" -> Documents
                  [] level = "row"       -> {}

FirstLevel(target) == CASE target \in Subjects -> "plans"
                        [] target \in Plans    -> "modules"
                        [] target \in Modules  -> "items"
                        [] OTHER               -> "row"

\* A bug: the documents are deleted only when there were plans.
NextLevelOfPlans(target, level, found) ==
  IF level = "plans" /\ found # {} THEN "modules"
  ELSE IF level = "modules" /\ found # {} THEN "items"
  ELSE IF target \in Subjects /\ level = "items" THEN "documents"
  ELSE "row"

\* A level is skipped when the one above it returned no id.
NextLevel(target, level, found) ==
  IF level = "plans" /\ found # {} THEN "modules"
  ELSE IF level = "modules" /\ found # {} THEN "items"
  ELSE IF target \in Subjects /\ level # "documents" THEN "documents"
  ELSE "row"

Statement(rec, level, above) ==
  [rec EXCEPT !.pc = IF level = "row" THEN "commit" ELSE "scan",
              !.level = level, !.above = above, !.todo = {}, !.found = {}]

StartDelete(q) ==
  /\ At(q, "new")
  /\ \E t \in Rows :
       /\ state[t] = "live" /\ MayDelete(t)
       /\ Become(q, Statement([NewRequest EXCEPT !.op = "delete", !.target = t],
                              FirstLevel(t), {t}))
  /\ UNCHANGED << state, parent >>

\* The statement begins: the rows it sees that match.
Scan(q) ==
  /\ At(q, "scan")
  /\ Become(q, [request[q] EXCEPT
       !.pc = "update",
       !.todo = {c \in Table(request[q].level) :
                   state[c] = "live" /\ parent[c] \in request[q].above}])
  /\ UNCHANGED << state, parent >>

Matches(q, c) == state[c] = "live" /\ parent[c] \in request[q].above

\* A bug: the ids are selected first, the update does not look again.
UpdateUnseen(q) ==
  /\ At(q, "update")
  /\ \E c \in request[q].todo :
       /\ ~Locked(q, c)
       /\ Become(q, [request[q] EXCEPT !.todo = request[q].todo \ {c},
                                       !.found = request[q].found \cup {c},
                                       !.marked = request[q].marked \cup {c}])
  /\ UNCHANGED << state, parent >>

\* It locks a row, and updates it if it still matches.
Update(q) ==
  /\ At(q, "update")
  /\ \E c \in request[q].todo :
       /\ ~Locked(q, c)
       /\ LET hit == IF Matches(q, c) THEN {c} ELSE {} IN
          Become(q, [request[q] EXCEPT !.todo = request[q].todo \ {c},
                                       !.found = request[q].found \cup hit,
                                       !.marked = request[q].marked \cup hit])
  /\ UNCHANGED << state, parent >>

\* The statement returns its ids.
Return(q) ==
  /\ At(q, "update")
  /\ request[q].todo = {}
  /\ LET rec  == request[q]
         next == NextLevel(rec.target, rec.level, rec.found) IN
     Become(q, Statement(rec, next,
                         IF next = "documents" THEN {rec.target} ELSE rec.found))
  /\ UNCHANGED << state, parent >>

\* The commit updates the row itself first, and so may have to wait for it.
CommitDelete(q) ==
  /\ At(q, "commit")
  /\ ~Locked(q, request[q].target)
  /\ state' = [c \in Rows |-> IF c \in request[q].marked \cup {request[q].target}
                              THEN "deleted" ELSE state[c]]
  /\ Become(q, Finished)
  /\ UNCHANGED parent

-----------------------------------------------------------------------------
(* The database.                                                           *)

\* The rows q cannot go on without.
Wants(q) == IF At(q, "update") THEN request[q].todo
            ELSE IF At(q, "commit") \/ (At(q, "write") /\ request[q].op = "move")
                 THEN {request[q].target}
            ELSE {}

\* A set of requests each of which waits for rows that others of it hold.
Deadlock(S) ==
  \A q \in S : /\ Wants(q) # {}
               /\ \A c \in Wants(q) : \E s \in S \ {q} : c \in request[s].marked

\* A database without deadlock detection.
NoVictim(q) ==
  /\ FALSE
  /\ UNCHANGED vars

\* PostgreSQL aborts one of them, which answers with an error.
Victim(q) ==
  /\ \E S \in SUBSET Requests : q \in S /\ Deadlock(S)
  /\ Become(q, Finished)
  /\ UNCHANGED << state, parent >>

-----------------------------------------------------------------------------

Begin(q) == \/ CreateSubject(q) \/ StartCreate(q) \/ StartDraft(q) \/ StartMove(q)
            \/ StartDelete(q)

Step(q) == \/ Insert(q) \/ Materialize(q) \/ GiveUp(q) \/ CheckMove(q) \/ Move(q)
           \/ Scan(q) \/ Update(q) \/ Return(q) \/ CommitDelete(q) \/ Victim(q)

Next == \E q \in Requests : Begin(q) \/ Step(q)

Spec == Init /\ [][Next]_vars

\* A request that has begun goes on; nobody has to send one.
FairSpec == Spec /\ \A q \in Requests : WF_vars(Step(q))

-----------------------------------------------------------------------------
(* Properties.                                                             *)

\* Deleting reproduces ON DELETE CASCADE (shared/db/soft_delete.py): no row the
\* application still reads hangs below one it does not.
NoLiveBelowDeleted ==
  \A c \in Rows \ Subjects : state[c] = "live" => state[parent[c]] = "live"

\* A deletion takes nothing but what is below its row when it commits, however
\* rows are moved while it goes from table to table (cascade_soft_delete).
DeletesOnlyItsSubtree ==
  [][ \A c \in Rows : state[c] = "live" /\ state'[c] = "deleted" =>
        \E q \in Requests : /\ request[q].op = "delete"
                            /\ request[q].pc = "commit" /\ request'[q].pc = "done"
                            /\ request[q].target \in Chain(c) ]_vars

\* Two deletions lock the same rows in opposite orders, the cascade from the top
\* down and the row itself last; every request gets an answer all the same.
EveryRequestEnds == \A q \in Requests : ~At(q, "new") ~> At(q, "done")
=============================================================================
