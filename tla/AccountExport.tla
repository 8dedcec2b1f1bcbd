---------------------------- MODULE AccountExport ----------------------------
(***************************************************************************)
(* The export of an account: eight queries, one after the other, at READ   *)
(* COMMITTED, while the account goes on being used.  Of each table one row *)
(* is followed.  Rows are only added here: a deletion in the application   *)
(* is a soft one, which the export does not look at.                       *)
(***************************************************************************)
EXTENDS Naturals, Sequences

Tables == {"subject", "plan", "module", "item", "run", "document", "content", "source"}

\* What a row refers to, and which tables are read by the ids found so far.
Parent == [ subject |-> "none", plan |-> "subject", module |-> "plan", item |-> "module",
            run |-> "plan", document |-> "subject", content |-> "document",
            source |-> "item" ]
ByParent == {"document", "content", "source"}

VARIABLES
  stored,    \* the tables whose row was committed
  queries,   \* the queries still to send
  exported,  \* what they found
  before     \* history: `stored` when the export began

vars == << stored, queries, exported, before >>

Queries == << "subject", "plan", "module", "item", "run", "document", "content", "source" >>

TypeOK ==
  /\ stored \in SUBSET Tables
  /\ queries \in Seq(Tables \cup {"waiting"})
  /\ exported \in SUBSET Tables
  /\ before \in SUBSET Tables

Init ==
  /\ stored = {}
  /\ queries = << "waiting" >>
  /\ exported = {}
  /\ before = {}

Insert(t) ==
  /\ t \notin stored
  /\ Parent[t] \in stored \cup {"none"}
  /\ stored' = stored \cup {t}
  /\ UNCHANGED << queries, exported, before >>

Begin ==
  /\ queries = << "waiting" >>
  /\ queries' = Queries
  /\ exported' = {}
  /\ before' = stored
  /\ UNCHANGED stored

Finds(t) == t \in stored /\ (t \in ByParent => Parent[t] \in exported)

Query ==
  /\ queries \notin {<< >>, << "waiting" >>}
  /\ exported' = IF Finds(Head(queries)) THEN exported \cup {Head(queries)} ELSE exported
  /\ queries' = Tail(queries)
  /\ UNCHANGED << stored, before >>

\* The answer is sent.
Answer ==
  /\ queries = << >>
  /\ queries' = << "waiting" >>
  /\ UNCHANGED << stored, exported, before >>

Next == (\E t \in Tables : Insert(t)) \/ Begin \/ Query \/ Answer

Spec == Init /\ [][Next]_vars

\* "Everything this account owns" (account_data_service.py, export): what was there when
\* the export began is in it, in whichever order the tables are read and whatever they are
\* found by.  A row may come without the one it hangs from, a module without its plan, but
\* only if both were added while the export ran.
ExportIsComplete ==
  queries = << >> =>
    /\ before \subseteq exported
    /\ \A t \in exported :
         Parent[t] \notin exported \cup {"none"} => {t, Parent[t]} \cap before = {}
=============================================================================
