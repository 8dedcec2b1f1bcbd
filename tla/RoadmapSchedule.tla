---------------------------- MODULE RoadmapSchedule ----------------------------
(***************************************************************************)
(* Where a roadmap falls in the calendar: the period of the plan is split  *)
(* among its modules, and every item gets a day of its module, the         *)
(* planner's where it is usable and a computed one where it is not.  A day *)
(* is a number.  One step is one turn of the loop of materialize.          *)
(***************************************************************************)
EXTENDS Integers, SequencesExt

CONSTANTS
  FirstDay,    \* starts_at of the plan
  LastDays,    \* the values ends_at may have; a plan that is updated may end too early
  MaxModules,
  MaxItems     \* bound: items of a module

ConstantsAssumption ==
  /\ FirstDay \in Int
  /\ LastDays \subseteq Int
  /\ MaxModules \in Nat \ {0}
  /\ MaxItems \in Nat \ {0}

VARIABLES
  ends,    \* ends_at
  size,    \* modules of the roadmap
  placed,  \* how many of them are in the database
  before,  \* the period of the module before the last one
  module,  \* the period of the last one
  dates,   \* what the planner wrote for its items
  days     \* the days they got

vars == << ends, size, placed, before, module, dates, days >>

Earlier(a, b) == IF a < b THEN a ELSE b
Later(a, b)   == IF a < b THEN b ELSE a

\* The days of the plans, with the one before and the one after.
Days ==
  UNION {Earlier(FirstDay, last) - 1 .. Later(FirstDay, last) + 1 : last \in LastDays}
Period == [first : Days, last : Days]
\* A text that is no ISO day fares as a day outside of the module does.
Dates  == UNION {[1 .. n -> Days] : n \in 1 .. MaxItems}

TypeOK ==
  /\ ends \in LastDays
  /\ size \in 1 .. MaxModules
  /\ placed \in 0 .. size
  /\ before \in Period /\ module \in Period
  /\ Len(dates) \in 0 .. MaxItems
  /\ days \in Seq(Days)

Init ==
  /\ ends \in LastDays
  /\ size \in 1 .. MaxModules
  /\ placed = 0
  /\ before = [first |-> FirstDay, last |-> FirstDay]
  /\ module = [first |-> FirstDay, last |-> FirstDay]
  /\ dates = << >>
  /\ days = << >>

-----------------------------------------------------------------------------

\* The length of all modules but the last, less a day.
Step == Later(1, (Later(ends - FirstDay, 0) + 1) \div size) - 1

\* _split_period: the k-th range, given the one before it.
Split(k, previous) ==
  LET cursor == IF k = 1 THEN FirstDay ELSE Earlier(ends, previous.last + 1)
      first  == Earlier(cursor, ends)
      last   == IF k = size THEN ends ELSE Earlier(ends, cursor + Step)
  IN  [first |-> first, last |-> Later(first, last)]

\* Python's round of a quotient: to the nearest, to the even one of two.
Rounded(a, b) ==
  LET q == a \div b
      r == 2 * (a % b)
  IN  IF r < b \/ (r = b /\ q % 2 = 0) THEN q ELSE q + 1

\* spread_over: both ends included, a single item at the start.
Spread(m, count) ==
  [i \in 1 .. count |->
     IF count = 1 \/ m.last <= m.first THEN m.first
     ELSE m.first + Rounded((m.last - m.first) * (i - 1), count - 1)]

\* A bug: any day of the plan will do.
UsableInPlan(m, d) == FirstDay <= d /\ d <= ends

\* parse_planned_date
Usable(m, d) == m.first <= d /\ d <= m.last

Times(d, seq) == Cardinality({i \in DOMAIN seq : seq[i] = d})

\* sorted: the same days, each as often.
Sorted(seq) ==
  {s \in [DOMAIN seq -> ToSet(seq)] :
     /\ \A d \in ToSet(seq) : Times(d, s) = Times(d, seq)
     /\ \A i, j \in DOMAIN s : i < j => s[i] <= s[j]}

Resolved(m, planned) ==
  [i \in 1 .. Len(planned) |->
     IF Usable(m, planned[i]) THEN planned[i] ELSE Spread(m, Len(planned))[i]]

\* schedule_items
Schedule(m, planned) == Sorted(Resolved(m, planned))

\* materialize: the next module and its items.
Materialize ==
  /\ placed < size
  /\ placed' = placed + 1
  /\ before' = module
  /\ module' = Split(placed + 1, module)
  /\ dates' \in Dates
  /\ days' \in Schedule(module', dates')
  /\ UNCHANGED << ends, size >>

Next == Materialize

Spec == Init /\ [][Next]_vars

-----------------------------------------------------------------------------
(* Properties.                                                             *)

\* The first day of the plan; of one that ends before it begins, the only one there is.
Start == Earlier(FirstDay, ends)

\* "An activity on a day the module does not cover reads as a bug to whoever opens the
\* plan" (scheduling.py): the modules lie in the plan's period one after the other, the
\* first from its start and the last to its end; they share a day only if there are more
\* modules than days.  A plan that ends before it begins is all on the day it ends.  Every
\* item has a day of its module, and no usable day is dropped.
EveryItemHasItsDay ==
  placed > 0 =>
    /\ placed = 1 => module.first = Start
    /\ placed = size => module.last = ends
    /\ Start <= module.first /\ module.first <= module.last /\ module.last <= ends
    /\ placed > 1 => \/ module.first = before.last + 1
                     \/ module.first = ends /\ size > ends - Start + 1
    /\ Len(days) = Len(dates)
    /\ \A i \in DOMAIN days : days[i] \in module.first .. module.last
    /\ \A i \in 1 .. Len(days) - 1 : days[i] <= days[i + 1]
    /\ \A d \in module.first .. module.last : Times(d, dates) <= Times(d, days)
=============================================================================
