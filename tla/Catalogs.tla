-------------------------------- MODULE Catalogs --------------------------------
(***************************************************************************)
(* The catalogs of an instance and what points at them: a subject at an    *)
(* icon (colors are alike), a category type at its category.  A request    *)
(* reads without a lock, and its commit sends an UPDATE only for a value   *)
(* that differs from the one it read.  A change of a subject leaves a row  *)
(* in the audit log of the same transaction.  The deletion of an icon      *)
(* takes it off the subjects with an UPDATE, which leaves none, and only   *)
(* then marks its row; both are seen when it commits.                      *)
(***************************************************************************)
EXTENDS Naturals, Sequences, FiniteSets

CONSTANTS
  Icons,
  None,        \* NULL
  Categories,
  Types,
  Requests,
  MaxAudits    \* bound: audit rows of the subject

ConstantsAssumption ==
  /\ None \notin Icons /\ MaxAudits \in Nat
  /\ Categories # {} /\ Types # {}  \* of which some row may come to be

VARIABLES
  icons,      \* the rows of the catalog
  subject,    \* icon_id of the subject
  audit,      \* the icon in each audit row of the subject, in the order of the commits
  stale,      \* history: the last row was computed from an outdated read
  chosen,     \* history: how its icon stood when the subject was given it
  categories, \* the rows of the catalog
  deletions,  \* history: the categories that were deleted, in order
  types,      \* where each category type belongs
  request

looks  == << icons, subject, audit, stale, chosen >>
kinds  == << categories, deletions, types >>
vars   == << looks, kinds, request >>

Catalog(S) == [S -> {"unborn", "live", "deleted"}]
Live(rows, x) == rows[x] = "live"

Type == [ live : BOOLEAN, category : Categories, checked : Nat ]  \* deletions when checked

Request == [ kind    : {"none", "recolor", "drop_icon", "dropping", "file", "refile",
                        "drop_category"},
             icon    : Icons \cup {None},   \* asked for, or to be deleted
             read    : Icons \cup {None},   \* icon_id as it was read, or as it was taken off
             to      : Categories,
             type    : Types,
             checked : Nat ]

Idle == [kind |-> "none", icon |-> None, read |-> None, to |-> CHOOSE c \in Categories : TRUE,
         type |-> CHOOSE t \in Types : TRUE, checked |-> 0]

TypeOK ==
  /\ icons \in Catalog(Icons)
  /\ subject \in Icons \cup {None}
  /\ audit \in Seq(Icons \cup {None})
  /\ stale \in BOOLEAN /\ chosen \in {"live", "going", "gone"}
  /\ categories \in Catalog(Categories)
  /\ deletions \in Seq(Categories)
  /\ types \in [Types -> Type]
  /\ request \in [Requests -> Request]

Init ==
  /\ icons = [i \in Icons |-> "unborn"] /\ categories = [c \in Categories |-> "unborn"]
  /\ subject = None /\ audit = << None >>   \* SubjectService.create
  /\ stale = FALSE /\ chosen = "live" /\ deletions = << >>
  /\ types = [t \in Types |-> [live |-> FALSE, category |-> Idle.to, checked |-> 0]]
  /\ request = [q \in Requests |-> Idle]

-----------------------------------------------------------------------------

Open(q, r) ==
  /\ request[q].kind = "none"
  /\ request' = [request EXCEPT ![q] = r]
  /\ UNCHANGED << looks, kinds >>

Is(q, kind) == request[q].kind = kind
Close(q) == request' = [request EXCEPT ![q] = Idle]

\* IconService.create and CategoryService.create; an update only renames.
AddIcon(i) ==
  /\ icons[i] = "unborn"
  /\ icons' = [icons EXCEPT ![i] = "live"]
  /\ UNCHANGED << subject, audit, stale, chosen, kinds, request >>

AddCategory(c) ==
  /\ categories[c] = "unborn"
  /\ categories' = [categories EXCEPT ![c] = "live"]
  /\ UNCHANGED << looks, deletions, types, request >>

\* A deletion has updated the row of the subject and has not committed.
Held == \E q \in Requests : Is(q, "dropping") /\ request[q].read # None

\* How an icon stands: none or a live one; one whose deletion has swept the subjects
\* and not committed; a deleted one.
Standing(icon) ==
  IF icon # None /\ ~Live(icons, icon) THEN "gone"
  ELSE IF \E q \in Requests : Is(q, "dropping") /\ request[q].icon = icon THEN "going"
  ELSE "live"

\* SubjectService.update, to its commit; whether the icon is still live is not asked, the
\* foreign key only wants its row.
ReadSubject(q) ==
  \E icon \in {i \in Icons : icons[i] # "unborn"} \cup {None} :
    Open(q, [Idle EXCEPT !.kind = "recolor", !.icon = icon, !.read = subject])

WriteSubject(q) ==
  LET r == request[q] sends == r.icon # r.read IN
  /\ Is(q, "recolor")
  /\ Len(audit) < MaxAudits
  /\ sends => ~Held
  /\ subject' = IF sends THEN r.icon ELSE subject
  /\ chosen' = IF sends THEN Standing(r.icon) ELSE chosen
  /\ audit' = Append(audit, r.icon)
  /\ stale' = (r.read # subject)
  /\ Close(q)
  /\ UNCHANGED << icons, kinds >>

\* IconService.delete.
ReadIcon(q) ==
  \E icon \in Icons :
    Live(icons, icon) /\ Open(q, [Idle EXCEPT !.kind = "drop_icon", !.icon = icon])

\* A bug: the subjects keep the icon.
SweepNothing(q) ==
  /\ Is(q, "drop_icon")
  /\ request' = [request EXCEPT ![q].kind = "dropping"]
  /\ UNCHANGED << looks, kinds >>

\* The UPDATE of the subjects; whoever has updated the same row is waited for.
SweepSubjects(q) ==
  LET r == request[q] IN
  /\ Is(q, "drop_icon")
  /\ r.icon = subject => ~Held
  /\ request' = [request EXCEPT ![q].kind = "dropping",
                               ![q].read = IF r.icon = subject THEN r.icon ELSE None]
  /\ UNCHANGED << looks, kinds >>

\* The commit, which sends icon.deleted_at.
DropIcon(q) ==
  LET r == request[q] IN
  /\ Is(q, "dropping")
  /\ icons' = [icons EXCEPT ![r.icon] = "deleted"]
  /\ subject' = IF r.read # None THEN None ELSE subject
  /\ Close(q)
  /\ UNCHANGED << audit, stale, chosen, kinds >>

\* _ensure_category_exists
MayFile(c) == Live(categories, c)

\* CategoryTypeService.create, and update with a category.
CheckCategory(q) ==
  \E t \in Types, c \in Categories :
    /\ MayFile(c)
    /\ Open(q, [Idle EXCEPT !.kind = IF types[t].live THEN "refile" ELSE "file",
                            !.type = t, !.to = c, !.checked = Len(deletions)])

\* A row that was deleted meanwhile is updated all the same, and stays deleted.
File(q) ==
  LET r == request[q] IN
  /\ r.kind \in {"file", "refile"}
  /\ types' = [types EXCEPT ![r.type] = [live |-> r.kind = "file" \/ @.live,
                                         category |-> r.to, checked |-> r.checked]]
  /\ Close(q)
  /\ UNCHANGED << looks, categories, deletions >>

DropType(t) ==
  /\ types[t].live
  /\ types' = [types EXCEPT ![t].live = FALSE]
  /\ UNCHANGED << looks, categories, deletions, request >>

\* CategoryService.delete; the types stay.
ReadCategory(q) ==
  \E c \in Categories :
    Live(categories, c) /\ Open(q, [Idle EXCEPT !.kind = "drop_category", !.to = c])

DropCategory(q) ==
  /\ Is(q, "drop_category")
  /\ categories' = [categories EXCEPT ![request[q].to] = "deleted"]
  /\ deletions' = IF Live(categories, request[q].to) THEN Append(deletions, request[q].to)
                  ELSE deletions
  /\ Close(q)
  /\ UNCHANGED << looks, types >>

Next ==
  \/ \E q \in Requests :
       \/ ReadSubject(q) \/ WriteSubject(q) \/ ReadIcon(q) \/ SweepSubjects(q)
       \/ DropIcon(q) \/ CheckCategory(q) \/ File(q) \/ ReadCategory(q) \/ DropCategory(q)
  \/ \E i \in Icons : AddIcon(i)
  \/ \E c \in Categories : AddCategory(c)
  \/ \E t \in Types : DropType(t)

Spec == Init /\ [][Next]_vars

-----------------------------------------------------------------------------
(* Properties.                                                             *)

\* The audit log tells what a subject looks like: its last row, or nothing if that icon is
\* gone ("subjects using it fall back to no icon", catalogs service.py).  Only a change that
\* overlapped with another one may be on record wrongly.
AuditTellsTheIcon ==
  LET last == audit[Len(audit)] IN
    ~stale => subject = last \/ (subject = None /\ ~Live(icons, last))

\* "Soft-delete an icon; subjects using it fall back to no icon" (catalogs service.py), if
\* they were given it before the deletion swept the subjects.  A change of a subject that
\* commits between that and the commit of the deletion keeps the icon for good.
IconsLetGo == subject # None /\ chosen = "live" => Live(icons, subject)

\* A type is only filed under a category that was there when its request asked: it may
\* stay behind a deleted category, it never gets there afterwards.
TypesAreFiledInLiveCategories ==
  \A t \in Types : types[t].live =>
    \A i \in 1 .. types[t].checked : deletions[i] # types[t].category

\* What points at a catalog is accounted for, whatever requests overlap.
PointersAreAccountedFor ==
  AuditTellsTheIcon /\ IconsLetGo /\ TypesAreFiledInLiveCategories
=============================================================================
