---------------------------- MODULE WorkspaceProofs ----------------------------
(***************************************************************************)
(* Theorems about Workspace: its types; that a deletion takes nothing but  *)
(* what is below its row, whatever moves and enters meanwhile; and that it *)
(* takes all of that.                                                      *)
(***************************************************************************)
EXTENDS Workspace, TLAPS

\* A row is below rows of one kind only.
LEMMA OneKindAbove ==
  ASSUME NEW c \in Rows, NEW p \in Rows, c \in Below(p)
  PROVE  /\ c \notin Subjects
         /\ c \in Plans \cup Documents => p \in Subjects
         /\ c \in Modules => p \in Plans
         /\ c \in Items => p \in Modules
  BY ConstantsAssumption DEF Rows, Below

\* The records of requests.
LEMMA RequestRecords ==
  /\ NewRequest \in Request
  /\ Finished \in Request
  /\ Finished.op = "none" /\ Finished.pc = "done" /\ Finished.marked = {}
  BY DEF Request, NewRequest, Finished, Levels

\* The statement that follows is a request that holds the same rows.
LEMMA StatementRecord ==
  ASSUME NEW rec \in Request, NEW level \in Levels, NEW above \in SUBSET Rows
  PROVE  LET s == Statement(rec, level, above) IN
         /\ s \in Request
         /\ s.pc \in {"scan", "commit"}
         /\ s.op = rec.op /\ s.target = rec.target /\ s.marked = rec.marked
         /\ s.above = above /\ s.todo = {} /\ s.found = {}
  BY DEF Request, Statement

LEMMA LevelsFollow ==
  /\ \A t : FirstLevel(t) \in Levels
  /\ \A t, l, f : NextLevel(t, l, f) \in Levels
  BY DEF FirstLevel, NextLevel, Levels

-----------------------------------------------------------------------------

LEMMA TypeInit == Init => TypeOK
<1> SUFFICES ASSUME Init PROVE TypeOK
  OBVIOUS
<1>1. PICK tree \in Trees :
        /\ state  = [c \in Rows |-> IF c \in DOMAIN tree THEN "live" ELSE "absent"]
        /\ parent = [c \in Rows |-> IF c \in DOMAIN tree THEN tree[c] ELSE NoRow]
  BY DEF Init
<1>2. \A c \in DOMAIN tree : /\ WellPlaced(c, tree[c])
                             /\ tree[c] \in Rows \cup {NoRow}
  BY ConstantsAssumption
<1>3. request \in [Requests -> Request]
  BY RequestRecords DEF Init
<1> QED
  BY <1>1, <1>2, <1>3 DEF TypeOK

(***************************************************************************)
(* The inductive invariant.  A moving request has a place to move to; a    *)
(* deleting one holds rows that are live and hang from its row or from     *)
(* rows it holds; nobody else holds them.                                  *)
(***************************************************************************)
RequestOK(q) ==
  /\ request[q].op = "move" =>
       /\ request[q].target \in Rows \ Subjects /\ request[q].dest \in Rows
       /\ request[q].target \in Below(request[q].dest)
       /\ state[request[q].target] # "absent"
  /\ request[q].op = "draft" => request[q].dest \in Plans
  /\ request[q].op = "delete" =>
       request[q].target \in Rows /\ state[request[q].target] # "absent"
  /\ (request[q].op = "delete") <=> (request[q].pc \in {"scan", "update", "commit"})
  /\ request[q].op # "delete" => request[q].marked = {}
  /\ request[q].above \subseteq request[q].marked \cup {request[q].target}
  /\ request[q].found \subseteq request[q].marked
  /\ \A c \in request[q].marked :
       /\ state[c] = "live"
       /\ parent[c] \in request[q].marked \cup {request[q].target}

Exclusive ==
  \A q, s \in Requests : q # s => request[q].marked \cap request[s].marked = {}

IInv == TypeOK /\ (\A q \in Requests : RequestOK(q)) /\ Exclusive

\* A request at rest, or finished, satisfies the invariant trivially.
LEMMA AtRest ==
  ASSUME NEW q \in Requests, IInv, NEW rec \in Request, Become(q, rec),
         rec.op \in {"none", "create"}, rec.pc \notin {"scan", "update", "commit"},
         rec.marked = {}, rec.above = {}, rec.found = {}
  PROVE  RequestOK(q)'
<1>1. request'[q] = rec
  BY DEF Become, IInv, TypeOK
<1> QED
  BY <1>1 DEF RequestOK

\* What another request's step leaves as it was.
LEMMA OthersKeep ==
  ASSUME NEW q \in Requests, IInv, NEW rec \in Request, Become(q, rec),
         \A c \in Rows : state[c] # "absent" => state'[c] # "absent",
         NEW s \in Requests, s # q,
         \A c \in request[s].marked : state'[c] = state[c] /\ parent'[c] = parent[c]
  PROVE  RequestOK(s)'
<1>1. request'[s] = request[s]
  BY DEF Become, IInv, TypeOK
<1>2. RequestOK(s)
  BY DEF IInv
<1> QED
  BY <1>1, <1>2 DEF RequestOK

\* Rows are exclusive as long as nobody takes one.
LEMMA NobodyTakes ==
  ASSUME NEW q \in Requests, IInv, NEW rec \in Request, Become(q, rec),
         rec.marked \subseteq request[q].marked
  PROVE  Exclusive'
<1>1. \A s \in Requests : request'[s].marked \subseteq request[s].marked
  BY DEF Become, IInv, TypeOK
<1> QED
  BY <1>1 DEF Exclusive, IInv

\* A step that changes nothing but the record of its request.
LEMMA OwnStep ==
  ASSUME NEW q \in Requests, IInv, NEW rec \in Request, Become(q, rec),
         UNCHANGED << state, parent >>, RequestOK(q)',
         rec.marked \subseteq request[q].marked
  PROVE  IInv'
<1>1. TypeOK'
  BY DEF Become, IInv, TypeOK
<1>2. \A s \in Requests : RequestOK(s)'
  BY OthersKeep
<1>3. Exclusive'
  BY NobodyTakes
<1> QED
  BY <1>1, <1>2, <1>3 DEF IInv

\* A step after which the request is done.
LEMMA LastStep ==
  ASSUME NEW q \in Requests, IInv, Become(q, Finished), TypeOK',
         \A c \in Rows : state[c] # "absent" => state'[c] # "absent",
         \A s \in Requests \ {q} : \A c \in request[s].marked :
           state'[c] = state[c] /\ parent'[c] = parent[c]
  PROVE  IInv'
<1>1. Finished \in Request /\ Finished.marked = {} /\ Finished.above = {} /\ Finished.found = {}
  BY RequestRecords DEF Finished, NewRequest
<1>2. RequestOK(q)'
  BY <1>1, RequestRecords, AtRest
<1>3. \A s \in Requests : RequestOK(s)'
  BY <1>1, <1>2, OthersKeep
<1>4. Exclusive'
  BY <1>1, NobodyTakes
<1> QED
  BY <1>3, <1>4 DEF IInv

LEMMA InvInit == Init => IInv
<1> SUFFICES ASSUME Init PROVE IInv
  OBVIOUS
<1>1. \A q \in Requests : request[q] = NewRequest
  BY DEF Init
<1> QED
  BY <1>1, TypeInit DEF IInv, RequestOK, Exclusive, NewRequest

LEMMA InvNext == IInv /\ [Next]_vars => IInv'
<1> SUFFICES ASSUME IInv, [Next]_vars PROVE IInv'
  OBVIOUS
<1>0. TypeOK /\ Exclusive /\ (\A q \in Requests : RequestOK(q) /\ request[q] \in Request)
  BY DEF IInv, TypeOK
<1>1. ASSUME NEW q \in Requests, CreateSubject(q) PROVE IInv'
  <2>1. PICK c \in Subjects : state[c] = "absent" /\ state' = [state EXCEPT ![c] = "live"]
    BY <1>1 DEF CreateSubject
  <2>2. TypeOK'
    BY <1>0, <1>1, <2>1, RequestRecords DEF CreateSubject, TypeOK, Become, WellPlaced, Rows
  <2>3. \A s \in Requests : c \notin request[s].marked
    BY <1>0, <2>1 DEF RequestOK
  <2> QED
    BY <1>0, <1>1, <2>1, <2>2, <2>3, LastStep DEF CreateSubject, TypeOK, Request, Rows
<1>2. ASSUME NEW q \in Requests, StartCreate(q) PROVE IInv'
  <2>1. PICK p \in Rows :
          Become(q, [NewRequest EXCEPT !.pc = "write", !.op = "create", !.dest = p])
    BY Zenon, <1>2 DEF StartCreate
  <2> DEFINE rec == [NewRequest EXCEPT !.pc = "write", !.op = "create", !.dest = p]
  <2>2. /\ rec \in Request /\ rec.op = "create" /\ rec.pc = "write"
        /\ rec.marked = {} /\ rec.above = {} /\ rec.found = {}
    BY DEF NewRequest, Request, Levels
  <2> HIDE DEF rec
  <2>3. RequestOK(q)'
    BY <2>1, <2>2, AtRest DEF rec
  <2> QED
    BY <1>2, <2>1, <2>2, <2>3, OwnStep DEF StartCreate, rec
<1>3. ASSUME NEW q \in Requests, Insert(q) PROVE IInv'
  <2>1. PICK c \in Below(request[q].dest) :
          /\ state[c] = "absent"
          /\ state' = [state EXCEPT ![c] = "live"]
          /\ parent' = [parent EXCEPT ![c] = request[q].dest]
    BY <1>3 DEF Insert
  <2>2. c \in Rows /\ request[q].dest \in Rows /\ c \notin Subjects
    BY <1>0, <2>1, OneKindAbove, ConstantsAssumption DEF Request, Below, Rows
  <2>3. WellPlaced(c, request[q].dest)
    BY <2>1, <2>2 DEF WellPlaced
  <2>4. TypeOK'
    BY <1>0, <1>3, <2>1, <2>2, <2>3, RequestRecords DEF Insert, TypeOK, Become
  <2>5. \A s \in Requests : c \notin request[s].marked
    BY <1>0, <2>1 DEF RequestOK
  <2> QED
    BY <1>0, <1>3, <2>1, <2>2, <2>4, <2>5, LastStep DEF Insert, TypeOK, Request
<1>4. ASSUME NEW q \in Requests, StartDraft(q) PROVE IInv'
  <2>1. PICK p \in Plans :
          Become(q, [NewRequest EXCEPT !.pc = "write", !.op = "draft", !.dest = p])
    BY Zenon, <1>4 DEF StartDraft
  <2> DEFINE rec == [NewRequest EXCEPT !.pc = "write", !.op = "draft", !.dest = p]
  <2>2. /\ rec \in Request /\ rec.op = "draft" /\ rec.pc = "write" /\ rec.dest = p
        /\ rec.marked = {} /\ rec.above = {} /\ rec.found = {}
    BY DEF NewRequest, Request, Levels, Rows
  <2> HIDE DEF rec
  <2>3. request'[q] = rec
    BY <1>0, <2>1 DEF Become, TypeOK, rec
  <2>4. RequestOK(q)'
    BY <2>2, <2>3 DEF RequestOK
  <2> QED
    BY <1>4, <2>1, <2>2, <2>4, OwnStep DEF StartDraft, rec
<1>5. ASSUME NEW q \in Requests, Materialize(q) PROVE IInv'
  <2>1. PICK m \in Modules, S \in SUBSET Items \ {{}} :
          /\ \A c \in {m} \cup S : state[c] = "absent"
          /\ state'  = [c \in Rows |-> IF c \in {m} \cup S THEN "live" ELSE state[c]]
          /\ parent' = [c \in Rows |-> IF c = m THEN request[q].dest
                                       ELSE IF c \in S THEN m ELSE parent[c]]
    BY <1>5 DEF Materialize
  <2>2. request[q].dest \in Plans
    BY <1>0, <1>5 DEF Materialize, RequestOK
  <2>3. /\ WellPlaced(m, request[q].dest)
        /\ \A c \in S : WellPlaced(c, m)
        /\ m \notin S
    BY <2>2, ConstantsAssumption DEF WellPlaced, Below, Rows
  <2>4. TypeOK'
    <3>1. parent' \in [Rows -> Rows \cup {NoRow}] /\ state' \in [Rows -> {"absent", "live", "deleted"}]
      BY <1>0, <2>1, <2>2 DEF TypeOK, Rows
    <3>2. request' \in [Requests -> Request]
      BY <1>0, <1>5, RequestRecords DEF Materialize, TypeOK, Become
    <3>3. \A c \in Rows : IF state'[c] = "absent" THEN parent'[c] = NoRow
                                                 ELSE WellPlaced(c, parent'[c])
      BY <1>0, <2>1, <2>3 DEF TypeOK
    <3> QED
      BY <3>1, <3>2, <3>3 DEF TypeOK, WellPlaced
  <2>5. \A s \in Requests : ({m} \cup S) \cap request[s].marked = {}
    BY <1>0, <2>1 DEF RequestOK
  <2>6. \A c \in Rows : state[c] # "absent" => state'[c] # "absent"
    BY <2>1
  <2>7. \A s \in Requests \ {q} : \A c \in request[s].marked :
          state'[c] = state[c] /\ parent'[c] = parent[c]
    BY <1>0, <2>1, <2>5 DEF Request
  <2>8. Become(q, Finished)
    BY <1>5 DEF Materialize
  <2> QED
    BY <2>4, <2>6, <2>7, <2>8, LastStep
<1>6. ASSUME NEW q \in Requests, GiveUp(q) \/ Victim(q) PROVE IInv'
  <2>1. Become(q, Finished) /\ UNCHANGED << state, parent >>
    BY <1>6 DEF GiveUp, Victim
  <2>2. TypeOK'
    BY <1>0, <2>1, RequestRecords DEF TypeOK, Become
  <2> QED
    BY <2>1, <2>2, LastStep
<1>7. ASSUME NEW q \in Requests, StartMove(q) PROVE IInv'
  <2>1. PICK c \in Rows \ (Subjects \cup Documents), p \in Rows :
          /\ state[c] = "live" /\ c \in Below(p)
          /\ Become(q, [NewRequest EXCEPT !.pc = "check", !.op = "move",
                                          !.target = c, !.dest = p])
    BY Zenon, <1>7 DEF StartMove
  <2> DEFINE rec == [NewRequest EXCEPT !.pc = "check", !.op = "move",
                                       !.target = c, !.dest = p]
  <2>2. /\ rec \in Request /\ rec.op = "move" /\ rec.pc = "check"
        /\ rec.target = c /\ rec.dest = p
        /\ rec.marked = {} /\ rec.above = {} /\ rec.found = {}
    BY DEF NewRequest, Request, Levels
  <2> HIDE DEF rec
  <2>3. request'[q] = rec
    BY <1>0, <2>1 DEF Become, TypeOK, rec
  <2>4. state' = state
    BY <1>7 DEF StartMove
  <2>5. RequestOK(q)'
    BY <2>1, <2>2, <2>3, <2>4 DEF RequestOK
  <2> QED
    BY <1>7, <2>1, <2>2, <2>5, OwnStep DEF StartMove, rec
<1>8. ASSUME NEW q \in Requests, CheckMove(q) PROVE IInv'
  <2>1. CASE state[request[q].dest] = "live"
    <3> DEFINE rec == [request[q] EXCEPT !.pc = "write"]
    <3>1. Become(q, rec) /\ UNCHANGED << state, parent >> /\ request[q].pc = "check"
      BY <1>8, <2>1 DEF CheckMove, At
    <3>2. /\ rec \in Request /\ rec.pc = "write" /\ rec.op = request[q].op
          /\ rec.target = request[q].target /\ rec.dest = request[q].dest
          /\ rec.marked = request[q].marked /\ rec.above = request[q].above
          /\ rec.found = request[q].found
      BY <1>0 DEF Request
    <3> HIDE DEF rec
    <3>3. request'[q] = rec
      BY <1>0, <3>1 DEF Become, TypeOK
    <3>4. RequestOK(q)'
      BY <1>0, <3>1, <3>2, <3>3 DEF RequestOK
    <3> QED
      BY <3>1, <3>2, <3>4, OwnStep
  <2>2. CASE state[request[q].dest] # "live"
    <3>1. Become(q, Finished) /\ UNCHANGED << state, parent >>
      BY <1>8, <2>2 DEF CheckMove
    <3>2. TypeOK'
      BY <1>0, <3>1, RequestRecords DEF TypeOK, Become
    <3> QED
      BY <3>1, <3>2, LastStep
  <2> QED
    BY <2>1, <2>2
<1>9. ASSUME NEW q \in Requests, Move(q) PROVE IInv'
  <2>1. /\ request[q].op = "move" /\ ~Locked(q, request[q].target)
        /\ parent' = [parent EXCEPT ![request[q].target] = request[q].dest]
        /\ Become(q, Finished) /\ state' = state
    BY <1>9 DEF Move
  <2>2. /\ request[q].target \in Rows \ Subjects /\ request[q].dest \in Rows
        /\ request[q].target \in Below(request[q].dest)
        /\ state[request[q].target] # "absent"
    BY <1>0, <2>1 DEF RequestOK
  <2>3. TypeOK'
    BY <1>0, <2>1, <2>2, RequestRecords DEF TypeOK, Become, WellPlaced
  <2>4. \A s \in Requests \ {q} : request[q].target \notin request[s].marked
    BY <2>1 DEF Locked
  <2>5. \A s \in Requests \ {q} : \A c \in request[s].marked : parent'[c] = parent[c]
    BY <1>0, <2>1, <2>4 DEF Request, TypeOK
  <2> QED
    BY <2>1, <2>3, <2>5, LastStep
<1>10. ASSUME NEW q \in Requests, StartDelete(q) PROVE IInv'
  <2>1. PICK t \in Rows :
          /\ state[t] = "live"
          /\ Become(q, Statement([NewRequest EXCEPT !.op = "delete", !.target = t],
                                 FirstLevel(t), {t}))
    BY Zenon, <1>10 DEF StartDelete
  <2> DEFINE own == [NewRequest EXCEPT !.op = "delete", !.target = t]
             rec == Statement(own, FirstLevel(t), {t})
  <2>2. own \in Request /\ own.op = "delete" /\ own.target = t /\ own.marked = {}
    BY DEF NewRequest, Request, Levels
  <2> HIDE DEF own
  <2>3. /\ rec \in Request /\ rec.pc \in {"scan", "commit"}
        /\ rec.op = "delete" /\ rec.target = t /\ rec.marked = {}
        /\ rec.above = {t} /\ rec.found = {}
    BY <2>2, StatementRecord, LevelsFollow
  <2> HIDE DEF rec
  <2>4. Become(q, rec) /\ UNCHANGED << state, parent >>
    BY <1>10, <2>1 DEF rec, own, StartDelete
  <2>5. request'[q] = rec
    BY <1>0, <2>4 DEF Become, TypeOK
  <2>6. RequestOK(q)'
    BY <2>1, <2>3, <2>4, <2>5 DEF RequestOK
  <2> QED
    BY <2>3, <2>4, <2>6, OwnStep
<1>11. ASSUME NEW q \in Requests, Scan(q) PROVE IInv'
  <2> DEFINE seen == {c \in Table(request[q].level) :
                        state[c] = "live" /\ parent[c] \in request[q].above}
             rec == [request[q] EXCEPT !.pc = "update", !.todo = seen]
  <2>1. Become(q, rec) /\ UNCHANGED << state, parent >> /\ request[q].pc = "scan"
    BY <1>11 DEF Scan, At
  <2>2. seen \in SUBSET Rows
    <3>1. request[q].level \in Levels
      BY <1>0 DEF Request
    <3> QED
      BY <3>1 DEF Table, Rows, Levels
  <2> HIDE DEF seen
  <2>3. /\ rec \in Request /\ rec.pc = "update" /\ rec.op = request[q].op
        /\ rec.target = request[q].target /\ rec.dest = request[q].dest
        /\ rec.marked = request[q].marked /\ rec.above = request[q].above
        /\ rec.found = request[q].found
    BY <1>0, <2>2 DEF Request
  <2> HIDE DEF rec
  <2>4. request'[q] = rec
    BY <1>0, <2>1 DEF Become, TypeOK
  <2>5. RequestOK(q)'
    BY <1>0, <2>1, <2>3, <2>4 DEF RequestOK
  <2> QED
    BY <2>1, <2>3, <2>5, OwnStep
<1>12. ASSUME NEW q \in Requests, Update(q) PROVE IInv'
  <2>1. PICK c \in request[q].todo :
          /\ ~Locked(q, c)
          /\ LET hit == IF Matches(q, c) THEN {c} ELSE {} IN
             Become(q, [request[q] EXCEPT !.todo = request[q].todo \ {c},
                                          !.found = request[q].found \cup hit,
                                          !.marked = request[q].marked \cup hit])
    BY Zenon, <1>12 DEF Update
  <2> DEFINE hit == IF Matches(q, c) THEN {c} ELSE {}
             rec == [request[q] EXCEPT !.todo = request[q].todo \ {c},
                                       !.found = request[q].found \cup hit,
                                       !.marked = request[q].marked \cup hit]
  <2>2. /\ Become(q, rec) /\ UNCHANGED << state, parent >> /\ request[q].pc = "update"
        /\ c \in Rows
    BY <1>0, <1>12, <2>1 DEF Update, At, Request
  <2>3. hit \subseteq {c} /\ \A k \in hit : Matches(q, k)
    OBVIOUS
  <2> HIDE DEF hit
  <2>4. /\ rec \in Request /\ rec.pc = request[q].pc /\ rec.op = request[q].op
        /\ rec.target = request[q].target /\ rec.dest = request[q].dest
        /\ rec.marked = request[q].marked \cup hit /\ rec.above = request[q].above
        /\ rec.found = request[q].found \cup hit
    BY ZenonT(60), <1>0, <2>2, <2>3 DEF Request
  <2> HIDE DEF rec
  <2>5. request'[q] = rec
    BY <1>0, <2>2 DEF Become, TypeOK
  <2>6. RequestOK(q)'
    BY <1>0, <2>2, <2>3, <2>4, <2>5 DEF RequestOK, Matches
  <2>7. TypeOK'
    BY <1>0, <2>2, <2>4 DEF TypeOK, Become
  <2>8. \A s \in Requests \ {q} : request'[s] = request[s] /\ hit \cap request[s].marked = {}
    BY <1>0, <2>1, <2>2, <2>3 DEF Become, TypeOK, Locked
  <2>9. Exclusive'
    BY <1>0, <2>4, <2>5, <2>8 DEF Exclusive
  <2>10. \A s \in Requests : RequestOK(s)'
    BY <2>2, <2>4, <2>6, OthersKeep
  <2> QED
    BY <2>7, <2>9, <2>10 DEF IInv
<1>13. ASSUME NEW q \in Requests, Return(q) PROVE IInv'
  <2> DEFINE next  == NextLevel(request[q].target, request[q].level, request[q].found)
             above == IF next = "documents" THEN {request[q].target} ELSE request[q].found
             rec   == Statement(request[q], next, above)
  <2>1. Become(q, rec) /\ UNCHANGED << state, parent >> /\ request[q].pc = "update"
    BY <1>13 DEF Return, At
  <2>2. request[q].op = "delete" /\ request[q].target \in Rows
    BY <1>0, <2>1 DEF RequestOK
  <2>3. above \in SUBSET Rows /\ above \subseteq request[q].marked \cup {request[q].target}
    BY <1>0, <2>2 DEF RequestOK, Request
  <2>4. next \in Levels
    BY LevelsFollow
  <2> HIDE DEF next, above
  <2>5. /\ rec \in Request /\ rec.pc \in {"scan", "commit"} /\ rec.op = request[q].op
        /\ rec.target = request[q].target /\ rec.marked = request[q].marked
        /\ rec.above = above /\ rec.found = {}
    BY <1>0, <2>3, <2>4, StatementRecord
  <2> HIDE DEF rec
  <2>6. request'[q] = rec
    BY <1>0, <2>1 DEF Become, TypeOK
  <2>7. RequestOK(q)'
    BY <1>0, <2>1, <2>2, <2>3, <2>5, <2>6 DEF RequestOK
  <2> QED
    BY <2>1, <2>5, <2>7, OwnStep
<1>14. ASSUME NEW q \in Requests, CommitDelete(q) PROVE IInv'
  <2>1. /\ request[q].pc = "commit" /\ ~Locked(q, request[q].target)
        /\ state' = [c \in Rows |-> IF c \in request[q].marked \cup {request[q].target}
                                    THEN "deleted" ELSE state[c]]
        /\ Become(q, Finished) /\ parent' = parent
    BY <1>14 DEF CommitDelete, At
  <2>2. state[request[q].target] # "absent" /\ \A c \in request[q].marked : state[c] = "live"
    BY <1>0, <2>1 DEF RequestOK
  <2>3. TypeOK'
    BY <1>0, <2>1, <2>2, RequestRecords DEF TypeOK, Become, WellPlaced
  <2>4. \A s \in Requests \ {q} : \A c \in request[s].marked : state'[c] = state[c]
    BY <1>0, <2>1 DEF Exclusive, Locked, Request
  <2>5. \A c \in Rows : state[c] # "absent" => state'[c] # "absent"
    BY <2>1
  <2> QED
    BY <2>1, <2>3, <2>4, <2>5, LastStep
<1>15. CASE UNCHANGED vars
  BY <1>0, <1>15 DEF vars, IInv, TypeOK, RequestOK, Exclusive
<1> QED
  BY <1>1, <1>2, <1>3, <1>4, <1>5, <1>6, <1>7, <1>8, <1>9, <1>10, <1>11, <1>12, <1>13,
     <1>14, <1>15 DEF Next, Begin, Step

LEMMA Invariance == Spec => []IInv
<1>1. Init => IInv
  BY InvInit
<1>2. IInv /\ [Next]_vars => IInv'
  BY InvNext
<1> QED
  BY <1>1, <1>2, PTL DEF Spec

-----------------------------------------------------------------------------

\* A live row hangs from a row of the level above, a deleted one too
\* (the foreign keys of the models).
THEOREM TypeCorrect == Spec => []TypeOK
<1>1. IInv => TypeOK
  BY DEF IInv
<1> QED
  BY <1>1, Invariance, PTL

\* What a request holds is, level by level, below its row.
LEMMA MarkedIsBelow ==
  ASSUME IInv, NEW q \in Requests, request[q].op = "delete",
         NEW c \in request[q].marked
  PROVE  request[q].target \in Chain(c)
<1> DEFINE t == request[q].target
<1>1. /\ TypeOK /\ RequestOK(q) /\ t \in Rows /\ t # NoRow /\ c \in Rows
      /\ request[q].marked \subseteq Rows
  BY ConstantsAssumption DEF IInv, TypeOK, Request, RequestOK
<1>2. ASSUME NEW k \in request[q].marked
      PROVE  /\ k \in Rows /\ k \notin Subjects
             /\ Up(k) = parent[k]
             /\ Up(k) \in request[q].marked \/ Up(k) = t
             /\ k \in Plans \cup Documents => Up(k) \in Subjects
             /\ k \in Modules => Up(k) \in Plans
             /\ k \in Items => Up(k) \in Modules
  <2>1. k \in Rows /\ state[k] = "live" /\ parent[k] \in request[q].marked \cup {t}
    BY <1>1 DEF RequestOK
  <2>2. parent[k] \in Rows /\ WellPlaced(k, parent[k])
    BY <1>1, <2>1 DEF TypeOK
  <2>3. k \in Below(parent[k])
    BY <2>2, ConstantsAssumption DEF WellPlaced
  <2> QED
    BY <2>1, <2>2, <2>3, OneKindAbove DEF Up
<1>3. ASSUME NEW k \in request[q].marked, k \in Plans \cup Documents PROVE Up(k) = t
  BY <1>2, <1>3
<1>4. ASSUME NEW k \in request[q].marked, k \in Modules PROVE t \in {Up(k), Up(Up(k))}
  BY <1>2, <1>3, <1>4
<1>5. ASSUME NEW k \in request[q].marked, k \in Items
      PROVE  t \in {Up(k), Up(Up(k)), Up(Up(Up(k)))}
  BY <1>2, <1>4, <1>5
<1> QED
  BY <1>1, <1>2, <1>3, <1>4, <1>5 DEF Chain, Rows

\* A deletion takes nothing but its row and what is below it at its commit, for
\* any trees and requests, late entries included (cascade_soft_delete).
THEOREM DeletionStaysInside == Spec => DeletesOnlyItsSubtree
<1> DEFINE Inside ==
      \A c \in Rows : state[c] = "live" /\ state'[c] = "deleted" =>
        \E q \in Requests : /\ request[q].op = "delete"
                            /\ request[q].pc = "commit" /\ request'[q].pc = "done"
                            /\ request[q].target \in Chain(c)
<1>1. IInv /\ [Next]_vars => [Inside]_vars
  <2> SUFFICES ASSUME IInv, Next, NEW c \in Rows, state[c] = "live", state'[c] = "deleted"
               PROVE  \E q \in Requests : /\ request[q].op = "delete"
                                          /\ request[q].pc = "commit" /\ request'[q].pc = "done"
                                          /\ request[q].target \in Chain(c)
    BY DEF vars
  <2>0. TypeOK
    BY DEF IInv
  <2>1. PICK q \in Requests : Begin(q) \/ Step(q)
    BY DEF Next
  <2>2. CASE CommitDelete(q)
    <3>1. /\ request[q].pc = "commit" /\ Become(q, Finished)
          /\ c \in request[q].marked \cup {request[q].target}
      BY <2>0, <2>2 DEF CommitDelete, At
    <3>2. request[q].op = "delete" /\ request'[q].pc = "done"
      BY <2>0, <3>1, RequestRecords DEF IInv, RequestOK, Become, TypeOK
    <3>3. CASE c = request[q].target
      BY <3>1, <3>2, <3>3, ConstantsAssumption DEF Chain
    <3>4. CASE c \in request[q].marked
      BY <3>1, <3>2, <3>4, MarkedIsBelow
    <3> QED
      BY <3>1, <3>3, <3>4
  <2>3. CASE ~CommitDelete(q)
    <3>1. state' = state \/ state'[c] # "deleted"
      <4>1. CASE CreateSubject(q)
        BY <2>0, <4>1 DEF CreateSubject, TypeOK
      <4>2. CASE Insert(q)
        BY <2>0, <4>2 DEF Insert, TypeOK
      <4>3. CASE Materialize(q)
        BY <2>0, <4>3 DEF Materialize, TypeOK
      <4> QED
        BY Zenon, <2>1, <2>3, <4>1, <4>2, <4>3
           DEF Begin, Step, StartCreate, StartDraft, StartMove, StartDelete, GiveUp,
               CheckMove, Move, Scan, Update, Return, Victim
    <3> QED
      BY <3>1
  <2> QED
    BY <2>2, <2>3
<1>2. [][Inside]_vars => DeletesOnlyItsSubtree
  BY DEF DeletesOnlyItsSubtree
<1> QED
  BY <1>1, <1>2, Invariance, PTL DEF Spec

-----------------------------------------------------------------------------
(* The cascade.  No live row below a deleted one, as long as nothing       *)
(* enters below what is being deleted: the cascade reaches everything,     *)
(* although it goes from table to table while rows are moved and other     *)
(* deletions go on.                                                        *)

\* Nobody enters below, and nobody deletes above, what is on its way.
NoLateEntries == LateEntries = FALSE

\* The tables a deletion is through with.
Swept(level) == CASE level = "plans"     -> {}
                  [] level = "modules"   -> Plans
                  [] level = "items"     -> Plans \cup Modules
                  [] level = "documents" -> Plans \cup Modules \cup Items
                  [] level = "row"       -> Rows

\* The rows it has taken, and its own.
Taken(q) == request[q].marked \cup {request[q].target}

\* A row that is being put somewhere has somewhere to go.
EntryOK(q) ==
  Entering(q) => /\ request[q].dest \in Rows
                 /\ request[q].pc = "write" => state[request[q].dest] = "live"

NoLate ==
  \A q, s \in Requests :
    request[q].op = "delete" /\ Entering(s) => request[q].target \notin Chain(request[s].dest)

\* Its statements are those that can find something.
LevelOK(q) ==
  /\ request[q].level = "row" <=> request[q].pc = "commit"
  /\ request[q].level \in {"plans", "documents"} => request[q].target \in Subjects
  /\ request[q].level = "modules" => request[q].target \in Subjects \cup Plans
  /\ request[q].level = "items" => request[q].target \in Subjects \cup Plans \cup Modules
  /\ request[q].marked \subseteq Swept(request[q].level) \cup Table(request[q].level)
  /\ request[q].pc # "commit" =>
       request[q].found = request[q].marked \cap Table(request[q].level)
  /\ request[q].todo \subseteq Table(request[q].level)

\* What is below a taken row is taken, table by table; what the statement at
\* hand has to look at hangs from the rows it asks for, and it has seen it.
SweepOK(q) ==
  /\ \A c \in Swept(request[q].level) :
       state[c] = "live" /\ parent[c] \in Taken(q) => c \in request[q].marked
  /\ \A p \in Taken(q), c \in Table(request[q].level) : c \in Below(p) => p \in request[q].above
  /\ request[q].pc = "update" =>
       \A c \in Table(request[q].level) :
         state[c] = "live" /\ parent[c] \in Taken(q) => c \in request[q].todo \cup request[q].marked

SInv ==
  /\ IInv
  /\ \A q \in Requests : EntryOK(q)
  /\ NoLate
  /\ \A q \in Requests : request[q].op = "delete" => LevelOK(q) /\ SweepOK(q)
  /\ NoLiveBelowDeleted

-----------------------------------------------------------------------------
(* Chains.                                                                 *)

\* Up and Chain in one state of parent.
UpIn(f, c)    == IF c \in Rows THEN f[c] ELSE NoRow
ChainIn(f, c) == {c, UpIn(f, c), UpIn(f, UpIn(f, c)), UpIn(f, UpIn(f, UpIn(f, c)))} \ {NoRow}

LEMMA ChainIsChainIn ==
  ASSUME NEW c
  PROVE  Chain(c) = ChainIn(parent, c) /\ Chain(c)' = ChainIn(parent', c)
  BY DEF Chain, ChainIn, Up, UpIn

\* Hanging a row from d adds to a chain at most what is above d.
LEMMA ChainAfterMove ==
  ASSUME NEW f, NEW g, NEW d, \A y : UpIn(g, y) \in {UpIn(f, y), d}, NEW x
  PROVE  ChainIn(g, x) \subseteq ChainIn(f, x) \cup ChainIn(f, d)
<1>1. UpIn(g, x) \in {UpIn(f, x), d}
  OBVIOUS
<1>2. UpIn(g, UpIn(g, x)) \in {UpIn(f, UpIn(f, x)), UpIn(f, d), d}
  BY <1>1
<1>3. UpIn(g, UpIn(g, UpIn(g, x)))
        \in {UpIn(f, UpIn(f, UpIn(f, x))), UpIn(f, UpIn(f, d)), UpIn(f, d), d}
  BY <1>2
<1> QED
  BY <1>1, <1>2, <1>3 DEF ChainIn

\* Hanging m from d, and rows from m, adds at most that and m.
LEMMA ChainAfterMaterialize ==
  ASSUME NEW f, NEW g, NEW d, NEW m,
         \A y : UpIn(g, y) \in {UpIn(f, y), d, m}, UpIn(g, m) = d, NEW x
  PROVE  ChainIn(g, x) \subseteq ChainIn(f, x) \cup ChainIn(f, d) \cup {m}
<1>1. UpIn(g, x) \in {UpIn(f, x), d, m}
  OBVIOUS
<1>2. UpIn(g, UpIn(g, x)) \in {UpIn(f, UpIn(f, x)), UpIn(f, d), d, m}
  BY <1>1
<1>3. UpIn(g, UpIn(g, UpIn(g, x)))
        \in {UpIn(f, UpIn(f, UpIn(f, x))), UpIn(f, UpIn(f, d)), UpIn(f, d), d, m}
  BY <1>2
<1> QED
  BY <1>1, <1>2, <1>3 DEF ChainIn

\* What a deletion has taken is not where a row is being put.
LEMMA DestinationApart ==
  ASSUME SInv, NEW q \in Requests, request[q].op = "delete", NEW s \in Requests, Entering(s)
  PROVE  request[s].dest \notin Taken(q)
<1>1. /\ request[q].target \notin Chain(request[s].dest)
      /\ request[s].dest \in Rows
  BY DEF SInv, NoLate, EntryOK
<1>2. request[s].dest \in Chain(request[s].dest)
  BY <1>1, ConstantsAssumption DEF Chain
<1>3. request[s].dest \notin request[q].marked
  BY <1>1, MarkedIsBelow DEF SInv
<1> QED
  BY <1>1, <1>2, <1>3 DEF Taken

-----------------------------------------------------------------------------
(* What the steps of a request leave to the others.                        *)

LEMMA TablesAreRows ==
  \A l \in Levels : Swept(l) \subseteq Rows /\ Table(l) \subseteq Rows
  BY DEF Levels, Swept, Table, Rows

\* A deletion is not disturbed while no live row comes to hang from what it took.
LEMMA SweepKept ==
  ASSUME TypeOK, NEW s \in Requests, request'[s] = request[s], LevelOK(s), SweepOK(s),
         \A c \in Rows : state'[c] = "live" /\ parent'[c] \in Taken(s)
                           => state[c] = "live" /\ parent[c] \in Taken(s)
  PROVE  LevelOK(s)' /\ SweepOK(s)'
<1>1. request[s].level \in Levels
  BY DEF TypeOK, Request
<1>2. Swept(request[s].level) \subseteq Rows /\ Table(request[s].level) \subseteq Rows
  BY <1>1, TablesAreRows
<1>3. LevelOK(s)'
  BY DEF LevelOK
<1>4. SweepOK(s)'
  BY <1>2 DEF SweepOK, Taken
<1> QED
  BY <1>3, <1>4

\* A request that is done, or that goes on with what it had, enters nothing new.
LEMMA NoLateKept ==
  ASSUME NoLate, parent' = parent,
         \A r \in Requests : request'[r].op = "delete" =>
           request[r].op = "delete" /\ request'[r].target = request[r].target,
         \A r \in Requests : Entering(r)' =>
           Entering(r) /\ request'[r].dest = request[r].dest
  PROVE  NoLate'
<1> SUFFICES ASSUME NEW q \in Requests, NEW s \in Requests,
                    request'[q].op = "delete", Entering(s)'
             PROVE  request'[q].target \notin Chain(request[s].dest)'
  BY DEF NoLate
<1>1. request[q].target \notin Chain(request[s].dest)
  BY DEF NoLate
<1>2. Chain(request[s].dest)' = Chain(request[s].dest)
  BY DEF Chain, Up
<1> QED
  BY <1>1, <1>2

\* A step that changes nothing but the record of its request.
LEMMA OwnSweep ==
  ASSUME SInv, NEW q \in Requests, NEW rec \in Request, Become(q, rec),
         UNCHANGED << state, parent >>, IInv', EntryOK(q)', NoLate',
         rec.op = "delete" => LevelOK(q)' /\ SweepOK(q)'
  PROVE  SInv'
<1>0. TypeOK
  BY DEF SInv, IInv
<1>1. request'[q] = rec /\ \A s \in Requests \ {q} : request'[s] = request[s]
  BY <1>0 DEF Become, TypeOK
<1>2. ASSUME NEW s \in Requests PROVE EntryOK(s)'
  <2>1. CASE s = q
    BY <2>1
  <2>2. CASE s # q
    BY <1>1, <2>2 DEF SInv, EntryOK, Entering, At
  <2> QED
    BY <2>1, <2>2
<1>3. ASSUME NEW s \in Requests, request'[s].op = "delete" PROVE LevelOK(s)' /\ SweepOK(s)'
  <2>1. CASE s = q
    BY <1>1, <1>3, <2>1
  <2>2. CASE s # q
    BY <1>0, <1>1, <1>3, <2>2, SweepKept DEF SInv
  <2> QED
    BY <2>1, <2>2
<1>4. NoLiveBelowDeleted'
  BY DEF SInv, NoLiveBelowDeleted
<1> QED
  BY <1>2, <1>3, <1>4 DEF SInv

\* The last step of a request, which may change the rows.
LEMMA LastSweep ==
  ASSUME SInv, NEW q \in Requests, Become(q, Finished), IInv', NoLiveBelowDeleted',
         \A s \in Requests \ {q}, c \in Rows :
           request[s].op = "delete" /\ state'[c] = "live" /\ parent'[c] \in Taken(s)
             => state[c] = "live" /\ parent[c] \in Taken(s),
         \A s \in Requests \ {q} :
           Entering(s) /\ request[s].pc = "write" => state'[request[s].dest] = "live",
         \A s, r \in Requests \ {q} :
           request[r].op = "delete" /\ Entering(s)
             => request[r].target \notin ChainIn(parent', request[s].dest)
  PROVE  SInv'
<1>0. TypeOK
  BY DEF SInv, IInv
<1>1. request'[q] = Finished /\ \A s \in Requests \ {q} : request'[s] = request[s]
  BY <1>0, RequestRecords DEF Become, TypeOK
<1>2. request'[q].op = "none"
  BY <1>1, RequestRecords
<1>3. ASSUME NEW s \in Requests PROVE EntryOK(s)'
  <2>1. CASE s = q
    BY <1>2, <2>1 DEF EntryOK, Entering
  <2>2. CASE s # q
    BY <1>1, <2>2 DEF SInv, EntryOK, Entering, At
  <2> QED
    BY <2>1, <2>2
<1>4. ASSUME NEW s \in Requests, request'[s].op = "delete" PROVE LevelOK(s)' /\ SweepOK(s)'
  <2>1. s # q /\ request'[s] = request[s]
    BY <1>1, <1>2, <1>4
  <2> QED
    BY <1>0, <1>4, <2>1, SweepKept DEF SInv
<1>5. NoLate'
  <2> SUFFICES ASSUME NEW r \in Requests, NEW s \in Requests,
                      request'[r].op = "delete", Entering(s)'
               PROVE  request'[r].target \notin Chain(request[s].dest)'
    BY DEF NoLate
  <2>1. r # q /\ s # q /\ request'[r] = request[r] /\ request'[s] = request[s]
    BY <1>1, <1>2 DEF Entering
  <2>2. Entering(s)
    BY <2>1 DEF Entering, At
  <2>3. Chain(request[s].dest)' = ChainIn(parent', request[s].dest)
    BY <2>1 DEF Chain, ChainIn, Up, UpIn
  <2> QED
    BY <2>1, <2>2, <2>3
<1> QED
  BY <1>3, <1>4, <1>5 DEF SInv

-----------------------------------------------------------------------------
(* Entering.                                                               *)

LEMMA CreateSubjectSweep ==
  ASSUME SInv, IInv', NEW q \in Requests, CreateSubject(q) PROVE SInv'
<1>0. TypeOK /\ NoLate /\ NoLiveBelowDeleted
  BY DEF SInv, IInv
<1>1. PICK c \in Subjects : state[c] = "absent" /\ state' = [state EXCEPT ![c] = "live"]
  BY DEF CreateSubject
<1>2. Become(q, Finished) /\ parent' = parent
  BY DEF CreateSubject
<1>3. c \in Rows /\ parent[c] = NoRow /\ \A x \in Rows \ {c} : state'[x] = state[x]
  BY <1>0, <1>1 DEF TypeOK, Rows
<1>4. \A s \in Requests : request[s].op = "delete" => NoRow \notin Taken(s)
  BY ConstantsAssumption DEF SInv, IInv, TypeOK, Request, RequestOK, Taken
<1>5. \A s \in Requests, x \in Rows :
        request[s].op = "delete" /\ state'[x] = "live" /\ parent'[x] \in Taken(s)
          => state[x] = "live" /\ parent[x] \in Taken(s)
  BY <1>2, <1>3, <1>4
<1>6. \A s \in Requests :
        Entering(s) /\ request[s].pc = "write" => state'[request[s].dest] = "live"
  BY <1>0, <1>1, <1>3 DEF SInv, EntryOK, TypeOK
<1>7. \A s, r \in Requests :
        request[r].op = "delete" /\ Entering(s)
          => request[r].target \notin ChainIn(parent', request[s].dest)
  BY <1>0, <1>2, ChainIsChainIn DEF NoLate
<1>8. NoLiveBelowDeleted'
  <2> SUFFICES ASSUME NEW x \in Rows \ Subjects, state'[x] = "live"
               PROVE  state'[parent[x]] = "live"
    BY <1>2 DEF NoLiveBelowDeleted
  <2>1. state[x] = "live" /\ state[parent[x]] = "live" /\ parent[x] \in Rows
    BY <1>0, <1>1, <1>3 DEF NoLiveBelowDeleted, TypeOK, WellPlaced
  <2> QED
    BY <1>0, <1>1, <2>1 DEF TypeOK
<1> QED
  BY <1>2, <1>5, <1>6, <1>7, <1>8, LastSweep

LEMMA StartSweep ==
  ASSUME SInv, IInv', NEW q \in Requests, NEW p \in Rows, NEW rec \in Request, Become(q, rec),
         UNCHANGED << state, parent >>, ~LateEntries, MayEnter(p),
         rec.dest = p, rec.op \in {"create", "draft", "move"},
         rec.pc = "write" => state[p] = "live"
  PROVE  SInv'
<1>0. TypeOK /\ NoLate
  BY DEF SInv, IInv
<1>1. request'[q] = rec /\ \A s \in Requests \ {q} : request'[s] = request[s]
  BY <1>0 DEF Become, TypeOK
<1>2. EntryOK(q)'
  BY <1>1 DEF EntryOK
<1>3. NoLate'
  <2> SUFFICES ASSUME NEW r \in Requests, NEW s \in Requests,
                      request'[r].op = "delete", Entering(s)'
               PROVE  request'[r].target \notin Chain(request'[s].dest)
    BY DEF NoLate, Chain, Up
  <2>1. r # q /\ request'[r] = request[r] /\ request[r].op = "delete"
    BY <1>1
  <2>2. CASE s = q
    <3>1. request[r].pc # "done"
      BY <2>1 DEF SInv, IInv, RequestOK
    <3> QED
      BY <1>1, <2>1, <2>2, <3>1 DEF MayEnter, Deleting, At
  <2>3. CASE s # q
    BY <1>0, <1>1, <2>1, <2>3 DEF NoLate, Entering, At
  <2> QED
    BY <2>2, <2>3
<1> QED
  BY <1>0, <1>2, <1>3, OwnSweep

LEMMA InsertSweep ==
  ASSUME SInv, IInv', NEW q \in Requests, Insert(q) PROVE SInv'
<1> DEFINE d == request[q].dest
<1>0. TypeOK /\ NoLate /\ NoLiveBelowDeleted
  BY DEF SInv, IInv
<1>1. PICK c \in Below(d) :
        /\ state[c] = "absent"
        /\ state' = [state EXCEPT ![c] = "live"]
        /\ parent' = [parent EXCEPT ![c] = d]
  BY DEF Insert
<1>2. Become(q, Finished) /\ Entering(q) /\ request[q].pc = "write"
  BY DEF Insert, Entering, At
<1>3. d \in Rows /\ state[d] = "live" /\ c \in Rows /\ c \notin Subjects /\ c # d
  <2>1. d \in Rows /\ state[d] = "live"
    BY <1>2 DEF SInv, EntryOK
  <2>2. c \in Rows
    BY <1>1 DEF Below, Rows
  <2> QED
    BY <1>1, <2>1, <2>2, OneKindAbove
<1> HIDE DEF d
<1>4. \A s \in Requests : request[s].op = "delete" => d \notin Taken(s)
  BY <1>2, DestinationApart DEF d
<1>5. \A s \in Requests, x \in Rows :
        request[s].op = "delete" /\ state'[x] = "live" /\ parent'[x] \in Taken(s)
          => state[x] = "live" /\ parent[x] \in Taken(s)
  BY <1>0, <1>1, <1>3, <1>4 DEF TypeOK
<1>6. \A s \in Requests :
        Entering(s) /\ request[s].pc = "write" => state'[request[s].dest] = "live"
  BY <1>0, <1>1, <1>3 DEF SInv, EntryOK, TypeOK
<1>7. ASSUME NEW s \in Requests, NEW r \in Requests, request[r].op = "delete", Entering(s)
      PROVE  request[r].target \notin ChainIn(parent', request[s].dest)
  <2>1. \A y : UpIn(parent', y) \in {UpIn(parent, y), d}
    BY <1>0, <1>1 DEF UpIn, TypeOK
  <2>2. /\ request[r].target \notin ChainIn(parent, request[s].dest)
        /\ request[r].target \notin ChainIn(parent, d)
    BY <1>0, <1>2, <1>7, ChainIsChainIn DEF NoLate, d
  <2> QED
    BY <2>1, <2>2, ChainAfterMove
<1>8. NoLiveBelowDeleted'
  <2> SUFFICES ASSUME NEW x \in Rows \ Subjects, state'[x] = "live"
               PROVE  state'[parent'[x]] = "live"
    BY DEF NoLiveBelowDeleted
  <2>1. CASE x = c
    BY <1>0, <1>1, <1>3, <2>1 DEF TypeOK
  <2>2. CASE x # c
    <3>1. state[x] = "live" /\ state[parent[x]] = "live" /\ parent[x] \in Rows
      BY <1>0, <1>1, <1>3, <2>2 DEF NoLiveBelowDeleted, TypeOK, WellPlaced
    <3> QED
      BY <1>0, <1>1, <2>2, <3>1 DEF TypeOK
  <2> QED
    BY <2>1, <2>2
<1> QED
  BY <1>2, <1>5, <1>6, <1>7, <1>8, LastSweep

LEMMA MaterializeSweep ==
  ASSUME SInv, IInv', NEW q \in Requests, Materialize(q) PROVE SInv'
<1> DEFINE d == request[q].dest
<1>0. TypeOK /\ NoLate /\ NoLiveBelowDeleted
  BY DEF SInv, IInv
<1>1. PICK m \in Modules, S \in SUBSET Items \ {{}} :
        /\ \A c \in {m} \cup S : state[c] = "absent"
        /\ state'  = [c \in Rows |-> IF c \in {m} \cup S THEN "live" ELSE state[c]]
        /\ parent' = [c \in Rows |-> IF c = m THEN d ELSE IF c \in S THEN m ELSE parent[c]]
  BY DEF Materialize
<1>2. Become(q, Finished) /\ Entering(q) /\ request[q].pc = "write"
  BY DEF Materialize, Entering, At
<1>3. d \in Rows /\ state[d] = "live" /\ m \in Rows /\ S \subseteq Rows /\ m \notin S
  BY <1>2, ConstantsAssumption DEF SInv, EntryOK, Rows
<1> HIDE DEF d
<1>4. \A s \in Requests : request[s].op = "delete" => d \notin Taken(s) /\ m \notin Taken(s)
  BY <1>1, <1>2, DestinationApart DEF d, SInv, IInv, RequestOK, Taken
<1>5. \A s \in Requests, x \in Rows :
        request[s].op = "delete" /\ state'[x] = "live" /\ parent'[x] \in Taken(s)
          => state[x] = "live" /\ parent[x] \in Taken(s)
  BY <1>1, <1>4
<1>6. \A s \in Requests :
        Entering(s) /\ request[s].pc = "write" => state'[request[s].dest] = "live"
  BY <1>1 DEF SInv, EntryOK
<1>7. ASSUME NEW s \in Requests, NEW r \in Requests, request[r].op = "delete", Entering(s)
      PROVE  request[r].target \notin ChainIn(parent', request[s].dest)
  <2>1. /\ \A y : UpIn(parent', y) \in {UpIn(parent, y), d, m}
        /\ UpIn(parent', m) = d
    BY <1>1, <1>3 DEF UpIn
  <2>2. /\ request[r].target \notin ChainIn(parent, request[s].dest)
        /\ request[r].target \notin ChainIn(parent, d)
    BY <1>0, <1>2, <1>7, ChainIsChainIn DEF NoLate, d
  <2>3. request[r].target # m
    BY <1>4, <1>7 DEF Taken
  <2> QED
    BY <2>1, <2>2, <2>3, ChainAfterMaterialize
<1>8. NoLiveBelowDeleted'
  <2> SUFFICES ASSUME NEW x \in Rows \ Subjects, state'[x] = "live"
               PROVE  state'[parent'[x]] = "live"
    BY DEF NoLiveBelowDeleted
  <2>1. CASE x \in {m} \cup S
    BY <1>1, <1>3, <2>1
  <2>2. CASE x \notin {m} \cup S
    <3>1. state[x] = "live" /\ state[parent[x]] = "live" /\ parent[x] \in Rows
      BY <1>0, <1>1, <2>2 DEF NoLiveBelowDeleted, TypeOK, WellPlaced
    <3> QED
      BY <1>1, <2>2, <3>1
  <2> QED
    BY <2>1, <2>2
<1> QED
  BY <1>2, <1>5, <1>6, <1>7, <1>8, LastSweep

LEMMA MoveSweep ==
  ASSUME SInv, IInv', NEW q \in Requests, Move(q) PROVE SInv'
<1> DEFINE d == request[q].dest
           c == request[q].target
<1>0. TypeOK /\ NoLate /\ NoLiveBelowDeleted
  BY DEF SInv, IInv
<1>1. /\ parent' = [parent EXCEPT ![c] = d] /\ state' = state /\ Become(q, Finished)
      /\ Entering(q) /\ request[q].pc = "write" /\ request[q].op = "move"
  BY DEF Move, Entering, At
<1>2. d \in Rows /\ state[d] = "live" /\ c \in Rows
  BY <1>1 DEF SInv, IInv, RequestOK, EntryOK
<1> HIDE DEF d, c
<1>3. \A s \in Requests : request[s].op = "delete" => d \notin Taken(s)
  BY <1>1, DestinationApart DEF d
<1>4. \A s \in Requests, x \in Rows :
        request[s].op = "delete" /\ state'[x] = "live" /\ parent'[x] \in Taken(s)
          => state[x] = "live" /\ parent[x] \in Taken(s)
  BY <1>0, <1>1, <1>2, <1>3 DEF TypeOK
<1>5. \A s \in Requests :
        Entering(s) /\ request[s].pc = "write" => state'[request[s].dest] = "live"
  BY <1>1 DEF SInv, EntryOK
<1>6. ASSUME NEW s \in Requests, NEW r \in Requests, request[r].op = "delete", Entering(s)
      PROVE  request[r].target \notin ChainIn(parent', request[s].dest)
  <2>1. \A y : UpIn(parent', y) \in {UpIn(parent, y), d}
    BY <1>0, <1>1, <1>2 DEF UpIn, TypeOK
  <2>2. /\ request[r].target \notin ChainIn(parent, request[s].dest)
        /\ request[r].target \notin ChainIn(parent, d)
    BY <1>0, <1>1, <1>6, ChainIsChainIn DEF NoLate, d
  <2> QED
    BY <2>1, <2>2, ChainAfterMove
<1>7. NoLiveBelowDeleted'
  BY <1>0, <1>1, <1>2 DEF NoLiveBelowDeleted, TypeOK
<1> QED
  BY <1>1, <1>4, <1>5, <1>6, <1>7, LastSweep

\* A request that ends and leaves the rows as they are.
LEMMA LeaveSweep ==
  ASSUME SInv, IInv', NEW q \in Requests, Become(q, Finished), UNCHANGED << state, parent >>
  PROVE  SInv'
<1>0. TypeOK /\ NoLate
  BY DEF SInv, IInv
<1>1. request'[q] = Finished /\ \A s \in Requests \ {q} : request'[s] = request[s]
  BY <1>0, RequestRecords DEF Become, TypeOK
<1>2. EntryOK(q)'
  BY <1>1, RequestRecords DEF EntryOK, Entering
<1>3. NoLate'
  BY <1>0, <1>1, RequestRecords, NoLateKept DEF Entering, At
<1> QED
  BY <1>2, <1>3, RequestRecords, OwnSweep

\* A move that has found its place, or not.
LEMMA CheckMoveSweep ==
  ASSUME SInv, IInv', NEW q \in Requests, CheckMove(q) PROVE SInv'
<1>0. TypeOK /\ NoLate
  BY DEF SInv, IInv
<1>1. CASE state[request[q].dest] = "live"
  <2> DEFINE rec == [request[q] EXCEPT !.pc = "write"]
  <2>1. Become(q, rec) /\ UNCHANGED << state, parent >> /\ request[q].pc = "check"
    BY <1>1 DEF CheckMove, At
  <2>2. /\ rec \in Request /\ rec.pc = "write" /\ rec.op = request[q].op
        /\ rec.target = request[q].target /\ rec.dest = request[q].dest
    BY <1>0 DEF TypeOK, Request
  <2> HIDE DEF rec
  <2>3. request'[q] = rec /\ \A s \in Requests \ {q} : request'[s] = request[s]
    BY <1>0, <2>1 DEF Become, TypeOK
  <2>4. EntryOK(q)'
    BY <1>1, <2>1, <2>2, <2>3 DEF SInv, EntryOK, Entering, At
  <2>5. NoLate'
    BY <1>0, <2>1, <2>2, <2>3, NoLateKept DEF Entering, At
  <2>6. rec.op # "delete"
    BY <2>1, <2>2 DEF SInv, IInv, RequestOK
  <2> QED
    BY <2>1, <2>2, <2>4, <2>5, <2>6, OwnSweep
<1>2. CASE state[request[q].dest] # "live"
  BY <1>2, LeaveSweep DEF CheckMove
<1> QED
  BY <1>1, <1>2

-----------------------------------------------------------------------------
(* Deleting.                                                               *)

LEMMA StatementLevel ==
  ASSUME NEW rec \in Request, NEW level \in Levels, NEW above \in SUBSET Rows
  PROVE  LET s == Statement(rec, level, above) IN
         s.level = level /\ (level = "row" <=> s.pc = "commit")
  BY DEF Request, Statement

LEMMA StartDeleteSweep ==
  ASSUME SInv, IInv', NEW q \in Requests, ~LateEntries, StartDelete(q) PROVE SInv'
<1>0. TypeOK /\ NoLate
  BY DEF SInv, IInv
<1>1. PICK t \in Rows :
        /\ MayDelete(t)
        /\ Become(q, Statement([NewRequest EXCEPT !.op = "delete", !.target = t],
                               FirstLevel(t), {t}))
  BY Zenon DEF StartDelete
<1> DEFINE own == [NewRequest EXCEPT !.op = "delete", !.target = t]
           rec == Statement(own, FirstLevel(t), {t})
<1>2. own \in Request /\ own.op = "delete" /\ own.target = t /\ own.marked = {}
  BY DEF NewRequest, Request, Levels
<1> HIDE DEF own
<1>3. /\ rec \in Request /\ rec.pc \in {"scan", "commit"}
      /\ rec.op = "delete" /\ rec.target = t /\ rec.marked = {}
      /\ rec.above = {t} /\ rec.found = {} /\ rec.todo = {}
      /\ rec.level = FirstLevel(t) /\ (FirstLevel(t) = "row" <=> rec.pc = "commit")
  BY <1>2, StatementRecord, StatementLevel, LevelsFollow
<1> HIDE DEF rec
<1>4. Become(q, rec) /\ UNCHANGED << state, parent >>
  BY <1>1 DEF rec, own, StartDelete
<1>5. request'[q] = rec /\ \A s \in Requests \ {q} : request'[s] = request[s]
  BY <1>0, <1>4 DEF Become, TypeOK
<1>6. EntryOK(q)'
  BY <1>3, <1>5 DEF EntryOK, Entering
<1>7. NoLate'
  <2> SUFFICES ASSUME NEW r \in Requests, NEW s \in Requests,
                      request'[r].op = "delete", Entering(s)'
               PROVE  request'[r].target \notin Chain(request[s].dest)'
    BY DEF NoLate
  <2>0. Chain(request[s].dest)' = Chain(request'[s].dest)
    BY <1>4 DEF Chain, Up
  <2>1. s # q /\ request'[s] = request[s] /\ Entering(s)
    BY <1>3, <1>5 DEF Entering, At
  <2>2. CASE r = q
    BY <1>1, <1>3, <1>5, <2>0, <2>1, <2>2 DEF MayDelete, SInv, EntryOK
  <2>3. CASE r # q
    BY <1>0, <1>5, <2>0, <2>1, <2>3 DEF NoLate
  <2> QED
    BY <2>2, <2>3
<1>8. LevelOK(q)'
  BY <1>3, <1>5, ConstantsAssumption DEF LevelOK, FirstLevel, Swept, Table
<1>9. SweepOK(q)'
  <2>1. Taken(q)' = {t}
    BY <1>3, <1>5 DEF Taken
  <2>2. \A c \in Swept(FirstLevel(t)) : state[c] = "live" => parent[c] # t
    <3>1. CASE t \in Subjects
      BY <3>1, ConstantsAssumption DEF FirstLevel, Swept
    <3>2. CASE t \in Plans \cup Modules
      <4>1. Swept(FirstLevel(t)) \subseteq Plans \cup Modules
        BY <3>2, ConstantsAssumption DEF FirstLevel, Swept
      <4>2. t \in Plans => Swept(FirstLevel(t)) \subseteq Plans
        BY <3>2, ConstantsAssumption DEF FirstLevel, Swept
      <4> QED
        BY <1>0, <3>2, <4>1, <4>2, OneKindAbove, ConstantsAssumption DEF TypeOK, WellPlaced, Rows
    <3>3. CASE t \in Items \cup Documents
      <4>1. Below(t) = {}
        BY <3>3, ConstantsAssumption DEF Below
      <4>2. FirstLevel(t) = "row" /\ Swept("row") = Rows
        BY <3>3, ConstantsAssumption DEF FirstLevel, Swept
      <4> QED
        BY <1>0, <4>1, <4>2, ConstantsAssumption DEF TypeOK, WellPlaced
    <3> QED
      BY <3>1, <3>2, <3>3 DEF Rows
  <2> QED
    BY <1>3, <1>4, <1>5, <2>1, <2>2 DEF SweepOK
<1> QED
  BY <1>3, <1>4, <1>6, <1>7, <1>8, <1>9, OwnSweep

\* What the statement at hand can find hangs from the rows it asks for.
LEMMA FoundBelow ==
  ASSUME TypeOK, NEW q \in Requests, SweepOK(q), NEW c \in Table(request[q].level),
         state[c] = "live", parent[c] \in Taken(q), NoRow \notin Taken(q)
  PROVE  parent[c] \in request[q].above
<1>1. c \in Rows
  BY TablesAreRows DEF TypeOK, Request
<1>2. c \in Below(parent[c])
  BY <1>1 DEF TypeOK, WellPlaced
<1> QED
  BY <1>2 DEF SweepOK

\* No row of a table hangs from a row of the same table, nor, in an earlier
\* table, from a row of a later one.
LEMMA TablesDescend ==
  ASSUME TypeOK, NEW l \in Levels \ {"row"}, NEW k \in Table(l),
         NEW c \in Swept(l) \cup Table(l)
  PROVE  parent[c] # k /\ c \notin Below(k)
<1>1. c \in Rows /\ k \in Rows
  BY TablesAreRows
<1>2. c \notin Below(k)
  <2>1. CASE l = "plans"
    BY <2>1, ConstantsAssumption DEF Table, Swept, Below
  <2>2. CASE l = "modules"
    BY <2>2, ConstantsAssumption DEF Table, Swept, Below
  <2>3. CASE l = "items"
    BY <2>3, ConstantsAssumption DEF Table, Swept, Below
  <2>4. CASE l = "documents"
    BY <2>4, ConstantsAssumption DEF Table, Swept, Below
  <2> QED
    BY <2>1, <2>2, <2>3, <2>4 DEF Levels
<1>3. parent[c] # k
  BY <1>1, <1>2, ConstantsAssumption DEF TypeOK, WellPlaced
<1> QED
  BY <1>2, <1>3

\* The facts about a deletion between two of its statements.
LEMMA DeletionFacts ==
  ASSUME SInv, NEW q \in Requests, request[q].op = "delete"
  PROVE  /\ TypeOK /\ NoLate /\ RequestOK(q) /\ LevelOK(q) /\ SweepOK(q)
         /\ request[q] \in Request /\ request[q].level \in Levels
         /\ Taken(q) \subseteq Rows /\ NoRow \notin Taken(q)
         /\ ~Entering(q)
<1>1. TypeOK /\ NoLate /\ RequestOK(q) /\ LevelOK(q) /\ SweepOK(q) /\ request[q] \in Request
  BY DEF SInv, IInv, TypeOK
<1>2. request[q].level \in Levels /\ request[q].marked \subseteq Rows
  BY <1>1 DEF Request
<1>3. request[q].target \in Rows
  BY <1>1 DEF RequestOK
<1> QED
  BY <1>1, <1>2, <1>3, ConstantsAssumption DEF Taken, Entering

\* A deletion goes on to its next statement or row.
LEMMA DeletionGoesOn ==
  ASSUME SInv, IInv', NEW q \in Requests, request[q].op = "delete",
         NEW rec \in Request, Become(q, rec), UNCHANGED << state, parent >>,
         rec.op = "delete", rec.target = request[q].target, LevelOK(q)', SweepOK(q)'
  PROVE  SInv'
<1>1. request'[q] = rec /\ \A s \in Requests \ {q} : request'[s] = request[s]
  BY DEF SInv, IInv, TypeOK, Become
<1>2. EntryOK(q)'
  BY <1>1 DEF EntryOK, Entering
<1>3. NoLate'
  BY <1>1, NoLateKept DEF SInv, Entering, At
<1> QED
  BY <1>2, <1>3, OwnSweep

LEMMA ScanSweep ==
  ASSUME SInv, IInv', NEW q \in Requests, Scan(q) PROVE SInv'
<1> DEFINE seen == {c \in Table(request[q].level) :
                      state[c] = "live" /\ parent[c] \in request[q].above}
           rec == [request[q] EXCEPT !.pc = "update", !.todo = seen]
<1>1. Become(q, rec) /\ UNCHANGED << state, parent >> /\ request[q].pc = "scan"
  BY DEF Scan, At
<1>2. request[q].op = "delete"
  BY <1>1 DEF SInv, IInv, RequestOK
<1>3. /\ TypeOK /\ NoLate /\ RequestOK(q) /\ LevelOK(q) /\ SweepOK(q)
      /\ request[q] \in Request /\ request[q].level \in Levels
      /\ Taken(q) \subseteq Rows /\ NoRow \notin Taken(q)
  BY <1>2, DeletionFacts
<1>4. seen \in SUBSET Rows /\ seen \subseteq Table(request[q].level)
  BY <1>3, TablesAreRows
<1>5. \A c \in Table(request[q].level) :
        state[c] = "live" /\ parent[c] \in Taken(q) => c \in seen
  BY <1>3, FoundBelow
<1> HIDE DEF seen
<1>6. /\ rec \in Request /\ rec.pc = "update" /\ rec.op = request[q].op
      /\ rec.target = request[q].target /\ rec.level = request[q].level
      /\ rec.marked = request[q].marked /\ rec.above = request[q].above
      /\ rec.found = request[q].found /\ rec.todo = seen
  BY <1>3, <1>4 DEF Request
<1> HIDE DEF rec
<1>7. request'[q] = rec
  BY <1>1, <1>3 DEF Become, TypeOK
<1>8. LevelOK(q)'
  BY <1>1, <1>3, <1>4, <1>6, <1>7 DEF LevelOK
<1>9. SweepOK(q)'
  <2>1. Taken(q)' = Taken(q)
    BY <1>6, <1>7 DEF Taken
  <2> QED
    BY <1>1, <1>3, <1>5, <1>6, <1>7, <2>1 DEF SweepOK
<1> QED
  BY <1>1, <1>2, <1>6, <1>8, <1>9, DeletionGoesOn

LEMMA UpdateSweep ==
  ASSUME SInv, IInv', NEW q \in Requests, Update(q) PROVE SInv'
<1>1. PICK c \in request[q].todo :
        LET hit == IF Matches(q, c) THEN {c} ELSE {} IN
        Become(q, [request[q] EXCEPT !.todo = request[q].todo \ {c},
                                     !.found = request[q].found \cup hit,
                                     !.marked = request[q].marked \cup hit])
  BY Zenon DEF Update
<1> DEFINE hit == IF Matches(q, c) THEN {c} ELSE {}
           rec == [request[q] EXCEPT !.todo = request[q].todo \ {c},
                                     !.found = request[q].found \cup hit,
                                     !.marked = request[q].marked \cup hit]
<1>2. Become(q, rec) /\ UNCHANGED << state, parent >> /\ request[q].pc = "update"
  BY <1>1 DEF Update, At
<1>3. request[q].op = "delete"
  BY <1>2 DEF SInv, IInv, RequestOK
<1>4. /\ TypeOK /\ RequestOK(q) /\ LevelOK(q) /\ SweepOK(q)
      /\ request[q] \in Request /\ request[q].level \in Levels
      /\ Taken(q) \subseteq Rows /\ NoRow \notin Taken(q)
  BY <1>3, DeletionFacts
<1>5. c \in Rows /\ hit \in SUBSET Rows /\ (\A k \in hit : k = c)
  BY <1>4 DEF Request
<1>6. c \in Table(request[q].level) /\ request[q].level \in Levels \ {"row"}
  BY <1>2, <1>4 DEF LevelOK, SweepOK
<1>7. (state[c] = "live" /\ parent[c] \in Taken(q)) => hit = {c}
  BY <1>4, <1>6, FoundBelow DEF Matches
<1> HIDE DEF hit
<1>8. /\ rec \in Request /\ rec.pc = request[q].pc /\ rec.op = request[q].op
      /\ rec.target = request[q].target /\ rec.level = request[q].level
      /\ rec.marked = request[q].marked \cup hit /\ rec.above = request[q].above
      /\ rec.found = request[q].found \cup hit /\ rec.todo = request[q].todo \ {c}
  BY <1>4, <1>5 DEF Request
<1> HIDE DEF rec
<1>9. request'[q] = rec
  BY <1>2, <1>4 DEF Become, TypeOK
<1>10. LevelOK(q)'
  BY <1>2, <1>4, <1>5, <1>6, <1>8, <1>9 DEF LevelOK
<1>11. SweepOK(q)'
  <2>1. Taken(q)' = Taken(q) \cup hit
    BY <1>8, <1>9 DEF Taken
  <2>2. \A k \in hit, x \in Swept(request[q].level) \cup Table(request[q].level) :
          parent[x] # k /\ x \notin Below(k)
    BY <1>4, <1>5, <1>6, TablesDescend
  <2>3. \A x \in Swept(request[q].level) :
          state[x] = "live" /\ parent[x] \in Taken(q) \cup hit => x \in request[q].marked
    BY <1>4, <2>2 DEF SweepOK
  <2>4. \A p \in Taken(q) \cup hit, x \in Table(request[q].level) :
          x \in Below(p) => p \in request[q].above
    BY <1>4, <2>2 DEF SweepOK
  <2>5. \A x \in Table(request[q].level) :
          state[x] = "live" /\ parent[x] \in Taken(q) \cup hit
            => x \in (request[q].todo \ {c}) \cup request[q].marked \cup hit
    BY <1>2, <1>4, <1>7, <2>2 DEF SweepOK
  <2> QED
    BY <1>2, <1>8, <1>9, <2>1, <2>3, <2>4, <2>5 DEF SweepOK
<1> QED
  BY <1>2, <1>3, <1>8, <1>10, <1>11, DeletionGoesOn

\* When a statement has looked at everything, its table is swept too, and so is
\* every table the next one leaves out.
LEMMA SweptGrows ==
  ASSUME TypeOK, NEW q \in Requests, LevelOK(q), SweepOK(q), request[q] \in Request,
         request[q].target \in Rows, request[q].marked \subseteq Rows,
         request[q].pc = "update", request[q].todo = {},
         NEW next, next = NextLevel(request[q].target, request[q].level, request[q].found),
         NEW c \in Swept(next), state[c] = "live", parent[c] \in Taken(q)
  PROVE  c \in request[q].marked
<1> DEFINE t == request[q].target
           l == request[q].level
           marked == request[q].marked
<1>1. \A x \in Swept(l) \cup Table(l) :
        state[x] = "live" /\ parent[x] \in Taken(q) => x \in marked
  BY DEF SweepOK
<1>2. l \in Levels \ {"row"}
  BY DEF LevelOK, Request
<1>3. next \in Levels /\ c \in Rows
  BY LevelsFollow, TablesAreRows
<1>4. /\ parent[c] \in Rows /\ c \in Below(parent[c])
      /\ marked \subseteq Swept(l) \cup Table(l)
      /\ request[q].found = marked \cap Table(l)
  <2>1. NoRow \notin Taken(q)
    BY ConstantsAssumption DEF Taken
  <2> QED
    BY <1>3, <2>1 DEF TypeOK, WellPlaced, LevelOK, Taken
<1>5. parent[c] \in marked \/ parent[c] = t
  BY DEF Taken
<1>6. CASE l = "plans"
  <2>1. t \in Subjects /\ Swept(l) \cup Table(l) = Plans
    BY <1>6 DEF LevelOK, Swept, Table
  <2>2. CASE request[q].found # {}
    <3>1. next = "modules" /\ Swept(next) = Plans
      BY <1>6, <2>2 DEF NextLevel, Swept
    <3> QED
      BY <1>1, <2>1, <3>1
  <2>3. CASE request[q].found = {}
    <3>1. next = "documents" /\ marked = {}
      BY <1>4, <1>6, <2>1, <2>3 DEF NextLevel, Swept, Table
    <3>2. c \in Plans
      <4>1. c \in Plans \cup Modules \cup Items
        BY <3>1 DEF Swept
      <4>2. c \in Plans \cup Documents
        BY <1>4, <1>5, <2>1, <3>1, ConstantsAssumption DEF Below
      <4> QED
        BY <4>1, <4>2, ConstantsAssumption
    <3> QED
      BY <1>1, <2>1, <3>2
  <2> QED
    BY <2>2, <2>3
<1>7. CASE l = "modules"
  <2>1. t \in Subjects \cup Plans /\ Swept(l) \cup Table(l) = Plans \cup Modules
    BY <1>7 DEF LevelOK, Swept, Table
  <2>2. CASE request[q].found # {}
    <3>1. next = "items" /\ Swept(next) = Plans \cup Modules
      BY <1>7, <2>2 DEF NextLevel, Swept
    <3> QED
      BY <1>1, <2>1, <3>1
  <2>3. CASE request[q].found = {}
    <3>1. marked \subseteq Plans
      BY <1>4, <1>7, <2>1, <2>3 DEF Swept, Table
    <3>2. next = IF t \in Subjects THEN "documents" ELSE "row"
      BY <1>7, <2>3 DEF NextLevel
    <3>3. c \in Plans \cup Modules
      <4>1. CASE t \in Subjects
        <5>1. c \in Plans \cup Modules \cup Items
          BY <3>2, <4>1 DEF Swept
        <5>2. CASE parent[c] \in Plans
          BY <1>4, <5>2, ConstantsAssumption DEF Below
        <5>3. CASE parent[c] = t
          <6>1. c \in Plans \cup Documents
            BY <1>4, <4>1, <5>3, ConstantsAssumption DEF Below
          <6> QED
            BY <5>1, <6>1, ConstantsAssumption
        <5> QED
          BY <1>5, <3>1, <5>2, <5>3
      <4>2. CASE t \in Plans
        BY <1>3, <1>4, <1>5, <3>1, <4>2, ConstantsAssumption DEF Below
      <4> QED
        BY <2>1, <4>1, <4>2
    <3> QED
      BY <1>1, <2>1, <3>3
  <2> QED
    BY <2>2, <2>3
<1>8. CASE l = "items"
  <2>1. /\ t \in Subjects \cup Plans \cup Modules
        /\ Swept(l) \cup Table(l) = Plans \cup Modules \cup Items
    BY <1>8 DEF LevelOK, Swept, Table
  <2>2. CASE t \in Subjects
    <3>1. next = "documents" /\ Swept(next) = Plans \cup Modules \cup Items
      BY <1>8, <2>2 DEF NextLevel, Swept
    <3> QED
      BY <1>1, <2>1, <3>1
  <2>3. CASE t \notin Subjects
    <3>1. c \in Plans \cup Modules \cup Items
      BY <1>3, <1>4, <1>5, <2>1, <2>3, ConstantsAssumption DEF Below
    <3> QED
      BY <1>1, <2>1, <3>1
  <2> QED
    BY <2>2, <2>3
<1>9. CASE l = "documents"
  <2>1. /\ t \in Subjects
        /\ Swept(l) \cup Table(l) = Plans \cup Modules \cup Items \cup Documents
    BY <1>9 DEF LevelOK, Swept, Table
  <2>2. c \notin Subjects
    BY <1>3, <1>4, OneKindAbove
  <2> QED
    BY <1>1, <1>3, <2>1, <2>2 DEF Rows
<1> QED
  BY <1>2, <1>6, <1>7, <1>8, <1>9 DEF Levels

LEMMA ReturnSweep ==
  ASSUME SInv, IInv', NEW q \in Requests, Return(q) PROVE SInv'
<1> DEFINE next  == NextLevel(request[q].target, request[q].level, request[q].found)
           above == IF next = "documents" THEN {request[q].target} ELSE request[q].found
           rec   == Statement(request[q], next, above)
<1>1. /\ Become(q, rec) /\ UNCHANGED << state, parent >>
      /\ request[q].pc = "update" /\ request[q].todo = {}
  BY DEF Return, At
<1>2. request[q].op = "delete"
  BY <1>1 DEF SInv, IInv, RequestOK
<1>3. /\ TypeOK /\ RequestOK(q) /\ LevelOK(q) /\ SweepOK(q)
      /\ request[q] \in Request /\ request[q].level \in Levels
      /\ Taken(q) \subseteq Rows /\ NoRow \notin Taken(q)
  BY <1>2, DeletionFacts
<1>4. next \in Levels /\ above \in SUBSET Rows
  BY <1>3, LevelsFollow DEF Taken, RequestOK
<1>5. /\ request[q].level # "row"
      /\ request[q].marked \subseteq Swept(request[q].level) \cup Table(request[q].level)
      /\ request[q].found = request[q].marked \cap Table(request[q].level)
  BY <1>1, <1>3 DEF LevelOK
<1>6. \A c \in Swept(next) :
        state[c] = "live" /\ parent[c] \in Taken(q) => c \in request[q].marked
  BY <1>1, <1>3, SweptGrows DEF Taken
<1>7. /\ next # "plans"
      /\ next = "documents" => request[q].target \in Subjects
      /\ next = "modules" => /\ request[q].level = "plans"
                             /\ request[q].target \in Subjects
      /\ next = "items" => /\ request[q].level = "modules"
                           /\ request[q].target \in Subjects \cup Plans
  BY <1>3 DEF LevelOK, NextLevel
<1>8. request[q].marked \subseteq Swept(next) \cup Table(next)
  <2>1. CASE request[q].level = "plans"
    BY <1>5, <2>1 DEF NextLevel, Swept, Table
  <2>2. CASE request[q].level = "modules"
    BY <1>3, <1>5, <2>2 DEF NextLevel, Swept, Table, Rows
  <2>3. CASE request[q].level = "items"
    BY <1>3, <1>5, <2>3 DEF NextLevel, Swept, Table, Rows
  <2>4. CASE request[q].level = "documents"
    BY <1>3, <1>5, <2>4 DEF NextLevel, Swept, Table, Rows
  <2> QED
    BY <1>3, <1>5, <2>1, <2>2, <2>3, <2>4 DEF Levels
<1>9. request[q].marked \cap Table(next) = {}
  <2>1. CASE next = "modules"
    BY <1>5, <1>7, <2>1, ConstantsAssumption DEF Swept, Table
  <2>2. CASE next = "items"
    BY <1>5, <1>7, <2>2, ConstantsAssumption DEF Swept, Table
  <2>3. CASE next = "documents"
    <3>1. request[q].level \in {"plans", "modules", "items"}
      BY <1>3, <1>5, <2>3 DEF NextLevel, Levels
    <3>2. request[q].marked \subseteq Plans \cup Modules \cup Items
      BY <1>5, <3>1 DEF Swept, Table
    <3> QED
      BY <2>3, <3>2, ConstantsAssumption DEF Table
  <2>4. CASE next = "row"
    BY <2>4 DEF Table
  <2> QED
    BY <1>4, <1>7, <2>1, <2>2, <2>3, <2>4 DEF Levels
<1>10. ASSUME NEW p \in Taken(q), NEW c \in Table(next), c \in Below(p)
       PROVE  p \in above
  <2>1. p \in Rows /\ c \in Rows
    BY <1>3, <1>4, <1>10, TablesAreRows
  <2>2. p \in request[q].marked \/ p = request[q].target
    BY DEF Taken
  <2>3. CASE next = "modules"
    <3>1. p \in Plans /\ Table(request[q].level) = Plans
      BY <1>7, <1>10, <2>1, <2>3, OneKindAbove DEF Table
    <3> QED
      BY <1>5, <1>7, <2>2, <2>3, <3>1, ConstantsAssumption
  <2>4. CASE next = "items"
    <3>1. p \in Modules /\ Table(request[q].level) = Modules
      BY <1>7, <1>10, <2>1, <2>4, OneKindAbove DEF Table
    <3> QED
      BY <1>5, <1>7, <2>2, <2>4, <3>1, ConstantsAssumption
  <2>5. CASE next = "documents"
    <3>1. p \in Subjects
      BY <1>10, <2>1, <2>5, OneKindAbove DEF Table
    <3>2. request[q].marked \cap Subjects = {}
      BY <1>8, <2>5, ConstantsAssumption DEF Swept, Table
    <3> QED
      BY <2>2, <2>5, <3>1, <3>2
  <2>6. next # "row"
    BY <1>10 DEF Table
  <2> QED
    BY <1>4, <1>7, <2>3, <2>4, <2>5, <2>6 DEF Levels
<1> HIDE DEF next, above
<1>11. /\ rec \in Request /\ rec.pc \in {"scan", "commit"} /\ rec.op = "delete"
       /\ rec.target = request[q].target /\ rec.marked = request[q].marked
       /\ rec.above = above /\ rec.todo = {} /\ rec.found = {}
       /\ rec.level = next /\ (next = "row" <=> rec.pc = "commit")
  BY <1>2, <1>3, <1>4, StatementRecord, StatementLevel
<1> HIDE DEF rec
<1>12. request'[q] = rec
  BY <1>1, <1>3 DEF Become, TypeOK
<1>13. LevelOK(q)'
  BY <1>7, <1>8, <1>9, <1>11, <1>12 DEF LevelOK
<1>14. SweepOK(q)'
  <2>1. Taken(q)' = Taken(q)
    BY <1>11, <1>12 DEF Taken
  <2> QED
    BY <1>1, <1>6, <1>10, <1>11, <1>12, <2>1 DEF SweepOK
<1> QED
  BY <1>1, <1>2, <1>11, <1>13, <1>14, DeletionGoesOn

LEMMA CommitDeleteSweep ==
  ASSUME SInv, IInv', NEW q \in Requests, CommitDelete(q) PROVE SInv'
<1>1. /\ Become(q, Finished) /\ parent' = parent /\ request[q].pc = "commit"
      /\ state' = [c \in Rows |-> IF c \in Taken(q) THEN "deleted" ELSE state[c]]
  BY DEF CommitDelete, At, Taken
<1>2. request[q].op = "delete"
  BY <1>1 DEF SInv, IInv, RequestOK
<1>3. TypeOK /\ NoLate /\ LevelOK(q) /\ SweepOK(q)
  BY <1>2, DeletionFacts
<1>4. NoLiveBelowDeleted /\ \A x \in Rows : state'[x] = "live" => state[x] = "live"
  BY <1>1 DEF SInv
<1>5. \A s \in Requests :
        Entering(s) /\ request[s].pc = "write" => state'[request[s].dest] = "live"
  BY <1>1, <1>2, DestinationApart DEF SInv, EntryOK
<1>6. \A s, r \in Requests :
        request[r].op = "delete" /\ Entering(s)
          => request[r].target \notin ChainIn(parent', request[s].dest)
  BY <1>1, <1>3, ChainIsChainIn DEF NoLate
<1>7. NoLiveBelowDeleted'
  <2> SUFFICES ASSUME NEW x \in Rows \ Subjects, state'[x] = "live"
               PROVE  state'[parent[x]] = "live"
    BY <1>1 DEF NoLiveBelowDeleted
  <2>1. state[x] = "live" /\ state[parent[x]] = "live" /\ parent[x] \in Rows
    BY <1>3, <1>4 DEF NoLiveBelowDeleted, TypeOK, WellPlaced
  <2>2. Swept(request[q].level) = Rows
    BY <1>1, <1>3 DEF LevelOK, Swept
  <2>3. parent[x] \notin Taken(q)
    BY <1>1, <1>3, <2>1, <2>2 DEF SweepOK, Taken
  <2> QED
    BY <1>1, <2>1, <2>3
<1> QED
  BY <1>1, <1>4, <1>5, <1>6, <1>7, LastSweep

-----------------------------------------------------------------------------

LEMMA SweepInit == Init => SInv
<1> SUFFICES ASSUME Init PROVE SInv
  OBVIOUS
<1>1. IInv /\ \A q \in Requests : request[q] = NewRequest
  BY InvInit DEF Init
<1>2. NoLiveBelowDeleted
  <2> SUFFICES ASSUME NEW c \in Rows \ Subjects, state[c] = "live"
               PROVE  state[parent[c]] = "live"
    BY DEF NoLiveBelowDeleted
  <2>1. PICK tree \in Trees :
          /\ state  = [x \in Rows |-> IF x \in DOMAIN tree THEN "live" ELSE "absent"]
          /\ parent = [x \in Rows |-> IF x \in DOMAIN tree THEN tree[x] ELSE NoRow]
    BY DEF Init
  <2>2. c \in DOMAIN tree /\ parent[c] = tree[c]
    BY <2>1
  <2>3. tree[c] \in Rows /\ tree[c] \in DOMAIN tree \cup {NoRow}
    BY <2>2, ConstantsAssumption DEF WellPlaced
  <2> QED
    BY <2>1, <2>2, <2>3, ConstantsAssumption
<1> QED
  BY <1>1, <1>2 DEF SInv, EntryOK, NoLate, Entering, NewRequest

LEMMA SweepNext == NoLateEntries /\ SInv /\ [Next]_vars => SInv'
<1> SUFFICES ASSUME NoLateEntries, SInv, [Next]_vars PROVE SInv'
  OBVIOUS
<1>0. IInv' /\ ~LateEntries /\ TypeOK
  BY InvNext DEF SInv, NoLateEntries, IInv
<1>1. ASSUME NEW q \in Requests, Begin(q) PROVE SInv'
  <2>1. CASE CreateSubject(q)
    BY <1>0, <2>1, CreateSubjectSweep
  <2>2. CASE StartCreate(q)
    <3>1. PICK p \in Rows :
            /\ state[p] = "live" /\ MayEnter(p)
            /\ Become(q, [NewRequest EXCEPT !.pc = "write", !.op = "create", !.dest = p])
      BY Zenon, <2>2 DEF StartCreate
    <3> DEFINE rec == [NewRequest EXCEPT !.pc = "write", !.op = "create", !.dest = p]
    <3>2. rec \in Request /\ rec.op = "create" /\ rec.dest = p
      BY DEF NewRequest, Request, Levels
    <3> HIDE DEF rec
    <3> QED
      BY <1>0, <2>2, <3>1, <3>2, StartSweep DEF StartCreate, rec
  <2>3. CASE StartDraft(q)
    <3>1. PICK p \in Plans :
            /\ state[p] = "live" /\ MayEnter(p)
            /\ Become(q, [NewRequest EXCEPT !.pc = "write", !.op = "draft", !.dest = p])
      BY Zenon, <2>3 DEF StartDraft
    <3> DEFINE rec == [NewRequest EXCEPT !.pc = "write", !.op = "draft", !.dest = p]
    <3>2. rec \in Request /\ rec.op = "draft" /\ rec.dest = p /\ p \in Rows
      BY DEF NewRequest, Request, Levels, Rows
    <3> HIDE DEF rec
    <3> QED
      BY <1>0, <2>3, <3>1, <3>2, StartSweep DEF StartDraft, rec
  <2>4. CASE StartMove(q)
    <3>1. PICK c \in Rows \ (Subjects \cup Documents), p \in Rows :
            /\ MayEnter(p)
            /\ Become(q, [NewRequest EXCEPT !.pc = "check", !.op = "move",
                                            !.target = c, !.dest = p])
      BY Zenon, <2>4 DEF StartMove
    <3> DEFINE rec == [NewRequest EXCEPT !.pc = "check", !.op = "move",
                                         !.target = c, !.dest = p]
    <3>2. rec \in Request /\ rec.op = "move" /\ rec.dest = p /\ rec.pc = "check"
      BY DEF NewRequest, Request, Levels
    <3> HIDE DEF rec
    <3> QED
      BY <1>0, <2>4, <3>1, <3>2, StartSweep DEF StartMove, rec
  <2>5. CASE StartDelete(q)
    BY <1>0, <2>5, StartDeleteSweep
  <2> QED
    BY <1>1, <2>1, <2>2, <2>3, <2>4, <2>5 DEF Begin
<1>2. ASSUME NEW q \in Requests, Step(q) PROVE SInv'
  <2>1. CASE GiveUp(q) \/ Victim(q)
    BY <1>0, <2>1, LeaveSweep DEF GiveUp, Victim
  <2> QED
    BY <1>0, <1>2, <2>1, InsertSweep, MaterializeSweep, CheckMoveSweep, MoveSweep,
       ScanSweep, UpdateSweep, ReturnSweep, CommitDeleteSweep DEF Step
<1>3. CASE UNCHANGED vars
  <2>1. request' = request /\ state' = state /\ parent' = parent
    BY <1>3 DEF vars
  <2>2. \A q \in Requests : EntryOK(q)'
    BY <2>1 DEF SInv, EntryOK, Entering, At
  <2>3. NoLate'
    BY <2>1, NoLateKept DEF SInv, Entering, At
  <2>4. \A q \in Requests : request'[q].op = "delete" => LevelOK(q)' /\ SweepOK(q)'
    BY <1>0, <2>1, SweepKept DEF SInv
  <2>5. NoLiveBelowDeleted'
    BY <2>1 DEF SInv, NoLiveBelowDeleted
  <2> QED
    BY <1>0, <2>2, <2>3, <2>4, <2>5 DEF SInv
<1> QED
  BY <1>1, <1>2, <1>3 DEF Next

\* No row the application still reads hangs below a deleted one, for any trees
\* and requests, when nothing enters below what is being deleted (subjects,
\* teaching_plans, plan_modules: delete, over cascade_soft_delete).
THEOREM CascadeIsComplete ==
  ASSUME NoLateEntries
  PROVE  Spec => []NoLiveBelowDeleted
<1>1. SInv /\ [Next]_vars => SInv'
  BY NoLateEntries, SweepNext
<1>2. SInv => NoLiveBelowDeleted
  BY DEF SInv
<1> QED
  BY SweepInit, <1>1, <1>2, PTL DEF Spec

=============================================================================
