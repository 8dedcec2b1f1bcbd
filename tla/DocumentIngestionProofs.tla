------------------------ MODULE DocumentIngestionProofs ------------------------
(***************************************************************************)
(* Theorems about DocumentIngestion, for every value of its constants: its *)
(* types, what INDEXED promises, that nothing is lost silently, and that   *)
(* it implements DocumentLifecycle.  Each says which faults it survives.   *)
(***************************************************************************)
EXTENDS DocumentIngestion, SequenceTheorems, TLAPS

-----------------------------------------------------------------------------
(* What the updates of the model preserve.                                 *)

\* A task that is idle is a task.
LEMMA IdleTaskIsTask ==
  IdleTask \in Task /\ IdleTask.pc = "idle" /\ IdleTask.doc \notin Documents
BY ConstantsAssumption DEF IdleTask, Task, PC, Pipeline, Retries

\* Moving a task to another program point keeps the tasks well typed.
LEMMA GotoTyped ==
  ASSUME TypeOK, NEW w \in Workers, NEW pc \in PC, Goto(w, pc)
  PROVE  worker' \in [Workers -> Task]
BY ZenonT(60) DEF TypeOK, Goto, Task

\* Adding a message keeps a bag of messages a bag.
LEMMA PlusTyped ==
  ASSUME NEW bag \in [Documents -> [Retries -> Nat]],
         NEW d \in Documents, NEW r \in Retries
  PROVE  Plus(bag, d, r) \in [Documents -> [Retries -> Nat]]
BY DEF Plus

\* Taking a message out of a bag that has it keeps the bag a bag.
LEMMA MinusTyped ==
  ASSUME NEW bag \in [Documents -> [Retries -> Nat]],
         NEW d \in Documents, NEW r \in Retries, bag[d][r] > 0
  PROVE  Minus(bag, d, r) \in [Documents -> [Retries -> Nat]]
<1>1. bag[d][r] \in Nat /\ bag[d][r] - 1 \in Nat
  OBVIOUS
<1>2. QED
  BY <1>1 DEF Minus

\* Setting the status of a document keeps the row well typed.
LEMMA SetStatusTyped ==
  ASSUME TypeOK, NEW d \in Documents, NEW s \in Status, SetStatus(d, s)
  PROVE  status' \in [Documents -> Status] /\ fresh' \in [Documents -> BOOLEAN]
BY DEF TypeOK, SetStatus

\* A worker works on a document exactly when it is not idle.
BusyHasDocument ==
  \A w \in Workers : worker[w].pc # "idle" <=> worker[w].doc \in Documents

\* The content row a run has stored is there.
StoredContent ==
  \A w \in Workers :
    worker[w].pc \in {"chunk", "embed", "index", "finish"} =>
      worker[w].content \in 1 .. Len(contents[worker[w].doc])

TypeInv == TypeOK /\ BusyHasDocument /\ StoredContent

-----------------------------------------------------------------------------
(* Type correctness.                                                       *)

LEMMA InitTypeInv == Init => TypeInv
BY IdleTaskIsTask, ConstantsAssumption
   DEF Init, TypeInv, TypeOK, BusyHasDocument, StoredContent, Status, UploadState, IdleTask, Retries

\* The steps of the upload request, the owner and the clock.
LEMMA DocumentStepsTyped ==
  ASSUME TypeInv, NEW d \in Documents,
         \/ PutObject(d) \/ Register(d) \/ Enqueue(d) \/ ApiCrash(d)
         \/ SoftDelete(d) \/ GoStale(d) \/ Resend(d)
         \/ \E r \in Retries : Restore(d, r)
  PROVE  TypeInv'
<1> USE DEF TypeInv, BusyHasDocument, StoredContent, row, broker, letters, bounds
<1>0. TypeOK /\ 0 \in Retries
  BY ConstantsAssumption DEF Retries
<1>1. CASE PutObject(d)
  BY <1>0, <1>1 DEF PutObject, TypeOK, UploadState
<1>2. CASE Register(d)
  <2>1. status' \in [Documents -> Status] /\ fresh' \in [Documents -> BOOLEAN]
    BY <1>0, <1>2, SetStatusTyped DEF Register, Status, TypeOK
  <2>2. QED
    BY <1>0, <1>2, <2>1 DEF Register, TypeOK, UploadState
<1>3. CASE Enqueue(d)
  BY <1>0, <1>3, PlusTyped DEF Enqueue, TypeOK, UploadState
<1>4. CASE ApiCrash(d)
  BY <1>0, <1>4 DEF ApiCrash, TypeOK, UploadState
<1>5. CASE SoftDelete(d)
  BY <1>0, <1>5 DEF SoftDelete, Touch, TypeOK
<1>6. CASE GoStale(d)
  BY <1>0, <1>6 DEF GoStale, TypeOK
<1>7. CASE Resend(d)
  <2>1. replaying[d] - 1 \in Nat
    BY <1>0, <1>7 DEF Resend, TypeOK
  <2>2. replaying' \in [Documents -> Nat]
    BY <1>0, <1>7, <2>1 DEF Resend, TypeOK
  <2>3. QED
    BY <1>0, <1>7, <2>2, PlusTyped DEF Resend, TypeOK
<1>8. ASSUME NEW r \in Retries, Restore(d, r)
      PROVE  TypeInv'
  BY <1>0, <1>8, PlusTyped, MinusTyped DEF Restore, TypeOK
<1>9. QED
  BY <1>1, <1>2, <1>3, <1>4, <1>5, <1>6, <1>7, <1>8

\* The steps of a task up to the acknowledgement, the failures among them.
LEMMA StepTyped ==
  ASSUME TypeInv, NEW w \in Workers, Step(w) \/ ReportBatch(w)
  PROVE  TypeInv'
<1> USE DEF TypeInv, BusyHasDocument, StoredContent, row, broker, letters, bounds
<1>0. /\ TypeOK
      /\ IdleTask \in Task /\ IdleTask.pc = "idle" /\ IdleTask.doc \notin Documents
      /\ worker[w] \in Task
      /\ worker[w].pc # "idle" <=> worker[w].doc \in Documents
  BY IdleTaskIsTask DEF TypeOK
<1>1. CASE ReadDocument(w)
  <2>1. ASSUME NEW pc \in {"claimed", "ack"}, Goto(w, pc)
        PROVE  TypeInv'
    BY <1>0, <1>1, <2>1 DEF ReadDocument, Goto, At, Task, PC, Pipeline, TypeOK
  <2>2. CASE worker' = [worker EXCEPT ![w].pc = "settle", ![w].error = "transient"]
    BY ZenonT(60), <1>0, <1>1, <2>2 DEF ReadDocument, At, Task, PC, TypeOK
  <2>3. QED
    BY <1>1, <2>1, <2>2 DEF ReadDocument
<1>2. CASE Claim(w)
  <2>1. Doc(w) \in Documents
    BY <1>0, <1>2 DEF Claim, At, Doc
  <2>2. worker' \in [Workers -> Task]
    BY <1>0, <1>2, GotoTyped DEF Claim, PC, Pipeline
  <2>3. status' \in [Documents -> Status] /\ fresh' \in [Documents -> BOOLEAN]
    BY <1>0, <1>2, <2>1, SetStatusTyped DEF Claim, Status
  <2>4. QED
    BY <1>0, <1>2, <2>2, <2>3 DEF Claim, Goto, At, TypeOK, Task
<1>3. CASE Fetch(w)
  BY <1>0, <1>3 DEF Fetch, Goto, At, Task, PC, Pipeline, TypeOK
<1>4. CASE ReadLatest(w)
  <2>1. PICK n \in 0 .. Len(contents[Doc(w)]) :
          worker' = [worker EXCEPT ![w].pc = "store", ![w].latest = n]
    BY <1>4 DEF ReadLatest
  <2>2. contents[Doc(w)] \in Seq(Content)
    BY <1>0, <1>4 DEF ReadLatest, At, Doc, TypeOK
  <2>3. n \in Nat
    BY <2>2
  <2>4. [worker[w] EXCEPT !.pc = "store", !.latest = n] \in Task
    BY <1>0, <2>3 DEF Task, PC, Pipeline
  <2>5. QED
    BY ZenonT(60), <1>0, <1>4, <2>1, <2>4 DEF ReadLatest, At, TypeOK, Task
<1>5. CASE StoreContent(w)
  <2> DEFINE d == Doc(w)
             new == [version |-> worker[w].latest + 1, chunks |-> FALSE]
  <2>1. d \in Documents /\ contents[d] \in Seq(Content)
    BY <1>0, <1>5 DEF StoreContent, At, Doc, TypeOK
  <2>2. new \in Content
    BY <1>0 DEF Task, Content
  <2>3. /\ Append(contents[d], new) \in Seq(Content)
        /\ Len(Append(contents[d], new)) = Len(contents[d]) + 1
        /\ Len(contents[d]) \in Nat
    BY <2>1, <2>2, AppendProperties, LenProperties
  <2>4. contents' = [contents EXCEPT ![d] = Append(contents[d], new)]
    BY <1>5 DEF StoreContent
  <2>5. contents' \in [Documents -> Seq(Content)]
    BY <1>0, <2>3, <2>4 DEF TypeOK
  <2>6. worker' = [worker EXCEPT ![w].pc = "chunk", ![w].latest = 0,
                                 ![w].content = Len(contents[d]) + 1]
    BY <1>5 DEF StoreContent
  <2>7. worker' \in [Workers -> Task]
    <3>1. PICK n \in Nat : n = Len(contents[d]) + 1
      BY <2>3
    <3>2. worker' = [worker EXCEPT ![w].pc = "chunk", ![w].latest = 0, ![w].content = n]
      BY <2>6, <3>1
    <3>3. QED
      BY <1>0, <3>2 DEF TypeOK, Task, PC, Pipeline
  <2>8. TypeOK'
    BY <1>0, <1>5, <2>5, <2>7 DEF StoreContent, TypeOK
  <2>9. BusyHasDocument'
    BY <1>0, <2>1, <2>6 DEF TypeOK, Task, Doc
  <2>10. \A e \in Documents : Len(contents'[e]) \in Nat /\ Len(contents'[e]) >= Len(contents[e])
    BY <1>0, <2>3, <2>4, LenProperties DEF TypeOK
  <2>11. \A v \in Workers : worker[v].content \in Nat
    BY <1>0 DEF TypeOK, Task
  <2>12. ASSUME NEW v \in Workers, worker'[v].pc \in {"chunk", "embed", "index", "finish"}
         PROVE  worker'[v].content \in 1 .. Len(contents'[worker'[v].doc])
    <3>1. CASE v = w
      BY <1>0, <2>1, <2>3, <2>4, <2>6, <3>1 DEF TypeOK, Task, Doc
    <3>2. CASE v # w
      <4>1. worker'[v] = worker[v]
        BY <1>0, <2>6, <3>2 DEF TypeOK
      <4>2. worker[v].doc \in Documents /\ Len(contents[worker[v].doc]) \in Nat
        BY <1>0, <2>12, <4>1, LenProperties DEF TypeOK
      <4>3. worker[v].content \in 1 .. Len(contents[worker[v].doc])
        BY <2>12, <4>1
      <4>4. QED
        BY <2>10, <2>11, <4>1, <4>2, <4>3
    <3>3. QED
      BY <3>1, <3>2
  <2>13. QED
    BY <2>8, <2>9, <2>12
<1>6. CASE PublishTotal(w)
  BY <1>0, <1>6 DEF PublishTotal, Touch, Goto, At, Task, PC, Pipeline, TypeOK
<1>7. CASE ReportBatch(w)
  BY <1>0, <1>7 DEF ReportBatch, Touch, At, TypeOK
<1>8. CASE Embedded(w)
  BY <1>0, <1>8 DEF Embedded, Goto, At, Task, PC, Pipeline, TypeOK
<1>9. CASE IndexContent(w)
  <2> DEFINE d == Doc(w)
             i == worker[w].content
             rest == [contents[d] EXCEPT ![i].chunks = TRUE]
  <2>1. d \in Documents /\ contents[d] \in Seq(Content) /\ i \in 1 .. Len(contents[d])
    BY <1>0, <1>9 DEF IndexContent, At, Doc, TypeOK
  <2>2. [contents[d][i] EXCEPT !.chunks = TRUE] \in Content
    <3>1. contents[d][i] \in Content
      BY <2>1, ElementOfSeq
    <3>2. QED
      BY <3>1 DEF Content
  <2>3. rest = [contents[d] EXCEPT ![i] = [contents[d][i] EXCEPT !.chunks = TRUE]]
    OBVIOUS
  <2>4. rest \in Seq(Content) /\ Len(rest) = Len(contents[d])
    BY <2>1, <2>2, <2>3, ExceptSeq
  <2>5. contents' = [contents EXCEPT ![d] = rest]
    BY <1>9 DEF IndexContent
  <2>6. /\ contents' \in [Documents -> Seq(Content)]
        /\ \A e \in Documents : Len(contents'[e]) = Len(contents[e])
    BY <1>0, <2>4, <2>5 DEF TypeOK
  <2>7. worker' = [worker EXCEPT ![w].pc = "finish"]
    BY <1>9 DEF IndexContent, Goto
  <2>8. worker' \in [Workers -> Task]
    BY <1>0, <1>9, GotoTyped DEF IndexContent, PC, Pipeline
  <2>9. QED
    BY ZenonT(60), <1>0, <1>9, <2>6, <2>7, <2>8 DEF IndexContent, At, TypeOK, Task
<1>10. CASE Finish(w)
  <2>1. Doc(w) \in Documents
    BY <1>0, <1>10 DEF Finish, At, Doc
  <2>2. worker' \in [Workers -> Task]
    BY <1>0, <1>10, GotoTyped DEF Finish, PC
  <2>3. status' \in [Documents -> Status] /\ fresh' \in [Documents -> BOOLEAN]
    BY <1>0, <1>10, <2>1, SetStatusTyped DEF Finish, Status
  <2>4. QED
    BY <1>0, <1>10, <2>2, <2>3 DEF Finish, Goto, At, TypeOK, Task
<1>11. CASE Fail(w)
  <2>1. PICK kind \in {"transient", "permanent"} :
          worker' = [worker EXCEPT ![w].pc = "onerror", ![w].error = kind,
                                   ![w].latest = 0, ![w].content = 0]
    BY <1>11 DEF Fail
  <2>2. worker[w].pc # "idle"
    BY <1>11 DEF Fail, Pipeline
  <2>3. QED
    BY ZenonT(60), <1>0, <1>11, <2>1, <2>2 DEF Fail, Task, PC, TypeOK
<1>12. CASE OnError(w)
  <2>1. Doc(w) \in Documents
    BY <1>0, <1>12 DEF OnError, At, Doc
  <2>2. worker' \in [Workers -> Task]
    BY <1>0, <1>12, GotoTyped DEF OnError, PC
  <2>3. status' \in [Documents -> Status] /\ fresh' \in [Documents -> BOOLEAN]
    BY <1>0, <1>12, <2>1, SetStatusTyped DEF OnError, Status
  <2>4. QED
    BY <1>0, <1>12, <2>2, <2>3 DEF OnError, Goto, At, TypeOK, Task
<1>13. CASE Retry(w)
  <2>1. worker[w].retries + 1 \in Retries
    BY <1>0, <1>13, ConstantsAssumption DEF Retry, GivesUp, Task, Retries
  <2>2. Doc(w) \in Documents
    BY <1>0, <1>13 DEF Retry, At, Doc
  <2>3. worker' \in [Workers -> Task]
    BY <1>0, <1>13, GotoTyped DEF Retry, PC
  <2>4. QED
    BY <1>0, <1>13, <2>1, <2>2, <2>3, PlusTyped DEF Retry, Goto, At, Task, TypeOK
<1>14. CASE MarkFailed(w)
  <2>1. Doc(w) \in Documents
    BY <1>0, <1>14 DEF MarkFailed, At, Doc
  <2>2. worker' \in [Workers -> Task]
    BY <1>0, <1>14, GotoTyped DEF MarkFailed, PC
  <2>3. status' \in [Documents -> Status] /\ fresh' \in [Documents -> BOOLEAN]
    BY <1>0, <1>14, <2>1, SetStatusTyped DEF MarkFailed, Status
  <2>4. QED
    BY <1>0, <1>14, <2>2, <2>3 DEF MarkFailed, Goto, At, TypeOK, Task
<1>15. CASE Bury(w)
  <2>1. worker' \in [Workers -> Task]
    BY <1>0, <1>15, GotoTyped DEF Bury, PC
  <2>2. deadLetter' \in [Documents -> Nat]
    BY <1>0, <1>15 DEF Bury, At, Doc, TypeOK
  <2>3. QED
    BY <1>0, <1>15, <2>1, <2>2 DEF Bury, Goto, At, TypeOK, Task
<1>16. CASE Ack(w)
  BY <1>0, <1>16 DEF Ack, TypeOK
<1>17. QED
  BY <1>1, <1>2, <1>3, <1>4, <1>5, <1>6, <1>7, <1>8, <1>9, <1>10, <1>11, <1>12,
     <1>13, <1>14, <1>15, <1>16 DEF Step

\* The broker, crashes and the replay script.
LEMMA EnvironmentStepsTyped ==
  ASSUME TypeInv,
         \/ \E w \in Workers : Receive(w) \/ Crash(w) \/ Duplicate(w) \/ LoseOutcome(w)
         \/ Drain
         \/ UNCHANGED vars
  PROVE  TypeInv'
<1> USE DEF TypeInv, BusyHasDocument, StoredContent, row, broker, letters, bounds
<1>0. /\ TypeOK
      /\ IdleTask \in Task /\ IdleTask.pc = "idle" /\ IdleTask.doc \notin Documents
  BY IdleTaskIsTask
<1>1. ASSUME NEW w \in Workers, Receive(w)
      PROVE  TypeInv'
  <2>1. PICK d \in Documents, r \in Retries :
          /\ ready[d][r] > 0
          /\ ready' = Minus(ready, d, r)
          /\ worker' = [worker EXCEPT ![w] =
               [IdleTask EXCEPT !.pc = "received", !.doc = d, !.retries = r,
                                !.tracked = TRUE]]
    BY Zenon, <1>1 DEF Receive
  <2>2. [IdleTask EXCEPT !.pc = "received", !.doc = d, !.retries = r,
                         !.tracked = TRUE] \in Task
    BY <1>0 DEF Task, PC
  <2>3. ready' \in [Documents -> [Retries -> Nat]]
    BY <1>0, <2>1, MinusTyped DEF TypeOK
  <2>4. QED
    BY Zenon, <1>0, <1>1, <2>1, <2>2, <2>3 DEF Receive, TypeOK, IdleTask
<1>2. ASSUME NEW w \in Workers, Crash(w)
      PROVE  TypeInv'
  <2>1. worker[w].doc \in Documents /\ worker[w].retries \in Retries
    BY <1>0, <1>2 DEF Crash, At, TypeOK, Task
  <2>2. unacked' \in [Documents -> [Retries -> Nat]]
    BY <1>0, <1>2, <2>1, PlusTyped DEF Crash, Doc, TypeOK
  <2>3. QED
    BY <1>0, <1>2, <2>2 DEF Crash, TypeOK
<1>3. ASSUME NEW w \in Workers, Duplicate(w)
      PROVE  TypeInv'
  <2>1. worker[w].doc \in Documents /\ worker[w].retries \in Retries
    BY <1>0, <1>3 DEF Duplicate, At, TypeOK, Task
  <2>2. ready' \in [Documents -> [Retries -> Nat]]
    BY <1>0, <1>3, <2>1, PlusTyped DEF Duplicate, Doc, TypeOK
  <2>3. worker' \in [Workers -> Task]
    BY ZenonT(60), <1>0, <1>3 DEF Duplicate, TypeOK, Task
  <2>4. \A v \in Workers : /\ worker'[v].pc = worker[v].pc
                            /\ worker'[v].doc = worker[v].doc
                            /\ worker'[v].content = worker[v].content
    BY <1>0, <1>3 DEF Duplicate, TypeOK, Task
  <2>5. QED
    BY <1>0, <1>3, <2>2, <2>3, <2>4 DEF Duplicate, TypeOK
<1>4. CASE Drain
  BY <1>0, <1>4 DEF Drain, TypeOK
<1>5. CASE UNCHANGED vars
  BY <1>0, <1>5 DEF vars, TypeOK
<1>6. ASSUME NEW w \in Workers, LoseOutcome(w)
      PROVE  TypeInv'
  <2>1. worker[w].pc \in {"onerror", "settle", "bury"}
    BY <1>6 DEF LoseOutcome, At
  <2>2. /\ worker' \in [Workers -> Task]
        /\ \A v \in Workers : worker'[v].doc = worker[v].doc
        /\ \A v \in Workers \ {w} : worker'[v] = worker[v]
        /\ worker'[w].pc \in {"settle", "ack"}
    <3>1. /\ worker[w] \in Task
          /\ worker' = [worker EXCEPT ![w] =
                           [worker[w] EXCEPT !.pc = "settle", !.error = "transient"]]
             \/ worker' = [worker EXCEPT ![w] = [worker[w] EXCEPT !.pc = "ack"]]
      BY <1>0, <1>6 DEF LoseOutcome, Goto, TypeOK
    <3>2. PICK t \in Task : /\ worker' = [worker EXCEPT ![w] = t]
                            /\ t.doc = worker[w].doc
                            /\ t.pc \in {"settle", "ack"}
      <4>1. [worker[w] EXCEPT !.pc = "settle", !.error = "transient"] \in Task
        BY <3>1 DEF Task, PC
      <4>2. [worker[w] EXCEPT !.pc = "ack"] \in Task
        BY <3>1 DEF Task, PC
      <4>3. QED
        BY <3>1, <4>1, <4>2 DEF Task
    <3>3. QED
      BY <1>0, <3>2 DEF TypeOK
  <2>3. TypeOK' /\ UNCHANGED contents
    BY <1>0, <1>6, <2>2 DEF LoseOutcome, TypeOK
  <2>4. \A v \in Workers : worker'[v].pc # "idle" <=> worker[v].pc # "idle"
    BY <2>1, <2>2
  <2>5. QED
    BY <2>2, <2>3, <2>4
<1>7. QED
  BY <1>1, <1>2, <1>3, <1>4, <1>5, <1>6

\* The three kinds of steps are all of them.
LEMMA NextTyped == TypeInv /\ [Next]_vars => TypeInv'
<1> SUFFICES ASSUME TypeInv, [Next]_vars
             PROVE  TypeInv'
  OBVIOUS
<1>1. CASE \E d \in Documents :
             \/ PutObject(d) \/ Register(d) \/ Enqueue(d) \/ ApiCrash(d)
             \/ SoftDelete(d) \/ GoStale(d) \/ Resend(d)
             \/ \E r \in Retries : Restore(d, r)
  BY <1>1, DocumentStepsTyped
<1>2. CASE \E w \in Workers : Step(w) \/ ReportBatch(w)
  BY <1>2, StepTyped
<1>3. CASE \/ \E w \in Workers : Receive(w) \/ Crash(w) \/ Duplicate(w) \/ LoseOutcome(w)
           \/ Drain
           \/ UNCHANGED vars
  BY <1>3, EnvironmentStepsTyped
<1>4. QED
  BY <1>1, <1>2, <1>3 DEF Next

\* Every reachable state is well typed, a busy worker has a document, and the
\* content row a run has stored exists.
LEMMA TypeInvariant == Spec => []TypeInv
<1>1. QED
  BY InitTypeInv, NextTyped, PTL DEF Spec

\* Every variable keeps its type, whatever the faults: in particular no retry
\* count passes max_retries and no bag of messages goes negative.
THEOREM TypeCorrect == Spec => []TypeOK
<1>1. TypeInv => TypeOK
  BY DEF TypeInv
<1>2. QED
  BY <1>1, TypeInvariant, PTL

-----------------------------------------------------------------------------
(* INDEXED means searchable.                                               *)

\* A run that is about to report INDEXED has its chunks stored: what makes
\* IndexedMeansSearchable inductive.
FinishHasChunks ==
  \A w \in Workers : worker[w].pc = "finish" =>
    contents[worker[w].doc][worker[w].content].chunks

IndexInv == FinishHasChunks /\ IndexedMeansSearchable

\* No step takes a stored content row or its chunks away.
ChunksStay ==
  \A d \in Documents :
    /\ Len(contents'[d]) \in Nat /\ Len(contents'[d]) >= Len(contents[d])
    /\ \A i \in 1 .. Len(contents[d]) :
         contents[d][i].chunks => contents'[d][i].chunks

LEMMA ContentsOnlyGrow == TypeInv /\ [Next]_vars => ChunksStay
<1> SUFFICES ASSUME TypeInv, [Next]_vars
             PROVE  ChunksStay
  OBVIOUS
<1>0. /\ contents \in [Documents -> Seq(Content)]
      /\ \A d \in Documents : Len(contents[d]) \in Nat
  BY LenProperties DEF TypeInv, TypeOK
<1>1. CASE UNCHANGED contents
  BY <1>0, <1>1 DEF ChunksStay
<1>2. ASSUME NEW w \in Workers, StoreContent(w)
      PROVE  ChunksStay
  <2> DEFINE d == Doc(w)
             new == [version |-> worker[w].latest + 1, chunks |-> FALSE]
  <2>1. d \in Documents /\ new \in Content /\ contents[d] \in Seq(Content)
    BY <1>0, <1>2 DEF TypeInv, BusyHasDocument, TypeOK, StoreContent, At, Doc, Task, Content
  <2>2. contents' = [contents EXCEPT ![d] = Append(contents[d], new)]
    BY <1>2 DEF StoreContent
  <2>3. /\ Len(Append(contents[d], new)) = Len(contents[d]) + 1
        /\ \A i \in 1 .. Len(contents[d]) : Append(contents[d], new)[i] = contents[d][i]
    BY <2>1, AppendProperties
  <2>4. QED
    BY <1>0, <2>1, <2>2, <2>3 DEF ChunksStay
<1>3. ASSUME NEW w \in Workers, IndexContent(w)
      PROVE  ChunksStay
  <2> DEFINE d == Doc(w)
             i == worker[w].content
  <2>1. d \in Documents /\ contents[d] \in Seq(Content) /\ i \in 1 .. Len(contents[d])
    BY <1>0, <1>3 DEF TypeInv, BusyHasDocument, StoredContent, IndexContent, At, Doc
  <2>2. contents[d][i] \in Content
    BY <2>1, ElementOfSeq
  <2>3. PICK c \in Content : c = [contents[d][i] EXCEPT !.chunks = TRUE] /\ c.chunks
    <3>1. /\ [contents[d][i] EXCEPT !.chunks = TRUE] \in Content
          /\ [contents[d][i] EXCEPT !.chunks = TRUE].chunks
      BY <2>2 DEF Content
    <3>2. QED
      BY <3>1
  <2>4. contents' = [contents EXCEPT ![d] = [contents[d] EXCEPT ![i] = c]]
    BY <1>3, <2>3 DEF IndexContent
  <2>5. /\ Len([contents[d] EXCEPT ![i] = c]) = Len(contents[d])
        /\ \A j \in 1 .. Len(contents[d]) :
             [contents[d] EXCEPT ![i] = c][j] = IF j = i THEN c ELSE contents[d][j]
    BY <2>1, ExceptSeq
  <2>6. QED
    BY <1>0, <2>1, <2>3, <2>4, <2>5 DEF ChunksStay
<1>4. QED
  BY ZenonT(60), <1>1, <1>2, <1>3
     DEF Next, Step, vars, PutObject, Register, Enqueue, ApiCrash, SoftDelete, GoStale,
         Resend, Restore, ReadDocument, Claim, Fetch, ReadLatest, PublishTotal, Embedded,
         Finish, Fail, OnError, Retry, MarkFailed, Bury, Ack, Receive, ReportBatch, Crash,
         Duplicate, LoseOutcome, Drain

\* Only IndexContent brings a run to the point where it reports INDEXED.
LEMMA WhoReachesFinish ==
  ASSUME TypeInv, [Next]_vars, NEW v \in Workers, worker'[v].pc = "finish"
  PROVE  \/ IndexContent(v)
         \/ /\ worker[v].pc = "finish"
            /\ worker'[v].doc = worker[v].doc
            /\ worker'[v].content = worker[v].content
<1> DEFINE Same == /\ worker[v].pc = "finish"
                   /\ worker'[v].doc = worker[v].doc
                   /\ worker'[v].content = worker[v].content
<1>0. worker \in [Workers -> Task] /\ IdleTask.pc = "idle"
  BY DEF TypeInv, TypeOK, IdleTask
<1>1. CASE UNCHANGED worker
  BY <1>1
<1>2. ASSUME NEW w \in Workers, Step(w)
      PROVE  IndexContent(v) \/ Same
  <2>1. CASE v # w
    BY <1>0, <1>2, <2>1
       DEF Step, Goto, ReadDocument, Claim, Fetch, ReadLatest, StoreContent, PublishTotal,
           Embedded, IndexContent, Finish, Fail, OnError, Retry, MarkFailed, Bury, Ack
  <2>2. CASE v = w
    BY <1>0, <1>2, <2>2
       DEF Step, Goto, ReadDocument, Claim, Fetch, ReadLatest, StoreContent, PublishTotal,
           Embedded, Finish, Fail, OnError, Retry, MarkFailed, Bury, Ack, Task
  <2>3. QED
    BY <2>1, <2>2
<1>3. ASSUME NEW w \in Workers, Receive(w) \/ Crash(w) \/ Duplicate(w) \/ LoseOutcome(w)
      PROVE  Same
  <2>1. CASE Receive(w)
    BY <1>0, <2>1 DEF Receive, IdleTask
  <2>2. CASE Crash(w)
    BY <1>0, <2>2 DEF Crash
  <2>3. CASE Duplicate(w)
    BY <1>0, <2>3 DEF Duplicate, Task
  <2>4. CASE LoseOutcome(w)
    BY <1>0, <2>4 DEF LoseOutcome, Goto, Task
  <2>5. QED
    BY <1>3, <2>1, <2>2, <2>3, <2>4
<1>4. QED
  BY <1>1, <1>2, <1>3
     DEF Next, vars, PutObject, Register, Enqueue, ApiCrash, SoftDelete, GoStale, Resend,
         Restore, ReportBatch, Drain

\* Only Finish reports INDEXED.
LEMMA WhoSetsIndexed ==
  ASSUME TypeInv, [Next]_vars, NEW d \in Documents, status'[d] = "INDEXED"
  PROVE  \/ status[d] = "INDEXED"
         \/ \E w \in Workers : Finish(w) /\ Doc(w) = d
<1>0. status \in [Documents -> Status]
  BY DEF TypeInv, TypeOK
<1>1. CASE UNCHANGED status
  BY <1>1
<1>2. ASSUME NEW e \in Documents, Register(e)
      PROVE  status[d] = "INDEXED"
  BY <1>0, <1>2 DEF Register, SetStatus
<1>3. ASSUME NEW w \in Workers, Claim(w) \/ OnError(w) \/ MarkFailed(w)
      PROVE  status[d] = "INDEXED"
  BY <1>0, <1>3 DEF Claim, OnError, MarkFailed, SetStatus
<1>4. ASSUME NEW w \in Workers, Finish(w)
      PROVE  status[d] = "INDEXED" \/ Doc(w) = d
  BY <1>0, <1>4 DEF Finish, SetStatus
<1>5. QED
  BY ZenonT(60), <1>1, <1>2, <1>3, <1>4
     DEF Next, Step, vars, row, PutObject, Enqueue, ApiCrash, SoftDelete, GoStale, Resend,
         Restore, ReadDocument, Fetch, ReadLatest, StoreContent, PublishTotal, Embedded,
         IndexContent, Fail, Retry, Bury, Ack, Receive, ReportBatch, Crash,
             Duplicate, LoseOutcome, Drain

LEMMA NextIndexInv == TypeInv /\ IndexInv /\ [Next]_vars => IndexInv'
<1> SUFFICES ASSUME TypeInv, IndexInv, [Next]_vars
             PROVE  IndexInv'
  OBVIOUS
<1>1. /\ ChunksStay
      /\ \A d \in Documents : contents[d] \in Seq(Content) /\ Len(contents[d]) \in Nat
      /\ \A d \in Documents : DOMAIN contents[d] = 1 .. Len(contents[d])
  BY ContentsOnlyGrow, LenProperties DEF TypeInv, TypeOK
<1>2. TypeInv' /\ \A d \in Documents : DOMAIN contents'[d] = 1 .. Len(contents'[d])
  <2>1. TypeInv'
    BY NextTyped
  <2>2. QED
    BY <2>1, LenProperties DEF TypeInv, TypeOK
<1>3. ASSUME NEW v \in Workers, worker'[v].pc = "finish"
      PROVE  contents'[worker'[v].doc][worker'[v].content].chunks
  <2>1. CASE IndexContent(v)
    <3> DEFINE d == worker[v].doc
               i == worker[v].content
    <3>1. d \in Documents /\ i \in 1 .. Len(contents[d])
      BY <2>1 DEF IndexContent, At, TypeInv, BusyHasDocument, StoredContent
    <3>2. worker'[v].doc = d /\ worker'[v].content = i
      BY <2>1 DEF IndexContent, Goto, TypeInv, TypeOK, Task
    <3>3. contents[d][i] \in Content
      BY <1>1, <3>1, ElementOfSeq
    <3>4. contents'[d][i] = [contents[d][i] EXCEPT !.chunks = TRUE]
      BY <1>1, <2>1, <3>1 DEF IndexContent, Doc, TypeInv, TypeOK
    <3>5. QED
      BY <3>2, <3>3, <3>4 DEF Content
  <2>2. CASE /\ worker[v].pc = "finish"
             /\ worker'[v].doc = worker[v].doc
             /\ worker'[v].content = worker[v].content
    <3>1. /\ worker[v].doc \in Documents
          /\ worker[v].content \in 1 .. Len(contents[worker[v].doc])
          /\ contents[worker[v].doc][worker[v].content].chunks
      BY <2>2 DEF TypeInv, BusyHasDocument, StoredContent, IndexInv, FinishHasChunks
    <3>2. QED
      BY <1>1, <2>2, <3>1 DEF ChunksStay
  <2>3. QED
    BY <1>3, <2>1, <2>2, WhoReachesFinish
<1>4. ASSUME NEW d \in Documents, status'[d] = "INDEXED"
      PROVE  \E i \in DOMAIN contents'[d] : contents'[d][i].chunks
  <2>1. \E i \in DOMAIN contents[d] : contents[d][i].chunks
    <3>1. CASE status[d] = "INDEXED"
      BY <3>1 DEF IndexInv, IndexedMeansSearchable, Indexed
    <3>2. ASSUME NEW w \in Workers, Finish(w), Doc(w) = d
          PROVE  \E i \in DOMAIN contents[d] : contents[d][i].chunks
      BY <1>1, <3>2
         DEF Finish, At, Doc, TypeInv, StoredContent, IndexInv, FinishHasChunks
    <3>3. QED
      BY <1>4, <3>1, <3>2, WhoSetsIndexed
  <2>2. QED
    BY <1>1, <1>2, <2>1 DEF ChunksStay
<1>5. QED
  BY <1>3, <1>4 DEF IndexInv, FinishHasChunks, IndexedMeansSearchable, Indexed

\* INDEXED is reported only for a document with a stored generation of chunks,
\* and stays true of it: for any number of documents, workers, retries and
\* replays, with crashes, early, late and duplicated deliveries, and takeovers
\* of runs that are still alive.
THEOREM IndexedIsSearchable == Spec => []IndexedMeansSearchable
<1>1. Init => IndexInv
  BY DEF Init, IndexInv, FinishHasChunks, IndexedMeansSearchable, IdleTask
<1>2. IndexInv => IndexedMeansSearchable
  BY DEF IndexInv
<1>3. QED
  BY <1>1, <1>2, TypeInvariant, NextIndexInv, PTL DEF Spec

-----------------------------------------------------------------------------
(* No silent loss.                                                         *)

\* The broker tracks the message of every busy worker, unless it duplicates.
Tracked ==
  "duplicate_delivery" \notin Faults =>
    \A w \in Workers : worker[w].pc # "idle" => worker[w].tracked

LEMMA NextTracked == TypeInv /\ Tracked /\ [Next]_vars => Tracked'
<1> SUFFICES ASSUME TypeInv, Tracked, [Next]_vars, "duplicate_delivery" \notin Faults,
                    NEW v \in Workers, worker'[v].pc # "idle"
             PROVE  worker'[v].tracked
  BY DEF Tracked
<1>0. worker \in [Workers -> Task] /\ IdleTask.pc = "idle"
  BY DEF TypeInv, TypeOK, IdleTask
<1>1. CASE UNCHANGED worker
  BY <1>1 DEF Tracked
<1>2. ASSUME NEW w \in Workers, Step(w)
      PROVE  worker'[v].tracked
  <2>1. v # w \/ worker[v].pc # "idle"
    BY <1>2 DEF Step, At, ReadDocument, Claim, Fetch, ReadLatest, StoreContent,
       PublishTotal, Embedded, IndexContent, Finish, Fail, OnError, Retry, MarkFailed,
       Bury, Ack, Pipeline
  <2>2. worker'[v].tracked = worker[v].tracked /\ (v # w => worker'[v] = worker[v])
    BY <1>0, <1>2
       DEF Step, Goto, ReadDocument, Claim, Fetch, ReadLatest, StoreContent, PublishTotal,
           Embedded, IndexContent, Finish, Fail, OnError, Retry, MarkFailed, Bury, Ack, Task
  <2>3. QED
    BY <2>1, <2>2 DEF Tracked
<1>3. ASSUME NEW w \in Workers, Receive(w)
      PROVE  worker'[v].tracked
  BY <1>0, <1>3 DEF Receive, Tracked, IdleTask
<1>4. ASSUME NEW w \in Workers, Crash(w)
      PROVE  worker'[v].tracked
  BY <1>0, <1>4 DEF Crash, Tracked
<1>5. ASSUME NEW w \in Workers, LoseOutcome(w)
      PROVE  worker'[v].tracked
  <2>1. /\ worker'[v].tracked = worker[v].tracked
        /\ v # w => worker'[v] = worker[v]
        /\ worker[w].pc # "idle"
    BY <1>0, <1>5 DEF LoseOutcome, At, Goto, Task
  <2>2. QED
    BY <2>1 DEF Tracked
<1>6. QED
  BY <1>1, <1>2, <1>3, <1>4, <1>5
     DEF Next, vars, PutObject, Register, Enqueue, ApiCrash, SoftDelete, GoStale, Resend,
         Restore, ReportBatch, Drain, Duplicate

\* A step of a task keeps somebody responsible for every document, except the
\* two that end the responsibility on purpose: a delivery that finds nothing to
\* do, and the report of INDEXED.
LEMMA StepKeepsResponsible ==
  ASSUME TypeInv, NEW d \in Documents, Responsible(d),
         NEW w \in Workers, Step(w) \/ ReportBatch(w),
         ~(ReadDocument(w) /\ Doc(w) = d /\ ~MayTake(d)),
         ~(Finish(w) /\ Doc(w) = d)
  PROVE  Responsible(d)'
<1>0. /\ worker \in [Workers -> Task] /\ worker[w] \in Task
      /\ ready \in [Documents -> [Retries -> Nat]]
      /\ unacked \in [Documents -> [Retries -> Nat]]
      /\ deadLetter \in [Documents -> Nat] /\ replaying \in [Documents -> Nat]
  BY DEF TypeInv, TypeOK
<1>1. ASSUME NEW r \in Retries, ready[d][r] > 0 \/ unacked[d][r] > 0
      PROVE  Responsible(d)'
  <2>1. unacked'[d][r] = unacked[d][r]
    BY DEF Step, broker, ReadDocument, Claim, Fetch, ReadLatest, StoreContent,
       PublishTotal, ReportBatch, Embedded, IndexContent, Finish, Fail, OnError, Retry,
       MarkFailed, Bury, Ack
  <2>2. ready'[d][r] >= ready[d][r]
    <3>1. CASE Retry(w)
      BY <1>0, <3>1 DEF Retry, Plus
    <3>2. CASE UNCHANGED ready
      BY <1>0, <3>2
    <3>3. QED
      BY <3>1, <3>2 DEF Step, broker, ReadDocument, Claim, Fetch, ReadLatest, StoreContent,
         PublishTotal, ReportBatch, Embedded, IndexContent, Finish, Fail, OnError,
         MarkFailed, Bury, Ack
  <2>3. ready'[d][r] \in Int /\ ready[d][r] \in Nat
    <3>1. CASE Retry(w)
      BY <1>0, <3>1 DEF Retry, Plus
    <3>2. CASE UNCHANGED ready
      BY <1>0, <3>2
    <3>3. QED
      BY <3>1, <3>2 DEF Step, broker, ReadDocument, Claim, Fetch, ReadLatest, StoreContent,
         PublishTotal, ReportBatch, Embedded, IndexContent, Finish, Fail, OnError,
         MarkFailed, Bury, Ack
  <2>4. QED
    BY <1>0, <1>1, <2>1, <2>2, <2>3 DEF Responsible
<1>2. ASSUME deadLetter[d] > 0 \/ replaying[d] > 0
      PROVE  Responsible(d)'
  <2>1. CASE Bury(w)
    BY <1>0, <1>2, <2>1 DEF Bury, Responsible
  <2>2. CASE UNCHANGED letters
    BY <1>0, <1>2, <2>2 DEF letters, Responsible
  <2>3. QED
    BY <2>1, <2>2 DEF Step, ReadDocument, Claim, Fetch, ReadLatest, StoreContent,
       PublishTotal, ReportBatch, Embedded, IndexContent, Finish, Fail, OnError, Retry,
       MarkFailed, Ack
<1>3. ASSUME NEW v \in Workers, Doc(v) = d, ~At(v, "ack")
      PROVE  Responsible(d)'
  <2>1. CASE v # w
    <3>1. worker'[v] = worker[v]
      BY <1>0, <2>1
         DEF Step, Goto, ReadDocument, Claim, Fetch, ReadLatest, StoreContent, PublishTotal,
             ReportBatch, Embedded, IndexContent, Finish, Fail, OnError, Retry, MarkFailed,
             Bury, Ack
    <3>2. QED
      BY <1>3, <3>1 DEF Responsible, Doc, At
  <2>2. CASE v = w
    <3>1. CASE Retry(w)
      <4>1. worker[w].retries + 1 \in Retries
        <5>1. worker[w].retries \in Nat /\ ~(worker[w].retries >= MaxRetries)
          BY <1>0, <3>1, ConstantsAssumption DEF Retry, GivesUp, Task, Retries
        <5>2. QED
          BY <5>1, ConstantsAssumption DEF Retries
      <4>2. ready'[d][worker[w].retries + 1] > 0
        BY <1>0, <1>3, <2>2, <3>1, <4>1 DEF Retry, Plus
      <4>3. QED
        BY <4>1, <4>2 DEF Responsible
    <3>2. CASE Bury(w)
      BY <1>0, <1>3, <2>2, <3>2 DEF Bury, Responsible
    <3>3. CASE Ack(w)
      BY <1>3, <2>2, <3>3 DEF Ack
    <3>4. CASE ~Retry(w) /\ ~Bury(w) /\ ~Ack(w)
      <4>1. ~Finish(w)
        BY <1>3, <2>2
      <4>2. ASSUME ReadDocument(w)
            PROVE  worker'[w].doc = worker[w].doc /\ worker'[w].pc # "ack"
        <5>1. MayTake(Doc(w))
          BY <1>3, <2>2, <4>2
        <5>2. QED
          BY <1>0, <4>2, <5>1 DEF ReadDocument, Goto, Task
      <4>3. ASSUME \/ Claim(w) \/ Fetch(w) \/ PublishTotal(w) \/ Embedded(w)
                   \/ IndexContent(w) \/ OnError(w) \/ MarkFailed(w)
            PROVE  worker'[w].doc = worker[w].doc /\ worker'[w].pc # "ack"
        BY <1>0, <4>3 DEF Claim, Fetch, PublishTotal, Embedded, IndexContent, OnError,
           MarkFailed, Goto, Task
      <4>4. ASSUME ReadLatest(w) \/ StoreContent(w) \/ Fail(w)
            PROVE  worker'[w].doc = worker[w].doc /\ worker'[w].pc # "ack"
        <5>1. ASSUME ReadLatest(w)
              PROVE  worker'[w].doc = worker[w].doc /\ worker'[w].pc # "ack"
          BY <1>0, <5>1 DEF ReadLatest, Task
        <5>2. ASSUME StoreContent(w)
              PROVE  worker'[w].doc = worker[w].doc /\ worker'[w].pc # "ack"
          BY <1>0, <5>2 DEF StoreContent, Task
        <5>3. ASSUME Fail(w)
              PROVE  worker'[w].doc = worker[w].doc /\ worker'[w].pc # "ack"
          BY <1>0, <5>3 DEF Fail, Task
        <5>4. QED
          BY <4>4, <5>1, <5>2, <5>3
      <4>5. ASSUME ReportBatch(w)
            PROVE  worker'[w].doc = worker[w].doc /\ worker'[w].pc # "ack"
        BY <1>3, <2>2, <4>5 DEF ReportBatch, At
      <4>6. worker'[w].doc = worker[w].doc /\ worker'[w].pc # "ack"
        BY <3>4, <4>1, <4>2, <4>3, <4>4, <4>5 DEF Step
      <4>7. QED
        BY <1>3, <2>2, <4>6 DEF Responsible, Doc, At
    <3>5. QED
      BY <3>1, <3>2, <3>3, <3>4
  <2>3. QED
    BY <2>1, <2>2
<1>4. QED
  BY <1>1, <1>2, <1>3 DEF Responsible

\* Neither duplicated deliveries together with crashes, nor refused writes.
NoFatalFaults ==
  /\ ~({"duplicate_delivery", "worker_crash"} \subseteq Faults)
  /\ "write_failure" \notin Faults

\* So does every other step, unless a worker whose message was duplicated, and
\* is therefore not tracked, crashes.
LEMMA OtherStepsKeepResponsible ==
  ASSUME TypeInv, Tracked, NoFatalFaults,
         NEW d \in Documents, Responsible(d),
         \/ \E e \in Documents :
              \/ PutObject(e) \/ Register(e) \/ Enqueue(e) \/ ApiCrash(e)
              \/ SoftDelete(e) \/ GoStale(e) \/ Resend(e)
              \/ \E r \in Retries : Restore(e, r)
         \/ \E w \in Workers : Receive(w) \/ Crash(w) \/ Duplicate(w) \/ LoseOutcome(w)
         \/ Drain
         \/ UNCHANGED vars
  PROVE  Responsible(d)'
<1> USE DEF NoFatalFaults
<1>0. /\ worker \in [Workers -> Task]
      /\ ready \in [Documents -> [Retries -> Nat]]
      /\ unacked \in [Documents -> [Retries -> Nat]]
      /\ deadLetter \in [Documents -> Nat] /\ replaying \in [Documents -> Nat]
      /\ 0 \in Retries
      /\ \A w \in Workers : worker[w].pc # "idle" =>
           worker[w].doc \in Documents /\ worker[w].retries \in Retries
  <2>1. 0 \in Retries
    BY ConstantsAssumption DEF Retries
  <2>2. \A w \in Workers : worker[w].retries \in Retries
    BY DEF TypeInv, TypeOK, Task
  <2>3. QED
    BY <2>1, <2>2 DEF TypeInv, TypeOK, BusyHasDocument
<1>1. CASE UNCHANGED << broker, worker, letters >>
  BY <1>1 DEF broker, letters, Responsible, Doc, At
<1>2. ASSUME NEW e \in Documents, NEW r \in Retries,
             ready' = Plus(ready, e, r), UNCHANGED << unacked, worker, letters >>
      PROVE  Responsible(d)'
  <2>1. \A f \in Documents, q \in Retries : ready[f][q] > 0 => ready'[f][q] > 0
    BY <1>0, <1>2 DEF Plus
  <2>2. QED
    BY <1>2, <2>1 DEF letters, Responsible, Doc, At
<1>3. ASSUME NEW e \in Documents, Resend(e)
      PROVE  Responsible(d)'
  <2>1. \A f \in Documents, q \in Retries : ready[f][q] > 0 => ready'[f][q] > 0
    BY <1>0, <1>3 DEF Resend, Plus
  <2>2. ready'[e][0] > 0
    BY <1>0, <1>3 DEF Resend, Plus
  <2>3. d # e => replaying'[d] = replaying[d]
    BY <1>0, <1>3 DEF Resend
  <2>4. QED
    BY <1>0, <1>3, <2>1, <2>2, <2>3 DEF Resend, Responsible, Doc, At
<1>4. ASSUME NEW e \in Documents, NEW r \in Retries, Restore(e, r)
      PROVE  Responsible(d)'
  <2>1. \A f \in Documents, q \in Retries : ready[f][q] > 0 => ready'[f][q] > 0
    BY <1>0, <1>4 DEF Restore, Plus
  <2>2. ready'[e][r] > 0
    BY <1>0, <1>4 DEF Restore, Plus
  <2>3. \A f \in Documents, q \in Retries :
          f # e \/ q # r => unacked'[f][q] = unacked[f][q]
    BY <1>0, <1>4 DEF Restore, Minus
  <2>4. QED
    BY <1>0, <1>4, <2>1, <2>2, <2>3 DEF Restore, letters, Responsible, Doc, At
<1>5. ASSUME NEW w \in Workers, Receive(w)
      PROVE  Responsible(d)'
  <2>1. PICK e \in Documents, r \in Retries :
          /\ ready' = Minus(ready, e, r)
          /\ worker' = [worker EXCEPT ![w] =
               [IdleTask EXCEPT !.pc = "received", !.doc = e, !.retries = r,
                                !.tracked = TRUE]]
    BY Zenon, <1>5 DEF Receive
  <2>2. worker'[w].doc = e /\ worker'[w].pc = "received"
    BY <1>0, <2>1 DEF IdleTask
  <2>3. CASE d = e
    BY <2>2, <2>3 DEF Responsible, Doc, At
  <2>4. CASE d # e
    <3>1. ready'[d] = ready[d]
      BY <1>0, <2>1, <2>4 DEF Minus
    <3>2. \A v \in Workers : v # w => worker'[v] = worker[v]
      BY <1>0, <2>1
    <3>3. worker[w].doc # d
      BY Zenon, <1>5 DEF Receive, At, TypeInv, BusyHasDocument
    <3>4. QED
      BY Zenon, <1>5, <3>1, <3>2, <3>3 DEF Receive, letters, Responsible, Doc, At
  <2>5. QED
    BY <2>3, <2>4
<1>6. ASSUME NEW w \in Workers, Crash(w)
      PROVE  Responsible(d)'
  <2>1. worker[w].doc \in Documents /\ worker[w].retries \in Retries /\ worker[w].tracked
    BY <1>0, <1>6 DEF Crash, At, Tracked
  <2>2. unacked' = Plus(unacked, worker[w].doc, worker[w].retries)
    BY <1>6, <2>1 DEF Crash, Doc
  <2>3. \A f \in Documents, q \in Retries : unacked[f][q] > 0 => unacked'[f][q] > 0
    BY <1>0, <2>1, <2>2 DEF Plus
  <2>4. unacked'[worker[w].doc][worker[w].retries] > 0
    BY <1>0, <2>1, <2>2 DEF Plus
  <2>5. \A v \in Workers : v # w => worker'[v] = worker[v]
    BY <1>0, <1>6 DEF Crash
  <2>6. QED
    BY <1>6, <2>1, <2>3, <2>4, <2>5 DEF Crash, letters, Responsible, Doc, At
<1>7. ASSUME NEW w \in Workers, Duplicate(w)
      PROVE  Responsible(d)'
  <2>1. worker[w].doc \in Documents /\ worker[w].retries \in Retries
    BY <1>0, <1>7 DEF Duplicate, At
  <2>2. \A f \in Documents, q \in Retries : ready[f][q] > 0 => ready'[f][q] > 0
    BY <1>0, <1>7, <2>1 DEF Duplicate, Plus, Doc
  <2>3. \A v \in Workers :
          worker'[v].doc = worker[v].doc /\ worker'[v].pc = worker[v].pc
    BY <1>0, <1>7 DEF Duplicate, Task
  <2>4. QED
    BY <1>7, <2>2, <2>3 DEF Duplicate, letters, Responsible, Doc, At
<1>8. CASE Drain
  <2>1. deadLetter[d] > 0 \/ replaying[d] > 0 => replaying'[d] > 0
    BY <1>0, <1>8 DEF Drain
  <2>2. QED
    BY <1>8, <2>1 DEF Drain, broker, Responsible, Doc, At
<1>9. ASSUME NEW e \in Documents, Enqueue(e)
      PROVE  Responsible(d)'
  BY <1>0, <1>2, <1>9 DEF Enqueue
<1>10. QED
  BY <1>1, <1>3, <1>4, <1>5, <1>6, <1>7, <1>8, <1>9
     DEF LoseOutcome, PutObject, Register, ApiCrash, SoftDelete, GoStale, vars, broker, letters

\* The two ends of responsibility do not touch a live document that is PENDING
\* or FAILED, and whoever sets these states is responsible: the status FAILED
\* is written by a task that then retries or records, PENDING by a request that
\* then sends.
LossInv == Tracked /\ NoSilentFailure /\ PendingIsQueued

LEMMA NextLossInv ==
  ASSUME NoFatalFaults
  PROVE  TypeInv /\ LossInv /\ [Next]_vars => LossInv'
<1> SUFFICES ASSUME TypeInv, LossInv, [Next]_vars
             PROVE  LossInv'
  OBVIOUS
<1> USE DEF LossInv
<1>0. /\ status \in [Documents -> Status] /\ deleted \in [Documents -> BOOLEAN]
      /\ upload \in [Documents -> UploadState]
      /\ worker \in [Workers -> Task]
  BY DEF TypeInv, TypeOK
<1>1. Tracked'
  BY NextTracked
<1>2. ASSUME NEW d \in Documents, status'[d] \in {"PENDING", "FAILED"}, ~deleted'[d],
             status'[d] = "PENDING" => upload'[d] \notin {"crashed", "registered"}
      PROVE  Responsible(d)'
  <2>1. ASSUME NEW w \in Workers, OnError(w) \/ MarkFailed(w), Doc(w) = d
        PROVE  Responsible(d)'
    <3>1. worker'[w].doc = d /\ worker'[w].pc \in {"settle", "bury"}
      BY <1>0, <2>1 DEF OnError, MarkFailed, Goto, Doc, Task
    <3>2. QED
      BY <3>1 DEF Responsible, Doc, At
  <2>2. ASSUME NEW e \in Documents, Enqueue(e), e = d
        PROVE  Responsible(d)'
    <3>1. 0 \in Retries /\ ready'[d][0] > 0
      BY <2>2, ConstantsAssumption DEF Enqueue, Plus, TypeInv, TypeOK, Retries
    <3>2. QED
      BY <3>1 DEF Responsible
  <2>3. CASE /\ status'[d] = status[d] /\ ~deleted[d]
             /\ status[d] = "PENDING" => upload[d] \notin {"crashed", "registered"}
    <3>1. Responsible(d)
      BY <1>2, <2>3 DEF NoSilentFailure, PendingIsQueued
    <3>2. MayTake(d)
      BY <1>2, <2>3 DEF MayTake
    <3>3. ASSUME NEW w \in Workers, Step(w) \/ ReportBatch(w)
          PROVE  Responsible(d)'
      <4>1. ~(Finish(w) /\ Doc(w) = d)
        BY <1>0, <1>2 DEF Finish, SetStatus
      <4>2. QED
        BY <3>1, <3>2, <3>3, <4>1, StepKeepsResponsible
    <3>4. CASE ~\E w \in Workers : Step(w) \/ ReportBatch(w)
      BY <3>1, <3>4, OtherStepsKeepResponsible DEF Next
    <3>5. QED
      BY <3>3, <3>4
  <2>4. ASSUME ~(/\ status'[d] = status[d] /\ ~deleted[d]
                 /\ status[d] = "PENDING" => upload[d] \notin {"crashed", "registered"})
        PROVE  \/ \E w \in Workers : (OnError(w) \/ MarkFailed(w)) /\ Doc(w) = d
               \/ \E e \in Documents : Enqueue(e) /\ e = d
    <3>1. CASE UNCHANGED << status, upload, deleted >>
      BY <1>0, <1>2, <2>4, <3>1
    <3>2. ASSUME NEW e \in Documents,
                 PutObject(e) \/ Register(e) \/ ApiCrash(e) \/ SoftDelete(e)
          PROVE  FALSE
      BY <1>0, <1>2, <2>4, <3>2 DEF PutObject, Register, ApiCrash, SoftDelete, SetStatus, row
    <3>3. ASSUME NEW e \in Documents, Enqueue(e)
          PROVE  e = d
      BY <1>0, <1>2, <2>4, <3>3 DEF Enqueue, row
    <3>4. ASSUME NEW w \in Workers, Claim(w) \/ Finish(w)
          PROVE  FALSE
      BY <1>0, <1>2, <2>4, <3>4 DEF Claim, Finish, SetStatus
    <3>5. ASSUME NEW w \in Workers, OnError(w) \/ MarkFailed(w)
          PROVE  Doc(w) = d
      BY <1>0, <1>2, <2>4, <3>5 DEF OnError, MarkFailed, SetStatus
    <3>6. QED
      BY ZenonT(60), <3>1, <3>2, <3>3, <3>4, <3>5
         DEF Next, Step, vars, row, GoStale, Resend, Restore, ReadDocument, Fetch,
             ReadLatest, StoreContent, PublishTotal, Embedded, IndexContent, Fail, Retry,
             Bury, Ack, Receive, ReportBatch, Crash,
             Duplicate, LoseOutcome, Drain
  <2>5. QED
    BY <2>1, <2>2, <2>3, <2>4
<1>3. QED
  BY <1>1, <1>2 DEF NoSilentFailure, PendingIsQueued

\* A live document that is PENDING or FAILED always has a message, a task, a
\* replay or a dead letter that refers to it, as long as what a failing run
\* writes is not refused, and the broker does not restore messages under living
\* workers or workers do not crash: either fault alone loses nothing.
THEOREM NothingIsLostSilently ==
  ASSUME NoFatalFaults
  PROVE  Spec => [](NoSilentFailure /\ PendingIsQueued)
<1>1. Init => LossInv
  BY DEF Init, LossInv, Tracked, NoSilentFailure, PendingIsQueued, IdleTask
<1>2. TypeInv /\ LossInv /\ [Next]_vars => LossInv'
  BY NextLossInv
<1>3. LossInv => NoSilentFailure /\ PendingIsQueued
  BY DEF LossInv
<1>4. QED
  BY <1>1, <1>2, <1>3, TypeInvariant, PTL DEF Spec

-----------------------------------------------------------------------------
(* Nothing is going on about a document that was never registered.         *)

Untouched(d) ==
  /\ upload[d] \notin {"registered", "done", "crashed"}
  /\ \A r \in Retries : ready[d][r] = 0 /\ unacked[d][r] = 0
  /\ \A w \in Workers : worker[w].doc # d
  /\ deadLetter[d] = 0 /\ replaying[d] = 0

\* A request that has not committed its row has none.
RegisteredOnce ==
  \A d \in Documents : upload[d] \in {"idle", "stored", "refused"} => status[d] = "absent"

UnseenInv ==
  /\ \A d \in Documents : status[d] = "absent" => Untouched(d)
  /\ RegisteredOnce

\* No row disappears.
LEMMA AbsentBefore ==
  ASSUME TypeInv, [Next]_vars, NEW d \in Documents, status'[d] = "absent"
  PROVE  status[d] = "absent"
<1>0. status \in [Documents -> Status]
  BY DEF TypeInv, TypeOK
<1>1. CASE UNCHANGED status
  BY <1>1
<1>2. ASSUME NEW e \in Documents, Register(e)
      PROVE  status[d] = "absent"
  BY <1>0, <1>2 DEF Register, SetStatus
<1>3. ASSUME NEW w \in Workers, Claim(w) \/ OnError(w) \/ MarkFailed(w) \/ Finish(w)
      PROVE  status[d] = "absent"
  BY <1>0, <1>3 DEF Claim, OnError, MarkFailed, Finish, SetStatus
<1>4. QED
  BY ZenonT(60), <1>1, <1>2, <1>3
     DEF Next, Step, vars, row, PutObject, Enqueue, ApiCrash, SoftDelete, GoStale, Resend,
         Restore, ReadDocument, Fetch, ReadLatest, StoreContent, PublishTotal, Embedded,
         IndexContent, Fail, Retry, Bury, Ack, Receive, ReportBatch, Crash,
         Duplicate, LoseOutcome, Drain

\* What the requests, the broker and the operator do leaves an absent document alone.
LEMMA DocumentStepsKeepUntouched ==
  ASSUME TypeInv, UnseenInv, NEW d \in Documents, Untouched(d), status'[d] = "absent",
         \/ \E e \in Documents :
              \/ PutObject(e) \/ Register(e) \/ Enqueue(e) \/ ApiCrash(e) \/ SoftDelete(e)
              \/ GoStale(e) \/ Resend(e) \/ \E r \in Retries : Restore(e, r)
         \/ Drain
  PROVE  Untouched(d)'
<1>0. /\ status \in [Documents -> Status] /\ upload \in [Documents -> UploadState]
      /\ ready \in [Documents -> [Retries -> Nat]]
      /\ unacked \in [Documents -> [Retries -> Nat]]
      /\ deadLetter \in [Documents -> Nat] /\ replaying \in [Documents -> Nat]
      /\ 0 \in Retries
  BY SMTT(30), ConstantsAssumption DEF TypeInv, TypeOK, Retries
<1>1. ASSUME NEW e \in Documents, PutObject(e) \/ Enqueue(e) \/ ApiCrash(e) \/ SoftDelete(e)
      PROVE  Untouched(d)'
  BY <1>0, <1>1 DEF PutObject, Enqueue, ApiCrash, SoftDelete, Untouched, Plus, broker,
                    letters, row, Touch
<1>2. ASSUME NEW e \in Documents, Register(e)
      PROVE  Untouched(d)'
  <2>1. d # e \/ upload'[d] = "refused"
    BY <1>0, <1>2 DEF Register, SetStatus, Status
  <2>2. QED
    BY <1>0, <1>2, <2>1 DEF Register, SetStatus, Untouched, broker, letters
<1>3. ASSUME NEW e \in Documents, GoStale(e) \/ Resend(e)
      PROVE  Untouched(d)'
  BY <1>0, <1>3 DEF GoStale, Resend, Untouched, Plus, broker, letters, row
<1>4. ASSUME NEW e \in Documents, NEW r \in Retries, Restore(e, r)
      PROVE  Untouched(d)'
  BY <1>0, <1>4 DEF Restore, Untouched, Plus, Minus, letters, row
<1>5. CASE Drain
  BY <1>0, <1>5 DEF Drain, Untouched, broker, row
<1>6. QED
  BY <1>1, <1>2, <1>3, <1>4, <1>5

\* Nor does a task touch a document that nobody has sent it.
LEMMA TaskStepsKeepUntouched ==
  ASSUME TypeInv, NEW d \in Documents, Untouched(d), NEW w \in Workers,
         \/ Receive(w) \/ Step(w) \/ ReportBatch(w)
         \/ Crash(w) \/ Duplicate(w) \/ LoseOutcome(w)
  PROVE  Untouched(d)'
<1>0. /\ worker \in [Workers -> Task] /\ worker[w] \in Task
      /\ ready \in [Documents -> [Retries -> Nat]]
      /\ unacked \in [Documents -> [Retries -> Nat]]
      /\ deadLetter \in [Documents -> Nat]
      /\ worker[w].doc # d /\ IdleTask.doc # d
  BY ConstantsAssumption DEF TypeInv, TypeOK, Untouched, IdleTask
<1>1. CASE Receive(w)
  <2>1. PICK e \in Documents, r \in Retries :
          /\ ready[e][r] > 0
          /\ ready' = Minus(ready, e, r)
          /\ worker' = [worker EXCEPT ![w] =
               [IdleTask EXCEPT !.pc = "received", !.doc = e, !.retries = r, !.tracked = TRUE]]
    BY Zenon, <1>1 DEF Receive
  <2>2. e # d
    BY <2>1 DEF Untouched
  <2>3. QED
    BY Zenon, <1>0, <1>1, <2>1, <2>2 DEF Receive, Untouched, Minus, IdleTask, letters
<1>2. CASE ~Receive(w)
  <2>1. ASSUME NEW v \in Workers
        PROVE  worker'[v].doc # d
    <3>0. worker[v].doc # d
      BY DEF Untouched
    <3>1. CASE v # w
      BY SMTT(30), <1>0, <1>2, <3>0, <3>1
         DEF Step, Goto, ReadDocument, Claim, Fetch, ReadLatest, StoreContent, PublishTotal,
             ReportBatch, Embedded, IndexContent, Finish, Fail, OnError, Retry, MarkFailed,
             Bury, Ack, Crash, Duplicate, LoseOutcome
    <3>2. CASE v = w /\ (Ack(w) \/ Crash(w))
      BY <1>0, <3>2 DEF Ack, Crash
    <3>3. CASE v = w /\ (Step(w) \/ ReportBatch(w) \/ Duplicate(w) \/ LoseOutcome(w)) /\ ~Ack(w)
      BY <1>0, <3>0, <3>3
         DEF Step, Goto, ReadDocument, Claim, Fetch, ReadLatest, StoreContent, PublishTotal,
             ReportBatch, Embedded, IndexContent, Finish, Fail, OnError, Retry, MarkFailed,
             Bury, Duplicate, LoseOutcome, Task
    <3>4. QED
      BY <1>2, <3>1, <3>2, <3>3
  <2>2. \A r \in Retries : ready'[d][r] = 0 /\ unacked'[d][r] = 0
    <3>0. \A r \in Retries : ready[d][r] = 0 /\ unacked[d][r] = 0
      BY DEF Untouched
    <3>1. CASE Retry(w)
      BY <1>0, <3>0, <3>1 DEF Retry, Plus, Doc
    <3>2. CASE Crash(w)
      BY <1>0, <3>0, <3>2 DEF Crash, Plus, Doc
    <3>3. CASE Duplicate(w)
      BY <1>0, <3>0, <3>3 DEF Duplicate, Plus, Doc
    <3>4. CASE UNCHANGED broker
      BY <3>0, <3>4 DEF broker
    <3>5. QED
      BY <1>2, <3>1, <3>2, <3>3, <3>4
         DEF Step, ReadDocument, Claim, Fetch, ReadLatest, StoreContent, PublishTotal,
             ReportBatch, Embedded, IndexContent, Finish, Fail, OnError, MarkFailed, Bury,
             Ack, LoseOutcome
  <2>3. deadLetter'[d] = deadLetter[d] /\ UNCHANGED << upload, replaying >>
    <3>1. CASE Bury(w)
      BY <1>0, <3>1 DEF Bury, Doc
    <3>2. CASE UNCHANGED << upload, letters >>
      BY <3>2 DEF letters
    <3>3. QED
      BY <1>2, <3>1, <3>2
         DEF Step, ReadDocument, Claim, Fetch, ReadLatest, StoreContent, PublishTotal,
             ReportBatch, Embedded, IndexContent, Finish, Fail, OnError, Retry, MarkFailed,
             Ack, Crash, Duplicate, LoseOutcome
  <2>4. QED
    BY <2>1, <2>2, <2>3 DEF Untouched
<1>3. QED
  BY <1>1, <1>2

LEMMA NextUntouched ==
  ASSUME TypeInv, UnseenInv, [Next]_vars, NEW d \in Documents, status'[d] = "absent"
  PROVE  Untouched(d)'
<1>1. Untouched(d)
  BY AbsentBefore DEF UnseenInv
<1>2. CASE UNCHANGED vars
  BY <1>1, <1>2 DEF vars, Untouched
<1>3. CASE Next
  BY <1>1, <1>3, DocumentStepsKeepUntouched, TaskStepsKeepUntouched DEF Next
<1>4. QED
  BY <1>2, <1>3

\* Until its commit the upload leaves the row absent, and nobody else writes it.
LEMMA NextRegisteredOnce ==
  ASSUME TypeInv, UnseenInv, [Next]_vars, NEW d \in Documents,
         upload'[d] \in {"idle", "stored", "refused"}
  PROVE  status'[d] = "absent"
<1>0. /\ status \in [Documents -> Status] /\ upload \in [Documents -> UploadState]
  BY DEF TypeInv, TypeOK
<1>1. ASSUME NEW e \in Documents, Register(e)
      PROVE  status'[d] = "absent"
  BY <1>0, <1>1 DEF Register, SetStatus, UnseenInv, RegisteredOnce
<1>2. ASSUME NEW e \in Documents, PutObject(e) \/ Enqueue(e) \/ ApiCrash(e)
      PROVE  status'[d] = "absent"
  BY <1>0, <1>2 DEF PutObject, Enqueue, ApiCrash, row, UnseenInv, RegisteredOnce
<1>3. ASSUME NEW w \in Workers, Claim(w) \/ OnError(w) \/ MarkFailed(w) \/ Finish(w)
      PROVE  status'[d] = "absent"
  <2>1. UNCHANGED upload /\ ~At(w, "idle")
    BY <1>3 DEF Claim, OnError, MarkFailed, Finish, At
  <2>2. status[d] = "absent"
    BY <1>0, <2>1 DEF UnseenInv, RegisteredOnce
  <2>3. Doc(w) # d
    BY <2>2 DEF UnseenInv, Untouched, Doc
  <2>4. QED
    BY <1>0, <1>3, <2>2, <2>3 DEF Claim, OnError, MarkFailed, Finish, SetStatus
<1>4. CASE UNCHANGED << status, upload >>
  BY <1>4 DEF UnseenInv, RegisteredOnce
<1>5. QED
  BY ZenonT(60), <1>1, <1>2, <1>3, <1>4
     DEF Next, Step, vars, row, SoftDelete, GoStale, Resend, Restore, ReadDocument, Fetch,
         ReadLatest, StoreContent, PublishTotal, Embedded, IndexContent, Fail, Retry, Bury,
         Ack, Receive, ReportBatch, Crash, Duplicate, LoseOutcome, Drain

LEMMA NextUnseenInv == TypeInv /\ UnseenInv /\ [Next]_vars => UnseenInv'
<1>1. QED
  BY NextUntouched, NextRegisteredOnce DEF UnseenInv, RegisteredOnce

-----------------------------------------------------------------------------
(* The refinement.  DocumentIngestion implements DocumentLifecycle under   *)
(* all faults: every step shows the abstract step of the document it is    *)
(* about, or nothing.                                                      *)

HasText == [d \in Documents |-> Indexed(d)]

\* The text of no document changes.
LEMMA SameText ==
  ASSUME UNCHANGED contents
  PROVE  HasText' = HasText
BY DEF HasText, Indexed

\* Storing a content row without chunks shows nothing.
LEMMA StoredShowsNothing ==
  ASSUME TypeInv, NEW w \in Workers, StoreContent(w)
  PROVE  HasText' = HasText
<1> DEFINE d == Doc(w)
           new == [version |-> worker[w].latest + 1, chunks |-> FALSE]
<1>0. d \in Documents /\ new \in Content /\ contents \in [Documents -> Seq(Content)]
  BY DEF TypeInv, BusyHasDocument, TypeOK, StoreContent, At, Doc, Task, Content
<1>1. contents' = [contents EXCEPT ![d] = Append(contents[d], new)]
  BY DEF StoreContent
<1>2. ASSUME NEW e \in Documents
      PROVE  (\E i \in DOMAIN contents'[e] : contents'[e][i].chunks) <=> Indexed(e)
  <2>1. CASE e # d
    BY <1>0, <1>1, <2>1 DEF Indexed
  <2>2. CASE e = d
    <3>1. contents[d] \in Seq(Content) /\ Len(contents[d]) \in Nat
      BY <1>0, LenProperties
    <3>2. /\ DOMAIN contents[d] = 1 .. Len(contents[d])
          /\ DOMAIN Append(contents[d], new) = 1 .. Len(contents[d]) + 1
          /\ Append(contents[d], new)[Len(contents[d]) + 1] = new
          /\ \A i \in 1 .. Len(contents[d]) : Append(contents[d], new)[i] = contents[d][i]
      BY <1>0, <3>1, AppendProperties, LenProperties
    <3>3. contents'[d] = Append(contents[d], new) /\ new.chunks = FALSE
      BY <1>0, <1>1
    <3>4. QED
      BY <2>2, <3>1, <3>2, <3>3 DEF Indexed
  <2>3. QED
    BY <2>1, <2>2
<1>3. QED
  BY <1>2 DEF HasText, Indexed

\* Storing the chunks of a run gives its document its text, and no other one.
LEMMA IndexedFills ==
  ASSUME TypeInv, NEW w \in Workers, IndexContent(w)
  PROVE  Doc(w) \in Documents /\ HasText' = [HasText EXCEPT ![Doc(w)] = TRUE]
<1> DEFINE d == Doc(w)
           i == worker[w].content
<1>0. /\ d \in Documents /\ i \in 1 .. Len(contents[d])
      /\ contents \in [Documents -> Seq(Content)]
  BY DEF TypeInv, BusyHasDocument, StoredContent, TypeOK, IndexContent, At, Doc
<1>1. contents[d] \in Seq(Content) /\ DOMAIN contents[d] = 1 .. Len(contents[d])
      /\ contents[d][i] \in Content
  BY <1>0, LenProperties, ElementOfSeq
<1>2. contents' = [contents EXCEPT ![d] =
                     [contents[d] EXCEPT ![i] = [contents[d][i] EXCEPT !.chunks = TRUE]]]
  BY DEF IndexContent
<1>3. contents'[d][i].chunks /\ i \in DOMAIN contents'[d]
  <2>1. contents'[d] = [contents[d] EXCEPT ![i] = [contents[d][i] EXCEPT !.chunks = TRUE]]
    BY <1>0, <1>2
  <2>2. contents'[d][i] = [contents[d][i] EXCEPT !.chunks = TRUE]
    BY <1>0, <1>1, <2>1
  <2>3. QED
    BY <1>0, <1>1, <2>1, <2>2 DEF Content
<1>4. ASSUME NEW e \in Documents, e # d
      PROVE  contents'[e] = contents[e]
  BY <1>0, <1>2, <1>4
<1>5. QED
  BY <1>0, <1>3, <1>4 DEF HasText, Indexed

\* A busy worker's document was registered.
LEMMA BusyIsKnown ==
  ASSUME TypeInv, UnseenInv, NEW w \in Workers, ~At(w, "idle")
  PROVE  Doc(w) \in Documents /\ status[Doc(w)] # "absent"
BY DEF TypeInv, BusyHasDocument, UnseenInv, Untouched, At, Doc

\* Every step of the tasks shows a step of the document, or nothing.
LEMMA StepImplements ==
  ASSUME TypeInv, UnseenInv, IndexInv, NEW w \in Workers, Step(w)
  PROVE  [Lifecycle!Next]_(Lifecycle!vars)
<1> USE DEF Lifecycle!Next, Lifecycle!vars, Lifecycle!Shows, HasText
<1>1. CASE ReadDocument(w) \/ Fetch(w) \/ ReadLatest(w) \/ PublishTotal(w) \/ Embedded(w)
           \/ Fail(w) \/ Retry(w) \/ Bury(w) \/ Ack(w)
  <2>1. UNCHANGED << status, deleted, contents >>
    BY <1>1 DEF ReadDocument, Fetch, ReadLatest, PublishTotal, Embedded, Fail, Retry, Bury,
                Ack, row
  <2>2. QED
    BY <2>1, SameText
<1>2. CASE StoreContent(w)
  <2>1. UNCHANGED << status, deleted >>
    BY <1>2 DEF StoreContent, row
  <2>2. QED
    BY <1>2, <2>1, StoredShowsNothing
<1>3. CASE IndexContent(w)
  <2>1. UNCHANGED << status, deleted >> /\ ~At(w, "idle")
    BY <1>3 DEF IndexContent, row, At
  <2>2. Lifecycle!Fill(Doc(w))
    BY <1>3, <2>1, BusyIsKnown, IndexedFills DEF Lifecycle!Fill
  <2>3. QED
    BY <2>1, <2>2, BusyIsKnown
<1>4. CASE Claim(w)
  <2>1. UNCHANGED << deleted, contents >> /\ ~At(w, "idle")
    BY <1>4 DEF Claim, At
  <2>2. Lifecycle!Begin(Doc(w))
    BY <1>4, <2>1, BusyIsKnown, SameText DEF Lifecycle!Begin, Claim, SetStatus
  <2>3. QED
    BY <2>1, <2>2, BusyIsKnown
<1>5. CASE Finish(w)
  <2>1. UNCHANGED << deleted, contents >> /\ ~At(w, "idle")
    BY <1>5 DEF Finish, At
  <2>2. Indexed(Doc(w))
    <3>1. /\ Doc(w) \in Documents
          /\ contents[Doc(w)] \in Seq(Content)
          /\ DOMAIN contents[Doc(w)] = 1 .. Len(contents[Doc(w)])
      BY <2>1, BusyIsKnown, LenProperties DEF TypeInv, TypeOK
    <3>2. QED
      BY <1>5, <3>1 DEF Finish, At, Doc, TypeInv, StoredContent, IndexInv, FinishHasChunks,
                        Indexed
  <2>3. Lifecycle!Publish(Doc(w))
    BY <1>5, <2>1, <2>2, BusyIsKnown, SameText DEF Lifecycle!Publish, Finish, SetStatus
  <2>4. QED
    BY <2>1, <2>3, BusyIsKnown
<1>6. CASE OnError(w) \/ MarkFailed(w)
  <2>1. UNCHANGED << deleted, contents >> /\ ~At(w, "idle")
    BY <1>6 DEF OnError, MarkFailed, At
  <2>2. Lifecycle!GiveUp(Doc(w))
    BY <1>6, <2>1, BusyIsKnown, SameText DEF Lifecycle!GiveUp, OnError, MarkFailed, SetStatus
  <2>3. QED
    BY <2>1, <2>2, BusyIsKnown
<1>7. QED
  BY <1>1, <1>2, <1>3, <1>4, <1>5, <1>6 DEF Step

LEMMA NextImplements ==
  TypeInv /\ UnseenInv /\ IndexInv /\ [Next]_vars => [Lifecycle!Next]_(Lifecycle!vars)
<1> SUFFICES ASSUME TypeInv, UnseenInv, IndexInv, [Next]_vars
             PROVE  [Lifecycle!Next]_(Lifecycle!vars)
  OBVIOUS
<1> USE DEF Lifecycle!Next, Lifecycle!vars, Lifecycle!Shows, HasText
<1>1. CASE UNCHANGED << status, deleted, contents >>
  BY <1>1, SameText
<1>2. ASSUME NEW d \in Documents, Register(d)
      PROVE  [Lifecycle!Next]_(Lifecycle!vars)
  <2>1. UNCHANGED << deleted, contents >>
    BY <1>2 DEF Register
  <2>2. status[d] = "absent" \/ UNCHANGED status
    BY <1>2 DEF Register, UnseenInv, RegisteredOnce
  <2>3. CASE UNCHANGED status
    BY <2>1, <2>3, SameText
  <2>4. CASE status[d] = "absent" /\ status' # status
    <3>1. Lifecycle!Appear(d)
      BY <1>2, <2>1, <2>4, SameText DEF Lifecycle!Appear, Register, SetStatus
    <3>2. QED
      BY <3>1
  <2>5. QED
    BY <2>2, <2>3, <2>4
<1>3. ASSUME NEW d \in Documents, SoftDelete(d)
      PROVE  [Lifecycle!Next]_(Lifecycle!vars)
  <2>1. Lifecycle!Remove(d)
    BY <1>3, SameText DEF Lifecycle!Remove, SoftDelete
  <2>2. QED
    BY <2>1
<1>4. ASSUME NEW w \in Workers, Step(w)
      PROVE  [Lifecycle!Next]_(Lifecycle!vars)
  BY <1>4, StepImplements
<1>5. QED
  BY Zenon, <1>1, <1>2, <1>3, <1>4
     DEF Next, vars, row, PutObject, Enqueue, ApiCrash, GoStale, Resend, Restore, Receive,
         ReportBatch, Crash, Duplicate, LoseOutcome, Drain

\* Whoever looks at a document sees the simple life of DocumentLifecycle, for any number of
\* documents, workers and retries and under all faults: every step of the ingestion is a
\* step of the lifecycle or shows nothing.
THEOREM IngestionImplementsLifecycle == Spec => ImplementsLifecycle
<1>1. Init => IndexInv /\ UnseenInv
  <2>1. Init => IndexInv
    BY DEF Init, IndexInv, FinishHasChunks, IndexedMeansSearchable, IdleTask
  <2>2. Init => UnseenInv
    BY ConstantsAssumption DEF Init, UnseenInv, RegisteredOnce, Untouched, IdleTask
  <2>3. QED
    BY <2>1, <2>2
<1>2. Init => Lifecycle!Init
  BY DEF Init, Lifecycle!Init, Indexed
<1>3. QED
  BY <1>1, <1>2, TypeInvariant, NextIndexInv, NextUnseenInv, NextImplements, PTL
     DEF Spec, ImplementsLifecycle, Lifecycle!Spec

-----------------------------------------------------------------------------
(* One run at a time.  Two runs of a document overlap only when two        *)
(* workers have deliveries of it.  With one worker they cannot; with any   *)
(* number of workers a second delivery needs a worker that dies or a       *)
(* message that the broker restores under a living one.                    *)

OneWorker      == \A v, w \in Workers : v = w
SingleDelivery == "worker_crash" \notin Faults /\ "duplicate_delivery" \notin Faults

\* A task that may still do something about the document.
Doing(w, d) == Doc(w) = d /\ ~At(w, "ack")

OneRun == \A v, w \in Workers : \A d \in Documents : Doing(v, d) /\ Doing(w, d) => v = w

InTask(d)    == \E w \in Workers : Doing(w, d)
InQueue(d)   == \E r \in Retries : ready[d][r] > 0
InLetters(d) == deadLetter[d] > 0
InReplay(d)  == replaying[d] > 0

\* Nowhere twice, not at two places, and nowhere before the request sent it.
Once(d) ==
  /\ \A v, w \in Workers : Doing(v, d) /\ Doing(w, d) => v = w
  /\ \A q, r \in Retries : ready[d][q] > 0 /\ ready[d][r] > 0 => q = r /\ ready[d][r] = 1
  /\ \A r \in Retries : unacked[d][r] = 0
  /\ deadLetter[d] <= 1 /\ replaying[d] <= 1
  /\ upload[d] # "done" => ~(InTask(d) \/ InQueue(d) \/ InLetters(d) \/ InReplay(d))
  /\ InTask(d)    => ~(InQueue(d) \/ InLetters(d) \/ InReplay(d))
  /\ InQueue(d)   => ~(InLetters(d) \/ InReplay(d))
  /\ InLetters(d) => ~InReplay(d)

\* Who has less to do has nothing twice.
LEMMA LessIsOnce ==
  ASSUME TypeOK, TypeOK', NEW d \in Documents, Once(d),
         \A w \in Workers : Doing(w, d)' => Doing(w, d),
         \A r \in Retries : ready'[d][r] <= ready[d][r],
         \A r \in Retries : unacked'[d][r] <= unacked[d][r],
         deadLetter'[d] <= deadLetter[d], replaying'[d] <= replaying[d],
         upload'[d] # "done" => upload[d] # "done"
  PROVE  Once(d)'
<1>1. /\ \A r \in Retries : ready[d][r] \in Nat /\ ready'[d][r] \in Nat
      /\ \A r \in Retries : unacked[d][r] \in Nat /\ unacked'[d][r] \in Nat
      /\ deadLetter[d] \in Nat /\ deadLetter'[d] \in Nat
      /\ replaying[d] \in Nat /\ replaying'[d] \in Nat
  BY DEF TypeOK
<1>2. /\ InTask(d)' => InTask(d)
      /\ InQueue(d)' => InQueue(d)
      /\ InLetters(d)' => InLetters(d)
      /\ InReplay(d)' => InReplay(d)
  BY <1>1 DEF InTask, InQueue, InLetters, InReplay
<1>3. /\ \A q, r \in Retries : ready'[d][q] > 0 /\ ready'[d][r] > 0 => q = r /\ ready'[d][r] = 1
      /\ \A r \in Retries : unacked'[d][r] = 0
      /\ deadLetter'[d] <= 1 /\ replaying'[d] <= 1
  BY <1>1 DEF Once
<1>4. \A v, w \in Workers : Doing(v, d)' /\ Doing(w, d)' => v = w
  BY DEF Once
<1>5. QED
  BY <1>2, <1>3, <1>4 DEF Once

\* A document that was at one place and is now in the queue is there once.
LEMMA QueuedOnce ==
  ASSUME TypeOK, TypeOK', NEW d \in Documents, NEW n \in Retries,
         ready' = Plus(ready, d, n), ~InQueue(d), upload'[d] = "done",
         \A r \in Retries : unacked'[d][r] = 0,
         ~(InTask(d)' \/ InLetters(d)' \/ InReplay(d)')
  PROVE  Once(d)'
<1>1. /\ \A r \in Retries : ready[d][r] = 0 /\ ready'[d][r] = IF r = n THEN 1 ELSE 0
      /\ deadLetter'[d] \in Nat /\ replaying'[d] \in Nat
  BY DEF TypeOK, InQueue, Plus
<1>2. QED
  BY <1>1 DEF Once, InTask, InLetters, InReplay

\* The request sends a document once; a message, a dead letter or an entry of the replay is
\* handed on, never copied.
LEMMA OthersHandOnOnce ==
  ASSUME TypeOK, TypeOK', NEW d \in Documents, Once(d),
         \/ \E e \in Documents :
              \/ PutObject(e) \/ Register(e) \/ Enqueue(e) \/ ApiCrash(e) \/ SoftDelete(e)
              \/ GoStale(e) \/ Resend(e)
              \/ \E r \in Retries : Restore(e, r)
         \/ Drain
  PROVE  Once(d)'
<1> USE DEF row, broker, letters, bounds
<1>0. /\ 0 \in Retries
      /\ \A r \in Retries : ready[d][r] \in Nat /\ unacked[d][r] = 0
      /\ deadLetter[d] \in Nat /\ replaying[d] \in Nat
  BY SMTT(30), ConstantsAssumption DEF TypeOK, Once, Retries
<1>1. ASSUME NEW e \in Documents,
             PutObject(e) \/ Register(e) \/ ApiCrash(e) \/ SoftDelete(e) \/ GoStale(e)
      PROVE  Once(d)'
  <2>1. /\ worker' = worker /\ ready' = ready /\ unacked' = unacked
        /\ deadLetter' = deadLetter /\ replaying' = replaying
        /\ upload'[d] # "done" => upload[d] # "done"
    BY <1>1 DEF PutObject, Register, ApiCrash, SoftDelete, GoStale, TypeOK
  <2>2. QED
    BY <1>0, <2>1, LessIsOnce DEF Doing, Doc, At
<1>2. ASSUME NEW e \in Documents, Enqueue(e) PROVE Once(d)'
  <2>1. /\ worker' = worker /\ unacked' = unacked
        /\ deadLetter' = deadLetter /\ replaying' = replaying
        /\ ready' = Plus(ready, e, 0) /\ upload[e] = "registered"
        /\ upload' = [upload EXCEPT ![e] = "done"]
    BY <1>2 DEF Enqueue
  <2>2. CASE d = e
    <3>1. ~(InTask(d) \/ InQueue(d) \/ InLetters(d) \/ InReplay(d))
      BY <2>1, <2>2 DEF Once
    <3>2. ~(InTask(d)' \/ InLetters(d)' \/ InReplay(d)') /\ upload'[d] = "done"
      BY <2>1, <2>2, <3>1 DEF InTask, InLetters, InReplay, Doing, Doc, At, TypeOK
    <3>3. QED
      BY <1>0, <2>1, <2>2, <3>1, <3>2, QueuedOnce
  <2>3. CASE d # e
    <3>1. (\A r \in Retries : ready'[d][r] = ready[d][r]) /\ upload'[d] = upload[d]
      BY <1>0, <2>1, <2>3 DEF Plus, TypeOK
    <3>2. QED
      BY <1>0, <2>1, <3>1, LessIsOnce DEF Doing, Doc, At
  <2>4. QED
    BY <2>2, <2>3
<1>3. ASSUME NEW e \in Documents, Resend(e) PROVE Once(d)'
  <2>1. /\ worker' = worker /\ unacked' = unacked /\ upload' = upload
        /\ deadLetter' = deadLetter /\ replaying[e] > 0
        /\ ready' = Plus(ready, e, 0)
        /\ replaying'[d] = IF d = e THEN replaying[d] - 1 ELSE replaying[d]
    BY <1>0, <1>3 DEF Resend, TypeOK
  <2>2. CASE d = e
    <3>1. ~(InTask(d) \/ InQueue(d) \/ InLetters(d)) /\ upload[d] = "done"
      BY <2>1, <2>2 DEF Once, InReplay
    <3>2. ~(InTask(d)' \/ InLetters(d)')
      BY <2>1, <3>1 DEF InTask, InLetters, Doing, Doc, At
    <3>3. ~InReplay(d)'
      BY <1>0, <2>1, <2>2 DEF Once, InReplay
    <3>4. QED
      BY <1>0, <2>1, <2>2, <3>1, <3>2, <3>3, QueuedOnce
  <2>3. CASE d # e
    <3>1. \A r \in Retries : ready'[d][r] = ready[d][r]
      BY <1>0, <2>1, <2>3 DEF Plus, TypeOK
    <3>2. QED
      BY <1>0, <2>1, <2>3, <3>1, LessIsOnce DEF Doing, Doc, At
  <2>4. QED
    BY <2>2, <2>3
<1>4. ASSUME NEW e \in Documents, NEW n \in Retries, Restore(e, n) PROVE Once(d)'
  <2>1. d # e
    BY <1>0, <1>4 DEF Restore
  <2>2. /\ worker' = worker /\ upload' = upload /\ letters' = letters
        /\ \A r \in Retries : ready'[d][r] = ready[d][r] /\ unacked'[d][r] = unacked[d][r]
    BY <1>0, <1>4, <2>1 DEF Restore, Plus, Minus, TypeOK
  <2>3. QED
    BY <1>0, <2>2, LessIsOnce DEF Doing, Doc, At
<1>5. CASE Drain
  <2>1. /\ worker' = worker /\ ready' = ready /\ unacked' = unacked /\ upload' = upload
        /\ replaying'[d] = replaying[d] + deadLetter[d] /\ deadLetter'[d] = 0
    BY <1>5 DEF Drain
  <2>2. CASE InLetters(d)
    <3>1. ~(InTask(d) \/ InQueue(d) \/ InReplay(d)) /\ upload[d] = "done"
      BY <2>2 DEF Once
    <3>2. ~(InTask(d)' \/ InQueue(d)')
      BY <2>1, <3>1 DEF InTask, InQueue, Doing, Doc, At
    <3>3. replaying'[d] <= 1
      BY <1>0, <2>1, <3>1 DEF Once, InReplay
    <3>4. QED
      BY <1>0, <2>1, <3>1, <3>2, <3>3 DEF Once, InTask, InQueue, InLetters
  <2>3. CASE ~InLetters(d)
    BY <1>0, <2>1, <2>3, LessIsOnce DEF InLetters, Doing, Doc, At
  <2>4. QED
    BY <2>2, <2>3
<1>6. QED
  BY <1>1, <1>2, <1>3, <1>4, <1>5

\* A step of a worker takes nobody else's document, and a task that is only to be acknowledged
\* does not begin again.
LEMMA TasksKeepTheirDocument ==
  ASSUME TypeOK, NEW w \in Workers,
         Step(w) \/ ReportBatch(w) \/ Crash(w) \/ Duplicate(w) \/ LoseOutcome(w)
  PROVE  /\ \A v \in Workers \ {w} : worker'[v] = worker[v]
         /\ \A d \in Documents : Doing(w, d)' => Doing(w, d)
<1>0. worker \in [Workers -> Task] /\ worker[w] \in Task
  BY DEF TypeOK
<1>1. ASSUME NEW pc, Goto(w, pc), ~At(w, "ack")
      PROVE  /\ \A v \in Workers \ {w} : worker'[v] = worker[v]
             /\ \A d \in Documents : Doing(w, d)' => Doing(w, d)
  BY <1>0, <1>1 DEF Goto, Task, Doing, Doc, At
<1>2. CASE ReadDocument(w)
  <2>1. CASE worker' = [worker EXCEPT ![w].pc = "settle", ![w].error = "transient"]
    BY <1>0, <1>2, <2>1 DEF ReadDocument, Task, Doing, Doc, At
  <2>2. QED
    BY <1>1, <1>2, <2>1 DEF ReadDocument, At
<1>3. CASE \/ Claim(w) \/ Fetch(w) \/ PublishTotal(w) \/ Embedded(w) \/ IndexContent(w)
           \/ Finish(w) \/ OnError(w) \/ Retry(w) \/ MarkFailed(w) \/ Bury(w)
  BY <1>1, <1>3 DEF Claim, Fetch, PublishTotal, Embedded, IndexContent, Finish, OnError, Retry,
     MarkFailed, Bury, At
<1>4. CASE ReadLatest(w)
  BY <1>0, <1>4 DEF ReadLatest, Task, Doing, Doc, At
<1>5. CASE StoreContent(w)
  BY <1>0, <1>5 DEF StoreContent, Task, Doing, Doc, At
<1>6. CASE Fail(w)
  BY <1>0, <1>6 DEF Fail, Pipeline, Task, Doing, Doc, At
<1>7. CASE Ack(w) \/ Crash(w)
  BY <1>0, <1>7, IdleTaskIsTask DEF Ack, Crash, Task, Doing, Doc, At
<1>8. CASE ReportBatch(w)
  BY <1>8 DEF ReportBatch, Doing, Doc, At
<1>9. CASE Duplicate(w)
  BY <1>0, <1>9 DEF Duplicate, Task, Doing, Doc, At
<1>10. CASE LoseOutcome(w)
  <2>1. CASE worker' = [worker EXCEPT ![w].pc = "settle", ![w].error = "transient"] /\ At(w, "onerror")
    BY <1>0, <2>1 DEF Task, Doing, Doc, At
  <2>2. QED
    BY <1>1, <1>10, <2>1 DEF LoseOutcome, At
<1>11. QED
  BY <1>2, <1>3, <1>4, <1>5, <1>6, <1>7, <1>8, <1>9, <1>10 DEF Step

\* A worker that takes a message, sends a retry or gives up does not keep the document too.
LEMMA WorkersHandOnOnce ==
  ASSUME SingleDelivery, TypeInv, TypeOK', NEW d \in Documents, Once(d), NEW w \in Workers,
         \/ Receive(w) \/ Step(w) \/ ReportBatch(w)
         \/ Crash(w) \/ Duplicate(w) \/ LoseOutcome(w)
  PROVE  Once(d)'
<1> USE DEF row, broker, letters, bounds
<1>0. /\ TypeOK /\ worker[w] \in Task /\ BusyHasDocument
      /\ \A r \in Retries : ready[d][r] \in Nat /\ unacked[d][r] = 0
      /\ deadLetter[d] \in Nat /\ replaying[d] \in Nat
  BY DEF TypeInv, TypeOK, Once
<1>1. CASE Receive(w)
  <2>1. PICK e \in Documents, n \in Retries :
          /\ ready[e][n] > 0
          /\ ready' = Minus(ready, e, n)
          /\ worker' = [worker EXCEPT ![w] =
               [IdleTask EXCEPT !.pc = "received", !.doc = e, !.retries = n, !.tracked = TRUE]]
    BY Zenon, <1>1 DEF Receive
  <2>2. /\ unacked' = unacked /\ upload' = upload
        /\ deadLetter' = deadLetter /\ replaying' = replaying
        /\ \A r \in Retries : ready'[d][r] =
             IF d = e /\ r = n THEN ready[d][r] - 1 ELSE ready[d][r]
    BY ZenonT(60), <1>0, <1>1, <2>1 DEF Receive, Minus, TypeOK
  <2>3. /\ worker'[w].doc = e /\ worker'[w].pc = "received"
        /\ \A v \in Workers \ {w} : worker'[v] = worker[v]
    BY <1>0, <2>1 DEF TypeOK, IdleTask
  <2>4. CASE d = e
    <3>1. ~(InTask(d) \/ InLetters(d) \/ InReplay(d)) /\ upload[d] = "done"
      BY <2>1, <2>4 DEF Once, InQueue
    <3>2. ~(InLetters(d)' \/ InReplay(d)')
      BY <2>2, <3>1 DEF InLetters, InReplay
    <3>3. \A v \in Workers : Doing(v, d)' => v = w
      BY <2>3, <3>1 DEF InTask, Doing, Doc, At
    <3>4. ~InQueue(d)'
      BY <1>0, <2>1, <2>2, <2>4 DEF Once, InQueue
    <3>5. QED
      BY <1>0, <2>2, <3>1, <3>2, <3>3, <3>4 DEF Once, InQueue, InLetters, InReplay
  <2>5. CASE d # e
    BY <1>0, <2>2, <2>3, <2>5, LessIsOnce DEF Doing, Doc, At
  <2>6. QED
    BY <2>4, <2>5
<1>2. CASE Retry(w) \/ Bury(w)
  <2>1. /\ worker[w].pc \in {"settle", "bury"} /\ Doc(w) \in Documents
        /\ worker' = [worker EXCEPT ![w].pc = "ack"]
        /\ unacked' = unacked /\ replaying' = replaying /\ upload' = upload
    BY <1>0, <1>2 DEF Retry, Bury, Goto, At, Doc, BusyHasDocument
  <2>2. /\ worker'[w].pc = "ack"
        /\ \A v \in Workers \ {w} : worker'[v] = worker[v]
    BY <1>0, <2>1 DEF TypeOK, Task
  <2>3. CASE d = Doc(w)
    <3>1. Doing(w, d)
      BY <2>1, <2>3 DEF Doing, At
    <3>2. ~(InQueue(d) \/ InLetters(d) \/ InReplay(d)) /\ upload[d] = "done"
      BY <3>1 DEF Once, InTask
    <3>3. ~InReplay(d)'
      BY <2>1, <3>2 DEF InReplay
    <3>4. ~InTask(d)'
      BY <2>2, <3>1 DEF Once, InTask, Doing, Doc, At
    <3>5. CASE Retry(w)
      <4>1. worker[w].retries + 1 \in Retries /\ ~InLetters(d)'
        BY <1>0, <3>2, <3>5, ConstantsAssumption DEF Retry, GivesUp, Retries, Task, InLetters
      <4>2. QED
        BY <1>0, <2>1, <2>3, <3>2, <3>3, <3>4, <3>5, <4>1, QueuedOnce DEF Retry
    <3>6. CASE Bury(w)
      <4>1. ready' = ready /\ deadLetter[d] = 0 /\ deadLetter'[d] = 1
        BY <1>0, <2>3, <3>2, <3>6 DEF Bury, InLetters, TypeOK
      <4>2. ~InQueue(d)'
        BY <3>2, <4>1 DEF InQueue
      <4>3. QED
        BY <1>0, <2>1, <3>2, <3>3, <3>4, <4>1, <4>2 DEF Once, InTask, InQueue, InReplay
    <3>7. QED
      BY <1>2, <3>5, <3>6
  <2>4. CASE d # Doc(w)
    <3>1. (\A r \in Retries : ready'[d][r] = ready[d][r]) /\ deadLetter'[d] = deadLetter[d]
      BY <1>0, <1>2, <2>4 DEF Retry, Bury, Plus, TypeOK
    <3>2. \A v \in Workers : Doing(v, d)' => Doing(v, d)
      BY <2>2 DEF Doing, At, Doc
    <3>3. QED
      BY <1>0, <2>1, <3>1, <3>2, LessIsOnce
  <2>5. QED
    BY <2>3, <2>4
<1>3. CASE ~Receive(w) /\ ~Retry(w) /\ ~Bury(w)
  <2>1. /\ ready' = ready /\ unacked' = unacked /\ upload' = upload
        /\ deadLetter' = deadLetter /\ replaying' = replaying
    BY <1>3 DEF Step, ReadDocument, Claim, Fetch, ReadLatest, StoreContent, PublishTotal, Embedded,
       IndexContent, Finish, Fail, OnError, MarkFailed, Ack, ReportBatch, Crash, Duplicate,
       LoseOutcome, SingleDelivery
  <2>2. \A v \in Workers : Doing(v, d)' => Doing(v, d)
    <3>1. \A v \in Workers \ {w} : worker'[v] = worker[v]
      BY <1>0, <1>3, TasksKeepTheirDocument
    <3>2. Doing(w, d)' => Doing(w, d)
      BY <1>0, <1>3, TasksKeepTheirDocument
    <3>3. QED
      BY <3>1, <3>2 DEF Doing, Doc, At
  <2>3. QED
    BY <1>0, <2>1, <2>2, LessIsOnce
<1>4. QED
  BY <1>1, <1>2, <1>3

OnceInv == \A d \in Documents : Once(d)

LEMMA NextOnceInv ==
  ASSUME SingleDelivery, TypeInv, OnceInv, [Next]_vars
  PROVE  OnceInv'
<1>0. TypeOK /\ TypeInv' /\ TypeOK'
  BY NextTyped DEF TypeInv
<1>1. SUFFICES ASSUME NEW d \in Documents, Once(d) PROVE Once(d)'
  BY DEF OnceInv
<1>2. CASE UNCHANGED vars
  BY <1>1, <1>2 DEF Once, InTask, InQueue, InLetters, InReplay, Doing, Doc, At, vars
<1>3. CASE \E w \in Workers : \/ Receive(w) \/ Step(w) \/ ReportBatch(w)
                              \/ Crash(w) \/ Duplicate(w) \/ LoseOutcome(w)
  BY <1>0, <1>1, <1>3, WorkersHandOnOnce
<1>4. CASE \/ \E e \in Documents :
                \/ PutObject(e) \/ Register(e) \/ Enqueue(e) \/ ApiCrash(e) \/ SoftDelete(e)
                \/ GoStale(e) \/ Resend(e)
                \/ \E r \in Retries : Restore(e, r)
           \/ Drain
  BY <1>0, <1>1, <1>4, OthersHandOnOnce
<1>5. QED
  BY <1>2, <1>3, <1>4 DEF Next

\* Two tasks never have something to do about the same document.
LEMMA OneRunInvariant ==
  ASSUME OneWorker \/ SingleDelivery
  PROVE  Spec => []OneRun
<1>1. CASE OneWorker
  <2>1. OneRun
    BY <1>1 DEF OneWorker, OneRun
  <2>2. QED
    BY <2>1, PTL
<1>2. CASE SingleDelivery
  <2>1. ASSUME Init PROVE OnceInv
    <3>1. \A d \in Documents : \A w \in Workers : ~Doing(w, d)
      BY <2>1, IdleTaskIsTask DEF Init, Doing, Doc
    <3>2. ASSUME NEW d \in Documents PROVE Once(d)
      <4>1. /\ \A r \in Retries : ready[d][r] = 0 /\ unacked[d][r] = 0
            /\ deadLetter[d] = 0 /\ replaying[d] = 0
        BY <2>1 DEF Init
      <4>2. QED
        BY <3>1, <4>1 DEF Once, InTask, InQueue, InLetters, InReplay
    <3>3. QED
      BY Zenon, <3>2 DEF OnceInv
  <2>2. TypeInv /\ OnceInv /\ [Next]_vars => OnceInv'
    BY <1>2, NextOnceInv
  <2>3. OnceInv => OneRun
    BY DEF OnceInv, Once, OneRun
  <2>4. QED
    BY <2>1, <2>2, <2>3, TypeInvariant, PTL DEF Spec
<1>3. QED
  BY <1>1, <1>2

-----------------------------------------------------------------------------
(* The versions of a document.  With one run at a time a content row holds *)
(* the version of its place, a run writes the last row, and nobody works   *)
(* on a document that is INDEXED.                                          *)

VersionIsPlace ==
  \A d \in Documents : \A i \in 1 .. Len(contents[d]) : contents[d][i].version = i

\* What the run of a worker knows about its document.
OnNewest(w) ==
  /\ worker[w].pc = "store" => worker[w].latest = Len(contents[Doc(w)])
  /\ worker[w].pc \in {"chunk", "embed", "index", "finish"} =>
       worker[w].content = Len(contents[Doc(w)])
  /\ worker[w].pc \in Pipeline \cup {"onerror"} => status[Doc(w)] # "INDEXED"

RunsOnNewest == \A w \in Workers : OnNewest(w)

NewestHasChunks ==
  \A d \in Documents : status[d] = "INDEXED" =>
    Len(contents[d]) > 0 /\ contents[d][Len(contents[d])].chunks

\* get_latest returns the number of contents there are.
LEMMA LatestIsLast ==
  ASSUME TypeInv, VersionIsPlace, NEW d \in Documents, NEW n \in 0 .. Len(contents[d]), IsLatest(d, n)
  PROVE  n = Len(contents[d])
<1>0. contents[d] \in Seq(Content) /\ Len(contents[d]) \in Nat
      /\ DOMAIN contents[d] = 1 .. Len(contents[d])
  BY LenProperties DEF TypeInv, TypeOK
<1>1. CASE Len(contents[d]) = 0
  BY <1>0, <1>1
<1>2. CASE Len(contents[d]) # 0
  <2>1. Len(contents[d]) \in 1 .. Len(contents[d])
    BY <1>0, <1>2
  <2>2. contents[d][Len(contents[d])].version = Len(contents[d])
    BY <2>1 DEF VersionIsPlace
  <2>3. Len(contents[d]) <= n
    BY <1>0, <2>1, <2>2 DEF IsLatest
  <2>4. QED
    BY <1>0, <2>3
<1>3. QED
  BY <1>1, <1>2

\* A run that stores its content adds the next version.
LEMMA StoredIsNext ==
  ASSUME TypeInv, RunsOnNewest, NEW w \in Workers, StoreContent(w)
  PROVE  LET d == Doc(w) IN
         /\ d \in Documents
         /\ \A e \in Documents \ {d} : contents'[e] = contents[e]
         /\ Len(contents[d]) \in Nat
         /\ Len(contents'[d]) = Len(contents[d]) + 1
         /\ \A i \in 1 .. Len(contents[d]) : contents'[d][i] = contents[d][i]
         /\ contents'[d][Len(contents[d]) + 1].version = Len(contents[d]) + 1
<1> DEFINE d == Doc(w)
           new == [version |-> worker[w].latest + 1, chunks |-> FALSE]
<1>0. /\ TypeOK /\ At(w, "store") /\ d \in Documents
      /\ contents[d] \in Seq(Content) /\ Len(contents[d]) \in Nat /\ new \in Content
  BY SMTT(30), LenProperties DEF TypeInv, TypeOK, BusyHasDocument, StoreContent, At, Doc, Task, Content
<1>1. worker[w].latest = Len(contents[d])
  BY <1>0 DEF RunsOnNewest, OnNewest, At
<1>2. contents' = [contents EXCEPT ![d] = Append(contents[d], new)]
  BY DEF StoreContent
<1>3. contents'[d] = Append(contents[d], new) /\ \A e \in Documents \ {d} : contents'[e] = contents[e]
  BY <1>0, <1>2 DEF TypeOK
<1>4. /\ Len(Append(contents[d], new)) = Len(contents[d]) + 1
      /\ \A i \in 1 .. Len(contents[d]) : Append(contents[d], new)[i] = contents[d][i]
      /\ Append(contents[d], new)[Len(contents[d]) + 1] = new
  BY <1>0, AppendProperties
<1>5. QED
  BY <1>0, <1>1, <1>3, <1>4

\* A run that stores its chunks changes nothing else.
LEMMA IndexedIsSame ==
  ASSUME TypeInv, NEW w \in Workers, IndexContent(w)
  PROVE  LET d == Doc(w) IN
         /\ d \in Documents
         /\ worker[w].content \in 1 .. Len(contents[d])
         /\ \A e \in Documents \ {d} : contents'[e] = contents[e]
         /\ Len(contents'[d]) = Len(contents[d]) /\ Len(contents[d]) \in Nat
         /\ \A i \in 1 .. Len(contents[d]) : contents'[d][i].version = contents[d][i].version
<1> DEFINE d == Doc(w)
           k == worker[w].content
<1>0. /\ TypeOK /\ At(w, "index") /\ d \in Documents
      /\ contents[d] \in Seq(Content) /\ Len(contents[d]) \in Nat /\ k \in 1 .. Len(contents[d])
  BY LenProperties DEF TypeInv, TypeOK, BusyHasDocument, StoredContent, IndexContent, At, Doc
<1>1. contents[d][k] \in Content
  BY <1>0, ElementOfSeq
<1>2. PICK c \in Content : c = [contents[d][k] EXCEPT !.chunks = TRUE]
                           /\ c.version = contents[d][k].version
  <2>1. /\ [contents[d][k] EXCEPT !.chunks = TRUE] \in Content
        /\ [contents[d][k] EXCEPT !.chunks = TRUE].version = contents[d][k].version
    BY <1>1 DEF Content
  <2>2. QED
    BY <2>1
<1>3. contents' = [contents EXCEPT ![d] = [contents[d] EXCEPT ![k] = c]]
  BY <1>2 DEF IndexContent
<1>4. /\ contents'[d] = [contents[d] EXCEPT ![k] = c]
      /\ \A e \in Documents \ {d} : contents'[e] = contents[e]
  BY <1>0, <1>3 DEF TypeOK
<1>5. /\ Len([contents[d] EXCEPT ![k] = c]) = Len(contents[d])
      /\ \A i \in 1 .. Len(contents[d]) :
           [contents[d] EXCEPT ![k] = c][i] = IF i = k THEN c ELSE contents[d][i]
  BY <1>0, <1>2, ExceptSeq
<1>6. QED
  BY <1>0, <1>2, <1>4, <1>5

\* Contents grow by versions of their place.
LEMMA NextVersionIsPlace ==
  ASSUME TypeInv, VersionIsPlace, RunsOnNewest, [Next]_vars
  PROVE  VersionIsPlace'
<1>1. CASE UNCHANGED contents
  BY <1>1 DEF VersionIsPlace
<1>2. ASSUME NEW w \in Workers, StoreContent(w) PROVE VersionIsPlace'
  <2>1. PICK d \in Documents :
          /\ \A e \in Documents \ {d} : contents'[e] = contents[e]
          /\ Len(contents[d]) \in Nat
          /\ Len(contents'[d]) = Len(contents[d]) + 1
          /\ \A i \in 1 .. Len(contents[d]) : contents'[d][i] = contents[d][i]
          /\ contents'[d][Len(contents[d]) + 1].version = Len(contents[d]) + 1
    BY <1>2, StoredIsNext
  <2>2. \A i \in 1 .. Len(contents'[d]) : contents'[d][i].version = i
    BY <2>1 DEF VersionIsPlace
  <2>3. QED
    BY <2>1, <2>2 DEF VersionIsPlace
<1>3. ASSUME NEW w \in Workers, IndexContent(w) PROVE VersionIsPlace'
  <2>1. PICK d \in Documents :
          /\ \A e \in Documents \ {d} : contents'[e] = contents[e]
          /\ Len(contents'[d]) = Len(contents[d])
          /\ \A i \in 1 .. Len(contents[d]) : contents'[d][i].version = contents[d][i].version
    BY <1>3, IndexedIsSame
  <2>2. QED
    BY <2>1 DEF VersionIsPlace
<1>4. QED
  BY ZenonT(60), <1>1, <1>2, <1>3
     DEF Next, Step, vars, PutObject, Register, Enqueue, ApiCrash, SoftDelete, GoStale,
         Resend, Restore, ReadDocument, Claim, Fetch, ReadLatest, PublishTotal, Embedded,
         Finish, Fail, OnError, Retry, MarkFailed, Bury, Ack, Receive, ReportBatch, Crash,
         Duplicate, LoseOutcome, Drain

\* A worker changes no document but the one it has something to do about.
LEMMA OthersAreUntouched ==
  ASSUME TypeInv, NEW w \in Workers, NEW d \in Documents, ~Doing(w, d),
         \/ Receive(w) \/ Step(w) \/ ReportBatch(w)
         \/ Crash(w) \/ Duplicate(w) \/ LoseOutcome(w)
  PROVE  contents'[d] = contents[d] /\ status'[d] = status[d]
<1> USE DEF row
<1>0. /\ contents \in [Documents -> Seq(Content)] /\ status \in [Documents -> Status]
      /\ Doc(w) # d \/ At(w, "ack")
  BY DEF TypeInv, TypeOK, Doing
<1>1. CASE \/ Claim(w) \/ StoreContent(w) \/ IndexContent(w) \/ Finish(w) \/ OnError(w)
           \/ MarkFailed(w)
  BY <1>0, <1>1 DEF Claim, StoreContent, IndexContent, Finish, OnError, MarkFailed, SetStatus, At
<1>2. CASE contents' = contents /\ status' = status
  BY <1>2
<1>3. QED
  BY Zenon, <1>1, <1>2 DEF Receive, Step, ReportBatch, Crash, Duplicate, LoseOutcome, ReadDocument,
     Fetch, ReadLatest, PublishTotal, Embedded, Fail, Retry, Bury, Ack

\* A run keeps up with its own steps.
LEMMA RunKeepsUp ==
  ASSUME TypeInv, VersionIsPlace, RunsOnNewest, NEW w \in Workers,
         \/ Receive(w) \/ Step(w) \/ ReportBatch(w)
         \/ Crash(w) \/ Duplicate(w) \/ LoseOutcome(w)
  PROVE  OnNewest(w)'
<1> USE DEF row
<1>0. /\ TypeOK /\ worker[w] \in Task /\ OnNewest(w)
      /\ worker[w].pc # "idle" => Doc(w) \in Documents
  BY DEF TypeInv, TypeOK, BusyHasDocument, RunsOnNewest, Doc
<1>a. ASSUME NEW pc, Goto(w, pc) PROVE worker'[w].pc = pc
  BY <1>0, <1>a DEF Goto, TypeOK
<1>1. CASE Receive(w)
  <2>1. worker'[w].pc = "received"
    BY ZenonT(60), <1>0, <1>1 DEF Receive, TypeOK, IdleTask
  <2>2. QED
    BY <2>1 DEF OnNewest, Pipeline
<1>2. CASE ReadDocument(w)
  <2>1. CASE MayTake(Doc(w)) /\ Goto(w, "claimed")
    BY <1>0, <1>2, <2>1 DEF ReadDocument, MayTake, Goto, TypeOK, Task, OnNewest, Doc, Pipeline
  <2>2. CASE worker'[w].pc \in {"ack", "settle"}
    BY <2>2 DEF OnNewest, Pipeline
  <2>3. QED
    <3>1. CASE worker' = [worker EXCEPT ![w].pc = "settle", ![w].error = "transient"]
      BY <1>0, <2>2, <3>1 DEF TypeOK
    <3>2. QED
      BY <1>2, <1>a, <2>1, <2>2, <3>1 DEF ReadDocument
<1>3. CASE Claim(w)
  <2>1. worker'[w].pc = "fetch" /\ worker'[w].doc = worker[w].doc /\ status'[Doc(w)] = "PROCESSING"
    BY <1>0, <1>3 DEF Claim, At, Goto, SetStatus, TypeOK, Task
  <2>2. QED
    BY <2>1 DEF OnNewest, Doc
<1>4. CASE ReadLatest(w)
  <2>1. PICK n \in 0 .. Len(contents[Doc(w)]) :
          /\ IsLatest(Doc(w), n)
          /\ worker' = [worker EXCEPT ![w].pc = "store", ![w].latest = n]
    BY <1>4 DEF ReadLatest
  <2>2. n = Len(contents[Doc(w)])
    BY <1>0, <1>4, <2>1, LatestIsLast DEF ReadLatest, At
  <2>3. /\ worker'[w].pc = "store" /\ worker'[w].doc = worker[w].doc /\ worker'[w].latest = n
        /\ contents' = contents /\ status' = status /\ worker[w].pc = "version"
    BY <1>0, <1>4, <2>1 DEF ReadLatest, At, TypeOK, Task
  <2>4. QED
    BY <1>0, <2>2, <2>3 DEF OnNewest, Doc, Pipeline
<1>5. CASE StoreContent(w)
  <2>1. /\ worker'[w].pc = "chunk" /\ worker'[w].doc = worker[w].doc
        /\ worker'[w].content = Len(contents[Doc(w)]) + 1
        /\ status' = status /\ worker[w].pc = "store"
    BY <1>0, <1>5 DEF StoreContent, At, TypeOK, Task
  <2>2. Len(contents'[Doc(w)]) = Len(contents[Doc(w)]) + 1
    BY <1>5, StoredIsNext
  <2>3. QED
    BY <1>0, <2>1, <2>2 DEF OnNewest, Doc, Pipeline
<1>6. CASE IndexContent(w)
  <2>1. /\ worker'[w].pc = "finish" /\ worker'[w].doc = worker[w].doc
        /\ worker'[w].content = worker[w].content
        /\ status' = status /\ worker[w].pc = "index"
    BY <1>0, <1>6 DEF IndexContent, At, Goto, TypeOK, Task
  <2>2. Len(contents'[Doc(w)]) = Len(contents[Doc(w)])
    BY <1>6, IndexedIsSame
  <2>3. QED
    BY <1>0, <2>1, <2>2 DEF OnNewest, Doc, Pipeline
<1>7. CASE Fetch(w) \/ PublishTotal(w) \/ Embedded(w)
  <2>1. /\ worker'[w].doc = worker[w].doc /\ worker'[w].content = worker[w].content
        /\ contents' = contents /\ status' = status
        /\ \/ worker[w].pc = "fetch" /\ worker'[w].pc = "version"
           \/ worker[w].pc = "chunk" /\ worker'[w].pc = "embed"
           \/ worker[w].pc = "embed" /\ worker'[w].pc = "index"
    BY <1>0, <1>7 DEF Fetch, PublishTotal, Embedded, At, Goto, TypeOK, Task
  <2>2. QED
    BY <1>0, <2>1 DEF OnNewest, Doc, Pipeline
<1>8. CASE Fail(w)
  <2>1. /\ worker'[w].doc = worker[w].doc /\ worker'[w].pc = "onerror"
        /\ status' = status /\ worker[w].pc \in Pipeline
    BY <1>0, <1>8 DEF Fail, TypeOK, Task
  <2>2. QED
    BY <1>0, <2>1 DEF OnNewest, Doc, Pipeline
<1>9. CASE ReportBatch(w) \/ Duplicate(w)
  <2>1. /\ worker'[w].doc = worker[w].doc /\ worker'[w].pc = worker[w].pc
        /\ worker'[w].content = worker[w].content /\ worker'[w].latest = worker[w].latest
        /\ contents' = contents /\ status' = status
    BY <1>0, <1>9 DEF ReportBatch, Duplicate, TypeOK, Task
  <2>2. QED
    BY <1>0, <2>1 DEF OnNewest, Doc
<1>10. CASE \/ Finish(w) \/ OnError(w) \/ Retry(w) \/ MarkFailed(w) \/ Bury(w) \/ Ack(w)
            \/ Crash(w) \/ LoseOutcome(w)
  <2>1. worker'[w].pc \in {"idle", "ack", "settle", "bury"}
    <3>1. CASE Finish(w) \/ OnError(w) \/ Retry(w) \/ MarkFailed(w) \/ Bury(w)
      BY <1>a, <3>1 DEF Finish, OnError, Retry, MarkFailed, Bury
    <3>2. CASE Ack(w) \/ Crash(w)
      BY <1>0, <3>2, IdleTaskIsTask DEF Ack, Crash, TypeOK
    <3>3. CASE LoseOutcome(w)
      <4>1. CASE worker' = [worker EXCEPT ![w].pc = "settle", ![w].error = "transient"]
        BY <1>0, <4>1 DEF TypeOK
      <4>2. QED
        BY <1>a, <3>3, <4>1 DEF LoseOutcome
    <3>4. QED
      BY <1>10, <3>1, <3>2, <3>3
  <2>2. QED
    BY <2>1 DEF OnNewest, Pipeline
<1>11. QED
  BY <1>1, <1>2, <1>3, <1>4, <1>5, <1>6, <1>7, <1>8, <1>9, <1>10 DEF Step

\* Nobody else takes the newest content, or the status, away from a run.
LEMMA NextRunsOnNewest ==
  ASSUME TypeInv, OneRun, VersionIsPlace, RunsOnNewest, [Next]_vars
  PROVE  RunsOnNewest'
<1> USE DEF row
<1>0. /\ TypeOK /\ BusyHasDocument
      /\ \A v \in Workers : OnNewest(v)
  BY DEF TypeInv, RunsOnNewest
<1>1. SUFFICES ASSUME NEW v \in Workers PROVE OnNewest(v)'
  BY DEF RunsOnNewest
<1>2. ASSUME NEW w \in Workers,
             \/ Receive(w) \/ Step(w) \/ ReportBatch(w)
             \/ Crash(w) \/ Duplicate(w) \/ LoseOutcome(w)
      PROVE  OnNewest(v)'
  <2>1. CASE v = w
    BY <1>2, <2>1, RunKeepsUp
  <2>2. CASE v # w
    <3>1. worker'[v] = worker[v]
      <4>1. CASE Receive(w)
        BY <1>0, <2>2, <4>1 DEF Receive, TypeOK
      <4>2. QED
        BY <1>0, <1>2, <2>2, <4>1, TasksKeepTheirDocument
    <3>2. CASE Doing(v, Doc(v)) /\ Doc(v) \in Documents
      <4>1. ~Doing(w, Doc(v))
        BY <2>2, <3>2 DEF OneRun
      <4>2. contents'[Doc(v)] = contents[Doc(v)] /\ status'[Doc(v)] = status[Doc(v)]
        BY <1>2, <3>2, <4>1, OthersAreUntouched
      <4>3. QED
        BY <1>0, <3>1, <4>2 DEF OnNewest, Doc
    <3>3. CASE ~(Doing(v, Doc(v)) /\ Doc(v) \in Documents)
      <4>1. worker[v].pc \in {"ack", "idle"}
        BY <1>0, <3>3 DEF Doing, At, BusyHasDocument, Doc
      <4>2. QED
        BY <3>1, <4>1 DEF OnNewest, Pipeline
    <3>4. QED
      BY <3>2, <3>3
  <2>3. QED
    BY <2>1, <2>2
<1>3. CASE /\ worker' = worker /\ contents' = contents
           /\ \A d \in Documents : status'[d] = "INDEXED" => status[d] = "INDEXED"
  <2>1. worker[v].pc \in Pipeline \cup {"onerror"} => Doc(v) \in Documents
    BY <1>0 DEF BusyHasDocument, Doc, Pipeline
  <2>2. QED
    BY <1>0, <1>3, <2>1 DEF OnNewest, Doc
<1>4. CASE \/ \E d \in Documents :
                \/ PutObject(d) \/ Register(d) \/ Enqueue(d) \/ ApiCrash(d) \/ SoftDelete(d)
                \/ GoStale(d) \/ Resend(d)
                \/ \E r \in Retries : Restore(d, r)
           \/ Drain \/ UNCHANGED vars
  <2>1. ASSUME NEW d \in Documents, Register(d) PROVE OnNewest(v)'
    BY <1>0, <1>3, <2>1 DEF Register, SetStatus, TypeOK
  <2>2. QED
    BY <1>3, <1>4, <2>1 DEF PutObject, Enqueue, ApiCrash, SoftDelete, GoStale, Resend, Restore,
       Drain, vars
<1>5. QED
  BY <1>2, <1>4 DEF Next

LEMMA NextNewestHasChunks ==
  ASSUME TypeInv, FinishHasChunks, RunsOnNewest, NewestHasChunks, [Next]_vars
  PROVE  NewestHasChunks'
<1>0. TypeOK /\ BusyHasDocument /\ StoredContent
  BY DEF TypeInv
<1>1. SUFFICES ASSUME NEW d \in Documents, status'[d] = "INDEXED"
               PROVE  (Len(contents[d]) > 0 /\ contents[d][Len(contents[d])].chunks)'
  BY DEF NewestHasChunks
<1>2. CASE status[d] = "INDEXED"
  <2>1. ASSUME NEW w \in Workers, StoreContent(w) \/ IndexContent(w) PROVE Doc(w) # d
    BY <1>2, <2>1 DEF RunsOnNewest, OnNewest, Pipeline, StoreContent, IndexContent, At
  <2>2. ASSUME NEW w \in Workers, StoreContent(w) PROVE contents'[d] = contents[d]
    BY <2>1, <2>2, StoredIsNext
  <2>3. ASSUME NEW w \in Workers, IndexContent(w) PROVE contents'[d] = contents[d]
    BY <2>1, <2>3, IndexedIsSame
  <2>4. contents'[d] = contents[d]
    BY ZenonT(60), <2>2, <2>3
       DEF Next, Step, vars, PutObject, Register, Enqueue, ApiCrash, SoftDelete, GoStale,
           Resend, Restore, ReadDocument, Claim, Fetch, ReadLatest, PublishTotal, Embedded,
           Finish, Fail, OnError, Retry, MarkFailed, Bury, Ack, Receive, ReportBatch, Crash,
           Duplicate, LoseOutcome, Drain
  <2>5. QED
    BY <1>2, <2>4 DEF NewestHasChunks
<1>3. CASE status[d] # "INDEXED"
  <2>1. PICK w \in Workers : Finish(w) /\ Doc(w) = d
    BY <1>1, <1>3, WhoSetsIndexed
  <2>2. worker[w].pc = "finish" /\ contents' = contents
    BY <2>1 DEF Finish, At
  <2>3. /\ worker[w].content = Len(contents[d])
        /\ worker[w].content \in 1 .. Len(contents[d])
        /\ contents[d][worker[w].content].chunks
    BY <1>0, <2>1, <2>2 DEF RunsOnNewest, OnNewest, StoredContent, FinishHasChunks, Doc
  <2>4. Len(contents[d]) \in Nat
    BY <1>0, LenProperties DEF TypeOK
  <2>5. QED
    BY <2>2, <2>3, <2>4
<1>4. QED
  BY <1>2, <1>3

NewestInv == VersionIsPlace /\ RunsOnNewest /\ NewestHasChunks

LEMMA NewestInvariant ==
  ASSUME OneWorker \/ SingleDelivery
  PROVE  Spec => [](TypeInv /\ NewestInv)
<1>1. Init => IndexInv /\ NewestInv
  <2>1. ASSUME Init PROVE IndexInv /\ NewestInv
    BY <2>1, IdleTaskIsTask DEF Init, IndexInv, FinishHasChunks, IndexedMeansSearchable, NewestInv,
       VersionIsPlace, RunsOnNewest, OnNewest, NewestHasChunks, Pipeline
  <2>2. QED
    BY <2>1
<1>2. TypeInv /\ IndexInv /\ OneRun /\ NewestInv /\ [Next]_vars => NewestInv'
  BY NextVersionIsPlace, NextRunsOnNewest, NextNewestHasChunks DEF NewestInv, IndexInv
<1>3. TypeInv /\ IndexInv /\ [Next]_vars => IndexInv'
  BY NextIndexInv
<1>4. QED
  BY <1>1, <1>2, <1>3, OneRunInvariant, TypeInvariant, PTL DEF Spec

\* Two runs never store the same version of a document: either there is one worker, whatever
\* the faults, or no worker dies and no message is restored under a living one.
THEOREM VersionsNeverRepeat ==
  ASSUME OneWorker \/ SingleDelivery
  PROVE  Spec => []VersionsAreUnique
<1>1. TypeInv /\ NewestInv => VersionsAreUnique
  <2>1. TypeInv => \A d \in Documents : DOMAIN contents[d] = 1 .. Len(contents[d])
    BY LenProperties DEF TypeInv, TypeOK
  <2>2. QED
    BY <2>1 DEF NewestInv, VersionIsPlace, VersionsAreUnique
<1>2. QED
  BY <1>1, NewestInvariant, PTL

\* When a document is INDEXED its newest content has the chunks, whatever runs failed before:
\* the page and the search show the same text.
THEOREM NewestIsIndexed ==
  ASSUME OneWorker \/ SingleDelivery
  PROVE  Spec => []NewestContentIsIndexed
<1>1. TypeInv /\ NewestInv => NewestContentIsIndexed
  <2>1. ASSUME TypeInv, NewestInv, NEW d \in Documents, status[d] = "INDEXED"
        PROVE  \E i \in DOMAIN contents[d] :
                 contents[d][i].chunks /\ IsLatest(d, contents[d][i].version)
    <3> DEFINE n == Len(contents[d])
    <3>1. n \in Nat /\ DOMAIN contents[d] = 1 .. n
      BY <2>1, LenProperties DEF TypeInv, TypeOK
    <3>2. n \in 1 .. n /\ contents[d][n].chunks
      BY <2>1, <3>1 DEF NewestInv, NewestHasChunks
    <3>3. \A i \in 1 .. n : contents[d][i].version = i
      BY <2>1 DEF NewestInv, VersionIsPlace
    <3>4. IsLatest(d, contents[d][n].version)
      BY <3>1, <3>2, <3>3 DEF IsLatest
    <3>5. QED
      BY <3>1, <3>2, <3>4
  <2>2. QED
    BY <2>1 DEF NewestContentIsIndexed
<1>2. QED
  BY <1>1, NewestInvariant, PTL

\* A document that is INDEXED is not claimed, parsed and embedded again, although a run reads
\* the status in one statement and claims the row in a later one.
THEOREM IndexedIsLeftAlone ==
  ASSUME OneWorker \/ SingleDelivery
  PROVE  Spec => IndexedIsNotReprocessed
<1>1. TypeInv /\ NewestInv /\ [Next]_vars =>
        [\A d \in Documents : status[d] = "INDEXED" => status'[d] # "PROCESSING"]_vars
  <2>1. ASSUME TypeInv, NewestInv, [Next]_vars, NEW d \in Documents, status[d] = "INDEXED"
        PROVE  status'[d] # "PROCESSING"
    <3>0. status \in [Documents -> Status]
      BY <2>1 DEF TypeInv, TypeOK
    <3>1. ASSUME NEW w \in Workers, Claim(w) PROVE status'[d] # "PROCESSING"
      <4>1. Doc(w) # d
        BY <2>1, <3>1 DEF NewestInv, RunsOnNewest, OnNewest, Claim, At, Pipeline
      <4>2. QED
        BY <2>1, <3>0, <3>1, <4>1 DEF Claim, SetStatus
    <3>2. ASSUME NEW w \in Workers, Finish(w) \/ OnError(w) \/ MarkFailed(w)
          PROVE  status'[d] # "PROCESSING"
      BY <2>1, <3>0, <3>2 DEF Finish, OnError, MarkFailed, SetStatus
    <3>3. ASSUME NEW e \in Documents, Register(e) PROVE status'[d] # "PROCESSING"
      BY <2>1, <3>0, <3>3 DEF Register, SetStatus
    <3>4. CASE status' = status
      BY <2>1, <3>4
    <3>5. QED
      BY ZenonT(60), <2>1, <3>1, <3>2, <3>3, <3>4
         DEF Next, Step, vars, row, PutObject, Enqueue, ApiCrash, SoftDelete, GoStale, Resend,
             Restore, ReadDocument, Fetch, ReadLatest, StoreContent, PublishTotal, Embedded,
             IndexContent, Fail, Retry, Bury, Ack, Receive, ReportBatch, Crash, Duplicate,
             LoseOutcome, Drain
  <2>2. QED
    BY <2>1
<1>2. QED
  BY <1>1, NewestInvariant, PTL DEF Spec, IndexedIsNotReprocessed

=============================================================================
