----------------------------- MODULE ItemSources -----------------------------
(***************************************************************************)
(* The citations of a generated item: the passages that were put before    *)
(* the model, copied beside the text it wrote.  A redelivered              *)
(* generation.run_item may overlap the delivery that is still at work, and *)
(* documents are indexed again and removed meanwhile.                      *)
(*                                                                         *)
(* A teacher who edits the text changes nothing of this: the sources stay  *)
(* those of what was edited.  The statuses of the run are PlanGeneration's.*)
(***************************************************************************)
EXTENDS Naturals, Sequences, FiniteSets, SequencesExt

CONSTANTS
  Deliveries,   \* deliveries of run_item for the item
  Documents,    \* the teacher's documents, indexed when the run begins
  Linked,       \* those the plan selected
  MaxTries,     \* _MAX_RETRIES + 1
  MaxEditions   \* bound: times a document is indexed

ConstantsAssumption ==
  /\ IsFiniteSet(Deliveries) /\ Deliveries # {}
  /\ IsFiniteSet(Documents)
  /\ Linked \subseteq Documents
  /\ MaxTries \in Nat \ {0}
  /\ MaxEditions \in Nat \ {0}

VARIABLES
  edition,    \* how often each document was indexed: its chunks are of the last time
  removed,    \* documents that are deleted softly
  status,     \* academic_items.generation_status
  text,       \* academic_items.content, as the passages it was written from
  sources,    \* rows of academic_item_source
  attempt,    \* what each delivery does
  prompts,    \* history: what was put before the model, when it was anything
  overlapped  \* history: two deliveries replaced the sources at the same time

library == << edition, removed >>
vars    == << library, status, text, sources, attempt, prompts, overlapped >>

Passage == [document : Documents, edition : 1 .. MaxEditions]

Context == Seq(Passage)

\* A row is known by the delivery that wrote it, which writes once.
Source == [rank : Nat, passage : Passage, by : Deliveries]

Phases == {"queued", "taken", "retrieved", "answered", "deleting", "deleted", "booked",
           "done"}

TypeOK ==
  /\ edition \in [Documents -> 1 .. MaxEditions]
  /\ removed \subseteq Documents
  /\ status \in {"PENDING", "PROCESSING", "COMPLETED", "FAILED"}
  /\ text \in Context
  /\ sources \subseteq Source
  /\ attempt \in [Deliveries -> [pc : Phases, tries : 0 .. MaxTries, context : Context,
                                 seen : SUBSET Source, held : SUBSET Source]]
  /\ prompts \subseteq Context
  /\ overlapped \in BOOLEAN

Fresh(pc, tries) ==
  [pc |-> pc, tries |-> tries, context |-> <<>>, seen |-> {}, held |-> {}]

Init ==
  /\ edition = [d \in Documents |-> 1]
  /\ removed = {}
  /\ status = "PENDING"
  /\ text = <<>>
  /\ sources = {}
  /\ attempt = [w \in Deliveries |-> Fresh("queued", 0)]
  /\ prompts = {}
  /\ overlapped = FALSE

-----------------------------------------------------------------------------
(* generation.run_item.                                                    *)

At(w, pc) == attempt[w].pc = pc
Goto(w, pc) == attempt' = [attempt EXCEPT ![w].pc = pc]

\* A delivery, sent by the run, again by the broker, or by the script: the head of
\* process_item, whatever the item's status was.
Take(w) ==
  /\ At(w, "queued")
  /\ status' = "PROCESSING"
  /\ Goto(w, "taken")
  /\ UNCHANGED << library, text, sources, prompts, overlapped >>

\* The documents the plan selected, or all of the teacher's if it has none left.
Scope ==
  LET live == Documents \ removed IN
  IF Linked \ removed = {} THEN live ELSE Linked \ removed

\* _retrieve_context, best-effort: a search that fails is a search that found nothing.
Retrieve(w) ==
  /\ At(w, "taken")
  /\ \E context \in {<<>>} \cup
         SetToSeqs({[document |-> d, edition |-> edition[d]] : d \in Scope}) :
       attempt' = [attempt EXCEPT ![w].pc = "retrieved", ![w].context = context]
  /\ UNCHANGED << library, status, text, sources, prompts, overlapped >>

\* An attempt that raised: all of its transaction is undone.  The last one writes FAILED.
Failed(w) ==
  LET tries == attempt[w].tries + 1 IN
  /\ attempt' = [attempt EXCEPT ![w] =
                   Fresh(IF tries < MaxTries THEN "queued" ELSE "done", tries)]
  /\ status' = IF tries < MaxTries THEN status ELSE "FAILED"
  /\ UNCHANGED << text, sources >>

\* The model is called with the passages, numbered.
Generate(w) ==
  /\ At(w, "retrieved")
  /\ prompts' = prompts \cup ({attempt[w].context} \ {<<>>})
  /\ \/ Goto(w, "answered") /\ UNCHANGED << status, text, sources >>
     \/ Failed(w)
  /\ UNCHANGED << library, overlapped >>

Replacing == {"deleting", "deleted", "booked"}

\* The DELETE of replace begins: it is about the rows that are committed now.
BeginDelete(w) ==
  /\ At(w, "answered")
  /\ attempt' = [attempt EXCEPT ![w].pc = "deleting", ![w].seen = sources]
  /\ overlapped' = (overlapped \/ \E v \in Deliveries : attempt[v].pc \in Replacing)
  /\ UNCHANGED << library, status, text, sources, prompts >>

\* It waits for whoever is deleting one of them, and leaves out what is gone by then.
EndDelete(w) ==
  /\ At(w, "deleting")
  /\ \A v \in Deliveries \ {w} : attempt[v].held \cap attempt[w].seen = {}
  /\ attempt' = [attempt EXCEPT ![w].pc = "deleted",
                                ![w].held = attempt[w].seen \cap sources]
  /\ UNCHANGED << library, status, text, sources, prompts, overlapped >>

\* add_usage: the row of the run is locked until the transaction ends.
BookUsage(w) ==
  /\ At(w, "deleted")
  /\ \A v \in Deliveries : ~At(v, "booked")
  /\ Goto(w, "booked")
  /\ UNCHANGED << library, status, text, sources, prompts, overlapped >>

\* The rows replace adds, ranked as the prompt numbered them.
Cites(w, context) ==
  {[rank |-> k, passage |-> context[k], by |-> w] : k \in DOMAIN context}

Ranks(rows) == {s.rank : s \in rows}

\* The commit sends the text and the new rows; (item, rank) is unique.
Commit(w) ==
  LET kept == sources \ attempt[w].held
      new  == Cites(w, attempt[w].context) IN
  /\ At(w, "booked")
  /\ IF Ranks(kept) \cap Ranks(new) = {}
     THEN /\ text' = attempt[w].context
          /\ sources' = kept \cup new
          /\ status' = "COMPLETED"
          /\ attempt' = [attempt EXCEPT ![w] = Fresh("done", attempt[w].tries)]
     ELSE Failed(w)
  /\ UNCHANGED << library, prompts, overlapped >>

\* The worker dies: its transaction is rolled back and the task delivered again.
Crash(w) ==
  /\ attempt[w].pc \notin {"queued", "done"}
  /\ attempt' = [attempt EXCEPT ![w] = Fresh("queued", attempt[w].tries)]
  /\ UNCHANGED << library, status, text, sources, prompts, overlapped >>

-----------------------------------------------------------------------------
(* The documents.                                                          *)

\* Re-ingestion replaces every chunk of the document.
Reindex(d) ==
  /\ edition[d] < MaxEditions
  /\ edition' = [edition EXCEPT ![d] = @ + 1]
  /\ UNCHANGED << removed, status, text, sources, attempt, prompts, overlapped >>

RemoveDocument(d) ==
  /\ removed' = removed \cup {d}
  /\ UNCHANGED << edition, status, text, sources, attempt, prompts, overlapped >>

Next ==
  \/ \E w \in Deliveries :
       \/ Take(w) \/ Retrieve(w) \/ Generate(w) \/ BeginDelete(w) \/ EndDelete(w)
       \/ BookUsage(w) \/ Commit(w) \/ Crash(w)
  \/ \E d \in Documents : Reindex(d) \/ RemoveDocument(d)

Spec == Init /\ [][Next]_vars

-----------------------------------------------------------------------------
(* Properties.                                                             *)

\* "[2] in the generated text points at the second source" (models.py): the sources are
\* those of one prompt, as it was then, numbered as there, and none is missing.
SourcesAreOnePrompt ==
  sources # {} => \E w \in Deliveries, p \in prompts : sources = Cites(w, p)

\* "Leaving the old rows would attribute the new text to passages that had nothing to do
\* with it" (replace): they are those of the text.  One case is left: of two deliveries
\* that replaced them at the same time, the last one had found nothing to quote.
SourcesAreOfTheText ==
  \/ \E w \in Deliveries : sources = Cites(w, text)
  \/ text = <<>> /\ overlapped

CitationsHold == SourcesAreOnePrompt /\ SourcesAreOfTheText
=============================================================================
