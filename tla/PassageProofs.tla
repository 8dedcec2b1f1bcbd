---------------------------- MODULE PassageProofs ----------------------------
(***************************************************************************)
(* Of the passages a text is written from: that an item cites them, for    *)
(* any number of deliveries, documents and tries; that a search gives      *)
(* those which are found by both their words and their meaning first, for  *)
(* any chunks and contents; that each has its own vector, for any texts    *)
(* and batches; and that no character of a document is left out of them,   *)
(* for documents of any lines and any limits.                              *)
(***************************************************************************)
EXTENDS ItemSources, FunctionTheorems, FiniteSetTheorems, SequenceTheorems,
        WellFoundedInduction, TLAPS

CONSTANTS
  Chunks, Contents, Mine, ContentOf, Pool, RrfK, Limit,               \* of HybridSearch
  Texts, MaxLength, Jobs, BatchSize, MaxAttempts, MaxExpired,         \* of EmbeddingCache
  MaxChars, Overlap, Levels, Lengths, TitleLength, MaxLines           \* of Chunker

VARIABLES
  trashed, stored, query, answer, readable,  \* of HybridSearch
  cached, job, expired,                      \* of EmbeddingCache
  lines, stack, body, chunks                 \* of Chunker

Search == INSTANCE HybridSearch

Embedding == INSTANCE EmbeddingCache

Chunking == INSTANCE Chunker

Attempt ==
  [pc : Phases, tries : 0 .. MaxTries, context : Context,
   seen : SUBSET Source, held : SUBSET Source]

-----------------------------------------------------------------------------
(* Types.                                                                  *)

LEMMA FreshType ==
  ASSUME ConstantsAssumption, NEW pc \in Phases, NEW tries \in 0 .. MaxTries
  PROVE  /\ Fresh(pc, tries) \in Attempt
         /\ Fresh(pc, tries).pc = pc
         /\ Fresh(pc, tries).context = <<>>
         /\ Fresh(pc, tries).seen = {} /\ Fresh(pc, tries).held = {}
  BY DEF Fresh, Attempt, Context

\* A context that is retrieved is a sequence of passages.
LEMMA RetrievedType ==
  ASSUME ConstantsAssumption, TypeOK,
         NEW context \in {<<>>} \cup
           SetToSeqs({[document |-> d, edition |-> edition[d]] : d \in Scope})
  PROVE  context \in Context
<1> DEFINE Found == {[document |-> d, edition |-> edition[d]] : d \in Scope}
<1>1. CASE context = <<>>
  BY <1>1 DEF Context
<1>2. CASE context \in SetToSeqs(Found)
  <2>1. Scope \subseteq Documents
    BY DEF Scope, ConstantsAssumption
  <2>2. IsFiniteSet(Scope)
    BY <2>1, FS_Subset DEF ConstantsAssumption
  <2>3. IsFiniteSet(Found)
    <3> DEFINE f == [d \in Scope |-> [document |-> d, edition |-> edition[d]]]
    <3>1. f \in Surjection(Scope, Found)
      BY DEF Surjection
    <3> HIDE DEF Found, f
    <3> QED
      BY <2>2, <3>1, FS_Surjection
  <2>4. Cardinality(Found) \in Nat
    BY <2>3, FS_CardinalityType
  <2>5. Found \subseteq Passage
    BY <2>1 DEF TypeOK, Passage
  <2>6. context \in [1 .. Cardinality(Found) -> Found]
    BY <1>2 DEF SetToSeqs
  <2>7. context \in [1 .. Cardinality(Found) -> Passage]
    BY <2>5, <2>6
  <2>8. context \in Seq(Passage)
    <3> HIDE DEF Found
    <3> DEFINE n == Cardinality(Found)
    <3>1. n \in Nat /\ context \in [1 .. n -> Passage]
      BY <2>4, <2>7
    <3> HIDE DEF n
    <3> QED
      BY <3>1, SeqDef
  <2> QED
    BY <2>8 DEF Context
<1> QED
  BY <1>1, <1>2

LEMMA CitesType ==
  ASSUME NEW w \in Deliveries, NEW context \in Context
  PROVE  /\ Cites(w, context) \subseteq Source
         /\ \A s \in Cites(w, context) : s.by = w
         /\ context = <<>> => Cites(w, context) = {}
         /\ context # <<>> => \E s \in Cites(w, context) : s.rank = 1
<1>1. \A k \in DOMAIN context : k \in Nat /\ context[k] \in Passage
  BY DEF Context
<1>2. Cites(w, context) \subseteq Source
  BY <1>1 DEF Cites, Source
<1>3. \A s \in Cites(w, context) : s.by = w
  BY DEF Cites
<1>4. context = <<>> => Cites(w, context) = {}
  BY DEF Cites
<1>5. ASSUME context # <<>>
      PROVE  \E s \in Cites(w, context) : s.rank = 1
  <2>1. 1 \in DOMAIN context
    BY <1>5 DEF Context
  <2>2. [rank |-> 1, passage |-> context[1], by |-> w] \in Cites(w, context)
    BY <2>1 DEF Cites
  <2> QED
    BY <2>2
<1> QED
  BY <1>2, <1>3, <1>4, <1>5

LEMMA InitType ==
  ASSUME ConstantsAssumption, Init
  PROVE  TypeOK
<1>1. edition \in [Documents -> 1 .. MaxEditions]
  BY DEF Init, ConstantsAssumption
<1>2. 0 \in 0 .. MaxTries /\ "queued" \in Phases
  BY DEF ConstantsAssumption, Phases
<1>3. attempt \in [Deliveries -> Attempt]
  BY <1>2, FreshType DEF Init
<1>4. text \in Context /\ prompts \subseteq Context
  BY DEF Init, Context
<1>5. removed \subseteq Documents /\ sources \subseteq Source
  BY DEF Init
<1>6. overlapped \in BOOLEAN /\ status \in {"PENDING", "PROCESSING", "COMPLETED", "FAILED"}
  BY DEF Init
<1> QED
  BY <1>1, <1>3, <1>4, <1>5, <1>6 DEF TypeOK, Attempt

-----------------------------------------------------------------------------
(* The invariant.                                                          *)

\* What a delivery has seen, and what it has deleted, at a state of its own.
Seen(w) == attempt[w].seen
Held(w) == attempt[w].held

\* The rows are those of one prompt, and whoever wrote them is done.
Whole ==
  sources # {} => \E v \in Deliveries, p \in prompts : sources = Cites(v, p) /\ p # <<>>

WrittenByDone(rows) == \A s \in rows : attempt[s.by].pc = "done"

\* A delivery has seen all that is there or nothing of it, and deletes all or nothing.
AllOrNothing(w) ==
  /\ Seen(w) = {} \/ Seen(w) = sources \/ Seen(w) \cap sources = {}
  /\ Held(w) = {} \/ Held(w) = sources

\* What it sees and holds is of the phase it is in.
Phased(w) ==
  /\ attempt[w].pc \notin Replacing => Seen(w) = {}
  /\ attempt[w].pc \notin {"deleted", "booked"} => Held(w) = {}
  /\ attempt[w].pc # "done" => attempt[w].tries < MaxTries
  /\ attempt[w].pc \in {"answered"} \cup Replacing =>
       attempt[w].context = <<>> \/ attempt[w].context \in prompts

\* It misses rows only when another one replaced them at the same time.
Misses(w) ==
  /\ attempt[w].pc \in Replacing /\ Seen(w) # sources => overlapped
  /\ attempt[w].pc \in {"deleted", "booked"} /\ Held(w) # sources => overlapped

Apart(v, w) ==
  /\ Held(v) = {} \/ Held(w) = {}
  /\ attempt[v].pc \in Replacing /\ attempt[w].pc \in Replacing => overlapped

Rows ==
  /\ Whole
  /\ SourcesAreOfTheText
  /\ WrittenByDone(sources)

Replacements ==
  \A w \in Deliveries :
    /\ WrittenByDone(Seen(w))
    /\ AllOrNothing(w)
    /\ Phased(w)
    /\ Misses(w)
    /\ \A v \in Deliveries \ {w} : Apart(v, w)

IInv == TypeOK /\ Rows /\ Replacements

LEMMA InitInv ==
  ASSUME ConstantsAssumption, Init
  PROVE  IInv
<1>1. TypeOK
  BY InitType
<1>2. \A w \in Deliveries : /\ attempt[w] = Fresh("queued", 0)
                            /\ Seen(w) = {} /\ Held(w) = {}
                            /\ attempt[w].pc = "queued" /\ attempt[w].tries = 0
  BY DEF Init, Seen, Held, Fresh
<1>3. Rows
  BY <1>2 DEF Init, Rows, Whole, SourcesAreOfTheText, WrittenByDone, Cites, ConstantsAssumption
<1>4. Replacements
  BY <1>2
     DEF Init, Replacements, WrittenByDone, AllOrNothing, Phased, Misses, Apart,
         Replacing, ConstantsAssumption
<1> QED
  BY <1>1, <1>3, <1>4 DEF IInv

-----------------------------------------------------------------------------
(* The steps.                                                              *)

\* A delivery that goes on without touching the rows, or starts again.
LEMMA IdleStep ==
  ASSUME IInv, NEW w \in Deliveries, NEW a \in Attempt,
         attempt' = [attempt EXCEPT ![w] = a],
         attempt[w].pc # "done", a.pc \notin Replacing,
         a.seen = {}, a.held = {},
         a.pc # "done" => a.tries < MaxTries,
         a.pc = "answered" => a.context = <<>> \/ a.context \in prompts',
         prompts \subseteq prompts', prompts' \subseteq Context,
         UNCHANGED << library, text, sources, overlapped >>,
         status' \in {"PENDING", "PROCESSING", "COMPLETED", "FAILED"}
  PROVE  IInv'
<1>1. TypeOK'
  BY DEF IInv, TypeOK, Attempt, library
<1>2. /\ attempt'[w] = a
      /\ \A v \in Deliveries \ {w} : attempt'[v] = attempt[v]
  BY DEF IInv, TypeOK
<1>3. \A s \in Source : attempt[s.by].pc = "done" => attempt'[s.by].pc = "done"
  BY <1>2 DEF Source
<1>4. Rows'
  <2>1. Whole'
    BY DEF IInv, Rows, Whole, Cites
  <2>2. SourcesAreOfTheText'
    BY DEF IInv, Rows, SourcesAreOfTheText, Cites
  <2>3. WrittenByDone(sources)'
    BY <1>3 DEF IInv, Rows, WrittenByDone, TypeOK
  <2> QED
    BY <2>1, <2>2, <2>3 DEF Rows
<1>5. Replacements'
  <2> SUFFICES ASSUME NEW v \in Deliveries
               PROVE  /\ WrittenByDone(Seen(v))'
                      /\ AllOrNothing(v)'
                      /\ Phased(v)'
                      /\ Misses(v)'
                      /\ \A u \in Deliveries \ {v} : Apart(u, v)'
    BY DEF Replacements
  <2>1. CASE v = w
    BY <1>2, <2>1 DEF IInv, Replacements, WrittenByDone, Seen, Held, AllOrNothing, Phased,
                      Misses, Apart, Replacing
  <2>2. CASE v # w
    <3>1. WrittenByDone(Seen(v))'
      BY <1>2, <1>3, <2>2 DEF IInv, Replacements, WrittenByDone, Seen, TypeOK
    <3>2. AllOrNothing(v)' /\ Phased(v)' /\ Misses(v)'
      BY <1>2, <2>2 DEF IInv, Replacements, Seen, Held, AllOrNothing, Phased, Misses
    <3>3. \A u \in Deliveries \ {v} : Apart(u, v)'
      BY <1>2, <2>2 DEF IInv, Replacements, Seen, Held, Apart
    <3> QED
      BY <3>1, <3>2, <3>3
  <2> QED
    BY <2>1, <2>2
<1> QED
  BY <1>1, <1>4, <1>5 DEF IInv

\* An attempt that raised is idle.
LEMMA FailedStep ==
  ASSUME ConstantsAssumption, IInv, NEW w \in Deliveries, attempt[w].pc # "done", Failed(w),
         prompts \subseteq prompts', prompts' \subseteq Context,
         UNCHANGED << library, overlapped >>
  PROVE  IInv'
<1> DEFINE tries == attempt[w].tries + 1
           pc    == IF tries < MaxTries THEN "queued" ELSE "done"
<1>1. tries \in 0 .. MaxTries
  BY DEF IInv, TypeOK, Replacements, Phased, ConstantsAssumption
<1>2. /\ Fresh(pc, tries) \in Attempt
      /\ Fresh(pc, tries).pc = pc /\ Fresh(pc, tries).tries = tries
      /\ Fresh(pc, tries).seen = {} /\ Fresh(pc, tries).held = {}
  BY <1>1, FreshType DEF Phases, Fresh
<1>3. /\ attempt' = [attempt EXCEPT ![w] = Fresh(pc, tries)]
      /\ status' \in {"PENDING", "PROCESSING", "COMPLETED", "FAILED"}
      /\ UNCHANGED << text, sources >>
  BY DEF Failed, IInv, TypeOK
<1>4. pc \notin Replacing /\ pc # "answered" /\ (pc # "done" => tries < MaxTries)
  BY DEF Replacing
<1> HIDE DEF pc, tries
<1> QED
  BY <1>2, <1>3, <1>4, IdleStep

\* The replacement begins.
LEMMA BeginDeleteStep ==
  ASSUME IInv, NEW w \in Deliveries, BeginDelete(w)
  PROVE  IInv'
<1> DEFINE a == [attempt[w] EXCEPT !.pc = "deleting", !.seen = sources]
<1>1. /\ attempt' = [attempt EXCEPT ![w] = a] /\ a \in Attempt
      /\ a.pc = "deleting" /\ a.seen = sources /\ a.held = attempt[w].held
      /\ a.context = attempt[w].context /\ a.tries = attempt[w].tries
  BY DEF BeginDelete, IInv, TypeOK, Attempt, Phases
<1> HIDE DEF a
<1>2. /\ attempt'[w] = a
      /\ \A v \in Deliveries \ {w} : attempt'[v] = attempt[v]
  BY <1>1 DEF IInv, TypeOK
<1>3. /\ attempt[w].pc = "answered" /\ Held(w) = {}
      /\ UNCHANGED << library, status, text, sources, prompts >>
      /\ overlapped => overlapped'
      /\ overlapped' \in BOOLEAN
  BY DEF BeginDelete, At, IInv, Replacements, Phased, Held, TypeOK
<1>4. TypeOK'
  BY <1>1, <1>3 DEF IInv, TypeOK, Attempt, library
<1>5. \A s \in Source : attempt[s.by].pc = "done" => attempt'[s.by].pc = "done"
  BY <1>2, <1>3 DEF Source
<1>6. Rows'
  BY <1>3, <1>5 DEF IInv, TypeOK, Rows, Whole, SourcesAreOfTheText, WrittenByDone, Cites
<1>7. Replacements'
  <2> SUFFICES ASSUME NEW v \in Deliveries
               PROVE  /\ WrittenByDone(Seen(v))'
                      /\ AllOrNothing(v)'
                      /\ Phased(v)'
                      /\ Misses(v)'
                      /\ \A u \in Deliveries \ {v} : Apart(u, v)'
    BY DEF Replacements
  <2>1. CASE v = w
    <3>1. /\ Seen(v)' = sources /\ Held(v)' = {} /\ attempt'[v].pc = "deleting"
          /\ attempt'[v].context = attempt[v].context
          /\ attempt'[v].tries = attempt[v].tries
      BY <1>1, <1>2, <1>3, <2>1 DEF Seen, Held
    <3>2. WrittenByDone(Seen(v))'
      BY <3>1, <1>5 DEF IInv, TypeOK, Rows, WrittenByDone
    <3>3. AllOrNothing(v)' /\ Misses(v)'
      BY <3>1, <1>3 DEF AllOrNothing, Misses
    <3>4. Phased(v)'
      BY <3>1, <1>3, <2>1 DEF IInv, Replacements, Phased, Replacing
    <3>5. \A u \in Deliveries \ {v} : Apart(u, v)'
      BY <3>1, <1>2, <2>1 DEF Apart, BeginDelete
    <3> QED
      BY <3>2, <3>3, <3>4, <3>5
  <2>2. CASE v # w
    <3>1. WrittenByDone(Seen(v))'
      BY <1>2, <1>5, <2>2 DEF IInv, Replacements, WrittenByDone, Seen, TypeOK
    <3>2. AllOrNothing(v)' /\ Phased(v)' /\ Misses(v)'
      BY <1>2, <1>3, <2>2 DEF IInv, Replacements, Seen, Held, AllOrNothing, Phased, Misses
    <3>3. ASSUME NEW u \in Deliveries \ {v}
          PROVE  Apart(u, v)'
      <4>1. CASE u = w
        BY <1>1, <1>2, <1>3, <2>2, <4>1 DEF Apart, BeginDelete, Held
      <4>2. CASE u # w
        BY <1>2, <1>3, <2>2, <4>2 DEF IInv, Replacements, Held, Apart
      <4> QED
        BY <4>1, <4>2
    <3> QED
      BY <3>1, <3>2, <3>3
  <2> QED
    BY <2>1, <2>2
<1> QED
  BY <1>4, <1>6, <1>7 DEF IInv

\* It has waited for whoever was deleting the same rows: all are left, or none.
LEMMA EndDeleteStep ==
  ASSUME IInv, NEW w \in Deliveries, EndDelete(w)
  PROVE  IInv'
<1> DEFINE a == [attempt[w] EXCEPT !.pc = "deleted", !.held = attempt[w].seen \cap sources]
<1>1. /\ attempt' = [attempt EXCEPT ![w] = a] /\ a \in Attempt
      /\ a.pc = "deleted" /\ a.seen = attempt[w].seen /\ a.held = Seen(w) \cap sources
      /\ a.context = attempt[w].context /\ a.tries = attempt[w].tries
  BY DEF EndDelete, IInv, TypeOK, Attempt, Phases, Seen
<1> HIDE DEF a
<1>2. /\ attempt'[w] = a
      /\ \A v \in Deliveries \ {w} : attempt'[v] = attempt[v]
  BY <1>1 DEF IInv, TypeOK
<1>3. /\ attempt[w].pc = "deleting" /\ Held(w) = {}
      /\ UNCHANGED << library, status, text, sources, prompts, overlapped >>
  BY DEF EndDelete, At, IInv, Replacements, Phased, Held
<1>4. TypeOK'
  BY <1>1, <1>3 DEF IInv, TypeOK, Attempt, library
<1>5. \A s \in Source : attempt[s.by].pc = "done" => attempt'[s.by].pc = "done"
  BY <1>2, <1>3 DEF Source
<1>6. Rows'
  BY <1>3, <1>5 DEF IInv, TypeOK, Rows, Whole, SourcesAreOfTheText, WrittenByDone, Cites
<1>7. Seen(w) \cap sources \in {{}, sources}
  BY DEF IInv, Replacements, AllOrNothing
<1>8. ASSUME NEW v \in Deliveries \ {w}, Seen(w) \cap sources # {}
      PROVE  Held(v) = {}
  <2>1. Seen(w) = sources /\ sources # {}
    BY <1>8 DEF IInv, Replacements, AllOrNothing
  <2>2. Held(v) \cap Seen(w) = {}
    BY DEF EndDelete, Held, Seen
  <2>3. Held(v) = {} \/ Held(v) = sources
    BY DEF IInv, Replacements, AllOrNothing
  <2> QED
    BY <2>1, <2>2, <2>3
<1>9. Replacements'
  <2> SUFFICES ASSUME NEW v \in Deliveries
               PROVE  /\ WrittenByDone(Seen(v))'
                      /\ AllOrNothing(v)'
                      /\ Phased(v)'
                      /\ Misses(v)'
                      /\ \A u \in Deliveries \ {v} : Apart(u, v)'
    BY DEF Replacements
  <2>1. WrittenByDone(Seen(v))'
    BY <1>1, <1>2, <1>5 DEF IInv, Replacements, WrittenByDone, Seen, TypeOK
  <2>2. CASE v = w
    <3>1. /\ Seen(v)' = Seen(v) /\ Held(v)' = Seen(v) \cap sources
          /\ attempt'[v].pc = "deleted"
          /\ attempt'[v].context = attempt[v].context
          /\ attempt'[v].tries = attempt[v].tries
      BY <1>1, <1>2, <2>2 DEF Seen, Held
    <3>2. AllOrNothing(v)'
      BY <3>1, <1>3, <1>7, <2>2 DEF IInv, Replacements, AllOrNothing
    <3>3. Misses(v)'
      <4>1. Seen(v) # sources => overlapped
        BY <1>3, <2>2 DEF IInv, Replacements, Misses, Replacing
      <4> QED
        BY <3>1, <4>1, <1>3 DEF Misses
    <3>4. Phased(v)'
      BY <3>1, <1>3, <2>2 DEF IInv, Replacements, Phased, Replacing
    <3>5. \A u \in Deliveries \ {v} : Apart(u, v)'
      BY <3>1, <1>2, <1>3, <1>8, <2>2 DEF IInv, Replacements, Apart, Held, Replacing
    <3> QED
      BY <2>1, <3>2, <3>3, <3>4, <3>5
  <2>3. CASE v # w
    <3>1. AllOrNothing(v)' /\ Phased(v)' /\ Misses(v)'
      BY <1>2, <1>3, <2>3 DEF IInv, Replacements, Seen, Held, AllOrNothing, Phased, Misses
    <3>2. ASSUME NEW u \in Deliveries \ {v}
          PROVE  Apart(u, v)'
      <4>1. CASE u = w
        <5>1. Held(u)' = Seen(w) \cap sources /\ Held(v)' = Held(v)
          BY <1>1, <1>2, <2>3, <4>1 DEF Held
        <5>2. Held(u)' = {} \/ Held(v)' = {}
          BY <5>1, <1>8, <2>3
        <5>3. attempt[v].pc \in Replacing => overlapped
          BY <1>3, <2>3, <4>1 DEF IInv, Replacements, Apart, Replacing
        <5> QED
          BY <5>2, <5>3, <1>2, <1>3, <2>3 DEF Apart
      <4>2. CASE u # w
        BY <1>2, <1>3, <2>3, <4>2 DEF IInv, Replacements, Held, Apart
      <4> QED
        BY <4>1, <4>2
    <3> QED
      BY <2>1, <3>1, <3>2
  <2> QED
    BY <2>2, <2>3
<1> QED
  BY <1>4, <1>6, <1>9 DEF IInv

LEMMA BookUsageStep ==
  ASSUME IInv, NEW w \in Deliveries, BookUsage(w)
  PROVE  IInv'
<1> DEFINE a == [attempt[w] EXCEPT !.pc = "booked"]
<1>1. /\ attempt' = [attempt EXCEPT ![w] = a] /\ a \in Attempt
      /\ a.pc = "booked" /\ a.seen = attempt[w].seen /\ a.held = attempt[w].held
      /\ a.context = attempt[w].context /\ a.tries = attempt[w].tries
  BY DEF BookUsage, Goto, IInv, TypeOK, Attempt, Phases
<1> HIDE DEF a
<1>2. /\ attempt[w].pc = "deleted"
      /\ UNCHANGED << library, status, text, sources, prompts, overlapped >>
  BY DEF BookUsage, At
<1>3. \A v \in Deliveries :
        /\ Seen(v)' = Seen(v) /\ Held(v)' = Held(v)
        /\ attempt'[v].context = attempt[v].context
        /\ attempt'[v].tries = attempt[v].tries
        /\ attempt'[v].pc = IF v = w THEN "booked" ELSE attempt[v].pc
  BY <1>1 DEF IInv, TypeOK, Seen, Held
<1>4. TypeOK'
  BY <1>1, <1>2 DEF IInv, TypeOK, Attempt, library
<1>5. \A s \in Source : attempt[s.by].pc = "done" => attempt'[s.by].pc = "done"
  BY <1>2, <1>3 DEF Source
<1>6. Rows'
  BY <1>2, <1>5 DEF IInv, TypeOK, Rows, Whole, SourcesAreOfTheText, WrittenByDone, Cites
<1>7. Replacements'
  <2> SUFFICES ASSUME NEW v \in Deliveries
               PROVE  /\ WrittenByDone(Seen(v))'
                      /\ AllOrNothing(v)'
                      /\ Phased(v)'
                      /\ Misses(v)'
                      /\ \A u \in Deliveries \ {v} : Apart(u, v)'
    BY DEF Replacements
  <2>1. WrittenByDone(Seen(v))'
    BY <1>3, <1>5 DEF IInv, Replacements, WrittenByDone, Seen, TypeOK
  <2>2. AllOrNothing(v)'
    BY <1>2, <1>3 DEF IInv, Replacements, AllOrNothing
  <2>3. Phased(v)'
    BY <1>2, <1>3 DEF IInv, Replacements, Phased, Replacing
  <2>4. Misses(v)'
    BY <1>2, <1>3 DEF IInv, Replacements, Misses, Replacing
  <2>5. \A u \in Deliveries \ {v} : Apart(u, v)'
    BY <1>2, <1>3 DEF IInv, Replacements, Apart, Replacing
  <2> QED
    BY <2>1, <2>2, <2>3, <2>4, <2>5
<1> QED
  BY <1>4, <1>6, <1>7 DEF IInv

\* What a commit leaves: the old rows below a text that quotes nothing, or the new ones.
LEMMA CommitReplacesAll ==
  ASSUME IInv, NEW w \in Deliveries, attempt[w].pc = "booked",
         Ranks(sources \ Held(w)) \cap Ranks(Cites(w, attempt[w].context)) = {}
  PROVE  LET kept == sources \ Held(w)
             new  == Cites(w, attempt[w].context) IN
         \/ /\ kept \cup new = sources /\ sources # {}
            /\ attempt[w].context = <<>> /\ overlapped
         \/ /\ kept \cup new = new
            /\ sources = Held(w)
<1> DEFINE kept == sources \ Held(w)
           new  == Cites(w, attempt[w].context)
<1>1. CASE kept = {}
  <2>1. sources = Held(w)
    BY <1>1 DEF IInv, Replacements, AllOrNothing
  <2> QED
    BY <1>1, <2>1
<1>2. CASE kept # {}
  <2>1. Held(w) = {} /\ kept = sources /\ sources # {}
    BY <1>2 DEF IInv, Replacements, AllOrNothing
  <2>2. overlapped
    BY <2>1 DEF IInv, Replacements, Misses
  <2>3. \E s \in sources : s.rank = 1
    <3>1. PICK v \in Deliveries, p \in prompts : sources = Cites(v, p) /\ p # <<>>
      BY <2>1 DEF IInv, Rows, Whole
    <3>2. p \in Context
      BY DEF IInv, TypeOK
    <3> QED
      BY <3>1, <3>2, CitesType
  <2>4. attempt[w].context = <<>> /\ new = {}
    <3>1. attempt[w].context \in Context
      BY DEF IInv, TypeOK
    <3>2. ASSUME attempt[w].context # <<>>
          PROVE  FALSE
      <4>1. \E s \in new : s.rank = 1
        BY <3>1, <3>2, CitesType
      <4>2. 1 \in Ranks(kept) /\ 1 \in Ranks(new)
        BY <2>1, <2>3, <4>1 DEF Ranks
      <4> QED
        BY <4>2
    <3> QED
      BY <3>1, <3>2, CitesType
  <2> QED
    BY <2>1, <2>2, <2>4
<1> QED
  BY <1>1, <1>2

LEMMA CommitStep ==
  ASSUME ConstantsAssumption, IInv, NEW w \in Deliveries, Commit(w)
  PROVE  IInv'
<1> DEFINE context == attempt[w].context
           kept    == sources \ Held(w)
           new     == Cites(w, context)
           a       == Fresh("done", attempt[w].tries)
<1>1. attempt[w].pc = "booked" /\ UNCHANGED << library, prompts, overlapped >>
  BY DEF Commit, At
<1>2. CASE Ranks(kept) \cap Ranks(new) # {}
  <2>1. Failed(w)
    BY <1>2 DEF Commit, Held
  <2> QED
    BY <1>1, <2>1, FailedStep DEF IInv, TypeOK
<1>3. CASE Ranks(kept) \cap Ranks(new) = {}
  <2>1. /\ text' = context /\ sources' = kept \cup new /\ status' = "COMPLETED"
        /\ attempt' = [attempt EXCEPT ![w] = a]
    BY <1>3 DEF Commit, Held
  <2>2. /\ a \in Attempt /\ a.pc = "done" /\ a.seen = {} /\ a.held = {}
        /\ context \in Context
        /\ new \subseteq Source /\ (\A s \in new : s.by = w)
        /\ (context = <<>> => new = {})
    BY FreshType, CitesType DEF IInv, TypeOK, Phases
  <2>3. \/ /\ sources' = sources /\ sources # {}
           /\ context = <<>> /\ overlapped
        \/ sources' = new /\ sources = Held(w)
    BY <1>1, <1>3, <2>1, CommitReplacesAll
  <2>4. context = <<>> \/ context \in prompts
    BY <1>1 DEF IInv, Replacements, Phased, Replacing
  <2> HIDE DEF a, new, kept, context
  <2>5. /\ attempt'[w] = a
        /\ \A v \in Deliveries \ {w} : attempt'[v] = attempt[v]
    BY <2>1 DEF IInv, TypeOK
  <2>6. TypeOK'
    <3>1. sources' \subseteq Source
      BY <2>2, <2>3 DEF IInv, TypeOK
    <3> QED
      BY <1>1, <2>1, <2>2, <3>1 DEF IInv, TypeOK, Attempt, library
  <2>7. \A s \in Source : attempt[s.by].pc = "done" => attempt'[s.by].pc = "done"
    BY <2>2, <2>5 DEF Source
  <2>8. Rows'
    <3>1. Whole'
      <4>1. CASE sources' = sources
        BY <4>1, <1>1 DEF IInv, Rows, Whole, Cites
      <4>2. CASE sources' = new
        <5>1. sources' # {} => sources' = Cites(w, context) /\ context # <<>>
          BY <2>2, <4>2 DEF new
        <5> QED
          BY <5>1, <2>4, <1>1 DEF Whole, Cites
      <4> QED
        BY <2>3, <4>1, <4>2
    <3>2. SourcesAreOfTheText'
      <4>1. CASE sources' = new
        BY <2>1, <4>1 DEF SourcesAreOfTheText, Cites, new
      <4>2. CASE context = <<>> /\ overlapped
        BY <1>1, <2>1, <4>2 DEF SourcesAreOfTheText
      <4> QED
        BY <2>3, <4>1, <4>2
    <3>3. WrittenByDone(sources)'
      <4>1. CASE sources' = sources
        BY <4>1, <2>7 DEF IInv, TypeOK, Rows, WrittenByDone
      <4>2. CASE sources' = new
        BY <4>2, <2>2, <2>5 DEF WrittenByDone
      <4> QED
        BY <2>3, <4>1, <4>2
    <3> QED
      BY <3>1, <3>2, <3>3 DEF Rows
  <2>9. Replacements'
    <3> SUFFICES ASSUME NEW v \in Deliveries
                 PROVE  /\ WrittenByDone(Seen(v))'
                        /\ AllOrNothing(v)'
                        /\ Phased(v)'
                        /\ Misses(v)'
                        /\ \A u \in Deliveries \ {v} : Apart(u, v)'
      BY DEF Replacements
    <3>1. CASE v = w
      BY <2>2, <2>5, <3>1 DEF WrittenByDone, Seen, Held, AllOrNothing, Phased, Misses,
                              Apart, Replacing
    <3>2. CASE v # w
      <4>1. /\ Seen(v)' = Seen(v) /\ Held(v)' = Held(v)
            /\ attempt'[v] = attempt[v]
        BY <2>5, <3>2 DEF Seen, Held
      <4>2. WrittenByDone(Seen(v))'
        BY <4>1, <2>7 DEF IInv, Replacements, WrittenByDone, Seen, TypeOK
      <4>3. Phased(v)'
        BY <4>1, <1>1 DEF IInv, Replacements, Phased
      <4>4. \A u \in Deliveries \ {v} : Apart(u, v)'
        BY <4>1, <1>1, <2>2, <2>5 DEF IInv, Replacements, Apart, Held, Replacing
      <4>5. CASE sources' = sources
        BY <4>1, <4>2, <4>3, <4>4, <4>5, <1>1 DEF IInv, Replacements, AllOrNothing, Misses
      <4>6. CASE sources' = new /\ sources = Held(w)
        <5>1. Seen(v) \cap new = {}
          BY <2>2, <1>1 DEF IInv, Replacements, WrittenByDone
        <5>2. Held(v) = {}
          BY <4>6, <3>2 DEF IInv, Replacements, Apart, AllOrNothing
        <5>3. AllOrNothing(v)'
          BY <4>1, <4>6, <5>1, <5>2 DEF AllOrNothing
        <5>4. attempt[v].pc \in Replacing => overlapped
          BY <1>1, <3>2 DEF IInv, Replacements, Apart, Replacing
        <5>5. Misses(v)'
          BY <4>1, <1>1, <5>4 DEF Misses, Replacing
        <5> QED
          BY <4>2, <4>3, <4>4, <5>3, <5>5
      <4> QED
        BY <2>3, <4>5, <4>6
    <3> QED
      BY <3>1, <3>2
  <2> QED
    BY <2>6, <2>8, <2>9 DEF IInv
<1> QED
  BY <1>2, <1>3

\* Nothing that is said of an item depends on the documents as they are now.
LEMMA LibraryStep ==
  ASSUME IInv,
         edition' \in [Documents -> 1 .. MaxEditions], removed' \subseteq Documents,
         UNCHANGED << status, text, sources, attempt, prompts, overlapped >>
  PROVE  IInv'
<1>1. TypeOK'
  BY DEF IInv, TypeOK
<1>2. Rows'
  BY DEF IInv, Rows, Whole, SourcesAreOfTheText, WrittenByDone, Cites
<1>3. Replacements'
  BY DEF IInv, Replacements, WrittenByDone, AllOrNothing, Phased, Misses, Apart, Seen, Held
<1> QED
  BY <1>1, <1>2, <1>3 DEF IInv

LEMMA NextInv ==
  ASSUME ConstantsAssumption, IInv, [Next]_vars
  PROVE  IInv'
<1>1. ASSUME NEW w \in Deliveries, Take(w)
      PROVE  IInv'
  <2> DEFINE a == [attempt[w] EXCEPT !.pc = "taken"]
  <2>1. /\ attempt' = [attempt EXCEPT ![w] = a] /\ a \in Attempt
        /\ a.pc = "taken" /\ a.seen = attempt[w].seen /\ a.held = attempt[w].held
        /\ a.tries = attempt[w].tries
    BY <1>1 DEF Take, Goto, IInv, TypeOK, Attempt, Phases
  <2>2. /\ attempt[w].pc = "queued" /\ attempt[w].tries < MaxTries
        /\ attempt[w].seen = {} /\ attempt[w].held = {}
    BY <1>1 DEF Take, At, IInv, Replacements, Phased, Seen, Held, Replacing
  <2> HIDE DEF a
  <2> QED
    BY <1>1, <2>1, <2>2, IdleStep DEF Take, Replacing, IInv, TypeOK
<1>2. ASSUME NEW w \in Deliveries, Retrieve(w)
      PROVE  IInv'
  <2>1. PICK context \in {<<>>} \cup
             SetToSeqs({[document |-> d, edition |-> edition[d]] : d \in Scope}) :
          attempt' = [attempt EXCEPT ![w].pc = "retrieved", ![w].context = context]
    BY <1>2 DEF Retrieve
  <2>2. context \in Context
    BY RetrievedType DEF IInv
  <2> DEFINE a == [attempt[w] EXCEPT !.pc = "retrieved", !.context = context]
  <2>3. /\ attempt' = [attempt EXCEPT ![w] = a] /\ a \in Attempt
        /\ a.pc = "retrieved" /\ a.seen = attempt[w].seen /\ a.held = attempt[w].held
        /\ a.tries = attempt[w].tries
    BY <2>1, <2>2 DEF IInv, TypeOK, Attempt, Phases
  <2>4. /\ attempt[w].pc = "taken" /\ attempt[w].tries < MaxTries
        /\ attempt[w].seen = {} /\ attempt[w].held = {}
    BY <1>2 DEF Retrieve, At, IInv, Replacements, Phased, Seen, Held, Replacing
  <2> HIDE DEF a
  <2> QED
    BY ZenonT(60), <1>2, <2>3, <2>4, IdleStep DEF Retrieve, Replacing, IInv, TypeOK
<1>3. ASSUME NEW w \in Deliveries, Generate(w)
      PROVE  IInv'
  <2>1. /\ attempt[w].pc = "retrieved" /\ attempt[w].tries < MaxTries
        /\ attempt[w].seen = {} /\ attempt[w].held = {}
        /\ attempt[w].context \in Context
    BY <1>3 DEF Generate, At, IInv, Replacements, Phased, Seen, Held, Replacing, TypeOK
  <2>2. /\ prompts' = prompts \cup ({attempt[w].context} \ {<<>>})
        /\ UNCHANGED << library, overlapped >>
    BY <1>3 DEF Generate
  <2>3. prompts \subseteq prompts' /\ prompts' \subseteq Context
    BY <2>1, <2>2 DEF IInv, TypeOK
  <2>4. CASE Goto(w, "answered") /\ UNCHANGED << status, text, sources >>
    <3> DEFINE a == [attempt[w] EXCEPT !.pc = "answered"]
    <3>1. /\ attempt' = [attempt EXCEPT ![w] = a] /\ a \in Attempt
          /\ a.pc = "answered" /\ a.seen = attempt[w].seen /\ a.held = attempt[w].held
          /\ a.tries = attempt[w].tries /\ a.context = attempt[w].context
      BY <2>4 DEF Goto, IInv, TypeOK, Attempt, Phases
    <3> HIDE DEF a
    <3>2. a.context = <<>> \/ a.context \in prompts'
      BY <2>2, <3>1
    <3> QED
      BY <2>1, <2>2, <2>3, <2>4, <3>1, <3>2, IdleStep DEF Replacing, IInv, TypeOK
  <2>5. CASE Failed(w)
    BY <2>1, <2>2, <2>3, <2>5, FailedStep
  <2> QED
    BY <1>3, <2>4, <2>5 DEF Generate
<1>4. ASSUME NEW w \in Deliveries, Crash(w)
      PROVE  IInv'
  <2> DEFINE a == Fresh("queued", attempt[w].tries)
  <2>1. attempt[w].pc # "done" /\ attempt' = [attempt EXCEPT ![w] = a]
    BY <1>4 DEF Crash
  <2>2. /\ a \in Attempt /\ a.pc = "queued" /\ a.tries = attempt[w].tries
        /\ a.seen = {} /\ a.held = {}
    BY FreshType DEF IInv, TypeOK, Phases, Fresh
  <2>3. a.tries < MaxTries
    BY <2>1, <2>2 DEF IInv, Replacements, Phased
  <2> HIDE DEF a
  <2> QED
    BY <1>4, <2>1, <2>2, <2>3, IdleStep DEF Crash, Replacing, IInv, TypeOK
<1>5. ASSUME NEW w \in Deliveries,
             BeginDelete(w) \/ EndDelete(w) \/ BookUsage(w) \/ Commit(w)
      PROVE  IInv'
  BY <1>5, BeginDeleteStep, EndDeleteStep, BookUsageStep, CommitStep
<1>6. ASSUME NEW d \in Documents, Reindex(d) \/ RemoveDocument(d)
      PROVE  IInv'
  <2>1. edition' \in [Documents -> 1 .. MaxEditions] /\ removed' \subseteq Documents
    BY <1>6 DEF Reindex, RemoveDocument, IInv, TypeOK, ConstantsAssumption
  <2> QED
    BY <1>6, <2>1, LibraryStep DEF Reindex, RemoveDocument
<1>7. CASE UNCHANGED vars
  BY <1>7, LibraryStep DEF vars, library, IInv, TypeOK
<1> QED
  BY <1>1, <1>2, <1>3, <1>4, <1>5, <1>6, <1>7 DEF Next

\* The types: in particular nothing is tried more often than _MAX_RETRIES allows.
THEOREM TypeCorrect ==
  ASSUME ConstantsAssumption
  PROVE  Spec => []TypeOK
<1>1. IInv => TypeOK
  BY DEF IInv
<1> QED
  BY <1>1, InitInv, NextInv, PTL DEF Spec

\* An item cites what its text was written from, whatever deliveries of it overlap and
\* whatever becomes of the documents: the rows are never a mixture of two prompts, nor those
\* of another text.
THEOREM CitationsAreRight ==
  ASSUME ConstantsAssumption
  PROVE  Spec => []CitationsHold
<1>1. IInv => CitationsHold
  BY DEF IInv, Rows, Whole, CitationsHold, SourcesAreOnePrompt
<1> QED
  BY <1>1, InitInv, NextInv, PTL DEF Spec

-----------------------------------------------------------------------------
(* The search.                                                             *)

\* HybridSearch counts as FiniteSets does.
LEMMA SearchCounts ==
  /\ \A S : Search!Cardinality(S) = Cardinality(S)
  /\ \A S : Search!IsFiniteSet(S) <=> IsFiniteSet(S)
<1>1. \A S : Search!IsFiniteSet(S) <=> IsFiniteSet(S)
  BY DEF IsFiniteSet, Search!IsFiniteSet
<1>2. \A S : Search!Cardinality(S) = Cardinality(S)
  BY DEF Cardinality, Search!Cardinality
<1>3. QED
  BY <1>1, <1>2

\* An enumeration names every element of a finite set once.
LEMMA SearchEnumerates ==
  ASSUME NEW S, IsFiniteSet(S), NEW s \in Search!SetToSeqs(S)
  PROVE  /\ s \in Seq(S)
         /\ \A i, j \in 1 .. Len(s) : s[i] = s[j] => i = j
         /\ \A x \in S : \E i \in 1 .. Len(s) : s[i] = x
<1> DEFINE n == Cardinality(S)
<1>1. n \in Nat
  BY FS_CardinalityType
<1>2. s \in [1 .. n -> S] /\ \A i, j \in 1 .. n : i # j => s[i] # s[j]
  BY SearchCounts DEF Search!SetToSeqs
<1>3. s \in Injection(1 .. n, S)
  BY <1>2, Fun_IsInj
<1>4. Cardinality(1 .. n) = Cardinality(S)
  BY <1>1, FS_Interval
<1>5. s \in Surjection(1 .. n, S)
  <2> HIDE DEF n
  <2>1. QED
    BY <1>3, <1>4, FS_Injection
<1>6. \A x \in S : \E i \in 1 .. n : s[i] = x
  <2> HIDE DEF n
  <2>1. QED
    BY <1>5 DEF Surjection
<1> HIDE DEF n
<1>7. s \in Seq(S) /\ Len(s) = n
  BY <1>1, <1>2, SeqDef, LenProperties
<1>8. QED
  BY <1>2, <1>6, <1>7

\* The chunks are ranked within the pool and at places that are their own.
LEMMA FusedOnce ==
  ASSUME Search!ConstantsAssumption, NEW scope \in SUBSET Chunks,
         NEW near \in Search!SetToSeqs(scope), NEW words
  PROVE  /\ Search!Fused(near, words) \subseteq Search!Candidate
         /\ IsFiniteSet(Search!Fused(near, words))
         /\ \A c \in Search!Fused(near, words) :
              /\ c.chunk \in scope
              /\ c.vector \in 0 .. Pool /\ c.lexical \in 0 .. Pool
              /\ c.vector > 0 \/ c.lexical > 0
         /\ \A c, d \in Search!Fused(near, words) : c.chunk = d.chunk => c = d
<1> DEFINE F == Search!Fused(near, words)
<1>1. Pool \in Nat /\ IsFiniteSet(Chunks) /\ IsFiniteSet(scope)
  BY FS_Subset, SearchCounts DEF Search!ConstantsAssumption
<1>2. /\ near \in Seq(scope)
      /\ \A i, j \in 1 .. Len(near) : near[i] = near[j] => i = j
  BY <1>1, SearchEnumerates
<1>3. Search!ToSet(near) \subseteq scope
  BY <1>2 DEF Search!ToSet
<1>4. Len(near) \in Nat
  BY <1>2
<1>5. \A c \in F :
        /\ c \in [chunk : Search!ToSet(near), vector : 0 .. Pool, lexical : 0 .. Pool,
                  distance : 1 .. Len(near)]
        /\ c.vector = Search!Place(near, c.chunk)
        /\ c.lexical = Search!Place(words, c.chunk)
        /\ near[c.distance] = c.chunk
        /\ c.vector > 0 \/ c.lexical > 0
  BY DEF Search!Fused
<1> HIDE DEF F
<1>6. \A c \in F :
        /\ c.chunk \in scope
        /\ c.vector \in 0 .. Pool /\ c.lexical \in 0 .. Pool
        /\ c.vector > 0 \/ c.lexical > 0
  BY <1>3, <1>5
<1>7. F \subseteq Search!Candidate
  BY <1>1, <1>3, <1>4, <1>5 DEF Search!Candidate
<1>8. ASSUME NEW c \in F, NEW d \in F, c.chunk = d.chunk PROVE c = d
  <2>1. c.distance = d.distance
    BY <1>2, <1>5, <1>8
  <2>2. c.vector = d.vector /\ c.lexical = d.lexical
    BY <1>5, <1>8
  <2>3. QED
    BY <1>5, <1>8, <2>1, <2>2
<1>9. IsFiniteSet(F)
  <2> DEFINE f == [c \in F |-> c.chunk]
  <2>1. f \in [F -> scope]
    BY <1>6
  <2>2. \A c, d \in F : f[c] = f[d] => c = d
    BY <1>8
  <2> HIDE DEF f
  <2>3. f \in Injection(F, scope)
    BY <2>1, <2>2, Fun_IsInj
  <2>4. QED
    BY <1>1, <2>3, FS_Injection
<1>10. QED
  BY <1>6, <1>7, <1>8, <1>9 DEF F

LEMMA TimesMore ==
  ASSUME NEW a \in Nat, NEW b \in Nat, NEW c \in Nat \ {0}, a < b
  PROVE  c * a < c * b
OBVIOUS

\* 1 / v + 1 / l exceeds 1 / p, if none of the three is twice another.
LEMMA SumOfFractions ==
  ASSUME NEW v \in Nat \ {0}, NEW l \in Nat \ {0}, NEW p \in Nat, v < 2 * p, l < 2 * p
  PROVE  v * l < (v + l) * p
<1>1. v * l < v * (2 * p)
  BY TimesMore
<1>2. l * v < l * (2 * p)
  BY TimesMore
<1>3. v * (2 * p) = 2 * (v * p) /\ l * (2 * p) = 2 * (l * p) /\ l * v = v * l
  OBVIOUS
<1>4. (v + l) * p = v * p + l * p
  OBVIOUS
<1>5. v * l \in Nat /\ v * p \in Nat /\ l * p \in Nat
  OBVIOUS
<1>6. QED
  BY <1>1, <1>2, <1>3, <1>4, <1>5

\* No chunk of one list is ahead of a chunk of both.
LEMMA BothOutrankOne ==
  ASSUME Search!ConstantsAssumption, NEW a, NEW b,
         a.vector \in 1 .. Pool, a.lexical \in 1 .. Pool,
         b.vector \in 0 .. Pool, b.lexical \in 0 .. Pool, b.vector > 0 \/ b.lexical > 0,
         ~Search!InBoth(b)
  PROVE  ~Search!Ahead(b, a)
<1>1. Pool \in Nat /\ RrfK \in Nat /\ Pool < RrfK + 2
  BY DEF Search!ConstantsAssumption
<1> DEFINE V == RrfK + a.vector
           L == RrfK + a.lexical
           k == IF b.vector = 0 THEN b.lexical ELSE b.vector
           P == RrfK + k
<1>2. k \in 1 .. Pool /\ (b.vector = 0 \/ b.lexical = 0)
  BY <1>1 DEF Search!InBoth
<1>3. /\ Search!Numerator(a) = V + L
      /\ Search!Denominator(a) = V * L
  BY <1>1 DEF Search!Numerator, Search!Denominator, Search!Over
<1>4. /\ Search!Numerator(b) = 1
      /\ Search!Denominator(b) = P
  BY <1>1, <1>2 DEF Search!Numerator, Search!Denominator, Search!Over
<1>5. V \in Nat \ {0} /\ L \in Nat \ {0} /\ P \in Nat /\ V < 2 * P /\ L < 2 * P
  <2> HIDE DEF k
  <2>1. QED
    BY <1>1, <1>2
<1> HIDE DEF V, L, P, k
<1>6. V * L < (V + L) * P
  BY <1>5, SumOfFractions
<1> DEFINE x == 1 * (V * L)
           y == (V + L) * P
<1>7. x \in Nat /\ y \in Nat /\ x < y
  BY <1>5, <1>6
<1> HIDE DEF x, y
<1>8. Search!Ahead(b, a) <=> (x > y \/ (x = y /\ b.distance < a.distance))
  BY <1>3, <1>4 DEF Search!Ahead, x, y
<1>9. QED
  BY <1>7, <1>8

LEMMA FirstOf ==
  ASSUME NEW S, NEW s \in Seq(S), NEW n \in Nat
  PROVE  /\ Search!First(n, s) \in Seq(S)
         /\ Len(Search!First(n, s)) <= n /\ Len(Search!First(n, s)) <= Len(s)
         /\ \A i \in 1 .. Len(Search!First(n, s)) : Search!First(n, s)[i] = s[i]
<1> DEFINE m == IF n < Len(s) THEN n ELSE Len(s)
<1>1. m \in Nat /\ m <= n /\ m <= Len(s)
  OBVIOUS
<1>2. Search!First(n, s) = SubSeq(s, 1, m)
  BY DEF Search!First
<1> HIDE DEF m
<1>3. /\ SubSeq(s, 1, m) \in Seq(S) /\ Len(SubSeq(s, 1, m)) = m
      /\ \A i \in 1 .. m : SubSeq(s, 1, m)[i] = s[i]
  BY <1>1
<1>4. QED
  BY <1>1, <1>2, <1>3

\* The query is within the scope it was given, names no chunk twice, and that scope is of
\* contents that could be read.
QueryOK ==
  /\ query \in [pc : {"idle", "scoped", "ranked", "done"}, scope : SUBSET Contents,
                found : SUBSET Search!Candidate, best : Seq(Search!Candidate)]
  /\ query.pc # "idle" => query.scope \subseteq readable
  /\ query.pc \in {"idle", "scoped"} => query.found = {} /\ query.best = << >>
  /\ \A i, j \in 1 .. Len(query.best) : query.best[i].chunk = query.best[j].chunk => i = j
  /\ Len(query.best) <= Limit
  /\ \A i \in 1 .. Len(query.best) : ContentOf[query.best[i].chunk] \in query.scope
  /\ query.pc # "done" => answer = << >>

SearchInv == Search!TypeOK /\ QueryOK /\ Search!FusionIsSound

LEMMA SearchInit == ASSUME Search!ConstantsAssumption, Search!Init PROVE SearchInv
<1>1. Search!TypeOK
  BY DEF Search!Init, Search!TypeOK
<1>2. QueryOK
  BY DEF Search!Init, QueryOK, Search!ConstantsAssumption
<1>3. Search!FusionIsSound
  BY DEF Search!Init, Search!FusionIsSound, Search!AgreementWins, Search!AnswersStayInScope,
         Search!IsInjective, Search!ToSet, Search!ConstantsAssumption
<1>4. QED
  BY <1>1, <1>2, <1>3 DEF SearchInv

\* The answer is kept: the search is where it was, and can read what it could.
LEMMA SearchStays ==
  ASSUME SearchInv, UNCHANGED << query, answer, readable >>,
         trashed' \in SUBSET Contents, stored' \in SUBSET Chunks
  PROVE  SearchInv'
<1>1. query' = query /\ answer' = answer /\ readable' = readable
  OBVIOUS
<1>2. Search!TypeOK'
  BY <1>1 DEF SearchInv, Search!TypeOK, Search!Candidate
<1>3. QueryOK'
  BY <1>1 DEF SearchInv, QueryOK, Search!Candidate
<1>4. Search!AgreementWins'
  BY <1>1 DEF SearchInv, Search!FusionIsSound, Search!AgreementWins, Search!InBoth
<1>5. Search!AnswersStayInScope'
  BY <1>1 DEF SearchInv, Search!FusionIsSound, Search!AnswersStayInScope, Search!IsInjective,
              Search!ToSet
<1>6. QED
  BY <1>2, <1>3, <1>4, <1>5 DEF SearchInv, Search!FusionIsSound

LEMMA ScopedStep ==
  ASSUME Search!ConstantsAssumption, SearchInv, Search!Scoped
  PROVE  SearchInv'
<1>1. PICK scope \in SUBSET Search!Own : query' = [query EXCEPT !.pc = "scoped", !.scope = scope]
  <2>1. PICK chosen \in Search!PlanScopes :
          query' = [query EXCEPT !.pc = "scoped",
                                 !.scope = IF chosen = {} THEN Search!Own ELSE chosen]
    BY DEF Search!Scoped
  <2>2. (IF chosen = {} THEN Search!Own ELSE chosen) \in SUBSET Search!Own
    BY DEF Search!PlanScopes
  <2>3. QED
    BY <2>1, <2>2
<1>2. /\ readable' = Search!Own /\ Search!Own \subseteq Contents
      /\ UNCHANGED << trashed, stored, answer >> /\ query.pc = "idle"
  BY DEF Search!Scoped, Search!Own, Search!ConstantsAssumption
<1>3. /\ query \in [pc : {"idle", "scoped", "ranked", "done"}, scope : SUBSET Contents,
                    found : SUBSET Search!Candidate, best : Seq(Search!Candidate)]
      /\ query.found = {} /\ query.best = << >> /\ answer = << >>
  BY <1>2 DEF SearchInv, QueryOK
<1>4. /\ query'.pc = "scoped" /\ query'.scope = scope /\ query'.found = {}
      /\ query'.best = << >>
      /\ query' \in [pc : {"idle", "scoped", "ranked", "done"}, scope : SUBSET Contents,
                     found : SUBSET Search!Candidate, best : Seq(Search!Candidate)]
  BY <1>1, <1>2, <1>3
<1>5. Limit \in Nat
  BY DEF Search!ConstantsAssumption
<1>6. QueryOK'
  BY <1>1, <1>2, <1>3, <1>4, <1>5 DEF QueryOK, Search!Candidate
<1>7. Search!TypeOK'
  BY <1>2, <1>3, <1>4 DEF SearchInv, Search!TypeOK, Search!Candidate
<1>8. Search!FusionIsSound'
  BY <1>2, <1>3, <1>4, <1>5
     DEF Search!FusionIsSound, Search!AgreementWins, Search!AnswersStayInScope,
         Search!IsInjective, Search!ToSet
<1>9. QED
  BY <1>6, <1>7, <1>8 DEF SearchInv

\* What is found without a word of the question, and with one.
LEMMA NearestRanked ==
  ASSUME Search!ConstantsAssumption, NEW scope \in SUBSET Chunks,
         NEW near \in Search!SetToSeqs(scope)
  PROVE  /\ Search!Nearest(near) \in Seq(Search!Candidate)
         /\ Len(Search!Nearest(near)) <= Limit
         /\ \A i \in 1 .. Len(Search!Nearest(near)) : Search!Nearest(near)[i].chunk \in scope
         /\ \A i, j \in 1 .. Len(Search!Nearest(near)) :
              Search!Nearest(near)[i].chunk = Search!Nearest(near)[j].chunk => i = j
<1>1. IsFiniteSet(scope)
  BY FS_Subset, SearchCounts DEF Search!ConstantsAssumption
<1>2. near \in Seq(scope) /\ \A i, j \in 1 .. Len(near) : near[i] = near[j] => i = j
  BY <1>1, SearchEnumerates
<1> DEFINE all == [i \in 1 .. Len(near) |->
                     [chunk |-> near[i], vector |-> i, lexical |-> 0, distance |-> i]]
           best == Search!First(Limit, all)
<1>3. \A i \in 1 .. Len(near) : all[i] \in Search!Candidate /\ all[i].chunk = near[i]
  BY <1>2 DEF Search!Candidate
<1>4. all \in Seq(Search!Candidate) /\ Len(all) = Len(near)
  <2>1. Len(near) \in Nat
    BY <1>2
  <2>2. all \in [1 .. Len(near) -> Search!Candidate]
    BY <1>3
  <2>3. QED
    BY <2>1, <2>2, SeqDef, LenProperties
<1>5. Limit \in Nat
  BY DEF Search!ConstantsAssumption
<1>6. Search!Nearest(near) = best
  BY DEF Search!Nearest
<1>7. /\ best \in Seq(Search!Candidate) /\ Len(best) <= Limit /\ Len(best) <= Len(all)
      /\ \A i \in 1 .. Len(best) : best[i] = all[i]
  <2> HIDE DEF all
  <2>1. QED
    BY <1>4, <1>5, FirstOf
<1> HIDE DEF all, best
<1>8. Len(best) \in Nat /\ Len(near) \in Nat
  BY <1>2, <1>7
<1>9. \A i \in 1 .. Len(best) : i \in 1 .. Len(near) /\ best[i].chunk = near[i]
  BY <1>3, <1>4, <1>7, <1>8
<1>10. QED
  BY <1>2, <1>6, <1>7, <1>9

LEMMA FusionRanked ==
  ASSUME Search!ConstantsAssumption, NEW scope \in SUBSET Chunks,
         NEW near \in Search!SetToSeqs(scope), NEW words,
         NEW sorted \in Search!InOrder(Search!Fused(near, words)), NEW best,
         best = Search!First(Limit, sorted)
  PROVE  /\ best \in Seq(Search!Candidate) /\ Len(best) <= Limit
         /\ \A i \in 1 .. Len(best) : best[i].chunk \in scope
         /\ \A i, j \in 1 .. Len(best) : best[i].chunk = best[j].chunk => i = j
         /\ \A a \in Search!Fused(near, words), i \in 1 .. Len(best) :
              Search!InBoth(a) /\ ~Search!InBoth(best[i]) =>
                \E j \in 1 .. i - 1 : best[j] = a
<1> DEFINE F == Search!Fused(near, words)
<1>1. /\ F \subseteq Search!Candidate /\ IsFiniteSet(F)
      /\ \A c \in F : /\ c.chunk \in scope
                      /\ c.vector \in 0 .. Pool /\ c.lexical \in 0 .. Pool
                      /\ c.vector > 0 \/ c.lexical > 0
      /\ \A c, d \in F : c.chunk = d.chunk => c = d
  BY FusedOnce
<1>2. /\ sorted \in Search!SetToSeqs(F)
      /\ \A i, j \in DOMAIN sorted : i < j => Search!Ahead(sorted[i], sorted[j])
  BY DEF Search!InOrder
<1> HIDE DEF F
<1>3. /\ sorted \in Seq(F)
      /\ \A i, j \in 1 .. Len(sorted) : sorted[i] = sorted[j] => i = j
      /\ \A x \in F : \E i \in 1 .. Len(sorted) : sorted[i] = x
  BY <1>1, <1>2, SearchEnumerates
<1>4. Limit \in Nat /\ Pool \in Nat
  BY DEF Search!ConstantsAssumption
<1>5. /\ best \in Seq(F) /\ Len(best) <= Limit /\ Len(best) <= Len(sorted)
      /\ \A i \in 1 .. Len(best) : best[i] = sorted[i]
  BY <1>3, <1>4, FirstOf
<1>6. best \in Seq(Search!Candidate)
  BY <1>1, <1>5
<1>7. Len(best) \in Nat /\ Len(sorted) \in Nat
  BY <1>3, <1>5
<1>8. \A i \in 1 .. Len(best) : i \in 1 .. Len(sorted) /\ best[i] \in F
  BY <1>5, <1>7
<1>9. ASSUME NEW i \in 1 .. Len(best), NEW j \in 1 .. Len(best), best[i].chunk = best[j].chunk
      PROVE  i = j
  <2>1. best[i] = best[j]
    BY <1>1, <1>8, <1>9
  <2>2. sorted[i] = sorted[j] /\ i \in 1 .. Len(sorted) /\ j \in 1 .. Len(sorted)
    BY <1>5, <1>8, <2>1
  <2>3. QED
    BY <1>3, <2>2
<1>10. ASSUME NEW a \in F, NEW i \in 1 .. Len(best), Search!InBoth(a), ~Search!InBoth(best[i])
       PROVE  \E j \in 1 .. i - 1 : best[j] = a
  <2>1. PICK j \in 1 .. Len(sorted) : sorted[j] = a
    BY <1>3
  <2>2. i \in 1 .. Len(sorted) /\ best[i] = sorted[i] /\ best[i] \in F
    BY <1>5, <1>8
  <2>3. j # i
    BY <1>10, <2>1, <2>2
  <2>4. ~(i < j)
    <3>1. SUFFICES ASSUME i < j PROVE FALSE
      OBVIOUS
    <3>2. Search!Ahead(best[i], a)
      <4>1. DOMAIN sorted = 1 .. Len(sorted)
        BY <1>3
      <4>2. Search!Ahead(sorted[i], sorted[j])
        BY <1>2, <2>1, <2>2, <3>1, <4>1
      <4>3. QED
        BY <2>1, <2>2, <4>2
    <3>3. /\ a.vector \in 1 .. Pool /\ a.lexical \in 1 .. Pool
      BY <1>1, <1>4, <1>10 DEF Search!InBoth
    <3>4. /\ best[i].vector \in 0 .. Pool /\ best[i].lexical \in 0 .. Pool
          /\ best[i].vector > 0 \/ best[i].lexical > 0
      BY <1>1, <2>2
    <3>5. ~Search!Ahead(best[i], a)
      BY <1>10, <3>3, <3>4, BothOutrankOne
    <3>6. QED
      BY <3>2, <3>5
  <2>5. j \in 1 .. i - 1 /\ j \in 1 .. Len(best)
    BY <1>7, <2>2, <2>3, <2>4
  <2>6. QED
    BY <1>5, <2>1, <2>5
<1>11. QED
  BY <1>1, <1>5, <1>6, <1>8, <1>9, <1>10 DEF F

\* The answer of one statement.
LEMMA SimilarStep ==
  ASSUME Search!ConstantsAssumption, SearchInv, Search!Similar
  PROVE  SearchInv'
<1> DEFINE scope == Search!InScope
<1>1. /\ query.pc = "scoped" /\ UNCHANGED << trashed, stored, readable >>
      /\ scope \in SUBSET Chunks
  BY DEF Search!Similar, Search!InScope, SearchInv, Search!TypeOK
<1>2. /\ query \in [pc : {"idle", "scoped", "ranked", "done"}, scope : SUBSET Contents,
                    found : SUBSET Search!Candidate, best : Seq(Search!Candidate)]
      /\ query.found = {} /\ query.scope \subseteq readable
  BY <1>1 DEF SearchInv, QueryOK
<1>3. PICK near \in Search!SetToSeqs(scope) :
        /\ query' = [query EXCEPT !.pc = "done", !.best = Search!Nearest(near)]
        /\ answer' = [i \in DOMAIN Search!Nearest(near) |-> Search!Nearest(near)[i].chunk]
  BY DEF Search!Similar
<1> HIDE DEF scope
<1> DEFINE best == Search!Nearest(near)
<1>4. /\ best \in Seq(Search!Candidate) /\ Len(best) <= Limit
      /\ \A i \in 1 .. Len(best) : best[i].chunk \in scope
      /\ \A i, j \in 1 .. Len(best) : best[i].chunk = best[j].chunk => i = j
  BY <1>1, NearestRanked
<1>5. /\ query' = [query EXCEPT !.pc = "done", !.best = best]
      /\ answer' = [i \in DOMAIN best |-> best[i].chunk]
  BY <1>3
<1> HIDE DEF best
<1>6. /\ query'.pc = "done" /\ query'.scope = query.scope /\ query'.found = {}
      /\ query'.best = best
      /\ query' \in [pc : {"idle", "scoped", "ranked", "done"}, scope : SUBSET Contents,
                     found : SUBSET Search!Candidate, best : Seq(Search!Candidate)]
  BY <1>2, <1>4, <1>5
<1>7. DOMAIN best = 1 .. Len(best) /\ Len(best) \in Nat
  BY <1>4
<1>8. /\ answer' \in [1 .. Len(best) -> Chunks]
      /\ \A i \in 1 .. Len(best) : answer'[i] = best[i].chunk
  BY <1>1, <1>4, <1>5, <1>7
<1>9. answer' \in Seq(Chunks) /\ Len(answer') = Len(best) /\ DOMAIN answer' = 1 .. Len(best)
  BY <1>7, <1>8, SeqDef, LenProperties
<1>10. \A k \in scope : ContentOf[k] \in query.scope
  BY DEF scope, Search!InScope
<1>11. Search!IsInjective(answer')
  BY <1>4, <1>8, <1>9 DEF Search!IsInjective
<1>12. \A k \in Search!ToSet(answer') : ContentOf[k] \in readable
  BY <1>2, <1>4, <1>8, <1>9, <1>10 DEF Search!ToSet
<1>13. Search!AnswersStayInScope'
  BY <1>1, <1>4, <1>9, <1>11, <1>12 DEF Search!AnswersStayInScope, Search!IsInjective, Search!ToSet
<1>14. Search!AgreementWins'
  BY <1>6 DEF Search!AgreementWins
<1>15. QueryOK'
  BY <1>1, <1>2, <1>4, <1>6, <1>10 DEF QueryOK, Search!Candidate
<1>16. Search!TypeOK'
  BY <1>1, <1>6, <1>9 DEF SearchInv, Search!TypeOK, Search!Candidate
<1>17. QED
  BY <1>13, <1>14, <1>15, <1>16 DEF SearchInv, Search!FusionIsSound

LEMMA RankedStep ==
  ASSUME Search!ConstantsAssumption, SearchInv, Search!Ranked
  PROVE  SearchInv'
<1> DEFINE scope == Search!InScope
<1>1. /\ query.pc = "scoped" /\ UNCHANGED << trashed, stored, answer, readable >>
      /\ scope \in SUBSET Chunks
  BY DEF Search!Ranked, Search!InScope, SearchInv, Search!TypeOK
<1>2. /\ query \in [pc : {"idle", "scoped", "ranked", "done"}, scope : SUBSET Contents,
                    found : SUBSET Search!Candidate, best : Seq(Search!Candidate)]
      /\ query.found = {} /\ answer = << >> /\ query.scope \subseteq readable
      /\ \A k \in scope : ContentOf[k] \in query.scope
  BY <1>1 DEF SearchInv, QueryOK, Search!InScope
<1>3. \E best \in Seq(Search!Candidate), found \in SUBSET Search!Candidate :
        /\ query' = [query EXCEPT !.pc = "ranked", !.found = found, !.best = best]
        /\ Len(best) <= Limit
        /\ \A i \in 1 .. Len(best) : best[i].chunk \in scope
        /\ \A i, j \in 1 .. Len(best) : best[i].chunk = best[j].chunk => i = j
        /\ \A a \in found, i \in 1 .. Len(best) :
             Search!InBoth(a) /\ ~Search!InBoth(best[i]) =>
               \E j \in 1 .. i - 1 : best[j] = a
  <2>1. PICK near \in Search!SetToSeqs(scope), words \in Search!SetToAllKPermutations(scope) :
          \E sorted \in Search!InOrder(Search!Fused(near, words)) :
            query' = [query EXCEPT !.pc = "ranked", !.found = Search!Fused(near, words),
                                   !.best = Search!First(Limit, sorted)]
    BY DEF Search!Ranked
  <2> HIDE DEF scope
  <2>2. PICK sorted \in Search!InOrder(Search!Fused(near, words)) :
          query' = [query EXCEPT !.pc = "ranked", !.found = Search!Fused(near, words),
                                 !.best = Search!First(Limit, sorted)]
    BY <2>1
  <2>3. Search!Fused(near, words) \subseteq Search!Candidate
    BY <1>1, FusedOnce
  <2> DEFINE best == Search!First(Limit, sorted)
  <2>4. /\ best \in Seq(Search!Candidate) /\ Len(best) <= Limit
        /\ \A i \in 1 .. Len(best) : best[i].chunk \in scope
        /\ \A i, j \in 1 .. Len(best) : best[i].chunk = best[j].chunk => i = j
        /\ \A a \in Search!Fused(near, words), i \in 1 .. Len(best) :
             Search!InBoth(a) /\ ~Search!InBoth(best[i]) =>
               \E j \in 1 .. i - 1 : best[j] = a
    <3> HIDE DEF best
    <3>1. best = Search!First(Limit, sorted)
      BY DEF best
    <3>2. QED
      BY <1>1, <3>1, FusionRanked
  <2>5. query' = [query EXCEPT !.pc = "ranked", !.found = Search!Fused(near, words),
                               !.best = best]
    BY <2>2
  <2> HIDE DEF best
  <2>6. QED
    BY <2>3, <2>4, <2>5
<1> HIDE DEF scope
<1>4. PICK best \in Seq(Search!Candidate), found \in SUBSET Search!Candidate :
        /\ query' = [query EXCEPT !.pc = "ranked", !.found = found, !.best = best]
        /\ Len(best) <= Limit
        /\ \A i \in 1 .. Len(best) : best[i].chunk \in scope
        /\ \A i, j \in 1 .. Len(best) : best[i].chunk = best[j].chunk => i = j
        /\ \A a \in found, i \in 1 .. Len(best) :
             Search!InBoth(a) /\ ~Search!InBoth(best[i]) =>
               \E j \in 1 .. i - 1 : best[j] = a
  BY <1>3
<1>5. /\ query'.pc = "ranked" /\ query'.scope = query.scope /\ query'.found = found
      /\ query'.best = best
      /\ query' \in [pc : {"idle", "scoped", "ranked", "done"}, scope : SUBSET Contents,
                     found : SUBSET Search!Candidate, best : Seq(Search!Candidate)]
  BY <1>2, <1>4
<1>6. Search!AgreementWins'
  <2>1. DOMAIN best = 1 .. Len(best)
    OBVIOUS
  <2>2. QED
    BY <1>4, <1>5, <2>1 DEF Search!AgreementWins, Search!InBoth
<1>7. Search!AnswersStayInScope'
  <2>1. Search!AnswersStayInScope
    BY DEF SearchInv, Search!FusionIsSound
  <2>2. QED
    BY <1>1, <2>1 DEF Search!AnswersStayInScope, Search!IsInjective, Search!ToSet
<1>8. QueryOK'
  BY <1>1, <1>2, <1>4, <1>5 DEF QueryOK, Search!Candidate
<1>9. Search!TypeOK'
  BY <1>1, <1>5 DEF SearchInv, Search!TypeOK, Search!Candidate
<1>10. QED
  BY <1>6, <1>7, <1>8, <1>9 DEF SearchInv, Search!FusionIsSound

LEMMA FetchedStep ==
  ASSUME Search!ConstantsAssumption, SearchInv, Search!Fetched
  PROVE  SearchInv'
<1> DEFINE there == {i \in DOMAIN query.best : query.best[i].chunk \in stored}
<1>1. PICK present \in Search!SetToSeqs(there) :
        answer' = [i \in DOMAIN present |-> query.best[present[i]].chunk]
  BY DEF Search!Fetched
<1>2. /\ query.pc = "ranked" /\ query' = [query EXCEPT !.pc = "done"]
      /\ UNCHANGED << trashed, stored, readable >>
  BY DEF Search!Fetched
<1>3. /\ query \in [pc : {"idle", "scoped", "ranked", "done"}, scope : SUBSET Contents,
                    found : SUBSET Search!Candidate, best : Seq(Search!Candidate)]
      /\ query.scope \subseteq readable
      /\ \A i, j \in 1 .. Len(query.best) : query.best[i].chunk = query.best[j].chunk => i = j
      /\ Len(query.best) <= Limit
      /\ \A i \in 1 .. Len(query.best) : ContentOf[query.best[i].chunk] \in query.scope
  BY <1>2 DEF SearchInv, QueryOK
<1>4. /\ query'.pc = "done" /\ query'.scope = query.scope /\ query'.found = query.found
      /\ query'.best = query.best
      /\ query' \in [pc : {"idle", "scoped", "ranked", "done"}, scope : SUBSET Contents,
                     found : SUBSET Search!Candidate, best : Seq(Search!Candidate)]
  BY <1>2, <1>3
<1> DEFINE n == Len(query.best)
<1>5. /\ n \in Nat /\ DOMAIN query.best = 1 .. n
      /\ \A i \in 1 .. n : query.best[i].chunk \in Chunks
  <2>1. query.best \in Seq(Search!Candidate)
    BY <1>3
  <2>2. \A i \in 1 .. Len(query.best) : query.best[i] \in Search!Candidate
    BY <2>1
  <2>3. \A c \in Search!Candidate : c.chunk \in Chunks
    BY DEF Search!Candidate
  <2>4. QED
    BY <2>1, <2>2, <2>3
<1>6. there \in SUBSET (1 .. n) /\ IsFiniteSet(1 .. n) /\ Cardinality(1 .. n) = n
  BY <1>5, FS_Interval
<1> HIDE DEF n
<1>7. IsFiniteSet(there) /\ Cardinality(there) <= n
  BY <1>6, FS_Subset
<1> HIDE DEF there
<1>8. /\ present \in Seq(there)
      /\ \A i, j \in 1 .. Len(present) : present[i] = present[j] => i = j
  BY <1>7, SearchEnumerates
<1>9. Len(present) = Cardinality(there)
  <2>1. Cardinality(there) \in Nat
    BY <1>7, FS_CardinalityType
  <2>2. present \in [1 .. Cardinality(there) -> there]
    BY SearchCounts DEF Search!SetToSeqs
  <2>3. QED
    BY <2>1, <2>2, SeqDef, LenProperties
<1>10. /\ DOMAIN present = 1 .. Len(present) /\ Len(present) \in Nat /\ Len(present) <= n
       /\ \A i \in 1 .. Len(present) : present[i] \in 1 .. n
  <2>1. DOMAIN present = 1 .. Len(present) /\ Len(present) \in Nat
    BY <1>8
  <2>2. \A i \in 1 .. Len(present) : present[i] \in there
    BY <1>8
  <2>3. QED
    BY <1>6, <1>7, <1>9, <2>1, <2>2
<1>11. /\ answer' \in [1 .. Len(present) -> Chunks]
       /\ \A i \in 1 .. Len(present) : answer'[i] = query.best[present[i]].chunk
  BY <1>1, <1>5, <1>10
<1>12. answer' \in Seq(Chunks) /\ Len(answer') = Len(present)
       /\ DOMAIN answer' = 1 .. Len(present)
  BY <1>10, <1>11, SeqDef, LenProperties
<1>13. Len(answer') <= Limit
  <2>1. Limit \in Nat
    BY DEF Search!ConstantsAssumption
  <2>2. QED
    BY <1>3, <1>5, <1>10, <1>12, <2>1 DEF n
<1>14. Search!IsInjective(answer')
  <2>1. ASSUME NEW i \in 1 .. Len(present), NEW j \in 1 .. Len(present), answer'[i] = answer'[j]
        PROVE  i = j
    <3>1. present[i] = present[j]
      BY <1>3, <1>10, <1>11, <2>1 DEF n
    <3>2. QED
      BY <1>8, <3>1
  <2>2. QED
    BY <1>12, <2>1 DEF Search!IsInjective
<1>15. \A k \in Search!ToSet(answer') : ContentOf[k] \in readable
  BY <1>3, <1>10, <1>11, <1>12 DEF n, Search!ToSet
<1>16. Search!AnswersStayInScope'
  BY <1>2, <1>13, <1>14, <1>15 DEF Search!AnswersStayInScope, Search!IsInjective, Search!ToSet
<1>17. Search!AgreementWins'
  BY <1>4 DEF SearchInv, Search!FusionIsSound, Search!AgreementWins, Search!InBoth
<1>18. QueryOK'
  BY <1>2, <1>3, <1>4 DEF QueryOK, Search!Candidate
<1>19. Search!TypeOK'
  BY <1>2, <1>4, <1>12 DEF SearchInv, Search!TypeOK, Search!Candidate
<1>20. QED
  BY <1>16, <1>17, <1>18, <1>19 DEF SearchInv, Search!FusionIsSound

LEMMA SearchNext ==
  ASSUME Search!ConstantsAssumption, SearchInv, [Search!Next]_(Search!vars)
  PROVE  SearchInv'
<1>1. CASE UNCHANGED Search!vars
  BY <1>1, SearchStays DEF Search!vars, SearchInv, Search!TypeOK
<1>2. ASSUME NEW c \in Contents, Search!Trash(c) PROVE SearchInv'
  BY <1>2, SearchStays DEF Search!Trash, SearchInv, Search!TypeOK
<1>3. ASSUME NEW k \in Chunks, Search!Delete(k) PROVE SearchInv'
  BY <1>3, SearchStays DEF Search!Delete, SearchInv, Search!TypeOK
<1>4. QED
  BY <1>1, <1>2, <1>3, ScopedStep, SimilarStep, RankedStep, FetchedStep DEF Search!Next

\* A chunk that both lists found comes before every chunk of one list, wherever they found
\* it; an answer is of contents the account could read when it asked.
THEOREM SearchIsSound ==
  ASSUME Search!ConstantsAssumption
  PROVE  Search!Spec => [](Search!TypeOK /\ Search!FusionIsSound)
<1>1. Search!Init => SearchInv
  BY SearchInit
<1>2. SearchInv /\ [Search!Next]_(Search!vars) => SearchInv'
  BY SearchNext
<1>3. SearchInv => Search!TypeOK /\ Search!FusionIsSound
  BY DEF SearchInv
<1>4. QED
  BY <1>1, <1>2, <1>3, PTL DEF Search!Spec

-----------------------------------------------------------------------------
(* The embedder behind its cache.                                          *)

LEMMA EmbeddingCounts == \A S : Embedding!Cardinality(S) = Cardinality(S)
  BY DEF Cardinality, Embedding!Cardinality

\* How many vectors a job has, of those it wants: from the cache and from the model.
Progress(r) == Len(r.texts) - Len(r.missing) + Len(r.fresh)

\* A position has its vector or is still to get it; the batches so far are a prefix of what is
\* wanted; what was reported last is how much there is.
Underway(r) ==
  /\ Len(r.results) = Len(r.texts) /\ r.texts # << >> /\ Len(r.missing) <= Len(r.texts)
  /\ \A k \in 1 .. Len(r.missing) : r.missing[k] \in 1 .. Len(r.texts)
  /\ \A i \in 1 .. Len(r.texts) :
       \/ r.results[i] = r.texts[i]
       \/ \E k \in r.stored + 1 .. Len(r.missing) : r.missing[k] = i
  /\ Len(r.fresh) <= Len(r.missing)
  /\ \A k \in 1 .. Len(r.fresh) : r.fresh[k] = r.texts[r.missing[k]]
  /\ Embedding!Increasing(r.reported)
  /\ IF r.reported = << >> THEN Progress(r) = 0
     ELSE r.reported[Len(r.reported)] = Progress(r)
  /\ r.pc = "embedding" => r.stored = 0 /\ Len(r.fresh) < Len(r.missing)
  /\ r.pc = "storing" => Len(r.fresh) = Len(r.missing) /\ r.stored < Len(r.missing)
  /\ r.pc = "done" => Len(r.fresh) = Len(r.missing) /\ r.stored = Len(r.missing)

JobOK(r) ==
  /\ r \in Embedding!Job
  /\ r.pc \in {"embedding", "storing", "done"} => Underway(r)

EmbeddingInv == Embedding!TypeOK /\ \A j \in Jobs : JobOK(job[j])

LEMMA IdleOK == JobOK(Embedding!Idle)
  BY DEF JobOK, Embedding!Idle, Embedding!Job

LEMMA JobMoves ==
  ASSUME EmbeddingInv, NEW j \in Jobs, NEW r, JobOK(r), job' = [job EXCEPT ![j] = r],
         cached' \subseteq Texts, expired' \in Nat
  PROVE  EmbeddingInv'
<1>1. job \in [Jobs -> Embedding!Job] /\ \A i \in Jobs : JobOK(job[i])
  BY DEF EmbeddingInv, Embedding!TypeOK
<1>2. r \in Embedding!Job
  BY DEF JobOK
<1>3. job' \in [Jobs -> Embedding!Job]
  BY <1>1, <1>2
<1>4. \A i \in Jobs : JobOK(job'[i])
  BY <1>1
<1>5. Embedding!TypeOK'
  BY <1>3 DEF Embedding!TypeOK, Embedding!Job
<1>6. (\A i \in Jobs : JobOK(job[i]))'
  <2>1. ASSUME NEW i \in Jobs PROVE JobOK(job[i])'
    <3>1. JobOK(job'[i])
      BY <1>4
    <3>2. QED
      BY <3>1 DEF JobOK, Underway, Progress, Embedding!Increasing, Embedding!Job
  <2>2. QED
    BY <2>1
<1>7. QED
  BY <1>5, <1>6 DEF EmbeddingInv

\* One more report, of more than the last.
LEMMA OneMoreReport ==
  ASSUME NEW s \in Seq(Nat), Embedding!Increasing(s), NEW n \in Nat,
         s # << >> => s[Len(s)] < n
  PROVE  /\ Append(s, n) \in Seq(Nat) /\ Append(s, n) # << >>
         /\ Append(s, n)[Len(Append(s, n))] = n
         /\ Embedding!Increasing(Append(s, n))
<1> DEFINE t == Append(s, n)
<1>1. /\ t \in Seq(Nat) /\ Len(t) = Len(s) + 1 /\ t[Len(s) + 1] = n
      /\ \A i \in 1 .. Len(s) : t[i] = s[i] /\ s[i] \in Nat
      /\ DOMAIN t = 1 .. Len(s) + 1 /\ Len(s) \in Nat /\ DOMAIN s = 1 .. Len(s)
  OBVIOUS
<1> HIDE DEF t
<1>2. ASSUME NEW i \in 1 .. Len(s) PROVE s[i] < n
  <2> DEFINE l == Len(s)
  <2>1. l \in Nat /\ DOMAIN s = 1 .. l /\ i \in 1 .. l
    BY <1>1
  <2>2. s # << >>
    BY <2>1
  <2> HIDE DEF l
  <2>3. l \in 1 .. l /\ (i = l \/ i < l)
    BY <2>1
  <2>4. s[i] \in Nat /\ s[l] \in Nat
    BY <2>1, <2>3
  <2>5. i < l => s[i] < s[l]
    BY <2>1, <2>3 DEF Embedding!Increasing
  <2>6. s[l] < n
    BY <2>2 DEF l
  <2>7. QED
    BY <2>3, <2>4, <2>5, <2>6
<1>3. ASSUME NEW i \in 1 .. Len(s) + 1, NEW j \in 1 .. Len(s) + 1, i < j PROVE t[i] < t[j]
  <2>1. i \in 1 .. Len(s)
    BY <1>1, <1>3
  <2>2. CASE j = Len(s) + 1
    BY <1>1, <1>2, <2>1, <2>2
  <2>3. CASE j # Len(s) + 1
    <3>1. j \in 1 .. Len(s)
      BY <1>1, <2>3
    <3>2. s[i] < s[j]
      BY <1>1, <1>3, <2>1, <3>1 DEF Embedding!Increasing
    <3>3. QED
      BY <1>1, <2>1, <3>1, <3>2
  <2>4. QED
    BY <2>2, <2>3
<1>4. Embedding!Increasing(t)
  BY <1>1, <1>3 DEF Embedding!Increasing
<1>5. t # << >>
  BY <1>1
<1>6. QED
  BY <1>1, <1>4, <1>5 DEF t

\* What the cache does not have, is missing.
LEMMA MissesFound ==
  ASSUME NEW n \in Nat, NEW results \in Seq(Texts \cup {Embedding!Missing}),
         Len(results) = n, NEW missing \in Embedding!Misses(results)
  PROVE  /\ missing \in Seq(Nat) /\ Len(missing) <= n
         /\ \A k \in 1 .. Len(missing) : missing[k] \in 1 .. n
         /\ \A i \in 1 .. n : results[i] # Embedding!Missing \/
                                \E k \in 1 .. Len(missing) : missing[k] = i
<1> DEFINE S == {i \in DOMAIN results : results[i] = Embedding!Missing}
<1>1. S \subseteq 1 .. n /\ DOMAIN results = 1 .. n
  OBVIOUS
<1>2. IsFiniteSet(1 .. n) /\ Cardinality(1 .. n) = n
  BY FS_Interval
<1>3. missing \in Embedding!SetToSeqs(S)
  BY DEF Embedding!Misses
<1>4. \A i \in 1 .. n : results[i] = Embedding!Missing => i \in S
  BY <1>1
<1> HIDE DEF S
<1>5. IsFiniteSet(S) /\ Cardinality(S) <= n
  <2>1. S \in SUBSET (1 .. n)
    BY <1>1
  <2>2. QED
    BY <1>2, <2>1, FS_Subset
<1> DEFINE m == Cardinality(S)
<1>6. m \in Nat
  BY <1>5, FS_CardinalityType
<1>7. missing \in [1 .. m -> S] /\ \A i, j \in 1 .. m : i # j => missing[i] # missing[j]
  BY <1>3, EmbeddingCounts DEF Embedding!SetToSeqs
<1>8. missing \in Injection(1 .. m, S)
  BY <1>7, Fun_IsInj
<1>9. Cardinality(1 .. m) = Cardinality(S)
  BY <1>6, FS_Interval
<1>10. missing \in Surjection(1 .. m, S)
  <2> HIDE DEF m
  <2>1. QED
    BY <1>5, <1>8, <1>9, FS_Injection
<1>11. \A x \in S : \E k \in 1 .. m : missing[k] = x
  <2> HIDE DEF m
  <2>1. QED
    BY <1>10 DEF Surjection
<1>12. m <= n
  BY <1>5
<1> HIDE DEF m
<1>13. missing \in [1 .. m -> Nat]
  <2>1. S \subseteq Nat
    BY <1>1
  <2>2. QED
    BY <1>7, <2>1
<1>14. missing \in Seq(Nat) /\ Len(missing) = m
  BY <1>6, <1>13, SeqDef, LenProperties
<1>15. QED
  BY <1>1, <1>4, <1>7, <1>11, <1>12, <1>14

LEMMA LookUpStep ==
  ASSUME EmbeddingInv, Embedding!ConstantsAssumption, NEW j \in Jobs, Embedding!LookUp(j)
  PROVE  EmbeddingInv'
<1>1. PICK n \in 1 .. MaxLength : \E texts \in [1 .. n -> Texts] :
       LET results == [i \in 1 .. n |-> IF texts[i] \in cached THEN texts[i]
                                        ELSE Embedding!Missing]
       IN  \E missing \in Embedding!Misses(results) :
             job' = [job EXCEPT ![j] =
               [Embedding!Idle EXCEPT !.pc = IF missing = << >> THEN "done" ELSE "embedding",
                            !.texts = texts, !.results = results, !.missing = missing,
                            !.reported = IF Len(missing) < n THEN << n - Len(missing) >>
                                         ELSE << >>]]
  BY DEF Embedding!LookUp
<1>2. PICK texts \in [1 .. n -> Texts] :
       LET results == [i \in 1 .. n |-> IF texts[i] \in cached THEN texts[i]
                                        ELSE Embedding!Missing]
       IN  \E missing \in Embedding!Misses(results) :
             job' = [job EXCEPT ![j] =
               [Embedding!Idle EXCEPT !.pc = IF missing = << >> THEN "done" ELSE "embedding",
                            !.texts = texts, !.results = results, !.missing = missing,
                            !.reported = IF Len(missing) < n THEN << n - Len(missing) >>
                                         ELSE << >>]]
  BY <1>1
<1> DEFINE results == [i \in 1 .. n |-> IF texts[i] \in cached THEN texts[i]
                                        ELSE Embedding!Missing]
<1>3. PICK missing \in Embedding!Misses(results) :
             job' = [job EXCEPT ![j] =
               [Embedding!Idle EXCEPT !.pc = IF missing = << >> THEN "done" ELSE "embedding",
                            !.texts = texts, !.results = results, !.missing = missing,
                            !.reported = IF Len(missing) < n THEN << n - Len(missing) >>
                                         ELSE << >>]]
  BY <1>2
<1>4. n \in Nat \ {0}
  BY DEF Embedding!ConstantsAssumption
<1>5. texts \in Seq(Texts) /\ Len(texts) = n
  BY <1>4, SeqDef, LenProperties
<1>6. /\ results \in [1 .. n -> Texts \cup {Embedding!Missing}]
      /\ \A i \in 1 .. n : results[i] # Embedding!Missing => results[i] = texts[i]
  OBVIOUS
<1> HIDE DEF results
<1>7. results \in Seq(Texts \cup {Embedding!Missing}) /\ Len(results) = n
  BY <1>4, <1>6, SeqDef, LenProperties
<1>8. /\ missing \in Seq(Nat) /\ Len(missing) <= n
      /\ \A k \in 1 .. Len(missing) : missing[k] \in 1 .. n
      /\ \A i \in 1 .. n : results[i] # Embedding!Missing \/
                             \E k \in 1 .. Len(missing) : missing[k] = i
  BY <1>4, <1>7, MissesFound
<1> DEFINE reported == IF Len(missing) < n THEN << n - Len(missing) >> ELSE << >>
           pc == IF missing = << >> THEN "done" ELSE "embedding"
           r == [Embedding!Idle EXCEPT !.pc = pc, !.texts = texts, !.results = results,
                                       !.missing = missing, !.reported = reported]
<1>9. Len(missing) \in Nat
  BY <1>8
<1>10. /\ reported \in Seq(Nat) /\ Embedding!Increasing(reported)
       /\ IF reported = << >> THEN n - Len(missing) = 0
          ELSE reported[Len(reported)] = n - Len(missing)
  <2>1. CASE Len(missing) < n
    <3>1. reported = << n - Len(missing) >> /\ n - Len(missing) \in Nat
      BY <1>4, <1>9, <2>1
    <3> HIDE DEF reported
    <3>2. QED
      BY <3>1 DEF Embedding!Increasing
  <2>2. CASE ~(Len(missing) < n)
    <3>1. reported = << >> /\ Len(missing) = n
      BY <1>4, <1>8, <1>9, <2>2
    <3> HIDE DEF reported
    <3>2. QED
      BY <1>4, <3>1 DEF Embedding!Increasing
  <2>3. QED
    BY <2>1, <2>2
<1>11. pc \in {"done", "embedding"} /\ (pc = "done" <=> missing = << >>)
  OBVIOUS
<1> HIDE DEF reported, pc
<1>12. /\ r.pc = pc /\ r.texts = texts /\ r.results = results /\ r.missing = missing
       /\ r.reported = reported /\ r.fresh = << >> /\ r.stored = 0 /\ r.attempts = 0
       /\ r \in Embedding!Job
  <2> DEFINE idle == Embedding!Idle
  <2>1. /\ idle \in Embedding!Job /\ idle.fresh = << >> /\ idle.stored = 0
        /\ idle.attempts = 0
    BY IdleOK DEF JobOK, Embedding!Idle
  <2>2. r = [idle EXCEPT !.pc = pc, !.texts = texts, !.results = results, !.missing = missing,
                         !.reported = reported]
    OBVIOUS
  <2>3. pc \in {"idle", "embedding", "storing", "done", "failed"}
    BY <1>11
  <2> HIDE DEF idle, r
  <2>4. QED
    BY <1>5, <1>7, <1>8, <1>10, <2>1, <2>2, <2>3 DEF Embedding!Job
<1>13. job' = [job EXCEPT ![j] = r]
  BY <1>3 DEF reported, pc
<1> HIDE DEF r
<1>14. Progress(r) = n - Len(missing) /\ Len(r.fresh) = 0
  BY <1>4, <1>5, <1>9, <1>12 DEF Progress
<1>15. Underway(r)
  <2>1. missing = << >> <=> Len(missing) = 0
    BY <1>8
  <2>2. texts # << >>
    BY <1>4, <1>5
  <2>3. \A i \in 1 .. n : \/ r.results[i] = r.texts[i]
                          \/ \E k \in r.stored + 1 .. Len(r.missing) : r.missing[k] = i
    BY <1>6, <1>8, <1>9, <1>12
  <2>4. r.pc = "embedding" => Len(r.fresh) < Len(r.missing)
    BY <1>9, <1>11, <1>12, <1>14, <2>1
  <2>5. /\ Len(r.results) = Len(r.texts) /\ r.texts # << >> /\ Len(r.missing) <= Len(r.texts)
        /\ \A k \in 1 .. Len(r.missing) : r.missing[k] \in 1 .. Len(r.texts)
        /\ Len(r.fresh) <= Len(r.missing)
    BY <1>5, <1>7, <1>8, <1>9, <1>12, <1>14, <2>2
  <2>6. \A k \in 1 .. Len(r.fresh) : r.fresh[k] = r.texts[r.missing[k]]
    BY <1>14
  <2>7. /\ Embedding!Increasing(r.reported)
        /\ IF r.reported = << >> THEN Progress(r) = 0
           ELSE r.reported[Len(r.reported)] = Progress(r)
    BY <1>10, <1>12, <1>14
  <2>8. /\ r.pc = "embedding" => r.stored = 0
        /\ r.pc # "storing"
        /\ r.pc = "done" => Len(r.fresh) = Len(r.missing) /\ r.stored = Len(r.missing)
    BY <1>11, <1>12, <1>14, <2>1
  <2>9. QED
    BY <1>5, <1>12, <2>3, <2>4, <2>5, <2>6, <2>7, <2>8 DEF Underway
<1>16. JobOK(r)
  BY <1>12, <1>15 DEF JobOK
<1>17. cached' \subseteq Texts /\ expired' \in Nat
  BY DEF Embedding!LookUp, EmbeddingInv, Embedding!TypeOK
<1>18. QED
  BY <1>13, <1>16, <1>17, JobMoves

LEMMA EmbedStep ==
  ASSUME EmbeddingInv, Embedding!ConstantsAssumption, NEW j \in Jobs, Embedding!Embed(j)
  PROVE  EmbeddingInv'
<1> DEFINE r == job[j]
           wanted == Embedding!Wanted(r)
           left == SubSeq(wanted, Len(r.fresh) + 1, Len(wanted))
           m    == IF BatchSize < Len(left) THEN BatchSize ELSE Len(left)
           done == r.fresh \o SubSeq(left, 1, m)
           pc == IF Len(done) = Len(wanted) THEN "storing" ELSE "embedding"
           report == Len(r.texts) - Len(wanted) + Len(done)
           new == [r EXCEPT !.fresh = done, !.attempts = 0, !.pc = pc,
                            !.reported = Append(@, report)]
<1>1. /\ r.pc = "embedding" /\ job' = [job EXCEPT ![j] = new]
      /\ UNCHANGED << cached, expired >>
  BY DEF Embedding!Embed
<1>2. r \in Embedding!Job /\ Underway(r)
  BY <1>1 DEF EmbeddingInv, JobOK
<1> HIDE DEF r
<1>3. /\ r.texts \in Seq(Texts) /\ r.missing \in Seq(Nat) /\ r.fresh \in Seq(Texts)
      /\ r.reported \in Seq(Nat) /\ r.stored = 0 /\ Len(r.fresh) < Len(r.missing)
      /\ Len(r.missing) <= Len(r.texts)
      /\ \A k \in 1 .. Len(r.missing) : r.missing[k] \in 1 .. Len(r.texts)
      /\ \A k \in 1 .. Len(r.fresh) : r.fresh[k] = r.texts[r.missing[k]]
  BY <1>1, <1>2 DEF Embedding!Job, Underway
<1>4. /\ Len(r.texts) \in Nat /\ Len(r.missing) \in Nat /\ Len(r.fresh) \in Nat
      /\ DOMAIN r.missing = 1 .. Len(r.missing)
  BY <1>3
<1>5. /\ wanted \in Seq(Texts) /\ Len(wanted) = Len(r.missing)
      /\ \A k \in 1 .. Len(r.missing) : wanted[k] = r.texts[r.missing[k]]
  <2>1. wanted = [k \in 1 .. Len(r.missing) |-> r.texts[r.missing[k]]]
    BY <1>4 DEF Embedding!Wanted
  <2>2. \A k \in 1 .. Len(r.missing) : r.texts[r.missing[k]] \in Texts
    BY <1>3
  <2>3. wanted \in [1 .. Len(r.missing) -> Texts]
    BY <2>1, <2>2
  <2> HIDE DEF wanted
  <2>4. QED
    BY <1>4, <2>1, <2>3, SeqDef, LenProperties
<1> HIDE DEF wanted
<1> DEFINE f == Len(r.fresh)
           w == Len(r.missing)
<1>6. /\ left \in Seq(Texts) /\ Len(left) = w - f
      /\ \A k \in 1 .. w - f : left[k] = wanted[f + k]
  <2>1. left = SubSeq(wanted, f + 1, w) /\ f \in Nat /\ w \in Nat /\ f < w
    BY <1>3, <1>4, <1>5
  <2> HIDE DEF f, w, left
  <2>2. wanted \in Seq(Texts) /\ Len(wanted) = w
    BY <1>5 DEF w
  <2>3. QED
    BY <2>1, <2>2
<1> HIDE DEF left
<1>7. m \in 1 .. w - f
  <2>1. BatchSize \in Nat \ {0}
    BY DEF Embedding!ConstantsAssumption
  <2>2. f \in Nat /\ w \in Nat /\ f < w
    BY <1>3, <1>4
  <2> HIDE DEF f, w
  <2>3. QED
    BY <1>6, <2>1, <2>2
<1> HIDE DEF m
<1>8. /\ SubSeq(left, 1, m) \in Seq(Texts) /\ Len(SubSeq(left, 1, m)) = m
      /\ \A k \in 1 .. m : SubSeq(left, 1, m)[k] = left[k]
  BY <1>4, <1>6, <1>7
<1>9. /\ done \in Seq(Texts) /\ Len(done) = f + m
      /\ \A k \in 1 .. f : done[k] = r.fresh[k]
      /\ \A k \in 1 .. m : done[f + k] = left[k]
  <2> DEFINE batch == SubSeq(left, 1, m)
  <2> HIDE DEF batch
  <2>1. batch \in Seq(Texts) /\ Len(batch) = m /\ \A k \in 1 .. m : batch[k] = left[k]
    BY <1>8 DEF batch
  <2>2. done = r.fresh \o batch
    BY DEF batch
  <2>3. QED
    BY <1>3, <2>1, <2>2
<1> HIDE DEF done
<1>10. \A k \in 1 .. f + m : done[k] = r.texts[r.missing[k]]
  <2>1. SUFFICES ASSUME NEW k \in 1 .. f + m PROVE done[k] = r.texts[r.missing[k]]
    OBVIOUS
  <2>2. CASE k \in 1 .. f
    BY <1>3, <1>9, <2>2
  <2>3. CASE k \notin 1 .. f
    <3>1. /\ k - f \in 1 .. m /\ k - f \in 1 .. w - f /\ f + (k - f) = k
          /\ k \in 1 .. w
      BY <1>4, <1>7, <2>3
    <3>2. done[k] = left[k - f] /\ left[k - f] = wanted[k]
      BY <1>6, <1>9, <3>1
    <3>3. QED
      BY <1>5, <3>1, <3>2
  <2>4. QED
    BY <2>2, <2>3
<1>11. /\ report = Len(r.texts) - w + (f + m) /\ report \in Nat
       /\ Progress(r) = Len(r.texts) - w + f /\ Progress(r) < report
  <2> DEFINE l == Len(r.texts)
  <2>1. l \in Nat /\ w \in Nat /\ f \in Nat /\ f < w /\ w <= l
    BY <1>3, <1>4
  <2>2. report = l - w + (f + m) /\ Progress(r) = l - w + f
    BY <1>5, <1>9 DEF Progress
  <2> HIDE DEF l, w, f, report
  <2>3. report \in Nat /\ Progress(r) < report
    BY <1>7, <2>1, <2>2
  <2>4. QED
    BY <2>2, <2>3 DEF l, w, f
<1>12. /\ Append(r.reported, report) \in Seq(Nat) /\ Append(r.reported, report) # << >>
       /\ Append(r.reported, report)[Len(Append(r.reported, report))] = report
       /\ Embedding!Increasing(Append(r.reported, report))
  <2>1. /\ Embedding!Increasing(r.reported)
        /\ r.reported # << >> => r.reported[Len(r.reported)] = Progress(r)
    BY <1>2 DEF Underway
  <2> HIDE DEF report
  <2>2. QED
    BY <1>3, <1>11, <2>1, OneMoreReport
<1>13. /\ pc \in {"storing", "embedding"} /\ (pc = "storing" <=> f + m = w)
       /\ f + m <= w
  <2>1. w \in Nat /\ f \in Nat /\ Len(wanted) = w /\ Len(done) = f + m
    BY <1>4, <1>5, <1>9
  <2> HIDE DEF w, f
  <2>2. QED
    BY <1>7, <2>1
<1> HIDE DEF report, pc
<1>14. /\ new.pc = pc /\ new.texts = r.texts /\ new.results = r.results
       /\ new.missing = r.missing /\ new.fresh = done /\ new.stored = 0
       /\ new.reported = Append(r.reported, report)
       /\ new \in Embedding!Job
  BY <1>2, <1>3, <1>9, <1>12, <1>13 DEF Embedding!Job
<1>15. job' = [job EXCEPT ![j] = new]
  BY <1>1
<1> HIDE DEF new
<1>16. Progress(new) = report
  BY <1>9, <1>11, <1>14 DEF Progress
<1>17. Underway(new)
  <2>1. \A i \in 1 .. Len(new.texts) :
          \/ new.results[i] = new.texts[i]
          \/ \E k \in new.stored + 1 .. Len(new.missing) : new.missing[k] = i
    BY <1>2, <1>3, <1>14 DEF Underway
  <2>2. \A k \in 1 .. Len(new.fresh) : new.fresh[k] = new.texts[new.missing[k]]
    BY <1>9, <1>10, <1>14
  <2>3. Len(new.results) = Len(new.texts) /\ new.texts # << >>
    BY <1>2, <1>14 DEF Underway
  <2>4. /\ Len(new.fresh) = f + m
        /\ new.pc = "embedding" => Len(new.fresh) < Len(new.missing)
        /\ new.pc = "storing" => Len(new.fresh) = Len(new.missing) /\ 0 < Len(new.missing)
        /\ Len(new.fresh) <= Len(new.missing)
    BY <1>4, <1>7, <1>9, <1>13, <1>14
  <2>5. new.pc # "done"
    BY <1>13, <1>14
  <2>6. QED
    BY <1>3, <1>12, <1>14, <1>16, <2>1, <2>2, <2>3, <2>4, <2>5 DEF Underway
<1>18. JobOK(new)
  BY <1>14, <1>17 DEF JobOK
<1>19. cached' \subseteq Texts /\ expired' \in Nat
  BY <1>1 DEF EmbeddingInv, Embedding!TypeOK
<1>20. QED
  BY <1>15, <1>18, <1>19, JobMoves

LEMMA PlaceStep ==
  ASSUME EmbeddingInv, NEW j \in Jobs, Embedding!Place(j)
  PROVE  EmbeddingInv'
<1> DEFINE r == job[j]
           n == r.stored + 1
           at == r.missing[n]
           pc == IF n = Len(r.fresh) THEN "done" ELSE "storing"
           results == [r.results EXCEPT ![at] = r.fresh[n]]
           new == [r EXCEPT !.stored = n, !.results = results, !.pc = pc]
<1>1. /\ r.pc = "storing"
      /\ job' = [job EXCEPT ![j] = [r EXCEPT !.stored = n, !.results[at] = r.fresh[n], !.pc = pc]]
      /\ cached' = cached \cup {r.texts[at]} /\ expired' = expired
  BY DEF Embedding!Place
<1>2. r \in Embedding!Job /\ Underway(r)
  BY <1>1 DEF EmbeddingInv, JobOK
<1>3. job' = [job EXCEPT ![j] = new]
  BY <1>1
<1> HIDE DEF r
<1>4. /\ r.texts \in Seq(Texts) /\ r.missing \in Seq(Nat) /\ r.fresh \in Seq(Texts)
      /\ r.results \in Seq(Texts \cup {Embedding!Missing}) /\ Len(r.results) = Len(r.texts)
      /\ r.stored \in Nat /\ Len(r.fresh) = Len(r.missing) /\ r.stored < Len(r.missing)
      /\ \A k \in 1 .. Len(r.missing) : r.missing[k] \in 1 .. Len(r.texts)
      /\ \A k \in 1 .. Len(r.fresh) : r.fresh[k] = r.texts[r.missing[k]]
  BY <1>1, <1>2 DEF Embedding!Job, Underway
<1>5. /\ n \in 1 .. Len(r.missing) /\ n \in Nat /\ Len(r.missing) \in Nat
      /\ Len(r.texts) \in Nat
  BY <1>4
<1>6. /\ at \in 1 .. Len(r.texts) /\ r.fresh[n] = r.texts[at] /\ r.texts[at] \in Texts
  BY <1>4, <1>5
<1>7. pc \in {"done", "storing"} /\ (pc = "done" <=> n = Len(r.missing))
  BY <1>4
<1>8. /\ results \in Seq(Texts \cup {Embedding!Missing}) /\ Len(results) = Len(r.texts)
      /\ results[at] = r.texts[at]
      /\ \A i \in 1 .. Len(r.texts) : i # at => results[i] = r.results[i]
  <2>1. r.results \in [1 .. Len(r.texts) -> Texts \cup {Embedding!Missing}]
    BY <1>4
  <2>2. /\ results \in [1 .. Len(r.texts) -> Texts \cup {Embedding!Missing}]
        /\ results[at] = r.texts[at]
        /\ \A i \in 1 .. Len(r.texts) : i # at => results[i] = r.results[i]
    <3> HIDE DEF at, n
    <3>1. QED
      BY <1>6, <2>1
  <2> HIDE DEF results
  <2>3. QED
    BY <1>5, <2>2, SeqDef, LenProperties
<1> HIDE DEF results, pc
<1>9. /\ new.pc = pc /\ new.texts = r.texts /\ new.results = results
      /\ new.missing = r.missing /\ new.fresh = r.fresh /\ new.stored = n
      /\ new.reported = r.reported /\ new \in Embedding!Job
  <2> HIDE DEF n
  <2>1. QED
    BY <1>2, <1>5, <1>7, <1>8 DEF Embedding!Job
<1> HIDE DEF new
<1>10. \A i \in 1 .. Len(new.texts) :
         \/ new.results[i] = new.texts[i]
         \/ \E k \in new.stored + 1 .. Len(new.missing) : new.missing[k] = i
  <2>1. SUFFICES ASSUME NEW i \in 1 .. Len(r.texts), i # at, r.results[i] # r.texts[i]
                 PROVE  \E k \in n + 1 .. Len(r.missing) : r.missing[k] = i
    BY <1>8, <1>9
  <2>2. PICK k \in r.stored + 1 .. Len(r.missing) : r.missing[k] = i
    BY <1>2, <2>1 DEF Underway
  <2>3. k # n
    BY <2>1, <2>2
  <2>4. k \in n + 1 .. Len(r.missing)
    BY <1>4, <1>5, <2>2, <2>3
  <2>5. QED
    BY <2>2, <2>4
<1>11. Underway(new)
  <2>1. /\ new.pc = "storing" => new.stored < Len(new.missing)
        /\ new.pc = "done" => new.stored = Len(new.missing)
        /\ new.pc # "embedding"
    BY <1>5, <1>7, <1>9
  <2>2. Progress(new) = Progress(r)
    BY <1>9 DEF Progress
  <2>3. QED
    BY <1>2, <1>4, <1>8, <1>9, <1>10, <2>1, <2>2 DEF Underway
<1>12. JobOK(new)
  BY <1>9, <1>11 DEF JobOK
<1>13. cached' \subseteq Texts /\ expired' \in Nat
  BY <1>1, <1>6 DEF EmbeddingInv, Embedding!TypeOK
<1>14. QED
  BY <1>3, <1>12, <1>13, JobMoves

LEMMA RefuseStep ==
  ASSUME EmbeddingInv, NEW j \in Jobs, Embedding!Refuse(j) \/ Embedding!Break(j)
  PROVE  EmbeddingInv'
<1> DEFINE r == job[j]
           again == [r EXCEPT !.attempts = @ + 1]
           failed == [r EXCEPT !.pc = "failed", !.fresh = << >>, !.attempts = 0]
<1>1. job \in [Jobs -> Embedding!Job] /\ JobOK(r)
  BY DEF EmbeddingInv, Embedding!TypeOK
<1>2. /\ job' = [job EXCEPT ![j] = again] \/ job' = [job EXCEPT ![j] = failed]
      /\ UNCHANGED << cached, expired >>
  BY <1>1 DEF Embedding!Refuse, Embedding!Break
<1>3. r \in Embedding!Job
  BY <1>1 DEF JobOK
<1> HIDE DEF r
<1>4. JobOK(failed)
  <2>1. failed \in Embedding!Job /\ failed.pc = "failed"
    <3>1. << >> \in Seq(Texts) /\ 0 \in Nat
      OBVIOUS
    <3>2. QED
      BY <1>3, <3>1 DEF Embedding!Job
  <2> HIDE DEF failed
  <2>2. QED
    BY <2>1 DEF JobOK
<1>5. JobOK(again)
  <2>1. again \in Embedding!Job
    <3>1. r.attempts \in Nat /\ r.attempts + 1 \in Nat
      BY <1>3 DEF Embedding!Job
    <3>2. QED
      BY <1>3, <3>1 DEF Embedding!Job
  <2>2. /\ again.pc = r.pc /\ again.texts = r.texts /\ again.results = r.results
        /\ again.missing = r.missing /\ again.fresh = r.fresh /\ again.stored = r.stored
        /\ again.reported = r.reported
    BY <1>3 DEF Embedding!Job
  <2> HIDE DEF again, r
  <2>3. Underway(r) => Underway(again)
    <3>1. SUFFICES ASSUME Underway(r) PROVE Underway(again)
      OBVIOUS
    <3>2. /\ Len(again.results) = Len(again.texts) /\ again.texts # << >>
          /\ Len(again.missing) <= Len(again.texts)
          /\ \A k \in 1 .. Len(again.missing) : again.missing[k] \in 1 .. Len(again.texts)
          /\ Len(again.fresh) <= Len(again.missing)
          /\ \A k \in 1 .. Len(again.fresh) : again.fresh[k] = again.texts[again.missing[k]]
      BY <2>2, <3>1 DEF Underway
    <3>3. \A i \in 1 .. Len(again.texts) :
            \/ again.results[i] = again.texts[i]
            \/ \E k \in again.stored + 1 .. Len(again.missing) : again.missing[k] = i
      BY <2>2, <3>1 DEF Underway
    <3>4. Progress(again) = Progress(r)
      BY <2>2 DEF Progress
    <3>5. /\ Embedding!Increasing(again.reported)
          /\ IF again.reported = << >> THEN Progress(again) = 0
             ELSE again.reported[Len(again.reported)] = Progress(again)
      BY <2>2, <3>1, <3>4 DEF Underway
    <3>6. /\ again.pc = "embedding" => again.stored = 0 /\ Len(again.fresh) < Len(again.missing)
          /\ again.pc = "storing" =>
               Len(again.fresh) = Len(again.missing) /\ again.stored < Len(again.missing)
          /\ again.pc = "done" =>
               Len(again.fresh) = Len(again.missing) /\ again.stored = Len(again.missing)
      BY <2>2, <3>1 DEF Underway
    <3>7. QED
      BY <3>2, <3>3, <3>5, <3>6 DEF Underway
  <2>4. QED
    BY <1>1, <2>1, <2>2, <2>3 DEF JobOK, r
<1> HIDE DEF again, failed
<1>6. cached' \subseteq Texts /\ expired' \in Nat
  BY <1>2 DEF EmbeddingInv, Embedding!TypeOK
<1>7. QED
  BY <1>2, <1>4, <1>5, <1>6, JobMoves

LEMMA EmbeddingNext ==
  ASSUME Embedding!ConstantsAssumption, EmbeddingInv, [Embedding!Next]_(Embedding!vars)
  PROVE  EmbeddingInv'
<1>1. ASSUME UNCHANGED job, cached' \subseteq Texts, expired' \in Nat PROVE EmbeddingInv'
  <2>1. job' = job
    BY <1>1
  <2>2. Embedding!TypeOK'
    BY <1>1, <2>1 DEF EmbeddingInv, Embedding!TypeOK, Embedding!Job
  <2>3. ASSUME NEW j \in Jobs PROVE JobOK(job[j])'
    <3>1. JobOK(job'[j])
      BY <2>1 DEF EmbeddingInv
    <3>2. QED
      BY <3>1 DEF JobOK, Underway, Progress, Embedding!Increasing, Embedding!Job
  <2>4. QED
    BY <2>2, <2>3 DEF EmbeddingInv
<1>2. CASE UNCHANGED Embedding!vars
  BY <1>1, <1>2 DEF Embedding!vars, EmbeddingInv, Embedding!TypeOK
<1>3. ASSUME NEW t \in Texts, Embedding!Expire(t) PROVE EmbeddingInv'
  BY <1>1, <1>3 DEF Embedding!Expire, EmbeddingInv, Embedding!TypeOK
<1>4. ASSUME NEW j \in Jobs, Embedding!Again(j) PROVE EmbeddingInv'
  BY <1>4, IdleOK, JobMoves DEF Embedding!Again, EmbeddingInv, Embedding!TypeOK
<1>5. QED
  BY <1>2, <1>3, <1>4, LookUpStep, EmbedStep, PlaceStep, RefuseStep DEF Embedding!Next

\* What a job is done with is in place and was reported.
LEMMA DoneIsWhole ==
  ASSUME EmbeddingInv PROVE Embedding!VectorsKeepTheirPlaces
<1>1. SUFFICES ASSUME NEW j \in Jobs, job[j].pc = "done"
               PROVE  /\ job[j].results = job[j].texts
                      /\ Embedding!Increasing(job[j].reported)
                      /\ Embedding!Last(job[j].reported) = Len(job[j].texts)
  BY DEF Embedding!VectorsKeepTheirPlaces
<1> DEFINE r == job[j]
<1>2. r \in Embedding!Job /\ Underway(r) /\ r.pc = "done"
  BY <1>1 DEF EmbeddingInv, JobOK
<1> HIDE DEF r
<1>3. /\ r.texts \in Seq(Texts) /\ r.missing \in Seq(Nat) /\ r.fresh \in Seq(Texts)
      /\ r.results \in Seq(Texts \cup {Embedding!Missing}) /\ Len(r.results) = Len(r.texts)
      /\ r.stored = Len(r.missing) /\ Len(r.fresh) = Len(r.missing) /\ r.texts # << >>
      /\ Embedding!Increasing(r.reported)
      /\ IF r.reported = << >> THEN Progress(r) = 0
         ELSE r.reported[Len(r.reported)] = Progress(r)
  BY <1>2 DEF Embedding!Job, Underway
<1>4. Len(r.missing) \in Nat /\ Len(r.texts) \in Nat \ {0}
  BY <1>3
<1>5. \A i \in 1 .. Len(r.texts) : r.results[i] = r.texts[i]
  <2>1. \A i \in 1 .. Len(r.texts) :
          \/ r.results[i] = r.texts[i]
          \/ \E k \in r.stored + 1 .. Len(r.missing) : r.missing[k] = i
    BY <1>2 DEF Underway
  <2>2. r.stored + 1 .. Len(r.missing) = {}
    BY <1>3, <1>4
  <2>3. QED
    BY <2>1, <2>2
<1>6. r.results = r.texts
  <2>1. /\ r.results = [i \in 1 .. Len(r.results) |-> r.results[i]]
        /\ r.texts = [i \in 1 .. Len(r.texts) |-> r.texts[i]]
    BY <1>3
  <2>2. QED
    BY <1>3, <1>5, <2>1
<1>7. Progress(r) = Len(r.texts)
  BY <1>3, <1>4 DEF Progress
<1>8. Embedding!Last(r.reported) = Len(r.texts)
  BY <1>3, <1>4, <1>7 DEF Embedding!Last
<1>9. QED
  BY <1>3, <1>6, <1>8 DEF r

\* Each text gets its own vector at its own place, and the progress ends at the whole, for any
\* number of jobs over one cache, any batches, retries and expiries.
THEOREM VectorsAreInPlace ==
  ASSUME Embedding!ConstantsAssumption
  PROVE  Embedding!Spec => [](Embedding!TypeOK /\ Embedding!VectorsKeepTheirPlaces)
<1>1. Embedding!Init => EmbeddingInv
  BY IdleOK DEF Embedding!Init, EmbeddingInv, Embedding!TypeOK, JobOK
<1>2. EmbeddingInv /\ [Embedding!Next]_(Embedding!vars) => EmbeddingInv'
  BY EmbeddingNext
<1>3. EmbeddingInv => Embedding!TypeOK /\ Embedding!VectorsKeepTheirPlaces
  BY DoneIsWhole DEF EmbeddingInv
<1>4. QED
  BY <1>1, <1>2, <1>3, PTL DEF Embedding!Spec

-----------------------------------------------------------------------------
(* The chunker.  Its recursive functions exist: they are built from the    *)
(* first value on, by a function that gives each value from the one        *)
(* before it.                                                              *)

LEMMA LeastOf ==
  ASSUME NEW T, T \subseteq Nat, T # {}
  PROVE  \E n \in T : \A m \in T : n <= m
<1>1. \E n \in T : \A m \in T : ~(<< m, n >> \in OpToRel(<, Nat))
  BY Zenon, NatLessThanWellFounded, WFMin
<1>2. PICK n \in T : \A m \in T : << m, n >> \notin OpToRel(<, Nat)
  BY Zenon, <1>1
<1>3. ASSUME NEW m \in T PROVE n <= m
  <2>1. ~(m < n)
    BY <1>2 DEF OpToRel
  <2> QED
    BY <2>1
<1> QED
  BY <1>3

\* A set that has 0, and with a number the next one.
LEMMA OneByOne ==
  ASSUME NEW N \in Nat, NEW S, 0 \in S, \A m \in 0 .. N - 1 : m \in S => m + 1 \in S
  PROVE  \A m \in 0 .. N : m \in S
<1> DEFINE T == {m \in 0 .. N : m \notin S}
<1>1. SUFFICES T = {}
  OBVIOUS
<1>2. SUFFICES ASSUME T # {} PROVE FALSE
  OBVIOUS
<1>2a. T \subseteq Nat
  OBVIOUS
<1>2b. PICK R : R = T
  OBVIOUS
<1>2c. \E n \in R : \A m \in R : n <= m
  <2> HIDE DEF T
  <2>1. R \subseteq Nat /\ R # {}
    BY <1>2, <1>2a, <1>2b
  <2> QED
    BY Zenon, <2>1, LeastOf
<1>3. PICK n \in T : \A m \in T : n <= m
  BY Zenon, <1>2b, <1>2c
<1>4. n # 0 /\ n - 1 \in 0 .. N - 1 /\ n - 1 \in 0 .. N /\ n - 1 + 1 = n
  BY <1>3
<1>5. n - 1 \notin T
  BY <1>3, <1>4
<1>6. n \in S
  BY <1>4, <1>5
<1>7. QED
  BY <1>3, <1>6

Unfolds(f, A, a, N, g) ==
  f \in [0 .. N -> A] /\ f[0] = a /\ \A n \in 1 .. N : f[n] = g[<< n, f[n - 1] >>]

LEMMA RecursionExists ==
  ASSUME NEW A, NEW a \in A, NEW N \in Nat, NEW g \in [(1 .. N) \X A -> A]
  PROVE  \E f : Unfolds(f, A, a, N, g)
<1> DEFINE Good(m, f) == /\ f \in [0 .. m -> A] /\ f[0] = a
                         /\ \A n \in 1 .. m : f[n] = g[<< n, f[n - 1] >>]
           S == {m \in Nat : \E f : Good(m, f)}
<1>1. 0 \in S
  <2>1. Good(0, [n \in 0 .. 0 |-> a])
    OBVIOUS
  <2>2. QED
    BY <2>1
<1>2. ASSUME NEW m \in 0 .. N - 1, m \in S PROVE m + 1 \in S
  <2>1. PICK f : Good(m, f)
    BY <1>2
  <2> DEFINE next == g[<< m + 1, f[m] >>]
             h == [n \in 0 .. m + 1 |-> IF n = m + 1 THEN next ELSE f[n]]
  <2>2. m \in Nat /\ m \in 0 .. m /\ m + 1 \in 1 .. N
    OBVIOUS
  <2>3. f[m] \in A
    BY <2>1, <2>2
  <2>4. next \in A
    <3>1. << m + 1, f[m] >> \in (1 .. N) \X A
      BY <2>2, <2>3
    <3>2. QED
      BY <3>1
  <2> HIDE DEF next
  <2>5. h \in [0 .. m + 1 -> A] /\ h[m + 1] = next /\ \A n \in 0 .. m : h[n] = f[n]
    BY <2>1, <2>2, <2>4
  <2> HIDE DEF h
  <2>6. h[0] = a
    BY <2>1, <2>2, <2>5
  <2>7. ASSUME NEW n \in 1 .. m + 1 PROVE h[n] = g[<< n, h[n - 1] >>]
    <3>1. CASE n = m + 1
      <4>1. n - 1 = m
        BY <2>2, <3>1
      <4>2. h[m] = f[m]
        BY <2>2, <2>5
      <4>3. QED
        BY <2>5, <3>1, <4>1, <4>2 DEF next
    <3>2. CASE n # m + 1
      <4>1. n \in 1 .. m /\ n \in 0 .. m /\ n - 1 \in 0 .. m
        BY <2>2, <3>2
      <4>2. h[n] = f[n] /\ h[n - 1] = f[n - 1]
        BY <2>5, <4>1
      <4>3. QED
        BY <2>1, <4>1, <4>2
    <3>3. QED
      BY <3>1, <3>2
  <2>8. Good(m + 1, h)
    BY <2>5, <2>6, <2>7
  <2>9. QED
    BY <2>2, <2>8
<1> HIDE DEF S
<1>3. N \in S
  BY <1>1, <1>2, OneByOne
<1>4. QED
  BY <1>3 DEF S, Unfolds

\* The length of a text, piece by piece.
Measures(f, s) ==
  f = [n \in 0 .. Len(s) |->
         IF n = 0 THEN 0 ELSE f[n - 1] + Chunking!Size(s[n]) + (IF n = 1 THEN 0 ELSE 2)]

LEMMA TextLengthIsFold ==
  ASSUME NEW s
  PROVE  Chunking!TextLength(s) = (CHOOSE f : Measures(f, s))[Len(s)]
  BY DEF Chunking!TextLength, Measures

LEMMA SizeType ==
  ASSUME NEW p \in Chunking!Piece
  PROVE  Chunking!Size(p) \in Int
  BY DEF Chunking!Size, Chunking!Piece

Measured(f, s) ==
  /\ f[0] = 0
  /\ \A n \in 1 .. Len(s) :
       f[n] = f[n - 1] + Chunking!Size(s[n]) + (IF n = 1 THEN 0 ELSE 2)
  /\ \A n \in 0 .. Len(s) : f[n] \in Int

LEMMA MeasuresExists ==
  ASSUME NEW s \in Seq(Chunking!Piece), NEW f, f = CHOOSE h : Measures(h, s)
  PROVE  Measured(f, s)
<1> DEFINE N == Len(s)
           step(n, x) == x + Chunking!Size(s[n]) + (IF n = 1 THEN 0 ELSE 2)
           g == [z \in (1 .. N) \X Int |-> step(z[1], z[2])]
<1>1. N \in Nat /\ \A n \in 1 .. N : Chunking!Size(s[n]) \in Int
  BY SizeType
<1> HIDE DEF N
<1>2. g \in [(1 .. N) \X Int -> Int]
  BY <1>1
<1>3. \A n \in 1 .. N, x \in Int : g[<< n, x >>] = step(n, x)
  OBVIOUS
<1> HIDE DEF g
<1>4. 0 \in Int
  OBVIOUS
<1>4a. PICK h : Unfolds(h, Int, 0, N, g)
  BY <1>1, <1>2, <1>4, RecursionExists
<1>5. h \in [0 .. N -> Int] /\ h[0] = 0 /\ \A n \in 1 .. N : h[n] = g[<< n, h[n - 1] >>]
  BY <1>4a DEF Unfolds
<1>6. ASSUME NEW n \in 1 .. N PROVE h[n] = step(n, h[n - 1])
  <2>1. n - 1 \in 0 .. N
    BY <1>1
  <2>2. h[n - 1] \in Int
    BY <1>5, <2>1
  <2>3. QED
    BY <1>3, <1>5, <2>2
<1>7. h = [n \in 0 .. N |-> h[n]]
  BY <1>5
<1>8. \A n \in 0 .. N : h[n] = IF n = 0 THEN 0 ELSE step(n, h[n - 1])
  <2>1. \A n \in 0 .. N : n = 0 \/ n \in 1 .. N
    BY <1>1
  <2>2. QED
    BY <1>5, <1>6, <2>1
<1>9. h = [n \in 0 .. N |-> IF n = 0 THEN 0 ELSE step(n, h[n - 1])]
  BY <1>7, <1>8
<1>10. Measures(h, s)
  BY <1>9 DEF Measures, N
<1>11. Measures(f, s)
  BY <1>10
<1>12. /\ f[0] = 0
       /\ \A n \in 1 .. N : f[n] = step(n, f[n - 1])
  <2>1. \A n \in 0 .. N : f[n] = IF n = 0 THEN 0 ELSE step(n, f[n - 1])
    BY <1>11 DEF Measures, N
  <2>2. 0 \in 0 .. N /\ \A n \in 1 .. N : n \in 0 .. N /\ n # 0
    BY <1>1
  <2>3. QED
    BY <2>1, <2>2
<1> DEFINE S == {n \in 0 .. N : f[n] \in Int}
<1>13. 0 \in S
  BY <1>1, <1>12
<1>14. ASSUME NEW n \in 0 .. N - 1, n \in S PROVE n + 1 \in S
  <2>1. n + 1 \in 1 .. N /\ n + 1 \in 0 .. N /\ (n + 1) - 1 = n
    BY <1>1
  <2>2. f[n + 1] = step(n + 1, f[n])
    BY <1>12, <2>1
  <2>3. f[n] \in Int /\ Chunking!Size(s[n + 1]) \in Int
    BY <1>1, <1>14, <2>1
  <2>4. QED
    BY <2>1, <2>2, <2>3
<1> HIDE DEF S
<1>15. \A n \in 0 .. N : n \in S
  BY <1>1, <1>13, <1>14, OneByOne
<1>16. QED
  BY <1>12, <1>15 DEF S, N, Measured

\* A piece that is appended adds its characters, and a blank line.
LEMMA TextLengthStep ==
  ASSUME NEW s \in Seq(Chunking!Piece), NEW p \in Chunking!Piece
  PROVE  /\ Chunking!TextLength(s) \in Int
         /\ Chunking!TextLength(Append(s, p)) =
              Chunking!TextLength(s) + Chunking!Size(p) + (IF s = << >> THEN 0 ELSE 2)
<1> DEFINE t == Append(s, p)
           n == Len(s)
<1>1. n \in Nat /\ t \in Seq(Chunking!Piece) /\ Len(t) = n + 1 /\ t[n + 1] = p
      /\ \A k \in 1 .. n : t[k] = s[k]
  OBVIOUS
<1>2. s = << >> <=> n + 1 = 1
  <2>1. n = 0 <=> s = << >>
    BY EmptySeq
  <2>2. QED
    BY <1>1, <2>1
<1> HIDE DEF t, n
<1>3. PICK f : f = CHOOSE h : Measures(h, s)
  OBVIOUS
<1>4. PICK g : g = CHOOSE h : Measures(h, t)
  OBVIOUS
<1>5. Chunking!TextLength(s) = f[n] /\ Chunking!TextLength(t) = g[n + 1]
  BY <1>1, <1>3, <1>4, TextLengthIsFold DEF n
<1>6. /\ f[0] = 0
      /\ \A k \in 1 .. n :
           f[k] = f[k - 1] + Chunking!Size(s[k]) + (IF k = 1 THEN 0 ELSE 2)
      /\ \A k \in 0 .. n : f[k] \in Int
  <2>1. Measured(f, s)
    BY <1>3, MeasuresExists
  <2>2. QED
    BY <2>1 DEF Measured, n
<1>7. /\ g[0] = 0
      /\ \A k \in 1 .. n + 1 :
           g[k] = g[k - 1] + Chunking!Size(t[k]) + (IF k = 1 THEN 0 ELSE 2)
  <2>1. /\ g[0] = 0
        /\ \A k \in 1 .. Len(t) :
             g[k] = g[k - 1] + Chunking!Size(t[k]) + (IF k = 1 THEN 0 ELSE 2)
    <3>1. Measured(g, t)
      BY <1>1, <1>4, MeasuresExists
    <3>2. QED
      BY <3>1 DEF Measured
  <2>2. QED
    BY <1>1, <2>1
<1> DEFINE S == {k \in 0 .. n : g[k] = f[k]}
<1>8. 0 \in S
  BY <1>1, <1>6, <1>7
<1>9. ASSUME NEW k \in 0 .. n - 1, k \in S PROVE k + 1 \in S
  <2>1. k + 1 \in 1 .. n /\ k + 1 \in 1 .. n + 1 /\ k + 1 \in 0 .. n /\ (k + 1) - 1 = k
    BY <1>1
  <2>2. f[k + 1] = f[k] + Chunking!Size(s[k + 1]) + (IF k + 1 = 1 THEN 0 ELSE 2)
    BY <1>6, <2>1
  <2>3. g[k + 1] = g[k] + Chunking!Size(t[k + 1]) + (IF k + 1 = 1 THEN 0 ELSE 2)
    BY <1>7, <2>1
  <2>4. t[k + 1] = s[k + 1] /\ g[k] = f[k]
    BY <1>1, <1>9, <2>1
  <2>5. QED
    BY <2>1, <2>2, <2>3, <2>4
<1> HIDE DEF S
<1>10. n \in S
  <2>1. \A m \in 0 .. n : m \in S
    BY <1>1, <1>8, <1>9, OneByOne
  <2>2. n \in 0 .. n
    BY <1>1
  <2>3. QED
    BY <2>1, <2>2
<1>11. g[n] = f[n] /\ f[n] \in Int
  BY <1>1, <1>6, <1>10 DEF S
<1>12. g[n + 1] = g[n] + Chunking!Size(t[n + 1]) + (IF n + 1 = 1 THEN 0 ELSE 2)
  <2>1. n + 1 \in 1 .. n + 1 /\ (n + 1) - 1 = n
    BY <1>1
  <2>2. QED
    BY <1>7, <2>1
<1>13. QED
  BY <1>1, <1>2, <1>5, <1>11, <1>12 DEF t

LEMMA CutSplits ==
  ASSUME NEW a \in Int, NEW b \in Int, b > 0, a >= 0
  PROVE  a = b * (a \div b) + (a % b)
  OBVIOUS

LEMMA CutQuotient ==
  ASSUME NEW a \in Nat, NEW b \in Nat \ {0}
  PROVE  a \div b \in Nat /\ b * (a \div b) <= a /\ a < b * (a \div b) + b
<1>1. a \in Int /\ b \in Int /\ b > 0 /\ a >= 0
  OBVIOUS
<1>2. a \div b \in Int /\ a \div b >= 0
  BY <1>1
<1>3. a % b \in 0 .. b - 1
  BY <1>1
<1>4. a = b * (a \div b) + (a % b)
  BY <1>1, CutSplits
<1> DEFINE q == a \div b
           m == a % b
           x == b * q
<1>5. x \in Int
  BY <1>2
<1> HIDE DEF q, m
<1>6. a = x + m /\ m \in 0 .. b - 1
  BY <1>3, <1>4 DEF q, m
<1> HIDE DEF x
<1>7. x <= a /\ a < x + b
  BY <1>5, <1>6
<1>8. QED
  BY <1>2, <1>7 DEF x, q

LEMMA CutMultiples ==
  ASSUME NEW a \in Nat, NEW b \in Nat, NEW c \in Nat, a < b
  PROVE  c * a \in Nat /\ c * b \in Nat /\ c * a + c <= c * b
<1>1. c * (a + 1) = c * a + c
  OBVIOUS
<1>2. c * (a + 1) <= c * b
  OBVIOUS
<1>3. QED
  BY <1>1, <1>2

Ordered(s) == \A i, j \in 1 .. Len(s) : i < j => Chunking!Precedes(s[i], s[j])

\* The pieces of a paragraph are short enough, in order, and leave no character out.
LEMMA CutIsWhole ==
  ASSUME Chunking!ConstantsAssumption, NEW p \in Chunking!Paragraph, NEW budget \in Nat \ {0},
         NEW c, c = Chunking!Cut(p, budget)
  PROVE  /\ c \in Seq(Chunking!Piece) /\ c # << >>
         /\ \A i \in 1 .. Len(c) : c[i].line = p.line /\ Chunking!Size(c[i]) <= budget
         /\ \A i, j \in 1 .. Len(c) : i < j => c[i].from < c[j].from
         /\ \A at \in 1 .. p.length :
              \E i \in 1 .. Len(c) : c[i].from <= at /\ at <= c[i].to
<1> DEFINE step == IF p.length <= budget THEN p.length
                   ELSE IF budget > Overlap THEN budget - Overlap ELSE 1
           q == (p.length - 1) \div step
           from(i) == (i - 1) * step + 1
           to(i) == Chunking!Shorter(p.length, (i - 1) * step + budget)
           n == q + 1
<1>1. p.length \in Nat \ {0} /\ p.line \in 1 .. MaxLines /\ Overlap \in Nat
  BY DEF Chunking!ConstantsAssumption, Chunking!Paragraph
<1>2. step \in Nat \ {0} /\ step <= budget
  BY <1>1
<1>3. c = [i \in 1 .. n |-> [line |-> p.line, from |-> from(i), to |-> to(i)]]
  BY DEF Chunking!Cut
<1> DEFINE top == p.length - 1
<1>4. top \in Nat
  BY <1>1
<1> HIDE DEF step
<1>5. q \in Nat /\ step * q <= top /\ top < step * q + step /\ step * q \in Nat
  <2>1. q = top \div step
    OBVIOUS
  <2> HIDE DEF top, q
  <2>2. q \in Nat /\ step * q <= top /\ top < step * q + step
    BY <1>2, <1>4, <2>1, CutQuotient
  <2>3. step * q \in Nat
    BY <1>2, <2>2
  <2>4. QED
    BY <2>2, <2>3
<1> HIDE DEF q
<1>6. ASSUME NEW i \in 1 .. n
      PROVE  /\ step * (i - 1) \in Nat /\ step * (i - 1) <= top
             /\ from(i) = step * (i - 1) + 1
             /\ to(i) \in Nat \ {0} /\ from(i) <= to(i) /\ to(i) <= p.length
             /\ to(i) - from(i) + 1 <= budget
             /\ to(i) = p.length \/ to(i) = step * (i - 1) + budget
  <2> DEFINE k == i - 1
             x == step * k
  <2>1. k \in Nat /\ k <= q
    BY <1>5
  <2>2. x \in Nat /\ x <= step * q
    <3>1. CASE k = q
      BY <1>5, <3>1
    <3>2. CASE k # q
      <4>1. k < q
        BY <1>5, <2>1, <3>2
      <4> HIDE DEF k
      <4>2. x \in Nat /\ x + step <= step * q
        BY <1>2, <1>5, <2>1, <4>1, CutMultiples
      <4>3. QED
        BY <1>2, <1>5, <4>2
    <3>3. QED
      BY <3>1, <3>2
  <2>3. (i - 1) * step = x
    BY <1>2, <2>1
  <2>4. from(i) = x + 1 /\ to(i) = IF p.length < x + budget THEN p.length ELSE x + budget
    BY <2>3 DEF Chunking!Shorter
  <2> HIDE DEF x, from, to
  <2>5. x <= top
    BY <1>4, <1>5, <2>2
  <2>6. QED
    BY <1>1, <1>4, <2>2, <2>4, <2>5 DEF x, top
<1>7. n \in Nat \ {0}
  BY <1>5
<1> HIDE DEF from, to, n
<1>8. \A i \in 1 .. n : /\ c[i] \in Chunking!Piece
                        /\ c[i].line = p.line /\ c[i].from = from(i) /\ c[i].to = to(i)
  <2>1. SUFFICES ASSUME NEW i \in 1 .. n
                 PROVE  /\ c[i] \in Chunking!Piece
                        /\ c[i].line = p.line /\ c[i].from = from(i) /\ c[i].to = to(i)
    OBVIOUS
  <2>2. c[i] = [line |-> p.line, from |-> from(i), to |-> to(i)]
    BY <1>3
  <2>3. from(i) \in Nat \ {0} /\ to(i) \in Nat \ {0}
    BY <1>6
  <2>4. QED
    BY <1>1, <2>2, <2>3 DEF Chunking!Piece
<1>9. c \in Seq(Chunking!Piece) /\ Len(c) = n /\ c # << >>
  <2>1. c \in [1 .. n -> Chunking!Piece]
    BY <1>3, <1>8
  <2>2. c \in Seq(Chunking!Piece) /\ Len(c) = n
    BY <1>7, <2>1, SeqDef, LenProperties
  <2>3. QED
    BY <1>7, <2>2, EmptySeq
<1>10. \A i \in 1 .. Len(c) : c[i].line = p.line /\ Chunking!Size(c[i]) <= budget
  BY <1>6, <1>8, <1>9 DEF Chunking!Size
<1>11. ASSUME NEW i \in 1 .. n, NEW j \in 1 .. n, i < j PROVE from(i) < from(j)
  <2> DEFINE k == i - 1
             l == j - 1
  <2>1. k \in Nat /\ l \in Nat /\ k < l
    BY <1>7, <1>11
  <2>2. from(i) = step * k + 1 /\ from(j) = step * l + 1
    BY <1>6
  <2> HIDE DEF k, l
  <2>3. step * k \in Nat /\ step * l \in Nat /\ step * k + step <= step * l
    BY <1>2, <2>1, CutMultiples
  <2>4. QED
    BY <1>2, <2>2, <2>3
<1>12. ASSUME NEW at \in 1 .. p.length
       PROVE  \E i \in 1 .. n : from(i) <= at /\ at <= to(i)
  <2> DEFINE b == at - 1
             k == b \div step
  <2>1. b \in Nat /\ b <= top /\ at = b + 1
    BY <1>1, <1>4
  <2> HIDE DEF b
  <2>2. k \in Nat /\ step * k <= b /\ b < step * k + step
    BY <1>2, <2>1, CutQuotient
  <2> HIDE DEF k
  <2>3. step * k \in Nat
    BY <1>2, <2>2
  <2>4. k <= q
    <3>1. SUFFICES ASSUME q < k PROVE FALSE
      BY <1>5, <2>2
    <3>2. step * q + step <= step * k
      BY <1>2, <1>5, <2>2, <3>1, CutMultiples
    <3>3. QED
      BY <1>2, <1>4, <1>5, <2>1, <2>2, <2>3, <3>2
  <2> DEFINE i == k + 1
  <2>5. i \in 1 .. n /\ i - 1 = k
    BY <1>5, <2>2, <2>4 DEF n
  <2>6. from(i) = step * k + 1 /\ (to(i) = p.length \/ to(i) = step * k + budget)
    BY <1>6, <2>5
  <2> HIDE DEF i
  <2>7. from(i) <= at /\ at <= to(i)
    BY <1>1, <1>2, <2>1, <2>2, <2>3, <2>6
  <2>8. QED
    BY <2>5, <2>7
<1>13. QED
  BY <1>8, <1>9, <1>10, <1>11, <1>12

\* The pieces of one paragraph after the other.
Joins(f, seqs) == f = [i \in 1 .. Len(seqs) |-> IF i = 1 THEN seqs[i] ELSE f[i - 1] \o seqs[i]]

LEMMA FlattenIsFold ==
  ASSUME NEW seqs
  PROVE  Chunking!FlattenSeq(seqs) =
           IF Len(seqs) = 0 THEN seqs ELSE (CHOOSE f : Joins(f, seqs))[Len(seqs)]
  BY DEF Chunking!FlattenSeq, Joins

LEMMA FlattenUnfolds ==
  ASSUME NEW S, NEW seqs \in Seq(Seq(S))
  PROVE  \E f \in [0 .. Len(seqs) -> Seq(S)] :
           /\ f[0] = << >>
           /\ \A n \in 1 .. Len(seqs) : f[n] = f[n - 1] \o seqs[n]
           /\ Chunking!FlattenSeq(seqs) = f[Len(seqs)]
<1> DEFINE N == Len(seqs)
           g == [z \in (1 .. N) \X Seq(S) |-> z[2] \o seqs[z[1]]]
<1>1. N \in Nat /\ \A n \in 1 .. N : seqs[n] \in Seq(S)
  OBVIOUS
<1> HIDE DEF N
<1>2. ASSUME NEW z \in (1 .. N) \X Seq(S) PROVE z[2] \o seqs[z[1]] \in Seq(S)
  <2>1. z[2] \in Seq(S) /\ seqs[z[1]] \in Seq(S)
    BY <1>1
  <2>2. QED
    BY <2>1, ConcatProperties
<1>3. g \in [(1 .. N) \X Seq(S) -> Seq(S)]
  BY <1>2
<1>4. \A n \in 1 .. N, x \in Seq(S) : g[<< n, x >>] = x \o seqs[n]
  OBVIOUS
<1> HIDE DEF g
<1>5. << >> \in Seq(S)
  OBVIOUS
<1>5a. PICK f : Unfolds(f, Seq(S), << >>, N, g)
  BY <1>1, <1>3, <1>5, RecursionExists
<1>6. f \in [0 .. N -> Seq(S)] /\ f[0] = << >> /\ \A n \in 1 .. N : f[n] = g[<< n, f[n - 1] >>]
  BY <1>5a DEF Unfolds
<1>7. ASSUME NEW n \in 1 .. N PROVE f[n] = f[n - 1] \o seqs[n] /\ f[n - 1] \in Seq(S)
  <2>1. n - 1 \in 0 .. N
    BY <1>1
  <2>2. f[n - 1] \in Seq(S)
    BY <1>6, <2>1
  <2>3. QED
    BY <1>4, <1>6, <2>2
<1>8. N > 0 => f[1] = seqs[1]
  <2>1. SUFFICES ASSUME N > 0 PROVE f[1] = seqs[1]
    OBVIOUS
  <2>2. 1 \in 1 .. N /\ 1 - 1 = 0
    BY <1>1, <2>1
  <2>3. f[1] = << >> \o seqs[1]
    BY <1>6, <1>7, <2>2
  <2>4. QED
    BY <1>1, <2>2, <2>3, ConcatEmptySeq
<1> DEFINE h == [i \in 1 .. N |-> f[i]]
<1>9. ASSUME NEW i \in 1 .. N PROVE h[i] = IF i = 1 THEN seqs[i] ELSE h[i - 1] \o seqs[i]
  <2>1. CASE i = 1
    BY <1>1, <1>8, <2>1
  <2>2. CASE i # 1
    <3>1. i - 1 \in 1 .. N
      BY <1>1, <2>2
    <3>2. h[i] = f[i] /\ h[i - 1] = f[i - 1]
      BY <3>1
    <3>3. QED
      BY <1>7, <2>2, <3>2
  <2>3. QED
    BY <2>1, <2>2
<1>10. h = [i \in 1 .. N |-> h[i]]
  OBVIOUS
<1> HIDE DEF h
<1>11. h = [i \in 1 .. N |-> IF i = 1 THEN seqs[i] ELSE h[i - 1] \o seqs[i]]
  BY <1>9, <1>10
<1>12. Joins(h, seqs)
  BY <1>11 DEF Joins, N
<1>13. PICK k : k = CHOOSE j : Joins(j, seqs)
  OBVIOUS
<1>14. Joins(k, seqs)
  BY <1>12, <1>13
<1>15. \A i \in 1 .. N : k[i] = IF i = 1 THEN seqs[i] ELSE k[i - 1] \o seqs[i]
  BY <1>14 DEF Joins, N
<1> DEFINE T == {i \in 0 .. N : i = 0 \/ k[i] = f[i]}
<1>16. 0 \in T
  BY <1>1
<1>17. ASSUME NEW i \in 0 .. N - 1, i \in T PROVE i + 1 \in T
  <2>1. i + 1 \in 1 .. N /\ i + 1 \in 0 .. N /\ (i + 1) - 1 = i
    BY <1>1
  <2>2. CASE i = 0
    <3>1. k[1] = seqs[1] /\ f[1] = seqs[1] /\ i + 1 = 1
      BY <1>1, <1>8, <1>15, <2>1, <2>2
    <3>2. QED
      BY <2>1, <3>1
  <2>3. CASE i # 0
    <3>1. i + 1 # 1 /\ k[i] = f[i]
      BY <1>17, <2>1, <2>3
    <3>2. k[i + 1] = k[i] \o seqs[i + 1]
      BY <1>15, <2>1, <3>1
    <3>3. f[i + 1] = f[i] \o seqs[i + 1]
      BY <1>7, <2>1
    <3>4. QED
      BY <2>1, <3>1, <3>2, <3>3
  <2>4. QED
    BY <2>2, <2>3
<1> HIDE DEF T
<1>18. N \in T
  <2>1. \A m \in 0 .. N : m \in T
    BY <1>1, <1>16, <1>17, OneByOne
  <2>2. N \in 0 .. N
    BY <1>1
  <2>3. QED
    BY <2>1, <2>2
<1>19. Chunking!FlattenSeq(seqs) = f[N]
  <2>1. CASE N = 0
    <3>1. seqs = << >>
      BY <2>1, EmptySeq DEF N
    <3>2. Chunking!FlattenSeq(seqs) = seqs
      BY <2>1, FlattenIsFold DEF N
    <3>3. QED
      BY <1>6, <2>1, <3>1, <3>2
  <2>2. CASE N # 0
    <3>1. Chunking!FlattenSeq(seqs) = k[N]
      BY <1>13, <2>2, FlattenIsFold DEF N
    <3>2. QED
      BY <1>18, <2>2, <3>1 DEF T
  <2>3. QED
    BY <2>1, <2>2
<1>20. QED
  BY <1>6, <1>7, <1>19 DEF N

\* Paragraphs as they follow each other.
Ascending(paragraphs) ==
  /\ paragraphs \in Seq(Chunking!Paragraph)
  /\ \A i, j \in 1 .. Len(paragraphs) : i < j => paragraphs[i].line < paragraphs[j].line

\* Of the first n paragraphs: pieces that are short enough, in order, and leave nothing out.
PiecesOf(pieces, paragraphs, n, budget) ==
  /\ pieces \in Seq(Chunking!Piece)
  /\ \A k \in 1 .. Len(pieces) :
       /\ Chunking!Size(pieces[k]) <= budget
       /\ \E i \in 1 .. n : pieces[k].line = paragraphs[i].line
  /\ Ordered(pieces)
  /\ \A i \in 1 .. n : \A at \in 1 .. paragraphs[i].length :
       \E k \in 1 .. Len(pieces) :
         pieces[k].line = paragraphs[i].line /\ pieces[k].from <= at /\ at <= pieces[k].to

LEMMA PiecesStep ==
  ASSUME Chunking!ConstantsAssumption, NEW paragraphs, Ascending(paragraphs),
         NEW budget \in Nat \ {0}, NEW n \in 0 .. Len(paragraphs) - 1, NEW s,
         PiecesOf(s, paragraphs, n, budget), NEW c,
         c = Chunking!Cut(paragraphs[n + 1], budget)
  PROVE  PiecesOf(s \o c, paragraphs, n + 1, budget)
<1> DEFINE p == paragraphs[n + 1]
           t == s \o c
<1>1. /\ paragraphs \in Seq(Chunking!Paragraph) /\ n \in Nat
      /\ n + 1 \in 1 .. Len(paragraphs) /\ p \in Chunking!Paragraph
  BY DEF Ascending
<1>2. /\ c \in Seq(Chunking!Piece) /\ c # << >>
      /\ \A i \in 1 .. Len(c) : c[i].line = p.line /\ Chunking!Size(c[i]) <= budget
      /\ \A i, j \in 1 .. Len(c) : i < j => c[i].from < c[j].from
      /\ \A at \in 1 .. p.length :
           \E i \in 1 .. Len(c) : c[i].from <= at /\ at <= c[i].to
  BY <1>1, CutIsWhole
<1>3. \A i \in 1 .. n : paragraphs[i].line < p.line
  <2>1. \A i \in 1 .. n : i \in 1 .. Len(paragraphs) /\ i < n + 1
    BY <1>1
  <2>2. QED
    BY <1>1, <2>1 DEF Ascending
<1> HIDE DEF p
<1>4. /\ s \in Seq(Chunking!Piece) /\ Len(s) \in Nat /\ Len(c) \in Nat
      /\ \A k \in 1 .. Len(s) :
           /\ Chunking!Size(s[k]) <= budget
           /\ \E i \in 1 .. n : s[k].line = paragraphs[i].line
      /\ Ordered(s)
  BY <1>2 DEF PiecesOf
<1>5. /\ t \in Seq(Chunking!Piece) /\ Len(t) = Len(s) + Len(c)
      /\ \A i \in 1 .. Len(s) + Len(c) : t[i] = IF i <= Len(s) THEN s[i] ELSE c[i - Len(s)]
  BY <1>2, <1>4, ConcatProperties
<1> HIDE DEF t
<1>6. ASSUME NEW k \in 1 .. Len(t)
      PROVE  \/ k \in 1 .. Len(s) /\ t[k] = s[k]
             \/ k - Len(s) \in 1 .. Len(c) /\ t[k] = c[k - Len(s)] /\ k > Len(s)
  BY <1>4, <1>5
<1>7. ASSUME NEW k \in 1 .. Len(t)
      PROVE  /\ Chunking!Size(t[k]) <= budget
             /\ \E i \in 1 .. n + 1 : t[k].line = paragraphs[i].line
  <2>1. CASE k \in 1 .. Len(s) /\ t[k] = s[k]
    <3>1. PICK i \in 1 .. n : s[k].line = paragraphs[i].line
      BY <1>4, <2>1
    <3>2. i \in 1 .. n + 1
      BY <1>1
    <3>3. QED
      BY <1>4, <2>1, <3>1, <3>2
  <2>2. CASE k - Len(s) \in 1 .. Len(c) /\ t[k] = c[k - Len(s)]
    <3>1. n + 1 \in 1 .. n + 1
      BY <1>1
    <3>2. t[k].line = paragraphs[n + 1].line /\ Chunking!Size(t[k]) <= budget
      BY <1>2, <2>2 DEF p
    <3>3. QED
      BY <3>1, <3>2
  <2>3. QED
    BY <1>6, <2>1, <2>2
<1>8. ASSUME NEW i \in 1 .. Len(t), NEW j \in 1 .. Len(t), i < j
      PROVE  Chunking!Precedes(t[i], t[j])
  <2>1. CASE j \in 1 .. Len(s) /\ t[j] = s[j]
    <3>1. i \in 1 .. Len(s) /\ t[i] = s[i]
      BY <1>4, <1>5, <1>8, <2>1
    <3>2. QED
      BY <1>4, <1>8, <2>1, <3>1 DEF Ordered
  <2>2. CASE j - Len(s) \in 1 .. Len(c) /\ t[j] = c[j - Len(s)]
    <3>1. t[j].line = p.line
      BY <1>2, <2>2
    <3>2. CASE i \in 1 .. Len(s) /\ t[i] = s[i]
      <4>1. PICK l \in 1 .. n : s[i].line = paragraphs[l].line
        BY <1>4, <3>2
      <4>2. QED
        BY <1>3, <3>1, <3>2, <4>1 DEF Chunking!Precedes
    <3>3. CASE i - Len(s) \in 1 .. Len(c) /\ t[i] = c[i - Len(s)]
      <4>1. i - Len(s) < j - Len(s)
        BY <1>4, <1>8
      <4>2. t[i].from < t[j].from /\ t[i].line = p.line
        BY <1>2, <2>2, <3>3, <4>1
      <4>3. QED
        BY <3>1, <4>2 DEF Chunking!Precedes
    <3>4. QED
      BY <1>6, <3>2, <3>3
  <2>3. QED
    BY <1>6, <2>1, <2>2
<1>9. ASSUME NEW i \in 1 .. n + 1, NEW at \in 1 .. paragraphs[i].length
      PROVE  \E k \in 1 .. Len(t) :
               t[k].line = paragraphs[i].line /\ t[k].from <= at /\ at <= t[k].to
  <2>1. CASE i \in 1 .. n
    <3>1. PICK k \in 1 .. Len(s) :
            s[k].line = paragraphs[i].line /\ s[k].from <= at /\ at <= s[k].to
      BY <2>1 DEF PiecesOf
    <3>2. k \in 1 .. Len(t) /\ t[k] = s[k]
      BY <1>4, <1>5
    <3>3. QED
      BY <3>1, <3>2
  <2>2. CASE i = n + 1
    <3>1. PICK k \in 1 .. Len(c) : c[k].from <= at /\ at <= c[k].to
      BY <1>2, <2>2 DEF p
    <3> DEFINE m == Len(s) + k
    <3>2. m \in 1 .. Len(t) /\ ~(m <= Len(s)) /\ m - Len(s) = k
      BY <1>4, <1>5
    <3>3. t[m] = c[k]
      BY <1>5, <3>2
    <3>4. QED
      BY <1>2, <2>2, <3>1, <3>2, <3>3 DEF p
  <2>3. QED
    BY <1>1, <2>1, <2>2
<1>10. QED
  BY <1>5, <1>7, <1>8, <1>9 DEF PiecesOf, Ordered, t

LEMMA PiecesAreWhole ==
  ASSUME Chunking!ConstantsAssumption, NEW paragraphs, Ascending(paragraphs),
         NEW budget \in Nat \ {0}, NEW pieces,
         pieces = Chunking!FlattenSeq([i \in DOMAIN paragraphs |->
                                         Chunking!Cut(paragraphs[i], budget)])
  PROVE  PiecesOf(pieces, paragraphs, Len(paragraphs), budget)
<1> DEFINE N == Len(paragraphs)
           cuts == [i \in DOMAIN paragraphs |-> Chunking!Cut(paragraphs[i], budget)]
<1>1. N \in Nat /\ DOMAIN paragraphs = 1 .. N
      /\ \A i \in 1 .. N : paragraphs[i] \in Chunking!Paragraph
  BY DEF Ascending
<1> HIDE DEF N
<1>2. \A i \in 1 .. N : cuts[i] = Chunking!Cut(paragraphs[i], budget)
                        /\ cuts[i] \in Seq(Chunking!Piece)
  BY <1>1, CutIsWhole
<1>3. cuts \in [1 .. N -> Seq(Chunking!Piece)]
  BY <1>1, <1>2
<1>4. pieces = Chunking!FlattenSeq(cuts)
  OBVIOUS
<1> HIDE DEF cuts
<1>5. cuts \in Seq(Seq(Chunking!Piece)) /\ Len(cuts) = N
  BY <1>1, <1>3, SeqDef, LenProperties
<1>6. PICK f \in [0 .. N -> Seq(Chunking!Piece)] :
        /\ f[0] = << >>
        /\ \A n \in 1 .. N : f[n] = f[n - 1] \o cuts[n]
        /\ pieces = f[N]
  BY <1>4, <1>5, FlattenUnfolds
<1> DEFINE S == {n \in 0 .. N : PiecesOf(f[n], paragraphs, n, budget)}
<1>7. 0 \in S
  <2>1. Len(<< >>) = 0 /\ << >> \in Seq(Chunking!Piece)
    OBVIOUS
  <2>2. PiecesOf(<< >>, paragraphs, 0, budget)
    BY <2>1 DEF PiecesOf, Ordered
  <2>3. QED
    BY <1>1, <1>6, <2>2
<1>8. ASSUME NEW n \in 0 .. N - 1, n \in S PROVE n + 1 \in S
  <2>1. n + 1 \in 1 .. N /\ n + 1 \in 0 .. N /\ (n + 1) - 1 = n
    BY <1>1
  <2>2. f[n + 1] = f[n] \o cuts[n + 1] /\ cuts[n + 1] = Chunking!Cut(paragraphs[n + 1], budget)
    BY <1>2, <1>6, <2>1
  <2>3. PiecesOf(f[n], paragraphs, n, budget)
    BY <1>8
  <2>4. PiecesOf(f[n] \o cuts[n + 1], paragraphs, n + 1, budget)
    BY <2>2, <2>3, PiecesStep DEF N
  <2>5. QED
    BY <2>1, <2>2, <2>4
<1> HIDE DEF S
<1>9. N \in S
  <2>1. \A m \in 0 .. N : m \in S
    BY <1>1, <1>7, <1>8, OneByOne
  <2>2. N \in 0 .. N
    BY <1>1
  <2>3. QED
    BY <2>1, <2>2
<1>10. QED
  BY <1>6, <1>9 DEF S, N

-----------------------------------------------------------------------------
(* The windows of a section.                                               *)

LEMMA TextLengthOfOne ==
  ASSUME NEW p \in Chunking!Piece
  PROVE  Chunking!TextLength(<< p >>) = Chunking!Size(p)
<1>1. << >> \in Seq(Chunking!Piece) /\ Append(<< >>, p) = << p >> /\ Len(<< >>) = 0
  OBVIOUS
<1>2. PICK f : f = CHOOSE h : Measures(h, << >>)
  OBVIOUS
<1>3. f[0] = 0
  BY <1>1, <1>2, MeasuresExists DEF Measured
<1>4. Chunking!TextLength(<< >>) = 0
  BY <1>1, <1>2, <1>3, TextLengthIsFold
<1>5. Chunking!TextLength(Append(<< >>, p)) = 0 + Chunking!Size(p) + 0
  BY <1>1, <1>4, TextLengthStep
<1>6. QED
  BY <1>1, <1>5, SizeType

Windows == Seq(Chunking!Piece)

\* Windows that hold the pieces of D, in order, in texts that fit.
WindowsOf(w, D, budget) ==
  /\ w \in Seq(Windows)
  /\ \A i \in 1 .. Len(w) :
       w[i] # << >> /\ Chunking!TextLength(w[i]) <= budget /\ Ordered(w[i])
  /\ \A i \in 1 .. Len(w) : \A m \in 1 .. Len(w[i]) : w[i][m] \in D
  /\ \A q \in D : \E i \in 1 .. Len(w) : \E m \in 1 .. Len(w[i]) : w[i][m] = q
  /\ \A i, j \in 1 .. Len(w) : i < j =>
       \A m \in 1 .. Len(w[i]), l \in 1 .. Len(w[j]) : Chunking!Precedes(w[i][m], w[j][l])

\* What Pack does: the piece joins the last window, or opens one.
LEMMA PackCases ==
  ASSUME NEW w \in Seq(Windows), NEW p \in Chunking!Piece, NEW budget, NEW v,
         v = Chunking!Pack(w, p, budget)
  PROVE  \/ /\ Len(w) > 0 /\ v \in Seq(Windows) /\ Len(v) = Len(w)
            /\ v[Len(w)] = Append(w[Len(w)], p)
            /\ \A i \in 1 .. Len(w) - 1 : v[i] = w[i]
            /\ Chunking!TextLength(v[Len(w)]) <= budget
         \/ /\ v \in Seq(Windows) /\ Len(v) = Len(w) + 1
            /\ v[Len(w) + 1] = << p >>
            /\ \A i \in 1 .. Len(w) : v[i] = w[i]
<1> DEFINE n == Len(w)
<1>1. n \in Nat /\ (w # << >> <=> n > 0) /\ \A i \in 1 .. n : w[i] \in Windows
  BY EmptySeq
<1>2. CASE w # << >> /\ Chunking!TextLength(Append(Chunking!Last(w), p)) <= budget
  <2> DEFINE u == Append(w[n], p)
  <2>1. n \in 1 .. n /\ Chunking!Last(w) = w[n]
    BY <1>1, <1>2 DEF Chunking!Last
  <2>2. u \in Windows
    <3>1. w[n] \in Seq(Chunking!Piece)
      BY <1>1, <2>1 DEF Windows
    <3>2. QED
      BY <3>1, AppendProperties DEF Windows
  <2>3. v = [w EXCEPT ![n] = u]
    BY <1>2 DEF Chunking!Pack
  <2>4. Chunking!TextLength(u) <= budget
    BY <1>2, <2>1
  <2> HIDE DEF u
  <2>5. w \in [1 .. n -> Windows]
    OBVIOUS
  <2> HIDE DEF n
  <2>6. v \in [1 .. n -> Windows] /\ v[n] = u /\ \A i \in 1 .. n - 1 : v[i] = w[i]
    BY <1>1, <2>1, <2>2, <2>3, <2>5
  <2>7. v \in Seq(Windows) /\ Len(v) = n
    BY <1>1, <2>6, SeqDef, LenProperties
  <2>8. v[n] = u /\ Chunking!TextLength(v[n]) <= budget /\ n > 0
    BY <1>1, <2>1, <2>4, <2>6
  <2>9. /\ Len(w) > 0 /\ v \in Seq(Windows) /\ Len(v) = Len(w)
        /\ v[Len(w)] = Append(w[Len(w)], p)
        /\ \A i \in 1 .. Len(w) - 1 : v[i] = w[i]
        /\ Chunking!TextLength(v[Len(w)]) <= budget
    BY <2>6, <2>7, <2>8 DEF n, u
  <2>10. QED
    BY <2>9
<1>3. CASE ~(w # << >> /\ Chunking!TextLength(Append(Chunking!Last(w), p)) <= budget)
  <2>1. v = Append(w, << p >>)
    BY <1>3 DEF Chunking!Pack
  <2>2. << p >> \in Windows
    BY DEF Windows
  <2> DEFINE u == << p >>
  <2> HIDE DEF u
  <2>3. v = Append(w, u) /\ u \in Windows
    BY <2>1, <2>2 DEF u
  <2>4. v \in Seq(Windows) /\ Len(v) = n + 1 /\ v[n + 1] = u /\ \A i \in 1 .. n : v[i] = w[i]
    BY <2>3, AppendProperties
  <2>5. QED
    BY <2>4 DEF u
<1>4. QED
  BY <1>2, <1>3

LEMMA PackKeeps ==
  ASSUME NEW D, NEW budget \in Nat \ {0}, NEW w, WindowsOf(w, D, budget),
         NEW p \in Chunking!Piece, Chunking!Size(p) <= budget,
         \A q \in D : Chunking!Precedes(q, p)
  PROVE  WindowsOf(Chunking!Pack(w, p, budget), D \cup {p}, budget)
<1> DEFINE v == Chunking!Pack(w, p, budget)
           n == Len(w)
<1>1. /\ w \in Seq(Windows) /\ n \in Nat
      /\ \A i \in 1 .. n :
           /\ w[i] # << >> /\ Chunking!TextLength(w[i]) <= budget /\ Ordered(w[i])
           /\ w[i] \in Seq(Chunking!Piece) /\ Len(w[i]) \in Nat
           /\ \A m \in 1 .. Len(w[i]) : w[i][m] \in D
  <2>1. w \in Seq(Windows)
    BY DEF WindowsOf
  <2>2. n \in Nat /\ \A i \in 1 .. n : w[i] \in Windows
    BY <2>1
  <2>3. \A i \in 1 .. n : w[i] \in Seq(Chunking!Piece) /\ Len(w[i]) \in Nat
    BY <2>2 DEF Windows
  <2>4. QED
    BY <2>1, <2>2, <2>3 DEF WindowsOf
<1>2. \A q \in D : \E i \in 1 .. n : \E m \in 1 .. Len(w[i]) : w[i][m] = q
  BY DEF WindowsOf
<1>3. \A i, j \in 1 .. n : i < j =>
        \A m \in 1 .. Len(w[i]), l \in 1 .. Len(w[j]) : Chunking!Precedes(w[i][m], w[j][l])
  BY DEF WindowsOf
<1>4. PICK x : x = v
  OBVIOUS
<1> HIDE DEF v
<1>5. CASE /\ n > 0 /\ x \in Seq(Windows) /\ Len(x) = n
           /\ x[n] = Append(w[n], p)
           /\ \A i \in 1 .. n - 1 : x[i] = w[i]
           /\ Chunking!TextLength(x[n]) <= budget
  <2> DEFINE z == w[n]
             k == Len(z)
  <2>1. n \in 1 .. n /\ z \in Seq(Chunking!Piece) /\ k \in Nat
        /\ \A m \in 1 .. k : z[m] \in D
    BY <1>1, <1>5
  <2>2. /\ Len(x[n]) = k + 1 /\ x[n] # << >> /\ x[n][k + 1] = p
        /\ \A m \in 1 .. k : x[n][m] = z[m]
    <3> HIDE DEF z
    <3>1. x[n] = Append(z, p)
      BY <1>5 DEF z
    <3>2. QED
      BY <2>1, <3>1, AppendProperties
  <2>3. \A i \in 1 .. n : i = n \/ (i \in 1 .. n - 1 /\ x[i] = w[i])
    BY <1>1, <1>5
  <2>4. Ordered(x[n])
    <3>1. SUFFICES ASSUME NEW i \in 1 .. k + 1, NEW j \in 1 .. k + 1, i < j
                   PROVE  Chunking!Precedes(x[n][i], x[n][j])
      BY <2>2 DEF Ordered
    <3>2. i \in 1 .. k /\ x[n][i] = z[i] /\ z[i] \in D
      BY <2>1, <2>2, <3>1
    <3>3. CASE j = k + 1
      BY <2>2, <3>2, <3>3
    <3>4. CASE j # k + 1
      <4>1. j \in 1 .. k /\ x[n][j] = z[j]
        BY <2>1, <2>2, <3>4
      <4>2. Ordered(z)
        BY <1>1, <2>1
      <4>3. QED
        BY <3>1, <3>2, <4>1, <4>2 DEF Ordered
    <3>5. QED
      BY <3>3, <3>4
  <2> HIDE DEF z, k
  <2>5. \A i \in 1 .. n : x[i] # << >> /\ Chunking!TextLength(x[i]) <= budget /\ Ordered(x[i])
    BY <1>1, <1>5, <2>2, <2>3, <2>4
  <2>6. \A m \in 1 .. k + 1 : m = k + 1 \/ m \in 1 .. k
    BY <2>1
  <2>7. \A i \in 1 .. n : \A m \in 1 .. Len(x[i]) : x[i][m] \in D \cup {p}
    <3>1. ASSUME NEW m \in 1 .. Len(x[n]) PROVE x[n][m] \in D \cup {p}
      BY <2>1, <2>2, <2>6
    <3>2. ASSUME NEW i \in 1 .. n, x[i] = w[i], NEW m \in 1 .. Len(x[i])
          PROVE  x[i][m] \in D \cup {p}
      BY <1>1, <3>2
    <3>3. QED
      BY <2>3, <3>1, <3>2
  <2>8. ASSUME NEW q \in D \cup {p}
        PROVE  \E i \in 1 .. n : \E m \in 1 .. Len(x[i]) : x[i][m] = q
    <3>1. k + 1 \in 1 .. k + 1 /\ \A m \in 1 .. k : m \in 1 .. k + 1
      BY <2>1
    <3>2. CASE q = p
      BY <2>1, <2>2, <3>1, <3>2
    <3>3. CASE q # p
      <4>0. PICK i \in 1 .. n : \E m \in 1 .. Len(w[i]) : w[i][m] = q
        BY <1>2, <3>3
      <4>1. PICK m \in 1 .. Len(w[i]) : w[i][m] = q
        BY <4>0
      <4>2. CASE i = n
        <5>1. m \in 1 .. k /\ x[n][m] = q
          BY <2>2, <4>1, <4>2 DEF k, z
        <5>2. QED
          BY <2>1, <2>2, <3>1, <5>1
      <4>3. CASE i # n
        BY <2>3, <4>1, <4>3
      <4>4. QED
        BY <4>2, <4>3
    <3>4. QED
      BY <3>2, <3>3
  <2>9. ASSUME NEW i \in 1 .. n, NEW j \in 1 .. n, i < j,
               NEW m \in 1 .. Len(x[i]), NEW l \in 1 .. Len(x[j])
        PROVE  Chunking!Precedes(x[i][m], x[j][l])
    <3>1. i # n
      BY <1>1, <2>9
    <3>2. x[i] = w[i] /\ m \in 1 .. Len(w[i]) /\ w[i][m] \in D
      BY <1>1, <2>3, <3>1
    <3>3. CASE j # n
      <4>1. x[j] = w[j]
        BY <2>3, <3>3
      <4>2. QED
        BY <1>3, <2>9, <3>2, <4>1
    <3>4. CASE j = n /\ l = k + 1
      BY <2>2, <3>2, <3>4
    <3>5. CASE j = n /\ l \in 1 .. k
      <4>1. x[j][l] = w[n][l] /\ l \in 1 .. Len(w[n])
        BY <2>2, <3>5 DEF k, z
      <4>2. QED
        BY <1>3, <2>1, <2>9, <3>2, <3>5, <4>1
    <3>6. QED
      BY <2>2, <2>6, <3>3, <3>4, <3>5
  <2>10. WindowsOf(x, D \cup {p}, budget)
    BY <1>5, <2>5, <2>7, <2>8, <2>9 DEF WindowsOf
  <2>11. QED
    BY <1>4, <2>10 DEF v
<1>6. CASE /\ x \in Seq(Windows) /\ Len(x) = n + 1
           /\ x[n + 1] = << p >>
           /\ \A i \in 1 .. n : x[i] = w[i]
  <2>1. \A i \in 1 .. n + 1 : i = n + 1 \/ i \in 1 .. n
    BY <1>1
  <2>2. /\ x[n + 1] # << >> /\ Len(x[n + 1]) = 1 /\ x[n + 1][1] = p
        /\ \A m \in 1 .. 1 : m = 1
    BY <1>6
  <2>3. Ordered(x[n + 1])
    BY <2>2 DEF Ordered
  <2>4. Chunking!TextLength(x[n + 1]) <= budget
    BY <1>6, TextLengthOfOne
  <2>5. \A i \in 1 .. n + 1 :
          x[i] # << >> /\ Chunking!TextLength(x[i]) <= budget /\ Ordered(x[i])
    BY <1>1, <1>6, <2>1, <2>2, <2>3, <2>4
  <2>6. \A i \in 1 .. n + 1 : \A m \in 1 .. Len(x[i]) : x[i][m] \in D \cup {p}
    <3>1. ASSUME NEW m \in 1 .. Len(x[n + 1]) PROVE x[n + 1][m] \in D \cup {p}
      BY <2>2
    <3>2. ASSUME NEW i \in 1 .. n, NEW m \in 1 .. Len(x[i]) PROVE x[i][m] \in D \cup {p}
      BY <1>1, <1>6
    <3>3. QED
      BY <2>1, <3>1, <3>2
  <2>7. ASSUME NEW q \in D \cup {p}
        PROVE  \E i \in 1 .. n + 1 : \E m \in 1 .. Len(x[i]) : x[i][m] = q
    <3>1. n + 1 \in 1 .. n + 1 /\ (\A i \in 1 .. n : i \in 1 .. n + 1) /\ 1 \in 1 .. 1
      BY <1>1
    <3>2. CASE q = p
      BY <2>2, <3>1, <3>2
    <3>3. CASE q # p
      <4>0. PICK i \in 1 .. n : \E m \in 1 .. Len(w[i]) : w[i][m] = q
        BY <1>2, <3>3
      <4>1. PICK m \in 1 .. Len(w[i]) : w[i][m] = q
        BY <4>0
      <4>2. QED
        BY <1>6, <3>1, <4>1
    <3>4. QED
      BY <3>2, <3>3
  <2>8. ASSUME NEW i \in 1 .. n + 1, NEW j \in 1 .. n + 1, i < j,
               NEW m \in 1 .. Len(x[i]), NEW l \in 1 .. Len(x[j])
        PROVE  Chunking!Precedes(x[i][m], x[j][l])
    <3>1. i \in 1 .. n /\ x[i] = w[i]
      BY <1>1, <1>6, <2>8
    <3>2. w[i][m] \in D
      BY <1>1, <3>1
    <3>3. CASE j = n + 1
      BY <2>2, <3>1, <3>2, <3>3
    <3>4. CASE j \in 1 .. n
      BY <1>3, <1>6, <2>8, <3>1, <3>4
    <3>5. QED
      BY <2>1, <3>3, <3>4
  <2>9. WindowsOf(x, D \cup {p}, budget)
    BY <1>6, <2>5, <2>6, <2>7, <2>8 DEF WindowsOf
  <2>10. QED
    BY <1>4, <2>9 DEF v
<1>7. x = Chunking!Pack(w, p, budget)
  BY <1>4 DEF v
<1> HIDE DEF n
<1>8. QED
  BY <1>1, <1>5, <1>6, <1>7, PackCases DEF n

Packs(f, pieces, budget) ==
  f = [n \in 0 .. Len(pieces) |->
         IF n = 0 THEN << >> ELSE Chunking!Pack(f[n - 1], pieces[n], budget)]

LEMMA PackedIsFold ==
  ASSUME NEW pieces, NEW budget
  PROVE  Chunking!Packed(pieces, budget) =
           (CHOOSE f : Packs(f, pieces, budget))[Len(pieces)]
  BY DEF Chunking!Packed, Packs

LEMMA PackedUnfolds ==
  ASSUME NEW pieces \in Seq(Chunking!Piece), NEW budget, NEW f,
         f = CHOOSE h : Packs(h, pieces, budget)
  PROVE  /\ f[0] = << >>
         /\ \A n \in 1 .. Len(pieces) : f[n] = Chunking!Pack(f[n - 1], pieces[n], budget)
<1> DEFINE N == Len(pieces)
           step(n, x) == Chunking!Pack(x, pieces[n], budget)
           A == Seq(Windows)
           g == [z \in (1 .. N) \X A |-> step(z[1], z[2])]
<1>1. N \in Nat /\ \A n \in 1 .. N : pieces[n] \in Chunking!Piece
  OBVIOUS
<1>2. \A n \in 1 .. N, x \in A : step(n, x) \in A
  BY <1>1, PackCases
<1> HIDE DEF N, A, step
<1>3. g \in [(1 .. N) \X A -> A]
  BY <1>2
<1>4. \A n \in 1 .. N, x \in A : g[<< n, x >>] = step(n, x)
  OBVIOUS
<1> HIDE DEF g
<1>5. << >> \in A
  BY DEF A
<1>5a. PICK h : Unfolds(h, A, << >>, N, g)
  BY <1>1, <1>3, <1>5, RecursionExists
<1>6. h \in [0 .. N -> A] /\ h[0] = << >> /\ \A n \in 1 .. N : h[n] = g[<< n, h[n - 1] >>]
  BY <1>5a DEF Unfolds
<1>7. ASSUME NEW n \in 1 .. N PROVE h[n] = step(n, h[n - 1])
  <2>1. n - 1 \in 0 .. N
    BY <1>1
  <2>2. h[n - 1] \in A
    BY <1>6, <2>1
  <2>3. QED
    BY <1>4, <1>6, <2>2
<1>8. h = [n \in 0 .. N |-> h[n]]
  BY <1>6
<1>9. \A n \in 0 .. N : h[n] = IF n = 0 THEN << >> ELSE step(n, h[n - 1])
  <2>1. \A n \in 0 .. N : n = 0 \/ n \in 1 .. N
    BY <1>1
  <2>2. QED
    BY <1>6, <1>7, <2>1
<1>10. h = [n \in 0 .. N |-> IF n = 0 THEN << >> ELSE step(n, h[n - 1])]
  BY <1>8, <1>9
<1>11. Packs(h, pieces, budget)
  BY <1>10 DEF Packs, N, step
<1>12. Packs(f, pieces, budget)
  BY <1>11
<1>13. \A n \in 0 .. N : f[n] = IF n = 0 THEN << >> ELSE step(n, f[n - 1])
  BY <1>12 DEF Packs, N, step
<1>14. 0 \in 0 .. N /\ \A n \in 1 .. N : n \in 0 .. N /\ n # 0
  BY <1>1
<1>15. QED
  BY <1>13, <1>14 DEF N, step

\* The windows hold the pieces, each of them and no other.
LEMMA PackedIsWhole ==
  ASSUME NEW pieces \in Seq(Chunking!Piece), Ordered(pieces), NEW budget \in Nat \ {0},
         \A k \in 1 .. Len(pieces) : Chunking!Size(pieces[k]) <= budget
  PROVE  WindowsOf(Chunking!Packed(pieces, budget), {pieces[k] : k \in 1 .. Len(pieces)}, budget)
<1> DEFINE N == Len(pieces)
           D(n) == {pieces[k] : k \in 1 .. n}
<1>1. N \in Nat /\ \A n \in 1 .. N : pieces[n] \in Chunking!Piece
  OBVIOUS
<1>2. PICK f : f = CHOOSE h : Packs(h, pieces, budget)
  OBVIOUS
<1>3. /\ f[0] = << >>
      /\ \A n \in 1 .. N : f[n] = Chunking!Pack(f[n - 1], pieces[n], budget)
  BY <1>2, PackedUnfolds
<1>4. Chunking!Packed(pieces, budget) = f[N]
  BY <1>2, PackedIsFold
<1> DEFINE S == {n \in 0 .. N : WindowsOf(f[n], D(n), budget)}
<1>5. 0 \in S
  <2>1. << >> \in Seq(Windows) /\ Len(<< >>) = 0 /\ D(0) = {}
    OBVIOUS
  <2>2. WindowsOf(<< >>, {}, budget)
    BY <2>1 DEF WindowsOf
  <2> HIDE DEF D
  <2>3. WindowsOf(f[0], D(0), budget)
    BY <1>3, <2>1, <2>2
  <2>4. QED
    BY <1>1, <2>3
<1>6. ASSUME NEW n \in 0 .. N - 1, n \in S PROVE n + 1 \in S
  <2>1. n + 1 \in 1 .. N /\ n + 1 \in 0 .. N /\ (n + 1) - 1 = n
    BY <1>1
  <2> DEFINE p == pieces[n + 1]
  <2>2. p \in Chunking!Piece /\ Chunking!Size(p) <= budget
    BY <1>1, <2>1
  <2>3. D(n + 1) = D(n) \cup {p}
    <3>1. \A k : k \in 1 .. n + 1 <=> k \in 1 .. n \/ k = n + 1
      BY <1>1
    <3>2. QED
      BY <3>1
  <2>4. \A q \in D(n) : Chunking!Precedes(q, p)
    <3>1. SUFFICES ASSUME NEW k \in 1 .. n PROVE Chunking!Precedes(pieces[k], p)
      OBVIOUS
    <3>2. k \in 1 .. N /\ k < n + 1
      BY <1>1
    <3>3. QED
      BY <2>1, <3>2 DEF Ordered
  <2>5. f[n + 1] = Chunking!Pack(f[n], p, budget)
    BY <1>3, <2>1
  <2>6. WindowsOf(f[n], D(n), budget)
    BY <1>6
  <2> HIDE DEF D, p
  <2>7. WindowsOf(f[n + 1], D(n) \cup {p}, budget)
    BY <2>2, <2>4, <2>5, <2>6, PackKeeps
  <2>8. QED
    BY <2>1, <2>3, <2>7
<1> HIDE DEF S
<1>7. N \in S
  <2>1. \A m \in 0 .. N : m \in S
    BY <1>1, <1>5, <1>6, OneByOne
  <2>2. N \in 0 .. N
    BY <1>1
  <2>3. QED
    BY <2>1, <2>2
<1>8. QED
  BY <1>4, <1>7 DEF S

-----------------------------------------------------------------------------
(* The chunks of a section.                                                *)

Chunk == [under : Seq(1 .. MaxLines), pieces : Seq(Chunking!Piece)]

Fits(c) ==
  Chunking!PrefixLength(c.under) + Chunking!TextLength(c.pieces) <=
    Chunking!Longer(MaxChars, Chunking!PrefixLength(c.under) + 1)

Holds(c, line, at) ==
  \E m \in 1 .. Len(c.pieces) :
    c.pieces[m].line = line /\ c.pieces[m].from <= at /\ at <= c.pieces[m].to

Before(c, d) ==
  \A m \in 1 .. Len(c.pieces), l \in 1 .. Len(d.pieces) :
    Chunking!Precedes(c.pieces[m], d.pieces[l])

\* What the elements of these sets are.
LEMMA ElementTypes ==
  /\ \A p \in Chunking!Piece :
       p.line \in 1 .. MaxLines /\ p.from \in Nat \ {0} /\ p.to \in Nat \ {0}
  /\ \A p \in Chunking!Paragraph : p.line \in 1 .. MaxLines /\ p.length \in Lengths
  /\ \A h \in Chunking!Heading : h.line \in 1 .. MaxLines /\ h.level \in Levels
  /\ \A c \in Chunk : c.under \in Seq(1 .. MaxLines) /\ c.pieces \in Seq(Chunking!Piece)
  BY DEF Chunking!Piece, Chunking!Paragraph, Chunking!Heading, Chunk

LEMMA TextLengthType ==
  ASSUME NEW s \in Seq(Chunking!Piece)
  PROVE  Chunking!TextLength(s) \in Int
<1>1. PICK f : f = CHOOSE h : Measures(h, s)
  OBVIOUS
<1>2. Len(s) \in 0 .. Len(s)
  OBVIOUS
<1>3. f[Len(s)] \in Int
  BY <1>1, <1>2, MeasuresExists DEF Measured
<1>4. QED
  BY <1>1, <1>3, TextLengthIsFold

LEMMA RoomIsLeft ==
  ASSUME Chunking!ConstantsAssumption, NEW under \in Seq(1 .. MaxLines)
  PROVE  /\ Chunking!PrefixLength(under) \in Int
         /\ Chunking!Budget(under) \in Nat \ {0}
         /\ \A t \in Int : t <= Chunking!Budget(under) =>
              Chunking!PrefixLength(under) + t <=
                Chunking!Longer(MaxChars, Chunking!PrefixLength(under) + 1)
<1> DEFINE x == Len(under) * TitleLength
           y == Chunking!PrefixLength(under)
<1>1. Len(under) \in Int /\ TitleLength \in Int /\ MaxChars \in Int
  BY DEF Chunking!ConstantsAssumption
<1>2. x \in Int
  BY <1>1
<1>3. y = IF under = << >> THEN 0 ELSE x + (Len(under) - 1) * 3 + 2
  BY DEF Chunking!PrefixLength
<1> HIDE DEF x
<1>4. y \in Int
  BY <1>1, <1>2, <1>3
<1>5. Chunking!Budget(under) = IF y < MaxChars THEN MaxChars - y ELSE 1
  BY DEF Chunking!Budget
<1> HIDE DEF y
<1>6. Chunking!Budget(under) \in Nat \ {0}
  BY <1>1, <1>4, <1>5
<1>7. \A t \in Int : t <= Chunking!Budget(under) => y + t <= Chunking!Longer(MaxChars, y + 1)
  BY <1>1, <1>4, <1>5 DEF Chunking!Longer
<1>8. QED
  BY <1>4, <1>6, <1>7 DEF y

\* The chunks fit, are in order, and hold the paragraphs and nothing else.
RightSection(s, under, b) ==
  /\ s \in Seq(Chunk)
  /\ \A i \in 1 .. Len(s) :
       /\ s[i].under = under /\ Fits(s[i]) /\ Ordered(s[i].pieces)
       /\ \A m \in 1 .. Len(s[i].pieces) :
            \E k \in 1 .. Len(b) : s[i].pieces[m].line = b[k].line
  /\ \A k \in 1 .. Len(b) : \A at \in 1 .. b[k].length :
       \E i \in 1 .. Len(s) : Holds(s[i], b[k].line, at)
  /\ \A i, j \in 1 .. Len(s) : i < j => Before(s[i], s[j])

LEMMA SectionIsRight ==
  ASSUME Chunking!ConstantsAssumption, NEW under \in Seq(1 .. MaxLines),
         NEW b, Ascending(b), NEW s, s = Chunking!Section(under, b)
  PROVE  RightSection(s, under, b)
<1> DEFINE budget == Chunking!Budget(under)
           pieces == Chunking!FlattenSeq([i \in DOMAIN b |-> Chunking!Cut(b[i], budget)])
           w == Chunking!Packed(pieces, budget)
           D == {pieces[k] : k \in 1 .. Len(pieces)}
<1>1. s = [i \in DOMAIN w |-> [under |-> under, pieces |-> w[i]]]
  BY DEF Chunking!Section
<1>2. budget \in Nat \ {0}
  BY RoomIsLeft
<1> HIDE DEF budget
<1>3. PiecesOf(pieces, b, Len(b), budget)
  BY <1>2, PiecesAreWhole
<1> HIDE DEF pieces
<1>4. pieces \in Seq(Chunking!Piece) /\ Ordered(pieces)
      /\ \A k \in 1 .. Len(pieces) : Chunking!Size(pieces[k]) <= budget
  BY <1>3 DEF PiecesOf
<1>5. WindowsOf(w, D, budget)
  BY <1>2, <1>4, PackedIsWhole
<1> HIDE DEF w, D
<1>6. w \in Seq(Windows) /\ Len(w) \in Nat /\ DOMAIN w = 1 .. Len(w)
  BY <1>5 DEF WindowsOf
<1>7. \A i \in 1 .. Len(w) : w[i] \in Seq(Chunking!Piece)
  BY <1>6 DEF Windows
<1> DEFINE n == Len(w)
<1>8. s = [i \in 1 .. n |-> [under |-> under, pieces |-> w[i]]]
  BY <1>1, <1>6
<1> HIDE DEF n
<1>9. \A i \in 1 .. n : s[i] = [under |-> under, pieces |-> w[i]]
  BY <1>8
<1>10. ASSUME NEW i \in 1 .. n
       PROVE  s[i].under = under /\ s[i].pieces = w[i] /\ s[i] \in Chunk
  <2>1. w[i] \in Seq(Chunking!Piece)
    BY <1>7 DEF n
  <2>2. [under |-> under, pieces |-> w[i]] \in Chunk
    BY <2>1 DEF Chunk
  <2>3. QED
    BY <1>9, <2>2
<1>11. s \in Seq(Chunk) /\ Len(s) = n
  <2>1. s \in [1 .. n -> Chunk]
    BY <1>8, <1>10
  <2>2. QED
    BY <1>6, <2>1, SeqDef, LenProperties DEF n
<1>12. ASSUME NEW i \in 1 .. n
       PROVE  /\ s[i].under = under /\ Fits(s[i]) /\ Ordered(s[i].pieces)
              /\ \A m \in 1 .. Len(s[i].pieces) :
                   \E k \in 1 .. Len(b) : s[i].pieces[m].line = b[k].line
  <2>1. Chunking!TextLength(w[i]) <= budget /\ Ordered(w[i])
        /\ \A m \in 1 .. Len(w[i]) : w[i][m] \in D
    BY <1>5 DEF WindowsOf, n
  <2>2. Chunking!TextLength(w[i]) \in Int
    BY <1>7, TextLengthType DEF n
  <2>3. Chunking!PrefixLength(under) + Chunking!TextLength(w[i]) <=
          Chunking!Longer(MaxChars, Chunking!PrefixLength(under) + 1)
    BY <2>1, <2>2, RoomIsLeft DEF budget
  <2>4. Fits(s[i])
    BY <1>10, <2>3 DEF Fits
  <2>5. \A q \in D : \E k \in 1 .. Len(b) : q.line = b[k].line
    BY <1>3 DEF PiecesOf, D
  <2>6. QED
    BY <1>10, <2>1, <2>4, <2>5
<1>13. ASSUME NEW k \in 1 .. Len(b), NEW at \in 1 .. b[k].length
       PROVE  \E i \in 1 .. n : Holds(s[i], b[k].line, at)
  <2>1. PICK o \in 1 .. Len(pieces) :
          pieces[o].line = b[k].line /\ pieces[o].from <= at /\ at <= pieces[o].to
    BY <1>3 DEF PiecesOf
  <2>2. pieces[o] \in D
    BY DEF D
  <2>3. PICK i \in 1 .. n : \E m \in 1 .. Len(w[i]) : w[i][m] = pieces[o]
    BY <1>5, <2>2 DEF WindowsOf, n
  <2>4. PICK m \in 1 .. Len(w[i]) : w[i][m] = pieces[o]
    BY <2>3
  <2>5. s[i].pieces = w[i]
    BY <1>10
  <2>6. Holds(s[i], b[k].line, at)
    BY <2>1, <2>4, <2>5 DEF Holds
  <2>7. QED
    BY <2>6
<1>14. ASSUME NEW i \in 1 .. n, NEW j \in 1 .. n, i < j PROVE Before(s[i], s[j])
  <2>1. \A m \in 1 .. Len(w[i]), l \in 1 .. Len(w[j]) : Chunking!Precedes(w[i][m], w[j][l])
    BY <1>5, <1>14 DEF WindowsOf, n
  <2>2. QED
    BY <1>10, <2>1 DEF Before
<1>15. QED
  BY <1>11, <1>12, <1>13, <1>14 DEF RightSection

-----------------------------------------------------------------------------
(* The document, line by line.                                             *)

Line == [kind : {"heading"}, n : Levels] \cup [kind : {"paragraph"}, n : Lengths]

Written(L) == L \in Seq(Line) /\ Len(L) <= MaxLines

\* The headings above a line.
Above(L, line) ==
  {h \in 1 .. Len(L) :
     /\ L[h].kind = "heading" /\ h < line
     /\ \A k \in h + 1 .. line - 1 : L[k].kind = "heading" => L[k].n > L[h].n}

StackIsOpen(L, st) ==
  /\ st \in Seq(Chunking!Heading)
  /\ \A i \in 1 .. Len(st) :
       /\ st[i].line <= Len(L) /\ L[st[i].line].kind = "heading"
       /\ L[st[i].line].n = st[i].level
  /\ \A i, j \in 1 .. Len(st) : i < j => st[i].level < st[j].level
  /\ {st[i].line : i \in 1 .. Len(st)} = Above(L, Len(L) + 1)

\* Since the first paragraph of the section there is no heading.
BodyIsOpen(L, b) ==
  /\ Ascending(b)
  /\ \A k \in 1 .. Len(b) :
       /\ b[k].line <= Len(L) /\ L[b[k].line].n = b[k].length
       /\ \A h \in b[k].line .. Len(L) : L[h].kind = "paragraph"

RightChunks(L, cs) ==
  /\ cs \in Seq(Chunk)
  /\ \A i \in 1 .. Len(cs) :
       /\ Fits(cs[i]) /\ Ordered(cs[i].pieces)
       /\ \A m \in 1 .. Len(cs[i].pieces) :
            /\ cs[i].pieces[m].line <= Len(L)
            /\ {cs[i].under[u] : u \in 1 .. Len(cs[i].under)} = Above(L, cs[i].pieces[m].line)
  /\ \A i, j \in 1 .. Len(cs) : i < j => Before(cs[i], cs[j])

IsWhole(cs, line, n) ==
  \A at \in 1 .. n : \E i \in 1 .. Len(cs) : Holds(cs[i], line, at)

ReadSoFar(L, st, b, cs) ==
  /\ Written(L)
  /\ StackIsOpen(L, st)
  /\ BodyIsOpen(L, b)
  /\ RightChunks(L, cs)
  /\ \A i \in 1 .. Len(cs) : \A m \in 1 .. Len(cs[i].pieces), k \in 1 .. Len(b) :
       cs[i].pieces[m].line < b[k].line
  /\ \A line \in 1 .. Len(L) : L[line].kind = "paragraph" =>
       (\E k \in 1 .. Len(b) : b[k].line = line) \/ IsWhole(cs, line, L[line].n)

LineType ==
  \A x \in Line : /\ x.kind \in {"heading", "paragraph"} /\ x.n \in Levels \cup Lengths
                  /\ x.kind = "heading" => x.n \in Levels
                  /\ x.kind = "paragraph" => x.n \in Lengths

LEMMA LineTypes == LineType
  BY DEF Line, LineType

\* A line more changes nothing above the lines before it.
LEMMA AboveStays ==
  ASSUME NEW L \in Seq(Line), NEW x \in Line, NEW line \in 1 .. Len(L) + 1
  PROVE  Above(Append(L, x), line) = Above(L, line)
<1> DEFINE M == Append(L, x)
           n == Len(L)
<1>1. n \in Nat /\ Len(M) = n + 1 /\ \A i \in 1 .. n : M[i] = L[i]
  BY AppendProperties
<1> HIDE DEF M
<1>2. ASSUME NEW h PROVE h \in Above(M, line) <=> h \in Above(L, line)
  <2>1. h \in 1 .. n + 1 /\ h < line <=> h \in 1 .. n /\ h < line
    BY <1>1
  <2>2. ASSUME h \in 1 .. n
        PROVE  M[h] = L[h] /\ \A k \in h + 1 .. line - 1 : M[k] = L[k]
    BY <1>1, <2>2
  <2>3. QED
    BY <1>1, <2>1, <2>2 DEF Above
<1>3. QED
  BY <1>2 DEF M

LEMMA AboveParagraph ==
  ASSUME NEW L \in Seq(Line), NEW x \in Line, x.kind = "paragraph"
  PROVE  Above(Append(L, x), Len(L) + 2) = Above(L, Len(L) + 1)
<1> DEFINE M == Append(L, x)
           n == Len(L)
<1>1. n \in Nat /\ Len(M) = n + 1 /\ M[n + 1] = x /\ \A i \in 1 .. n : M[i] = L[i]
  BY AppendProperties
<1> HIDE DEF M, n
<1>2. ASSUME NEW h PROVE h \in Above(M, n + 2) <=> h \in Above(L, n + 1)
  <2>1. ~(M[n + 1].kind = "heading")
    BY <1>1
  <2>2. (h \in 1 .. n + 1 /\ M[h].kind = "heading") <=> (h \in 1 .. n /\ M[h].kind = "heading")
    BY <1>1, <2>1
  <2>3. ASSUME h \in 1 .. n
        PROVE  /\ M[h] = L[h] /\ h < n + 1 /\ h < n + 2
               /\ \A k : k \in h + 1 .. (n + 2) - 1 <=> (k \in h + 1 .. (n + 1) - 1 \/ k = n + 1)
               /\ \A k \in h + 1 .. (n + 1) - 1 : M[k] = L[k]
    BY <1>1, <2>3
  <2>4. QED
    BY <1>1, <2>1, <2>2, <2>3 DEF Above, n
<1>3. QED
  BY <1>2 DEF M, n

LEMMA AboveHeading ==
  ASSUME NEW L \in Seq(Line), NEW x \in Line, x.kind = "heading", Levels \subseteq Nat
  PROVE  Above(Append(L, x), Len(L) + 2) =
           {h \in Above(L, Len(L) + 1) : L[h].n < x.n} \cup {Len(L) + 1}
<1> DEFINE M == Append(L, x)
           n == Len(L)
<1>1. n \in Nat /\ Len(M) = n + 1 /\ M[n + 1] = x /\ \A i \in 1 .. n : M[i] = L[i]
  BY AppendProperties
<1>2. ASSUME NEW h \in 1 .. n, L[h].kind = "heading" PROVE L[h].n \in Int
  <2> HIDE DEF M
  <2>1. L[h] \in Line
    OBVIOUS
  <2>2. L[h].n \in Levels
    BY <1>2, <2>1, LineTypes DEF LineType
  <2>3. L[h].n \in Nat
    BY Zenon, <2>2
  <2>4. QED
    BY <2>3
<1> HIDE DEF M, n
<1>3. x.n \in Int
  <2>1. x.n \in Levels
    BY LineTypes DEF LineType
  <2>2. x.n \in Nat
    BY Zenon, <2>1
  <2>3. QED
    BY <2>2
<1>4. ASSUME NEW h
      PROVE  h \in Above(M, n + 2) <=> (h \in Above(L, n + 1) /\ L[h].n < x.n) \/ h = n + 1
  <2>1. CASE h = n + 1
    <3>1. h \in 1 .. n + 1 /\ M[h].kind = "heading" /\ h < n + 2
          /\ \A k : ~(k \in h + 1 .. (n + 2) - 1)
      BY <1>1, <2>1
    <3>2. QED
      BY <1>1, <2>1, <3>1 DEF Above
  <2>2. CASE h \in 1 .. n
    <3>1. /\ M[h] = L[h] /\ h < n + 1 /\ h < n + 2 /\ h \in 1 .. n + 1 /\ h # n + 1
          /\ \A k : k \in h + 1 .. (n + 2) - 1 <=> (k \in h + 1 .. (n + 1) - 1 \/ k = n + 1)
          /\ \A k \in h + 1 .. (n + 1) - 1 : M[k] = L[k]
      BY <1>1, <2>2
    <3>2. h \in Above(M, n + 2) <=>
            /\ L[h].kind = "heading"
            /\ \A k \in h + 1 .. (n + 2) - 1 : M[k].kind = "heading" => M[k].n > L[h].n
      BY <1>1, <3>1 DEF Above
    <3>3. h \in Above(L, n + 1) <=>
            /\ L[h].kind = "heading"
            /\ \A k \in h + 1 .. (n + 1) - 1 : L[k].kind = "heading" => L[k].n > L[h].n
      BY <1>1, <2>2, <3>1 DEF Above, n
    <3>4. (\A k \in h + 1 .. (n + 2) - 1 : M[k].kind = "heading" => M[k].n > L[h].n) <=>
            /\ \A k \in h + 1 .. (n + 1) - 1 : L[k].kind = "heading" => L[k].n > L[h].n
            /\ x.n > L[h].n
      BY <1>1, <3>1
    <3>5. L[h].kind = "heading" => (x.n > L[h].n <=> L[h].n < x.n)
      BY <1>2, <1>3, <2>2
    <3>6. QED
      BY <3>1, <3>2, <3>3, <3>4, <3>5
  <2>3. CASE h \notin 1 .. n /\ h # n + 1
    <3>1. h \notin 1 .. n + 1
      BY <1>1, <2>3
    <3>2. QED
      BY <1>1, <2>3, <3>1 DEF Above, n
  <2>4. QED
    BY <2>1, <2>2, <2>3
<1>5. QED
  BY <1>4 DEF M, n

\* Between the first paragraph of the section and its last nothing opens or closes.
LEMMA AboveBody ==
  ASSUME NEW L \in Seq(Line), NEW line \in 1 .. Len(L),
         \A h \in line .. Len(L) : L[h].kind = "paragraph"
  PROVE  Above(L, line) = Above(L, Len(L) + 1)
<1> DEFINE n == Len(L)
<1>1. n \in Nat /\ line \in 1 .. n /\ \A h \in line .. n : ~(L[h].kind = "heading")
  OBVIOUS
<1> HIDE DEF n
<1>2. ASSUME NEW h PROVE h \in Above(L, line) <=> h \in Above(L, n + 1)
  <2>1. CASE h \in line .. n
    BY <1>1, <2>1 DEF Above
  <2>2. CASE h \in 1 .. line - 1
    <3>1. h \in 1 .. n /\ h < line /\ h < n + 1
      BY <1>1, <2>2
    <3>2. \A k : k \in h + 1 .. (n + 1) - 1 <=> k \in h + 1 .. line - 1 \/ k \in line .. n
      BY <1>1, <2>2
    <3>3. QED
      BY <1>1, <3>1, <3>2 DEF Above, n
  <2>3. CASE h \notin 1 .. n
    BY <2>3 DEF Above, n
  <2>4. h \in 1 .. n => h \in line .. n \/ h \in 1 .. line - 1
    BY <1>1
  <2>5. QED
    BY <2>1, <2>2, <2>3, <2>4
<1>3. QED
  BY <1>2 DEF n

\* The chunks of the sections so far and of the last one.
LEMMA DocumentIsRight ==
  ASSUME Chunking!ConstantsAssumption, NEW L, NEW st, NEW b, NEW cs,
         ReadSoFar(L, st, b, cs),
         NEW u, u = [i \in DOMAIN st |-> st[i].line],
         NEW d, d = cs \o Chunking!Section(u, b)
  PROVE  /\ RightChunks(L, d)
         /\ \A line \in 1 .. Len(L) : L[line].kind = "paragraph" => IsWhole(d, line, L[line].n)
<1>1. /\ L \in Seq(Line) /\ Len(L) \in Nat /\ st \in Seq(Chunking!Heading) /\ Len(st) \in Nat
      /\ Ascending(b) /\ b \in Seq(Chunking!Paragraph) /\ Len(b) \in Nat
      /\ cs \in Seq(Chunk) /\ Len(cs) \in Nat
  <2>1. L \in Seq(Line) /\ st \in Seq(Chunking!Heading) /\ Ascending(b) /\ RightChunks(L, cs)
    BY DEF ReadSoFar, Written, StackIsOpen, BodyIsOpen
  <2>2. b \in Seq(Chunking!Paragraph) /\ cs \in Seq(Chunk)
    BY <2>1 DEF Ascending, RightChunks
  <2>3. QED
    BY <2>1, <2>2
<1>2. \A k \in 1 .. Len(b) : b[k].line \in 1 .. MaxLines
  <2>1. \A k \in 1 .. Len(b) : b[k] \in Chunking!Paragraph
    BY <1>1
  <2>2. QED
    BY <2>1, ElementTypes
<1>3. u \in Seq(1 .. MaxLines) /\ {u[i] : i \in 1 .. Len(u)} = Above(L, Len(L) + 1)
  <2>1. DOMAIN st = 1 .. Len(st) /\ \A i \in 1 .. Len(st) : st[i].line \in 1 .. MaxLines
    <3>1. \A i \in 1 .. Len(st) : st[i] \in Chunking!Heading
      BY <1>1
    <3>2. QED
      BY <1>1, <3>1, ElementTypes
  <2>2. u \in [1 .. Len(st) -> 1 .. MaxLines]
    BY <2>1
  <2>3. u \in Seq(1 .. MaxLines) /\ Len(u) = Len(st)
    BY <1>1, <2>2, SeqDef, LenProperties
  <2>4. \A i \in 1 .. Len(st) : u[i] = st[i].line
    BY <2>1
  <2>5. {st[i].line : i \in 1 .. Len(st)} = Above(L, Len(L) + 1)
    BY DEF ReadSoFar, StackIsOpen
  <2>6. QED
    BY <2>3, <2>4, <2>5
<1>4. PICK s : s = Chunking!Section(u, b)
  OBVIOUS
<1>4a. PICK e : e = cs \o s
  OBVIOUS
<1>5. /\ s \in Seq(Chunk) /\ Len(s) \in Nat
      /\ \A i \in 1 .. Len(s) :
           /\ s[i].under = u /\ Fits(s[i]) /\ Ordered(s[i].pieces)
           /\ \A m \in 1 .. Len(s[i].pieces) :
                \E k \in 1 .. Len(b) : s[i].pieces[m].line = b[k].line
      /\ \A k \in 1 .. Len(b) : \A at \in 1 .. b[k].length :
           \E i \in 1 .. Len(s) : Holds(s[i], b[k].line, at)
      /\ \A i, j \in 1 .. Len(s) : i < j => Before(s[i], s[j])
  <2>1. RightSection(s, u, b)
    BY <1>1, <1>3, <1>4, SectionIsRight
  <2>2. s \in Seq(Chunk)
    BY <2>1 DEF RightSection
  <2>3. Len(s) \in Nat
    BY <2>2
  <2>4. QED
    BY Zenon, <2>1, <2>2, <2>3 DEF RightSection
<1>6. \A k \in 1 .. Len(b) : /\ b[k].line \in 1 .. Len(L) /\ L[b[k].line].n = b[k].length
                             /\ Above(L, b[k].line) = Above(L, Len(L) + 1)
  <2>1. SUFFICES ASSUME NEW k \in 1 .. Len(b)
                 PROVE  /\ b[k].line \in 1 .. Len(L) /\ L[b[k].line].n = b[k].length
                        /\ Above(L, b[k].line) = Above(L, Len(L) + 1)
    OBVIOUS
  <2>2. /\ b[k].line <= Len(L) /\ L[b[k].line].n = b[k].length
        /\ \A h \in b[k].line .. Len(L) : L[h].kind = "paragraph"
    BY DEF ReadSoFar, BodyIsOpen
  <2>3. b[k].line \in 1 .. Len(L)
    BY <1>1, <1>2, <2>2
  <2>4. QED
    BY <1>1, <2>2, <2>3, AboveBody
<1>7. \A i \in 1 .. Len(s) : \A m \in 1 .. Len(s[i].pieces) :
        /\ s[i].pieces[m].line <= Len(L)
        /\ {s[i].under[h] : h \in 1 .. Len(s[i].under)} = Above(L, s[i].pieces[m].line)
  <2>1. SUFFICES ASSUME NEW i \in 1 .. Len(s), NEW m \in 1 .. Len(s[i].pieces)
                 PROVE  /\ s[i].pieces[m].line <= Len(L)
                        /\ {s[i].under[h] : h \in 1 .. Len(s[i].under)} =
                             Above(L, s[i].pieces[m].line)
    OBVIOUS
  <2>2. PICK k \in 1 .. Len(b) : s[i].pieces[m].line = b[k].line
    BY <1>5
  <2>3. s[i].under = u
    BY <1>5
  <2>4. b[k].line \in 1 .. Len(L) /\ Above(L, b[k].line) = Above(L, Len(L) + 1)
    BY <1>6
  <2>5. s[i].pieces[m].line <= Len(L)
    BY <1>1, <2>2, <2>4
  <2>6. {s[i].under[h] : h \in 1 .. Len(s[i].under)} = Above(L, Len(L) + 1)
    BY <1>3, <2>3
  <2>7. QED
    BY Zenon, <2>2, <2>4, <2>5, <2>6
<1>8. /\ e \in Seq(Chunk) /\ Len(e) = Len(cs) + Len(s)
      /\ \A i \in 1 .. Len(cs) + Len(s) :
           e[i] = IF i <= Len(cs) THEN cs[i] ELSE s[i - Len(cs)]
  BY <1>1, <1>4a, <1>5, ConcatProperties
<1>9. ASSUME NEW i \in 1 .. Len(e)
      PROVE  \/ i \in 1 .. Len(cs) /\ e[i] = cs[i]
             \/ i - Len(cs) \in 1 .. Len(s) /\ e[i] = s[i - Len(cs)] /\ i > Len(cs)
  <2>1. i \in 1 .. Len(cs) + Len(s)
    BY <1>8
  <2>2. CASE i <= Len(cs)
    BY <1>1, <1>8, <2>1, <2>2
  <2>3. CASE ~(i <= Len(cs))
    <3>1. i - Len(cs) \in 1 .. Len(s) /\ i > Len(cs)
      BY <1>1, <1>5, <2>1, <2>3
    <3>2. QED
      BY <1>8, <2>1, <2>3, <3>1
  <2>4. QED
    BY <2>2, <2>3
<1>10. \A i \in 1 .. Len(cs) : i \in 1 .. Len(e) /\ e[i] = cs[i]
  BY <1>1, <1>5, <1>8
<1>11. \A i \in 1 .. Len(s) :
         Len(cs) + i \in 1 .. Len(e) /\ e[Len(cs) + i] = s[i]
  <2>1. SUFFICES ASSUME NEW i \in 1 .. Len(s)
                 PROVE  Len(cs) + i \in 1 .. Len(e) /\ e[Len(cs) + i] = s[i]
    OBVIOUS
  <2>2. Len(cs) + i \in 1 .. Len(cs) + Len(s) /\ ~(Len(cs) + i <= Len(cs))
        /\ (Len(cs) + i) - Len(cs) = i
    BY <1>1, <1>5
  <2>3. QED
    BY <1>8, <2>2
<1>12. RightChunks(L, cs)
  BY DEF ReadSoFar
<1>13. ASSUME NEW i \in 1 .. Len(e)
       PROVE  /\ Fits(e[i]) /\ Ordered(e[i].pieces)
              /\ \A m \in 1 .. Len(e[i].pieces) :
                   /\ e[i].pieces[m].line <= Len(L)
                   /\ {e[i].under[h] : h \in 1 .. Len(e[i].under)} =
                        Above(L, e[i].pieces[m].line)
  <2>1. CASE i \in 1 .. Len(cs) /\ e[i] = cs[i]
    <3>1. PICK j \in 1 .. Len(cs) : e[i] = cs[j]
      BY <2>1
    <3>2. /\ Fits(cs[j]) /\ Ordered(cs[j].pieces)
          /\ \A m \in 1 .. Len(cs[j].pieces) :
               /\ cs[j].pieces[m].line <= Len(L)
               /\ {cs[j].under[h] : h \in 1 .. Len(cs[j].under)} =
                    Above(L, cs[j].pieces[m].line)
      BY Zenon, <1>12 DEF RightChunks
    <3>3. QED
      BY Zenon, <3>1, <3>2
  <2>2. CASE i - Len(cs) \in 1 .. Len(s) /\ e[i] = s[i - Len(cs)]
    <3>1. PICK j \in 1 .. Len(s) : e[i] = s[j]
      BY <2>2
    <3>2. Fits(s[j]) /\ Ordered(s[j].pieces)
      BY <1>5
    <3>3. \A m \in 1 .. Len(s[j].pieces) :
            /\ s[j].pieces[m].line <= Len(L)
            /\ {s[j].under[h] : h \in 1 .. Len(s[j].under)} = Above(L, s[j].pieces[m].line)
      BY <1>7
    <3>4. QED
      BY Zenon, <3>1, <3>2, <3>3
  <2>3. QED
    BY <1>9, <2>1, <2>2
<1>14. ASSUME NEW i \in 1 .. Len(e), NEW j \in 1 .. Len(e), i < j PROVE Before(e[i], e[j])
  <2>1. CASE j \in 1 .. Len(cs) /\ e[j] = cs[j]
    <3>1. i \in 1 .. Len(cs) /\ e[i] = cs[i]
      BY <1>1, <1>5, <1>8, <1>14, <2>1
    <3>2. QED
      BY <1>12, <1>14, <2>1, <3>1 DEF RightChunks
  <2>2. CASE j - Len(cs) \in 1 .. Len(s) /\ e[j] = s[j - Len(cs)]
    <3>1. CASE i \in 1 .. Len(cs) /\ e[i] = cs[i]
      <4>1. PICK l \in 1 .. Len(s) : e[j] = s[l]
        BY <2>2
      <4>2. ASSUME NEW m \in 1 .. Len(cs[i].pieces), NEW o \in 1 .. Len(s[l].pieces)
            PROVE  Chunking!Precedes(cs[i].pieces[m], s[l].pieces[o])
        <5>1. PICK k \in 1 .. Len(b) : s[l].pieces[o].line = b[k].line
          BY <1>5
        <5>2. cs[i].pieces[m].line < b[k].line
          BY <3>1 DEF ReadSoFar
        <5>3. QED
          BY <5>1, <5>2 DEF Chunking!Precedes
      <4>3. QED
        BY <3>1, <4>1, <4>2 DEF Before
    <3>2. CASE i - Len(cs) \in 1 .. Len(s) /\ e[i] = s[i - Len(cs)]
      <4>1. i - Len(cs) < j - Len(cs)
        BY <1>1, <1>5, <1>8, <1>14
      <4>2. QED
        BY <1>5, <2>2, <3>2, <4>1
    <3>3. QED
      BY <1>9, <3>1, <3>2
  <2>3. QED
    BY <1>9, <2>1, <2>2
<1>15. ASSUME NEW line \in 1 .. Len(L), L[line].kind = "paragraph"
       PROVE  IsWhole(e, line, L[line].n)
  <2>1. CASE \E k \in 1 .. Len(b) : b[k].line = line
    <3>1. PICK k \in 1 .. Len(b) : b[k].line = line
      BY <2>1
    <3>2. L[line].n = b[k].length
      BY <1>6, <3>1
    <3>3. ASSUME NEW at \in 1 .. L[line].n PROVE \E i \in 1 .. Len(e) : Holds(e[i], line, at)
      <4>1. PICK i \in 1 .. Len(s) : Holds(s[i], line, at)
        BY <1>5, <3>1, <3>2, <3>3
      <4>2. QED
        BY <1>11, <4>1
    <3>4. QED
      BY <3>3 DEF IsWhole
  <2>2. CASE IsWhole(cs, line, L[line].n)
    BY <1>10, <2>2 DEF IsWhole
  <2>3. QED
    BY <1>15, <2>1, <2>2 DEF ReadSoFar
<1>16. RightChunks(L, e)
  BY <1>8, <1>13, <1>14 DEF RightChunks
<1>17. d = e
  BY <1>4, <1>4a
<1>18. QED
  BY Zenon, <1>15, <1>16, <1>17

\* A line more: the chunks before it stay right.
LEMMA RightChunksStay ==
  ASSUME NEW L \in Seq(Line), NEW x \in Line, NEW cs, RightChunks(L, cs)
  PROVE  RightChunks(Append(L, x), cs)
<1> DEFINE M == Append(L, x)
<1>1. Len(L) \in Nat /\ Len(M) = Len(L) + 1
  BY AppendProperties
<1>2. cs \in Seq(Chunk) /\ \A i \in 1 .. Len(cs) : cs[i].pieces \in Seq(Chunking!Piece)
  <2>1. cs \in Seq(Chunk)
    BY DEF RightChunks
  <2>2. \A i \in 1 .. Len(cs) : cs[i] \in Chunk
    BY <2>1
  <2>3. QED
    BY <2>1, <2>2, ElementTypes
<1>3. ASSUME NEW i \in 1 .. Len(cs), NEW m \in 1 .. Len(cs[i].pieces)
      PROVE  /\ cs[i].pieces[m].line <= Len(M)
             /\ Above(M, cs[i].pieces[m].line) = Above(L, cs[i].pieces[m].line)
  <2> DEFINE line == cs[i].pieces[m].line
  <2>1. line <= Len(L)
    BY DEF RightChunks
  <2>2. line \in Nat \ {0}
    <3>1. cs[i].pieces[m] \in Chunking!Piece
      BY <1>2
    <3>2. QED
      BY <3>1 DEF Chunking!Piece
  <2> HIDE DEF line, M
  <2>3. line \in 1 .. Len(L) + 1 /\ line <= Len(M)
    BY <1>1, <2>1, <2>2
  <2>4. Above(M, line) = Above(L, line)
    BY <2>3, AboveStays DEF M
  <2>5. QED
    BY <2>3, <2>4 DEF line
<1> HIDE DEF M
<1>4. \A i \in 1 .. Len(cs) : \A m \in 1 .. Len(cs[i].pieces) :
        {cs[i].under[u] : u \in 1 .. Len(cs[i].under)} = Above(M, cs[i].pieces[m].line)
  BY <1>3 DEF RightChunks
<1>5. QED
  BY <1>3, <1>4 DEF RightChunks, M

\* A heading: the section above it is closed, and the headings it is not below.
LEMMA HeadingIsRead ==
  ASSUME Chunking!ConstantsAssumption, NEW L, NEW st, NEW b, NEW cs,
         ReadSoFar(L, st, b, cs), Len(L) < MaxLines, NEW level \in Levels,
         NEW kept \in 0 .. Len(st), kept > 0 => st[kept].level < level,
         \A i \in kept + 1 .. Len(st) : st[i].level >= level,
         NEW d, RightChunks(L, d),
         \A line \in 1 .. Len(L) : L[line].kind = "paragraph" => IsWhole(d, line, L[line].n),
         NEW x, x = [kind |-> "heading", n |-> level],
         NEW top, top = [line |-> Len(L) + 1, level |-> level]
  PROVE  ReadSoFar(Append(L, x), Append(SubSeq(st, 1, kept), top), << >>, d)
<1> DEFINE M == Append(L, x)
           n == Len(L)
           rest == SubSeq(st, 1, kept)
           open == Append(rest, top)
<1>1. /\ L \in Seq(Line) /\ n \in Nat /\ st \in Seq(Chunking!Heading) /\ Len(st) \in Nat
      /\ MaxLines \in Nat /\ Levels \subseteq Nat /\ level \in Nat
  BY DEF ReadSoFar, Written, StackIsOpen, Chunking!ConstantsAssumption
<1>2. x \in Line /\ x.kind = "heading" /\ x.n = level
  BY DEF Line
<1>3. top \in Chunking!Heading /\ top.line = n + 1 /\ top.level = level
  BY <1>1 DEF Chunking!Heading
<1>4. M \in Seq(Line) /\ Len(M) = n + 1 /\ M[n + 1] = x /\ \A i \in 1 .. n : M[i] = L[i]
  BY <1>1, <1>2, AppendProperties
<1>5. kept \in Nat /\ kept <= Len(st) /\ \A i \in 1 .. kept : i \in 1 .. Len(st)
  BY <1>1
<1>6. rest \in Seq(Chunking!Heading) /\ Len(rest) = kept /\ \A i \in 1 .. kept : rest[i] = st[i]
  <2>1. \A i \in 1 .. kept : st[i] \in Chunking!Heading
    BY <1>1, <1>5
  <2>2. /\ rest \in Seq(Chunking!Heading)
        /\ Len(rest) = IF 1 <= kept THEN kept - 1 + 1 ELSE 0
        /\ \A i \in 1 .. kept - 1 + 1 : rest[i] = st[1 + i - 1]
    BY <1>5, <2>1, SubSeqProperties
  <2>3. QED
    BY <1>5, <2>2
<1> HIDE DEF rest
<1>7. /\ open \in Seq(Chunking!Heading) /\ Len(open) = kept + 1 /\ open[kept + 1] = top
      /\ \A i \in 1 .. kept : open[i] = st[i]
  BY <1>3, <1>6, AppendProperties
<1>8. \A i \in 1 .. kept + 1 : i = kept + 1 \/ i \in 1 .. kept
  BY <1>5
<1>9. /\ \A i \in 1 .. Len(st) :
           /\ st[i].line <= Len(L) /\ L[st[i].line].kind = "heading"
           /\ L[st[i].line].n = st[i].level
      /\ \A i, j \in 1 .. Len(st) : i < j => st[i].level < st[j].level
      /\ {st[i].line : i \in 1 .. Len(st)} = Above(L, n + 1)
  BY DEF ReadSoFar, StackIsOpen
<1>10. ASSUME NEW i \in 1 .. Len(st) PROVE st[i].line \in 1 .. n /\ st[i].level \in Nat
  <2>1. st[i] \in Chunking!Heading
    BY <1>1
  <2>2. st[i].line \in 1 .. MaxLines /\ st[i].level \in Levels
    BY <2>1, ElementTypes
  <2>3. st[i].line <= n
    BY <1>9
  <2>4. st[i].level \in Nat
    BY Zenon, <1>1, <2>2
  <2>5. QED
    BY <1>1, <2>2, <2>3, <2>4
<1>11. \A i \in 1 .. kept : st[i].level < level
  <2>1. SUFFICES ASSUME NEW i \in 1 .. kept PROVE st[i].level < level
    OBVIOUS
  <2>2. kept > 0 /\ kept \in 1 .. Len(st) /\ i \in 1 .. Len(st)
    BY <1>5
  <2>3. CASE i = kept
    BY <2>2, <2>3
  <2>4. CASE i # kept
    <3>1. st[i].level < st[kept].level
      BY <1>5, <1>9, <2>2, <2>4
    <3>2. QED
      BY <1>1, <1>10, <2>2, <3>1
  <2>5. QED
    BY <2>3, <2>4
<1> HIDE DEF open, M
<1>12. Above(M, n + 2) = {h \in Above(L, n + 1) : L[h].n < level} \cup {n + 1}
  BY <1>1, <1>2, AboveHeading DEF M
<1>13. ASSUME NEW h
       PROVE  h \in {open[i].line : i \in 1 .. kept + 1} <=> h \in Above(M, n + 2)
  <2>1. ASSUME NEW i \in 1 .. kept + 1, h = open[i].line PROVE h \in Above(M, n + 2)
    <3>1. CASE i = kept + 1
      BY <1>3, <1>7, <1>12, <2>1, <3>1
    <3>2. CASE i \in 1 .. kept
      <4>1. h = st[i].line /\ i \in 1 .. Len(st)
        BY <1>5, <1>7, <2>1, <3>2
      <4>2. h \in Above(L, n + 1)
        BY <1>9, <4>1
      <4>3. L[h].n < level
        BY <1>9, <1>11, <3>2, <4>1
      <4>4. QED
        BY <1>12, <4>2, <4>3
    <3>3. QED
      BY <1>8, <3>1, <3>2
  <2>2. ASSUME h \in Above(M, n + 2) PROVE h \in {open[i].line : i \in 1 .. kept + 1}
    <3>1. CASE h = n + 1
      <4>1. kept + 1 \in 1 .. kept + 1
        BY <1>5
      <4>2. QED
        BY <1>3, <1>7, <3>1, <4>1
    <3>2. CASE h \in Above(L, n + 1) /\ L[h].n < level
      <4>1. PICK i \in 1 .. Len(st) : h = st[i].line
        BY <1>9, <3>2
      <4>2. st[i].level < level
        BY <1>9, <3>2, <4>1
      <4>3. i \in 1 .. kept
        <5>1. SUFFICES ASSUME i \in kept + 1 .. Len(st) PROVE FALSE
          BY <1>5
        <5>2. st[i].level >= level
          BY <5>1
        <5>3. QED
          BY <1>1, <1>10, <4>2, <5>2
      <4>4. i \in 1 .. kept + 1 /\ open[i].line = h
        BY <1>5, <1>7, <4>1, <4>3
      <4>5. QED
        BY <4>4
    <3>3. QED
      BY <1>12, <2>2, <3>1, <3>2
  <2>3. QED
    BY <2>1, <2>2
<1>14. StackIsOpen(M, open)
  <2>1. ASSUME NEW i \in 1 .. kept + 1
        PROVE  /\ open[i].line <= n + 1 /\ M[open[i].line].kind = "heading"
               /\ M[open[i].line].n = open[i].level
    <3>1. CASE i = kept + 1
      BY <1>1, <1>2, <1>3, <1>4, <1>7, <3>1
    <3>2. CASE i \in 1 .. kept
      <4>1. open[i] = st[i] /\ st[i].line \in 1 .. n
        BY <1>5, <1>7, <1>10, <3>2
      <4>2. M[st[i].line] = L[st[i].line] /\ st[i].line <= n + 1
        BY <1>1, <1>4, <4>1
      <4>3. QED
        BY <1>5, <1>9, <3>2, <4>1, <4>2
    <3>3. QED
      BY <1>8, <3>1, <3>2
  <2>2. ASSUME NEW i \in 1 .. kept + 1, NEW j \in 1 .. kept + 1, i < j
        PROVE  open[i].level < open[j].level
    <3>1. i \in 1 .. kept
      BY <1>5, <2>2
    <3>2. CASE j = kept + 1
      BY <1>3, <1>7, <1>11, <3>1, <3>2
    <3>3. CASE j \in 1 .. kept
      BY <1>5, <1>7, <1>9, <2>2, <3>1, <3>3
    <3>4. QED
      BY <1>8, <3>2, <3>3
  <2>3. {open[i].line : i \in 1 .. kept + 1} = Above(M, n + 2)
    BY <1>13
  <2>4. (n + 1) + 1 = n + 2
    BY <1>1
  <2>5. QED
    BY <1>4, <1>7, <2>1, <2>2, <2>3, <2>4 DEF StackIsOpen
<1>15. BodyIsOpen(M, << >>)
  BY DEF BodyIsOpen, Ascending
<1>16. RightChunks(M, d)
  BY <1>1, <1>2, RightChunksStay DEF M
<1>17. Written(M)
  BY <1>1, <1>4 DEF Written
<1>18. ASSUME NEW line \in 1 .. Len(M), M[line].kind = "paragraph"
       PROVE  IsWhole(d, line, M[line].n)
  <2>1. line # n + 1
    BY <1>2, <1>4, <1>18
  <2>2. line \in 1 .. n
    BY <1>1, <1>4, <2>1
  <2>3. M[line] = L[line]
    BY <1>4, <2>2
  <2>4. QED
    BY <1>18, <2>2, <2>3 DEF n
<1>19. Len(<< >>) = 0 /\ 1 .. 0 = {}
  OBVIOUS
<1>20. QED
  BY <1>14, <1>15, <1>16, <1>17, <1>18, <1>19 DEF ReadSoFar, M, open, rest

LEMMA ParagraphIsRead ==
  ASSUME Chunking!ConstantsAssumption, NEW L, NEW st, NEW b, NEW cs,
         ReadSoFar(L, st, b, cs), Len(L) < MaxLines, NEW length \in Lengths,
         NEW x, x = [kind |-> "paragraph", n |-> length],
         NEW p, p = [line |-> Len(L) + 1, length |-> length]
  PROVE  ReadSoFar(Append(L, x), st, Append(b, p), cs)
<1> DEFINE M == Append(L, x)
           n == Len(L)
           more == Append(b, p)
<1>1. /\ L \in Seq(Line) /\ n \in Nat /\ st \in Seq(Chunking!Heading)
      /\ b \in Seq(Chunking!Paragraph) /\ Len(b) \in Nat /\ Ascending(b)
      /\ cs \in Seq(Chunk) /\ RightChunks(L, cs) /\ MaxLines \in Nat
  <2>1. L \in Seq(Line) /\ st \in Seq(Chunking!Heading) /\ Ascending(b) /\ RightChunks(L, cs)
    BY DEF ReadSoFar, Written, StackIsOpen, BodyIsOpen
  <2>2. b \in Seq(Chunking!Paragraph) /\ cs \in Seq(Chunk)
    BY <2>1 DEF Ascending, RightChunks
  <2>3. MaxLines \in Nat
    BY DEF Chunking!ConstantsAssumption
  <2>4. QED
    BY <2>1, <2>2, <2>3
<1>2. x \in Line /\ x.kind = "paragraph" /\ x.n = length
  BY DEF Line
<1>3. p \in Chunking!Paragraph /\ p.line = n + 1 /\ p.length = length
  BY <1>1 DEF Chunking!Paragraph
<1>4. M \in Seq(Line) /\ Len(M) = n + 1 /\ M[n + 1] = x /\ \A i \in 1 .. n : M[i] = L[i]
  BY <1>1, <1>2, AppendProperties
<1>5. /\ more \in Seq(Chunking!Paragraph) /\ Len(more) = Len(b) + 1 /\ more[Len(b) + 1] = p
      /\ \A k \in 1 .. Len(b) : more[k] = b[k]
  BY <1>1, <1>3, AppendProperties
<1> HIDE DEF M, more
<1>6. \A k \in 1 .. Len(b) + 1 : k = Len(b) + 1 \/ k \in 1 .. Len(b)
  BY <1>1
<1>7. \A k \in 1 .. Len(b) :
        /\ b[k].line <= n /\ L[b[k].line].n = b[k].length
        /\ \A h \in b[k].line .. n : L[h].kind = "paragraph"
  BY DEF ReadSoFar, BodyIsOpen
<1>8. \A k \in 1 .. Len(b) : b[k].line \in 1 .. n
  <2>1. \A k \in 1 .. Len(b) : b[k].line \in 1 .. MaxLines
    <3>1. \A k \in 1 .. Len(b) : b[k] \in Chunking!Paragraph
      BY <1>1
    <3>2. QED
      BY <3>1, ElementTypes
  <2>2. QED
    BY <1>1, <1>7, <2>1
<1>9. StackIsOpen(M, st)
  <2>1. /\ \A i \in 1 .. Len(st) :
             /\ st[i].line <= Len(L) /\ L[st[i].line].kind = "heading"
             /\ L[st[i].line].n = st[i].level
        /\ \A i, j \in 1 .. Len(st) : i < j => st[i].level < st[j].level
        /\ {st[i].line : i \in 1 .. Len(st)} = Above(L, n + 1)
    BY DEF ReadSoFar, StackIsOpen
  <2>2. \A i \in 1 .. Len(st) : st[i].line \in 1 .. n
    <3>1. \A i \in 1 .. Len(st) : st[i].line \in 1 .. MaxLines
      <4>1. \A i \in 1 .. Len(st) : st[i] \in Chunking!Heading
        BY <1>1
      <4>2. QED
        BY <4>1, ElementTypes
    <3>2. QED
      BY <1>1, <2>1, <3>1
  <2>3. \A i \in 1 .. Len(st) : st[i].line <= n + 1 /\ M[st[i].line] = L[st[i].line]
    <3>1. SUFFICES ASSUME NEW i \in 1 .. Len(st)
                   PROVE  st[i].line <= n + 1 /\ M[st[i].line] = L[st[i].line]
      OBVIOUS
    <3>2. st[i].line \in 1 .. n
      BY <2>2
    <3>3. QED
      BY <1>1, <1>4, <3>2
  <2>4. Above(M, n + 2) = Above(L, n + 1)
    BY <1>1, <1>2, AboveParagraph DEF M
  <2>5. (n + 1) + 1 = n + 2
    BY <1>1
  <2>6. QED
    BY <1>1, <1>4, <2>1, <2>3, <2>4, <2>5 DEF StackIsOpen
<1>10. Ascending(more)
  <2>1. SUFFICES ASSUME NEW i \in 1 .. Len(b) + 1, NEW j \in 1 .. Len(b) + 1, i < j
                 PROVE  more[i].line < more[j].line
    BY <1>5 DEF Ascending
  <2>2. i \in 1 .. Len(b) /\ more[i] = b[i]
    BY <1>1, <1>5, <2>1
  <2>3. CASE j = Len(b) + 1
    BY <1>1, <1>3, <1>5, <1>8, <2>2, <2>3
  <2>4. CASE j \in 1 .. Len(b)
    BY <1>1, <1>5, <2>1, <2>2, <2>4 DEF Ascending
  <2>5. QED
    BY <1>6, <2>3, <2>4
<1>11. ASSUME NEW k \in 1 .. Len(b) + 1
       PROVE  /\ more[k].line <= n + 1 /\ M[more[k].line].n = more[k].length
              /\ \A h \in more[k].line .. n + 1 : M[h].kind = "paragraph"
  <2>1. CASE k = Len(b) + 1
    <3>1. more[k].line = n + 1 /\ more[k].length = length
      BY <1>3, <1>5, <2>1
    <3>2. \A h \in n + 1 .. n + 1 : h = n + 1
      BY <1>1
    <3>3. QED
      BY <1>1, <1>2, <1>4, <3>1, <3>2
  <2>2. CASE k \in 1 .. Len(b)
    <3>1. more[k] = b[k] /\ b[k].line \in 1 .. n
      BY <1>5, <1>8, <2>2
    <3>2. b[k].line <= n + 1 /\ M[b[k].line] = L[b[k].line]
      BY <1>1, <1>4, <3>1
    <3>3. \A h \in b[k].line .. n + 1 : h = n + 1 \/ (h \in b[k].line .. n /\ M[h] = L[h])
      BY <1>1, <1>4, <3>1
    <3>4. QED
      BY <1>2, <1>4, <1>7, <2>2, <3>1, <3>2, <3>3
  <2>3. QED
    BY <1>6, <2>1, <2>2
<1>12. BodyIsOpen(M, more)
  BY <1>4, <1>5, <1>10, <1>11 DEF BodyIsOpen
<1>13. RightChunks(M, cs)
  BY <1>1, <1>2, RightChunksStay DEF M
<1>14. Written(M)
  BY <1>1, <1>4 DEF Written
<1>15. ASSUME NEW i \in 1 .. Len(cs), NEW m \in 1 .. Len(cs[i].pieces),
              NEW k \in 1 .. Len(b) + 1
       PROVE  cs[i].pieces[m].line < more[k].line
  <2>1. CASE k = Len(b) + 1
    <3>1. cs[i].pieces[m].line <= n
      BY <1>1 DEF RightChunks
    <3>2. cs[i].pieces[m].line \in Int
      <4>1. cs[i].pieces \in Seq(Chunking!Piece)
        <5>1. cs[i] \in Chunk
          BY <1>1
        <5>2. QED
          BY <5>1, ElementTypes
      <4>2. cs[i].pieces[m] \in Chunking!Piece
        BY <4>1
      <4>3. cs[i].pieces[m].line \in 1 .. MaxLines
        BY <4>2, ElementTypes
      <4>4. QED
        BY <4>3
    <3>3. more[k].line = n + 1
      BY <1>3, <1>5, <2>1
    <3>4. QED
      BY <1>1, <3>1, <3>2, <3>3
  <2>2. CASE k \in 1 .. Len(b)
    <3>1. cs[i].pieces[m].line < b[k].line
      BY <2>2 DEF ReadSoFar
    <3>2. QED
      BY <1>5, <2>2, <3>1
  <2>3. QED
    BY <1>6, <2>1, <2>2
<1>16. ASSUME NEW line \in 1 .. n + 1, M[line].kind = "paragraph"
       PROVE  (\E k \in 1 .. Len(b) + 1 : more[k].line = line) \/ IsWhole(cs, line, M[line].n)
  <2>1. CASE line = n + 1
    <3>1. Len(b) + 1 \in 1 .. Len(b) + 1 /\ more[Len(b) + 1].line = line
      BY <1>1, <1>3, <1>5, <2>1
    <3>2. QED
      BY <3>1
  <2>2. CASE line \in 1 .. n
    <3>1. M[line] = L[line]
      BY <1>4, <2>2
    <3>2. (\E k \in 1 .. Len(b) : b[k].line = line) \/ IsWhole(cs, line, L[line].n)
      BY <1>16, <2>2, <3>1 DEF ReadSoFar, n
    <3>3. \A k \in 1 .. Len(b) : k \in 1 .. Len(b) + 1 /\ more[k] = b[k]
      BY <1>1, <1>5
    <3>4. QED
      BY <3>1, <3>2, <3>3
  <2>3. QED
    BY <1>1, <2>1, <2>2
<1>17. QED
  BY <1>4, <1>5, <1>9, <1>12, <1>13, <1>14, <1>15, <1>16 DEF ReadSoFar, M, more

ChunkInvariant == ReadSoFar(lines, stack, body, chunks)

\* TypeOK of Chunker and that no text is lost on the way into the chunks.
THEOREM ChunksAreWhole ==
  ASSUME Chunking!ConstantsAssumption
  PROVE  Chunking!Spec => [](Chunking!TypeOK /\ Chunking!NoTextIsLost)
<1>1. ASSUME Chunking!Init PROVE ChunkInvariant
  <2>1. /\ lines = << >> /\ stack = << >> /\ body = << >> /\ chunks = << >>
        /\ Len(<< >>) = 0 /\ 1 .. 0 = {} /\ MaxLines \in Nat
    BY <1>1 DEF Chunking!Init, Chunking!ConstantsAssumption
  <2>2. Written(<< >>)
    BY <2>1 DEF Written
  <2>3. StackIsOpen(<< >>, << >>)
    BY <2>1 DEF StackIsOpen, Above
  <2>4. BodyIsOpen(<< >>, << >>)
    BY <2>1 DEF BodyIsOpen, Ascending
  <2>5. RightChunks(<< >>, << >>)
    BY <2>1 DEF RightChunks
  <2>6. QED
    BY <2>1, <2>2, <2>3, <2>4, <2>5 DEF ChunkInvariant, ReadSoFar
<1>2. ASSUME ChunkInvariant
      PROVE  /\ RightChunks(lines, Chunking!Document)
             /\ \A line \in 1 .. Len(lines) : lines[line].kind = "paragraph" =>
                  IsWhole(Chunking!Document, line, lines[line].n)
  BY <1>2, DocumentIsRight DEF ChunkInvariant, Chunking!Document, Chunking!Under
<1>3. ASSUME ChunkInvariant, [Chunking!Next]_(Chunking!vars)
      PROVE  ChunkInvariant'
  <2>1. ASSUME Chunking!ReadHeading PROVE ChunkInvariant'
    <3>1. PICK d : d = Chunking!Document
      OBVIOUS
    <3>2. chunks' = d /\ body' = << >> /\ Len(lines) < MaxLines
      BY <2>1, <3>1 DEF Chunking!ReadHeading, Chunking!Document, Chunking!Room
    <3>3. PICK level \in Levels :
            /\ lines' = Append(lines, [kind |-> "heading", n |-> level])
            /\ \E kept \in 0 .. Len(stack) :
                 /\ kept > 0 => stack[kept].level < level
                 /\ \A i \in kept + 1 .. Len(stack) : stack[i].level >= level
                 /\ stack' = Append(SubSeq(stack, 1, kept),
                                    [line |-> Len(lines) + 1, level |-> level])
      BY <2>1 DEF Chunking!ReadHeading
    <3>4. PICK kept \in 0 .. Len(stack) :
            /\ kept > 0 => stack[kept].level < level
            /\ \A i \in kept + 1 .. Len(stack) : stack[i].level >= level
            /\ stack' = Append(SubSeq(stack, 1, kept),
                               [line |-> Len(lines) + 1, level |-> level])
      BY <3>3
    <3>5. /\ RightChunks(lines, d)
          /\ \A line \in 1 .. Len(lines) : lines[line].kind = "paragraph" =>
               IsWhole(d, line, lines[line].n)
      BY <1>2, <1>3, <3>1
    <3>6. ReadSoFar(lines', stack', << >>, d)
      BY <1>3, <3>2, <3>3, <3>4, <3>5, HeadingIsRead DEF ChunkInvariant
    <3>7. QED
      BY <3>2, <3>6 DEF ChunkInvariant
  <2>2. ASSUME Chunking!ReadParagraph PROVE ChunkInvariant'
    <3>1. PICK length \in Lengths :
            /\ lines' = Append(lines, [kind |-> "paragraph", n |-> length])
            /\ body' = Append(body, [line |-> Len(lines) + 1, length |-> length])
      BY <2>2 DEF Chunking!ReadParagraph
    <3>2. Len(lines) < MaxLines /\ stack' = stack /\ chunks' = chunks
      BY <2>2 DEF Chunking!ReadParagraph, Chunking!Room
    <3>3. ReadSoFar(lines', stack, body', chunks)
      BY <1>3, <3>1, <3>2, ParagraphIsRead DEF ChunkInvariant
    <3>4. QED
      BY <3>2, <3>3 DEF ChunkInvariant
  <2>3. CASE UNCHANGED Chunking!vars
    BY <1>3, <2>3 DEF ChunkInvariant, Chunking!vars
  <2>4. QED
    BY <1>3, <2>1, <2>2, <2>3 DEF Chunking!Next
<1>4. ASSUME ChunkInvariant
      PROVE  Chunking!TypeOK /\ Chunking!NoTextIsLost
  <2>1. Chunking!TypeOK
    <3>1. lines \in Seq(Line) /\ stack \in Seq(Chunking!Heading)
          /\ body \in Seq(Chunking!Paragraph) /\ chunks \in Seq(Chunk)
      BY <1>4 DEF ChunkInvariant, ReadSoFar, Written, StackIsOpen, BodyIsOpen, Ascending,
                  RightChunks
    <3> DEFINE Wide == [kind : {"heading", "paragraph"}, n : Levels \cup Lengths]
    <3>2. Line \subseteq Wide
      BY DEF Line
    <3> HIDE DEF Wide
    <3>3. lines \in Seq(Wide)
      BY <3>1, <3>2
    <3>4. QED
      BY <3>1, <3>3 DEF Chunking!TypeOK, Chunk, Wide
  <2> DEFINE d == Chunking!Document
  <2>2. /\ RightChunks(lines, d)
        /\ \A line \in 1 .. Len(lines) : lines[line].kind = "paragraph" =>
             IsWhole(d, line, lines[line].n)
    BY <1>2, <1>4
  <2>3. lines \in Seq(Line) /\ Len(lines) \in Nat /\ DOMAIN lines = 1 .. Len(lines)
    BY <1>4 DEF ChunkInvariant, ReadSoFar, Written
  <2> HIDE DEF d
  <2>4. /\ d \in Seq(Chunk) /\ Len(d) \in Nat /\ DOMAIN d = 1 .. Len(d)
        /\ Chunking!ToSet(d) = {d[i] : i \in 1 .. Len(d)}
    BY <2>2 DEF RightChunks, Chunking!ToSet
  <2>5. ASSUME NEW i \in 1 .. Len(d)
        PROVE  /\ d[i].pieces \in Seq(Chunking!Piece) /\ Len(d[i].pieces) \in Nat
               /\ DOMAIN d[i].pieces = 1 .. Len(d[i].pieces)
               /\ Chunking!ToSet(d[i].pieces) = {d[i].pieces[m] : m \in 1 .. Len(d[i].pieces)}
               /\ d[i].under \in Seq(1 .. MaxLines)
               /\ Chunking!ToSet(d[i].under) = {d[i].under[u] : u \in 1 .. Len(d[i].under)}
    <3>1. PICK c : c = d[i]
      OBVIOUS
    <3>2. c \in Chunk
      BY <2>4, <3>1
    <3>3. c.under \in Seq(1 .. MaxLines) /\ c.pieces \in Seq(Chunking!Piece)
      BY <3>2, ElementTypes
    <3>4. /\ Len(c.pieces) \in Nat /\ DOMAIN c.pieces = 1 .. Len(c.pieces)
          /\ DOMAIN c.under = 1 .. Len(c.under)
      BY <3>3, LenProperties
    <3>5. QED
      BY <3>1, <3>3, <3>4 DEF Chunking!ToSet
  <2>6. ASSUME NEW line \in DOMAIN lines, lines[line].kind = "paragraph",
               NEW at \in 1 .. lines[line].n
        PROVE  \E c \in Chunking!ToSet(d) : Chunking!Covers(c, line, at)
    <3>1. PICK i \in 1 .. Len(d) : Holds(d[i], line, at)
      BY <2>2, <2>3, <2>6 DEF IsWhole
    <3>2. Chunking!Covers(d[i], line, at)
      BY <2>5, <3>1 DEF Holds, Chunking!Covers
    <3>3. QED
      BY <2>4, <3>2
  <2>7. ASSUME NEW c \in Chunking!ToSet(d)
        PROVE  /\ Chunking!PrefixLength(c.under) + Chunking!TextLength(c.pieces) <=
                    Chunking!Longer(MaxChars, Chunking!PrefixLength(c.under) + 1)
               /\ \A p \in Chunking!ToSet(c.pieces), h \in DOMAIN lines :
                    h \in Chunking!ToSet(c.under) <=> Chunking!IsAbove(h, p.line)
    <3>1. PICK i \in 1 .. Len(d) : c = d[i]
      BY <2>4
    <3>2. Fits(d[i])
      BY <2>2 DEF RightChunks
    <3>3. ASSUME NEW p \in Chunking!ToSet(c.pieces), NEW h \in DOMAIN lines
          PROVE  h \in Chunking!ToSet(c.under) <=> Chunking!IsAbove(h, p.line)
      <4>1. PICK m \in 1 .. Len(d[i].pieces) : p = d[i].pieces[m]
        BY <2>5, <3>1
      <4>2. {d[i].under[u] : u \in 1 .. Len(d[i].under)} = Above(lines, p.line)
        BY <2>2, <4>1 DEF RightChunks
      <4>3. h \in Above(lines, p.line) <=> Chunking!IsAbove(h, p.line)
        BY <2>3 DEF Above, Chunking!IsAbove
      <4>4. QED
        BY <2>5, <3>1, <4>2, <4>3
    <3>4. QED
      BY <3>1, <3>2, <3>3 DEF Fits
  <2>8. ASSUME NEW i \in DOMAIN d
        PROVE  /\ \A m, n \in DOMAIN d[i].pieces :
                    m < n => Chunking!Precedes(d[i].pieces[m], d[i].pieces[n])
               /\ \A j \in DOMAIN d : i < j =>
                    \A p \in Chunking!ToSet(d[i].pieces), q \in Chunking!ToSet(d[j].pieces) :
                      Chunking!Precedes(p, q)
    <3>1. i \in 1 .. Len(d)
      BY <2>4
    <3>2. Ordered(d[i].pieces)
      BY <2>2, <3>1 DEF RightChunks
    <3>3. \A m, n \in DOMAIN d[i].pieces :
            m < n => Chunking!Precedes(d[i].pieces[m], d[i].pieces[n])
      BY <2>5, <3>1, <3>2 DEF Ordered
    <3>4. ASSUME NEW j \in DOMAIN d, i < j, NEW p \in Chunking!ToSet(d[i].pieces),
                 NEW q \in Chunking!ToSet(d[j].pieces)
          PROVE  Chunking!Precedes(p, q)
      <4>1. j \in 1 .. Len(d)
        BY <2>4
      <4>2. Before(d[i], d[j])
        BY <2>2, <3>1, <3>4, <4>1 DEF RightChunks
      <4>3. PICK m \in 1 .. Len(d[i].pieces) : p = d[i].pieces[m]
        BY <2>5, <3>1, <3>4
      <4>4. PICK l \in 1 .. Len(d[j].pieces) : q = d[j].pieces[l]
        BY <2>5, <3>4, <4>1
      <4>5. QED
        BY <4>2, <4>3, <4>4 DEF Before
    <3>5. QED
      BY <3>3, <3>4
  <2>9. Chunking!NoTextIsLost
    BY <2>6, <2>7, <2>8 DEF Chunking!NoTextIsLost, d
  <2>10. QED
    BY <2>1, <2>9
<1>5. QED
  BY <1>1, <1>3, <1>4, PTL DEF Chunking!Spec
=============================================================================
