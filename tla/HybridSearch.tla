------------------------------ MODULE HybridSearch ------------------------------
(***************************************************************************)
(* A question to the passages of an account: the contents it may look in   *)
(* are listed, one statement ranks their chunks by meaning and by words    *)
(* and fuses the two lists, another one reads the chunks it named.  A      *)
(* document may be deleted, and chunks replaced, between any two of them.  *)
(***************************************************************************)
EXTENDS Naturals, SequencesExt

CONSTANTS
  Chunks,
  Contents,
  Mine,      \* the contents of documents the account owns
  ContentOf, \* the content of each chunk
  Pool,      \* rag_candidate_pool
  RrfK,      \* rag_rrf_k
  Limit      \* of the answer

ConstantsAssumption ==
  /\ IsFiniteSet(Chunks)
  /\ Mine \subseteq Contents
  /\ ContentOf \in [Chunks -> Contents]
  /\ Pool \in Nat \ {0} /\ RrfK \in Nat /\ Limit \in Nat \ {0}
  /\ Pool < RrfK + 2  \* 30 and 60 as they are shipped

VARIABLES
  trashed,  \* contents of soft-deleted documents
  stored,   \* the chunks there are
  query,    \* how far the question is, its scope and its candidates
  answer,   \* the chunks returned, best first
  readable  \* history: the contents the account could read when it asked

vars == << trashed, stored, query, answer, readable >>

\* A chunk with its place in each of the two lists, 0 where it is not found, and its
\* place by cosine distance.
Candidate == [chunk : Chunks, vector : Nat, lexical : Nat, distance : Nat]

TypeOK ==
  /\ trashed \in SUBSET Contents
  /\ stored \in SUBSET Chunks
  /\ query.pc \in {"idle", "scoped", "ranked", "done"}
  /\ query.scope \in SUBSET Contents
  /\ query.found \in SUBSET Candidate
  /\ query.best \in Seq(Candidate)
  /\ answer \in Seq(Chunks)
  /\ readable \in SUBSET Contents

Init ==
  /\ trashed = {}
  /\ stored = Chunks
  /\ query = [pc |-> "idle", scope |-> {}, found |-> {}, best |-> << >>]
  /\ answer = << >>
  /\ readable = {}

-----------------------------------------------------------------------------

Trash(c) ==
  /\ c \notin trashed
  /\ trashed' = trashed \cup {c}
  /\ UNCHANGED << stored, query, answer, readable >>

Delete(k) ==
  /\ k \in stored
  /\ stored' = stored \ {k}
  /\ UNCHANGED << trashed, query, answer, readable >>

\* list_content_ids_for_user
Own == Mine \ trashed

\* content_ids_for_plan: of the documents that were chosen for the plan, if any were.
PlanScopes == SUBSET Own

\* The contents of the plan's documents; all of the account's where there are none.
Scoped ==
  /\ query.pc = "idle"
  /\ \E chosen \in PlanScopes :
       query' = [query EXCEPT !.pc = "scoped", !.scope = IF chosen = {} THEN Own ELSE chosen]
  /\ readable' = Own
  /\ UNCHANGED << trashed, stored, answer >>

\* The two sides of score(a) > score(b) over a common denominator.
Over(k)      == RrfK + k
Numerator(a) == IF a.vector = 0 \/ a.lexical = 0 THEN 1 ELSE Over(a.vector) + Over(a.lexical)
Denominator(a) ==
  IF a.vector = 0 THEN Over(a.lexical)
  ELSE IF a.lexical = 0 THEN Over(a.vector) ELSE Over(a.vector) * Over(a.lexical)

\* A bug: a chunk scores by the better of its places only.
AheadByOne(a, b) ==
  LET best(x) == IF x.vector = 0 \/ (x.lexical # 0 /\ x.lexical < x.vector) THEN x.lexical
                 ELSE x.vector
  IN  best(a) < best(b) \/ (best(a) = best(b) /\ a.distance < b.distance)

\* ORDER BY score DESC, distance ASC.
Ahead(a, b) ==
  LET x == Numerator(a) * Denominator(b)
      y == Numerator(b) * Denominator(a)
  IN  x > y \/ (x = y /\ a.distance < b.distance)

\* The position of a chunk among the first Pool of a list, or 0.
Place(list, k) ==
  IF \E i \in 1 .. Len(list) : i <= Pool /\ list[i] = k
  THEN CHOOSE i \in 1 .. Len(list) : list[i] = k ELSE 0

\* search_hybrid: FULL OUTER JOIN of the two pools.
Fused(near, words) ==
  {c \in [chunk : ToSet(near), vector : 0 .. Pool, lexical : 0 .. Pool,
          distance : 1 .. Len(near)] :
     /\ c.vector = Place(near, c.chunk)
     /\ c.lexical = Place(words, c.chunk)
     /\ near[c.distance] = c.chunk
     /\ c.vector > 0 \/ c.lexical > 0}

\* No two compare equal: no two are at one distance.
InOrder(found) ==
  {s \in SetToSeqs(found) : \A i, j \in DOMAIN s : i < j => Ahead(s[i], s[j])}

First(n, s) == SubSeq(s, 1, IF n < Len(s) THEN n ELSE Len(s))

\* search_similar
Nearest(near) ==
  First(Limit, [i \in 1 .. Len(near) |->
                  [chunk |-> near[i], vector |-> i, lexical |-> 0, distance |-> i]])

InScope == {k \in stored : ContentOf[k] \in query.scope}

\* SearchService.search, of a question with no word that counts: the nearest chunks, in one
\* statement.
Similar ==
  /\ query.pc = "scoped"
  /\ \E near \in SetToSeqs(InScope) :
       LET best == Nearest(near) IN
       /\ query' = [query EXCEPT !.pc = "done", !.best = best]
       /\ answer' = [i \in DOMAIN best |-> best[i].chunk]
  /\ UNCHANGED << trashed, stored, readable >>

\* SearchService.search, of one whose words match any of the chunks, or none.
Ranked ==
  /\ query.pc = "scoped"
  /\ \E near \in SetToSeqs(InScope), words \in SetToAllKPermutations(InScope) :
     \E sorted \in InOrder(Fused(near, words)) :
       query' = [query EXCEPT !.pc = "ranked", !.found = Fused(near, words),
                              !.best = First(Limit, sorted)]
  /\ UNCHANGED << trashed, stored, answer, readable >>

\* The chunks by id; one that is gone meanwhile is left out.
Fetched ==
  /\ query.pc = "ranked"
  /\ query' = [query EXCEPT !.pc = "done"]
  /\ \E present \in SetToSeqs({i \in DOMAIN query.best : query.best[i].chunk \in stored}) :
       /\ \A i, j \in DOMAIN present : i < j => present[i] < present[j]
       /\ answer' = [i \in DOMAIN present |-> query.best[present[i]].chunk]
  /\ UNCHANGED << trashed, stored, readable >>

Next ==
  \/ \E c \in Contents : Trash(c)
  \/ \E k \in Chunks : Delete(k)
  \/ Scoped \/ Similar \/ Ranked \/ Fetched

Spec == Init /\ [][Next]_vars

-----------------------------------------------------------------------------
(* Properties.                                                             *)

InBoth(c) == c.vector > 0 /\ c.lexical > 0

\* "A chunk found by both lists therefore outranks a chunk that only one list loved"
\* (repository.py, search_hybrid), whatever their places: none is returned while one that
\* both lists found is left out or comes after it.
AgreementWins ==
  \A a \in query.found, i \in DOMAIN query.best :
    InBoth(a) /\ ~InBoth(query.best[i]) => \E j \in 1 .. i - 1 : query.best[j] = a

\* "One user's query can never match another user's chunks" (repository.py): an answer
\* holds each chunk once, Limit of them at most, of contents that were the account's and
\* not in the trash when it asked, whatever is deleted and stored before it is read.
AnswersStayInScope ==
  /\ IsInjective(answer)
  /\ Len(answer) <= Limit
  /\ \A k \in ToSet(answer) : ContentOf[k] \in readable

FusionIsSound == AgreementWins /\ AnswersStayInScope
=============================================================================
