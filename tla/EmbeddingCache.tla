----------------------------- MODULE EmbeddingCache -----------------------------
(***************************************************************************)
(* The embedder behind its cache: texts are looked up together, the ones   *)
(* that miss go to the model in batches with retries, and only when all    *)
(* batches are in are they cached, one by one.  A question and an          *)
(* ingestion may be at it at the same time.  A vector is the text it was   *)
(* computed from; the model returns one for each text, in order.           *)
(***************************************************************************)
EXTENDS Naturals, SequencesExt

CONSTANTS
  Texts,
  MaxLength,    \* bound: texts of a job
  Jobs,
  BatchSize,    \* embedding_batch_size
  MaxAttempts,  \* external_call: max_attempts
  MaxExpired    \* bound: entries that expire, or are lost with Redis

ConstantsAssumption ==
  /\ IsFiniteSet(Texts) /\ IsFiniteSet(Jobs)
  /\ MaxLength \in Nat \ {0}
  /\ BatchSize \in Nat \ {0}
  /\ MaxAttempts \in Nat \ {0}
  /\ MaxExpired \in Nat

Missing == "missing"  \* None

VARIABLES
  cached,   \* texts with an entry
  job,
  expired

vars == << cached, job, expired >>

Job == [ pc       : {"idle", "embedding", "storing", "done", "failed"},
         texts    : Seq(Texts),
         results  : Seq(Texts \cup {Missing}),
         missing  : Seq(Nat),       \* the positions that were not cached, ascending
         fresh    : Seq(Texts),     \* the vectors of the batches so far
         stored   : Nat,            \* how many of them are placed and cached
         attempts : Nat,            \* of the batch at hand
         reported : Seq(Nat) ]      \* history: what on_progress was told

Idle == [pc |-> "idle", texts |-> << >>, results |-> << >>, missing |-> << >>, fresh |-> << >>,
         stored |-> 0, attempts |-> 0, reported |-> << >>]

TypeOK ==
  /\ cached \in SUBSET Texts
  /\ job \in [Jobs -> Job]
  /\ expired \in Nat

Init ==
  /\ cached = {}
  /\ job = [j \in Jobs |-> Idle]
  /\ expired = 0

-----------------------------------------------------------------------------

Increasing(s) == \A i, j \in DOMAIN s : i < j => s[i] < s[j]

\* The positions of what is not cached, in the only ascending order.
Misses(results) ==
  {s \in SetToSeqs({i \in DOMAIN results : results[i] = Missing}) : Increasing(s)}

Wanted(r) == [i \in DOMAIN r.missing |-> r.texts[r.missing[i]]]

\* mget, and what the cache had is reported at once; a job with no miss is done.
LookUp(j) ==
  /\ job[j].pc = "idle"
  /\ \E n \in 1 .. MaxLength : \E texts \in [1 .. n -> Texts] :
       LET results == [i \in 1 .. n |-> IF texts[i] \in cached THEN texts[i] ELSE Missing]
       IN  \E missing \in Misses(results) :
             job' = [job EXCEPT ![j] =
               [Idle EXCEPT !.pc = IF missing = << >> THEN "done" ELSE "embedding",
                            !.texts = texts, !.results = results, !.missing = missing,
                            !.reported = IF Len(missing) < n THEN << n - Len(missing) >>
                                         ELSE << >>]]
  /\ UNCHANGED << cached, expired >>

\* _embed_batch; the report counts the cached ones too.
Embed(j) ==
  LET r    == job[j]
      left == SubSeq(Wanted(r), Len(r.fresh) + 1, Len(Wanted(r)))
      done == r.fresh \o SubSeq(left, 1, IF BatchSize < Len(left) THEN BatchSize ELSE Len(left))
  IN
  /\ r.pc = "embedding"
  /\ job' = [job EXCEPT ![j] =
       [r EXCEPT !.fresh = done, !.attempts = 0,
                 !.pc = IF Len(done) = Len(Wanted(r)) THEN "storing" ELSE "embedding",
                 !.reported = Append(@, Len(r.texts) - Len(Wanted(r)) + Len(done))]]
  /\ UNCHANGED << cached, expired >>

\* A transient error is tried again, a client error and the last attempt are not: the
\* batches so far go with the job.
Refuse(j) ==
  /\ job[j].pc = "embedding"
  /\ \E transient \in BOOLEAN :
       job' = IF transient /\ job[j].attempts + 1 < MaxAttempts
              THEN [job EXCEPT ![j].attempts = @ + 1]
              ELSE [job EXCEPT ![j].pc = "failed", ![j].fresh = << >>, ![j].attempts = 0]
  /\ UNCHANGED << cached, expired >>

\* One turn of zip(missing, fresh): a position gets its vector, and the cache its entry.
Place(j) ==
  LET r == job[j]
      n == r.stored + 1
  IN
  /\ r.pc = "storing"
  /\ job' = [job EXCEPT ![j] =
       [r EXCEPT !.stored = n, !.results[r.missing[n]] = r.fresh[n],
                 !.pc = IF n = Len(r.fresh) THEN "done" ELSE "storing"]]
  /\ cached' = cached \cup {r.texts[r.missing[n]]}
  /\ UNCHANGED expired

\* Redis fails, or the process dies; the entries written so far stay.
Break(j) ==
  /\ job[j].pc \in {"embedding", "storing"}
  /\ job' = [job EXCEPT ![j].pc = "failed", ![j].fresh = << >>, ![j].attempts = 0]
  /\ UNCHANGED << cached, expired >>

Again(j) ==
  /\ job[j].pc \in {"done", "failed"}
  /\ job' = [job EXCEPT ![j] = Idle]
  /\ UNCHANGED << cached, expired >>

Expire(t) ==
  /\ t \in cached
  /\ expired < MaxExpired
  /\ cached' = cached \ {t}
  /\ expired' = expired + 1
  /\ UNCHANGED job

Next ==
  \/ \E j \in Jobs : \/ LookUp(j) \/ Embed(j) \/ Refuse(j) \/ Place(j) \/ Break(j) \/ Again(j)
  \/ \E t \in Texts : Expire(t)

Spec == Init /\ [][Next]_vars

-----------------------------------------------------------------------------
(* Properties.                                                             *)

\* Each text gets its own vector at its own place, whichever of them were cached, whatever
\* the other job and the expiry did to the cache since; and "saying so keeps a re-upload
\* from looking stuck at zero" (cache.py): the progress only grows and ends at the whole.
VectorsKeepTheirPlaces ==
  \A j \in Jobs : job[j].pc = "done" =>
    /\ job[j].results = job[j].texts
    /\ Increasing(job[j].reported)
    /\ Last(job[j].reported) = Len(job[j].texts)
=============================================================================
