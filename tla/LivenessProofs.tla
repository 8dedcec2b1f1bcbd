---------------------------- MODULE LivenessProofs ----------------------------
(***************************************************************************)
(* Theorems about the scenarios of MCLiveness, for any number of runs,     *)
(* items, workers, documents and sign-ins: a behaviour of a scenario is    *)
(* one of its component, so that what is proved of the component with the  *)
(* faults of the scenario holds in it.  The limiter has no proofs of its   *)
(* own; its theorem is proved here.                                        *)
(***************************************************************************)
EXTENDS MCLiveness, FiniteSetTheorems, TLAPS

-----------------------------------------------------------------------------
(* A step of the whole is a step of each component, or none.               *)

LEMMA StepsOfTheComponents ==
  ASSUME [Next]_vars
  PROVE  /\ [Overlapping!Next]_Overlapping!vars
         /\ [Crashing!Next]_Crashing!vars
         /\ [Ingestion!Next]_Ingestion!vars
         /\ [Limiter!Next]_Limiter!vars
BY DEF Next, InScenario, vars, overlappingVars, crashingVars, ingestionVars, limiterVars,
   Overlapping!vars, Crashing!vars, Ingestion!vars, Limiter!vars

\* A behaviour of the whole is a behaviour of each component.
LEMMA BehavioursOfTheComponents ==
  Spec => Overlapping!Spec /\ Crashing!Spec /\ Ingestion!Spec /\ Limiter!Spec
<1>1. Init => Overlapping!Init /\ Crashing!Init /\ Ingestion!Init /\ Limiter!Init
  BY DEF Init
<1>2. [Next]_vars => /\ [Overlapping!Next]_Overlapping!vars
                     /\ [Crashing!Next]_Crashing!vars
                     /\ [Ingestion!Next]_Ingestion!vars
                     /\ [Limiter!Next]_Limiter!vars
  BY StepsOfTheComponents
<1>3. QED
  BY <1>1, <1>2, PTL DEF Spec, Overlapping!Spec, Crashing!Spec, Ingestion!Spec, Limiter!Spec

-----------------------------------------------------------------------------
(* Plan generation.                                                        *)

\* Every variable of PlanGeneration keeps its type in both scenarios: no retry count passes
\* max_retries, and the broker delivers nothing that nobody sent.
THEOREM TypeCorrect == Spec => []TypeOK
<1>1. Overlapping!Spec => []Overlapping!TypeOK
  BY ScenariosAssumption, Overlapping!TypeCorrect
<1>2. Crashing!Spec => []Crashing!TypeOK
  BY ScenariosAssumption, Crashing!TypeCorrect
<1>3. QED
  BY <1>1, <1>2, BehavioursOfTheComponents, PTL DEF TypeOK

\* COMPLETED means every item was written, whatever order the tasks of a run end in.
THEOREM CompletedIsWritten == Spec => []CompletedMeansAllWritten
<1>1. Overlapping!Spec => []Overlapping!CompletedMeansAllWritten
  BY ScenariosAssumption, Overlapping!CompletedIsWritten DEF Overlapping!NoRepeat
<1>2. QED
  BY <1>1, BehavioursOfTheComponents, PTL DEF CompletedMeansAllWritten

\* Whoever polls a run sees the life of GenerationLifecycle: one roadmap or FAILED, COMPLETED only
\* over written items, and no written item taken up again (process_item sets PROCESSING whatever
\* the status was): nobody is handed the same item twice.
THEOREM RunsKeepTheirPromises == Spec => ImplementsLifecycle
<1>1. Overlapping!Spec => Overlapping!ImplementsLifecycle
  BY ScenariosAssumption, Overlapping!GenerationImplementsLifecycle DEF Overlapping!NoRepeat
<1>2. QED
  BY <1>1, BehavioursOfTheComponents, PTL DEF ImplementsLifecycle

\* Wherever a worker dies in the writing of an item, somebody has that item.
THEOREM EveryItemIsAnsweredFor == Spec => []NoItemIsForgotten
<1>1. Crashing!Spec => []Crashing!NoItemIsForgotten
  BY ScenariosAssumption, Crashing!EveryItemIsAnsweredFor
<1>2. QED
  BY <1>1, BehavioursOfTheComponents, PTL DEF NoItemIsForgotten

\* A run that is FAILED has no items: wherever its drafting task fails or dies before the
\* roadmap is committed, and however often it is retried, buried and replayed, fail_run comes
\* only after attempts that left none.  Neither scenario has a task that fails behind its
\* own commit (task generate_plan), of which the opposite is true.
THEOREM FailedMeansNotPlanned == Spec => []FailedRunHasNoItems
<1>1. Overlapping!Spec => []Overlapping!FailedRunHasNoItems
  BY ScenariosAssumption, Overlapping!FailedMeansNotPlanned
<1>2. Crashing!Spec => []Crashing!FailedRunHasNoItems
  BY ScenariosAssumption, Crashing!FailedMeansNotPlanned
<1>3. QED
  BY <1>1, <1>2, BehavioursOfTheComponents, PTL DEF FailedRunHasNoItems

-----------------------------------------------------------------------------
(* Ingestion.                                                              *)

\* A live document that failed has a message, a task, a replay or a dead letter.
THEOREM NothingFailsSilently == Spec => []NoSilentFailure
<1>1. Ingestion!Spec => [](Ingestion!NoSilentFailure /\ Ingestion!PendingIsQueued)
  BY ScenariosAssumption, Ingestion!NothingIsLostSilently DEF Ingestion!NoFatalFaults
<1>2. QED
  BY <1>1, BehavioursOfTheComponents, PTL DEF NoSilentFailure

\* So has one that waits in PENDING, once its request sent the task.
THEOREM PendingIsNotLost == Spec => []PendingIsQueued
<1>1. Ingestion!Spec => [](Ingestion!NoSilentFailure /\ Ingestion!PendingIsQueued)
  BY ScenariosAssumption, Ingestion!NothingIsLostSilently DEF Ingestion!NoFatalFaults
<1>2. QED
  BY <1>1, BehavioursOfTheComponents, PTL DEF PendingIsQueued

\* One worker never overlaps with itself.
LEMMA IngesterIsAlone == Ingestion!OneWorker \/ Ingestion!SingleDelivery
BY DEF Ingestion!OneWorker

\* What is INDEXED has its newest content in the search, whatever crashed before.
THEOREM NewestIsIndexed == Spec => []NewestContentIsIndexed
<1>1. Ingestion!Spec => []Ingestion!NewestContentIsIndexed
  BY ScenariosAssumption, IngesterIsAlone, Ingestion!NewestIsIndexed
<1>2. QED
  BY <1>1, BehavioursOfTheComponents, PTL DEF NewestContentIsIndexed

\* No two contents of a document have the same version.
THEOREM VersionsNeverRepeat == Spec => []VersionsAreUnique
<1>1. Ingestion!Spec => []Ingestion!VersionsAreUnique
  BY ScenariosAssumption, IngesterIsAlone, Ingestion!VersionsNeverRepeat
<1>2. QED
  BY <1>1, BehavioursOfTheComponents, PTL DEF VersionsAreUnique

\* A redelivery of what is INDEXED does nothing.
THEOREM IndexedIsLeftAlone == Spec => IndexedIsNotReprocessed
<1>1. Ingestion!Spec => Ingestion!IndexedIsNotReprocessed
  BY ScenariosAssumption, IngesterIsAlone, Ingestion!IndexedIsLeftAlone
<1>2. QED
  BY <1>1, BehavioursOfTheComponents, PTL DEF IndexedIsNotReprocessed

-----------------------------------------------------------------------------
(* The sign-in limiter.  A count grows past the threshold only by those    *)
(* who read it before: what is counted, and who may still count without    *)
(* another look, are together never more than the threshold lets in.       *)

\* The limiter's own copies of the operators on sets are those of the theorems about them.
LEMMA SetsOfTheLimiter ==
  \A S : /\ Limiter!IsFiniteSet(S) = IsFiniteSet(S)
         /\ Limiter!Cardinality(S) = Cardinality(S)
BY DEF Limiter!IsFiniteSet, IsFiniteSet, Limiter!Cardinality, Cardinality

\* The sign-ins that passed the gate of the key and have not counted at it.
Passed(k) ==
  {a \in Attempts :
     \/ attempt[a].pc = "verify" /\ k \in {attempt[a].client, "account"}
     \/ attempt[a].pc = "gate" /\ attempt[a].key = "account" /\ k = attempt[a].client
     \/ attempt[a].pc = "incr" /\ k \in {attempt[a].key, "account"}
     \/ attempt[a].pc = "expire" /\ attempt[a].key # "account" /\ k = "account"}

\* A sign-in is at a key of its own.
OwnKeys ==
  \A a \in Attempts :
    attempt[a].pc \in {"gate", "incr", "expire", "reset"} =>
      attempt[a].key \in {attempt[a].client, "account"}

LimiterTyped ==
  /\ counted \in [Limiter!Keys -> Nat]
  /\ attempt \in [Attempts -> Limiter!Attempt]
  /\ OwnKeys

LimiterInv ==
  /\ LimiterTyped
  /\ \A k \in Limiter!Keys : counted[k] + Cardinality(Passed(k)) < MaxAttempts + Cardinality(Attempts)

\* Passing nobody new, counting one who passed, and a count below the threshold all keep the
\* bound.
LEMMA BoundKept ==
  ASSUME IsFiniteSet(Attempts), MaxAttempts \in Nat, NEW k \in Limiter!Keys,
         counted[k] \in Nat, counted'[k] \in Nat,
         counted[k] + Cardinality(Passed(k)) < MaxAttempts + Cardinality(Attempts),
         \/ counted'[k] <= counted[k] /\ Passed(k)' \subseteq Passed(k)
         \/ counted'[k] < MaxAttempts
         \/ /\ counted'[k] = counted[k] + 1
            /\ \E a \in Passed(k) : Passed(k)' \subseteq Passed(k) \ {a}
  PROVE  counted'[k] + Cardinality(Passed(k)') < MaxAttempts + Cardinality(Attempts)
<1>1. IsFiniteSet(Passed(k)) /\ IsFiniteSet(Passed(k)')
  <2>1. Passed(k) \subseteq Attempts /\ Passed(k)' \subseteq Attempts
    BY DEF Passed
  <2>2. QED
    BY <2>1, FS_Subset
<1>2. /\ Cardinality(Attempts) \in Nat /\ Cardinality(Passed(k)) \in Nat
      /\ Cardinality(Passed(k)') \in Nat
  BY <1>1, FS_CardinalityType
<1>3. CASE counted'[k] <= counted[k] /\ Passed(k)' \subseteq Passed(k)
  <2>1. Cardinality(Passed(k)') <= Cardinality(Passed(k))
    BY <1>1, <1>3, FS_Subset
  <2>2. QED
    BY <1>2, <1>3, <2>1
<1>4. CASE counted'[k] < MaxAttempts
  <2>1. Passed(k)' \subseteq Attempts
    BY DEF Passed
  <2>2. Cardinality(Passed(k)') <= Cardinality(Attempts)
    BY <2>1, FS_Subset
  <2>3. QED
    BY <1>2, <1>4, <2>2
<1>5. ASSUME counted'[k] = counted[k] + 1, NEW a \in Passed(k), Passed(k)' \subseteq Passed(k) \ {a}
      PROVE  counted'[k] + Cardinality(Passed(k)') < MaxAttempts + Cardinality(Attempts)
  <2>1. /\ IsFiniteSet(Passed(k) \ {a})
        /\ Cardinality(Passed(k) \ {a}) = Cardinality(Passed(k)) - 1
    BY <1>1, FS_RemoveElement
  <2>2. Cardinality(Passed(k)') <= Cardinality(Passed(k) \ {a})
    BY <1>5, <2>1, FS_Subset
  <2>3. QED
    BY <1>2, <1>5, <2>1, <2>2
<1>6. QED
  BY <1>3, <1>4, <1>5

\* A sign-in that goes to another point, or another key, is the only one that moves.
LEMMA GoesAlone ==
  ASSUME LimiterTyped, NEW a \in Attempts,
         NEW pc \in {"idle", "gate", "verify", "incr", "expire", "reset"}, NEW key \in Limiter!Keys,
         Limiter!Goto(a, pc, key)
  PROVE  /\ attempt' \in [Attempts -> Limiter!Attempt]
         /\ attempt'[a].pc = pc /\ attempt'[a].key = key
         /\ attempt'[a].client = attempt[a].client
         /\ \A b \in Attempts \ {a} : attempt'[b] = attempt[b]
         /\ key \in {attempt[a].client, "account"} => OwnKeys'
<1>1. attempt \in [Attempts -> Limiter!Attempt]
  BY DEF LimiterTyped
<1>2. attempt[a] \in Limiter!Attempt
  BY <1>1
<1>3. attempt' = [attempt EXCEPT ![a] = [attempt[a] EXCEPT !.pc = pc, !.key = key]]
  BY <1>1 DEF Limiter!Goto
<1>4. [attempt[a] EXCEPT !.pc = pc, !.key = key] \in Limiter!Attempt
  BY <1>2 DEF Limiter!Attempt
<1>5. attempt'[a] = [attempt[a] EXCEPT !.pc = pc, !.key = key]
  BY <1>1, <1>3
<1>6. /\ attempt'[a].pc = pc /\ attempt'[a].key = key
      /\ attempt'[a].client = attempt[a].client
  BY <1>2, <1>5 DEF Limiter!Attempt
<1>7. /\ attempt' \in [Attempts -> Limiter!Attempt]
      /\ \A b \in Attempts \ {a} : attempt'[b] = attempt[b]
  BY <1>1, <1>3, <1>4
<1>8. key \in {attempt[a].client, "account"} => OwnKeys'
  BY <1>6, <1>7 DEF LimiterTyped, OwnKeys
<1>9. QED
  BY <1>6, <1>7, <1>8

\* What a command of a sign-in does to it: it goes on to the account's key, or to what is next.
LEMMA ThenGoes ==
  ASSUME LimiterTyped, ScenariosAssumption, NEW a \in Attempts,
         NEW next \in {"idle", "verify"}, Limiter!Then(a, next),
         attempt[a].pc \in {"gate", "incr", "expire", "reset"}
  PROVE  /\ attempt' \in [Attempts -> Limiter!Attempt] /\ OwnKeys'
         /\ attempt'[a].client = attempt[a].client /\ attempt'[a].key = "account"
         /\ attempt[a].key # "account" =>
              attempt'[a].pc = IF attempt[a].pc = "expire" THEN "incr" ELSE attempt[a].pc
         /\ attempt[a].key = "account" => attempt'[a].pc = next
         /\ \A b \in Attempts \ {a} : attempt'[b] = attempt[b]
<1>1. "account" \in Limiter!Keys
  BY DEF Limiter!Keys
<1>2. QED
  BY <1>1, GoesAlone DEF Limiter!Then, Limiter!At, Limiter!Key

\* What a step of the limiter does to the count of a key and to those who passed its gate.
BoundStep(k) ==
  \/ counted'[k] <= counted[k] /\ Passed(k)' \subseteq Passed(k)
  \/ counted'[k] < MaxAttempts
  \/ /\ counted'[k] = counted[k] + 1
     /\ \E a \in Passed(k) : Passed(k)' \subseteq Passed(k) \ {a}

LEMMA LimiterStep ==
  ASSUME LimiterTyped, ScenariosAssumption, Limiter!Next
  PROVE  LimiterTyped' /\ \A k \in Limiter!Keys : BoundStep(k)
<1> USE DEF LimiterTyped
<1>0. /\ MaxAttempts \in Nat \ {0} /\ "account" \notin Clients /\ "account" \in Limiter!Keys
      /\ Clients \subseteq Limiter!Keys
      /\ \A a \in Attempts : attempt[a] \in Limiter!Attempt
      /\ \A k \in Limiter!Keys : counted[k] \in Nat
  BY DEF ScenariosAssumption, Limiter!ConstantsAssumption, Limiter!Keys
<1>1. ASSUME NEW a \in Attempts, Limiter!SignIn(a)
      PROVE  LimiterTyped' /\ \A k \in Limiter!Keys : BoundStep(k)
  <2>1. PICK c \in Clients :
          attempt' = [attempt EXCEPT ![a] = [pc |-> "gate", client |-> c, key |-> c]]
    BY <1>1 DEF Limiter!SignIn
  <2>2. /\ attempt'[a] = [pc |-> "gate", client |-> c, key |-> c]
        /\ \A b \in Attempts \ {a} : attempt'[b] = attempt[b]
        /\ attempt' \in [Attempts -> Limiter!Attempt]
    BY <1>0, <2>1 DEF Limiter!Attempt
  <2>3. counted' = counted
    BY <1>1 DEF Limiter!SignIn
  <2>4. OwnKeys'
    BY <2>2 DEF OwnKeys
  <2>5. \A k \in Limiter!Keys : Passed(k)' \subseteq Passed(k)
    BY <1>0, <2>2 DEF Passed
  <2>6. QED
    BY <1>0, <2>2, <2>3, <2>4, <2>5 DEF BoundStep
<1>2. ASSUME NEW a \in Attempts, Limiter!Gate(a)
      PROVE  LimiterTyped' /\ \A k \in Limiter!Keys : BoundStep(k)
  <2>1. counted' = counted /\ attempt[a].pc = "gate" /\ attempt[a].key \in Limiter!Keys
        /\ attempt[a].key \in {attempt[a].client, "account"}
        /\ attempt[a].client \in Clients
    BY <1>0, <1>2 DEF Limiter!Gate, Limiter!At, Limiter!Attempt, OwnKeys
  <2>2. CASE Limiter!Blocked(Limiter!Key(a))
    <3>1. Limiter!Goto(a, "idle", "account")
      BY <1>2, <2>2 DEF Limiter!Gate
    <3>2. /\ attempt' \in [Attempts -> Limiter!Attempt] /\ OwnKeys'
          /\ attempt'[a].pc = "idle"
          /\ \A b \in Attempts \ {a} : attempt'[b] = attempt[b]
      BY <1>0, <3>1, GoesAlone
    <3>3. \A k \in Limiter!Keys : Passed(k)' \subseteq Passed(k)
      BY <3>2 DEF Passed
    <3>4. QED
      BY <1>0, <2>1, <3>2, <3>3 DEF BoundStep
  <2>3. CASE ~Limiter!Blocked(Limiter!Key(a))
    <3>1. Limiter!Then(a, "verify")
      BY <1>2, <2>3 DEF Limiter!Gate
    <3>2. /\ attempt' \in [Attempts -> Limiter!Attempt] /\ OwnKeys'
          /\ attempt'[a].client = attempt[a].client /\ attempt'[a].key = "account"
          /\ attempt[a].key # "account" => attempt'[a].pc = "gate"
          /\ attempt[a].key = "account" => attempt'[a].pc = "verify"
          /\ \A b \in Attempts \ {a} : attempt'[b] = attempt[b]
      BY <2>1, <3>1, ThenGoes
    <3>3. counted[attempt[a].key] < MaxAttempts
      BY <1>0, <2>1, <2>3 DEF Limiter!Blocked, Limiter!Key
    <3>4. \A k \in Limiter!Keys : k # attempt[a].key => Passed(k)' \subseteq Passed(k)
      BY <1>0, <2>1, <3>2 DEF Passed
    <3>5. QED
      BY <1>0, <2>1, <3>2, <3>3, <3>4 DEF BoundStep
  <2>4. QED
    BY <2>2, <2>3
<1>3. ASSUME NEW a \in Attempts, Limiter!Verify(a)
      PROVE  LimiterTyped' /\ \A k \in Limiter!Keys : BoundStep(k)
  <2>1. counted' = counted /\ attempt[a].pc = "verify" /\ attempt[a].client \in Limiter!Keys
    BY <1>0, <1>3 DEF Limiter!Verify, Limiter!At, Limiter!Attempt
  <2>2. PICK pc \in {"reset", "incr"} : Limiter!Goto(a, pc, attempt[a].client)
    BY <1>3 DEF Limiter!Verify
  <2>3. /\ attempt' \in [Attempts -> Limiter!Attempt] /\ OwnKeys'
        /\ attempt'[a].pc = pc /\ attempt'[a].key = attempt[a].client
        /\ attempt'[a].client = attempt[a].client
        /\ \A b \in Attempts \ {a} : attempt'[b] = attempt[b]
    BY <2>1, <2>2, GoesAlone
  <2>4. \A k \in Limiter!Keys : Passed(k)' \subseteq Passed(k)
    BY <2>1, <2>3 DEF Passed
  <2>5. QED
    BY <1>0, <2>1, <2>3, <2>4 DEF BoundStep
<1>4. ASSUME NEW a \in Attempts, Limiter!Incr(a)
      PROVE  LimiterTyped' /\ \A k \in Limiter!Keys : BoundStep(k)
  <2>1. /\ attempt[a].pc = "incr" /\ attempt[a].key \in Limiter!Keys
        /\ attempt[a].key \in {attempt[a].client, "account"}
        /\ attempt[a].client \in Clients
        /\ counted' = [counted EXCEPT ![attempt[a].key] = counted[attempt[a].key] + 1]
    BY <1>0, <1>4 DEF Limiter!Incr, Limiter!At, Limiter!Attempt, Limiter!Key, OwnKeys
  <2>2. /\ counted' \in [Limiter!Keys -> Nat]
        /\ counted'[attempt[a].key] = counted[attempt[a].key] + 1
        /\ \A k \in Limiter!Keys \ {attempt[a].key} : counted'[k] = counted[k]
    BY <1>0, <2>1
  <2>3. /\ attempt' \in [Attempts -> Limiter!Attempt] /\ OwnKeys'
        /\ attempt'[a].client = attempt[a].client
        /\ \A b \in Attempts \ {a} : attempt'[b] = attempt[b]
        /\ \/ attempt'[a].pc = "expire" /\ attempt'[a].key = attempt[a].key
           \/ /\ attempt[a].key # "account"
              /\ attempt'[a].pc = "incr" /\ attempt'[a].key = "account"
           \/ attempt[a].key = "account" /\ attempt'[a].pc = "idle"
    <3>1. CASE Limiter!Goto(a, "expire", attempt[a].key)
      BY <2>1, <3>1, GoesAlone
    <3>2. CASE Limiter!Then(a, "idle")
      BY <2>1, <3>2, ThenGoes
    <3>3. QED
      BY <1>4, <3>1, <3>2 DEF Limiter!Incr, Limiter!Key
  <2>4. \A k \in Limiter!Keys : Passed(k)' \subseteq Passed(k)
    BY <1>0, <2>1, <2>3 DEF Passed
  <2>5. PICK own \in Limiter!Keys : own = attempt[a].key
    BY <2>1
  <2>6. a \in Passed(own)
    BY <2>1, <2>5 DEF Passed
  <2>7. a \notin Passed(own)'
    BY <2>3, <2>5 DEF Passed
  <2>8. BoundStep(own)
    BY <2>2, <2>4, <2>5, <2>6, <2>7 DEF BoundStep
  <2>9. \A k \in Limiter!Keys \ {own} : BoundStep(k)
    BY <1>0, <2>2, <2>4, <2>5 DEF BoundStep
  <2>10. QED
    BY <2>2, <2>3, <2>8, <2>9
<1>5. ASSUME NEW a \in Attempts, Limiter!Expire(a)
      PROVE  LimiterTyped' /\ \A k \in Limiter!Keys : BoundStep(k)
  <2>1. counted' = counted /\ attempt[a].pc = "expire" /\ attempt[a].client \in Clients
        /\ attempt[a].key \in {attempt[a].client, "account"}
    BY <1>0, <1>5 DEF Limiter!Expire, Limiter!At, Limiter!Attempt, OwnKeys
  <2>2. /\ attempt' \in [Attempts -> Limiter!Attempt] /\ OwnKeys'
        /\ attempt'[a].client = attempt[a].client /\ attempt'[a].key = "account"
        /\ attempt[a].key # "account" => attempt'[a].pc = "incr"
        /\ attempt[a].key = "account" => attempt'[a].pc = "idle"
        /\ \A b \in Attempts \ {a} : attempt'[b] = attempt[b]
    BY <1>5, <2>1, ThenGoes DEF Limiter!Expire
  <2>3. \A k \in Limiter!Keys : Passed(k)' \subseteq Passed(k)
    BY <1>0, <2>1, <2>2 DEF Passed
  <2>4. QED
    BY <1>0, <2>1, <2>2, <2>3 DEF BoundStep
<1>6. ASSUME NEW a \in Attempts, Limiter!Reset(a)
      PROVE  LimiterTyped' /\ \A k \in Limiter!Keys : BoundStep(k)
  <2>1. /\ attempt[a].pc = "reset" /\ attempt[a].key \in Limiter!Keys
        /\ counted' = [counted EXCEPT ![attempt[a].key] = 0]
    BY <1>0, <1>6 DEF Limiter!Reset, Limiter!At, Limiter!Attempt, Limiter!Key
  <2>2. /\ counted' \in [Limiter!Keys -> Nat]
        /\ \A k \in Limiter!Keys : counted'[k] = 0 \/ counted'[k] = counted[k]
    BY <1>0, <2>1
  <2>3. /\ attempt' \in [Attempts -> Limiter!Attempt] /\ OwnKeys'
        /\ attempt[a].key # "account" => attempt'[a].pc = "reset"
        /\ attempt[a].key = "account" => attempt'[a].pc = "idle"
        /\ \A b \in Attempts \ {a} : attempt'[b] = attempt[b]
    BY <1>6, <2>1, ThenGoes DEF Limiter!Reset
  <2>4. \A k \in Limiter!Keys : Passed(k)' \subseteq Passed(k)
    BY <2>1, <2>3 DEF Passed
  <2>5. QED
    BY <1>0, <2>2, <2>3, <2>4 DEF BoundStep
<1>7. ASSUME NEW a \in Attempts, Limiter!Die(a)
      PROVE  LimiterTyped' /\ \A k \in Limiter!Keys : BoundStep(k)
  <2>1. counted' = counted /\ Limiter!Goto(a, "idle", "account")
    BY <1>7 DEF Limiter!Die
  <2>2. /\ attempt' \in [Attempts -> Limiter!Attempt] /\ OwnKeys'
        /\ attempt'[a].pc = "idle"
        /\ \A b \in Attempts \ {a} : attempt'[b] = attempt[b]
    BY <1>0, <2>1, GoesAlone
  <2>3. \A k \in Limiter!Keys : Passed(k)' \subseteq Passed(k)
    BY <2>2 DEF Passed
  <2>4. QED
    BY <1>0, <2>1, <2>2, <2>3 DEF BoundStep
<1>8. ASSUME Limiter!Tick
      PROVE  LimiterTyped' /\ \A k \in Limiter!Keys : BoundStep(k)
  <2>1. /\ counted' = [k \in Limiter!Keys |-> IF ttl[k] = 1 THEN 0 ELSE counted[k]]
        /\ attempt' = attempt
    BY <1>8 DEF Limiter!Tick
  <2>2. counted' \in [Limiter!Keys -> Nat] /\ OwnKeys'
    BY <1>0, <2>1 DEF OwnKeys
  <2>3. \A k \in Limiter!Keys : Passed(k)' = Passed(k)
    BY <2>1 DEF Passed
  <2>4. \A k \in Limiter!Keys : counted'[k] = 0 \/ counted'[k] = counted[k]
    BY <2>1
  <2>5. QED
    BY <1>0, <2>1, <2>2, <2>3, <2>4 DEF BoundStep
<1>9. QED
  BY <1>1, <1>2, <1>3, <1>4, <1>5, <1>6, <1>7, <1>8 DEF Limiter!Next, Limiter!Step

\* What has been counted, and who may still count without another look at the counter.
LEMMA LimiterInvariant == Limiter!Spec => []LimiterInv
<1>0. /\ MaxAttempts \in Nat \ {0} /\ IsFiniteSet(Attempts)
      /\ "account" \notin Clients /\ Clients # {}
  BY ScenariosAssumption, SetsOfTheLimiter DEF ScenariosAssumption, Limiter!ConstantsAssumption
<1>1. Limiter!Init => LimiterInv
  <2> SUFFICES ASSUME Limiter!Init PROVE LimiterInv
    OBVIOUS
  <2>1. (CHOOSE c \in Clients : TRUE) \in Clients
    BY <1>0
  <2>2. [pc |-> "idle", client |-> CHOOSE c \in Clients : TRUE, key |-> "account"]
          \in Limiter!Attempt
    BY <2>1 DEF Limiter!Attempt, Limiter!Keys
  <2>3. attempt \in [Attempts -> Limiter!Attempt] /\ \A a \in Attempts : attempt[a].pc = "idle"
    BY <2>2 DEF Limiter!Init
  <2>4. LimiterTyped
    BY <2>3 DEF LimiterTyped, OwnKeys, Limiter!Init
  <2>5. \A k \in Limiter!Keys : Passed(k) = {} /\ counted[k] = 0
    BY <2>3 DEF Passed, Limiter!Init
  <2>6. Cardinality({}) = 0 /\ Cardinality(Attempts) \in Nat
    BY <1>0, FS_EmptySet, FS_CardinalityType
  <2>7. QED
    BY <1>0, <2>4, <2>5, <2>6 DEF LimiterInv
<1>2. LimiterInv /\ [Limiter!Next]_(Limiter!vars) => LimiterInv'
  <2> SUFFICES ASSUME LimiterInv, [Limiter!Next]_(Limiter!vars) PROVE LimiterInv'
    OBVIOUS
  <2>1. CASE Limiter!Next
    <3>1. LimiterTyped' /\ \A k \in Limiter!Keys : BoundStep(k)
      BY <2>1, ScenariosAssumption, LimiterStep DEF LimiterInv
    <3>2. ASSUME NEW k \in Limiter!Keys
          PROVE  counted'[k] + Cardinality(Passed(k)') < MaxAttempts + Cardinality(Attempts)
      <4>1. counted[k] \in Nat /\ counted'[k] \in Nat
        BY <3>1 DEF LimiterInv, LimiterTyped
      <4>2. counted[k] + Cardinality(Passed(k)) < MaxAttempts + Cardinality(Attempts)
        BY DEF LimiterInv
      <4>3. BoundStep(k)
        BY <3>1
      <4>4. QED
        BY <1>0, <4>1, <4>2, <4>3, BoundKept DEF BoundStep
    <3>3. Limiter!Keys' = Limiter!Keys
      BY DEF Limiter!Keys
    <3>4. QED
      BY <3>1, <3>2, <3>3 DEF LimiterInv
  <2>2. CASE UNCHANGED Limiter!vars
    BY <2>2 DEF LimiterInv, LimiterTyped, OwnKeys, Passed, Limiter!vars
  <2>3. QED
    BY <2>1, <2>2
<1>3. QED
  BY <1>1, <1>2, PTL DEF Limiter!Spec

\* The failures counted at a key never exceed the threshold by more than the sign-ins that may
\* be in flight together pass its gate (rate_limit.py, is_blocked and register_failure).
THEOREM FailuresNeverExceed == Spec => []FailuresAreBounded
<1>1. LimiterInv => FailuresAreBounded
  <2> SUFFICES ASSUME LimiterInv, NEW k \in Limiter!Keys
               PROVE  counted[k] < MaxAttempts + Cardinality(Attempts)
    BY SetsOfTheLimiter DEF FailuresAreBounded, Limiter!FailuresAreBounded
  <2>1. IsFiniteSet(Attempts) /\ Passed(k) \subseteq Attempts
    BY ScenariosAssumption, SetsOfTheLimiter
       DEF ScenariosAssumption, Limiter!ConstantsAssumption, Passed
  <2>2. Cardinality(Passed(k)) \in Nat /\ Cardinality(Attempts) \in Nat
    BY <2>1, FS_Subset, FS_CardinalityType
  <2>3. MaxAttempts \in Nat /\ counted[k] \in Nat
    BY ScenariosAssumption
       DEF ScenariosAssumption, Limiter!ConstantsAssumption, LimiterInv, LimiterTyped
  <2>4. QED
    BY <2>2, <2>3 DEF LimiterInv
<1>2. QED
  BY <1>1, LimiterInvariant, BehavioursOfTheComponents, PTL

=============================================================================
