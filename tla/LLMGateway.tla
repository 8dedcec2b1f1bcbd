------------------------------ MODULE LLMGateway ------------------------------
(***************************************************************************)
(* The gateway to the language models: a call walks the chain of its tier, *)
(* skipping providers that an admin turned off or whose circuit breaker is *)
(* open, until one answers.  The breakers live in Redis and are shared by  *)
(* every process; each of them is two keys with a time to live:            *)
(*   cb:<name>:failures   `failures` (0: no key) and `failuresTtl`         *)
(*   cb:<name>:open       present while `openTtl` is not 0                 *)
(* A step is one Redis command, or the answer of a provider and the Redis  *)
(* command that records it.                                                *)
(***************************************************************************)
EXTENDS Naturals, Sequences, FiniteSets, Functions

CONSTANTS
  Providers,
  Offline,         \* ollama, which an admin cannot turn off
  Disablings,      \* the sets of disabled providers a caller may read
  Chains,          \* the order of the providers, per tier
  Calls,           \* the calls one process may have at a time
  MaxConcurrency,  \* llm_max_concurrency, of that process
  Threshold,       \* llm_circuit_failure_threshold
  ResetSeconds,    \* llm_circuit_reset_seconds, in ticks
  MaxAborts        \* bound: calls that die in a behaviour

ASSUME ConstantsAssumption ==
  /\ Offline \in Providers
  /\ Disablings \subseteq SUBSET (Providers \ {Offline})
  /\ Chains \subseteq Seq(Providers)
  /\ MaxConcurrency \in Nat \ {0}
  /\ Threshold \in Nat \ {0}
  /\ ResetSeconds \in Nat \ {0}
  /\ MaxAborts \in Nat

VARIABLES
  failures,
  failuresTtl,  \* 0: the key has no time to live, or is not there
  openTtl,
  call,         \* each call of generate
  tripped,      \* history: the breaker opened and no success closed it since
  slow,         \* history: time passed between two commands of one record
  aborts

vars == << failures, failuresTtl, openTtl, call, tripped, slow, aborts >>

keys    == << failures, failuresTtl, openTtl >>
history == << tripped, slow >>

\* Counts above the threshold behave alike and are one.
Counts == 0 .. Threshold + 1
Ttl    == 0 .. ResetSeconds

PC == {"idle", "waiting", "asking", "calling", "expire", "open"}

Call == [ pc       : PC,
          chain    : Seq(Providers),    \* the providers left to try
          disabled : SUBSET Providers,  \* what the caller read of ai_provider
          count    : Counts,            \* the reply of INCR
          trial    : BOOLEAN ]          \* it got through a breaker that had tripped

IdleCall == [ pc |-> "idle", chain |-> << >>, disabled |-> {}, count |-> 0,
              trial |-> FALSE ]

TypeOK ==
  /\ failures    \in [Providers -> Counts]
  /\ failuresTtl \in [Providers -> Ttl]
  /\ openTtl     \in [Providers -> Ttl]
  /\ call        \in [Calls -> Call]
  /\ \A c \in Calls : call[c].pc \in {"calling", "expire", "open"} => call[c].chain # << >>
  /\ tripped     \in [Providers -> BOOLEAN]
  /\ slow        \in BOOLEAN
  /\ aborts      \in Nat

Init ==
  /\ failures    = [p \in Providers |-> 0]
  /\ failuresTtl = [p \in Providers |-> 0]
  /\ openTtl     = [p \in Providers |-> 0]
  /\ call        = [c \in Calls |-> IdleCall]
  /\ tripped     = [p \in Providers |-> FALSE]
  /\ slow        = FALSE
  /\ aborts      = 0

-----------------------------------------------------------------------------

At(c, pc) == call[c].pc = pc
On(c)     == Head(call[c].chain)
Open(p)   == openTtl[p] > 0

\* The calls that hold the semaphore.
Holding == {c \in Calls : call[c].pc \notin {"idle", "waiting"}}

Goto(c, pc) == call' = [call EXCEPT ![c].pc = pc]

\* A bug: the next provider is called without a look at the chain.
NextProviderCalled(c) ==
  LET rest == Tail(call[c].chain) IN
  call' = [call EXCEPT ![c] = [IdleCall EXCEPT !.pc = "calling", !.chain = rest,
                                 !.disabled = call[c].disabled \cap Range(rest)]]

\* continue: the next provider of the chain.  Of the disabled names only those
\* still to come matter.
NextProvider(c) ==
  LET rest == Tail(call[c].chain) IN
  call' = [call EXCEPT ![c] = [IdleCall EXCEPT !.pc = "asking", !.chain = rest,
                                 !.disabled = call[c].disabled \cap Range(rest)]]

Request(c) ==
  /\ At(c, "idle")
  /\ \E chain \in Chains, D \in Disablings :
       call' = [call EXCEPT ![c] = [IdleCall EXCEPT !.pc = "waiting", !.chain = chain,
                                      !.disabled = D]]
  /\ UNCHANGED << keys, history, aborts >>

\* async with self._semaphore
Acquire(c) ==
  /\ At(c, "waiting")
  /\ Cardinality(Holding) < MaxConcurrency
  /\ Goto(c, "asking")
  /\ UNCHANGED << keys, history, aborts >>

\* A bug: the loop looks at the same provider again.
SkipNobody(c) ==
  /\ At(c, "asking")
  /\ call[c].chain # << >>
  /\ On(c) \in call[c].disabled \/ Open(On(c))
  /\ UNCHANGED << call, keys, history, aborts >>

Skip(c) ==
  /\ At(c, "asking")
  /\ call[c].chain # << >>
  /\ On(c) \in call[c].disabled \/ Open(On(c))
  /\ NextProvider(c)
  /\ UNCHANGED << keys, history, aborts >>

\* allow() lets the call through.
Attempt(c) ==
  /\ At(c, "asking")
  /\ call[c].chain # << >>
  /\ On(c) \notin call[c].disabled
  /\ ~Open(On(c))
  /\ call' = [call EXCEPT ![c] = [call[c] EXCEPT !.pc = "calling",
                                              !.trial = tripped[On(c)]]]
  /\ UNCHANGED << keys, history, aborts >>

\* record_success: DEL of both keys; the result is returned.
Succeed(c) ==
  /\ At(c, "calling")
  /\ failures'    = [failures EXCEPT ![On(c)] = 0]
  /\ failuresTtl' = [failuresTtl EXCEPT ![On(c)] = 0]
  /\ openTtl'     = [openTtl EXCEPT ![On(c)] = 0]
  /\ call'        = [call EXCEPT ![c] = IdleCall]
  /\ tripped'     = [tripped EXCEPT ![On(c)] = FALSE]
  /\ UNCHANGED << slow, aborts >>

Bump(n) == IF n <= Threshold THEN n + 1 ELSE n

\* A bug: the breaker opens one failure late.
IncrLate(c) ==
  /\ At(c, "calling")
  /\ LET p == On(c)
         n == Bump(failures[p])
     IN /\ failures' = [failures EXCEPT ![p] = n]
        /\ IF n = 1 \/ n > Threshold
           THEN call' = [call EXCEPT ![c] =
                  [call[c] EXCEPT !.count = n, !.pc = IF n = 1 THEN "expire" ELSE "open"]]
           ELSE NextProvider(c)
  /\ UNCHANGED << failuresTtl, openTtl, tripped, slow, aborts >>

\* The provider raised; record_failure begins with INCR.
Incr(c) ==
  /\ At(c, "calling")
  /\ LET p == On(c)
         n == Bump(failures[p])
     IN /\ failures' = [failures EXCEPT ![p] = n]
        /\ IF n = 1 \/ n >= Threshold
           THEN call' = [call EXCEPT ![c] =
                  [call[c] EXCEPT !.count = n, !.pc = IF n = 1 THEN "expire" ELSE "open"]]
           ELSE NextProvider(c)
  /\ UNCHANGED << failuresTtl, openTtl, tripped, slow, aborts >>

\* A bug: the first failure sets no time to live.
ExpireNothing(c) ==
  /\ At(c, "expire")
  /\ IF call[c].count >= Threshold THEN Goto(c, "open") ELSE NextProvider(c)
  /\ UNCHANGED << failures, failuresTtl, openTtl, history, aborts >>

\* EXPIRE of the failures key; nothing if somebody deleted it.
Expire(c) ==
  /\ At(c, "expire")
  /\ failuresTtl' = IF failures[On(c)] > 0
                    THEN [failuresTtl EXCEPT ![On(c)] = ResetSeconds] ELSE failuresTtl
  /\ IF call[c].count >= Threshold THEN Goto(c, "open") ELSE NextProvider(c)
  /\ UNCHANGED << failures, openTtl, history, aborts >>

\* SET of the open key, with its time to live.
SetOpen(c) ==
  /\ At(c, "open")
  /\ openTtl' = [openTtl EXCEPT ![On(c)] = ResetSeconds]
  /\ tripped' = [tripped EXCEPT ![On(c)] = TRUE]
  /\ NextProvider(c)
  /\ UNCHANGED << failures, failuresTtl, slow, aborts >>

\* The chain is exhausted: AllProvidersFailedError.
Raise(c) ==
  /\ At(c, "asking")
  /\ call[c].chain = << >>
  /\ call' = [call EXCEPT ![c] = IdleCall]
  /\ UNCHANGED << keys, history, aborts >>

\* The process dies or is cancelled, or Redis refuses a command: the call ends.
Abort(c) ==
  /\ aborts < MaxAborts
  /\ ~At(c, "idle")
  /\ call' = [call EXCEPT ![c] = IdleCall]
  /\ aborts' = aborts + 1
  /\ UNCHANGED << keys, history >>

\* A bug: the open key is set without a time to live.
TickOpenStays ==
  /\ \E p \in Providers : failuresTtl[p] > 0 \/ openTtl[p] > 0
  /\ failures'    = [p \in Providers |-> IF failuresTtl[p] = 1 THEN 0 ELSE failures[p]]
  /\ failuresTtl' = [p \in Providers |->
                       IF failuresTtl[p] > 0 THEN failuresTtl[p] - 1 ELSE 0]
  /\ slow' = (slow \/ \E c \in Calls : call[c].pc \in {"expire", "open"})
  /\ UNCHANGED << openTtl, call, tripped, aborts >>

\* Time passes in Redis.
Tick ==
  /\ \E p \in Providers : failuresTtl[p] > 0 \/ openTtl[p] > 0
  /\ failures'    = [p \in Providers |-> IF failuresTtl[p] = 1 THEN 0 ELSE failures[p]]
  /\ failuresTtl' = [p \in Providers |->
                       IF failuresTtl[p] > 0 THEN failuresTtl[p] - 1 ELSE 0]
  /\ openTtl'     = [p \in Providers |-> IF openTtl[p] > 0 THEN openTtl[p] - 1 ELSE 0]
  /\ slow' = (slow \/ \E c \in Calls : call[c].pc \in {"expire", "open"})
  /\ UNCHANGED << call, tripped, aborts >>

Answer(c) ==
  \/ Skip(c) \/ Attempt(c) \/ Succeed(c) \/ Incr(c) \/ Expire(c) \/ SetOpen(c)
  \/ Raise(c)

Next ==
  \/ \E c \in Calls : Request(c) \/ Acquire(c) \/ Answer(c) \/ Abort(c)
  \/ Tick

Spec == Init /\ [][Next]_vars

\* Every provider call has a timeout, asyncio.Semaphore serves its waiters in
\* order, and time passes whatever the calls do.
Fairness ==
  /\ WF_vars(Tick)
  /\ \A c \in Calls : WF_vars(Answer(c)) /\ SF_vars(Acquire(c))

FairSpec == Spec /\ Fairness

-----------------------------------------------------------------------------
(* Properties.                                                             *)

\* Threshold failures inside one window open the breaker, and it stays open at
\* least as long as that window counts (circuit_breaker.py, record_failure),
\* unless the call that had to open it died or took longer than a tick to.
OpensAtThreshold ==
  \A p \in Providers :
    failures[p] >= Threshold =>
      \/ openTtl[p] > 0 /\ openTtl[p] >= failuresTtl[p]
      \/ \E c \in Calls : call[c].pc \in {"expire", "open"} /\ On(c) = p
      \/ aborts > 0 \/ slow

\* Failures far apart in time do not accumulate (circuit_breaker.py): a count
\* without a time to live is about to get one, unless the call that had to set
\* it died.
CountExpires ==
  \A p \in Providers :
    failures[p] > 0 /\ failuresTtl[p] = 0 =>
      (\E c \in Calls : At(c, "expire") /\ On(c) = p) \/ aborts > 0

\* A provider that failed is tried again: whatever the calls in flight do, its
\* breaker lets calls through again and again (circuit_breaker.py).
BreakerRecovers == \A p \in Providers : []<>~Open(p)

\* Every call ends, with an answer or an error, and gives the semaphore back
\* (llm_gateway.py, generate).
EveryCallEnds == \A c \in Calls : ~At(c, "idle") ~> At(c, "idle")

\* The failure of a trial re-opens the breaker (circuit_breaker.py).
TrialFailureReopens ==
  [][\A c \in Calls :
       call[c].trial /\ Incr(c) => Open(On(c)) \/ call'[c].pc = "open"]_vars
=============================================================================
