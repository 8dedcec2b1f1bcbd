---------------------------- MODULE SignInLimiter ----------------------------
(***************************************************************************)
(* The limiter of sign-in attempts: a fixed window per address and one per *)
(* account, each a Redis counter with a time to live that the first        *)
(* failure sets.  A step is one Redis command, or the check of the         *)
(* password; the attempts of all processes interleave.                     *)
(***************************************************************************)
EXTENDS Naturals, FiniteSets

CONSTANTS
  Attempts,     \* sign-ins that may be in flight together
  Clients,      \* addresses they come from
  MaxAttempts,  \* login_rate_limit_max_attempts
  Window,       \* login_rate_limit_window_seconds, in ticks
  MaxDeaths     \* bound: attempts whose process dies, or whose Redis call fails

ConstantsAssumption ==
  /\ IsFiniteSet(Attempts)
  /\ Clients # {}
  /\ "account" \notin Clients
  /\ MaxAttempts \in Nat \ {0}
  /\ Window \in Nat \ {0}
  /\ MaxDeaths \in Nat

Keys == Clients \cup {"account"}

VARIABLES
  counted,  \* the counters; 0: no key
  ttl,      \* 0: no time to live, or no key
  attempt,  \* where each sign-in is, and the key it is at
  deaths

vars == << counted, ttl, attempt, deaths >>

Attempt == [ pc     : {"idle", "gate", "verify", "incr", "expire", "reset"},
             client : Clients,
             key    : Keys ]

TypeOK ==
  /\ counted \in [Keys -> Nat]
  /\ ttl \in [Keys -> 0 .. Window]
  /\ attempt \in [Attempts -> Attempt]
  /\ deaths \in Nat

Init ==
  /\ counted = [k \in Keys |-> 0]
  /\ ttl = [k \in Keys |-> 0]
  /\ attempt = [a \in Attempts |-> [pc |-> "idle", client |-> CHOOSE c \in Clients : TRUE,
                                    key |-> "account"]]
  /\ deaths = 0

-----------------------------------------------------------------------------

At(a, pc) == attempt[a].pc = pc
Key(a)    == attempt[a].key

Goto(a, pc, key) == attempt' = [attempt EXCEPT ![a].pc = pc, ![a].key = key]

\* The same command on the account's key, or else the next thing to do.
Then(a, next) ==
  IF Key(a) # "account" THEN Goto(a, IF At(a, "expire") THEN "incr" ELSE attempt[a].pc, "account")
  ELSE Goto(a, next, "account")

\* A bug: one failure more than the setting says.
BlockedLate(k) == counted[k] > MaxAttempts

Blocked(k) == counted[k] >= MaxAttempts

SignIn(a) ==
  /\ At(a, "idle")
  /\ \E c \in Clients :
       attempt' = [attempt EXCEPT ![a] = [pc |-> "gate", client |-> c, key |-> c]]
  /\ UNCHANGED << counted, ttl, deaths >>

\* is_blocked, of the address and then of the account; a blocked attempt counts for
\* nothing.
Gate(a) ==
  /\ At(a, "gate")
  /\ IF Blocked(Key(a)) THEN Goto(a, "idle", "account") ELSE Then(a, "verify")
  /\ UNCHANGED << counted, ttl, deaths >>

\* The credentials are right or wrong.
Verify(a) ==
  /\ At(a, "verify")
  /\ \E right \in BOOLEAN : Goto(a, IF right THEN "reset" ELSE "incr", attempt[a].client)
  /\ UNCHANGED << counted, ttl, deaths >>

\* register_failure: INCR.
Incr(a) ==
  /\ At(a, "incr")
  /\ counted' = [counted EXCEPT ![Key(a)] = @ + 1]
  /\ IF counted[Key(a)] = 0 THEN Goto(a, "expire", Key(a)) ELSE Then(a, "idle")
  /\ UNCHANGED << ttl, deaths >>

\* A bug: the first failure sets no time to live.
ExpireNothing(a) ==
  /\ At(a, "expire")
  /\ Then(a, "idle")
  /\ UNCHANGED << counted, ttl, deaths >>

\* EXPIRE, if it was the first failure; nothing if the key is gone again.
Expire(a) ==
  /\ At(a, "expire")
  /\ ttl' = IF counted[Key(a)] > 0 THEN [ttl EXCEPT ![Key(a)] = Window] ELSE ttl
  /\ Then(a, "idle")
  /\ UNCHANGED << counted, deaths >>

\* reset, before the address has to be a verified one.
Reset(a) ==
  /\ At(a, "reset")
  /\ counted' = [counted EXCEPT ![Key(a)] = 0]
  /\ ttl' = [ttl EXCEPT ![Key(a)] = 0]
  /\ Then(a, "idle")
  /\ UNCHANGED deaths

Die(a) ==
  /\ deaths < MaxDeaths
  /\ ~At(a, "idle")
  /\ Goto(a, "idle", "account")
  /\ deaths' = deaths + 1
  /\ UNCHANGED << counted, ttl >>

\* Time passes in Redis.
Tick ==
  /\ \E k \in Keys : ttl[k] > 0
  /\ counted' = [k \in Keys |-> IF ttl[k] = 1 THEN 0 ELSE counted[k]]
  /\ ttl' = [k \in Keys |-> IF ttl[k] > 0 THEN ttl[k] - 1 ELSE 0]
  /\ UNCHANGED << attempt, deaths >>

Step(a) == Gate(a) \/ Verify(a) \/ Incr(a) \/ Expire(a) \/ Reset(a)

Next ==
  \/ \E a \in Attempts : SignIn(a) \/ Step(a) \/ Die(a)
  \/ Tick

Spec == Init /\ [][Next]_vars

\* Time passes whatever the attempts do, and an attempt that goes on ends.
Fairness == WF_vars(Tick) /\ \A a \in Attempts : WF_vars(Step(a))

FairSpec == Spec /\ Fairness

-----------------------------------------------------------------------------
(* Properties.                                                             *)

\* The gate is read before the failure is counted, so attempts side by side pass it
\* together; the overshoot is what is in flight, never more (service.py, login).
FailuresAreBounded ==
  \A k \in Keys : counted[k] < MaxAttempts + Cardinality(Attempts)

\* Whoever was locked out may try again: a lockout ends with its window, whatever is
\* tried meanwhile (rate_limit.py), unless an attempt died before its EXPIRE.
LockoutEnds == \A k \in Keys : Blocked(k) ~> (~Blocked(k) \/ deaths > 0)
=============================================================================
