--------------------------- MODULE LLMGatewayProofs ---------------------------
(***************************************************************************)
(* LLMGateway for every number of providers, calls, ticks and failures:    *)
(* types, CountExpires and OpensAtThreshold.                               *)
(***************************************************************************)
EXTENDS LLMGateway, TLAPS

\* A call that is about to open the breaker of p.
Opening(p) ==
  \E c \in Calls : /\ At(c, "open") \/ (At(c, "expire") /\ call[c].count >= Threshold)
                   /\ On(c) = p

\* A call that is about to give the count of p its time to live.
Expiring(p) == \E c \in Calls : At(c, "expire") /\ On(c) = p

\* While somebody still has to set the time to live of the count, the open key
\* is as fresh as it gets: otherwise the late EXPIRE would outlast it.
Covered(p) ==
  /\ openTtl[p] > 0
  /\ openTtl[p] >= failuresTtl[p]
  /\ Expiring(p) => openTtl[p] = ResetSeconds

Windowed(p) == failures[p] > 0 /\ failuresTtl[p] = 0 /\ aborts = 0 => Expiring(p)

Guarded(p) ==
  failures[p] >= Threshold /\ aborts = 0 /\ ~slow => Opening(p) \/ Covered(p)

IInv == TypeOK /\ \A p \in Providers : Windowed(p) /\ Guarded(p)

\* What a call looks like when it turns to the rest of its chain.
LEMMA NextProviderIsCall ==
  ASSUME TypeOK, NEW c \in Calls, call[c].chain # << >>, NextProvider(c)
  PROVE  /\ call' \in [Calls -> Call]
         /\ call'[c].pc = "asking"
         /\ \A d \in Calls \ {c} : call'[d] = call[d]
<1>1. call[c] \in Call /\ call[c].chain \in Seq(Providers) /\ call[c].disabled \subseteq Providers
  BY DEF TypeOK, Call
<1>2. PICK rest : rest = Tail(call[c].chain)
  OBVIOUS
<1>3. rest \in Seq(Providers)
  BY <1>1, <1>2
<1>4. PICK next : next = [IdleCall EXCEPT !.pc = "asking", !.chain = rest,
                            !.disabled = call[c].disabled \cap Range(rest)]
  OBVIOUS
<1>5. next \in Call /\ next.pc = "asking"
  <2>1. next = [ pc |-> "asking", chain |-> rest, trial |-> FALSE, count |-> 0,
                 disabled |-> call[c].disabled \cap Range(rest) ]
    BY <1>4 DEF IdleCall
  <2>2. call[c].disabled \cap Range(rest) \in SUBSET Providers
    BY <1>1
  <2>3. 0 \in Counts
    BY ConstantsAssumption DEF Counts
  <2> QED
    BY <1>3, <2>1, <2>2, <2>3 DEF Call, PC
<1>6. call' = [call EXCEPT ![c] = next]
  BY <1>2, <1>4 DEF NextProvider
<1> QED
  BY <1>5, <1>6 DEF TypeOK

LEMMA Init_IInv == Init => IInv
<1> SUFFICES ASSUME Init PROVE IInv
  OBVIOUS
<1> USE ConstantsAssumption
<1>1. IdleCall \in Call
  BY DEF IdleCall, Call, PC, Counts
<1>2. TypeOK
  <2>1. 0 \in Counts /\ 0 \in Ttl
    BY DEF Counts, Ttl
  <2>2. call \in [Calls -> Call] /\ \A c \in Calls : call[c].pc = "idle"
    BY <1>1 DEF Init, IdleCall
  <2> QED
    BY <2>1, <2>2 DEF Init, TypeOK
<1>3. ASSUME NEW p \in Providers PROVE Windowed(p) /\ Guarded(p)
  BY DEF Init, Windowed, Guarded
<1> QED
  BY <1>2, <1>3 DEF IInv

\* A call that moves outside of a record disturbs neither kind of pending call.
LEMMA PendingStays ==
  ASSUME TypeOK, NEW c \in Calls, ~At(c, "expire"), ~At(c, "open"),
         \A d \in Calls \ {c} : call'[d] = call[d],
         call'[c].pc \notin {"expire", "open"},
         NEW p \in Providers
  PROVE  (Opening(p) => Opening(p)') /\ (Expiring(p) <=> Expiring(p)')
  BY DEF Opening, Expiring, At, On

LEMMA Next_IInv == IInv /\ [Next]_vars => IInv'
<1> SUFFICES ASSUME IInv, [Next]_vars PROVE IInv'
  OBVIOUS
<1> USE ConstantsAssumption
<1>0. TypeOK /\ \A p \in Providers : Windowed(p) /\ Guarded(p)
  BY DEF IInv
<1>id. IdleCall \in Call
  BY DEF IdleCall, Call, PC, Counts
\* Steps that touch neither the keys nor a recording call.
<1>q. ASSUME TypeOK', UNCHANGED << keys, history, aborts >>,
             NEW c \in Calls, ~At(c, "expire"), ~At(c, "open"),
             \A d \in Calls \ {c} : call'[d] = call[d],
             call'[c].pc \notin {"expire", "open"}
      PROVE  IInv'
  <2>1. ASSUME NEW p \in Providers PROVE (Windowed(p) /\ Guarded(p))'
    <3>1. (Opening(p) => Opening(p)') /\ (Expiring(p) <=> Expiring(p)')
      BY <1>0, <1>q, PendingStays
    <3>2. Windowed(p) /\ Guarded(p)
      BY <1>0
    <3> QED
      BY <3>1, <3>2, <1>q DEF Windowed, Guarded, Covered, keys, history
  <2> QED
    BY <2>1, <1>q DEF IInv
<1>1. ASSUME NEW c \in Calls, Request(c) PROVE IInv'
  <2>1. PICK chain \in Chains, D \in Disablings :
          call' = [call EXCEPT ![c] = [IdleCall EXCEPT !.pc = "waiting", !.chain = chain,
                                         !.disabled = D]]
    BY Zenon, <1>1 DEF Request
  <2>2. PICK new : new = [IdleCall EXCEPT !.pc = "waiting", !.chain = chain, !.disabled = D]
    OBVIOUS
  <2>3. new \in Call /\ new.pc = "waiting"
    <3>1. new = [ pc |-> "waiting", chain |-> chain, disabled |-> D, count |-> 0,
                  trial |-> FALSE ]
      BY <2>2 DEF IdleCall
    <3>2. chain \in Seq(Providers) /\ D \in SUBSET Providers /\ 0 \in Counts
      BY DEF Counts
    <3> QED
      BY <3>1, <3>2 DEF Call, PC
  <2>4. call' = [call EXCEPT ![c] = new]
    BY <2>1, <2>2
  <2>5. TypeOK'
    BY <1>0, <1>1, <2>3, <2>4 DEF TypeOK, Request, keys, history
  <2> QED
    BY <1>0, <1>1, <1>q, <2>3, <2>4, <2>5 DEF Request, At, TypeOK
<1>2. ASSUME NEW c \in Calls, Acquire(c) PROVE IInv'
  <2>1. TypeOK'
    <3>1. PICK new : new = [call[c] EXCEPT !.pc = "asking"]
      OBVIOUS
    <3>2. new \in Call /\ new.pc = "asking"
      <4>1. call[c] \in Call /\ "asking" \in PC
        BY <1>0 DEF TypeOK, PC
      <4> QED
        BY <3>1, <4>1 DEF Call
    <3>3. call' = [call EXCEPT ![c] = new]
      BY <1>2, <3>1 DEF Acquire, Goto
    <3> QED
      BY <1>0, <1>2, <3>2, <3>3 DEF Acquire, TypeOK, keys, history
  <2> QED
    BY <1>0, <1>2, <1>q, <2>1 DEF Acquire, Goto, At, TypeOK
<1>3. ASSUME NEW c \in Calls, Skip(c) PROVE IInv'
  <2>1. /\ call' \in [Calls -> Call]
        /\ call'[c].pc = "asking"
        /\ \A d \in Calls \ {c} : call'[d] = call[d]
    BY <1>0, <1>3, NextProviderIsCall DEF Skip
  <2>2. TypeOK'
    BY <1>0, <1>3, <2>1 DEF Skip, TypeOK, keys, history
  <2> QED
    BY <1>3, <1>q, <2>1, <2>2 DEF Skip, At
<1>4. ASSUME NEW c \in Calls, Attempt(c) PROVE IInv'
  <2>1. On(c) \in Providers
    BY <1>0, <1>4 DEF TypeOK, Call, On, Attempt
  <2>2. TypeOK'
    <3>1. PICK new : new = [call[c] EXCEPT !.pc = "calling", !.trial = tripped[On(c)]]
      OBVIOUS
    <3>2. new \in Call /\ new.pc = "calling" /\ new.chain # << >>
      <4>1. call[c] \in Call /\ tripped[On(c)] \in BOOLEAN /\ call[c].chain # << >>
        BY <1>0, <1>4, <2>1 DEF TypeOK, Attempt
      <4> QED
        BY <3>1, <4>1 DEF Call, PC
    <3>3. call' = [call EXCEPT ![c] = new]
      BY <1>4, <3>1 DEF Attempt
    <3> QED
      BY <1>0, <1>4, <3>2, <3>3 DEF Attempt, TypeOK, keys, history
  <2> QED
    BY <1>0, <1>4, <1>q, <2>2 DEF Attempt, At, TypeOK
<1>5. ASSUME NEW c \in Calls, Succeed(c) PROVE IInv'
  <2>1. On(c) \in Providers
    BY <1>0, <1>5 DEF TypeOK, Call, On, Succeed, At
  <2>2. TypeOK'
    BY <1>0, <1>5, <1>id, <2>1 DEF Succeed, TypeOK, Counts, Ttl, IdleCall
  <2>3. ASSUME NEW p \in Providers PROVE (Windowed(p) /\ Guarded(p))'
    <3>1. (Opening(p) => Opening(p)') /\ (Expiring(p) <=> Expiring(p)')
      BY <1>0, <1>5, PendingStays DEF Succeed, At, IdleCall, TypeOK
    <3>2. Windowed(p) /\ Guarded(p)
      BY <1>0
    <3>3. CASE p = On(c)
      BY <1>0, <1>5, <3>3 DEF Succeed, Windowed, Guarded, TypeOK
    <3>4. CASE p # On(c)
      BY <1>0, <1>5, <3>1, <3>2, <3>4 DEF Succeed, Windowed, Guarded, Covered, TypeOK
    <3> QED
      BY <3>3, <3>4
  <2> QED
    BY <2>2, <2>3 DEF IInv
<1>6. ASSUME NEW c \in Calls, Incr(c) PROVE IInv'
  <2>1. PICK p \in Providers, n \in Counts \ {0} :
          /\ p = On(c) /\ n = Bump(failures[p])
          /\ failures' = [failures EXCEPT ![p] = n]
    <3>1. On(c) \in Providers
      BY <1>0, <1>6 DEF Incr, TypeOK, Call, On, At
    <3>2. Bump(failures[On(c)]) \in Counts \ {0}
      BY <1>0, <3>1 DEF TypeOK, Bump, Counts
    <3> QED
      BY <1>6, <3>1, <3>2 DEF Incr
  <2>2. UNCHANGED << failuresTtl, openTtl, tripped, slow, aborts >> /\ At(c, "calling")
        /\ call[c].chain # << >>
    BY <1>0, <1>6 DEF Incr, TypeOK, At
  <2>3. IF n = 1 \/ n >= Threshold
        THEN call' = [call EXCEPT ![c] =
               [call[c] EXCEPT !.count = n, !.pc = IF n = 1 THEN "expire" ELSE "open"]]
        ELSE NextProvider(c)
    BY <1>6, <2>1 DEF Incr
  <2>4. /\ call' \in [Calls -> Call]
        /\ \A d \in Calls \ {c} : call'[d] = call[d]
        /\ n = 1 => At(c, "expire")' /\ call'[c].count = n /\ call'[c].chain = call[c].chain
        /\ n # 1 /\ n >= Threshold => At(c, "open")' /\ call'[c].chain = call[c].chain
        /\ n # 1 /\ n < Threshold => At(c, "asking")'
    <3>1. CASE n = 1 \/ n >= Threshold
      <4>1. PICK new : new = [call[c] EXCEPT !.count = n,
                                !.pc = IF n = 1 THEN "expire" ELSE "open"]
        OBVIOUS
      <4>2. /\ new \in Call /\ new.count = n /\ new.chain = call[c].chain
            /\ new.pc = IF n = 1 THEN "expire" ELSE "open"
        <5>1. call[c] \in Call /\ {"expire", "open"} \subseteq PC
          BY <1>0 DEF TypeOK, PC
        <5>2. (IF n = 1 THEN "expire" ELSE "open") \in PC /\ n \in Counts
          BY <2>1, <5>1
        <5> QED
          BY <4>1, <5>1, <5>2 DEF Call
      <4>3. call' = [call EXCEPT ![c] = new]
        BY <2>3, <3>1, <4>1
      <4> QED
        BY <1>0, <2>1, <3>1, <4>2, <4>3 DEF TypeOK, Counts, At
    <3>2. CASE ~(n = 1 \/ n >= Threshold)
      BY <1>0, <2>1, <2>2, <2>3, <3>2, NextProviderIsCall DEF At, Counts
    <3> QED
      BY <3>1, <3>2
  <2>5. TypeOK'
    <3>1. call'[c].pc \in {"calling", "expire", "open"} => call'[c].chain # << >>
      BY <2>1, <2>2, <2>4 DEF At, Counts
    <3>2. failures' \in [Providers -> Counts]
      BY <1>0, <2>1 DEF TypeOK
    <3> QED
      BY <1>0, <2>2, <2>4, <3>1, <3>2 DEF TypeOK
  <2>6. ASSUME NEW q \in Providers PROVE (Windowed(q) /\ Guarded(q))'
    <3>1. Windowed(q) /\ Guarded(q)
      BY <1>0
    <3>2. (Opening(q) => Opening(q)') /\ (Expiring(q) => Expiring(q)')
      BY <2>2, <2>4 DEF Opening, Expiring, At, On
    <3>3. CASE q # p
      <4>1. Expiring(q)' => Expiring(q)
        BY <2>1, <2>4, <3>3 DEF Expiring, At, On, Counts
      <4> QED
        BY <1>0, <2>1, <2>2, <3>1, <3>2, <3>3, <4>1
        DEF Windowed, Guarded, Covered, TypeOK
    <3>4. CASE q = p /\ n = 1
      <4>1. Expiring(q)'
        BY <2>1, <2>4, <3>4 DEF Expiring, At, On
      <4>2. Threshold = 1 => Opening(q)'
        BY <2>1, <2>4, <3>4 DEF Opening, At, On
      <4> QED
        BY <1>0, <2>1, <3>4, <4>1, <4>2 DEF Windowed, Guarded, TypeOK
    <3>5. CASE q = p /\ n # 1
      <4>1. failures[q] > 0
        BY <1>0, <2>1, <3>5 DEF Bump, TypeOK, Counts
      <4>2. n >= Threshold => Opening(q)'
        BY <2>1, <2>4, <3>5 DEF Opening, At, On
      <4> QED
        BY <1>0, <2>1, <2>2, <3>1, <3>2, <3>5, <4>1, <4>2 DEF Windowed, Guarded, TypeOK
    <3> QED
      BY <3>3, <3>4, <3>5
  <2> QED
    BY <2>5, <2>6 DEF IInv
<1>7. ASSUME NEW c \in Calls, Expire(c) PROVE IInv'
  <2>1. PICK p \in Providers : p = On(c)
    BY <1>0, <1>7 DEF Expire, TypeOK, Call, On, At
  <2>2. /\ UNCHANGED << failures, openTtl, history, aborts >>
        /\ At(c, "expire") /\ call[c].chain # << >>
        /\ failuresTtl' = IF failures[p] > 0
                          THEN [failuresTtl EXCEPT ![p] = ResetSeconds] ELSE failuresTtl
    BY <1>0, <1>7, <2>1 DEF Expire, TypeOK, At
  <2>3. /\ call' \in [Calls -> Call]
        /\ \A d \in Calls \ {c} : call'[d] = call[d]
        /\ call[c].count >= Threshold => At(c, "open")' /\ call'[c].chain = call[c].chain
        /\ ~(call[c].count >= Threshold) => At(c, "asking")'
    <3>1. CASE call[c].count >= Threshold
      <4>1. PICK new : new = [call[c] EXCEPT !.pc = "open"]
        OBVIOUS
      <4>2. new \in Call /\ new.pc = "open" /\ new.chain = call[c].chain
        <5>1. call[c] \in Call /\ "open" \in PC
          BY <1>0 DEF TypeOK, PC
        <5> QED
          BY <4>1, <5>1 DEF Call
      <4>3. call' = [call EXCEPT ![c] = new]
        BY <1>7, <3>1, <4>1 DEF Expire, Goto
      <4> QED
        BY <1>0, <3>1, <4>2, <4>3 DEF TypeOK, At
    <3>2. CASE ~(call[c].count >= Threshold)
      BY <1>0, <1>7, <2>2, <3>2, NextProviderIsCall DEF Expire, At
    <3> QED
      BY <3>1, <3>2
  <2>4. TypeOK'
    BY <1>0, <2>1, <2>2, <2>3 DEF TypeOK, At, Ttl, history
  <2>5. ASSUME NEW q \in Providers PROVE (Windowed(q) /\ Guarded(q))'
    <3>1. Windowed(q) /\ Guarded(q)
      BY <1>0
    <3>2. Opening(q) => Opening(q)'
      <4>1. SUFFICES ASSUME NEW d \in Calls,
                            At(d, "open") \/ (At(d, "expire") /\ call[d].count >= Threshold),
                            On(d) = q
                     PROVE  (At(d, "open") /\ On(d) = q)' \/ (call'[d] = call[d])
        BY DEF Opening, At, On
      <4> QED
        BY <2>2, <2>3, <4>1 DEF At, On
    <3>3. Expiring(q)' => Expiring(q)
      BY <2>3 DEF Expiring, At, On
    <3>4. CASE q # p
      <4>1. Expiring(q) => Expiring(q)'
        BY <2>1, <2>3, <3>4 DEF Expiring, At, On
      <4> QED
        BY <1>0, <2>2, <3>1, <3>2, <3>3, <3>4, <4>1
        DEF Windowed, Guarded, Covered, TypeOK, history
    <3>5. CASE q = p
      <4>1. Windowed(q)'
        BY <1>0, <2>2, <3>5 DEF Windowed, TypeOK, Counts
      <4>2. Expiring(q)
        BY <2>1, <2>2, <3>5 DEF Expiring
      <4>3. Covered(q) => Covered(q)'
        BY <1>0, <2>2, <3>5, <4>2 DEF Covered, TypeOK, Ttl
      <4> QED
        BY <2>2, <3>1, <3>2, <4>1, <4>3 DEF Guarded, history
    <3> QED
      BY <3>4, <3>5
  <2> QED
    BY <2>4, <2>5 DEF IInv
<1>8. ASSUME NEW c \in Calls, SetOpen(c) PROVE IInv'
  <2>1. PICK p \in Providers : p = On(c)
    BY <1>0, <1>8 DEF SetOpen, TypeOK, Call, On, At
  <2>2. /\ UNCHANGED << failures, failuresTtl, slow, aborts >>
        /\ At(c, "open") /\ call[c].chain # << >>
        /\ openTtl' = [openTtl EXCEPT ![p] = ResetSeconds]
        /\ tripped' = [tripped EXCEPT ![p] = TRUE]
        /\ NextProvider(c)
    BY <1>0, <1>8, <2>1 DEF SetOpen, TypeOK, At
  <2>3. /\ call' \in [Calls -> Call]
        /\ call'[c].pc = "asking"
        /\ \A d \in Calls \ {c} : call'[d] = call[d]
    BY <1>0, <2>2, NextProviderIsCall
  <2>4. TypeOK'
    <3>1. openTtl' \in [Providers -> Ttl] /\ tripped' \in [Providers -> BOOLEAN]
      BY <1>0, <2>2 DEF TypeOK, Ttl
    <3> QED
      BY <1>0, <2>2, <2>3, <3>1 DEF TypeOK
  <2>5. ASSUME NEW q \in Providers PROVE (Windowed(q) /\ Guarded(q))'
    <3>1. Windowed(q) /\ Guarded(q)
      BY <1>0
    <3>2. Expiring(q) <=> Expiring(q)'
      BY <2>2, <2>3 DEF Expiring, At, On
    <3>3. Windowed(q)'
      BY <2>2, <3>1, <3>2 DEF Windowed
    <3>4. CASE q # p
      <4>1. Opening(q) => Opening(q)'
        BY <2>1, <2>3, <3>4 DEF Opening, At, On
      <4> QED
        BY <1>0, <2>2, <3>1, <3>2, <3>3, <3>4, <4>1 DEF Guarded, Covered, TypeOK
    <3>5. CASE q = p
      BY <1>0, <2>2, <3>3, <3>5 DEF Guarded, Covered, TypeOK, Ttl
    <3> QED
      BY <3>4, <3>5
  <2> QED
    BY <2>4, <2>5 DEF IInv
<1>9. ASSUME NEW c \in Calls, Raise(c) PROVE IInv'
  <2>1. TypeOK'
    BY <1>0, <1>9, <1>id DEF Raise, TypeOK, IdleCall, keys, history
  <2> QED
    BY <1>0, <1>9, <1>q, <2>1 DEF Raise, At, TypeOK, IdleCall
<1>10. ASSUME NEW c \in Calls, Abort(c) PROVE IInv'
  <2>1. TypeOK' /\ aborts' > 0
    BY <1>0, <1>10, <1>id DEF Abort, TypeOK, IdleCall, keys, history
  <2> QED
    BY <2>1 DEF IInv, Windowed, Guarded, TypeOK
<1>11. CASE Tick
  <2>1. TypeOK'
    <3>1. /\ \A n \in Counts : (IF TRUE THEN 0 ELSE n) \in Counts
          /\ \A n \in Ttl : (IF n > 0 THEN n - 1 ELSE 0) \in Ttl
      BY DEF Counts, Ttl
    <3>2. failures' \in [Providers -> Counts]
      BY <1>0, <1>11, <3>1 DEF Tick, TypeOK
    <3>3. failuresTtl' \in [Providers -> Ttl] /\ openTtl' \in [Providers -> Ttl]
      BY <1>0, <1>11, <3>1 DEF Tick, TypeOK
    <3>4. slow' \in BOOLEAN
      BY <1>0, <1>11, Zenon DEF Tick, TypeOK
    <3> QED
      BY <1>0, <1>11, <3>2, <3>3, <3>4 DEF Tick, TypeOK
  <2>2. ASSUME NEW p \in Providers PROVE (Windowed(p) /\ Guarded(p))'
    <3>1. Windowed(p) /\ Guarded(p)
      BY <1>0
    <3>2. (Opening(p) <=> Opening(p)') /\ (Expiring(p) <=> Expiring(p)')
      BY <1>11 DEF Tick, Opening, Expiring, At, On
    <3>3. /\ failures[p] \in Nat /\ failuresTtl[p] \in Nat /\ openTtl[p] \in Nat
          /\ failures'[p] = IF failuresTtl[p] = 1 THEN 0 ELSE failures[p]
          /\ failuresTtl'[p] = IF failuresTtl[p] > 0 THEN failuresTtl[p] - 1 ELSE 0
          /\ openTtl'[p] = IF openTtl[p] > 0 THEN openTtl[p] - 1 ELSE 0
          /\ aborts' = aborts
      BY <1>0, <1>11 DEF Tick, TypeOK, Counts, Ttl
    <3>4. Windowed(p)'
      BY <3>1, <3>2, <3>3 DEF Windowed
    <3>5. ~slow' => ~slow /\ ~Opening(p) /\ ~Expiring(p)
      BY <1>11 DEF Tick, Opening, Expiring, At
    <3>6. Guarded(p)'
      BY <3>1, <3>2, <3>3, <3>5 DEF Guarded, Covered, Windowed
    <3> QED
      BY <3>4, <3>6
  <2> QED
    BY <2>1, <2>2 DEF IInv
<1>12. CASE UNCHANGED vars
  BY <1>0, <1>12 DEF vars, IInv, TypeOK, Windowed, Guarded, Covered, Opening, Expiring,
                     At, On
<1> QED
  BY <1>1, <1>2, <1>3, <1>4, <1>5, <1>6, <1>7, <1>8, <1>9, <1>10, <1>11, <1>12
  DEF Next, Answer

LEMMA AlwaysIInv == Spec => []IInv
  BY Init_IInv, Next_IInv, PTL DEF Spec

\* Type correctness of the gateway, for every value of the constants
\* (llm_gateway.py, circuit_breaker.py).
THEOREM TypeCorrect == Spec => []TypeOK
<1>1. IInv => TypeOK
  BY DEF IInv
<1> QED
  BY <1>1, AlwaysIInv, PTL

\* Every count of failures is bounded to a window (circuit_breaker.py).
THEOREM CountsExpire == Spec => []CountExpires
<1>1. IInv => CountExpires
  BY DEF IInv, CountExpires, Windowed, Expiring, TypeOK
<1> QED
  BY <1>1, AlwaysIInv, PTL

\* The threshold opens the breaker for as long as its window counts
\* (circuit_breaker.py).
THEOREM ThresholdOpens == Spec => []OpensAtThreshold
<1>1. ASSUME IInv PROVE OpensAtThreshold
  <2> SUFFICES ASSUME NEW p \in Providers, failures[p] >= Threshold, aborts = 0, ~slow
               PROVE  \/ openTtl[p] > 0 /\ openTtl[p] >= failuresTtl[p]
                      \/ \E c \in Calls : call[c].pc \in {"expire", "open"} /\ On(c) = p
    BY <1>1 DEF OpensAtThreshold, IInv, TypeOK
  <2>1. Opening(p) \/ Covered(p)
    BY <1>1 DEF IInv, Guarded
  <2> QED
    BY <2>1 DEF Opening, Covered, At
<1> QED
  BY <1>1, AlwaysIInv, PTL
=============================================================================
