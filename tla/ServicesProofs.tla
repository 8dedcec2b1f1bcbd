---------------------------- MODULE ServicesProofs ----------------------------
(***************************************************************************)
(* The properties of MCServices that hold for every value of the constants *)
(* of its parts.  Each part has a section with its inductive invariant;    *)
(* a behaviour of the whole is a behaviour of each part, which stutters    *)
(* while another one moves, and the theorems come last.                    *)
(***************************************************************************)
EXTENDS MCServices, TLAPS

-----------------------------------------------------------------------------
(* The sessions.                                                           *)

\* A session that is not revoked, raced or not, and may still be exchanged for another.
Standing(i) == sessions[i].state # "revoked" /\ ~sessions[i].raced

\* A session has the root of a sign-in that came before it, or is one.
RootsAreOlder == \A i \in DOMAIN sessions : sessions[i].root \in 1 .. i

\* Of the sessions of a sign-in one stands: what is exchanged is revoked.
OneStands ==
  \A i, j \in DOMAIN sessions :
    Standing(i) /\ Standing(j) /\ sessions[i].root = sessions[j].root => i = j

\* A session that stands was issued since the last commit that ended them all.
StandingIsRecent == \A i \in DOMAIN sessions : Standing(i) => sessions[i].since = endings

\* What an UPDATE does not reach was issued while its transaction was open.
OutOfReachIsRaced ==
  \A q \in Requests : request[q].revoked =>
    \A i \in DOMAIN sessions : i > request[q].seen => sessions[i].raced

SessionsInv ==
  /\ SessionsPart!TypeOK
  /\ RootsAreOlder /\ OneStands /\ StandingIsRecent /\ OutOfReachIsRaced

\* A session is appended to what becomes of the others: for a sign-in, or for another one
\* that is revoked with it.
Issues(q, root, raced, old) ==
  /\ root \in 0 .. Len(sessions) /\ raced \in BOOLEAN
  /\ old \in Seq(SessionsPart!Session) /\ Len(old) = Len(sessions)
  /\ \A i \in DOMAIN sessions :
       /\ old[i].root = sessions[i].root /\ old[i].raced = sessions[i].raced
       /\ old[i].since = sessions[i].since
       /\ old[i].state \in {sessions[i].state, "revoked"}
  /\ root # 0 /\ ~raced =>
       \A i \in DOMAIN sessions : Standing(i) /\ sessions[i].root = root =>
         old[i].state = "revoked"
  /\ sessions' = Append(old, SessionsPart!Issued(q, root, raced))
  /\ endings' = endings

\* What is appended to the sessions, with one of them revoked or none, keeps the invariant: an
\* own root, or that of a standing session that is revoked by it.
LEMMA IssueKeepsOrder ==
  ASSUME SessionsInv, NEW q \in Requests,
         NEW root, NEW raced, NEW old, Issues(q, root, raced, old),
         \A p \in Requests : request'[p].revoked => request'[p] = request[p]
  PROVE  /\ sessions' \in Seq(SessionsPart!Session) /\ DOMAIN sessions \subseteq DOMAIN sessions'
         /\ RootsAreOlder' /\ OneStands' /\ StandingIsRecent' /\ OutOfReachIsRaced'
<1> USE DEF Issues
<1> DEFINE n   == Len(sessions) + 1
           new == SessionsPart!Issued(q, root, raced)
<1>1. /\ sessions \in Seq(SessionsPart!Session) /\ endings \in Nat
      /\ request \in [Requests -> SessionsPart!Request]
      /\ Len(sessions) \in Nat /\ DOMAIN sessions = 1 .. Len(sessions)
  BY DEF SessionsInv, SessionsPart!TypeOK
<1>2. request[q].since \in Nat
  BY <1>1 DEF SessionsPart!Request
<1>3. new \in SessionsPart!Session
  BY <1>1, <1>2 DEF SessionsPart!Issued, SessionsPart!Session, SessionsPart!Ending
<1>4. /\ sessions' \in Seq(SessionsPart!Session)
      /\ DOMAIN sessions' = 1 .. n
      /\ \A i \in DOMAIN sessions : sessions'[i] = old[i]
      /\ sessions'[n] = new
  <2> HIDE DEF new
  <2>1. old \in Seq(SessionsPart!Session) /\ Len(old) \in Nat /\ DOMAIN old = 1 .. Len(sessions)
    BY <1>1
  <2>2. sessions' = Append(old, new)
    BY DEF new
  <2>3. QED
    BY <1>1, <1>3, <2>1, <2>2
<1>5. /\ new.state = "live" /\ new.root = IF root = 0 THEN n ELSE root
      /\ new.since = request[q].since
      /\ ~new.raced => ~raced /\ ~SessionsPart!Ending /\ request[q].since = endings
  BY <1>2 DEF SessionsPart!Issued
<1>6. RootsAreOlder'
  <2>1. \A i \in DOMAIN sessions : sessions[i].root \in 1 .. i
    BY DEF SessionsInv, RootsAreOlder
  <2> HIDE DEF new
  <2>2. QED
    BY <1>1, <1>4, <1>5, <2>1 DEF RootsAreOlder
<1>7. \A i \in DOMAIN sessions : Standing(i)' => Standing(i)
  BY <1>4 DEF Standing
<1>8. OneStands'
  <2>1. ASSUME NEW i \in DOMAIN sessions', NEW j \in DOMAIN sessions', i < j,
               Standing(i)', Standing(j)', sessions'[i].root = sessions'[j].root
        PROVE  FALSE
    <3>1. i \in DOMAIN sessions /\ Standing(i) /\ sessions'[i] = old[i]
      BY <1>1, <1>4, <1>7, <2>1
    <3>2. CASE j \in DOMAIN sessions
      BY <1>1, <1>4, <1>7, <2>1, <3>1, <3>2 DEF SessionsInv, OneStands
    <3>3. CASE j = n
      <4>1. ~raced /\ sessions[i].root = new.root
        BY <1>4, <1>5, <2>1, <3>1, <3>3 DEF Standing
      <4>2. sessions[i].root \in 1 .. i
        BY <3>1 DEF SessionsInv, RootsAreOlder
      <4>3. root # 0
        BY <1>1, <1>5, <3>1, <4>1, <4>2
      <4>4. old[i].state = "revoked"
        BY <1>5, <3>1, <4>1, <4>3
      <4>5. QED
        BY <2>1, <3>1, <4>4 DEF Standing
    <3>4. QED
      BY <1>1, <1>4, <3>2, <3>3
  <2>2. DOMAIN sessions' \subseteq Nat
    BY <1>1, <1>4
  <2>3. QED
    BY <2>1, <2>2 DEF OneStands
<1>9. StandingIsRecent'
  <2>1. ASSUME NEW i \in DOMAIN sessions', Standing(i)'
        PROVE  sessions'[i].since = endings
    <3>1. CASE i \in DOMAIN sessions
      BY <1>4, <1>7, <2>1, <3>1 DEF SessionsInv, StandingIsRecent
    <3>2. CASE i = n
      BY <1>4, <1>5, <2>1, <3>2 DEF Standing
    <3>3. QED
      BY <1>1, <1>4, <3>1, <3>2
  <2>2. QED
    BY <2>1 DEF StandingIsRecent
<1>10. OutOfReachIsRaced'
  <2>1. ASSUME NEW p \in Requests, request'[p].revoked,
               NEW i \in DOMAIN sessions', i > request'[p].seen
        PROVE  sessions'[i].raced
    <3>1. request'[p] = request[p] /\ request[p].revoked
      BY <2>1
    <3>2. CASE i \in DOMAIN sessions
      BY <1>4, <2>1, <3>1, <3>2 DEF SessionsInv, OutOfReachIsRaced
    <3>3. CASE i = n
      <4>1. SessionsPart!Ending
        BY <3>1 DEF SessionsPart!Ending
      <4>2. new.raced
        BY <1>5, <4>1
      <4>3. QED
        BY <1>4, <3>3, <4>2
    <3>4. QED
      BY <1>1, <1>4, <3>2, <3>3
  <2>2. QED
    BY <2>1 DEF OutOfReachIsRaced
<1>11. QED
  BY <1>1, <1>4, <1>6, <1>8, <1>9, <1>10

\* Sessions that are only revoked or expire, while nothing is issued, keep it too.
LEMMA EndingKeepsOrder ==
  ASSUME SessionsInv,
         sessions' \in Seq(SessionsPart!Session), Len(sessions') = Len(sessions),
         \A i \in DOMAIN sessions :
           /\ sessions'[i].root = sessions[i].root /\ sessions'[i].raced = sessions[i].raced
           /\ sessions'[i].since = sessions[i].since
           /\ sessions[i].state = "revoked" => sessions'[i].state = "revoked",
         endings' = endings \/ \A i \in DOMAIN sessions : ~Standing(i)',
         \A p \in Requests : request'[p].revoked =>
           \/ request'[p] = request[p]
           \/ request'[p].seen = Len(sessions)
  PROVE  RootsAreOlder' /\ OneStands' /\ StandingIsRecent' /\ OutOfReachIsRaced'
<1>1. /\ DOMAIN sessions' = DOMAIN sessions /\ Len(sessions) \in Nat
      /\ DOMAIN sessions = 1 .. Len(sessions)
  BY DEF SessionsInv, SessionsPart!TypeOK
<1>2. \A i \in DOMAIN sessions : Standing(i)' => Standing(i)
  BY DEF Standing
<1>3. RootsAreOlder'
  BY <1>1 DEF SessionsInv, RootsAreOlder
<1>4. OneStands'
  BY <1>1, <1>2 DEF SessionsInv, OneStands
<1>5. StandingIsRecent'
  BY <1>1, <1>2 DEF SessionsInv, StandingIsRecent
<1>6. OutOfReachIsRaced'
  <2>1. ASSUME NEW p \in Requests, request'[p].revoked,
               NEW i \in DOMAIN sessions, i > request'[p].seen
        PROVE  sessions'[i].raced
    <3>1. request'[p] = request[p]
      BY <1>1, <2>1
    <3>2. QED
      BY <2>1, <3>1 DEF SessionsInv, OutOfReachIsRaced
  <2>2. QED
    BY <1>1, <2>1 DEF OutOfReachIsRaced
<1>7. QED
  BY <1>3, <1>4, <1>5, <1>6

LEMMA NoRequestType == SessionsPart!NoRequest \in SessionsPart!Request
BY DEF SessionsPart!NoRequest, SessionsPart!Request, SessionsPart!Kinds, SessionsPart!Enders

\* A request that is opened has read its rows and sent no UPDATE.
LEMMA OpenStep ==
  ASSUME SessionsInv, NEW q \in Requests, NEW kind \in SessionsPart!Kinds, NEW target \in Nat,
         kind \in {"refresh", "logout"} => target \in DOMAIN sessions,
         SessionsPart!Open(q, kind, target)
  PROVE  SessionsInv'
<1> DEFINE r == [SessionsPart!NoRequest EXCEPT !.kind = kind, !.target = target,
                                               !.since = endings]
<1>1. /\ UNCHANGED << account, password, linked, sessions, endings >>
      /\ request' = [request EXCEPT ![q] = r]
  BY DEF SessionsPart!Open, SessionsPart!user
<1>2. endings \in Nat /\ request \in [Requests -> SessionsPart!Request]
  BY DEF SessionsInv, SessionsPart!TypeOK
<1>3. r \in SessionsPart!Request /\ r.kind = kind /\ r.target = target /\ ~r.revoked
  BY <1>2 DEF SessionsPart!NoRequest, SessionsPart!Request
<1>4. /\ request' \in [Requests -> SessionsPart!Request]
      /\ \A p \in Requests : p # q => request'[p] = request[p]
      /\ request'[q] = r
  <2> HIDE DEF r
  <2>1. QED
    BY <1>1, <1>2, <1>3
<1>5. SessionsPart!TypeOK'
  <2> HIDE DEF r
  <2>1. QED
    BY <1>1, <1>3, <1>4 DEF SessionsInv, SessionsPart!TypeOK, SessionsPart!user
<1>6. \A p \in Requests : request'[p].revoked => request'[p] = request[p]
  <2> HIDE DEF r
  <2>1. QED
    BY <1>3, <1>4
<1>7. RootsAreOlder' /\ OneStands' /\ StandingIsRecent' /\ OutOfReachIsRaced'
  BY <1>1, <1>6, EndingKeepsOrder DEF SessionsInv, SessionsPart!TypeOK
<1>8. QED
  BY <1>5, <1>7 DEF SessionsInv

\* A request that commits is gone.
LEMMA RequestCloses ==
  ASSUME SessionsInv, NEW q \in Requests, SessionsPart!Close(q)
  PROVE  /\ request' \in [Requests -> SessionsPart!Request]
         /\ \A p \in Requests :
              /\ request'[p].revoked => request'[p] = request[p]
              /\ request'[p].kind \in {"refresh", "logout"} => request'[p] = request[p]
<1>1. request \in [Requests -> SessionsPart!Request]
  BY DEF SessionsInv, SessionsPart!TypeOK
<1>2. request' = [request EXCEPT ![q] = SessionsPart!NoRequest]
  BY DEF SessionsPart!Close
<1>3. ~SessionsPart!NoRequest.revoked /\ SessionsPart!NoRequest.kind = "none"
  BY DEF SessionsPart!NoRequest
<1>4. QED
  BY <1>1, <1>2, <1>3, NoRequestType

\* A commit that issues a session, with what it may write of the account.
LEMMA IssueStep ==
  ASSUME SessionsInv, NEW q \in Requests, SessionsPart!Close(q),
         NEW root, NEW raced, NEW old, Issues(q, root, raced, old),
         account' \in BOOLEAN, password' \in BOOLEAN, linked' \in BOOLEAN
  PROVE  SessionsInv'
<1>1. /\ request' \in [Requests -> SessionsPart!Request]
      /\ \A p \in Requests :
           /\ request'[p].revoked => request'[p] = request[p]
           /\ request'[p].kind \in {"refresh", "logout"} => request'[p] = request[p]
  BY RequestCloses
<1>2. /\ sessions' \in Seq(SessionsPart!Session) /\ DOMAIN sessions \subseteq DOMAIN sessions'
      /\ RootsAreOlder' /\ OneStands' /\ StandingIsRecent' /\ OutOfReachIsRaced'
  BY <1>1, IssueKeepsOrder
<1>3. SessionsPart!TypeOK'
  BY <1>1, <1>2 DEF SessionsInv, SessionsPart!TypeOK, SessionsPart!user, Issues
<1>4. QED
  BY <1>2, <1>3 DEF SessionsInv

\* A commit, or time, that ends sessions or leaves them alone.
LEMMA EndStep ==
  ASSUME SessionsInv,
         sessions' \in Seq(SessionsPart!Session), Len(sessions') = Len(sessions),
         \A i \in DOMAIN sessions :
           /\ sessions'[i].root = sessions[i].root /\ sessions'[i].raced = sessions[i].raced
           /\ sessions'[i].since = sessions[i].since
           /\ sessions[i].state = "revoked" => sessions'[i].state = "revoked",
         endings' = endings \/ \A i \in DOMAIN sessions : ~Standing(i)',
         endings' \in Nat, account' \in BOOLEAN, password' \in BOOLEAN, linked' \in BOOLEAN,
         request' \in [Requests -> SessionsPart!Request],
         \A p \in Requests :
           /\ request'[p].revoked => request'[p] = request[p] \/ request'[p].seen = Len(sessions)
           /\ request'[p].kind \in {"refresh", "logout"} =>
                request'[p].target = request[p].target /\ request'[p].kind = request[p].kind
  PROVE  SessionsInv'
<1>1. RootsAreOlder' /\ OneStands' /\ StandingIsRecent' /\ OutOfReachIsRaced'
  BY EndingKeepsOrder
<1>2. DOMAIN sessions' = DOMAIN sessions
  BY DEF SessionsInv, SessionsPart!TypeOK
<1>3. SessionsPart!TypeOK'
  BY <1>2 DEF SessionsInv, SessionsPart!TypeOK, SessionsPart!user
<1>4. QED
  BY <1>1, <1>3 DEF SessionsInv

\* What a session keeps when its state changes.
LEMMA SessionFields ==
  ASSUME NEW x \in SessionsPart!Session, NEW state \in {"expired", "revoked"}
  PROVE  /\ [x EXCEPT !.state = state] \in SessionsPart!Session
         /\ [x EXCEPT !.state = state].state = state
         /\ [x EXCEPT !.state = state].root = x.root
         /\ [x EXCEPT !.state = state].raced = x.raced
         /\ [x EXCEPT !.state = state].since = x.since
BY DEF SessionsPart!Session

LEMMA SessionsNext ==
  ASSUME SessionsInv, [SessionsPart!Next]_SessionsPart!vars
  PROVE  SessionsInv'
<1>0. /\ sessions \in Seq(SessionsPart!Session) /\ endings \in Nat
      /\ request \in [Requests -> SessionsPart!Request]
      /\ Len(sessions) \in Nat /\ DOMAIN sessions = 1 .. Len(sessions)
      /\ account \in BOOLEAN /\ password \in BOOLEAN /\ linked \in BOOLEAN
      /\ \A q \in Requests :
           request[q].kind \in {"refresh", "logout"} => request[q].target \in DOMAIN sessions
  BY DEF SessionsInv, SessionsPart!TypeOK, SessionsPart!user
<1> USE DEF SessionsPart!user
<1>1. ASSUME NEW q \in Requests,
             \/ SessionsPart!ReadRegister(q) \/ SessionsPart!ReadLogin(q)
             \/ SessionsPart!ReadLogoutAll(q) \/ SessionsPart!ReadReset(q)
      PROVE  SessionsInv'
  <2>1. PICK kind \in {"register", "login", "logout_all", "reset"} :
          SessionsPart!Open(q, kind, 0)
    BY <1>1 DEF SessionsPart!ReadRegister, SessionsPart!ReadLogin, SessionsPart!ReadLogoutAll,
       SessionsPart!ReadReset
  <2>2. kind \in SessionsPart!Kinds /\ kind \notin {"refresh", "logout"}
    BY DEF SessionsPart!Kinds, SessionsPart!Enders
  <2>3. QED
    BY <2>1, <2>2, OpenStep
<1>2. ASSUME NEW q \in Requests, SessionsPart!ReadGoogle(q) PROVE SessionsInv'
  <2>1. PICK target \in {0, 1, 2} : SessionsPart!Open(q, "google", target)
    BY <1>2 DEF SessionsPart!ReadGoogle
  <2>2. "google" \in SessionsPart!Kinds
    BY DEF SessionsPart!Kinds
  <2>3. QED
    BY <2>1, <2>2, OpenStep
<1>3. ASSUME NEW q \in Requests, SessionsPart!ReadRefresh(q) \/ SessionsPart!ReadLogout(q)
      PROVE  SessionsInv'
  <2>1. PICK i \in DOMAIN sessions, kind \in {"reuse", "refresh", "logout"} :
          SessionsPart!Open(q, kind, i)
    BY <1>3 DEF SessionsPart!ReadRefresh, SessionsPart!ReadLogout
  <2>2. kind \in SessionsPart!Kinds /\ i \in Nat
    BY <1>0 DEF SessionsPart!Kinds, SessionsPart!Enders
  <2>3. QED
    BY <2>1, <2>2, OpenStep
<1>4. ASSUME NEW q \in Requests, SessionsPart!ReadPassword(q) PROVE SessionsInv'
  <2>1. PICK kind \in {"change", "first_password"} : SessionsPart!Open(q, kind, 0)
    BY <1>4 DEF SessionsPart!ReadPassword
  <2>2. kind \in SessionsPart!Kinds /\ kind \notin {"refresh", "logout"}
    BY DEF SessionsPart!Kinds, SessionsPart!Enders
  <2>3. QED
    BY <2>1, <2>2, OpenStep
<1>5. ASSUME NEW q \in Requests, SessionsPart!RevokeAll(q) PROVE SessionsInv'
  <2>1. /\ UNCHANGED << account, password, linked, sessions, endings >>
        /\ request' = [request EXCEPT ![q].revoked = TRUE, ![q].seen = Len(sessions)]
    BY <1>5 DEF SessionsPart!RevokeAll
  <2> DEFINE r == [request[q] EXCEPT !.revoked = TRUE, !.seen = Len(sessions)]
  <2>2. /\ r \in SessionsPart!Request /\ r.kind = request[q].kind
        /\ r.target = request[q].target /\ r.seen = Len(sessions)
    BY <1>0 DEF SessionsPart!Request
  <2>3. request' = [request EXCEPT ![q] = r]
    BY <2>1
  <2> HIDE DEF r
  <2>4. /\ request' \in [Requests -> SessionsPart!Request]
        /\ \A p \in Requests :
             /\ request'[p].revoked => request'[p] = request[p] \/ request'[p].seen = Len(sessions)
             /\ request'[p].kind = request[p].kind /\ request'[p].target = request[p].target
    BY <1>0, <2>2, <2>3
  <2>5. QED
    BY <1>0, <2>1, <2>4, EndStep
<1>6. ASSUME NEW q \in Requests,
             \/ SessionsPart!CommitRegister(q) \/ SessionsPart!CommitLogin(q)
             \/ SessionsPart!CommitGoogle(q)
      PROVE  SessionsInv'
  <2>1. /\ SessionsPart!Close(q) /\ endings' = endings
        /\ account' \in BOOLEAN /\ password' \in BOOLEAN /\ linked' \in BOOLEAN
        /\ sessions' = sessions \/ sessions' = Append(sessions, SessionsPart!Issued(q, 0, FALSE))
    BY ZenonT(30), <1>0, <1>6 DEF SessionsPart!CommitRegister, SessionsPart!CommitLogin,
       SessionsPart!CommitGoogle
  <2>2. CASE sessions' = sessions
    BY <1>0, <2>1, <2>2, RequestCloses, EndStep
  <2>3. CASE sessions' = Append(sessions, SessionsPart!Issued(q, 0, FALSE))
    <3>1. Issues(q, 0, FALSE, sessions)
      BY <1>0, <2>1, <2>3 DEF Issues
    <3>2. QED
      BY ZenonT(30), <2>1, <3>1, IssueStep
  <2>4. QED
    BY <2>1, <2>2, <2>3
<1>7. ASSUME NEW q \in Requests, SessionsPart!CommitRefresh(q) PROVE SessionsInv'
  <2> DEFINE t   == request[q].target
             old == [sessions EXCEPT ![t].state = "revoked"]
             raced == sessions[t].raced \/ sessions[t].state = "revoked"
  <2>1. /\ t \in DOMAIN sessions
        /\ sessions' = Append(old, SessionsPart!Issued(q, sessions[t].root, raced))
        /\ SessionsPart!Close(q)
        /\ UNCHANGED << account, password, linked, endings >>
    BY <1>0, <1>7 DEF SessionsPart!CommitRefresh, SessionsPart!Kind, SessionsPart!Target
  <2>2. /\ old \in Seq(SessionsPart!Session) /\ Len(old) = Len(sessions)
        /\ \A j \in DOMAIN sessions :
             /\ old[j].root = sessions[j].root /\ old[j].raced = sessions[j].raced
             /\ old[j].since = sessions[j].since
             /\ old[j].state = IF j = t THEN "revoked" ELSE sessions[j].state
    <3> DEFINE x == [sessions[t] EXCEPT !.state = "revoked"]
    <3>1. sessions[t] \in SessionsPart!Session
      BY <1>0, <2>1
    <3>2. /\ x \in SessionsPart!Session /\ x.state = "revoked" /\ x.root = sessions[t].root
          /\ x.raced = sessions[t].raced /\ x.since = sessions[t].since
      BY <3>1, SessionFields
    <3>3. old = [sessions EXCEPT ![t] = x]
      OBVIOUS
    <3> HIDE DEF old, x, t
    <3>4. QED
      BY <1>0, <2>1, <3>2, <3>3
  <2>3. sessions[t].root \in 0 .. Len(sessions) /\ raced \in BOOLEAN
    <3>1. sessions[t].root \in 1 .. t
      BY <2>1 DEF SessionsInv, RootsAreOlder
    <3>2. sessions[t].raced \in BOOLEAN
      <4>1. sessions[t] \in SessionsPart!Session
        BY <1>0, <2>1
      <4>2. QED
        BY <4>1 DEF SessionsPart!Session
    <3>3. QED
      BY <1>0, <2>1, <3>1, <3>2
  <2>4. ~raced => \A i \in DOMAIN sessions :
          Standing(i) /\ sessions[i].root = sessions[t].root => old[i].state = "revoked"
    <3>1. ~raced => Standing(t)
      BY DEF Standing
    <3>2. QED
      BY <2>1, <2>2, <3>1 DEF SessionsInv, OneStands
  <2> HIDE DEF old, raced, t
  <2>5. QED
    <3>1. Issues(q, sessions[t].root, raced, old)
      BY <2>1, <2>2, <2>3, <2>4 DEF Issues
    <3>2. QED
      BY <1>0, <2>1, <3>1, IssueStep
<1>8. ASSUME NEW q \in Requests, SessionsPart!CommitLogout(q) PROVE SessionsInv'
  <2>1. /\ request[q].target \in DOMAIN sessions
        /\ sessions' = [sessions EXCEPT ![request[q].target].state = "revoked"]
        /\ SessionsPart!Close(q)
        /\ UNCHANGED << account, password, linked, endings >>
    BY <1>0, <1>8 DEF SessionsPart!CommitLogout, SessionsPart!Kind, SessionsPart!Target
  <2>2. /\ sessions' \in Seq(SessionsPart!Session) /\ Len(sessions') = Len(sessions)
        /\ \A j \in DOMAIN sessions :
             /\ sessions'[j].root = sessions[j].root /\ sessions'[j].raced = sessions[j].raced
             /\ sessions'[j].since = sessions[j].since
             /\ sessions'[j].state \in {sessions[j].state, "revoked"}
    <3> DEFINE t == request[q].target
               x == [sessions[t] EXCEPT !.state = "revoked"]
    <3>1. sessions[t] \in SessionsPart!Session
      BY <1>0, <2>1
    <3>2. /\ x \in SessionsPart!Session /\ x.state = "revoked" /\ x.root = sessions[t].root
          /\ x.raced = sessions[t].raced /\ x.since = sessions[t].since
      BY <3>1, SessionFields
    <3>3. sessions' = [sessions EXCEPT ![t] = x] /\ t \in DOMAIN sessions
      BY <2>1
    <3> HIDE DEF x, t
    <3>4. QED
      BY <1>0, <3>2, <3>3
  <2>3. QED
    BY <1>0, <2>1, <2>2, RequestCloses, EndStep
<1>9. ASSUME NEW q \in Requests, SessionsPart!CommitEnding(q) PROVE SessionsInv'
  <2> DEFINE end(i) == IF i <= request[q].seen THEN [sessions[i] EXCEPT !.state = "revoked"]
                       ELSE sessions[i]
  <2>1. /\ request[q].revoked /\ sessions' = [i \in DOMAIN sessions |-> end(i)]
        /\ endings' = endings + 1 /\ password' \in BOOLEAN
        /\ SessionsPart!Close(q) /\ UNCHANGED << account, linked >>
    BY <1>0, <1>9 DEF SessionsPart!CommitEnding
  <2>2. ASSUME NEW i \in DOMAIN sessions
        PROVE  /\ end(i) \in SessionsPart!Session
               /\ end(i).root = sessions[i].root /\ end(i).raced = sessions[i].raced
               /\ end(i).since = sessions[i].since
               /\ end(i).state \in {sessions[i].state, "revoked"}
               /\ i <= request[q].seen => end(i).state = "revoked"
    <3>1. sessions[i] \in SessionsPart!Session
      BY <1>0
    <3>2. QED
      BY <3>1, SessionFields
  <2> HIDE DEF end
  <2>3. /\ sessions' \in Seq(SessionsPart!Session) /\ Len(sessions') = Len(sessions)
        /\ \A i \in DOMAIN sessions : sessions'[i] = end(i)
    BY <1>0, <2>1, <2>2
  <2>4. ASSUME NEW i \in DOMAIN sessions PROVE ~Standing(i)'
    <3>1. request[q].seen \in Nat
      BY <1>0 DEF SessionsPart!Request
    <3>2. i > request[q].seen => sessions[i].raced
      BY <2>1 DEF SessionsInv, OutOfReachIsRaced
    <3>3. QED
      BY <1>0, <2>2, <2>3, <3>1, <3>2 DEF Standing
  <2>5. QED
    BY <1>0, <2>1, <2>2, <2>3, <2>4, RequestCloses, EndStep
<1>10. ASSUME NEW q \in Requests, SessionsPart!CommitFirstPassword(q) PROVE SessionsInv'
  <2>1. /\ SessionsPart!Close(q) /\ password' \in BOOLEAN
        /\ UNCHANGED << account, linked, sessions, endings >>
    BY <1>10 DEF SessionsPart!CommitFirstPassword
  <2>2. QED
    BY <1>0, <2>1, RequestCloses, EndStep
<1>11. ASSUME NEW i \in DOMAIN sessions, SessionsPart!ExpireSession(i) PROVE SessionsInv'
  <2>1. /\ sessions[i].state = "live"
        /\ sessions' = [sessions EXCEPT ![i].state = "expired"]
        /\ UNCHANGED << account, password, linked, endings, request >>
    BY <1>11 DEF SessionsPart!ExpireSession
  <2>2. /\ sessions' \in Seq(SessionsPart!Session) /\ Len(sessions') = Len(sessions)
        /\ \A j \in DOMAIN sessions :
             /\ sessions'[j].root = sessions[j].root /\ sessions'[j].raced = sessions[j].raced
             /\ sessions'[j].since = sessions[j].since
             /\ sessions'[j].state = IF j = i THEN "expired" ELSE sessions[j].state
    <3> DEFINE x == [sessions[i] EXCEPT !.state = "expired"]
    <3>1. sessions[i] \in SessionsPart!Session
      BY <1>0
    <3>2. /\ x \in SessionsPart!Session /\ x.state = "expired" /\ x.root = sessions[i].root
          /\ x.raced = sessions[i].raced /\ x.since = sessions[i].since
      BY <3>1, SessionFields
    <3>3. sessions' = [sessions EXCEPT ![i] = x]
      BY <2>1
    <3> HIDE DEF x
    <3>4. QED
      BY <1>0, <3>2, <3>3
  <2>3. QED
    BY <1>0, <2>1, <2>2, EndStep
<1>12. CASE UNCHANGED SessionsPart!vars
  BY <1>0, <1>12, EndStep DEF SessionsPart!vars
<1>13. QED
  BY <1>1, <1>2, <1>3, <1>4, <1>5, <1>6, <1>7, <1>8, <1>9, <1>10, <1>11, <1>12
     DEF SessionsPart!Next

LEMMA SessionsInvariant == SessionsPart!Spec => []SessionsInv
<1>1. SessionsPart!Init => SessionsInv
  <2> SUFFICES ASSUME SessionsPart!Init PROVE SessionsInv
    OBVIOUS
  <2>1. sessions = << >> /\ DOMAIN sessions = {} /\ sessions \in Seq(SessionsPart!Session)
    BY DEF SessionsPart!Init
  <2>2. \A q \in Requests : ~request[q].revoked /\ request[q].kind = "none"
    BY DEF SessionsPart!Init, SessionsPart!NoRequest
  <2>3. SessionsPart!TypeOK
    BY <2>1, <2>2, NoRequestType DEF SessionsPart!Init, SessionsPart!TypeOK, SessionsPart!user
  <2>4. QED
    BY <2>1, <2>2, <2>3
       DEF SessionsInv, RootsAreOlder, OneStands, StandingIsRecent, OutOfReachIsRaced
<1>2. QED
  BY <1>1, SessionsNext, PTL DEF SessionsPart!Spec

-----------------------------------------------------------------------------
(* The one-time links.                                                     *)

\* What a request is about to issue has a purpose.
LinksInv ==
  /\ Links!TypeOK
  /\ \A q \in Requests : asking[q].pc = "issuing" => asking[q].purpose \in Links!Purposes
  /\ Links!LastLinkWins

\* A request that is idle.
LEMMA IdleAsking == Links!Idle \in Links!Asking /\ Links!Idle.pc = "idle"
BY DEF Links!Idle, Links!Asking, Links!Purposes

\* What a link keeps when one of its fields changes.
LEMMA LinkFields ==
  ASSUME NEW l \in Links!Link, NEW b \in BOOLEAN
  PROVE  /\ [l EXCEPT !.state = "superseded"] \in Links!Link
         /\ [l EXCEPT !.state = "confirmed"] \in Links!Link
         /\ [l EXCEPT !.mailed = b] \in Links!Link
         /\ [l EXCEPT !.expired = b] \in Links!Link
BY DEF Links!Link

\* A link that changes stays in its place.
LEMMA LinkChanges ==
  ASSUME links \in Seq(Links!Link), NEW t \in DOMAIN links, NEW l \in Links!Link,
         links' = [links EXCEPT ![t] = l]
  PROVE  /\ links' \in Seq(Links!Link) /\ Len(links') = Len(links)
         /\ DOMAIN links' = DOMAIN links
         /\ links'[t] = l
         /\ \A s \in DOMAIN links : s # t => links'[s] = links[s]
OBVIOUS

\* A link that only changes its state to confirmed, its mail or its age neither makes nor
\* breaks the order of the links.
LEMMA OtherChangesKeepOrder ==
  ASSUME Links!TypeOK, Links!LastLinkWins,
         links' \in Seq(Links!Link), Len(links') = Len(links),
         \A t \in DOMAIN links :
           /\ links'[t].purpose = links[t].purpose /\ links'[t].seen = links[t].seen
           /\ links'[t].state \in {links[t].state, "confirmed"}
  PROVE  Links!LastLinkWins'
<1>1. DOMAIN links' = DOMAIN links
  BY DEF Links!TypeOK
<1>2. ASSUME NEW s \in DOMAIN links, NEW t \in DOMAIN links,
             links'[s].purpose = links'[t].purpose, links'[s].state # "confirmed"
      PROVE  /\ s < t /\ s <= links'[t].seen => links'[s].state = "superseded"
             /\ links'[s].state = "superseded" =>
                  \E n \in DOMAIN links : links'[n].purpose = links'[s].purpose /\ n > s
  <2>1. links'[s].state = links[s].state /\ links[s].purpose = links[t].purpose
    BY <1>2
  <2>2. /\ s < t /\ s <= links[t].seen => links[s].state = "superseded"
        /\ links[s].state = "superseded" =>
             \E n \in DOMAIN links : links[n].purpose = links[s].purpose /\ n > s
    BY <1>2, <2>1 DEF Links!LastLinkWins
  <2>3. QED
    BY <2>1, <2>2
<1>3. QED
  BY <1>1, <1>2 DEF Links!LastLinkWins

\* What a request issues supersedes the links of its purpose that it can see.
LEMMA LinkIssueStep ==
  ASSUME LinksInv, NEW q \in Requests, Links!Issue(q)
  PROVE  LinksInv'
<1> DEFINE old(t) == IF Links!Spends(q, t) THEN [links[t] EXCEPT !.state = "superseded"]
                     ELSE links[t]
<1>1. /\ links \in Seq(Links!Link) /\ asking[q] \in Links!Asking /\ asking[q].pc = "issuing"
      /\ asking[q].purpose \in Links!Purposes /\ asking[q].seen \in Nat
  BY DEF LinksInv, Links!TypeOK, Links!Issue, Links!At, Links!Asking
<1>2. Links!NewLink(q) \in Links!Link
  BY <1>1 DEF Links!NewLink, Links!Link
<1>3. ASSUME NEW t \in DOMAIN links PROVE old(t) \in Links!Link
  <2>1. links[t] \in Links!Link
    BY <1>1
  <2>2. QED
    BY <2>1, LinkFields
<1>4. [t \in DOMAIN links |-> old(t)] \in Seq(Links!Link)
      /\ Len([t \in DOMAIN links |-> old(t)]) = Len(links)
  BY <1>1, <1>3
<1>5. links' = Append([t \in DOMAIN links |-> old(t)], Links!NewLink(q))
  BY DEF Links!Issue
<1>6. /\ links' \in Seq(Links!Link) /\ Len(links') = Len(links) + 1
      /\ \A t \in DOMAIN links : links'[t] = old(t)
      /\ links'[Len(links) + 1] = Links!NewLink(q)
      /\ DOMAIN links' = 1 .. Len(links) + 1 /\ DOMAIN links = 1 .. Len(links)
      /\ Len(links) \in Nat
  <2> DEFINE seq == [t \in DOMAIN links |-> old(t)]
  <2>1. \A t \in DOMAIN links : seq[t] = old(t)
    OBVIOUS
  <2> HIDE DEF seq
  <2>2. QED
    BY <1>1, <1>2, <1>4, <1>5, <2>1
<1>7. asking' = [asking EXCEPT ![q] = [Links!Idle EXCEPT !.pc = "mailing",
                                                        !.link = Len(links) + 1]]
      /\ verified' = verified
  BY DEF Links!Issue, Links!Issued
<1>8. Links!TypeOK'
  <2>1. /\ [Links!Idle EXCEPT !.pc = "mailing", !.link = Len(links) + 1] \in Links!Asking
        /\ [Links!Idle EXCEPT !.pc = "mailing", !.link = Len(links) + 1].link = Len(links) + 1
    <3>1. Len(links) + 1 \in Nat
      BY <1>6
    <3>2. QED
      BY <3>1 DEF Links!Idle, Links!Asking, Links!Purposes
  <2>2. QED
    BY <1>6, <1>7, <2>1 DEF LinksInv, Links!TypeOK
<1>9. \A p \in Requests : asking'[p].pc = "issuing" => asking'[p].purpose \in Links!Purposes
  BY <1>7 DEF LinksInv, Links!TypeOK, Links!Idle, Links!Asking
<1>10. \A t \in DOMAIN links :
         /\ links'[t].purpose = links[t].purpose /\ links'[t].seen = links[t].seen
         /\ links'[t].state = IF Links!Spends(q, t) THEN "superseded" ELSE links[t].state
  <2>1. \A t \in DOMAIN links : links[t] \in Links!Link
    BY <1>1
  <2>2. QED
    BY <1>6, <2>1 DEF Links!Link
<1>11. /\ links'[Len(links) + 1].purpose = asking[q].purpose
       /\ links'[Len(links) + 1].seen = asking[q].seen
       /\ links'[Len(links) + 1].state = "usable"
  BY <1>6 DEF Links!NewLink
<1>12. ASSUME NEW s \in DOMAIN links', NEW t \in DOMAIN links',
              links'[s].purpose = links'[t].purpose, links'[s].state # "confirmed"
       PROVE  /\ s < t /\ s <= links'[t].seen => links'[s].state = "superseded"
              /\ links'[s].state = "superseded" =>
                   \E n \in DOMAIN links' : links'[n].purpose = links'[s].purpose /\ n > s
  <2>1. ASSUME s < t, s <= links'[t].seen
        PROVE  links'[s].state = "superseded"
    <3>1. s \in DOMAIN links
      BY <1>6, <2>1
    <3>2. CASE t \in DOMAIN links
      <4>1. links[s].state # "confirmed"
        BY <1>10, <1>12, <3>1 DEF Links!Spends
      <4>2. links[s].state = "superseded"
        BY <1>10, <1>12, <2>1, <3>1, <3>2, <4>1 DEF LinksInv, Links!LastLinkWins
      <4>3. QED
        BY <1>10, <3>1, <4>2
    <3>3. CASE t = Len(links) + 1
      <4>1. links[s].state \in {"usable", "superseded"}
        <5>1. links[s] \in Links!Link
          BY <1>1, <3>1
        <5>2. QED
          BY <1>10, <1>12, <3>1, <5>1 DEF Links!Link, Links!Spends
      <4>2. links[s].state = "usable" => Links!Spends(q, s)
        BY <1>10, <1>11, <1>12, <2>1, <3>1, <3>3 DEF Links!Spends
      <4>3. QED
        BY <1>10, <3>1, <4>1, <4>2
    <3>4. QED
      BY <1>6, <3>2, <3>3
  <2>2. ASSUME links'[s].state = "superseded"
        PROVE  \E n \in DOMAIN links' : links'[n].purpose = links'[s].purpose /\ n > s
    <3>1. s \in DOMAIN links
      BY <1>6, <1>11, <2>2
    <3>2. CASE Links!Spends(q, s)
      BY <1>6, <1>10, <1>11, <3>1, <3>2 DEF Links!Spends
    <3>3. CASE ~Links!Spends(q, s)
      <4>1. links[s].state = "superseded"
        BY <1>10, <2>2, <3>1, <3>3
      <4>2. PICK n \in DOMAIN links : links[n].purpose = links[s].purpose /\ n > s
        BY <3>1, <4>1 DEF LinksInv, Links!LastLinkWins
      <4>3. QED
        BY <1>6, <1>10, <3>1, <4>2
    <3>4. QED
      BY <3>2, <3>3
  <2>3. QED
    BY <2>1, <2>2
<1>13. Links!LastLinkWins'
  BY <1>12 DEF Links!LastLinkWins
<1>14. QED
  BY <1>8, <1>9, <1>13 DEF LinksInv

\* Every request keeps the order of the links, and their age too.
LEMMA LinksInvariant == Links!Spec => []LinksInv
<1>1. Links!Init => LinksInv
  <2> SUFFICES ASSUME Links!Init PROVE LinksInv
    OBVIOUS
  <2>1. links = << >> /\ DOMAIN links = {} /\ links \in Seq(Links!Link)
    BY DEF Links!Init
  <2>2. Links!TypeOK /\ \A q \in Requests : asking[q].pc = "idle"
    BY ZenonT(30), <2>1, IdleAsking DEF Links!Init, Links!TypeOK
  <2>3. QED
    BY <2>1, <2>2 DEF LinksInv, Links!LastLinkWins
<1>2. LinksInv /\ [Links!Next]_Links!vars => LinksInv'
  <2> SUFFICES ASSUME LinksInv, [Links!Next]_Links!vars PROVE LinksInv'
    OBVIOUS
  <2>0. /\ links \in Seq(Links!Link) /\ asking \in [Requests -> Links!Asking]
        /\ \A t \in DOMAIN links : links[t] \in Links!Link
        /\ \A q \in Requests :
             asking[q].pc \in {"mailing", "confirming"} => asking[q].link \in DOMAIN links
    BY DEF LinksInv, Links!TypeOK
  <2>1. ASSUME NEW q \in Requests, Links!Ask(q) PROVE LinksInv'
    <3>1. PICK purpose \in Links!Purposes :
            asking' = [asking EXCEPT ![q] = [pc |-> "issuing", purpose |-> purpose,
                                             link |-> 0, seen |-> Len(links)]]
      BY <2>1 DEF Links!Ask
    <3>2. verified' = verified /\ links' = links
      BY <2>1 DEF Links!Ask
    <3>3. Links!TypeOK'
      BY <3>1, <3>2 DEF LinksInv, Links!TypeOK, Links!Asking
    <3>4. \A p \in Requests : asking'[p].pc = "issuing" => asking'[p].purpose \in Links!Purposes
      BY <2>0, <3>1 DEF LinksInv
    <3>5. QED
      BY <3>2, <3>3, <3>4 DEF LinksInv, Links!LastLinkWins
  <2>2. ASSUME NEW q \in Requests, Links!Issue(q) PROVE LinksInv'
    BY <2>2, LinkIssueStep
  <2>3. ASSUME NEW q \in Requests, Links!Mail(q) PROVE LinksInv'
    <3>1. PICK delivered \in BOOLEAN : links' = [links EXCEPT ![asking[q].link].mailed = delivered]
      BY <2>3 DEF Links!Mail
    <3>2. asking' = [asking EXCEPT ![q] = Links!Idle] /\ verified' = verified
          /\ asking[q].link \in DOMAIN links
      BY <2>0, <2>3 DEF Links!Mail, Links!At
    <3>3. /\ links' \in Seq(Links!Link) /\ Len(links') = Len(links)
          /\ \A t \in DOMAIN links :
               /\ links'[t].purpose = links[t].purpose /\ links'[t].seen = links[t].seen
               /\ links'[t].state = links[t].state
      <4>1. [links[asking[q].link] EXCEPT !.mailed = delivered] \in Links!Link
        BY <2>0, <3>2, LinkFields
      <4>2. links' = [links EXCEPT ![asking[q].link] =
                                     [links[asking[q].link] EXCEPT !.mailed = delivered]]
        BY <3>1
      <4>3. QED
        BY <2>0, <3>2, <4>1, <4>2, LinkChanges DEF Links!Link
    <3>4. Links!TypeOK'
      BY <2>0, <3>2, <3>3, IdleAsking DEF LinksInv, Links!TypeOK
    <3>5. Links!LastLinkWins'
      BY <3>3, OtherChangesKeepOrder DEF LinksInv
    <3>6. QED
      BY <2>0, <3>2, <3>4, <3>5, IdleAsking DEF LinksInv
  <2>4. ASSUME NEW q \in Requests, Links!Open(q) PROVE LinksInv'
    <3>1. PICK t \in DOMAIN links :
            asking' = [asking EXCEPT ![q] = [Links!Idle EXCEPT !.pc = "confirming", !.link = t]]
      BY <2>4, Zenon DEF Links!Open
    <3>2. verified' = verified /\ links' = links
      BY <2>4 DEF Links!Open
    <3>3. Links!TypeOK'
      <4>1. /\ [Links!Idle EXCEPT !.pc = "confirming", !.link = t] \in Links!Asking
            /\ [Links!Idle EXCEPT !.pc = "confirming", !.link = t].link = t
        <5>1. t \in Nat
          BY <2>0
        <5>2. QED
          BY <5>1 DEF Links!Idle, Links!Asking, Links!Purposes
      <4>2. QED
        BY <2>0, <3>1, <3>2, <4>1 DEF LinksInv, Links!TypeOK
    <3>4. \A p \in Requests : asking'[p].pc = "issuing" => asking'[p].purpose \in Links!Purposes
      BY <2>0, <3>1 DEF LinksInv, Links!Idle
    <3>5. QED
      BY <3>2, <3>3, <3>4 DEF LinksInv, Links!LastLinkWins
  <2>5. ASSUME NEW q \in Requests, Links!Confirm(q) PROVE LinksInv'
    <3>1. /\ links' = [links EXCEPT ![asking[q].link].state = "confirmed"]
          /\ verified' \in BOOLEAN
          /\ asking' = [asking EXCEPT ![q] = Links!Idle]
          /\ asking[q].link \in DOMAIN links
      BY <2>0, <2>5 DEF Links!Confirm, Links!At, LinksInv, Links!TypeOK
    <3>2. /\ links' \in Seq(Links!Link) /\ Len(links') = Len(links)
          /\ \A t \in DOMAIN links :
               /\ links'[t].purpose = links[t].purpose /\ links'[t].seen = links[t].seen
               /\ links'[t].state \in {links[t].state, "confirmed"}
      <4>1. [links[asking[q].link] EXCEPT !.state = "confirmed"] \in Links!Link
        BY <2>0, <3>1, LinkFields
      <4>2. links' = [links EXCEPT ![asking[q].link] =
                                     [links[asking[q].link] EXCEPT !.state = "confirmed"]]
        BY <3>1
      <4>3. QED
        BY <2>0, <3>1, <4>1, <4>2, LinkChanges DEF Links!Link
    <3>3. Links!TypeOK'
      BY <2>0, <3>1, <3>2, IdleAsking DEF LinksInv, Links!TypeOK
    <3>4. Links!LastLinkWins'
      BY <3>2, OtherChangesKeepOrder DEF LinksInv
    <3>5. QED
      BY <2>0, <3>1, <3>3, <3>4, IdleAsking DEF LinksInv
  <2>6. ASSUME NEW i \in DOMAIN links, Links!Expire(i) PROVE LinksInv'
    <3>1. /\ links' = [links EXCEPT ![i].expired = TRUE]
          /\ verified' = verified /\ asking' = asking
      BY <2>6 DEF Links!Expire
    <3>2. /\ links' \in Seq(Links!Link) /\ Len(links') = Len(links)
          /\ \A t \in DOMAIN links :
               /\ links'[t].purpose = links[t].purpose /\ links'[t].seen = links[t].seen
               /\ links'[t].state = links[t].state
      <4>1. [links[i] EXCEPT !.expired = TRUE] \in Links!Link
        BY <2>0, LinkFields
      <4>2. links' = [links EXCEPT ![i] = [links[i] EXCEPT !.expired = TRUE]]
        BY <3>1
      <4>3. QED
        BY <2>0, <4>1, <4>2, LinkChanges DEF Links!Link
    <3>3. Links!TypeOK'
      BY <2>0, <3>1, <3>2 DEF LinksInv, Links!TypeOK
    <3>4. Links!LastLinkWins'
      BY <3>2, OtherChangesKeepOrder DEF LinksInv
    <3>5. QED
      BY <3>1, <3>3, <3>4 DEF LinksInv
  <2>7. CASE UNCHANGED Links!vars
    BY <2>7 DEF LinksInv, Links!vars, Links!TypeOK, Links!LastLinkWins
  <2>8. QED
    BY <2>1, <2>2, <2>3, <2>4, <2>5, <2>6, <2>7 DEF Links!Next
<1>3. QED
  BY <1>1, <1>2, PTL DEF Links!Spec

-----------------------------------------------------------------------------
(* The erasure of an account.                                              *)

\* A document with a row is not uploaded again, and a file whose path was read is gone, kept
\* by the storage, or still to come.
ErasureInv ==
  /\ Erasure!TypeOK
  /\ ~user <=> erasure.pc = "done"
  /\ \A d \in Documents : (row[d] # "none" \/ d \in known) => upload[d] = "done"
  /\ erasure.pc # "idle" => \A d \in known : file[d] => d \in erasure.left \cup kept
  /\ erasure.pc \in {"renamed", "done"} => erasure.left = {}
  /\ ~user => \A d \in Documents : row[d] = "none"

LEMMA ErasureNext ==
  ASSUME ErasureInv, [Erasure!Next]_Erasure!vars
  PROVE  ErasureInv'
<1> USE DEF ErasureInv, Erasure!TypeOK, Erasure!erasing, Erasure!logs
<1>1. ASSUME NEW d \in Documents, Erasure!Store(d) PROVE ErasureInv'
  BY <1>1 DEF Erasure!Store
<1>2. ASSUME NEW d \in Documents, Erasure!Register(d) PROVE ErasureInv'
  <2>1. PICK accepted \in {user, FALSE} :
          /\ row' = IF accepted THEN [row EXCEPT ![d] = "live"] ELSE row
          /\ upload' = [upload EXCEPT ![d] = "done"]
          /\ UNCHANGED << user, file, erasure, known, kept, named, late >>
    BY <1>2 DEF Erasure!Register
  <2>2. accepted => user
    OBVIOUS
  <2>3. QED
    BY <2>1, <2>2
<1>3. ASSUME NEW d \in Documents, Erasure!Trash(d) PROVE ErasureInv'
  BY <1>3 DEF Erasure!Trash
<1>4. CASE Erasure!LogEvent \/ Erasure!LogRateLimited
  BY <1>4 DEF Erasure!LogEvent, Erasure!LogRateLimited
<1>5. CASE Erasure!ReadPaths
  BY <1>5 DEF Erasure!ReadPaths, Erasure!Erasure
<1>6. CASE Erasure!Remove
  <2>1. PICK d \in erasure.left, discarded \in BOOLEAN :
          /\ erasure' = [erasure EXCEPT !.left = erasure.left \ {d}]
          /\ file' = IF discarded THEN [file EXCEPT ![d] = FALSE] ELSE file
          /\ kept' = IF discarded THEN kept ELSE kept \cup {d}
    BY <1>6 DEF Erasure!Remove
  <2>2. /\ erasure.pc = "removing" /\ UNCHANGED << user, row, upload, known, named, late >>
        /\ erasure \in Erasure!Erasure /\ d \in Documents
    BY <1>6 DEF Erasure!Remove, Erasure!Erasure
  <2>3. /\ erasure' \in Erasure!Erasure /\ erasure'.pc = "removing"
        /\ erasure'.left = erasure.left \ {d}
    BY <2>1, <2>2 DEF Erasure!Erasure
  <2>4. /\ file' \in [Documents -> BOOLEAN] /\ kept' \in SUBSET Documents
        /\ \A c \in known : file'[c] => file[c] /\ (c = d => c \in kept')
        /\ kept \subseteq kept'
    BY <2>1, <2>2
  <2>5. QED
    BY <2>2, <2>3, <2>4
<1>7. CASE Erasure!Rename
  BY <1>7 DEF Erasure!Rename, Erasure!Erasure
<1>8. CASE Erasure!Erase
  BY <1>8 DEF Erasure!Erase, Erasure!Erasure
<1>9. CASE Erasure!Abandon
  BY <1>9 DEF Erasure!Abandon, Erasure!Erasure
<1>10. CASE UNCHANGED Erasure!vars
  BY <1>10 DEF Erasure!vars
<1>11. QED
  BY <1>1, <1>2, <1>3, <1>4, <1>5, <1>6, <1>7, <1>8, <1>9, <1>10 DEF Erasure!Next

LEMMA ErasureInvariant == Erasure!Spec => []ErasureInv
<1>1. Erasure!Init => ErasureInv
  <2> SUFFICES ASSUME Erasure!Init PROVE ErasureInv
    OBVIOUS
  <2>1. erasure \in Erasure!Erasure /\ erasure.pc = "idle"
    BY DEF Erasure!Init, Erasure!Erasure
  <2>2. QED
    BY <2>1 DEF Erasure!Init, ErasureInv, Erasure!TypeOK
<1>2. QED
  BY <1>1, ErasureNext, PTL DEF Erasure!Spec

-----------------------------------------------------------------------------
(* The export of an account.                                               *)

\* A row refers to one that was there before it.
Closed(tables) == \A t \in tables : Export!Parent[t] \in tables \cup {"none"}

\* k queries have been sent.
SentSoFar(k) ==
  /\ k \in 0 .. 8
  /\ queries = [i \in 1 .. 8 - k |-> Export!Queries[i + k]]
  /\ \A i \in 1 .. k : Export!Queries[i] \in before => Export!Queries[i] \in exported

ExportInv ==
  /\ stored \subseteq Export!Tables /\ before \subseteq stored /\ exported \subseteq stored
  /\ Closed(stored) /\ Closed(before)
  /\ queries = << "waiting" >> \/ \E k \in 0 .. 8 : SentSoFar(k)

\* Every table is asked for, after those its rows are found by.
LEMMA QueriesInOrder ==
  /\ Export!Queries \in [1 .. 8 -> Export!Tables]
  /\ \A t \in Export!Tables : \E i \in 1 .. 8 : Export!Queries[i] = t
  /\ \A i \in 1 .. 8 : Export!Queries[i] \in Export!ByParent =>
       \E j \in 1 .. i - 1 : Export!Queries[j] = Export!Parent[Export!Queries[i]]
  /\ Len(Export!Queries) = 8
  /\ \A t \in Export!Tables : t # "none" /\ t # "waiting"
  /\ Export!ByParent \subseteq Export!Tables
<1> DEFINE Q == Export!Queries
<1>1. /\ Q[1] = "subject" /\ Q[2] = "plan" /\ Q[3] = "module" /\ Q[4] = "item" /\ Q[5] = "run"
      /\ Q[6] = "document" /\ Q[7] = "content" /\ Q[8] = "source" /\ Len(Q) = 8
      /\ Q \in Seq(Export!Tables)
  BY DEF Export!Queries, Export!Tables
<1>2. /\ Export!Parent["document"] = "subject" /\ Export!Parent["content"] = "document"
      /\ Export!Parent["source"] = "item"
  BY DEF Export!Parent
<1>3. \A i \in 1 .. 8 : i \in {1, 2, 3, 4, 5, 6, 7, 8}
  OBVIOUS
<1> HIDE DEF Q
<1>4. Q \in [1 .. 8 -> Export!Tables]
  BY DEF Q, Export!Queries, Export!Tables
<1>5. \A t \in Export!Tables : \E i \in 1 .. 8 : Q[i] = t
  BY <1>1 DEF Export!Tables
<1>6. ASSUME NEW i \in 1 .. 8, Q[i] \in Export!ByParent
      PROVE  \E j \in 1 .. i - 1 : Q[j] = Export!Parent[Q[i]]
  <2>1. i \in {6, 7, 8}
    BY <1>1, <1>3, <1>6 DEF Export!ByParent
  <2>2. CASE i = 6
    BY <1>1, <1>2, <2>2
  <2>3. CASE i = 7
    BY <1>1, <1>2, <2>3
  <2>4. CASE i = 8
    BY <1>1, <1>2, <2>4
  <2>5. QED
    BY <2>1, <2>2, <2>3, <2>4
<1>7. QED
  BY <1>1, <1>4, <1>5, <1>6 DEF Q, Export!Tables, Export!ByParent

LEMMA ExportNext ==
  ASSUME ExportInv, [Export!Next]_Export!vars
  PROVE  ExportInv'
<1> DEFINE Q == Export!Queries
<1>0. /\ Q \in [1 .. 8 -> Export!Tables]
      /\ \A i \in 1 .. 8 : Q[i] \in Export!ByParent =>
           \E j \in 1 .. i - 1 : Q[j] = Export!Parent[Q[i]]
      /\ Len(Q) = 8 /\ \A t \in Export!Tables : t # "none" /\ t # "waiting"
  BY QueriesInOrder
<1> HIDE DEF Q
<1>1. ASSUME NEW t \in Export!Tables, Export!Insert(t) PROVE ExportInv'
  <2>1. /\ stored' = stored \cup {t} /\ Export!Parent[t] \in stored \cup {"none"}
        /\ UNCHANGED << queries, exported, before >>
    BY <1>1 DEF Export!Insert
  <2>2. QED
    BY <2>1 DEF ExportInv, SentSoFar, Closed
<1>2. CASE Export!Begin
  <2>1. queries' = Q /\ exported' = {} /\ before' = stored /\ stored' = stored
    BY <1>2 DEF Export!Begin, Q
  <2>2. Q = [i \in 1 .. 8 - 0 |-> Q[i + 0]]
    BY <1>0
  <2>3. SentSoFar(0)'
    BY <2>1, <2>2 DEF SentSoFar, Q
  <2>4. QED
    BY <2>1, <2>3 DEF ExportInv, Closed
<1>3. CASE Export!Query
  <2>1. /\ exported' = IF Export!Finds(Head(queries)) THEN exported \cup {Head(queries)}
                      ELSE exported
        /\ queries' = Tail(queries) /\ queries # << >> /\ queries # << "waiting" >>
        /\ stored' = stored /\ before' = before
    BY <1>3 DEF Export!Query
  <2>2. PICK k \in 0 .. 8 : SentSoFar(k)
    BY <2>1 DEF ExportInv
  <2>3. queries = [i \in 1 .. 8 - k |-> Q[i + k]] /\ \A i \in 1 .. 8 - k : i + k \in 1 .. 8
    BY <2>2 DEF SentSoFar, Q
  <2>4. queries \in Seq(Export!Tables) /\ Len(queries) = 8 - k
    BY <1>0, <2>3
  <2>5. k # 8
    BY <2>1, <2>4
  <2>6. k + 1 \in 0 .. 8 /\ k + 1 \in 1 .. 8 /\ Head(queries) = Q[k + 1]
        /\ queries' = [i \in 1 .. 8 - (k + 1) |-> Q[i + (k + 1)]]
    <3>1. k + 1 \in 0 .. 8 /\ k + 1 \in 1 .. 8
      BY <2>5
    <3>2. Head(queries) = queries[1] /\ queries[1] = Q[1 + k] /\ 1 + k = k + 1
      BY <2>3, <2>4, <2>5
    <3>3. /\ Tail(queries) \in Seq(Export!Tables) /\ Len(Tail(queries)) = 8 - (k + 1)
          /\ \A i \in 1 .. 8 - (k + 1) : Tail(queries)[i] = queries[i + 1]
      BY <2>1, <2>4
    <3>4. \A i \in 1 .. 8 - (k + 1) : queries[i + 1] = Q[i + (k + 1)]
      BY <2>3, <3>1
    <3>5. Tail(queries) = [i \in 1 .. 8 - (k + 1) |-> Q[i + (k + 1)]]
      <4> DEFINE rest == Tail(queries)
      <4>1. /\ rest \in Seq(Export!Tables) /\ Len(rest) = 8 - (k + 1)
            /\ \A i \in 1 .. 8 - (k + 1) : rest[i] = Q[i + (k + 1)]
        BY <3>3, <3>4
      <4> HIDE DEF rest
      <4>2. rest = [i \in 1 .. 8 - (k + 1) |-> Q[i + (k + 1)]]
        BY <4>1
      <4>3. QED
        BY <4>2 DEF rest
    <3>6. QED
      BY <2>1, <3>1, <3>2, <3>5
  <2>7. Q[k + 1] \in before => Export!Finds(Q[k + 1])
    <3>1. ASSUME Q[k + 1] \in before, Q[k + 1] \in Export!ByParent
          PROVE  Export!Parent[Q[k + 1]] \in exported
      <4>1. Export!Parent[Q[k + 1]] \in before \cup {"none"}
        BY <3>1 DEF ExportInv, Closed
      <4>2. PICK j \in 1 .. k : Q[j] = Export!Parent[Q[k + 1]]
        BY <1>0, <2>6, <3>1
      <4>3. Q[j] \in Export!Tables
        BY <1>0, <2>6
      <4>4. QED
        BY <1>0, <2>2, <4>1, <4>2, <4>3 DEF SentSoFar, Q
    <3>2. QED
      BY <3>1 DEF ExportInv, Export!Finds
  <2>8. exported' = IF Export!Finds(Q[k + 1]) THEN exported \cup {Q[k + 1]} ELSE exported
    BY <2>1, <2>6
  <2>9. \A i \in 1 .. k + 1 : Q[i] \in before' => Q[i] \in exported'
    BY <2>1, <2>2, <2>7, <2>8 DEF SentSoFar, Q
  <2>10. SentSoFar(k + 1)'
    BY <2>6, <2>9 DEF SentSoFar, Q
  <2>11. exported' \subseteq stored'
    BY <2>1, <2>8 DEF ExportInv, Export!Finds
  <2>12. QED
    BY <2>1, <2>6, <2>10, <2>11 DEF ExportInv, Closed
<1>4. CASE Export!Answer
  BY <1>4 DEF Export!Answer, ExportInv, Closed
<1>5. CASE UNCHANGED Export!vars
  BY <1>5 DEF Export!vars, ExportInv, SentSoFar, Closed
<1>6. QED
  BY <1>1, <1>2, <1>3, <1>4, <1>5 DEF Export!Next

LEMMA ExportInvariant == Export!Spec => [](ExportInv /\ Export!ExportIsComplete)
<1>1. Export!Init => ExportInv
  BY DEF Export!Init, ExportInv, Closed
<1>2. ASSUME ExportInv PROVE Export!ExportIsComplete
  <2> SUFFICES ASSUME queries = << >>
               PROVE  /\ before \subseteq exported
                      /\ \A t \in exported :
                           Export!Parent[t] \notin exported \cup {"none"} =>
                             {t, Export!Parent[t]} \cap before = {}
    BY DEF Export!ExportIsComplete
  <2>1. PICK k \in 0 .. 8 : SentSoFar(k)
    BY <1>2 DEF ExportInv
  <2>2. k = 8
    <3>1. queries = [i \in 1 .. 8 - k |-> Export!Queries[i + k]] /\ DOMAIN queries = {}
      BY <2>1 DEF SentSoFar
    <3>2. 1 .. 8 - k = {}
      BY <3>1
    <3>3. QED
      BY <3>2
  <2>3. before \subseteq exported
    BY <1>2, <2>1, <2>2, QueriesInOrder DEF ExportInv, SentSoFar
  <2>4. QED
    BY <1>2, <2>3 DEF ExportInv, Closed
<1>3. QED
  BY <1>1, <1>2, ExportNext, PTL DEF Export!Spec

LEMMA ExportTypes == ExportInv => Export!TypeOK
<1>1. SUFFICES ASSUME ExportInv PROVE Export!TypeOK
  OBVIOUS
<1>2. /\ stored \in SUBSET Export!Tables /\ before \in SUBSET Export!Tables
      /\ exported \in SUBSET Export!Tables
  BY <1>1 DEF ExportInv
<1>3. queries \in Seq(Export!Tables \cup {"waiting"})
  <2>1. CASE queries = << "waiting" >>
    BY <2>1
  <2>2. ASSUME NEW k \in 0 .. 8, SentSoFar(k) PROVE queries \in Seq(Export!Tables \cup {"waiting"})
    <3>1. 8 - k \in Nat /\ \A i \in 1 .. 8 - k : Export!Queries[i + k] \in Export!Tables
      BY QueriesInOrder
    <3>2. QED
      BY <2>2, <3>1 DEF SentSoFar
  <2>3. QED
    BY <1>1, <2>1, <2>2 DEF ExportInv
<1>4. QED
  BY <1>2, <1>3 DEF Export!TypeOK

-----------------------------------------------------------------------------
(* The dead letters.  A list is filtered by a recursive function, which is *)
(* there for every length (StepsExist) and keeps what it should            *)
(* (StepsAreRight): by induction, as an argument about the least           *)
(* counterexample.                                                         *)

\* What is in a sequence, and that nothing is in it twice.
Members(q) == DeadLetters!Range(q)
Distinct(q) == DeadLetters!IsInjective(q)

LEMMA MembersOf ==
  ASSUME NEW S, NEW q \in Seq(S)
  PROVE  Members(q) = {q[i] : i \in 1 .. Len(q)} /\ Members(q) \subseteq S
  BY DEF Members, DeadLetters!Range, DeadLetters!Range

LEMMA MembersOfBoth ==
  ASSUME NEW S, NEW p \in Seq(S), NEW q \in Seq(S)
  PROVE  /\ p \o q \in Seq(S) /\ Len(p \o q) = Len(p) + Len(q)
         /\ Members(p \o q) = Members(p) \cup Members(q)
<1>1. p \o q \in Seq(S) /\ Len(p \o q) = Len(p) + Len(q)
  OBVIOUS
<1>2. \A i \in 1 .. Len(p) : (p \o q)[i] = p[i]
  OBVIOUS
<1>3. \A i \in 1 .. Len(q) : Len(p) + i \in 1 .. Len(p \o q) /\ (p \o q)[Len(p) + i] = q[i]
  OBVIOUS
<1>4. \A i \in 1 .. Len(p \o q) :
        i \in 1 .. Len(p) \/ (i - Len(p) \in 1 .. Len(q) /\ (p \o q)[i] = q[i - Len(p)])
  OBVIOUS
<1>5. /\ Members(p) = {p[i] : i \in 1 .. Len(p)} /\ Members(q) = {q[i] : i \in 1 .. Len(q)}
      /\ Members(p \o q) = {(p \o q)[i] : i \in 1 .. Len(p \o q)}
  BY <1>1, MembersOf
<1>6. ASSUME NEW x \in Members(p \o q) PROVE x \in Members(p) \cup Members(q)
  <2>1. PICK i \in 1 .. Len(p \o q) : x = (p \o q)[i]
    BY <1>5
  <2> QED
    BY <1>2, <1>4, <1>5, <2>1
<1>7. ASSUME NEW x \in Members(p) PROVE x \in Members(p \o q)
  <2>1. PICK i \in 1 .. Len(p) : x = p[i]
    BY <1>5
  <2>2. i \in 1 .. Len(p \o q)
    BY <1>1
  <2> QED
    BY <1>2, <1>5, <2>1, <2>2
<1>8. ASSUME NEW x \in Members(q) PROVE x \in Members(p \o q)
  <2>1. PICK i \in 1 .. Len(q) : x = q[i]
    BY <1>5
  <2> QED
    BY <1>3, <1>5, <2>1
<1> QED
  BY <1>1, <1>6, <1>7, <1>8

LEMMA NoneTwice ==
  ASSUME NEW S, NEW p \in Seq(S), NEW q \in Seq(S)
  PROVE  Distinct(p \o q) <=>
           Distinct(p) /\ Distinct(q) /\ Members(p) \cap Members(q) = {}
<1>1. p \o q \in Seq(S) /\ Len(p \o q) = Len(p) + Len(q) /\ Len(p) \in Nat /\ Len(q) \in Nat
  OBVIOUS
<1>2. \A i \in 1 .. Len(p) : (p \o q)[i] = p[i] /\ i \in 1 .. Len(p \o q)
  OBVIOUS
<1>3. \A i \in 1 .. Len(q) : Len(p) + i \in 1 .. Len(p \o q) /\ (p \o q)[Len(p) + i] = q[i]
  OBVIOUS
<1>4. \A i \in 1 .. Len(p \o q) :
        i \in 1 .. Len(p) \/ (i - Len(p) \in 1 .. Len(q) /\ (p \o q)[i] = q[i - Len(p)])
  OBVIOUS
<1>5. DOMAIN p = 1 .. Len(p) /\ DOMAIN q = 1 .. Len(q) /\ DOMAIN (p \o q) = 1 .. Len(p \o q)
  BY <1>1
<1>6. ASSUME Distinct(p \o q)
      PROVE  Distinct(p) /\ Distinct(q) /\ Members(p) \cap Members(q) = {}
  <2> DEFINE r == p \o q
  <2>0. \A i, j \in 1 .. Len(r) : r[i] = r[j] => i = j
    BY <1>5, <1>6 DEF Distinct, DeadLetters!IsInjective
  <2>1. Distinct(p)
    <3>1. ASSUME NEW i \in 1 .. Len(p), NEW j \in 1 .. Len(p), p[i] = p[j] PROVE i = j
      BY <1>2, <2>0, <3>1
    <3> QED
      BY <1>5, <3>1 DEF Distinct, DeadLetters!IsInjective
  <2>2. Distinct(q)
    <3>1. ASSUME NEW i \in 1 .. Len(q), NEW j \in 1 .. Len(q), q[i] = q[j] PROVE i = j
      <4>1. Len(p) + i = Len(p) + j
        BY <1>3, <2>0, <3>1
      <4> QED
        BY <1>1, <4>1
    <3> QED
      BY <1>5, <3>1 DEF Distinct, DeadLetters!IsInjective
  <2>3. ASSUME NEW i \in 1 .. Len(p), NEW j \in 1 .. Len(q), p[i] = q[j] PROVE FALSE
    <3>1. i = Len(p) + j
      BY <1>2, <1>3, <2>0, <2>3
    <3> QED
      BY <1>1, <3>1
  <2> QED
    BY <2>1, <2>2, <2>3, MembersOf
<1>7. ASSUME Distinct(p), Distinct(q), Members(p) \cap Members(q) = {}
      PROVE  Distinct(p \o q)
  <2>1. ASSUME NEW i \in 1 .. Len(p), NEW j \in 1 .. Len(q) PROVE p[i] # q[j]
    BY <1>7, MembersOf
  <2>2. ASSUME NEW i \in 1 .. Len(p \o q), NEW j \in 1 .. Len(p \o q), (p \o q)[i] = (p \o q)[j]
        PROVE  i = j
    <3>1. CASE i \in 1 .. Len(p) /\ j \in 1 .. Len(p)
      BY <1>2, <1>5, <1>7, <2>2, <3>1
         DEF Distinct, DeadLetters!IsInjective
    <3>2. CASE i \notin 1 .. Len(p) /\ j \notin 1 .. Len(p)
      <4>1. /\ i - Len(p) \in 1 .. Len(q) /\ j - Len(p) \in 1 .. Len(q)
            /\ q[i - Len(p)] = q[j - Len(p)]
        BY <1>4, <2>2, <3>2
      <4>2. i - Len(p) = j - Len(p)
        BY <1>5, <1>7, <4>1 DEF Distinct, DeadLetters!IsInjective
      <4> QED
        BY <1>1, <4>2
    <3>3. CASE i \in 1 .. Len(p) /\ j \notin 1 .. Len(p)
      BY <1>2, <1>4, <2>1, <2>2, <3>3
    <3>4. CASE i \notin 1 .. Len(p) /\ j \in 1 .. Len(p)
      <4>1. i - Len(p) \in 1 .. Len(q) /\ (p \o q)[i] = q[i - Len(p)] /\ (p \o q)[j] = p[j]
        BY <1>2, <1>4, <3>4
      <4> QED
        BY <2>1, <2>2, <3>4, <4>1
    <3> QED
      BY <3>1, <3>2, <3>3, <3>4
  <2> QED
    BY <1>5, <2>2 DEF Distinct, DeadLetters!IsInjective
<1> QED
  BY <1>6, <1>7

LEMMA OneEntry ==
  ASSUME NEW S, NEW e \in S
  PROVE  << e >> \in Seq(S) /\ Distinct(<< e >>) /\ Members(<< e >>) = {e}
<1>1. << e >> \in Seq(S) /\ Len(<< e >>) = 1 /\ << e >>[1] = e
  OBVIOUS
<1>2. Members(<< e >>) = {<< e >>[i] : i \in 1 .. 1}
  BY <1>1, MembersOf
<1> QED
  BY <1>1, <1>2 DEF Distinct, DeadLetters!IsInjective

LEMMA LastAndFront ==
  ASSUME NEW S, NEW q \in Seq(S), q # << >>
  PROVE  /\ DeadLetters!Last(q) \in S
         /\ DeadLetters!Front(q) \in Seq(S)
         /\ Len(DeadLetters!Front(q)) = Len(q) - 1
         /\ q = DeadLetters!Front(q) \o << DeadLetters!Last(q) >>
  BY DEF DeadLetters!Last, DeadLetters!Front

LEMMA HeadAndTail ==
  ASSUME NEW S, NEW q \in Seq(S), q # << >>
  PROVE  Head(q) \in S /\ Tail(q) \in Seq(S) /\ q = << Head(q) >> \o Tail(q)
  OBVIOUS

\* The lists that a filter goes through.
Steps(g, list, tasks, n) ==
  g = [k \in 0 .. n |-> IF k = 0 THEN << >>
                        ELSE IF taskOf[list[k]] \in tasks THEN Append(g[k - 1], list[k])
                        ELSE g[k - 1]]

LEMMA FilteredIs ==
  ASSUME NEW list, NEW tasks
  PROVE  DeadLetters!Filtered(list, tasks) = (CHOOSE g : Steps(g, list, tasks, Len(list)))[Len(list)]
  BY DEF DeadLetters!Filtered, Steps

LEMMA StepsExist ==
  ASSUME NEW list, NEW tasks, NEW n \in Nat
  PROVE  \E g : Steps(g, list, tasks, n)
<1> DEFINE Bad == {k \in Nat : ~\E g : Steps(g, list, tasks, k)}
<1>1. SUFFICES ASSUME Bad # {} PROVE FALSE
  OBVIOUS
<1>2. PICK k \in Bad : \A l \in Bad : k <= l
  BY <1>1, Planning!LeastNumber
<1>3. CASE k = 0
  <2>1. Steps([l \in 0 .. 0 |-> << >>], list, tasks, 0)
    BY DEF Steps
  <2> QED
    BY <1>2, <1>3, <2>1
<1>4. CASE k # 0
  <2>1. k \in Nat /\ k - 1 \in Nat /\ k - 1 \notin Bad
    BY <1>2, <1>4
  <2>2. PICK h : Steps(h, list, tasks, k - 1)
    BY <2>1
  <2> DEFINE new == IF taskOf[list[k]] \in tasks THEN Append(h[k - 1], list[k]) ELSE h[k - 1]
             g == [l \in 0 .. k |-> IF l = k THEN new ELSE h[l]]
  <2>3. \A l \in 0 .. k - 1 : g[l] = h[l]
    BY <2>1
  <2>4. \A l \in 0 .. k - 1 :
          h[l] = IF l = 0 THEN << >>
                 ELSE IF taskOf[list[l]] \in tasks THEN Append(h[l - 1], list[l]) ELSE h[l - 1]
    BY <2>2 DEF Steps
  <2>5. \A l \in 0 .. k :
          g[l] = IF l = 0 THEN << >>
                 ELSE IF taskOf[list[l]] \in tasks THEN Append(g[l - 1], list[l]) ELSE g[l - 1]
    <3> SUFFICES ASSUME NEW l \in 0 .. k
                 PROVE  g[l] = IF l = 0 THEN << >>
                               ELSE IF taskOf[list[l]] \in tasks THEN Append(g[l - 1], list[l])
                               ELSE g[l - 1]
      OBVIOUS
    <3>1. CASE l = k
      <4>1. g[l] = new /\ g[l - 1] = h[l - 1] /\ l # 0
        BY <1>4, <2>1, <2>3, <3>1
      <4> HIDE DEF g
      <4> QED
        BY <3>1, <4>1
    <3>2. CASE l # k
      <4>1. l \in 0 .. k - 1 /\ (l # 0 => l - 1 \in 0 .. k - 1)
        BY <2>1, <3>2
      <4>2. g[l] = h[l] /\ (l # 0 => g[l - 1] = h[l - 1])
        BY <2>3, <4>1
      <4> HIDE DEF g
      <4> QED
        BY <2>4, <4>1, <4>2
    <3> QED
      BY <3>1, <3>2
  <2>6. g = [l \in 0 .. k |-> g[l]]
    OBVIOUS
  <2>7. Steps(g, list, tasks, k)
    <3> HIDE DEF g
    <3> QED
      BY <2>5, <2>6 DEF Steps
  <2> QED
    BY <1>2, <2>7
<1> QED
  BY <1>3, <1>4

\* What of a list has been filtered after n entries.
Kept(list, tasks, n) == {list[i] : i \in {i \in 1 .. n : taskOf[list[i]] \in tasks}}

LEMMA StepsAreRight ==
  ASSUME NEW S, NEW list \in Seq(S), Distinct(list), NEW tasks, NEW g,
         Steps(g, list, tasks, Len(list)), NEW n \in 0 .. Len(list)
  PROVE  g[n] \in Seq(S) /\ Distinct(g[n]) /\ Members(g[n]) = Kept(list, tasks, n)
<1> DEFINE Good(k) == g[k] \in Seq(S) /\ Distinct(g[k]) /\ Members(g[k]) = Kept(list, tasks, k)
           Bad == {k \in 0 .. Len(list) : ~Good(k)}
<1>1. SUFFICES ASSUME Bad # {} PROVE FALSE
  OBVIOUS
<1>2. Len(list) \in Nat /\ Bad \subseteq Nat /\ \A i \in 1 .. Len(list) : list[i] \in S
  OBVIOUS
<1>3. PICK k \in Bad : \A l \in Bad : k <= l
  <2> HIDE DEF Bad
  <2> QED
    BY <1>1, <1>2, Planning!LeastNumber
<1>4. CASE k = 0
  <2>1. g[0] = << >>
    BY <1>2 DEF Steps
  <2>2. << >> \in Seq(S) /\ Len(<< >>) = 0 /\ Distinct(<< >>) /\ Members(<< >>) = {}
    BY DEF Distinct, DeadLetters!IsInjective, Members, DeadLetters!Range
  <2>3. Kept(list, tasks, 0) = {}
    BY DEF Kept
  <2> QED
    BY <1>3, <1>4, <2>1, <2>2, <2>3
<1>5. CASE k # 0
  <2>1. k \in 1 .. Len(list) /\ k - 1 \in 0 .. Len(list) /\ Good(k - 1)
    <3>1. k \in 1 .. Len(list) /\ k - 1 \in 0 .. Len(list) /\ ~(k <= k - 1)
      BY <1>2, <1>5
    <3> QED
      BY <1>3, <3>1
  <2>2. g[k] = IF taskOf[list[k]] \in tasks THEN Append(g[k - 1], list[k]) ELSE g[k - 1]
    BY <1>5, <2>1 DEF Steps
  <2>3. CASE taskOf[list[k]] \in tasks
    <3>1. g[k] = g[k - 1] \o << list[k] >>
      BY <1>2, <2>1, <2>2, <2>3
    <3>2. Kept(list, tasks, k) = Kept(list, tasks, k - 1) \cup {list[k]}
      <4>1. \A i \in 1 .. k : i = k \/ i \in 1 .. k - 1
        BY <2>1
      <4>2. \A i \in 1 .. k - 1 : i \in 1 .. k
        BY <2>1
      <4>3. k \in 1 .. k
        BY <2>1
      <4> QED
        BY <2>3, <4>1, <4>2, <4>3 DEF Kept
    <3>3. list[k] \notin Kept(list, tasks, k - 1)
      <4>1. \A i \in 1 .. k - 1 : i \in 1 .. Len(list) /\ i # k
        BY <1>2, <2>1
      <4>2. \A i \in 1 .. k - 1 : list[i] # list[k]
        BY <2>1, <4>1 DEF Distinct, DeadLetters!IsInjective
      <4> QED
        BY <4>2 DEF Kept
    <3>4. list[k] \in S
      BY <1>2, <2>1
    <3>5. << list[k] >> \in Seq(S) /\ Distinct(<< list[k] >>) /\ Members(<< list[k] >>) = {list[k]}
      BY <3>4, OneEntry
    <3> DEFINE p == g[k - 1]
               q == << list[k] >>
    <3>6. /\ p \in Seq(S) /\ Distinct(p) /\ Members(p) = Kept(list, tasks, k - 1)
          /\ q \in Seq(S) /\ Distinct(q) /\ Members(q) = {list[k]}
      BY <2>1, <3>5
    <3> HIDE DEF p, q
    <3>7. p \o q \in Seq(S) /\ Members(p \o q) = Members(p) \cup Members(q)
      BY <3>6, MembersOfBoth
    <3>8. Distinct(p \o q)
      BY <3>3, <3>6, NoneTwice
    <3>9. Good(k)
      BY <3>1, <3>2, <3>5, <3>6, <3>7, <3>8 DEF p, q
    <3> QED
      BY <1>3, <3>9
  <2>4. CASE taskOf[list[k]] \notin tasks
    <3>1. Kept(list, tasks, k) = Kept(list, tasks, k - 1)
      <4>1. \A i \in 1 .. k : i = k \/ i \in 1 .. k - 1
        BY <2>1
      <4>2. \A i \in 1 .. k - 1 : i \in 1 .. k
        BY <2>1
      <4> QED
        BY <2>4, <4>1, <4>2 DEF Kept
    <3>2. Good(k)
      BY <2>1, <2>2, <2>4, <3>1
    <3> QED
      BY <1>3, <3>2
  <2> QED
    BY <2>3, <2>4
<1> QED
  BY <1>4, <1>5

LEMMA FilteredIsRight ==
  ASSUME NEW S, NEW list \in Seq(S), Distinct(list), NEW tasks
  PROVE  /\ DeadLetters!Filtered(list, tasks) \in Seq(S)
         /\ Distinct(DeadLetters!Filtered(list, tasks))
         /\ Members(DeadLetters!Filtered(list, tasks)) = {e \in Members(list) : taskOf[e] \in tasks}
<1> DEFINE n == Len(list)
           g == CHOOSE h : Steps(h, list, tasks, n)
<1>1. n \in Nat /\ n \in 0 .. Len(list)
  OBVIOUS
<1>2. Steps(g, list, tasks, n)
  BY <1>1, StepsExist
<1>3. DeadLetters!Filtered(list, tasks) = g[n]
  BY FilteredIs
<1>4. g[n] \in Seq(S) /\ Distinct(g[n]) /\ Members(g[n]) = Kept(list, tasks, n)
  <2> HIDE DEF g
  <2> QED
    BY <1>1, <1>2, StepsAreRight
<1>5. Kept(list, tasks, n) = {e \in Members(list) : taskOf[e] \in tasks}
  BY MembersOf DEF Kept
<1> QED
  BY <1>3, <1>4, <1>5

\* A list of entries, none of them twice.
Listed(q) == q \in Seq(DeadLetters!Entries) /\ Distinct(q)

\* What a replay has taken out of the list and not yet sent or put back.
Taken(s) == Members(script[s].chosen) \cup Members(script[s].skipped)

\* A replay holds nothing when it is not at work, and has sent what it will when it restores.
ScriptOK(s) ==
  /\ script[s] \in [ pc : {"idle", "asking", "sending", "restoring"},
                     chosen : Seq(DeadLetters!Entries), skipped : Seq(DeadLetters!Entries) ]
  /\ Distinct(script[s].chosen) /\ Distinct(script[s].skipped)
  /\ Members(script[s].chosen) \cap Members(script[s].skipped) = {}
  /\ DeadLetters!At(s, "idle") => script[s] = DeadLetters!IdleScript
  /\ DeadLetters!At(s, "restoring") => script[s].chosen = << >>

ListsOK ==
  /\ taskOf \in Seq(DeadLetters!Tasks)
  /\ Listed(dead) /\ Listed(sent)
  /\ Len(dead) <= MaxEntries
  /\ DOMAIN script = Scripts
  /\ \A s \in Scripts : ScriptOK(s)

\* An entry is in one place only.
Apart ==
  /\ Members(dead) \cap Members(sent) = {}
  /\ \A s \in Scripts : (Members(dead) \cup Members(sent)) \cap Taken(s) = {}
  /\ \A s, t \in Scripts : s # t => Taken(s) \cap Taken(t) = {}

\* An entry is in some place, unless there is a reason.
Found ==
  \A e \in DeadLetters!Entries :
    e \in Members(dead) \cup Members(sent) \cup lost \/ \E s \in Scripts : e \in Taken(s)

ListInv == ListsOK /\ Apart /\ Found

LEMMA ListInvInit == DeadLetters!ConstantsAssumption /\ DeadLetters!Init => ListInv
<1> SUFFICES ASSUME DeadLetters!ConstantsAssumption, DeadLetters!Init PROVE ListInv
  OBVIOUS
<1>1. DeadLetters!Entries = {}
  BY DEF DeadLetters!Init, DeadLetters!Entries
<1>2. /\ << >> \in Seq(DeadLetters!Entries) /\ << >> \in Seq(DeadLetters!Tasks)
      /\ Len(<< >>) = 0 /\ Distinct(<< >>) /\ Members(<< >>) = {}
  BY DEF Distinct, DeadLetters!IsInjective, Members, DeadLetters!Range
<1>3. ListsOK
  BY <1>1, <1>2
     DEF DeadLetters!Init, ListsOK, Listed, ScriptOK, DeadLetters!At, DeadLetters!IdleScript,
         DeadLetters!ConstantsAssumption
<1>4. Apart /\ Found
  BY <1>1, <1>2 DEF DeadLetters!Init, Apart, Found, Taken, DeadLetters!IdleScript
<1> QED
  BY <1>3, <1>4 DEF ListInv

\* An entry that was nowhere is recorded: it and what was in the list are there now, or lost.
LEMMA RecordStep ==
  ASSUME DeadLetters!ConstantsAssumption,
         NEW E, dead \in Seq(E), Distinct(dead), Len(dead) <= MaxEntries,
         NEW e \in E, e \notin Members(dead), DeadLetters!Record(e)
  PROVE  /\ dead' \in Seq(E) /\ Distinct(dead') /\ Len(dead') <= MaxEntries
         /\ Members(dead') \subseteq Members(dead) \cup {e}
         /\ lost \subseteq lost'
         /\ Members(dead) \cup {e} \subseteq Members(dead') \cup lost'
<1>0. dead \in Seq(E)
  OBVIOUS
<1>1. << e >> \in Seq(E) /\ Distinct(<< e >>) /\ Members(<< e >>) = {e} /\ Len(<< e >>) = 1
  BY OneEntry
<1> DEFINE one == << e >>
<1>2. CASE /\ dead' = DeadLetters!Pushed(e)
           /\ lost' = lost \cup (Members(dead) \ Members(DeadLetters!Pushed(e)))
  <2>1. CASE Len(dead) < MaxEntries
    <3>1. dead' = one \o dead
      BY <1>2, <2>1 DEF DeadLetters!Pushed
    <3>2. one \in Seq(E) /\ Distinct(one) /\ Members(one) = {e} /\ Len(one) = 1
      BY <1>1
    <3> HIDE DEF one
    <3>3. /\ one \o dead \in Seq(E) /\ Members(one \o dead) = {e} \cup Members(dead)
          /\ Len(one \o dead) = 1 + Len(dead)
      <4>1. one \in Seq(E) /\ dead \in Seq(E)
        BY <1>0, <3>2
      <4>2. /\ one \o dead \in Seq(E) /\ Len(one \o dead) = Len(one) + Len(dead)
            /\ Members(one \o dead) = Members(one) \cup Members(dead)
        BY ONLY <4>1, MembersOfBoth
      <4> QED
        BY <3>2, <4>2
    <3>4. Distinct(one \o dead)
      BY <3>2, NoneTwice
    <3>5. Len(dead') <= MaxEntries
      BY <2>1, <3>1, <3>3 DEF DeadLetters!ConstantsAssumption
    <3> QED
      BY <1>2, <3>1, <3>3, <3>4, <3>5
  <2>2. CASE ~(Len(dead) < MaxEntries)
    <3>1. dead' = one \o DeadLetters!Front(dead)
      BY <1>2, <2>2 DEF DeadLetters!Pushed
    <3>2. one \in Seq(E) /\ Distinct(one) /\ Members(one) = {e} /\ Len(one) = 1
      BY <1>1
    <3>3. dead # << >> /\ Len(dead) = MaxEntries
      BY <2>2 DEF DeadLetters!ConstantsAssumption
    <3> DEFINE front == DeadLetters!Front(dead)
               end   == << DeadLetters!Last(dead) >>
    <3>4. /\ front \in Seq(E) /\ end \in Seq(E) /\ Len(front) = Len(dead) - 1
          /\ dead = front \o end
      <4>1. /\ DeadLetters!Last(dead) \in E /\ front \in Seq(E) /\ Len(front) = Len(dead) - 1
            /\ dead = front \o end
        BY <3>3, LastAndFront
      <4>2. end \in Seq(E)
        BY <4>1, OneEntry
      <4> QED
        BY <4>1, <4>2
    <3> HIDE DEF one, front, end
    <3>5. Distinct(front) /\ Members(front) \subseteq Members(dead)
      BY <3>4, NoneTwice, MembersOfBoth
    <3>6. /\ one \o front \in Seq(E) /\ Members(one \o front) = {e} \cup Members(front)
          /\ Len(one \o front) = 1 + Len(front)
      BY <3>2, <3>4, MembersOfBoth
    <3>7. Distinct(one \o front)
      BY <3>2, <3>4, <3>5, NoneTwice
    <3>8. dead' = one \o front /\ DeadLetters!Pushed(e) = one \o front
      BY <1>2, <3>1 DEF front
    <3>9. Len(dead') <= MaxEntries
      BY <3>3, <3>4, <3>6, <3>8
    <3> QED
      BY <1>2, <3>5, <3>6, <3>7, <3>8, <3>9
  <2> QED
    BY <2>1, <2>2
<1>3. CASE dead' = dead /\ lost' = lost \cup {e}
  BY <1>3
<1> QED
  BY <1>2, <1>3 DEF DeadLetters!Record, Members

\* A script moves entries between the list, the queue and its own hands.
LEMMA ScriptMoves ==
  ASSUME ListInv, NEW s \in Scripts, taskOf' = taskOf,
         NEW pc \in {"idle", "asking", "sending", "restoring"},
         NEW c \in Seq(DeadLetters!Entries), NEW k \in Seq(DeadLetters!Entries),
         script' = [script EXCEPT ![s] = [pc |-> pc, chosen |-> c, skipped |-> k]],
         Distinct(c), Distinct(k), Members(c) \cap Members(k) = {},
         pc = "idle" => c = << >> /\ k = << >>, pc = "restoring" => c = << >>,
         dead' \in Seq(DeadLetters!Entries), Distinct(dead'), Len(dead') <= MaxEntries,
         sent' \in Seq(DeadLetters!Entries), Distinct(sent'),
         Members(dead') \cup Members(sent') \cup Members(c) \cup Members(k)
           \subseteq Members(dead) \cup Members(sent) \cup Taken(s),
         Members(dead') \cap Members(sent') = {},
         (Members(dead') \cup Members(sent')) \cap (Members(c) \cup Members(k)) = {},
         lost \subseteq lost',
         Members(dead) \cup Members(sent) \cup Taken(s)
           \subseteq Members(dead') \cup Members(sent') \cup Members(c) \cup Members(k) \cup lost'
  PROVE  ListInv'
<1> DEFINE D == Members(dead)
           Q == Members(sent)
           D2 == Members(dead')
           Q2 == Members(sent')
           H == Members(c) \cup Members(k)
           new == [pc |-> pc, chosen |-> c, skipped |-> k]
<1>1. DeadLetters!Entries' = DeadLetters!Entries
  BY DEF DeadLetters!Entries
<1>2. DOMAIN script' = Scripts /\ script'[s] = new /\ \A t \in Scripts \ {s} : script'[t] = script[t]
  BY DEF ListInv, ListsOK
<1>3. Taken(s)' = H /\ \A t \in Scripts \ {s} : Taken(t)' = Taken(t)
  BY <1>2 DEF Taken
<1>4. \A t \in Scripts : ScriptOK(t)'
  <2> SUFFICES ASSUME NEW t \in Scripts PROVE ScriptOK(t)'
    OBVIOUS
  <2>1. CASE t = s
    BY <1>1, <1>2, <2>1 DEF ScriptOK, DeadLetters!At, DeadLetters!IdleScript
  <2>2. CASE t # s
    <3>1. ScriptOK(t) /\ script'[t] = script[t]
      BY <1>2, <2>2 DEF ListInv, ListsOK
    <3> QED
      BY <1>1, <3>1 DEF ScriptOK, DeadLetters!At, DeadLetters!IdleScript
  <2> QED
    BY <2>1, <2>2
<1>5. ListsOK'
  BY <1>1, <1>2, <1>4 DEF ListInv, ListsOK, Listed
<1>6. Apart'
  <2> DEFINE T(t) == Taken(t)
             T2(t) == Taken(t)'
  <2>1. /\ \A t \in Scripts : (D \cup Q) \cap T(t) = {}
        /\ \A t, u \in Scripts : t # u => T(t) \cap T(u) = {}
    BY DEF ListInv, Apart
  <2>2. /\ D2 \cup Q2 \cup H \subseteq D \cup Q \cup T(s)
        /\ D2 \cap Q2 = {} /\ (D2 \cup Q2) \cap H = {}
    OBVIOUS
  <2>3. T2(s) = H /\ \A t \in Scripts \ {s} : T2(t) = T(t)
    BY <1>3
  <2> HIDE DEF D, Q, D2, Q2, H, T, T2
  <2>4. ASSUME NEW t \in Scripts PROVE (D2 \cup Q2) \cap T2(t) = {}
    BY <2>1, <2>2, <2>3
  <2>5. ASSUME NEW t \in Scripts, NEW u \in Scripts, t # u PROVE T2(t) \cap T2(u) = {}
    <3>1. CASE t = s
      BY <2>1, <2>2, <2>3, <2>5, <3>1
    <3>2. CASE u = s
      BY <2>1, <2>2, <2>3, <2>5, <3>2
    <3>3. CASE t # s /\ u # s
      BY <2>1, <2>3, <2>5, <3>3
    <3> QED
      BY <3>1, <3>2, <3>3
  <2> QED
    BY <2>2, <2>4, <2>5 DEF Apart, D2, Q2, T2
<1>7. Found'
  <2> SUFFICES ASSUME NEW e \in DeadLetters!Entries
               PROVE  e \in D2 \cup Q2 \cup lost' \/ \E t \in Scripts : e \in Taken(t)'
    BY <1>1 DEF Found
  <2>1. CASE e \in D \cup Q \cup Taken(s)
    BY <1>3, <2>1
  <2>2. CASE e \notin D \cup Q \cup Taken(s)
    BY <1>3, <2>2 DEF ListInv, Found
  <2> QED
    BY <2>1, <2>2
<1> QED
  BY <1>5, <1>6, <1>7 DEF ListInv

LEMMA GivingUp ==
  ASSUME DeadLetters!ConstantsAssumption, ListInv, DeadLetters!GiveUp
  PROVE  ListInv'
<1> DEFINE e == Len(taskOf) + 1
<1>1. PICK t \in DeadLetters!Tasks : taskOf' = Append(taskOf, t)
  BY DEF DeadLetters!GiveUp
<1>2. taskOf \in Seq(DeadLetters!Tasks) /\ Len(taskOf) \in Nat
  BY DEF ListInv, ListsOK
<1>3. taskOf' \in Seq(DeadLetters!Tasks) /\ Len(taskOf') = e
  BY <1>1, <1>2
<1>4. DeadLetters!Entries' = DeadLetters!Entries \cup {e} /\ e \notin DeadLetters!Entries
  BY <1>2, <1>3 DEF DeadLetters!Entries
<1>5. \A q \in Seq(DeadLetters!Entries) :
        q \in Seq(DeadLetters!Entries') /\ Members(q) \subseteq DeadLetters!Entries
  <2>1. DeadLetters!Entries \subseteq DeadLetters!Entries'
    BY <1>4
  <2> HIDE DEF e
  <2> SUFFICES ASSUME NEW q \in Seq(DeadLetters!Entries)
               PROVE  q \in Seq(DeadLetters!Entries') /\ Members(q) \subseteq DeadLetters!Entries
    OBVIOUS
  <2>2. Members(q) \subseteq DeadLetters!Entries
    BY MembersOf
  <2>3. \A i \in 1 .. Len(q) : q[i] \in DeadLetters!Entries'
    BY <2>1
  <2> QED
    BY <2>2, <2>3
<1>6. /\ dead \in Seq(DeadLetters!Entries') /\ Distinct(dead) /\ Len(dead) <= MaxEntries
      /\ e \in DeadLetters!Entries' /\ e \notin Members(dead)
      /\ Members(dead) \subseteq DeadLetters!Entries
  BY <1>4, <1>5 DEF ListInv, ListsOK, Listed
<1>7. /\ dead' \in Seq(DeadLetters!Entries') /\ Distinct(dead') /\ Len(dead') <= MaxEntries
      /\ Members(dead') \subseteq Members(dead) \cup {e}
      /\ lost \subseteq lost'
      /\ Members(dead) \cup {e} \subseteq Members(dead') \cup lost'
  <2> DEFINE E == DeadLetters!Entries'
  <2>1. DeadLetters!Record(e) /\ dead \in Seq(E) /\ e \in E
    BY <1>6 DEF DeadLetters!GiveUp
  <2> HIDE DEF e, E
  <2>2. /\ dead' \in Seq(E) /\ Distinct(dead') /\ Len(dead') <= MaxEntries
        /\ Members(dead') \subseteq Members(dead) \cup {e}
        /\ lost \subseteq lost'
        /\ Members(dead) \cup {e} \subseteq Members(dead') \cup lost'
    BY <1>6, <2>1, RecordStep
  <2> QED
    BY <2>2 DEF E
<1>8. script' = script /\ sent' = sent
  BY DEF DeadLetters!GiveUp
<1> HIDE DEF e
<1>9. /\ sent' \in Seq(DeadLetters!Entries') /\ Distinct(sent')
      /\ Members(sent) \subseteq DeadLetters!Entries
  BY <1>5, <1>8 DEF ListInv, ListsOK, Listed
<1>10. ASSUME NEW s \in Scripts
       PROVE  ScriptOK(s)' /\ Taken(s)' = Taken(s) /\ Taken(s) \subseteq DeadLetters!Entries
  <2>1. ScriptOK(s)
    BY DEF ListInv, ListsOK
  <2>2. /\ script[s].chosen \in Seq(DeadLetters!Entries')
        /\ script[s].skipped \in Seq(DeadLetters!Entries')
        /\ Members(script[s].chosen) \subseteq DeadLetters!Entries
        /\ Members(script[s].skipped) \subseteq DeadLetters!Entries
    BY <1>5, <2>1 DEF ScriptOK
  <2>3. script[s] \in [ pc : {"idle", "asking", "sending", "restoring"},
                        chosen : Seq(DeadLetters!Entries'), skipped : Seq(DeadLetters!Entries') ]
    BY <2>1, <2>2 DEF ScriptOK
  <2> QED
    BY <1>8, <2>1, <2>2, <2>3 DEF ScriptOK, Taken, DeadLetters!At, DeadLetters!IdleScript
<1>11. ListsOK'
  BY <1>3, <1>7, <1>8, <1>9, <1>10 DEF ListInv, ListsOK, Listed
<1>12. Apart'
  BY <1>4, <1>7, <1>8, <1>9, <1>10 DEF ListInv, Apart
<1>13. Found'
  BY <1>4, <1>7, <1>8, <1>10 DEF ListInv, Found
<1> QED
  BY <1>11, <1>12, <1>13 DEF ListInv

LEMMA ScriptFields ==
  ASSUME ListInv, NEW s \in Scripts
  PROVE  /\ script[s].pc \in {"idle", "asking", "sending", "restoring"}
         /\ script[s].chosen \in Seq(DeadLetters!Entries)
         /\ script[s].skipped \in Seq(DeadLetters!Entries)
         /\ script[s] = [pc |-> script[s].pc, chosen |-> script[s].chosen,
                         skipped |-> script[s].skipped]
         /\ s \in DOMAIN script
         /\ Distinct(script[s].chosen) /\ Distinct(script[s].skipped)
         /\ Members(script[s].chosen) \cap Members(script[s].skipped) = {}
         /\ script[s].pc = "idle" => script[s].chosen = << >> /\ script[s].skipped = << >>
         /\ script[s].pc = "restoring" => script[s].chosen = << >>
         /\ Taken(s) = Members(script[s].chosen) \cup Members(script[s].skipped)
         /\ dead \in Seq(DeadLetters!Entries) /\ Distinct(dead) /\ Len(dead) <= MaxEntries
         /\ sent \in Seq(DeadLetters!Entries) /\ Distinct(sent)
         /\ Members(dead) \cap Members(sent) = {}
         /\ (Members(dead) \cup Members(sent)) \cap Taken(s) = {}
<1>1. ScriptOK(s)
  BY DEF ListInv, ListsOK
<1>2. Listed(dead) /\ Listed(sent) /\ Len(dead) <= MaxEntries
  BY DEF ListInv, ListsOK
<1>3. /\ Members(dead) \cap Members(sent) = {}
      /\ (Members(dead) \cup Members(sent)) \cap Taken(s) = {}
  BY DEF ListInv, Apart
<1> QED
  BY <1>1, <1>2, <1>3
     DEF ScriptOK, DeadLetters!At, Taken, Listed, DeadLetters!IdleScript, ListInv, ListsOK

LEMMA Nothing ==
  ASSUME NEW S
  PROVE  << >> \in Seq(S) /\ Members(<< >>) = {} /\ Distinct(<< >>)
  BY DEF Members, DeadLetters!Range, DeadLetters!Range, Distinct, DeadLetters!IsInjective

\* Steps that touch no list: the script goes on, or is asked no more, or dies.
LEMMA ScriptGoesOn ==
  ASSUME ListInv, NEW s \in Scripts,
         \/ DeadLetters!Confirm(s) \/ DeadLetters!SentAll(s)
         \/ DeadLetters!Decline(s) \/ DeadLetters!Die(s)
  PROVE  ListInv'
<1> DEFINE c == script[s].chosen
           k == script[s].skipped
           H == Members(c) \cup Members(k)
           Same == UNCHANGED << dead, taskOf, sent >>
           Becomes(pc, x, y) ==
             script' = [script EXCEPT ![s] = [pc |-> pc, chosen |-> x, skipped |-> y]]
<1>0. /\ c \in Seq(DeadLetters!Entries) /\ k \in Seq(DeadLetters!Entries)
      /\ Distinct(c) /\ Distinct(k)
      /\ Members(c) \cap Members(k) = {} /\ Taken(s) = H
      /\ script[s].pc = "restoring" => c = << >>
      /\ script[s] = [pc |-> script[s].pc, chosen |-> c, skipped |-> k] /\ s \in DOMAIN script
  BY ScriptFields
<1>1. /\ dead \in Seq(DeadLetters!Entries) /\ Distinct(dead) /\ Len(dead) <= MaxEntries
      /\ sent \in Seq(DeadLetters!Entries) /\ Distinct(sent)
      /\ Members(dead) \cap Members(sent) = {} /\ (Members(dead) \cup Members(sent)) \cap H = {}
  BY <1>0, ScriptFields
<1>2. << >> \in Seq(DeadLetters!Entries) /\ Members(<< >>) = {} /\ Distinct(<< >>)
  BY Nothing
<1>7. \A pc : [script[s] EXCEPT !.pc = pc] = [pc |-> pc, chosen |-> c, skipped |-> k]
  <2> HIDE DEF c, k
  <2> QED
    BY <1>0
<1>3. CASE DeadLetters!Confirm(s)
  <2>1. /\ script' = [script EXCEPT ![s] = [script[s] EXCEPT !.pc = "sending"]]
        /\ Same /\ lost' = lost
    BY <1>3 DEF DeadLetters!Confirm
  <2>2. Becomes("sending", c, k)
    BY <1>7, <2>1
  <2> HIDE DEF c, k
  <2> QED
    BY <1>0, <1>1, <2>1, <2>2, ScriptMoves
<1>4. CASE DeadLetters!SentAll(s)
  <2>1. /\ script' = [script EXCEPT ![s] = [script[s] EXCEPT !.pc = "restoring"]]
        /\ c = << >> /\ Same /\ lost' = lost
    BY <1>4 DEF DeadLetters!SentAll
  <2>2. Becomes("restoring", c, k)
    BY <1>7, <2>1
  <2> HIDE DEF c, k
  <2> QED
    BY <1>0, <1>1, <2>1, <2>2, ScriptMoves
<1>5. CASE DeadLetters!Decline(s)
  <2> DEFINE ck == c \o k
  <2>1. Becomes("restoring", << >>, ck) /\ Same /\ lost' = lost
    BY <1>5 DEF DeadLetters!Decline
  <2>2. ck \in Seq(DeadLetters!Entries) /\ Distinct(ck) /\ Members(ck) = H
    <3> HIDE DEF c, k
    <3> QED
      BY <1>0, MembersOfBoth, NoneTwice
  <2> HIDE DEF c, k, ck
  <2> QED
    BY <1>0, <1>1, <1>2, <2>1, <2>2, ScriptMoves
<1>6. CASE DeadLetters!Die(s)
  <2>1. Becomes("idle", << >>, << >>) /\ Same /\ lost' = lost \cup Members(c) \cup Members(k)
    BY <1>6 DEF DeadLetters!Die, DeadLetters!IdleScript, Members
  <2> HIDE DEF c, k
  <2> QED
    BY <1>0, <1>1, <1>2, <2>1, ScriptMoves
<1> QED
  BY <1>3, <1>4, <1>5, <1>6

LEMMA Draining ==
  ASSUME DeadLetters!ConstantsAssumption, ListInv, NEW s \in Scripts, DeadLetters!Drain(s)
  PROVE  ListInv'
<1>1. PICK filter \in {DeadLetters!Tasks} \cup {{t} : t \in DeadLetters!Tasks} :
        script' = [script EXCEPT ![s] =
          [pc |-> "asking", chosen |-> DeadLetters!Filtered(dead, filter),
           skipped |-> DeadLetters!Filtered(dead, DeadLetters!Tasks \ filter)]]
  BY DEF DeadLetters!Drain
<1> DEFINE c == DeadLetters!Filtered(dead, filter)
           k == DeadLetters!Filtered(dead, DeadLetters!Tasks \ filter)
<1>2. /\ dead \in Seq(DeadLetters!Entries) /\ Distinct(dead) /\ Len(dead) <= MaxEntries
      /\ sent \in Seq(DeadLetters!Entries) /\ Distinct(sent)
      /\ Members(dead) \cap Members(sent) = {} /\ Taken(s) = {}
  <2>1. script[s].pc = "idle"
    BY DEF DeadLetters!Drain, DeadLetters!At
  <2>2. Members(<< >>) = {}
    BY Nothing
  <2> QED
    BY <2>1, <2>2, ScriptFields
<1>3. /\ c \in Seq(DeadLetters!Entries) /\ Distinct(c)
      /\ Members(c) = {e \in Members(dead) : taskOf[e] \in filter}
  BY <1>2, FilteredIsRight
<1>4. /\ k \in Seq(DeadLetters!Entries) /\ Distinct(k)
      /\ Members(k) = {e \in Members(dead) : taskOf[e] \in DeadLetters!Tasks \ filter}
  BY <1>2, FilteredIsRight
<1>5. \A e \in Members(dead) : taskOf[e] \in DeadLetters!Tasks
  <2>1. Members(dead) \subseteq DeadLetters!Entries
    BY <1>2, MembersOf
  <2> QED
    BY <2>1 DEF DeadLetters!Entries, ListInv, ListsOK
<1>6. Members(c) \cup Members(k) = Members(dead) /\ Members(c) \cap Members(k) = {}
  BY <1>3, <1>4, <1>5
<1>7. << >> \in Seq(DeadLetters!Entries) /\ Members(<< >>) = {} /\ Distinct(<< >>) /\ Len(<< >>) = 0
  BY Nothing
<1>8. dead' = << >> /\ taskOf' = taskOf /\ sent' = sent /\ lost' = lost
  BY DEF DeadLetters!Drain
<1>9. Len(dead') <= MaxEntries
  <2>1. Len(dead) \in Nat
    BY <1>2
  <2> QED
    BY <1>2, <1>7, <1>8, <2>1 DEF DeadLetters!ConstantsAssumption
<1>10. /\ script' = [script EXCEPT ![s] = [pc |-> "asking", chosen |-> c, skipped |-> k]]
       /\ dead' \in Seq(DeadLetters!Entries) /\ Distinct(dead') /\ Members(dead') = {}
  BY <1>1, <1>7, <1>8
<1>11. (Members(dead) \cup Members(sent)) \cap Taken(s) = {}
  BY ScriptFields
<1> HIDE DEF c, k
<1>12. /\ Members(dead') \cup Members(sent') \cup Members(c) \cup Members(k)
            \subseteq Members(dead) \cup Members(sent) \cup Taken(s)
       /\ Members(dead') \cap Members(sent') = {}
       /\ (Members(dead') \cup Members(sent')) \cap (Members(c) \cup Members(k)) = {}
       /\ Members(dead) \cup Members(sent) \cup Taken(s)
            \subseteq Members(dead') \cup Members(sent') \cup Members(c) \cup Members(k) \cup lost'
  BY <1>2, <1>6, <1>8, <1>10
<1>13. sent' \in Seq(DeadLetters!Entries) /\ Distinct(sent') /\ lost \subseteq lost'
  BY <1>2, <1>8
<1> QED
  BY <1>3, <1>4, <1>6, <1>8, <1>9, <1>10, <1>12, <1>13, ScriptMoves

LEMMA Sending ==
  ASSUME ListInv, NEW s \in Scripts, DeadLetters!Send(s)
  PROVE  ListInv'
<1> DEFINE c == script[s].chosen
           k == script[s].skipped
           e == Head(c)
           rest == Tail(c)
           one == << e >>
<1>1. /\ c \in Seq(DeadLetters!Entries) /\ k \in Seq(DeadLetters!Entries)
      /\ Distinct(c) /\ Distinct(k)
      /\ Members(c) \cap Members(k) = {} /\ Taken(s) = Members(c) \cup Members(k)
      /\ script[s] = [pc |-> script[s].pc, chosen |-> c, skipped |-> k] /\ s \in DOMAIN script
  BY ScriptFields
<1>2. /\ dead \in Seq(DeadLetters!Entries) /\ Distinct(dead) /\ Len(dead) <= MaxEntries
      /\ sent \in Seq(DeadLetters!Entries) /\ Distinct(sent)
      /\ Members(dead) \cap Members(sent) = {}
      /\ (Members(dead) \cup Members(sent)) \cap Taken(s) = {}
  BY ScriptFields
<1>3. /\ c # << >> /\ script[s].pc = "sending"
      /\ script' = [script EXCEPT ![s] = [script[s] EXCEPT !.chosen = rest]]
      /\ dead' = dead /\ taskOf' = taskOf
      /\ (sent' = Append(sent, e) /\ lost' = lost) \/ (sent' = sent /\ lost' = lost \cup {e})
  BY DEF DeadLetters!Send, DeadLetters!At
<1>4. script' = [script EXCEPT ![s] = [pc |-> "sending", chosen |-> rest, skipped |-> k]]
  <2>1. [script[s] EXCEPT !.chosen = rest] = [pc |-> "sending", chosen |-> rest, skipped |-> k]
    <3> HIDE DEF rest, k
    <3> QED
      BY <1>1, <1>3
  <2> QED
    BY <1>3, <2>1
<1>5. e \in DeadLetters!Entries /\ rest \in Seq(DeadLetters!Entries) /\ c = one \o rest
  <2> HIDE DEF c
  <2> QED
    BY <1>1, <1>3, HeadAndTail DEF e, rest, one
<1>6. one \in Seq(DeadLetters!Entries) /\ Distinct(one) /\ Members(one) = {e}
  <2> HIDE DEF e
  <2> QED
    BY <1>5, OneEntry
<1>7. Distinct(rest) /\ Members(c) = {e} \cup Members(rest) /\ e \notin Members(rest)
  <2> HIDE DEF one, rest, e, c
  <2> QED
    BY <1>1, <1>5, <1>6, MembersOfBoth, NoneTwice
<1>8. CASE sent' = Append(sent, e) /\ lost' = lost
  <2>1. sent' = sent \o one
    BY <1>2, <1>5, <1>8
  <2> HIDE DEF one, rest, e, c, k
  <2>2. sent' \in Seq(DeadLetters!Entries) /\ Members(sent') = Members(sent) \cup {e} /\ Distinct(sent')
    BY <1>1, <1>2, <1>6, <1>7, <2>1, MembersOfBoth, NoneTwice
  <2>3. /\ Members(dead') \cup Members(sent') \cup Members(rest) \cup Members(k)
             \subseteq Members(dead) \cup Members(sent) \cup Taken(s)
        /\ Members(dead') \cap Members(sent') = {}
        /\ (Members(dead') \cup Members(sent')) \cap (Members(rest) \cup Members(k)) = {}
        /\ Members(dead) \cup Members(sent) \cup Taken(s)
             \subseteq Members(dead') \cup Members(sent') \cup Members(rest) \cup Members(k) \cup lost'
        /\ Members(rest) \cap Members(k) = {} /\ lost \subseteq lost'
    BY <1>1, <1>2, <1>3, <1>7, <1>8, <2>2
  <2>4. dead' \in Seq(DeadLetters!Entries) /\ Distinct(dead') /\ Len(dead') <= MaxEntries
    BY <1>2, <1>3
  <2> QED
    BY <1>1, <1>3, <1>4, <1>5, <1>7, <2>2, <2>3, <2>4, ScriptMoves
<1>9. CASE sent' = sent /\ lost' = lost \cup {e}
  <2> HIDE DEF one, rest, e, c, k
  <2>3. /\ Members(dead') \cup Members(sent') \cup Members(rest) \cup Members(k)
             \subseteq Members(dead) \cup Members(sent) \cup Taken(s)
        /\ Members(dead') \cap Members(sent') = {}
        /\ (Members(dead') \cup Members(sent')) \cap (Members(rest) \cup Members(k)) = {}
        /\ Members(dead) \cup Members(sent) \cup Taken(s)
             \subseteq Members(dead') \cup Members(sent') \cup Members(rest) \cup Members(k) \cup lost'
        /\ Members(rest) \cap Members(k) = {} /\ lost \subseteq lost'
    BY <1>1, <1>2, <1>3, <1>7, <1>9
  <2>4. /\ dead' \in Seq(DeadLetters!Entries) /\ Distinct(dead') /\ Len(dead') <= MaxEntries
        /\ sent' \in Seq(DeadLetters!Entries) /\ Distinct(sent')
    BY <1>2, <1>3, <1>9
  <2> QED
    BY <1>1, <1>3, <1>4, <1>5, <1>7, <2>3, <2>4, ScriptMoves
<1> QED
  BY <1>3, <1>8, <1>9

LEMMA PuttingBack ==
  ASSUME DeadLetters!ConstantsAssumption, ListInv, NEW s \in Scripts, DeadLetters!PutBack(s)
  PROVE  ListInv'
<1> DEFINE k == script[s].skipped
           e == DeadLetters!Last(k)
           rest == DeadLetters!Front(k)
           one == << e >>
<1>1. /\ k \in Seq(DeadLetters!Entries) /\ Distinct(k) /\ Taken(s) = Members(k)
      /\ script[s] = [pc |-> "restoring", chosen |-> << >>, skipped |-> k] /\ s \in DOMAIN script
  <2>1. script[s].pc = "restoring"
    BY DEF DeadLetters!PutBack, DeadLetters!At
  <2>2. Members(<< >>) = {}
    BY Nothing
  <2> QED
    BY <2>1, <2>2, ScriptFields
<1>2. /\ dead \in Seq(DeadLetters!Entries) /\ Distinct(dead) /\ Len(dead) <= MaxEntries
      /\ sent \in Seq(DeadLetters!Entries) /\ Distinct(sent)
      /\ Members(dead) \cap Members(sent) = {}
      /\ (Members(dead) \cup Members(sent)) \cap Taken(s) = {}
  BY ScriptFields
<1>3. << >> \in Seq(DeadLetters!Entries) /\ Members(<< >>) = {} /\ Distinct(<< >>)
  BY Nothing
<1>4. taskOf' = taskOf /\ sent' = sent
  BY DEF DeadLetters!PutBack
<1>5. CASE k = << >>
  <2>1. /\ script' = [script EXCEPT ![s] = [pc |-> "idle", chosen |-> << >>, skipped |-> << >>]]
        /\ dead' = dead /\ lost' = lost
    BY <1>5 DEF DeadLetters!PutBack, DeadLetters!IdleScript
  <2> HIDE DEF k
  <2> QED
    BY <1>1, <1>2, <1>3, <1>4, <1>5, <2>1, ScriptMoves
<1>6. CASE k # << >>
  <2>1. /\ script' = [script EXCEPT ![s] = [script[s] EXCEPT !.skipped = rest]]
        /\ DeadLetters!Record(e)
    BY <1>6 DEF DeadLetters!PutBack
  <2>2. script' = [script EXCEPT ![s] = [pc |-> "restoring", chosen |-> << >>, skipped |-> rest]]
    <3>1. [script[s] EXCEPT !.skipped = rest]
            = [pc |-> "restoring", chosen |-> << >>, skipped |-> rest]
      <4> HIDE DEF rest, k
      <4> QED
        BY <1>1
    <3> QED
      BY <2>1, <3>1
  <2>3. e \in DeadLetters!Entries /\ rest \in Seq(DeadLetters!Entries) /\ k = rest \o one
    <3> HIDE DEF k
    <3> QED
      BY <1>1, <1>6, LastAndFront DEF e, rest, one
  <2>4. one \in Seq(DeadLetters!Entries) /\ Distinct(one) /\ Members(one) = {e}
    <3> HIDE DEF e
    <3> QED
      BY <2>3, OneEntry
  <2>5. Distinct(rest) /\ Members(k) = Members(rest) \cup {e} /\ e \notin Members(rest)
    <3> HIDE DEF one, rest, e, k
    <3> QED
      BY <1>1, <2>3, <2>4, MembersOfBoth, NoneTwice
  <2> HIDE DEF one, rest, e, k
  <2>6. e \notin Members(dead)
    BY <1>1, <1>2, <2>5
  <2>7. /\ dead' \in Seq(DeadLetters!Entries) /\ Distinct(dead') /\ Len(dead') <= MaxEntries
        /\ Members(dead') \subseteq Members(dead) \cup {e}
        /\ lost \subseteq lost'
        /\ Members(dead) \cup {e} \subseteq Members(dead') \cup lost'
    BY <1>2, <2>1, <2>3, <2>6, RecordStep
  <2> DEFINE D == Members(dead)
             D2 == Members(dead')
             Q == Members(sent)
             K == Members(k)
             R == Members(rest)
  <2>8. /\ D2 \cup Q \cup {} \cup R \subseteq D \cup Q \cup K
        /\ D2 \cap Q = {} /\ (D2 \cup Q) \cap ({} \cup R) = {}
        /\ D \cup Q \cup K \subseteq D2 \cup Q \cup {} \cup R \cup lost'
    <3>1. /\ K = R \cup {e} /\ e \notin R /\ D2 \subseteq D \cup {e}
          /\ D \cup {e} \subseteq D2 \cup lost'
          /\ D \cap Q = {} /\ (D \cup Q) \cap K = {}
      BY <1>1, <1>2, <2>5, <2>7
    <3> HIDE DEF D, D2, Q, K, R
    <3> QED
      BY <3>1
  <2>9. sent' \in Seq(DeadLetters!Entries) /\ Distinct(sent') /\ Members(sent') = Q
    BY <1>2, <1>4
  <2>10. Members(<< >>) = {} /\ Members(<< >>) \cap R = {} /\ Taken(s) = K
    BY <1>1, <1>3
  <2> QED
    BY <1>3, <1>4, <2>2, <2>3, <2>5, <2>7, <2>8, <2>9, <2>10, ScriptMoves
<1> QED
  BY <1>5, <1>6

LEMMA ListInvNext ==
  ASSUME DeadLetters!ConstantsAssumption, ListInv, [DeadLetters!Next]_DeadLetters!vars
  PROVE  ListInv'
<1>1. CASE UNCHANGED DeadLetters!vars
  <2>1. UNCHANGED << dead, taskOf, script, sent, lost >>
    BY <1>1 DEF DeadLetters!vars
  <2> QED
    BY <2>1
       DEF ListInv, ListsOK, Listed, ScriptOK, Apart, Found, Taken, DeadLetters!Entries,
           DeadLetters!At, DeadLetters!IdleScript
<1>2. CASE DeadLetters!GiveUp
  BY <1>2, GivingUp
<1>3. ASSUME NEW s \in Scripts,
             \/ DeadLetters!Drain(s) \/ DeadLetters!Confirm(s) \/ DeadLetters!Decline(s)
             \/ DeadLetters!Send(s) \/ DeadLetters!SentAll(s)
             \/ DeadLetters!PutBack(s) \/ DeadLetters!Die(s)
      PROVE  ListInv'
  BY <1>3, Draining, Sending, PuttingBack, ScriptGoesOn
<1> QED
  BY <1>1, <1>2, <1>3 DEF DeadLetters!Next

LEMMA ListInvariant == ASSUME DeadLetters!ConstantsAssumption PROVE DeadLetters!Spec => []ListInv
<1>1. DeadLetters!Init => ListInv
  BY ListInvInit
<1>2. ListInv /\ [DeadLetters!Next]_DeadLetters!vars => ListInv'
  BY ListInvNext
<1> QED
  BY <1>1, <1>2, PTL DEF DeadLetters!Spec

LEMMA ListedMeansMoved == ListInv => DeadLetters!EntriesAreMoved
<1> SUFFICES ASSUME ListInv PROVE DeadLetters!EntriesAreMoved
  OBVIOUS
<1>1. /\ Listed(dead) /\ Listed(sent) /\ Len(dead) <= MaxEntries
      /\ Members(dead) \cap Members(sent) = {}
  BY DEF ListInv, ListsOK, Apart
<1>2. /\ dead \o sent \in Seq(DeadLetters!Entries) /\ Distinct(dead \o sent)
      /\ Members(dead \o sent) = Members(dead) \cup Members(sent)
  BY <1>1, MembersOfBoth, NoneTwice DEF Listed
<1>3. ASSUME NEW s \in Scripts
      PROVE  /\ DeadLetters!Held(s) \in Seq(DeadLetters!Entries)
             /\ Distinct(DeadLetters!Held(s))
             /\ Members(DeadLetters!Held(s)) = Taken(s)
             /\ Distinct(dead \o sent \o DeadLetters!Held(s))
  <2> DEFINE c == script[s].chosen
             k == script[s].skipped
             h == c \o k
             q == dead \o sent
  <2>1. /\ c \in Seq(DeadLetters!Entries) /\ k \in Seq(DeadLetters!Entries)
        /\ Distinct(c) /\ Distinct(k)
        /\ Members(c) \cap Members(k) = {} /\ Taken(s) = Members(c) \cup Members(k)
    BY ScriptFields
  <2>2. h \in Seq(DeadLetters!Entries) /\ Distinct(h) /\ Members(h) = Taken(s)
    <3> HIDE DEF c, k
    <3> QED
      BY <2>1, MembersOfBoth, NoneTwice
  <2>3. (Members(dead) \cup Members(sent)) \cap Taken(s) = {}
    BY DEF ListInv, Apart
  <2>4. Distinct(q \o h)
    <3>1. /\ q \in Seq(DeadLetters!Entries) /\ h \in Seq(DeadLetters!Entries)
          /\ Distinct(q) /\ Distinct(h)
          /\ Members(q) \cap Members(h) = {}
      BY <1>2, <2>2, <2>3
    <3> HIDE DEF q, h
    <3> QED
      BY <3>1, NoneTwice
  <2> QED
    BY <2>2, <2>4 DEF DeadLetters!Held
<1>4. \A s \in Scripts : \A t \in Scripts \ {s} :
        Members(DeadLetters!Held(s)) \cap Members(DeadLetters!Held(t)) = {}
  BY <1>3 DEF ListInv, Apart
<1>5. DeadLetters!Entries \subseteq
        Members(dead \o sent) \cup (UNION {Members(DeadLetters!Held(s)) : s \in Scripts}) \cup lost
  <2> SUFFICES ASSUME NEW e \in DeadLetters!Entries, e \notin Members(dead) \cup Members(sent) \cup lost
               PROVE  \E s \in Scripts : e \in Members(DeadLetters!Held(s))
    <3> DEFINE U == UNION {Members(DeadLetters!Held(s)) : s \in Scripts}
    <3>1. \A e : (\E s \in Scripts : e \in Members(DeadLetters!Held(s))) => e \in U
      OBVIOUS
    <3> HIDE DEF U
    <3> QED
      BY <1>2, <3>1 DEF U
  <2>1. PICK s \in Scripts : e \in Taken(s)
    BY DEF ListInv, Found
  <2> QED
    BY <1>3, <2>1
<1> QED
  BY <1>1, <1>2, <1>3, <1>4, <1>5 DEF DeadLetters!EntriesAreMoved, Members, Distinct

\* What the invariant leaves open of the types.
ListTyped ==
  /\ script \in [Scripts -> DeadLetters!Script]
  /\ lost \in SUBSET Nat /\ replays \in Nat

LEMMA WiderSeq ==
  ASSUME NEW S, NEW T, S \subseteq T, NEW q \in Seq(S)
  PROVE  q \in Seq(T)
<1>1. Len(q) \in Nat /\ q \in [1 .. Len(q) -> S]
  OBVIOUS
<1>2. q \in [1 .. Len(q) -> T]
  BY <1>1
<1>3. QED
  BY <1>1, <1>2

LEMMA ListTypedInit == DeadLetters!Init => ListTyped
<1>1. DeadLetters!IdleScript \in DeadLetters!Script
  BY DEF DeadLetters!IdleScript, DeadLetters!Script
<1>2. QED
  BY <1>1 DEF DeadLetters!Init, ListTyped

LEMMA ListTypedNext ==
  ASSUME ListInv, ListTyped, ListInv', [DeadLetters!Next]_DeadLetters!vars
  PROVE  ListTyped'
<1>1. Len(taskOf) \in Nat /\ DeadLetters!Entries \subseteq Nat /\ DeadLetters!Entries' \subseteq Nat
  BY DEF ListInv, ListsOK, DeadLetters!Entries
<1>2. ASSUME NEW q \in Seq(DeadLetters!Entries)
      PROVE  DeadLetters!Range(q) \subseteq Nat /\ q \in Seq(Nat)
  <2>1. q \in Seq(Nat)
    BY <1>1, <1>2, WiderSeq
  <2>2. QED
    BY <2>1 DEF DeadLetters!Range
<1>3. ASSUME NEW s \in Scripts
      PROVE  /\ DeadLetters!Range(script[s].chosen) \subseteq Nat
             /\ DeadLetters!Range(script[s].skipped) \subseteq Nat
             /\ script[s].skipped \in Seq(DeadLetters!Entries)
             /\ script[s].chosen \in Seq(DeadLetters!Entries)
  BY <1>2, ScriptFields
<1>4. DeadLetters!Range(dead) \subseteq Nat
  BY <1>2 DEF ListInv, ListsOK, Listed
<1>5. ASSUME NEW e \in Nat, DeadLetters!Record(e) PROVE lost' \in SUBSET Nat
  BY <1>4, <1>5 DEF DeadLetters!Record, ListTyped
<1>6. replays' \in Nat
  <2>1. replays' = replays \/ replays' = replays + 1
    BY DEF DeadLetters!Next, DeadLetters!GiveUp, DeadLetters!Drain, DeadLetters!Confirm,
           DeadLetters!Decline, DeadLetters!Send, DeadLetters!SentAll, DeadLetters!PutBack,
           DeadLetters!Die, DeadLetters!vars
  <2>2. QED
    BY <2>1 DEF ListTyped
<1>7. lost' \in SUBSET Nat
  <2>1. CASE DeadLetters!GiveUp
    BY <1>1, <1>5, <2>1 DEF DeadLetters!GiveUp
  <2>2. ASSUME NEW s \in Scripts, DeadLetters!Send(s) PROVE lost' \in SUBSET Nat
    <3>1. Head(script[s].chosen) \in Nat
      BY <1>1, <1>3, <2>2 DEF DeadLetters!Send
    <3>2. QED
      BY <2>2, <3>1 DEF DeadLetters!Send, ListTyped
  <2>3. ASSUME NEW s \in Scripts, DeadLetters!PutBack(s) PROVE lost' \in SUBSET Nat
    <3>1. CASE script[s].skipped = << >>
      BY <2>3, <3>1 DEF DeadLetters!PutBack, ListTyped
    <3>2. CASE script[s].skipped # << >>
      <4>1. DeadLetters!Last(script[s].skipped) \in Nat
        <5>1. PICK q \in Seq(Nat) : q = script[s].skipped
          BY <1>1, <1>3, WiderSeq
        <5>2. q # << >>
          BY <3>2, <5>1
        <5>3. q[Len(q)] \in Nat
          BY <5>1, <5>2
        <5>4. QED
          BY <5>1, <5>3 DEF DeadLetters!Last
      <4>2. QED
        BY <1>5, <2>3, <3>2, <4>1 DEF DeadLetters!PutBack
    <3>3. QED
      BY <3>1, <3>2
  <2>4. ASSUME NEW s \in Scripts, DeadLetters!Die(s) PROVE lost' \in SUBSET Nat
    BY <1>3, <2>4 DEF DeadLetters!Die, ListTyped
  <2>5. ASSUME NEW s \in Scripts,
               DeadLetters!Drain(s) \/ DeadLetters!Confirm(s) \/ DeadLetters!Decline(s)
                 \/ DeadLetters!SentAll(s)
        PROVE  lost' \in SUBSET Nat
    BY <2>5 DEF DeadLetters!Drain, DeadLetters!Confirm, DeadLetters!Decline, DeadLetters!SentAll,
                ListTyped
  <2>6. CASE UNCHANGED DeadLetters!vars
    BY <2>6 DEF DeadLetters!vars, ListTyped
  <2>7. QED
    BY <2>1, <2>2, <2>3, <2>4, <2>5, <2>6 DEF DeadLetters!Next
<1>8. script' = [s \in Scripts |-> script'[s]]
  <2>1. script' = script \/ \E s \in Scripts : \E r : script' = [script EXCEPT ![s] = r]
    BY DEF DeadLetters!Next, DeadLetters!GiveUp, DeadLetters!Drain, DeadLetters!Confirm,
           DeadLetters!Decline, DeadLetters!Send, DeadLetters!SentAll, DeadLetters!PutBack,
           DeadLetters!Die, DeadLetters!vars
  <2>2. QED
    BY <2>1 DEF ListTyped
<1>9. ASSUME NEW s \in Scripts PROVE script'[s] \in DeadLetters!Script
  <2>1. script'[s] \in [ pc : {"idle", "asking", "sending", "restoring"},
                         chosen : Seq(DeadLetters!Entries'), skipped : Seq(DeadLetters!Entries') ]
    BY DEF ListInv, ListsOK, ScriptOK
  <2>2. /\ script'[s].chosen \in Seq(DeadLetters!Entries')
        /\ script'[s].skipped \in Seq(DeadLetters!Entries')
        /\ script'[s].pc \in {"idle", "asking", "sending", "restoring"}
        /\ script'[s] = [pc |-> script'[s].pc, chosen |-> script'[s].chosen,
                          skipped |-> script'[s].skipped]
    BY <2>1
  <2>4. script'[s].chosen \in Seq(Nat) /\ script'[s].skipped \in Seq(Nat)
    BY <1>1, <2>2, WiderSeq
  <2>3. QED
    BY <2>2, <2>4 DEF DeadLetters!Script
<1>10. QED
  BY <1>6, <1>7, <1>8, <1>9 DEF ListTyped

LEMMA ListTypes ==
  ASSUME DeadLetters!ConstantsAssumption
  PROVE  DeadLetters!Spec => []DeadLetters!TypeOK
<1>1. ListInv /\ ListTyped => DeadLetters!TypeOK
  <2>1. SUFFICES ASSUME ListInv, ListTyped PROVE DeadLetters!TypeOK
    OBVIOUS
  <2>2. DeadLetters!Entries \subseteq Nat
    BY <2>1 DEF ListInv, ListsOK, DeadLetters!Entries
  <2>3. dead \in Seq(Nat) /\ sent \in Seq(Nat)
    BY <2>1, <2>2, WiderSeq DEF ListInv, ListsOK, Listed
  <2>4. QED
    BY <2>1, <2>3 DEF ListInv, ListsOK, ListTyped, DeadLetters!TypeOK
<1>2. QED
  BY <1>1, ListInvariant, ListTypedInit, ListTypedNext, PTL DEF DeadLetters!Spec

-----------------------------------------------------------------------------
(* The providers.                                                          *)


\* What a request in flight has decided on, which is what there is unless it was raced.
Decided(a) ==
  LET r == switch[a] IN
  r.on => /\ Toggle!MayBecome(r.read, r.name, r.to)
          /\ r.raced \/ r.read = enabled

ToggleInv ==
  /\ Toggle!TypeOK
  /\ Toggle!SomebodyServes
  /\ \A a \in Admins : Decided(a)

LEMMA ToggleInit ==
  ASSUME Toggle!ConstantsAssumption, Configured # {Offline}, Toggle!Init
  PROVE  ToggleInv
<1>1. Toggle!NoSwitch \in Toggle!Switch /\ ~Toggle!NoSwitch.on
  BY DEF Toggle!ConstantsAssumption, Toggle!NoSwitch, Toggle!Switch, Toggle!AllOn
<1>2. Toggle!TypeOK
  BY <1>1 DEF Toggle!Init, Toggle!TypeOK, Toggle!AllOn
<1>3. Toggle!Serving(enabled) # {} /\ enabled[Offline]
  <2>1. \A p \in Providers : enabled[p]
    BY DEF Toggle!Init, Toggle!AllOn
  <2>2. PICK p \in Configured : p # Offline
    BY DEF Toggle!ConstantsAssumption
  <2> QED
    BY <2>1, <2>2 DEF Toggle!Serving, Toggle!ConstantsAssumption
<1>4. \A a \in Admins : Decided(a)
  BY <1>1 DEF Toggle!Init, Decided
<1> QED
  BY <1>2, <1>3, <1>4 DEF ToggleInv, Toggle!SomebodyServes

LEMMA ToggleDecides ==
  ASSUME ToggleInv, NEW a \in Admins, Toggle!Decide(a)
  PROVE  ToggleInv'
<1>1. PICK p \in Providers, on \in BOOLEAN :
        /\ Toggle!MayBecome(enabled, p, on)
        /\ switch' = [switch EXCEPT ![a] = [on |-> TRUE, name |-> p, to |-> on,
                                            read |-> enabled, raced |-> FALSE]]
  BY DEF Toggle!Decide
<1>2. UNCHANGED << enabled, overlapped >>
  BY DEF Toggle!Decide
<1>3. Toggle!TypeOK'
  BY <1>1, <1>2 DEF ToggleInv, Toggle!TypeOK, Toggle!Switch
<1>4. Toggle!SomebodyServes'
  BY <1>2 DEF ToggleInv, Toggle!SomebodyServes, Toggle!Serving
<1>5. ASSUME NEW b \in Admins
      PROVE  Decided(b)'
  <2>1. CASE b = a
    BY <1>1, <1>2, <2>1 DEF ToggleInv, Toggle!TypeOK, Decided, Toggle!MayBecome, Toggle!Serving
  <2>2. CASE b # a
    BY <1>1, <1>2, <2>2 DEF ToggleInv, Toggle!TypeOK, Decided, Toggle!MayBecome, Toggle!Serving
  <2> QED
    BY <2>1, <2>2
<1> QED
  BY <1>3, <1>4, <1>5 DEF ToggleInv

LEMMA ToggleCommits ==
  ASSUME Toggle!ConstantsAssumption, ToggleInv, NEW a \in Admins, Toggle!Commit(a)
  PROVE  ToggleInv'
<1> DEFINE r == switch[a]
<1>0. r \in Toggle!Switch /\ r.on /\ Decided(a)
  BY DEF Toggle!Commit, ToggleInv, Toggle!TypeOK
<1>1. /\ enabled' = IF r.read[r.name] = r.to THEN enabled
                  ELSE [enabled EXCEPT ![r.name] = r.to]
      /\ overlapped' = (overlapped \/ r.raced)
  BY DEF Toggle!Commit
<1>2. /\ Toggle!NoSwitch \in Toggle!Switch /\ ~Toggle!NoSwitch.on
      /\ switch' = [b \in Admins |->
                     IF b = a THEN Toggle!NoSwitch
                     ELSE [switch[b] EXCEPT !.raced =
                             (@ \/ (switch[b].on /\ enabled' # enabled))]]
  BY DEF Toggle!Commit, Toggle!ConstantsAssumption, Toggle!NoSwitch, Toggle!Switch, Toggle!AllOn
<1>3. Toggle!TypeOK'
  <2>1. enabled' \in [Providers -> BOOLEAN] /\ overlapped' \in BOOLEAN
    BY <1>0, <1>1 DEF ToggleInv, Toggle!TypeOK, Toggle!Switch
  <2>2. \A b \in Admins :
          [switch[b] EXCEPT !.raced = (@ \/ (switch[b].on /\ enabled' # enabled))]
            \in Toggle!Switch
    BY DEF ToggleInv, Toggle!TypeOK, Toggle!Switch
  <2> QED
    BY <1>2, <2>1, <2>2 DEF Toggle!TypeOK
<1>4. Toggle!SomebodyServes'
  <2>1. enabled'[Offline]
    BY <1>0, <1>1 DEF ToggleInv, Toggle!TypeOK, Toggle!SomebodyServes,
       Decided, Toggle!MayBecome, Toggle!Switch,
       Toggle!ConstantsAssumption
  <2>2. CASE overlapped \/ r.raced
    BY <1>1, <2>1, <2>2 DEF Toggle!SomebodyServes
  <2>3. CASE ~overlapped /\ ~r.raced
    <3>1. r.read = enabled /\ Toggle!MayBecome(r.read, r.name, r.to)
      BY <1>0, <2>3 DEF Decided
    <3>2. enabled' = [enabled EXCEPT ![r.name] = r.to]
      BY <1>0, <1>1, <3>1 DEF ToggleInv, Toggle!TypeOK, Toggle!Switch
    <3>3. Toggle!Serving(enabled') # {}
      BY <3>1, <3>2 DEF Toggle!MayBecome
    <3> QED
      BY <2>1, <3>3 DEF Toggle!SomebodyServes, Toggle!Serving
  <2> QED
    BY <2>2, <2>3
<1>5. ASSUME NEW b \in Admins
      PROVE  Decided(b)'
  <2>1. CASE b = a
    BY <1>2, <2>1 DEF Decided
  <2>2. CASE b # a
    <3>1. /\ switch'[b].on = switch[b].on /\ switch'[b].read = switch[b].read
          /\ switch'[b].name = switch[b].name /\ switch'[b].to = switch[b].to
          /\ switch'[b].raced = (switch[b].raced \/ (switch[b].on /\ enabled' # enabled))
      BY <1>2, <2>2 DEF ToggleInv, Toggle!TypeOK, Toggle!Switch
    <3>2. Decided(b)
      BY DEF ToggleInv
    <3> QED
      BY <3>1, <3>2 DEF Decided, Toggle!MayBecome, Toggle!Serving
  <2> QED
    BY <2>1, <2>2
<1> QED
  BY <1>3, <1>4, <1>5 DEF ToggleInv

\* Both steps of a switch, and nothing else, touch the rows.
LEMMA ToggleInvariant ==
  ASSUME PartsAssumption, Configured # {Offline}
  PROVE  Toggle!Spec => []ToggleInv
<1>1. Toggle!ConstantsAssumption
  BY PartsAssumption DEF PartsAssumption
<1>2. ASSUME ToggleInv, [Toggle!Next]_Toggle!vars
      PROVE  ToggleInv'
  <2>1. CASE UNCHANGED Toggle!vars
    BY <1>2, <2>1 DEF Toggle!vars, ToggleInv, Toggle!TypeOK, Toggle!SomebodyServes,
       Toggle!Serving, Decided, Toggle!MayBecome
  <2>2. CASE Toggle!Next
    BY <1>1, <1>2, <2>2, ToggleDecides, ToggleCommits DEF Toggle!Next
  <2> QED
    BY <1>2, <2>1, <2>2
<1>3. Toggle!Init => ToggleInv
  BY <1>1, ToggleInit
<1> QED
  BY <1>2, <1>3, PTL DEF Toggle!Spec

\* The types do not need a provider that is configured.
LEMMA ToggleTypes ==
  ASSUME Toggle!ConstantsAssumption
  PROVE  Toggle!Spec => []Toggle!TypeOK
<1>1. Toggle!NoSwitch \in Toggle!Switch
  BY DEF Toggle!ConstantsAssumption, Toggle!NoSwitch, Toggle!Switch, Toggle!AllOn
<1>2. Toggle!Init => Toggle!TypeOK
  BY <1>1 DEF Toggle!Init, Toggle!TypeOK, Toggle!AllOn
<1>3. ASSUME Toggle!TypeOK, NEW a \in Admins, Toggle!Decide(a) PROVE Toggle!TypeOK'
  BY <1>3 DEF Toggle!Decide, Toggle!TypeOK, Toggle!Switch
<1>4. ASSUME Toggle!TypeOK, NEW a \in Admins, Toggle!Commit(a) PROVE Toggle!TypeOK'
  <2>1. enabled' \in [Providers -> BOOLEAN] /\ overlapped' \in BOOLEAN
    BY <1>4 DEF Toggle!Commit, Toggle!TypeOK, Toggle!Switch
  <2>2. \A b \in Admins :
          [switch[b] EXCEPT !.raced = (@ \/ (switch[b].on /\ enabled' # enabled))]
            \in Toggle!Switch
    BY <1>4 DEF Toggle!TypeOK, Toggle!Switch
  <2>3. switch' = [b \in Admins |->
                     IF b = a THEN Toggle!NoSwitch
                     ELSE [switch[b] EXCEPT !.raced =
                             (@ \/ (switch[b].on /\ enabled' # enabled))]]
    BY <1>4 DEF Toggle!Commit
  <2>4. QED
    BY <1>1, <2>1, <2>2, <2>3 DEF Toggle!TypeOK
<1>5. ASSUME Toggle!TypeOK, UNCHANGED Toggle!vars PROVE Toggle!TypeOK'
  BY <1>5 DEF Toggle!TypeOK, Toggle!vars
<1>6. Toggle!TypeOK /\ [Toggle!Next]_Toggle!vars => Toggle!TypeOK'
  BY <1>3, <1>4, <1>5 DEF Toggle!Next
<1>7. QED
  BY <1>2, <1>6, PTL DEF Toggle!Spec

-----------------------------------------------------------------------------
(* The catalogs.                                                           *)

\* What a subject was given has been a row of the catalog.
IconsWereThere ==
  /\ audit # << >>
  /\ audit[Len(audit)] # None => icons[audit[Len(audit)]] # "unborn"
  /\ \A q \in Requests :
       /\ catalogsRequest[q].kind = "recolor" /\ catalogsRequest[q].icon # None =>
            icons[catalogsRequest[q].icon] # "unborn"
       /\ catalogsRequest[q].kind \in {"drop_icon", "dropping"} => catalogsRequest[q].icon # None

\* A deletion that has taken its icon off the subject holds the row alone; one that has not
\* found it there did not miss it: the subject got the icon later, if it has it.
SweepsHold ==
  \A q \in Requests : catalogsRequest[q].kind = "dropping" =>
    /\ catalogsRequest[q].read # None =>
         /\ subject = catalogsRequest[q].icon
         /\ \A p \in Requests :
              catalogsRequest[p].kind = "dropping" /\ catalogsRequest[p].read # None => p = q
    /\ subject = catalogsRequest[q].icon /\ chosen = "live" => catalogsRequest[q].read # None

\* A category is deleted once, and a request that files a type knows the deletions before it.
DeletionsAreFinal ==
  /\ \A c \in Categories : categories[c] # "deleted" =>
       \A i \in 1 .. Len(deletions) : deletions[i] # c
  /\ \A q \in Requests : catalogsRequest[q].kind \in {"file", "refile"} =>
       /\ catalogsRequest[q].checked <= Len(deletions)
       /\ \A i \in 1 .. catalogsRequest[q].checked : deletions[i] # catalogsRequest[q].to
  /\ \A t \in Types : types[t].checked <= Len(deletions)

CatalogsInv ==
  /\ CatalogsPart!TypeOK
  /\ IconsWereThere /\ SweepsHold /\ DeletionsAreFinal
  /\ CatalogsPart!PointersAreAccountedFor

LEMMA IdleRequest ==
  ASSUME PartsAssumption
  PROVE  CatalogsPart!Idle \in CatalogsPart!Request /\ CatalogsPart!Idle.kind = "none"
BY DEF PartsAssumption, CatalogsPart!ConstantsAssumption, CatalogsPart!Idle, CatalogsPart!Request

\* A request that has read changes nothing of the catalogs.
LEMMA CatalogsOpen ==
  ASSUME CatalogsInv, NEW q \in Requests, NEW r \in CatalogsPart!Request,
         CatalogsPart!Open(q, r),
         r.kind = "recolor" /\ r.icon # None => icons[r.icon] # "unborn",
         r.kind # "dropping", r.kind = "drop_icon" => r.icon # None,
         r.kind \in {"file", "refile"} =>
           /\ r.checked <= Len(deletions)
           /\ \A i \in 1 .. r.checked : deletions[i] # r.to
  PROVE  CatalogsInv'
<1>1. /\ catalogsRequest' = [catalogsRequest EXCEPT ![q] = r]
      /\ UNCHANGED << icons, subject, audit, stale, chosen, categories, deletions, types >>
  BY DEF CatalogsPart!Open, CatalogsPart!looks, CatalogsPart!kinds
<1>2. /\ catalogsRequest' \in [Requests -> CatalogsPart!Request]
      /\ catalogsRequest'[q] = r
      /\ \A p \in Requests : p # q => catalogsRequest'[p] = catalogsRequest[p]
  BY <1>1 DEF CatalogsInv, CatalogsPart!TypeOK
<1>3. CatalogsPart!TypeOK'
  BY <1>1, <1>2 DEF CatalogsInv, CatalogsPart!TypeOK
<1>4. IconsWereThere'
  BY <1>1, <1>2 DEF CatalogsInv, IconsWereThere
<1>8. SweepsHold'
  BY <1>1, <1>2 DEF CatalogsInv, SweepsHold
<1>5. DeletionsAreFinal'
  BY <1>1, <1>2 DEF CatalogsInv, DeletionsAreFinal
<1>6. CatalogsPart!PointersAreAccountedFor'
  BY <1>1 DEF CatalogsInv, CatalogsPart!PointersAreAccountedFor, CatalogsPart!AuditTellsTheIcon,
     CatalogsPart!IconsLetGo, CatalogsPart!TypesAreFiledInLiveCategories, CatalogsPart!Live
<1>7. QED
  BY <1>3, <1>4, <1>5, <1>6, <1>8 DEF CatalogsInv

LEMMA CatalogsNext ==
  ASSUME PartsAssumption, CatalogsInv, [CatalogsPart!Next]_CatalogsPart!vars
  PROVE  CatalogsInv'
<1>0. /\ icons \in [Icons -> {"unborn", "live", "deleted"}]
      /\ subject \in Icons \cup {None} /\ audit \in Seq(Icons \cup {None})
      /\ stale \in BOOLEAN /\ chosen \in {"live", "going", "gone"}
      /\ categories \in [Categories -> {"unborn", "live", "deleted"}]
      /\ deletions \in Seq(Categories) /\ Len(deletions) \in Nat
      /\ types \in [Types -> CatalogsPart!Type]
      /\ catalogsRequest \in [Requests -> CatalogsPart!Request]
      /\ \A q \in Requests : catalogsRequest[q] \in CatalogsPart!Request
      /\ None \notin Icons
  BY DEF CatalogsInv, CatalogsPart!TypeOK, CatalogsPart!Catalog, PartsAssumption,
     CatalogsPart!ConstantsAssumption
<1>00. /\ CatalogsPart!AuditTellsTheIcon /\ CatalogsPart!IconsLetGo
       /\ CatalogsPart!TypesAreFiledInLiveCategories
       /\ IconsWereThere /\ SweepsHold /\ DeletionsAreFinal
  BY DEF CatalogsInv, CatalogsPart!PointersAreAccountedFor
<1>000. ASSUME NEW q \in Requests, CatalogsPart!Close(q)
        PROVE  /\ catalogsRequest' \in [Requests -> CatalogsPart!Request]
               /\ catalogsRequest'[q].kind = "none"
               /\ \A p \in Requests : p # q => catalogsRequest'[p] = catalogsRequest[p]
  BY <1>0, <1>000, IdleRequest DEF CatalogsPart!Close
<1>0000. ASSUME UNCHANGED << subject, chosen >>,
                \A p \in Requests : \/ catalogsRequest'[p] = catalogsRequest[p]
                                   \/ catalogsRequest'[p].kind # "dropping"
         PROVE  SweepsHold'
  BY <1>00, <1>0000 DEF SweepsHold
<1> USE DEF CatalogsPart!Live, CatalogsPart!Is
<1>1. ASSUME NEW q \in Requests, CatalogsPart!ReadSubject(q) PROVE CatalogsInv'
  <2>1. PICK icon \in {i \in Icons : icons[i] # "unborn"} \cup {None} :
          CatalogsPart!Open(q, [CatalogsPart!Idle EXCEPT !.kind = "recolor", !.icon = icon,
                                                        !.read = subject])
    BY <1>1, Zenon DEF CatalogsPart!ReadSubject
  <2> DEFINE r == [CatalogsPart!Idle EXCEPT !.kind = "recolor", !.icon = icon, !.read = subject]
  <2>2. r \in CatalogsPart!Request /\ r.kind = "recolor" /\ r.icon = icon
    BY <1>0, IdleRequest DEF CatalogsPart!Request
  <2> HIDE DEF r
  <2>3. QED
    BY <2>1, <2>2, CatalogsOpen DEF r
<1>2. ASSUME NEW q \in Requests, CatalogsPart!ReadIcon(q) PROVE CatalogsInv'
  <2>1. PICK icon \in Icons :
          CatalogsPart!Open(q, [CatalogsPart!Idle EXCEPT !.kind = "drop_icon", !.icon = icon])
    BY <1>2, Zenon DEF CatalogsPart!ReadIcon
  <2> DEFINE r == [CatalogsPart!Idle EXCEPT !.kind = "drop_icon", !.icon = icon]
  <2>2. r \in CatalogsPart!Request /\ r.kind = "drop_icon" /\ r.icon = icon
    BY <1>0, IdleRequest DEF CatalogsPart!Request
  <2>3. CatalogsPart!Open(q, r) /\ icon # None
    BY <1>0, <2>1
  <2> HIDE DEF r
  <2>4. QED
    BY <2>2, <2>3, CatalogsOpen
<1>3. ASSUME NEW q \in Requests, CatalogsPart!CheckCategory(q) PROVE CatalogsInv'
  <2>1. PICK t \in Types, c \in Categories, kind \in {"file", "refile"} :
          /\ categories[c] = "live"
          /\ CatalogsPart!Open(q, [CatalogsPart!Idle EXCEPT
               !.kind = kind, !.type = t, !.to = c, !.checked = Len(deletions)])
    BY <1>3, Zenon DEF CatalogsPart!CheckCategory, CatalogsPart!MayFile
  <2> DEFINE r == [CatalogsPart!Idle EXCEPT !.kind = kind, !.type = t, !.to = c,
                                            !.checked = Len(deletions)]
  <2>2. r \in CatalogsPart!Request /\ r.kind = kind /\ r.to = c /\ r.checked = Len(deletions)
    BY <1>0, IdleRequest DEF CatalogsPart!Request
  <2>3. CatalogsPart!Open(q, r) /\ \A i \in 1 .. Len(deletions) : deletions[i] # c
    BY <1>00, <2>1 DEF DeletionsAreFinal
  <2> HIDE DEF r
  <2>4. QED
    BY <1>0, <2>2, <2>3, CatalogsOpen
<1>4. ASSUME NEW q \in Requests, CatalogsPart!ReadCategory(q) PROVE CatalogsInv'
  <2>1. PICK c \in Categories :
          CatalogsPart!Open(q, [CatalogsPart!Idle EXCEPT !.kind = "drop_category", !.to = c])
    BY <1>4, Zenon DEF CatalogsPart!ReadCategory
  <2> DEFINE r == [CatalogsPart!Idle EXCEPT !.kind = "drop_category", !.to = c]
  <2>2. r \in CatalogsPart!Request /\ r.kind = "drop_category"
    BY <1>0, IdleRequest DEF CatalogsPart!Request
  <2>3. CatalogsPart!Open(q, r)
    BY <2>1
  <2> HIDE DEF r
  <2>4. QED
    BY <2>2, <2>3, CatalogsOpen
<1>5. ASSUME NEW i \in Icons, CatalogsPart!AddIcon(i) PROVE CatalogsInv'
  <2>1. /\ icons[i] = "unborn" /\ icons' = [icons EXCEPT ![i] = "live"]
        /\ UNCHANGED << subject, audit, stale, chosen, categories, deletions, types,
                        catalogsRequest >>
    BY <1>5 DEF CatalogsPart!AddIcon, CatalogsPart!kinds
  <2>2. CatalogsPart!TypeOK'
    BY <1>0, <2>1 DEF CatalogsPart!TypeOK, CatalogsPart!Catalog
  <2>3. IconsWereThere'
    BY <1>0, <1>00, <2>1 DEF IconsWereThere, CatalogsPart!Request
  <2>4. DeletionsAreFinal' /\ CatalogsPart!TypesAreFiledInLiveCategories'
    BY <1>00, <2>1 DEF DeletionsAreFinal, CatalogsPart!TypesAreFiledInLiveCategories
  <2>5. audit[Len(audit)] \in Icons \cup {None}
    BY <1>0, <1>00 DEF IconsWereThere
  <2>6. CatalogsPart!AuditTellsTheIcon' /\ CatalogsPart!IconsLetGo'
    BY <1>0, <1>00, <2>1, <2>5
       DEF IconsWereThere, CatalogsPart!AuditTellsTheIcon, CatalogsPart!IconsLetGo
  <2>20. SweepsHold'
    BY <1>0000, <2>1
  <2>7. QED
    BY <2>20, <2>2, <2>3, <2>4, <2>6 DEF CatalogsInv, CatalogsPart!PointersAreAccountedFor
<1>6. ASSUME NEW c \in Categories, CatalogsPart!AddCategory(c) PROVE CatalogsInv'
  <2>1. /\ categories[c] = "unborn" /\ categories' = [categories EXCEPT ![c] = "live"]
        /\ UNCHANGED << icons, subject, audit, stale, chosen, deletions, types,
                        catalogsRequest >>
    BY <1>6 DEF CatalogsPart!AddCategory, CatalogsPart!looks
  <2>2. CatalogsPart!TypeOK'
    BY <1>0, <2>1 DEF CatalogsPart!TypeOK, CatalogsPart!Catalog
  <2>3. IconsWereThere' /\ DeletionsAreFinal'
    BY <1>0, <1>00, <2>1 DEF IconsWereThere, DeletionsAreFinal
  <2>4. CatalogsPart!PointersAreAccountedFor'
    BY <1>00, <2>1 DEF CatalogsPart!PointersAreAccountedFor, CatalogsPart!AuditTellsTheIcon,
       CatalogsPart!IconsLetGo, CatalogsPart!TypesAreFiledInLiveCategories
  <2>20. SweepsHold'
    BY <1>0000, <2>1
  <2>5. QED
    BY <2>20, <2>2, <2>3, <2>4 DEF CatalogsInv
<1>7. ASSUME NEW q \in Requests, CatalogsPart!WriteSubject(q) PROVE CatalogsInv'
  <2> DEFINE r == catalogsRequest[q]
  <2>1. /\ r.kind = "recolor"
        /\ subject' = IF r.icon # r.read THEN r.icon ELSE subject
        /\ chosen' = IF r.icon # r.read THEN CatalogsPart!Standing(r.icon) ELSE chosen
        /\ r.icon # r.read => ~CatalogsPart!Held
        /\ audit' = Append(audit, r.icon)
        /\ stale' = (r.read # subject)
        /\ CatalogsPart!Close(q)
        /\ UNCHANGED << icons, categories, deletions, types >>
    BY <1>7 DEF CatalogsPart!WriteSubject, CatalogsPart!kinds
  <2>2. r.icon \in Icons \cup {None} /\ r.read \in Icons \cup {None}
    BY <1>0 DEF CatalogsPart!Request
  <2>3. r.icon # None => icons[r.icon] # "unborn"
    BY <1>00, <2>1 DEF IconsWereThere
  <2> HIDE DEF r
  <2>4. /\ catalogsRequest' \in [Requests -> CatalogsPart!Request]
        /\ catalogsRequest'[q].kind = "none"
        /\ \A p \in Requests : p # q => catalogsRequest'[p] = catalogsRequest[p]
    BY <2>1, <1>000
  <2>15. chosen' \in {"live", "going", "gone"}
    BY <1>0, <2>1 DEF CatalogsPart!Standing
  <2>5. /\ audit' \in Seq(Icons \cup {None}) /\ audit' # << >>
        /\ audit'[Len(audit')] = r.icon
    BY <1>0, <2>1, <2>2
  <2>6. CatalogsPart!TypeOK'
    BY <1>0, <2>1, <2>2, <2>4, <2>5, <2>15 DEF CatalogsPart!TypeOK, CatalogsPart!Catalog
  <2>7. IconsWereThere'
    BY <1>00, <2>1, <2>3, <2>4, <2>5 DEF IconsWereThere
  <2>8. DeletionsAreFinal' /\ CatalogsPart!TypesAreFiledInLiveCategories'
    BY <1>00, <2>1, <2>4 DEF DeletionsAreFinal, CatalogsPart!TypesAreFiledInLiveCategories
  <2>9. CatalogsPart!AuditTellsTheIcon'
    BY <2>1, <2>5 DEF CatalogsPart!AuditTellsTheIcon
  <2>10. CatalogsPart!IconsLetGo'
    BY <1>00, <2>1 DEF CatalogsPart!IconsLetGo, CatalogsPart!Standing
  <2>12. ASSUME r.icon = r.read PROVE SweepsHold'
    <3>1. UNCHANGED << subject, chosen >>
      BY <2>1, <2>12
    <3>2. \A p \in Requests : \/ catalogsRequest'[p] = catalogsRequest[p]
                             \/ catalogsRequest'[p].kind # "dropping"
      BY <2>4
    <3>3. QED
      BY <1>0000, <3>1, <3>2
  <2>13. ASSUME r.icon # r.read PROVE SweepsHold'
    <3>1. \A p \in Requests : catalogsRequest[p].kind = "dropping" => catalogsRequest[p].read = None
      BY <2>1, <2>13 DEF CatalogsPart!Held
    <3>2. ASSUME NEW p \in Requests, catalogsRequest[p].kind = "dropping",
                 catalogsRequest[p].icon = r.icon
          PROVE  chosen' # "live"
      BY <2>1, <2>13, <3>2 DEF CatalogsPart!Standing
    <3>3. QED
      <4>1. subject' = r.icon
        BY <2>1, <2>13
      <4>2. SUFFICES ASSUME NEW p \in Requests, catalogsRequest'[p].kind = "dropping"
                     PROVE  /\ catalogsRequest'[p].read = None
                            /\ ~(subject' = catalogsRequest'[p].icon /\ chosen' = "live")
        BY DEF SweepsHold
      <4>3. catalogsRequest'[p] = catalogsRequest[p]
        BY <2>4, <4>2
      <4>4. QED
        BY <3>1, <3>2, <4>1, <4>2, <4>3
  <2>20. SweepsHold'
    BY <2>12, <2>13
  <2>11. QED
    BY <2>20, <2>6, <2>7, <2>8, <2>9, <2>10 DEF CatalogsInv, CatalogsPart!PointersAreAccountedFor
<1>14. ASSUME NEW q \in Requests, CatalogsPart!SweepSubjects(q) PROVE CatalogsInv'
  <2> DEFINE icon == catalogsRequest[q].icon
             taken == IF icon = subject THEN icon ELSE None
             r == [catalogsRequest[q] EXCEPT !.kind = "dropping", !.read = taken]
  <2>1. /\ catalogsRequest[q].kind = "drop_icon"
        /\ icon = subject => ~CatalogsPart!Held
        /\ catalogsRequest' = [catalogsRequest EXCEPT ![q] = r]
        /\ UNCHANGED << icons, subject, audit, stale, chosen, categories, deletions, types >>
    BY <1>0, <1>14 DEF CatalogsPart!SweepSubjects, CatalogsPart!looks, CatalogsPart!kinds
  <2>2. icon \in Icons /\ icon # None
    BY <1>0, <1>00, <2>1 DEF IconsWereThere, CatalogsPart!Request
  <2>3. /\ r \in CatalogsPart!Request /\ r.kind = "dropping" /\ r.icon = icon
        /\ r.read = taken
    BY <1>0, <2>2 DEF CatalogsPart!Request
  <2>4. /\ catalogsRequest' \in [Requests -> CatalogsPart!Request]
        /\ catalogsRequest'[q] = r
        /\ \A p \in Requests : p # q => catalogsRequest'[p] = catalogsRequest[p]
    BY <1>0, <2>1, <2>3
  <2> HIDE DEF r
  <2>5. CatalogsPart!TypeOK'
    BY <1>0, <2>1, <2>4 DEF CatalogsPart!TypeOK, CatalogsPart!Catalog
  <2>6. IconsWereThere'
    BY <1>00, <2>1, <2>2, <2>3, <2>4 DEF IconsWereThere
  <2>7. SweepsHold'
    <3>1. CASE icon = subject
      <4>1. \A p \in Requests :
             catalogsRequest[p].kind = "dropping" => catalogsRequest[p].read = None
        BY <2>1, <3>1 DEF CatalogsPart!Held
      <4>2. QED
        BY <1>00, <2>1, <2>2, <2>3, <2>4, <3>1, <4>1 DEF SweepsHold
    <3>2. CASE icon # subject
      BY <1>00, <2>1, <2>2, <2>3, <2>4, <3>2 DEF SweepsHold
    <3>3. QED
      BY <3>1, <3>2
  <2>8. DeletionsAreFinal'
    BY <1>00, <2>1, <2>3, <2>4 DEF DeletionsAreFinal
  <2>9. CatalogsPart!PointersAreAccountedFor'
    BY <1>00, <2>1 DEF CatalogsPart!PointersAreAccountedFor, CatalogsPart!AuditTellsTheIcon,
       CatalogsPart!IconsLetGo, CatalogsPart!TypesAreFiledInLiveCategories
  <2>10. QED
    BY <2>5, <2>6, <2>7, <2>8, <2>9 DEF CatalogsInv
<1>8. ASSUME NEW q \in Requests, CatalogsPart!DropIcon(q) PROVE CatalogsInv'
  <2> DEFINE icon == catalogsRequest[q].icon
             taken == catalogsRequest[q].read # None
  <2>1. /\ catalogsRequest[q].kind = "dropping"
        /\ icons' = [icons EXCEPT ![icon] = "deleted"]
        /\ subject' = IF taken THEN None ELSE subject
        /\ CatalogsPart!Close(q)
        /\ UNCHANGED << audit, stale, chosen, categories, deletions, types >>
    BY <1>8 DEF CatalogsPart!DropIcon, CatalogsPart!kinds
  <2>2. /\ icon \in Icons /\ icon # None
        /\ taken => subject = icon
        /\ subject = icon /\ chosen = "live" => taken
    BY <1>0, <1>00, <2>1 DEF IconsWereThere, SweepsHold, CatalogsPart!Request
  <2>20. SweepsHold'
    <3>1. /\ catalogsRequest'[q].kind # "dropping"
          /\ \A p \in Requests : p # q => catalogsRequest'[p] = catalogsRequest[p]
      BY <2>1, <1>000
    <3>2. CASE ~taken
      BY <1>0000, <2>1, <3>1, <3>2
    <3>3. CASE taken
      <4>1. \A p \in Requests : p # q /\ catalogsRequest[p].kind = "dropping" =>
             catalogsRequest[p].read = None
        BY <1>00, <2>1, <3>3 DEF SweepsHold
      <4>2. \A p \in Requests : catalogsRequest[p].kind = "dropping" =>
             catalogsRequest[p].icon # None
        BY <1>00 DEF IconsWereThere
      <4>3. QED
        BY <2>1, <3>1, <3>3, <4>1, <4>2 DEF SweepsHold
    <3>4. QED
      BY <3>2, <3>3
  <2> HIDE DEF icon, taken
  <2>3. /\ catalogsRequest' \in [Requests -> CatalogsPart!Request]
        /\ catalogsRequest'[q].kind = "none"
        /\ \A p \in Requests : p # q => catalogsRequest'[p] = catalogsRequest[p]
    BY <2>1, <1>000
  <2>4. /\ icons' \in [Icons -> {"unborn", "live", "deleted"}]
        /\ icons'[icon] = "deleted"
        /\ \A i \in Icons : i # icon => icons'[i] = icons[i]
    BY <1>0, <2>1, <2>2
  <2>5. CatalogsPart!TypeOK'
    BY <1>0, <2>1, <2>3, <2>4 DEF CatalogsPart!TypeOK, CatalogsPart!Catalog
  <2>6. audit[Len(audit)] \in Icons \cup {None}
    BY <1>0, <1>00 DEF IconsWereThere
  <2>7. \A i \in Icons : icons[i] # "unborn" => icons'[i] # "unborn"
    BY <2>4
  <2>8. IconsWereThere'
    <3>1. \A p \in Requests : catalogsRequest[p].icon \in Icons \cup {None}
      BY <1>0 DEF CatalogsPart!Request
    <3>2. QED
      BY <1>00, <2>1, <2>3, <2>6, <2>7, <3>1 DEF IconsWereThere
  <2>9. DeletionsAreFinal' /\ CatalogsPart!TypesAreFiledInLiveCategories'
    BY <1>00, <2>1, <2>3 DEF DeletionsAreFinal, CatalogsPart!TypesAreFiledInLiveCategories
  <2>10. CatalogsPart!AuditTellsTheIcon'
    BY <1>0, <1>00, <2>1, <2>2, <2>4, <2>6 DEF CatalogsPart!AuditTellsTheIcon
  <2>11. CatalogsPart!IconsLetGo'
    BY <1>0, <1>00, <2>1, <2>2, <2>4 DEF CatalogsPart!IconsLetGo
  <2>12. QED
    BY <2>5, <2>8, <2>9, <2>10, <2>11, <2>20 DEF CatalogsInv, CatalogsPart!PointersAreAccountedFor
<1>9. ASSUME NEW q \in Requests, CatalogsPart!File(q) PROVE CatalogsInv'
  <2> DEFINE r == catalogsRequest[q]
             filed == [live |-> r.kind = "file" \/ types[r.type].live, category |-> r.to,
                       checked |-> r.checked]
  <2>1. /\ r.kind \in {"file", "refile"} /\ types' = [types EXCEPT ![r.type] = filed]
        /\ CatalogsPart!Close(q)
        /\ UNCHANGED << icons, subject, audit, stale, chosen, categories, deletions >>
    BY <1>9 DEF CatalogsPart!File, CatalogsPart!looks
  <2>2. /\ r.type \in Types /\ types[r.type] \in CatalogsPart!Type
        /\ r.to \in Categories /\ r.checked \in Nat
    BY <1>0 DEF CatalogsPart!Request
  <2>3. /\ filed \in CatalogsPart!Type /\ filed.category = r.to /\ filed.checked = r.checked
    BY <2>2 DEF CatalogsPart!Type
  <2>4. r.checked <= Len(deletions) /\ \A i \in 1 .. r.checked : deletions[i] # r.to
    BY <1>00, <2>1 DEF DeletionsAreFinal
  <2>5. /\ catalogsRequest' \in [Requests -> CatalogsPart!Request]
        /\ catalogsRequest'[q].kind = "none"
        /\ \A p \in Requests : p # q => catalogsRequest'[p] = catalogsRequest[p]
    BY <2>1, <1>000
  <2> HIDE DEF filed, r
  <2>6. /\ types' \in [Types -> CatalogsPart!Type] /\ types'[r.type] = filed
        /\ \A t \in Types : t # r.type => types'[t] = types[t]
    BY <1>0, <2>1, <2>2, <2>3
  <2>7. CatalogsPart!TypeOK'
    BY <1>0, <2>1, <2>5, <2>6 DEF CatalogsPart!TypeOK, CatalogsPart!Catalog
  <2>8. IconsWereThere'
    BY <1>00, <2>1, <2>5 DEF IconsWereThere
  <2>9. DeletionsAreFinal'
    BY <1>00, <2>1, <2>3, <2>4, <2>5, <2>6 DEF DeletionsAreFinal
  <2>10. CatalogsPart!TypesAreFiledInLiveCategories'
    BY <1>00, <2>1, <2>3, <2>4, <2>6 DEF CatalogsPart!TypesAreFiledInLiveCategories
  <2>11. CatalogsPart!AuditTellsTheIcon' /\ CatalogsPart!IconsLetGo'
    BY <1>00, <2>1 DEF CatalogsPart!AuditTellsTheIcon, CatalogsPart!IconsLetGo
  <2>20. SweepsHold'
    BY <1>0000, <2>1, <2>5
  <2>12. QED
    BY <2>20, <2>7, <2>8, <2>9, <2>10, <2>11 DEF CatalogsInv, CatalogsPart!PointersAreAccountedFor
<1>10. ASSUME NEW t \in Types, CatalogsPart!DropType(t) PROVE CatalogsInv'
  <2>1. /\ types' = [types EXCEPT ![t] = [types[t] EXCEPT !.live = FALSE]]
        /\ UNCHANGED << icons, subject, audit, stale, chosen, categories, deletions,
                        catalogsRequest >>
    BY <1>0, <1>10 DEF CatalogsPart!DropType, CatalogsPart!looks
  <2>2. /\ [types[t] EXCEPT !.live = FALSE] \in CatalogsPart!Type
        /\ [types[t] EXCEPT !.live = FALSE].live = FALSE
        /\ [types[t] EXCEPT !.live = FALSE].checked = types[t].checked
    BY <1>0 DEF CatalogsPart!Type
  <2>3. /\ types' \in [Types -> CatalogsPart!Type] /\ ~types'[t].live
        /\ types'[t].checked = types[t].checked
        /\ \A u \in Types : u # t => types'[u] = types[u]
    BY <1>0, <2>1, <2>2
  <2>4. CatalogsPart!TypeOK'
    BY <1>0, <2>1, <2>3 DEF CatalogsPart!TypeOK, CatalogsPart!Catalog
  <2>5. IconsWereThere' /\ DeletionsAreFinal'
    BY <1>00, <2>1, <2>3 DEF IconsWereThere, DeletionsAreFinal
  <2>6. CatalogsPart!PointersAreAccountedFor'
    BY <1>00, <2>1, <2>3 DEF CatalogsPart!PointersAreAccountedFor,
       CatalogsPart!AuditTellsTheIcon, CatalogsPart!IconsLetGo,
       CatalogsPart!TypesAreFiledInLiveCategories
  <2>20. SweepsHold'
    BY <1>0000, <2>1
  <2>7. QED
    BY <2>20, <2>4, <2>5, <2>6 DEF CatalogsInv
<1>11. ASSUME NEW q \in Requests, CatalogsPart!DropCategory(q) PROVE CatalogsInv'
  <2> DEFINE c == catalogsRequest[q].to
  <2>1. /\ categories' = [categories EXCEPT ![c] = "deleted"]
        /\ deletions' = IF categories[c] = "live" THEN Append(deletions, c) ELSE deletions
        /\ CatalogsPart!Close(q)
        /\ UNCHANGED << icons, subject, audit, stale, chosen, types >>
    BY <1>11 DEF CatalogsPart!DropCategory, CatalogsPart!looks
  <2>2. c \in Categories
    BY <1>0 DEF CatalogsPart!Request
  <2> HIDE DEF c
  <2>3. /\ catalogsRequest' \in [Requests -> CatalogsPart!Request]
        /\ catalogsRequest'[q].kind = "none"
        /\ \A p \in Requests : p # q => catalogsRequest'[p] = catalogsRequest[p]
    BY <2>1, <1>000
  <2>4. /\ deletions' \in Seq(Categories) /\ Len(deletions') \in Nat
        /\ Len(deletions') >= Len(deletions)
        /\ \A i \in 1 .. Len(deletions) : deletions'[i] = deletions[i]
        /\ \A i \in 1 .. Len(deletions') : i \in 1 .. Len(deletions) \/ deletions'[i] = c
    BY <1>0, <2>1, <2>2
  <2>5. /\ categories' \in [Categories -> {"unborn", "live", "deleted"}]
        /\ categories'[c] = "deleted"
        /\ \A d \in Categories : d # c => categories'[d] = categories[d]
    BY <1>0, <2>1, <2>2
  <2>6. CatalogsPart!TypeOK'
    BY <1>0, <2>1, <2>3, <2>4, <2>5 DEF CatalogsPart!TypeOK, CatalogsPart!Catalog
  <2>7. IconsWereThere'
    BY <1>00, <2>1, <2>3 DEF IconsWereThere
  <2>8. (\A t \in Types : types[t].checked \in Nat)
        /\ (\A p \in Requests : catalogsRequest[p].checked \in Nat)
    BY <1>0 DEF CatalogsPart!Type, CatalogsPart!Request
  <2>9. DeletionsAreFinal'
    <3>1. ASSUME NEW d \in Categories, categories'[d] # "deleted", NEW i \in 1 .. Len(deletions')
          PROVE  deletions'[i] # d
      BY <1>00, <2>4, <2>5, <3>1 DEF DeletionsAreFinal
    <3>2. ASSUME NEW p \in Requests, catalogsRequest'[p].kind \in {"file", "refile"}
          PROVE  /\ catalogsRequest'[p].checked <= Len(deletions')
                 /\ \A i \in 1 .. catalogsRequest'[p].checked :
                      deletions'[i] # catalogsRequest'[p].to
      <4>1. catalogsRequest'[p] = catalogsRequest[p]
        BY <2>3, <3>2
      <4>2. /\ catalogsRequest[p].checked <= Len(deletions)
            /\ \A i \in 1 .. catalogsRequest[p].checked :
                 deletions[i] # catalogsRequest[p].to
        BY <1>00, <3>2, <4>1 DEF DeletionsAreFinal
      <4>3. QED
        BY <1>0, <2>4, <2>8, <4>1, <4>2
    <3>3. ASSUME NEW t \in Types PROVE types'[t].checked <= Len(deletions')
      BY <1>0, <1>00, <2>1, <2>4, <2>8 DEF DeletionsAreFinal
    <3>4. QED
      BY <3>1, <3>2, <3>3 DEF DeletionsAreFinal
  <2>10. CatalogsPart!TypesAreFiledInLiveCategories'
    <3>1. ASSUME NEW t \in Types, types'[t].live, NEW i \in 1 .. types'[t].checked
          PROVE  deletions'[i] # types'[t].category
      <4>1. types[t].live /\ i \in 1 .. types[t].checked /\ i \in 1 .. Len(deletions)
        BY <1>0, <1>00, <2>1, <2>8, <3>1 DEF DeletionsAreFinal
      <4>2. QED
        BY <1>00, <2>1, <2>4, <4>1 DEF CatalogsPart!TypesAreFiledInLiveCategories
    <3>2. QED
      BY <3>1 DEF CatalogsPart!TypesAreFiledInLiveCategories
  <2>11. CatalogsPart!AuditTellsTheIcon' /\ CatalogsPart!IconsLetGo'
    BY <1>00, <2>1 DEF CatalogsPart!AuditTellsTheIcon, CatalogsPart!IconsLetGo
  <2>20. SweepsHold'
    BY <1>0000, <2>1, <2>3
  <2>12. QED
    BY <2>20, <2>6, <2>7, <2>9, <2>10, <2>11 DEF CatalogsInv, CatalogsPart!PointersAreAccountedFor
<1>12. CASE UNCHANGED CatalogsPart!vars
  <2>1. UNCHANGED << icons, subject, audit, stale, chosen, categories, deletions, types,
                     catalogsRequest >>
    BY <1>12 DEF CatalogsPart!vars, CatalogsPart!looks, CatalogsPart!kinds
  <2>2. QED
    BY <2>1 DEF CatalogsInv, CatalogsPart!TypeOK, IconsWereThere, SweepsHold, DeletionsAreFinal,
       CatalogsPart!PointersAreAccountedFor, CatalogsPart!AuditTellsTheIcon,
       CatalogsPart!IconsLetGo, CatalogsPart!TypesAreFiledInLiveCategories
<1>13. QED
  BY <1>1, <1>2, <1>3, <1>4, <1>5, <1>6, <1>7, <1>8, <1>9, <1>10, <1>11, <1>12, <1>14
     DEF CatalogsPart!Next

LEMMA CatalogsInvariant == CatalogsPart!Spec => []CatalogsInv
<1>1. CatalogsPart!Init => CatalogsInv
  <2> SUFFICES ASSUME CatalogsPart!Init PROVE CatalogsInv
    OBVIOUS
  <2>1. /\ CatalogsPart!Idle.to \in Categories /\ CatalogsPart!Idle.type \in Types
        /\ CatalogsPart!Idle \in CatalogsPart!Request /\ CatalogsPart!Idle.kind = "none"
    BY PartsAssumption, IdleRequest DEF CatalogsPart!Request
  <2>2. /\ audit = << None >> /\ audit \in Seq(Icons \cup {None}) /\ audit # << >>
        /\ Len(audit) = 1 /\ audit[1] = None /\ subject = None
        /\ deletions = << >> /\ deletions \in Seq(Categories) /\ Len(deletions) = 0
        /\ catalogsRequest \in [Requests -> CatalogsPart!Request]
        /\ \A q \in Requests : catalogsRequest[q].kind = "none"
    BY <2>1 DEF CatalogsPart!Init
  <2>3. /\ types \in [Types -> CatalogsPart!Type]
        /\ \A t \in Types : ~types[t].live /\ types[t].checked = 0
    <3>1. [live |-> FALSE, category |-> CatalogsPart!Idle.to, checked |-> 0]
            \in CatalogsPart!Type
      BY <2>1 DEF CatalogsPart!Type
    <3>2. QED
      BY <3>1 DEF CatalogsPart!Init
  <2>4. CatalogsPart!TypeOK
    BY <2>2, <2>3 DEF CatalogsPart!Init, CatalogsPart!TypeOK, CatalogsPart!Catalog
  <2>5. IconsWereThere /\ SweepsHold /\ DeletionsAreFinal
    BY <2>2, <2>3 DEF IconsWereThere, SweepsHold, DeletionsAreFinal
  <2>6. CatalogsPart!PointersAreAccountedFor
    BY <2>2, <2>3 DEF CatalogsPart!PointersAreAccountedFor, CatalogsPart!AuditTellsTheIcon,
       CatalogsPart!IconsLetGo, CatalogsPart!TypesAreFiledInLiveCategories
  <2>7. QED
    BY <2>4, <2>5, <2>6 DEF CatalogsInv
<1>2. CatalogsInv /\ [CatalogsPart!Next]_CatalogsPart!vars => CatalogsInv'
  BY PartsAssumption, CatalogsNext
<1>3. QED
  BY <1>1, <1>2, PTL DEF CatalogsPart!Spec

-----------------------------------------------------------------------------
(* The browser.                                                            *)

\* The two long-lived cookies come and go together, and outlive the access token.
CookiesTogether == jar.csrf = jar.refresh /\ jar.access <= jar.csrf

\* A consent opens a session only by taking its state, which is never put back.
TakenOnce ==
  /\ states \subseteq 1 .. consents
  /\ \A c \in 1 .. MaxConsents :
       /\ opened[c] <= 1
       /\ opened[c] > 0 => c \notin states /\ c <= consents

BrowserInv ==
  /\ Browser!TypeOK
  /\ CookiesTogether
  /\ \A t \in Tabs : tab[t].guard
  /\ TakenOnce

LEMMA IdleTabType == Browser!IdleTab \in Browser!Tab /\ Browser!IdleTab.guard
  BY DEF Browser!IdleTab, Browser!Tab, Browser!Kinds, Browser!Safe, Browser!Exempt, Browser!Writes

LEMMA BrowserInit ==
  ASSUME Browser!ConstantsAssumption, Browser!Init
  PROVE  BrowserInv
<1>1. Browser!TypeOK
  BY IdleTabType
     DEF Browser!Init, Browser!TypeOK, Browser!EmptyJar, Browser!Jar,
         Browser!ConstantsAssumption
<1>2. CookiesTogether /\ TakenOnce
  BY DEF Browser!Init, CookiesTogether, TakenOnce, Browser!EmptyJar, Browser!ConstantsAssumption
<1>3. \A t \in Tabs : tab[t].guard
  BY IdleTabType DEF Browser!Init
<1> QED
  BY <1>1, <1>2, <1>3 DEF BrowserInv

\* A browser with a session cookie passes the guard.
LEMMA EverythingPasses ==
  ASSUME Browser!ConstantsAssumption, BrowserInv, NEW kind \in Browser!Kinds
  PROVE  Browser!Passes(kind) = TRUE
<1>1. jar.access \in Nat /\ jar.refresh \in Nat /\ jar.csrf \in Nat
  BY DEF BrowserInv, Browser!TypeOK, Browser!Jar, Browser!ConstantsAssumption
<1> QED
  BY <1>1 DEF Browser!Passes, BrowserInv, CookiesTogether

LEMMA SentTabType ==
  ASSUME NEW kind \in Browser!Kinds, NEW guard, guard = TRUE,
         NEW access \in BOOLEAN, NEW token \in Nat
  PROVE  LET a == [Browser!IdleTab EXCEPT !.pc = "sent", !.kind = kind, !.guard = guard,
                                  !.access = access, !.token = token] IN
         a \in Browser!Tab /\ a.guard
  BY DEF Browser!IdleTab, Browser!Tab

\* A tab sends a request.
LEMMA TabSends ==
  ASSUME Browser!ConstantsAssumption, BrowserInv, NEW t \in Tabs,
         Browser!Send(t) \/ Browser!SendBack(t)
  PROVE  BrowserInv'
<1>1. UNCHANGED << jar, valid, issued, Browser!google >>
  BY Zenon DEF Browser!Send, Browser!SendBack
<1>2. \E a \in Browser!Tab : a.guard /\ tab' = [tab EXCEPT ![t] = a]
  <2>1. CASE Browser!Send(t)
    <3>1. PICK kind \in Browser!Kinds \ {"callback"} :
            tab' = [tab EXCEPT ![t] = [Browser!IdleTab EXCEPT
              !.pc = "sent", !.kind = kind, !.guard = Browser!Passes(kind),
              !.access = jar.access > 0,
              !.token = IF jar.refresh > 0 THEN jar.token ELSE 0]]
      BY <2>1, Zenon DEF Browser!Send
    <3> DEFINE a == [Browser!IdleTab EXCEPT
              !.pc = "sent", !.kind = kind, !.guard = Browser!Passes(kind),
              !.access = jar.access > 0,
              !.token = IF jar.refresh > 0 THEN jar.token ELSE 0]
    <3>2. Browser!Passes(kind) = TRUE
      BY EverythingPasses
    <3>3. jar.token \in Nat /\ (IF jar.refresh > 0 THEN jar.token ELSE 0) \in Nat
      BY DEF BrowserInv, Browser!TypeOK, Browser!Jar
    <3>4. a \in Browser!Tab /\ a.guard
      <4> DEFINE access == jar.access > 0
                 token  == IF jar.refresh > 0 THEN jar.token ELSE 0
      <4>1. access \in BOOLEAN
        OBVIOUS
      <4>2. token \in Nat
        BY <3>3
      <4> HIDE DEF access, token
      <4>3. LET b == [Browser!IdleTab EXCEPT !.pc = "sent", !.kind = kind,
                                             !.guard = Browser!Passes(kind),
                                     !.access = access, !.token = token] IN
            b \in Browser!Tab /\ b.guard
        BY <3>2, <4>1, <4>2, SentTabType, Zenon
      <4> QED
        BY <4>3 DEF access, token
    <3> QED
      BY <3>1, <3>4
  <2>2. CASE Browser!SendBack(t)
    <3>1. PICK c \in 1 .. consents :
            tab' = [tab EXCEPT ![t] = [Browser!IdleTab EXCEPT !.pc = "sent", !.kind = "callback",
                                                      !.state = c]]
      BY <2>2, Zenon DEF Browser!SendBack
    <3>2. c \in Nat
      BY DEF BrowserInv, Browser!TypeOK, Browser!ConstantsAssumption
    <3>3. [Browser!IdleTab EXCEPT !.pc = "sent", !.kind = "callback", !.state = c] \in Browser!Tab
      BY <3>2 DEF Browser!IdleTab, Browser!Tab, Browser!Kinds, Browser!Safe
    <3> QED
      BY <3>1, <3>3 DEF Browser!IdleTab
  <2> QED
    BY <2>1, <2>2
<1> QED
  BY <1>1, <1>2 DEF BrowserInv, Browser!TypeOK, Browser!google, CookiesTogether, TakenOnce

\* What an answer may be, and what it makes of the tab.
LEMMA AnswerTabType ==
  ASSUME BrowserInv, NEW t \in Tabs, NEW cookies \in {"none", "set", "clear"}, NEW token \in Nat,
         Browser!Answer(t, cookies, token)
  PROVE  tab' \in [Tabs -> Browser!Tab] /\ \A u \in Tabs : tab'[u].guard
<1> DEFINE a == [tab[t] EXCEPT !.pc = "answered", !.cookies = cookies, !.token = token]
<1>1. tab' = [tab EXCEPT ![t] = a]
  BY DEF Browser!Answer, BrowserInv, Browser!TypeOK
<1>2. a \in Browser!Tab /\ a.guard = tab[t].guard
  BY DEF BrowserInv, Browser!TypeOK, Browser!Tab
<1> HIDE DEF a
<1> QED
  BY <1>1, <1>2 DEF BrowserInv, Browser!TypeOK

LEMMA IssueTabType ==
  ASSUME BrowserInv, NEW t \in Tabs, Browser!Issue(t) \/ Browser!Refuse(t)
  PROVE  /\ tab' \in [Tabs -> Browser!Tab] /\ \A u \in Tabs : tab'[u].guard
         /\ valid' \in Nat /\ issued' \in Nat
         /\ issued' - issued \in {0, 1}
<1>1. valid \in Nat /\ issued \in Nat
  BY DEF BrowserInv, Browser!TypeOK
<1>2. CASE Browser!Issue(t)
  BY <1>1, <1>2, AnswerTabType DEF Browser!Issue
<1>3. CASE Browser!Refuse(t)
  BY <1>1, <1>3, AnswerTabType DEF Browser!Refuse
<1> QED
  BY <1>2, <1>3

\* The server answers.
LEMMA ServerAnswers ==
  ASSUME Browser!ConstantsAssumption, BrowserInv, NEW t \in Tabs, Browser!Handle(t)
  PROVE  BrowserInv'
<1>1. UNCHANGED jar
  BY DEF Browser!Handle
<1>2. CASE UNCHANGED Browser!google
           /\ \/ Browser!Enter(t) \/ Browser!Refresh(t) \/ Browser!Logout(t) \/ Browser!EndAll(t)
              \/ Browser!Cancel(t)
  <2>1. /\ tab' \in [Tabs -> Browser!Tab] /\ \A u \in Tabs : tab'[u].guard
        /\ valid' \in Nat /\ issued' \in Nat
    <3>1. CASE Browser!Enter(t)
      BY <3>1, IssueTabType DEF Browser!Enter
    <3>2. CASE Browser!Refresh(t)
      BY <3>2, IssueTabType, AnswerTabType DEF Browser!Refresh, BrowserInv, Browser!TypeOK
    <3>3. CASE Browser!Logout(t)
      BY <3>3, IssueTabType, AnswerTabType DEF Browser!Logout, BrowserInv, Browser!TypeOK
    <3>4. CASE Browser!EndAll(t)
      BY <3>4, IssueTabType, AnswerTabType DEF Browser!EndAll, BrowserInv, Browser!TypeOK
    <3>5. CASE Browser!Cancel(t)
      BY <3>5, IssueTabType DEF Browser!Cancel
    <3> QED
      BY <1>2, <3>1, <3>2, <3>3, <3>4, <3>5
  <2> QED
    BY <1>1, <1>2, <2>1 DEF Browser!google, BrowserInv, Browser!TypeOK, CookiesTogether, TakenOnce
<1>3. CASE Browser!StartGoogle(t)
  <2>1. /\ tab' \in [Tabs -> Browser!Tab] /\ \A u \in Tabs : tab'[u].guard
        /\ valid' \in Nat /\ issued' \in Nat
    BY <1>3, IssueTabType DEF Browser!StartGoogle
  <2>2. /\ consents' = consents + 1 /\ consents < MaxConsents
        /\ states' = states \cup {consents + 1} /\ opened' = opened
    BY <1>3 DEF Browser!StartGoogle
  <2>3. consents' \in 0 .. MaxConsents /\ states' \in SUBSET (1 .. MaxConsents)
    BY <2>2 DEF BrowserInv, Browser!TypeOK, Browser!ConstantsAssumption
  <2>4. TakenOnce'
    BY <2>2 DEF BrowserInv, Browser!TypeOK, TakenOnce, Browser!ConstantsAssumption
  <2> QED
    BY <1>1, <2>1, <2>2, <2>3, <2>4 DEF BrowserInv, Browser!TypeOK, CookiesTogether
<1>4. CASE Browser!Callback(t)
  <2> DEFINE c == tab[t].state
  <2>1. /\ tab' \in [Tabs -> Browser!Tab] /\ \A u \in Tabs : tab'[u].guard
        /\ valid' \in Nat /\ issued' \in Nat
    BY <1>4, IssueTabType DEF Browser!Callback
  <2>2. states' = states \ {c} /\ consents' = consents
    BY <1>4 DEF Browser!Callback
  <2>3. opened' \in [1 .. MaxConsents -> Nat] /\ TakenOnce'
    <3>1. CASE c \in states
      <4>1. opened' = [opened EXCEPT ![c] = @ + issued' - issued]
        BY <1>4, <3>1 DEF Browser!Callback
      <4>2. c \in 1 .. MaxConsents /\ opened[c] = 0
        <5>1. c \in 1 .. MaxConsents /\ opened[c] \in Nat
          BY <3>1 DEF BrowserInv, Browser!TypeOK
        <5>2. ~(opened[c] > 0)
          BY <3>1, <5>1 DEF BrowserInv, TakenOnce
        <5> QED
          BY <5>1, <5>2
      <4>3. issued' - issued \in {0, 1} /\ issued' \in Nat /\ issued \in Nat
        BY <1>4, <3>1, IssueTabType DEF Browser!Callback, BrowserInv, Browser!TypeOK
      <4>4. c <= consents
        <5>1. consents \in Nat /\ states \subseteq 1 .. consents
          BY DEF BrowserInv, Browser!TypeOK, TakenOnce, Browser!ConstantsAssumption
        <5> HIDE DEF c
        <5>2. c \in 1 .. consents
          BY <3>1, <5>1
        <5> QED
          BY <5>1, <5>2
      <4> DEFINE n == opened[c] + issued' - issued
      <4>5. n \in {0, 1}
        <5>1. opened[c] + issued' - issued = issued' - issued
          <6> HIDE DEF c
          <6> QED
            BY <4>2, <4>3
        <5> QED
          BY <4>3, <5>1
      <4>6. opened' = [opened EXCEPT ![c] = n]
        BY <4>1, <4>2
      <4> HIDE DEF c, n
      <4>7. opened' \in [1 .. MaxConsents -> Nat]
        <5>1. n \in Nat /\ opened \in [1 .. MaxConsents -> Nat]
          BY <4>5 DEF BrowserInv, Browser!TypeOK
        <5> QED
          BY <4>6, <5>1
      <4>8. \A d \in 1 .. MaxConsents : opened'[d] = IF d = c THEN n ELSE opened[d]
        BY <4>6 DEF BrowserInv, Browser!TypeOK
      <4>9. TakenOnce'
        <5> SUFFICES ASSUME NEW d \in 1 .. MaxConsents
                     PROVE  /\ opened'[d] <= 1
                            /\ opened'[d] > 0 => d \notin states' /\ d <= consents'
          BY <2>2 DEF BrowserInv, TakenOnce
        <5>1. CASE d = c
          <6>1. opened'[d] \in {0, 1} /\ d \notin states' /\ d <= consents'
            BY <2>2, <4>4, <4>5, <4>8, <5>1
          <6> QED
            BY <6>1
        <5>2. CASE d # c
          BY <2>2, <4>8, <5>2 DEF BrowserInv, TakenOnce
        <5> QED
          BY <5>1, <5>2
      <4> QED
        BY <4>7, <4>9
    <3>2. CASE c \notin states
      BY <1>4, <2>2, <3>2 DEF Browser!Callback, BrowserInv, Browser!TypeOK, TakenOnce
    <3> QED
      BY <3>1, <3>2
  <2> QED
    BY <1>1, <2>1, <2>2, <2>3 DEF BrowserInv, Browser!TypeOK, CookiesTogether
<1> QED
  BY <1>2, <1>3, <1>4
     DEF Browser!Handle, Browser!Enter, Browser!Refresh, Browser!Logout, Browser!EndAll,
         Browser!Cancel

\* The answer reaches the browser or not.
LEMMA AnswerArrives ==
  ASSUME Browser!ConstantsAssumption, BrowserInv, NEW t \in Tabs,
         Browser!Arrive(t) \/ Browser!Lose(t)
  PROVE  BrowserInv'
<1>1. /\ tab' = [tab EXCEPT ![t] = Browser!IdleTab]
      /\ UNCHANGED << valid, issued, Browser!google >>
  BY DEF Browser!Arrive, Browser!Lose
<1>2. tab' \in [Tabs -> Browser!Tab] /\ \A u \in Tabs : tab'[u].guard
  BY <1>1, IdleTabType DEF BrowserInv, Browser!TypeOK
<1>3. jar' \in Browser!Jar /\ CookiesTogether'
  <2>1. tab[t].token \in Nat /\ tab[t].cookies \in {"none", "set", "clear"}
    BY DEF BrowserInv, Browser!TypeOK, Browser!Tab
  <2>2. CASE jar' = Browser!Cookies(tab[t].token)
    BY <2>1, <2>2 DEF Browser!Cookies, Browser!Jar, CookiesTogether, Browser!ConstantsAssumption
  <2>3. CASE jar' = Browser!EmptyJar
    BY <2>3 DEF Browser!EmptyJar, Browser!Jar, CookiesTogether, Browser!ConstantsAssumption
  <2>4. CASE jar' = jar
    BY <2>4 DEF BrowserInv, Browser!TypeOK, CookiesTogether
  <2> QED
    BY <2>1, <2>2, <2>3, <2>4 DEF Browser!Arrive, Browser!Lose
<1> QED
  BY <1>1, <1>2, <1>3 DEF BrowserInv, Browser!TypeOK, Browser!google, TakenOnce

LEMMA CookiesAge ==
  ASSUME Browser!ConstantsAssumption, BrowserInv, Browser!Tick
  PROVE  BrowserInv'
<1>1. UNCHANGED << tab, valid, issued, consents, opened >>
  BY DEF Browser!Tick
<1>2. states' \subseteq states
  BY DEF Browser!Tick
<1>3. jar' \in Browser!Jar /\ CookiesTogether'
  <2>1. CASE jar' = jar
    BY <2>1 DEF BrowserInv, Browser!TypeOK, CookiesTogether
  <2>2. CASE jar' = [access |-> Browser!Less(jar.access), refresh |-> Browser!Less(jar.refresh),
                     csrf |-> Browser!Less(jar.csrf),
                     token |-> IF jar.refresh = 1 THEN 0 ELSE jar.token]
    <3>1. /\ jar.access \in 0 .. AccessLife /\ jar.refresh \in 0 .. RefreshLife
          /\ jar.csrf \in 0 .. RefreshLife /\ jar.token \in Nat
          /\ jar.csrf = jar.refresh /\ jar.access <= jar.csrf
      BY DEF BrowserInv, Browser!TypeOK, Browser!Jar, CookiesTogether
    <3>2. /\ Browser!Less(jar.access) \in 0 .. AccessLife
          /\ Browser!Less(jar.refresh) \in 0 .. RefreshLife
          /\ Browser!Less(jar.csrf) = Browser!Less(jar.refresh)
          /\ Browser!Less(jar.access) <= Browser!Less(jar.csrf)
      BY <3>1 DEF Browser!Less, Browser!ConstantsAssumption
    <3> QED
      BY <2>2, <3>1, <3>2 DEF Browser!Jar, CookiesTogether
  <2> QED
    BY <2>1, <2>2 DEF Browser!Tick
<1> QED
  BY <1>1, <1>2, <1>3 DEF BrowserInv, Browser!TypeOK, TakenOnce

LEMMA BrowserInvariant ==
  ASSUME PartsAssumption
  PROVE  Browser!Spec => []BrowserInv
<1>1. Browser!ConstantsAssumption
  BY PartsAssumption DEF PartsAssumption
<1>2. ASSUME BrowserInv, [Browser!Next]_Browser!vars
      PROVE  BrowserInv'
  <2>1. CASE UNCHANGED Browser!vars
    BY <1>2, <2>1
       DEF Browser!vars, Browser!google, BrowserInv, Browser!TypeOK, CookiesTogether, TakenOnce
  <2>2. CASE Browser!Next
    BY <1>1, <1>2, <2>2, TabSends, ServerAnswers, AnswerArrives, CookiesAge DEF Browser!Next
  <2> QED
    BY <1>2, <2>1, <2>2
<1> QED
  BY <1>1, <1>2, BrowserInit, PTL DEF Browser!Spec

-----------------------------------------------------------------------------
(* SchemaMigrations.  A list of operations leaves objects of the five      *)
(* kinds, since each of its operations is on one.                          *)

ObjectKinds == {"table", "index", "column", "reference", "type"}

OnObjects(ops) ==
  Len(ops) \in Nat /\ \A n \in 1 .. Len(ops) : ops[n].obj[1] \in ObjectKinds

OfKinds(s) == \A o \in s : o[1] \in ObjectKinds

LEMMA OperationKinds ==
  /\ \A t, r : Migrations!CreateTable(t, r).obj[1] \in ObjectKinds
  /\ \A t, n : Migrations!CreateIndex(t, n).obj[1] \in ObjectKinds
  /\ \A t, n : Migrations!AddColumn(t, n).obj[1] \in ObjectKinds
  /\ \A t, n : Migrations!AddReference(t, n).obj[1] \in ObjectKinds
  /\ \A t, n : Migrations!AlterColumn(t, n).obj[1] \in ObjectKinds
  /\ \A t, n : Migrations!DropIndex(t, n).obj[1] \in ObjectKinds
  /\ \A t, n : Migrations!DropColumn(t, n).obj[1] \in ObjectKinds
  /\ \A t, n : Migrations!DropReference(t, n).obj[1] \in ObjectKinds
  /\ \A t : Migrations!CreateType(t).obj[1] \in ObjectKinds
  /\ \A t : Migrations!EnsureType(t).obj[1] \in ObjectKinds
  /\ \A t : Migrations!DropTable(t).obj[1] \in ObjectKinds
  /\ \A t : Migrations!DropType(t).obj[1] \in ObjectKinds
BY DEF ObjectKinds, Migrations!CreateTable, Migrations!CreateIndex, Migrations!AddColumn,
       Migrations!AddReference, Migrations!AlterColumn, Migrations!DropIndex,
       Migrations!DropColumn, Migrations!DropReference, Migrations!CreateType,
       Migrations!EnsureType, Migrations!DropTable, Migrations!DropType, Migrations!Op,
       Migrations!TableOf

LEMMA RevisionsAreOnObjects ==
  /\ Migrations!Head_ \in Nat
  /\ \A i \in 1 .. Migrations!Head_ : /\ OnObjects(Migrations!Revisions[i].up)
                                      /\ OnObjects(Migrations!Revisions[i].down)
<1>1. OnObjects(Migrations!Up_93f9)
  BY OperationKinds DEF OnObjects, Migrations!Up_93f9
<1>2. OnObjects(Migrations!Down_93f9)
  BY OperationKinds DEF OnObjects, Migrations!Down_93f9
<1>3. OnObjects(Migrations!Up_ea0c)
  BY OperationKinds DEF OnObjects, Migrations!Up_ea0c
<1>4. OnObjects(Migrations!Down_ea0c)
  BY OperationKinds DEF OnObjects, Migrations!Down_ea0c
<1>5. OnObjects(Migrations!Up_0b53)
  BY OperationKinds DEF OnObjects, Migrations!Up_0b53
<1>6. OnObjects(Migrations!Down_0b53)
  BY OperationKinds DEF OnObjects, Migrations!Down_0b53
<1>7. OnObjects(Migrations!Up_662e)
  BY OperationKinds DEF OnObjects, Migrations!Up_662e
<1>8. OnObjects(Migrations!Down_662e)
  BY OperationKinds DEF OnObjects, Migrations!Down_662e
<1>9. OnObjects(Migrations!Up_f6df)
  BY OperationKinds DEF OnObjects, Migrations!Up_f6df
<1>10. OnObjects(Migrations!Down_f6df)
  BY OperationKinds DEF OnObjects, Migrations!Down_f6df
<1>11. OnObjects(Migrations!Up_38fb)
  BY OperationKinds DEF OnObjects, Migrations!Up_38fb
<1>12. OnObjects(Migrations!Down_38fb)
  BY OperationKinds DEF OnObjects, Migrations!Down_38fb
<1>13. OnObjects(Migrations!Up_97fa)
  BY OperationKinds DEF OnObjects, Migrations!Up_97fa
<1>14. OnObjects(Migrations!Down_97fa)
  BY OperationKinds DEF OnObjects, Migrations!Down_97fa
<1>15. OnObjects(Migrations!Up_23b9)
  BY OperationKinds DEF OnObjects, Migrations!Up_23b9
<1>16. OnObjects(Migrations!Down_23b9)
  BY OperationKinds DEF OnObjects, Migrations!Down_23b9
<1>17. OnObjects(Migrations!Up_3440)
  BY OperationKinds DEF OnObjects, Migrations!Up_3440
<1>18. OnObjects(Migrations!Down_3440)
  BY OperationKinds DEF OnObjects, Migrations!Down_3440
<1>19. OnObjects(Migrations!Up_6703)
  BY OperationKinds DEF OnObjects, Migrations!Up_6703
<1>20. OnObjects(Migrations!Down_6703)
  BY OperationKinds DEF OnObjects, Migrations!Down_6703
<1>21. OnObjects(Migrations!Up_4b6e)
  BY OperationKinds DEF OnObjects, Migrations!Up_4b6e
<1>22. OnObjects(Migrations!Down_4b6e)
  BY OperationKinds DEF OnObjects, Migrations!Down_4b6e
<1>23. OnObjects(Migrations!Up_d4e5)
  BY OperationKinds DEF OnObjects, Migrations!Up_d4e5
<1>24. OnObjects(Migrations!Down_d4e5)
  BY OperationKinds DEF OnObjects, Migrations!Down_d4e5
<1>25. OnObjects(Migrations!Up_e5a1)
  BY OperationKinds DEF OnObjects, Migrations!Up_e5a1
<1>26. OnObjects(Migrations!Down_e5a1)
  BY OperationKinds DEF OnObjects, Migrations!Down_e5a1
<1>27. OnObjects(Migrations!Up_a1c2)
  BY OperationKinds DEF OnObjects, Migrations!Up_a1c2
<1>28. OnObjects(Migrations!Down_a1c2)
  BY OperationKinds DEF OnObjects, Migrations!Down_a1c2
<1>29. OnObjects(Migrations!Up_f1a2)
  BY OperationKinds DEF OnObjects, Migrations!Up_f1a2
<1>30. OnObjects(Migrations!Down_f1a2)
  BY OperationKinds DEF OnObjects, Migrations!Down_f1a2
<1>31. OnObjects(Migrations!Up_b2d4)
  BY OperationKinds DEF OnObjects, Migrations!Up_b2d4
<1>32. OnObjects(Migrations!Down_b2d4)
  BY OperationKinds DEF OnObjects, Migrations!Down_b2d4
<1>33. OnObjects(Migrations!Up_c3e5)
  BY OperationKinds DEF OnObjects, Migrations!Up_c3e5
<1>34. OnObjects(Migrations!Down_c3e5)
  BY OperationKinds DEF OnObjects, Migrations!Down_c3e5
<1>35. OnObjects(Migrations!Up_d1e2)
  BY OperationKinds DEF OnObjects, Migrations!Up_d1e2
<1>36. OnObjects(Migrations!Down_d1e2)
  BY OperationKinds DEF OnObjects, Migrations!Down_d1e2
<1>37. OnObjects(Migrations!Up_31c3)
  BY OperationKinds DEF OnObjects, Migrations!Up_31c3
<1>38. OnObjects(Migrations!Down_31c3)
  BY OperationKinds DEF OnObjects, Migrations!Down_31c3
<1>39. OnObjects(Migrations!Up_e10e)
  BY OperationKinds DEF OnObjects, Migrations!Up_e10e
<1>40. OnObjects(Migrations!Down_e10e)
  BY OperationKinds DEF OnObjects, Migrations!Down_e10e
<1>41. OnObjects(Migrations!Up_55d0)
  BY OperationKinds DEF OnObjects, Migrations!Up_55d0
<1>42. OnObjects(Migrations!Down_55d0)
  BY OperationKinds DEF OnObjects, Migrations!Down_55d0
<1>43. OnObjects(Migrations!Up_f239)
  BY OperationKinds DEF OnObjects, Migrations!Up_f239
<1>44. OnObjects(Migrations!Down_f239)
  BY OperationKinds DEF OnObjects, Migrations!Down_f239
<1>45. OnObjects(Migrations!Up_902b)
  BY OperationKinds DEF OnObjects, Migrations!Up_902b
<1>46. OnObjects(Migrations!Down_902b)
  BY OperationKinds DEF OnObjects, Migrations!Down_902b
<1>47. OnObjects(Migrations!Up_92d8)
  BY OperationKinds DEF OnObjects, Migrations!Up_92d8
<1>48. OnObjects(Migrations!Down_92d8)
  BY OperationKinds DEF OnObjects, Migrations!Down_92d8
<1>49. OnObjects(Migrations!Up_9175)
  BY OperationKinds DEF OnObjects, Migrations!Up_9175
<1>50. OnObjects(Migrations!Down_9175)
  BY OperationKinds DEF OnObjects, Migrations!Down_9175
<1>51. OnObjects(Migrations!Up_a41c)
  BY OperationKinds DEF OnObjects, Migrations!Up_a41c
<1>52. OnObjects(Migrations!Down_a41c)
  BY OperationKinds DEF OnObjects, Migrations!Down_a41c
<1>53. OnObjects(Migrations!Up_359c)
  BY OperationKinds DEF OnObjects, Migrations!Up_359c
<1>54. OnObjects(Migrations!Down_359c)
  BY OperationKinds DEF OnObjects, Migrations!Down_359c
<1>55. \A n, u, d : /\ Migrations!Revision(n, u, d).up = u
                 /\ Migrations!Revision(n, u, d).down = d
  BY DEF Migrations!Revision
<1>56. Migrations!Head_ = 27
  BY DEF Migrations!Head_, Migrations!Revisions
<1>57. Migrations!Revisions[1] = Migrations!Revision("93f9", Migrations!Up_93f9, Migrations!Down_93f9)
  BY DEF Migrations!Revisions
<1>58. Migrations!Revisions[2] = Migrations!Revision("ea0c", Migrations!Up_ea0c, Migrations!Down_ea0c)
  BY DEF Migrations!Revisions
<1>59. Migrations!Revisions[3] = Migrations!Revision("0b53", Migrations!Up_0b53, Migrations!Down_0b53)
  BY DEF Migrations!Revisions
<1>60. Migrations!Revisions[4] = Migrations!Revision("662e", Migrations!Up_662e, Migrations!Down_662e)
  BY DEF Migrations!Revisions
<1>61. Migrations!Revisions[5] = Migrations!Revision("f6df", Migrations!Up_f6df, Migrations!Down_f6df)
  BY DEF Migrations!Revisions
<1>62. Migrations!Revisions[6] = Migrations!Revision("38fb", Migrations!Up_38fb, Migrations!Down_38fb)
  BY DEF Migrations!Revisions
<1>63. Migrations!Revisions[7] = Migrations!Revision("97fa", Migrations!Up_97fa, Migrations!Down_97fa)
  BY DEF Migrations!Revisions
<1>64. Migrations!Revisions[8] = Migrations!Revision("23b9", Migrations!Up_23b9, Migrations!Down_23b9)
  BY DEF Migrations!Revisions
<1>65. Migrations!Revisions[9] = Migrations!Revision("3440", Migrations!Up_3440, Migrations!Down_3440)
  BY DEF Migrations!Revisions
<1>66. Migrations!Revisions[10] = Migrations!Revision("6703", Migrations!Up_6703, Migrations!Down_6703)
  BY DEF Migrations!Revisions
<1>67. Migrations!Revisions[11] = Migrations!Revision("4b6e", Migrations!Up_4b6e, Migrations!Down_4b6e)
  BY DEF Migrations!Revisions
<1>68. Migrations!Revisions[12] = Migrations!Revision("d4e5", Migrations!Up_d4e5, Migrations!Down_d4e5)
  BY DEF Migrations!Revisions
<1>69. Migrations!Revisions[13] = Migrations!Revision("e5a1", Migrations!Up_e5a1, Migrations!Down_e5a1)
  BY DEF Migrations!Revisions
<1>70. Migrations!Revisions[14] = Migrations!Revision("a1c2", Migrations!Up_a1c2, Migrations!Down_a1c2)
  BY DEF Migrations!Revisions
<1>71. Migrations!Revisions[15] = Migrations!Revision("f1a2", Migrations!Up_f1a2, Migrations!Down_f1a2)
  BY DEF Migrations!Revisions
<1>72. Migrations!Revisions[16] = Migrations!Revision("b2d4", Migrations!Up_b2d4, Migrations!Down_b2d4)
  BY DEF Migrations!Revisions
<1>73. Migrations!Revisions[17] = Migrations!Revision("c3e5", Migrations!Up_c3e5, Migrations!Down_c3e5)
  BY DEF Migrations!Revisions
<1>74. Migrations!Revisions[18] = Migrations!Revision("d1e2", Migrations!Up_d1e2, Migrations!Down_d1e2)
  BY DEF Migrations!Revisions
<1>75. Migrations!Revisions[19] = Migrations!Revision("31c3", Migrations!Up_31c3, Migrations!Down_31c3)
  BY DEF Migrations!Revisions
<1>76. Migrations!Revisions[20] = Migrations!Revision("e10e", Migrations!Up_e10e, Migrations!Down_e10e)
  BY DEF Migrations!Revisions
<1>77. Migrations!Revisions[21] = Migrations!Revision("55d0", Migrations!Up_55d0, Migrations!Down_55d0)
  BY DEF Migrations!Revisions
<1>78. Migrations!Revisions[22] = Migrations!Revision("f239", Migrations!Up_f239, Migrations!Down_f239)
  BY DEF Migrations!Revisions
<1>79. Migrations!Revisions[23] = Migrations!Revision("902b", Migrations!Up_902b, Migrations!Down_902b)
  BY DEF Migrations!Revisions
<1>80. Migrations!Revisions[24] = Migrations!Revision("92d8", Migrations!Up_92d8, Migrations!Down_92d8)
  BY DEF Migrations!Revisions
<1>81. Migrations!Revisions[25] = Migrations!Revision("9175", Migrations!Up_9175, Migrations!Down_9175)
  BY DEF Migrations!Revisions
<1>82. Migrations!Revisions[26] = Migrations!Revision("a41c", Migrations!Up_a41c, Migrations!Down_a41c)
  BY DEF Migrations!Revisions
<1>83. Migrations!Revisions[27] = Migrations!Revision("359c", Migrations!Up_359c, Migrations!Down_359c)
  BY DEF Migrations!Revisions
<1>84. \A i \in 1 .. 27 : /\ OnObjects(Migrations!Revisions[i].up)
                     /\ OnObjects(Migrations!Revisions[i].down)
  BY <1>1, <1>2, <1>3, <1>4, <1>5, <1>6, <1>7, <1>8, <1>9, <1>10, <1>11, <1>12, <1>13,
     <1>14, <1>15, <1>16, <1>17, <1>18, <1>19, <1>20, <1>21, <1>22, <1>23, <1>24, <1>25,
     <1>26, <1>27, <1>28, <1>29, <1>30, <1>31, <1>32, <1>33, <1>34, <1>35, <1>36, <1>37,
     <1>38, <1>39, <1>40, <1>41, <1>42, <1>43, <1>44, <1>45, <1>46, <1>47, <1>48, <1>49,
     <1>50, <1>51, <1>52, <1>53, <1>54, <1>55, <1>57, <1>58, <1>59, <1>60, <1>61, <1>62,
     <1>63, <1>64, <1>65, <1>66, <1>67, <1>68, <1>69, <1>70, <1>71, <1>72, <1>73, <1>74,
     <1>75, <1>76, <1>77, <1>78, <1>79, <1>80, <1>81, <1>82, <1>83
<1>85. QED
  BY <1>56, <1>84

Applies(f, ops, s) ==
  f = [n \in 0 .. Len(ops) |->
         IF n = 0 THEN [ok |-> TRUE, s |-> s]
         ELSE LET last == f[n - 1] IN
              [ok |-> last.ok /\ ~Migrations!Refused(ops[n], last.s),
               s  |-> Migrations!Run(last.s, ops[n])]]

LEMMA ApplyIsFold ==
  ASSUME NEW ops, NEW s
  PROVE  Migrations!Apply(ops, s) = (CHOOSE f : Applies(f, ops, s))[Len(ops)]
  BY DEF Migrations!Apply, Applies

\* A list on objects of the five kinds makes of a schema of them another one.
LEMMA ApplyKinds ==
  ASSUME NEW ops, OnObjects(ops), NEW s, OfKinds(s)
  PROVE  Migrations!Apply(ops, s).ok \in BOOLEAN /\ OfKinds(Migrations!Apply(ops, s).s)
<1> DEFINE N == Len(ops)
           T == s \cup UNION {{ops[n].obj} \cup Migrations!References(ops[n]) : n \in 1 .. N}
           A == [ok : BOOLEAN, s : SUBSET T]
           step(n, x) == [ok |-> x.ok /\ ~Migrations!Refused(ops[n], x.s),
                          s  |-> Migrations!Run(x.s, ops[n])]
           start == [ok |-> TRUE, s |-> s]
           g == [z \in (1 .. N) \X A |-> step(z[1], z[2])]
<1>1. N \in Nat /\ \A n \in 1 .. N : ops[n].obj[1] \in ObjectKinds
  BY DEF OnObjects
<1>2. start \in A
  OBVIOUS
<1>3. OfKinds(T)
  <2>1. \A n \in 1 .. N : \A o \in {ops[n].obj} \cup Migrations!References(ops[n]) : o[1] \in ObjectKinds
    BY <1>1 DEF Migrations!References, ObjectKinds
  <2>2. QED
    BY <2>1 DEF OfKinds
<1>4. \A n \in 1 .. N : {ops[n].obj} \cup Migrations!References(ops[n]) \subseteq T
  OBVIOUS
<1> HIDE DEF N, T, start
<1>5. \A n \in 1 .. N, x \in A : step(n, x) \in A
  <2>1. SUFFICES ASSUME NEW n \in 1 .. N, NEW x \in A PROVE step(n, x) \in A
    OBVIOUS
  <2>2. Migrations!Run(x.s, ops[n]) \in SUBSET T
    BY <1>4 DEF Migrations!Run
  <2>3. (x.ok /\ ~Migrations!Refused(ops[n], x.s)) \in BOOLEAN
    OBVIOUS
  <2>4. QED
    BY <2>2, <2>3
<1> HIDE DEF A, step
<1>6. g \in [(1 .. N) \X A -> A]
  BY <1>5
<1>7. \A n \in 1 .. N, x \in A : g[<< n, x >>] = step(n, x)
  OBVIOUS
<1> HIDE DEF g
<1>8. PICK h : Passages!Unfolds(h, A, start, N, g)
  BY <1>1, <1>2, <1>6, Passages!RecursionExists
<1>9. h \in [0 .. N -> A] /\ h[0] = start /\ \A n \in 1 .. N : h[n] = g[<< n, h[n - 1] >>]
  BY <1>8 DEF Passages!Unfolds
<1>10. ASSUME NEW n \in 1 .. N PROVE h[n] = step(n, h[n - 1])
  <2>1. n - 1 \in 0 .. N
    BY <1>1
  <2>2. h[n - 1] \in A
    BY <1>9, <2>1
  <2>3. QED
    BY <1>7, <1>9, <2>2
<1>11. h = [n \in 0 .. N |-> h[n]]
  BY <1>9
<1>12. \A n \in 0 .. N : h[n] = IF n = 0 THEN start ELSE step(n, h[n - 1])
  <2>1. \A n \in 0 .. N : n = 0 \/ n \in 1 .. N
    BY <1>1
  <2>2. QED
    BY <1>9, <1>10, <2>1
<1>13. h = [n \in 0 .. N |-> IF n = 0 THEN start ELSE step(n, h[n - 1])]
  BY <1>11, <1>12
<1>14. Applies(h, ops, s)
  BY <1>13 DEF Applies, N, step, start
<1>15. PICK f : f = CHOOSE k : Applies(k, ops, s)
  OBVIOUS
<1>16. Applies(f, ops, s)
  BY <1>14, <1>15
<1>17. f = [n \in 0 .. N |-> IF n = 0 THEN start ELSE step(n, f[n - 1])]
  BY <1>16 DEF Applies, N, step, start
<1>18. f[0] = start /\ \A n \in 1 .. N : f[n] = step(n, f[n - 1])
  <2>1. \A n \in 0 .. N : f[n] = IF n = 0 THEN start ELSE step(n, f[n - 1])
    BY <1>17
  <2>2. 0 \in 0 .. N /\ \A n \in 1 .. N : n \in 0 .. N /\ n # 0
    BY <1>1
  <2>3. QED
    BY <2>1, <2>2
<1> DEFINE S == {n \in 0 .. N : f[n] \in A}
<1>19. 0 \in S
  BY <1>1, <1>2, <1>18
<1>20. ASSUME NEW n \in 0 .. N - 1, n \in S PROVE n + 1 \in S
  <2>1. n + 1 \in 1 .. N /\ n + 1 \in 0 .. N /\ (n + 1) - 1 = n
    BY <1>1
  <2>2. f[n + 1] = step(n + 1, f[n])
    BY <1>18, <2>1
  <2>3. QED
    BY <1>5, <1>20, <2>1, <2>2
<1> HIDE DEF S
<1>21. \A n \in 0 .. N : n \in S
  BY <1>1, <1>19, <1>20, Passages!OneByOne
<1>22. N \in 0 .. N
  BY <1>1
<1>23. f[N] \in A
  BY <1>21, <1>22 DEF S
<1>24. Migrations!Apply(ops, s) = f[N]
  BY <1>15, ApplyIsFold DEF N
<1>25. Migrations!Apply(ops, s).ok \in BOOLEAN /\ Migrations!Apply(ops, s).s \subseteq T
  BY <1>23, <1>24 DEF A
<1>26. QED
  BY <1>3, <1>25 DEF OfKinds


IsList(f) == \E S : f \in Seq(S)

LEMMA AppendIsList ==
  ASSUME NEW f, IsList(f), NEW e
  PROVE  IsList(Append(f, e)) /\ Len(f) \in Nat /\ Len(Append(f, e)) = Len(f) + 1
<1>1. PICK S : f \in Seq(S)
  BY DEF IsList
<1>2. PICK R : R = S \cup {e}
  OBVIOUS
<1>3. f \in Seq(R) /\ e \in R
  BY <1>1, <1>2
<1>4. Append(f, e) \in Seq(R) /\ Len(f) \in Nat /\ Len(Append(f, e)) = Len(f) + 1
  BY <1>3
<1>5. QED
  BY <1>4 DEF IsList

MigrationsInv ==
  /\ at \in 0 .. Migrations!Head_
  /\ rows \in SUBSET Migrations!Rows
  /\ broken \in BOOLEAN
  /\ at <= Len(fresh) /\ Len(fresh) <= Migrations!Head_
  /\ OfKinds(schema)
  /\ IsList(fresh)

LEMMA MigrationsInvariant == Migrations!Spec => [](MigrationsInv /\ Migrations!TypeOK)
<1>1. Migrations!Head_ \in Nat
  BY RevisionsAreOnObjects
<1>2. Migrations!Init => MigrationsInv
  <2>1. IsList(<< >>) /\ Len(<< >>) = 0
    BY DEF IsList
  <2>2. SUFFICES ASSUME Migrations!Init PROVE MigrationsInv
    OBVIOUS
  <2>3. at = 0 /\ schema = {} /\ rows = {} /\ broken = FALSE /\ fresh = << >>
    BY <2>2 DEF Migrations!Init
  <2>4. at \in 0 .. Migrations!Head_ /\ at <= Len(fresh) /\ Len(fresh) <= Migrations!Head_
    BY <1>1, <2>1, <2>3
  <2>5. QED
    BY <2>1, <2>3, <2>4 DEF MigrationsInv, OfKinds
<1>3. ASSUME MigrationsInv, [Migrations!Next]_(Migrations!vars) PROVE MigrationsInv'
  <2>1. ASSUME NEW kind \in Migrations!Rows, Migrations!Write(kind) PROVE MigrationsInv'
    BY <1>3, <2>1 DEF Migrations!Write, MigrationsInv, OfKinds, IsList
  <2>2. ASSUME NEW r, NEW i \in 1 .. Migrations!Head_, r = Migrations!Revisions[i]
        PROVE  /\ Migrations!Apply(r.up, schema).ok \in BOOLEAN
               /\ OfKinds(Migrations!Apply(r.up, schema).s)
               /\ Migrations!Apply(r.down, schema).ok \in BOOLEAN
               /\ OfKinds(Migrations!Apply(r.down, schema).s)
    <3>1. OnObjects(r.up) /\ OnObjects(r.down)
      BY <2>2, RevisionsAreOnObjects
    <3>2. OfKinds(schema)
      BY <1>3 DEF MigrationsInv
    <3>3. QED
      BY <3>1, <3>2, ApplyKinds
  <2>3. CASE Migrations!UpgradeOne
    <3>1. at + 1 \in 1 .. Migrations!Head_
      BY <1>1, <1>3, <2>3 DEF Migrations!UpgradeOne, MigrationsInv
    <3>2. PICK r : r = Migrations!Revisions[at + 1]
      OBVIOUS
    <3>3. PICK t : t = Migrations!Apply(r.up, schema)
      OBVIOUS
    <3>4. t.ok \in BOOLEAN /\ OfKinds(t.s)
      BY <2>2, <3>1, <3>2, <3>3
    <3>5. /\ broken' = (broken \/ ~t.ok)
          /\ \/ /\ at' = at + 1 /\ schema' = t.s /\ rows' \subseteq rows
                /\ fresh' = IF at = Len(fresh) THEN Append(fresh, t.s) ELSE fresh
             \/ UNCHANGED << at, schema, rows, fresh >>
      BY <2>3, <3>2, <3>3 DEF Migrations!UpgradeOne
    <3>6. broken' \in BOOLEAN
      BY <3>5
    <3>7. CASE UNCHANGED << at, schema, rows, fresh >>
      BY <1>3, <3>6, <3>7 DEF MigrationsInv, OfKinds, IsList
    <3>8. CASE /\ at' = at + 1 /\ schema' = t.s /\ rows' \subseteq rows
               /\ fresh' = IF at = Len(fresh) THEN Append(fresh, t.s) ELSE fresh
      <4>1. IsList(fresh)
        BY <1>3 DEF MigrationsInv
      <4>2. Len(fresh) \in Nat /\ IsList(Append(fresh, t.s)) /\ Len(Append(fresh, t.s)) = Len(fresh) + 1
        BY <4>1, AppendIsList
      <4>3. IsList(fresh') /\ at' <= Len(fresh') /\ Len(fresh') <= Migrations!Head_
        BY <1>1, <1>3, <3>1, <3>8, <4>1, <4>2 DEF MigrationsInv
      <4>4. at' \in 0 .. Migrations!Head_ /\ rows' \in SUBSET Migrations!Rows
        BY <1>1, <1>3, <3>1, <3>8 DEF MigrationsInv
      <4>5. OfKinds(schema)'
        BY <3>4, <3>8 DEF OfKinds
      <4>6. QED
        BY <3>6, <4>3, <4>4, <4>5 DEF MigrationsInv, IsList
    <3>9. QED
      BY <3>5, <3>7, <3>8
  <2>4. CASE Migrations!DowngradeOne
    <3>1. at \in 1 .. Migrations!Head_
      BY <1>1, <1>3, <2>4 DEF Migrations!DowngradeOne, MigrationsInv
    <3>2. PICK r : r = Migrations!Revisions[at]
      OBVIOUS
    <3>3. PICK t : t = Migrations!Apply(r.down, schema)
      OBVIOUS
    <3>4. t.ok \in BOOLEAN /\ OfKinds(t.s)
      BY <2>2, <3>1, <3>2, <3>3
    <3>5. /\ broken' = (broken \/ ~t.ok)
          /\ \/ at' = at - 1 /\ schema' = t.s /\ rows' \subseteq rows
             \/ UNCHANGED << at, schema, rows >>
          /\ fresh' = fresh
      BY <2>4, <3>2, <3>3 DEF Migrations!DowngradeOne
    <3>6. Len(fresh) \in Nat
      BY <1>3, AppendIsList DEF MigrationsInv
    <3>7. at' \in 0 .. Migrations!Head_ /\ at' <= Len(fresh') /\ rows' \in SUBSET Migrations!Rows
          /\ Len(fresh') <= Migrations!Head_ /\ broken' \in BOOLEAN
      BY <1>1, <1>3, <3>1, <3>5, <3>6 DEF MigrationsInv
    <3>8. OfKinds(schema)'
      BY <1>3, <3>4, <3>5 DEF MigrationsInv, OfKinds
    <3>9. IsList(fresh)'
      BY <1>3, <3>5 DEF MigrationsInv, IsList
    <3>10. QED
      BY <3>7, <3>8, <3>9 DEF MigrationsInv
  <2>5. CASE UNCHANGED Migrations!vars
    BY <1>3, <2>5 DEF Migrations!vars, MigrationsInv, OfKinds, IsList
  <2>6. QED
    BY <1>3, <2>1, <2>3, <2>4, <2>5 DEF Migrations!Next
<1>4. MigrationsInv => Migrations!TypeOK
  BY DEF MigrationsInv, Migrations!TypeOK, OfKinds, ObjectKinds
<1>5. QED
  BY <1>2, <1>3, <1>4, PTL DEF Migrations!Spec

-----------------------------------------------------------------------------
(* The whole and its parts.                                                *)

\* A step of the whole is a step of every part, or leaves it where it is.
LEMMA StepOfEach ==
  ASSUME [Next]_vars
  PROVE  /\ [SessionsPart!Next]_SessionsPart!vars
         /\ [Links!Next]_Links!vars
         /\ [Erasure!Next]_Erasure!vars
         /\ [Export!Next]_Export!vars
         /\ [DeadLetters!Next]_DeadLetters!vars
         /\ [Toggle!Next]_Toggle!vars
         /\ [Planning!Next]_Planning!vars
         /\ [Planning!Calendar!Next]_(Planning!Calendar!vars)
         /\ [Planning!Reviewing!Next]_(Planning!Reviewing!vars)
         /\ [Passages!Next]_(Passages!vars)
         /\ [Passages!Search!Next]_(Passages!Search!vars)
         /\ [Passages!Embedding!Next]_(Passages!Embedding!vars)
         /\ [Passages!Chunking!Next]_(Passages!Chunking!vars)
         /\ [Browser!Next]_Browser!vars
         /\ [CatalogsPart!Next]_CatalogsPart!vars
         /\ [Migrations!Next]_Migrations!vars
BY DEF Next, vars, SessionsPartMoves, LinksMoves, ErasureMoves, ExportMoves,
       DeadLettersMoves, ToggleMoves, MigrationsMoves, BudgetMoves, CalendarMoves,
       SearchMoves, EmbeddingMoves, ChunksPartMoves, BrowserMoves,
       CatalogsPartMoves, CitationsMoves, ReviewMoves, sessionsVars, linksVars,
       erasureVars, exportVars, deadLettersVars, toggleVars, migrationsVars,
       budgetVars, calendarVars, searchVars, embeddingVars, chunksVars, browserVars,
       catalogsVars, citationsVars, reviewVars, SessionsPart!vars, Links!vars,
       Erasure!vars, Export!vars, DeadLetters!vars, Toggle!vars, Planning!vars, Browser!vars,
       CatalogsPart!vars, Migrations!vars, Planning!books, Planning!Calendar!vars, Planning!Reviewing!vars,
       Passages!vars, Passages!library, Passages!Search!vars, Passages!Embedding!vars,
       Passages!Chunking!vars, SessionsPart!user, Browser!google, Erasure!logs, Erasure!erasing,
       CatalogsPart!kinds, CatalogsPart!looks

\* A behaviour of the whole is a behaviour of every part.
LEMMA BehaviourOfEach ==
  Spec => /\ SessionsPart!Spec
          /\ Links!Spec
          /\ Erasure!Spec
          /\ Export!Spec
          /\ DeadLetters!Spec
          /\ Toggle!Spec
          /\ Planning!Spec
          /\ Planning!Calendar!Spec
          /\ Planning!Reviewing!Spec
          /\ Passages!Spec
          /\ Passages!Search!Spec
          /\ Passages!Embedding!Spec
          /\ Passages!Chunking!Spec
          /\ Browser!Spec
          /\ CatalogsPart!Spec
          /\ Migrations!Spec
<1>1. Init => /\ SessionsPart!Init
              /\ Links!Init
              /\ Erasure!Init
              /\ Export!Init
              /\ DeadLetters!Init
              /\ Toggle!Init
              /\ Planning!Init
              /\ Planning!Calendar!Init
              /\ Planning!Reviewing!Init
              /\ Passages!Init
              /\ Passages!Search!Init
              /\ Passages!Embedding!Init
              /\ Passages!Chunking!Init
              /\ Browser!Init
              /\ CatalogsPart!Init
              /\ Migrations!Init
  BY DEF Init
<1>2. QED
  BY <1>1, StepOfEach, PTL
     DEF Spec, SessionsPart!Spec, Links!Spec, Erasure!Spec, Export!Spec, DeadLetters!Spec,
         Toggle!Spec, Planning!Spec, Planning!Calendar!Spec, Planning!Reviewing!Spec,
         Passages!Spec, Passages!Search!Spec, Passages!Embedding!Spec,
         Passages!Chunking!Spec, Browser!Spec, CatalogsPart!Spec,
         Migrations!Spec

-----------------------------------------------------------------------------
(* The theorems.                                                           *)

\* Every variable of every part keeps its type: for any number of requests, sessions, links,
\* entries, admins, tabs, icons, documents, chunks and runs.
THEOREM TypesAreKept == Spec => []TypesOK
<1>1. Spec => []SessionsPart!TypeOK
  <2>1. SessionsInv => SessionsPart!TypeOK
    BY DEF SessionsInv
  <2>2. QED
    BY <2>1, SessionsInvariant, BehaviourOfEach, PTL
<1>2. Spec => []Links!TypeOK
  <2>1. LinksInv => Links!TypeOK
    BY DEF LinksInv
  <2>2. QED
    BY <2>1, LinksInvariant, BehaviourOfEach, PTL
<1>3. Spec => []Erasure!TypeOK
  <2>1. ErasureInv => Erasure!TypeOK
    BY DEF ErasureInv
  <2>2. QED
    BY <2>1, ErasureInvariant, BehaviourOfEach, PTL
<1>4. Spec => []Export!TypeOK
  BY ExportInvariant, ExportTypes, BehaviourOfEach, PTL
<1>5. Spec => []Browser!TypeOK
  <2>1. BrowserInv => Browser!TypeOK
    BY DEF BrowserInv
  <2>2. QED
    BY PartsAssumption, <2>1, BrowserInvariant, BehaviourOfEach, PTL
<1>6. Spec => []CatalogsPart!TypeOK
  <2>1. CatalogsInv => CatalogsPart!TypeOK
    BY DEF CatalogsInv
  <2>2. QED
    BY <2>1, CatalogsInvariant, BehaviourOfEach, PTL
<1>7. Spec => []Migrations!TypeOK
  BY MigrationsInvariant, BehaviourOfEach, PTL
<1>8. Spec => []DeadLetters!TypeOK
  <2>1. DeadLetters!Spec => []DeadLetters!TypeOK
    BY PartsAssumption, ListTypes DEF PartsAssumption
  <2>2. QED
    BY <2>1, BehaviourOfEach, PTL
<1>9. Spec => []Toggle!TypeOK
  <2>1. Toggle!Spec => []Toggle!TypeOK
    BY PartsAssumption, ToggleTypes DEF PartsAssumption
  <2>2. QED
    BY <2>1, BehaviourOfEach, PTL
<1>10. Spec => []Planning!TypeOK
  <2>1. Planning!Spec => []Planning!TypeOK
    BY PartsAssumption, Planning!TypeCorrect DEF PartsAssumption
  <2>2. QED
    BY <2>1, BehaviourOfEach, PTL
<1>11. Spec => []Passages!TypeOK
  <2>1. Passages!Spec => []Passages!TypeOK
    BY PartsAssumption, Passages!TypeCorrect DEF PartsAssumption
  <2>2. QED
    BY <2>1, BehaviourOfEach, PTL
<1>12. Spec => []Planning!Calendar!TypeOK
  <2>1. Planning!Calendar!Spec => [](Planning!Calendar!TypeOK /\ Planning!Calendar!EveryItemHasItsDay)
    BY PartsAssumption, Planning!CalendarIsRight DEF PartsAssumption
  <2>2. QED
    BY <2>1, BehaviourOfEach, PTL
<1>13. Spec => []Planning!Reviewing!TypeOK
  <2>1. Planning!Reviewing!Spec => [](Planning!Reviewing!TypeOK /\ Planning!Reviewing!ReviewHolds)
    BY PartsAssumption, Planning!ReviewIsSound DEF PartsAssumption
  <2>2. QED
    BY <2>1, BehaviourOfEach, PTL
<1>14. Spec => []Passages!Search!TypeOK
  <2>1. Passages!Search!Spec => [](Passages!Search!TypeOK /\ Passages!Search!FusionIsSound)
    BY PartsAssumption, Passages!SearchIsSound DEF PartsAssumption
  <2>2. QED
    BY <2>1, BehaviourOfEach, PTL
<1>15. Spec => []Passages!Embedding!TypeOK
  <2>1. Passages!Embedding!Spec => [](Passages!Embedding!TypeOK /\ Passages!Embedding!VectorsKeepTheirPlaces)
    BY PartsAssumption, Passages!VectorsAreInPlace DEF PartsAssumption
  <2>2. QED
    BY <2>1, BehaviourOfEach, PTL
<1>16. Spec => []Passages!Chunking!TypeOK
  <2>1. Passages!Chunking!Spec => [](Passages!Chunking!TypeOK /\ Passages!Chunking!NoTextIsLost)
    BY PartsAssumption, Passages!ChunksAreWhole DEF PartsAssumption
  <2>2. QED
    BY <2>1, BehaviourOfEach, PTL
<1> DEFINE
     accounts == /\ SessionsPart!TypeOK
                 /\ Links!TypeOK
                 /\ Erasure!TypeOK
                 /\ Export!TypeOK
                 /\ Browser!TypeOK
     admin == /\ CatalogsPart!TypeOK
              /\ Migrations!TypeOK
              /\ DeadLetters!TypeOK
              /\ Toggle!TypeOK
     planning == /\ Planning!TypeOK
                 /\ Planning!Calendar!TypeOK
                 /\ Planning!Reviewing!TypeOK
     passages == /\ Passages!TypeOK
                 /\ Passages!Search!TypeOK
                 /\ Passages!Embedding!TypeOK
                 /\ Passages!Chunking!TypeOK
<1>17. Spec => []accounts
  BY <1>1, <1>2, <1>3, <1>4, <1>5, PTL
<1>18. Spec => []admin
  BY <1>6, <1>7, <1>8, <1>9, PTL
<1>19. Spec => []planning
  BY <1>10, <1>12, <1>13, PTL
<1>20. Spec => []passages
  BY <1>11, <1>14, <1>15, <1>16, PTL
<1>21. accounts /\ admin /\ planning /\ passages => TypesOK
  BY DEF TypesOK
<1> HIDE DEF accounts, admin, planning, passages
<1>22. QED
  BY <1>17, <1>18, <1>19, <1>20, <1>21, PTL

\* A session that can be refreshed was issued since the last password change, reset or
\* sign-out everywhere, unless it descends from a request that was in flight when that was
\* committed: for any number of requests and sessions.
THEOREM SignOutEndsSessions == Spec => []SignedOutMeansOut
<1>1. SessionsInv => SignedOutMeansOut
  BY DEF SessionsInv, StandingIsRecent, Standing, SignedOutMeansOut,
     SessionsPart!SignedOutMeansOut, SessionsPart!Usable
<1>2. QED
  BY <1>1, BehaviourOfEach, SessionsInvariant, PTL

\* Of the sessions of one sign-in at most one can be refreshed, in whatever order rotations,
\* sign-outs and endings commit, unless two requests presented the same token at once.
THEOREM SignInsKeepOneSession == Spec => []OneSessionPerSignIn
<1>1. SessionsInv => OneSessionPerSignIn
  BY DEF SessionsInv, OneStands, Standing, OneSessionPerSignIn,
     SessionsPart!OneSessionPerSignIn, SessionsPart!Usable
<1>2. QED
  BY <1>1, BehaviourOfEach, SessionsInvariant, PTL

\* A link that a later one of its purpose could see is superseded or was confirmed, and
\* none is superseded without a later one: for any number of links and requests.
THEOREM NewestLinkWins == Spec => []LastLinkWins
<1>1. LinksInv => LastLinkWins
  BY DEF LinksInv, LastLinkWins
<1>2. QED
  BY <1>1, BehaviourOfEach, LinksInvariant, PTL

\* An erased account leaves no row, and of the files whose paths it read those only that
\* the storage kept, for any set of documents; an export has every table that was there when
\* it began, and none without the one it was found by.
THEOREM ErasedAndExportedWhole == Spec => []AccountDataIsWhole
<1>1. ErasureInv => (part = "erasure" => Erasure!NothingIsLeftBehind)
  BY DEF ErasureInv, Erasure!TypeOK, Erasure!NothingIsLeftBehind
<1>2. QED
  BY <1>1, BehaviourOfEach, ErasureInvariant, ExportInvariant, PTL DEF AccountDataIsWhole

\* An entry of the dead letters is in one place only: in the list, queued again, or with one
\* script that has taken it out, and in none only if the list was full, a record failed, a
\* script died, or its task is not replayable: for any number of scripts, of tasks that fail
\* and of replays.
THEOREM EntriesAreInOnePlace == Spec => []EntriesAreMoved
<1>1. DeadLetters!Spec => []ListInv
  BY PartsAssumption, ListInvariant DEF PartsAssumption
<1>2. ListInv => EntriesAreMoved
  BY ListedMeansMoved DEF EntriesAreMoved
<1>3. QED
  BY <1>1, <1>2, BehaviourOfEach, PTL

\* A provider besides ollama stays on, and ollama too, whatever the admins switch and in
\* whatever order they commit, unless two of them decided on the same rows.  It takes a
\* provider that is configured at the start: without one there is nothing to keep on.
THEOREM OneProviderStaysOn ==
  ASSUME Configured # {Offline}
  PROVE  Spec => []SomebodyServes
<1>1. ToggleInv => SomebodyServes
  BY DEF ToggleInv, SomebodyServes
<1>2. Toggle!Spec => []ToggleInv
  BY PartsAssumption, ToggleInvariant
<1>3. QED
  BY <1>1, <1>2, BehaviourOfEach, PTL

\* The audit tells a subject's icon, no subject keeps an icon deleted after it was chosen, and
\* no type is filed under a category deleted before its request asked: for any number of
\* icons, categories, types and requests.
THEOREM CatalogsAccountForPointers == Spec => []PointersAreAccountedFor
<1>1. CatalogsInv => PointersAreAccountedFor
  BY DEF CatalogsInv, PointersAreAccountedFor
<1>2. QED
  BY <1>1, BehaviourOfEach, CatalogsInvariant, PTL

\* The month is overspent by what is in flight, and no cent is lost: an instance of the
\* theorem of PlanningProofs, which is about any runs, items, models and prices.
THEOREM MonthIsKept == Spec => []BudgetHolds
<1>1. Planning!Spec => []Planning!BudgetHolds
  BY PartsAssumption, Planning!BudgetIsKept DEF PartsAssumption
<1>2. QED
  BY <1>1, BehaviourOfEach, PTL DEF BudgetHolds

\* A draft is judged when code or its context found it wanting, at most once, and never lost to
\* that; the modules fill the period of the plan one after the other, and every item has a day
\* of its module: instances of theorems of PlanningProofs, which are about any roadmaps and
\* any plans.
THEOREM RoadmapsHold == Spec => []RoadmapHolds
<1>1. Planning!Reviewing!Spec => [](Planning!Reviewing!TypeOK /\ Planning!Reviewing!ReviewHolds)
  BY PartsAssumption, Planning!ReviewIsSound DEF PartsAssumption
<1>2. Planning!Calendar!Spec => [](Planning!Calendar!TypeOK /\ Planning!Calendar!EveryItemHasItsDay)
  BY PartsAssumption, Planning!CalendarIsRight DEF PartsAssumption
<1>3. QED
  BY <1>1, <1>2, BehaviourOfEach, PTL DEF RoadmapHolds

\* Every character of every paragraph is in a chunk, below exactly the headings above it and in
\* the order of the document, and a chunk fits unless its headings alone do not; every text of
\* an ingestion gets its own vector at its own place; an item cites what it was written from:
\* instances of theorems of PassageProofs, which are about any lines and lengths, any texts and
\* batches, any documents and deliveries.
THEOREM PassagesStayWhole == Spec => []PassagesAreWhole
<1>1. Passages!Chunking!Spec => [](Passages!Chunking!TypeOK /\ Passages!Chunking!NoTextIsLost)
  BY PartsAssumption, Passages!ChunksAreWhole DEF PartsAssumption
<1>2. Passages!Embedding!Spec
        => [](Passages!Embedding!TypeOK /\ Passages!Embedding!VectorsKeepTheirPlaces)
  BY PartsAssumption, Passages!VectorsAreInPlace DEF PartsAssumption
<1>3. Passages!Spec => []Passages!CitationsHold
  BY PartsAssumption, Passages!CitationsAreRight DEF PartsAssumption
<1>4. QED
  BY <1>1, <1>2, <1>3, BehaviourOfEach, PTL DEF PassagesAreWhole

\* A search answers with passages the account could read when it asked, each once, and with
\* those that both lists found first: an instance of the theorem of PassageProofs, which is
\* about any chunks and contents.
THEOREM SearchesFuseSoundly == Spec => []FusionIsSound
<1>1. Passages!Search!Spec => [](Passages!Search!TypeOK /\ Passages!Search!FusionIsSound)
  BY PartsAssumption, Passages!SearchIsSound DEF PartsAssumption
<1>2. QED
  BY <1>1, BehaviourOfEach, PTL DEF FusionIsSound

\* No write of a page of ours is refused for want of the CSRF cookie, for as long as the
\* browser has a session, and a consent at Google opens one session at most, whatever
\* requests overlap and whatever answers overtake each other or are lost, for any number
\* of tabs and consents and any lives of the cookies that the settings allow.
THEOREM SignInOpensOneSession == Spec => []SignInWorksOnceAndStays
<1>1. BrowserInv => SignInWorksOnceAndStays
  BY PartsAssumption
     DEF BrowserInv, Browser!TypeOK, Browser!Jar, CookiesTogether, TakenOnce,
         SignInWorksOnceAndStays, Browser!SignInWorksOnceAndStays,
         Browser!NobodyIsLockedOut, Browser!OneSessionPerConsent,
         PartsAssumption, Browser!ConstantsAssumption
<1>2. Browser!Spec => []BrowserInv
  BY PartsAssumption, BrowserInvariant
<1>3. QED
  BY <1>1, <1>2, BehaviourOfEach, PTL
=============================================================================
