------------------------------- MODULE Sessions -------------------------------
(***************************************************************************)
(* One account, its refresh-token sessions and the requests that sign in,  *)
(* rotate, sign out, and set or reset its password.                        *)
(*                                                                         *)
(* A request is one transaction at READ COMMITTED: it reads its row        *)
(* without a lock, and all it writes is seen at its commit.  UPDATE ...    *)
(* WHERE revoked_at IS NULL reaches the sessions committed when it is sent *)
(* and keeps their rows locked, so such a request has a third step.  What  *)
(* a sign-in counts and refuses is in SignInLimiter, the links that prove  *)
(* a reset are in OneTimeLinks.                                            *)
(***************************************************************************)
EXTENDS Naturals, Sequences

CONSTANTS
  Requests,     \* requests that may be in flight together
  MaxSessions,  \* bound: refresh_tokens rows
  MaxEndings    \* bound: commits that end every session

ConstantsAssumption == MaxSessions \in Nat /\ MaxEndings \in Nat

VARIABLES
  account,   \* the users row is there
  password,  \* password_hash is set
  linked,    \* the user_providers row is there
  sessions,  \* refresh_tokens, in the order of their commits
  endings,   \* history: commits that ended every session
  request

vars == << account, password, linked, sessions, endings, request >>

user == << account, password, linked >>

Session == [ state : {"live", "expired", "revoked"},
             root  : Nat,         \* history: the session of the sign-in it descends from
             since : Nat,         \* history: `endings` when its request read
             raced : BOOLEAN ]    \* history: what its request read had changed

Enders == {"reuse", "logout_all", "change", "reset"}
Kinds  == Enders \cup {"register", "login", "google", "refresh", "logout",
                       "first_password"}

Request == [ kind    : Kinds \cup {"none"},
             target  : Nat,       \* the session it presents
             since   : Nat,
             revoked : BOOLEAN,   \* revoke_all_for_user was sent
             seen    : Nat ]      \* the sessions its UPDATE reaches

NoRequest == [ kind |-> "none", target |-> 0, since |-> 0,
               revoked |-> FALSE, seen |-> 0 ]

TypeOK ==
  /\ user \in BOOLEAN \X BOOLEAN \X BOOLEAN
  /\ sessions \in Seq(Session)
  /\ endings \in Nat
  /\ request \in [Requests -> Request]
  /\ \A q \in Requests :
       request[q].kind \in {"refresh", "logout"} => request[q].target \in DOMAIN sessions

Init ==
  /\ account = FALSE /\ password = FALSE /\ linked = FALSE
  /\ sessions = << >>
  /\ endings = 0
  /\ request = [q \in Requests |-> NoRequest]

-----------------------------------------------------------------------------

Kind(q)   == request[q].kind
Target(q) == request[q].target
SignedIn  == sessions # << >>

\* A request that ends the session i holds its row.
Locked(i) == \E q \in Requests : request[q].revoked /\ i <= request[q].seen

\* Between its UPDATE and its commit a request that ends sessions misses new ones.
Ending == \E q \in Requests : request[q].revoked

Open(q, kind, target) ==
  /\ Kind(q) = "none"
  /\ request' = [request EXCEPT ![q] = [NoRequest EXCEPT !.kind = kind, !.target = target,
                                                         !.since = endings]]
  /\ UNCHANGED << user, sessions, endings >>

Close(q) == request' = [request EXCEPT ![q] = NoRequest]

\* _issue_tokens, for a sign-in (root 0) or the rotation of a session.
Issued(q, root, raced) ==
  [ state |-> "live", root |-> IF root = 0 THEN Len(sessions) + 1 ELSE root,
    since |-> request[q].since,
    raced |-> raced \/ Ending \/ request[q].since # endings ]

Room == Len(sessions) < MaxSessions

-----------------------------------------------------------------------------
(* What the requests read.                                                 *)

ReadRegister(q) == ~account /\ Open(q, "register", 0)

ReadLogin(q) == account /\ password /\ Open(q, "login", 0)

\* 2 linked, 1 an account with that address, which Google says is verified, 0 nobody.
ReadGoogle(q) ==
  Open(q, "google", IF linked THEN 2 ELSE IF account THEN 1 ELSE 0)

\* A revoked session that is presented again ends them all.
ReadRefresh(q) ==
  \E i \in DOMAIN sessions :
    /\ sessions[i].state # "expired"
    /\ Open(q, IF sessions[i].state = "revoked" THEN "reuse" ELSE "refresh", i)

ReadLogout(q) ==
  \E i \in DOMAIN sessions :
    sessions[i].state = "live" /\ Open(q, "logout", i)

ReadLogoutAll(q) == SignedIn /\ Open(q, "logout_all", 0)

\* A first password ends no session; a change, which asks for the current one, does.
ReadPassword(q) ==
  SignedIn /\ Open(q, IF password THEN "change" ELSE "first_password", 0)

\* A link of OneTimeLinks proves the mailbox.
ReadReset(q) == account /\ Open(q, "reset", 0)

\* revoke_all_for_user.
RevokeAll(q) ==
  /\ Kind(q) \in Enders
  /\ ~request[q].revoked
  /\ endings < MaxEndings
  /\ \A i \in DOMAIN sessions : ~Locked(i)
  /\ request' = [request EXCEPT ![q].revoked = TRUE, ![q].seen = Len(sessions)]
  /\ UNCHANGED << user, sessions, endings >>

-----------------------------------------------------------------------------
(* What they commit.                                                       *)

\* The unique address decides between two registrations; the later one is rolled back.
CommitRegister(q) ==
  /\ Kind(q) = "register" /\ Room
  /\ IF account
     THEN UNCHANGED << account, password, sessions >>
     ELSE /\ account' = TRUE /\ password' = TRUE
          /\ sessions' = Append(sessions, Issued(q, 0, FALSE))
  /\ Close(q)
  /\ UNCHANGED << linked, endings >>

CommitLogin(q) ==
  /\ Kind(q) = "login" /\ Room
  /\ sessions' = Append(sessions, Issued(q, 0, FALSE))
  /\ Close(q)
  /\ UNCHANGED << user, endings >>

\* The account, its link and the session in one transaction; the unique address and
\* the unique identity refuse what somebody else committed meanwhile.
CommitGoogle(q) ==
  /\ Kind(q) = "google" /\ Room
  /\ IF (Target(q) = 0 /\ account) \/ (Target(q) # 2 /\ linked)
     THEN UNCHANGED << user, sessions >>
     ELSE /\ account' = TRUE /\ linked' = TRUE
          /\ sessions' = Append(sessions, Issued(q, 0, FALSE))
          /\ UNCHANGED password
  /\ Close(q)
  /\ UNCHANGED << endings >>

\* A bug: the presented session is not revoked.
CommitRefreshOnly(q) ==
  /\ Kind(q) = "refresh" /\ Room
  /\ ~Locked(Target(q))
  /\ LET old == sessions[Target(q)] IN
     sessions' = Append(sessions, Issued(q, old.root, old.raced \/ old.state = "revoked"))
  /\ Close(q)
  /\ UNCHANGED << user, endings >>

\* The presented session is revoked and a new one issued.
CommitRefresh(q) ==
  /\ Kind(q) = "refresh" /\ Room
  /\ ~Locked(Target(q))
  /\ LET old == sessions[Target(q)] IN
     sessions' = Append([sessions EXCEPT ![Target(q)].state = "revoked"],
                        Issued(q, old.root, old.raced \/ old.state = "revoked"))
  /\ Close(q)
  /\ UNCHANGED << user, endings >>

CommitLogout(q) ==
  /\ Kind(q) = "logout"
  /\ ~Locked(Target(q))
  /\ sessions' = [sessions EXCEPT ![Target(q)].state = "revoked"]
  /\ Close(q)
  /\ UNCHANGED << user, endings >>

\* A bug: of the sessions, only the last one is ended.
CommitEndingLast(q) ==
  /\ request[q].revoked
  /\ sessions' = [i \in DOMAIN sessions |->
                    IF i = request[q].seen THEN [sessions[i] EXCEPT !.state = "revoked"]
                    ELSE sessions[i]]
  /\ endings' = endings + 1
  /\ password' = (password \/ Kind(q) = "reset")
  /\ Close(q)
  /\ UNCHANGED << account, linked >>

\* logout_all, a reused token, a changed password, a confirmed reset.
CommitEnding(q) ==
  /\ request[q].revoked
  /\ sessions' = [i \in DOMAIN sessions |->
                    IF i <= request[q].seen THEN [sessions[i] EXCEPT !.state = "revoked"]
                    ELSE sessions[i]]
  /\ endings' = endings + 1
  /\ password' = (password \/ Kind(q) = "reset")
  /\ Close(q)
  /\ UNCHANGED << account, linked >>

CommitFirstPassword(q) ==
  /\ Kind(q) = "first_password"
  /\ password' = TRUE
  /\ Close(q)
  /\ UNCHANGED << account, linked, sessions, endings >>

ExpireSession(i) ==
  /\ sessions[i].state = "live"
  /\ sessions' = [sessions EXCEPT ![i].state = "expired"]
  /\ UNCHANGED << user, endings, request >>

Next ==
  \/ \E q \in Requests :
       \/ ReadRegister(q) \/ ReadLogin(q) \/ ReadGoogle(q) \/ ReadRefresh(q)
       \/ ReadLogout(q) \/ ReadLogoutAll(q) \/ ReadPassword(q) \/ ReadReset(q)
       \/ RevokeAll(q)
       \/ CommitRegister(q) \/ CommitLogin(q) \/ CommitGoogle(q) \/ CommitRefresh(q)
       \/ CommitLogout(q) \/ CommitEnding(q) \/ CommitFirstPassword(q)
  \/ \E i \in DOMAIN sessions : ExpireSession(i)

Spec == Init /\ [][Next]_vars

-----------------------------------------------------------------------------
(* Properties.                                                             *)

Usable(i) == sessions[i].state = "live" /\ ~sessions[i].raced

\* Whoever signs out everywhere, changes the password or resets it ends every session,
\* "not just the current one" (account_service.py): a live session was issued since,
\* or descends from a request that was in flight at that moment.
SignedOutMeansOut ==
  \A i \in DOMAIN sessions : Usable(i) => sessions[i].since = endings

\* Rotation: a sign-in has one live session, however often it is refreshed, unless two
\* requests presented the same token at the same time (service.py, refresh).
OneSessionPerSignIn ==
  \A i, j \in DOMAIN sessions :
    Usable(i) /\ Usable(j) /\ sessions[i].root = sessions[j].root => i = j
=============================================================================
