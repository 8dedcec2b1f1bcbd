----------------------------- MODULE BrowserSession -----------------------------
(***************************************************************************)
(* What the browser of one account holds: three cookies with lifetimes,    *)
(* set and cleared together by the answers of the auth routes, and the     *)
(* guard that asks for the CSRF token on every write that rides on one of  *)
(* the other two.  Requests of several tabs overlap and answers get lost.  *)
(* Sign-in with Google is a redirect there and a callback with a state     *)
(* that works once.  Which sessions the server keeps is in Sessions; here  *)
(* it is the one refresh token it would accept.                            *)
(***************************************************************************)
EXTENDS Naturals, FiniteSets

CONSTANTS
  Tabs,
  AccessLife,   \* access_token_expire_minutes, in ticks
  RefreshLife,  \* refresh_token_expire_days, in ticks
  MaxTokens,    \* bound: refresh tokens issued
  MaxConsents   \* bound: redirects to Google

ConstantsAssumption ==
  /\ AccessLife \in Nat \ {0} /\ RefreshLife \in Nat /\ AccessLife <= RefreshLife
  /\ MaxTokens \in Nat /\ MaxConsents \in Nat

VARIABLES
  jar,       \* the time each cookie has left, 0 without it, and the refresh token
  tab,       \* the request each tab waits for
  valid,     \* the refresh token the server accepts; 0: none
  issued,    \* refresh tokens so far
  states,    \* oauth:state:... keys in Redis
  consents,  \* redirects so far
  opened     \* history: sessions opened by each consent

google == << states, consents, opened >>
vars   == << jar, tab, valid, issued, google >>

Safe   == {"start", "callback"}                    \* GET
Exempt == {"login", "register"}                    \* _EXEMPT_PATHS
Writes == {"refresh", "logout", "logout_all", "change_password"}
Kinds  == Safe \cup Exempt \cup Writes

Jar == [access : 0 .. AccessLife, refresh : 0 .. RefreshLife, csrf : 0 .. RefreshLife,
        token : Nat]
EmptyJar == [access |-> 0, refresh |-> 0, csrf |-> 0, token |-> 0]

Tab == [ pc     : {"idle", "sent", "answered"},
         kind   : Kinds,
         guard  : BOOLEAN,             \* the middleware lets it pass
         access : BOOLEAN,             \* the cookies it carries
         token  : Nat,
         state  : Nat,                 \* of a callback
         cookies : {"none", "set", "clear"} ]

IdleTab == [pc |-> "idle", kind |-> "login", guard |-> TRUE, access |-> FALSE, token |-> 0,
            state |-> 0, cookies |-> "none"]

TypeOK ==
  /\ jar \in Jar
  /\ tab \in [Tabs -> Tab]
  /\ valid \in Nat /\ issued \in Nat
  /\ states \in SUBSET (1 .. MaxConsents)
  /\ consents \in 0 .. MaxConsents
  /\ opened \in [1 .. MaxConsents -> Nat]

Init ==
  /\ jar = EmptyJar
  /\ tab = [t \in Tabs |-> IdleTab]
  /\ valid = 0 /\ issued = 0
  /\ states = {} /\ consents = 0 /\ opened = [c \in 1 .. MaxConsents |-> 0]

-----------------------------------------------------------------------------

\* CSRFMiddleware: a page of ours mirrors the CSRF cookie it has.
Passes(kind) ==
  \/ kind \in Safe \cup Exempt
  \/ jar.access = 0 /\ jar.refresh = 0
  \/ jar.csrf > 0

Send(t) ==
  /\ tab[t].pc = "idle"
  /\ \E kind \in Kinds \ {"callback"} :
       tab' = [tab EXCEPT ![t] = [IdleTab EXCEPT
         !.pc = "sent", !.kind = kind, !.guard = Passes(kind),
         !.access = jar.access > 0, !.token = IF jar.refresh > 0 THEN jar.token ELSE 0]]
  /\ UNCHANGED << jar, valid, issued, google >>

\* Google sends the browser back, with a state of ours; reloading the page does it again.
SendBack(t) ==
  /\ tab[t].pc = "idle"
  /\ \E c \in 1 .. consents :
       tab' = [tab EXCEPT ![t] = [IdleTab EXCEPT !.pc = "sent", !.kind = "callback",
                                                 !.state = c]]
  /\ UNCHANGED << jar, valid, issued, google >>

Answer(t, cookies, token) ==
  tab' = [tab EXCEPT ![t].pc = "answered", ![t].cookies = cookies, ![t].token = token]

Refuse(t) == Answer(t, "none", 0) /\ UNCHANGED << valid, issued >>

\* _issue_tokens
Issue(t) ==
  /\ issued < MaxTokens
  /\ issued' = issued + 1 /\ valid' = issued + 1
  /\ Answer(t, "set", issued + 1)

\* The service accepts the sign-in or not.
Enter(t) ==
  /\ tab[t].kind \in Exempt
  /\ Issue(t) \/ Refuse(t)
  /\ UNCHANGED google

\* A token that is not the accepted one is refused; one that was rotated ends the session.
Refresh(t) ==
  /\ tab[t].kind = "refresh"
  /\ IF tab[t].guard /\ tab[t].token # 0
     THEN IF tab[t].token = valid THEN Issue(t)
          ELSE Answer(t, "none", 0) /\ valid' = 0 /\ UNCHANGED issued
     ELSE Refuse(t)
  /\ UNCHANGED google

\* Whatever the token is worth, the cookies are cleared.
Logout(t) ==
  /\ tab[t].kind = "logout"
  /\ IF tab[t].guard
     THEN /\ Answer(t, "clear", 0)
          /\ valid' = (IF tab[t].token = valid THEN 0 ELSE valid)
          /\ UNCHANGED issued
     ELSE Refuse(t)
  /\ UNCHANGED google

\* logout_all, and set_password of an account that has one; both need the access token.
EndAll(t) ==
  /\ tab[t].kind \in {"logout_all", "change_password"}
  /\ IF tab[t].guard /\ tab[t].access
     THEN Answer(t, "clear", 0) /\ valid' = 0 /\ UNCHANGED issued
     ELSE Refuse(t)
  /\ UNCHANGED google

\* google_oauth.start
StartGoogle(t) ==
  /\ tab[t].kind = "start"
  /\ consents < MaxConsents
  /\ consents' = consents + 1
  /\ states' = states \cup {consents + 1}
  /\ Refuse(t)
  /\ UNCHANGED opened

\* google_callback, of a consent that was cancelled: nothing is looked up.
Cancel(t) ==
  /\ tab[t].kind = "callback"
  /\ Refuse(t)
  /\ UNCHANGED google

\* consume_state deletes the key it finds; then the exchange and the sign-in work or not.
Callback(t) ==
  /\ tab[t].kind = "callback"
  /\ IF tab[t].state \in states
     THEN /\ Issue(t) \/ Refuse(t)
          /\ opened' = [opened EXCEPT ![tab[t].state] = @ + issued' - issued]
     ELSE Refuse(t) /\ UNCHANGED opened
  /\ states' = states \ {tab[t].state}
  /\ UNCHANGED consents

Handle(t) ==
  /\ tab[t].pc = "sent"
  /\ \/ Enter(t) \/ Refresh(t) \/ Logout(t) \/ EndAll(t)
     \/ StartGoogle(t) \/ Cancel(t) \/ Callback(t)
  /\ UNCHANGED jar

\* A bug: the CSRF cookie is as old as the access token lets it be.
CookiesShort(token) ==
  [access |-> AccessLife, refresh |-> RefreshLife, csrf |-> AccessLife, token |-> token]

\* _set_auth_cookies
Cookies(token) ==
  [access |-> AccessLife, refresh |-> RefreshLife, csrf |-> RefreshLife, token |-> token]

\* The answer reaches the browser, or gets lost.
Arrive(t) ==
  /\ tab[t].pc = "answered"
  /\ jar' = CASE tab[t].cookies = "set"   -> Cookies(tab[t].token)
              [] tab[t].cookies = "clear" -> EmptyJar
              [] OTHER                    -> jar
  /\ tab' = [tab EXCEPT ![t] = IdleTab]
  /\ UNCHANGED << valid, issued, google >>

Lose(t) ==
  /\ tab[t].pc = "answered"
  /\ tab' = [tab EXCEPT ![t] = IdleTab]
  /\ UNCHANGED << jar, valid, issued, google >>

Less(n) == IF n = 0 THEN 0 ELSE n - 1

\* Time passes in the browser, for all cookies; a state that waits too long is gone.
Tick ==
  /\ \/ /\ jar.refresh > 0
        /\ jar' = [access |-> Less(jar.access), refresh |-> Less(jar.refresh),
                   csrf |-> Less(jar.csrf), token |-> IF jar.refresh = 1 THEN 0 ELSE jar.token]
        /\ states' = states
     \/ \E c \in states : states' = states \ {c} /\ jar' = jar
  /\ UNCHANGED << tab, valid, issued, consents, opened >>

Next ==
  \/ \E t \in Tabs : Send(t) \/ SendBack(t) \/ Handle(t) \/ Arrive(t) \/ Lose(t)
  \/ Tick

Spec == Init /\ [][Next]_vars

-----------------------------------------------------------------------------
(* Properties.                                                             *)

\* "The session became unusable fifteen minutes in, with no way out but logging in again"
\* (router.py, on the lifetime of the CSRF cookie): whatever answers overlap or get lost,
\* a browser with a session cookie has the CSRF cookie its writes, the refresh among
\* them, are asked for; no write of its own is refused for it.
NobodyIsLockedOut ==
  /\ jar.access > 0 \/ jar.refresh > 0 => jar.csrf > 0
  /\ \A t \in Tabs : tab[t].guard

\* "Two callbacks racing cannot both succeed" (google_oauth.py).
OneSessionPerConsent == \A c \in 1 .. MaxConsents : opened[c] <= 1

SignInWorksOnceAndStays == NobodyIsLockedOut /\ OneSessionPerConsent
=============================================================================
