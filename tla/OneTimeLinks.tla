----------------------------- MODULE OneTimeLinks -----------------------------
(***************************************************************************)
(* The one-time links of an account: the ones that reset its password and  *)
(* the ones that verify its address.  A request for a link spends the      *)
(* earlier ones with one UPDATE and adds its own at its commit; the mail   *)
(* goes out after that, or never.  UPDATE ... WHERE used_at IS NULL        *)
(* reaches the links committed when it is sent.                            *)
(***************************************************************************)
EXTENDS Naturals, Sequences

CONSTANTS
  Requests,  \* requests that may be in flight together
  MaxLinks   \* bound: verification_tokens rows

VARIABLES
  verified,  \* email_verified_at is set
  links,     \* verification_tokens, in the order of their commits
  asking     \* what each request has read

vars == << verified, links, asking >>

Purposes == {"password_reset", "email_verification"}

Link == [ purpose : Purposes,
          state   : {"usable", "superseded", "confirmed"},
          expired : BOOLEAN,
          mailed  : BOOLEAN,
          seen    : Nat ]       \* history: the links its request could spend

Asking == [ pc      : {"idle", "issuing", "mailing", "confirming"},
            purpose : Purposes \cup {"none"},
            link    : Nat,      \* the link it mails or confirms
            seen    : Nat ]

Idle == [pc |-> "idle", purpose |-> "none", link |-> 0, seen |-> 0]

TypeOK ==
  /\ verified \in BOOLEAN
  /\ links \in Seq(Link)
  /\ asking \in [Requests -> Asking]
  /\ \A q \in Requests :
       asking[q].pc \in {"mailing", "confirming"} => asking[q].link \in DOMAIN links

Init ==
  /\ verified = FALSE
  /\ links = << >>
  /\ asking = [q \in Requests |-> Idle]

At(q, pc) == asking[q].pc = pc

\* request_password_reset and send_email_verification up to the UPDATE; a verified
\* address is asked for nothing.
Ask(q) ==
  /\ At(q, "idle")
  /\ \E purpose \in Purposes :
       /\ purpose = "email_verification" => ~verified
       /\ asking' = [asking EXCEPT ![q] = [pc |-> "issuing", purpose |-> purpose,
                                           link |-> 0, seen |-> Len(links)]]
  /\ UNCHANGED << verified, links >>

NewLink(q) == [ purpose |-> asking[q].purpose, state |-> "usable", expired |-> FALSE,
                mailed |-> FALSE, seen |-> asking[q].seen ]

Issued(q) == asking' = [asking EXCEPT ![q] = [Idle EXCEPT !.pc = "mailing",
                                                          !.link = Len(links) + 1]]

\* A bug: the earlier links stay usable.
IssueOnly(q) ==
  /\ At(q, "issuing")
  /\ Len(links) < MaxLinks
  /\ links' = Append(links, NewLink(q))
  /\ Issued(q)
  /\ UNCHANGED verified

\* invalidate_outstanding
Spends(q, t) ==
  /\ t <= asking[q].seen
  /\ links[t].purpose = asking[q].purpose
  /\ links[t].state = "usable"

\* _issue and the commit.
Issue(q) ==
  /\ At(q, "issuing")
  /\ Len(links) < MaxLinks
  /\ links' = Append([t \in DOMAIN links |->
                        IF Spends(q, t) THEN [links[t] EXCEPT !.state = "superseded"]
                        ELSE links[t]], NewLink(q))
  /\ Issued(q)
  /\ UNCHANGED verified

\* _queue, or the broker refuses it, or the request dies: the link is never mailed.
Mail(q) ==
  /\ At(q, "mailing")
  /\ \E sent \in BOOLEAN : links' = [links EXCEPT ![asking[q].link].mailed = sent]
  /\ asking' = [asking EXCEPT ![q] = Idle]
  /\ UNCHANGED verified

\* get_usable: not spent and not expired.
Open(q) ==
  /\ At(q, "idle")
  /\ \E t \in DOMAIN links :
       /\ links[t].mailed /\ links[t].state = "usable" /\ ~links[t].expired
       /\ asking' = [asking EXCEPT ![q] = [Idle EXCEPT !.pc = "confirming", !.link = t]]
  /\ UNCHANGED << verified, links >>

\* confirm_password_reset and confirm_email_verification.  What a reset does to the
\* sessions is in Sessions.
Confirm(q) ==
  /\ At(q, "confirming")
  /\ LET t == asking[q].link IN
     /\ links' = [links EXCEPT ![t].state = "confirmed"]
     /\ verified' = (verified \/ links[t].purpose = "email_verification")
  /\ asking' = [asking EXCEPT ![q] = Idle]

Expire(t) ==
  /\ ~links[t].expired
  /\ links' = [links EXCEPT ![t].expired = TRUE]
  /\ UNCHANGED << verified, asking >>

Next ==
  \/ \E q \in Requests : Ask(q) \/ Issue(q) \/ Mail(q) \/ Open(q) \/ Confirm(q)
  \/ \E t \in DOMAIN links : Expire(t)

Spec == Init /\ [][Next]_vars

\* "Asking for a new link kills the previous one" (account_service.py), and only the
\* previous ones: two links of a purpose are usable only if the later request was under
\* way when the first was committed, and no request spends a link that is newer than all
\* it could read, so the last one asked for works.
LastLinkWins ==
  \A s, t \in DOMAIN links :
    links[s].purpose = links[t].purpose /\ links[s].state # "confirmed" =>
      /\ s < t /\ s <= links[t].seen => links[s].state = "superseded"
      /\ links[s].state = "superseded" =>
           \E n \in DOMAIN links : links[n].purpose = links[s].purpose /\ n > s
=============================================================================
