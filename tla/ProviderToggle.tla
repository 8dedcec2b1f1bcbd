---------------------------- MODULE ProviderToggle ----------------------------
(***************************************************************************)
(* The switch of the language-model providers: an admin's request reads    *)
(* the rows of ai_provider without a lock, decides, and commits.  What a   *)
(* call of the gateway reads of them is the constant Disablings of         *)
(* LLMGateway: the sets of names this module can reach.                    *)
(***************************************************************************)
EXTENDS Naturals

CONSTANTS
  Providers,
  Offline,     \* ollama
  Configured,  \* the providers with a key; always the offline one
  Admins       \* requests that may be in flight together

ConstantsAssumption == Offline \in Configured /\ Configured \subseteq Providers

VARIABLES
  enabled,     \* ai_provider.enabled
  switch,      \* what each request read and was asked for
  overlapped   \* history: two requests that were let through overlapped

vars == << enabled, switch, overlapped >>

Switch == [ on   : BOOLEAN,               \* the request is in flight
            name : Providers,
            to   : BOOLEAN,
            read : [Providers -> BOOLEAN],
            raced : BOOLEAN ]             \* history: the rows changed since it read

TypeOK ==
  /\ enabled \in [Providers -> BOOLEAN]
  /\ switch \in [Admins -> Switch]
  /\ overlapped \in BOOLEAN

AllOn  == [p \in Providers |-> TRUE]
NoSwitch == [on |-> FALSE, name |-> Offline, to |-> TRUE, read |-> AllOn, raced |-> FALSE]

Init ==
  /\ enabled = AllOn
  /\ switch = [a \in Admins |-> NoSwitch]
  /\ overlapped = FALSE

\* The providers that can serve besides ollama.
Serving(rows) == {p \in Configured \ {Offline} : rows[p]}

\* A bug: the rows are looked at as they are, not as they will be.
MayBecomeBefore(rows, p, on) == (p = Offline => on) /\ Serving(rows) # {}

\* Ollama stays on, and one that is configured stays active besides it.
MayBecome(rows, p, on) ==
  /\ p = Offline => on
  /\ Serving([rows EXCEPT ![p] = on]) # {}

\* set_enabled up to its decision; refused requests change nothing.
Decide(a) ==
  /\ ~switch[a].on
  /\ \E p \in Providers, on \in BOOLEAN :
       /\ MayBecome(enabled, p, on)
       /\ switch' = [switch EXCEPT ![a] = [on |-> TRUE, name |-> p, to |-> on,
                                           read |-> enabled, raced |-> FALSE]]
  /\ UNCHANGED << enabled, overlapped >>

\* The commit; a row that already had the value as it was read is not written.
Commit(a) ==
  LET r == switch[a] IN
  /\ r.on
  /\ enabled' = IF r.read[r.name] = r.to THEN enabled ELSE [enabled EXCEPT ![r.name] = r.to]
  /\ overlapped' = (overlapped \/ r.raced)
  /\ switch' = [b \in Admins |->
                  IF b = a THEN NoSwitch
                  ELSE [switch[b] EXCEPT !.raced = (@ \/ (switch[b].on /\ enabled' # enabled))]]

Next == \E a \in Admins : Decide(a) \/ Commit(a)

Spec == Init /\ [][Next]_vars

\* "There must always remain at least one active provider besides Ollama"
\* (providers_service.py), and ollama is never off: whatever is switched, one request
\* after the other.  Two that overlap each count on the provider the other turns off.
SomebodyServes ==
  enabled[Offline] /\ (overlapped \/ Serving(enabled) # {})
=============================================================================
