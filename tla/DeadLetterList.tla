--------------------------- MODULE DeadLetterList ---------------------------
(***************************************************************************)
(* The list of the tasks that were given up on, and the script that        *)
(* replays them.  An entry is written once and then is in the list, with a *)
(* script that drained it, or queued again; else it is lost.  A step is    *)
(* one command to Redis or one message sent to the broker.                 *)
(***************************************************************************)
EXTENDS Naturals, Sequences, SequencesExt

CONSTANTS
  Replayable,  \* the tasks of REPLAYABLE
  Mails,       \* the other ones: emails.send
  Scripts,     \* replays that may run side by side
  MaxEntries,  \* MAX_ENTRIES, 1000
  MaxGivenUp,  \* bound: tasks given up on in a behaviour
  MaxReplays   \* bound: times the script is run

ConstantsAssumption ==
  /\ MaxEntries \in Nat \ {0}
  /\ MaxGivenUp \in Nat
  /\ MaxReplays \in Nat

Tasks == Replayable \cup Mails

VARIABLES
  dead,    \* the Redis list, newest first: entries by number
  taskOf,  \* the task of each entry written so far
  script,  \* what each replay does, and the entries it still has to send or put back
  sent,    \* history: the entries queued again, each time
  lost,    \* history: where an entry may legitimately have ended
  replays

vars == << dead, taskOf, script, sent, lost, replays >>

Entries == 1 .. Len(taskOf)

Script == [ pc      : {"idle", "asking", "sending", "restoring"},
            chosen  : Seq(Nat),
            skipped : Seq(Nat) ]

IdleScript == [pc |-> "idle", chosen |-> << >>, skipped |-> << >>]

TypeOK ==
  /\ dead \in Seq(Nat)
  /\ taskOf \in Seq(Tasks)
  /\ script \in [Scripts -> Script]
  /\ sent \in Seq(Nat)
  /\ lost \in SUBSET Nat
  /\ replays \in Nat

Init ==
  /\ dead = << >>
  /\ taskOf = << >>
  /\ script = [s \in Scripts |-> IdleScript]
  /\ sent = << >>
  /\ lost = {}
  /\ replays = 0

-----------------------------------------------------------------------------

At(s, pc) == script[s].pc = pc

\* LPUSH and LTRIM, in one transaction.
Pushed(e) ==
  IF Len(dead) < MaxEntries THEN << e >> \o dead ELSE << e >> \o Front(dead)

\* record: the list, or an error that is swallowed.
Record(e) ==
  \/ dead' = Pushed(e) /\ lost' = lost \cup (Range(dead) \ Range(Pushed(e)))
  \/ dead' = dead /\ lost' = lost \cup {e}

\* A task has run out of retries.
GiveUp ==
  /\ Len(taskOf) < MaxGivenUp
  /\ \E t \in Tasks : taskOf' = Append(taskOf, t)
  /\ Record(Len(taskOf) + 1)
  /\ UNCHANGED << script, sent, replays >>

\* The entries of a list whose task is one of some, in the order of the list.
Filtered(list, tasks) ==
  LET upTo[n \in 0 .. Len(list)] ==
        IF n = 0 THEN << >>
        ELSE IF taskOf[list[n]] \in tasks THEN Append(upTo[n - 1], list[n])
        ELSE upTo[n - 1]
  IN upTo[Len(list)]

\* A bug: the list is read and not emptied.
DrainOnly(s) ==
  /\ At(s, "idle")
  /\ replays < MaxReplays
  /\ dead # << >>
  /\ \E filter \in {Tasks} \cup {{t} : t \in Tasks} :
       script' = [script EXCEPT ![s] =
         [pc |-> "asking", chosen |-> Filtered(dead, filter),
          skipped |-> Filtered(dead, Tasks \ filter)]]
  /\ replays' = replays + 1
  /\ UNCHANGED << dead, taskOf, sent, lost >>

\* drain: LRANGE and DEL in one transaction, then the filter by task.
Drain(s) ==
  /\ At(s, "idle")
  /\ replays < MaxReplays
  /\ dead # << >>
  /\ \E filter \in {Tasks} \cup {{t} : t \in Tasks} :
       script' = [script EXCEPT ![s] =
         [pc |-> "asking", chosen |-> Filtered(dead, filter),
          skipped |-> Filtered(dead, Tasks \ filter)]]
  /\ dead' = << >>
  /\ replays' = replays + 1
  /\ UNCHANGED << taskOf, sent, lost >>

\* The operator goes on.
Confirm(s) ==
  /\ At(s, "asking")
  /\ script' = [script EXCEPT ![s].pc = "sending"]
  /\ UNCHANGED << dead, taskOf, sent, lost, replays >>

\* The operator does not: all of it goes back, oldest first.  The order of the two parts
\* in the list is not followed.
Decline(s) ==
  /\ At(s, "asking")
  /\ script' = [script EXCEPT ![s] =
       [pc |-> "restoring", chosen |-> << >>,
        skipped |-> script[s].chosen \o script[s].skipped]]
  /\ UNCHANGED << dead, taskOf, sent, lost, replays >>

\* One entry of the loop: sent again, or skipped as not replayable.
Send(s) ==
  /\ At(s, "sending")
  /\ script[s].chosen # << >>
  /\ LET e == Head(script[s].chosen) IN
     IF taskOf[e] \in Replayable
     THEN sent' = Append(sent, e) /\ lost' = lost
     ELSE sent' = sent /\ lost' = lost \cup {e}
  /\ script' = [script EXCEPT ![s].chosen = Tail(@)]
  /\ UNCHANGED << dead, taskOf, replays >>

SentAll(s) ==
  /\ At(s, "sending")
  /\ script[s].chosen = << >>
  /\ script' = [script EXCEPT ![s].pc = "restoring"]
  /\ UNCHANGED << dead, taskOf, sent, lost, replays >>

\* One record of the loop over reversed(skipped).
PutBack(s) ==
  /\ At(s, "restoring")
  /\ IF script[s].skipped = << >>
     THEN script' = [script EXCEPT ![s] = IdleScript] /\ UNCHANGED << dead, lost >>
     ELSE /\ Record(Last(script[s].skipped))
          /\ script' = [script EXCEPT ![s].skipped = Front(@)]
  /\ UNCHANGED << taskOf, sent, replays >>

\* The script is interrupted, or the broker refuses a message: what it holds is gone.
Die(s) ==
  /\ ~At(s, "idle")
  /\ lost' = lost \cup Range(script[s].chosen) \cup Range(script[s].skipped)
  /\ script' = [script EXCEPT ![s] = IdleScript]
  /\ UNCHANGED << dead, taskOf, sent, replays >>

Next ==
  \/ GiveUp
  \/ \E s \in Scripts : \/ Drain(s) \/ Confirm(s) \/ Decline(s) \/ Send(s) \/ SentAll(s)
                        \/ PutBack(s) \/ Die(s)

Spec == Init /\ [][Next]_vars

-----------------------------------------------------------------------------
(* Properties.                                                             *)

Held(s) == script[s].chosen \o script[s].skipped

\* "A replay cannot run the same entry twice" (dead_letter.py, drain): an entry is in one
\* place only, in the list, queued again or with one script, whatever tasks fail and whatever
\* scripts run meanwhile; it is in none only if the list was full, a record failed, a script
\* died, or its task is not replayable.
EntriesAreMoved ==
  /\ IsInjective(dead \o sent)
  /\ \A s \in Scripts :
       /\ IsInjective(dead \o sent \o Held(s))
       /\ \A t \in Scripts \ {s} : Range(Held(s)) \cap Range(Held(t)) = {}
  /\ Entries \subseteq
       Range(dead \o sent) \cup (UNION {Range(Held(s)) : s \in Scripts}) \cup lost
  /\ Len(dead) <= MaxEntries

\* "Whatever was filtered out, or could not be replayed, goes back on the list"
\* (scripts/dead_letter.py): an entry that is taken out of a script was sent.
NothingIsDiscarded ==
  [][\A s \in Scripts : Send(s) =>
       \A e \in Range(Held(s)) \ Range(Held(s)') : e \in Range(sent')]_vars
=============================================================================
