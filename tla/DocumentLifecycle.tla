--------------------------- MODULE DocumentLifecycle ---------------------------
(***************************************************************************)
(* What the ingestion promises to whoever looks at a document: a badge     *)
(* with its status, its text, and whether it is still there.  Nothing is   *)
(* said of workers, messages or retries; deliveries may overlap, so work   *)
(* may begin again, or fail, whatever the badge says.                      *)
(***************************************************************************)
CONSTANT Documents

VARIABLES
  status,   \* the badge
  hasText,  \* a search can find a passage of it
  deleted

vars == << status, hasText, deleted >>

Init ==
  /\ status  = [d \in Documents |-> "absent"]
  /\ hasText = [d \in Documents |-> FALSE]
  /\ deleted = [d \in Documents |-> FALSE]

Shows(d, s) == status' = [status EXCEPT ![d] = s]

Appear(d) ==
  /\ status[d] = "absent"
  /\ Shows(d, "PENDING")
  /\ UNCHANGED << hasText, deleted >>

Begin(d) ==
  /\ status[d] # "absent"
  /\ Shows(d, "PROCESSING")
  /\ UNCHANGED << hasText, deleted >>

\* The text is there before the badge says so, and is never taken away.
Fill(d) ==
  /\ status[d] # "absent"
  /\ hasText' = [hasText EXCEPT ![d] = TRUE]
  /\ UNCHANGED << status, deleted >>

Publish(d) ==
  /\ hasText[d]
  /\ Shows(d, "INDEXED")
  /\ UNCHANGED << hasText, deleted >>

GiveUp(d) ==
  /\ status[d] # "absent"
  /\ Shows(d, "FAILED")
  /\ UNCHANGED << hasText, deleted >>

Remove(d) ==
  /\ status[d] # "absent" /\ ~deleted[d]
  /\ deleted' = [deleted EXCEPT ![d] = TRUE]
  /\ UNCHANGED << status, hasText >>

Next ==
  \E d \in Documents :
    Appear(d) \/ Begin(d) \/ Fill(d) \/ Publish(d) \/ GiveUp(d) \/ Remove(d)

Spec == Init /\ [][Next]_vars
=============================================================================
