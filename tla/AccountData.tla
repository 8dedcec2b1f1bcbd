----------------------------- MODULE AccountData -----------------------------
(***************************************************************************)
(* Leaving and taking one's data along: the erasure of an account against  *)
(* uploads, deletions and sign-ins that go on meanwhile, and the export.   *)
(*                                                                         *)
(* The erasure removes the files one call at a time and then commits the   *)
(* rest: the addresses in the logs are overwritten, the rows go by         *)
(* cascade.  The export is a sequence of queries at READ COMMITTED.        *)
(***************************************************************************)
EXTENDS Naturals

CONSTANT Documents  \* the files the account may upload

VARIABLES
  user,      \* the users row is there
  row,       \* the document rows
  file,      \* the files in the object storage
  upload,    \* where the upload of each document is
  erasure,   \* where the erasure is, the paths it read and those still to remove
  known,     \* history: the documents with a row when the erasure read
  kept,      \* history: the files the storage refused to remove
  named,     \* the log rows that hold the address, with and without its user_id
  late       \* history: an owned row was written after the logs were overwritten

erasing == << erasure, known, kept >>
logs    == << named, late >>
vars    == << user, row, file, upload, erasing, logs >>

Erasure == [ pc   : {"idle", "removing", "renamed", "done"},
             left : SUBSET Documents ]

TypeOK ==
  /\ user \in BOOLEAN
  /\ row \in [Documents -> {"none", "live", "trashed"}]
  /\ file \in [Documents -> BOOLEAN]
  /\ upload \in [Documents -> {"idle", "stored", "done"}]
  /\ erasure \in Erasure
  /\ known \in SUBSET Documents
  /\ kept \in SUBSET Documents
  /\ named \in SUBSET {"owned", "anonymous"}
  /\ late \in BOOLEAN

Init ==
  /\ user = TRUE
  /\ row = [d \in Documents |-> "none"]
  /\ file = [d \in Documents |-> FALSE]
  /\ upload = [d \in Documents |-> "idle"]
  /\ erasure = [pc |-> "idle", left |-> {}]
  /\ known = {}
  /\ kept = {}
  /\ named = {}
  /\ late = FALSE

-----------------------------------------------------------------------------
(* The other requests of the account.                                      *)

\* put_object; an upload that was let in goes on while the account is erased.
Store(d) ==
  /\ user
  /\ upload[d] = "idle"
  /\ file' = [file EXCEPT ![d] = TRUE]
  /\ upload' = [upload EXCEPT ![d] = "stored"]
  /\ UNCHANGED << user, row, erasing, logs >>

\* register; without its subject, or its user, the row is refused.
Register(d) ==
  /\ upload[d] = "stored"
  /\ \E accepted \in {user, FALSE} :
       row' = IF accepted THEN [row EXCEPT ![d] = "live"] ELSE row
  /\ upload' = [upload EXCEPT ![d] = "done"]
  /\ UNCHANGED << user, file, erasing, logs >>

\* A soft delete, of the document or of its subject, keeps the row and the file.
Trash(d) ==
  /\ row[d] = "live"
  /\ row' = [row EXCEPT ![d] = "trashed"]
  /\ UNCHANGED << user, file, upload, erasing, logs >>

\* An event of the account is logged with its address and its user_id.
LogEvent ==
  /\ user
  /\ named' = named \cup {"owned"}
  /\ late' = (late \/ erasure.pc = "renamed")
  /\ UNCHANGED << user, row, file, upload, erasing >>

\* A sign-in that is refused by the limiter is logged by address, without a user_id.
LogRateLimited ==
  /\ user
  /\ named' = named \cup {"anonymous"}
  /\ UNCHANGED << user, row, file, upload, erasing, late >>

-----------------------------------------------------------------------------
(* The erasure.                                                            *)

\* A bug: the documents in the trash are not looked for.
ReadLivePaths ==
  /\ user
  /\ erasure.pc = "idle"
  /\ erasure' = [pc |-> "removing", left |-> {d \in Documents : row[d] = "live"}]
  /\ known' = {d \in Documents : row[d] # "none"}
  /\ kept' = {}
  /\ UNCHANGED << user, row, file, upload, logs >>

ReadPaths ==
  /\ user
  /\ erasure.pc = "idle"
  /\ erasure' = [pc |-> "removing", left |-> {d \in Documents : row[d] # "none"}]
  /\ known' = {d \in Documents : row[d] # "none"}
  /\ kept' = {}
  /\ UNCHANGED << user, row, file, upload, logs >>

\* remove_object; its errors are swallowed.
Remove ==
  /\ erasure.pc = "removing"
  /\ \E d \in erasure.left, removed \in BOOLEAN :
       /\ erasure' = [erasure EXCEPT !.left = @ \ {d}]
       /\ file' = IF removed THEN [file EXCEPT ![d] = FALSE] ELSE file
       /\ kept' = IF removed THEN kept ELSE kept \cup {d}
  /\ UNCHANGED << user, row, upload, known, logs >>

\* UPDATE of auth_logs and of audit_log, by user_id.
Rename ==
  /\ erasure.pc = "removing"
  /\ erasure.left = {}
  /\ named' = named \ {"owned"}
  /\ erasure' = [erasure EXCEPT !.pc = "renamed"]
  /\ UNCHANGED << user, row, file, upload, known, kept, late >>

\* DELETE of the user and the commit: rows go by cascade, user_id in the logs to NULL.
Erase ==
  /\ erasure.pc = "renamed"
  /\ user' = FALSE
  /\ row' = [d \in Documents |-> "none"]
  /\ named' = IF named = {} THEN {} ELSE {"anonymous"}
  /\ erasure' = [erasure EXCEPT !.pc = "done"]
  /\ UNCHANGED << file, upload, known, kept, late >>

\* The request dies or the database refuses: nothing is committed, files stay removed.
Abandon ==
  /\ erasure.pc \in {"removing", "renamed"}
  /\ erasure' = [pc |-> "idle", left |-> {}]
  /\ UNCHANGED << user, row, file, upload, known, kept, logs >>

Next ==
  \/ \E d \in Documents : Store(d) \/ Register(d) \/ Trash(d)
  \/ LogEvent \/ LogRateLimited
  \/ ReadPaths \/ Remove \/ Rename \/ Erase \/ Abandon

Spec == Init /\ [][Next]_vars

-----------------------------------------------------------------------------
(* Properties.                                                             *)

\* "A row deleted with its file left behind is a file nobody can find"
\* (account_data_service.py, erase): of an erased account no row is left, however often
\* the erasure was tried, and no file but those the storage refused to remove and those
\* of uploads that were not registered yet when the paths were read.
NothingIsLeftBehind ==
  ~user => \A d \in Documents :
             row[d] = "none" /\ (file[d] /\ d \in known => d \in kept)

\* "The security logs keep their events with the person taken out of them"
\* (account_data_service.py, erase).
ErasedMeansUnnamed == ~user /\ ~late => named = {}
=============================================================================
