----------------------------- MODULE MCServices -----------------------------
(***************************************************************************)
(* The services around the ingestion and the generation, each as an        *)
(* instance of its own.  They do not interact: a behaviour is one of       *)
(* `part`, and the others stay where they began.  The sizes of the parts   *)
(* that ServicesProofs has theorems about are constants.                   *)
(***************************************************************************)
EXTENDS Naturals, Sequences, FiniteSets, TLC

CONSTANTS
  Requests,                   \* of Sessions, OneTimeLinks and Catalogs
  MaxSessions, MaxEndings,    \* of Sessions
  MaxLinks,                   \* of OneTimeLinks
  Documents,                  \* of AccountData and ItemSources
  Replayable, Mails, Scripts, MaxEntries, MaxGivenUp, MaxReplays,     \* of DeadLetterList
  Providers, Offline, Configured, Admins,                            \* of ProviderToggle
  Tabs, AccessLife, RefreshLife, MaxTokens, MaxConsents,             \* of BrowserSession
  Icons, None, Categories, Types, MaxAudits,                         \* of Catalogs
  Deliveries, Linked, MaxTries, MaxEditions,                         \* of ItemSources
  q1, q2, r1, r2, s1, t1, t2, opus, llama  \* model values of the parts below that name them

VARIABLES
  part,
  \* Sessions
  account, password, linked, sessions, endings, request,
  \* OneTimeLinks
  verified, links, asking,
  \* AccountData
  user, row, file, upload, erasure, known, kept, named, late,
  \* AccountExport
  stored, queries, exported, before,
  \* DeadLetterList
  dead, taskOf, script, sent, lost, replays,
  \* ProviderToggle
  enabled, switch, overlapped,
  \* SchemaMigrations
  at, schema, rows, broken, fresh,
  \* MonthlyBudget
  month, door, queue, work, cost, share, born, paid, atDoor, repeats,
  \* RoadmapSchedule
  ends, size, placed, scheduleBefore, module, dates, days,
  \* HybridSearch
  trashed, searchStored, query, answer, readable,
  \* EmbeddingCache
  cached, job, expired,
  \* Chunker
  lines, stack, body, chunks,
  \* BrowserSession
  jar, tab, valid, issued, states, consents, opened,
  \* Catalogs
  icons, subject, audit, stale, chosen, categories, deletions, types,
  catalogsRequest,
  \* ItemSources
  edition, removed, status, text, sources, attempt, prompts, citationsOverlapped,
  \* RoadmapReview
  evalEnabled, classes, stage, context, transaction, attempts, roadmap, reviewed, calls

\* A call of the model in the cloud costs, one of the local model does not.
Price == [m \in {opus, llama} |-> IF m = opus THEN 1 ELSE 0]

\* Two titles, and one of them with a prompt that is too short.
PlannedItems ==
  {[title |-> t1, short |-> FALSE], [title |-> t1, short |-> TRUE],
   [title |-> t2, short |-> FALSE]}

\* The last chunk is another account's.
ContentOf == [k \in 1 .. 4 |-> IF k = 4 THEN "b" ELSE IF k = 1 THEN "a" ELSE "a2"]

\* Requests side by side over the refresh tokens of an account.
SessionsPart == INSTANCE Sessions

\* Requests side by side over its one-time links.
Links == INSTANCE OneTimeLinks

\* Uploads, deletions and sign-ins while the account is erased.
Erasure == INSTANCE AccountData

\* The account grows while it is exported.
Export == INSTANCE AccountExport

\* A list that overflows while the script runs, dies and is run again.
DeadLetters == INSTANCE DeadLetterList

\* Admins side by side over the providers.
Toggle == INSTANCE ProviderToggle

\* Every way through the 27 revisions.
Migrations == INSTANCE SchemaMigrations

\* Two tasks of a generation side by side, a message that comes back, and the turn of the month.
\* Plans of no day to five days, up to four modules.  Roadmaps of up to four items, for a period of one class and one
\* of six.
Planning == INSTANCE PlanningProofs WITH
  Runs <- {r1, r2}, Slots <- {s1}, Models <- {opus, llama}, Price <- Price,
  Limit <- 1, MaxDrafts <- 1, MaxActivities <- 1, MaxRepeats <- 1, MaxMonths <- 1,
  FirstDay <- 3, LastDays <- 2 .. 7, MaxModules <- 4, MaxItems <- 2,
  before <- scheduleBefore,
  PlannedItems <- PlannedItems, Periods <- {0, 14}, Cadences <- {3},
  MaxDrafted <- 2, MaxIssues <- 1

\* Deliveries of an item, and documents beside those its plan selected.  Two contents of the
\* account and one of another; the pool is smaller than the list.  Two ingestions that share
\* texts, in batches, with a retry and an expiry.  Every document of four lines.
Passages == INSTANCE PassageProofs WITH
  overlapped <- citationsOverlapped,
  Chunks <- 1 .. 4, Contents <- {"a", "a2", "b"}, Mine <- {"a", "a2"}, ContentOf <- ContentOf,
  Pool <- 2, RrfK <- 1, Limit <- 2,
  stored <- searchStored,
  Texts <- {t1, t2}, MaxLength <- 2, Jobs <- {q1, q2}, BatchSize <- 1,
  MaxAttempts <- 2, MaxExpired <- 1,
  MaxChars <- 9, Overlap <- 2, Levels <- {1, 2}, Lengths <- {1, 4, 8, 12},
  TitleLength <- 2, MaxLines <- 4

\* Tabs of a browser, and cookies that end one after the other.
Browser == INSTANCE BrowserSession

\* The icons of a subject, and categories with their types.
CatalogsPart == INSTANCE Catalogs WITH
  request <- catalogsRequest

ASSUME PartsAssumption ==
  /\ SessionsPart!ConstantsAssumption
  /\ DeadLetters!ConstantsAssumption
  /\ Toggle!ConstantsAssumption
  /\ Planning!ConstantsAssumption
  /\ Planning!Calendar!ConstantsAssumption
  /\ Passages!Search!ConstantsAssumption
  /\ Passages!Embedding!ConstantsAssumption
  /\ Passages!Chunking!ConstantsAssumption
  /\ Browser!ConstantsAssumption
  /\ CatalogsPart!ConstantsAssumption
  /\ Passages!ConstantsAssumption
  /\ Planning!Reviewing!ConstantsAssumption

sessionsVars ==
  << account, password, linked, sessions, endings, request >>
linksVars ==
  << verified, links, asking >>
erasureVars ==
  << user, row, file, upload, erasure, known, kept, named, late >>
exportVars ==
  << stored, queries, exported, before >>
deadLettersVars ==
  << dead, taskOf, script, sent, lost, replays >>
toggleVars ==
  << enabled, switch, overlapped >>
migrationsVars ==
  << at, schema, rows, broken, fresh >>
budgetVars ==
  << month, door, queue, work, cost, share, born, paid, atDoor, repeats >>
calendarVars ==
  << ends, size, placed, scheduleBefore, module, dates, days >>
searchVars ==
  << trashed, searchStored, query, answer, readable >>
embeddingVars ==
  << cached, job, expired >>
chunksVars ==
  << lines, stack, body, chunks >>
browserVars ==
  << jar, tab, valid, issued, states, consents, opened >>
catalogsVars ==
  << icons, subject, audit, stale, chosen, categories, deletions, types,
     catalogsRequest >>
citationsVars ==
  << edition, removed, status, text, sources, attempt, prompts, citationsOverlapped >>
reviewVars ==
  << evalEnabled, classes, stage, context, transaction, attempts, roadmap, reviewed,
     calls >>

vars ==
  << part, sessionsVars, linksVars, erasureVars, exportVars, deadLettersVars, toggleVars,
     migrationsVars, budgetVars, calendarVars, searchVars, embeddingVars, chunksVars,
     browserVars, catalogsVars, citationsVars, reviewVars >>

Init ==
  /\ part \in {"sessions", "links", "erasure", "export", "dead_letters", "providers",
               "migrations", "budget", "schedule", "search", "embedding", "chunks",
               "browser", "catalogs", "citations", "review"}
  /\ SessionsPart!Init
  /\ Links!Init
  /\ Erasure!Init
  /\ Export!Init
  /\ DeadLetters!Init
  /\ Toggle!Init
  /\ Migrations!Init
  /\ Planning!Init
  /\ Planning!Calendar!Init
  /\ Passages!Search!Init
  /\ Passages!Embedding!Init
  /\ Passages!Chunking!Init
  /\ Browser!Init
  /\ CatalogsPart!Init
  /\ Passages!Init
  /\ Planning!Reviewing!Init
  /\ part # "schedule" => ends = 7 /\ size = 1
  /\ part # "review" => evalEnabled /\ classes = 1

\* The others stay where they began.
SessionsPartMoves ==
  /\ part = "sessions" /\ SessionsPart!Next
  /\ UNCHANGED << part, linksVars, erasureVars, exportVars, deadLettersVars, toggleVars,
                   migrationsVars, budgetVars, calendarVars, searchVars, embeddingVars,
                   chunksVars, browserVars, catalogsVars, citationsVars, reviewVars >>

LinksMoves ==
  /\ part = "links" /\ Links!Next
  /\ UNCHANGED << part, sessionsVars, erasureVars, exportVars, deadLettersVars, toggleVars,
                   migrationsVars, budgetVars, calendarVars, searchVars, embeddingVars,
                   chunksVars, browserVars, catalogsVars, citationsVars, reviewVars >>

ErasureMoves ==
  /\ part = "erasure" /\ Erasure!Next
  /\ UNCHANGED << part, sessionsVars, linksVars, exportVars, deadLettersVars, toggleVars,
                   migrationsVars, budgetVars, calendarVars, searchVars, embeddingVars,
                   chunksVars, browserVars, catalogsVars, citationsVars, reviewVars >>

ExportMoves ==
  /\ part = "export" /\ Export!Next
  /\ UNCHANGED << part, sessionsVars, linksVars, erasureVars, deadLettersVars, toggleVars,
                   migrationsVars, budgetVars, calendarVars, searchVars, embeddingVars,
                   chunksVars, browserVars, catalogsVars, citationsVars, reviewVars >>

DeadLettersMoves ==
  /\ part = "dead_letters" /\ DeadLetters!Next
  /\ UNCHANGED << part, sessionsVars, linksVars, erasureVars, exportVars, toggleVars,
                   migrationsVars, budgetVars, calendarVars, searchVars, embeddingVars,
                   chunksVars, browserVars, catalogsVars, citationsVars, reviewVars >>

ToggleMoves ==
  /\ part = "providers" /\ Toggle!Next
  /\ UNCHANGED << part, sessionsVars, linksVars, erasureVars, exportVars, deadLettersVars,
                   migrationsVars, budgetVars, calendarVars, searchVars, embeddingVars,
                   chunksVars, browserVars, catalogsVars, citationsVars, reviewVars >>

MigrationsMoves ==
  /\ part = "migrations" /\ Migrations!Next
  /\ UNCHANGED << part, sessionsVars, linksVars, erasureVars, exportVars, deadLettersVars,
                   toggleVars, budgetVars, calendarVars, searchVars, embeddingVars,
                   chunksVars, browserVars, catalogsVars, citationsVars, reviewVars >>

BudgetMoves ==
  /\ part = "budget" /\ Planning!Next
  /\ UNCHANGED << part, sessionsVars, linksVars, erasureVars, exportVars, deadLettersVars,
                   toggleVars, migrationsVars, calendarVars, searchVars, embeddingVars,
                   chunksVars, browserVars, catalogsVars, citationsVars, reviewVars >>

CalendarMoves ==
  /\ part = "schedule" /\ Planning!Calendar!Next
  /\ UNCHANGED << part, sessionsVars, linksVars, erasureVars, exportVars, deadLettersVars,
                   toggleVars, migrationsVars, budgetVars, searchVars, embeddingVars,
                   chunksVars, browserVars, catalogsVars, citationsVars, reviewVars >>

SearchMoves ==
  /\ part = "search" /\ Passages!Search!Next
  /\ UNCHANGED << part, sessionsVars, linksVars, erasureVars, exportVars, deadLettersVars,
                   toggleVars, migrationsVars, budgetVars, calendarVars, embeddingVars,
                   chunksVars, browserVars, catalogsVars, citationsVars, reviewVars >>

EmbeddingMoves ==
  /\ part = "embedding" /\ Passages!Embedding!Next
  /\ UNCHANGED << part, sessionsVars, linksVars, erasureVars, exportVars, deadLettersVars,
                   toggleVars, migrationsVars, budgetVars, calendarVars, searchVars,
                   chunksVars, browserVars, catalogsVars, citationsVars, reviewVars >>

ChunksPartMoves ==
  /\ part = "chunks" /\ Passages!Chunking!Next
  /\ UNCHANGED << part, sessionsVars, linksVars, erasureVars, exportVars, deadLettersVars,
                   toggleVars, migrationsVars, budgetVars, calendarVars, searchVars,
                   embeddingVars, browserVars, catalogsVars, citationsVars, reviewVars >>

BrowserMoves ==
  /\ part = "browser" /\ Browser!Next
  /\ UNCHANGED << part, sessionsVars, linksVars, erasureVars, exportVars, deadLettersVars,
                   toggleVars, migrationsVars, budgetVars, calendarVars, searchVars,
                   embeddingVars, chunksVars, catalogsVars, citationsVars, reviewVars >>

CatalogsPartMoves ==
  /\ part = "catalogs" /\ CatalogsPart!Next
  /\ UNCHANGED << part, sessionsVars, linksVars, erasureVars, exportVars, deadLettersVars,
                   toggleVars, migrationsVars, budgetVars, calendarVars, searchVars,
                   embeddingVars, chunksVars, browserVars, citationsVars, reviewVars >>

CitationsMoves ==
  /\ part = "citations" /\ Passages!Next
  /\ UNCHANGED << part, sessionsVars, linksVars, erasureVars, exportVars, deadLettersVars,
                   toggleVars, migrationsVars, budgetVars, calendarVars, searchVars,
                   embeddingVars, chunksVars, browserVars, catalogsVars, reviewVars >>

ReviewMoves ==
  /\ part = "review" /\ Planning!Reviewing!Next
  /\ UNCHANGED << part, sessionsVars, linksVars, erasureVars, exportVars, deadLettersVars,
                   toggleVars, migrationsVars, budgetVars, calendarVars, searchVars,
                   embeddingVars, chunksVars, browserVars, catalogsVars, citationsVars >>

Next ==
  \/ SessionsPartMoves
  \/ LinksMoves
  \/ ErasureMoves
  \/ ExportMoves
  \/ DeadLettersMoves
  \/ ToggleMoves
  \/ MigrationsMoves
  \/ BudgetMoves
  \/ CalendarMoves
  \/ SearchMoves
  \/ EmbeddingMoves
  \/ ChunksPartMoves
  \/ BrowserMoves
  \/ CatalogsPartMoves
  \/ CitationsMoves
  \/ ReviewMoves

Spec == Init /\ [][Next]_vars

-----------------------------------------------------------------------------
(* The properties, as their modules state them, each looked at in the part that is its     *)
(* own: in the others its component stays where it began.                  *)

\* Of each module: every variable keeps its type.
TypesOK ==
  /\ part = "sessions" => SessionsPart!TypeOK
  /\ part = "links" => Links!TypeOK
  /\ part = "erasure" => Erasure!TypeOK
  /\ part = "export" => Export!TypeOK
  /\ part = "dead_letters" => DeadLetters!TypeOK
  /\ part = "providers" => Toggle!TypeOK
  /\ part = "migrations" => Migrations!TypeOK
  /\ part = "budget" => Planning!TypeOK
  /\ part = "schedule" => Planning!Calendar!TypeOK
  /\ part = "search" => Passages!Search!TypeOK
  /\ part = "embedding" => Passages!Embedding!TypeOK
  /\ part = "chunks" => Passages!Chunking!TypeOK
  /\ part = "browser" => Browser!TypeOK
  /\ part = "catalogs" => CatalogsPart!TypeOK
  /\ part = "citations" => Passages!TypeOK
  /\ part = "review" => Planning!Reviewing!TypeOK

\* Of Sessions: signing out everywhere ends every session.
SignedOutMeansOut ==
  part = "sessions" => SessionsPart!SignedOutMeansOut

\* Of Sessions: a sign-in has one live session, however often it is refreshed.
OneSessionPerSignIn ==
  part = "sessions" => SessionsPart!OneSessionPerSignIn

\* Of OneTimeLinks: the last link that was asked for is the one that works.
LastLinkWins ==
  part = "links" => Links!LastLinkWins

\* Of AccountData and AccountExport: an erasure leaves nothing behind, and an export leaves
\* nothing out.
AccountDataIsWhole ==
  /\ part = "erasure" => Erasure!NothingIsLeftBehind
  /\ part = "export" => Export!ExportIsComplete

\* Of DeadLetterList: an entry is in one place only, and in none for a reason.
EntriesAreMoved ==
  part = "dead_letters" => DeadLetters!EntriesAreMoved

\* Of ProviderToggle: one provider besides ollama stays on.
SomebodyServes ==
  part = "providers" => Toggle!SomebodyServes

\* Of SchemaMigrations: every way up and down applies, and ends where it should.
EveryPathApplies ==
  part = "migrations" => Migrations!EveryPathApplies

\* Of MonthlyBudget: the month is overspent by what was due when the last generation was let
\* in and by what is done again, and no cent is lost.
BudgetHolds ==
  part = "budget" => Planning!BudgetHolds

\* Of RoadmapReview and RoadmapSchedule: a draft is reviewed when it should be and never
\* lost to that, every item has a day of its module, and the modules fill the plan.
RoadmapHolds ==
  /\ part = "review" => Planning!Reviewing!ReviewHolds
  /\ part = "schedule" => Planning!Calendar!EveryItemHasItsDay

\* Of HybridSearch: what both lists found comes first, and only of the account's contents.
FusionIsSound ==
  part = "search" => Passages!Search!FusionIsSound

\* Of Chunker, EmbeddingCache and ItemSources: no text of a document is lost between its
\* chunks, each chunk gets its own vector, and an item cites what it was written from.
PassagesAreWhole ==
  /\ part = "chunks" => Passages!Chunking!NoTextIsLost
  /\ part = "embedding" => Passages!Embedding!VectorsKeepTheirPlaces
  /\ part = "citations" => Passages!CitationsHold

\* Of BrowserSession: a consent opens one session, and no session is locked out of its
\* writes.
SignInWorksOnceAndStays ==
  part = "browser" => Browser!SignInWorksOnceAndStays

\* Of Catalogs: what points at a catalog is accounted for.
PointersAreAccountedFor ==
  part = "catalogs" => CatalogsPart!PointersAreAccountedFor
=============================================================================
