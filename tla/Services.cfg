\* Every service around the ingestion and the generation, one after the other.
CONSTANTS
  q1 = q1
  q2 = q2
  r1 = r1
  r2 = r2
  s1 = s1
  t1 = t1
  t2 = t2
  opus = opus
  llama = llama
  Requests = {q1, q2}
  MaxSessions = 3
  MaxEndings = 1
  MaxLinks = 2
  Documents = {d1, d2}
  Replayable = {"documents.ingest"}
  Mails = {"emails.send"}
  Scripts = {s1, s2}
  MaxEntries = 2
  MaxGivenUp = 3
  MaxReplays = 2
  Providers = {claude, openai, ollama}
  Offline = ollama
  Configured = {claude, openai, ollama}
  Admins = {q1, q2}
  Tabs = {q1, q2}
  AccessLife = 1
  RefreshLife = 2
  MaxTokens = 2
  MaxConsents = 1
  Icons = {i1, i2}
  None = none
  Categories = {c1}
  Types = {t1}
  MaxAudits = 3
  Deliveries = {q1, q2}
  Linked = {d1}
  MaxTries = 2
  MaxEditions = 2
SPECIFICATION Spec
INVARIANTS
  TypesOK
  SignedOutMeansOut
  OneSessionPerSignIn
  LastLinkWins
  AccountDataIsWhole
  EntriesAreMoved
  SomebodyServes
  EveryPathApplies
  BudgetHolds
  RoadmapHolds
  FusionIsSound
  PassagesAreWhole
  SignInWorksOnceAndStays
  PointersAreAccountedFor
CHECK_DEADLOCK FALSE
