\* Every component that promises to end something, one after the other.
CONSTANTS
  Runs = {r1}
  Items = {i1, i2}
  NoRun = norun
  NoJob = nojob
  RoadmapSizes = {2}
  Workers = {w1, w2}
  Crashers = {w1}
  Ingester = w1
  Documents = {d1}
  NoDocument = nodoc
  MaxRetries = 1
  MaxFaults = 1
  OverlappingReplays = 0
  MaxReplays = 1
  Attempts = {a1, a2}
  Clients = {c1}
  MaxAttempts = 2
  Window = 1
  MaxDeaths = 1
SPECIFICATION FairSpec
INVARIANTS
  TypeOK
  CompletedMeansAllWritten
  NoItemIsForgotten
  FailedRunHasNoItems
  NoSilentFailure
  PendingIsQueued
  NewestContentIsIndexed
  VersionsAreUnique
  FailuresAreBounded
PROPERTIES
  ImplementsLifecycle
  EveryRunEnds
  IndexedIsNotReprocessed
  EveryDocumentSettles
  LockoutEnds
CHECK_DEADLOCK FALSE
