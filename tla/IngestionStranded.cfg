\* As IngestionCrashes, but the dead worker's message may return before the row
\* is stale.
CONSTANTS
  d1 = d1
  w1 = w1
  nodoc = nodoc
  w2 = w2
  Documents = {d1}
  Workers = {w1}
  NoDocument = nodoc
  MaxRetries = 1
  Faults = {"worker_crash", "early_redelivery"}
  MaxFaults = 1
  MaxReplays = 0
SPECIFICATION FairSpec
PROPERTY ProcessingIsTakenOver
CHECK_DEADLOCK FALSE
