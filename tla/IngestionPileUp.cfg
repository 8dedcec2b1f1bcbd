\* One crash between index_content and the INDEXED commit.
CONSTANTS
  d1 = d1
  w1 = w1
  nodoc = nodoc
  w2 = w2
  Documents = {d1}
  Workers = {w1}
  NoDocument = nodoc
  MaxRetries = 1
  Faults = {"worker_crash"}
  MaxFaults = 1
  MaxReplays = 0
SPECIFICATION Spec
INVARIANT ReingestionReplaces
CHECK_DEADLOCK FALSE
