\* Overlapping deliveries: a message restored under a living worker, a run
\* slower than the staleness threshold, crashes, retries, and writes refused in
\* the failure path.
CONSTANTS
  d1 = d1
  w1 = w1
  w2 = w2
  nodoc = nodoc
  Documents = {d1}
  Workers = {w1, w2}
  NoDocument = nodoc
  MaxRetries = 1
  Faults = {"duplicate_delivery", "slow_worker", "write_failure", "worker_crash", "api_crash"}
  MaxFaults = 2
  MaxReplays = 1
SPECIFICATION Spec
INVARIANTS
  TypeOK
  IndexedMeansSearchable
PROPERTY
  ImplementsLifecycle
CONSTRAINT FewContents
SYMMETRY WorkerSymmetry
CHECK_DEADLOCK FALSE
