\* A worker dies after the roadmap of its task was committed.
CONSTANTS
  r1 = r1
  i1 = i1
  i2 = i2
  w1 = w1
  w2 = w2
  norun = norun
  nojob = nojob
  Runs = {r1}
  Items = {i1, i2}
  Workers = {w1, w2}
  NoRun = norun
  NoJob = nojob
  RoadmapSizes = {1}
  MaxRetries = 0
  Faults = {"roadmap_failure"}
  MaxFaults = 1
  MaxReplays = 0
SPECIFICATION Spec
INVARIANTS
  OneRoadmapPerRun
CHECK_DEADLOCK FALSE
