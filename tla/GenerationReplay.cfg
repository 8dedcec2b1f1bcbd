\* Two item tasks of one run side by side, replayed from the dead letter.
CONSTANTS
  r1 = r1
  i1 = i1
  i2 = i2
  w1 = w1
  w2 = w2
  norun = norun
  nojob = nojob
  Runs = {r1}
  Items = {i1, i2}
  Workers = {w1, w2}
  NoRun = norun
  NoJob = nojob
  RoadmapSizes = {2}
  MaxRetries = 0
  Faults = {}
  MaxFaults = 0
  MaxReplays = 1
SPECIFICATION FairSpec
PROPERTIES
  RunningEnds
CHECK_DEADLOCK FALSE
