\* Two calls side by side on one chain, windows of one tick, a call that dies.
CONSTANTS
  claude = claude
  ollama = ollama
  c1 = c1
  c2 = c2
  Providers = {claude, ollama}
  Offline = ollama
  Disablings <- ClaudeOrNone
  Chains <- FallbackChain
  Calls = {c1, c2}
  MaxConcurrency = 2
  Threshold = 2
  ResetSeconds = 1
  MaxAborts = 1
SPECIFICATION FairSpec
INVARIANTS
  TypeOK
  OpensAtThreshold
  CountExpires
PROPERTIES
  BreakerRecovers
  EveryCallEnds
CHECK_DEADLOCK FALSE
