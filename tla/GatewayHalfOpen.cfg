\* Calls one after the other or side by side, windows of two ticks, nothing dies.
CONSTANTS
  claude = claude
  ollama = ollama
  c1 = c1
  c2 = c2
  Providers = {claude, ollama}
  Offline = ollama
  Disablings <- ClaudeOrNone
  Chains <- FallbackChain
  Calls = {c1, c2}
  MaxConcurrency = 2
  Threshold = 2
  ResetSeconds = 2
  MaxAborts = 0
SPECIFICATION Spec
PROPERTIES
  TrialFailureReopens
CHECK_DEADLOCK FALSE
