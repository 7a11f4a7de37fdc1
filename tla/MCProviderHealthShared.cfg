SPECIFICATION Spec
CONSTANTS
  Providers = {1}
  Threads = {1, 2}
  Reports <- Shared
  Quality <- Ranking
  FailureThreshold = 2
  OpenDuration = 2
  RateLimitInputs = {"available", "exhausted"}
  MaxTime = 3
  MaxSelections = 1
INVARIANT OpenCircuitIsNotRouted
