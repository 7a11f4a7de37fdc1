SPECIFICATION Spec
CONSTANTS
  Providers = {1, 2}
  Threads = {1, 2}
  Reports <- Serial
  Quality <- Ranking
  FailureThreshold = 2
  OpenDuration = 2
  RateLimitInputs = {"available", "exhausted"}
  MaxTime = 3
  MaxSelections = 1
INVARIANTS TypeOK 
PROPERTIES CoolDownIsRespected
