SPECIFICATION FairSpec
CONSTANTS
  None = None
  Records = {r1, r2}
  Devices = {d1}
  Slots = {s1, s2}
INVARIANT OutcomeIsTrue
PROPERTY TokenIsCleared
