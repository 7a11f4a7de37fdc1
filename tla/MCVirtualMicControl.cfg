SPECIFICATION FairSpec
CONSTANTS
  Threads = {t1, t2}
  Files = {f1, f2}
  Processes = {p1, p2}
  Generations = {g1, g2}
  Sections = {s1}
  None = None
INVARIANTS TypeOK RealtimeReadsLiveSession NothingLeaks
PROPERTIES OnlyTheOwnerDisconnects StateIsReleased
CHECK_DEADLOCK FALSE
