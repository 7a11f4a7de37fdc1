SPECIFICATION Spec
CONSTANTS
  Threads = {t1, t2}
  Files = {f1}
  Processes = {p1}
  Generations = {g1}
  Sections = {s1}
  None = None
INVARIANT NoOrphanedConnection
CHECK_DEADLOCK FALSE
