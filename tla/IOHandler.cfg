SPECIFICATION FairSpec
CONSTANTS
  u1 = u1
  u2 = u2
  c1 = c1
  c2 = c2
  UT = {u1, u2}
  Conn = {c1, c2}
  PD = {p1, p2}
  Programs <- MCPrograms
  poller = poller
  NULL = NULL
  READY = READY
INVARIANTS Consistent NoLostNotification OnePlace
PROPERTIES ReadyRuns
CHECK_DEADLOCK FALSE
