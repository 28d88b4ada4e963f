SPECIFICATION FairSpec
CONSTANTS
  W = {w1, w2, w3, w4}
  Task = {t1, t2, t3, t4}
  NULL = NULL
INVARIANTS Consistent NoStrandedTask
PROPERTIES TaskRuns
CHECK_DEADLOCK FALSE
