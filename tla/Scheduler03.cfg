SPECIFICATION FairSpec
CONSTANTS
  UT = {u1, u2, u3, u4}
  mainUT = mainUT
  NULL = NULL
  Bulk = 3
INVARIANTS Consistent NoLostWakeup
PROPERTIES QueuedRuns
