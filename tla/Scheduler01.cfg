SPECIFICATION FairSpec
CONSTANTS
  KT = {k1, k2}
  UT = {u1, u2, u3}
  mainUT = mainUT
  Anchor = Anchor
  NULL = NULL
INVARIANTS Consistent StackKept NoLostWakeup
PROPERTIES QueuedRuns
