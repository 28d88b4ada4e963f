SPECIFICATION FairSpec
CONSTANTS
  UT = {u1, u2, u3}
  Creators = {p1, p2}
  CacheSize = 2
  NULL = NULL
INVARIANTS Consistent TouchesLive
PROPERTIES JoinAfterEnd JoinCompletes
CHECK_DEADLOCK FALSE
