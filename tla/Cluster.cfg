SPECIFICATION FairSpec
CONSTANTS
  KT = {k0, k1, k2}
  defaultKT = k0
  UT = {u1, u2}
  initUT = u1
  C = {c0, c1}
  defaultC = c0
  Garbage = {5}
  NULL = NULL
INVARIANTS IndexInRange RunsInItsCluster IInv
PROPERTIES ReadyRuns
