SPECIFICATION Spec
CONSTANTS
  u1 = u1
  u2 = u2
  k1 = k1
  k2 = k2
  UT = {u1, u2, u3, u4}
  KT = {k1, k2}
  home <- MCHome
  NULL = NULL
  Programs = {{"ownerlock"}}
  MaxDepth = 2
  MaxCount = 2
INVARIANTS OwnerReleaseResult
