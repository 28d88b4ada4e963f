SPECIFICATION FairSpec
CONSTANTS
  UT = {u1, u2}
  Peers = {p1}
  kt = kt
  poller = poller
  mainUT = mainUT
  stub = stub
  NULL = NULL
  SEM_VALUE_MAX = 2
  MaxBulk = 2
INVARIANTS NoLostWakeup WellLinked ExactlyOnePlace IInv
PROPERTIES ImplementsReadyQueue QueuedRuns
CHECK_DEADLOCK FALSE
