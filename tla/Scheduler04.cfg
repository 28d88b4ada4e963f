SPECIFICATION Spec
CONSTANTS
  UT = {u1, u2}
  Peers = {p1, p2}
  kt = kt
  mainUT = mainUT
  stub = stub
  extra = extra
  NULL = NULL
  MaxSem = 2
SYMMETRY Symmetry
INVARIANTS Consistent NoLostWakeup
PROPERTIES QueueFifo
CHECK_DEADLOCK FALSE
