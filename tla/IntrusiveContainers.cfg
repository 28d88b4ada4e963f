SPECIFICATION Spec
CONSTANTS
  E = {e1, e2, e3, e4}
  Stacks = {a, b}
  Queues = {c, d}
  Lists = {x, y}
  MaxCount = 3
  NULL = NULL
INVARIANTS WellLinked
PROPERTIES Implements
