\* close() called while a recv() allocates its tuple
SPECIFICATION Spec
CONSTANTS
  Sizes = {2}
  IntMax = 7
  Items = {x1}
  Callers = {c1, c2}
  NULL = NULL
PROPERTIES
  RflagAsserted
CHECK_DEADLOCK FALSE
