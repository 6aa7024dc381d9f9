\* clear() on a channel of more than one slot, one caller at a time
SPECIFICATION Spec
CONSTANTS
  Sizes = {2}
  IntMax = 7
  Items = {x1}
  Callers = {c1}
  NULL = NULL
INVARIANTS
  ItemAsserted
CHECK_DEADLOCK FALSE
