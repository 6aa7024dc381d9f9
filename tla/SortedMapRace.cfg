\* A second call changes the map while the first one compares two keys.
SPECIFICATION Spec
CONSTANTS
  Keys = {1, 2, 3, 4}
  Values = {a}
  Callers = {c1, c2}
  Updates <- NoUpdates
  Nil = Nil
  NULL = NULL
INVARIANTS
  KeysSorted
SYMMETRY Symmetry
CONSTRAINT Growing
CHECK_DEADLOCK FALSE
