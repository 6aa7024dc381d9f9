\* One client, one key, a clock of two ticks a second.
SPECIFICATION Spec
CONSTANTS
  Keys = {k1}
  Values = {a}
  Callers = {c1}
  Ttls = {1}
  Updates <- NoUpdates
  NULL = NULL
  Second = 2
  IntMax = 3
  MaxNow = 4
PROPERTIES
  Unreachable
CHECK_DEADLOCK FALSE
