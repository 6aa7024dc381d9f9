\* One client, a cache of two entries, a clock.
SPECIFICATION Spec
CONSTANTS
  Keys = {k1, k2, k3}
  Values = {a}
  Callers = {c1}
  Capacities = {2}
  Updates <- NoUpdates
  NULL = NULL
  DefaultVisits = 1
  DecayEvery = 1
  BucketNum = 2
  BucketSize = 3
  MaxVisits = 3
  MaxMinutes = 2
PROPERTIES
  EvictRaises
CHECK_DEADLOCK FALSE
