\* Two frames, a cache that is walked in full until it has three entries, and
\* sampled then; calls that overlap as they like are explored too.
SPECIFICATION Spec
CONSTANTS
  Keys = {k1, k2, k3}
  Values = {a, b}
  Callers = {c1, c2}
  Capacities = {1, 2, 3}
  Updates <- SomeUpdates
  NULL = NULL
  DefaultVisits = 1
  DecayEvery = 1
  BucketNum = 2
  BucketSize = 3
  MaxVisits = 2
  MaxMinutes = 1
SYMMETRY Symmetry
CONSTRAINT Bounded
VIEW Unanswered
INVARIANTS
  TypeOK
  WithinCapacity
  Overshoot
  NoFault
PROPERTIES
  EvictsLeast
  
CHECK_DEADLOCK FALSE
