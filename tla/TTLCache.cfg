\* Two frames, two keys, a clock of two ticks a second; a ttl of three seconds
\* overflows from the second second on.
SPECIFICATION Spec
CONSTANTS
  Keys = {k1, k2}
  Values = {a}
  Callers = {c1, c2}
  Ttls = {1, 3}
  Updates <- SomeUpdates
  NULL = NULL
  Second = 2
  IntMax = 3
  MaxNow = 4
SYMMETRY Symmetry
CONSTRAINT InContract
VIEW Unanswered
INVARIANTS
  TypeOK
  NoFault
PROPERTIES
  Fresh
  
  IsExpiring
CHECK_DEADLOCK FALSE
