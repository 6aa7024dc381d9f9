\* Two frames: a call that Python code makes while another one is inside the
\* map, on trees of up to three keys.
SPECIFICATION Spec
CONSTANTS
  Keys = {1, 2, 3}
  Values = {a, b}
  Callers = {c1, c2}
  Updates <- SomeUpdates
  Nil = Nil
  NULL = NULL
INVARIANTS
  LengthCounts
  NoFault
  SentinelCounted
  OverlapExplains
PROPERTIES
  IsDict
SYMMETRY Symmetry
VIEW Unanswered
CONSTRAINT InContract
CHECK_DEADLOCK FALSE
