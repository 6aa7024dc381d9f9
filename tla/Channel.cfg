\* Sizes of both kinds (1, 2 and 4 are powers of two), the largest of each
\* kind that the 4-bit integers allow, and 5, which is too large.
SPECIFICATION Spec
CONSTANTS
  Sizes = {1, 2, 3, 4, 5}
  IntMax = 7
  Items = {x1, x2}
  Callers = {c1, c2}
  NULL = NULL
INVARIANTS
  TypeOK
  CursorsInRange
  Window
  NoFault
  RefsBalanced
PROPERTIES
  IsQueue
SYMMETRY Symmetry
CONSTRAINT InContract
\* a memory error ends the program
CHECK_DEADLOCK FALSE
