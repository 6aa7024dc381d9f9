\* One client at a time, no value to tell from another: every red-black tree
\* of up to six keys, and trees of ten keys in which the repair of a deletion
\* climbs before it rotates; every step of the loops that rebalance them.
SPECIFICATION FairSpec
CONSTANTS
  Keys = {1, 2, 3, 4, 5, 6, 7, 8, 9, 10}
  Values = {a}
  Callers = {c1}
  Updates <- NoUpdates
  Nil = Nil
  NULL = NULL
INVARIANTS
  TypeOK
  SearchTree
  Balanced
  FixInvariant
PROPERTIES
  LoopsClimb
  CallsReturn
CONSTRAINT SmallOrDeep
CHECK_DEADLOCK FALSE
