\* update() with one dict entry and up to two keywords, of three mappings.
SPECIFICATION Spec
CONSTANTS
  Keys = {1, 2, 3}
  Values = {a}
  Updates <- SomeUpdates
  NULL = NULL
  Nil = Nil
  client = c1
INVARIANTS
  KeywordsPut
CHECK_DEADLOCK FALSE
