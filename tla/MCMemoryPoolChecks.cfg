\* The pool with its checks.
SPECIFICATION Spec
CONSTANTS
  t1 = t1
  Client = {t1}
  Checks = TRUE
  ObjectSizes = {1}
  NumObjects = 2
  PageSize = 8
  MaxBlocks = 2
  Scarce = FALSE
INVARIANTS AssertionsHold
