\* The pool without its checks.  Pages of 3 words: a block of one page has 2
\* slots of 1 word or 1 of 2 words, a block of two pages 1 slot of 3 words.
SPECIFICATION Spec
SYMMETRY Threads
CONSTANTS
  t1 = t1
  t2 = t2
  Client = {t1, t2}
  Checks = FALSE
  ObjectSizes = {0, 1, 2, 3}
  NumObjects = 1
  PageSize = 3
  MaxBlocks = 3
  Scarce = TRUE
INVARIANTS TypeOK FreeListRight BlocksReachable ObjectsIntact FreedWhereMade
