\* The promise of the object revisions.
SPECIFICATION Spec
SYMMETRY Threads
CONSTANTS
  t1 = t1
  t2 = t2
  Client = {t1, t2}
  x = x
  y = y
  Value = {x, y}
  MaxKey = 1
  MaxVersion = 3
INVARIANTS AtMostOneWinner
