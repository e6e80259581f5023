\* Objects of one field.
SPECIFICATION Spec
SYMMETRY Threads
CONSTANTS
  t1 = t1
  t2 = t2
  Client = {t1, t2}
  x = x
  y = y
  Value = {x, y}
  NumFields = 1
  MaxKey = 1
  MaxRev = 3
INVARIANTS TypeOK OutcomeIsTrue
PROPERTIES ValuesStored KeepsPromise
