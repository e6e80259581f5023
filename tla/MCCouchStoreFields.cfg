\* Objects of two fields.
SPECIFICATION Spec
SYMMETRY Threads
CONSTANTS
  t1 = t1
  t2 = t2
  Client = {t1, t2}
  x = x
  y = y
  Value = {x, y}
  NumFields = 2
  MaxKey = 1
  MaxRev = 2
PROPERTIES ValuesStored
