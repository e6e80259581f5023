\* What the backend keeps to in spite of a revision that stays 0.
SPECIFICATION Spec
SYMMETRY Threads
CONSTANTS
  t1 = t1
  t2 = t2
  Client = {t1, t2}
  x = x
  y = y
  Value = {x, y}
  MaxKey = 1
  MaxVersion = 2
INVARIANTS TypeOK DeletedOnce OutcomeIsTrue
