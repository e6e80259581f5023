\* Threads with a connection each.
SPECIFICATION Spec
SYMMETRY Threads
CONSTANTS
  t1 = t1
  t2 = t2
  Client = {t1, t2}
  Connection = {t1, t2}
  Shared = FALSE
  ConnOf <- MCConnOf
  MaxKey = 2
  MaxRevision = 2
INVARIANTS TypeOK AtMostOneWinner OutcomeIsTrue
PROPERTIES AppliedIffCurrent KeepsPromise
