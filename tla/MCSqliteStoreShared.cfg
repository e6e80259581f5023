\* Threads that share one connection.
SPECIFICATION Spec
SYMMETRY Threads
CONSTANTS
  t1 = t1
  t2 = t2
  t3 = t3
  Client = {t1, t2, t3}
  Connection = {n1}
  n1 = n1
  Shared = TRUE
  ConnOf <- MCConnOf
  MaxKey = 2
  MaxRevision = 2
INVARIANTS AtMostOneWinner
