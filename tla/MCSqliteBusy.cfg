\* Two threads on one connection and one on another, with a call each.
SPECIFICATION Spec
CONSTANTS
  Client = {"t1", "t2", "t3"}
  Connection = {"own", "shared"}
  Sharing = {"t2", "t3"}
  ConnOf <- MCConnOf
  Timeout = 3
  Many = 1
  Few = 1
  Calls <- MCCalls
  Endless = FALSE
INVARIANTS TypeOK PatienceKept
PROPERTIES StepsReturn
