\* A session has expired; nobody hangs up.
SPECIFICATION Spec
CONSTANTS
  a1 = a1
  a2 = a2
  g1 = g1
  c1 = c1
  c2 = c2
  c3 = c3
  None = None
  Auth = {a1, a2}
  Guests = {g1}
  Conns = {c1, c2, c3}
  MaxIdle = 1
  MaxSteps = 2
  SessionStates = {"valid", "due", "expired"}
  Cancels = FALSE
INVARIANTS
  GuestsOutsideTransactions
CHECK_DEADLOCK FALSE
