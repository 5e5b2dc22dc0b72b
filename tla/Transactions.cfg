\* Two requests with a session and a guest, whose clients may hang up, on two
\* connections of which one is kept idle.
SPECIFICATION FairSpec
CONSTANTS
  a1 = a1
  a2 = a2
  g1 = g1
  c1 = c1
  c2 = c2
  c3 = c3
  None = None
  Auth = {a1, a2}
  Guests = {g1}
  Conns = {c1, c2}
  MaxIdle = 1
  MaxSteps = 1
  SessionStates = {"valid", "due", "expired"}
  Cancels = TRUE
INVARIANTS
  TypeOK
  OwnConnection
  OwnTransaction
PROPERTIES
  AtomicSpec
  ConnectionsReturned
CHECK_DEADLOCK FALSE
