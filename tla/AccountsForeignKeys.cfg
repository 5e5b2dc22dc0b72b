\* Only one pooled connection enforces foreign keys.
SPECIFICATION Spec
CONSTANTS
  owner = owner
  a = a
  b = b
  p1 = p1
  p2 = p2
  g1 = g1
  g2 = g2
  None = None
  Owner = owner
  Names = {owner, a}
  Passwords = {p1}
  MaxSessions = 2
  MaxTokens = 1
  Guests = {g1}
  UsesAsked <- UsesOne
  MaxTokenUses = 2
  FkModes = {TRUE, FALSE}
  Lifespan = 1
  RenewGap = 1
  MaxTime = 0
  MaxAborts = 0
  MaxOverdraft = 2
SYMMETRY Symmetric
INVARIANTS
  ReferentialIntegrity
CHECK_DEADLOCK FALSE
