\* Two guests sign up with one token at once.
SPECIFICATION Spec
CONSTANTS
  owner = owner
  a = a
  b = b
  p1 = p1
  p2 = p2
  g1 = g1
  g2 = g2
  None = None
  Owner = owner
  Names = {owner, a}
  Passwords = {p1}
  MaxSessions = 2
  MaxTokens = 1
  Guests = {g1, g2}
  UsesAsked <- UsesOne
  MaxTokenUses = 2
  FkModes = {TRUE}
  Lifespan = 1
  RenewGap = 1
  MaxTime = 0
  MaxAborts = 0
  MaxOverdraft = 2
SYMMETRY Symmetric
INVARIANTS
  UsesWithinGrant
CHECK_DEADLOCK FALSE
