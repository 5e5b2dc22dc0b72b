\* An owner, an administrator and a third account, none of them in a hurry.
SPECIFICATION Spec
CONSTANTS
  owner = owner
  a = a
  b = b
  p1 = p1
  p2 = p2
  g1 = g1
  g2 = g2
  None = None
  Owner = owner
  Names = {owner, a, b}
  Passwords = {p1}
  MaxSessions = 3
  MaxTokens = 2
  Guests = {g1}
  UsesAsked <- UsesOne
  MaxTokenUses = 2
  FkModes = {TRUE}
  Lifespan = 1
  RenewGap = 1
  MaxTime = 0
  MaxAborts = 0
  MaxOverdraft = 2
SYMMETRY Symmetric
PROPERTIES
  PromotedBelow
CHECK_DEADLOCK FALSE
