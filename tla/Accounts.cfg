\* Two guests sign up and in at once; or the clock runs and passwords change beside one
\* guest; or three accounts promote and delete each other.
SPECIFICATION Spec
CONSTANTS
  owner = owner
  a = a
  b = b
  p1 = p1
  p2 = p2
  g1 = g1
  g2 = g2
  None = None
  Owner = owner
  Names = {owner, a, b}
  Passwords = {p1, p2}
  MaxSessions = 2
  MaxTokens = 1
  Guests = {g1, g2}
  UsesAsked <- UsesMixed
  MaxTokenUses = 2
  FkModes = {TRUE, FALSE}
  Lifespan = 2
  RenewGap = 1
  MaxTime = 4
  MaxAborts = 1
  MaxOverdraft = 2
SYMMETRY Symmetric
CONSTRAINT OneAtATime
INVARIANTS
  TypeOK
  ClaimsWithinGrant
  ExhaustedTokensPurged
  PasswordChangeEvicts
PROPERTIES
  RankAuthority
  PasswordOnlyByOwnSession
  RenewalDiscipline
CHECK_DEADLOCK FALSE
