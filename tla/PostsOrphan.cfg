\* The account that posted something is deleted.
SPECIFICATION Spec
CONSTANTS
  owner = owner
  a = a
  t1 = t1
  r1 = r1
  r2 = r2
  None = None
  Names = {owner, a}
  Owner = owner
  Guest = Guest
  Tags = {t1}
  MaxPosts = 1
  MaxFiles = 1
  Requests = {r1}
  PermsAsked = {0, 2}
  RanksGiven = {1, 3}
  FkModes = {TRUE}
  MaxFaults = 0
INVARIANTS
  ChangedByPosterOrAdministrator
CHECK_DEADLOCK FALSE
