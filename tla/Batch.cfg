SPECIFICATION Spec
CONSTANTS
  me = me
  other = other
  t = t
  p1 = p1
  p2 = p2
  None = None
  Me = me
  Ids = {p1, p2}
  Tags = {t}
  PermsAsked = {0, 3}
  RanksGiven = {1, 3}
  PosterRanks <- MCRanks
  Forms <- MCForms
  Tries = 2
  MaxChanges = 1
SYMMETRY Symmetric
CONSTRAINT TwoWorks
INVARIANTS
  TypeOK
  EveryPostAccountedFor
