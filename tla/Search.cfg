\* A reader walks through three posts, one on each page, while two changes are made.
SPECIFICATION Spec
CONSTANTS
  owner = owner
  a = a
  guest = guest
  lower = lower
  upper = upper
  other = other
  bad = bad
  None = None
  Names = {owner, a}
  Owner = owner
  Guest = guest
  Tags = {lower, upper, other, bad}
  LegalTags = {lower, upper, other}
  Prefixed = {{lower, upper}, {lower, upper, other}}
  Fold <- MCFold
  MaxPosts = 3
  OldPosts = {1, 2}
  OldTags = {{lower}}
  Size <- MCSize
  Queries <- MCQueries
  Walks <- MCWalks
  QueryTagLimit = 2
  PageCountLimit = 2
  PageSize = 1
  Wrap = 8
  SearchTagLimit = 1
  PermsAsked = {0, 3}
  RanksGiven = {3}
  MaxChanges = 2
INVARIANTS
  TypeOK
  FoundExactly
  PagesPartition
  MissesAtMostWhatLeft
  TagsCounted
  ButtonsWork
CHECK_DEADLOCK FALSE
