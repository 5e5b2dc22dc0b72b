\* Two requests that upload, delete, tag or show thumbnails of two posts, in one or
\* two uploads, while accounts come and go and one thing goes wrong.
SPECIFICATION Spec
CONSTANTS
  owner = owner
  a = a
  t1 = t1
  r1 = r1
  r2 = r2
  None = None
  Names = {owner, a}
  Owner = owner
  Guest = Guest
  Tags = {t1}
  MaxPosts = 2
  MaxFiles = 2
  Requests = {r1, r2}
  PermsAsked = {0, 2}
  RanksGiven = {3}
  FkModes = {TRUE, FALSE}
  MaxFaults = 1
CONSTRAINT OneAtATime
SYMMETRY Symmetric
INVARIANTS
  TypeOK
  PostsHaveFiles
  CheckedUntilCommit
  FilesAccountedFor
  ThumbnailsOfSavedPosts
CHECK_DEADLOCK FALSE
