\* Two files, sent together or apart, and a thumbnail, with one converter slot; a
\* converter gets stuck, the server restarts.
SPECIFICATION FairSpec
CONSTANTS
  f1 = f1
  f2 = f2
  t1 = t1
  None = None
  Files = {f1, f2}
  Thumbs = {t1}
  Types = {"image/png", "image/gif", "text/plain"}
  AllowedTypes = {"image/png", "image/gif"}
  Matching <- MatchingKeys
  KeySize <- ImageKeys
  MaxFileSize = 2
  MaxBodySize = 4
  MaxFiles = 2
  Sizes = {2, 3}
  Slots = 1
  MaxStuck = 1
  MaxRestarts = 1
INVARIANTS
  TypeOK
  TemporaryFilesGo
  UploadsLeaveAllOrNothing
  SlotsConserved
PROPERTIES
  StoreSpec
  UploadsEnd
CHECK_DEADLOCK FALSE
