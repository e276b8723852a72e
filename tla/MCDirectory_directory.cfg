SPECIFICATION FairSpec
CONSTANTS
  Ids = {i1, i2, i3}
  Keys = {k1, k2}
  Names = {n1}
  Labels = {l1}
  Roles <- OneOfEach
  Workers = {w1, w2}
  None = None
INVARIANTS
  DirectoryTypeOK
  AuthorityStartsAtSeed
PROPERTIES
  SeedsAreSafe
  SeedTakesEffect
  RevocationTakesHold
  ActsByName
