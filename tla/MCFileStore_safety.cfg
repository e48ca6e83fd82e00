\* A source syncs while three requests upload and delete.
SPECIFICATION MCSpec
CONSTANTS
  d1 = d1
  d2 = d2
  d3 = d3
  d4 = d4
  Document = {d1, d2, d3, d4}
  Content = {c1, c2}
  Request = {r1, r2, r3}
  Sync = {s1}
  Home <- MCHome
  Source <- OneSource
  Null = Null
  Deleted = Deleted
  Limit = 2
  Part = {"files", "readers", "writers", "original", "backup"}
  Actor = {user, anyone, key}
  Collection = {personal, public}
  File = {"open", "secret"}
  Role = {"employee", "executive"}
  Tenant = {personal, public}
  Doc = {d1}
  Call = {c1, c2}
  Kind <- MCKind
  Of <- MCOf
  Browser = {}
  HomeOf <- MCHomeOf
  Service = {public}
  PublicTenant = public
  Labels <- MCLabels
  Sees <- MCSees
  MaxSources = 1
  user = user
  anyone = anyone
  key = key
  personal = personal
  public = public
  MaxVersions = 3
SYMMETRY Interchangeable
INVARIANTS UploadsStored OriginalsHold BackupsHold
PROPERTIES FilesHold AccessHolds
CHECK_DEADLOCK FALSE
