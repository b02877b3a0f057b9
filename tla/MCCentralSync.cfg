SPECIFICATION CentralSpec
CONSTANTS
  d1 = d1
  d2 = d2
  session = session
  line = line
  document = document
  a = a
  b = b
  Deleted = Deleted
  NoDevice = NoDevice
  NoEntity = NoEntity
  NoContent = NoContent
  NoRow = NoRow
  NoResult = NoResult
  NoConflict = NoConflict
  Devices = {d1, d2}
  Entities = {session, line, document}
  Contents = {a, b, Deleted}
  SoftEntities = {session, line}
  Parent <- MCParent
  Scope <- MCScope
  Requests <- MCRequests
  MaxSeq = 1
  MaxFeed = 3
INVARIANTS CentralTypeOK FeedRebuildsRows SoftVersionsGrow ConflictsHaveACase OriginIsLastDevice
PROPERTIES DecidesOnce
