SPECIFICATION FairSpec
CONSTANTS
  d1 = d1
  d2 = d2
  session = session
  line = line
  document = document
  a = a
  b = b
  Deleted = Deleted
  NoDevice = NoDevice
  NoEntity = NoEntity
  NoContent = NoContent
  NoRow = NoRow
  NoResult = NoResult
  NoConflict = NoConflict
  NoOp = NoOp
  Self = d1
  Devices = {d1, d2}
  Entities = {session}
  SoftEntities = {session}
  Contents = {a, b, Deleted}
  Parent <- MCParent
  Scope <- MCScope
  Requests <- MCRequests
  Others <- MCReword
  Faults = {"loss", "restart"}
  BatchSize = 2
  MaxSeq = 2
  MaxFeed = 3
PROPERTIES QueueDrains ReadsToTheEnd
