SPECIFICATION Spec
CONSTANTS
  d1 = d1
  d2 = d2
  session = session
  line = line
  document = document
  a = a
  b = b
  Deleted = Deleted
  NoDevice = NoDevice
  NoEntity = NoEntity
  NoContent = NoContent
  NoRow = NoRow
  NoResult = NoResult
  NoConflict = NoConflict
  NoOp = NoOp
  Self = d1
  Devices = {d1, d2}
  Entities = {session, line}
  SoftEntities = {session, line}
  Contents = {a, b, Deleted}
  Parent <- MCParent
  Scope <- MCScope
  Requests <- MCRequests
  Others <- MCNobody
  Faults = {"edit", "undo", "review"}
  BatchSize = 2
  MaxSeq = 3
  MaxFeed = 4
INVARIANTS Converged ReadRowsAreTrue
