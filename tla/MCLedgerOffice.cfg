SPECIFICATION Spec
CONSTANTS
  main = main
  trip = trip
  driver = driver
  NoDriver = NoDriver
  NoRow = NoRow
  NoOp = NoOp
  Rows = {r1, r2}
  Receipts = {n1}
  Sessions = {main, trip}
  DriverOf <- MCDriverOf
  Jobs = {j1}
  Ops = {o1}
  MaxNo = 2
  Torn = FALSE
  Actions = {}
INVARIANTS OfficeTypeOK FinancialStatusIsTrue
PROPERTIES LoadedRowsStay
CHECK_DEADLOCK FALSE
