SPECIFICATION Spec
CONSTANTS
  main = main
  trip = trip
  driver = driver
  NoDriver = NoDriver
  NoRow = NoRow
  NoOp = NoOp
  Rows = {r1, r2}
  Receipts = {n1, n2}
  Sessions = {main, trip}
  DriverOf <- MCDriverOf
  Jobs = {j1, j2}
  Ops = {}
  MaxNo = 2
  Torn = FALSE
  Actions = {a1}
SYMMETRY Symmetry
INVARIANTS RowsInLiveSessions RowNumbersAreUnique FinancialStatusIsTrue
CHECK_DEADLOCK FALSE
