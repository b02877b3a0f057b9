SPECIFICATION Spec
CONSTANTS
  t1 = t1
  t2 = t2
  t3 = t3
  r1 = r1
  r2 = r2
  NoRow = NoRow
  Transactions = {t1, t2, t3}
  Rows = {r1, r2}
  PullSize = 2
  MaxDrawn = 5
SYMMETRY MCSymmetry
INVARIANTS FeedTypeOK RowsAreReadInOrder
