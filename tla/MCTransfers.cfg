SPECIFICATION Spec
CONSTANTS
  MaxVouchers = 2
  Jobs = {j1}
  Approvals = {a1, a2}
  Amounts = {1, 2}
  MaxBalance = 2
  Transfers = {t1}
SYMMETRY Symmetry
INVARIANTS MoneyTypeOK StatusFollowsEntries BalanceIsTrue CancelledTransfersAreCleared
PROPERTIES SettledOnBothSides
CHECK_DEADLOCK FALSE
