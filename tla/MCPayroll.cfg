SPECIFICATION Spec
CONSTANTS
  m1 = m1
  Salaries = {m1}
  NAdvances = 2
  Month <- MCMonth
  Gross = 3
  Amounts = {1, 2}
  Entered = {1}
  Settable = {"cancelled"}
  MaxDeductions = 4
  MaxPayments = 2
  Jobs = {j1}
INVARIANTS PayrollTypeOK RepaymentsAreDeductions AdvanceStatusIsTrue PaidOnce
PROPERTIES NeverMoreThanTheSalary
CHECK_DEADLOCK FALSE
