SPECIFICATION FairSpec
CONSTANTS
  a = a
  b = b
  e1 = e1
  e2 = e2
  Accounts = {a, b}
  EmailsOf <- MCEmailsOf
  RowIds = {1, 2}
  Workers = {w1, w2}
  None = None
  MaxEdits = 3
  MaxCrashes = 1
INVARIANTS OneIdentity
PROPERTIES Known
CHECK_DEADLOCK FALSE
