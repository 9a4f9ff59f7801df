\* One row and the workers of two processes; it is read meanwhile.
CONSTANTS
  u1 = u1
  n1 = n1
  c1 = c1
  i1 = i1
  i2 = i2
  r1 = r1
  r2 = r2
  Notes = {n1}
  Recipients = {u1}
  Owner <- OneOwner
  Rows = {c1}
  Of <- OneNote
  InApp = {}
  MaxRetries = 1
  Batch = 1
  Instances = {i1, i2}
  Runs = {r1, r2}
  Host <- OneEach
  Steady = {i1}
  Readers = {"q1"}
  MaxReads = 1
SPECIFICATION DeliveriesFairSpec
INVARIANTS DeliveriesTypeOK  SentWasDelivered
PROPERTIES DeliveriesSettle
CHECK_DEADLOCK FALSE
