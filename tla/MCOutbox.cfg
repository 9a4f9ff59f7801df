\* Two runs at a time, four rows of three transactions, batches of two.
CONSTANTS
  e1 = e1
  e2 = e2
  e3 = e3
  e4 = e4
  r1 = r1
  r2 = r2
  NoRow = NoRow
  Rows = {e1, e2, e3, e4}
  Txns <- MCTxns
  CreatedAt <- MCCreatedAt
  Batch = 2
  Runs = {r1, r2}
SPECIFICATION OutboxFairSpec
INVARIANTS HandedBeforeMarked FirstHandedInOrder
PROPERTIES EveryRowMarked
\* every row is committed and marked
CHECK_DEADLOCK FALSE
