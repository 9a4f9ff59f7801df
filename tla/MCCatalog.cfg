\* Two handlers at a time, a duplicate, an opposite lock order, a moderator.
CONSTANTS
  p1 = p1
  p2 = p2
  w1 = w1
  w2 = w2
  a1 = a1
  NoMsg = NoMsg
  Products = {p1, p2}
  Workers = {w1, w2}
  Moderators = {a1}
  ReserveMsgs = {"r1"}
  ReleaseMsgs = {"c1"}
  RpcMsgs = {"q1"}
  Items <- MCItems
  InitialStock <- MCStock
  Copies <- TwiceR1
SPECIFICATION FairSpec
INVARIANTS TypeOK StockNonNegative RowsIsolated RepliesBacked
PROPERTIES HandlersConserveStock Serializable HandlersEnd
\* every message delivered and handled: nothing is left to do
CHECK_DEADLOCK FALSE
