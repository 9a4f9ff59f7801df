\* The same reservation delivered twice, to two handlers at a time.
CONSTANTS
  p1 = p1
  p2 = p2
  w1 = w1
  w2 = w2
  a1 = a1
  NoMsg = NoMsg
  Products = {p1, p2}
  Workers = {w1, w2}
  Moderators = {}
  ReserveMsgs = {"r1"}
  ReleaseMsgs = {}
  RpcMsgs = {}
  Items <- MCItems
  InitialStock <- AmpleStock
  Copies <- TwiceR1
SPECIFICATION Spec
INVARIANTS AppliedOnce
\* every message delivered and handled: nothing is left to do
CHECK_DEADLOCK FALSE
