\* Two handlers at a time, every message delivered twice, two seller requests.
CONSTANTS
  o1 = o1
  w1 = w1
  w2 = w2
  Orders = {o1}
  Carts <- One
  Ids <- AllIds
  Messages <- OneMessages
  Copies <- TwiceEach
  SellerMoves <- SellersAsk
  MaxSellerRequests = 2
  Workers = {w1, w2}
SPECIFICATION Spec
INVARIANTS TypeOK EveryMoveJustified FulfilmentPaid RecordedTookEffect ReleaseFinal
PROPERTIES Lifecycle
SYMMETRY Handlers
\* every message delivered and the seller's requests used up
CHECK_DEADLOCK FALSE
