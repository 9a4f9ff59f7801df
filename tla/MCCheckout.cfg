CONSTANTS
  o1 = o1
  o2 = o2
  o3 = o3
  p1 = p1
  p2 = p2
  w1 = w1
  w2 = w2
  c1 = c1
  c2 = c2
  Orders = {o1, o2}
  Products = {p1, p2}
  Carts <- TwoCarts
  Messages <- EventsToOrders
  Ids <- EventIds
  Copies <- NothingSent
  Lines <- MCLines
  InitialStock <- MCStock
  SellerMoves = {"APPROVED", "REJECTED"}
  MaxSellerRequests = 1
  MaxPayments <- MCPayments
  MaxRepeats = 1
  CatalogWorkers = {c1, c2}
  Workers = {w1, w2}
SPECIFICATION CheckoutSpec
INVARIANTS CheckoutTypeOK FulfilledHeld
PROPERTIES SellsAsPromised
SYMMETRY Handlers
CHECK_DEADLOCK FALSE
